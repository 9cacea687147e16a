\* Two calls at a time, each of which may fail or be cut short.
SPECIFICATION Spec
CONSTANTS
  Requests = {q1, q2}
  Sessions = {s1, s2}
  Tokens = {t1, t2}
  Orphans = {t2}
  Threshold = 2
  MaxWrong = 3
  MayFail = TRUE
  None = None
SYMMETRY Symmetry
INVARIANTS TypeOK LockEarned TokenSpentOnce RevocationsTold
CHECK_DEADLOCK FALSE
