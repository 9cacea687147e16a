\* Two calls at a time on two invitations, in the contexts of two companies,
\* with failures.
SPECIFICATION Spec
CONSTANTS
  Requests = {q1, q2}
  Companies = {c1, c2}
  Invitations = {i1, i2}
  Emails = {e1, e2}
  Users = {admin, u1, u2}
  Company = c1
  Admin = admin
  Admins <- FirstAdmins
  Policed = {TRUE, FALSE}
  MayFail = TRUE
  None = None
SYMMETRY Symmetry
INVARIANTS TypeOK MembershipsAccepted TellsCommitted OutcomesTold OutcomesToldOnce
PROPERTIES OutcomeFinal
CHECK_DEADLOCK FALSE
