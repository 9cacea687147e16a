SPECIFICATION FairSpec
CONSTANTS
  Runners = {r1, r2}
  v1 = v1
  v2 = v2
  None = None
  MaxDeaths = 2
  Checkouts <- History
INVARIANTS
  TypeOK
  PrefixRecorded
  LedgerTruthful
PROPERTIES
  Migrated
\* Runners whose checkouts are refused never start.
CHECK_DEADLOCK FALSE
