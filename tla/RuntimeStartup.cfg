\* Every small deployment, every outcome of the hooks and queries, and the
\* hydration of two companies.
CONSTANTS
  a = a
  b = b
  c = c
  d = d
  shared = shared
  A = A
  B = B
  NoId = NoId
  NoCode = NoCode
  NoSlug = NoSlug
  Ids = {a, b, c, d}
  Companies = {A, B}
  Inputs <- AllInputs
  Launches <- AllLaunches
  MaxChanges = 1
SPECIFICATION HostFairSpec
CHECK_DEADLOCK FALSE
INVARIANTS HostTypeOK NeverThrows ProvidersFirstOffCycles FailuresIsolated AcceptedServes MirrorsAsRead ExitServes
PROPERTIES Exits
