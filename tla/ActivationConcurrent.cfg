\* Two requests at a time, every failure, restarts.
CONSTANTS
  consumer = consumer
  provider = provider
  other = other
  NoRequest = NoRequest
  NoModule = NoModule
  Modules = {consumer, provider}
  Requests = {q1, q2}
  Requires <- PairRequires
  Deployments <- AllPair
  PlatformReady = {consumer, provider}
  ActivateMayFail = {consumer, provider}
  MayLoseReply = TRUE
  DeactivateMayFail = {consumer, provider}
SPECIFICATION FairSpec
INVARIANTS TypeOK RowMatchesFact MirrorPersisted
PROPERTIES ImplementsLedger RequestsFinish
