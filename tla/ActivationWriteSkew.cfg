\* Two requests at a time, nothing fails.
CONSTANTS
  consumer = consumer
  provider = provider
  other = other
  NoRequest = NoRequest
  NoModule = NoModule
  Modules = {consumer, provider}
  Requests = {q1, q2}
  Requires <- PairRequires
  Deployments <- AllPair
  PlatformReady = {consumer, provider}
  ActivateMayFail = {}
  MayLoseReply = FALSE
  DeactivateMayFail = {}
SPECIFICATION Spec
INVARIANT DependentsProvided
