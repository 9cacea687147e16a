\* One request at a time, one hook may fail.
CONSTANTS
  consumer = consumer
  provider = provider
  other = other
  NoRequest = NoRequest
  NoModule = NoModule
  Modules = {consumer, provider}
  Requests = {q1}
  Requires <- PairRequires
  Deployments <- AllPair
  PlatformReady = {consumer, provider}
  ActivateMayFail = {provider}
  MayLoseReply = FALSE
  DeactivateMayFail = {}
SPECIFICATION Spec
INVARIANT MirrorExact
