\* Two requests at a time, alternatives, restarts onto other deployments.
CONSTANTS
  consumer = consumer
  provider = provider
  other = other
  NoRequest = NoRequest
  NoModule = NoModule
  Modules = {consumer, provider, other}
  Requests = {q1, q2}
  Requires <- AlternateRequires
  Deployments <- AlternateReleases
  PlatformReady = {consumer, provider, other}
  ActivateMayFail = {provider}
  MayLoseReply = TRUE
  DeactivateMayFail = {}
SPECIFICATION HSpec
SYMMETRY Symmetry
INVARIANTS MirrorCovers
PROPERTIES ProvidersKept
