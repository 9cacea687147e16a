\* Two runs share the table; one of them may die at any time.
SPECIFICATION FairSpec
CONSTANTS
  p1 = p1
  p2 = p2
  Publishers = {p1, p2}
  Events = {1, 2, 3, 4}
  Subscriptions = {1, 2}
  Pattern <- Patterns
  Type <- Types
  Malformed = {4}
  System = {3}
  MayThrow = {1, 2}
  MayStop = {p1}
  BatchSize = 2
  MaxAttempts = 2
  NoEvent = NoEvent
INVARIANTS TypeOK ClaimsExclusive CallsBounded GivenUpLast
PROPERTIES ImplementsDelivery EventsSettle
CHECK_DEADLOCK FALSE
