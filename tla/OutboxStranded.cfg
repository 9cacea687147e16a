\* One of two runs may die: its rows stay in processing.
SPECIFICATION FairSpec
CONSTANTS
  p1 = p1
  p2 = p2
  Publishers = {p1, p2}
  Events = {1}
  Subscriptions = {1, 2}
  Pattern <- Patterns
  Type <- Types
  Malformed = {}
  System = {}
  MayThrow = {2}
  MayStop = {p1}
  BatchSize = 2
  MaxAttempts = 2
  NoEvent = NoEvent
PROPERTIES EventsEnd
CHECK_DEADLOCK FALSE
