\* Two loads around rollovers of the trading date; no symmetry, as one property is a liveness one.
SPECIFICATION Spec
CONSTANTS
  Calls = {c1, c2}
  Symbols = 2
  Day = 2
  Deadline = 1
  RetryAfter = 1
  MaxTime = 3
  NoCall = NoCall
INVARIANT HealthyMeansComplete
PROPERTIES LeaderKeepsMarker PendingIsTrue SlotIsReleased
\* Calls and the clock are bounded, so every behaviour ends.
CHECK_DEADLOCK FALSE
