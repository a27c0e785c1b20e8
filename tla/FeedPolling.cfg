\* Two requests polling a feed that corrects itself, with a crash or a restart;
\* no symmetry, as one property is a liveness one.
SPECIFICATION Spec
CONSTANTS
  NSources = 1
  Requests = {r1, r2}
  Interval = 2
  Lookback = 2
  Retention = 1
  MaxFetch = 1
  MaxVersion = 2
  MaxTime = 2
  MaxStops = 1
INVARIANTS PollsAreSpaced PublishedIsHeld RevisionsFollowThePublisher
PROPERTIES KeepsFeedContract EveryReadEnds
\* Requests, publishers, restarts and the clock are bounded, so every behaviour ends.
CHECK_DEADLOCK FALSE
