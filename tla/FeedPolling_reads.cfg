\* a read beside a poll of another request
SPECIFICATION Spec
CONSTANTS
  NSources = 1
  Requests = {r1, r2}
  Interval = 1
  Lookback = 2
  Retention = 2
  MaxFetch = 1
  MaxVersion = 1
  MaxTime = 2
  MaxStops = 0
INVARIANT ReadsAreNotBroken
\* Requests, publishers and the clock are bounded, so every behaviour ends.
CHECK_DEADLOCK FALSE
