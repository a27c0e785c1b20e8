\* Four racing redemptions of two clients against the rate limit.
SPECIFICATION Spec
CONSTANTS
  Codes = {}
  Calls = {r1, r2, r3, r4}
  Clients = {c1, c2}
  Checks = {}
  TTLs = {1}
  MaxTime = 4
  MaxStall = 1
  Limit = 2
  Window = 2
  AttemptRetention = 3
  CodeRetention = 1
  MaxLive = 1
  MaxCandidates = 2
SYMMETRY MCSymmetry
INVARIANT RateLimit
PROPERTIES RetryAfterIsExact
\* Calls, codes and the clock are bounded, so every behaviour ends.
CHECK_DEADLOCK FALSE
