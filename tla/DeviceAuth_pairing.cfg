\* Two racing redemptions of two codes, a token check and revocations: single use, the audit trail and the refinement.
SPECIFICATION Spec
CONSTANTS
  Codes = {1, 2}
  Calls = {r1, r2}
  Clients = {c1}
  Checks = {v1}
  TTLs = {1}
  MaxTime = 2
  MaxStall = 1
  Limit = 2
  Window = 1
  AttemptRetention = 2
  CodeRetention = 1
  MaxLive = 1
  MaxCandidates = 1
SYMMETRY MCSymmetry
INVARIANTS SingleUse ConsumedIffPaired AuditIsHonest LiveCodesBounded
PROPERTIES KeepsContract LiveCodeNeverBuried
\* Calls, codes and the clock are bounded, so every behaviour ends.
CHECK_DEADLOCK FALSE
