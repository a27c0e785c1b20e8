\* Candles of a series that stopped, and the gate that ought to refuse them.
SPECIFICATION Spec
CONSTANTS
  Event <- MCEvent
  Nobody = nobody
  MaxRead = 3
  Horizons = {"short", "long"}
  Budget = 3
  MaxAttempts = 2
  Backwards = 2
INVARIANT StoppedFeedIsGated
\* A request ends.
CHECK_DEADLOCK FALSE
