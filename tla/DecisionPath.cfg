\* One request of each adviser mode over the events of one story and a filing.
SPECIFICATION Spec
CONSTANTS
  Event <- MCEvent
  Nobody = nobody
  MaxRead = 3
  Horizons = {"short", "long"}
  Budget = 3
  MaxAttempts = 2
  Backwards = 2
INVARIANTS OwnReadingsCount GateHolds
PROPERTIES OnlyWhatWasKnown CorroboratedOnly
\* A request ends.
CHECK_DEADLOCK FALSE
