SPECIFICATION Spec
CONSTANTS
    Count = 2
    Versions = {v1, v2}
    None = none
    Alien = alien
    MaxCommands = 3
    MaxFaults = 2
INVARIANTS RecordIsTrue LedgerCovers HealsItself
PROPERTIES FailureRestores ForeignIsLeftAlone
CHECK_DEADLOCK FALSE
