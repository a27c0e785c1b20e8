SPECIFICATION Spec
CONSTANTS
    Ours = {a, b}
    Foreign = {x, y}
    Exposed = {y}
    None = none
    MaxArtifacts = 2
    MaxCalls = 3
    MaxFaults = 2
    MaxForeign = 2
INVARIANTS NothingIsDestroyed OneFaultIsUndone
PROPERTIES OnlyTheExpectedIsReplaced
CHECK_DEADLOCK FALSE
