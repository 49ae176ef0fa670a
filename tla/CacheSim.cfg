CONSTANTS
    MaxAddress = 4
    sets <- MCSets
    ways <- MCWays
    linesz <- MCLinesz
    FullyFrom = 1
    MaxAccesses = 5
SPECIFICATION Spec
INVARIANT NewestIsDirty
INVARIANT CountersAgree
CHECK_DEADLOCK FALSE
