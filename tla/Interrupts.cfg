CONSTANTS
    Sources = {1, 7, 12}
    HasExtension = TRUE
    Exceptions = {"breakpoint", "illegal_instruction"}
    EbreakModes = {1}
    StatusWrites <- MCStatusWrites
SPECIFICATION Spec
PROPERTY MStateGuarded
PROPERTY ReturnsToContext
CHECK_DEADLOCK FALSE
