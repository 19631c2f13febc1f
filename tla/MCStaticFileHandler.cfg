CONSTANTS
    Place <- MCPlace
    Base <- MCBase
    Byte = {1, 2}
    Version <- MCVersion
    max_safe_size = 2
    MaxChanges = 2
SPECIFICATION Spec
INVARIANTS TypeOK ServedVersion ServedFromBase FailuresJustified
CHECK_DEADLOCK FALSE
