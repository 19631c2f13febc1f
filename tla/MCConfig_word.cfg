SPECIFICATION Spec
CONSTANTS
    MaxChars = 3
    MaxMarks = 0
    Text <- WordText
INVARIANT
    AcceptedIsTerminated
CHECK_DEADLOCK FALSE
