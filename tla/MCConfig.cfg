SPECIFICATION Spec
CONSTANTS
    MaxChars = 5
    MaxMarks = 8
    Text <- MCText
INVARIANTS
    TypeOK
    StackIsPath
    EveryBlockHasOneParent
    AcceptsTheGrammar
    NothingIsLost
CHECK_DEADLOCK FALSE
