CONSTANTS
    Streams <- MCStreams
    Line <- MCLine
    Request <- MCRequest
    Declares <- MCDeclares
    MaxLength = 3
    MaxRequestSize = 6
    MaxContentLength = 8
    MaxMessages = 2
SPECIFICATION FairSpec
INVARIANTS TypeOK RequestsAreMessages NoneOverlooked SmallRequestsFit
PROPERTY EverythingIsRead
CHECK_DEADLOCK FALSE
