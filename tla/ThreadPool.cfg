SPECIFICATION FairSpec
CONSTANTS
    hardware_concurrency = 0
    Ports = {0, 80, 40000, 70000}
    Ephemeral = {50000}
    MaxSignals = 2
INVARIANTS
    TypeOK
    WorkersEndFirst
    ExitCodeIsRight
    ListensAsConfigured
PROPERTY
    SignalEndsServer
CHECK_DEADLOCK FALSE
