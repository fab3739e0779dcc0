SPECIFICATION HostSpec
CONSTANTS
    TxCap = 4
    BigUnits = 3
    Chunks = 1
    TickMod = 3
    Interval = 1
    IdMax = 2
    DefaultTime = 0
    Times = {0}
    Kinds = {"HANDSHAKE_LOGIN", "LOGIN_START", "CHAT", "MALFORMED"}
    MaxStep = 1
    MaxInbox = 2
    MaxCommands = 1
    SockCap = 1
INVARIANTS
    RefusedOnlyIfStalled
PROPERTIES
    BootstrapCompletes
    ClientHeard
    ShutdownStops
CHECK_DEADLOCK FALSE
