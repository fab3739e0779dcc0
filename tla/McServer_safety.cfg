SPECIFICATION Spec
CONSTANTS
    TxCap = 4
    BigUnits = 2
    Chunks = 2
    TickMod = 4
    Interval = 2
    IdMax = 2
    DefaultTime = 0
    Times = {1}
    Kinds = {"HANDSHAKE_STATUS", "HANDSHAKE_LOGIN", "HANDSHAKE_OTHER", "STATUS_REQUEST", "PING", "LOGIN_START", "LOGIN_EMPTY", "KEEPALIVE", "CHAT", "TIME", "WEATHER", "MALFORMED"}
    MaxStep = 1
    MaxInbox = 1
    MaxCommands = 2
INVARIANTS
    TypeOK
    FormatAgreed
    InSequence
    WholePackets
    NothingStale
    Mirrored
    KeepAliveOnTime
