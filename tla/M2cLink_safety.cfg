SPECIFICATION Spec
CONSTANTS
    Payload = 2
    TxRingCap = 2
    SessionTxCap = 3
    ControlCap = 6
    ControlLen = 2
    PendingCap = 2
    SeqMod = 4
    ClientKinds = {"play", "handshake", "bad"}
    MaxResets = 3
    MaxCrashes = 0
    MaxData = 2
    MaxOut = 3
    MaxC2m = 1
    MaxUart = 2
    MaxProbes = 2
    MaxCopies = 1
    Noisy = FALSE
INVARIANTS
    TypeOK
    WireFramed
    PrefixOfServer
    NoSpuriousExit
CHECK_DEADLOCK FALSE
