SPECIFICATION Spec
CONSTANTS
    Payload = 1
    TxRingCap = 1
    SessionTxCap = 4
    ControlCap = 3
    ControlLen = 1
    PendingCap = 1
    SeqMod = 4
    ClientKinds = {"play", "handshake", "bad"}
    MaxResets = 2
    MaxCrashes = 1
    MaxData = 2
    MaxOut = 2
    MaxC2m = 1
    MaxUart = 2
    MaxProbes = 1
    MaxCopies = 2
    Noisy = TRUE
INVARIANTS
    OnlyThisSession
    PrefixOfServer
    NoSpuriousExit
CHECK_DEADLOCK FALSE
