SPECIFICATION Spec
CONSTANTS
    Payload = 2
    TxRingCap = 2
    SessionTxCap = 4
    ControlCap = 6
    ControlLen = 2
    PendingCap = 2
    SeqMod = 4
    ClientKinds = {"play", "handshake"}
    MaxResets = 1
    MaxCrashes = 0
    MaxData = 2
    MaxOut = 3
    MaxC2m = 1
    MaxUart = 2
    MaxProbes = 1
    MaxCopies = 1
    Noisy = FALSE
INVARIANT NoSequenceGap
CHECK_DEADLOCK FALSE
