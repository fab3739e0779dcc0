SPECIFICATION Spec
CONSTANTS
    ByteBits = 2
    CrcPoly = 3
    MAX_PAYLOAD = 2
    MAX_ENCODED_LEN = 12
    ClearTag = 1
    FailTag = 3
    MaxFrames = 2
    DamagedFrames <- MCDamagedFrames
INVARIANTS
    TypeOK
    FramesExactlyOnce
    BridgeAgrees
    EncodersAgree
CHECK_DEADLOCK FALSE
