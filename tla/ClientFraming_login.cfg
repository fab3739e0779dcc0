SPECIFICATION Spec
CONSTANTS
    Base = 8
    MaxVarBytes = 2
    IntBits = 5
    FRAME_LENGTH_LIMIT = 9
    MAX_PACKET_BODY = 13
    RxSlack = 1
    Movement = {3, 4, 5, 6}
    MAX_SERVERBOUND_ID = 7
    Hellos <- MCHellos
    Logins <- MCShortLogins
    PlayBodies <- MCPlayBodies
    BadFrames <- MCBadFrames
    MaxPlay = 3
    ReadBlock = 4
INVARIANT AllHandled
CHECK_DEADLOCK FALSE
