SPECIFICATION Spec
CONSTANTS
    CoordLimit = 30
    MaxFracDigits = 4
    FracBits = 15
    DoubleShift = 16
    FloatShift = 10
    Width = 30
    TimeLimit = 24000
    TextCap = 67
    NameLen = 16
    MaxSteps = 3
    Spawn <- MCSpawn
    Opening <- MCOpening
    Following <- MCFollowing
    Places <- MCPlaces
    Looks <- MCLooks
INVARIANTS
    TypeOK
    VerdictExact
    TypedIsShown
