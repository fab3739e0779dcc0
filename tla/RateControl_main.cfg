SPECIFICATION FairSpec
CONSTANTS
    MaxProfile = 4
    WarmupAttempts = 2
    ProbeAttempts = 3
    LossLimit = 3
    DownshiftLimit = 2
    MaxEchoes = 3
INVARIANTS
    ActiveProven
PROPERTIES
    LossSlowsDown
    CalibrationEnds
