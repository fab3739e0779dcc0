SPECIFICATION Spec
CONSTANTS
    Cap = 3
    Bytes = {"a", "b"}
    MaxWrite = 4
INVARIANTS
    TypeOK
PROPERTY ImplementsFifo
