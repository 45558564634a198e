SPECIFICATION Spec
CONSTANTS
    MaxCapacity = 3
    MaxGeneration = 2
    InitialCapacities <- MCInitialCapacities
    InitialGeneration = 0
    BaseCapacity = 1
    LowFirst = TRUE
INVARIANTS
    TypeOK
    FreeListExact
    WalkComplete
PROPERTY
    ImplementsHandleTable
