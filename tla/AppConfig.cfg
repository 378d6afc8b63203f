SPECIFICATION Spec
CONSTANTS
    MaxSaves = 3
    MaxFaults = 3
INVARIANTS
    RecoverableAfterCrash
PROPERTIES
    NothingStaleLoaded
CHECK_DEADLOCK FALSE
