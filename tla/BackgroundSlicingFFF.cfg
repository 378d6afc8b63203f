SPECIFICATION Spec
CONSTANTS
    NSteps = 2
    ObjSteps <- MCObjSteps
    CleanSteps <- MCCleanSteps
    Classes <- MCClasses
    Affects <- MCAffects
    Sla = FALSE
    TempFileLoss = TRUE
    MaxRuns = 2
INVARIANTS
    NoTornRead
    DoneIsCurrent
    RebuildIsExclusive
    TaskFindsWorkerWaiting
    CancelIsAwaited
    AssertionsHold
    ExportIsCurrent
PROPERTIES
    ExportTargetIsStable
    ImplementsResultStore
