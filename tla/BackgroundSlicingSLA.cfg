SPECIFICATION FairSpec
CONSTANTS
    NSteps = 1
    ObjSteps <- MCObjSteps
    CleanSteps <- MCCleanSteps
    Classes <- MCLiveClasses
    Affects <- MCLiveAffects
    Sla = TRUE
    TempFileLoss = FALSE
    MaxRuns = 2
INVARIANTS
    SetDoneFindsStarted
PROPERTIES
    CallsReturn
    RunsEnd
