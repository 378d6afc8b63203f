SPECIFICATION PlaterSpec
CONSTANTS
    NSteps = 2
    ObjSteps <- MCObjSteps
    CleanSteps <- MCCleanSteps
    Classes <- MCClasses
    Affects <- MCAffects
    RebuildClasses <- MCRebuildClasses
    Sla = FALSE
    TempFileLoss = FALSE
    UiJobs = TRUE
    MaxRuns = 2
    MaxQueue = 1
PROPERTY UploadIsAsked
