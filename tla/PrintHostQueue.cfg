SPECIFICATION Spec
CONSTANTS
    MaxWaiting = 1
    MaxJobs = 3
INVARIANTS
    IdsAlign
    CancelsHitTheirJob
    RowTellsOutcome
    FilesFollowJobs
PROPERTIES
    CancelEndsUpload
    ThreadExits
