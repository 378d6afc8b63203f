SPECIFICATION Spec
CONSTANTS
    MaxJobs = 3
    MaxSent = 1
    Untimed = FALSE
INVARIANTS
    IdleIsDormant
    JobsAreKept
    CancelIsNotInherited
PROPERTIES
    DestructorReturns
    JobsAreFinalized
