SPECIFICATION Spec
CONSTANTS
    Volumes = {v1, v2}
    Levels = {high, low}
    Original = Original
    None = None
    MaxPosted = 2
INVARIANTS
    ResultIsCurrent
PROPERTIES
    PreviewCatchesUp
CHECK_DEADLOCK FALSE
