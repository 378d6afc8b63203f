SPECIFICATION Spec
CONSTANTS
    Model = Model
    Gizmos = Gizmos
    Volume = Volume
    Mesh = Mesh
    None = None
    Absent = Absent
    Open = "open"
    Closed = "closed"
    Objects <- MCObjects
    Immutable <- MCImmutable
    Projects <- MCProjects
    MaxTime = 6
    MaxReleased = 0
INVARIANT NotModifiedIsSaved
