SPECIFICATION Spec
CONSTANTS
    Size = 4
    MaxChunk = 1
    MaxStarts = 3
    None = None
INVARIANTS
    KeepsWhatItGot
PROPERTIES
    StopsWhenAsked
