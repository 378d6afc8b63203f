SPECIFICATION Spec
CONSTANTS
    Objects = {o1, o2}
    ThePrint = ThePrint
INVARIANTS
    TypeOK
    DoneIsUpToDate
    DoneHasItsData
SYMMETRY MCSymmetry
