CONSTANTS
    p1 = p1
    p2 = p2
    p3 = p3
    Proc = {p1, p2, p3}
    Leftover = Leftover
    NoPid = NoPid
    NoFile = NoFile
    StaleStart = FALSE
    MayDie = FALSE
    MayAge = FALSE
    DirWritable = TRUE
SPECIFICATION Spec
PROPERTY TakeOverOnlyFromDead
CHECK_DEADLOCK FALSE
SYMMETRY Symmetry
