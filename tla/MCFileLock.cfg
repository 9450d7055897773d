SPECIFICATION FairSpec
CONSTANTS
    p1 = p1
    p2 = p2
    Proc = {p1, p2}
    Leftover = Leftover
    NoPid = NoPid
    NoFile = NoFile
    StaleStart = FALSE
    MayDie = TRUE
    MayAge = FALSE
    DirWritable = TRUE
INVARIANT MutualExclusion
PROPERTY LockWaitEnds
CHECK_DEADLOCK FALSE
