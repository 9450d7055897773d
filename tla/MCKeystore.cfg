CONSTANTS
    FileCount = 3
    p1 = p1
    p2 = p2
    Missing = Missing
    Val = {p1, p2, Missing}
    Absent = Absent
    Torn = Torn
    NoJournal = NoJournal
    NoBatch = NoBatch
    Reader = {r1}
    r1 = r1
    NoReader = NoReader
    NoOp = NoOp
SPECIFICATION KSpec
INVARIANT IndexNeverDangling
INVARIANT ReaderServed
INVARIANT NoResurrection
PROPERTY OneVault
SYMMETRY Symmetry
CHECK_DEADLOCK FALSE
