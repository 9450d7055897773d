CONSTANTS
    FileCount = 3
    Val = {old, new}
    old = old
    new = new
    Absent = Absent
    Torn = Torn
    NoJournal = NoJournal
    NoBatch = NoBatch
SPECIFICATION FairSpec
INVARIANT Truthful
PROPERTY AtomicBatch
PROPERTY RecoveryHappens
CHECK_DEADLOCK FALSE
