CONSTANTS
    FileCount = 3
    Val = {old, new}
    old = old
    new = new
    Absent = Absent
    Torn = Torn
    NoJournal = NoJournal
    NoBatch = NoBatch
SPECIFICATION Spec
INVARIANT FailureIsFailure
CHECK_DEADLOCK FALSE
