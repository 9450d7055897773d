CONSTANTS
    Limited = TRUE
    Limit = 3
    Reserve = 2
SPECIFICATION FairSpec
INVARIANT SendsOnlyAsAsked
PROPERTY OneTransaction
PROPERTY CommandEnds
CHECK_DEADLOCK FALSE
