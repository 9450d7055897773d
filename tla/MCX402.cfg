SPECIFICATION FairSpec
CONSTANTS
    Limit = 3
    Reserve = 2
INVARIANTS
    StatusMatchesWire
    HashRetained
    OrderAccounted
PROPERTIES
    OnePayment
    OneApproval
    SettleStartsServed
    RechargeIsAPayment
    CommandEnds
\* Commands end, and so does the process.
CHECK_DEADLOCK FALSE
