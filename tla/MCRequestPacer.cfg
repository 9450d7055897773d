CONSTANTS
    Requests = {r1, r2, r3}
    MaxInFlight = 2
    MinInterval = 2
    Slack = 0
SPECIFICATION FairSpec
INVARIANT NoPermitIdle
INVARIANT StartsSpaced
PROPERTY WaitersServed
CHECK_DEADLOCK FALSE
