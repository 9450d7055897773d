SPECIFICATION ServiceSpec
CONSTANTS
    TimeLimit = 3
    SubmitReserve = 2
    Amounts = {0, 1, 2, 3}
    BadIds = TRUE
    Permissions <- MCPermissions
    LooseReplies = FALSE
INVARIANTS
    NoEffectClaimed
CHECK_DEADLOCK FALSE
