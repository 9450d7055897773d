SPECIFICATION FairServiceSpec
CONSTANTS
    TimeLimit = 3
    SubmitReserve = 2
    Amounts = {0, 1, 2, 3}
    BadIds = FALSE
    Permissions <- MCPermissions
    LooseReplies = FALSE
INVARIANTS
    ChargeIsAuthorized
    MainHasAllowances
    ApprovalsAccounted
    StaleTargetStops
    ConfirmationStands
    VerifiedRowIsTrue
    NoDeadEnd
    CutReadsStop
PROPERTIES
    OneEffect
    CommandAnswers
    AnnouncedOrStopped
CHECK_DEADLOCK FALSE
