SPECIFICATION LocalSpec
CONSTANTS
    MaxBorn = 3
    MaxIndex = 2
    Given <- MCGiven
    LooseRefs = FALSE
    Commands = {1, 2, 3}
    FileFaults = 2
    ContactNames = {"a", "b", "c"}
    ContactAddresses = {1, 2}
    MaxContacts = 2
    AliasNames <- MCAliases
    ExportPaths = {"p", "q"}
    RecordLimit = 2
INVARIANTS
    ActiveExists
    OneTemplate
    OldDocumentKept
    MigrationAnswerTrue
    StoredLoads
    ExportsAccounted
CHECK_DEADLOCK FALSE
