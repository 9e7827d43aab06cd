CONSTANTS
    MaxUnits = 1
    PlaceNames <- LagerAndHall
    FreeTexts = {"Lager", "Hall"}
    InstallationTypes = {"portable", "fixed"}
    Sites = {2}
    Renames <- HallToLagerAndBack
    RecordHandlers = {1, 2}
    Serves <- MovesInSecond
    MaxEdits = 1
    Typed = {"status", "location_id", "location", "installation_type"}
    Choices <- FourChoices
    MaxConnections = 2
    PoolCalls = {1, 2}
    Plans <- AllPlans
    Items = {"mixer", "lamp"}
    Values = {"in-use", "broken"}
    PageSize = 1
    FilterFields <- UpToTwoFields
    MaxBatches = 2
SPECIFICATION Spec
CHECK_DEADLOCK FALSE
INVARIANTS
    TypesOK
    Settled
    ConnectionsAccounted
    ReportedComplete
    ListsHonest
PROPERTIES
    CreatedAsChosen
    UntouchedSave
    Answered
