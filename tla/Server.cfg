CONSTANTS
    MaxWrites = 1
    Users = {1, 2}
    MaxSearches = 2
    SearchHandlers = {m1, m2}
    Names <- NamesOf
    Folded <- FoldedCase
    MaxEntries = 2
    ListHandlers = {m1, m2}
    MaxObjects = 3
    FileHandlers = {m1, m2}
    Usernames = {"a", "b"}
    FirstName = "a"
    Secrets = {"s", "t"}
    FirstSecret = "s"
    MaxUsers = 2
    AccountHandlers = {1, 2}
    Manages <- ManagesNames
    Equipment = {"e"}
    Shows = {"s"}
    MaxQuantity = 1
    MaxRows = 2
    MigratedSchema = TRUE
    PlacedItem = "e"
    Locations = {l1, l2}
    Strict = FALSE
    PlaceHandlers = {m1, m2}
    ShowRows <- RowsOfOneShow
    Serials = {"s", " s"}
    Trimmed <- WithoutBlanks
    MaxItems = 2
    Files <- FourFiles
    Stamps = {1, 2}
    IoHandlers = {m1, m2}
    Tabs = {m1, m2}
    People = {"adam", "uma"}
    Admins = {"adam"}
    MaxTokens = 2
SPECIFICATION Spec
SYMMETRY Symmetric
CHECK_DEADLOCK FALSE
INVARIANTS
    TypesOK
    OneDefault
    NamesDiffer
    StorageExists
    ItemHasPlace
    RecordsServed
    ReferenceExists
    UsernamesDiffer
    AdminRemains
    ToldPasswordWorks
    PlacedWithinStock
    LogSaysWhere
    SerialsDiffer
    ReportMatches
    ExportsOwnRows
    
    ChangesShown
PROPERTIES
    OwnSearchesOnly
    ImplementsPlacements
