----------------------------- MODULE Server_proofs -----------------------------
(***************************************************************************)
(* What is proved of the parts, stated of the server that runs one of them *)
(* in each behaviour.                                                      *)
(***************************************************************************)
EXTENDS Server, FiniteSetTheorems, SequenceTheorems, TLAPS

(* Each part once more, with its lemmas. *)
SavedT == INSTANCE SavedSearches_proofs
ListsT == INSTANCE ReferenceLists_proofs
StoredT == INSTANCE FileStore_proofs
LoginsT == INSTANCE Accounts_proofs WITH contended <- races, told <- heard
PlacesT == INSTANCE LocationAllocations_proofs WITH placed <- places, Item <- PlacedItem

-----------------------------------------------------------------------------
(* A step of the server is a step of the part that was chosen.             *)
LEMMA PartSteps ==
  ASSUME [Next]_vars
  PROVE  /\ part' = part
         /\ Chosen("saved") => [Saved!Next]_searchVars
         /\ Chosen("lists") => [Lists!Next]_listVars
         /\ Chosen("files") => [Stored!Next]_fileVars
         /\ Chosen("logins") => [Logins!Next]_accountVars
         /\ Chosen("places") => [Places!Next]_placeVars
         /\ Chosen("transfer") => [Transfer!Next]_ioVars
         /\ Chosen("browser") => [Browser!SessionNext]_sessionVars
         /\ Chosen("cache") => [CacheNext]_cacheVars
  BY DEF Next, vars, Chosen, searchVars, listVars, fileVars, accountVars, placeVars, ioVars,
         sessionVars, cacheVars
-----------------------------------------------------------------------------
(***************************************************************************)
(* Saved searches.  Saved and SavedT are the same module twice: as Server  *)
(* takes it and with its lemmas.                                           *)
(***************************************************************************)
LEMMA SavedStarts == Saved!Init => SavedT!Init
  BY DEF Saved!Init, SavedT!Init, Saved!NoCall, SavedT!NoCall

LEMMA SavedSteps == Saved!Next => SavedT!Next
  BY DEF Saved!Next, SavedT!Next, Saved!CreatePlain, SavedT!CreatePlain,
         Saved!CreateDefault, SavedT!CreateDefault, Saved!UpdateRead, SavedT!UpdateRead,
         Saved!DeleteRead, SavedT!DeleteRead, Saved!InsertDefault, SavedT!InsertDefault,
         Saved!UpdateClear, SavedT!UpdateClear, Saved!UpdateSave, SavedT!UpdateSave,
         Saved!Destroy, SavedT!Destroy, Saved!Fail, SavedT!Fail,
         Saved!InsertSearch, SavedT!InsertSearch, Saved!Start, SavedT!Start,
         Saved!Become, SavedT!Become, Saved!At, SavedT!At, Saved!Cleared, SavedT!Cleared,
         Saved!Own, SavedT!Own, Saved!MakesDefault, SavedT!MakesDefault,
         Saved!Rivals, SavedT!Rivals, Saved!NoCall, SavedT!NoCall,
         Saved!Undefined, SavedT!Undefined

SavedInv == Chosen("saved") => SavedT!SearchInv

LEMMA SavedInductive ==
  /\ Init => SavedInv
  /\ SavedInv /\ [Next]_vars => SavedInv'
  <1>1. Init => SavedInv
    BY ServerAssumption, SavedStarts, SavedT!SearchInit DEF Init, SavedInv
  <1>2. ASSUME SavedInv, [Next]_vars
        PROVE  SavedInv'
    <2>1. Chosen("saved")' = Chosen("saved")
      BY <1>2, PartSteps DEF Chosen
    <2>2. Chosen("saved") => [SavedT!Next]_(SavedT!searchVars)
      BY <1>2, PartSteps, SavedSteps DEF searchVars, SavedT!searchVars
    <2> QED
      BY <1>2, <2>1, <2>2, ServerAssumption, SavedT!SearchStep DEF SavedInv
  <1> QED
    BY <1>1, <1>2

LEMMA SavedCounts == \A S : Saved!Cardinality(S) = SavedT!Cardinality(S)
  BY DEF Saved!Cardinality, SavedT!Cardinality

(* A user has at most one default search (routes/savedSearches.js), unless *)
(* two requests of that user that write a default have overlapped.         *)
THEOREM ServerOneDefault == Spec => []OneDefault
  <1>1. SavedInv => OneDefault
    BY SavedT!InvOneDefault, SavedCounts
    DEF SavedInv, OneDefault, Saved!OneDefault, SavedT!OneDefault
  <1> QED
    BY <1>1, SavedInductive, PTL DEF Spec

(* No step changes a search of a user who has no request under way, also   *)
(* in the statement of routes/savedSearches.js that clears defaults by     *)
(* condition.                                                              *)
THEOREM ServerOwnSearches == Spec => OwnSearchesOnly
  <1> DEFINE Own == Chosen("saved") => Saved!TouchesOwnSearches
  <1>1. ASSUME SavedInv, [Next]_vars
        PROVE  Own
    <2>1. Chosen("saved") => [SavedT!Next]_(SavedT!searchVars)
      BY <1>1, PartSteps, SavedSteps DEF searchVars, SavedT!searchVars
    <2>2. Chosen("saved") => SavedT!TouchesOwnSearches
      BY <1>1, <2>1, SavedT!TouchesOwnStep DEF SavedInv
    <2> QED
      BY <2>2 DEF SavedT!TouchesOwnSearches, Saved!TouchesOwnSearches, SavedT!NoCall,
                  Saved!NoCall
  <1>2. SavedInv /\ [Next]_vars => [Own]_vars
    BY <1>1
  <1> HIDE DEF Own
  <1>3. Spec => [][Own]_vars
    BY <1>2, SavedInductive, PTL DEF Spec
  <1> QED
    BY <1>3 DEF Own, OwnSearchesOnly

-----------------------------------------------------------------------------
(***************************************************************************)
(* Reference lists.                                                        *)
(***************************************************************************)
LEMMA ListsStarts == Lists!Init => ListsT!Init
  BY DEF Lists!Init, ListsT!Init, Lists!Kinds, ListsT!Kinds, Lists!Null, ListsT!Null,
         Lists!NoCall, ListsT!NoCall

LEMMA ListsSteps == Lists!Next => ListsT!Next
  BY DEF Lists!Next, ListsT!Next, Lists!CreateLocation, ListsT!CreateLocation,
         Lists!Start, ListsT!Start, Lists!NoCall, ListsT!NoCall, Lists!Become, ListsT!Become,
         Lists!Dying, ListsT!Dying, Lists!Sought, ListsT!Sought,
         Lists!Missing, ListsT!Missing, Lists!PutRead, ListsT!PutRead,
         Lists!InsertEntry, ListsT!InsertEntry, Lists!Unique, ListsT!Unique,
         Lists!Null, ListsT!Null, Lists!With, ListsT!With, Lists!Same, ListsT!Same,
         Lists!CreateEntry, ListsT!CreateEntry, Lists!Known, ListsT!Known,
         Lists!EntryIds, ListsT!EntryIds, Lists!RenameRead, ListsT!RenameRead,
         Lists!DeleteRead, ListsT!DeleteRead, Lists!AssignRead, ListsT!AssignRead,
         Lists!StoreRead, ListsT!StoreRead, Lists!CreateInsert, ListsT!CreateInsert,
         Lists!At, ListsT!At, Lists!Answer, ListsT!Answer,
         Lists!RenameLookup, ListsT!RenameLookup, Lists!RenameSave, ListsT!RenameSave,
         Lists!DeleteCount, ListsT!DeleteCount, Lists!DeleteDestroy, ListsT!DeleteDestroy,
         Lists!Without, ListsT!Without, Lists!Deleted, ListsT!Deleted,
         Lists!AssignSave, ListsT!AssignSave, Lists!StoreSave, ListsT!StoreSave,
         Lists!Stored, ListsT!Stored, Lists!Fail, ListsT!Fail, Lists!Place, ListsT!Place,
         Lists!Unstore, ListsT!Unstore

ListsInv == Chosen("lists") => ListsT!ListInv

LEMMA ListsInductive ==
  /\ Init => ListsInv
  /\ ListsInv /\ [Next]_vars => ListsInv'
  <1>1. Init => ListsInv
    BY ServerAssumption, ListsStarts, ListsT!ListInit DEF Init, ListsInv
  <1>2. ASSUME ListsInv, [Next]_vars
        PROVE  ListsInv'
    <2>1. Chosen("lists")' = Chosen("lists")
      BY <1>2, PartSteps DEF Chosen
    <2>2. Chosen("lists") => [ListsT!Next]_(ListsT!listVars)
      BY <1>2, PartSteps, ListsSteps DEF listVars, ListsT!listVars
    <2> QED
      BY <1>2, <2>1, <2>2, ServerAssumption, ListsT!ListStep DEF ListsInv
  <1> QED
    BY <1>1, <1>2

(* No two categories and no two types have names that the database takes   *)
(* for the same, although POST and PUT of routes/categories.js and         *)
(* routes/equipmentTypes.js look a name up in one statement and write it   *)
(* in another.                                                             *)
THEOREM ServerNames == Spec => []NamesDiffer
  <1>1. ListsInv => NamesDiffer
    BY DEF ListsInv, NamesDiffer, ListsT!ListInv, Lists!NamesDiffer, ListsT!NamesDiffer
  <1> QED
    BY <1>1, ListsInductive, PTL DEF Spec

(* A default storage location names a location that exists, and no two     *)
(* name the same, whatever routes/locations.js and                         *)
(* routes/defaultStorageLocations.js create and delete at the same time.   *)
THEOREM ServerStorages == Spec => []StorageExists
  <1>1. ListsInv => StorageExists
    BY DEF ListsInv, StorageExists, ListsT!ListInv, Lists!StorageExists, ListsT!StorageExists
  <1> QED
    BY <1>1, ListsInductive, PTL DEF Spec

(* The location of an item exists, unless the item was on its way there    *)
(* when DELETE /locations/:id had counted it as unused, or PUT and POST of *)
(* routes/equipment.js were sent an id that named none.                    *)
THEOREM ServerItemPlace == Spec => []ItemHasPlace
  <1>1. ListsInv => ItemHasPlace
    BY DEF ListsInv, ItemHasPlace, ListsT!ListInv, Lists!ItemHasPlace, ListsT!ItemHasPlace,
           Lists!Null, ListsT!Null
  <1> QED
    BY <1>1, ListsInductive, PTL DEF Spec

-----------------------------------------------------------------------------
(***************************************************************************)
(* Files and their store.                                                  *)
(***************************************************************************)
LEMMA StoredStarts == Stored!Init => StoredT!Init
  BY DEF Stored!Init, StoredT!Init, Stored!NoCall, StoredT!NoCall

LEMMA StoredSteps == Stored!Next => StoredT!Next
  BY DEF Stored!Next, StoredT!Next, Stored!Arrive, StoredT!Arrive,
         Stored!NoCall, StoredT!NoCall, Stored!Room, StoredT!Room, Stored!Named, StoredT!Named,
         Stored!Null, StoredT!Null, Stored!Upload, StoredT!Upload,
         Stored!Uploaded, StoredT!Uploaded, Stored!Store, StoredT!Store,
         Stored!Start, StoredT!Start, Stored!Become, StoredT!Become, Stored!rows, StoredT!rows,
         Stored!FileIds, StoredT!FileIds, Stored!PatchReference, StoredT!PatchReference,
         Stored!store, StoredT!store, Stored!DeleteRead, StoredT!DeleteRead,
         Stored!Locked, StoredT!Locked, Stored!PutUnlink, StoredT!PutUnlink,
         Stored!DeleteItemRead, StoredT!DeleteItemRead, Stored!FilesOf, StoredT!FilesOf,
         Stored!UploadCommit, StoredT!UploadCommit, Stored!At, StoredT!At,
         Stored!WithRecords, StoredT!WithRecords, Stored!CreateItem, StoredT!CreateItem,
         Stored!ReferenceRecord, StoredT!ReferenceRecord,
         Stored!ReferencePoint, StoredT!ReferencePoint, Stored!Pointed, StoredT!Pointed,
         Stored!DeleteUnlink, StoredT!DeleteUnlink, Stored!DeleteBlob, StoredT!DeleteBlob,
         Stored!DeleteCommit, StoredT!DeleteCommit, Stored!Without, StoredT!Without,
         Stored!Cleared, StoredT!Cleared, Stored!PutDestroy, StoredT!PutDestroy,
         Stored!DeleteItemLock, StoredT!DeleteItemLock,
         Stored!DeleteItemUnlink, StoredT!DeleteItemUnlink,
         Stored!DeleteItemCommit, StoredT!DeleteItemCommit, Stored!Fail, StoredT!Fail,
         Stored!Unlinked, StoredT!Unlinked

StoredInv == Chosen("files") => StoredT!FileInv

LEMMA StoredInductive ==
  /\ Init => StoredInv
  /\ StoredInv /\ [Next]_vars => StoredInv'
  <1>1. Init => StoredInv
    BY ServerAssumption, StoredStarts, StoredT!FileInit DEF Init, StoredInv
  <1>2. ASSUME StoredInv, [Next]_vars
        PROVE  StoredInv'
    <2>1. Chosen("files")' = Chosen("files")
      BY <1>2, PartSteps DEF Chosen
    <2>2. Chosen("files") => [StoredT!Next]_(StoredT!fileVars)
      BY <1>2, PartSteps, StoredSteps DEF fileVars, StoredT!fileVars, StoredT!rows, StoredT!store
    <2> QED
      BY <1>2, <2>1, <2>2, ServerAssumption, StoredT!FileStep DEF StoredInv
  <1> QED
    BY <1>1, <1>2

(* Every file that the table lists can be downloaded, as original and as   *)
(* thumbnail, unless the deletion that unlinks it before its transaction   *)
(* commits is at work or was cut short.                                    *)
THEOREM ServerRecords == Spec => []RecordsServed
  <1>1. StoredInv => RecordsServed
    BY DEF StoredInv, RecordsServed, StoredT!FileInv, Stored!RecordsServed, StoredT!RecordsServed,
           Stored!BeingDeleted, StoredT!BeingDeleted, Stored!Unlinked, StoredT!Unlinked,
           Stored!Served, StoredT!Served
  <1> QED
    BY <1>1, StoredInductive, PTL DEF Spec

(* The reference image of an item is a file that exists, although files    *)
(* are deleted by four handlers of routes/files.js and routes/equipment.js *)
(* and any id may be sent as reference.                                    *)
THEOREM ServerReferences == Spec => []ReferenceExists
  <1>1. StoredInv => ReferenceExists
    BY DEF StoredInv, ReferenceExists, StoredT!FileInv, Stored!ReferenceExists,
           StoredT!ReferenceExists, Stored!Null, StoredT!Null
  <1> QED
    BY <1>1, StoredInductive, PTL DEF Spec

-----------------------------------------------------------------------------
(***************************************************************************)
(* Users and their passwords.                                              *)
(***************************************************************************)
LEMMA LoginsStarts == Logins!Init => LoginsT!Init
  BY DEF Logins!Init, LoginsT!Init, Logins!NoCall, LoginsT!NoCall

LEMMA LoginsSteps == Logins!Next => LoginsT!Next
  BY DEF Logins!Next, LoginsT!Next, Logins!Arrive, LoginsT!Arrive,
         Logins!NoCall, LoginsT!NoCall, Logins!Authorised, LoginsT!Authorised,
         Logins!Roles, LoginsT!Roles, Logins!RegisterLookup, LoginsT!RegisterLookup,
         Logins!Named, LoginsT!Named, Logins!Start, LoginsT!Start,
         Logins!Wanted, LoginsT!Wanted, Logins!Typed, LoginsT!Typed,
         Logins!UpdateRead, LoginsT!UpdateRead, Logins!NameFree, LoginsT!NameFree,
         Logins!DeleteRead, LoginsT!DeleteRead, Logins!MayDelete, LoginsT!MayDelete,
         Logins!ResetRead, LoginsT!ResetRead, Logins!FixRead, LoginsT!FixRead,
         Logins!Unhashed, LoginsT!Unhashed, Logins!RegisterCreate, LoginsT!RegisterCreate,
         Logins!At, LoginsT!At, Logins!Hash, LoginsT!Hash, Logins!Answer, LoginsT!Answer,
         Logins!UpdateSave, LoginsT!UpdateSave, Logins!Destroy, LoginsT!Destroy,
         Logins!Without, LoginsT!Without, Logins!ResetSave, LoginsT!ResetSave,
         Logins!ResetVerify, LoginsT!ResetVerify, Logins!Untold, LoginsT!Untold,
         Logins!UserIds, LoginsT!UserIds, Logins!FixUser, LoginsT!FixUser,
         Logins!Fail, LoginsT!Fail

LoginsInv == Chosen("logins") => LoginsT!AccountInv

LEMMA LoginsInductive ==
  /\ Init => LoginsInv
  /\ LoginsInv /\ [Next]_vars => LoginsInv'
  <1>1. Init => LoginsInv
    BY ServerAssumption, LoginsStarts, LoginsT!AccountInit DEF Init, LoginsInv, LoginsT!SetUp
  <1>2. ASSUME LoginsInv, [Next]_vars
        PROVE  LoginsInv'
    <2>1. Chosen("logins")' = Chosen("logins")
      BY <1>2, PartSteps DEF Chosen
    <2>2. Chosen("logins") => [LoginsT!Next]_(LoginsT!accountVars)
      BY <1>2, PartSteps, LoginsSteps DEF accountVars, LoginsT!accountVars
    <2> QED
      BY <1>2, <2>1, <2>2, ServerAssumption, LoginsT!AccountStep DEF LoginsInv, LoginsT!SetUp
  <1> QED
    BY <1>1, <1>2

(* No two users have the same name: routes/auth.js looks a name up and     *)
(* inserts in two statements. Names that two requests wanted to write at   *)
(* the same time are excepted.                                             *)
THEOREM ServerUsernames == Spec => []UsernamesDiffer
  <1>1. LoginsInv => UsernamesDiffer
    BY DEF LoginsInv, UsernamesDiffer, LoginsT!AccountInv, Logins!UsernamesDiffer,
           LoginsT!UsernamesDiffer
  <1> QED
    BY <1>1, LoginsInductive, PTL DEF Spec

(* There is an administrator: none can delete or demote another way than   *)
(* by the guards of routes/auth.js, unless the last one gave the role away *)
(* himself or two requests of administrators met.                          *)
THEOREM ServerAdmin == Spec => []AdminRemains
  <1>1. LoginsInv => AdminRemains
    BY DEF LoginsInv, AdminRemains, LoginsT!AccountInv, Logins!AdminRemains, LoginsT!AdminRemains
  <1> QED
    BY <1>1, LoginsInductive, PTL DEF Spec

(* A user whose stored password is hashed logs in with the one he was last *)
(* told, through every order of the requests that set, reset and repair    *)
(* passwords, which the hooks of models/User.js hash again, unless a reset *)
(* failed after its UPDATE and told nothing, or requests met.              *)
THEOREM ServerPasswords == Spec => []ToldPasswordWorks
  <1>1. LoginsInv => ToldPasswordWorks
    BY LoginsT!SecretsWork
    DEF LoginsInv, ToldPasswordWorks, Logins!ToldPasswordWorks, LoginsT!ToldPasswordWorks,
        Logins!LogsIn, LoginsT!LogsIn, Logins!Untold, LoginsT!Untold,
        Logins!Hash, LoginsT!Hash, Logins!Typed, LoginsT!Typed
  <1> QED
    BY <1>1, LoginsInductive, PTL DEF Spec

-----------------------------------------------------------------------------
(***************************************************************************)
(* Units at locations.                                                     *)
(***************************************************************************)
LEMMA PlacesStarts == Places!Init => PlacesT!Init
  BY DEF Places!Init, PlacesT!Init, Places!NoCall, PlacesT!NoCall

LEMMA PlacesSteps == Places!Next => PlacesT!Next
  BY DEF Places!Next, PlacesT!Next, Places!AllocateRead, PlacesT!AllocateRead,
         Places!Sums, PlacesT!Sums, Places!Counted, PlacesT!Counted,
         Places!Enough, PlacesT!Enough, Places!Uninstalled, PlacesT!Uninstalled,
         Places!NonNegative, PlacesT!NonNegative,
         Places!SumAllocated, PlacesT!SumAllocated, Places!Units, PlacesT!Units,
         Places!unavailableStatuses, PlacesT!unavailableStatuses, Places!Start, PlacesT!Start,
         Places!NoCall, PlacesT!NoCall, Places!Become, PlacesT!Become,
         Places!RowsOf, PlacesT!RowsOf, Places!BusyRows, PlacesT!BusyRows,
         Places!tables, PlacesT!tables, Places!ReturnUpdate, PlacesT!ReturnUpdate,
         Places!Update, PlacesT!Update, Places!MoveRead, PlacesT!MoveRead,
         Places!Bodies, PlacesT!Bodies, Places!OneRowEach, PlacesT!OneRowEach,
         Places!SetRead, PlacesT!SetRead, Places!TotalFits, PlacesT!TotalFits,
         Places!Total, PlacesT!Total, Places!AllocateInsert, PlacesT!AllocateInsert,
         Places!LastRow, PlacesT!LastRow, Places!At, PlacesT!At, Places!RowIds, PlacesT!RowIds,
         Places!InsertRow, PlacesT!InsertRow, Places!Insert, PlacesT!Insert,
         Places!Row, PlacesT!Row, Places!Outrun, PlacesT!Outrun,
         Places!MoveUpdate, PlacesT!MoveUpdate, Places!Log, PlacesT!Log,
         Places!Entry, PlacesT!Entry, Places!Answer, PlacesT!Answer,
         Places!SetCommit, PlacesT!SetCommit, Places!AllReturned, PlacesT!AllReturned,
         Places!Fail, PlacesT!Fail, Places!Cardinality, PlacesT!Cardinality

(* What the server assumes of its constants is what the part assumes.      *)
LEMMA PlacesSetUp == PlacesT!PlacesSetUp
  BY ServerAssumption
  DEF PlacesT!PlacesSetUp, IsFiniteSet, PlacesT!IsFiniteSet, Places!IsTable, PlacesT!IsTable,
      Places!RowIds, PlacesT!RowIds, Places!ShowEquipmentRow, PlacesT!ShowEquipmentRow,
      Places!Quantities, PlacesT!Quantities, Places!ShowStatuses, PlacesT!ShowStatuses

LEMMA TablesSetUp == PlacesT!IsFiniteSet(Equipment)
  BY ServerAssumption DEF IsFiniteSet, PlacesT!IsFiniteSet

PlacesInv == Chosen("places") => PlacesT!PlaceInv

LEMMA PlacesInductive ==
  /\ Init => PlacesInv
  /\ PlacesInv /\ [Next]_vars => PlacesInv'
  <1>1. Init => PlacesInv
    BY ServerAssumption, TablesSetUp, PlacesSetUp, PlacesStarts, PlacesT!PlaceInit DEF Init, PlacesInv
  <1>2. ASSUME PlacesInv, [Next]_vars
        PROVE  PlacesInv'
    <2>1. Chosen("places")' = Chosen("places")
      BY <1>2, PartSteps DEF Chosen
    <2>2. Chosen("places") => [PlacesT!Next]_(PlacesT!placeVars)
      BY <1>2, PartSteps, PlacesSteps DEF placeVars, PlacesT!placeVars, PlacesT!tables
    <2> QED
      BY <1>2, <2>1, <2>2, ServerAssumption, TablesSetUp, PlacesSetUp, PlacesT!PlaceStep DEF PlacesInv
  <1> QED
    BY <1>1, <1>2

(* The units at locations, as services/inventoryService.js and POST        *)
(* /equipment/:id/allocations place them, are no more than the item has,   *)
(* unless a request inserted after another had read what is free. Rows are *)
(* left out whose request took a SELECT that failed for a sum of 0, and no *)
(* request that follows lets the others past the stock because of them.    *)
THEOREM ServerStock == Spec => []PlacedWithinStock
  <1>1. PlacesInv => PlacedWithinStock
    BY ServerAssumption, TablesSetUp, PlacesSetUp, PlacesT!InvWithinStock
    DEF PlacesInv, PlacedWithinStock, Places!PlacedWithinStock, PlacesT!PlacedWithinStock,
        Places!CountedRows, PlacesT!CountedRows, Places!DeleteRows, PlacesT!DeleteRows,
        Places!SumAllocated, PlacesT!SumAllocated, Places!Units, PlacesT!Units, Places!Total,
        PlacesT!Total,
        Places!Cardinality, PlacesT!Cardinality
  <1> QED
    BY <1>1, PlacesInductive, PTL DEF Spec

(* The last log entry of an allocation says where it is: moves and returns *)
(* of services/inventoryService.js log what they read before their UPDATE. *)
(* Rows that two requests worked on at once, or whose entry failed, are    *)
(* excepted.                                                               *)
THEOREM ServerLog == Spec => []LogSaysWhere
  <1>1. PlacesInv => LogSaysWhere
    BY ServerAssumption, TablesSetUp, PlacesT!InvLogSaysWhere
    DEF PlacesInv, LogSaysWhere, Places!LogSaysWhere, PlacesT!LogSaysWhere, Places!RowsOf,
        PlacesT!RowsOf
  <1> QED
    BY <1>1, PlacesInductive, PTL DEF Spec

BookInv == Chosen("places") => PlacesT!BoundInv

LEMMA BookSame == Places!Book = PlacesT!Book /\ Places!Total = PlacesT!Total
  BY DEF Places!Book, PlacesT!Book, Places!Total, PlacesT!Total

LEMMA LedgerInitSame == PlacesT!Ledger!Init => Places!Ledger!Init
  BY BookSame DEF Places!Ledger!Init, PlacesT!Ledger!Init

LEMMA LedgerNextSame == PlacesT!Ledger!Next => Places!Ledger!Next
  BY DEF Places!Ledger!Next, PlacesT!Ledger!Next, Places!Ledger!Place, PlacesT!Ledger!Place,
         Places!Ledger!Replace, PlacesT!Ledger!Replace,
         Places!Ledger!Move, PlacesT!Ledger!Move, Places!Ledger!End, PlacesT!Ledger!End,
         Places!Ledger!Added, PlacesT!Ledger!Added,
         Places!Ledger!Placement, PlacesT!Ledger!Placement,
         Places!Ledger!Fits, PlacesT!Ledger!Fits, Places!Ledger!Limit, PlacesT!Ledger!Limit,
         Places!Ledger!Lasting, PlacesT!Ledger!Lasting,
         Places!Ledger!Cardinality, PlacesT!Ledger!Cardinality, Places!Book, PlacesT!Book,
         Places!Total, PlacesT!Total, Places!RowIds, PlacesT!RowIds

(* The handlers of the placements keep the book of Placements: what is     *)
(* inserted after a full count fits the stock when it is inserted, a move  *)
(* keeps the units, a returned row stays so whatever moves it, and only    *)
(* POST /equipment/:id/allocations ends more than one placement, in the    *)
(* transaction that makes its own.                                         *)
THEOREM ServerPlacements == Spec => ImplementsPlacements
  <1>1. Init => BookInv
    BY ServerAssumption, TablesSetUp, PlacesSetUp, PlacesStarts, PlacesT!BoundInit DEF Init, BookInv
  <1>2. Init => (Chosen("places") => Places!Ledger!Init)
    BY ServerAssumption, TablesSetUp, PlacesSetUp, PlacesStarts, PlacesT!BookStarts, LedgerInitSame DEF Init
  <1>3. ASSUME BookInv, [Next]_vars
        PROVE  /\ BookInv'
               /\ [Chosen("places") => Places!Ledger!Next]_<<Places!Book, Places!Total, outrun>>
    <2>1. Chosen("places")' = Chosen("places")
      BY <1>3, PartSteps DEF Chosen
    <2>2. Chosen("places") => [PlacesT!Next]_(PlacesT!placeVars)
      BY <1>3, PartSteps, PlacesSteps DEF placeVars, PlacesT!placeVars, PlacesT!tables
    <2>3. BookInv'
      BY <1>3, <2>1, <2>2, ServerAssumption, TablesSetUp, PlacesSetUp, PlacesT!BoundNext DEF BookInv
    <2>4. Chosen("places") => [PlacesT!Ledger!Next]_<<PlacesT!Book, PlacesT!Total, outrun>>
      BY <1>3, <2>1, <2>2, <2>3, ServerAssumption, TablesSetUp, PlacesSetUp, PlacesT!BookStep DEF BookInv
    <2>5. /\ Places!Book = PlacesT!Book /\ Places!Book' = PlacesT!Book'
          /\ Places!Total = PlacesT!Total /\ Places!Total' = PlacesT!Total'
      BY DEF Places!Book, PlacesT!Book, Places!Total, PlacesT!Total
    <2> QED
      BY <2>3, <2>4, <2>5, LedgerNextSame
  <1> QED
    BY <1>1, <1>2, <1>3, PTL DEF Spec, ImplementsPlacements

-----------------------------------------------------------------------------
(***************************************************************************)
(* Serial numbers, imports and exports.  A request that has looked up a    *)
(* number and will write it still finds it free, unless the number is      *)
(* contested; an import at work on a record has counted those before it.   *)
(***************************************************************************)
IoSerial == Serials \cup {"none"}

NoRequest == [pc : {"none"}]
InsertCall == [pc : {"insert"}, asked : IoSerial, serial : IoSerial]
SaveCall == [pc : {"save"}, item : Nat, serial : IoSerial]
ImportCall ==
    [pc : {"find", "find_serial", "write", "log"}, file : Seq(ImportRecord) \ {<<>>}, item : Nat,
     serial : IoSerial, by_id : BOOLEAN, keeps : BOOLEAN, wrote : BOOLEAN,
     created : Nat, updated : Nat, errors : Nat, rows : Nat, unlogged : Nat]
ExportCall == [pc : {"write_csv", "read_csv"}, stamp : Stamps]
ReadCall == [pc : {"unlink_csv", "failed"}, stamp : Stamps, rows_of : IoHandlers]
IoCall == UNION {NoRequest, InsertCall, SaveCall, ImportCall, ExportCall, ReadCall}

ItemsOf(table, serial) == {i \in DOMAIN table : table[i] = serial}

(* What the request has looked up is so still. *)
LooksRight(c, table, excepted) ==
    /\ c.pc = "insert" /\ c.asked = c.serial =>
          c.serial \in excepted \cup {"none"} \/ ItemsOf(table, c.serial) = {}
    /\ c.pc = "save" =>
          c.serial \in excepted \cup {"none"} \/ ItemsOf(table, c.serial) \subseteq {c.item}
    /\ c.pc = "write" /\ c.keeps = FALSE /\ c.by_id = FALSE =>
          /\ c.item = 0
          /\ c.serial \in excepted \cup {"none"} \/ ItemsOf(table, c.serial) = {}

(* An entry can only be written about an item the request has written. *)
CountsRight(c, table, last) ==
    /\ c.pc = "write" => c.item <= last
    /\ c.pc = "write" /\ c.keeps => c.item # 0
    /\ c.pc \in {"find", "find_serial", "write"} => c.rows = c.created + c.updated + c.unlogged
    /\ c.pc = "log" /\ c.wrote => c.rows = c.created + c.updated + c.unlogged + 1
    /\ c.pc = "log" /\ c.wrote = FALSE =>
          /\ c.rows = c.created + c.updated + c.unlogged
          /\ c.item \notin DOMAIN table /\ c.item <= last

StockRight(table, last, calls, excepted) ==
    /\ last \in 0..MaxItems
    /\ DOMAIN table \subseteq 1..last /\ table \in [DOMAIN table -> IoSerial]
    /\ excepted \subseteq Serials
    /\ calls \in [IoHandlers -> IoCall]
    /\ \A h \in IoHandlers :
          LooksRight(calls[h], table, excepted) /\ CountsRight(calls[h], table, last)
    /\ \A i, j \in DOMAIN table :
          i # j /\ table[i] = table[j] => table[i] \in excepted \cup {"none"}

StockInv == StockRight(items, last_item, io_calls, contested)

(* The step is none of an export. *)
ExportPc == {"write_csv", "read_csv", "unlink_csv", "failed"}
NotExporting(h) ==
    /\ \A g \in IoHandlers \ {h} : io_calls'[g] = io_calls[g]
    /\ io_calls'[h] = io_calls[h] \/ io_calls'[h].pc \notin ExportPc

LEMMA CallShapes ==
  ASSUME NEW c \in IoCall
  PROVE  /\ c.pc = "none" => c \in NoRequest
         /\ c.pc = "insert" => c \in InsertCall
         /\ c.pc = "save" => c \in SaveCall
         /\ c.pc \in {"find", "find_serial", "write", "log"} => c \in ImportCall
         /\ c.pc \in {"write_csv", "read_csv"} => c \in ExportCall
         /\ c.pc \in {"unlink_csv", "failed"} => c \in ReadCall
  BY DEF IoCall, NoRequest, InsertCall, SaveCall, ImportCall, ExportCall, ReadCall

LEMMA StockStarts ==
  ASSUME Transfer!Init
  PROVE  StockInv
  <1>1. /\ DOMAIN items = {} /\ last_item = 0 /\ contested = {}
        /\ \A h \in IoHandlers : io_calls[h] = [pc |-> "none"]
        /\ items \in [DOMAIN items -> IoSerial]
    BY DEF Transfer!Init, Transfer!NoCall
  <1>2. [pc |-> "none"] \in IoCall
    BY DEF IoCall, NoRequest
  <1>3. io_calls \in [IoHandlers -> IoCall]
    BY <1>2 DEF Transfer!Init, Transfer!NoCall
  <1> QED
    BY <1>1, <1>3, ServerAssumption DEF StockInv, StockRight, LooksRight, CountsRight

(* The rows stay: only the request itself has to be right. *)
LEMMA QuietStep ==
  ASSUME StockInv, NEW h \in IoHandlers, NEW c \in IoCall, Transfer!Become(h, c),
         UNCHANGED <<items, last_item, contested>>,
         LooksRight(c, items, contested), CountsRight(c, items, last_item)
  PROVE  StockInv' /\ (c.pc \notin ExportPc => NotExporting(h))
  <1>1. io_calls' = [io_calls EXCEPT ![h] = c]
    BY DEF Transfer!Become
  <1>2. io_calls' \in [IoHandlers -> IoCall]
    BY <1>1 DEF StockInv, StockRight
  <1>3. ASSUME NEW g \in IoHandlers
        PROVE  LooksRight(io_calls'[g], items, contested) /\ CountsRight(io_calls'[g], items, last_item)
    <2>1. CASE g = h
      BY <1>1, <2>1 DEF StockInv, StockRight
    <2>2. CASE g # h
      BY <1>1, <2>2 DEF StockInv, StockRight
    <2> QED
      BY <2>1, <2>2
  <1> QED
    BY <1>1, <1>2, <1>3 DEF StockInv, StockRight, NotExporting

(* A request writes a number, into a row of the table or a new one. *)
LEMMA WriteStep ==
  ASSUME StockInv, NEW h \in IoHandlers, NEW c \in IoCall, Transfer!Become(h, c),
         NEW i \in Nat \ {0}, NEW serial \in IoSerial,
         \/ i \in DOMAIN items /\ last_item' = last_item
         \/ i = last_item + 1 /\ last_item' = i /\ last_item < MaxItems,
         Transfer!Written(i, serial), Transfer!Contest(h, serial, i),
         \/ serial \in contested \cup {"none"}
         \/ ItemsOf(items, serial) \subseteq {i}
         \/ Transfer!Unasked(io_calls[h]),
         LooksRight(c, items', contested'), CountsRight(c, items', last_item')
  PROVE  StockInv' /\ (c.pc \notin ExportPc => NotExporting(h))
  <1>1. io_calls' = [io_calls EXCEPT ![h] = c] /\ io_calls' \in [IoHandlers -> IoCall]
    BY DEF Transfer!Become, StockInv, StockRight
  <1>2. last_item \in 0..MaxItems /\ DOMAIN items \subseteq 1..last_item
    BY DEF StockInv, StockRight
  <1>3. last_item' \in 0..MaxItems /\ last_item <= last_item' /\ i \in 1..last_item'
    BY <1>2, ServerAssumption
  <1>4. /\ DOMAIN items' = DOMAIN items \cup {i}
        /\ items'[i] = serial
        /\ \A j \in DOMAIN items \ {i} : items'[j] = items[j]
        /\ items' \in [DOMAIN items' -> IoSerial]
    BY DEF Transfer!Written, StockInv, StockRight
  <1>5. DOMAIN items' \subseteq 1..last_item'
    BY <1>2, <1>3, <1>4, ServerAssumption
  <1>6. contested \subseteq contested' /\ contested' \subseteq Serials
    BY DEF Transfer!Contest, Transfer!None, IoSerial, StockInv, StockRight
  <1>7. \A j, k \in DOMAIN items' :
           j # k /\ items'[j] = items'[k] => items'[j] \in contested' \cup {"none"}
    <2>1. ASSUME NEW j \in DOMAIN items \ {i}, items[j] = serial, serial # "none"
          PROVE  serial \in contested'
      <3>1. j \in ItemsOf(items, serial) /\ j \in Transfer!ItemsWith(serial) \ {i}
        BY <2>1 DEF ItemsOf, Transfer!ItemsWith
      <3>2. CASE Transfer!Unasked(io_calls[h])
        BY <2>1, <3>1, <3>2 DEF Transfer!Contest, Transfer!None
      <3> QED
        BY <1>6, <2>1, <3>1, <3>2
    <2>2. \A j, k \in DOMAIN items :
             j # k /\ items[j] = items[k] => items[j] \in contested \cup {"none"}
      BY DEF StockInv, StockRight
    <2> QED
      BY <1>4, <1>6, <2>1, <2>2
  <1>8. ASSUME NEW g \in IoHandlers \ {h}, NEW d, d = io_calls[g]
        PROVE  LooksRight(d, items', contested')
    <2>1. d \in IoCall /\ LooksRight(d, items, contested)
      BY <1>8 DEF StockInv, StockRight
    <2>2. d.pc \in {"insert", "save"} \/ (d.pc = "write" /\ d.keeps = FALSE) =>
            /\ d.serial \in IoSerial
            /\ d.serial # serial => ItemsOf(items', d.serial) \subseteq ItemsOf(items, d.serial)
            /\ d.serial = serial => serial \in contested' \cup {"none"}
      <3>1. d.pc \in {"insert", "save"} \/ (d.pc = "write" /\ d.keeps = FALSE) =>
               Transfer!Pending(g) = d.serial
        BY <1>8 DEF Transfer!Pending
      <3>2. d.pc \in {"insert", "save"} \/ d.pc = "write" => d.serial \in IoSerial
        BY <2>1, CallShapes DEF InsertCall, SaveCall, ImportCall
      <3>3. d.serial # serial => ItemsOf(items', d.serial) \subseteq ItemsOf(items, d.serial)
        BY <1>4 DEF ItemsOf
      <3>4. Transfer!Pending(g) = serial => serial \in contested' \cup {"none"}
        BY DEF Transfer!Contest, Transfer!None
      <3> QED
        BY <3>1, <3>2, <3>3, <3>4
    <2>3. d.pc = "insert" \/ d.pc = "save" \/ (d.pc = "write" /\ d.keeps = FALSE) =>
            \/ d.serial \in contested' \cup {"none"}
            \/ /\ d.serial \notin contested \cup {"none"}
               /\ ItemsOf(items', d.serial) \subseteq ItemsOf(items, d.serial)
      BY <1>6, <2>2
    <2>4. ASSUME d.pc = "insert", d.asked = d.serial
          PROVE  d.serial \in contested' \cup {"none"} \/ ItemsOf(items', d.serial) = {}
      <3>1. d.serial \in contested \cup {"none"} \/ ItemsOf(items, d.serial) = {}
        BY <2>1, <2>4 DEF LooksRight
      <3> QED
        BY <2>3, <2>4, <3>1
    <2>5. ASSUME d.pc = "save"
          PROVE  d.serial \in contested' \cup {"none"} \/ ItemsOf(items', d.serial) \subseteq {d.item}
      <3>1. d.serial \in contested \cup {"none"} \/ ItemsOf(items, d.serial) \subseteq {d.item}
        BY <2>1, <2>5 DEF LooksRight
      <3> QED
        BY <2>3, <2>5, <3>1
    <2>6. d.pc = "write" /\ d.keeps = FALSE /\ d.by_id = FALSE =>
            /\ d.item = 0
            /\ d.serial \in contested' \cup {"none"} \/ ItemsOf(items', d.serial) = {}
      BY <2>1, <2>3 DEF LooksRight
    <2> QED
      BY <2>4, <2>5, <2>6 DEF LooksRight
  <1>9. ASSUME NEW g \in IoHandlers \ {h}, NEW d, d = io_calls[g]
        PROVE  CountsRight(d, items', last_item')
    <2>1. d \in IoCall /\ CountsRight(d, items, last_item)
      BY <1>9 DEF StockInv, StockRight
    <2>2. d.pc \in {"write", "log"} => d.item \in Nat
      BY <2>1, CallShapes DEF ImportCall
    <2>3. d.pc \in {"write", "log"} /\ d.item <= last_item => d.item <= last_item'
      BY <1>2, <1>3, <2>2, ServerAssumption
    <2>4. d.pc = "log" /\ d.item <= last_item /\ d.item \notin DOMAIN items => d.item \notin DOMAIN items'
      BY <1>2, <1>4, <2>2, ServerAssumption
    <2>5. d.pc = "log" => d.pc \in {"write", "log"} /\ d.pc \notin {"find", "find_serial", "write"}
      OBVIOUS
    <2>6. d.pc = "write" => d.item <= last_item'
      BY <2>1, <2>3 DEF CountsRight
    <2>7. d.pc = "log" /\ d.wrote = FALSE => d.item \notin DOMAIN items' /\ d.item <= last_item'
      BY <2>1, <2>3, <2>4 DEF CountsRight
    <2> QED
      BY <2>1, <2>6, <2>7 DEF CountsRight
  <1>10. ASSUME NEW g \in IoHandlers
         PROVE  LooksRight(io_calls'[g], items', contested') /\ CountsRight(io_calls'[g], items', last_item')
    <2>1. CASE g = h
      BY <1>1, <2>1 DEF StockInv, StockRight
    <2>2. CASE g # h
      BY <1>1, <1>8, <1>9, <2>2 DEF StockInv, StockRight
    <2> QED
      BY <2>1, <2>2
  <1> QED
    BY <1>1, <1>3, <1>4, <1>5, <1>6, <1>7, <1>10 DEF StockInv, StockRight, NotExporting

LEMMA PostPutSteps ==
  ASSUME StockInv, NEW h \in IoHandlers,
         \/ \E serial \in IoSerial : Transfer!PostLookup(h, serial)
         \/ \E i \in DOMAIN items, serial \in IoSerial : Transfer!PutLookup(h, i, serial)
         \/ \E i \in DOMAIN items : Transfer!Delete(h, i)
         \/ Transfer!PostInsert(h)
         \/ Transfer!PutSave(h)
  PROVE  StockInv' /\ NotExporting(h)
  <1> DEFINE c == io_calls[h]
  <1>0. /\ c \in IoCall /\ LooksRight(c, items, contested) /\ CountsRight(c, items, last_item)
        /\ last_item \in 0..MaxItems /\ DOMAIN items \subseteq 1..last_item
    BY DEF StockInv, StockRight
  <1>n. [pc |-> "none"] \in IoCall
    BY DEF IoCall, NoRequest
  <1>1. ASSUME NEW sent \in IoSerial, Transfer!PostLookup(h, sent)
        PROVE  StockInv' /\ NotExporting(h)
    <2> DEFINE serial == Trimmed(sent)
    <2> DEFINE new == [pc |-> "insert", asked |-> sent, serial |-> serial]
    <2>1. /\ Transfer!Become(h, new) /\ UNCHANGED <<items, last_item, contested>>
          /\ serial = "none" \/ sent = "none" \/ ItemsOf(items, sent) \subseteq {0}
      BY <1>1 DEF Transfer!PostLookup, Transfer!Start, Transfer!SerialFree, Transfer!None,
                  Transfer!NoItem, Transfer!ItemsWith, ItemsOf
    <2>2. sent = serial => serial = "none" \/ ItemsOf(items, serial) = {}
      BY <1>0, <2>1, ServerAssumption DEF ItemsOf
    <2>3. serial \in IoSerial
      BY ServerAssumption DEF IoSerial
    <2> HIDE DEF serial
    <2>4. /\ new \in IoCall /\ new.pc \notin ExportPc
          /\ LooksRight(new, items, contested) /\ CountsRight(new, items, last_item)
      BY <2>2, <2>3 DEF IoCall, InsertCall, LooksRight, CountsRight, ExportPc
    <2> HIDE DEF new
    <2> QED
      BY <2>1, <2>4, QuietStep
  <1>2. ASSUME NEW i \in DOMAIN items, NEW serial \in IoSerial, Transfer!PutLookup(h, i, serial)
        PROVE  StockInv' /\ NotExporting(h)
    <2> DEFINE new == [pc |-> "save", item |-> i, serial |-> serial]
    <2>1. /\ Transfer!Become(h, new) /\ UNCHANGED <<items, last_item, contested>>
          /\ serial = "none" \/ ItemsOf(items, serial) \subseteq {i}
      BY <1>2 DEF Transfer!PutLookup, Transfer!Start, Transfer!SerialFree, Transfer!None,
                  Transfer!ItemsWith, ItemsOf
    <2>2. i \in Nat
      BY <1>0, ServerAssumption
    <2>3. /\ new \in IoCall /\ new.pc \notin ExportPc
          /\ LooksRight(new, items, contested) /\ CountsRight(new, items, last_item)
      BY <2>1, <2>2 DEF IoCall, SaveCall, LooksRight, CountsRight, ExportPc
    <2> HIDE DEF new
    <2> QED
      BY <2>1, <2>3, QuietStep
  <1>3. ASSUME NEW i \in DOMAIN items, Transfer!Delete(h, i)
        PROVE  StockInv' /\ NotExporting(h)
    <2>1. /\ DOMAIN items' \subseteq DOMAIN items /\ \A j \in DOMAIN items' : items'[j] = items[j]
          /\ items' \in [DOMAIN items' -> IoSerial]
          /\ UNCHANGED <<last_item, io_calls, contested>>
      BY <1>3 DEF Transfer!Delete, StockInv, StockRight
    <2>2. \A s : ItemsOf(items', s) \subseteq ItemsOf(items, s)
      BY <2>1 DEF ItemsOf
    <2>3. ASSUME NEW g \in IoHandlers
          PROVE  LooksRight(io_calls[g], items', contested)
                 /\ CountsRight(io_calls[g], items', last_item)
      <3>1. LooksRight(io_calls[g], items, contested) /\ CountsRight(io_calls[g], items, last_item)
        BY DEF StockInv, StockRight
      <3> QED
        BY <2>1, <2>2, <3>1 DEF LooksRight, CountsRight
    <2> QED
      BY <2>1, <2>3 DEF StockInv, StockRight, NotExporting
  <1>4. CASE Transfer!PostInsert(h)
    <2>1. /\ c.pc = "insert" /\ last_item < MaxItems /\ last_item' = last_item + 1
          /\ Transfer!Written(last_item + 1, c.serial) /\ Transfer!Contest(h, c.serial, last_item + 1)
          /\ Transfer!Become(h, [pc |-> "none"])
      BY <1>4 DEF Transfer!PostInsert, Transfer!At, Transfer!Answer, Transfer!NoCall
    <2>2. c.serial \in IoSerial
      BY <1>0, <2>1, CallShapes DEF InsertCall
    <2>3. \/ c.serial \in contested \cup {"none"} \/ ItemsOf(items, c.serial) \subseteq {last_item + 1}
          \/ Transfer!Unasked(c)
      BY <1>0, <2>1 DEF LooksRight, Transfer!Unasked
    <2>4. LooksRight([pc |-> "none"], items', contested') /\ CountsRight([pc |-> "none"], items', last_item')
      BY DEF LooksRight, CountsRight
    <2>5. last_item + 1 \in Nat \ {0}
      BY <1>0, ServerAssumption
    <2> QED
      BY <1>n, <2>1, <2>2, <2>3, <2>4, <2>5, WriteStep DEF ExportPc
  <1>5. CASE Transfer!PutSave(h)
    <2>1. /\ c.pc = "save" /\ last_item' = last_item /\ Transfer!Become(h, [pc |-> "none"])
          /\ IF c.item \in DOMAIN items
               THEN Transfer!Written(c.item, c.serial) /\ Transfer!Contest(h, c.serial, c.item)
               ELSE UNCHANGED <<items, contested>>
      BY <1>5 DEF Transfer!PutSave, Transfer!At, Transfer!Answer, Transfer!NoCall
    <2>2. c.serial \in IoSerial /\ c.item \in Nat
      BY <1>0, <2>1, CallShapes DEF SaveCall
    <2>3. c.serial \in contested \cup {"none"} \/ ItemsOf(items, c.serial) \subseteq {c.item}
      BY <1>0, <2>1 DEF LooksRight
    <2>4. LooksRight([pc |-> "none"], items', contested') /\ CountsRight([pc |-> "none"], items', last_item')
      BY DEF LooksRight, CountsRight
    <2>5. CASE c.item \in DOMAIN items
      <3>1. c.item \in Nat \ {0}
        BY <1>0, <2>5, ServerAssumption
      <3> QED
        BY <1>n, <2>1, <2>2, <2>3, <2>4, <2>5, <3>1, WriteStep DEF ExportPc
    <2>6. CASE c.item \notin DOMAIN items
      BY <1>n, <2>1, <2>4, <2>6, QuietStep DEF ExportPc
    <2> QED
      BY <2>5, <2>6
  <1> QED
    BY <1>1, <1>2, <1>3, <1>4, <1>5

(* The next record, or none *)
LEMMA RecordStep ==
  ASSUME StockInv, NEW h \in IoHandlers, NEW c \in ImportCall,
         c.rows = c.created + c.updated + c.unlogged,
         Transfer!NextRecord(h, c), UNCHANGED <<items, last_item, contested>>
  PROVE  StockInv' /\ NotExporting(h)
  <1> DEFINE next == [c EXCEPT !.file = Tail(c.file), !.pc = "find", !.item = 0, !.serial = "none",
                               !.by_id = FALSE, !.keeps = FALSE, !.wrote = FALSE]
  <1>1. CASE Len(c.file) = 1
    <2>1. Transfer!Become(h, [pc |-> "none"])
      BY <1>1 DEF Transfer!NextRecord, Transfer!NoCall
    <2>2. /\ [pc |-> "none"] \in IoCall /\ LooksRight([pc |-> "none"], items, contested)
          /\ CountsRight([pc |-> "none"], items, last_item)
      BY DEF IoCall, NoRequest, LooksRight, CountsRight
    <2> QED
      BY <2>1, <2>2, QuietStep DEF ExportPc
  <1>2. CASE Len(c.file) # 1
    <2>1. Transfer!Become(h, next)
      BY <1>2 DEF Transfer!NextRecord, Transfer!NoItem, Transfer!None
    <2>2. Tail(c.file) \in Seq(ImportRecord) \ {<<>>}
      <3>1. c.file \in Seq(ImportRecord) /\ c.file # <<>>
        BY DEF ImportCall
      <3>2. Len(c.file) > 1
        <4>1. Len(c.file) \in Nat \ {0}
          BY <3>1, EmptySeq
        <4>2. \A n \in Nat \ {0} : n # 1 => n > 1
          OBVIOUS
        <4> QED
          BY <1>2, <4>1, <4>2
      <3>3. Tail(c.file) \in Seq(ImportRecord) /\ Len(Tail(c.file)) = Len(c.file) - 1
        BY <3>1, HeadTailProperties
      <3> QED
        BY <3>2, <3>3, EmptySeq
    <2>3. next \in ImportCall
      BY <2>2 DEF ImportCall, IoSerial
    <2>4. /\ next.pc = "find" /\ next.rows = c.rows /\ next.created = c.created
          /\ next.updated = c.updated /\ next.unlogged = c.unlogged
      BY DEF ImportCall
    <2>5. next \in IoCall
      BY <2>3 DEF IoCall
    <2> HIDE DEF next
    <2>6. LooksRight(next, items, contested) /\ CountsRight(next, items, last_item)
      BY <2>4 DEF LooksRight, CountsRight
    <2> QED
      BY <2>1, <2>4, <2>5, <2>6, QuietStep DEF ExportPc
  <1> QED
    BY <1>1, <1>2

LEMMA FindSteps ==
  ASSUME StockInv, NEW h \in IoHandlers,
         \/ \E file \in Files : Transfer!ImportStart(h, file)
         \/ Transfer!ImportFindId(h)
         \/ Transfer!ImportFindSerial(h)
  PROVE  StockInv' /\ NotExporting(h)
  <1> DEFINE c == io_calls[h]
  <1>0. /\ c \in IoCall /\ CountsRight(c, items, last_item)
        /\ last_item \in 0..MaxItems /\ DOMAIN items \subseteq 1..last_item
    BY DEF StockInv, StockRight
  <1>1. ASSUME NEW file \in Files, Transfer!ImportStart(h, file)
        PROVE  StockInv' /\ NotExporting(h)
    <2> DEFINE new == [pc |-> "find", file |-> file, item |-> 0, serial |-> "none",
                       by_id |-> FALSE, keeps |-> FALSE, wrote |-> FALSE,
                       created |-> 0, updated |-> 0, errors |-> 0, rows |-> 0, unlogged |-> 0]
    <2>1. Transfer!Become(h, new) /\ UNCHANGED <<items, last_item, contested>>
      BY <1>1 DEF Transfer!ImportStart, Transfer!Start, Transfer!NoItem, Transfer!None
    <2>2. new \in ImportCall
      BY ServerAssumption DEF ImportCall, IoSerial
    <2>3. /\ LooksRight(new, items, contested) /\ CountsRight(new, items, last_item)
          /\ new.pc \notin ExportPc
      BY DEF LooksRight, CountsRight, ExportPc
    <2>4. new \in IoCall
      BY <2>2 DEF IoCall
    <2> HIDE DEF new
    <2> QED
      BY <2>1, <2>3, <2>4, QuietStep
  <1>2. CASE Transfer!ImportFindId(h)
    <2> DEFINE record == Head(c.file)
               found == record.id \in DOMAIN items
               keeps == found /\ items[record.id] = record.serial
               bad == [c EXCEPT !.errors = c.errors + 1]
               new == [c EXCEPT !.pc = IF found \/ record.serial = "none"
                                         THEN "write" ELSE "find_serial",
                                !.item = IF found THEN record.id ELSE 0,
                                !.by_id = found, !.keeps = keeps,
                                !.serial = record.serial]
    <2>1. /\ c.pc = "find" /\ UNCHANGED <<items, last_item, contested>>
          /\ IF Transfer!Blank(record) THEN Transfer!NextRecord(h, bad)
             ELSE Transfer!Become(h, new)
      BY <1>2 DEF Transfer!ImportFindId, Transfer!At, Transfer!None, Transfer!NoItem
    <2>2. c \in ImportCall /\ c.rows = c.created + c.updated + c.unlogged
      BY <1>0, <2>1, CallShapes DEF CountsRight
    <2>3. CASE Transfer!Blank(record)
      <3>0. c.errors + 1 \in Nat
        BY <2>2 DEF ImportCall
      <3>1. bad \in ImportCall
        BY <2>2, <3>0 DEF ImportCall
      <3>2. bad.rows = c.rows /\ bad.created = c.created /\ bad.updated = c.updated
            /\ bad.unlogged = c.unlogged
        BY <2>2 DEF ImportCall
      <3>3. Transfer!NextRecord(h, bad)
        BY <2>1, <2>3
      <3> HIDE DEF bad
      <3> QED
        BY <2>1, <2>2, <3>1, <3>2, <3>3, RecordStep
    <2>4. CASE ~Transfer!Blank(record)
      <3>1. record \in ImportRecord
        <4>1. c.file \in Seq(ImportRecord) /\ c.file # <<>>
          BY <2>2 DEF ImportCall
        <4> QED
          BY <4>1
      <3>2. record.id \in Nat /\ record.serial \in IoSerial
        BY <3>1 DEF ImportRecord, IoSerial
      <3>3. Transfer!Become(h, new)
        BY <2>1, <2>4
      <3> HIDE DEF record
      <3>4. found => record.id <= last_item /\ record.id # 0
        BY <1>0, <3>2, ServerAssumption
      <3>5. found \in BOOLEAN /\ keeps \in BOOLEAN /\ (keeps => found)
        OBVIOUS
      <3> HIDE DEF found, keeps
      <3>6. new \in ImportCall
        BY <2>2, <3>2, <3>5 DEF ImportCall
      <3>7. /\ new.pc = IF found \/ record.serial = "none" THEN "write" ELSE "find_serial"
            /\ new.item = IF found THEN record.id ELSE 0
            /\ new.by_id = found /\ new.keeps = keeps
            /\ new.serial = record.serial
            /\ new.rows = c.rows /\ new.created = c.created
            /\ new.updated = c.updated /\ new.unlogged = c.unlogged
        BY <2>2 DEF ImportCall
      <3> HIDE DEF new
      <3>8. LooksRight(new, items, contested)
        BY <3>5, <3>7 DEF LooksRight
      <3>9. CountsRight(new, items, last_item)
        BY <1>0, <2>2, <3>4, <3>5, <3>7, ServerAssumption DEF CountsRight
      <3>10. new \in IoCall
        BY <3>6 DEF IoCall
      <3> QED
        BY <2>1, <3>3, <3>7, <3>8, <3>9, <3>10, QuietStep DEF ExportPc
    <2> QED
      BY <2>3, <2>4
  <1>3. CASE Transfer!ImportFindSerial(h)
    <2> DEFINE found == ItemsOf(items, c.serial)
    <2>1. PICK i \in (IF found = {} THEN {0} ELSE found) :
             Transfer!Become(h, [c EXCEPT !.pc = "write", !.item = i, !.keeps = i # 0])
      BY <1>3 DEF Transfer!ImportFindSerial, Transfer!NoItem, Transfer!ItemsWith, ItemsOf
    <2> DEFINE new == [c EXCEPT !.pc = "write", !.item = i, !.keeps = i # 0]
    <2>2. c.pc = "find_serial" /\ UNCHANGED <<items, last_item, contested>>
      BY <1>3 DEF Transfer!ImportFindSerial, Transfer!At
    <2>3. c \in ImportCall /\ c.rows = c.created + c.updated + c.unlogged
      BY <1>0, <2>2, CallShapes DEF CountsRight
    <2>4. i \in Nat /\ i <= last_item /\ (i = 0 => found = {})
      BY <1>0, <2>1, ServerAssumption DEF ItemsOf
    <2>5. new \in ImportCall
      BY <2>3, <2>4 DEF ImportCall
    <2>6. /\ new.pc = "write" /\ new.item = i /\ new.keeps = (i # 0) /\ new.serial = c.serial
          /\ new.rows = c.rows /\ new.created = c.created
          /\ new.updated = c.updated /\ new.unlogged = c.unlogged
      BY <2>3 DEF ImportCall
    <2>7. Transfer!Become(h, new)
      BY <2>1
    <2>8. new \in IoCall
      BY <2>5 DEF IoCall
    <2> HIDE DEF new
    <2>9. LooksRight(new, items, contested) /\ CountsRight(new, items, last_item)
      BY <2>3, <2>4, <2>6 DEF LooksRight, CountsRight
    <2> QED
      BY <2>2, <2>6, <2>7, <2>8, <2>9, QuietStep DEF ExportPc
  <1> QED
    BY <1>1, <1>2, <1>3

LEMMA WriteSteps ==
  ASSUME StockInv, NEW h \in IoHandlers, Transfer!ImportWrite(h)
  PROVE  StockInv' /\ NotExporting(h)
  <1> DEFINE c == io_calls[h]
             i == IF c.item = 0 THEN last_item + 1 ELSE c.item
             matches == i \in DOMAIN items \cup {last_item + 1}
             new == [c EXCEPT !.pc = "log", !.item = i, !.wrote = matches,
                              !.rows = c.rows + (IF matches THEN 1 ELSE 0)]
  <1>1. /\ c \in IoCall /\ LooksRight(c, items, contested) /\ CountsRight(c, items, last_item)
        /\ last_item \in 0..MaxItems /\ DOMAIN items \subseteq 1..last_item
    BY DEF StockInv, StockRight
  <1>2. /\ c.pc = "write" /\ c.item = 0 => last_item < MaxItems
        /\ last_item' = IF c.item = 0 THEN last_item + 1 ELSE last_item
        /\ IF matches /\ ~c.keeps
             THEN Transfer!Written(i, c.serial) /\ Transfer!Contest(h, c.serial, i)
             ELSE UNCHANGED <<items, contested>>
        /\ Transfer!Become(h, new)
    BY DEF Transfer!ImportWrite, Transfer!At, Transfer!NoItem
  <1>3. c.pc = "write"
    BY DEF Transfer!ImportWrite, Transfer!At
  <1>4. c \in ImportCall /\ c.item <= last_item
    BY <1>1, <1>3, CallShapes DEF CountsRight
  <1>5. /\ c.item \in Nat /\ c.serial \in IoSerial /\ c.keeps \in BOOLEAN /\ c.by_id \in BOOLEAN
        /\ c.rows \in Nat /\ c.created \in Nat /\ c.updated \in Nat /\ c.unlogged \in Nat
        /\ c.rows = c.created + c.updated + c.unlogged
    BY <1>1, <1>3, <1>4 DEF ImportCall, CountsRight
  <1>6. /\ last_item \in Nat /\ last_item' \in Nat
        /\ i \in Nat \ {0} /\ i <= last_item'
    <2>1. last_item \in Nat
      BY <1>1, ServerAssumption
    <2>2. CASE c.item = 0
      BY <1>2, <2>1, <2>2
    <2>3. CASE c.item # 0
      BY <1>2, <1>4, <1>5, <2>1, <2>3
    <2> QED
      BY <2>2, <2>3
  <1>7. matches => \/ i \in DOMAIN items /\ last_item' = last_item
                   \/ i = last_item + 1 /\ last_item' = i /\ last_item < MaxItems
    BY <1>1, <1>2, <1>3, <1>4, <1>5, ServerAssumption
  <1>8. new \in ImportCall
    <2>1. c.rows + (IF matches THEN 1 ELSE 0) \in Nat /\ i \in Nat /\ matches \in BOOLEAN
      BY <1>5, <1>6
    <2> HIDE DEF i, matches
    <2> QED
      BY <1>4, <2>1 DEF ImportCall
  <1>9. /\ new.pc = "log" /\ new.item = i /\ new.wrote = matches
        /\ new.rows = c.rows + (IF matches THEN 1 ELSE 0) /\ new.created = c.created
        /\ new.updated = c.updated /\ new.unlogged = c.unlogged
    BY <1>4 DEF ImportCall
  <1>10. new \in IoCall
    BY <1>8 DEF IoCall
  <1> HIDE DEF new
  <1>11. LooksRight(new, items', contested')
    BY <1>9 DEF LooksRight
  <1>12. CASE matches
    <2>1. CountsRight(new, items', last_item')
      <3>1. new.wrote = TRUE /\ new.rows = c.rows + 1
        BY <1>9, <1>12
      <3> QED
        BY <1>5, <1>9, <3>1 DEF CountsRight
    <2>2. CASE c.keeps = FALSE
      <3>1. \/ c.serial \in contested \cup {"none"}
            \/ ItemsOf(items, c.serial) \subseteq {i}
            \/ Transfer!Unasked(c)
        BY <1>1, <1>3, <1>5, <2>2 DEF LooksRight, Transfer!Unasked
      <3>2. Transfer!Written(i, c.serial) /\ Transfer!Contest(h, c.serial, i)
        BY <1>2, <1>12, <2>2
      <3> HIDE DEF i, matches
      <3> QED
        BY <1>2, <1>5, <1>6, <1>7, <1>9, <1>10, <1>11, <1>12, <2>1, <3>1, <3>2, WriteStep DEF ExportPc
    <2>3. CASE c.keeps = TRUE
      <3>1. UNCHANGED <<items, contested>>
        BY <1>2, <2>3
      <3>2. c.item # 0
        BY <1>1, <1>3, <2>3 DEF CountsRight
      <3>3. last_item' = last_item
        BY <1>2, <3>2
      <3> QED
        BY <1>2, <1>9, <1>10, <1>11, <2>1, <3>1, <3>3, QuietStep DEF ExportPc
    <2> QED
      BY <1>5, <2>2, <2>3
  <1>13. CASE ~matches
    <2>1. UNCHANGED <<items, contested>> /\ c.item # 0 /\ i = c.item /\ last_item' = last_item
      BY <1>2, <1>13
    <2>2. CountsRight(new, items', last_item')
      <3>1. new.wrote = FALSE /\ new.rows = c.rows
        <4>1. new.rows = c.rows + 0
          BY <1>9, <1>13
        <4>2. new.wrote = FALSE
          <5> HIDE DEF matches
          <5> QED
            BY <1>9, <1>13
        <4> QED
          BY <1>5, <4>1, <4>2
      <3>2. i \notin DOMAIN items' /\ i <= last_item'
        BY <1>4, <1>13, <2>1
      <3> QED
        BY <1>5, <1>9, <3>1, <3>2 DEF CountsRight
    <2> QED
      BY <1>2, <1>9, <1>10, <1>11, <2>1, <2>2, QuietStep DEF ExportPc
  <1> QED
    BY <1>12, <1>13

LEMMA LogSteps ==
  ASSUME StockInv, NEW h \in IoHandlers, Transfer!ImportLog(h)
  PROVE  StockInv' /\ NotExporting(h)
  <1> DEFINE c == io_calls[h]
             noted(logged) == [Transfer!Counted(c, logged) EXCEPT
                 !.unlogged = Transfer!Counted(c, logged).unlogged
                                + (IF c.wrote /\ ~logged THEN 1 ELSE 0)]
  <1>1. /\ c \in IoCall /\ CountsRight(c, items, last_item)
        /\ c.pc = "log" /\ UNCHANGED <<items, last_item, contested>>
    BY DEF StockInv, StockRight, Transfer!ImportLog, Transfer!At
  <1>2. PICK logged \in {FALSE} \cup (IF c.item \in DOMAIN items THEN {TRUE} ELSE {}) :
           Transfer!NextRecord(h, noted(logged))
    BY DEF Transfer!ImportLog
  <1>3. c \in ImportCall
    BY <1>1, CallShapes
  <1>4. /\ c.created \in Nat /\ c.updated \in Nat /\ c.errors \in Nat /\ c.unlogged \in Nat
        /\ c.rows \in Nat /\ c.wrote \in BOOLEAN
    BY <1>3 DEF ImportCall
  <1> DEFINE counted == Transfer!Counted(c, logged)
             new == noted(logged)
             one == IF c.wrote /\ ~logged THEN 1 ELSE 0
  <1>5. /\ counted \in ImportCall /\ counted.rows = c.rows /\ counted.unlogged = c.unlogged
        /\ counted.created + counted.updated
              = c.created + c.updated + (IF logged THEN 1 ELSE 0)
    <2>1. CASE ~logged
      <3> DEFINE d == [c EXCEPT !.errors = c.errors + 1]
      <3>1. counted = d
        BY <2>1 DEF Transfer!Counted
      <3>2. c.errors + 1 \in Nat
        BY <1>4
      <3>3. d \in ImportCall /\ d.rows = c.rows /\ d.unlogged = c.unlogged
            /\ d.created = c.created /\ d.updated = c.updated
        BY <1>3, <3>2 DEF ImportCall
      <3> HIDE DEF d, counted
      <3> QED
        BY <1>4, <2>1, <3>1, <3>3
    <2>2. CASE logged /\ Head(c.file).id # 0
      <3> DEFINE d == [c EXCEPT !.updated = c.updated + 1]
      <3>1. counted = d
        BY <2>2 DEF Transfer!Counted, Transfer!NoItem
      <3>2. c.updated + 1 \in Nat
        BY <1>4
      <3>3. d \in ImportCall /\ d.rows = c.rows /\ d.unlogged = c.unlogged
            /\ d.created = c.created /\ d.updated = c.updated + 1
        BY <1>3, <3>2 DEF ImportCall
      <3> HIDE DEF d, counted
      <3> QED
        BY <1>4, <2>2, <3>1, <3>3
    <2>3. CASE logged /\ Head(c.file).id = 0
      <3> DEFINE d == [c EXCEPT !.created = c.created + 1]
      <3>1. counted = d
        BY <2>3 DEF Transfer!Counted, Transfer!NoItem
      <3>2. c.created + 1 \in Nat
        BY <1>4
      <3>3. d \in ImportCall /\ d.rows = c.rows /\ d.unlogged = c.unlogged
            /\ d.created = c.created + 1 /\ d.updated = c.updated
        BY <1>3, <3>2 DEF ImportCall
      <3> HIDE DEF d, counted
      <3> QED
        BY <1>4, <2>3, <3>1, <3>3
    <2> QED
      BY <2>1, <2>2, <2>3
  <1>6. one \in Nat /\ counted.unlogged + one \in Nat
    BY <1>4, <1>5
  <1>7. c.rows = c.created + c.updated + c.unlogged + one + (IF logged THEN 1 ELSE 0)
    <2>1. CASE c.wrote = TRUE
      BY <1>1, <1>2, <1>4, <2>1 DEF CountsRight
    <2>2. CASE c.wrote = FALSE
      <3>1. c.item \notin DOMAIN items /\ c.rows = c.created + c.updated + c.unlogged
        BY <1>1, <2>2 DEF CountsRight
      <3> QED
        BY <1>2, <1>4, <2>2, <3>1
    <2> QED
      BY <1>4, <2>1, <2>2
  <1>8. new = [counted EXCEPT !.unlogged = counted.unlogged + one]
    OBVIOUS
  <1>9. Transfer!NextRecord(h, new)
    BY <1>2
  <1> HIDE DEF noted, counted, one, new
  <1>10. /\ new \in ImportCall /\ new.rows = c.rows /\ new.unlogged = c.unlogged + one
         /\ new.created = counted.created /\ new.updated = counted.updated
    BY <1>5, <1>6, <1>8 DEF ImportCall
  <1>11. counted.created \in Nat /\ counted.updated \in Nat
    BY <1>5 DEF ImportCall
  <1>12. new.rows = new.created + new.updated + new.unlogged
    BY <1>4, <1>5, <1>6, <1>7, <1>10, <1>11
  <1> QED
    BY <1>1, <1>9, <1>10, <1>12, RecordStep

(***************************************************************************)
(* Exports.  Two of them use one file only if they started with the same   *)
(* time, and then both are excepted; so the file of any other is there     *)
(* from its writing to its end, and holds the rows of that export.         *)
(***************************************************************************)
Exports(c) == c.pc \in {"write_csv", "read_csv", "unlink_csv"}

TempRight(calls, names, files_of, shared) ==
    /\ names \subseteq Stamps /\ files_of \in [names -> IoHandlers]
    /\ \A g, h \in IoHandlers :
          g # h /\ Exports(calls[g]) /\ Exports(calls[h]) /\ calls[g].stamp = calls[h].stamp =>
             {g, h} \subseteq shared
    /\ \A h \in IoHandlers \ shared :
          /\ calls[h].pc # "failed"
          /\ calls[h].pc \in {"read_csv", "unlink_csv"} =>
                calls[h].stamp \in names /\ files_of[calls[h].stamp] = h
          /\ calls[h].pc = "unlink_csv" => calls[h].rows_of = h

TempInv == TempRight(io_calls, DOMAIN temp, temp, same_stamp)

LEMMA TempStarts ==
  ASSUME Transfer!Init
  PROVE  TempInv
  <1>1. DOMAIN temp = {} /\ temp \in [DOMAIN temp -> IoHandlers]
        /\ \A h \in IoHandlers : io_calls[h].pc = "none"
    BY DEF Transfer!Init, Transfer!NoCall
  <1> QED
    BY <1>1 DEF TempInv, TempRight, Exports

LEMMA ExportSteps ==
  ASSUME StockInv, TempInv, NEW h \in IoHandlers,
         \/ \E stamp \in Stamps : Transfer!ExportStart(h, stamp)
         \/ Transfer!ExportWrite(h)
         \/ Transfer!ExportRead(h)
         \/ Transfer!ExportUnlink(h)
         \/ Transfer!ExportFailed(h)
  PROVE  StockInv' /\ TempInv'
  <1> DEFINE c == io_calls[h]
  <1>0. c \in IoCall /\ io_calls \in [IoHandlers -> IoCall]
    BY DEF StockInv, StockRight
  <1>1. ASSUME NEW d \in IoCall, Transfer!Become(h, d), UNCHANGED <<items, last_item, contested>>,
               d.pc \in {"none", "write_csv", "read_csv", "unlink_csv", "failed"}
        PROVE  /\ StockInv'
               /\ io_calls'[h] = d
               /\ \A g \in IoHandlers \ {h} : io_calls'[g] = io_calls[g]
    <2>1. LooksRight(d, items, contested) /\ CountsRight(d, items, last_item)
      BY <1>1 DEF LooksRight, CountsRight
    <2> QED
      BY <1>0, <1>1, <2>1, QuietStep DEF Transfer!Become
  <1>n. [pc |-> "none"] \in IoCall
    BY DEF IoCall, NoRequest
  <1>2. ASSUME NEW stamp \in Stamps, Transfer!ExportStart(h, stamp)
        PROVE  StockInv' /\ TempInv'
    <2> DEFINE d == [pc |-> "write_csv", stamp |-> stamp]
               others == {g \in IoHandlers \ {h} : Exports(io_calls[g]) /\ io_calls[g].stamp = stamp}
    <2>1. /\ Transfer!Become(h, d) /\ UNCHANGED <<items, last_item, contested, temp>>
          /\ same_stamp' = IF others = {} THEN same_stamp ELSE same_stamp \cup others \cup {h}
      BY <1>2 DEF Transfer!ExportStart, Transfer!Start, Transfer!Exporting, Exports
    <2>2. d \in IoCall
      BY DEF IoCall, ExportCall
    <2>3. /\ StockInv' /\ io_calls'[h] = d
          /\ \A g \in IoHandlers \ {h} : io_calls'[g] = io_calls[g]
      BY <1>1, <2>1, <2>2
    <2>4. TempInv'
      BY <2>1, <2>3 DEF TempInv, TempRight, Exports
    <2> QED
      BY <2>3, <2>4
  <1>3. CASE Transfer!ExportWrite(h)
    <2> DEFINE d == [pc |-> "read_csv", stamp |-> c.stamp]
    <2>0. c \in ExportCall /\ c.pc = "write_csv"
      BY <1>0, <1>3, CallShapes DEF Transfer!ExportWrite, Transfer!At
    <2>1. d = [c EXCEPT !.pc = "read_csv"] /\ c.stamp \in Stamps
      BY <2>0 DEF ExportCall
    <2>2. /\ Transfer!Become(h, d) /\ UNCHANGED <<items, last_item, contested, same_stamp>>
          /\ temp' = [n \in DOMAIN temp \cup {c.stamp} |-> IF n = c.stamp THEN h ELSE temp[n]]
      BY <1>3, <2>1 DEF Transfer!ExportWrite, Transfer!TempName
    <2>3. d \in IoCall
      BY <2>1 DEF IoCall, ExportCall
    <2>4. /\ StockInv' /\ io_calls'[h] = d
          /\ \A g \in IoHandlers \ {h} : io_calls'[g] = io_calls[g]
      BY <1>1, <2>2, <2>3
    <2>5. /\ DOMAIN temp' = DOMAIN temp \cup {c.stamp} /\ temp'[c.stamp] = h
          /\ \A n \in DOMAIN temp \ {c.stamp} : temp'[n] = temp[n]
          /\ temp' \in [DOMAIN temp' -> IoHandlers]
      BY <2>2 DEF TempInv, TempRight
    <2>6. TempInv'
      BY <2>0, <2>1, <2>2, <2>4, <2>5 DEF TempInv, TempRight, Exports
    <2> QED
      BY <2>4, <2>6
  <1>4. CASE Transfer!ExportRead(h)
    <2> DEFINE d == [pc |-> IF c.stamp \in DOMAIN temp THEN "unlink_csv" ELSE "failed",
                     stamp |-> c.stamp,
                     rows_of |-> IF c.stamp \in DOMAIN temp THEN temp[c.stamp] ELSE h]
    <2>0. c \in ExportCall /\ c.pc = "read_csv"
      BY <1>0, <1>4, CallShapes DEF Transfer!ExportRead, Transfer!At
    <2>1. Transfer!Become(h, d) /\ UNCHANGED <<items, last_item, contested, temp, same_stamp>>
      BY <1>4 DEF Transfer!ExportRead, Transfer!TempName
    <2>2. d \in IoCall
      BY <2>0 DEF IoCall, ExportCall, ReadCall, TempInv, TempRight
    <2>3. /\ StockInv' /\ io_calls'[h] = d
          /\ \A g \in IoHandlers \ {h} : io_calls'[g] = io_calls[g]
      BY <1>1, <2>1, <2>2
    <2>4. TempInv'
      BY <2>0, <2>1, <2>3 DEF TempInv, TempRight, Exports
    <2> QED
      BY <2>3, <2>4
  <1>5. CASE Transfer!ExportUnlink(h)
    <2>0. c \in ReadCall /\ c.pc = "unlink_csv"
      BY <1>0, <1>5, CallShapes DEF Transfer!ExportUnlink, Transfer!At
    <2>1. /\ UNCHANGED <<items, last_item, contested>>
          /\ temp' = [n \in DOMAIN temp \ {c.stamp} |-> temp[n]]
          /\ IF c.stamp \in DOMAIN temp
               THEN Transfer!Become(h, [pc |-> "none"]) /\ same_stamp' = same_stamp \ {h}
               ELSE Transfer!Become(h, [c EXCEPT !.pc = "failed"]) /\ same_stamp' = same_stamp
      BY <1>5 DEF Transfer!ExportUnlink, Transfer!TempName, Transfer!Answer, Transfer!NoCall
    <2>2. /\ DOMAIN temp' = DOMAIN temp \ {c.stamp}
          /\ \A n \in DOMAIN temp' : temp'[n] = temp[n]
          /\ temp' \in [DOMAIN temp' -> IoHandlers]
      BY <2>1 DEF TempInv, TempRight
    <2>3. CASE c.stamp \in DOMAIN temp
      <3>1. /\ StockInv' /\ io_calls'[h] = [pc |-> "none"]
            /\ \A g \in IoHandlers \ {h} : io_calls'[g] = io_calls[g]
        BY <1>1, <1>n, <2>1, <2>3
      <3>2. TempInv'
        BY <2>0, <2>1, <2>2, <2>3, <3>1 DEF TempInv, TempRight, Exports
      <3> QED
        BY <3>1, <3>2
    <2>4. CASE c.stamp \notin DOMAIN temp
      <3> DEFINE d == [c EXCEPT !.pc = "failed"]
      <3>1. d \in IoCall /\ d.pc = "failed" /\ h \in same_stamp
        BY <2>0, <2>4 DEF IoCall, ReadCall, TempInv, TempRight
      <3>2. Transfer!Become(h, d) /\ same_stamp' = same_stamp
        BY <2>1, <2>4
      <3> HIDE DEF d
      <3>3. /\ StockInv' /\ io_calls'[h] = d
            /\ \A g \in IoHandlers \ {h} : io_calls'[g] = io_calls[g]
        BY <1>1, <2>1, <3>1, <3>2
      <3>4. TempInv'
        BY <2>0, <2>2, <3>1, <3>2, <3>3 DEF TempInv, TempRight, Exports
      <3> QED
        BY <3>3, <3>4
    <2> QED
      BY <2>3, <2>4
  <1>6. CASE Transfer!ExportFailed(h)
    <2>1. /\ Transfer!Become(h, [pc |-> "none"]) /\ same_stamp' = same_stamp \ {h}
          /\ UNCHANGED <<items, last_item, contested, temp>>
      BY <1>6 DEF Transfer!ExportFailed, Transfer!Answer, Transfer!NoCall
    <2>2. /\ StockInv' /\ io_calls'[h] = [pc |-> "none"]
          /\ \A g \in IoHandlers \ {h} : io_calls'[g] = io_calls[g]
      BY <1>1, <1>n, <2>1
    <2>3. TempInv'
      BY <2>1, <2>2 DEF TempInv, TempRight, Exports
    <2> QED
      BY <2>2, <2>3
  <1> QED
    BY <1>2, <1>3, <1>4, <1>5, <1>6

LEMMA OthersKeepTemp ==
  ASSUME TempInv, NEW h \in IoHandlers, NotExporting(h), UNCHANGED <<temp, same_stamp>>
  PROVE  TempInv'
  BY DEF TempInv, TempRight, Exports, NotExporting, ExportPc

LEMMA TransferStarts ==
  ASSUME Transfer!Init
  PROVE  StockInv /\ TempInv
  BY StockStarts, TempStarts

LEMMA TransferSteps ==
  ASSUME StockInv, TempInv, [Transfer!Next]_ioVars
  PROVE  StockInv' /\ TempInv'
  <1>1. CASE UNCHANGED ioVars
    BY <1>1 DEF StockInv, TempInv, ioVars
  <1>2. CASE Transfer!Next
    <2>1. PICK h \in IoHandlers :
             \/ \E serial \in IoSerial : Transfer!PostLookup(h, serial)
             \/ \E i \in DOMAIN items, serial \in IoSerial : Transfer!PutLookup(h, i, serial)
             \/ \E i \in DOMAIN items : Transfer!Delete(h, i)
             \/ \E file \in Files : Transfer!ImportStart(h, file)
             \/ \E stamp \in Stamps : Transfer!ExportStart(h, stamp)
             \/ Transfer!PostInsert(h) \/ Transfer!PutSave(h)
             \/ Transfer!ImportFindId(h) \/ Transfer!ImportFindSerial(h)
             \/ Transfer!ImportWrite(h) \/ Transfer!ImportLog(h)
             \/ Transfer!ExportWrite(h) \/ Transfer!ExportRead(h)
             \/ Transfer!ExportUnlink(h) \/ Transfer!ExportFailed(h)
      BY <1>2 DEF Transfer!Next, IoSerial, Transfer!None
    <2>2. CASE \/ \E serial \in IoSerial : Transfer!PostLookup(h, serial)
               \/ \E i \in DOMAIN items, serial \in IoSerial : Transfer!PutLookup(h, i, serial)
               \/ \E i \in DOMAIN items : Transfer!Delete(h, i)
               \/ Transfer!PostInsert(h) \/ Transfer!PutSave(h)
      <3>1. StockInv' /\ NotExporting(h)
        BY <2>2, PostPutSteps
      <3>2. UNCHANGED <<temp, same_stamp>>
        BY <2>2 DEF Transfer!PostLookup, Transfer!PutLookup, Transfer!Delete, Transfer!PostInsert,
                    Transfer!PutSave
      <3> QED
        BY <3>1, <3>2, OthersKeepTemp
    <2>3. CASE \/ \E file \in Files : Transfer!ImportStart(h, file)
               \/ Transfer!ImportFindId(h) \/ Transfer!ImportFindSerial(h)
               \/ Transfer!ImportWrite(h) \/ Transfer!ImportLog(h)
      <3>1. StockInv' /\ NotExporting(h)
        BY <2>3, FindSteps, WriteSteps, LogSteps
      <3>2. UNCHANGED <<temp, same_stamp>>
        BY <2>3 DEF Transfer!ImportStart, Transfer!ImportFindId, Transfer!ImportFindSerial,
                    Transfer!ImportWrite, Transfer!ImportLog
      <3> QED
        BY <3>1, <3>2, OthersKeepTemp
    <2> QED
      BY <2>1, <2>2, <2>3, ExportSteps
  <1> QED
    BY <1>1, <1>2

TransferInv == Chosen("transfer") => StockInv /\ TempInv

LEMMA TransferInductive ==
  /\ Init => TransferInv
  /\ TransferInv /\ [Next]_vars => TransferInv'
  <1>1. Init => TransferInv
    BY TransferStarts DEF Init, TransferInv
  <1>2. TransferInv /\ [Next]_vars => TransferInv'
    BY PartSteps, TransferSteps DEF TransferInv, Chosen
  <1> QED
    BY <1>1, <1>2

(* Two items have one serial number only if a request wrote it between the *)
(* lookup and the write of another, or did not look for it: an import that *)
(* found the item by its id, or a POST that was sent it with blanks.       *)
THEOREM ServerSerials == Spec => []SerialsDiffer
  <1>1. TransferInv => SerialsDiffer
    BY DEF TransferInv, SerialsDiffer, Transfer!SerialsDiffer, Transfer!None, StockInv, StockRight
  <1> QED
    BY <1>1, TransferInductive, PTL DEF Spec

(* An import of services/importExportService.js counts a record as done    *)
(* exactly when it wrote the row and the entry about it, also when an item *)
(* disappears or a log entry fails half way.                               *)
THEOREM ServerReports == Spec => []ReportMatches
  <1>1. TransferInv => ReportMatches
    BY DEF TransferInv, ReportMatches, Transfer!ReportMatches, StockInv, StockRight, CountsRight
  <1> QED
    BY <1>1, TransferInductive, PTL DEF Spec

(* An export answers with the rows that its own filters selected and not   *)
(* with the temporary file of another one, unless both ran in the same     *)
(* millisecond.                                                            *)
THEOREM ServerExports == Spec => []ExportsOwnRows
  <1>1. TransferInv => ExportsOwnRows
    BY DEF TransferInv, ExportsOwnRows, Transfer!ExportsOwnRows, Transfer!At, TempInv, TempRight
  <1> QED
    BY <1>1, TransferInductive, PTL DEF Spec

-----------------------------------------------------------------------------
(***************************************************************************)
(* The session in the browser.  ActsAsShown is not inductive: MeAnswers    *)
(* and the effect on the token compare with the token that the tab holds,  *)
(* whatever the header is, so it is that token which belongs to the user   *)
(* shown; and a new token must not be one that a tab still holds.          *)
(***************************************************************************)
TabWith(signed) ==
    [token : signed \cup {0}, header : signed \cup {0}, user : People \cup {"nobody"},
     banner : BOOLEAN, where : {"closed", "login", "pages", "alert"},
     verifying : SUBSET signed, asking : SUBSET signed, entering : People \cup {"nobody"},
     crossed : BOOLEAN]

TabRight(r, owns) ==
    r.where = "pages" /\ r.user # "nobody" /\ r.crossed = FALSE =>
        r.token # 0 /\ owns[r.token] = r.user

TabsRight(tabs, owns) ==
    /\ tabs \in [Tabs -> TabWith(DOMAIN owns)]
    /\ \A b \in Tabs : TabRight(tabs[b], owns)

SessionInv ==
    /\ \E n \in 0..MaxTokens : DOMAIN owner = 1..n
    /\ owner \in [DOMAIN owner -> People]
    /\ ended \subseteq DOMAIN owner
    /\ store \in DOMAIN owner \cup {0}
    /\ TabsRight(tab, owner)

LEMMA TabBecomes ==
  ASSUME TabsRight(tab, owner), NEW b \in Tabs, NEW new \in TabWith(DOMAIN owner),
         Browser!Becomes(b, new), TabRight(new, owner)
  PROVE  TabsRight(tab', owner)
  BY DEF TabsRight, Browser!Becomes

(* Tokens are numbered in order, so the next one is held by no tab. *)
LEMMA NextToken ==
  ASSUME SessionInv
  PROVE  /\ Browser!Next1 \in Nat \ {0}
         /\ DOMAIN owner = 1 .. Browser!Next1 - 1
         /\ Browser!Next1 \notin DOMAIN owner
  <1>1. PICK n \in 0..MaxTokens : DOMAIN owner = 1..n
    BY DEF SessionInv
  <1>2. n \in Nat
    BY ServerAssumption
  <1>3. Cardinality(1..n) = n
    <2>1. Cardinality(1..n) = IF 1 > n THEN 0 ELSE n - 1 + 1
      BY <1>2, FS_Interval
    <2> QED
      BY <1>2, <2>1
  <1>4. Browser!Next1 = n + 1
    <2>1. \A S : Browser!Cardinality(S) = Cardinality(S)
      BY DEF Browser!Cardinality, Cardinality
    <2> QED
      BY <1>1, <1>3, <2>1 DEF Browser!Next1, Browser!Signed
  <1> QED
    BY <1>1, <1>2, <1>4

LEMMA SessionStarts ==
  ASSUME Browser!SessionInit
  PROVE  SessionInv
  <1>1. DOMAIN owner = {} /\ 1..0 = {} /\ 0 \in 0..MaxTokens
    BY ServerAssumption DEF Browser!SessionInit
  <1>2. Browser!Closed \in TabWith(DOMAIN owner) /\ TabRight(Browser!Closed, owner)
    BY DEF TabWith, TabRight, Browser!Closed, Browser!NoToken, Browser!Nobody
  <1> QED
    BY <1>1, <1>2 DEF SessionInv, TabsRight, Browser!SessionInit, Browser!NoToken

(* The effect changes neither the token nor who is shown. *)
LEMMA EffectRuns ==
  ASSUME NEW signed, NEW owns, NEW r \in TabWith(signed), TabRight(r, owns)
  PROVE  LET s == Browser!Settled(r) IN
         /\ s \in TabWith(signed) /\ TabRight(s, owns)
         /\ s.token = r.token /\ s.user = r.user /\ s.where = r.where
         /\ s.crossed = r.crossed
  <1>1. CASE Browser!Due(r)
    <2> DEFINE new == [r EXCEPT !.header = r.token, !.verifying = r.verifying \cup {r.token}]
    <2>1. Browser!Settled(r) = new
      BY <1>1 DEF Browser!Settled
    <2>2. r.token \in signed
      BY <1>1 DEF Browser!Due, Browser!NoToken, TabWith
    <2>3. /\ new \in TabWith(signed)
          /\ new.token = r.token /\ new.user = r.user /\ new.where = r.where
          /\ new.crossed = r.crossed
      BY <2>2 DEF TabWith
    <2> HIDE DEF new
    <2> QED
      BY <2>1, <2>3 DEF TabRight
  <1>2. CASE ~Browser!Due(r)
    BY <1>2 DEF Browser!Settled
  <1> QED
    BY <1>1, <1>2

LEMMA SameTokens ==
  ASSUME SessionInv, NEW b \in Tabs, NEW new \in TabWith(DOMAIN owner),
         Browser!Becomes(b, new), TabRight(new, owner), UNCHANGED <<owner, ended>>,
         store' \in {store, 0}
  PROVE  SessionInv'
  BY TabBecomes DEF SessionInv

LEMMA PageSteps ==
  ASSUME SessionInv, NEW b \in Tabs,
         \/ \E where \in {"login", "pages"} : Browser!Load(b, where)
         \/ Browser!Effect(b)
         \/ Browser!Refresh(b)
         \/ Browser!Ask(b)
         \/ Browser!LoginFails(b)
         \/ Browser!Logout(b)
  PROVE  SessionInv'
  <1> DEFINE r == tab[b]
  <1>0. r \in TabWith(DOMAIN owner) /\ TabRight(r, owner)
    BY DEF SessionInv, TabsRight
  <1>1. CASE \E where \in {"login", "pages"} : Browser!Load(b, where)
    <2>1. PICK where \in {"login", "pages"} : Browser!Load(b, where)
      BY <1>1
    <2> DEFINE new == [Browser!Closed EXCEPT !.token = store, !.header = store,
                      !.where = IF store = 0 THEN "login" ELSE where,
                      !.verifying = IF store = 0 THEN {} ELSE {store}]
    <2>2. Browser!Becomes(b, new) /\ UNCHANGED <<owner, ended, store>>
      BY <2>1 DEF Browser!Load, Browser!NoToken
    <2>3. new \in TabWith(DOMAIN owner) /\ TabRight(new, owner)
      BY DEF SessionInv, Browser!Closed, Browser!Nobody, Browser!NoToken, TabWith, TabRight
    <2> HIDE DEF new
    <2> QED
      BY <2>2, <2>3, SameTokens
  <1>2. CASE Browser!Refresh(b)
    <2> DEFINE new == [r EXCEPT !.verifying = r.verifying \cup {r.header}]
    <2>2. Browser!Becomes(b, new) /\ UNCHANGED <<owner, ended, store>> /\ r.header # 0
      BY <1>2 DEF Browser!Refresh, Browser!NoToken
    <2>3. new \in TabWith(DOMAIN owner) /\ TabRight(new, owner)
      BY <1>0, <2>2 DEF TabWith, TabRight
    <2> HIDE DEF new
    <2> QED
      BY <2>2, <2>3, SameTokens
  <1>3. CASE Browser!Ask(b)
    <2> DEFINE new == [r EXCEPT !.asking = r.asking \cup {r.header}]
    <2>2. Browser!Becomes(b, new) /\ UNCHANGED <<owner, ended, store>> /\ r.header # 0
      BY <1>3 DEF Browser!Ask, Browser!NoToken
    <2>3. new \in TabWith(DOMAIN owner) /\ TabRight(new, owner)
      BY <1>0, <2>2 DEF TabWith, TabRight
    <2> HIDE DEF new
    <2> QED
      BY <2>2, <2>3, SameTokens
  <1>4. CASE Browser!LoginFails(b)
    <2> DEFINE new == [r EXCEPT !.entering = "nobody"]
    <2>2. Browser!Becomes(b, new) /\ UNCHANGED <<owner, ended, store>>
      BY <1>4 DEF Browser!LoginFails, Browser!Nobody
    <2>3. new \in TabWith(DOMAIN owner) /\ TabRight(new, owner)
      BY <1>0, <2>2 DEF TabWith, TabRight
    <2> HIDE DEF new
    <2> QED
      BY <2>2, <2>3, SameTokens
  <1>5. CASE Browser!Logout(b)
    <2> DEFINE s == Browser!Settled(r)
               new == Browser!LoggedOut(s)
    <2>1. s \in TabWith(DOMAIN owner)
      BY <1>0, EffectRuns
    <2>2. Browser!Becomes(b, new) /\ UNCHANGED <<owner, ended>> /\ store' = 0
      BY <1>5 DEF Browser!Logout, Browser!NoToken
    <2> HIDE DEF s
    <2>3. new \in TabWith(DOMAIN owner) /\ TabRight(new, owner)
      BY <2>1 DEF TabWith, TabRight, Browser!LoggedOut, Browser!NoToken, Browser!Nobody
    <2> HIDE DEF new
    <2> QED
      BY <2>2, <2>3, SameTokens
  <1>6. CASE Browser!Effect(b)
    <2> DEFINE s == Browser!Settled(r)
    <2>1. s \in TabWith(DOMAIN owner) /\ TabRight(s, owner)
      BY <1>0, EffectRuns
    <2>2. Browser!Becomes(b, s) /\ UNCHANGED <<owner, ended, store>>
      BY <1>6 DEF Browser!Effect
    <2> HIDE DEF s
    <2> QED
      BY <2>1, <2>2, SameTokens
  <1> QED
    BY <1>1, <1>2, <1>3, <1>4, <1>5, <1>6

LEMMA AnswerSteps ==
  ASSUME SessionInv, NEW b \in Tabs, NEW t \in DOMAIN owner,
         \/ Browser!MeAnswers(b, t)
         \/ Browser!MeRefused(b, t)
         \/ Browser!MeFails(b, t)
         \/ Browser!Answered(b, t)
         \/ Browser!Refused(b, t)
  PROVE  SessionInv'
  <1> DEFINE r == tab[b]
  <1>0. r \in TabWith(DOMAIN owner) /\ TabRight(r, owner) /\ owner[t] \in People
    BY DEF SessionInv, TabsRight
  <1>1. CASE Browser!MeAnswers(b, t)
    <2> DEFINE s == Browser!Settled(r)
               new == [s EXCEPT !.user = owner[t], !.banner = FALSE,
                      !.verifying = s.verifying \ {t},
                      !.crossed = IF t = r.token THEN s.crossed ELSE TRUE]
    <2>1. s \in TabWith(DOMAIN owner) /\ s.token = r.token
      BY <1>0, EffectRuns
    <2>2. Browser!Becomes(b, new) /\ UNCHANGED <<owner, ended, store>>
      BY <1>1 DEF Browser!MeAnswers
    <2> HIDE DEF s
    <2>3. new \in TabWith(DOMAIN owner)
      BY <1>0, <2>1 DEF TabWith
    <2>4. TabRight(new, owner)
      <3>1. /\ new.token = r.token /\ new.user = owner[t]
            /\ new.crossed = IF t = r.token THEN s.crossed ELSE TRUE
        BY <2>1 DEF TabWith
      <3>2. t # 0
        <4>1. \E n \in 0..MaxTokens : DOMAIN owner = 1..n
          BY DEF SessionInv
        <4> QED
          BY <4>1, ServerAssumption
      <3> HIDE DEF new
      <3> QED
        BY <3>1, <3>2 DEF TabRight
    <2> HIDE DEF new
    <2> QED
      BY <2>2, <2>3, <2>4, SameTokens
  <1>2. CASE Browser!MeRefused(b, t)
    <2> DEFINE less == [r EXCEPT !.verifying = r.verifying \ {t}]
               out == [Browser!LoggedOut(less) EXCEPT !.where = r.where]
               new == IF r.where = "login" THEN Browser!LoggedOut(less)
                                           ELSE Browser!Intercepted(out)
    <2>2. Browser!Becomes(b, new) /\ UNCHANGED <<owner, ended>> /\ store' = 0
      <3>1. less.where = r.where
        BY <1>0 DEF TabWith
      <3> QED
        BY <1>2, <3>1 DEF Browser!MeRefused, Browser!NoToken
    <2>3. new \in TabWith(DOMAIN owner) /\ TabRight(new, owner)
      BY <1>0 DEF TabWith, TabRight, Browser!LoggedOut, Browser!Intercepted, Browser!NoToken,
                  Browser!Nobody
    <2> HIDE DEF new
    <2> QED
      BY <2>2, <2>3, SameTokens
  <1>3. CASE Browser!MeFails(b, t)
    <2> DEFINE s == Browser!Settled(r)
               new == [s EXCEPT !.verifying = s.verifying \ {t},
                      !.where = IF r.user = "nobody" THEN "login" ELSE s.where]
    <2>1. s \in TabWith(DOMAIN owner) /\ TabRight(s, owner)
      BY <1>0, EffectRuns
    <2>2. Browser!Becomes(b, new) /\ UNCHANGED <<owner, ended, store>>
      BY <1>3 DEF Browser!MeFails, Browser!Nobody
    <2> HIDE DEF s
    <2>3. new \in TabWith(DOMAIN owner) /\ TabRight(new, owner)
      BY <2>1 DEF TabWith, TabRight
    <2> HIDE DEF new
    <2> QED
      BY <2>2, <2>3, SameTokens
  <1>4. CASE Browser!Answered(b, t)
    <2> DEFINE new == [r EXCEPT !.asking = r.asking \ {t}]
    <2>2. Browser!Becomes(b, new) /\ UNCHANGED <<owner, ended, store>>
      BY <1>4 DEF Browser!Answered
    <2>3. new \in TabWith(DOMAIN owner) /\ TabRight(new, owner)
      BY <1>0 DEF TabWith, TabRight
    <2> HIDE DEF new
    <2> QED
      BY <2>2, <2>3, SameTokens
  <1>5. CASE Browser!Refused(b, t)
    <2> DEFINE new == IF r.where = "login"
                        THEN [r EXCEPT !.asking = r.asking \ {t}]
                        ELSE [r EXCEPT !.header = 0, !.where = "alert",
                                       !.asking = r.asking \ {t}]
    <2>2. Browser!Becomes(b, new) /\ UNCHANGED <<owner, ended>> /\ store' \in {store, 0}
      <3>1. Browser!Intercepted(r).asking = r.asking
        BY <1>0 DEF TabWith, Browser!Intercepted
      <3>2. [Browser!Intercepted(r) EXCEPT !.asking = r.asking \ {t}]
               = [r EXCEPT !.header = 0, !.where = "alert", !.asking = r.asking \ {t}]
        BY <1>0 DEF TabWith, Browser!Intercepted, Browser!NoToken
      <3> QED
        BY <1>5, <3>1, <3>2 DEF Browser!Refused, Browser!NoToken
    <2>3. new \in TabWith(DOMAIN owner) /\ TabRight(new, owner)
      BY <1>0 DEF TabWith, TabRight
    <2> HIDE DEF new
    <2> QED
      BY <2>2, <2>3, SameTokens
  <1> QED
    BY <1>1, <1>2, <1>3, <1>4, <1>5

(* A new token and the tab that receives it, with or without the effect *)
LEMMA SignStep ==
  ASSUME SessionInv, NEW b \in Tabs, NEW person \in People, NEW banner \in BOOLEAN,
         NEW r \in TabWith(DOMAIN owner), TabRight(r, owner),
         NEW final, \/ final = Browser!Entered(r, person, banner)
                    \/ final = Browser!Settled(Browser!Entered(r, person, banner)),
         Browser!Sign(person), store' = Browser!Next1, ended' = ended,
         Browser!Becomes(b, final)
  PROVE  SessionInv'
  <1> DEFINE n == Browser!Next1
             signed == DOMAIN owner \cup {n}
  <1>1. n \in Nat \ {0} /\ DOMAIN owner = 1 .. n - 1 /\ n \notin DOMAIN owner /\ n \in 1..MaxTokens
    BY NextToken DEF Browser!Sign, Browser!Tokens
  <1>2. owner' = [t \in signed |-> IF t = n THEN person ELSE owner[t]]
    BY DEF Browser!Sign, Browser!Signed
  <1>3. signed = 1..n /\ DOMAIN owner' = signed
    BY <1>1, <1>2
  <1>4. owner' \in [signed -> People]
    BY <1>2 DEF SessionInv
  <1>5. \A x \in TabWith(DOMAIN owner) : TabRight(x, owner) =>
           x \in TabWith(signed) /\ TabRight(x, owner')
    <2> SUFFICES ASSUME NEW x \in TabWith(DOMAIN owner), TabRight(x, owner)
                 PROVE  x \in TabWith(signed) /\ TabRight(x, owner')
      OBVIOUS
    <2>1. x \in TabWith(signed)
      BY DEF TabWith
    <2>2. x.token \in DOMAIN owner \cup {0}
      BY DEF TabWith
    <2>3. x.token # 0 => owner'[x.token] = owner[x.token]
      BY <1>1, <1>2, <2>2
    <2> QED
      BY <2>1, <2>3 DEF TabRight
  <1> DEFINE new == Browser!Entered(r, person, banner)
  <1>6. new \in TabWith(signed) /\ TabRight(new, owner')
    <2>1. r \in TabWith(signed)
      BY <1>5
    <2>2. owner'[n] = person
      BY <1>2
    <2>3. new = [r EXCEPT !.token = n, !.user = person, !.banner = banner,
                          !.entering = "nobody", !.where = "pages", !.crossed = FALSE]
      BY DEF Browser!Entered, Browser!Nobody
    <2> HIDE DEF new, n
    <2>4. new \in TabWith(signed)
      BY <2>1, <2>3 DEF TabWith
    <2>5. new.token = n /\ new.user = person
      BY <2>1, <2>3 DEF TabWith
    <2> QED
      BY <1>1, <2>2, <2>4, <2>5 DEF TabRight
  <1>7. final \in TabWith(signed) /\ TabRight(final, owner')
    <2> HIDE DEF new, signed
    <2>1. PICK owns : owns = owner'
      OBVIOUS
    <2>2. Browser!Settled(new) \in TabWith(signed) /\ TabRight(Browser!Settled(new), owns)
      BY <1>6, <2>1, EffectRuns
    <2>3. final = new \/ final = Browser!Settled(new)
      BY DEF new
    <2> QED
      BY <1>6, <2>1, <2>2, <2>3
  <1>8. tab \in [Tabs -> TabWith(DOMAIN owner)] /\ \A c \in Tabs : TabRight(tab[c], owner)
    BY DEF SessionInv, TabsRight
  <1> HIDE DEF new
  <1>9. TabsRight(tab', owner')
    BY <1>3, <1>5, <1>7, <1>8 DEF TabsRight, Browser!Becomes
  <1>10. n \in 0..MaxTokens /\ store' \in DOMAIN owner' /\ ended' \subseteq DOMAIN owner'
    BY <1>1, <1>3 DEF SessionInv
  <1> HIDE DEF n, signed
  <1> QED
    BY <1>3, <1>4, <1>9, <1>10 DEF SessionInv

LEMMA EntrySteps ==
  ASSUME SessionInv, NEW b \in Tabs,
         \/ Browser!LoginSucceeds(b)
         \/ \E person \in People : Browser!SubmitLogin(b, person) \/ Browser!Impersonate(b, person)
  PROVE  SessionInv'
  <1> DEFINE r == tab[b]
  <1>0. r \in TabWith(DOMAIN owner) /\ TabRight(r, owner)
    BY DEF SessionInv, TabsRight
  <1>1. CASE Browser!LoginSucceeds(b)
    <2>1. r.entering \in People
      BY <1>0, <1>1 DEF Browser!LoginSucceeds, Browser!Nobody, TabWith
    <2> DEFINE final == Browser!Settled(Browser!Entered(r, r.entering, FALSE))
    <2>2. /\ Browser!Sign(r.entering) /\ store' = Browser!Next1 /\ ended' = ended
          /\ Browser!Becomes(b, final)
      BY <1>1 DEF Browser!LoginSucceeds
    <2> QED
      BY <1>0, <2>1, <2>2, SignStep
  <1>2. ASSUME NEW person \in People, Browser!SubmitLogin(b, person)
        PROVE  SessionInv'
    <2> DEFINE new == [r EXCEPT !.entering = person]
    <2>2. Browser!Becomes(b, new) /\ UNCHANGED <<owner, ended, store>>
      BY <1>2 DEF Browser!SubmitLogin
    <2>3. new \in TabWith(DOMAIN owner) /\ TabRight(new, owner)
      BY <1>0 DEF TabWith, TabRight
    <2> HIDE DEF new
    <2> QED
      BY <2>2, <2>3, SameTokens
  <1>3. ASSUME NEW person \in People, Browser!Impersonate(b, person)
        PROVE  SessionInv'
    <2> DEFINE s == Browser!Settled(r)
    <2>1. s \in TabWith(DOMAIN owner) /\ TabRight(s, owner)
      BY <1>0, EffectRuns
    <2>2. /\ Browser!Sign(person) /\ store' = Browser!Next1 /\ ended' = ended
          /\ Browser!Becomes(b, Browser!Entered(s, person, TRUE))
      BY <1>3 DEF Browser!Impersonate
    <2> HIDE DEF s
    <2> QED
      BY <2>1, <2>2, SignStep
  <1> QED
    BY <1>1, <1>2, <1>3

LEMMA SessionSteps ==
  ASSUME SessionInv, [Browser!SessionNext]_sessionVars
  PROVE  SessionInv'
  <1>1. CASE UNCHANGED sessionVars
    BY <1>1 DEF SessionInv, TabsRight, sessionVars
  <1>2. ASSUME NEW t \in DOMAIN owner, Browser!Expire(t)
        PROVE  SessionInv'
    BY <1>2 DEF SessionInv, TabsRight, Browser!Expire
  <1>3. ASSUME NEW b \in Tabs, Browser!DismissAlert(b)
        PROVE  SessionInv'
    BY <1>3, PageSteps DEF Browser!DismissAlert
  <1> QED
    BY <1>1, <1>2, <1>3, PageSteps, AnswerSteps, EntrySteps
       DEF Browser!SessionNext, Browser!Signed

SessionsInv == Chosen("browser") => SessionInv

LEMMA SessionInductive ==
  /\ Init => SessionsInv
  /\ SessionsInv /\ [Next]_vars => SessionsInv'
  BY PartSteps, SessionStarts, SessionSteps DEF Init, Chosen, SessionsInv

(* The requests of a page act for the user whom the page shows, for any    *)
(* tabs, people and logins, with the exceptions the property states: a     *)
(* token is signed once for one user, and but for the effect that is due   *)
(* the header is that of the token which the tab holds.                    *)
THEOREM ServerActsAsShown == Spec => []ActsAsShown
  <1>1. SessionsInv => ActsAsShown
    BY DEF SessionsInv, ActsAsShown, Browser!ActsAsShown, Browser!Shown, Browser!Due, Browser!Nobody,
           Browser!NoToken, SessionInv, TabsRight, TabRight, TabWith
  <1> QED
    BY <1>1, SessionInductive, PTL DEF Spec

-----------------------------------------------------------------------------
(***************************************************************************)
(* The cache of the client: its types.                                     *)
(***************************************************************************)
(* The page of a change; four changes lead away from it.                   *)
Leaving == {"drop", "save", "create", "unshow2"}
OnPages(f) ==
    \A c \in DOMAIN f :
       /\ f[c].on \in Pages
       /\ (c = "drop" => f[c].on = "details") /\ (c = "save" => f[c].on = "edit")
       /\ (c = "create" => f[c].on = "new") /\ (c = "unshow2" => f[c].on = "show")


LEMMA PageNames ==
  Pages = {"list", "dashboard", "advanced", "details", "edit", "new", "shows", "show", "settings",
           "users", "logs"}
  BY DEF Pages, QueriesOf

LEMMA ChangeInGroup ==
  ASSUME NEW c \in Changes
  PROVE  \E group \in Groups : c \in DOMAIN group /\ Change[c] = group[c]
  <1> DEFINE group == CHOOSE g \in Groups : c \in DOMAIN g
  <1>1. \E g \in Groups : c \in DOMAIN g
    BY DEF Changes
  <1>2. group \in Groups /\ c \in DOMAIN group
    BY <1>1
  <1>3. Change[c] = group[c]
    BY DEF Change
  <1> QED
    BY <1>2, <1>3

(* Every change is made on a page that there is. *)
LEMMA ChangesOnPages == OnPages(Change)
  <1> USE PageNames DEF OnPages, Made
  <1>1. OnPages(BatchChanges)
    BY DEF BatchChanges, Batch
  <1>2. OnPages(AdvancedChanges)
    BY DEF AdvancedChanges
  <1>3. OnPages(DashboardChanges)
    BY DEF DashboardChanges
  <1>4. OnPages(DetailsChanges)
    BY DEF DetailsChanges, AllocateToShow, EditShowEquipment, LocationAllocations, Install,
           ReferenceImage, Upload
  <1>5. OnPages(EditChanges)
    BY DEF EditChanges, AllocateToShow, EditShowEquipment, ReferenceImage, Upload
  <1>6. OnPages(NewChanges)
    BY DEF NewChanges
  <1>7. OnPages(ShowsChanges)
    BY DEF ShowsChanges
  <1>8. OnPages(ShowChanges)
    BY DEF ShowChanges
  <1>9. OnPages(ShowItemChanges)
    BY DEF ShowItemChanges, EditShowEquipment
  <1>10. OnPages(TypeChanges) /\ OnPages(CategoryChanges) /\ OnPages(LocationChanges)
         /\ OnPages(DefaultChanges) /\ OnPages(UserChanges)
    BY DEF TypeChanges, CategoryChanges, LocationChanges, DefaultChanges, UserChanges
  <1>11. \A group \in Groups : OnPages(group)
    BY <1>1, <1>2, <1>3, <1>4, <1>5, <1>6, <1>7, <1>8, <1>9, <1>10 DEF Groups
  <1>12. DOMAIN Change = Changes
    BY DEF Change
  <1> QED
    BY <1>11, <1>12, ChangeInGroup

LEMMA PagesOfPages == \A k \in Keys : PagesOf[k] \subseteq Pages
  <1> SUFFICES ASSUME NEW k \in Keys PROVE PagesOf[k] \subseteq Pages
    OBVIOUS
  <1> DEFINE near == {p \in Pages : k \in AtOnce[p] \cup Fresh5[p]}
                        \cup {Change[c].on : c \in TouchesOf[k] \cup TellsOf[k]}
  <1>1. TouchesOf[k] \cup TellsOf[k] \subseteq Changes
    BY DEF TouchesOf, TellsOf
  <1>2. near \subseteq Pages
    BY <1>1, ChangesOnPages DEF OnPages, Change
  <1>3. PagesOf[k] = near \cup (IF Pages \ near = {} THEN {} ELSE {CHOOSE p \in Pages \ near : TRUE})
    BY DEF PagesOf
  <1> HIDE DEF near
  <1>4. Pages \ near # {} => (CHOOSE p \in Pages \ near : TRUE) \in Pages
    OBVIOUS
  <1> QED
    BY <1>2, <1>3, <1>4

CachedEntry == [has : BOOLEAN, lacks : SUBSET Changes, invalid : BOOLEAN, aged : BOOLEAN,
                failed : BOOLEAN, overtaken : BOOLEAN]
CacheFetch == [on : BOOLEAN, lacks : SUBSET Changes, by : Pages \cup {"none"}]

CacheInv ==
    /\ key \in Keys /\ panel \in BOOLEAN /\ open \in Pages
    /\ entry \in CachedEntry /\ (entry.has = FALSE => entry.lacks = {})
    /\ fetch \in CacheFetch
    /\ write \in [name : Changes \cup {"none"}, done : BOOLEAN]
    /\ write = NoWrite \/ write.name \in Changes
    /\ told \subseteq Changes
    /\ writes \in 0..MaxWrites

LEMMA CacheStarts ==
  ASSUME CacheInit
  PROVE  CacheInv
  <1>1. open \in Pages /\ key \in Keys
    BY PagesOfPages DEF CacheInit
  <1>2. fetch \in CacheFetch
    BY <1>1 DEF CacheInit, CacheFetch, Begun, Idle
  <1> QED
    BY ServerAssumption, <1>1, <1>2 DEF CacheInit, CacheInv, CachedEntry, Absent, NoWrite

LEMMA CacheSteps ==
  ASSUME CacheInv, [CacheNext]_cacheVars
  PROVE  CacheInv'
  <1> USE DEF CacheInv
  <1>0. Absent \in CachedEntry /\ Idle \in CacheFetch /\ \A p \in Pages : Begun(p) \in CacheFetch
    BY DEF Absent, CachedEntry, Idle, CacheFetch, Begun
  <1>1. ASSUME NEW p \in PagesOf[key], Navigate(p)
        PROVE  CacheInv'
    <2>1. p \in Pages
      BY PagesOfPages
    <2>2. entry' \in CachedEntry /\ (entry'.has = FALSE => entry'.lacks = {}) /\ fetch' \in CacheFetch
      <3>1. CASE UNCHANGED <<fetch, entry>>
        BY <3>1
      <3>2. CASE fetch' = Begun(p) /\ entry' = [entry EXCEPT !.overtaken = FALSE]
        BY <1>0, <2>1, <3>2 DEF CachedEntry
      <3> QED
        BY <1>1, <3>1, <3>2 DEF Navigate, Mounted
    <2> QED
      BY <1>1, <2>1, <2>2 DEF Navigate, NoWrite
  <1>2. CASE Forget
    BY <1>0, <1>2 DEF Forget, Absent, NoWrite
  <1>3. CASE Age
    BY <1>3 DEF Age, CachedEntry, NoWrite
  <1>4. CASE Answer
    <2>1. /\ fetch' = Idle
          /\ entry' = [Absent EXCEPT !.has = TRUE, !.lacks = fetch.lacks, !.overtaken = entry.overtaken]
          /\ UNCHANGED <<key, panel, open, write, told, writes>>
      BY <1>4 DEF Answer
    <2>2. entry' \in CachedEntry /\ entry'.has = TRUE
      BY <2>1 DEF CachedEntry, Absent, CacheFetch
    <2> QED
      BY <1>0, <2>1, <2>2 DEF NoWrite
  <1>5. CASE FetchFails
    <2>1. /\ fetch' = Idle
          /\ \/ entry' = [Absent EXCEPT !.has = TRUE, !.failed = TRUE]
             \/ entry' = [entry EXCEPT !.failed = TRUE]
          /\ UNCHANGED <<key, panel, open, write, told, writes>>
      BY <1>5 DEF FetchFails
    <2>2. entry' \in CachedEntry /\ (entry'.has = FALSE => entry'.lacks = {})
      <3>1. CASE entry' = [Absent EXCEPT !.has = TRUE, !.failed = TRUE]
        BY <3>1 DEF CachedEntry, Absent
      <3>2. CASE entry' = [entry EXCEPT !.failed = TRUE]
        BY <3>2 DEF CachedEntry
      <3> QED
        BY <2>1, <3>1, <3>2
    <2> QED
      BY <1>0, <2>1, <2>2 DEF NoWrite
  <1>6. ASSUME NEW c \in Changes, Submit(c)
        PROVE  CacheInv'
    <2>1. writes' \in 0..MaxWrites
      BY <1>6, ServerAssumption DEF Submit
    <2> QED
      BY <1>6, <2>1 DEF Submit
  <1>7. CASE Execute
    <2>1. write.name \in Changes
      BY <1>7 DEF Execute
    <2>2. write' \in [name : Changes \cup {"none"}, done : BOOLEAN] /\ write'.name = write.name
      BY <1>7 DEF Execute
    <2>3. entry' \in CachedEntry /\ (entry'.has = FALSE => entry'.lacks = {})
      <3> DEFINE more == [entry EXCEPT !.lacks = entry.lacks \cup {write.name}]
      <3>1. more \in CachedEntry /\ more.has = entry.has
        BY <2>1 DEF CachedEntry
      <3>2. entry' = entry \/ (entry.has /\ entry' = more)
        BY <1>7 DEF Execute
      <3> HIDE DEF more
      <3> QED
        BY <3>1, <3>2
    <2>4. fetch' \in CacheFetch
      <3> DEFINE more == [fetch EXCEPT !.lacks = fetch.lacks \cup {write.name}]
      <3>1. more \in CacheFetch
        BY <2>1 DEF CacheFetch
      <3>2. fetch' = fetch \/ fetch' = more
        BY <1>7 DEF Execute
      <3> HIDE DEF more
      <3> QED
        BY <3>1, <3>2
    <2> QED
      BY <1>7, <2>1, <2>2, <2>3, <2>4 DEF Execute
  <1>8. CASE Succeeds
    <2> DEFINE c == write.name
               page == Leads(c)
               again == Refetches(c) \/ (page # open /\ Reader(page) /\ ~Fetching
                                          /\ (Stale(page) \/ Tells(c)))
    <2>1. c \in Changes
      BY <1>8 DEF Succeeds, NoWrite
    <2>2. page \in Pages
      BY PageNames DEF Leads
    <2>3. /\ told' = IF Change[c].on = open THEN told \cup {c} ELSE told
          /\ write' = NoWrite /\ open' = page
          /\ fetch' = IF again THEN Begun(page) ELSE fetch
          /\ UNCHANGED <<key, panel, writes>>
      BY <1>8 DEF Succeeds
    <2>4. entry' = [entry EXCEPT !.invalid = entry.invalid \/ (Tells(c) /\ entry.has),
                                 !.overtaken = ~again /\ (entry.overtaken \/ Fetching)]
      BY <1>8 DEF Succeeds
    <2>5. entry' \in CachedEntry /\ entry'.has = entry.has /\ entry'.lacks = entry.lacks
      <3> HIDE DEF again
      <3> QED
        BY <2>4 DEF CachedEntry
    <2>6. fetch' \in CacheFetch /\ told' \subseteq Changes
      BY <1>0, <2>1, <2>2, <2>3
    <2>7. NoWrite \in [name : Changes \cup {"none"}, done : BOOLEAN]
      BY DEF NoWrite
    <2> HIDE DEF c, page, again
    <2> QED
      BY <2>2, <2>3, <2>5, <2>6, <2>7
  <1>9. CASE Fails
    BY <1>9 DEF Fails, NoWrite
  <1>10. CASE UNCHANGED cacheVars
    BY <1>10 DEF cacheVars, NoWrite
  <1> QED
    BY <1>1, <1>2, <1>3, <1>4, <1>5, <1>6, <1>7, <1>8, <1>9, <1>10 DEF CacheNext

-----------------------------------------------------------------------------
(***************************************************************************)
(* The tables of the cache: what the pages read and their changes tell.    *)
(***************************************************************************)
(* The keys that the pages read; the first nine have an id or a filter.    *)
AllKeys ==
    {Search, Item, Availability, Allocations, Placings, EditAvailability, EditAllocations, Show,
     ShowItems, <<"locations">>, <<"equipment-types">>, <<"equipment-summary">>,
     <<"equipment-analytics">>, <<"saved-searches">>, <<"categories">>, <<"equipmentTypes">>,
     <<"default-storage-locations">>, <<"shows">>, <<"showsMissingEquipment">>, <<"users">>,
     <<"allEquipmentLogs">>}

LEMMA KeyNames == Keys \subseteq AllKeys
  <1>1. \A p \in Pages : AtOnce[p] = QueriesOf[p].once /\ Fresh5[p] = QueriesOf[p].fresh
    BY DEF AtOnce, Fresh5
  <1>2. Keys = UNION {QueriesOf[p].once \cup QueriesOf[p].fresh : p \in Pages}
    BY <1>1 DEF Keys
  <1>3. \A p \in Pages : QueriesOf[p].once \cup QueriesOf[p].fresh \subseteq AllKeys
    BY PageNames
    DEF QueriesOf, Queries, ListQueries, DashboardQueries, AdvancedQueries, DetailsQueries,
        EditQueries, NewQueries, ShowsQueries, ShowQueries, SettingsQueries, UsersQueries,
        LogsQueries, AllKeys
  <1> QED
    BY <1>2, <1>3

LEMMA ReadsAre ==
  /\ Reads(Item) = {"items", "files", "types", "categories", "places"}
  /\ Reads(Search) = {"items", "types", "categories", "places"}
  /\ Reads(<<"equipment-summary">>) = {"items", "types", "categories", "places"}
  /\ Reads(<<"equipment-analytics">>) = {"items", "types", "categories", "places"}
  /\ Reads(Availability) = {"items", "allocations", "placings"}
  /\ Reads(EditAvailability) = {"items", "allocations", "placings"}
  /\ Reads(Allocations) = {"allocations"}
  /\ Reads(EditAllocations) = {"allocations"}
  /\ Reads(ShowItems) = {"allocations"}
  /\ Reads(Placings) = {"placings"}
  /\ Reads(<<"equipment-types">>) = {"types"}
  /\ Reads(<<"equipmentTypes">>) = {"types"}
  /\ Reads(<<"categories">>) = {"categories"}
  /\ Reads(<<"locations">>) = {"places"}
  /\ Reads(<<"shows">>) = {"shows"}
  /\ Reads(Show) = {"shows"}
  /\ Reads(<<"saved-searches">>) = {"searches"}
  /\ Reads(<<"users">>) = {"users"}
  <1> USE DEF Search, Item, Availability, Allocations, Placings, EditAvailability,
         EditAllocations, Show, ShowItems
  <1>1. Reads(Item) = {"items", "files", "types", "categories", "places"}
    BY DEF Reads
  <1>2. Reads(Search) = {"items", "types", "categories", "places"}
    BY DEF Reads
  <1>3. Reads(<<"equipment-summary">>) = {"items", "types", "categories", "places"}
    BY DEF Reads
  <1>4. Reads(<<"equipment-analytics">>) = {"items", "types", "categories", "places"}
    BY DEF Reads
  <1>5. Reads(Availability) = {"items", "allocations", "placings"}
    BY DEF Reads
  <1>6. Reads(EditAvailability) = {"items", "allocations", "placings"}
    BY DEF Reads
  <1>7. Reads(Allocations) = {"allocations"}
    BY DEF Reads
  <1>8. Reads(EditAllocations) = {"allocations"}
    BY DEF Reads
  <1>9. Reads(ShowItems) = {"allocations"}
    BY DEF Reads
  <1>10. Reads(Placings) = {"placings"}
    BY DEF Reads
  <1>11. Reads(<<"equipment-types">>) = {"types"}
    BY DEF Reads
  <1>12. Reads(<<"equipmentTypes">>) = {"types"}
    BY DEF Reads
  <1>13. Reads(<<"categories">>) = {"categories"}
    BY DEF Reads
  <1>14. Reads(<<"locations">>) = {"places"}
    BY DEF Reads
  <1>15. Reads(<<"shows">>) = {"shows"}
    BY DEF Reads
  <1>16. Reads(Show) = {"shows"}
    BY DEF Reads
  <1>17. Reads(<<"saved-searches">>) = {"searches"}
    BY DEF Reads
  <1>18. Reads(<<"users">>) = {"users"}
    BY DEF Reads
  <1> HIDE DEF Search, Item, Availability, Allocations, Placings, EditAvailability,
          EditAllocations, Show, ShowItems
  <1> QED
    BY <1>1, <1>2, <1>3, <1>4, <1>5, <1>6, <1>7, <1>8, <1>9, <1>10,
       <1>11, <1>12, <1>13, <1>14, <1>15, <1>16, <1>17, <1>18

(* A key matches itself, and the first word of a key matches it.           *)
LEMMA Prefixes ==
  /\ \A k \in AllKeys : Matches(k, k)
  /\ Matches(<<"equipment">>, Item) /\ Matches(<<"equipment">>, Search)
  /\ Matches(<<"equipmentAvailability">>, Availability)
  /\ Matches(<<"equipmentShowAllocations">>, Allocations)
  /\ Matches(<<"inventoryAllocations">>, Placings)
  <1>1. \A k \in AllKeys : Matches(k, k) /\ Matches(<<k[1]>>, k)
    BY DEF AllKeys, Matches, Ext!IsPrefix, Search, Item, Availability, Allocations, Placings, EditAvailability,
           EditAllocations, Show, ShowItems
  <1> QED
    BY <1>1 DEF AllKeys, Item, Search, Availability, Allocations, Placings

(* Whoever opens a page that reads k asks again; the panel does not read it. *)
ReadAtOnce(k) ==
    /\ k \notin PanelReads
    /\ \A p \in Pages : k \in Fresh5[p] => k \in AtOnce[p]

(* The keys that some page takes to be fresh for five minutes, or that the *)
(* panel reads                                                             *)
Slow == {<<"equipment-types">>, <<"categories">>, <<"locations">>,
         <<"default-storage-locations">>, <<"shows">>, <<"showsMissingEquipment">>}

LEMMA QuickKeys == \A k \in AllKeys \ Slow : ReadAtOnce(k)
  <1>1. \A p \in Pages : Fresh5[p] \subseteq Slow
    BY PageNames
    DEF Fresh5, Slow, QueriesOf, Queries, ListQueries, DashboardQueries, AdvancedQueries,
        DetailsQueries, EditQueries, NewQueries, ShowsQueries, ShowQueries, SettingsQueries,
        UsersQueries, LogsQueries
  <1>2. PanelReads \subseteq Slow
    BY DEF PanelReads, Slow
  <1> QED
    BY <1>1, <1>2 DEF ReadAtOnce

LEMMA AtOncePages ==
    /\ AtOnce["list"] = {Search, <<"locations">>}
    /\ AtOnce["dashboard"] = {Search, <<"equipment-summary">>, <<"equipment-analytics">>,
                              <<"saved-searches">>, <<"categories">>}
    /\ AtOnce["advanced"] = {Search, <<"equipment-analytics">>, <<"saved-searches">>,
                             <<"equipmentTypes">>, <<"categories">>}
    /\ AtOnce["details"] = {Item, Availability, Allocations, Placings, <<"locations">>}
    /\ AtOnce["edit"] = {Item, EditAllocations, EditAvailability}
    /\ AtOnce["new"] = {} /\ AtOnce["shows"] = {<<"shows">>, <<"locations">>}
    /\ AtOnce["show"] = {Show, ShowItems}
    /\ AtOnce["settings"] = {<<"equipment-types">>, <<"categories">>, <<"locations">>}
    /\ AtOnce["users"] = {<<"users">>}
  BY PageNames
  DEF AtOnce, QueriesOf, Queries, ListQueries, DashboardQueries, AdvancedQueries, DetailsQueries,
      EditQueries, NewQueries, ShowsQueries, ShowQueries, SettingsQueries, UsersQueries

Excused(c, k) == k \in KnownStale(c) \cup NeverTold

(* A page's own changes tell the entries that the page reads.              *)
TellsOwn(c, made) ==
    \A k \in AtOnce[made.on] :
       made.wrote \cap Reads(k) # {} =>
          c \in Leaving \/ Excused(c, k) \/ \E prefix \in made.tells : Matches(prefix, k)
AllTell(f) == \A c \in DOMAIN f : TellsOwn(c, f[c])

LEMMA Excuses ==
    /\ \A k \in {Item, Availability, Allocations} : Excused("allocate", k)
    /\ \A k \in {Item, EditAvailability, EditAllocations} : Excused("allocate2", k)
    /\ \A c \in {"install", "picture"} : Excused(c, Availability)
    /\ \A c \in {"reallot2", "remove2"} : Excused(c, Item)
    /\ Excused("picture2", EditAvailability)
  BY DEF Excused, KnownStale

LEMMA TellsList == AllTell(BatchChanges)
  BY AtOncePages, Prefixes, ReadsAre DEF AllTell, TellsOwn, BatchChanges, Batch, Made

LEMMA TellsAdvanced == AllTell(AdvancedChanges)
  <1>0. Matches(<<"equipment-analytics">>, <<"equipment-analytics">>)
        /\ Matches(<<"saved-searches">>, <<"saved-searches">>)
    BY Prefixes DEF AllKeys
  <1>1. TellsOwn("delete", AdvancedChanges.delete)
    BY <1>0, AtOncePages, Prefixes, ReadsAre DEF TellsOwn, AdvancedChanges, Made
  <1>2. TellsOwn("search", AdvancedChanges.search)
    BY <1>0, AtOncePages, ReadsAre DEF TellsOwn, AdvancedChanges, Made
  <1> QED
    BY <1>1, <1>2 DEF AllTell, AdvancedChanges

LEMMA TellsDashboard == AllTell(DashboardChanges)
  <1>0. Matches(<<"saved-searches">>, <<"saved-searches">>)
    BY Prefixes DEF AllKeys
  <1> QED
    BY <1>0, AtOncePages, ReadsAre DEF AllTell, TellsOwn, DashboardChanges, Made

LEMMA TellsDetails == AllTell(DetailsChanges)
  <1>0. \A k \in {Item, Availability, Allocations, Placings} : Matches(k, k)
    BY Prefixes DEF AllKeys
  <1>2. TellsOwn("drop", DetailsChanges.drop)
    BY DEF TellsOwn, Leaving
  <1>1. TellsOwn("allocate", DetailsChanges.allocate)
    BY AtOncePages, Prefixes, ReadsAre, Excuses DEF TellsOwn, DetailsChanges, AllocateToShow, Made
  <1>3. TellsOwn("remove", DetailsChanges.remove)
    BY <1>0, AtOncePages, Prefixes, ReadsAre, Excuses DEF TellsOwn, DetailsChanges, OfItem, Made
  <1>4. TellsOwn("place", DetailsChanges.place)
    BY AtOncePages, Prefixes, ReadsAre, Excuses DEF TellsOwn, DetailsChanges, LocationAllocations, Made
  <1>5. TellsOwn("install", DetailsChanges.install)
    BY AtOncePages, Prefixes, ReadsAre, Excuses DEF TellsOwn, DetailsChanges, Install, Made
  <1>6. TellsOwn("picture", DetailsChanges.picture)
    BY <1>0, AtOncePages, ReadsAre, Excuses DEF TellsOwn, DetailsChanges, ReferenceImage, Made
  <1>7. TellsOwn("upload", DetailsChanges.upload)
    BY <1>0, AtOncePages, ReadsAre, Excuses DEF TellsOwn, DetailsChanges, Upload, Made
  <1>8. TellsOwn("reallot", DetailsChanges.reallot)
    <2>1. {Item, Availability, Allocations, Placings} \subseteq DetailsChanges.reallot.tells
      BY DEF DetailsChanges, EditShowEquipment, OfItem, Made
    <2>2. DetailsChanges.reallot.on = "details"
          /\ DetailsChanges.reallot.wrote = {"items", "allocations"}
      BY DEF DetailsChanges, EditShowEquipment, Made
    <2> QED
      BY <1>0, <2>1, <2>2, AtOncePages, ReadsAre DEF TellsOwn
  <1> QED
    BY <1>1, <1>2, <1>3, <1>4, <1>5, <1>6, <1>7, <1>8 DEF AllTell, DetailsChanges

LEMMA TellsEdit == AllTell(EditChanges)
  <1>0. \A k \in {Item, EditAvailability, EditAllocations} : Matches(k, k)
    BY Prefixes DEF AllKeys
  <1>1. TellsOwn("save", EditChanges.save)
    BY DEF TellsOwn, Leaving
  <1>2. TellsOwn("allocate2", EditChanges.allocate2)
    BY AtOncePages, Prefixes, ReadsAre, Excuses DEF TellsOwn, EditChanges, AllocateToShow, Made
  <1>3. TellsOwn("reallot2", EditChanges.reallot2)
    BY <1>0, AtOncePages, ReadsAre, Excuses DEF TellsOwn, EditChanges, EditShowEquipment, Made
  <1>4. TellsOwn("remove2", EditChanges.remove2)
    BY <1>0, AtOncePages, ReadsAre, Excuses DEF TellsOwn, EditChanges, Made
  <1>5. TellsOwn("picture2", EditChanges.picture2)
    BY <1>0, AtOncePages, ReadsAre, Excuses DEF TellsOwn, EditChanges, ReferenceImage, Made
  <1>6. TellsOwn("upload2", EditChanges.upload2)
    BY <1>0, AtOncePages, ReadsAre, Excuses DEF TellsOwn, EditChanges, Upload, Made
  <1> QED
    BY <1>1, <1>2, <1>3, <1>4, <1>5, <1>6 DEF AllTell, EditChanges

LEMMA TellsNew == AllTell(NewChanges)
  BY AtOncePages DEF AllTell, TellsOwn, NewChanges, Made

LEMMA TellsShows == AllTell(ShowsChanges)
  <1>0. Matches(<<"shows">>, <<"shows">>)
    BY Prefixes DEF AllKeys
  <1> QED
    BY <1>0, AtOncePages, ReadsAre DEF AllTell, TellsOwn, ShowsChanges, Made

LEMMA TellsShow == AllTell(ShowChanges) /\ AllTell(ShowItemChanges)
  <1>0. Matches(Show, Show) /\ Matches(ShowItems, ShowItems)
    BY Prefixes DEF AllKeys
  <1>1. TellsOwn("showedit", ShowChanges.showedit)
    BY <1>0, AtOncePages, ReadsAre DEF TellsOwn, ShowChanges, Made
  <1>2. TellsOwn("unshow2", ShowChanges.unshow2)
    BY DEF TellsOwn, Leaving
  <1>3. \A c \in DOMAIN ShowItemChanges :
          /\ ShowItemChanges[c].on = "show" /\ ShowItems \in ShowItemChanges[c].tells
          /\ ShowItemChanges[c].wrote = {"items", "allocations"}
    BY DEF ShowItemChanges, EditShowEquipment, Made
  <1>4. AllTell(ShowItemChanges)
    BY <1>0, <1>3, AtOncePages, ReadsAre DEF AllTell, TellsOwn
  <1> QED
    BY <1>1, <1>2, <1>4 DEF AllTell, ShowChanges

LEMMA TellsSettings ==
    AllTell(TypeChanges) /\ AllTell(CategoryChanges) /\ AllTell(LocationChanges)
    /\ AllTell(DefaultChanges) /\ AllTell(UserChanges)
  <1>0. \A k \in {<<"equipment-types">>, <<"categories">>, <<"locations">>, <<"users">>} : Matches(k, k)
    BY Prefixes DEF AllKeys
  <1>1. AllTell(TypeChanges)
    BY <1>0, AtOncePages, ReadsAre DEF AllTell, TellsOwn, TypeChanges, Made
  <1>2. AllTell(CategoryChanges)
    BY <1>0, AtOncePages, ReadsAre DEF AllTell, TellsOwn, CategoryChanges, Made
  <1>3. AllTell(LocationChanges)
    BY <1>0, AtOncePages, ReadsAre DEF AllTell, TellsOwn, LocationChanges, Made
  <1>4. AllTell(DefaultChanges)
    BY AtOncePages, ReadsAre DEF AllTell, TellsOwn, DefaultChanges, Made
  <1>5. AllTell(UserChanges)
    BY <1>0, AtOncePages, ReadsAre DEF AllTell, TellsOwn, UserChanges, Made
  <1> QED
    BY <1>1, <1>2, <1>3, <1>4, <1>5

(* Keys that may pass for fresh are told by whatever touches them.         *)
TellsSlow(f) ==
    \A c \in DOMAIN f : \A k \in Slow \ NeverTold :
       f[c].wrote \cap Reads(k) # {} => \E prefix \in f[c].tells : Matches(prefix, k)

LEMMA GroupsTellSlow == \A f \in Groups : TellsSlow(f)
  <1>0. Slow \ NeverTold = {<<"equipment-types">>, <<"categories">>, <<"locations">>, <<"shows">>}
    BY DEF Slow, NeverTold
  <1>1. \A k \in {<<"equipment-types">>, <<"categories">>, <<"locations">>, <<"shows">>} : Matches(k, k)
    BY Prefixes DEF AllKeys
  <1>2. TellsSlow(BatchChanges) /\ TellsSlow(AdvancedChanges) /\ TellsSlow(DashboardChanges)
    BY <1>0, ReadsAre DEF TellsSlow, BatchChanges, Batch, AdvancedChanges, DashboardChanges, Made
  <1>3. TellsSlow(DetailsChanges)
    BY <1>0, ReadsAre
    DEF TellsSlow, DetailsChanges, AllocateToShow, EditShowEquipment, LocationAllocations, Install,
        ReferenceImage, Upload, Made
  <1>4. TellsSlow(EditChanges)
    BY <1>0, ReadsAre
    DEF TellsSlow, EditChanges, AllocateToShow, EditShowEquipment, ReferenceImage, Upload, Made
  <1>5. /\ TellsSlow(NewChanges) /\ TellsSlow(ShowItemChanges)
        /\ TellsSlow(DefaultChanges) /\ TellsSlow(UserChanges)
    BY <1>0, ReadsAre
    DEF TellsSlow, NewChanges, ShowItemChanges, EditShowEquipment, DefaultChanges, UserChanges, Made
  <1>6. TellsSlow(ShowsChanges) /\ TellsSlow(ShowChanges)
    BY <1>0, <1>1, ReadsAre DEF TellsSlow, ShowsChanges, ShowChanges, Made
  <1>7. TellsSlow(TypeChanges)
    BY <1>0, <1>1, ReadsAre DEF TellsSlow, TypeChanges, Made
  <1>8. TellsSlow(CategoryChanges)
    BY <1>0, <1>1, ReadsAre DEF TellsSlow, CategoryChanges, Made
  <1>9. TellsSlow(LocationChanges)
    BY <1>0, <1>1, ReadsAre DEF TellsSlow, LocationChanges, Made
  <1> QED
    BY <1>2, <1>3, <1>4, <1>5, <1>6, <1>7, <1>8, <1>9 DEF Groups

LEMMA GroupsTellOwn == \A f \in Groups : AllTell(f)
  BY TellsList, TellsAdvanced, TellsDashboard, TellsDetails, TellsEdit, TellsNew, TellsShows,
     TellsShow, TellsSettings
  DEF Groups

(* A change that touches an entry and does not tell it so is one of the    *)
(* known ones, or is made on a page that does not read the entry, or on    *)
(* one that it leaves, and the page that reads it next asks at once.       *)
LEMMA TouchedOrTold ==
  \A k \in Keys : \A c \in TouchesOf[k] \ TellsOf[k] :
     \/ k \in KnownStale(c) \cup NeverTold
     \/ ReadAtOnce(k) /\ (c \in Leaving \/ k \notin AtOnce[Change[c].on])
  <1> SUFFICES ASSUME NEW k \in Keys, NEW c \in TouchesOf[k] \ TellsOf[k], ~Excused(c, k)
               PROVE  ReadAtOnce(k) /\ (c \in Leaving \/ k \notin AtOnce[Change[c].on])
    BY DEF Excused
  <1>1. /\ c \in Changes /\ Change[c].wrote \cap Reads(k) # {}
        /\ \A prefix \in Change[c].tells : ~Matches(prefix, k)
    BY DEF TouchesOf, TellsOf
  <1>2. PICK group \in Groups : c \in DOMAIN group /\ Change[c] = group[c]
    BY <1>1, ChangeInGroup
  <1>3. k \notin Slow
    BY <1>1, <1>2, GroupsTellSlow DEF TellsSlow, Excused
  <1>4. ReadAtOnce(k)
    BY <1>3, KeyNames, QuickKeys
  <1>5. c \in Leaving \/ k \notin AtOnce[Change[c].on]
    BY <1>1, <1>2, GroupsTellOwn DEF AllTell, TellsOwn
  <1> QED
    BY <1>4, <1>5

-----------------------------------------------------------------------------
(***************************************************************************)
(* The cache shows every change that it owes the open page: an entry that  *)
(* lacks one is being asked for again, or will be before it is shown.      *)
(***************************************************************************)
(* The entry will be asked for again before it is shown. *)
Waiting == ~Observed /\ (entry.invalid \/ ReadAtOnce(key))

Owed == {c \in told : key \notin KnownStale(c) \cup NeverTold}

LacksTouched == entry.lacks \cup fetch.lacks \subseteq TouchesOf[key]
WriteUntold == write # NoWrite => write.name \notin told
OldAnswer == \A c \in Owed : Fetching /\ c \in fetch.lacks => entry.overtaken
OldEntry == \A c \in Owed \cap entry.lacks :
                entry.failed \/ entry.overtaken \/ Fetching \/ Waiting
ShownInv == LacksTouched /\ WriteUntold /\ OldAnswer /\ OldEntry

LEMMA ShownStarts ==
  ASSUME CacheInit
  PROVE  ShownInv
  BY DEF CacheInit, ShownInv, LacksTouched, WriteUntold, OldAnswer, OldEntry, Owed, Absent, Idle,
         Begun

LEMMA ShownSteps ==
  ASSUME CacheInv, ShownInv, [CacheNext]_cacheVars
  PROVE  ShownInv'
  <1>0. CacheInv' /\ key' = key /\ panel' = panel
    BY CacheSteps DEF CacheNext, Navigate, Forget, Age, Answer, FetchFails, Submit, Execute,
                      Succeeds, Fails, cacheVars
  <1>1. ASSUME told' \subseteq told
        PROVE  Owed' \subseteq Owed
    BY <1>0, <1>1 DEF Owed
  <1>2. ASSUME NEW p \in PagesOf[key], Navigate(p)
        PROVE  ShownInv'
    <2>1. CASE Reader(p) /\ ~Fetching /\ Stale(p)
      <3>1. fetch' = Begun(p) /\ entry' = [entry EXCEPT !.overtaken = FALSE]
        BY <1>2, <2>1 DEF Navigate, Mounted
      <3>2. entry'.lacks = entry.lacks /\ fetch'.lacks = {} /\ fetch'.on
        BY <3>1 DEF Begun, CacheInv, CachedEntry
      <3> QED
        BY <1>0, <1>2, <3>2
        DEF ShownInv, LacksTouched, WriteUntold, OldAnswer, OldEntry, Navigate, Fetching
    <2>2. CASE ~(Reader(p) /\ ~Fetching /\ Stale(p))
      <3>1. UNCHANGED <<fetch, entry, told, write>> /\ open' = p
        BY <1>2, <2>2 DEF Navigate, Mounted
      <3>2. Waiting /\ ~Fetching => Waiting'
        <4>1. p \in Pages
          BY PagesOfPages DEF CacheInv
        <4> QED
          BY <1>0, <2>2, <3>1, <4>1 DEF Waiting, Observed, Reader, ReadAtOnce, Stale
      <3> QED
        BY <1>0, <1>1, <3>1, <3>2
        DEF ShownInv, LacksTouched, WriteUntold, OldAnswer, OldEntry, Fetching, Owed
    <2> QED
      BY <2>1, <2>2
  <1>3. CASE Forget
    BY <1>0, <1>1, <1>3
    DEF Forget, Absent, ShownInv, LacksTouched, WriteUntold, OldAnswer, OldEntry, Fetching
  <1>4. CASE Age
    <2>1. /\ entry'.lacks = entry.lacks /\ entry'.failed = entry.failed
          /\ entry'.overtaken = entry.overtaken /\ entry'.invalid = entry.invalid
      BY <1>4 DEF Age, CacheInv, CachedEntry
    <2>2. Waiting' = Waiting /\ Fetching' = Fetching /\ Owed' = Owed
      BY <1>0, <1>4, <2>1 DEF Age, Waiting, Observed, Reader, ReadAtOnce, Fetching, Owed
    <2> QED
      BY <1>0, <1>4, <2>1, <2>2 DEF Age, ShownInv, LacksTouched, WriteUntold, OldAnswer, OldEntry
  <1>5. CASE Answer
    <2>1. /\ Fetching /\ fetch' = Idle /\ UNCHANGED <<told, write>>
          /\ entry'.lacks = fetch.lacks /\ entry'.overtaken = entry.overtaken
      BY <1>5 DEF Answer, Absent
    <2> QED
      BY <1>0, <1>1, <2>1
      DEF ShownInv, LacksTouched, WriteUntold, OldAnswer, OldEntry, Fetching, Idle, Owed
  <1>6. CASE FetchFails
    <2>1. /\ fetch' = Idle /\ UNCHANGED <<told, write>> /\ entry'.failed
          /\ entry'.lacks \subseteq entry.lacks
      BY <1>6 DEF FetchFails, Absent, CacheInv, CachedEntry
    <2> QED
      BY <1>0, <1>1, <2>1
      DEF ShownInv, LacksTouched, WriteUntold, OldAnswer, OldEntry, Fetching, Idle, Owed
  <1>7. ASSUME NEW c \in Changes, Submit(c)
        PROVE  ShownInv'
    <2>1. /\ UNCHANGED <<entry, fetch, open>> /\ told' \subseteq told
          /\ write'.name = c /\ c \notin told'
      BY <1>7 DEF Submit
    <2>2. Waiting' = Waiting /\ Fetching' = Fetching
      BY <1>0, <2>1 DEF Waiting, Observed, Reader, ReadAtOnce, Fetching
    <2> QED
      BY <1>0, <1>1, <2>1, <2>2
      DEF ShownInv, LacksTouched, WriteUntold, OldAnswer, OldEntry
  <1>8. CASE Execute
    <2>1. /\ write # NoWrite /\ write'.name = write.name /\ UNCHANGED <<told, open>>
          /\ entry'.lacks \subseteq entry.lacks \cup ({write.name} \cap TouchesOf[key])
          /\ fetch'.lacks \subseteq fetch.lacks \cup ({write.name} \cap TouchesOf[key])
          /\ entry'.failed = entry.failed /\ entry'.overtaken = entry.overtaken
          /\ entry'.invalid = entry.invalid /\ fetch'.on = fetch.on
      BY <1>8 DEF Execute, CacheInv, CachedEntry, CacheFetch, Touches
    <2>2. Waiting' = Waiting /\ Fetching' = Fetching /\ write.name \notin Owed'
      BY <1>0, <2>1 DEF Waiting, Observed, Reader, ReadAtOnce, Fetching, ShownInv, WriteUntold, Owed
    <2> QED
      BY <1>0, <1>1, <2>1, <2>2
      DEF ShownInv, LacksTouched, WriteUntold, OldAnswer, OldEntry
  <1>9. CASE Succeeds
    <2> DEFINE c == write.name
               page == Leads(c)
               again == Refetches(c) \/ (page # open /\ Reader(page) /\ ~Fetching
                                          /\ (Stale(page) \/ Tells(c)))
    <2>1. /\ told' = IF Change[c].on = open THEN told \cup {c} ELSE told
          /\ write' = NoWrite /\ open' = page
          /\ fetch' = IF again THEN Begun(page) ELSE fetch
      BY <1>9 DEF Succeeds
    <2>2. entry' = [entry EXCEPT !.invalid = entry.invalid \/ (Tells(c) /\ entry.has),
                                 !.overtaken = ~again /\ (entry.overtaken \/ Fetching)]
      BY <1>9 DEF Succeeds
    <2>3. /\ entry'.lacks = entry.lacks /\ entry'.failed = entry.failed
          /\ entry'.invalid = (entry.invalid \/ (Tells(c) /\ entry.has))
          /\ entry'.overtaken = (~again /\ (entry.overtaken \/ Fetching))
      <3> HIDE DEF again
      <3> QED
        BY <2>2 DEF CacheInv, CachedEntry
    <2>4. c \in Changes
      BY <1>9 DEF Succeeds, CacheInv, NoWrite
    <2>5. LacksTouched' /\ WriteUntold'
      BY <1>0, <2>1, <2>3 DEF ShownInv, LacksTouched, WriteUntold, Begun
    <2>6. CASE again
      <3>1. fetch'.on /\ fetch'.lacks = {}
        BY <2>1, <2>6 DEF Begun
      <3> QED
        BY <2>5, <3>1 DEF ShownInv, OldAnswer, OldEntry, Fetching
    <2>7. CASE ~again
      <3>1. fetch' = fetch /\ entry'.overtaken = (entry.overtaken \/ Fetching)
        BY <2>1, <2>3, <2>7
      <3>2. OldAnswer'
        BY <3>1 DEF OldAnswer, Fetching
      <3> SUFFICES ASSUME NEW d \in Owed' \cap entry.lacks, ~entry.failed, ~entry.overtaken,
                          ~Fetching
                   PROVE  Waiting'
        BY <2>3, <2>5, <3>1, <3>2 DEF ShownInv, OldEntry, Fetching
      <3>3. page \in Pages
        BY <1>0, <2>1 DEF CacheInv
      <3>4. ~Refetches(c) /\ ~(page # open /\ Reader(page) /\ (Stale(page) \/ Tells(c)))
        BY <2>7
      <3>5. CASE d \in told
        <4>1. Waiting
          BY <1>0, <3>5 DEF ShownInv, OldEntry, Owed
        <4> HIDE DEF c, page
        <4> QED
          BY <1>0, <2>1, <2>3, <3>3, <3>4, <4>1 DEF Waiting, Observed, Reader, ReadAtOnce, Stale
      <3>6. CASE d \notin told
        <4>1. /\ d = c /\ Change[c].on = open /\ key \notin KnownStale(c) \cup NeverTold
              /\ entry.has /\ c \in TouchesOf[key]
          BY <1>0, <2>1, <3>6 DEF Owed, CacheInv, CachedEntry, ShownInv, LacksTouched
        <4>2. CASE Tells(c)
          <5>1. ~Observed
            BY <3>4, <4>1, <4>2 DEF Refetches
          <5> HIDE DEF c, page
          <5> QED
            BY <1>0, <2>1, <2>3, <3>4, <4>1, <4>2, <5>1 DEF Waiting, Observed, Reader
        <4>3. CASE ~Tells(c)
          <5>1. ReadAtOnce(key) /\ (c \in Leaving \/ key \notin AtOnce[open])
            BY <4>1, <4>3, TouchedOrTold DEF Tells, CacheInv
          <5>2. c \in Leaving => page # open
            BY <2>4, <4>1, ChangesOnPages DEF OnPages, Change, Leads, Leaving
          <5>3. c \notin Leaving => page = open
            BY DEF Leads, Leaving
          <5>4. ~Reader(page)
            <6> HIDE DEF c, page
            <6> QED
              BY <3>3, <3>4, <5>1, <5>2, <5>3 DEF Reader, ReadAtOnce, Stale, CacheInv
          <5> HIDE DEF c, page
          <5> QED
            BY <1>0, <2>1, <5>1, <5>4 DEF Waiting, Observed, Reader, ReadAtOnce
        <4> QED
          BY <4>2, <4>3
      <3> QED
        BY <3>5, <3>6
    <2> QED
      BY <2>6, <2>7
  <1>10. CASE Fails
    <2>1. Waiting' = Waiting /\ Fetching' = Fetching /\ Owed' = Owed
      BY <1>0, <1>10 DEF Fails, Waiting, Observed, Reader, ReadAtOnce, Fetching, Owed
    <2> QED
      BY <1>0, <1>10, <2>1 DEF Fails, ShownInv, LacksTouched, WriteUntold, OldAnswer, OldEntry
  <1>11. CASE UNCHANGED cacheVars
    <2>1. Waiting' = Waiting /\ Fetching' = Fetching /\ Owed' = Owed
      BY <1>11 DEF cacheVars, Waiting, Observed, Reader, ReadAtOnce, Fetching, Owed
    <2> QED
      BY <1>11, <2>1 DEF cacheVars, ShownInv, LacksTouched, WriteUntold, OldAnswer, OldEntry
  <1> QED
    BY <1>2, <1>3, <1>4, <1>5, <1>6, <1>7, <1>8, <1>9, <1>10, <1>11 DEF CacheNext

LEMMA ShownOwn == CacheInv /\ ShownInv => OwnChangesShown
  BY DEF CacheInv, ShownInv, OldEntry, OwnChangesShown, Owed, Waiting, CachedEntry
-----------------------------------------------------------------------------
CachesInv == Chosen("cache") => CacheInv /\ ShownInv

LEMMA CacheInductive ==
  /\ Init => CachesInv
  /\ CachesInv /\ [Next]_vars => CachesInv'
  BY ServerAssumption, PartSteps, CacheStarts, CacheSteps, ShownStarts, ShownSteps
  DEF Init, Chosen, CachesInv

-----------------------------------------------------------------------------
(* The type invariant of each part, from what its proofs carry.            *)
LEMMA SavedTypes == SavedT!TypeOK => Saved!TypeOK
    BY DEF Saved!TypeOK, SavedT!TypeOK, Saved!SearchRow, SavedT!SearchRow,
           Saved!Calls, SavedT!Calls, Saved!NoCall, SavedT!NoCall,
           Saved!SearchIds, SavedT!SearchIds, Saved!Undefined, SavedT!Undefined

LEMMA ListsTypes == ListsT!TypeOK => Lists!TypeOK
    BY DEF Lists!TypeOK, ListsT!TypeOK, Lists!Kinds, ListsT!Kinds,
           Lists!EntryIds, ListsT!EntryIds, Lists!Null, ListsT!Null, Lists!Calls, ListsT!Calls,
           Lists!NoCall, ListsT!NoCall

LEMMA StoredTypes == StoredT!FileTypeOK => Stored!FileTypeOK
    BY DEF Stored!FileTypeOK, StoredT!FileTypeOK, Stored!FileIds, StoredT!FileIds,
           Stored!Null, StoredT!Null

LEMMA LoginsTypes == LoginsT!AccountTypeOK => Logins!AccountTypeOK
    BY DEF Logins!AccountTypeOK, LoginsT!AccountTypeOK, Logins!Untold, LoginsT!Untold, Logins!User, LoginsT!User,
           Logins!Roles, LoginsT!Roles

LEMMA PlacesTypes == PlacesT!PlaceTypeOK => Places!PlaceTypeOK
    BY DEF Places!PlaceTypeOK, PlacesT!PlaceTypeOK, Places!TablesTypeOK, PlacesT!TablesTypeOK,
           Places!EquipmentRow, PlacesT!EquipmentRow, Places!Quantities, PlacesT!Quantities,
           Places!EquipmentStatuses, PlacesT!EquipmentStatuses, Places!IsTable, PlacesT!IsTable,
           Places!RowIds, PlacesT!RowIds, Places!Row, PlacesT!Row,
           Places!ShowEquipmentRow, PlacesT!ShowEquipmentRow,
           Places!ShowStatuses, PlacesT!ShowStatuses, Places!InventoryRow, PlacesT!InventoryRow,
           Places!InventoryStatuses, PlacesT!InventoryStatuses

(* The variables of every part hold values of their kinds: rows with ids   *)
(* that were given out, calls of the handlers with what they have read.    *)
THEOREM ServerTypes == Spec => []TypesOK
  <1> DEFINE Inv == /\ SavedInv /\ ListsInv /\ StoredInv /\ LoginsInv /\ PlacesInv
                    /\ TransferInv /\ SessionsInv
                    /\ CachesInv
  <1>1. SavedInv => (Chosen("saved") => Saved!TypeOK)
    BY SavedTypes DEF SavedInv, SavedT!SearchInv
  <1>2. ListsInv => (Chosen("lists") => Lists!TypeOK)
    BY ListsTypes DEF ListsInv, ListsT!ListInv
  <1>3. StoredInv => (Chosen("files") => Stored!FileTypeOK)
    BY StoredTypes DEF StoredInv, StoredT!FileInv
  <1>4. LoginsInv => (Chosen("logins") => Logins!AccountTypeOK)
    BY LoginsTypes DEF LoginsInv, LoginsT!AccountInv, LoginsT!TypesOK
  <1>5. PlacesInv => (Chosen("places") => Places!PlaceTypeOK)
    BY ServerAssumption, TablesSetUp, PlacesSetUp, PlacesT!InvTypes, PlacesTypes DEF PlacesInv
  <1>6. TransferInv => (Chosen("transfer") => Transfer!IoTypeOK)
    BY ServerAssumption
    DEF TransferInv, StockInv, StockRight, IoSerial, TempInv, TempRight, Transfer!IoTypeOK,
        Transfer!None
  <1>7. SessionsInv => (Chosen("browser") => Browser!SessionTypeOK)
    <2> SUFFICES ASSUME SessionInv PROVE Browser!SessionTypeOK
      BY DEF SessionsInv
    <2>1. DOMAIN owner \subseteq Browser!Tokens
      BY ServerAssumption DEF SessionInv, Browser!Tokens
    <2> QED
      BY <2>1
      DEF SessionInv, TabsRight, TabWith, Browser!SessionTypeOK, Browser!Signed, Browser!NoToken,
          Browser!Nobody
  <1>8. CachesInv => (Chosen("cache") => CacheTypeOK)
    BY DEF CachesInv, CacheInv, CacheTypeOK, CachedEntry, CacheFetch, NoWrite
  <1>9. Inv => TypesOK
    BY <1>1, <1>2, <1>3, <1>4, <1>5, <1>6, <1>7, <1>8 DEF TypesOK
  <1>10. Init => Inv
    BY SavedInductive, ListsInductive, StoredInductive, LoginsInductive, PlacesInductive,
       TransferInductive, SessionInductive, CacheInductive
  <1>11. Inv /\ [Next]_vars => Inv'
    BY SavedInductive, ListsInductive, StoredInductive, LoginsInductive, PlacesInductive,
       TransferInductive, SessionInductive, CacheInductive
  <1> QED
    BY <1>9, <1>10, <1>11, PTL DEF Spec

(* When nothing is under way, the open page shows every change that was    *)
(* answered on it, for any number of changes, pages opened and requests    *)
(* failed or overtaken, with the exceptions the property states.           *)
THEOREM ServerChangesShown == Spec => []ChangesShown
  <1>1. CachesInv => ChangesShown
    BY ShownOwn DEF CachesInv, ChangesShown
  <1> QED
    BY <1>1, CacheInductive, PTL DEF Spec
=============================================================================
