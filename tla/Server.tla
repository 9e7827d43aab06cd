------------------------------- MODULE Server -------------------------------
(***************************************************************************)
(* The request handlers that share no rows in the models, and the pages of *)
(* the browser, side by side: a behaviour is one of one part, chosen at    *)
(* the start, and the variables of the other parts are Off throughout.     *)
(* The constants are those of the parts, under the same names.             *)
(***************************************************************************)
EXTENDS Integers, FiniteSets, QueryCache

CONSTANTS
    Users, MaxSearches, SearchHandlers,                            \* SavedSearches
    Names(_), Folded(_), MaxEntries, ListHandlers,                 \* ReferenceLists
    MaxObjects, FileHandlers,                                      \* FileStore
    Usernames, FirstName, Secrets, FirstSecret, MaxUsers,          \* Accounts
    AccountHandlers, Manages(_, _),
    Equipment, Shows, MaxQuantity, MaxRows, MigratedSchema,        \* LocationAllocations
    PlacedItem, Locations, Strict, PlaceHandlers, ShowRows,
    Serials, Trimmed(_), MaxItems, Files, Stamps, IoHandlers,      \* ImportExport
    Tabs, People, Admins, MaxTokens                                \* ClientSession

VARIABLES part,
    searches, last_search, search_calls, contended,
    kind, entries, last_entry, storages, placed, item, list_calls, moved,
    storage, files, owners, last_owner, blobs, thumbnails, emptied, last_blob,
    file_calls, cut_short,
    users, last_user, account_calls, heard, races, crossed, stepped_down,
    equipment, shows, show_equipment, inventory_allocation, places, status_log, place_calls,
    doubtful, outrun, guessed,
    items, last_item, io_calls, contested, temp, same_stamp,
    owner, ended, store, tab

searchVars == <<searches, last_search, search_calls, contended>>
listVars == <<kind, entries, last_entry, storages, placed, item, list_calls, moved>>
fileVars == <<storage, files, owners, last_owner, blobs, thumbnails, emptied, last_blob,
              file_calls, cut_short>>
accountVars == <<users, last_user, account_calls, heard, races, crossed, stepped_down>>
placeVars == <<equipment, shows, show_equipment, inventory_allocation, places, status_log,
               place_calls, doubtful, outrun, guessed>>
ioVars == <<items, last_item, io_calls, contested, temp, same_stamp>>
sessionVars == <<owner, ended, store, tab>>
vars == <<part, searchVars, listVars, fileVars, accountVars, placeVars, ioVars, sessionVars,
          cacheVars>>

-----------------------------------------------------------------------------
Saved == INSTANCE SavedSearches
Lists == INSTANCE ReferenceLists
Stored == INSTANCE FileStore
Logins == INSTANCE Accounts WITH contended <- races, told <- heard
Places == INSTANCE LocationAllocations WITH placed <- places, Item <- PlacedItem
Transfer == INSTANCE ImportExport
Browser == INSTANCE ClientSession

(* A record of an imported file; the id 0 and the serial number "none" are missing ones. *)
ImportRecord == [id : Nat, serial : Serials \cup {"none"}, named : BOOLEAN]

ASSUME ServerAssumption ==
    /\ MaxSearches \in Nat /\ MaxEntries \in Nat /\ MaxObjects \in Nat
    /\ MaxUsers \in Nat \ {0} /\ FirstName \in Usernames /\ FirstSecret \in Secrets
    /\ IsFiniteSet(Equipment) /\ PlacedItem \in Equipment /\ IsFiniteSet(Locations)
    /\ IsFiniteSet(PlaceHandlers)
    /\ MaxQuantity \in Nat \ {0} /\ MaxRows \in Nat /\ MigratedSchema \in BOOLEAN
    /\ \A table \in ShowRows : Places!IsTable(table, Places!ShowEquipmentRow)
    /\ \A s \in Serials \cup {"none"} : Trimmed(s) \in Serials \cup {"none"}
    /\ MaxTokens \in Nat /\ MaxItems \in Nat /\ MaxWrites \in Nat
    /\ \A file \in Files : file \in Seq(ImportRecord) /\ file # <<>>
-----------------------------------------------------------------------------
Off == "off"
SavedOff == searches = Off /\ last_search = Off /\ search_calls = Off /\ contended = Off
ListsOff == /\ kind = Off /\ entries = Off /\ last_entry = Off /\ storages = Off
            /\ placed = Off /\ item = Off /\ list_calls = Off /\ moved = Off
FilesOff == /\ storage = Off /\ files = Off /\ owners = Off /\ last_owner = Off /\ blobs = Off
            /\ thumbnails = Off /\ emptied = Off /\ last_blob = Off /\ file_calls = Off
            /\ cut_short = Off
LoginsOff == /\ users = Off /\ last_user = Off /\ account_calls = Off /\ heard = Off
             /\ races = Off /\ crossed = Off /\ stepped_down = Off
PlacesOff == /\ equipment = Off /\ shows = Off /\ show_equipment = Off
             /\ inventory_allocation = Off /\ places = Off /\ status_log = Off
             /\ place_calls = Off /\ doubtful = Off /\ outrun = Off /\ guessed = Off
TransferOff == /\ items = Off /\ last_item = Off /\ io_calls = Off /\ contested = Off
               /\ temp = Off /\ same_stamp = Off
BrowserOff == owner = Off /\ ended = Off /\ store = Off /\ tab = Off

CacheOff == /\ key = Off /\ panel = Off /\ open = Off /\ entry = Off /\ fetch = Off
            /\ write = Off /\ told = Off /\ writes = Off

Chosen(name) == part = name
Init ==
    /\ part \in {"saved", "lists", "files", "logins", "places", "transfer",
               "browser", "cache"}
    /\ IF Chosen("saved") THEN Saved!Init ELSE SavedOff
    /\ IF Chosen("lists") THEN Lists!Init ELSE ListsOff
    /\ IF Chosen("files") THEN Stored!Init ELSE FilesOff
    /\ IF Chosen("logins") THEN Logins!Init ELSE LoginsOff
    /\ IF Chosen("places") THEN Places!Init ELSE PlacesOff
    /\ IF Chosen("transfer") THEN Transfer!Init ELSE TransferOff
    /\ IF Chosen("browser") THEN Browser!SessionInit ELSE BrowserOff
    /\ IF Chosen("cache") THEN CacheInit ELSE CacheOff

Next ==
    /\ UNCHANGED part
    /\ \/ /\ Chosen("saved") /\ Saved!Next
          /\ UNCHANGED <<listVars, fileVars, accountVars, placeVars, ioVars, sessionVars,
                         cacheVars>>
       \/ /\ Chosen("lists") /\ Lists!Next
          /\ UNCHANGED <<searchVars, fileVars, accountVars, placeVars, ioVars, sessionVars,
                         cacheVars>>
       \/ /\ Chosen("files") /\ Stored!Next
          /\ UNCHANGED <<searchVars, listVars, accountVars, placeVars, ioVars, sessionVars,
                         cacheVars>>
       \/ /\ Chosen("logins") /\ Logins!Next
          /\ UNCHANGED <<searchVars, listVars, fileVars, placeVars, ioVars, sessionVars, cacheVars>>
       \/ /\ Chosen("places") /\ Places!Next
          /\ UNCHANGED <<searchVars, listVars, fileVars, accountVars, ioVars, sessionVars,
                         cacheVars>>
       \/ /\ Chosen("transfer") /\ Transfer!Next
          /\ UNCHANGED <<searchVars, listVars, fileVars, accountVars, placeVars, sessionVars,
                         cacheVars>>
       \/ /\ Chosen("browser") /\ Browser!SessionNext
          /\ UNCHANGED <<searchVars, listVars, fileVars, accountVars, placeVars, ioVars, cacheVars>>
       \/ /\ Chosen("cache") /\ CacheNext
          /\ UNCHANGED <<searchVars, listVars, fileVars, accountVars, placeVars, ioVars,
                         sessionVars>>

Spec == Init /\ [][Next]_vars
-----------------------------------------------------------------------------
(* The type invariant of every part                                       *)
TypesOK ==
    /\ Chosen("saved") => Saved!TypeOK
    /\ Chosen("lists") => Lists!TypeOK
    /\ Chosen("files") => Stored!FileTypeOK
    /\ Chosen("logins") => Logins!AccountTypeOK
    /\ Chosen("places") => Places!PlaceTypeOK
    /\ Chosen("transfer") => Transfer!IoTypeOK
    /\ Chosen("browser") => Browser!SessionTypeOK
    /\ Chosen("cache") => CacheTypeOK

(* A user has at most one default search (routes/savedSearches.js clears   *)
(* the old one before it writes the new), unless two requests of that user *)
(* that write a default have overlapped.                                   *)
OneDefault == Chosen("saved") => Saved!OneDefault

(* No two categories and no two types have names that the database takes   *)
(* for the same, although POST and PUT of routes/categories.js and         *)
(* routes/equipmentTypes.js look a name up in one statement and write it   *)
(* in another.                                                             *)
NamesDiffer == Chosen("lists") => Lists!NamesDiffer

(* A default storage location names a location that exists, and no two     *)
(* name the same, whatever routes/locations.js and                         *)
(* routes/defaultStorageLocations.js create and delete at the same time.   *)
StorageExists == Chosen("lists") => Lists!StorageExists

(* The location of an item exists, unless the item was on its way there    *)
(* when DELETE /locations/:id had counted it as unused, or PUT and POST of *)
(* routes/equipment.js were sent an id that named none.                    *)
ItemHasPlace == Chosen("lists") => Lists!ItemHasPlace

(* Every file that the table lists can be downloaded, as original and as   *)
(* thumbnail, unless the deletion that unlinks it before its transaction   *)
(* commits is at work or was cut short.                                    *)
RecordsServed == Chosen("files") => Stored!RecordsServed

(* The reference image of an item is a file that exists, although files    *)
(* are deleted by four handlers of routes/files.js and routes/equipment.js *)
(* and any id may be sent as reference.                                    *)
ReferenceExists == Chosen("files") => Stored!ReferenceExists

(* No two users have the same name: routes/auth.js looks a name up and     *)
(* inserts in two statements. Names that two requests wanted to write at   *)
(* the same time are excepted.                                             *)
UsernamesDiffer == Chosen("logins") => Logins!UsernamesDiffer

(* There is an administrator: none can delete or demote another way than   *)
(* by the guards of routes/auth.js, unless the last one gave the role away *)
(* himself or two requests of administrators met.                          *)
AdminRemains == Chosen("logins") => Logins!AdminRemains

(* A user whose stored password is hashed logs in with the one he was last *)
(* told, through every order of the requests that set, reset and repair    *)
(* passwords, which the hooks of models/User.js hash again, unless a reset *)
(* failed after its UPDATE and told nothing, or requests met.              *)
ToldPasswordWorks == Chosen("logins") => Logins!ToldPasswordWorks

(* The units at locations, as services/inventoryService.js and POST        *)
(* /equipment/:id/allocations place them, are no more than the item has,   *)
(* unless a request inserted after another had read what is free. Rows are *)
(* left out whose request took a SELECT that failed for a sum of 0, and no *)
(* request that follows lets the others past the stock because of them.    *)
PlacedWithinStock == Chosen("places") => Places!PlacedWithinStock

(* The handlers of the placements keep the book of Placements: what is     *)
(* inserted after a full count fits the stock when it is inserted, a move  *)
(* keeps the units, a returned row stays so whatever moves it, and only    *)
(* POST /equipment/:id/allocations ends more than one placement, in the    *)
(* transaction that makes its own.                                         *)
ImplementsPlacements ==
    /\ Chosen("places") => Places!Ledger!Init
    /\ [][Chosen("places") => Places!Ledger!Next]_<<Places!Book, Places!Total, outrun>>

(* The last log entry of an allocation says where it is: moves and returns *)
(* of services/inventoryService.js log what they read before their UPDATE. *)
(* Rows that two requests worked on at once, or whose entry failed, are    *)
(* excepted.                                                               *)
LogSaysWhere == Chosen("places") => Places!LogSaysWhere

(* Two items have one serial number only if a request wrote it between the *)
(* lookup and the write of another, or did not look for it: an import that *)
(* found the item by its id, or a POST that was sent it with blanks.       *)
SerialsDiffer == Chosen("transfer") => Transfer!SerialsDiffer

(* An import of services/importExportService.js counts a record as done    *)
(* exactly when it wrote the row and the entry about it, also when an item *)
(* disappears or a log entry fails half way.                               *)
ReportMatches == Chosen("transfer") => Transfer!ReportMatches

(* An export answers with the rows that its own filters selected and not   *)
(* with the temporary file of another one, unless both ran in the same     *)
(* millisecond.                                                            *)
ExportsOwnRows == Chosen("transfer") => Transfer!ExportsOwnRows

(* The requests of a page act for the user whom the page shows, through    *)
(* logins, impersonation and expiry in several tabs that share one         *)
(* localStorage, but for those that the page sends when impersonation has  *)
(* begun and the effect of AuthContext.jsx has not set the header, and     *)
(* unless an answer to an earlier token of this tab has come in since.     *)
ActsAsShown == Chosen("browser") => Browser!ActsAsShown

(* No step changes a search of a user who has no request under way, also   *)
(* in the statement of routes/savedSearches.js that clears defaults by     *)
(* condition.                                                              *)
OwnSearchesOnly == [][Chosen("saved") => Saved!TouchesOwnSearches]_vars

(* When nothing is under way, the open page shows every change that was    *)
(* answered on it: each mutation invalidates the queries whose rows it     *)
(* changed. The entries known to be left out, and those whose last request *)
(* failed or was overtaken, are excepted.                                  *)
ChangesShown == Chosen("cache") => OwnChangesShown
=============================================================================
