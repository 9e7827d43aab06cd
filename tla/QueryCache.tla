------------------------------- MODULE QueryCache -------------------------------
(***************************************************************************)
(* The cache of query results that all pages of the client share, as the   *)
(* pages use it: which queries each one reads, which changes it makes and  *)
(* which entries it invalidates when one has been answered.  The cache     *)
(* itself is @tanstack/react-query 4, a library.                           *)
(*                                                                         *)
(* Entries touch one another only through the open page and its changes,   *)
(* so a behaviour follows the entry of one key, any of them.  The queries  *)
(* of a modal are left out: it opens, reads afresh, and closes.            *)
(***************************************************************************)
EXTENDS Naturals, Sequences, FiniteSets, TLC
Ext == INSTANCE SequencesExt

CONSTANT MaxWrites     \* changes in a behaviour at most

VARIABLES
    key,      \* the key whose entry is followed
    panel,    \* an admin is logged in: the notification panel reads it too
    open,     \* the page shown
    entry,    \* what the cache holds for the key
    fetch,    \* the request for it that is under way
    write,    \* the change that is under way
    told,     \* changes answered while the page that made them was open
    writes    \* changes begun

cacheVars == <<key, panel, open, entry, fetch, write, told, writes>>

(***************************************************************************)
(* Keys.  The id of a page is the text of its address, "id"; that of a     *)
(* modal is a field of the item, a "number", and the library takes them    *)
(* for different.                                                          *)
(***************************************************************************)
Search == <<"equipment", "search">>
Item == <<"equipment", "id">>
Availability == <<"equipmentAvailability", "id">>
Allocations == <<"equipmentShowAllocations", "id">>
Placings == <<"inventoryAllocations", "id">>
EditAvailability == <<"equipment-availability", "id">>
EditAllocations == <<"show-equipment", "id">>
Show == <<"show", "id">>
ShowItems == <<"showEquipment", "id">>
Modal(name) == <<name, "number">>

(* What the server computes the answer from *)
Reads(k) ==
    CASE k = Item -> {"items", "files", "types", "categories", "places"}
      [] k \in {Search, <<"equipment-summary">>, <<"equipment-analytics">>} ->
            {"items", "types", "categories", "places"}
      [] k \in {Availability, EditAvailability} -> {"items", "allocations", "placings"}
      [] k \in {Allocations, EditAllocations, ShowItems, <<"showsMissingEquipment">>} ->
            {"allocations"}
      [] k = Placings -> {"placings"}
      [] k \in {<<"equipment-types">>, <<"equipmentTypes">>} -> {"types"}
      [] k = <<"categories">> -> {"categories"}
      [] k = <<"locations">> -> {"places"}
      [] k \in {<<"shows">>, Show} -> {"shows"}
      [] k = <<"saved-searches">> -> {"searches"}
      [] k = <<"default-storage-locations">> -> {"defaults"}
      [] k = <<"users">> -> {"users"}
      [] k = <<"allEquipmentLogs">> -> {"items"}

(* The queries of a page that are stale at once, and those that are fresh  *)
(* for five minutes                                                        *)
Queries(once, fresh) == [once |-> once, fresh |-> fresh]
ListQueries == Queries({Search, <<"locations">>}, {<<"equipment-types">>})
DashboardQueries ==
    Queries({Search, <<"equipment-summary">>, <<"equipment-analytics">>, <<"saved-searches">>,
             <<"categories">>},
            {<<"equipment-types">>})
AdvancedQueries ==
    Queries({Search, <<"equipment-analytics">>, <<"saved-searches">>, <<"equipmentTypes">>,
             <<"categories">>}, {})
DetailsQueries == Queries({Item, Availability, Allocations, Placings, <<"locations">>}, {})
EditQueries ==
    Queries({Item, EditAllocations, EditAvailability},
            {<<"equipment-types">>, <<"categories">>, <<"locations">>})
NewQueries ==
    Queries({}, {<<"equipment-types">>, <<"categories">>, <<"locations">>,
                 <<"default-storage-locations">>, <<"shows">>})
ShowsQueries == Queries({<<"shows">>, <<"locations">>}, {<<"showsMissingEquipment">>})
ShowQueries == Queries({Show, ShowItems}, {})
SettingsQueries == Queries({<<"equipment-types">>, <<"categories">>, <<"locations">>}, {})
UsersQueries == Queries({<<"users">>}, {})
LogsQueries == Queries({<<"allEquipmentLogs">>, <<"locations">>}, {<<"equipment-types">>})

(* The routes of App.jsx; /show/:showId/manage-equipment reads what the page *)
(* of the show reads.                                                        *)
QueriesOf ==
    [list |-> ListQueries, dashboard |-> DashboardQueries, advanced |-> AdvancedQueries,
     details |-> DetailsQueries, edit |-> EditQueries, new |-> NewQueries,
     shows |-> ShowsQueries, show |-> ShowQueries, settings |-> SettingsQueries,
     users |-> UsersQueries, logs |-> LogsQueries]
Pages == DOMAIN QueriesOf
AtOnce == [p \in Pages |-> QueriesOf[p].once]
Fresh5 == [p \in Pages |-> QueriesOf[p].fresh]

PanelReads == {<<"equipment-types">>}      \* and all items, every five minutes
Keys == UNION {AtOnce[p] \cup Fresh5[p] : p \in Pages}

(* Queries whose function answers an error with an empty list *)
Swallows(page, k) ==
    \/ k \in {<<"categories">>, Placings}
    \/ k = <<"locations">> /\ page \in {"details", "edit"}
-----------------------------------------------------------------------------
(***************************************************************************)
(* Changes: the page that makes one, what it writes, which keys it         *)
(* invalidates once it is answered.                                        *)
(***************************************************************************)
Made(on, wrote, tells) == [on |-> on, wrote |-> wrote, tells |-> tells]

(* The dialogues that several pages open *)
AllocateToShow(on) ==
    Made(on, {"items", "allocations"},
         {Modal("equipmentAvailability"), Modal("equipmentShowAllocations"), Modal("equipment"),
          <<"showEquipment">>, <<"shows">>})
EditShowEquipment(on, tells) ==
    Made(on, {"items", "allocations"},
         tells \cup {ShowItems, Show, <<"equipmentAvailability">>, Modal("equipmentShowAllocations")})
LocationAllocations ==
    Made("details", {"placings"},
         {<<"equipment">>, <<"equipment-availability">>, <<"equipmentAvailability">>,
          <<"equipmentShowAllocations">>, <<"inventoryAllocations">>})
Install ==
    Made("details", {"items"},
         {<<"equipment">>, <<"show-equipment">>, <<"equipment-availability">>})
ReferenceImage(on) == Made(on, {"items", "files"}, {Item})
Upload(on) == Made(on, {"files"}, {Item})

(* The batch dialogues and the duplicates *)
Batch == Made("list", {"items"}, {<<"equipment">>})

AdvancedChanges ==
    [delete |-> Made("advanced", {"items", "allocations", "placings"},
                     {<<"equipment">>, <<"equipment-analytics">>}),
     search |-> Made("advanced", {"searches"}, {<<"saved-searches">>})]
DashboardChanges == [search2 |-> Made("dashboard", {"searches"}, {<<"saved-searches">>})]

(* "remove" is also the new status of an allocation. *)
OfItem_Short == {Allocations, Item, Placings}      \* variant: one key forgotten
OfItem == {Allocations, Availability, Item, Placings}
DetailsChanges ==
    [drop     |-> Made("details", {"items", "allocations", "placings"}, {<<"equipment">>}),
     remove   |-> Made("details", {"items", "allocations"}, OfItem),
     allocate |-> AllocateToShow("details"),
     reallot  |-> EditShowEquipment("details", OfItem),
     place    |-> LocationAllocations,
     install  |-> Install,
     picture  |-> ReferenceImage("details"),
     upload   |-> Upload("details")]
EditChanges ==
    [save      |-> Made("edit", {"items", "files"}, {<<"equipment">>, <<"equipment-summary">>}),
     allocate2 |-> AllocateToShow("edit"),
     reallot2  |-> EditShowEquipment("edit", {EditAllocations, EditAvailability}),
     remove2   |-> Made("edit", {"items", "allocations"}, {EditAllocations, EditAvailability}),
     picture2  |-> ReferenceImage("edit"),
     upload2   |-> Upload("edit")]
NewChanges ==
    [create |-> Made("new", {"items"},
                     {<<"equipment">>, <<"equipment-summary">>, <<"equipment-types">>})]
ShowsChanges ==
    [showlist |-> Made("shows", {"shows"}, {<<"shows">>}),
     unshow   |-> Made("shows", {"shows", "allocations"}, {<<"shows">>})]
ShowChanges ==
    [showedit |-> Made("show", {"shows"}, {Show, <<"shows">>}),
     unshow2  |-> Made("show", {"shows", "allocations"}, {<<"shows">>})]

(* "checkout" is also the return and the inline edit of a status. *)
ShowItemChanges ==
    [add      |-> Made("show", {"items", "allocations"}, {ShowItems, Show}),
     quantity |-> Made("show", {"items", "allocations"}, {ShowItems}),
     checkout |-> Made("show", {"items", "allocations"}, {ShowItems, <<"equipmentAvailability">>}),
     reallot3 |-> EditShowEquipment("show", {})]

TypeChanges == [type |-> Made("settings", {"types"}, {<<"equipment-types">>, <<"equipment">>})]
CategoryChanges ==
    [category |-> Made("settings", {"categories"}, {<<"categories">>, <<"equipment">>})]
LocationChanges == [location |-> Made("settings", {"places"}, {<<"locations">>, <<"equipment">>})]
DefaultChanges == [default |-> Made("settings", {"defaults"}, {})]
UserChanges == [user |-> Made("users", {"users"}, {<<"users">>})]

BatchChanges == [batch |-> Batch]
Groups ==
    {BatchChanges, AdvancedChanges, DashboardChanges, DetailsChanges, EditChanges, NewChanges,
     ShowsChanges, ShowChanges, ShowItemChanges, TypeChanges, CategoryChanges, LocationChanges,
     DefaultChanges, UserChanges}
Changes == UNION {DOMAIN group : group \in Groups}
Change == [c \in Changes |-> (CHOOSE group \in Groups : c \in DOMAIN group)[c]]
NoWrite == [name |-> "none", done |-> FALSE]

Matches(prefix, k) == Ext!IsPrefix(prefix, k)
TellsOf == [k \in Keys |-> {c \in Changes : \E prefix \in Change[c].tells : Matches(prefix, k)}]
TouchesOf == [k \in Keys |-> {c \in Changes : Change[c].wrote \cap Reads(k) # {}}]
Tells(c) == c \in TellsOf[key]
Touches(c) == c \in TouchesOf[key]
-----------------------------------------------------------------------------
Absent == [has |-> FALSE, lacks |-> {}, invalid |-> FALSE, aged |-> FALSE,
           failed |-> FALSE, overtaken |-> FALSE]
Idle == [on |-> FALSE, lacks |-> {}, by |-> "none"]

CacheTypeOK ==
    /\ key \in Keys /\ panel \in BOOLEAN /\ open \in Pages
    /\ entry.lacks \cup fetch.lacks \cup told \subseteq Changes
    /\ fetch.by \in Pages \cup {"none"}
    /\ write.name \in Changes \cup {NoWrite.name}
    /\ writes \in 0..MaxWrites
    /\ ~entry.has => entry.lacks = {}

Reader(p) == key \in AtOnce[p] \cup Fresh5[p]
Observed == Reader(open) \/ (panel /\ key \in PanelReads)

(* A request that is under way already serves whoever asks next. *)
Fetching == fetch.on
Begun(p) == [on |-> TRUE, lacks |-> {}, by |-> p]

(* A query that is mounted fetches unless what it finds is fresh to it. *)
Stale(p) ==
    \/ ~entry.has \/ entry.invalid
    \/ key \in AtOnce[p] \/ entry.aged
Mounted(p) ==
    IF Reader(p) /\ ~Fetching /\ Stale(p)
      THEN fetch' = Begun(p) /\ entry' = [entry EXCEPT !.overtaken = FALSE]
      ELSE UNCHANGED <<fetch, entry>>

(* One page stands for all those that neither read nor change the entry. *)
PagesOf == [k \in Keys |->
    LET near == {p \in Pages : k \in AtOnce[p] \cup Fresh5[p]}
                \cup {Change[c].on : c \in TouchesOf[k] \cup TellsOf[k]}
        far == Pages \ near
    IN  near \cup (IF far = {} THEN {} ELSE {CHOOSE p \in far : TRUE})]

CacheInit ==
    /\ key \in Keys /\ open \in PagesOf[key]
    /\ panel \in BOOLEAN /\ (panel => key \in PanelReads)
    /\ entry = Absent
    /\ fetch = IF Observed THEN Begun(open) ELSE Idle
    /\ write = NoWrite /\ told = {} /\ writes = 0

Navigate(p) ==
    /\ p # open
    /\ open' = p
    /\ Mounted(p)
    /\ UNCHANGED <<key, panel, write, told, writes>>

(* An entry that nobody reads is dropped, at once or five minutes later. *)
Forget ==
    /\ ~Observed /\ ~Fetching /\ entry.has
    /\ entry' = Absent
    /\ UNCHANGED <<key, panel, open, fetch, write, told, writes>>

Age ==
    /\ entry.has /\ ~entry.aged
    /\ entry' = [entry EXCEPT !.aged = TRUE]
    /\ UNCHANGED <<key, panel, open, fetch, write, told, writes>>

(* The answer takes the place of the entry, invalidated meanwhile or not. *)
Answer ==
    /\ Fetching
    /\ fetch' = Idle
    /\ entry' = [Absent EXCEPT !.has = TRUE, !.lacks = fetch.lacks, !.overtaken = entry.overtaken]
    /\ UNCHANGED <<key, panel, open, write, told, writes>>

(* After one retry; some queries pass off the error for an empty answer *)
FetchFails ==
    /\ Fetching
    /\ fetch' = Idle
    /\ entry' = IF Swallows(fetch.by, key)
                  THEN [Absent EXCEPT !.has = TRUE, !.failed = TRUE]
                  ELSE [entry EXCEPT !.failed = TRUE]
    /\ UNCHANGED <<key, panel, open, write, told, writes>>
-----------------------------------------------------------------------------
Submit(c) ==
    /\ write = NoWrite /\ writes < MaxWrites /\ Change[c].on = open
    /\ Touches(c) \/ Tells(c)
    /\ write' = [name |-> c, done |-> FALSE]
    /\ writes' = writes + 1
    /\ told' = told \ {c}
    /\ UNCHANGED <<key, panel, open, entry, fetch>>

(* The server makes the change: what was read before lacks it.  A request  *)
(* that it answers later does not; one it has answered already may still   *)
(* be on its way.                                                          *)
Execute ==
    /\ write # NoWrite /\ ~write.done
    /\ write' = [write EXCEPT !.done = TRUE]
    /\ IF Touches(write.name)
         THEN /\ entry' = IF entry.has THEN [entry EXCEPT !.lacks = @ \cup {write.name}] ELSE entry
              /\ \/ UNCHANGED fetch
                 \/ Fetching /\ fetch' = [fetch EXCEPT !.lacks = @ \cup {write.name}]
         ELSE UNCHANGED <<entry, fetch>>
    /\ UNCHANGED <<key, panel, open, told, writes>>

(***************************************************************************)
(* invalidateQueries: an entry that is read is fetched again, in place of  *)
(* the request under way -- but not the first request for an entry, nor    *)
(* one while nobody reads it.  Such a request is overtaken: its answer may *)
(* be older than the change and will pass for fresh.                       *)
(***************************************************************************)
Refetches(c) == Tells(c) /\ Observed /\ (entry.has \/ ~Fetching)

(* The change is answered, also when its page has been left. *)
Leads(c) ==
    CASE c = "drop" /\ open = Change[c].on -> "list"
      [] c \in {"save", "create"} /\ open = Change[c].on -> "details"
      [] c = "unshow2" /\ open = Change[c].on -> "shows"
      [] OTHER -> open

Succeeds ==
    LET c == write.name
        page == Leads(c)
        again == Refetches(c) \/ (page # open /\ Reader(page) /\ ~Fetching /\ (Stale(page) \/ Tells(c)))
    IN
    /\ write.done
    /\ told' = IF Change[c].on = open THEN told \cup {c} ELSE told
    /\ write' = NoWrite
    /\ open' = page
    /\ entry' = [entry EXCEPT !.invalid = @ \/ (Tells(c) /\ entry.has),
                              !.overtaken = ~again /\ (@ \/ Fetching)]
    /\ fetch' = IF again THEN Begun(page) ELSE fetch
    /\ UNCHANGED <<key, panel, writes>>

(* Also an answer that was lost; the user sees a message. *)
Fails ==
    /\ write # NoWrite
    /\ write' = NoWrite
    /\ UNCHANGED <<key, panel, open, entry, fetch, told, writes>>

CacheNext ==
    \/ \E p \in PagesOf[key] : Navigate(p)
    \/ Forget \/ Age \/ Answer \/ FetchFails
    \/ \E c \in Changes : Submit(c)
    \/ Execute \/ Succeeds \/ Fails

CacheSpec == CacheInit /\ [][CacheNext]_cacheVars
-----------------------------------------------------------------------------
(***************************************************************************)
(* Entries that no one invalidates: the modals' keys carry a number where  *)
(* the pages' carry a text, the form does not follow what its other tabs   *)
(* change, and two queries are fresh for five minutes whatever happens.    *)
(***************************************************************************)
KnownStale(c) ==
    CASE c = "allocate" -> {Item, Availability, Allocations}
      [] c = "allocate2" -> {Item, EditAvailability, EditAllocations}
      [] c \in {"install", "picture"} -> {Availability}
      [] c \in {"reallot2", "remove2"} -> {Item}
      [] c = "picture2" -> {EditAvailability}
      [] OTHER -> {}
NeverTold == {<<"showsMissingEquipment">>, <<"default-storage-locations">>}

(* When nothing is under way, the open page shows every change that was    *)
(* answered on its page, that one or another, unless the entry is known    *)
(* to be left out, its last request failed or was overtaken.               *)
OwnChangesShown ==
    Observed /\ entry.has /\ ~Fetching /\ write = NoWrite /\ ~entry.failed /\ ~entry.overtaken =>
        \A c \in told \cap entry.lacks : key \in KnownStale(c) \cup NeverTold
=============================================================================
