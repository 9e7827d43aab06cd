----------------------------- MODULE EquipmentParts -----------------------------
(***************************************************************************)
(* The row of an item and the pages that edit it; the connections of the   *)
(* server, two of which one request on an item may need; the start of the  *)
(* server, which makes their tables; and the pages that list items, side   *)
(* by side as in Server: a behaviour is one of one part, chosen at the     *)
(* start, and the variables of the other parts are Off throughout.  The    *)
(* two parts about the row have its variables and constants in common.     *)
(***************************************************************************)
EXTENDS Integers, FiniteSets

CONSTANTS
    MaxUnits, PlaceNames, FreeTexts, InstallationTypes, Sites,     \* EquipmentRecords and -Forms
    Renames, RecordHandlers, Serves(_, _),
    MaxEdits, Typed, Choices,                                      \* EquipmentForms
    MaxConnections, PoolCalls,                                     \* ConnectionPool
    Plans,                                                         \* Migrations
    Items, Values, PageSize, FilterFields, MaxBatches              \* EquipmentLists

VARIABLES part,
    record, record_calls, names, missed,
    page, form, shown, edits, fetched, preset, choice, sent, asked,
    free, pool_calls, lost,
    plan, schema, queue, todo, server, cut_short, reported,
    table, requests, touched, replaced, view, filters, searched, listed, selected, select_all, picked,
    dialogue, typed, sending, message, closing, batches, loading, asking, original, trapped,
    copying, posting, left_behind, astray

recordVars == <<record, record_calls, names, missed>>
formVars == <<page, form, shown, edits, fetched, preset, choice, sent, asked>>
poolVars == <<free, pool_calls, lost>>
migrationVars == <<plan, schema, queue, todo, server, cut_short, reported>>
listVars == <<table, requests, touched, replaced, view, filters, searched, listed, selected,
              select_all, picked, dialogue, typed, sending, message, closing, batches, loading,
              asking, original, trapped, copying, posting, left_behind, astray>>
vars == <<part, recordVars, formVars, poolVars, migrationVars, listVars>>
-----------------------------------------------------------------------------
(* EquipmentForms extends EquipmentRecords: the row is the same in both    *)
(* parts, of which one runs.                                               *)
Item == INSTANCE EquipmentForms
Pool == INSTANCE ConnectionPool
Starts == INSTANCE Migrations
Lists == INSTANCE EquipmentLists
-----------------------------------------------------------------------------
(* Ids of locations are not null, items are installed at locations, a new  *)
(* name is one of the texts, what "Allocate" can be set to names one, and  *)
(* a plan is one of Migrations.                                            *)
ASSUME EquipmentAssumption ==
    /\ MaxUnits \in Nat \ {0}
    /\ Item!Null \notin Item!Places /\ Sites \subseteq Item!Places
    /\ PlaceNames \in [Item!Places -> Item!Texts]
    /\ Renames \subseteq [id : Item!Places, name : Item!Texts \ {""}]
    /\ {"portable", "fixed"} \subseteq InstallationTypes
    /\ Item!StorageChoice \in Choices
    /\ \A c \in Choices :
          /\ c.kind \in {"storage", "show", "location", "installation"}
          /\ c.kind = "location" => c.place \in Item!Places
          /\ c.kind = "installation" => c.place \in Sites
    /\ MaxConnections \in Nat /\ IsFiniteSet(PoolCalls)
    /\ Plans \subseteq DOMAIN Starts!Plan
    /\ Values # {} /\ MaxBatches \in Nat
-----------------------------------------------------------------------------
Off == "off"
RecordsOff == record = Off /\ record_calls = Off /\ names = Off /\ missed = Off
FormsOff == /\ page = Off /\ form = Off /\ shown = Off /\ edits = Off /\ fetched = Off
            /\ preset = Off /\ choice = Off /\ sent = Off /\ asked = Off
PoolOff == free = Off /\ pool_calls = Off /\ lost = Off
StartsOff == /\ plan = Off /\ schema = Off /\ queue = Off /\ todo = Off /\ server = Off
             /\ cut_short = Off /\ reported = Off
ListsOff == /\ table = Off /\ requests = Off /\ touched = Off /\ replaced = Off /\ view = Off
            /\ filters = Off /\ searched = Off /\ listed = Off /\ selected = Off
            /\ select_all = Off /\ picked = Off /\ dialogue = Off /\ typed = Off /\ sending = Off
            /\ message = Off /\ closing = Off /\ batches = Off /\ loading = Off /\ asking = Off
            /\ original = Off /\ trapped = Off /\ copying = Off /\ posting = Off
            /\ left_behind = Off /\ astray = Off

Chosen(name) == part = name
Init ==
    /\ part \in {"records", "forms", "pool", "starts", "lists"}
    /\ CASE Chosen("records") -> Item!Init /\ FormsOff
         [] Chosen("forms") -> Item!FormsInit
         [] OTHER -> RecordsOff /\ FormsOff
    /\ IF Chosen("pool") THEN Pool!Init ELSE PoolOff
    /\ IF Chosen("starts") THEN Starts!Init ELSE StartsOff
    /\ IF Chosen("lists") THEN Lists!ListsInit ELSE ListsOff

Next ==
    /\ UNCHANGED part
    /\ \/ /\ Chosen("records") /\ Item!Next
          /\ UNCHANGED <<formVars, poolVars, migrationVars, listVars>>
       \/ /\ Chosen("forms") /\ Item!FormsNext
          /\ UNCHANGED <<poolVars, migrationVars, listVars>>
       \/ /\ Chosen("pool") /\ Pool!Next
          /\ UNCHANGED <<recordVars, formVars, migrationVars, listVars>>
       \/ /\ Chosen("starts") /\ Starts!Next
          /\ UNCHANGED <<recordVars, formVars, poolVars, listVars>>
       \/ /\ Chosen("lists") /\ Lists!ListsNext
          /\ UNCHANGED <<recordVars, formVars, poolVars, migrationVars>>

(* The fairness of ConnectionPool, while it is the part that runs *)
Fairness == \A h \in PoolCalls :
    /\ WF_poolVars(Chosen("pool") /\ Pool!Serve(h))
    /\ WF_poolVars(Chosen("pool") /\ Pool!Step(h))

Spec == Init /\ [][Next]_vars /\ Fairness
-----------------------------------------------------------------------------
(* The type invariant of every part                                       *)
TypesOK ==
    /\ Chosen("records") => Item!TypeOK
    /\ Chosen("forms") => Item!FormsTypeOK
    /\ Chosen("pool") => Pool!PoolTypeOK
    /\ Chosen("starts") => Starts!MigrationTypeOK
    /\ Chosen("lists") => Lists!ListsTypeOK

(* Saving an item once more, unchanged, would change neither its place nor *)
(* its status: the hooks of models/Equipment.js and the handlers of        *)
(* routes/equipment.js agree, and a status written by a show or a name     *)
(* changed since (routes/showEquipment.js, routes/locations.js) is taken   *)
(* up by the first request that reads the row and saves it, unless two     *)
(* requests wrote columns from the same row.                               *)
Settled == Chosen("records") => Item!Settled

(* What the user chose under "Allocate" on the new-item page is what the   *)
(* item is created with, whatever was typed before or after, except that   *)
(* an item in Lager is available (NewEquipmentModern.jsx, POST             *)
(* /equipment).                                                            *)
CreatedAsChosen == [][Chosen("forms") => Item!CreatesAsChosen]_vars

(* Saving an edit form in which nothing was typed since it was filled,     *)
(* from a row that nobody has changed meanwhile, changes no column but the *)
(* derived status (EditEquipmentModern.jsx, PUT /equipment/:id).           *)
UntouchedSave == [][Chosen("forms") => Item!SavesUntouched]_vars

(* No path through a handler forgets its connection but one: a connection  *)
(* is free, with a request that will give it back, or was lost when        *)
(* routes/files.js refused an upload for the role of its user.             *)
ConnectionsAccounted == Chosen("pool") => Pool!ConnectionsAccounted

(* A migration script that says it has succeeded has made all that it is   *)
(* there for, unless it once stopped half way and takes the first object   *)
(* it makes for the whole, or is one of a pair of scripts that undo each   *)
(* other or look for the same column.                                      *)
ReportedComplete == Chosen("starts") => Starts!ReportedComplete

(* What the pages that list items say is so: when a dialogue reports an    *)
(* update of several items (BatchStatusUpdateModal.jsx and its like), the  *)
(* server has written each of them, with the value sent but where a hook   *)
(* or a lookup replaced it (models/Equipment.js, PATCH                     *)
(* /equipment/:id/status and its like); the item copied is the one         *)
(* picked, although the dialogue keeps what it read about an earlier one,  *)
(* unless a dialogue was cancelled while its copy was being made           *)
(* (DuplicateEquipmentModal.jsx); Dashboard.jsx shows a list when a filter *)
(* is set.                                                                 *)
ListsHonest == Chosen("lists") => Lists!ListsHonest

Waiting(h) == Chosen("pool") /\ Pool!Busy(h)

(* Every request ends, with an answer or with the process: requests that   *)
(* hold the connection of a transaction and all wait for a second one, as  *)
(* in POST /equipment/:id/allocations, are freed by the timers of the pool *)
(* (server/config/database.js).                                            *)
Answered == \A h \in PoolCalls : Waiting(h) ~> ~Waiting(h)
=============================================================================
