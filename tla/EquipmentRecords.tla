--------------------------- MODULE EquipmentRecords ---------------------------
(***************************************************************************)
(* The row of one item and the handlers of routes/equipment.js that write  *)
(* it, with the hooks of models/Equipment.js.  Every handler reads the row *)
(* in one statement, computes, and saves the columns that now differ from  *)
(* what it read in another; the hook works on the row as it was read.      *)
(*                                                                         *)
(* The columns are those that decide where the item is and whether it is   *)
(* free.  A lookup of a location's name is part of the step that needs it. *)
(* One that fails is noted in the log and passed over, by the handlers and *)
(* by the hook, each on its own.                                           *)
(*                                                                         *)
(* Two writers pass the hook by: a show takes or returns the item with a   *)
(* plain UPDATE of its status, and the name of a location changes without  *)
(* the rows that have a copy of it.                                        *)
(***************************************************************************)
EXTENDS Integers, FiniteSets

CONSTANTS
    MaxUnits,          \* units of the item at most
    PlaceNames,        \* the names of the locations at first: a function on their ids
    FreeTexts,         \* places typed by hand
    InstallationTypes, \* of portable, semi-permanent and fixed
    Sites,             \* locations that items are installed at
    Renames,           \* the changes of a location's name in this instance
    RecordHandlers,    \* requests served at the same time
    Serves(_, _)       \* which handlers run in which slot in this instance

VARIABLES
    record,        \* the row of the item, or NoRecord before POST
    record_calls,  \* the columns that the request in each slot will write
    names,         \* what the locations are called now
    missed         \* what the hook has missed, see below

besideRecord == <<record_calls, names, missed>>
recordVars == <<record, besideRecord>>

Null == 0
Lager == "Lager"
Places == DOMAIN PlaceNames
Texts == FreeTexts \cup {PlaceNames[id] : id \in Places} \cup {""}
KeptStatuses == {"maintenance", "broken"}    \* and unavailable, treated as broken is
Statuses == {"available", "in-use"} \cup KeptStatuses

Record == [quantity : 1..MaxUnits,
           status : Statuses,
           location_id : Places \cup {Null},
           location : Texts,
           installation_type : InstallationTypes,
           installation_location_id : Sites \cup {Null},
           installation_location : Texts,
           installation_quantity : 0..MaxUnits]
NoRecord == [quantity |-> 0]
Columns == {"quantity", "status", "location_id", "location", "installation_type",
            "installation_location_id", "installation_location", "installation_quantity"}

(* Of the row: nothing; a write, or a new name; as before, but a request   *)
(* has read the row since; for good, a row that another request was to     *)
(* write when it was read.                                                 *)
Missed == {"nothing", "written", "read", "overlapped"}

Exists == record # NoRecord
NoCall == [c \in {} |-> c]
Reading == [read |-> TRUE]      \* a request that found nothing to change

TypeOK ==
    /\ record \in Record \cup {NoRecord}
    /\ \A h \in RecordHandlers :
          record_calls[h] = Reading \/ DOMAIN record_calls[h] \subseteq Columns
    /\ names \in [Places -> Texts]
    /\ missed \in Missed

Init ==
    /\ record = NoRecord
    /\ record_calls = [h \in RecordHandlers |-> NoCall]
    /\ names = PlaceNames /\ missed = "nothing"
-----------------------------------------------------------------------------
(***************************************************************************)
(* beforeCreate and beforeUpdate: a listed location gives the item its     *)
(* text; a fixed installation is in use where it is installed; anything    *)
(* else in Lager is available.  Statuses of repair are kept.  The lookup   *)
(* of the name of an installation's location names `Location` out of its   *)
(* scope, so the text of the installation stays as it is.  `found` are the *)
(* names that the lookup finds.                                            *)
(***************************************************************************)
FixedInstallation(r) == r.installation_type = "fixed" /\ r.installation_quantity > 0

Hook(r, found) ==
    LET place == IF r.location_id \in DOMAIN found THEN found[r.location_id] ELSE r.location IN
    [r EXCEPT
          !.location = IF FixedInstallation(r) /\ r.installation_location # ""
                         THEN r.installation_location ELSE place,
          !.status = IF r.status \in KeptStatuses THEN r.status
                     ELSE IF FixedInstallation(r) THEN "in-use"
                     ELSE IF place = Lager THEN "available"
                     ELSE r.status]

(* What lookups of some ids may find *)
Lookups(ids) == {[id \in found |-> names[id]] : found \in SUBSET (ids \cap Places)}

(* update() of Sequelize: the columns whose value after the hook differs   *)
(* from the value that was read.                                           *)
Changes_NoHook(old, new, found) ==   \* variant: columns the hook changed are not saved
    [c \in {d \in Columns : new[d] # old[d]} |-> Hook(new, found)[c]]
Changes(old, new, found) ==
    [c \in {d \in Columns : Hook(new, found)[d] # old[d]} |-> Hook(new, found)[c]]

Merged(r, columns) ==
    [c \in Columns |-> IF c \in DOMAIN columns THEN columns[c] ELSE r[c]]

(* The hook has its part of a row, unless it looks for a name in vain. *)
Hooked(new, found) == new.location_id \in DOMAIN found \cup {Null}

Overlapping == \E g \in RecordHandlers : record_calls[g] # NoCall

Update(h, new) ==
    \E found \in Lookups({new.location_id}) :
        LET columns == Changes(record, new, found) IN
        /\ record_calls[h] = NoCall
        /\ record_calls' = [record_calls EXCEPT ![h] = IF columns = NoCall THEN Reading ELSE columns]
        /\ missed' = CASE Overlapping -> "overlapped"
                       [] ~Overlapping /\ ~Hooked(new, found) -> "written"
                       [] OTHER -> IF missed = "written" THEN "read" ELSE missed
        /\ UNCHANGED <<record, names>>

Save(h) ==
    /\ record_calls[h] # NoCall
    /\ record' = IF record_calls[h] = Reading THEN record ELSE Merged(record, record_calls[h])
    /\ record_calls' = [record_calls EXCEPT ![h] = NoCall]
    /\ missed' = IF missed = "read" THEN "nothing" ELSE missed
    /\ UNCHANGED names

(* 500: nothing is written. *)
SaveFails(h) ==
    /\ record_calls[h] # NoCall
    /\ record_calls' = [record_calls EXCEPT ![h] = NoCall]
    /\ missed' = IF missed = "read" THEN "written" ELSE missed
    /\ UNCHANGED <<record, names>>
-----------------------------------------------------------------------------
(* A body is a function on the fields that the client sends. *)
Given(body, field, otherwise) ==
    IF field \in DOMAIN body THEN body[field] ELSE otherwise

(* The status that PUT /:id and PATCH /:id/location derive from a place    *)
StatusAt(place, status) ==
    IF place = Lager THEN "available"
    ELSE IF status = "maintenance" THEN status ELSE "in-use"

(***************************************************************************)
(* POST /: the current location is where the item is installed, else the   *)
(* listed location, else the text, else the first active default storage,  *)
(* if there is one.  `seen` are the names that the handler finds.          *)
(***************************************************************************)
Created(body, storage, seen) ==
    LET type == Given(body, "installation_type", "portable")
        installed_id == Given(body, "installation_location_id", Null)
        installed_text == Given(body, "installation_location", "")
        location_id == Given(body, "location_id", Null)
        text == Given(body, "location", "")
        is_installed == /\ type # "portable"
                        /\ \/ installed_id \in DOMAIN seen
                           \/ installed_id = Null /\ installed_text # ""
        listed_id == IF location_id # Null THEN location_id
                     ELSE IF text # "" THEN Null ELSE storage
        current_id == IF listed_id \in DOMAIN seen THEN listed_id ELSE Null
        current == IF is_installed
                     THEN IF installed_id # Null THEN seen[installed_id] ELSE installed_text
                     ELSE IF current_id # Null THEN seen[current_id] ELSE text
    IN [quantity |-> Given(body, "quantity", 1),
        status |-> IF type # "portable" THEN "in-use" ELSE Given(body, "status", "available"),
        location_id |-> IF is_installed THEN location_id ELSE current_id,
        location |-> IF current # "" THEN current ELSE text,
        installation_type |-> type,
        installation_location_id |-> installed_id,
        installation_location |-> installed_text,
        installation_quantity |-> Given(body, "installation_quantity", 0)]

Post(body, storage) ==
    /\ ~Exists
    /\ \E seen \in Lookups(Places) :
          LET new == Created(body, storage, seen) IN
          \E found \in Lookups({new.location_id}) :
              /\ record' = Hook(new, found)
              /\ missed' = IF Hooked(new, found) THEN "nothing" ELSE "written"
    /\ UNCHANGED <<record_calls, names>>

(***************************************************************************)
(* PUT /:id.  location_id and location are handled together.               *)
(***************************************************************************)
PutRow(r, body, seen) ==
    LET status == Given(body, "status", r.status)
        id == Given(body, "location_id", r.location_id)
        text == Given(body, "location", r.location)
        listed == "location_id" \in DOMAIN body /\ id \in DOMAIN seen
        cleared == "location_id" \in DOMAIN body /\ id = Null
        place == IF listed THEN seen[id] ELSE IF cleared THEN Given(body, "location", "") ELSE text
    IN [quantity |-> Given(body, "quantity", 1),
        status |-> IF listed \/ (cleared /\ place # "") THEN StatusAt(place, status) ELSE status,
        location_id |-> id,
        location |-> place,
        installation_type |-> Given(body, "installation_type", r.installation_type),
        installation_location_id |->
            Given(body, "installation_location_id", r.installation_location_id),
        installation_location |-> Given(body, "installation_location", r.installation_location),
        installation_quantity |-> Given(body, "installation_quantity", r.installation_quantity)]

Put(h, body) ==
    \E seen \in Lookups({Given(body, "location_id", Null)}) : Update(h, PutRow(record, body, seen))

(* PATCH /:id/status: the hook may put another status in its place *)
PatchStatus(h, status) == Exists /\ Update(h, [record EXCEPT !.status = status])

(* PATCH /:id/location, with the id of a location or a text.  An id that   *)
(* is not found leaves the row as it is.                                   *)
PatchLocationId(h, id) ==
    /\ Exists
    /\ \E seen \in Lookups({id}) :
          Update(h, IF id \in DOMAIN seen
                      THEN [record EXCEPT !.location_id = id,
                                          !.location = seen[id],
                                          !.status = StatusAt(seen[id], record.status)]
                      ELSE record)

PatchLocationText(h, text) ==
    /\ Exists
    /\ Update(h, [record EXCEPT !.location_id = Null,
                                !.location = text,
                                !.status = StatusAt(text, record.status)])

(* PATCH of type, category, brand and model, and of other columns: the     *)
(* hook runs all the same.                                                 *)
PatchOther(h) == Exists /\ Update(h, record)

(* PUT /:id/installation: refused with more units than there are, without  *)
(* a place unless portable, and, as the column is NOT NULL, without units. *)
Installable(type, id, text, units) ==
    /\ units \in 1..record.quantity
    /\ type # "portable" => id # Null \/ text # ""

PutInstallation(h, type, id, text, units) ==
    /\ Exists
    /\ Installable(type, id, text, units)
    /\ Update(h, [record EXCEPT !.installation_type = type,
                                !.installation_location_id = id,
                                !.installation_location = text,
                                !.installation_quantity = units])

(* DELETE /:id/installation: some of the units, or all of them *)
ReturnInstallation(h, units) ==
    /\ Exists
    /\ record.installation_type # "portable"
    /\ units \in 1..record.installation_quantity \cup {record.installation_quantity}
    /\ Update(h, IF units = record.installation_quantity
                   THEN [record EXCEPT !.installation_type = "portable",
                                       !.installation_location_id = Null,
                                       !.installation_location = "",
                                       !.installation_quantity = 0,
                                       !.status = "available"]
                   ELSE [record EXCEPT !.installation_quantity = @ - units])

(* Once requests have overlapped, they are only finished. *)
Bound == missed # "overlapped"

(* Checkout and return of the item at a show, and PUT /locations/:id, which *)
(* keeps the name when none is sent *)
ShowWrites(status) ==
    /\ Exists /\ Bound
    /\ record' = [record EXCEPT !.status = status]
    /\ missed' = "written"
    /\ UNCHANGED <<record_calls, names>>

Rename(id, name) ==
    /\ Exists /\ Bound
    /\ names' = [names EXCEPT ![id] = name]
    /\ missed' = "written"
    /\ UNCHANGED <<record, record_calls>>
-----------------------------------------------------------------------------
PostBodies ==
    [quantity : {MaxUnits}, status : Statuses, location_id : Places \cup {Null},
     location : {""} \cup FreeTexts,
     installation_type : InstallationTypes, installation_location_id : Sites \cup {Null},
     installation_quantity : 0..MaxUnits]

(* The edit form sends the row it was filled from with a field or two      *)
(* changed, places that are null left out; the dialogue for the picture    *)
(* sends none of these.  EquipmentForms has forms that are older.          *)
Sent(r) == [c \in Columns \ {d \in {"location_id", "installation_location_id"} : r[d] = Null} |-> r[c]]
PutBodies ==
    LET form == [record EXCEPT !.installation_location_id = Null]
    IN {NoCall}
       \cup {Sent([form EXCEPT !.status = status]) : status \in Statuses}
       \cup {Sent([form EXCEPT !.location_id = id]) : id \in Places}
       \cup {Sent([form EXCEPT !.location_id = Null, !.location = text]) : text \in FreeTexts}
       \cup {Sent([form EXCEPT !.installation_type = type]) : type \in InstallationTypes}

(* A request about the item arrives. *)
Arrive(h) ==
    /\ Exists /\ Bound /\ record_calls[h] = NoCall
    /\ \/ Serves(h, "put") /\ \E body \in PutBodies : Put(h, body)
       \/ Serves(h, "status") /\ \E status \in Statuses : PatchStatus(h, status)
       \/ Serves(h, "location") /\ \E id \in Places : PatchLocationId(h, id)
       \/ Serves(h, "text") /\ \E text \in FreeTexts : PatchLocationText(h, text)
       \/ Serves(h, "other") /\ PatchOther(h)
       \/ /\ Serves(h, "install")
          /\ \E type \in InstallationTypes, id \in Sites \cup {Null},
                text \in {""} \cup FreeTexts, units \in 0..MaxUnits :
                   PutInstallation(h, type, id, text, units)
       \/ Serves(h, "uninstall") /\ \E units \in 0..MaxUnits : ReturnInstallation(h, units)

Next ==
    \/ ~Exists /\ \E body \in PostBodies, storage \in Places \cup {Null} : Post(body, storage)
    \/ \E h \in RecordHandlers : Arrive(h) \/ Save(h) \/ SaveFails(h)
    \/ \E status \in {"available", "in-use"} : ShowWrites(status)
    \/ \E change \in Renames : Rename(change.id, change.name)

Spec == Init /\ [][Next]_recordVars
-----------------------------------------------------------------------------
(* The item is where its columns say: saving it once more, unchanged,      *)
(* would change neither its place nor its status, as soon as one request   *)
(* has read and saved it since it was last written past the hook, or the   *)
(* name of a location was changed or not found, unless two requests have   *)
(* written columns from the same row.                                      *)
Settled ==
    Exists /\ missed = "nothing" => Hook(record, names) = record

=============================================================================
