---------------------------- MODULE ReferenceLists ----------------------------
(***************************************************************************)
(* The lists that items refer to: locations, categories and types, with    *)
(* the default storage locations, and the requests that point an item to   *)
(* an entry.  (The copy of the entry's name that an item keeps is the      *)
(* subject of EquipmentRecords.)                                           *)
(*                                                                         *)
(* The three lists never read each other, so a behaviour is about one of   *)
(* them, kind.  A step is one SQL statement with the code up to the next.  *)
(***************************************************************************)
EXTENDS Integers, FiniteSets

CONSTANTS
    Names(_),       \* names an administrator types for a list
    Folded(_),      \* what the collation of the database compares
    MaxEntries,     \* entries created in this instance
    ListHandlers    \* requests served at the same time

VARIABLES
    kind,        \* the list this behaviour is about
    entries,     \* its rows: id -> name
    last_entry,  \* ids given out so far
    storages,    \* default_storage_locations: id -> location_id
    placed,      \* locations that rows of inventory_allocation name
    item,        \* the id that the item keeps: location_id, category_id or type_id
    list_calls,  \* what the request in each slot keeps
    moved        \* ids that an item was sent to while they were being deleted, or were none

listVars == <<kind, entries, last_entry, storages, placed, item, list_calls, moved>>

Kinds == {"location", "category", "type"}
EntryIds == 1..MaxEntries
Null == 0

NoCall == [pc |-> "none"]
Calls ==
    {NoCall} \cup
    [pc : {"insert"}, name : Names(kind)] \cup
    [pc : {"lookup", "save"}, id : EntryIds, name : Names(kind)] \cup
    [pc : {"count", "destroy", "store"}, id : EntryIds] \cup
    [pc : {"assign"}, id : EntryIds \cup {Null}, was : EntryIds \cup {Null}]

TypeOK ==
    /\ kind \in Kinds
    /\ last_entry \in 0..MaxEntries
    /\ DOMAIN entries \subseteq 1..last_entry /\ entries \in [DOMAIN entries -> Names(kind)]
    /\ DOMAIN storages \subseteq EntryIds /\ storages \in [DOMAIN storages -> EntryIds]
    /\ placed \subseteq EntryIds /\ moved \subseteq EntryIds
    /\ item \in EntryIds \cup {Null}
    /\ list_calls \in [ListHandlers -> Calls]

Init ==
    /\ kind \in Kinds
    /\ entries = [id \in {} |-> id] /\ last_entry = 0
    /\ storages = [id \in {} |-> id] /\ placed = {}
    /\ item = Null
    /\ list_calls = [h \in ListHandlers |-> NoCall]
    /\ moved = {}
-----------------------------------------------------------------------------
At(h, pc) == list_calls[h].pc = pc

(* Locations between the count of their uses and their deletion, those an  *)
(* item is on its way to, and the ids that name nothing.                   *)
Dying(calls) == {calls[h].id : h \in {g \in ListHandlers : calls[g].pc = "destroy"}}
Sought(calls) == {calls[h].id : h \in {g \in ListHandlers : calls[g].pc = "assign"}}
Missing == EntryIds \ DOMAIN entries

Become(h, c) ==
    /\ list_calls' = [list_calls EXCEPT ![h] = c]
    /\ moved' = moved \cup (Sought(list_calls') \cap (Dying(list_calls') \cup Missing))
Start(h, c) == list_calls[h] = NoCall /\ Become(h, c)
Answer(h) == Become(h, NoCall)
Same == UNCHANGED <<kind, entries, last_entry, storages, placed, item>>

Without(f, gone) == [x \in DOMAIN f \ gone |-> f[x]]
With(f, x, v) == [y \in DOMAIN f \cup {x} |-> IF y = x THEN v ELSE f[y]]

(* findOne({ where: { name } }), or the one that compares LOWER(name) *)
Known(name) == \E id \in DOMAIN entries : Folded(entries[id]) = Folded(name)

(* The unique keys of equipment_categories and equipment_types *)
Unique_Off(name, id) == TRUE    \* variant: a table without the key
Unique(name, id) ==
    kind # "location" =>
        \A other \in DOMAIN entries \ {id} : Folded(entries[other]) # Folded(name)

InsertEntry(name) ==
    \/ /\ Unique(name, Null)
       /\ last_entry < MaxEntries
       /\ last_entry' = last_entry + 1
       /\ entries' = With(entries, last_entry', name)
       /\ UNCHANGED <<kind, storages, placed, item>>
    \/ ~Unique(name, Null) /\ Same

(* POST /locations inserts at once *)
CreateLocation(h, name) ==
    /\ kind = "location"
    /\ Start(h, NoCall)
    /\ InsertEntry(name)

(* POST /categories and POST /equipment-types look the name up first *)
CreateEntry(h, name) ==
    /\ kind # "location"
    /\ ~Known(name)
    /\ Start(h, [pc |-> "insert", name |-> name])
    /\ Same

CreateInsert(h) ==
    /\ At(h, "insert")
    /\ InsertEntry(list_calls[h].name)
    /\ Answer(h)

(* PUT /:id of the three lists: a name that stays is not looked up *)
RenameRead(h, id, name) ==
    /\ id \in DOMAIN entries /\ name # entries[id]
    /\ Start(h, [pc |-> IF kind = "location" THEN "save" ELSE "lookup",
                 id |-> id, name |-> name])
    /\ Same

RenameLookup(h) ==
    LET c == list_calls[h] IN
    /\ At(h, "lookup")
    /\ Become(h, IF Known(c.name) THEN NoCall ELSE [c EXCEPT !.pc = "save"])
    /\ Same

RenameSave(h) ==
    LET c == list_calls[h] IN
    /\ At(h, "save")
    /\ entries' = IF c.id \in DOMAIN entries /\ Unique(c.name, c.id)
                    THEN [entries EXCEPT ![c.id] = c.name]
                    ELSE entries
    /\ Answer(h)
    /\ UNCHANGED <<kind, last_entry, storages, placed, item>>

(* DELETE /:id.  Only locations have their uses counted, and of those only *)
(* equipment.location_id.                                                  *)
DeleteRead(h, id) ==
    /\ id \in DOMAIN entries
    /\ Start(h, [pc |-> IF kind = "location" THEN "count" ELSE "destroy", id |-> id])
    /\ Same

DeleteCount_Skipped(h) ==   \* variant: the count is not looked at
    /\ At(h, "count")
    /\ Become(h, [list_calls[h] EXCEPT !.pc = "destroy"])
    /\ Same
DeleteCount(h) ==
    /\ At(h, "count")
    /\ Become(h, IF item = list_calls[h].id THEN NoCall
                 ELSE [list_calls[h] EXCEPT !.pc = "destroy"])
    /\ Same

(* ON DELETE RESTRICT of inventory_allocation, CASCADE of the default      *)
(* storage locations, SET NULL of equipment.category_id; the columns       *)
(* location_id and type_id of equipment have no foreign key.               *)
Deleted_Restrict(id) == storages   \* variant: no ON DELETE CASCADE
Deleted(id) == Without(storages, {s \in DOMAIN storages : storages[s] = id})

DeleteDestroy(h) ==
    LET id == list_calls[h].id IN
    /\ At(h, "destroy")
    /\ \/ /\ id \in placed /\ Same
       \/ /\ id \notin placed
          /\ entries' = Without(entries, {id})
          /\ storages' = IF kind = "location" THEN Deleted(id) ELSE storages
          /\ item' = IF kind = "category" /\ item = id THEN Null ELSE item
          /\ UNCHANGED <<kind, last_entry, placed>>
    /\ Answer(h)
-----------------------------------------------------------------------------
(* PATCH /equipment/:id/location, /type and /category, and POST /equipment *)
(* of an item that is not installed, be it with its default storage: the   *)
(* entry is looked up; without one, /category clears the item's, and the   *)
(* others leave it.                                                        *)
AssignRead(h, id) ==
    /\ id \in DOMAIN entries \/ kind = "category"
    /\ Start(h, [pc |-> "assign", id |-> IF id \in DOMAIN entries THEN id ELSE Null,
                 was |-> item])
    /\ Same

(* PUT /equipment/:id, and POST /equipment of an item that is installed:   *)
(* only the type has to be found; location_id and category_id are written  *)
(* as they were sent.  An id that a form sends is a string and differs     *)
(* from any number that was read, so it is written in any case.            *)
PutRead(h, id) ==
    /\ kind = "type" => id \notin Missing
    /\ \E was \in {item, Null} :
          /\ id = Null => was = item
          /\ Start(h, [pc |-> "assign", id |-> id, was |-> was])
    /\ Same

(* update() writes the columns that differ from what was read; only        *)
(* category_id has a foreign key.                                          *)
AssignSave(h) ==
    LET c == list_calls[h]
        refused == kind = "category" /\ c.id # Null /\ c.id \notin DOMAIN entries
    IN
    /\ At(h, "assign")
    /\ item' = IF refused \/ c.id = c.was THEN item ELSE c.id
    /\ Answer(h)
    /\ UNCHANGED <<kind, entries, last_entry, storages, placed>>

(* allocateEquipment inserts a row that names an existing location *)
Place(id) ==
    /\ kind = "location" /\ id \in DOMAIN entries
    /\ placed' = placed \cup {id}
    /\ UNCHANGED <<kind, entries, last_entry, storages, item, list_calls, moved>>

(* POST and PUT /default-storage-locations: the location and its present   *)
(* use are looked up; the row is refused by the unique key or by the       *)
(* foreign key.                                                            *)
Stored_NoKey(id, s) == id \in DOMAIN entries   \* variant: without the unique key
Stored(id, s) == id \in DOMAIN entries /\ \A t \in DOMAIN storages \ {s} : storages[t] # id

StoreRead(h, id) ==
    /\ kind = "location" /\ id \in DOMAIN entries
    /\ \A s \in DOMAIN storages : storages[s] # id
    /\ Start(h, [pc |-> "store", id |-> id])
    /\ Same

StoreSave(h) ==
    LET id == list_calls[h].id IN
    /\ At(h, "store")
    /\ \/ \E s \in EntryIds :      \* a new row, or one that had another location
             /\ Stored(id, s)
             /\ storages' = With(storages, s, id)
       \/ ~Stored(id, Null) /\ UNCHANGED storages
    /\ Answer(h)
    /\ UNCHANGED <<kind, entries, last_entry, placed, item>>

Unstore(s) ==
    /\ s \in DOMAIN storages
    /\ storages' = Without(storages, {s})
    /\ UNCHANGED <<kind, entries, last_entry, placed, item, list_calls, moved>>

Fail(h) == list_calls[h] # NoCall /\ Answer(h) /\ Same

Next ==
    \/ \E h \in ListHandlers, name \in Names(kind) : CreateLocation(h, name)
    \/ \E h \in ListHandlers, name \in Names(kind) : CreateEntry(h, name)
    \/ \E h \in ListHandlers, id \in EntryIds, name \in Names(kind) : RenameRead(h, id, name)
    \/ \E h \in ListHandlers, id \in EntryIds :
          DeleteRead(h, id) \/ AssignRead(h, id) \/ StoreRead(h, id)
    \/ \E h \in ListHandlers, id \in EntryIds \cup {Null} : PutRead(h, id)
    \/ \E h \in ListHandlers :
          \/ CreateInsert(h) \/ RenameLookup(h) \/ RenameSave(h)
          \/ DeleteCount(h) \/ DeleteDestroy(h)
          \/ AssignSave(h) \/ StoreSave(h) \/ Fail(h)
    \/ \E id \in EntryIds : Place(id) \/ Unstore(id)

Spec == Init /\ [][Next]_listVars
-----------------------------------------------------------------------------
(* No two categories and no two types have names that the database takes   *)
(* for the same, although POST and PUT look the name up in one statement   *)
(* and write it in another.                                                *)
NamesDiffer ==
    kind # "location" =>
        \A i, j \in DOMAIN entries : i # j => Folded(entries[i]) # Folded(entries[j])

(* A default storage location names a location that exists, and no two     *)
(* name the same, whatever is created and deleted at the same time.        *)
StorageExists ==
    \A s, t \in DOMAIN storages :
        storages[s] \in DOMAIN entries /\ (s # t => storages[s] # storages[t])

(* The location of an item exists, unless the item was on its way there    *)
(* when the location, counted as unused, was about to be deleted, or was   *)
(* sent to an id that named none.                                          *)
ItemHasPlace ==
    kind = "location" /\ item # Null => item \in DOMAIN entries \cup moved
=============================================================================
