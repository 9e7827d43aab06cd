------------------------ MODULE ReferenceLists_proofs ------------------------
(***************************************************************************)
(* Proofs about ReferenceLists, for any names and any collation, any       *)
(* number of entries and any number of requests served at the same time.   *)
(***************************************************************************)
EXTENDS ReferenceLists, TLAPS

-----------------------------------------------------------------------------
(***************************************************************************)
(* ItemHasPlace is not inductive: AssignSave sends the item to a location  *)
(* that was looked up before, and DeleteDestroy deletes one whose uses     *)
(* were counted before.  Between the two, whoever comes second finds the   *)
(* other one under way, and the location is in moved; so is what PUT seeks *)
(* and there is not.                                                       *)
(***************************************************************************)
MeetingsSeen == Dying(list_calls) \cap Sought(list_calls) \subseteq moved

(* What a request c may still rely on when its next statement comes. *)
StillGood(c) ==
    /\ c.pc = "store" => kind = "location"
    /\ kind = "location" /\ c.pc = "assign" => c.id \in DOMAIN entries \cup moved \cup {Null}
    /\ kind = "location" /\ c.pc = "destroy" => c.id # item \/ c.id \in moved

CallsGood == \A h \in ListHandlers : StillGood(list_calls[h])

(* Only locations are defaults for the storage of something. *)
NoStorages == kind # "location" => DOMAIN storages = {}

ListInv ==
    TypeOK /\ NamesDiffer /\ StorageExists /\ ItemHasPlace
    /\ MeetingsSeen /\ CallsGood /\ NoStorages

-----------------------------------------------------------------------------
LEMMA CallShape ==
  ASSUME NEW c \in Calls
  PROVE  /\ c.pc \in {"insert", "lookup", "save"} => c.name \in Names(kind)
         /\ c.pc \in {"lookup", "save", "count", "destroy", "store"} => c.id \in EntryIds
         /\ c.pc = "assign" => c.id \in EntryIds \cup {Null}
  <1>1. CASE c = NoCall
    BY <1>1 DEF NoCall
  <1>2. CASE c \in [pc : {"insert"}, name : Names(kind)]
    BY <1>2
  <1>3. CASE c \in [pc : {"lookup", "save"}, id : EntryIds, name : Names(kind)]
    BY <1>3
  <1>4. CASE c \in [pc : {"count", "destroy", "store"}, id : EntryIds]
    BY <1>4
  <1>5. CASE c \in [pc : {"assign"}, id : EntryIds \cup {Null}, was : EntryIds \cup {Null}]
    BY <1>5
  <1> QED
    BY <1>1, <1>2, <1>3, <1>4, <1>5 DEF Calls

LEMMA NewCalls ==
  ASSUME NEW id \in EntryIds, NEW name \in Names(kind), NEW d \in EntryIds \cup {Null},
         NEW was \in EntryIds \cup {Null}
  PROVE  /\ NoCall \in Calls
         /\ [pc |-> "insert", name |-> name] \in Calls
         /\ [pc |-> "lookup", id |-> id, name |-> name] \in Calls
         /\ [pc |-> "save", id |-> id, name |-> name] \in Calls
         /\ [pc |-> "count", id |-> id] \in Calls
         /\ [pc |-> "destroy", id |-> id] \in Calls
         /\ [pc |-> "store", id |-> id] \in Calls
         /\ [pc |-> "assign", id |-> d, was |-> was] \in Calls
  BY DEF Calls

(* The set of calls is the same all along: a behaviour keeps its list. *)
LEMMA BecomeOK ==
  ASSUME TypeOK, NEW h \in ListHandlers, NEW c \in Calls, Become(h, c), kind' = kind
  PROVE  /\ list_calls' \in [ListHandlers -> Calls']
         /\ list_calls'[h] = c
         /\ \A g \in ListHandlers \ {h} : list_calls'[g] = list_calls[g]
         /\ moved \subseteq moved' /\ moved' \subseteq EntryIds
         /\ MeetingsSeen'
         /\ c.pc = "assign" => c.id \in DOMAIN entries \cup moved' \cup {Null}
  <1>1. Calls' = Calls
    BY DEF Calls
  <1>2. /\ list_calls' \in [ListHandlers -> Calls]
        /\ list_calls'[h] = c
        /\ \A g \in ListHandlers \ {h} : list_calls'[g] = list_calls[g]
    BY DEF TypeOK, Become
  <1>3. moved' = moved \cup (Sought(list_calls') \cap (Dying(list_calls') \cup Missing))
    BY DEF Become
  <1>4. Dying(list_calls') \cup Missing \subseteq EntryIds
    BY <1>2, CallShape DEF Dying, Missing
  <1>5. MeetingsSeen'
    BY <1>3 DEF MeetingsSeen, Dying, Sought
  <1>6. ASSUME c.pc = "assign"
        PROVE  c.id \in DOMAIN entries \cup moved' \cup {Null}
    <2>1. c.id \in Sought(list_calls')
      BY <1>2, <1>6 DEF Sought
    <2> QED
      BY <1>3, <1>6, <2>1, CallShape DEF Missing
  <1> QED
    BY <1>1, <1>2, <1>3, <1>4, <1>5, <1>6 DEF TypeOK

(***************************************************************************)
(* A request goes on.  The tables stay well formed, an entry that goes is  *)
(* one whose deletion was under way, and the item goes nowhere but where   *)
(* a request was about to send it.                                         *)
(***************************************************************************)
TablesOK ==
    /\ last_entry \in 0..MaxEntries
    /\ DOMAIN entries \subseteq 1..last_entry /\ entries \in [DOMAIN entries -> Names(kind)]
    /\ DOMAIN storages \subseteq EntryIds /\ storages \in [DOMAIN storages -> EntryIds]
    /\ placed \subseteq EntryIds
    /\ item \in EntryIds \cup {Null}
    /\ NamesDiffer /\ StorageExists /\ NoStorages

GoneOnlyIfDying == DOMAIN entries \ DOMAIN entries' \subseteq Dying(list_calls)
SentWhereSought == item' = item \/ item' \in Sought(list_calls)

LEMMA RequestGoesOn ==
  ASSUME ListInv, NEW h \in ListHandlers, NEW c \in Calls, Become(h, c), kind' = kind,
         TablesOK', c.pc = "store" => kind = "location",
         kind = "location" =>
            /\ GoneOnlyIfDying /\ SentWhereSought
            /\ c.pc = "assign" => entries' = entries
            /\ c.pc = "destroy" => c.id # item'
  PROVE  ListInv'
  <1> USE DEF ListInv
  <1>0. /\ list_calls' \in [ListHandlers -> Calls']
        /\ list_calls'[h] = c
        /\ \A g \in ListHandlers \ {h} : list_calls'[g] = list_calls[g]
        /\ moved \subseteq moved' /\ moved' \subseteq EntryIds
        /\ MeetingsSeen'
        /\ c.pc = "assign" => c.id \in DOMAIN entries \cup moved' \cup {Null}
    BY BecomeOK
  <1>1. TypeOK'
    BY <1>0 DEF TypeOK, TablesOK
  <1>2. ASSUME kind = "location", NEW id \in DOMAIN entries \cup moved,
               id \notin DOMAIN entries' \cup moved'
        PROVE  \E g \in ListHandlers : list_calls[g].pc = "destroy" /\ list_calls[g].id = id
    BY <1>0, <1>2 DEF GoneOnlyIfDying, Dying
  <1>3. ASSUME kind = "location", NEW id \in Sought(list_calls)
        PROVE  id \in DOMAIN entries' \cup moved' \cup {Null}
    <2>1. id \in DOMAIN entries \cup moved \cup {Null}
      BY <1>3 DEF Sought, CallsGood, StillGood
    <2>2. id \in Dying(list_calls) => id \in moved
      BY <1>3 DEF MeetingsSeen
    <2> QED
      BY <1>0, <1>2, <1>3, <2>1, <2>2 DEF Dying
  <1>4. ItemHasPlace'
    <2> SUFFICES ASSUME kind = "location", item' # Null
                 PROVE  item' \in DOMAIN entries' \cup moved'
      BY DEF ItemHasPlace
    <2>1. CASE item' \in Sought(list_calls)
      BY <1>3, <2>1
    <2>2. CASE item' = item
      <3>1. item \in DOMAIN entries \cup moved
        BY <2>2 DEF ItemHasPlace
      <3>2. \A g \in ListHandlers :
              list_calls[g].pc = "destroy" /\ list_calls[g].id = item => item \in moved
        BY DEF CallsGood, StillGood
      <3> QED
        BY <1>0, <1>2, <2>2, <3>1, <3>2
    <2> QED
      BY <2>1, <2>2 DEF SentWhereSought
  <1>5. CallsGood'
    <2> SUFFICES ASSUME NEW g \in ListHandlers
                 PROVE  StillGood(list_calls[g])'
      BY DEF CallsGood
    <2>1. CASE g = h
      BY <1>0, <2>1 DEF StillGood
    <2>2. CASE g # h
      <3>1. list_calls'[g] = list_calls[g] /\ StillGood(list_calls[g])
        BY <1>0, <2>2 DEF CallsGood
      <3>2. ASSUME kind = "location", list_calls[g].pc = "assign"
            PROVE  list_calls[g].id \in DOMAIN entries' \cup moved' \cup {Null}
        BY <1>3, <3>2 DEF Sought
      <3>3. ASSUME kind = "location", list_calls[g].pc = "destroy"
            PROVE  list_calls[g].id # item' \/ list_calls[g].id \in moved'
        <4>1. list_calls[g].id \in Sought(list_calls) => list_calls[g].id \in moved
          BY <3>3 DEF Dying, MeetingsSeen
        <4> QED
          BY <1>0, <3>1, <3>3, <4>1 DEF StillGood, SentWhereSought
      <3> QED
        BY <3>1, <3>2, <3>3 DEF StillGood
    <2> QED
      BY <2>1, <2>2
  <1> QED
    BY <1>0, <1>1, <1>4, <1>5 DEF TablesOK

-----------------------------------------------------------------------------
LEMMA TablesSame ==
  ASSUME ListInv, Same
  PROVE  TablesOK' /\ GoneOnlyIfDying /\ SentWhereSought
  BY DEF Same, ListInv, TypeOK, TablesOK, GoneOnlyIfDying, SentWhereSought, NamesDiffer,
         StorageExists, NoStorages

LEMMA TablesNow ==
  ASSUME ListInv
  PROVE  TablesOK
  BY DEF ListInv, TypeOK, TablesOK

(* The unique key lets a new name in only if it differs from the others. *)
LEMMA EntryInserted ==
  ASSUME MaxEntries \in Nat, ListInv, NEW name \in Names(kind), InsertEntry(name)
  PROVE  TablesOK' /\ kind' = kind /\ GoneOnlyIfDying /\ SentWhereSought
  <1>1. CASE Same
    BY <1>1, TablesSame DEF Same
  <1>2. CASE /\ Unique(name, Null) /\ last_entry < MaxEntries /\ last_entry' = last_entry + 1
             /\ entries' = With(entries, last_entry', name)
             /\ UNCHANGED <<kind, storages, placed, item>>
    <2>1. /\ TablesOK
          /\ last_entry' \in 0..MaxEntries /\ last_entry' \notin DOMAIN entries
          /\ 1..last_entry \cup {last_entry'} \subseteq 1..last_entry'
      BY <1>2, TablesNow DEF TablesOK
    <2>2. /\ DOMAIN entries' = DOMAIN entries \cup {last_entry'}
          /\ entries'[last_entry'] = name
          /\ \A id \in DOMAIN entries : entries'[id] = entries[id]
          /\ entries' \in [DOMAIN entries' -> Names(kind)]
      BY <1>2, <2>1 DEF With, TablesOK
    <2>3. NamesDiffer'
      <3>1. ASSUME kind # "location", NEW id \in DOMAIN entries
            PROVE  Folded(entries[id]) # Folded(name)
        <4>1. id \in DOMAIN entries \ {Null}
          BY <2>1 DEF TablesOK, Null
        <4> QED
          BY <1>2, <3>1, <4>1 DEF Unique
      <3> QED
        BY <1>2, <2>1, <2>2, <3>1 DEF NamesDiffer, TablesOK
    <2>4. StorageExists' /\ NoStorages'
      BY <1>2, <2>1, <2>2 DEF StorageExists, NoStorages, TablesOK
    <2>5. TablesOK'
      BY <1>2, <2>1, <2>2, <2>3, <2>4 DEF TablesOK
    <2> QED
      BY <1>2, <2>2, <2>5 DEF GoneOnlyIfDying, SentWhereSought
  <1> QED
    BY <1>1, <1>2 DEF InsertEntry

LEMMA NameSaved ==
  ASSUME ListInv, NEW h \in ListHandlers, RenameSave(h)
  PROVE  TablesOK' /\ GoneOnlyIfDying /\ SentWhereSought
  <1> DEFINE c == list_calls[h]
  <1>1. /\ TablesOK /\ c.name \in Names(kind)
        /\ UNCHANGED <<kind, last_entry, storages, placed, item>>
    BY TablesNow, CallShape DEF RenameSave, At, ListInv, TypeOK
  <1>2. CASE entries' = entries
    BY <1>1, <1>2 DEF TablesOK, GoneOnlyIfDying, SentWhereSought, NamesDiffer, StorageExists,
                      NoStorages
  <1>3. CASE /\ c.id \in DOMAIN entries /\ Unique(c.name, c.id)
             /\ entries' = [entries EXCEPT ![c.id] = c.name]
    <2> HIDE DEF c
    <2>1. /\ DOMAIN entries' = DOMAIN entries /\ entries'[c.id] = c.name
          /\ \A id \in DOMAIN entries \ {c.id} : entries'[id] = entries[id]
          /\ entries' \in [DOMAIN entries' -> Names(kind)]
      BY <1>1, <1>3 DEF TablesOK
    <2>2. NamesDiffer'
      BY <1>1, <1>3, <2>1 DEF NamesDiffer, Unique, TablesOK
    <2>3. StorageExists' /\ NoStorages'
      BY <1>1, <2>1 DEF StorageExists, NoStorages, TablesOK
    <2> QED
      BY <1>1, <2>1, <2>2, <2>3 DEF TablesOK, GoneOnlyIfDying, SentWhereSought
  <1> QED
    BY <1>2, <1>3 DEF RenameSave

(* The default storage of a location goes with it; no other list has any. *)
LEMMA EntryDeleted ==
  ASSUME ListInv, NEW h \in ListHandlers, DeleteDestroy(h)
  PROVE  /\ TablesOK' /\ kind' = kind
         /\ GoneOnlyIfDying /\ (kind = "location" => SentWhereSought)
  <1> DEFINE id == list_calls[h].id
  <1>1. TablesOK /\ At(h, "destroy") /\ id \in Dying(list_calls)
    BY TablesNow DEF DeleteDestroy, At, Dying
  <1>2. CASE Same
    BY <1>2, TablesSame DEF Same
  <1>3. CASE /\ entries' = Without(entries, {id})
             /\ storages' = IF kind = "location" THEN Deleted(id) ELSE storages
             /\ item' = IF kind = "category" /\ item = id THEN Null ELSE item
             /\ UNCHANGED <<kind, last_entry, placed>>
    <2> HIDE DEF id
    <2>1. /\ DOMAIN entries' = DOMAIN entries \ {id}
          /\ \A k \in DOMAIN entries' : entries'[k] = entries[k]
          /\ entries' \in [DOMAIN entries' -> Names(kind)]
      BY <1>1, <1>3 DEF Without, TablesOK
    <2>2. /\ DOMAIN storages' \subseteq DOMAIN storages
          /\ \A s \in DOMAIN storages' : storages'[s] = storages[s]
          /\ storages' \in [DOMAIN storages' -> EntryIds]
          /\ kind = "location" => \A s \in DOMAIN storages' : storages[s] # id
      BY <1>1, <1>3 DEF Deleted, Without, TablesOK
    <2>3. NamesDiffer' /\ NoStorages'
      <3>1. NamesDiffer'
        BY <1>1, <1>3, <2>1 DEF TablesOK, NamesDiffer
      <3>2. NoStorages'
        BY <1>1, <1>3, <2>2 DEF TablesOK, NoStorages
      <3> QED
        BY <3>1, <3>2
    <2>4. StorageExists'
      BY <1>1, <1>3, <2>1, <2>2 DEF TablesOK, StorageExists, NoStorages
    <2>5. TablesOK'
      BY <1>1, <1>3, <2>1, <2>2, <2>3, <2>4 DEF TablesOK
    <2> QED
      BY <1>1, <1>3, <2>1, <2>5 DEF GoneOnlyIfDying, SentWhereSought
  <1> QED
    BY <1>2, <1>3 DEF DeleteDestroy

LEMMA StorageSaved ==
  ASSUME ListInv, NEW h \in ListHandlers, StoreSave(h)
  PROVE  TablesOK' /\ GoneOnlyIfDying /\ SentWhereSought
  <1> DEFINE id == list_calls[h].id
  <1>1. /\ TablesOK /\ id \in EntryIds /\ kind = "location"
        /\ UNCHANGED <<kind, entries, last_entry, placed, item>>
    BY TablesNow, CallShape DEF StoreSave, At, ListInv, TypeOK, CallsGood, StillGood
  <1>2. CASE UNCHANGED storages
    BY <1>1, <1>2 DEF TablesOK, GoneOnlyIfDying, SentWhereSought, NamesDiffer, StorageExists,
                      NoStorages
  <1>3. ASSUME NEW s \in EntryIds, Stored(id, s), storages' = With(storages, s, id)
        PROVE  TablesOK' /\ GoneOnlyIfDying /\ SentWhereSought
    <2> HIDE DEF id
    <2>1. /\ DOMAIN storages' = DOMAIN storages \cup {s} /\ storages'[s] = id
          /\ \A t \in DOMAIN storages \ {s} : storages'[t] = storages[t]
          /\ storages' \in [DOMAIN storages' -> EntryIds]
      BY <1>1, <1>3 DEF With, TablesOK
    <2>2. StorageExists'
      BY <1>1, <1>3, <2>1 DEF StorageExists, Stored, TablesOK
    <2> QED
      BY <1>1, <2>1, <2>2 DEF TablesOK, GoneOnlyIfDying, SentWhereSought, NamesDiffer, NoStorages
  <1> QED
    BY <1>2, <1>3 DEF StoreSave

LEMMA ItemSent ==
  ASSUME ListInv, NEW h \in ListHandlers, AssignSave(h)
  PROVE  TablesOK' /\ GoneOnlyIfDying /\ SentWhereSought
  <1>1. TablesOK /\ list_calls[h].id \in EntryIds \cup {Null}
    BY TablesNow, CallShape DEF AssignSave, At, ListInv, TypeOK
  <1>2. /\ UNCHANGED <<kind, entries, last_entry, storages, placed>>
        /\ item' = item \/ item' = list_calls[h].id
        /\ list_calls[h].pc = "assign"
    BY DEF AssignSave, At
  <1> QED
    BY <1>1, <1>2 DEF TablesOK, GoneOnlyIfDying, SentWhereSought, NamesDiffer, StorageExists,
                      NoStorages, Sought

-----------------------------------------------------------------------------
(* A request is received, and goes as far as its first await. *)
LEMMA RequestStarts ==
  ASSUME MaxEntries \in Nat, ListInv, NEW h \in ListHandlers,
         \/ \E name \in Names(kind) : CreateLocation(h, name) \/ CreateEntry(h, name)
         \/ \E id \in EntryIds, name \in Names(kind) : RenameRead(h, id, name)
         \/ \E id \in EntryIds : DeleteRead(h, id) \/ AssignRead(h, id) \/ StoreRead(h, id)
         \/ \E id \in EntryIds \cup {Null} : PutRead(h, id)
  PROVE  ListInv'
  <1>1. ASSUME NEW name \in Names(kind), CreateLocation(h, name)
        PROVE  ListInv'
    <2>1. /\ TablesOK' /\ kind' = kind /\ GoneOnlyIfDying /\ SentWhereSought
          /\ Become(h, NoCall)
      BY <1>1, EntryInserted DEF CreateLocation, Start
    <2>2. NoCall \in Calls /\ NoCall.pc = "none"
      BY DEF Calls, NoCall
    <2> QED
      BY <2>1, <2>2, RequestGoesOn
  <1>2. ASSUME NEW name \in Names(kind), CreateEntry(h, name)
        PROVE  ListInv'
    <2> DEFINE c == [pc |-> "insert", name |-> name]
    <2>1. Same /\ Become(h, c)
      BY <1>2 DEF CreateEntry, Start
    <2>2. c \in Calls /\ c.pc = "insert"
      BY DEF Calls
    <2>3. kind' = kind /\ TablesOK' /\ GoneOnlyIfDying /\ SentWhereSought
      BY <2>1, TablesSame DEF Same
    <2> HIDE DEF c
    <2> QED
      BY <2>1, <2>2, <2>3, RequestGoesOn
  <1>3. ASSUME NEW id \in EntryIds, NEW name \in Names(kind), RenameRead(h, id, name)
        PROVE  ListInv'
    <2> DEFINE c == [pc |-> IF kind = "location" THEN "save" ELSE "lookup",
                     id |-> id, name |-> name]
    <2>1. Same /\ Become(h, c)
      BY <1>3 DEF RenameRead, Start
    <2>2. c \in Calls /\ c.pc \in {"save", "lookup"}
      BY DEF Calls
    <2>3. kind' = kind /\ TablesOK' /\ GoneOnlyIfDying /\ SentWhereSought
      BY <2>1, TablesSame DEF Same
    <2> HIDE DEF c
    <2> QED
      BY <2>1, <2>2, <2>3, RequestGoesOn
  <1>4. ASSUME NEW id \in EntryIds, DeleteRead(h, id)
        PROVE  ListInv'
    <2> DEFINE c == [pc |-> IF kind = "location" THEN "count" ELSE "destroy", id |-> id]
    <2>1. Same /\ Become(h, c)
      BY <1>4 DEF DeleteRead, Start
    <2>2. c \in Calls /\ c.pc \in {"count", "destroy"} /\ (kind = "location" => c.pc = "count")
      BY DEF Calls
    <2>3. kind' = kind /\ TablesOK' /\ GoneOnlyIfDying /\ SentWhereSought
      BY <2>1, TablesSame DEF Same
    <2> HIDE DEF c
    <2> QED
      BY <2>1, <2>2, <2>3, RequestGoesOn
  <1>5. ASSUME NEW id \in EntryIds, AssignRead(h, id)
        PROVE  ListInv'
    <2> DEFINE c == [pc |-> "assign", id |-> IF id \in DOMAIN entries THEN id ELSE Null,
                     was |-> item]
    <2>1. Same /\ Become(h, c) /\ item \in EntryIds \cup {Null}
      BY <1>5 DEF AssignRead, Start, ListInv, TypeOK
    <2>2. c \in Calls /\ c.pc = "assign"
      BY <2>1 DEF Calls
    <2>3. /\ kind' = kind /\ TablesOK' /\ GoneOnlyIfDying /\ SentWhereSought
          /\ entries' = entries
      BY <2>1, TablesSame DEF Same
    <2> HIDE DEF c
    <2> QED
      BY <2>1, <2>2, <2>3, RequestGoesOn
  <1>6. ASSUME NEW id \in EntryIds, StoreRead(h, id)
        PROVE  ListInv'
    <2> DEFINE c == [pc |-> "store", id |-> id]
    <2>1. Same /\ Become(h, c) /\ kind = "location"
      BY <1>6 DEF StoreRead, Start
    <2>2. c \in Calls /\ c.pc = "store"
      BY DEF Calls
    <2>3. kind' = kind /\ TablesOK' /\ GoneOnlyIfDying /\ SentWhereSought
      BY <2>1, TablesSame DEF Same
    <2> HIDE DEF c
    <2> QED
      BY <2>1, <2>2, <2>3, RequestGoesOn
  <1>7. ASSUME NEW id \in EntryIds \cup {Null}, PutRead(h, id)
        PROVE  ListInv'
    <2>1. PICK was \in {item, Null} : Start(h, [pc |-> "assign", id |-> id, was |-> was])
      BY <1>7 DEF PutRead
    <2> DEFINE c == [pc |-> "assign", id |-> id, was |-> was]
    <2>2. Same /\ Become(h, c) /\ was \in EntryIds \cup {Null}
      BY <1>7, <2>1 DEF PutRead, Start, ListInv, TypeOK
    <2>3. c \in Calls /\ c.pc = "assign"
      BY <2>2 DEF Calls
    <2>4. /\ kind' = kind /\ TablesOK' /\ GoneOnlyIfDying /\ SentWhereSought
          /\ entries' = entries
      BY <2>2, TablesSame DEF Same
    <2> HIDE DEF c
    <2> QED
      BY <2>2, <2>3, <2>4, RequestGoesOn
  <1> QED
    BY <1>1, <1>2, <1>3, <1>4, <1>5, <1>6, <1>7

(* The last statement of a request: it answers. *)
LEMMA RequestAnswers ==
  ASSUME ListInv, NEW h \in ListHandlers, Answer(h), kind' = kind, TablesOK',
         kind = "location" => GoneOnlyIfDying /\ SentWhereSought
  PROVE  ListInv'
  <1>1. NoCall \in Calls /\ NoCall.pc = "none"
    BY DEF Calls, NoCall
  <1> QED
    BY <1>1, RequestGoesOn DEF Answer

LEMMA RequestEnds ==
  ASSUME MaxEntries \in Nat, ListInv, NEW h \in ListHandlers,
         CreateInsert(h) \/ RenameSave(h) \/ DeleteDestroy(h) \/ AssignSave(h)
         \/ StoreSave(h) \/ Fail(h)
  PROVE  ListInv'
  <1>1. CASE CreateInsert(h)
    <2>1. list_calls[h].name \in Names(kind)
      BY <1>1, CallShape DEF CreateInsert, At, ListInv, TypeOK
    <2> QED
      BY <1>1, <2>1, EntryInserted, RequestAnswers DEF CreateInsert
  <1>2. CASE RenameSave(h)
    BY <1>2, NameSaved, RequestAnswers DEF RenameSave
  <1>3. CASE DeleteDestroy(h)
    BY <1>3, EntryDeleted, RequestAnswers DEF DeleteDestroy
  <1>4. CASE AssignSave(h)
    BY <1>4, ItemSent, RequestAnswers DEF AssignSave
  <1>5. CASE StoreSave(h)
    BY <1>5, StorageSaved, RequestAnswers DEF StoreSave
  <1>6. CASE Fail(h)
    BY <1>6, TablesSame, RequestAnswers DEF Fail, Same
  <1> QED
    BY <1>1, <1>2, <1>3, <1>4, <1>5, <1>6

(* The statements in between only look something up. *)
LEMMA RequestLooks ==
  ASSUME ListInv, NEW h \in ListHandlers, RenameLookup(h) \/ DeleteCount(h)
  PROVE  ListInv'
  <1> DEFINE old == list_calls[h]
  <1>1. old \in Calls
    BY DEF ListInv, TypeOK
  <1>2. Same /\ kind' = kind /\ item' = item /\ TablesOK' /\ GoneOnlyIfDying /\ SentWhereSought
    BY TablesSame DEF RenameLookup, DeleteCount, Same
  <1>3. CASE Answer(h)
    BY <1>2, <1>3, RequestAnswers
  <1>4. CASE RenameLookup(h) /\ Become(h, [old EXCEPT !.pc = "save"])
    <2> DEFINE c == [old EXCEPT !.pc = "save"]
    <2>1. old.pc = "lookup"
      BY <1>4 DEF RenameLookup, At
    <2>2. old \in [pc : {"lookup", "save"}, id : EntryIds, name : Names(kind)]
      BY <1>1, <2>1 DEF Calls, NoCall
    <2>3. c \in Calls /\ c.pc = "save" /\ Become(h, c)
      BY <1>4, <2>2 DEF Calls
    <2> HIDE DEF c
    <2> QED
      BY <1>2, <1>4, <2>3, RequestGoesOn
  <1>5. CASE DeleteCount(h) /\ item # old.id /\ Become(h, [old EXCEPT !.pc = "destroy"])
    <2> DEFINE c == [old EXCEPT !.pc = "destroy"]
    <2>1. old.pc = "count"
      BY <1>5 DEF DeleteCount, At
    <2>2. old \in [pc : {"count", "destroy", "store"}, id : EntryIds]
      BY <1>1, <2>1 DEF Calls, NoCall
    <2>3. c \in Calls /\ c.pc = "destroy" /\ c.id = old.id /\ Become(h, c)
      BY <1>5, <2>2 DEF Calls
    <2> HIDE DEF c
    <2> QED
      BY <1>2, <1>5, <2>3, RequestGoesOn
  <1> QED
    BY <1>3, <1>4, <1>5 DEF RenameLookup, DeleteCount, Answer

(* Allocations and the deletion of a default storage are one statement. *)
LEMMA RowPlaced ==
  ASSUME ListInv, NEW id \in EntryIds, Place(id) \/ Unstore(id)
  PROVE  ListInv'
  <1>1. /\ UNCHANGED <<kind, entries, last_entry, item, list_calls, moved>>
        /\ placed' \subseteq EntryIds
        /\ DOMAIN storages' \subseteq DOMAIN storages
        /\ \A s \in DOMAIN storages' : storages'[s] = storages[s]
        /\ storages' \in [DOMAIN storages' -> EntryIds]
    BY DEF Place, Unstore, Without, ListInv, TypeOK
  <1>2. Calls' = Calls
    BY <1>1 DEF Calls
  <1>3. TypeOK'
    BY <1>1, <1>2 DEF ListInv, TypeOK
  <1>4. NamesDiffer' /\ ItemHasPlace' /\ MeetingsSeen' /\ CallsGood'
    BY <1>1 DEF ListInv, NamesDiffer, ItemHasPlace, MeetingsSeen, CallsGood, StillGood
  <1>5. StorageExists' /\ NoStorages'
    BY <1>1 DEF ListInv, StorageExists, NoStorages
  <1> QED
    BY <1>3, <1>4, <1>5 DEF ListInv

-----------------------------------------------------------------------------
LEMMA ListInit ==
  ASSUME MaxEntries \in Nat, Init
  PROVE  ListInv
  <1>1. \A h \in ListHandlers : list_calls[h] = NoCall /\ list_calls[h].pc = "none"
    BY DEF Init, NoCall
  <1>2. TypeOK
    BY DEF Init, TypeOK, Calls
  <1>3. NamesDiffer /\ StorageExists /\ ItemHasPlace /\ NoStorages
    BY DEF Init, NamesDiffer, StorageExists, ItemHasPlace, NoStorages
  <1>4. MeetingsSeen /\ CallsGood
    BY <1>1 DEF MeetingsSeen, Dying, CallsGood, StillGood
  <1> QED
    BY <1>2, <1>3, <1>4 DEF ListInv

LEMMA ListStep ==
  ASSUME MaxEntries \in Nat, ListInv, [Next]_listVars
  PROVE  ListInv'
  <1>1. CASE UNCHANGED listVars
    BY <1>1 DEF listVars, ListInv, TypeOK, Calls, NamesDiffer, StorageExists, ItemHasPlace,
                MeetingsSeen, Dying, Sought, CallsGood, StillGood, NoStorages
  <1>2. CASE Next
    BY <1>2, RequestStarts, RequestLooks, RequestEnds, RowPlaced DEF Next
  <1> QED
    BY <1>1, <1>2

(* Two categories, or two types, never get names that are the same for the *)
(* database: POST and PUT look a name up in one statement and write it in  *)
(* another, and it is the unique key that decides.                         *)
THEOREM NamesStayDifferent ==
  ASSUME MaxEntries \in Nat
  PROVE  Spec => []NamesDiffer
  <1>1. ListInv => NamesDiffer
    BY DEF ListInv
  <1> QED
    BY <1>1, ListInit, ListStep, PTL DEF Spec

(* A default storage location always names a location that exists, and no  *)
(* two name the same.                                                      *)
THEOREM StorageStays ==
  ASSUME MaxEntries \in Nat
  PROVE  Spec => []StorageExists
  <1>1. ListInv => StorageExists
    BY DEF ListInv
  <1> QED
    BY <1>1, ListInit, ListStep, PTL DEF Spec

(* The location of an item exists, unless the item was on its way there    *)
(* while the location, counted as unused, was about to be deleted, or was  *)
(* sent to an id that named none.                                          *)
THEOREM ItemKeepsPlace ==
  ASSUME MaxEntries \in Nat
  PROVE  Spec => []ItemHasPlace
  <1>1. ListInv => ItemHasPlace
    BY DEF ListInv
  <1> QED
    BY <1>1, ListInit, ListStep, PTL DEF Spec
=============================================================================
