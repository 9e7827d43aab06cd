--------------------------- MODULE Equipment_proofs ---------------------------
(***************************************************************************)
(* Proofs about EquipmentParts: one inductive invariant for each part, and *)
(* what follows from it for every behaviour of Spec.                       *)
(***************************************************************************)
EXTENDS EquipmentParts, Sequences, FiniteSetTheorems, SequenceTheorems, TLAPS
-----------------------------------------------------------------------------
(***************************************************************************)
(* The row                                                                 *)
(***************************************************************************)
(* The constants *)
LEMMA RecAssumption ==
  /\ MaxUnits \in Nat \ {0}
  /\ 0 \notin DOMAIN PlaceNames
  /\ 0 \notin Sites /\ Sites \subseteq DOMAIN PlaceNames
  /\ "portable" \in InstallationTypes /\ "fixed" \in InstallationTypes
  BY EquipmentAssumption DEF Item!Null, Item!Places

LEMMA Cols ==
  ASSUME NEW r \in Item!Record
  PROVE  DOMAIN r = Item!Columns
  BY DEF Item!Record, Item!Columns

LEMMA RecAt ==
  ASSUME NEW r \in Item!Record, NEW s \in Item!Record, \A c \in Item!Columns : r[c] = s[c]
  PROVE  r = s
  BY DEF Item!Record, Item!Columns

LEMMA MergedType ==
  ASSUME NEW r \in Item!Record, NEW s \in Item!Record, NEW D \in SUBSET Item!Columns
  PROVE  Item!Merged(r, [c \in D |-> s[c]]) \in Item!Record
  BY DEF Item!Record, Item!Columns, Item!Merged


(* The columns of a row *)
LEMMA RecordFields ==
  ASSUME NEW r \in Item!Record
  PROVE  /\ r.quantity \in 1..MaxUnits /\ r.status \in Item!Statuses
         /\ r.location_id \in Item!Places \cup {Item!Null} /\ r.location \in Item!Texts
         /\ r.installation_type \in InstallationTypes
         /\ r.installation_location_id \in Sites \cup {Item!Null}
         /\ r.installation_location \in Item!Texts
         /\ r.installation_quantity \in 0..MaxUnits
  BY DEF Item!Record

(* What a lookup of names finds *)
Named(found) ==
    /\ DOMAIN found \subseteq Item!Places
    /\ \A id \in DOMAIN found : found[id] \in Item!Texts

LEMMA PlacesNamed == Named(PlaceNames)
  BY DEF Named, Item!Texts, Item!Places

PlaceOf(r, found) == IF r.location_id \in DOMAIN found THEN found[r.location_id] ELSE r.location

LEMMA PlaceOfType ==
  ASSUME NEW r \in Item!Record, NEW found, Named(found)
  PROVE  PlaceOf(r, found) \in Item!Texts
  BY RecordFields DEF PlaceOf, Named

LEMMA HookFields ==
  ASSUME NEW r \in Item!Record, NEW found, Named(found)
  PROVE  /\ Item!Hook(r, found) \in Item!Record
         /\ Item!Hook(r, found).location =
              IF Item!FixedInstallation(r) /\ r.installation_location # ""
                THEN r.installation_location ELSE PlaceOf(r, found)
         /\ Item!Hook(r, found).status =
              IF r.status \in Item!KeptStatuses THEN r.status
              ELSE IF Item!FixedInstallation(r) THEN "in-use"
              ELSE IF PlaceOf(r, found) = Item!Lager THEN "available" ELSE r.status
         /\ \A c \in Item!Columns \ {"location", "status"} : Item!Hook(r, found)[c] = r[c]
  <1> DEFINE l == IF Item!FixedInstallation(r) /\ r.installation_location # ""
                    THEN r.installation_location ELSE PlaceOf(r, found)
             t == IF r.status \in Item!KeptStatuses THEN r.status
                  ELSE IF Item!FixedInstallation(r) THEN "in-use"
                  ELSE IF PlaceOf(r, found) = Item!Lager THEN "available" ELSE r.status
  <1>1. l \in Item!Texts
    BY RecordFields, PlaceOfType
  <1>2. t \in Item!Statuses
    BY RecordFields DEF Item!Statuses
  <1>3. Item!Hook(r, found) = [r EXCEPT !.location = l, !.status = t]
    BY DEF Item!Hook, PlaceOf
  <1> HIDE DEF l, t
  <1>4. /\ [r EXCEPT !.location = l, !.status = t] \in Item!Record
        /\ [r EXCEPT !.location = l, !.status = t].location = l
        /\ [r EXCEPT !.location = l, !.status = t].status = t
        /\ \A c \in Item!Columns \ {"location", "status"} : [r EXCEPT !.location = l, !.status = t][c] = r[c]
    BY <1>1, <1>2 DEF Item!Record, Item!Columns
  <1> QED
    BY <1>3, <1>4 DEF l, t

LEMMA HookTwice ==
  ASSUME NEW r \in Item!Record, NEW found, Named(found)
  PROVE  Item!Hook(Item!Hook(r, found), found) = Item!Hook(r, found)
  <1> DEFINE s == Item!Hook(r, found)
  <1>1. /\ s \in Item!Record
        /\ s.location = IF Item!FixedInstallation(r) /\ r.installation_location # ""
                           THEN r.installation_location ELSE PlaceOf(r, found)
        /\ s.status = IF r.status \in Item!KeptStatuses THEN r.status
                      ELSE IF Item!FixedInstallation(r) THEN "in-use"
                      ELSE IF PlaceOf(r, found) = Item!Lager THEN "available" ELSE r.status
        /\ \A c \in Item!Columns \ {"location", "status"} : s[c] = r[c]
    BY HookFields
  <1>2. /\ s.location_id = r.location_id /\ s.installation_type = r.installation_type
        /\ s.installation_quantity = r.installation_quantity
        /\ s.installation_location = r.installation_location
    BY <1>1 DEF Item!Columns
  <1> HIDE DEF s
  <1>3. Item!FixedInstallation(s) <=> Item!FixedInstallation(r)
    BY <1>2 DEF Item!FixedInstallation
  <1>4. /\ Item!Hook(s, found) \in Item!Record
        /\ Item!Hook(s, found).location =
              IF Item!FixedInstallation(s) /\ s.installation_location # ""
                THEN s.installation_location ELSE PlaceOf(s, found)
        /\ Item!Hook(s, found).status =
              IF s.status \in Item!KeptStatuses THEN s.status
              ELSE IF Item!FixedInstallation(s) THEN "in-use"
              ELSE IF PlaceOf(s, found) = Item!Lager THEN "available" ELSE s.status
        /\ \A c \in Item!Columns \ {"location", "status"} : Item!Hook(s, found)[c] = s[c]
    BY <1>1, HookFields
  <1>5. PlaceOf(s, found) = PlaceOf(r, found) \/ (Item!FixedInstallation(r) /\ PlaceOf(s, found) = s.location)
    BY <1>1, <1>2 DEF PlaceOf
  <1>6. Item!Hook(s, found).location = s.location
    BY <1>1, <1>2, <1>3, <1>4, <1>5
  <1>7. Item!Hook(s, found).status = s.status
    BY <1>1, <1>3, <1>4, <1>5 DEF Item!KeptStatuses
  <1>8. \A c \in Item!Columns : Item!Hook(s, found)[c] = s[c]
    BY <1>4, <1>6, <1>7
  <1>9. Item!Hook(s, found) = s
    BY <1>1, <1>4, <1>8, RecAt
  <1> QED
    BY <1>9 DEF s

(* A hook that finds the name it looks for finds what a later one finds. *)
LEMMA HookFinds ==
  ASSUME names \in [Item!Places -> Item!Texts], NEW ids, NEW found \in Item!Lookups(ids),
         NEW r \in Item!Record
  PROVE  /\ Named(found) /\ Named(names)
         /\ Item!Hooked(r, found) => Item!Hook(r, found) = Item!Hook(r, names)
  <1>1. PICK D \in SUBSET (ids \cap Item!Places) : found = [id \in D |-> names[id]]
    BY DEF Item!Lookups
  <1>2. Named(found) /\ Named(names)
    BY <1>1 DEF Named
  <1>3. ASSUME Item!Hooked(r, found)
        PROVE  Item!Hook(r, found) = Item!Hook(r, names)
    <2>1. Item!Null \notin Item!Places
      BY EquipmentAssumption
    <2>2. PlaceOf(r, found) = PlaceOf(r, names)
      BY <1>1, <1>3, <2>1 DEF PlaceOf, Item!Hooked
    <2>3. \A f : Item!Hook(r, f) =
             [r EXCEPT !.location = IF Item!FixedInstallation(r) /\ r.installation_location # ""
                                      THEN r.installation_location ELSE PlaceOf(r, f),
                       !.status = IF r.status \in Item!KeptStatuses THEN r.status
                                  ELSE IF Item!FixedInstallation(r) THEN "in-use"
                                  ELSE IF PlaceOf(r, f) = Item!Lager THEN "available" ELSE r.status]
      BY DEF Item!Hook, PlaceOf
    <2> QED
      BY <2>2, <2>3
  <1> QED
    BY <1>2, <1>3
-----------------------------------------------------------------------------
(* Some columns of a row: a request that will write them, or a body *)
SomeColumns(f) == \E D \in SUBSET Item!Columns, r \in Item!Record : f = [c \in D |-> r[c]]

Saved(call) == Item!Merged(record, call)

RecordInv ==
    /\ record \in Item!Record \cup {Item!NoRecord}
    /\ names \in [Item!Places -> Item!Texts]
    /\ missed \in Item!Missed
    /\ record_calls = [h \in RecordHandlers |-> record_calls[h]]
    /\ \A h \in RecordHandlers :
          \/ record_calls[h] = Item!NoCall
          \/ record # Item!NoRecord /\ (record_calls[h] = Item!Reading \/ SomeColumns(record_calls[h]))
    /\ missed = "nothing" /\ record # Item!NoRecord => Item!Hook(record, names) = record
    /\ missed \in {"nothing", "read"} =>
          \A h \in RecordHandlers :
             \/ record_calls[h] = Item!NoCall
             \/ record_calls[h] = Item!Reading /\ Item!Hook(record, names) = record
             \/ /\ record_calls[h] # Item!Reading
                /\ Item!Hook(Saved(record_calls[h]), names) = Saved(record_calls[h])
    /\ missed # "overlapped" =>
          \A g, h \in RecordHandlers :
             record_calls[g] # Item!NoCall /\ record_calls[h] # Item!NoCall => g = h

LEMMA RecordSound == RecordInv => Item!TypeOK /\ Item!Settled
  <1> SUFFICES ASSUME RecordInv PROVE Item!TypeOK /\ Item!Settled
    OBVIOUS
  <1>1. \A h \in RecordHandlers :
          record_calls[h] = Item!Reading \/ DOMAIN record_calls[h] \subseteq Item!Columns
    BY DEF RecordInv, SomeColumns, Item!NoCall
  <1>2. Item!TypeOK
    BY <1>1 DEF RecordInv, Item!TypeOK
  <1> QED
    BY <1>2 DEF RecordInv, Item!Settled, Item!Exists

LEMMA RecordStarts == Item!Init => RecordInv
  BY EquipmentAssumption DEF Item!Init, Item!Missed, RecordInv

LEMMA RecordUpdates ==
  ASSUME RecordInv, NEW h \in RecordHandlers, NEW new \in Item!Record, record # Item!NoRecord,
         missed # "overlapped", Item!Update(h, new)
  PROVE  RecordInv'
  <1>0. PICK found \in Item!Lookups({new.location_id}) :
          LET columns == Item!Changes(record, new, found) IN
          /\ record_calls[h] = Item!NoCall
          /\ record_calls' = [record_calls EXCEPT ![h] =
                                 IF columns = Item!NoCall THEN Item!Reading ELSE columns]
          /\ missed' = CASE Item!Overlapping -> "overlapped"
                         [] ~Item!Overlapping /\ ~Item!Hooked(new, found) -> "written"
                         [] OTHER -> IF missed = "written" THEN "read" ELSE missed
          /\ UNCHANGED <<record, names>>
    BY DEF Item!Update
  <1> DEFINE s == Item!Hook(new, found)
             columns == Item!Changes(record, new, found)
             call == IF columns = Item!NoCall THEN Item!Reading ELSE columns
  <1>1. /\ record \in Item!Record /\ s \in Item!Record
        /\ Item!Hooked(new, found) => Item!Hook(s, names) = s
    <2>1. /\ Named(found) /\ Named(names) /\ names \in [Item!Places -> Item!Texts]
          /\ Item!Hooked(new, found) => s = Item!Hook(new, names)
      BY HookFinds DEF RecordInv
    <2>2. Item!Hook(Item!Hook(new, names), names) = Item!Hook(new, names)
      BY <2>1, HookTwice
    <2> QED
      BY <2>1, <2>2, HookFields DEF RecordInv
  <1>2. columns = [c \in {d \in Item!Columns : s[d] # record[d]} |-> s[c]]
    BY DEF Item!Changes
  <1>3. /\ record_calls[h] = Item!NoCall /\ UNCHANGED <<record, names>>
        /\ record_calls' = [record_calls EXCEPT ![h] = call]
    BY <1>0
  <1>4. /\ Item!Overlapping => missed' = "overlapped"
        /\ ~Item!Overlapping /\ ~Item!Hooked(new, found) => missed' = "written"
        /\ ~Item!Overlapping /\ Item!Hooked(new, found) =>
              missed' = IF missed = "written" THEN "read" ELSE missed
    BY <1>0
  <1>5. missed' \in Item!Missed
    BY <1>4 DEF RecordInv, Item!Missed
  <1> HIDE DEF s, columns
  <1>6. SomeColumns(columns)
    BY <1>1, <1>2 DEF SomeColumns
  <1>7. Saved(columns) = s
    <2>1. Item!Merged(record, columns) \in Item!Record
      BY <1>1, <1>2, MergedType
    <2>2. \A c \in Item!Columns : Item!Merged(record, columns)[c] = s[c]
      BY <1>2 DEF Item!Merged
    <2> QED
      BY <1>1, <2>1, <2>2, RecAt DEF Saved
  <1>8. columns = Item!NoCall => s = record
    <2>1. ASSUME columns = Item!NoCall, NEW c \in Item!Columns
          PROVE  s[c] = record[c]
      <3>1. DOMAIN columns = {}
        BY <2>1 DEF Item!NoCall
      <3> QED
        BY <1>2, <3>1
    <2> QED
      BY <1>1, <2>1, RecAt
  <1>9. columns # Item!Reading
    <2>1. "read" \in DOMAIN Item!Reading /\ "read" \notin Item!Columns
      BY DEF Item!Reading, Item!Columns
    <2> QED
      BY <1>2, <2>1
  <1>10. \/ call = Item!Reading /\ s = record
         \/ call = columns /\ call # Item!Reading /\ SomeColumns(call) /\ Saved(call) = s
    BY <1>6, <1>7, <1>8, <1>9
  <1> HIDE DEF call
  <1>11. record_calls' = [g \in RecordHandlers |-> record_calls'[g]]
         /\ record_calls'[h] = call /\ \A g \in RecordHandlers \ {h} : record_calls'[g] = record_calls[g]
    BY <1>3 DEF RecordInv
  <1>12. \A g \in RecordHandlers :
           \/ record_calls'[g] = Item!NoCall
           \/ record' # Item!NoRecord /\ (record_calls'[g] = Item!Reading \/ SomeColumns(record_calls'[g]))
    BY <1>3, <1>10, <1>11 DEF RecordInv
  <1>13. missed' # "overlapped" => \A g \in RecordHandlers \ {h} : record_calls'[g] = Item!NoCall
    BY <1>4, <1>11 DEF Item!Overlapping
  <1>14. missed' \in {"nothing", "read"} =>
           /\ Item!Hooked(new, found) /\ ~Item!Overlapping
           /\ missed' = "nothing" => missed = "nothing"
    BY <1>4
  <1>15. missed' = "nothing" => Item!Hook(record', names') = record'
    BY <1>3, <1>14 DEF RecordInv
  <1>16. missed' \in {"nothing", "read"} =>
           \A g \in RecordHandlers :
              \/ record_calls'[g] = Item!NoCall
              \/ record_calls'[g] = Item!Reading /\ Item!Hook(record', names') = record'
              \/ /\ record_calls'[g] # Item!Reading
                 /\ Item!Hook(Item!Merged(record', record_calls'[g]), names')
                      = Item!Merged(record', record_calls'[g])
    BY <1>1, <1>3, <1>10, <1>11, <1>13, <1>14 DEF Saved
  <1> QED
    BY <1>1, <1>3, <1>5, <1>11, <1>12, <1>13, <1>15, <1>16 DEF RecordInv, Saved, SomeColumns

(* The request in slot h has ended. *)
LEMMA CallGone ==
  ASSUME RecordInv, NEW h \in RecordHandlers,
         record_calls' = [record_calls EXCEPT ![h] = Item!NoCall],
         record' \in Item!Record, record' # Item!NoRecord, UNCHANGED names,
         missed' \in Item!Missed, missed' = "overlapped" <=> missed = "overlapped",
         missed' # "overlapped" => record_calls[h] # Item!NoCall,
         missed' = "nothing" => Item!Hook(record', names') = record'
  PROVE  RecordInv'
  <1>1. record_calls' = [g \in RecordHandlers |-> record_calls'[g]]
        /\ record_calls'[h] = Item!NoCall /\ \A g \in RecordHandlers \ {h} : record_calls'[g] = record_calls[g]
    BY DEF RecordInv
  <1>2. \A g \in RecordHandlers :
          \/ record_calls'[g] = Item!NoCall
          \/ record' # Item!NoRecord /\ (record_calls'[g] = Item!Reading \/ SomeColumns(record_calls'[g]))
    BY <1>1 DEF RecordInv
  <1>3. missed' # "overlapped" => \A g \in RecordHandlers : record_calls'[g] = Item!NoCall
    BY <1>1 DEF RecordInv
  <1> QED
    BY <1>1, <1>2, <1>3 DEF RecordInv, SomeColumns

LEMMA RecordSaves ==
  ASSUME RecordInv, NEW h \in RecordHandlers, Item!Save(h) \/ Item!SaveFails(h)
  PROVE  RecordInv'
  <1> DEFINE call == record_calls[h]
  <1>1. /\ call # Item!NoCall /\ UNCHANGED names
        /\ record_calls' = [record_calls EXCEPT ![h] = Item!NoCall]
        /\ missed' = missed \/ (missed = "read" /\ missed' \in {"nothing", "written"})
    BY DEF Item!Save, Item!SaveFails
  <1>2. record \in Item!Record /\ record # Item!NoRecord /\ (call = Item!Reading \/ SomeColumns(call))
    BY <1>1 DEF RecordInv
  <1>3. missed' \in Item!Missed /\ (missed' = "overlapped" <=> missed = "overlapped")
    BY <1>1 DEF RecordInv, Item!Missed
  <1>4. CASE Item!Save(h)
    <2>1. record' = IF call = Item!Reading THEN record ELSE Saved(call)
      BY <1>4 DEF Item!Save, Saved
    <2>2. record' \in Item!Record
      BY <1>2, <2>1, MergedType DEF SomeColumns, Saved
    <2>3. record' # Item!NoRecord
      BY <2>2, RecAssumption DEF Item!Record, Item!NoRecord
    <2>4. missed \in {"nothing", "read"} => Item!Hook(record', names) = record'
      BY <1>1, <2>1 DEF RecordInv
    <2>5. missed' = "nothing" => missed \in {"nothing", "read"}
      BY <1>1
    <2> QED
      BY <1>1, <1>3, <2>2, <2>3, <2>4, <2>5, CallGone
  <1>5. CASE Item!SaveFails(h)
    <2>1. UNCHANGED record /\ (missed' = "nothing" => missed = "nothing")
      BY <1>5 DEF Item!SaveFails
    <2>2. missed' = "nothing" => Item!Hook(record', names') = record'
      BY <1>1, <1>2, <2>1 DEF RecordInv
    <2> QED
      BY <1>1, <1>2, <1>3, <2>1, <2>2, CallGone
  <1> QED
    BY <1>4, <1>5

(* The writers that pass the hook by *)
LEMMA RecordBypassed ==
  ASSUME RecordInv, missed' = "written", record # Item!NoRecord, missed # "overlapped",
         record' \in Item!Record, names' \in [Item!Places -> Item!Texts], UNCHANGED record_calls
  PROVE  RecordInv'
  <1>1. record' # Item!NoRecord
    BY RecAssumption DEF Item!Record, Item!NoRecord
  <1> QED
    BY <1>1 DEF RecordInv, Item!Missed, SomeColumns
-----------------------------------------------------------------------------
(* The rows that the handlers compute are rows *)
LEMMA CreatedRow ==
  ASSUME NEW body \in Item!PostBodies, NEW storage \in Item!Places \cup {Item!Null},
         NEW seen, Named(seen)
  PROVE  Item!Created(body, storage, seen) \in Item!Record
  <1> DEFINE type == Item!Given(body, "installation_type", "portable")
             installed_id == Item!Given(body, "installation_location_id", Item!Null)
             installed_text == Item!Given(body, "installation_location", "")
             location_id == Item!Given(body, "location_id", Item!Null)
             text == Item!Given(body, "location", "")
             is_installed == /\ type # "portable"
                             /\ \/ installed_id \in DOMAIN seen
                                \/ installed_id = Item!Null /\ installed_text # ""
             listed_id == IF location_id # Item!Null THEN location_id
                          ELSE IF text # "" THEN Item!Null ELSE storage
             current_id == IF listed_id \in DOMAIN seen THEN listed_id ELSE Item!Null
             current == IF is_installed
                          THEN IF installed_id # Item!Null THEN seen[installed_id] ELSE installed_text
                          ELSE IF current_id # Item!Null THEN seen[current_id] ELSE text
             units == Item!Given(body, "quantity", 1)
             status == IF type # "portable" THEN "in-use" ELSE Item!Given(body, "status", "available")
             fixed == Item!Given(body, "installation_quantity", 0)
             at == IF is_installed THEN location_id ELSE current_id
             place == IF current # "" THEN current ELSE text
             row == [quantity |-> units, status |-> status, location_id |-> at, location |-> place,
                     installation_type |-> type, installation_location_id |-> installed_id,
                     installation_location |-> installed_text, installation_quantity |-> fixed]
  <1>1. /\ DOMAIN body = {"quantity", "status", "location_id", "location", "installation_type",
                          "installation_location_id", "installation_quantity"}
        /\ body["quantity"] \in 1..MaxUnits /\ body["status"] \in Item!Statuses
        /\ body["location_id"] \in Item!Places \cup {Item!Null}
        /\ body["location"] \in Item!Texts
        /\ body["installation_type"] \in InstallationTypes
        /\ body["installation_location_id"] \in Sites \cup {Item!Null}
        /\ body["installation_quantity"] \in 0..MaxUnits
    <2>1. /\ DOMAIN body = {"quantity", "status", "location_id", "location", "installation_type",
                            "installation_location_id", "installation_quantity"}
          /\ body["quantity"] \in {MaxUnits} /\ body["status"] \in Item!Statuses
          /\ body["location_id"] \in Item!Places \cup {Item!Null}
          /\ body["location"] \in {""} \cup FreeTexts
          /\ body["installation_type"] \in InstallationTypes
          /\ body["installation_location_id"] \in Sites \cup {Item!Null}
          /\ body["installation_quantity"] \in 0..MaxUnits
      BY DEF Item!PostBodies
    <2>2. {MaxUnits} \subseteq 1..MaxUnits
      BY RecAssumption
    <2>3. {""} \cup FreeTexts \subseteq Item!Texts
      BY DEF Item!Texts
    <2> QED
      BY <2>1, <2>2, <2>3
  <1>2. /\ type \in InstallationTypes /\ installed_id \in Sites \cup {Item!Null}
        /\ installed_text = "" /\ location_id \in Item!Places \cup {Item!Null}
        /\ text \in Item!Texts /\ units \in 1..MaxUnits /\ fixed \in 0..MaxUnits
    BY <1>1 DEF Item!Given
  <1>3. status \in Item!Statuses
    BY <1>1 DEF Item!Given, Item!Statuses
  <1>4. Item!Created(body, storage, seen) = row
    BY DEF Item!Created
  <1> HIDE DEF type, installed_id, installed_text, location_id, text, units, fixed, status
  <1>5. "" \in Item!Texts /\ (\A id \in DOMAIN seen : seen[id] \in Item!Texts)
    BY DEF Item!Texts, Named
  <1>6. /\ current_id \in Item!Places \cup {Item!Null}
        /\ current_id # Item!Null => current_id \in DOMAIN seen
    BY DEF Named
  <1> HIDE DEF current_id
  <1>7. current \in Item!Texts
    BY <1>2, <1>5, <1>6
  <1> HIDE DEF current, is_installed
  <1>8. at \in Item!Places \cup {Item!Null} /\ place \in Item!Texts
    BY <1>2, <1>6, <1>7
  <1> HIDE DEF at, place
  <1>9. row \in Item!Record
    BY <1>2, <1>3, <1>5, <1>8 DEF Item!Record
  <1> HIDE DEF row
  <1> QED
    BY <1>4, <1>9

LEMMA GivenColumn ==
  ASSUME NEW D \in SUBSET Item!Columns, NEW r \in Item!Record, NEW c \in Item!Columns, NEW otherwise
  PROVE  Item!Given([d \in D |-> r[d]], c, otherwise) = IF c \in D THEN r[c] ELSE otherwise
  BY DEF Item!Given

LEMMA PutRowType ==
  ASSUME NEW r \in Item!Record, NEW body, SomeColumns(body), NEW seen, Named(seen)
  PROVE  Item!PutRow(r, body, seen) \in Item!Record
  <1>1. PICK D \in SUBSET Item!Columns, b \in Item!Record : body = [c \in D |-> b[c]]
    BY DEF SomeColumns
  <1>2. ASSUME NEW c \in Item!Columns, NEW otherwise
        PROVE  Item!Given(body, c, otherwise) = IF c \in D THEN b[c] ELSE otherwise
    BY <1>1, GivenColumn
  <1> DEFINE status == Item!Given(body, "status", r.status)
             id == Item!Given(body, "location_id", r.location_id)
             text == Item!Given(body, "location", r.location)
             is_listed == "location_id" \in DOMAIN body /\ id \in DOMAIN seen
             cleared == "location_id" \in DOMAIN body /\ id = Item!Null
             place == IF is_listed THEN seen[id]
                      ELSE IF cleared THEN Item!Given(body, "location", "") ELSE text
             derives == is_listed \/ (cleared /\ place # "")
             units == Item!Given(body, "quantity", 1)
             state == IF derives THEN Item!StatusAt(place, status) ELSE status
             type == Item!Given(body, "installation_type", r.installation_type)
             site == Item!Given(body, "installation_location_id", r.installation_location_id)
             text_there == Item!Given(body, "installation_location", r.installation_location)
             fixed == Item!Given(body, "installation_quantity", r.installation_quantity)
             row == [quantity |-> units, status |-> state, location_id |-> id, location |-> place,
                     installation_type |-> type, installation_location_id |-> site,
                     installation_location |-> text_there, installation_quantity |-> fixed]
  <1>3. Item!PutRow(r, body, seen) = row
    BY DEF Item!PutRow
  <1>4. /\ status = IF "status" \in D THEN b.status ELSE r.status
        /\ id = IF "location_id" \in D THEN b.location_id ELSE r.location_id
        /\ text = IF "location" \in D THEN b.location ELSE r.location
        /\ Item!Given(body, "location", "") = IF "location" \in D THEN b.location ELSE ""
        /\ units = IF "quantity" \in D THEN b.quantity ELSE 1
        /\ type = IF "installation_type" \in D THEN b.installation_type ELSE r.installation_type
        /\ site = IF "installation_location_id" \in D THEN b.installation_location_id
                  ELSE r.installation_location_id
        /\ text_there = IF "installation_location" \in D THEN b.installation_location
                        ELSE r.installation_location
        /\ fixed = IF "installation_quantity" \in D THEN b.installation_quantity
                   ELSE r.installation_quantity
    BY <1>2 DEF Item!Columns
  <1>6. "" \in Item!Texts /\ (\A i \in DOMAIN seen : seen[i] \in Item!Texts)
    BY DEF Item!Texts, Named
  <1> HIDE DEF status, id, text, units, type, site, text_there, fixed
  <1>7. /\ status \in Item!Statuses /\ id \in Item!Places \cup {Item!Null} /\ text \in Item!Texts
        /\ Item!Given(body, "location", "") \in Item!Texts /\ units \in 1..MaxUnits
        /\ type \in InstallationTypes /\ site \in Sites \cup {Item!Null} /\ text_there \in Item!Texts
        /\ fixed \in 0..MaxUnits
    <2>1. 1 \in 1..MaxUnits
      BY RecAssumption
    <2>2. status \in Item!Statuses /\ id \in Item!Places \cup {Item!Null}
      BY <1>4, RecordFields
    <2>3. text \in Item!Texts /\ Item!Given(body, "location", "") \in Item!Texts
          /\ text_there \in Item!Texts
      BY <1>4, <1>6, RecordFields
    <2>4. units \in 1..MaxUnits /\ fixed \in 0..MaxUnits
      BY <1>4, <2>1, RecordFields
    <2>5. type \in InstallationTypes /\ site \in Sites \cup {Item!Null}
      BY <1>4, RecordFields
    <2> QED
      BY <2>2, <2>3, <2>4, <2>5
  <1>8. place \in Item!Texts
    BY <1>6, <1>7
  <1> HIDE DEF place
  <1>9. state \in Item!Statuses
    BY <1>7 DEF Item!StatusAt, Item!Statuses
  <1> HIDE DEF state
  <1>10. row \in Item!Record
    BY <1>7, <1>8, <1>9 DEF Item!Record
  <1> QED
    BY <1>3, <1>10

LEMMA SentColumns ==
  ASSUME NEW r \in Item!Record
  PROVE  SomeColumns(Item!Sent(r))
  <1> DEFINE D == Item!Columns \ {d \in {"location_id", "installation_location_id"} : r[d] = Item!Null}
  <1>1. Item!Sent(r) = [c \in D |-> r[c]] /\ D \in SUBSET Item!Columns
    BY DEF Item!Sent
  <1> HIDE DEF D
  <1> QED
    BY <1>1 DEF SomeColumns

LEMMA PutBodiesType ==
  ASSUME record \in Item!Record, NEW body \in Item!PutBodies
  PROVE  SomeColumns(body)
  <1> DEFINE form_ == [record EXCEPT !.installation_location_id = Item!Null]
  <1>1. form_ \in Item!Record
    BY DEF Item!Record
  <1> HIDE DEF form_
  <1>2. CASE body = Item!NoCall
    <2>1. body = [c \in {} |-> record[c]]
      BY <1>2 DEF Item!NoCall
    <2> QED
      BY <2>1 DEF SomeColumns
  <1>3. ASSUME NEW status \in Item!Statuses, body = Item!Sent([form_ EXCEPT !.status = status])
        PROVE  SomeColumns(body)
    <2>1. [form_ EXCEPT !.status = status] \in Item!Record
      BY <1>1 DEF Item!Record
    <2> QED
      BY <1>3, <2>1, SentColumns
  <1>4. ASSUME NEW id \in Item!Places, body = Item!Sent([form_ EXCEPT !.location_id = id])
        PROVE  SomeColumns(body)
    <2>1. [form_ EXCEPT !.location_id = id] \in Item!Record
      BY <1>1 DEF Item!Record
    <2> QED
      BY <1>4, <2>1, SentColumns
  <1>5. ASSUME NEW text \in FreeTexts,
               body = Item!Sent([form_ EXCEPT !.location_id = Item!Null, !.location = text])
        PROVE  SomeColumns(body)
    <2>1. text \in Item!Texts
      BY DEF Item!Texts
    <2>2. [form_ EXCEPT !.location_id = Item!Null, !.location = text] \in Item!Record
      BY <1>1, <2>1 DEF Item!Record
    <2> QED
      BY <1>5, <2>2, SentColumns
  <1>6. ASSUME NEW type \in InstallationTypes, body = Item!Sent([form_ EXCEPT !.installation_type = type])
        PROVE  SomeColumns(body)
    <2>1. [form_ EXCEPT !.installation_type = type] \in Item!Record
      BY <1>1 DEF Item!Record
    <2> QED
      BY <1>6, <2>1, SentColumns
  <1> QED
    BY <1>2, <1>3, <1>4, <1>5, <1>6 DEF Item!PutBodies, form_

LEMMA StatusAtType ==
  ASSUME NEW place, NEW status \in Item!Statuses
  PROVE  Item!StatusAt(place, status) \in Item!Statuses
  BY DEF Item!StatusAt, Item!Statuses

LEMMA RecordArrives ==
  ASSUME RecordInv, NEW h \in RecordHandlers, Item!Arrive(h)
  PROVE  RecordInv'
  <1>1. record \in Item!Record /\ record # Item!NoRecord /\ missed # "overlapped"
    BY DEF RecordInv, Item!Arrive, Item!Exists, Item!Bound
  <1>2. SUFFICES \E new \in Item!Record : Item!Update(h, new)
    BY <1>1, RecordUpdates
  <1>3. ASSUME NEW body \in Item!PutBodies, Item!Put(h, body)
        PROVE  \E new \in Item!Record : Item!Update(h, new)
    <2>1. PICK seen \in Item!Lookups({Item!Given(body, "location_id", Item!Null)}) :
             Item!Update(h, Item!PutRow(record, body, seen))
      BY <1>3 DEF Item!Put
    <2>2. Named(seen)
      BY <1>1, HookFinds DEF RecordInv
    <2> QED
      BY <1>1, <2>1, <2>2, PutBodiesType, PutRowType
  <1>4. ASSUME NEW status \in Item!Statuses, Item!PatchStatus(h, status)
        PROVE  \E new \in Item!Record : Item!Update(h, new)
    <2>1. [record EXCEPT !.status = status] \in Item!Record
      BY <1>1 DEF Item!Record
    <2> QED
      BY <1>4, <2>1 DEF Item!PatchStatus
  <1>5. ASSUME NEW id \in Item!Places, Item!PatchLocationId(h, id)
        PROVE  \E new \in Item!Record : Item!Update(h, new)
    <2>1. PICK seen \in Item!Lookups({id}) :
             Item!Update(h, IF id \in DOMAIN seen
                              THEN [record EXCEPT !.location_id = id,
                                                  !.location = seen[id],
                                                  !.status = Item!StatusAt(seen[id], record.status)]
                              ELSE record)
      BY <1>5 DEF Item!PatchLocationId
    <2>2. Named(seen)
      BY <1>1, HookFinds DEF RecordInv
    <2> DEFINE status == Item!StatusAt(seen[id], record.status)
    <2>3. status \in Item!Statuses
      BY <1>1, RecordFields, StatusAtType
    <2>4. CASE id \in DOMAIN seen
      <3>1. Item!Update(h, [record EXCEPT !.location_id = id, !.location = seen[id], !.status = status])
        BY <2>1, <2>4
      <3>2. seen[id] \in Item!Texts
        BY <2>2, <2>4 DEF Named
      <3> HIDE DEF status
      <3>3. [record EXCEPT !.location_id = id, !.location = seen[id], !.status = status] \in Item!Record
        BY <1>1, <2>3, <3>2 DEF Item!Record
      <3> QED
        BY <3>1, <3>3
    <2>5. CASE id \notin DOMAIN seen
      BY <1>1, <2>1, <2>5
    <2> QED
      BY <2>4, <2>5
  <1>6. ASSUME NEW text \in FreeTexts, Item!PatchLocationText(h, text)
        PROVE  \E new \in Item!Record : Item!Update(h, new)
    <2> DEFINE status == Item!StatusAt(text, record.status)
    <2>1. status \in Item!Statuses
      BY <1>1, RecordFields, StatusAtType
    <2>2. text \in Item!Texts
      BY DEF Item!Texts
    <2>3. Item!Update(h, [record EXCEPT !.location_id = Item!Null, !.location = text, !.status = status])
      BY <1>6 DEF Item!PatchLocationText
    <2> HIDE DEF status
    <2>4. [record EXCEPT !.location_id = Item!Null, !.location = text, !.status = status] \in Item!Record
      BY <1>1, <2>1, <2>2 DEF Item!Record
    <2> QED
      BY <2>3, <2>4
  <1>7. ASSUME Item!PatchOther(h)
        PROVE  \E new \in Item!Record : Item!Update(h, new)
    BY <1>1, <1>7 DEF Item!PatchOther
  <1>8. ASSUME NEW type \in InstallationTypes, NEW id \in Sites \cup {Item!Null},
               NEW text \in {""} \cup FreeTexts, NEW units \in 0..MaxUnits,
               Item!PutInstallation(h, type, id, text, units)
        PROVE  \E new \in Item!Record : Item!Update(h, new)
    <2>1. text \in Item!Texts
      BY DEF Item!Texts
    <2>2. [record EXCEPT !.installation_type = type, !.installation_location_id = id,
                         !.installation_location = text, !.installation_quantity = units] \in Item!Record
      BY <1>1, <2>1 DEF Item!Record
    <2> QED
      BY <1>8, <2>2 DEF Item!PutInstallation
  <1>9. ASSUME NEW units \in 0..MaxUnits, Item!ReturnInstallation(h, units)
        PROVE  \E new \in Item!Record : Item!Update(h, new)
    <2> DEFINE none == [record EXCEPT !.installation_type = "portable",
                                       !.installation_location_id = Item!Null,
                                       !.installation_location = "",
                                       !.installation_quantity = 0,
                                       !.status = "available"]
               fewer == [record EXCEPT !.installation_quantity = @ - units]
    <2>1. record.installation_quantity \in 0..MaxUnits
      BY <1>1, RecordFields
    <2>2. CASE units = record.installation_quantity
      <3>1. Item!Update(h, none)
        BY <1>9, <2>2 DEF Item!ReturnInstallation
      <3>2. none \in Item!Record
        <4>1. "" \in Item!Texts /\ "available" \in Item!Statuses /\ 0 \in 0..MaxUnits
              /\ "portable" \in InstallationTypes
          BY RecAssumption DEF Item!Texts, Item!Statuses
        <4> QED
          BY <1>1, <4>1 DEF Item!Record
      <3> QED
        BY <3>1, <3>2
    <2>3. CASE units # record.installation_quantity
      <3>1. Item!Update(h, fewer) /\ units \in 1..record.installation_quantity
        BY <1>9, <2>3 DEF Item!ReturnInstallation
      <3>2. record.installation_quantity - units \in 0..MaxUnits
        BY <2>1, <3>1, RecAssumption
      <3>3. fewer \in Item!Record
        BY <1>1, <3>2 DEF Item!Record
      <3> QED
        BY <3>1, <3>3
    <2> QED
      BY <2>2, <2>3
  <1> QED
    BY <1>3, <1>4, <1>5, <1>6, <1>7, <1>8, <1>9 DEF Item!Arrive

LEMMA RecordKept == RecordInv /\ [Item!Next]_recordVars => RecordInv'
  <1> SUFFICES ASSUME RecordInv, [Item!Next]_recordVars PROVE RecordInv'
    OBVIOUS
  <1>1. CASE UNCHANGED recordVars
    BY <1>1 DEF recordVars, RecordInv, Saved
  <1>2. ASSUME NEW body \in Item!PostBodies, NEW storage \in Item!Places \cup {Item!Null},
               Item!Post(body, storage)
        PROVE  RecordInv'
    <2>1. record = Item!NoRecord /\ UNCHANGED <<record_calls, names>>
      BY <1>2 DEF Item!Post, Item!Exists
    <2>2. PICK seen \in Item!Lookups(Item!Places) :
             LET new == Item!Created(body, storage, seen) IN
             \E found \in Item!Lookups({new.location_id}) :
                 /\ record' = Item!Hook(new, found)
                 /\ missed' = IF Item!Hooked(new, found) THEN "nothing" ELSE "written"
      BY <1>2 DEF Item!Post
    <2> DEFINE new == Item!Created(body, storage, seen)
    <2>3. PICK found \in Item!Lookups({new.location_id}) :
             /\ record' = Item!Hook(new, found)
             /\ missed' = IF Item!Hooked(new, found) THEN "nothing" ELSE "written"
      BY <2>2
    <2>4. new \in Item!Record
      <3>1. \A r \in Item!Record : Named(seen)
        BY HookFinds DEF RecordInv
      <3>2. [quantity |-> 1, status |-> "available", location_id |-> Item!Null, location |-> "",
             installation_type |-> "portable", installation_location_id |-> Item!Null,
             installation_location |-> "", installation_quantity |-> 0] \in Item!Record
        BY RecAssumption DEF Item!Record, Item!Texts, Item!Statuses
      <3> QED
        BY <3>1, <3>2, CreatedRow
    <2> HIDE DEF new
    <2>5. /\ Named(found) /\ Named(names) /\ names \in [Item!Places -> Item!Texts]
          /\ Item!Hooked(new, found) => Item!Hook(new, found) = Item!Hook(new, names)
      BY <2>4, HookFinds DEF RecordInv
    <2>6. record' \in Item!Record
      BY <2>3, <2>4, <2>5, HookFields
    <2>7. missed' = "nothing" => Item!Hook(record', names) = record'
      BY <2>3, <2>4, <2>5, HookTwice
    <2>8. \A h \in RecordHandlers : record_calls'[h] = Item!NoCall
      BY <2>1 DEF RecordInv
    <2>9. missed' \in Item!Missed
      BY <2>3 DEF Item!Missed
    <2> QED
      BY <2>1, <2>6, <2>7, <2>8, <2>9 DEF RecordInv, SomeColumns
  <1>3. ASSUME NEW h \in RecordHandlers, Item!Arrive(h) \/ Item!Save(h) \/ Item!SaveFails(h)
        PROVE  RecordInv'
    BY <1>3, RecordArrives, RecordSaves
  <1>4. ASSUME NEW status \in {"available", "in-use"}, Item!ShowWrites(status)
        PROVE  RecordInv'
    <2>1. /\ record \in Item!Record /\ record # Item!NoRecord /\ missed # "overlapped"
          /\ missed' = "written" /\ UNCHANGED <<record_calls, names>>
          /\ record' = [record EXCEPT !.status = status]
      BY <1>4 DEF RecordInv, Item!ShowWrites, Item!Exists, Item!Bound
    <2>2. record' \in Item!Record
      BY <2>1 DEF Item!Record, Item!Statuses
    <2>3. names' \in [Item!Places -> Item!Texts]
      BY <2>1 DEF RecordInv
    <2> QED
      BY <2>1, <2>2, <2>3, RecordBypassed
  <1>5. ASSUME NEW change \in Renames, Item!Rename(change.id, change.name)
        PROVE  RecordInv'
    <2>1. /\ record \in Item!Record /\ record # Item!NoRecord /\ missed # "overlapped"
          /\ missed' = "written" /\ UNCHANGED <<record, record_calls>>
          /\ names' = [names EXCEPT ![change.id] = change.name]
      BY <1>5 DEF RecordInv, Item!Rename, Item!Exists, Item!Bound
    <2>2. change.name \in Item!Texts
      BY EquipmentAssumption
    <2>3. names' \in [Item!Places -> Item!Texts]
      BY <2>1, <2>2 DEF RecordInv
    <2> QED
      BY <2>1, <2>3, RecordBypassed
  <1> QED
    BY <1>1, <1>2, <1>3, <1>4, <1>5 DEF Item!Next
-----------------------------------------------------------------------------
(***************************************************************************)
(* The forms                                                               *)
(***************************************************************************)
Unfilled(f) ==
    /\ f.installation_type = "portable"
    /\ f.installation_location_id = Item!Null
    /\ f.installation_location = ""

(* What "Allocate" makes of the form that is sent *)
AsChosen(f, c) ==
    CASE c.kind = "show" -> f.status = "in-use" /\ Unfilled(f)
      [] c.kind = "location" ->
            /\ f.status = "in-use" /\ Unfilled(f)
            /\ f.location_id = c.place /\ f.location = PlaceNames[c.place]
      [] c.kind = "installation" ->
            /\ f.status = "in-use"
            /\ f.location_id = c.place /\ f.location = PlaceNames[c.place]
            /\ f.installation_type = "fixed" /\ f.installation_location_id = c.place
            /\ f.installation_location = "" /\ f.installation_quantity = 1
      [] OTHER -> TRUE

NewSent(f) == Item!Without(f, IF f.location_id = Item!Null THEN {"location_id"} ELSE {})
EditSent(f) ==
    Item!Without(f, (IF f.location_id = Item!Null THEN {"location_id"} ELSE {}) \cup
                    (IF f.installation_location_id = Item!Null THEN {"installation_location_id"} ELSE {}))

FormTypes ==
    /\ record \in Item!Record \cup {Item!NoRecord}
    /\ page \in {"list", "new", "mobile", "edit"}
    /\ form \in Item!Record
    /\ shown \in Item!Record \cup {Item!NoRecord}
    /\ fetched \in Item!Record \cup {Item!NoRecord}
    /\ DOMAIN edits \subseteq Item!Columns \cup {"type, brand and model"}
    /\ preset \in Item!Places \cup {Item!Null}
    /\ choice \in Choices
    /\ sent = Item!NoCall \/ SomeColumns(sent)

FormInv ==
    /\ FormTypes
    /\ record # Item!NoRecord => Item!Hook(record, PlaceNames) = record
    /\ page = "edit" => record # Item!NoRecord
    /\ page = "list" => shown = Item!NoRecord /\ sent = Item!NoCall
    /\ page # "edit" => Unfilled(form)
    /\ page # "new" => choice = Item!StorageChoice
    /\ page = "edit" /\ edits = Item!NoEdits /\ shown # Item!NoRecord => form = Item!Filled(shown)
    /\ sent # Item!NoCall /\ page # "edit" =>
          /\ asked.choice \in Choices
          /\ \E f \in Item!Record : sent = NewSent(f) /\ AsChosen(f, asked.choice)
    /\ sent # Item!NoCall /\ page = "edit" /\ asked.untouched # Item!NoRecord =>
          sent = EditSent(Item!Filled(asked.untouched))

LEMMA EmptyFormType == Item!EmptyForm \in Item!Record /\ Unfilled(Item!EmptyForm)
  <1>1. 1 \in 1..MaxUnits /\ 0 \in 0..MaxUnits /\ "available" \in Item!Statuses /\ "" \in Item!Texts
        /\ "portable" \in InstallationTypes
    BY RecAssumption DEF Item!Statuses, Item!Texts
  <1> QED
    BY <1>1 DEF Item!EmptyForm, Item!Record, Unfilled

LEMMA FormStarts == Item!FormsInit => FormInv
  <1> SUFFICES ASSUME Item!FormsInit PROVE FormInv
    OBVIOUS
  <1>1. /\ record = Item!NoRecord /\ page = "list" /\ form = Item!EmptyForm
        /\ shown = Item!NoRecord /\ fetched = Item!NoRecord /\ edits = Item!NoEdits
        /\ preset = Item!Null /\ choice = Item!StorageChoice /\ sent = Item!NoCall
    BY DEF Item!FormsInit, Item!Init
  <1>2. DOMAIN edits \subseteq Item!Columns
    BY <1>1 DEF Item!NoEdits, Item!NoCall
  <1> QED
    BY <1>1, <1>2, EmptyFormType, EquipmentAssumption DEF FormInv, FormTypes

LEMMA WithoutColumns ==
  ASSUME NEW f \in Item!Record, NEW omitted
  PROVE  SomeColumns(Item!Without(f, omitted))
  <1>1. Item!Columns \ omitted \in SUBSET Item!Columns
    OBVIOUS
  <1> QED
    BY <1>1 DEF SomeColumns, Item!Without

LEMMA FormLeaves ==
  ASSUME FormTypes', record' # Item!NoRecord => Item!Hook(record', PlaceNames) = record', Item!Leave
  PROVE  FormInv'
  <1>1. /\ page' = "list" /\ form' = Item!EmptyForm /\ choice' = Item!StorageChoice /\ sent' = Item!NoCall
        /\ shown' = Item!NoRecord
    BY DEF Item!Leave
  <1> QED
    BY <1>1, EmptyFormType DEF FormInv, Unfilled

LEMMA LeaveTypes ==
  ASSUME Item!Leave, record' \in Item!Record \cup {Item!NoRecord}
  PROVE  FormTypes'
  <1>1. /\ page' = "list" /\ form' = Item!EmptyForm
        /\ shown' = Item!NoRecord /\ fetched' = Item!NoRecord /\ edits' = Item!NoEdits
        /\ preset' = Item!Null /\ choice' = Item!StorageChoice /\ sent' = Item!NoCall
    BY DEF Item!Leave
  <1>2. DOMAIN edits' \subseteq Item!Columns
    BY <1>1 DEF Item!NoEdits, Item!NoCall
  <1> QED
    BY <1>1, <1>2, EmptyFormType, EquipmentAssumption DEF FormTypes, SomeColumns
-----------------------------------------------------------------------------
(* The controls change a form into a form. *)
LEMMA PickType ==
  ASSUME NEW f \in Item!Record, NEW field \in Item!Columns, NEW value \in Item!ValuesOf(field)
  PROVE  /\ Item!Pick(f, field, value) \in Item!Record
         /\ \A c \in Item!Columns \ {field} : Item!Pick(f, field, value)[c] = f[c]
  <1>1. FreeTexts \cup {""} \subseteq Item!Texts
    BY DEF Item!Texts
  <1>2. /\ field = "quantity" => value \in 1..MaxUnits
        /\ field = "status" => value \in Item!Statuses
        /\ field = "location_id" => value \in Item!Places \cup {Item!Null}
        /\ field \in {"location", "installation_location"} => value \in Item!Texts
        /\ field = "installation_type" => value \in InstallationTypes
        /\ field = "installation_location_id" => value \in Sites \cup {Item!Null}
        /\ field = "installation_quantity" => value \in 0..MaxUnits
    BY <1>1 DEF Item!ValuesOf
  <1> QED
    BY <1>2 DEF Item!Pick, Item!Record, Item!Columns

LEMMA SetColumns ==
  ASSUME NEW f \in Item!Record
  PROVE  /\ \A id \in Item!Places \cup {Item!Null} : [f EXCEPT !.location_id = id] \in Item!Record
         /\ \A text \in Item!Texts : /\ [f EXCEPT !.location = text] \in Item!Record
                                     /\ [f EXCEPT !.installation_location = text] \in Item!Record
         /\ \A id \in Sites \cup {Item!Null} : [f EXCEPT !.installation_location_id = id] \in Item!Record
  BY DEF Item!Record

LEMMA CoupledType ==
  ASSUME NEW f \in Item!Record, NEW field \in Item!Columns, NEW value \in Item!ValuesOf(field)
  PROVE  /\ Item!Coupled(f, field, value) \in Item!Record
         /\ field \in Item!NewFields /\ Unfilled(f) => Unfilled(Item!Coupled(f, field, value))
  <1>1. /\ field = "location_id" => value \in Item!Places \cup {Item!Null}
        /\ field = "installation_location_id" => value \in Sites \cup {Item!Null}
    BY DEF Item!ValuesOf
  <1>2. /\ \A id \in Item!Places : PlaceNames[id] \in Item!Texts
        /\ \A id \in Sites : PlaceNames[id] \in Item!Texts
    BY RecAssumption DEF Item!Texts, Item!Places
  <1> DEFINE g == Item!Coupled(f, field, value)
  <1>3. \/ g = f
        \/ field = "location_id" /\ value # Item!Null /\ g = [f EXCEPT !.location = PlaceNames[value]]
        \/ field = "location" /\ g = [f EXCEPT !.location_id = Item!Null]
        \/ /\ field = "installation_location_id" /\ value # Item!Null
           /\ g = [f EXCEPT !.installation_location = PlaceNames[value]]
        \/ field = "installation_location" /\ g = [f EXCEPT !.installation_location_id = Item!Null]
    BY DEF Item!Coupled
  <1> HIDE DEF g
  <1>4. g \in Item!Record
    <2>1. Item!Null \in Item!Places \cup {Item!Null} /\ Item!Null \in Sites \cup {Item!Null}
      OBVIOUS
    <2>2. /\ field = "location_id" /\ value # Item!Null => PlaceNames[value] \in Item!Texts
          /\ field = "installation_location_id" /\ value # Item!Null => PlaceNames[value] \in Item!Texts
      BY <1>1, <1>2
    <2> QED
      BY <1>3, <2>1, <2>2, SetColumns
  <1>5. field \in Item!NewFields /\ Unfilled(f) => Unfilled(g)
    BY <1>3 DEF Item!NewFields, Unfilled, Item!Record
  <1> QED
    BY <1>4, <1>5 DEF g

LEMMA StatusSet ==
  ASSUME NEW f \in Item!Record, NEW status \in Item!Statuses
  PROVE  /\ [f EXCEPT !.status = status] \in Item!Record
         /\ Unfilled(f) => Unfilled([f EXCEPT !.status = status])
  BY DEF Item!Record, Unfilled

LEMMA InputType ==
  ASSUME NEW f \in Item!Record, NEW field \in Item!Columns, NEW value \in Item!ValuesOf(field)
  PROVE  /\ Item!EditInput(f, field, value) \in Item!Record
         /\ Item!NewInput(f, field, value) \in Item!Record
         /\ Item!Coupled(Item!Pick(f, field, value), field, value) \in Item!Record
         /\ field \in Item!NewFields /\ Unfilled(f) =>
              /\ Unfilled(Item!NewInput(f, field, value))
              /\ Unfilled(Item!Coupled(Item!Pick(f, field, value), field, value))
  <1> DEFINE p == Item!Pick(f, field, value)
             g == Item!Coupled(p, field, value)
  <1>1. p \in Item!Record /\ \A c \in Item!Columns \ {field} : p[c] = f[c]
    BY PickType
  <1>2. field \in Item!NewFields /\ Unfilled(f) => Unfilled(p)
    BY <1>1 DEF Unfilled, Item!NewFields, Item!Columns
  <1> HIDE DEF p
  <1>3. g \in Item!Record /\ (field \in Item!NewFields /\ Unfilled(p) => Unfilled(g))
    BY <1>1, CoupledType
  <1> HIDE DEF g
  <1>4. {"available", "in-use", g.status} \subseteq Item!Statuses
    BY <1>3, RecordFields DEF Item!Statuses
  <1>5. Item!EditInput(f, field, value) = g \/ Item!EditInput(f, field, value) = [g EXCEPT !.status = "available"]
    BY DEF Item!EditInput, g, p
  <1>6. \E status \in {"available", "in-use", g.status} :
           Item!NewInput(f, field, value) = g \/ Item!NewInput(f, field, value) = [g EXCEPT !.status = status]
    BY DEF Item!NewInput, g, p
  <1>7. Item!EditInput(f, field, value) \in Item!Record
    BY <1>3, <1>4, <1>5, StatusSet
  <1>8. /\ Item!NewInput(f, field, value) \in Item!Record
        /\ Unfilled(g) => Unfilled(Item!NewInput(f, field, value))
    BY <1>3, <1>4, <1>6, StatusSet
  <1> QED
    BY <1>2, <1>3, <1>7, <1>8 DEF g, p

PlacedAt(f, id, status) == [f EXCEPT !.location_id = id, !.location = PlaceNames[id], !.status = status]

LEMMA PlacedAtType ==
  ASSUME NEW f \in Item!Record, NEW id \in Item!Places, NEW status \in Item!Statuses
  PROVE  /\ PlacedAt(f, id, status) \in Item!Record
         /\ Unfilled(f) => Unfilled(PlacedAt(f, id, status))
         /\ PlacedAt(f, id, status).status = status
         /\ PlacedAt(f, id, status).location_id = id
         /\ PlacedAt(f, id, status).location = PlaceNames[id]
  <1>1. PlaceNames[id] \in Item!Texts
    BY DEF Item!Texts, Item!Places
  <1> QED
    BY <1>1 DEF PlacedAt, Item!Record, Unfilled

LEMMA EffectsType ==
  ASSUME NEW f \in Item!Record, NEW chooses \in BOOLEAN,
         preset' \in Item!Places \cup {Item!Null}, choice' \in Choices, page' \in {"list", "new", "mobile", "edit"}
  PROVE  /\ Item!AfterEffects(f, chooses) \in Item!Record
         /\ Unfilled(f) => Unfilled(Item!AfterEffects(f, chooses))
         /\ page' = "edit" => Item!AfterEffects(f, chooses) = f
  <1>1. "available" \in Item!Statuses /\ "in-use" \in Item!Statuses
    BY DEF Item!Statuses
  <1>2. ASSUME NEW g \in Item!Record
        PROVE  Item!Preset(g) \in Item!Record /\ (Unfilled(g) => Unfilled(Item!Preset(g)))
    <2>1. CASE g.location_id = Item!Null /\ preset' # Item!Null
      <3>1. Item!Preset(g) = PlacedAt(g, preset', "available")
        BY <2>1 DEF Item!Preset, PlacedAt
      <3> QED
        BY <1>1, <2>1, <3>1, PlacedAtType
    <2>2. CASE ~(g.location_id = Item!Null /\ preset' # Item!Null)
      BY <2>2 DEF Item!Preset
    <2> QED
      BY <2>1, <2>2
  <1>3. ASSUME NEW g \in Item!Record
        PROVE  Item!Chosen(g) \in Item!Record /\ (Unfilled(g) => Unfilled(Item!Chosen(g)))
    <2>1. CASE choice'.kind = "show"
      <3>1. Item!Chosen(g) = [g EXCEPT !.status = "in-use"]
        BY <2>1 DEF Item!Chosen
      <3> QED
        BY <1>1, <3>1, StatusSet
    <2>2. CASE choice'.kind \in {"location", "installation"}
      <3>1. choice'.place \in Item!Places
        BY <2>2, EquipmentAssumption
      <3>2. Item!Chosen(g) = PlacedAt(g, choice'.place, "in-use")
        BY <2>2 DEF Item!Chosen, PlacedAt
      <3> QED
        BY <1>1, <3>1, <3>2, PlacedAtType
    <2>3. CASE choice'.kind \notin {"show", "location", "installation"}
      BY <2>3 DEF Item!Chosen
    <2> QED
      BY <2>1, <2>2, <2>3
  <1> DEFINE e == Item!AfterEffects(f, chooses)
  <1>4. CASE page' = "new"
    <2>1. e = Item!Chosen(Item!Preset(f)) \/ e = Item!Preset(f)
      BY <1>4 DEF Item!AfterEffects
    <2> QED
      BY <1>2, <1>3, <1>4, <2>1
  <1>5. CASE page' = "mobile"
    <2>1. e = Item!Preset(f)
      BY <1>5 DEF Item!AfterEffects
    <2> QED
      BY <1>2, <1>5, <2>1
  <1>6. CASE page' \notin {"new", "mobile"}
    <2>1. e = f
      BY <1>6 DEF Item!AfterEffects
    <2> QED
      BY <2>1
  <1> QED
    BY <1>4, <1>5, <1>6
-----------------------------------------------------------------------------
(* The actions of the forms: those that leave the row alone *)
LEMMA FormPages ==
  ASSUME FormInv,
         \/ Item!OpenEdit \/ Item!Fetch \/ Item!FetchArrives \/ Item!TypeRequired
         \/ Item!SubmitFails \/ Item!Cancel \/ \E kind \in {"new", "mobile"} : Item!OpenNew(kind)
  PROVE  FormInv' /\ UNCHANGED record
  <1>1. CASE Item!OpenEdit
    <2>1. /\ page = "list" /\ page' = "edit" /\ record # Item!NoRecord
          /\ UNCHANGED <<record, form, shown, edits, fetched, preset, choice, sent, asked>>
      BY <1>1 DEF Item!OpenEdit, Item!Exists, Item!recordVars
    <2> QED
      BY <2>1 DEF FormInv, FormTypes, SomeColumns
  <1>2. ASSUME NEW kind \in {"new", "mobile"}, Item!OpenNew(kind)
        PROVE  FormInv' /\ UNCHANGED record
    <2>1. /\ page = "list" /\ page' = kind
          /\ UNCHANGED <<record, form, shown, edits, fetched, preset, choice, sent, asked>>
      BY <1>2 DEF Item!OpenNew, Item!recordVars
    <2> QED
      BY <2>1 DEF FormInv, FormTypes, SomeColumns, Unfilled
  <1>3. CASE Item!Fetch
    <2>1. /\ page = "edit" /\ fetched' = record
          /\ UNCHANGED <<record, page, form, shown, edits, preset, choice, sent, asked>>
      BY <1>3 DEF Item!Fetch, Item!recordVars
    <2> QED
      BY <2>1 DEF FormInv, FormTypes, SomeColumns
  <1>4. CASE Item!FetchArrives
    <2>1. /\ page = "edit" /\ fetched # Item!NoRecord /\ form' = Item!Filled(fetched)
          /\ shown' = fetched /\ fetched' = Item!NoRecord /\ edits' = Item!NoEdits
          /\ UNCHANGED <<record, page, preset, choice, sent, asked>>
      BY <1>4 DEF Item!FetchArrives, Item!recordVars
    <2>2. fetched \in Item!Record
      BY <2>1 DEF FormInv, FormTypes
    <2>3. Item!Filled(fetched) \in Item!Record
      BY <2>2, SetColumns DEF Item!Filled
    <2>4. DOMAIN edits' \subseteq Item!Columns
      BY <2>1 DEF Item!NoEdits, Item!NoCall
    <2> QED
      BY <2>1, <2>2, <2>3, <2>4 DEF FormInv, FormTypes, SomeColumns
  <1>5. CASE Item!TypeRequired
    <2>1. /\ page = "edit" /\ shown = Item!NoRecord /\ edits' = [c \in {"type, brand and model"} |-> TRUE]
          /\ UNCHANGED <<record, page, form, shown, fetched, preset, choice, sent, asked>>
      BY <1>5 DEF Item!TypeRequired, Item!recordVars
    <2>2. DOMAIN edits' = {"type, brand and model"}
      BY <2>1
    <2> QED
      BY <2>1, <2>2 DEF FormInv, FormTypes, SomeColumns
  <1>6. CASE Item!SubmitFails
    <2>1. /\ sent' = Item!NoCall
          /\ UNCHANGED <<record, page, form, shown, edits, fetched, preset, choice>>
      BY <1>6 DEF Item!SubmitFails, Item!recordVars
    <2> QED
      BY <2>1 DEF FormInv, FormTypes, Unfilled
  <1>7. CASE Item!Cancel
    <2>1. Item!Leave /\ UNCHANGED record
      BY <1>7 DEF Item!Cancel, Item!recordVars
    <2>2. record' \in Item!Record \cup {Item!NoRecord} /\ (record' # Item!NoRecord => Item!Hook(record', PlaceNames) = record')
      BY <2>1 DEF FormInv, FormTypes
    <2> QED
      BY <2>1, <2>2, LeaveTypes, FormLeaves
  <1> QED
    BY <1>1, <1>2, <1>3, <1>4, <1>5, <1>6, <1>7

LEMMA FormTyped ==
  ASSUME FormInv, NEW field \in Item!Columns, NEW value \in Item!ValuesOf(field), Item!Type(field, value)
  PROVE  FormInv' /\ UNCHANGED record
  <1> DEFINE f == CASE page = "edit" -> Item!EditInput(form, field, value)
                    [] page = "new" -> Item!NewInput(form, field, value)
                    [] OTHER -> Item!Coupled(Item!Pick(form, field, value), field, value)
             chooses == f.status # form.status \/ f.quantity # form.quantity
  <1>1. /\ field \in Item!Fields /\ sent = Item!NoCall
        /\ edits' = [c \in DOMAIN edits \cup {field} |-> IF c = field THEN value ELSE edits[c]]
        /\ UNCHANGED <<record, page, shown, fetched, preset, choice, sent, asked>>
        /\ form' = Item!AfterEffects(f, chooses)
    BY DEF Item!Type, Item!Sending, Item!recordVars
  <1>2. form \in Item!Record /\ page \in {"list", "new", "mobile", "edit"}
    BY DEF FormInv, FormTypes
  <1>3. page # "edit" => field \in Item!NewFields /\ page \in {"new", "mobile"}
    BY <1>1, <1>2 DEF Item!Fields, Item!NewFields, Item!MobileFields
  <1>4. f \in Item!Record
    BY <1>2, InputType
  <1>5. page # "edit" => Unfilled(f)
    BY <1>2, <1>3, InputType DEF FormInv
  <1>6. chooses \in BOOLEAN
    OBVIOUS
  <1>7. preset' \in Item!Places \cup {Item!Null} /\ choice' \in Choices /\ page' \in {"list", "new", "mobile", "edit"}
    BY <1>1 DEF FormInv, FormTypes
  <1> HIDE DEF f, chooses
  <1>8. form' \in Item!Record /\ (Unfilled(f) => Unfilled(form'))
    BY <1>1, <1>4, <1>6, <1>7, EffectsType
  <1>9. DOMAIN edits' = DOMAIN edits \cup {field}
    BY <1>1
  <1>10. edits' # Item!NoEdits
    BY <1>9 DEF Item!NoEdits, Item!NoCall
  <1>11. FormTypes'
    BY <1>1, <1>8, <1>9 DEF FormInv, FormTypes
  <1> QED
    BY <1>1, <1>3, <1>5, <1>8, <1>10, <1>11 DEF FormInv, Unfilled

LEMMA FormPreset ==
  ASSUME FormInv,
         (\E place \in Item!Places : Item!PresetArrives(place)) \/ \E c \in Choices : Item!Choose(c)
  PROVE  FormInv' /\ UNCHANGED record
  <1>1. /\ page \in {"new", "mobile"} /\ (page = "new" \/ choice' = choice)
        /\ UNCHANGED <<record, page, shown, edits, fetched, sent, asked>>
        /\ preset' \in Item!Places \cup {Item!Null} /\ choice' \in Choices
        /\ \E chooses \in BOOLEAN : form' = Item!AfterEffects(form, chooses)
    <2>1. ASSUME NEW place \in Item!Places, Item!PresetArrives(place)
          PROVE  /\ page \in {"new", "mobile"} /\ choice' = choice
                 /\ UNCHANGED <<record, page, shown, edits, fetched, sent, asked>>
                 /\ preset' = place
                 /\ form' = Item!AfterEffects(form, choice.kind # "storage")
      BY <2>1 DEF Item!PresetArrives, Item!recordVars
    <2>2. ASSUME NEW c \in Choices, Item!Choose(c)
          PROVE  /\ page = "new" /\ choice' = c /\ preset' = preset
                 /\ UNCHANGED <<record, page, shown, edits, fetched, sent, asked>>
                 /\ form' = Item!AfterEffects(form, TRUE)
      BY <2>2 DEF Item!Choose, Item!recordVars
    <2>3. choice \in Choices /\ preset \in Item!Places \cup {Item!Null}
      BY DEF FormInv, FormTypes
    <2> QED
      BY <2>1, <2>2, <2>3
  <1>2. form \in Item!Record /\ Unfilled(form) /\ page' \in {"list", "new", "mobile", "edit"}
    BY <1>1 DEF FormInv, FormTypes
  <1>3. form' \in Item!Record /\ Unfilled(form')
    BY <1>1, <1>2, EffectsType
  <1>4. FormTypes'
    BY <1>1, <1>3 DEF FormInv, FormTypes
  <1> QED
    BY <1>1, <1>3, <1>4 DEF FormInv, Unfilled

LEMMA FormSubmits ==
  ASSUME FormInv, Item!SubmitNew
  PROVE  FormInv' /\ UNCHANGED record
  <1> DEFINE g == Item!ChosenAtSubmit(form)
             f == Item!Installed(g)
  <1>1. /\ page \in {"new", "mobile"} /\ asked' = Item!Asked /\ sent' = NewSent(f)
        /\ UNCHANGED <<record, page, form, shown, edits, fetched, preset, choice>>
    BY DEF Item!SubmitNew, Item!recordVars, NewSent
  <1>2. form \in Item!Record /\ Unfilled(form) /\ choice \in Choices
    BY <1>1 DEF FormInv, FormTypes
  <1>3. asked'.choice = choice
    BY <1>1 DEF Item!Asked
  <1>4. "in-use" \in Item!Statuses /\ "fixed" \in InstallationTypes /\ 1 \in 0..MaxUnits /\ "" \in Item!Texts
    BY RecAssumption DEF Item!Statuses, Item!Texts
  <1>5. f \in Item!Record /\ AsChosen(f, choice)
    <2>1. CASE choice.kind = "storage"
      BY <1>2, <2>1 DEF Item!ChosenAtSubmit, Item!Installed, AsChosen
    <2>2. CASE choice.kind = "show"
      <3>1. f = [form EXCEPT !.status = "in-use"]
        BY <2>2 DEF Item!ChosenAtSubmit, Item!Installed
      <3>2. f \in Item!Record /\ Unfilled(f)
        BY <1>2, <1>4, <3>1, StatusSet
      <3>3. f.status = "in-use"
        BY <1>2, <3>1 DEF Item!Record
      <3> HIDE DEF f
      <3> QED
        BY <2>2, <3>2, <3>3 DEF AsChosen
    <2>3. CASE choice.kind \in {"location", "installation"}
      <3>1. choice.place \in Item!Places
        BY <1>2, <2>3, EquipmentAssumption
      <3>2. g = PlacedAt(form, choice.place, "in-use")
        BY <2>3 DEF Item!ChosenAtSubmit, PlacedAt
      <3> HIDE DEF g
      <3>3. /\ g \in Item!Record /\ Unfilled(g) /\ g.status = "in-use"
            /\ g.location_id = choice.place /\ g.location = PlaceNames[choice.place]
        <4> DEFINE p == PlacedAt(form, choice.place, "in-use")
        <4>1. /\ p \in Item!Record /\ (Unfilled(form) => Unfilled(p)) /\ p.status = "in-use"
              /\ p.location_id = choice.place /\ p.location = PlaceNames[choice.place]
          <5>1. ASSUME NEW id \in Item!Places, NEW status \in Item!Statuses
                PROVE  /\ PlacedAt(form, id, status) \in Item!Record
                       /\ Unfilled(form) => Unfilled(PlacedAt(form, id, status))
                       /\ PlacedAt(form, id, status).status = status
                       /\ PlacedAt(form, id, status).location_id = id
                       /\ PlacedAt(form, id, status).location = PlaceNames[id]
            BY <1>2, PlacedAtType
          <5>2. choice.place \in Item!Places /\ "in-use" \in Item!Statuses
            BY <1>4, <3>1
          <5>3. p \in Item!Record
            BY <5>1, <5>2
          <5>4. Unfilled(form) => Unfilled(p)
            BY <5>1, <5>2
          <5>5. p.status = "in-use"
            BY <5>1, <5>2
          <5>6. p.location_id = choice.place
            BY <5>1, <5>2
          <5>7. p.location = PlaceNames[choice.place]
            BY <5>1, <5>2
          <5> QED
            BY <5>3, <5>4, <5>5, <5>6, <5>7
        <4>2. g = p
          BY <3>2
        <4> HIDE DEF p
        <4> QED
          BY <1>2, <4>1, <4>2
      <3>4. CASE choice.kind = "location"
        <4>1. f = g
          BY <3>4 DEF Item!Installed
        <4> HIDE DEF f
        <4> QED
          BY <3>3, <3>4, <4>1 DEF AsChosen
      <3>5. CASE choice.kind = "installation"
        <4>1. page = "new" /\ choice.place \in Sites
          <5>1. choice # Item!StorageChoice
            BY <3>5 DEF Item!StorageChoice
          <5> QED
            BY <1>2, <3>5, <5>1, EquipmentAssumption DEF FormInv
        <4>2. f = [g EXCEPT !.installation_type = "fixed", !.installation_location_id = choice.place,
                            !.installation_location = "", !.installation_quantity = 1]
          BY <3>5, <4>1 DEF Item!Installed
        <4> HIDE DEF f
        <4>3. /\ f \in Item!Record /\ f.status = g.status /\ f.location_id = g.location_id
              /\ f.location = g.location /\ f.installation_type = "fixed"
              /\ f.installation_location_id = choice.place /\ f.installation_location = ""
              /\ f.installation_quantity = 1
          BY <1>4, <3>3, <4>1, <4>2 DEF Item!Record
        <4> QED
          BY <3>3, <3>5, <4>3 DEF AsChosen
      <3> QED
        BY <2>3, <3>4, <3>5
    <2> QED
      BY <1>2, <2>1, <2>2, <2>3, EquipmentAssumption
  <1> HIDE DEF f
  <1>6. SomeColumns(NewSent(f))
    BY <1>5, WithoutColumns DEF NewSent
  <1>7. FormTypes'
    BY <1>1, <1>6 DEF FormInv, FormTypes, SomeColumns
  <1>8. \E r \in Item!Record : sent' = NewSent(r) /\ AsChosen(r, asked'.choice)
    BY <1>1, <1>3, <1>5
  <1> QED
    BY <1>1, <1>2, <1>3, <1>7, <1>8 DEF FormInv, Unfilled, AsChosen, NewSent

LEMMA FormSubmitsEdit ==
  ASSUME FormInv, Item!SubmitEdit
  PROVE  FormInv' /\ UNCHANGED record
  <1>1. /\ page = "edit" /\ asked' = Item!Asked /\ sent' = EditSent(form)
        /\ UNCHANGED <<record, page, form, shown, edits, fetched, preset, choice>>
    BY DEF Item!SubmitEdit, Item!recordVars, EditSent
  <1>2. form \in Item!Record
    BY DEF FormInv, FormTypes
  <1>3. SomeColumns(EditSent(form))
    BY <1>2, WithoutColumns DEF EditSent
  <1>4. FormTypes'
    BY <1>1, <1>3 DEF FormInv, FormTypes, SomeColumns
  <1>5. asked'.untouched # Item!NoRecord => sent' = EditSent(Item!Filled(asked'.untouched))
    <2>1. asked'.untouched = IF edits = Item!NoEdits THEN shown ELSE Item!NoRecord
      BY <1>1 DEF Item!Asked
    <2> QED
      BY <1>1, <2>1 DEF FormInv
  <1> QED
    BY <1>1, <1>4, <1>5 DEF FormInv, Unfilled, EditSent, Item!Filled
-----------------------------------------------------------------------------
(* The actions that write the row *)
LEMMA StoredIs ==
  ASSUME NEW body, SomeColumns(body), record \in Item!Record
  PROVE  /\ Item!PutRow(record, body, PlaceNames) \in Item!Record
         /\ Item!Stored(body) = Item!Hook(Item!PutRow(record, body, PlaceNames), PlaceNames)
  <1> DEFINE row == Item!PutRow(record, body, PlaceNames)
             s == Item!Hook(row, PlaceNames)
             D == {d \in Item!Columns : s[d] # record[d]}
  <1>1. row \in Item!Record
    BY PutRowType, PlacesNamed
  <1> HIDE DEF row
  <1>2. s \in Item!Record
    BY <1>1, HookFields, PlacesNamed
  <1>3. Item!Stored(body) = Item!Merged(record, [c \in D |-> s[c]])
    BY DEF Item!Stored, Item!Changes, row
  <1> HIDE DEF s
  <1>4. Item!Stored(body) \in Item!Record
    BY <1>2, <1>3, MergedType
  <1>5. \A c \in Item!Columns : Item!Merged(record, [e \in D |-> s[e]])[c] = s[c]
    BY DEF Item!Merged
  <1>6. Item!Stored(body) = s
    BY <1>2, <1>3, <1>4, <1>5, RecAt
  <1> QED
    BY <1>1, <1>6 DEF s, row

LEMMA HookedRow ==
  ASSUME NEW r \in Item!Record
  PROVE  Item!Hook(r, PlaceNames) \in Item!Record /\ Item!Hook(Item!Hook(r, PlaceNames), PlaceNames) = Item!Hook(r, PlaceNames) /\ Item!Hook(r, PlaceNames) # Item!NoRecord
  <1>1. Item!Hook(r, PlaceNames) \in Item!Record
    BY HookFields, PlacesNamed
  <1>2. Item!Hook(r, PlaceNames).quantity # 0
    BY <1>1, RecordFields
  <1> QED
    BY <1>1, <1>2, HookTwice, PlacesNamed DEF Item!NoRecord

LEMMA NoCallColumns ==
  ASSUME NEW r \in Item!Record
  PROVE  SomeColumns(Item!NoCall)
  <1>1. Item!NoCall = [c \in {} |-> r[c]]
    BY DEF Item!NoCall
  <1> QED
    BY <1>1 DEF SomeColumns

(* Somebody else writes the row while a form is open. *)
LEMMA FormElsewhere ==
  ASSUME FormInv,
         Item!ChangePicture \/ Item!BrokenElsewhere \/ \E place \in Item!Places : Item!MovedElsewhere(place)
  PROVE  FormInv' /\ record # Item!NoRecord
  <1>1. page = "edit" /\ UNCHANGED <<page, form, shown, edits, fetched, preset, choice, sent, asked>>
    BY DEF Item!ChangePicture, Item!BrokenElsewhere, Item!MovedElsewhere, Item!formVars
  <1>2. record \in Item!Record /\ record # Item!NoRecord
    BY <1>1 DEF FormInv, FormTypes
  <1>3. \E r \in Item!Record : record' = Item!Hook(r, PlaceNames)
    <2>1. CASE Item!ChangePicture
      <3>1. record' = Item!Stored(Item!NoCall)
        BY <2>1 DEF Item!ChangePicture
      <3> QED
        BY <1>2, <3>1, NoCallColumns, StoredIs
    <2>2. CASE Item!BrokenElsewhere
      <3>1. record' = Item!Hook([record EXCEPT !.status = "broken"], PlaceNames) /\ "broken" \in Item!Statuses
        BY <2>2 DEF Item!BrokenElsewhere, Item!Statuses, Item!KeptStatuses
      <3> QED
        BY <1>2, <3>1, StatusSet
    <2>3. ASSUME NEW place \in Item!Places, Item!MovedElsewhere(place)
          PROVE  \E r \in Item!Record : record' = Item!Hook(r, PlaceNames)
      <3>1. record' = Item!Hook(PlacedAt(record, place, Item!StatusAt(PlaceNames[place], record.status)), PlaceNames)
        BY <2>3 DEF Item!MovedElsewhere, PlacedAt
      <3>2. Item!StatusAt(PlaceNames[place], record.status) \in Item!Statuses
        BY <1>2, RecordFields, StatusAtType
      <3>3. PlacedAt(record, place, Item!StatusAt(PlaceNames[place], record.status)) \in Item!Record
        BY <1>2, <3>2, PlacedAtType
      <3> QED
        BY <3>1, <3>3
    <2> QED
      BY <2>1, <2>2, <2>3
  <1>4. record' \in Item!Record /\ Item!Hook(record', PlaceNames) = record' /\ record' # Item!NoRecord
    BY <1>3, HookedRow
  <1>5. FormTypes'
    BY <1>1, <1>4 DEF FormInv, FormTypes, SomeColumns
  <1> QED
    BY <1>1, <1>2, <1>4, <1>5 DEF FormInv, Unfilled

LEMMA FormUpdates ==
  ASSUME FormInv, Item!Updates
  PROVE  /\ FormInv' /\ record \in Item!Record /\ record # Item!NoRecord
         /\ record' = Item!Hook(Item!PutRow(record, sent, PlaceNames), PlaceNames)
  <1>1. page = "edit" /\ sent # Item!NoCall /\ record' = Item!Stored(sent) /\ Item!Leave
    BY DEF Item!Updates, Item!Sending
  <1>2. record \in Item!Record /\ record # Item!NoRecord /\ SomeColumns(sent)
    BY <1>1 DEF FormInv, FormTypes
  <1>3. Item!PutRow(record, sent, PlaceNames) \in Item!Record /\ record' = Item!Hook(Item!PutRow(record, sent, PlaceNames), PlaceNames)
    BY <1>1, <1>2, StoredIs
  <1>4. record' \in Item!Record /\ Item!Hook(record', PlaceNames) = record'
    BY <1>3, HookedRow
  <1>5. FormInv'
    BY <1>1, <1>4, LeaveTypes, FormLeaves
  <1> QED
    BY <1>2, <1>3, <1>5

(* Where the columns that an untouched form sends put the item *)
LEMMA UntouchedStays ==
  ASSUME NEW r \in Item!Record, Item!Hook(r, PlaceNames) = r
  PROVE  \A c \in Item!Columns \ {"status"} :
            Item!Hook(Item!PutRow(r, EditSent(Item!Filled(r)), PlaceNames), PlaceNames)[c] = r[c]
  <1> DEFINE f == Item!Filled(r)
             body == EditSent(f)
             row == Item!PutRow(r, body, PlaceNames)
             D == Item!Columns \ ((IF r.location_id = Item!Null THEN {"location_id"} ELSE {})
                                    \cup {"installation_location_id"})
  <1>1. f \in Item!Record /\ f.installation_location_id = Item!Null
        /\ \A c \in Item!Columns \ {"installation_location_id"} : f[c] = r[c]
    BY SetColumns DEF Item!Filled, Item!Record, Item!Columns
  <1>2. f.location_id = r.location_id
    BY <1>1 DEF Item!Columns
  <1> HIDE DEF f
  <1>3. body = [c \in D |-> f[c]] /\ D \in SUBSET Item!Columns
    BY <1>1, <1>2 DEF EditSent, Item!Without
  <1>4. SomeColumns(body)
    BY <1>1, <1>3 DEF SomeColumns
  <1>5. row \in Item!Record
    BY <1>4, PutRowType, PlacesNamed
  <1>6. \A c \in D : f[c] = r[c]
    BY <1>1
  <1>7. body = [c \in D |-> r[c]]
    BY <1>3, <1>6
  <1>8. ASSUME NEW c \in Item!Columns, NEW otherwise
        PROVE  Item!Given(body, c, otherwise) = IF c \in D THEN r[c] ELSE otherwise
    BY <1>3, <1>7, GivenColumn
  <1>9. DOMAIN body = D /\ (\A c \in D : body[c] = r[c])
    BY <1>7
  <1> HIDE DEF body
  <1>10. {"quantity", "status", "location", "installation_type", "installation_location", "installation_quantity"} \subseteq D
         /\ "installation_location_id" \notin D /\ ("location_id" \in D <=> r.location_id # Item!Null)
    BY DEF Item!Columns
  <1> HIDE DEF D
  <1>11. /\ row.quantity = r.quantity /\ row.location_id = r.location_id
         /\ row.installation_type = r.installation_type
         /\ row.installation_location_id = r.installation_location_id
         /\ row.installation_location = r.installation_location
         /\ row.installation_quantity = r.installation_quantity
    <2>1. /\ Item!Given(body, "quantity", 1) = r.quantity
          /\ Item!Given(body, "location_id", r.location_id) = r.location_id
          /\ Item!Given(body, "installation_type", r.installation_type) = r.installation_type
          /\ Item!Given(body, "installation_location_id", r.installation_location_id) = r.installation_location_id
          /\ Item!Given(body, "installation_location", r.installation_location) = r.installation_location
          /\ Item!Given(body, "installation_quantity", r.installation_quantity) = r.installation_quantity
      BY <1>8, <1>10 DEF Item!Columns
    <2> QED
      BY <2>1 DEF Item!PutRow
  <1>12. r.location_id # Item!Null => row.location = PlaceNames[r.location_id]
    <2>1. SUFFICES ASSUME r.location_id # Item!Null
                   PROVE  row.location = PlaceNames[r.location_id]
      OBVIOUS
    <2>2. Item!Given(body, "location_id", r.location_id) = r.location_id
      BY <1>8, <1>10 DEF Item!Columns
    <2>3. "location_id" \in DOMAIN body /\ body.location_id = r.location_id
      BY <1>9, <1>10, <2>1
    <2>4. r.location_id \in DOMAIN PlaceNames
      BY <2>1, RecordFields DEF Item!Places
    <2> QED
      BY <2>2, <2>3, <2>4 DEF Item!PutRow
  <1>13. r.location_id = Item!Null => row.location = r.location
    <2>1. SUFFICES ASSUME r.location_id = Item!Null
                   PROVE  row.location = r.location
      OBVIOUS
    <2>2. Item!Given(body, "location", r.location) = r.location
      BY <1>8, <1>10 DEF Item!Columns
    <2>3. "location_id" \notin DOMAIN body
      BY <1>9, <1>10, <2>1
    <2> QED
      BY <2>2, <2>3 DEF Item!PutRow
  <1> HIDE DEF row
  <1>14. PlaceOf(row, PlaceNames) = PlaceOf(r, PlaceNames) /\ (Item!FixedInstallation(row) <=> Item!FixedInstallation(r))
    <2>1. r.location_id \in DOMAIN PlaceNames \/ r.location_id = Item!Null
      BY RecordFields DEF Item!Places
    <2> QED
      BY <1>11, <1>12, <1>13, <2>1 DEF PlaceOf, Item!FixedInstallation
  <1>15. Item!Hook(row, PlaceNames).location = Item!Hook(r, PlaceNames).location
    <2>1. ASSUME NEW x \in Item!Record
          PROVE  Item!Hook(x, PlaceNames).location = IF Item!FixedInstallation(x) /\ x.installation_location # ""
                                           THEN x.installation_location ELSE PlaceOf(x, PlaceNames)
      BY HookFields, PlacesNamed
    <2>2. Item!Hook(row, PlaceNames).location = IF Item!FixedInstallation(row) /\ row.installation_location # ""
                                      THEN row.installation_location ELSE PlaceOf(row, PlaceNames)
      BY <1>5, <2>1
    <2>3. Item!Hook(r, PlaceNames).location = IF Item!FixedInstallation(r) /\ r.installation_location # ""
                                    THEN r.installation_location ELSE PlaceOf(r, PlaceNames)
      BY <2>1
    <2> QED
      BY <1>11, <1>14, <2>2, <2>3
  <1>16. \A c \in Item!Columns \ {"location", "status"} : Item!Hook(row, PlaceNames)[c] = row[c]
    BY <1>5, HookFields, PlacesNamed
  <1>17. \A c \in Item!Columns \ {"location", "status"} : row[c] = r[c]
    BY <1>11 DEF Item!Columns
  <1>18. \A c \in Item!Columns \ {"status"} : Item!Hook(row, PlaceNames)[c] = r[c]
    BY <1>15, <1>16, <1>17
  <1> QED
    BY <1>18 DEF row, body, f

LEMMA FormSavesUntouched ==
  ASSUME FormInv PROVE Item!SavesUntouched
  <1> SUFFICES ASSUME Item!Updates, asked.untouched = record
               PROVE  \A c \in Item!Columns \ {"status"} : record'[c] = record[c]
    BY DEF Item!SavesUntouched
  <1>1. record \in Item!Record /\ record # Item!NoRecord /\ record' = Item!Hook(Item!PutRow(record, sent, PlaceNames), PlaceNames)
    BY FormUpdates
  <1>2. sent # Item!NoCall /\ page = "edit"
    BY DEF Item!Updates, Item!Sending
  <1>3. sent = EditSent(Item!Filled(record)) /\ Item!Hook(record, PlaceNames) = record
    BY <1>1, <1>2 DEF FormInv
  <1> QED
    BY <1>1, <1>3, UntouchedStays
-----------------------------------------------------------------------------
(* The row that POST makes of what the page of a new item sends *)
LEMMA CreatedFromForm ==
  ASSUME NEW f \in Item!Record, NEW storage \in Item!Places, NEW c, AsChosen(f, c),
         c.kind \in {"storage", "show", "location", "installation"},
         c.kind \in {"location", "installation"} => c.place \in Item!Places
  PROVE  LET row == Item!Hook(Item!Created(NewSent(f), storage, PlaceNames), PlaceNames) IN
         /\ row \in Item!Record /\ Item!Hook(row, PlaceNames) = row
         /\ c.kind \in {"location", "installation"} => row.location = PlaceNames[c.place]
         /\ c.kind # "storage" => row.status = "in-use" \/ row.location = Item!Lager
  <1> DEFINE body == NewSent(f)
             D == Item!Columns \ (IF f.location_id = Item!Null THEN {"location_id"} ELSE {})
             type == Item!Given(body, "installation_type", "portable")
             installed_id == Item!Given(body, "installation_location_id", Item!Null)
             installed_text == Item!Given(body, "installation_location", "")
             location_id == Item!Given(body, "location_id", Item!Null)
             text == Item!Given(body, "location", "")
             is_installed == /\ type # "portable"
                             /\ \/ installed_id \in DOMAIN PlaceNames
                                \/ installed_id = Item!Null /\ installed_text # ""
             listed_id == IF location_id # Item!Null THEN location_id
                          ELSE IF text # "" THEN Item!Null ELSE storage
             current_id == IF listed_id \in DOMAIN PlaceNames THEN listed_id ELSE Item!Null
             current == IF is_installed
                          THEN IF installed_id # Item!Null THEN PlaceNames[installed_id] ELSE installed_text
                          ELSE IF current_id # Item!Null THEN PlaceNames[current_id] ELSE text
             units == Item!Given(body, "quantity", 1)
             given_status == Item!Given(body, "status", "available")
             status == IF type # "portable" THEN "in-use" ELSE given_status
             fixed == Item!Given(body, "installation_quantity", 0)
             at == IF is_installed THEN location_id ELSE current_id
             place == IF current # "" THEN current ELSE text
             r == [quantity |-> units, status |-> status, location_id |-> at, location |-> place,
                   installation_type |-> type, installation_location_id |-> installed_id,
                   installation_location |-> installed_text, installation_quantity |-> fixed]
  <1>1. Item!Created(body, storage, PlaceNames) = r
    BY DEF Item!Created
  <1>2. body = [d \in D |-> f[d]] /\ D \in SUBSET Item!Columns
    BY DEF NewSent, Item!Without
  <1> HIDE DEF body
  <1>3. ASSUME NEW d \in Item!Columns, NEW otherwise
        PROVE  Item!Given(body, d, otherwise) = IF d \in D THEN f[d] ELSE otherwise
    BY <1>2, GivenColumn
  <1>4. /\ Item!Columns \ {"location_id"} \subseteq D
        /\ "location_id" \in D <=> f.location_id # Item!Null
    BY DEF Item!Columns
  <1> HIDE DEF D
  <1>5. /\ type = f.installation_type /\ installed_id = f.installation_location_id
        /\ installed_text = f.installation_location /\ location_id = f.location_id
        /\ text = f.location /\ units = f.quantity /\ given_status = f.status
        /\ fixed = f.installation_quantity
    BY <1>3, <1>4 DEF Item!Columns
  <1> HIDE DEF type, installed_id, installed_text, location_id, text, units, given_status, fixed
  <1>6. /\ "" \in Item!Texts /\ (\A id \in Item!Places : PlaceNames[id] \in Item!Texts) /\ Sites \subseteq Item!Places
        /\ "in-use" \in Item!Statuses
    BY RecAssumption DEF Item!Texts, Item!Places, Item!Statuses
  <1>7. current_id \in Item!Places \cup {Item!Null}
    BY DEF Item!Places
  <1> HIDE DEF current_id
  <1>8. current \in Item!Texts
    <2>1. installed_id \in Sites \cup {Item!Null} /\ installed_text \in Item!Texts /\ text \in Item!Texts
      BY <1>5, RecordFields
    <2> QED
      BY <2>1, <1>6, <1>7
  <1>9. place \in Item!Texts
    BY <1>5, <1>8, RecordFields
  <1>10. at \in Item!Places \cup {Item!Null}
    BY <1>5, <1>7, RecordFields
  <1>11. status \in Item!Statuses
    BY <1>5, <1>6, RecordFields
  <1>12. r \in Item!Record
    <2>1. /\ units \in 1..MaxUnits /\ type \in InstallationTypes
          /\ installed_id \in Sites \cup {Item!Null} /\ installed_text \in Item!Texts
          /\ fixed \in 0..MaxUnits
      BY <1>5, RecordFields
    <2> HIDE DEF current, place, at, status
    <2> QED
      BY <2>1, <1>9, <1>10, <1>11 DEF Item!Record
  <1>13. /\ r.status = status /\ r.location_id = at /\ r.location = place
         /\ r.installation_type = type /\ r.installation_location = installed_text
         /\ r.installation_quantity = fixed
    OBVIOUS
  <1>14. /\ Item!Hook(r, PlaceNames).location = IF Item!FixedInstallation(r) /\ installed_text # ""
                                      THEN installed_text ELSE PlaceOf(r, PlaceNames)
         /\ Item!Hook(r, PlaceNames).status =
              IF status \in Item!KeptStatuses THEN status
              ELSE IF Item!FixedInstallation(r) THEN "in-use"
              ELSE IF PlaceOf(r, PlaceNames) = Item!Lager THEN "available" ELSE status
    <2> HIDE DEF r
    <2> QED
      BY <1>12, <1>13, HookFields, PlacesNamed
  <1>15. PlaceOf(r, PlaceNames) = IF at # Item!Null THEN PlaceNames[at] ELSE place
    BY <1>10, <1>13, RecAssumption DEF PlaceOf, Item!Places, Item!Null
  <1>16. Item!FixedInstallation(r) <=> (type = "fixed" /\ fixed > 0)
    BY <1>13 DEF Item!FixedInstallation
  <1>17. Item!Hook(r, PlaceNames) \in Item!Record /\ Item!Hook(Item!Hook(r, PlaceNames), PlaceNames) = Item!Hook(r, PlaceNames)
    BY <1>12, HookedRow
  <1> HIDE DEF r
  <1>18. c.kind # "storage" => installed_text = "" /\ status = "in-use"
    BY <1>5 DEF AsChosen, Unfilled
  <1>19. c.kind \in {"location", "installation"} => location_id = c.place
    BY <1>5 DEF AsChosen
  <1>20. c.kind \in {"location", "installation"} => at = c.place /\ at # Item!Null
    BY <1>19, EquipmentAssumption DEF current_id, Item!Places
  <1>21. c.kind \in {"location", "installation"} => Item!Hook(r, PlaceNames).location = PlaceNames[c.place]
    BY <1>14, <1>15, <1>18, <1>20
  <1>22. c.kind # "storage" => Item!Hook(r, PlaceNames).status = "in-use" \/ Item!Hook(r, PlaceNames).location = Item!Lager
    BY <1>14, <1>18 DEF Item!KeptStatuses
  <1> QED
    BY <1>1, <1>17, <1>21, <1>22 DEF body

LEMMA FormCreates ==
  ASSUME FormInv, NEW storage \in Item!Places, Item!Creates(storage)
  PROVE  FormInv' /\ Item!CreatesAsChosen
  <1>1. page \in {"new", "mobile"} /\ sent # Item!NoCall /\ record' = Item!Hook(Item!Created(sent, storage, PlaceNames), PlaceNames) /\ Item!Leave
    BY DEF Item!Creates, Item!Sending
  <1>2. PICK f \in Item!Record : sent = NewSent(f) /\ AsChosen(f, asked.choice)
    BY <1>1 DEF FormInv
  <1>3. asked.choice \in Choices
    BY <1>1 DEF FormInv
  <1>4. /\ asked.choice.kind \in {"storage", "show", "location", "installation"}
        /\ asked.choice.kind \in {"location", "installation"} => asked.choice.place \in Item!Places
    BY <1>3, EquipmentAssumption
  <1> DEFINE row == Item!Hook(Item!Created(sent, storage, PlaceNames), PlaceNames)
  <1>5. /\ row \in Item!Record /\ Item!Hook(row, PlaceNames) = row
        /\ asked.choice.kind \in {"location", "installation"} => row.location = PlaceNames[asked.choice.place]
        /\ asked.choice.kind # "storage" => row.status = "in-use" \/ row.location = Item!Lager
    BY <1>2, <1>4, CreatedFromForm
  <1>6. record' = row
    BY <1>1
  <1> HIDE DEF row
  <1>7. FormInv'
    BY <1>1, <1>5, <1>6, LeaveTypes, FormLeaves
  <1>8. Item!CreatesAsChosen
    BY <1>4, <1>5, <1>6 DEF Item!CreatesAsChosen
  <1> QED
    BY <1>7, <1>8

LEMMA FormKept ==
  ASSUME FormInv, [Item!FormsNext]_(Item!allVars)
  PROVE  FormInv' /\ Item!CreatesAsChosen
  <1>1. CASE UNCHANGED Item!allVars
    <2>1. UNCHANGED <<record, page, form, shown, edits, fetched, preset, choice, sent, asked>>
      BY <1>1 DEF Item!allVars, Item!recordVars, Item!formVars
    <2>2. FormInv'
      BY <2>1 DEF FormInv, FormTypes, SomeColumns, Unfilled, AsChosen
    <2> QED
      BY <2>1, <2>2 DEF Item!CreatesAsChosen
  <1>2. ASSUME UNCHANGED record \/ record # Item!NoRecord
        PROVE  Item!CreatesAsChosen
    BY <1>2 DEF Item!CreatesAsChosen, Item!Exists
  <1>3. ASSUME NEW field \in Item!Columns, NEW value \in Item!ValuesOf(field), Item!Type(field, value)
        PROVE  FormInv' /\ Item!CreatesAsChosen
    BY <1>2, <1>3, FormTyped
  <1>4. ASSUME NEW storage \in Item!Places, Item!Creates(storage)
        PROVE  FormInv' /\ Item!CreatesAsChosen
    BY <1>4, FormCreates
  <1>5. CASE \/ Item!OpenEdit \/ Item!Fetch \/ Item!FetchArrives \/ Item!TypeRequired
             \/ Item!SubmitFails \/ Item!Cancel \/ \E kind \in {"new", "mobile"} : Item!OpenNew(kind)
    BY <1>2, <1>5, FormPages
  <1>6. CASE (\E place \in Item!Places : Item!PresetArrives(place)) \/ \E c \in Choices : Item!Choose(c)
    BY <1>2, <1>6, FormPreset
  <1>7. CASE Item!SubmitNew
    BY <1>2, <1>7, FormSubmits
  <1>8. CASE Item!SubmitEdit
    BY <1>2, <1>8, FormSubmitsEdit
  <1>9. CASE Item!Updates
    BY <1>2, <1>9, FormUpdates
  <1>10. CASE Item!ChangePicture \/ Item!BrokenElsewhere \/ \E place \in Item!Places : Item!MovedElsewhere(place)
    BY <1>2, <1>10, FormElsewhere
  <1> QED
    BY <1>1, <1>3, <1>4, <1>5, <1>6, <1>7, <1>8, <1>9, <1>10 DEF Item!FormsNext

LEMMA FormSound == FormInv => Item!FormsTypeOK
  <1> SUFFICES ASSUME FormInv PROVE Item!FormsTypeOK
    OBVIOUS
  <1>1. DOMAIN sent \subseteq Item!Columns
    BY DEF FormInv, FormTypes, SomeColumns, Item!NoCall
  <1> QED
    BY <1>1 DEF FormInv, FormTypes, Item!FormsTypeOK
-----------------------------------------------------------------------------
(* What is left of the program of a request: a transaction is opened before *)
(* the steps that run inside it, and is what ends last.                    *)
PoolSteps == {"auth", "read", "begin", "inside", "role", "end", "unbound"}
OpenBy(steps, open, i) == open \/ \E j \in 1..(i - 1) : steps[j] = "begin"
Fits(steps, open) ==
    \A i \in 1..Len(steps) :
       /\ steps[i] \in {"auth", "begin"} => ~OpenBy(steps, open, i)
       /\ steps[i] \in {"inside", "role", "end"} => OpenBy(steps, open, i)
       /\ steps[i] = "end" => i = Len(steps)
       /\ i = Len(steps) => IF OpenBy(steps, open, i) THEN steps[i] = "end"
                                                   ELSE steps[i] \in {"read", "unbound"}

LEMMA FitsRest ==
  ASSUME NEW steps \in Seq(PoolSteps), NEW open \in BOOLEAN, steps # << >>, Fits(steps, open),
         Tail(steps) # << >>
  PROVE  Tail(steps) \in Seq(PoolSteps) /\ Fits(Tail(steps), open \/ Head(steps) = "begin")
  <1>1. /\ Tail(steps) \in Seq(PoolSteps) /\ Len(Tail(steps)) = Len(steps) - 1
        /\ \A i \in 1..(Len(steps) - 1) : Tail(steps)[i] = steps[i + 1]
        /\ Len(steps) \in Nat /\ Len(steps) > 0 /\ Head(steps) = steps[1]
    OBVIOUS
  <1>2. \A i \in 1..Len(Tail(steps)) :
          OpenBy(Tail(steps), open \/ Head(steps) = "begin", i) = OpenBy(steps, open, i + 1)
    <2> SUFFICES ASSUME NEW i \in 1..(Len(steps) - 1)
                 PROVE  OpenBy(Tail(steps), open \/ Head(steps) = "begin", i) <=> OpenBy(steps, open, i + 1)
      BY <1>1 DEF OpenBy
    <2>1. ASSUME NEW j \in 1..(i - 1), Tail(steps)[j] = "begin"
          PROVE  \E k \in 1..i : steps[k] = "begin"
      BY <1>1, <2>1
    <2>2. ASSUME NEW k \in 1..i, steps[k] = "begin"
          PROVE  Head(steps) = "begin" \/ \E j \in 1..(i - 1) : Tail(steps)[j] = "begin"
      <3>1. CASE k = 1
        BY <1>1, <2>2, <3>1
      <3>2. CASE k # 1
        <4>1. k - 1 \in 1..(i - 1) /\ Tail(steps)[k - 1] = steps[k]
          BY <1>1, <3>2
        <4> QED
          BY <2>2, <4>1
      <3> QED
        BY <3>1, <3>2
    <2>3. (i + 1) - 1 = i
      OBVIOUS
    <2> QED
      BY <2>1, <2>2, <2>3 DEF OpenBy
  <1> SUFFICES ASSUME NEW i \in 1..Len(Tail(steps))
               PROVE
       /\ Tail(steps)[i] \in {"auth", "begin"} => ~OpenBy(steps, open, i + 1)
       /\ Tail(steps)[i] \in {"inside", "role", "end"} => OpenBy(steps, open, i + 1)
       /\ Tail(steps)[i] = "end" => i = Len(Tail(steps))
       /\ i = Len(Tail(steps)) => IF OpenBy(steps, open, i + 1) THEN Tail(steps)[i] = "end"
                                 ELSE Tail(steps)[i] \in {"read", "unbound"}
    BY <1>1, <1>2 DEF Fits
  <1>3. Tail(steps)[i] = steps[i + 1] /\ i + 1 \in 1..Len(steps)
    BY <1>1
  <1>4. (i = Len(Tail(steps))) <=> (i + 1 = Len(steps))
    BY <1>1
  <1> HIDE DEF OpenBy
  <1> QED
    BY <1>3, <1>4 DEF Fits

LEMMA PoolAssumption == MaxConnections \in Nat /\ IsFiniteSet(PoolCalls)
  BY EquipmentAssumption

LEMMA FitsEnd == <<"end">> \in Seq(PoolSteps) /\ Fits(<<"end">>, TRUE)
  BY DEF Fits, OpenBy, PoolSteps
LEMMA Prepended ==
  ASSUME NEW a, NEW s \in Seq(PoolSteps)
  PROVE  /\ Len(<<a>> \o s) = Len(s) + 1
         /\ (<<a>> \o s)[1] = a
         /\ \A i \in 1..Len(s) : (<<a>> \o s)[i + 1] = s[i]
         /\ a \in PoolSteps => <<a>> \o s \in Seq(PoolSteps)
  OBVIOUS

LEMMA FitsProgram ==
  ASSUME NEW k \in Pool!Kinds
  PROVE  /\ <<"auth">> \o Pool!Program[k] \in Seq(PoolSteps)
         /\ Fits(<<"auth">> \o Pool!Program[k], FALSE)
         /\ <<"auth">> \o Pool!Program[k] # << >>
  <1> DEFINE s == Pool!Program[k]
             steps == <<"auth">> \o s
  <1>1. k = "read" \/ k = "put_allocations" \/ k = "delete_item" \/ k = "delete_file" \/ k = "upload"
        \/ k = "set_allocations"
    BY DEF Pool!Kinds, Pool!Program
  <1>2. /\ k = "read" => s = <<"read">>
        /\ k = "put_allocations" => s = <<"unbound">>
        /\ k \in {"delete_item", "delete_file"} => s = <<"begin", "inside", "end">>
        /\ k = "upload" => s = <<"begin", "role", "inside", "end">>
        /\ k = "set_allocations" => s = <<"begin", "read", "inside", "end">>
    BY DEF Pool!Program
  <1> HIDE DEF s, steps
  <1>3. ASSUME s \in Seq(PoolSteps)
        PROVE  /\ steps \in Seq(PoolSteps) /\ Len(steps) = Len(s) + 1 /\ steps # << >> /\ steps[1] = "auth"
               /\ \A i \in 1..Len(s) : steps[i + 1] = s[i]
    BY <1>3, Prepended DEF steps, PoolSteps
  <1>4. CASE k \in {"read", "put_allocations"}
    <2>0. s = <<"read">> \/ s = <<"unbound">>
      BY <1>2, <1>4
    <2>1. s \in Seq(PoolSteps) /\ Len(s) = 1 /\ s[1] \in {"read", "unbound"}
      <3>1. CASE s = <<"read">>
        BY <3>1 DEF PoolSteps
      <3>2. CASE s = <<"unbound">>
        BY <3>2 DEF PoolSteps
      <3> QED
        BY <2>0, <3>1, <3>2
    <2>2. steps \in Seq(PoolSteps) /\ Len(steps) = 2 /\ steps # << >> /\ steps[1] = "auth" /\ steps[2] = s[1]
      BY <1>3, <2>1
    <2>3. Fits(steps, FALSE)
      BY <2>1, <2>2 DEF Fits, OpenBy
    <2> QED
      BY <2>2, <2>3 DEF steps, s
  <1>5. CASE k \in {"delete_item", "delete_file"}
    <2>0. s = <<"begin", "inside", "end">>
      BY <1>2, <1>5
    <2>1. s \in Seq(PoolSteps) /\ Len(s) = 3 /\ s[1] = "begin" /\ s[2] = "inside" /\ s[3] = "end"
      BY <2>0 DEF PoolSteps
    <2>2. /\ steps \in Seq(PoolSteps) /\ Len(steps) = 4 /\ steps # << >>
          /\ steps[1] = "auth" /\ steps[2] = "begin" /\ steps[3] = "inside" /\ steps[4] = "end"
      BY <1>3, <2>1
    <2>3. Fits(steps, FALSE)
      BY <2>2 DEF Fits, OpenBy
    <2> QED
      BY <2>2, <2>3 DEF steps, s
  <1>6. CASE k \in {"upload", "set_allocations"}
    <2>0. s = <<"begin", "role", "inside", "end">> \/ s = <<"begin", "read", "inside", "end">>
      BY <1>2, <1>6
    <2>1. /\ s \in Seq(PoolSteps) /\ Len(s) = 4
          /\ s[1] = "begin" /\ s[2] \in {"read", "role"} /\ s[3] = "inside" /\ s[4] = "end"
      <3>1. CASE s = <<"begin", "role", "inside", "end">>
        BY <3>1 DEF PoolSteps
      <3>2. CASE s = <<"begin", "read", "inside", "end">>
        BY <3>2 DEF PoolSteps
      <3> QED
        BY <2>0, <3>1, <3>2
    <2>2. /\ steps \in Seq(PoolSteps) /\ Len(steps) = 5 /\ steps # << >>
          /\ steps[1] = "auth" /\ steps[2] = "begin" /\ steps[3] \in {"read", "role"}
          /\ steps[4] = "inside" /\ steps[5] = "end"
      BY <1>3, <2>1
    <2>3. Fits(steps, FALSE)
      BY <2>2 DEF Fits, OpenBy
    <2> QED
      BY <2>2, <2>3 DEF steps, s
  <1> QED
    BY <1>1, <1>4, <1>5, <1>6
-----------------------------------------------------------------------------
(* How many connections the requests hold, and how one request changes it  *)
Held(f, n) == {h \in PoolCalls : f[h] >= n}
HeldBy(f) == Cardinality(Held(f, 1)) + Cardinality(Held(f, 2))

LEMMA HeldIs == \A f : HeldBy(f) \in Nat
  <1> SUFFICES ASSUME NEW f PROVE HeldBy(f) \in Nat
    OBVIOUS
  <1>1. ASSUME NEW n PROVE Cardinality(Held(f, n)) \in Nat
    BY EquipmentAssumption, FS_Subset, FS_CardinalityType DEF Held
  <1>2. Cardinality(Held(f, 1)) \in Nat /\ Cardinality(Held(f, 2)) \in Nat
    BY <1>1
  <1> QED
    BY <1>2 DEF HeldBy

LEMMA HeldOne ==
  ASSUME NEW f \in [PoolCalls -> 0..2], NEW h \in PoolCalls, NEW n \in 1..2, NEW k \in 0..2
  PROVE  Cardinality(Held([f EXCEPT ![h] = k], n))
           = Cardinality(Held(f, n)) + (IF k >= n THEN 1 ELSE 0) - (IF f[h] >= n THEN 1 ELSE 0)
  <1> DEFINE g == [f EXCEPT ![h] = k]
             others == Held(f, n) \ {h}
  <1>1. IsFiniteSet(Held(f, n)) /\ IsFiniteSet(others)
    BY EquipmentAssumption, FS_Subset DEF Held
  <1>2. Cardinality(others) \in Nat
    BY <1>1, FS_CardinalityType
  <1>3. Cardinality(others \cup {h}) = Cardinality(others) + 1
    BY <1>1, FS_AddElement
  <1>4. ASSUME NEW e \in [PoolCalls -> 0..2], \A x \in PoolCalls \ {h} : e[x] = f[x]
        PROVE  Held(e, n) = IF e[h] >= n THEN others \cup {h} ELSE others
    BY <1>4 DEF Held
  <1>5. g \in [PoolCalls -> 0..2] /\ g[h] = k /\ \A x \in PoolCalls \ {h} : g[x] = f[x]
    OBVIOUS
  <1> HIDE DEF g, others
  <1>6. Held(g, n) = IF k >= n THEN others \cup {h} ELSE others
    BY <1>4, <1>5
  <1>7. Held(f, n) = IF f[h] >= n THEN others \cup {h} ELSE others
    BY <1>4
  <1>8. f[h] \in 0..2
    OBVIOUS
  <1>9. Cardinality(Held(g, n)) = Cardinality(others) + (IF k >= n THEN 1 ELSE 0)
    BY <1>2, <1>3, <1>6
  <1>10. Cardinality(Held(f, n)) = Cardinality(others) + (IF f[h] >= n THEN 1 ELSE 0)
    BY <1>2, <1>3, <1>7
  <1>11. Cardinality(Held(g, n))
           = Cardinality(Held(f, n)) + (IF k >= n THEN 1 ELSE 0) - (IF f[h] >= n THEN 1 ELSE 0)
    BY <1>2, <1>8, <1>9, <1>10
  <1> QED
    BY <1>11 DEF g

LEMMA HeldChange ==
  ASSUME NEW f \in [PoolCalls -> 0..2], NEW h \in PoolCalls, NEW k \in 0..2
  PROVE  HeldBy([f EXCEPT ![h] = k]) = HeldBy(f) + k - f[h]
  <1>0. 1 \in 1..2 /\ 2 \in 1..2
    OBVIOUS
  <1>1. Cardinality(Held([f EXCEPT ![h] = k], 1))
           = Cardinality(Held(f, 1)) + (IF k >= 1 THEN 1 ELSE 0) - (IF f[h] >= 1 THEN 1 ELSE 0)
    BY <1>0, HeldOne
  <1>2. Cardinality(Held([f EXCEPT ![h] = k], 2))
           = Cardinality(Held(f, 2)) + (IF k >= 2 THEN 1 ELSE 0) - (IF f[h] >= 2 THEN 1 ELSE 0)
    BY <1>0, HeldOne
  <1>3. Cardinality(Held(f, 1)) \in Nat /\ Cardinality(Held(f, 2)) \in Nat
    BY EquipmentAssumption, FS_Subset, FS_CardinalityType DEF Held
  <1>4. f[h] \in 0..2
    OBVIOUS
  <1> QED
    BY <1>1, <1>2, <1>3, <1>4 DEF HeldBy

LEMMA HeldNone == HeldBy([h \in PoolCalls |-> 0]) = 0
  <1>1. Held([h \in PoolCalls |-> 0], 1) = {} /\ Held([h \in PoolCalls |-> 0], 2) = {}
    BY DEF Held
  <1> QED
    BY <1>1, FS_EmptySet DEF HeldBy
-----------------------------------------------------------------------------
(* The requests of the pool                                                *)
PoolCall == {c \in [kind : Pool!Kinds, todo : Seq(PoolSteps) \ {<< >>}, open : BOOLEAN, has : BOOLEAN] :
                Fits(c.todo, c.open) /\ (c.has => Head(c.todo) \in Pool!Needs)}
HoldOf(c) == IF c = Pool!NoCall THEN 0
             ELSE (IF c.open THEN 1 ELSE 0) + (IF c.has THEN 1 ELSE 0)
Holdings == [h \in PoolCalls |-> HoldOf(pool_calls[h])]

PoolInv ==
    /\ pool_calls \in [PoolCalls -> PoolCall \cup {Pool!NoCall}]
    /\ free \in Nat /\ lost \in Nat
    /\ free + lost + HeldBy(Holdings) = MaxConnections

LEMMA PoolCallFacts ==
  ASSUME NEW c \in PoolCall
  PROVE  /\ c # Pool!NoCall /\ c.kind \in Pool!Kinds
         /\ c.todo \in Seq(PoolSteps) /\ c.todo # << >>
         /\ c.open \in BOOLEAN /\ c.has \in BOOLEAN /\ Fits(c.todo, c.open)
         /\ Head(c.todo) \in PoolSteps
         /\ Head(c.todo) \in {"auth", "begin"} => ~c.open
         /\ Head(c.todo) \in {"inside", "role", "end"} => c.open
         /\ Head(c.todo) = "end" => Tail(c.todo) = << >>
         /\ Tail(c.todo) = << >> => IF c.open THEN Head(c.todo) = "end" ELSE Head(c.todo) \in {"read", "unbound"}
         /\ c.has => Head(c.todo) \in Pool!Needs
         /\ HoldOf(c) = (IF c.open THEN 1 ELSE 0) + (IF c.has THEN 1 ELSE 0)
  <1>1. /\ c.kind \in Pool!Kinds /\ c.todo \in Seq(PoolSteps) /\ c.todo # << >>
        /\ c.open \in BOOLEAN /\ c.has \in BOOLEAN
        /\ Fits(c.todo, c.open) /\ (c.has => Head(c.todo) \in Pool!Needs)
    BY DEF PoolCall
  <1>2. c # Pool!NoCall
    BY <1>1 DEF Pool!NoCall, Pool!Kinds, Pool!Program
  <1> DEFINE t == c.todo
  <1>3. /\ 1 \in 1..Len(t) /\ Head(t) = t[1] /\ Head(t) \in PoolSteps
        /\ (Tail(t) = << >>) <=> (Len(t) = 1)
    <2>1. t \in Seq(PoolSteps) /\ t # << >>
      BY <1>1
    <2> HIDE DEF t
    <2>2. Len(t) \in Nat /\ Len(t) > 0 /\ Head(t) = t[1] /\ t[1] \in PoolSteps
      BY <2>1
    <2>3. Tail(t) \in Seq(PoolSteps) /\ Len(Tail(t)) = Len(t) - 1
      BY <2>1
    <2>4. (Tail(t) = << >>) <=> (Len(Tail(t)) = 0)
      BY <2>3
    <2> QED
      BY <2>2, <2>3, <2>4
  <1>4. OpenBy(t, c.open, 1) <=> c.open
    BY DEF OpenBy
  <1> HIDE DEF t
  <1>5. /\ t[1] \in {"auth", "begin"} => ~OpenBy(t, c.open, 1)
        /\ t[1] \in {"inside", "role", "end"} => OpenBy(t, c.open, 1)
        /\ t[1] = "end" => 1 = Len(t)
        /\ 1 = Len(t) => IF OpenBy(t, c.open, 1) THEN t[1] = "end" ELSE t[1] \in {"read", "unbound"}
    <2>1. Fits(t, c.open)
      BY <1>1 DEF t
    <2> QED
      BY <2>1, <1>3 DEF Fits
  <1>6. /\ Head(t) \in {"auth", "begin"} => ~c.open
        /\ Head(t) \in {"inside", "role", "end"} => c.open
        /\ Head(t) = "end" => Tail(t) = << >>
        /\ Tail(t) = << >> => IF c.open THEN Head(t) = "end" ELSE Head(t) \in {"read", "unbound"}
    BY <1>3, <1>4, <1>5
  <1> QED
    BY <1>1, <1>2, <1>3, <1>6 DEF t, HoldOf

LEMMA HoldingsType == PoolInv => Holdings \in [PoolCalls -> 0..2]
  <1> SUFFICES ASSUME PoolInv, NEW h \in PoolCalls PROVE HoldOf(pool_calls[h]) \in 0..2
    BY DEF Holdings
  <1> QED
    BY DEF HoldOf, PoolInv

LEMMA PoolMoves ==
  ASSUME PoolInv, NEW h \in PoolCalls, NEW c \in PoolCall \cup {Pool!NoCall}, NEW back \in Int, NEW gone \in Nat,
         pool_calls' = [pool_calls EXCEPT ![h] = c],
         free' = free + back, lost' = lost + gone, free + back >= 0,
         HoldOf(c) = HoldOf(pool_calls[h]) - back - gone
  PROVE  PoolInv'
  <1>1. Holdings \in [PoolCalls -> 0..2]
    BY HoldingsType
  <1>2. pool_calls' \in [PoolCalls -> PoolCall \cup {Pool!NoCall}]
    BY DEF PoolInv
  <1>3. HoldOf(c) \in 0..2
    BY DEF HoldOf
  <1>4. Holdings' = [Holdings EXCEPT ![h] = HoldOf(c)]
    BY DEF Holdings, PoolInv
  <1>5. Holdings[h] = HoldOf(pool_calls[h])
    BY DEF Holdings
  <1>6. HeldBy(Holdings') = HeldBy(Holdings) + HoldOf(c) - HoldOf(pool_calls[h])
    BY <1>1, <1>3, <1>4, <1>5, HeldChange
  <1>7. HeldBy(Holdings) \in Nat /\ HeldBy(Holdings)' = HeldBy(Holdings')
    BY HeldIs DEF HeldBy, Held
  <1>8. HoldOf(pool_calls[h]) \in 0..2 /\ free \in Nat /\ lost \in Nat
        /\ free + lost + HeldBy(Holdings) = MaxConnections
    BY DEF HoldOf, PoolInv
  <1>9. free' \in Nat /\ lost' \in Nat /\ free' + lost' + HeldBy(Holdings') = MaxConnections
    BY <1>3, <1>6, <1>7, <1>8, PoolAssumption
  <1> QED
    BY <1>2, <1>7, <1>9 DEF PoolInv

LEMMA PoolRestarts == Pool!Crash => PoolInv'
  <1> SUFFICES ASSUME Pool!Crash PROVE PoolInv'
    OBVIOUS
  <1>1. pool_calls' = [h \in PoolCalls |-> Pool!NoCall] /\ free' = MaxConnections /\ lost' = 0
    BY DEF Pool!Crash
  <1>2. Holdings' = [h \in PoolCalls |-> 0]
    BY <1>1 DEF Holdings, HoldOf
  <1>3. HeldBy(Holdings)' = 0
    BY <1>2, HeldNone DEF HeldBy, Held
  <1> QED
    BY <1>1, <1>3, PoolAssumption DEF PoolInv

LEMMA PoolStarts == Pool!Init => PoolInv
  <1> SUFFICES ASSUME Pool!Init PROVE PoolInv
    OBVIOUS
  <1>1. pool_calls = [h \in PoolCalls |-> Pool!NoCall] /\ free = MaxConnections /\ lost = 0
    BY DEF Pool!Init
  <1>2. Holdings = [h \in PoolCalls |-> 0]
    BY <1>1 DEF Holdings, HoldOf
  <1>3. HeldBy(Holdings) = 0
    BY <1>2, HeldNone
  <1> QED
    BY <1>1, <1>3, PoolAssumption DEF PoolInv

LEMMA PoolAnswers ==
  ASSUME PoolInv, NEW h \in PoolCalls, NEW back \in Nat, Pool!Answer(h, back),
         HoldOf(pool_calls[h]) = back
  PROVE  PoolInv'
  <1>1. HoldOf(Pool!NoCall) = 0
    BY DEF HoldOf
  <1>2. /\ pool_calls' = [pool_calls EXCEPT ![h] = Pool!NoCall] /\ free' = free + back
        /\ lost' = lost + 0 /\ free + back >= 0
    BY DEF Pool!Answer, PoolInv
  <1>3. HoldOf(Pool!NoCall) = HoldOf(pool_calls[h]) - back - 0 /\ back \in Int /\ 0 \in Nat
    BY <1>1
  <1>4. Pool!NoCall \in PoolCall \cup {Pool!NoCall}
    OBVIOUS
  <1> HIDE DEF PoolInv
  <1> QED
    BY <1>2, <1>3, <1>4, PoolMoves

LEMMA PoolContinues ==
  ASSUME PoolInv, NEW h \in PoolCalls, pool_calls[h] # Pool!NoCall, NEW back \in Nat, NEW open \in BOOLEAN,
         NEW steps \in Seq(PoolSteps), steps # << >>, Fits(steps, open),
         Pool!Continue(h, steps, open, back),
         HoldOf(pool_calls[h]) = back + (IF open THEN 1 ELSE 0)
  PROVE  PoolInv'
  <1> DEFINE r == pool_calls[h]
             c == [r EXCEPT !.todo = steps, !.open = open, !.has = FALSE]
  <1>1. r \in PoolCall
    BY DEF PoolInv
  <1>2. c \in PoolCall /\ c.open = open /\ c.has = FALSE
    BY <1>1 DEF PoolCall
  <1>3. /\ pool_calls' = [pool_calls EXCEPT ![h] = c] /\ free' = free + back /\ lost' = lost
        /\ lost' = lost + 0 /\ free + back >= 0
    <2>1. pool_calls' = [pool_calls EXCEPT ![h] = c]
      BY DEF Pool!Continue, PoolInv
    <2>2. free' = free + back /\ lost' = lost /\ free \in Nat /\ lost \in Nat
      BY DEF Pool!Continue, PoolInv
    <2> QED
      BY <2>1, <2>2
  <1> HIDE DEF c
  <1>4. HoldOf(c) = (IF open THEN 1 ELSE 0)
    <2>1. c # Pool!NoCall
      BY <1>2, PoolCallFacts
    <2> QED
      BY <1>2, <2>1 DEF HoldOf
  <1>5. HoldOf(c) = HoldOf(pool_calls[h]) - back - 0 /\ back \in Int /\ 0 \in Nat
    BY <1>4
  <1>6. c \in PoolCall \cup {Pool!NoCall}
    BY <1>2
  <1> QED
    BY <1>3, <1>5, <1>6, PoolMoves
-----------------------------------------------------------------------------
(* A step that goes on with the rest of the program *)
LEMMA PoolGoesOn ==
  ASSUME PoolInv, NEW h \in PoolCalls, pool_calls[h] # Pool!NoCall, NEW back \in Nat, NEW open \in BOOLEAN,
         Pool!Continue(h, Pool!Rest(h), open, back), Pool!Rest(h) # << >>,
         open <=> (pool_calls[h].open \/ Pool!Now(h) = "begin"),
         HoldOf(pool_calls[h]) = back + (IF open THEN 1 ELSE 0)
  PROVE  PoolInv'
  <1> DEFINE c == pool_calls[h]
  <1>1. c \in PoolCall
    BY DEF PoolInv
  <1>2. /\ c.todo \in Seq(PoolSteps) /\ c.todo # << >> /\ Fits(c.todo, c.open) /\ c.open \in BOOLEAN
    BY <1>1, PoolCallFacts
  <1>3. Tail(c.todo) = Pool!Rest(h) /\ Head(c.todo) = Pool!Now(h)
    BY DEF Pool!Rest, Pool!Now
  <1>4. open = (c.open \/ Head(c.todo) = "begin")
    BY <1>2, <1>3
  <1>5. Pool!Rest(h) \in Seq(PoolSteps) /\ Fits(Pool!Rest(h), open)
    BY <1>2, <1>3, <1>4, FitsRest
  <1> QED
    BY <1>5, PoolContinues

(* A step that goes on with the end of the transaction *)
LEMMA PoolRollsBack ==
  ASSUME PoolInv, NEW h \in PoolCalls, pool_calls[h] # Pool!NoCall, NEW back \in Nat,
         Pool!Continue(h, <<"end">>, TRUE, back), HoldOf(pool_calls[h]) = back + 1
  PROVE  PoolInv'
  <1>1. <<"end">> \in Seq(PoolSteps) /\ <<"end">> # << >> /\ Fits(<<"end">>, TRUE)
    BY FitsEnd
  <1> QED
    BY <1>1, PoolContinues

LEMMA PoolFails ==
  ASSUME PoolInv, NEW h \in PoolCalls, pool_calls[h] # Pool!NoCall, NEW back \in Nat, Pool!Failed(h, back),
         HoldOf(pool_calls[h]) = back + (IF pool_calls[h].open /\ Pool!Now(h) # "end" THEN 1 ELSE 0)
  PROVE  PoolInv'
  <1>1. CASE Pool!Uncaught(h)
    BY <1>1, PoolRestarts DEF Pool!Failed
  <1>2. CASE ~Pool!Uncaught(h) /\ pool_calls[h].open /\ Pool!Now(h) # "end"
    <2>1. Pool!Continue(h, <<"end">>, TRUE, back) /\ HoldOf(pool_calls[h]) = back + 1
      BY <1>2 DEF Pool!Failed
    <2> QED
      BY <2>1, PoolRollsBack
  <1>3. CASE ~Pool!Uncaught(h) /\ ~(pool_calls[h].open /\ Pool!Now(h) # "end")
    <2>1. Pool!Answer(h, back)
      BY <1>3 DEF Pool!Failed
    <2>2. HoldOf(pool_calls[h]) = back
      BY <1>3
    <2> QED
      BY <2>1, <2>2, PoolAnswers
  <1> QED
    BY <1>1, <1>2, <1>3

LEMMA PoolKept == PoolInv /\ [Pool!Next]_poolVars => PoolInv'
  <1> SUFFICES ASSUME PoolInv, [Pool!Next]_poolVars PROVE PoolInv'
    OBVIOUS
  <1>1. CASE UNCHANGED poolVars
    BY <1>1 DEF poolVars, PoolInv, Holdings, HeldBy, Held, HoldOf
  <1>2. ASSUME NEW h \in PoolCalls, NEW kind \in Pool!Kinds, Pool!Request(h, kind)
        PROVE  PoolInv'
    <2> DEFINE todo_ == <<"auth">> \o Pool!Program[kind]
               c == [kind |-> kind, todo |-> todo_, open |-> FALSE, has |-> FALSE]
    <2>1. todo_ \in Seq(PoolSteps) /\ Fits(todo_, FALSE) /\ todo_ # << >>
      BY FitsProgram
    <2>2. pool_calls' = [pool_calls EXCEPT ![h] = c] /\ pool_calls[h] = Pool!NoCall
          /\ free' = free /\ lost' = lost /\ free \in Nat /\ lost \in Nat
      BY <1>2 DEF Pool!Request, Pool!Busy, PoolInv
    <2> HIDE DEF todo_
    <2>3. c \in PoolCall /\ c.open = FALSE /\ c.has = FALSE
      BY <2>1 DEF PoolCall
    <2> HIDE DEF c
    <2>4. HoldOf(c) = 0
      BY <2>3, PoolCallFacts
    <2>5. HoldOf(pool_calls[h]) = 0
      BY <2>2 DEF HoldOf
    <2>6. c \in PoolCall \cup {Pool!NoCall} /\ 0 \in Int /\ 0 \in Nat /\ free' = free + 0 /\ lost' = lost + 0
          /\ free + 0 >= 0 /\ HoldOf(c) = HoldOf(pool_calls[h]) - 0 - 0
      BY <2>2, <2>3, <2>4, <2>5
    <2> QED
      BY <2>2, <2>6, PoolMoves
  <1>3. ASSUME NEW h \in PoolCalls, Pool!Busy(h), Pool!Serve(h) \/ Pool!Step(h)
        PROVE  PoolInv'
    <2> DEFINE c == pool_calls[h]
    <2>1. c \in PoolCall /\ c # Pool!NoCall
      BY <1>3 DEF PoolInv, Pool!Busy
    <2>2. Pool!Now(h) = Head(c.todo) /\ Pool!Rest(h) = Tail(c.todo)
      BY DEF Pool!Now, Pool!Rest
    <2>3. /\ c.open \in BOOLEAN /\ c.has \in BOOLEAN
          /\ Pool!Now(h) \in PoolSteps
          /\ Pool!Now(h) \in {"auth", "begin"} => ~c.open
          /\ Pool!Now(h) \in {"inside", "role", "end"} => c.open
          /\ Pool!Now(h) = "end" => Pool!Rest(h) = << >>
          /\ Pool!Rest(h) = << >> => IF c.open THEN Pool!Now(h) = "end" ELSE Pool!Now(h) \in {"read", "unbound"}
          /\ c.has => Pool!Now(h) \in Pool!Needs
          /\ HoldOf(c) = (IF c.open THEN 1 ELSE 0) + (IF c.has THEN 1 ELSE 0)
      BY <2>1, <2>2, PoolCallFacts
    <2>4. Pool!Waits(h) <=> (Pool!Now(h) \in Pool!Needs /\ ~c.has)
      BY <1>3 DEF Pool!Waits
    <2>5. Pool!Runs(h) <=> ~(Pool!Now(h) \in Pool!Needs /\ ~c.has)
      BY <1>3, <2>4 DEF Pool!Runs
    <2>6. free \in Nat /\ lost \in Nat
      BY DEF PoolInv
    <2> HIDE DEF PoolInv
    <2>7. CASE Pool!Acquire(h)
      <3> DEFINE d == [c EXCEPT !.has = TRUE]
      <3>1. Pool!Now(h) \in Pool!Needs /\ ~c.has /\ free > 0 /\ free' = free - 1 /\ lost' = lost
            /\ pool_calls' = [pool_calls EXCEPT ![h] = d]
        BY <2>4, <2>7 DEF Pool!Acquire
      <3>2. d \in PoolCall /\ d.open = c.open /\ d.has = TRUE
        BY <2>1, <2>2, <3>1 DEF PoolCall
      <3> HIDE DEF d
      <3>3. HoldOf(d) = (IF c.open THEN 1 ELSE 0) + 1
        BY <3>2, PoolCallFacts
      <3>4. HoldOf(c) = (IF c.open THEN 1 ELSE 0)
        BY <2>3, <3>1
      <3>5. d \in PoolCall \cup {Pool!NoCall} /\ -1 \in Int /\ 0 \in Nat /\ free' = free + (-1) /\ lost' = lost + 0
            /\ free + (-1) >= 0 /\ HoldOf(d) = HoldOf(c) - (-1) - 0
        BY <2>6, <3>1, <3>2, <3>3, <3>4
      <3> QED
        BY <3>1, <3>5, PoolMoves
    <2>8. CASE Pool!Timeout(h)
      <3>1. Pool!Failed(h, 0) /\ Pool!Now(h) \in Pool!Needs /\ ~c.has
        BY <2>4, <2>8 DEF Pool!Timeout, Pool!TimesOut
      <3>2. HoldOf(c) = 0 + (IF c.open /\ Pool!Now(h) # "end" THEN 1 ELSE 0)
        BY <2>3, <3>1 DEF Pool!Needs
      <3> QED
        BY <2>1, <3>1, <3>2, PoolFails
    <2>9. CASE Pool!Fail(h)
      <3>1. Pool!Runs(h) /\ Pool!Now(h) \notin {"role", "unbound"}
            /\ Pool!Failed(h, IF Pool!Now(h) = "inside" THEN 0 ELSE 1)
        BY <2>9 DEF Pool!Fail
      <3> DEFINE back == IF Pool!Now(h) = "inside" THEN 0 ELSE 1
      <3>2. HoldOf(c) = back + (IF c.open /\ Pool!Now(h) # "end" THEN 1 ELSE 0)
        BY <2>3, <2>5, <3>1 DEF Pool!Needs, PoolSteps
      <3>3. back \in Nat /\ Pool!Failed(h, back)
        BY <3>1
      <3> HIDE DEF back
      <3> QED
        BY <2>1, <3>2, <3>3, PoolFails
    <2>10. CASE Pool!Missing(h)
      <3>1. Pool!Runs(h) /\ Pool!Now(h) \in {"auth", "read", "inside"}
        BY <2>10 DEF Pool!Missing
      <3>2. CASE c.open
        <4> DEFINE back == IF Pool!Now(h) = "read" THEN 1 ELSE 0
        <4>1. back \in Nat /\ Pool!Continue(h, <<"end">>, TRUE, back)
          BY <2>10, <3>2 DEF Pool!Missing, Pool!NotFound
        <4>2. HoldOf(c) = back + 1
          BY <2>3, <2>5, <3>1, <3>2 DEF Pool!Needs
        <4> HIDE DEF back
        <4> QED
          BY <2>1, <4>1, <4>2, PoolRollsBack
      <3>3. CASE ~c.open
        <4>1. Pool!Answer(h, 1)
          BY <2>10, <3>3 DEF Pool!Missing, Pool!NotFound
        <4>2. HoldOf(c) = 1
          BY <2>3, <2>5, <3>1, <3>3 DEF Pool!Needs
        <4> QED
          BY <4>1, <4>2, PoolAnswers
      <3> QED
        BY <3>2, <3>3
    <2>11. CASE Pool!RoleAllows(h)
      <3>1. Pool!Now(h) = "role" /\ Pool!Continue(h, Pool!Rest(h), TRUE, 0)
        BY <2>11 DEF Pool!RoleAllows
      <3>2. c.open /\ HoldOf(c) = 0 + 1 /\ Pool!Rest(h) # << >>
        BY <2>3, <3>1 DEF Pool!Needs
      <3> QED
        BY <2>1, <3>1, <3>2, PoolGoesOn
    <2>12. CASE Pool!RoleRefused(h)
      <3>1. Pool!Now(h) = "role" /\ lost' = lost + 1 /\ free' = free + 0 /\ free + 0 >= 0
            /\ pool_calls' = [pool_calls EXCEPT ![h] = Pool!NoCall]
        BY <2>6, <2>12 DEF Pool!RoleRefused
      <3>2. HoldOf(Pool!NoCall) = HoldOf(c) - 0 - 1
        BY <2>3, <3>1 DEF Pool!Needs, HoldOf
      <3>3. Pool!NoCall \in PoolCall \cup {Pool!NoCall} /\ 0 \in Int /\ 1 \in Nat
        OBVIOUS
      <3> QED
        BY <3>1, <3>2, <3>3, PoolMoves
    <2>13. CASE Pool!Unbound(h)
      BY <2>13, PoolRestarts DEF Pool!Unbound
    <2>14. CASE Pool!Succeed(h)
      <3>1. Pool!Runs(h) /\ Pool!Now(h) \notin {"role", "unbound"}
        BY <2>14 DEF Pool!Succeed
      <3>2. CASE Pool!Rest(h) = << >>
        <4>1. Pool!Answer(h, 1)
          BY <2>14, <3>2 DEF Pool!Succeed
        <4>2. HoldOf(c) = 1
          BY <2>3, <2>5, <3>1, <3>2 DEF Pool!Needs
        <4> QED
          BY <4>1, <4>2, PoolAnswers
      <3>3. CASE Pool!Rest(h) # << >> /\ Pool!Now(h) \in {"begin", "inside"}
        <4>1. Pool!Continue(h, Pool!Rest(h), TRUE, 0)
          BY <2>14, <3>3 DEF Pool!Succeed
        <4>2. HoldOf(c) = 0 + 1 /\ (TRUE <=> (c.open \/ Pool!Now(h) = "begin"))
          BY <2>3, <2>5, <3>1, <3>3 DEF Pool!Needs
        <4> QED
          BY <2>1, <3>3, <4>1, <4>2, PoolGoesOn
      <3>4. CASE Pool!Rest(h) # << >> /\ Pool!Now(h) \notin {"begin", "inside"}
        <4>1. Pool!Continue(h, Pool!Rest(h), c.open, 1)
          BY <2>14, <3>4 DEF Pool!Succeed
        <4>2. HoldOf(c) = 1 + (IF c.open THEN 1 ELSE 0) /\ (c.open <=> (c.open \/ Pool!Now(h) = "begin"))
          BY <2>3, <2>5, <3>1, <3>4 DEF Pool!Needs, PoolSteps
        <4> QED
          BY <2>1, <2>3, <3>4, <4>1, <4>2, PoolGoesOn
      <3> QED
        BY <3>2, <3>3, <3>4
    <2> QED
      BY <1>3, <2>7, <2>8, <2>9, <2>10, <2>11, <2>12, <2>13, <2>14 DEF Pool!Serve, Pool!Step
  <1>4. ASSUME NEW h \in PoolCalls, Pool!Serve(h) \/ Pool!Step(h)
        PROVE  Pool!Busy(h)
    BY <1>4 DEF Pool!Serve, Pool!Step, Pool!Acquire, Pool!Timeout, Pool!TimesOut, Pool!Waits, Pool!Runs,
       Pool!Succeed, Pool!Missing, Pool!RoleAllows, Pool!RoleRefused, Pool!Fail, Pool!Unbound
  <1> QED
    BY <1>1, <1>2, <1>3, <1>4 DEF Pool!Next

LEMMA PoolSound == PoolInv => Pool!PoolTypeOK /\ Pool!ConnectionsAccounted
  <1> SUFFICES ASSUME PoolInv PROVE Pool!PoolTypeOK /\ Pool!ConnectionsAccounted
    OBVIOUS
  <1>1. \A h \in PoolCalls : HoldOf(pool_calls[h]) = Pool!Holding(h)
    BY DEF HoldOf, Pool!Holding, Pool!Busy
  <1>2. Held(Holdings, 1) = Pool!Holders(1) /\ Held(Holdings, 2) = Pool!Holders(2)
    BY <1>1 DEF Held, Holdings, Pool!Holders
  <1>3. HeldBy(Holdings) = Cardinality(Pool!Holders(1)) + Cardinality(Pool!Holders(2))
    BY <1>2 DEF HeldBy
  <1>4. HeldBy(Holdings) \in Nat
    BY HeldIs
  <1>5. Cardinality(Pool!Holders(1)) \in Nat /\ Cardinality(Pool!Holders(2)) \in Nat
    BY EquipmentAssumption, FS_Subset, FS_CardinalityType DEF Pool!Holders
  <1>6. Pool!ConnectionsAccounted
    <2>1. \A S : Pool!Cardinality(S) = Cardinality(S)
      BY DEF Pool!Cardinality, Cardinality
    <2>2. free + lost + (Cardinality(Pool!Holders(1)) + Cardinality(Pool!Holders(2))) = MaxConnections
      BY <1>3 DEF PoolInv
    <2>3. free + lost + Cardinality(Pool!Holders(1)) + Cardinality(Pool!Holders(2)) = MaxConnections
      BY <1>5, <2>2 DEF PoolInv
    <2> QED
      BY <2>1, <2>3 DEF Pool!ConnectionsAccounted
  <1>7. free \in 0..MaxConnections /\ lost \in 0..MaxConnections
    BY <1>4, PoolAssumption DEF PoolInv
  <1>8. \A h \in PoolCalls : pool_calls[h] # Pool!NoCall =>
          /\ pool_calls[h].kind \in Pool!Kinds
          /\ pool_calls[h].open \in BOOLEAN /\ pool_calls[h].has \in BOOLEAN
    BY PoolCallFacts DEF PoolInv
  <1> QED
    BY <1>6, <1>7, <1>8 DEF Pool!PoolTypeOK
(***************************************************************************)
(* The pages that list items                                               *)
(***************************************************************************)
FilterPart ==
    /\ view \in Lists!Views /\ filters \subseteq FilterFields[view] /\ searched \in BOOLEAN
    /\ Lists!NarrowedShown

TickPart == listed \subseteq Items /\ selected \subseteq Items /\ select_all \in BOOLEAN

DialoguePart ==
    /\ dialogue \in Lists!Dialogues /\ picked \in Items \cup {Lists!Nothing}
    /\ dialogue = "update" => view = "updates"
    /\ dialogue \in {"copy", "copies"} => view = "copies"
    /\ dialogue = "delete" => view = "advanced" /\ picked \in Items

(* Items that an update has written hold its value, or the one that the    *)
(* server put in its place, until it reports.                              *)
UpdatePart ==
    /\ DOMAIN table \subseteq Items /\ table \in [DOMAIN table -> Values]
    /\ requests \subseteq Lists!Request /\ touched \subseteq Items /\ replaced \subseteq Items
    /\ typed \in Values /\ closing \in Nat /\ batches \in 0..MaxBatches
    /\ \/ sending = Lists!Idle
       \/ /\ sending \in [batch : {batches}, items : SUBSET Items, value : Values, left : SUBSET Items]
          /\ batches # 0
    /\ closing + (IF sending = Lists!Idle THEN 0 ELSE 1) <= batches
    /\ \/ message = Lists!Silent \/ message = [kind |-> "error"]
       \/ message \in [kind : {"success"}, items : SUBSET Items, value : Values]
    /\ \A r \in requests :
          /\ r.batch <= batches
          /\ sending # Lists!Idle /\ r.batch = sending.batch => r.value = sending.value
    /\ sending # Lists!Idle =>
          \A i \in sending.items \ (sending.left \cup touched \cup replaced) :
             i \in DOMAIN table /\ table[i] = sending.value
    /\ message.kind = "success" => sending = Lists!Idle /\ Lists!UpdateReported
    /\ view # "updates" => requests = {} /\ sending = Lists!Idle /\ message = Lists!Silent

(* What the dialogue that copies an item has read is the item picked. *)
CopyPart ==
    /\ loading \subseteq {"copy", "copies"} /\ trapped \subseteq {"copy", "copies"}
    /\ asking \subseteq Items /\ copying \subseteq Items
    /\ original \in Items \cup {Lists!Nothing} /\ posting \in Items \cup {Lists!Nothing}
    /\ left_behind \in BOOLEAN /\ astray = FALSE
    /\ view = "copies" /\ ~left_behind =>
          /\ "copy" \in loading => dialogue = "copy" /\ asking = {picked}
          /\ "copy" \notin loading => asking = {}
          /\ dialogue = "copy" /\ "copy" \notin loading \cup trapped => original = picked
          /\ posting # Lists!Nothing => dialogue = "copy" /\ "copy" \notin loading
          /\ copying # {} => dialogue = "copies"
    /\ view # "copies" => loading = {} /\ posting = Lists!Nothing /\ copying = {}

PagesInv == FilterPart /\ TickPart /\ DialoguePart /\ UpdatePart /\ CopyPart

LEMMA ListsAssumption == Values # {} /\ MaxBatches \in Nat
  BY EquipmentAssumption

LEMMA PagesStart == Lists!ListsInit => PagesInv
  <1> SUFFICES ASSUME Lists!ListsInit PROVE PagesInv
    OBVIOUS
  <1>1. /\ table \in [Items -> Values] /\ requests = {} /\ touched = {} /\ replaced = {}
        /\ view \in Lists!Views /\ filters = {} /\ searched = FALSE
        /\ listed = {} /\ selected = {} /\ select_all = FALSE
        /\ picked = Lists!Nothing /\ dialogue = Lists!Nothing
        /\ typed = Lists!FirstValue /\ sending = Lists!Idle /\ message = Lists!Silent
        /\ closing = 0 /\ batches = 0
        /\ loading = {} /\ asking = {} /\ original = Lists!Nothing /\ posting = Lists!Nothing /\ trapped = {}
        /\ copying = {} /\ left_behind = FALSE /\ astray = FALSE
    BY DEF Lists!ListsInit
  <1>2. Lists!FirstValue \in Values
    BY ListsAssumption DEF Lists!FirstValue
  <1>3. message.kind # "success"
    BY <1>1 DEF Lists!Silent
  <1>4. FilterPart /\ TickPart
    BY <1>1 DEF FilterPart, TickPart, Lists!NarrowedShown
  <1>5. DialoguePart
    BY <1>1 DEF DialoguePart, Lists!Dialogues, Lists!Nothing
  <1>6. UpdatePart
    BY <1>1, <1>2, <1>3, ListsAssumption DEF UpdatePart
  <1>7. CopyPart
    BY <1>1 DEF CopyPart, Lists!Nothing
  <1> QED
    BY <1>4, <1>5, <1>6, <1>7 DEF PagesInv

LEMMA PagesSound == PagesInv => Lists!ListsTypeOK /\ Lists!ListsHonest
  <1> SUFFICES ASSUME PagesInv PROVE Lists!ListsTypeOK /\ Lists!ListsHonest
    OBVIOUS
  <1>1. FilterPart /\ TickPart /\ DialoguePart /\ UpdatePart /\ CopyPart
    BY DEF PagesInv
  <1>2. closing \in 0..MaxBatches
    BY <1>1, ListsAssumption DEF UpdatePart
  <1>3. Lists!ListsTypeOK
    BY <1>1, <1>2 DEF Lists!ListsTypeOK, FilterPart, TickPart, DialoguePart, UpdatePart, CopyPart
  <1>4. Lists!UpdateReported
    BY <1>1 DEF UpdatePart, Lists!UpdateReported
  <1>5. Lists!CopyOfPicked /\ Lists!NarrowedShown
    BY <1>1 DEF FilterPart, CopyPart, Lists!CopyOfPicked
  <1> QED
    BY <1>3, <1>4, <1>5 DEF Lists!ListsHonest
-----------------------------------------------------------------------------
(* Parts that an action does not concern *)
LEMMA UpdatesKept ==
  ASSUME UpdatePart, UNCHANGED <<view, table, requests, touched, replaced, typed, sending, message, closing, batches>>
  PROVE  UpdatePart'
  BY DEF UpdatePart, Lists!UpdateReported

LEMMA CopiesKept ==
  ASSUME CopyPart, UNCHANGED <<view, loading, asking, original, posting, trapped, copying, left_behind, astray>>,
         \/ UNCHANGED <<picked, dialogue>>
         \/ view # "copies"
  PROVE  CopyPart'
  BY DEF CopyPart

LEMMA FiltersKept == FilterPart /\ UNCHANGED <<view, filters, searched>> => FilterPart'
  BY DEF FilterPart, Lists!NarrowedShown

LEMMA TicksKept == TickPart /\ UNCHANGED <<listed, selected, select_all>> => TickPart'
  BY DEF TickPart

LEMMA DialogueKept == DialoguePart /\ UNCHANGED <<view, picked, dialogue>> => DialoguePart'
  BY DEF DialoguePart
-----------------------------------------------------------------------------
LEMMA FilterActions ==
  ASSUME PagesInv,
         \/ \E field \in UNION {FilterFields[v] : v \in Lists!Views} : Lists!Filter(field) \/ Lists!FilterByCard(field)
         \/ Lists!ClearFilters
  PROVE  PagesInv'
  <1>1. FilterPart /\ TickPart /\ DialoguePart /\ UpdatePart /\ CopyPart
    BY DEF PagesInv
  <1>2. UNCHANGED <<view, table, requests, touched, replaced, listed, selected, select_all, picked, dialogue,
                    typed, sending, message, closing, batches,
                    loading, asking, original, posting, trapped, copying, left_behind, astray>>
    BY DEF Lists!Filter, Lists!FilterByCard, Lists!ClearFilters, Lists!tableVars, Lists!tickVars,
       Lists!updateVars, Lists!copyVars
  <1>3. FilterPart'
    <2>1. ASSUME NEW field, Lists!Filter(field) PROVE FilterPart'
      BY <1>1, <1>2, <2>1 DEF FilterPart, Lists!Filter, Lists!NarrowedShown, Lists!Searched
    <2>2. ASSUME NEW field, Lists!FilterByCard(field) PROVE FilterPart'
      BY <1>1, <1>2, <2>2 DEF FilterPart, Lists!FilterByCard, Lists!NarrowedShown
    <2>3. CASE Lists!ClearFilters
      BY <1>1, <1>2, <2>3 DEF FilterPart, Lists!ClearFilters, Lists!NarrowedShown
    <2> QED
      BY <2>1, <2>2, <2>3
  <1>4. TickPart' /\ DialoguePart'
    BY <1>1, <1>2, TicksKept, DialogueKept
  <1>5. UpdatePart' /\ CopyPart'
    BY <1>1, <1>2, UpdatesKept, CopiesKept
  <1> QED
    BY <1>3, <1>4, <1>5 DEF PagesInv

LEMMA TickActions ==
  ASSUME PagesInv,
         Lists!Load \/ (\E i \in Items : Lists!Tick(i)) \/ Lists!TickAll \/ Lists!ClearTicks
  PROVE  PagesInv'
  <1>1. FilterPart /\ TickPart /\ DialoguePart /\ UpdatePart /\ CopyPart
    BY DEF PagesInv
  <1>2. UNCHANGED <<view, filters, searched, table, requests, touched, replaced, picked, dialogue,
                    typed, sending, message, closing, batches,
                    loading, asking, original, posting, trapped, copying, left_behind, astray>>
    BY DEF Lists!Load, Lists!Tick, Lists!TickAll, Lists!ClearTicks, Lists!Ticks, Lists!tableVars,
       Lists!filterVars, Lists!updateVars, Lists!copyVars
  <1>3. TickPart'
    <2>1. CASE Lists!Load
      <3>1. listed' \subseteq DOMAIN table /\ selected' = selected /\ select_all' = select_all
        BY <2>1 DEF Lists!Load, Lists!FirstPages
      <3> QED
        BY <1>1, <3>1 DEF TickPart, UpdatePart
    <2>2. ASSUME NEW i \in Items, Lists!Tick(i) PROVE TickPart'
      BY <1>1, <2>2 DEF Lists!Tick, Lists!Ticks, TickPart
    <2>3. CASE Lists!TickAll \/ Lists!ClearTicks
      BY <1>1, <2>3 DEF Lists!TickAll, Lists!ClearTicks, Lists!Ticks, TickPart
    <2> QED
      BY <2>1, <2>2, <2>3
  <1>4. FilterPart' /\ DialoguePart'
    BY <1>1, <1>2, FiltersKept, DialogueKept
  <1>5. UpdatePart' /\ CopyPart'
    BY <1>1, <1>2, UpdatesKept, CopiesKept
  <1> QED
    BY <1>3, <1>4, <1>5 DEF PagesInv
-----------------------------------------------------------------------------
(* The dialogue that updates *)
LEMMA UpdateDialogue ==
  ASSUME PagesInv,
         \/ Lists!UpdateTicked \/ (\E row \in Items : Lists!UpdateRow(row))
         \/ (\E value \in Values : Lists!Choose(value)) \/ Lists!CloseUpdate \/ Lists!TimerFires
  PROVE  PagesInv'
  <1>1. FilterPart /\ TickPart /\ DialoguePart /\ UpdatePart /\ CopyPart
    BY DEF PagesInv
  <1>2. UNCHANGED <<view, filters, searched, listed, selected, select_all, table, requests, touched, replaced, sending, batches,
                    loading, asking, original, posting, trapped, copying, left_behind, astray>>
    BY DEF Lists!UpdateTicked, Lists!UpdateRow, Lists!OpenUpdate, Lists!Choose, Lists!CloseUpdate,
       Lists!TimerFires, Lists!tableVars, Lists!filterVars, Lists!tickVars, Lists!updateVars, Lists!copyVars
  <1>3. FilterPart' /\ TickPart'
    BY <1>1, <1>2, FiltersKept, TicksKept
  <1>4. CASE Lists!UpdateTicked \/ (\E row \in Items : Lists!UpdateRow(row))
    <2>1. /\ view = "updates" /\ dialogue' = "update" /\ UNCHANGED <<typed, sending, message, closing, batches>>
          /\ picked' \in Items \cup {Lists!Nothing}
      BY <1>1, <1>4 DEF Lists!UpdateTicked, Lists!UpdateRow, Lists!OpenUpdate, Lists!On, Lists!updateVars,
         DialoguePart
    <2>2. DialoguePart'
      BY <1>2, <2>1 DEF DialoguePart, Lists!Dialogues
    <2>3. CopyPart' /\ UpdatePart'
      BY <1>1, <1>2, <2>1, CopiesKept, UpdatesKept
    <2> QED
      BY <1>3, <2>2, <2>3 DEF PagesInv
  <1>5. ASSUME NEW value \in Values, Lists!Choose(value)
        PROVE  PagesInv'
    <2>1. typed' = value /\ UNCHANGED <<picked, dialogue, message, closing>>
      BY <1>5 DEF Lists!Choose
    <2>2. UpdatePart'
      BY <1>1, <1>2, <2>1 DEF UpdatePart, Lists!UpdateReported
    <2>3. DialoguePart' /\ CopyPart'
      BY <1>1, <1>2, <2>1, DialogueKept, CopiesKept
    <2> QED
      BY <1>3, <2>2, <2>3 DEF PagesInv
  <1>6. CASE Lists!CloseUpdate
    <2>1. /\ dialogue = "update" /\ dialogue' = Lists!Nothing
          /\ UNCHANGED <<picked, typed, sending, message, closing, batches>>
      BY <1>6 DEF Lists!CloseUpdate, Lists!updateVars
    <2>2. view = "updates"
      BY <1>1, <2>1 DEF DialoguePart
    <2>3. DialoguePart'
      BY <1>1, <1>2, <2>1 DEF DialoguePart, Lists!Dialogues, Lists!Nothing
    <2>4. CopyPart' /\ UpdatePart'
      BY <1>1, <1>2, <2>1, <2>2, CopiesKept, UpdatesKept
    <2> QED
      BY <1>3, <2>3, <2>4 DEF PagesInv
  <1>7. CASE Lists!TimerFires
    <2>1. /\ closing > 0 /\ closing' = closing - 1 /\ picked' = picked /\ typed' = typed
          /\ dialogue' = IF dialogue = "update" THEN Lists!Nothing ELSE dialogue
          /\ message' = IF message.kind = "success" THEN Lists!Silent ELSE message
      BY <1>7 DEF Lists!TimerFires
    <2>2. DialoguePart'
      BY <1>1, <1>2, <2>1 DEF DialoguePart, Lists!Dialogues, Lists!Nothing
    <2>3. CopyPart'
      <3>1. view # "copies" \/ UNCHANGED <<picked, dialogue>>
        BY <1>1, <2>1 DEF DialoguePart
      <3> QED
        BY <1>1, <1>2, <3>1, CopiesKept
    <2>4. UpdatePart'
      <3>1. message'.kind # "success"
        BY <2>1 DEF Lists!Silent
      <3>2. \/ message' = Lists!Silent \/ message' = [kind |-> "error"]
            \/ message' \in [kind : {"success"}, items : SUBSET Items, value : Values]
        BY <1>1, <2>1 DEF UpdatePart
      <3>3. closing' \in Nat /\ closing' + (IF sending = Lists!Idle THEN 0 ELSE 1) <= batches
        BY <1>1, <2>1, ListsAssumption DEF UpdatePart
      <3>4. view # "updates" => message' = Lists!Silent
        BY <1>1, <2>1 DEF UpdatePart, Lists!Silent
      <3> QED
        BY <1>1, <1>2, <2>1, <3>1, <3>2, <3>3, <3>4 DEF UpdatePart
    <2> QED
      BY <1>3, <2>2, <2>3, <2>4 DEF PagesInv
  <1> QED
    BY <1>4, <1>5, <1>6, <1>7

LEMMA UpdateSubmitted ==
  ASSUME PagesInv, Lists!Submit
  PROVE  PagesInv'
  <1> DEFINE n == batches + 1
             targets == Lists!Targets
             new == [item : targets, value : {typed}, batch : {n}]
  <1>1. FilterPart /\ TickPart /\ DialoguePart /\ UpdatePart /\ CopyPart
    BY DEF PagesInv
  <1>2. UNCHANGED <<table, view, filters, searched, listed, selected, select_all, picked, dialogue, typed, closing,
                    loading, asking, original, posting, trapped, copying, left_behind, astray>>
    BY DEF Lists!Submit, Lists!filterVars, Lists!tickVars, Lists!copyVars
  <1>3. /\ dialogue = "update" /\ sending = Lists!Idle /\ batches < MaxBatches /\ batches' = n
        /\ sending' = [batch |-> n, items |-> targets, value |-> typed, left |-> targets]
        /\ requests' = requests \cup new
        /\ message' = Lists!Silent /\ touched' = {} /\ replaced' = {}
    BY DEF Lists!Submit, Lists!MaySubmit
  <1>4. view = "updates"
    BY <1>1, <1>3 DEF DialoguePart
  <1>5. targets \subseteq Items
    BY <1>1 DEF Lists!Targets, TickPart, DialoguePart
  <1> HIDE DEF targets
  <1>6. n \in 1..MaxBatches /\ n # 0 /\ batches < n
    BY <1>1, <1>3, ListsAssumption DEF UpdatePart
  <1>7. sending' \in [batch : {n}, items : SUBSET Items, value : Values, left : SUBSET Items]
        /\ sending'.batch = n /\ sending'.value = typed /\ sending'.items = targets /\ sending'.left = targets
    BY <1>1, <1>3, <1>5 DEF UpdatePart
  <1>8. new \subseteq Lists!Request /\ \A r \in new : r.batch = n /\ r.value = typed
    BY <1>1, <1>5, <1>6 DEF UpdatePart, Lists!Request
  <1> HIDE DEF new
  <1>9. \A r \in requests' :
          /\ r.batch <= n
          /\ r.batch = sending'.batch => r.value = sending'.value
    <2>1. ASSUME NEW r \in requests PROVE r.batch < n
      <3>1. r.batch \in Int /\ r.batch <= batches
        BY <1>1 DEF UpdatePart, Lists!Request
      <3> QED
        BY <1>1, <1>6, <3>1 DEF UpdatePart
    <2>2. \A r \in requests : r.batch \in Int
      BY <1>1 DEF UpdatePart, Lists!Request
    <2> QED
      BY <1>3, <1>6, <1>7, <1>8, <2>1, <2>2
  <1>10. message'.kind # "success"
    BY <1>3 DEF Lists!Silent
  <1>11. sending' # Lists!Idle
    BY <1>6, <1>7 DEF Lists!Idle
  <1>12. closing' + 1 <= batches'
    BY <1>1, <1>2, <1>3 DEF UpdatePart
  <1>13. sending'.items \ (sending'.left \cup touched' \cup replaced') = {}
    BY <1>7
  <1>14. UpdatePart'
    <2> HIDE DEF n
    <2>1. requests' \subseteq Lists!Request
      BY <1>1, <1>3, <1>8 DEF UpdatePart
    <2>2. DOMAIN table' \subseteq Items /\ table' \in [DOMAIN table' -> Values] /\ touched' \subseteq Items
          /\ replaced' \subseteq Items /\ typed' \in Values /\ closing' \in Nat /\ batches' \in 0..MaxBatches
      BY <1>1, <1>2, <1>3, <1>6 DEF UpdatePart
    <2> QED
      BY <1>2, <1>3, <1>4, <1>6, <1>7, <1>9, <1>10, <1>11, <1>12, <1>13, <2>1, <2>2 DEF UpdatePart
  <1> QED
    BY <1>1, <1>2, <1>14, FiltersKept, TicksKept, DialogueKept, CopiesKept DEF PagesInv

LEMMA UpdateAnswers ==
  ASSUME PagesInv, NEW r \in requests, Lists!UpdateAnswered(r)
  PROVE  PagesInv'
  <1>1. FilterPart /\ TickPart /\ DialoguePart /\ UpdatePart /\ CopyPart
    BY DEF PagesInv
  <1>2. UNCHANGED <<view, filters, searched, listed, selected, select_all, picked, dialogue, typed, batches,
                    loading, asking, original, posting, trapped, copying, left_behind, astray>>
    BY DEF Lists!UpdateAnswered, Lists!filterVars, Lists!tickVars, Lists!copyVars
  <1>3. PICK written \in BOOLEAN, ok \in BOOLEAN, stored \in Values :
           /\ ok => written
           /\ written => r.item \in DOMAIN table
           /\ table' = IF written THEN [table EXCEPT ![r.item] = stored] ELSE table
           /\ replaced' = IF written /\ stored # r.value /\ r.batch = sending.batch
                            THEN replaced \cup {r.item} ELSE replaced
           /\ Lists!Answered(r, ok)
    BY DEF Lists!UpdateAnswered
  <1>4. requests' = requests \ {r} /\ view = "updates"
    BY <1>1 DEF Lists!UpdateAnswered, UpdatePart
  <1>5. r.item \in Items /\ r.value \in Values /\ r.batch \in 1..MaxBatches
    BY <1>1 DEF UpdatePart, Lists!Request
  <1>6. /\ DOMAIN table' = DOMAIN table /\ table' \in [DOMAIN table' -> Values]
        /\ \A i \in DOMAIN table \ {r.item} : table'[i] = table[i]
        /\ written /\ r.batch = sending.batch => table'[r.item] = r.value \/ r.item \in replaced'
        /\ replaced \subseteq replaced' /\ replaced' \subseteq Items
    BY <1>1, <1>3, <1>5 DEF UpdatePart
  <1>7. CASE sending.batch # r.batch
    <2>1. touched' = touched \cup {r.item} /\ UNCHANGED <<sending, message, closing>>
      BY <1>3, <1>7 DEF Lists!Answered
    <2>2. ASSUME NEW i \in Items, i \notin touched' PROVE i # r.item /\ i \notin touched
      BY <2>1, <2>2
    <2>3. sending # Lists!Idle =>
            \A i \in sending.items \ (sending.left \cup touched' \cup replaced') :
               i \in DOMAIN table' /\ table'[i] = sending.value
      BY <1>1, <1>6, <2>1 DEF UpdatePart
    <2>4. message.kind = "success" => sending = Lists!Idle /\
            \A i \in message.items \ (touched' \cup replaced') : i \in DOMAIN table' /\ table'[i] = message.value
      BY <1>1, <1>6, <2>1 DEF UpdatePart, Lists!UpdateReported
    <2>5. UpdatePart'
      BY <1>1, <1>2, <1>4, <1>5, <1>6, <2>1, <2>3, <2>4 DEF UpdatePart, Lists!UpdateReported
    <2> QED
      BY <1>1, <1>2, <2>5, FiltersKept, TicksKept, DialogueKept, CopiesKept DEF PagesInv
  <1>8. CASE sending.batch = r.batch
    <2> DEFINE left == sending.left \ {r.item}
    <2>1. /\ UNCHANGED touched
          /\ \/ ~ok /\ sending' = Lists!Idle /\ message' = [kind |-> "error"] /\ UNCHANGED closing
             \/ /\ ok /\ left = {} /\ sending' = Lists!Idle /\ closing' = closing + 1
                /\ message' = [kind |-> "success", items |-> sending.items, value |-> sending.value]
             \/ ok /\ left # {} /\ sending' = [sending EXCEPT !.left = left] /\ UNCHANGED <<message, closing>>
      BY <1>3, <1>8 DEF Lists!Answered, Lists!Settled
    <2>2. sending # Lists!Idle
      BY <1>5, <1>8 DEF Lists!Idle
    <2>3. /\ sending \in [batch : {batches}, items : SUBSET Items, value : Values, left : SUBSET Items]
          /\ batches # 0 /\ message.kind # "success" /\ r.value = sending.value
      BY <1>1, <1>8, <2>2 DEF UpdatePart
    <2>4. /\ DOMAIN table' \subseteq Items /\ table' \in [DOMAIN table' -> Values]
          /\ requests' \subseteq Lists!Request /\ touched' \subseteq Items /\ replaced' \subseteq Items
          /\ typed' \in Values /\ batches' \in 0..MaxBatches /\ batches' = batches
          /\ closing \in Nat /\ closing + 1 <= batches
          /\ \A q \in requests' : q \in requests /\ q.batch <= batches
      BY <1>1, <1>2, <1>4, <1>6, <2>1, <2>2 DEF UpdatePart
    <2>5. CASE ~ok
      <3>1. sending' = Lists!Idle /\ message' = [kind |-> "error"] /\ closing' = closing
        BY <2>1, <2>5
      <3>2. message'.kind # "success"
        BY <3>1
      <3>3. closing' \in Nat /\ closing' + 0 <= batches
        BY <2>4, <3>1
      <3> QED
        <4>1. UpdatePart'
          BY <1>2, <1>4, <2>4, <3>1, <3>2, <3>3 DEF UpdatePart
        <4> QED
          BY <1>1, <1>2, <4>1, FiltersKept, TicksKept, DialogueKept, CopiesKept DEF PagesInv
    <2>6. ASSUME ok
          PROVE  \A i \in sending.items \ (left \cup touched' \cup replaced') : i \in DOMAIN table' /\ table'[i] = sending.value
      <3> SUFFICES ASSUME NEW i \in sending.items \ (left \cup touched' \cup replaced')
                   PROVE  i \in DOMAIN table' /\ table'[i] = sending.value
        OBVIOUS
      <3>1. CASE i = r.item
        BY <1>3, <1>6, <1>8, <2>3, <2>6, <3>1
      <3>2. CASE i # r.item
        <4>1. i \in sending.items \ (sending.left \cup touched \cup replaced)
          BY <1>6, <2>1, <3>2
        <4> QED
          BY <1>1, <1>6, <2>2, <3>2, <4>1 DEF UpdatePart
      <3> QED
        BY <3>1, <3>2
    <2>7. CASE ok /\ left = {}
      <3>1. /\ sending' = Lists!Idle /\ closing' = closing + 1
            /\ message' = [kind |-> "success", items |-> sending.items, value |-> sending.value]
        BY <2>1, <2>7
      <3>2. /\ message' \in [kind : {"success"}, items : SUBSET Items, value : Values]
            /\ message'.items = sending.items /\ message'.value = sending.value
        BY <2>3, <3>1
      <3>3. \A i \in message'.items \ (touched' \cup replaced') : i \in DOMAIN table' /\ table'[i] = message'.value
        BY <2>6, <2>7, <3>2
      <3>4. closing' \in Nat /\ closing' + 0 <= batches
        BY <2>4, <3>1
      <3> QED
        <4>1. UpdatePart'
          BY <1>2, <1>4, <2>4, <3>1, <3>2, <3>3, <3>4 DEF UpdatePart, Lists!UpdateReported
        <4> QED
          BY <1>1, <1>2, <4>1, FiltersKept, TicksKept, DialogueKept, CopiesKept DEF PagesInv
    <2>8. CASE ok /\ left # {}
      <3>1. sending' = [sending EXCEPT !.left = left] /\ message' = message /\ closing' = closing
        BY <2>1, <2>8
      <3>2. /\ sending' \in [batch : {batches}, items : SUBSET Items, value : Values, left : SUBSET Items]
            /\ sending'.items = sending.items /\ sending'.value = sending.value /\ sending'.left = left
            /\ sending'.batch = sending.batch
        BY <2>3, <3>1
      <3>3. sending' # Lists!Idle
        BY <2>3, <3>2 DEF Lists!Idle
      <3>4. \A i \in sending'.items \ (sending'.left \cup touched' \cup replaced') : i \in DOMAIN table' /\ table'[i] = sending'.value
        BY <2>6, <2>8, <3>2
      <3>5. \A q \in requests' : q.batch = sending'.batch => q.value = sending'.value
        BY <1>1, <2>2, <2>4, <3>2 DEF UpdatePart
      <3>6. \/ message' = Lists!Silent \/ message' = [kind |-> "error"]
            \/ message' \in [kind : {"success"}, items : SUBSET Items, value : Values]
        BY <1>1, <3>1 DEF UpdatePart
      <3> QED
        <4>1. UpdatePart'
          BY <1>2, <1>4, <2>3, <2>4, <3>1, <3>2, <3>3, <3>4, <3>5, <3>6 DEF UpdatePart
        <4> QED
          BY <1>1, <1>2, <4>1, FiltersKept, TicksKept, DialogueKept, CopiesKept DEF PagesInv
    <2> QED
      BY <2>5, <2>7, <2>8
  <1> QED
    BY <1>7, <1>8
-----------------------------------------------------------------------------
(* The dialogues that copy and delete *)
LEMMA CopyFrame ==
  ASSUME PagesInv, UNCHANGED <<Lists!tableVars, Lists!filterVars, Lists!tickVars, Lists!updateVars>>,
         DialoguePart', CopyPart'
  PROVE  PagesInv'
  <1>1. UNCHANGED <<view, filters, searched, listed, selected, select_all, table, requests, touched, replaced,
                    typed, sending, message, closing, batches>>
    BY DEF Lists!tableVars, Lists!filterVars, Lists!tickVars, Lists!updateVars
  <1> QED
    BY <1>1, FiltersKept, TicksKept, UpdatesKept DEF PagesInv

LEMMA CopyOpened ==
  ASSUME PagesInv,
         \/ Lists!CopyTicked \/ (\E row \in Items : Lists!CopyRow(row))
         \/ \E row \in Items : Lists!CopyCard(row)
  PROVE  PagesInv'
  <1>1. DialoguePart /\ CopyPart
    BY DEF PagesInv
  <1>2. /\ view = "copies" /\ dialogue = Lists!Nothing /\ dialogue' \in {"copy", "copies"}
        /\ loading' = loading \cup {dialogue'} /\ picked' \in Items \cup {Lists!Nothing}
        /\ asking' = IF dialogue' = "copy" THEN asking \cup {picked'} ELSE asking
        /\ dialogue' = "copy" => picked' \in Items
        /\ UNCHANGED <<Lists!tableVars, Lists!filterVars, Lists!tickVars, Lists!updateVars>>
        /\ UNCHANGED <<view, original, posting, trapped, copying, left_behind, astray>>
    <2>1. ASSUME NEW kind, Lists!OpenCopy(kind)
          PROVE  /\ view = "copies" /\ dialogue = Lists!Nothing /\ dialogue' = kind
                 /\ loading' = loading \cup {kind}
                 /\ UNCHANGED <<Lists!tableVars, Lists!filterVars, Lists!tickVars, Lists!updateVars>>
                 /\ UNCHANGED <<view, original, posting, trapped, copying, left_behind, astray>>
      BY <2>1 DEF Lists!OpenCopy, Lists!On, Lists!filterVars
    <2>2. CASE Lists!CopyTicked
      <3>1. Lists!OpenCopy("copies") /\ UNCHANGED <<picked, asking>>
        BY <2>2 DEF Lists!CopyTicked
      <3> QED
        BY <1>1, <2>1, <3>1 DEF DialoguePart
    <2>3. ASSUME NEW row \in Items, Lists!CopyRow(row)
          PROVE  Lists!OpenCopy("copies") /\ picked' = row /\ UNCHANGED asking
      BY <2>3 DEF Lists!CopyRow
    <2>4. ASSUME NEW row \in Items, Lists!CopyCard(row)
          PROVE  Lists!OpenCopy("copy") /\ picked' = row /\ asking' = asking \cup {row}
      BY <2>4 DEF Lists!CopyCard
    <2>5. CASE \E row \in Items : Lists!CopyRow(row)
      BY <2>1, <2>3, <2>5
    <2>6. CASE \E row \in Items : Lists!CopyCard(row)
      BY <2>1, <2>4, <2>6
    <2> QED
      BY <2>2, <2>5, <2>6
  <1>3. DialoguePart'
    BY <1>2 DEF DialoguePart, Lists!Dialogues
  <1>4. CopyPart'
    BY <1>1, <1>2 DEF CopyPart, Lists!Nothing
  <1> QED
    BY <1>2, <1>3, <1>4, CopyFrame

LEMMA CopyActions ==
  ASSUME PagesInv,
         \/ (\E i \in Items : Lists!Details(i)) \/ Lists!AllDetails \/ Lists!CloseCopy \/ Lists!PostCopy
         \/ Lists!CopyAnswered \/ Lists!StartCopies \/ \E i \in Items : Lists!CopyNext(i)
  PROVE  PagesInv'
  <1>1. FilterPart /\ TickPart /\ DialoguePart /\ CopyPart
    BY DEF PagesInv
  <1>2. UNCHANGED <<Lists!tableVars, Lists!filterVars, Lists!tickVars, Lists!updateVars>> /\ UNCHANGED view
    BY DEF Lists!Details, Lists!AllDetails, Lists!CloseCopy, Lists!PostCopy, Lists!CopyAnswered, Lists!StartCopies,
       Lists!CopyNext, Lists!filterVars
  <1>3. ASSUME NEW i \in Items, Lists!Details(i)
        PROVE  DialoguePart' /\ CopyPart'
    <2>1. /\ view = "copies" /\ i \in asking /\ asking' = asking \ {i} /\ loading' = loading \ {"copy"}
          /\ \/ original' = i /\ UNCHANGED trapped
             \/ trapped' = trapped \cup {"copy"} /\ UNCHANGED original
          /\ UNCHANGED <<picked, dialogue, posting, copying, left_behind, astray>>
      BY <1>3 DEF Lists!Details
    <2> QED
      BY <1>1, <1>2, <2>1, DialogueKept DEF CopyPart
  <1>4. ASSUME Lists!AllDetails
        PROVE  DialoguePart' /\ CopyPart'
    <2>1. /\ dialogue = "copies" /\ loading' = loading \ {"copies"}
          /\ trapped' \in {trapped, trapped \cup {"copies"}}
          /\ UNCHANGED <<picked, dialogue, asking, original, posting, copying, left_behind, astray>>
      BY <1>4 DEF Lists!AllDetails
    <2> QED
      BY <1>1, <1>2, <2>1, DialogueKept DEF CopyPart, DialoguePart
  <1>5. ASSUME Lists!CloseCopy
        PROVE  DialoguePart' /\ CopyPart'
    <2>1. /\ dialogue \in {"copy", "copies"} /\ dialogue \notin loading /\ copying = {}
          /\ dialogue' = Lists!Nothing /\ picked' = Lists!Nothing
          /\ left_behind' = (left_behind \/ (dialogue = "copy" /\ posting # Lists!Nothing))
          /\ UNCHANGED <<loading, asking, original, posting, trapped, copying, astray>>
      BY <1>5 DEF Lists!CloseCopy, Lists!MayCloseCopy, Lists!Form
    <2>2. DialoguePart'
      BY <2>1 DEF DialoguePart, Lists!Dialogues, Lists!Nothing
    <2>3. left_behind' \in BOOLEAN
      BY <1>1, <2>1 DEF CopyPart
    <2>4. ~left_behind' => ~left_behind /\ posting = Lists!Nothing
      BY <1>1, <2>1 DEF CopyPart, DialoguePart
    <2>5. view' = "copies" /\ (~left_behind' => "copy" \notin loading /\ asking = {})
      BY <1>1, <1>2, <2>1, <2>4 DEF CopyPart, DialoguePart
    <2>6. dialogue' # "copy" /\ copying' = {} /\ posting' = posting /\ loading' = loading /\ asking' = asking
      BY <2>1 DEF Lists!Nothing
    <2>7. CopyPart'
      BY <1>1, <2>1, <2>3, <2>4, <2>5, <2>6 DEF CopyPart
    <2> QED
      BY <2>2, <2>7
  <1>6. ASSUME Lists!PostCopy
        PROVE  DialoguePart' /\ CopyPart'
    <2>1. /\ dialogue = "copy" /\ "copy" \notin loading /\ "copy" \notin trapped /\ posting' = original
          /\ astray' = (astray \/ (original # picked /\ ~left_behind))
          /\ UNCHANGED <<picked, dialogue, loading, asking, original, trapped, copying, left_behind>>
      BY <1>6 DEF Lists!PostCopy, Lists!Form
    <2>2. view = "copies"
      BY <1>1, <2>1 DEF DialoguePart
    <2>3. astray' = FALSE
      BY <1>1, <2>1, <2>2 DEF CopyPart
    <2> QED
      BY <1>1, <1>2, <2>1, <2>2, <2>3, DialogueKept DEF CopyPart
  <1>7. ASSUME Lists!CopyAnswered
        PROVE  DialoguePart' /\ CopyPart'
    <2>1. /\ posting # Lists!Nothing /\ posting' = Lists!Nothing
          /\ \/ /\ dialogue' = IF dialogue = "copy" THEN Lists!Nothing ELSE dialogue
                /\ picked' = Lists!Nothing /\ UNCHANGED trapped
             \/ trapped' = trapped \cup {"copy"} /\ UNCHANGED <<dialogue, picked>>
          /\ UNCHANGED <<loading, asking, original, copying, left_behind, astray>>
      BY <1>7 DEF Lists!CopyAnswered
    <2>2. view = "copies"
      BY <1>1, <2>1 DEF CopyPart
    <2>3. DialoguePart'
      BY <1>1, <1>2, <2>1, <2>2 DEF DialoguePart, Lists!Dialogues, Lists!Nothing
    <2>4. CopyPart'
      BY <1>1, <1>2, <2>1, <2>2 DEF CopyPart, Lists!Nothing
    <2> QED
      BY <2>3, <2>4
  <1>8. ASSUME Lists!StartCopies
        PROVE  DialoguePart' /\ CopyPart'
    <2>1. /\ dialogue = "copies" /\ copying' = selected
          /\ UNCHANGED <<picked, dialogue, loading, asking, original, posting, trapped, left_behind, astray>>
      BY <1>8 DEF Lists!StartCopies, Lists!Form
    <2>2. view = "copies" /\ copying' \subseteq Items
      BY <1>1, <2>1 DEF DialoguePart, TickPart
    <2> QED
      BY <1>1, <1>2, <2>1, <2>2, DialogueKept DEF CopyPart
  <1>9. ASSUME NEW i \in Items, Lists!CopyNext(i)
        PROVE  DialoguePart' /\ CopyPart'
    <2>1. /\ copying # {} /\ copying' \subseteq copying
          /\ \/ UNCHANGED <<dialogue, picked>>
             \/ copying' = {} /\ dialogue' = Lists!Nothing /\ picked' = Lists!Nothing
          /\ trapped' \in {trapped, trapped \cup {"copies"}}
          /\ UNCHANGED <<loading, asking, original, posting, left_behind, astray>>
      <3>1. i \in copying
            /\ \/ /\ copying' = copying \ {i} /\ UNCHANGED trapped
                  /\ IF copying' = {} THEN dialogue' = Lists!Nothing /\ picked' = Lists!Nothing
                                      ELSE UNCHANGED <<dialogue, picked>>
               \/ copying' = {} /\ trapped' = trapped \cup {"copies"} /\ UNCHANGED <<dialogue, picked>>
            /\ UNCHANGED <<loading, asking, original, posting, left_behind, astray>>
        BY <1>9 DEF Lists!CopyNext
      <3> QED
        BY <3>1
    <2>2. view = "copies"
      BY <1>1, <2>1 DEF CopyPart
    <2>3. DialoguePart'
      BY <1>1, <1>2, <2>1, <2>2 DEF DialoguePart, Lists!Dialogues, Lists!Nothing
    <2>4. CopyPart'
      BY <1>1, <1>2, <2>1, <2>2 DEF CopyPart, Lists!Nothing
    <2> QED
      BY <2>3, <2>4
  <1> QED
    BY <1>2, <1>3, <1>4, <1>5, <1>6, <1>7, <1>8, <1>9, CopyFrame

LEMMA DeleteActions ==
  ASSUME PagesInv,
         \/ (\E row \in Items : Lists!AskDelete(row)) \/ Lists!CancelDelete \/ Lists!ConfirmDelete
         \/ \E i \in Items : Lists!DeleteAnswered(i)
  PROVE  PagesInv'
  <1>1. FilterPart /\ TickPart /\ DialoguePart /\ UpdatePart /\ CopyPart
    BY DEF PagesInv
  <1>2. /\ view = "advanced" /\ UNCHANGED <<view, filters, searched, listed, selected, select_all, requests, touched, replaced,
                    typed, sending, message, closing, batches, loading, original, posting, trapped, copying,
                    left_behind, astray>>
        /\ asking' \subseteq Items
        /\ \/ UNCHANGED <<picked, dialogue>>
           \/ dialogue' = "delete" /\ picked' \in Items
           \/ dialogue' = Lists!Nothing /\ picked' = Lists!Nothing
        /\ \/ UNCHANGED table
           \/ \E i \in Items : table' = [j \in DOMAIN table \ {i} |-> table[j]]
    <2>1. ASSUME NEW row \in Items, Lists!AskDelete(row)
          PROVE  /\ view = "advanced" /\ dialogue' = "delete" /\ picked' = row
                 /\ UNCHANGED <<Lists!tableVars, Lists!filterVars, Lists!tickVars, Lists!updateVars, Lists!copyVars>>
      BY <2>1 DEF Lists!AskDelete, Lists!On
    <2>2. CASE Lists!CancelDelete
      <3>1. /\ dialogue = "delete" /\ picked' = Lists!Nothing /\ dialogue' = Lists!Nothing
            /\ UNCHANGED <<Lists!tableVars, Lists!filterVars, Lists!tickVars, Lists!updateVars, Lists!copyVars>>
        BY <2>2 DEF Lists!CancelDelete
      <3> QED
        BY <1>1, <3>1 DEF DialoguePart, CopyPart, Lists!tableVars, Lists!filterVars, Lists!tickVars,
           Lists!updateVars, Lists!copyVars
    <2>3. CASE Lists!ConfirmDelete
      <3>1. /\ dialogue = "delete" /\ asking' = asking \cup {picked}
            /\ UNCHANGED <<Lists!tableVars, Lists!filterVars, Lists!tickVars, Lists!updateVars>>
            /\ UNCHANGED <<picked, dialogue, loading, original, posting, trapped, copying, left_behind, astray>>
        BY <2>3 DEF Lists!ConfirmDelete
      <3> QED
        BY <1>1, <3>1 DEF DialoguePart, CopyPart, Lists!tableVars, Lists!filterVars, Lists!tickVars,
           Lists!updateVars
    <2>4. ASSUME NEW i \in Items, Lists!DeleteAnswered(i)
          PROVE  /\ view = "advanced" /\ asking' = asking \ {i}
                 /\ \/ /\ table' = [j \in DOMAIN table \ {i} |-> table[j]]
                       /\ dialogue' = Lists!Nothing /\ picked' = Lists!Nothing
                    \/ UNCHANGED <<table, dialogue, picked>>
                 /\ UNCHANGED <<requests, touched, replaced, Lists!filterVars, Lists!tickVars, Lists!updateVars>>
                 /\ UNCHANGED <<loading, original, posting, trapped, copying, left_behind, astray>>
      BY <2>4 DEF Lists!DeleteAnswered
    <2>5. CASE \E row \in Items : Lists!AskDelete(row)
      BY <1>1, <2>1, <2>5 DEF CopyPart, Lists!tableVars, Lists!filterVars, Lists!tickVars,
         Lists!updateVars, Lists!copyVars
    <2>6. CASE \E i \in Items : Lists!DeleteAnswered(i)
      BY <1>1, <2>4, <2>6 DEF CopyPart, Lists!filterVars, Lists!tickVars, Lists!updateVars
    <2> QED
      BY <2>2, <2>3, <2>5, <2>6
  <1>3. DialoguePart'
    BY <1>1, <1>2 DEF DialoguePart, Lists!Dialogues, Lists!Nothing
  <1>4. CopyPart'
    BY <1>1, <1>2 DEF CopyPart
  <1>5. UpdatePart'
    <2>1. DOMAIN table' \subseteq Items /\ table' \in [DOMAIN table' -> Values]
      BY <1>1, <1>2 DEF UpdatePart
    <2>2. requests = {} /\ sending = Lists!Idle /\ message = Lists!Silent /\ message.kind # "success"
      BY <1>1, <1>2 DEF UpdatePart, Lists!Silent
    <2> QED
      BY <1>1, <1>2, <2>1, <2>2 DEF UpdatePart
  <1> QED
    BY <1>1, <1>2, <1>3, <1>4, <1>5, FiltersKept, TicksKept DEF PagesInv

LEMMA PagesKept ==
  ASSUME PagesInv, [Lists!ListsNext]_(Lists!listsVars)
  PROVE  PagesInv'
  <1>1. CASE UNCHANGED Lists!listsVars
    <2>1. /\ UNCHANGED <<view, filters, searched, listed, selected, select_all, table, requests, touched, replaced,
                         typed, sending, message, closing, batches, picked, dialogue>>
          /\ UNCHANGED <<loading, asking, original, posting, trapped, copying, left_behind, astray>>
      BY <1>1 DEF Lists!listsVars, Lists!tableVars, Lists!filterVars, Lists!tickVars, Lists!updateVars, Lists!copyVars
    <2> QED
      BY <2>1, FiltersKept, TicksKept, DialogueKept, UpdatesKept, CopiesKept DEF PagesInv
  <1>2. CASE \/ \E field \in UNION {FilterFields[v] : v \in Lists!Views} : Lists!Filter(field) \/ Lists!FilterByCard(field)
             \/ Lists!ClearFilters
    BY <1>2, FilterActions
  <1>3. CASE Lists!Load \/ (\E i \in Items : Lists!Tick(i)) \/ Lists!TickAll \/ Lists!ClearTicks
    BY <1>3, TickActions
  <1>4. CASE \/ Lists!UpdateTicked \/ (\E row \in Items : Lists!UpdateRow(row))
             \/ (\E value \in Values : Lists!Choose(value)) \/ Lists!CloseUpdate \/ Lists!TimerFires
    BY <1>4, UpdateDialogue
  <1>5. CASE Lists!Submit \/ \E r \in requests : Lists!UpdateAnswered(r)
    BY <1>5, UpdateSubmitted, UpdateAnswers
  <1>6. CASE \/ Lists!CopyTicked \/ (\E row \in Items : Lists!CopyRow(row))
             \/ \E row \in Items : Lists!CopyCard(row)
    BY <1>6, CopyOpened
  <1>7. CASE \/ (\E i \in Items : Lists!Details(i)) \/ Lists!AllDetails \/ Lists!CloseCopy \/ Lists!PostCopy
             \/ Lists!CopyAnswered \/ Lists!StartCopies \/ \E i \in Items : Lists!CopyNext(i)
    BY <1>7, CopyActions
  <1>8. CASE \/ (\E row \in Items : Lists!AskDelete(row)) \/ Lists!CancelDelete \/ Lists!ConfirmDelete
             \/ \E i \in Items : Lists!DeleteAnswered(i)
    BY <1>8, DeleteActions
  <1> QED
    BY <1>1, <1>2, <1>3, <1>4, <1>5, <1>6, <1>7, <1>8 DEF Lists!ListsNext
-----------------------------------------------------------------------------
(***************************************************************************)
(* The start of the server                                                 *)
(***************************************************************************)
(* While statements are left, there is a script that they are of. *)
StartInv ==
    /\ plan \in Plans
    /\ queue \in Seq(DOMAIN Starts!Scripts)
    /\ todo # << >> => queue # << >>
    /\ server \in {"down", "starting", "listening", "silent"}
    /\ cut_short \subseteq DOMAIN Starts!Scripts /\ reported \subseteq DOMAIN Starts!Scripts

LEMMA StartsSound == StartInv => Starts!MigrationTypeOK
  <1> SUFFICES ASSUME StartInv PROVE Starts!MigrationTypeOK
    OBVIOUS
  <1> DEFINE Names == DOMAIN Starts!Scripts
  <1>1. queue \in Seq(Names) /\ plan \in Plans /\ cut_short \subseteq Names /\ reported \subseteq Names
        /\ server \in {"down", "starting", "listening", "silent"}
    BY DEF StartInv
  <1> HIDE DEF Names
  <1>2. \A i \in DOMAIN queue : queue[i] \in Names
    BY <1>1
  <1> QED
    BY <1>1, <1>2 DEF Starts!MigrationTypeOK, Names

LEMMA StartScripts == Starts!StartRuns \in Seq(DOMAIN Starts!Scripts)
  <1>1. {"inventory", "description", "seed"} \subseteq DOMAIN Starts!Scripts
    BY DEF Starts!Scripts
  <1> DEFINE Names == DOMAIN Starts!Scripts
  <1> HIDE DEF Names
  <1>2. <<"inventory", "description">> \in Seq(Names) /\ <<"seed">> \in Seq(Names) /\ << >> \in Seq(Names)
    BY <1>1 DEF Names
  <1> QED
    BY <1>2 DEF Starts!StartRuns, Names

(* What Begin makes of a sequence of scripts *)
LEMMA Begun ==
  ASSUME NEW scripts \in Seq(DOMAIN Starts!Scripts), Starts!Begin(scripts)
  PROVE  queue' \in Seq(DOMAIN Starts!Scripts) /\ (todo' # << >> => queue' # << >>)
  BY DEF Starts!Begin

LEMMA StartsBegin == Starts!Init => StartInv
  <1> DEFINE Names == DOMAIN Starts!Scripts
  <1> HIDE DEF Names
  <1>1. << >> \in Seq(Names)
    OBVIOUS
  <1> QED
    BY <1>1 DEF Starts!Init, StartInv, Names

LEMMA StartsKept == StartInv /\ [Starts!Next]_migrationVars => StartInv'
  <1> SUFFICES ASSUME StartInv, [Starts!Next]_migrationVars PROVE StartInv'
    OBVIOUS
  <1> DEFINE Names == DOMAIN Starts!Scripts
             Running == queue # << >> => Head(queue) \in Names /\ Tail(queue) \in Seq(Names)
  <1>1. /\ plan \in Plans /\ queue \in Seq(Names) /\ (todo # << >> => queue # << >>)
        /\ server \in {"down", "starting", "listening", "silent"}
        /\ cut_short \subseteq Names /\ reported \subseteq Names
    BY DEF StartInv
  <1>2. << >> \in Seq(Names) /\ \A s \in Names : <<s>> \in Seq(Names)
    <2> HIDE DEF Names
    <2> QED
      OBVIOUS
  <1>3. Running
    <2> HIDE DEF Names
    <2> QED
      BY <1>1
  <1>4. Starts!Half \in SUBSET (IF todo = << >> THEN {} ELSE {Head(queue)})
    BY DEF Starts!Half
  <1> HIDE DEF Names
  <1>5. ASSUME plan' = plan, queue' \in Seq(Names), todo' # << >> => queue' # << >>,
               server' \in {"down", "starting", "listening", "silent"},
               cut_short' \subseteq Names, reported' \subseteq Names
        PROVE  StartInv'
    BY <1>1, <1>5 DEF StartInv, Names
  <1>6. ASSUME NEW scripts \in Seq(Names), Starts!Begin(scripts)
        PROVE  queue' \in Seq(Names) /\ (todo' # << >> => queue' # << >>)
    BY <1>6, Begun DEF Names
  <1>7. CASE UNCHANGED migrationVars
    BY <1>1, <1>5, <1>7 DEF migrationVars
  <1>8. ASSUME NEW s \in Names, Starts!RunScript(s) PROVE StartInv'
    BY <1>1, <1>2, <1>5, <1>6, <1>8 DEF Starts!RunScript
  <1>9. CASE Starts!Start
    <2>1. Starts!StartRuns \in Seq(Names)
      BY StartScripts DEF Names
    <2>2. \/ Starts!Begin(Starts!StartRuns) /\ server' = "starting"
          \/ UNCHANGED <<queue, todo>> /\ server' = "silent"
      BY <1>9 DEF Starts!Start
    <2>3. UNCHANGED <<plan, cut_short, reported>>
      BY <1>9 DEF Starts!Start
    <2> QED
      BY <1>1, <1>5, <1>6, <2>1, <2>2, <2>3
  <1>10. CASE Starts!Execute \/ Starts!SkipFailed
    <2>1. /\ todo # << >> /\ UNCHANGED <<plan, queue, server, cut_short>>
          /\ reported' \in {reported, reported \cup {Head(queue)}}
      BY <1>10 DEF Starts!Execute, Starts!SkipFailed
    <2> QED
      BY <1>1, <1>3, <1>5, <2>1
  <1>11. CASE Starts!Throw
    <2>1. /\ todo # << >> /\ plan' = plan
          /\ cut_short' \in {cut_short, cut_short \cup Starts!Half}
          /\ reported' \in {reported, reported \cup {Head(queue)}, reported \ {Head(queue)}}
          /\ server' \in {server, "silent"}
          /\ Starts!Begin(<< >>) \/ Starts!Begin(Tail(queue)) \/ UNCHANGED queue
      BY <1>11 DEF Starts!Throw
    <2>2. cut_short' \subseteq Names /\ reported' \subseteq Names
      BY <1>1, <1>3, <1>4, <2>1
    <2> QED
      BY <1>1, <1>2, <1>3, <1>5, <1>6, <2>1, <2>2
  <1>12. CASE Starts!Proceed
    <2>1. /\ queue # << >> /\ Starts!Begin(Tail(queue)) /\ UNCHANGED <<plan, server, cut_short>>
          /\ reported' \in {reported, reported \cup {Head(queue)}}
      BY <1>12 DEF Starts!Proceed
    <2> QED
      BY <1>1, <1>3, <1>5, <1>6, <2>1
  <1>13. CASE Starts!Listen
    BY <1>1, <1>5, <1>13 DEF Starts!Listen
  <1>14. CASE Starts!Kill
    <2>1. /\ cut_short' \in {cut_short, cut_short \cup Starts!Half}
          /\ reported' \in {reported, reported \ {Head(queue)}}
          /\ queue' = << >> /\ todo' = << >> /\ server' = "down" /\ plan' = plan
      BY <1>14 DEF Starts!Kill
    <2>2. cut_short' \subseteq Names
      BY <1>1, <1>3, <1>4, <2>1
    <2> QED
      BY <1>1, <1>2, <1>5, <2>1, <2>2
  <1> QED
    BY <1>7, <1>8, <1>9, <1>10, <1>11, <1>12, <1>13, <1>14 DEF Starts!Next, Names
-----------------------------------------------------------------------------
(***************************************************************************)
(* What the scripts say of themselves                                      *)
(***************************************************************************)
Parts(s) == {Starts!Statements(s)[i] : i \in DOMAIN Starts!Statements(s)}
Touches(s) == UNION {t.objects : t \in Parts(s)}

(* What a statement is there for, and what a script still has to make when *)
(* the statements of rest are left.                                        *)
Makes(t) ==
    IF t.how \in {"ensure", "add", "impossible"} /\ ~t.tolerated THEN t.objects ELSE {}
Later(rest) == UNION {Makes(rest[i]) : i \in DOMAIN rest}

(* What a statement takes away of what is needed, a later one makes again. *)
PutsBack(rest, needed) ==
    \A i \in DOMAIN rest : rest[i].how \in {"drop", "remove"} =>
        \A o \in rest[i].objects \cap needed : \E j \in DOMAIN rest : j > i /\ o \in Makes(rest[j])

Regular(s) ==
    /\ s \in DOMAIN Starts!Scripts
    /\ Starts!Statements(s) \in Seq(Parts(s))
    /\ PutsBack(Starts!Statements(s), Starts!Required(s))
    /\ "equipment_ibfk" \notin Starts!Scripts[s].skip_if

(* No statement of s touches what t needs or looks for. *)
Apart(s, t) == Touches(s) \cap (Starts!Required(t) \cup Starts!Scripts[t].skip_if) = {}

Planned == Starts!Plan[plan] \cup {Starts!StartRuns[i] : i \in DOMAIN Starts!StartRuns}

LEMMA RequiredLater ==
  ASSUME NEW s
  PROVE  Starts!Required(s) = Later(Starts!Statements(s))
  BY DEF Starts!Required, Later, Makes

LEMMA RequiredTouched ==
  ASSUME NEW s
  PROVE  Starts!Required(s) \subseteq Touches(s)
  BY DEF Starts!Required, Touches, Parts

(* The kinds of statements *)
LEMMA Kinds ==
  ASSUME NEW o
  PROVE  /\ Starts!Ensure(o).how = "ensure" /\ Starts!Ensure(o).objects = {o}
         /\ Starts!Add(o).how = "add" /\ Starts!Add(o).objects = {o}
         /\ Starts!Drop(o).how = "drop" /\ Starts!Drop(o).objects = {o}
         /\ Starts!Verify(o).how = "verify" /\ Starts!Verify(o).objects = {o}
         /\ Starts!Impossible(o).how = "impossible" /\ Starts!Impossible(o).objects = {o}
         /\ Starts!Tolerated(Starts!Ensure(o)).how = "ensure"
         /\ Starts!Tolerated(Starts!Ensure(o)).objects = {o}
  <1>1. Starts!Ensure(o).how = "ensure" /\ Starts!Ensure(o).objects = {o}
    BY DEF Starts!Ensure
  <1>2. Starts!Add(o).how = "add" /\ Starts!Add(o).objects = {o}
    BY DEF Starts!Ensure, Starts!Add
  <1>3. Starts!Drop(o).how = "drop" /\ Starts!Drop(o).objects = {o}
    BY DEF Starts!Ensure, Starts!Drop
  <1>4. Starts!Verify(o).how = "verify" /\ Starts!Verify(o).objects = {o}
    BY DEF Starts!Ensure, Starts!Verify
  <1>5. Starts!Impossible(o).how = "impossible" /\ Starts!Impossible(o).objects = {o}
    BY DEF Starts!Ensure, Starts!Impossible
  <1>6. Starts!Tolerated(Starts!Ensure(o)).how = "ensure"
        /\ Starts!Tolerated(Starts!Ensure(o)).objects = {o}
    BY DEF Starts!Ensure, Starts!Tolerated
  <1> QED
    BY <1>1, <1>2, <1>3, <1>4, <1>5, <1>6

(* Two columns in one ALTER TABLE *)
LEMMA TwoColumns ==
  ASSUME NEW o, NEW p
  PROVE  /\ Starts!Together(Starts!Add(o), p).how = "add"
         /\ Starts!Together(Starts!Add(o), p).objects = {o, p}
  BY DEF Starts!Ensure, Starts!Add, Starts!Together

LEMMA MakesOf ==
  ASSUME NEW o
  PROVE  /\ Makes(Starts!Ensure(o)) = {o} /\ Makes(Starts!Add(o)) = {o}
         /\ Makes(Starts!Drop(o)) = {}
  <1>1. ~Starts!Ensure(o).tolerated /\ ~Starts!Add(o).tolerated
    BY DEF Starts!Ensure, Starts!Add
  <1> QED
    BY <1>1, Kinds DEF Makes

LEMMA OwnParts ==
  ASSUME NEW K, NEW s, Starts!Statements(s) \in Seq(K)
  PROVE  Starts!Statements(s) \in Seq(Parts(s))
  BY DEF Parts

(* Scripts that take nothing away *)
LEMMA KeepsAll ==
  ASSUME NEW s \in DOMAIN Starts!Scripts, NEW K, Starts!Statements(s) \in Seq(K),
         \A t \in K : t.how \notin {"drop", "remove"},
         "equipment_ibfk" \notin Starts!Scripts[s].skip_if
  PROVE  Regular(s)
  <1>1. PutsBack(Starts!Statements(s), Starts!Required(s))
    BY DEF PutsBack
  <1> QED
    BY <1>1, OwnParts DEF Regular

(* The scripts of the plans that do not rival *)
LEMMA ScriptNames ==
  /\ Starts!Scripts["inventory"] = Starts!inventory
  /\ Starts!Scripts["description"] = Starts!description
  /\ Starts!Scripts["inventory_from_sql"] = Starts!inventory_from_sql
  /\ Starts!Scripts["installation_location_id"] = Starts!installation_location_id
  /\ Starts!Scripts["quantity"] = Starts!quantity
  /\ Starts!Scripts["locations"] = Starts!locations
  /\ Starts!Scripts["equipment_types"] = Starts!equipment_types
  /\ Starts!Scripts["shows_tables"] = Starts!shows_tables
  /\ Starts!Scripts["roles"] = Starts!roles
  /\ Starts!Scripts["category"] = Starts!category
  /\ Starts!Scripts["location_column"] = Starts!location_column
  /\ Starts!Scripts["categories"] = Starts!categories
  /\ Starts!Scripts["saved_searches"] = Starts!saved_searches
  /\ Starts!Scripts["addresses"] = Starts!addresses
  /\ Starts!Scripts["seed"] = Starts!seed
  /\ Starts!Scripts["circular_reference"] = Starts!circular_reference
  /\ Starts!Scripts["db_constraints"] = Starts!db_constraints
  /\ Starts!Scripts["db_sequelize"] = Starts!db_sequelize
  /\ Starts!Scripts["db_direct"] = Starts!db_direct
  /\ Starts!Scripts["custom_location"] = Starts!custom_location
  BY DEF Starts!Scripts

LEMMA KeepingScripts == \A s \in {"inventory", "description",
                                   "inventory_from_sql",
                                   "installation_location_id",
                                   "quantity", "locations",
                                   "equipment_types", "shows_tables",
                                   "roles", "category",
                                   "location_column", "categories",
                                   "saved_searches",
                                   "addresses"} : Regular(s)
  <1>1. Regular("inventory")
    <2> DEFINE K == {Starts!Ensure("inventory_allocation"),
                     Starts!Ensure("equipment_status_log"),
                     Starts!Tolerated(Starts!Ensure("equipment.quantity")),
                     Starts!Tolerated(Starts!Ensure("equipment.status")),
                     Starts!Tolerated(Starts!Ensure("equipment_availability")),
                     Starts!Tolerated(Starts!Ensure("location_inventory")),
                     Starts!Verify("inventory_allocation"), Starts!Verify("equipment_status_log")}
    <2>1. Starts!inventory.statements \in Seq(K) /\ "equipment_ibfk" \notin Starts!inventory.skip_if
      BY DEF Starts!inventory, Starts!Script
    <2>2. \A t \in K : t.how \notin {"drop", "remove"}
      BY Kinds
    <2> HIDE DEF K
    <2>3. "inventory" \in DOMAIN Starts!Scripts
      BY DEF Starts!Scripts
    <2> QED
      BY <2>1, <2>2, <2>3, ScriptNames, KeepsAll DEF Starts!Statements
  <1>2. Regular("description")
    <2> DEFINE K == {Starts!Add("locations.description")}
    <2>1. Starts!description.statements \in Seq(K) /\ "equipment_ibfk" \notin Starts!description.skip_if
      BY DEF Starts!description, Starts!Script
    <2>2. \A t \in K : t.how \notin {"drop", "remove"}
      BY Kinds
    <2> HIDE DEF K
    <2>3. "description" \in DOMAIN Starts!Scripts
      BY DEF Starts!Scripts
    <2> QED
      BY <2>1, <2>2, <2>3, ScriptNames, KeepsAll DEF Starts!Statements
  <1>3. Regular("inventory_from_sql")
    <2> DEFINE K == {Starts!Impossible("equipment.quantity")}
    <2>1. Starts!inventory_from_sql.statements \in Seq(K) /\ "equipment_ibfk" \notin Starts!inventory_from_sql.skip_if
      BY DEF Starts!inventory_from_sql, Starts!Script
    <2>2. \A t \in K : t.how \notin {"drop", "remove"}
      BY Kinds
    <2> HIDE DEF K
    <2>3. "inventory_from_sql" \in DOMAIN Starts!Scripts
      BY DEF Starts!Scripts
    <2> QED
      BY <2>1, <2>2, <2>3, ScriptNames, KeepsAll DEF Starts!Statements
  <1>4. Regular("installation_location_id")
    <2> DEFINE K == {Starts!Add("equipment.installation_location_id"),
                     Starts!Add("fk_equipment_installation_location")}
    <2>1. Starts!installation_location_id.statements \in Seq(K) /\ "equipment_ibfk" \notin Starts!installation_location_id.skip_if
      BY DEF Starts!installation_location_id, Starts!Script
    <2>2. \A t \in K : t.how \notin {"drop", "remove"}
      BY Kinds
    <2> HIDE DEF K
    <2>3. "installation_location_id" \in DOMAIN Starts!Scripts
      BY DEF Starts!Scripts
    <2> QED
      BY <2>1, <2>2, <2>3, ScriptNames, KeepsAll DEF Starts!Statements
  <1>5. Regular("quantity")
    <2> DEFINE K == {Starts!Add("equipment.quantity"), Starts!Ensure("status unavailable"),
                     Starts!Ensure("items without units unavailable")}
    <2>1. Starts!quantity.statements \in Seq(K) /\ "equipment_ibfk" \notin Starts!quantity.skip_if
      BY DEF Starts!quantity, Starts!Script
    <2>2. \A t \in K : t.how \notin {"drop", "remove"}
      BY Kinds
    <2> HIDE DEF K
    <2>3. "quantity" \in DOMAIN Starts!Scripts
      BY DEF Starts!Scripts
    <2> QED
      BY <2>1, <2>2, <2>3, ScriptNames, KeepsAll DEF Starts!Statements
  <1>6. Regular("locations")
    <2> DEFINE K == {Starts!Ensure("locations"),
                     Starts!Tolerated(Starts!Ensure("equipment.location_id"))}
    <2>1. Starts!locations.statements \in Seq(K) /\ "equipment_ibfk" \notin Starts!locations.skip_if
      BY DEF Starts!locations, Starts!Script
    <2>2. \A t \in K : t.how \notin {"drop", "remove"}
      BY Kinds
    <2> HIDE DEF K
    <2>3. "locations" \in DOMAIN Starts!Scripts
      BY DEF Starts!Scripts
    <2> QED
      BY <2>1, <2>2, <2>3, ScriptNames, KeepsAll DEF Starts!Statements
  <1>7. Regular("equipment_types")
    <2> DEFINE K == {Starts!Add("equipment_types"), Starts!Ensure("eight types")}
    <2>1. Starts!equipment_types.statements \in Seq(K) /\ "equipment_ibfk" \notin Starts!equipment_types.skip_if
      BY DEF Starts!equipment_types, Starts!Script
    <2>2. \A t \in K : t.how \notin {"drop", "remove"}
      BY Kinds
    <2> HIDE DEF K
    <2>3. "equipment_types" \in DOMAIN Starts!Scripts
      BY DEF Starts!Scripts
    <2> QED
      BY <2>1, <2>2, <2>3, ScriptNames, KeepsAll DEF Starts!Statements
  <1>8. Regular("shows_tables")
    <2> DEFINE K == {Starts!Ensure("shows"), Starts!Ensure("show_equipment")}
    <2>1. Starts!shows_tables.statements \in Seq(K) /\ "equipment_ibfk" \notin Starts!shows_tables.skip_if
      BY DEF Starts!shows_tables, Starts!Script
    <2>2. \A t \in K : t.how \notin {"drop", "remove"}
      BY Kinds
    <2> HIDE DEF K
    <2>3. "shows_tables" \in DOMAIN Starts!Scripts
      BY DEF Starts!Scripts
    <2> QED
      BY <2>1, <2>2, <2>3, ScriptNames, KeepsAll DEF Starts!Statements
  <1>9. Regular("roles")
    <2> DEFINE K == {Starts!Ensure("users.role"), Starts!Ensure("users of role basic")}
    <2>1. Starts!roles.statements \in Seq(K) /\ "equipment_ibfk" \notin Starts!roles.skip_if
      BY DEF Starts!roles, Starts!Script
    <2>2. \A t \in K : t.how \notin {"drop", "remove"}
      BY Kinds
    <2> HIDE DEF K
    <2>3. "roles" \in DOMAIN Starts!Scripts
      BY DEF Starts!Scripts
    <2> QED
      BY <2>1, <2>2, <2>3, ScriptNames, KeepsAll DEF Starts!Statements
  <1>10. Regular("category")
    <2> DEFINE K == {Starts!Add("equipment.category")}
    <2>1. Starts!category.statements \in Seq(K) /\ "equipment_ibfk" \notin Starts!category.skip_if
      BY DEF Starts!category, Starts!Script
    <2>2. \A t \in K : t.how \notin {"drop", "remove"}
      BY Kinds
    <2> HIDE DEF K
    <2>3. "category" \in DOMAIN Starts!Scripts
      BY DEF Starts!Scripts
    <2> QED
      BY <2>1, <2>2, <2>3, ScriptNames, KeepsAll DEF Starts!Statements
  <1>11. Regular("location_column")
    <2> DEFINE K == {Starts!Add("equipment.location_id")}
    <2>1. Starts!location_column.statements \in Seq(K) /\ "equipment_ibfk" \notin Starts!location_column.skip_if
      BY DEF Starts!location_column, Starts!Script
    <2>2. \A t \in K : t.how \notin {"drop", "remove"}
      BY Kinds
    <2> HIDE DEF K
    <2>3. "location_column" \in DOMAIN Starts!Scripts
      BY DEF Starts!Scripts
    <2> QED
      BY <2>1, <2>2, <2>3, ScriptNames, KeepsAll DEF Starts!Statements
  <1>12. Regular("categories")
    <2> DEFINE K == {Starts!Add("equipment_categories")}
    <2>1. Starts!categories.statements \in Seq(K) /\ "equipment_ibfk" \notin Starts!categories.skip_if
      BY DEF Starts!categories, Starts!Script
    <2>2. \A t \in K : t.how \notin {"drop", "remove"}
      BY Kinds
    <2> HIDE DEF K
    <2>3. "categories" \in DOMAIN Starts!Scripts
      BY DEF Starts!Scripts
    <2> QED
      BY <2>1, <2>2, <2>3, ScriptNames, KeepsAll DEF Starts!Statements
  <1>13. Regular("saved_searches")
    <2> DEFINE K == {Starts!Add("saved_searches")}
    <2>1. Starts!saved_searches.statements \in Seq(K) /\ "equipment_ibfk" \notin Starts!saved_searches.skip_if
      BY DEF Starts!saved_searches, Starts!Script
    <2>2. \A t \in K : t.how \notin {"drop", "remove"}
      BY Kinds
    <2> HIDE DEF K
    <2>3. "saved_searches" \in DOMAIN Starts!Scripts
      BY DEF Starts!Scripts
    <2> QED
      BY <2>1, <2>2, <2>3, ScriptNames, KeepsAll DEF Starts!Statements
  <1>14. Regular("addresses")
    <2> DEFINE K == {Starts!Together(Starts!Add("locations.street"), "locations.city")}
    <2>1. Starts!addresses.statements \in Seq(K) /\ "equipment_ibfk" \notin Starts!addresses.skip_if
      BY DEF Starts!addresses, Starts!Script
    <2>2. \A t \in K : t.how \notin {"drop", "remove"}
      BY Kinds, TwoColumns
    <2> HIDE DEF K
    <2>3. "addresses" \in DOMAIN Starts!Scripts
      BY DEF Starts!Scripts
    <2> QED
      BY <2>1, <2>2, <2>3, ScriptNames, KeepsAll DEF Starts!Statements
  <1> QED
    BY <1>1, <1>2, <1>3, <1>4, <1>5, <1>6, <1>7, <1>8, <1>9, <1>10, <1>11, <1>12, <1>13, <1>14

LEMMA Repairs == \A s \in {"circular_reference", "db_constraints", "db_sequelize", "db_direct"} : Regular(s)
  <1> DEFINE Old == "equipment_ibfk"
             New == "fk_equipment_reference_image"
             Once == <<Starts!Drop(Old), Starts!Add(New)>>
             Anew == <<Starts!Drop(Old), Starts!Drop(New), Starts!Add(New)>>
             K == {Starts!Drop(Old), Starts!Drop(New), Starts!Add(New)}
  <1>1. Starts!circular_reference.statements = Once /\ Starts!circular_reference.skip_if = {New}
    BY DEF Starts!circular_reference, Starts!Script
  <1>2. Starts!db_constraints.statements = Anew /\ Starts!db_constraints.skip_if = {}
        /\ Starts!db_sequelize = Starts!db_constraints /\ Starts!db_direct = Starts!db_constraints
    BY DEF Starts!db_constraints, Starts!db_sequelize, Starts!db_direct, Starts!Script
  <1>3. ASSUME NEW s \in {"circular_reference", "db_constraints", "db_sequelize", "db_direct"}
        PROVE  /\ Starts!Statements(s) \in {Once, Anew} /\ Old \notin Starts!Scripts[s].skip_if
               /\ s \in DOMAIN Starts!Scripts
    <2>1. s \in DOMAIN Starts!Scripts
      BY DEF Starts!Scripts
    <2> HIDE DEF Once, Anew
    <2> QED
      BY <1>1, <1>2, <2>1, ScriptNames DEF Starts!Statements
  <1>4. Once \in Seq(K) /\ Anew \in Seq(K)
    OBVIOUS
  <1>5. Old \notin Later(Once) /\ Old \notin Later(Anew)
    BY MakesOf DEF Later
  <1>6. PutsBack(Once, Later(Once)) /\ PutsBack(Anew, Later(Anew))
    <2>1. PutsBack(Once, Later(Once))
      BY <1>5, Kinds DEF PutsBack
    <2>2. PutsBack(Anew, Later(Anew))
      <3> SUFFICES ASSUME NEW i \in DOMAIN Anew, Anew[i].how \in {"drop", "remove"},
                          NEW o \in Anew[i].objects \cap Later(Anew)
                   PROVE  \E j \in DOMAIN Anew : j > i /\ o \in Makes(Anew[j])
        BY DEF PutsBack
      <3>1. i = 2 /\ o = New
        BY <1>5, Kinds
      <3>2. o \in Makes(Anew[3]) /\ 3 \in DOMAIN Anew
        BY <3>1, MakesOf
      <3> QED
        BY <3>1, <3>2
    <2> QED
      BY <2>1, <2>2
  <1> HIDE DEF Once, Anew, K
  <1> QED
    BY <1>3, <1>4, <1>6, RequiredLater, OwnParts DEF Regular

LEMMA CustomLocation == Regular("custom_location")
  <1> DEFINE name == "inventory_allocation.custom_location"
             other == "inventory_allocation.location_id nullable"
             units == "location_inventory"
             K == {Starts!Impossible(name), Starts!Ensure(other), Starts!Drop(units), Starts!Add(units)}
             st == <<Starts!Impossible(name), Starts!Ensure(other), Starts!Drop(units), Starts!Add(units)>>
  <1>1. Starts!custom_location.statements = st /\ Starts!custom_location.skip_if = {}
    BY DEF Starts!custom_location, Starts!Script
  <1>2. "custom_location" \in DOMAIN Starts!Scripts
    BY DEF Starts!Scripts
  <1> HIDE DEF other
  <1>3. st \in Seq(K)
    OBVIOUS
  <1>4. ASSUME NEW needed PROVE PutsBack(st, needed)
    <2> SUFFICES ASSUME NEW i \in DOMAIN st, st[i].how \in {"drop", "remove"},
                        NEW o \in st[i].objects \cap needed
                 PROVE  \E j \in DOMAIN st : j > i /\ o \in Makes(st[j])
      BY DEF PutsBack
    <2>1. st[1].how = "impossible" /\ st[2].how = "ensure" /\ st[4].how = "add"
      BY Kinds
    <2>2. st[3] = Starts!Drop(units) /\ st[4] = Starts!Add(units) /\ DOMAIN st = 1..4
      OBVIOUS
    <2> HIDE DEF st
    <2>3. i = 3 /\ o = units
      BY <2>1, <2>2, Kinds
    <2>4. o \in Makes(st[4])
      BY <2>2, <2>3, MakesOf
    <2> QED
      BY <2>2, <2>3, <2>4
  <1> HIDE DEF st, K
  <1> QED
    BY <1>1, <1>2, <1>3, <1>4, ScriptNames, OwnParts DEF Regular, Starts!Statements

LEMMA Seeding == Regular("seed")
  <1> DEFINE objects == Starts!seedObjects
             st == Starts!seed.statements
             first == [i \in DOMAIN objects |-> Starts!Drop(objects[i])]
             last == [i \in DOMAIN objects |-> Starts!Ensure(objects[i])]
             middle == <<Starts!Ensure("tables")>>
             K == {first[i] : i \in 1..6} \cup {last[i] : i \in 1..6} \cup {Starts!Ensure("tables")}
  <1>1. DOMAIN objects = 1..6
    BY DEF Starts!seedObjects
  <1>2. st = first \o middle \o last /\ Starts!seed.skip_if = {}
    BY DEF Starts!seed, Starts!Script, Starts!AllOf
  <1>3. "seed" \in DOMAIN Starts!Scripts
    BY DEF Starts!Scripts
  <1> HIDE DEF objects
  <1>4. first \in Seq(K) /\ middle \in Seq(K) /\ last \in Seq(K) /\ Len(first) = 6 /\ Len(last) = 6
        /\ Len(middle) = 1
    BY <1>1
  <1>5. \A i \in 1..6 : first[i] = Starts!Drop(objects[i]) /\ last[i] = Starts!Ensure(objects[i])
    BY <1>1
  <1>6. middle[1] = Starts!Ensure("tables")
    OBVIOUS
  <1> HIDE DEF st, K, first, middle, last
  <1> DEFINE half == first \o middle
  <1>7. /\ half \in Seq(K) /\ Len(half) = 7
        /\ \A i \in 1..7 : half[i] = IF i <= 6 THEN first[i] ELSE middle[i - 6]
    <2>1. /\ half \in Seq(K) /\ Len(half) = Len(first) + Len(middle)
          /\ \A i \in 1..Len(first) + Len(middle) :
                half[i] = IF i <= Len(first) THEN first[i] ELSE middle[i - Len(first)]
      BY <1>4, ConcatProperties
    <2> QED
      BY <1>4, <2>1
  <1> HIDE DEF half
  <1>8. /\ st \in Seq(K) /\ DOMAIN st = 1..13
        /\ \A i \in 1..6 : st[i] = Starts!Drop(objects[i]) /\ st[i + 7] = Starts!Ensure(objects[i])
        /\ st[7] = Starts!Ensure("tables")
    <2>1. st = half \o last
      BY <1>2 DEF half
    <2>2. /\ st \in Seq(K) /\ Len(st) = 13
          /\ \A i \in 1..13 : st[i] = IF i <= 7 THEN half[i] ELSE last[i - 7]
      <3>1. /\ st \in Seq(K) /\ Len(st) = Len(half) + Len(last)
            /\ \A i \in 1..Len(half) + Len(last) :
                  st[i] = IF i <= Len(half) THEN half[i] ELSE last[i - Len(half)]
        BY <1>4, <1>7, <2>1, ConcatProperties
      <3> QED
        BY <1>4, <1>7, <3>1
    <2>3. \A i \in 1..6 : st[i] = first[i] /\ st[i + 7] = last[i]
      BY <1>7, <2>2
    <2>4. st[7] = middle[1]
      BY <1>7, <2>2
    <2> QED
      BY <1>5, <1>6, <2>2, <2>3, <2>4
  <1>9. ASSUME NEW needed PROVE PutsBack(st, needed)
    <2> SUFFICES ASSUME NEW i \in 1..13, st[i].how \in {"drop", "remove"},
                        NEW o \in st[i].objects \cap needed
                 PROVE  \E j \in 1..13 : j > i /\ o \in Makes(st[j])
      BY <1>8 DEF PutsBack
    <2>1. CASE i \in 1..6
      <3>1. o = objects[i] /\ i + 7 \in 1..13 /\ i + 7 > i
        BY <1>8, <2>1, Kinds
      <3>2. o \in Makes(st[i + 7])
        BY <1>8, <2>1, <3>1, MakesOf
      <3> QED
        BY <3>1, <3>2
    <2>2. CASE i = 7
      BY <1>8, <2>2, Kinds
    <2>3. CASE i \in 8..13
      <3>1. i - 7 \in 1..6 /\ i = (i - 7) + 7
        BY <2>3
      <3> QED
        BY <1>8, <3>1, Kinds
    <2> QED
      BY <2>1, <2>2, <2>3
  <1> QED
    BY <1>2, <1>3, <1>8, <1>9, ScriptNames, OwnParts DEF Regular, Starts!Statements, st

(* The scripts of a plan *)
LEMMA PlansOf ==
  ASSUME plan \in DOMAIN Starts!Plan, plan \notin Starts!Rivalling
  PROVE  \/ Planned = {}
         \/ \E s \in {"inventory_from_sql", "installation_location_id", "quantity",
                      "locations", "equipment_types", "shows_tables", "roles",
                      "circular_reference", "db_constraints", "db_sequelize",
                      "db_direct", "saved_searches", "custom_location",
                      "seed"} : Planned = {s}
         \/ Planned = {"inventory", "description"}
         \/ Planned = {"category", "categories"}
         \/ Planned = {"location_column", "addresses"}
  <1>1. CASE plan = "mysql"
    <2>1. Starts!StartRuns = <<"inventory", "description">>
      BY <1>1 DEF Starts!StartRuns
    <2>2. {Starts!StartRuns[i] : i \in DOMAIN Starts!StartRuns} = {"inventory", "description"}
      BY <2>1
    <2> QED
      BY <1>1, <2>2 DEF Planned, Starts!Plan
  <1>2. CASE plan = "sqlite"
    <2>1. Starts!StartRuns = <<"seed">>
      BY <1>2 DEF Starts!StartRuns
    <2>2. {Starts!StartRuns[i] : i \in DOMAIN Starts!StartRuns} = {"seed"}
      BY <2>1
    <2> QED
      BY <1>2, <2>2 DEF Planned, Starts!Plan
  <1>3. CASE plan \notin {"mysql", "sqlite"}
    <2>1. Starts!StartRuns = << >>
      BY <1>3 DEF Starts!StartRuns
    <2>2. Planned = Starts!Plan[plan]
      BY <2>1 DEF Planned
    <2>3. plan \in {"production", "grouping", "locating"} \cup
                  {"older", "placing", "units", "rooms", "types", "showing", "ranks",
                   "pictures", "constraints", "constraints_sequelize",
                   "constraints_direct", "searching", "custom"}
      BY <1>3 DEF Starts!Plan, Starts!Rivalling
    <2>4. /\ Starts!Plan["production"] = {}
          /\ Starts!Plan["grouping"] = {"category", "categories"}
          /\ Starts!Plan["locating"] = {"location_column", "addresses"}
      BY DEF Starts!Plan
    <2>5. /\ Starts!Plan["older"] = {"inventory_from_sql"}
          /\ Starts!Plan["placing"] = {"installation_location_id"}
          /\ Starts!Plan["units"] = {"quantity"}
          /\ Starts!Plan["rooms"] = {"locations"}
          /\ Starts!Plan["types"] = {"equipment_types"}
          /\ Starts!Plan["showing"] = {"shows_tables"}
          /\ Starts!Plan["ranks"] = {"roles"}
          /\ Starts!Plan["pictures"] = {"circular_reference"}
          /\ Starts!Plan["constraints"] = {"db_constraints"}
          /\ Starts!Plan["constraints_sequelize"] = {"db_sequelize"}
          /\ Starts!Plan["constraints_direct"] = {"db_direct"}
          /\ Starts!Plan["searching"] = {"saved_searches"}
          /\ Starts!Plan["custom"] = {"custom_location"}
      BY DEF Starts!Plan
    <2> QED
      BY <2>2, <2>3, <2>4, <2>5
  <1> QED
    BY <1>1, <1>2, <1>3

LEMMA Touched ==
  ASSUME NEW s, NEW K, NEW O, Starts!Statements(s) \in Seq(K), \A t \in K : t.objects \subseteq O
  PROVE  Touches(s) \subseteq O
  BY DEF Touches, Parts

(* What the scripts that share a plan touch and look for *)
LEMMA Regions ==
  /\ Touches("inventory") \cup Starts!Scripts["inventory"].skip_if
       \subseteq {"inventory_allocation", "equipment_status_log", "equipment.quantity",
          "equipment.status", "equipment_availability", "location_inventory"}
  /\ Touches("description") \cup Starts!Scripts["description"].skip_if
       \subseteq {"locations.description"}
  /\ Touches("category") \cup Starts!Scripts["category"].skip_if
       \subseteq {"equipment.category"}
  /\ Touches("categories") \cup Starts!Scripts["categories"].skip_if
       \subseteq {"equipment_categories"}
  /\ Touches("location_column") \cup Starts!Scripts["location_column"].skip_if
       \subseteq {"equipment.location_id"}
  /\ Touches("addresses") \cup Starts!Scripts["addresses"].skip_if
       \subseteq {"locations.street", "locations.city"}
  <1>1. Touches("inventory") \cup Starts!Scripts["inventory"].skip_if
         \subseteq {"inventory_allocation", "equipment_status_log", "equipment.quantity",
          "equipment.status", "equipment_availability", "location_inventory"}
    <2> DEFINE K == {Starts!Ensure("inventory_allocation"),
                     Starts!Ensure("equipment_status_log"),
                     Starts!Tolerated(Starts!Ensure("equipment.quantity")),
                     Starts!Tolerated(Starts!Ensure("equipment.status")),
                     Starts!Tolerated(Starts!Ensure("equipment_availability")),
                     Starts!Tolerated(Starts!Ensure("location_inventory")),
                     Starts!Verify("inventory_allocation"), Starts!Verify("equipment_status_log")}
           O == {"inventory_allocation", "equipment_status_log", "equipment.quantity",
                 "equipment.status", "equipment_availability", "location_inventory"}
    <2>1. Starts!inventory.statements \in Seq(K) /\ Starts!inventory.skip_if \subseteq O
      BY DEF Starts!inventory, Starts!Script
    <2>2. \A t \in K : t.objects \subseteq O
      BY Kinds
    <2> HIDE DEF K, O
    <2>3. Touches("inventory") \cup Starts!Scripts["inventory"].skip_if \subseteq O
      BY <2>1, <2>2, ScriptNames, Touched DEF Starts!Statements
    <2> QED
      BY <2>3 DEF O
  <1>2. Touches("description") \cup Starts!Scripts["description"].skip_if
         \subseteq {"locations.description"}
    <2> DEFINE K == {Starts!Add("locations.description")}
           O == {"locations.description"}
    <2>1. Starts!description.statements \in Seq(K) /\ Starts!description.skip_if \subseteq O
      BY DEF Starts!description, Starts!Script
    <2>2. \A t \in K : t.objects \subseteq O
      BY Kinds
    <2> HIDE DEF K, O
    <2>3. Touches("description") \cup Starts!Scripts["description"].skip_if \subseteq O
      BY <2>1, <2>2, ScriptNames, Touched DEF Starts!Statements
    <2> QED
      BY <2>3 DEF O
  <1>3. Touches("category") \cup Starts!Scripts["category"].skip_if
         \subseteq {"equipment.category"}
    <2> DEFINE K == {Starts!Add("equipment.category")}
           O == {"equipment.category"}
    <2>1. Starts!category.statements \in Seq(K) /\ Starts!category.skip_if \subseteq O
      BY DEF Starts!category, Starts!Script
    <2>2. \A t \in K : t.objects \subseteq O
      BY Kinds
    <2> HIDE DEF K, O
    <2>3. Touches("category") \cup Starts!Scripts["category"].skip_if \subseteq O
      BY <2>1, <2>2, ScriptNames, Touched DEF Starts!Statements
    <2> QED
      BY <2>3 DEF O
  <1>4. Touches("categories") \cup Starts!Scripts["categories"].skip_if
         \subseteq {"equipment_categories"}
    <2> DEFINE K == {Starts!Add("equipment_categories")}
           O == {"equipment_categories"}
    <2>1. Starts!categories.statements \in Seq(K) /\ Starts!categories.skip_if \subseteq O
      BY DEF Starts!categories, Starts!Script
    <2>2. \A t \in K : t.objects \subseteq O
      BY Kinds
    <2> HIDE DEF K, O
    <2>3. Touches("categories") \cup Starts!Scripts["categories"].skip_if \subseteq O
      BY <2>1, <2>2, ScriptNames, Touched DEF Starts!Statements
    <2> QED
      BY <2>3 DEF O
  <1>5. Touches("location_column") \cup Starts!Scripts["location_column"].skip_if
         \subseteq {"equipment.location_id"}
    <2> DEFINE K == {Starts!Add("equipment.location_id")}
           O == {"equipment.location_id"}
    <2>1. Starts!location_column.statements \in Seq(K) /\ Starts!location_column.skip_if \subseteq O
      BY DEF Starts!location_column, Starts!Script
    <2>2. \A t \in K : t.objects \subseteq O
      BY Kinds
    <2> HIDE DEF K, O
    <2>3. Touches("location_column") \cup Starts!Scripts["location_column"].skip_if \subseteq O
      BY <2>1, <2>2, ScriptNames, Touched DEF Starts!Statements
    <2> QED
      BY <2>3 DEF O
  <1>6. Touches("addresses") \cup Starts!Scripts["addresses"].skip_if
         \subseteq {"locations.street", "locations.city"}
    <2> DEFINE K == {Starts!Together(Starts!Add("locations.street"), "locations.city")}
           O == {"locations.street", "locations.city"}
    <2>1. Starts!addresses.statements \in Seq(K) /\ Starts!addresses.skip_if \subseteq O
      BY DEF Starts!addresses, Starts!Script
    <2>2. \A t \in K : t.objects \subseteq O
      BY Kinds, TwoColumns
    <2> HIDE DEF K, O
    <2>3. Touches("addresses") \cup Starts!Scripts["addresses"].skip_if \subseteq O
      BY <2>1, <2>2, ScriptNames, Touched DEF Starts!Statements
    <2> QED
      BY <2>3 DEF O
  <1> QED
    BY <1>1, <1>2, <1>3, <1>4, <1>5, <1>6

LEMMA RegionsApart ==
  ASSUME NEW s, NEW t, NEW O, NEW P, O \cap P = {},
         Touches(s) \subseteq O, Touches(t) \cup Starts!Scripts[t].skip_if \subseteq P
  PROVE  Apart(s, t)
  BY RequiredTouched DEF Apart

(* Of a plan that does not rival every script is regular, and no two are   *)
(* in each other's way.                                                    *)
LEMMA PlansRegular ==
  ASSUME plan \in DOMAIN Starts!Plan, plan \notin Starts!Rivalling
  PROVE  \A s \in Planned : Regular(s) /\ \A t \in Planned : t # s => Apart(s, t)
  <1>1. Planned \subseteq
          {"inventory", "description", "inventory_from_sql", "installation_location_id",
           "quantity", "locations", "equipment_types", "shows_tables", "roles",
           "category", "location_column", "categories", "saved_searches", "addresses",
           "circular_reference", "db_constraints", "db_sequelize", "db_direct",
           "custom_location", "seed"}
    BY PlansOf
  <1>2. \A s \in Planned : Regular(s)
    BY <1>1, KeepingScripts, Repairs, CustomLocation, Seeding
  <1>3. Apart("inventory", "description") /\ Apart("description", "inventory")
    <2> DEFINE O == {"inventory_allocation", "equipment_status_log", "equipment.quantity",
                     "equipment.status", "equipment_availability", "location_inventory"}
               P == {"locations.description"}
    <2>1. O \cap P = {}
      OBVIOUS
    <2>2. /\ Touches("inventory") \cup Starts!Scripts["inventory"].skip_if \subseteq O
          /\ Touches("description") \cup Starts!Scripts["description"].skip_if \subseteq P
      BY Regions
    <2> HIDE DEF O, P
    <2> QED
      BY <2>1, <2>2, RegionsApart
  <1>4. Apart("category", "categories") /\ Apart("categories", "category")
    <2> DEFINE O == {"equipment.category"}
               P == {"equipment_categories"}
    <2>1. O \cap P = {}
      OBVIOUS
    <2>2. /\ Touches("category") \cup Starts!Scripts["category"].skip_if \subseteq O
          /\ Touches("categories") \cup Starts!Scripts["categories"].skip_if \subseteq P
      BY Regions
    <2> HIDE DEF O, P
    <2> QED
      BY <2>1, <2>2, RegionsApart
  <1>5. Apart("location_column", "addresses") /\ Apart("addresses", "location_column")
    <2> DEFINE O == {"equipment.location_id"}
               P == {"locations.street", "locations.city"}
    <2>1. O \cap P = {}
      OBVIOUS
    <2>2. /\ Touches("location_column") \cup Starts!Scripts["location_column"].skip_if \subseteq O
          /\ Touches("addresses") \cup Starts!Scripts["addresses"].skip_if \subseteq P
      BY Regions
    <2> HIDE DEF O, P
    <2> QED
      BY <2>1, <2>2, RegionsApart
  <1>6. \A s \in Planned, t \in Planned : t # s => Apart(s, t)
    BY <1>3, <1>4, <1>5, PlansOf
  <1> QED
    BY <1>2, <1>6
-----------------------------------------------------------------------------
(***************************************************************************)
(* What has been reported is there, or is still being made again           *)
(***************************************************************************)
(* What the running script will have made when it ends, if it is s *)
Ahead(s) == IF queue # << >> /\ Head(queue) = s THEN Later(todo) ELSE {}
Whole(s) == Starts!Required(s) \subseteq schema \cup Ahead(s)

(* A script that runs has made what it needs, or has a statement left that *)
(* will, after the last one that takes it away; it did not begin on a      *)
(* schema that it takes for finished.                                      *)
Running ==
    todo # << >> =>
        /\ queue # << >>
        /\ todo \in Seq(Parts(Head(queue)))
        /\ Len(todo) <= Len(Starts!Statements(Head(queue)))
        /\ todo = Starts!Statements(Head(queue)) => ~Starts!Skips(Head(queue))
        /\ Whole(Head(queue))
        /\ PutsBack(todo, Starts!Required(Head(queue)))

(* A script that would skip itself and cannot resume is whole, or once     *)
(* stopped half way.                                                       *)
ReportCore ==
    /\ queue \in Seq(Planned) /\ reported \subseteq Planned
    /\ Running
    /\ \A s \in reported : Whole(s) \/ (s \in cut_short /\ ~Starts!Resumes(s))
    /\ \A s \in Planned : ~Starts!Resumes(s) /\ Starts!Skips(s) => Whole(s) \/ s \in cut_short

ReportInv == plan \notin Starts!Rivalling => ReportCore

LEMMA NothingAhead ==
  ASSUME NEW s, todo = << >> \/ queue = << >> \/ Head(queue) # s
  PROVE  Ahead(s) = {}
  BY DEF Ahead, Later

LEMMA LaterTail ==
  ASSUME NEW K, NEW rest \in Seq(K), rest # << >>, NEW needed, PutsBack(rest, needed)
  PROVE  /\ Later(rest) = Makes(Head(rest)) \cup Later(Tail(rest))
         /\ PutsBack(Tail(rest), needed)
         /\ Head(rest).how \in {"drop", "remove"} =>
                Head(rest).objects \cap needed \subseteq Later(Tail(rest))
  <1>1. /\ DOMAIN rest = 1..Len(rest) /\ Len(rest) \in Nat \ {0}
        /\ DOMAIN Tail(rest) = 1..(Len(rest) - 1) /\ Head(rest) = rest[1]
        /\ \A i \in 1..(Len(rest) - 1) : Tail(rest)[i] = rest[i + 1]
    OBVIOUS
  <1>2. \A j \in DOMAIN rest : j > 1 =>
            j - 1 \in DOMAIN Tail(rest) /\ Tail(rest)[j - 1] = rest[j]
    BY <1>1
  <1>3. \A i \in DOMAIN Tail(rest) : i + 1 \in DOMAIN rest /\ Tail(rest)[i] = rest[i + 1]
    BY <1>1
  <1>4. 1 \in DOMAIN rest /\ DOMAIN rest \subseteq Int /\ \A j \in DOMAIN rest : j = 1 \/ j > 1
    BY <1>1
  <1>5. Later(rest) = Makes(Head(rest)) \cup Later(Tail(rest))
    <2>1. ASSUME NEW o \in Later(rest) PROVE o \in Makes(Head(rest)) \cup Later(Tail(rest))
      BY <1>1, <1>2, <1>4, <2>1 DEF Later
    <2>2. ASSUME NEW o \in Makes(Head(rest)) \cup Later(Tail(rest)) PROVE o \in Later(rest)
      BY <1>1, <1>3, <1>4, <2>2 DEF Later
    <2> QED
      BY <2>1, <2>2
  <1>6. PutsBack(Tail(rest), needed)
    <2> SUFFICES ASSUME NEW i \in DOMAIN Tail(rest), Tail(rest)[i].how \in {"drop", "remove"},
                        NEW o \in Tail(rest)[i].objects \cap needed
                 PROVE  \E j \in DOMAIN Tail(rest) : j > i /\ o \in Makes(Tail(rest)[j])
      BY DEF PutsBack
    <2>1. PICK j \in DOMAIN rest : j > i + 1 /\ o \in Makes(rest[j])
      BY <1>3 DEF PutsBack
    <2>2. i \in Nat \ {0} /\ j \in Nat
      BY <1>1
    <2>3. j > 1 /\ j - 1 > i
      BY <2>1, <2>2
    <2>4. j - 1 \in DOMAIN Tail(rest) /\ o \in Makes(Tail(rest)[j - 1])
      BY <1>2, <2>1, <2>3
    <2> QED
      BY <2>3, <2>4
  <1>7. ASSUME Head(rest).how \in {"drop", "remove"}, NEW o \in Head(rest).objects \cap needed
        PROVE  o \in Later(Tail(rest))
    <2>1. PICK j \in DOMAIN rest : j > 1 /\ o \in Makes(rest[j])
      BY <1>1, <1>4, <1>7 DEF PutsBack
    <2> QED
      BY <1>2, <2>1 DEF Later
  <1> QED
    BY <1>5, <1>6, <1>7

LEMMA PlannedSame == plan' = plan => Planned' = Planned
  BY DEF Planned, Starts!StartRuns

(* A script begins, or none: all that is told must be there already. *)
LEMMA Begins ==
  ASSUME NEW scripts \in Seq(Planned), Starts!Begin(scripts), \A s \in Planned : Regular(s),
         UNCHANGED <<plan, schema>>, reported' \subseteq Planned,
         \A s \in reported' :
            Starts!Required(s) \subseteq schema \/ (s \in cut_short' /\ ~Starts!Resumes(s)),
         \A s \in Planned : ~Starts!Resumes(s) /\ Starts!Skips(s) =>
            Starts!Required(s) \subseteq schema \/ s \in cut_short'
  PROVE  ReportCore'
  <1>1. Planned' = Planned /\ queue' = scripts
    BY PlannedSame DEF Starts!Begin
  <1>2. \A s : Starts!Required(s) \subseteq schema => Whole(s)'
    BY DEF Whole
  <1>3. \A s : Starts!Skips(s)' <=> Starts!Skips(s)
    BY DEF Starts!Skips
  <1>4. Running'
    <2> SUFFICES ASSUME todo' # << >> PROVE Running'
      BY DEF Running
    <2> DEFINE s == Head(scripts)
    <2>1. scripts # << >> /\ todo' = Starts!Statements(s) /\ ~Starts!Skips(s)
      BY DEF Starts!Begin
    <2>2. s \in Planned
      BY <2>1
    <2>3. Regular(s)
      BY <2>2
    <2>4. /\ todo' \in Seq(Parts(s)) /\ PutsBack(todo', Starts!Required(s))
          /\ Starts!Required(s) = Later(todo')
      BY <2>1, <2>3, RequiredLater DEF Regular
    <2>5. Len(todo') <= Len(Starts!Statements(s))
      <3>1. Len(todo') \in Nat
        BY <2>4
      <3> QED
        BY <2>1, <3>1
    <2> HIDE DEF s
    <2>6. queue' # << >> /\ Head(queue)' = s
      BY <1>1, <2>1 DEF s
    <2>7. Whole(s)'
      BY <2>4, <2>6 DEF Whole, Ahead
    <2> QED
      BY <1>3, <2>1, <2>4, <2>5, <2>6, <2>7 DEF Running
  <1> QED
    BY <1>1, <1>2, <1>3, <1>4 DEF ReportCore

(* Statements are left, and the running script ends before them. *)
LEMMA Abandons ==
  ASSUME ReportCore, todo # << >>, cut_short' = cut_short \cup Starts!Half,
         reported' = reported \ {Head(queue)}
  PROVE  /\ reported' \subseteq Planned
         /\ \A s \in reported' :
               Starts!Required(s) \subseteq schema \/ (s \in cut_short' /\ ~Starts!Resumes(s))
         /\ \A s \in Planned : ~Starts!Resumes(s) /\ Starts!Skips(s) =>
               Starts!Required(s) \subseteq schema \/ s \in cut_short'
  <1>1. reported' \subseteq Planned
    BY DEF ReportCore
  <1>2. \A s : s # Head(queue) /\ Whole(s) => Starts!Required(s) \subseteq schema
    BY NothingAhead DEF Whole
  <1>3. \A s \in reported' :
            Starts!Required(s) \subseteq schema \/ (s \in cut_short' /\ ~Starts!Resumes(s))
    BY <1>2 DEF ReportCore
  <1>4. Starts!Skips(Head(queue)) => Head(queue) \in cut_short'
    BY DEF ReportCore, Running, Starts!Half
  <1>5. ASSUME NEW s \in Planned, ~Starts!Resumes(s), Starts!Skips(s)
        PROVE  Starts!Required(s) \subseteq schema \/ s \in cut_short'
    BY <1>2, <1>4, <1>5 DEF ReportCore
  <1> QED
    BY <1>1, <1>3, <1>5

(* No script is running its statements. *)
LEMMA Idles ==
  ASSUME ReportCore, todo = << >>
  PROVE  /\ \A s \in reported :
               Starts!Required(s) \subseteq schema \/ (s \in cut_short /\ ~Starts!Resumes(s))
         /\ \A s \in Planned : ~Starts!Resumes(s) /\ Starts!Skips(s) =>
               Starts!Required(s) \subseteq schema \/ s \in cut_short
  <1>1. \A s : Whole(s) => Starts!Required(s) \subseteq schema
    BY NothingAhead DEF Whole
  <1> QED
    BY <1>1 DEF ReportCore

(* The running script leaves a statement behind: it has made what the      *)
(* statement is there for, and has changed nothing but what it names.      *)
LEMMA Advances ==
  ASSUME ReportCore, todo # << >>, \A s \in Planned : Regular(s),
         \A s \in Planned, t \in Planned : t # s => Apart(s, t),
         UNCHANGED <<plan, queue, cut_short>>, todo' = Tail(todo),
         reported' \in {reported, reported \cup {Head(queue)}},
         Makes(Head(todo)) \subseteq schema',
         schema \ schema' \subseteq Head(todo).objects,
         schema # schema' /\ ~(schema \subseteq schema') => Head(todo).how \in {"drop", "remove"},
         schema' \ schema \subseteq Head(todo).objects
  PROVE  ReportCore'
  <1>0. PICK h : h = Head(queue)
    OBVIOUS
  <1> DEFINE K == Parts(h)
  <1>1. /\ queue \in Seq(Planned) /\ queue # << >> /\ todo \in Seq(K)
        /\ Len(todo) <= Len(Starts!Statements(h))
        /\ Whole(h) /\ PutsBack(todo, Starts!Required(h))
    BY <1>0 DEF ReportCore, Running
  <1>2. h \in Planned
    BY <1>1, <1>0
  <1>3. Planned' = Planned /\ queue' = queue /\ cut_short' = cut_short
    BY PlannedSame
  <1>4. Head(queue)' = h
    BY <1>3, <1>0
  <1>5. /\ Later(todo) = Makes(Head(todo)) \cup Later(Tail(todo))
        /\ PutsBack(Tail(todo), Starts!Required(h))
        /\ Head(todo).how \in {"drop", "remove"} =>
               Head(todo).objects \cap Starts!Required(h) \subseteq Later(Tail(todo))
    <2> HIDE DEF K
    <2> QED
      BY <1>1, LaterTail
  <1>6. Ahead(h) = Later(todo) /\ Ahead(h)' = Later(Tail(todo))
    BY <1>1, <1>3, <1>4, <1>0 DEF Ahead
  <1>7. Whole(h)'
    BY <1>1, <1>5, <1>6 DEF Whole
  <1>8. Head(todo).objects \subseteq Touches(h)
    <2>1. Head(todo) \in K
      <3> HIDE DEF K
      <3> QED
        BY <1>1
    <2> QED
      BY <2>1 DEF Touches
  <1>9. ASSUME NEW s \in Planned, s # h
        PROVE  /\ Whole(s) => Whole(s)'
               /\ Starts!Skips(s)' <=> Starts!Skips(s)
    <2>1. Touches(h) \cap (Starts!Required(s) \cup Starts!Scripts[s].skip_if) = {}
      BY <1>2, <1>9 DEF Apart
    <2>2. Ahead(s) = {} /\ Ahead(s)' = {}
      BY <1>3, <1>4, <1>9, <1>0 DEF Ahead
    <2>3. Whole(s) => Whole(s)'
      BY <1>8, <2>1, <2>2 DEF Whole
    <2>4. Starts!Scripts[s].skip_if \subseteq schema' <=> Starts!Scripts[s].skip_if \subseteq schema
      BY <1>8, <2>1
    <2> QED
      BY <2>3, <2>4 DEF Starts!Skips
  <1>10. Running'
    <2> SUFFICES ASSUME todo' # << >> PROVE Running'
      BY DEF Running
    <2>1. /\ Tail(todo) \in Seq(K) /\ Len(Tail(todo)) < Len(todo) /\ Len(todo) \in Nat
          /\ Len(Tail(todo)) \in Nat
      <3> HIDE DEF K
      <3> QED
        BY <1>1
    <2>2. Len(Starts!Statements(h)) \in Nat
      BY <1>2 DEF Regular
    <2>3. Len(todo') <= Len(Starts!Statements(h)) /\ todo' # Starts!Statements(h)
      BY <1>1, <2>1, <2>2
    <2> QED
      BY <1>1, <1>3, <1>4, <1>5, <1>7, <2>1, <2>3 DEF Running
  <1>11. reported' \subseteq Planned
    BY <1>2, <1>0 DEF ReportCore
  <1>12. \A s \in reported' : Whole(s)' \/ (s \in cut_short' /\ ~Starts!Resumes(s))
    <2> SUFFICES ASSUME NEW s \in reported', s # h
                 PROVE  Whole(s)' \/ (s \in cut_short' /\ ~Starts!Resumes(s))
      BY <1>7
    <2>1. s \in reported /\ s \in Planned
      BY <1>11, <1>0
    <2> QED
      BY <1>3, <1>9, <2>1 DEF ReportCore
  <1>13. \A s \in Planned : ~Starts!Resumes(s) /\ Starts!Skips(s)' => Whole(s)' \/ s \in cut_short'
    BY <1>3, <1>7, <1>9 DEF ReportCore
  <1>14. \A s : Starts!Resumes(s)' <=> Starts!Resumes(s)
    OBVIOUS
  <1> QED
    BY <1>1, <1>3, <1>10, <1>11, <1>12, <1>13, <1>14 DEF ReportCore

LEMMA ReportStarts ==
  ASSUME Starts!Init
  PROVE  ReportInv
  <1> SUFFICES ASSUME plan \notin Starts!Rivalling PROVE ReportCore
    BY DEF ReportInv
  <1>1. plan \in DOMAIN Starts!Plan
    BY EquipmentAssumption DEF Starts!Init
  <1>2. \A s \in Planned : ~Starts!Skips(s)
    <2>1. schema \subseteq {"equipment_ibfk"}
      BY DEF Starts!Init
    <2> QED
      BY <1>1, <2>1, PlansRegular DEF Starts!Skips, Regular
  <1>3. queue = << >> /\ todo = << >> /\ reported = {}
    BY DEF Starts!Init
  <1>4. << >> \in Seq(Planned)
    OBVIOUS
  <1> QED
    BY <1>2, <1>3, <1>4 DEF ReportCore, Running

LEMMA ReportKept ==
  ASSUME plan \in Plans, ReportInv, [Starts!Next]_migrationVars
  PROVE  ReportInv'
  <1>0. plan' = plan
    BY DEF Starts!Next, migrationVars, Starts!RunScript, Starts!Start, Starts!Execute,
       Starts!SkipFailed, Starts!Throw, Starts!Proceed, Starts!Listen, Starts!Kill
  <1> SUFFICES ASSUME plan \notin Starts!Rivalling PROVE ReportCore'
    BY <1>0 DEF ReportInv
  <1>1. ReportCore /\ plan \in DOMAIN Starts!Plan
    BY EquipmentAssumption DEF ReportInv
  <1>2. /\ \A s \in Planned : Regular(s)
        /\ \A s \in Planned, t \in Planned : t # s => Apart(s, t)
    BY <1>1, PlansRegular
  <1>3. << >> \in Seq(Planned) /\ queue \in Seq(Planned) /\ (queue # << >> => Tail(queue) \in Seq(Planned))
    <2>1. queue \in Seq(Planned)
      BY <1>1 DEF ReportCore
    <2> QED
      BY <2>1
  <1>4. todo # << >> => queue # << >>
    BY <1>1 DEF ReportCore, Running
  <1>5. reported \subseteq Planned /\ Planned' = Planned
    BY <1>0, <1>1, PlannedSame DEF ReportCore
  <1>6. ASSUME UNCHANGED <<plan, schema, queue, todo, cut_short, reported>> PROVE ReportCore'
    BY <1>1, <1>5, <1>6 DEF ReportCore, Running, Whole, Ahead, Starts!Skips
  <1>7. ASSUME NEW s, Starts!RunScript(s) PROVE ReportCore'
    <2>1. /\ todo = << >> /\ <<s>> \in Seq(Planned) /\ Starts!Begin(<<s>>)
          /\ UNCHANGED <<plan, schema, cut_short, reported>>
      BY <1>4, <1>7 DEF Starts!RunScript, Planned
    <2> QED
      BY <1>1, <1>2, <1>5, <2>1, Idles, Begins
  <1>8. CASE Starts!Start
    <2>1. queue = << >> /\ todo = << >> /\ UNCHANGED <<plan, schema, cut_short, reported>>
      BY <1>4, <1>8 DEF Starts!Start
    <2>2. CASE Starts!Begin(Starts!StartRuns)
      <3>1. Starts!StartRuns \in Seq(Planned)
        BY StartScripts DEF Planned
      <3> QED
        BY <1>1, <1>2, <1>5, <2>1, <2>2, <3>1, Idles, Begins
    <2>3. CASE UNCHANGED <<queue, todo>>
      BY <1>6, <2>1, <2>3
    <2> QED
      BY <1>8, <2>2, <2>3 DEF Starts!Start
  <1>9. CASE Starts!Execute
    <2> DEFINE t == Head(todo)
    <2>1. /\ todo # << >> /\ todo' = Tail(todo) /\ UNCHANGED <<plan, queue, cut_short>>
          /\ reported' \in {reported, reported \cup {Head(queue)}}
      BY <1>9 DEF Starts!Execute
    <2>2. CASE t.how \in {"ensure", "add"}
      <3>1. schema' = schema \cup t.objects
        BY <1>9, <2>2 DEF Starts!Execute
      <3> QED
        BY <1>1, <1>2, <2>1, <3>1, Advances DEF Makes
    <2>3. CASE t.how \in {"drop", "remove"}
      <3>1. schema' = schema \ t.objects
        BY <1>9, <2>3 DEF Starts!Execute
      <3>2. Makes(t) = {}
        BY <2>3 DEF Makes
      <3> QED
        BY <1>1, <1>2, <2>1, <2>3, <3>1, <3>2, Advances
    <2>4. CASE t.how \notin {"ensure", "add", "drop", "remove"}
      <3>1. schema' = schema /\ t.how # "impossible"
        BY <1>9, <2>4 DEF Starts!Execute, Starts!Succeeds
      <3>2. Makes(t) = {}
        BY <2>4, <3>1 DEF Makes
      <3> QED
        BY <1>1, <1>2, <2>1, <3>1, <3>2, Advances
    <2> QED
      BY <2>2, <2>3, <2>4
  <1>10. ASSUME todo # << >>, Head(todo).tolerated, todo' = Tail(todo),
                UNCHANGED <<plan, schema, queue, cut_short>>,
                reported' \in {reported, reported \cup {Head(queue)}}
         PROVE  ReportCore'
    <2>1. Makes(Head(todo)) = {}
      BY <1>10 DEF Makes
    <2> QED
      BY <1>1, <1>2, <1>10, <2>1, Advances
  <1>11. CASE Starts!SkipFailed
    BY <1>10, <1>11 DEF Starts!SkipFailed
  <1>12. CASE Starts!Throw
    <2>1. CASE Starts!StopOnError
      <3>1. PICK scripts \in {<< >>, Tail(queue)} : Starts!Begin(scripts)
        BY <1>12, <2>1 DEF Starts!Throw
      <3>2. /\ todo # << >> /\ cut_short' = cut_short \cup Starts!Half
            /\ reported' = reported \ {Head(queue)} /\ UNCHANGED <<plan, schema>>
        BY <1>12, <2>1 DEF Starts!Throw
      <3>3. scripts \in Seq(Planned)
        BY <1>3, <1>4, <3>2
      <3> QED
        BY <1>1, <1>2, <3>1, <3>2, <3>3, Abandons, Begins
    <2>2. CASE ~Starts!StopOnError
      BY <1>10, <1>12, <2>2 DEF Starts!Throw, Starts!StopOnError
    <2> QED
      BY <2>1, <2>2
  <1>13. CASE Starts!Proceed
    <2> DEFINE h == Head(queue)
    <2>1. /\ queue # << >> /\ todo = << >> /\ Starts!Begin(Tail(queue))
          /\ UNCHANGED <<plan, schema, cut_short>>
          /\ reported' = IF Starts!Skips(h) THEN reported \cup {h} ELSE reported
      BY <1>13 DEF Starts!Proceed
    <2>2. h \in Planned
      BY <1>3, <2>1
    <2>3. Starts!Skips(h) =>
              Starts!Required(h) \subseteq schema \/ (h \in cut_short /\ ~Starts!Resumes(h))
      <3>1. CASE Starts!Resumes(h)
        BY <3>1 DEF Starts!Resumes, Starts!Skips
      <3>2. CASE ~Starts!Resumes(h)
        BY <1>1, <2>1, <2>2, <3>2, Idles
      <3> QED
        BY <3>1, <3>2
    <2>4. \A s \in reported' :
              Starts!Required(s) \subseteq schema \/ (s \in cut_short' /\ ~Starts!Resumes(s))
      BY <1>1, <2>1, <2>3, Idles
    <2>5. reported' \subseteq Planned
      BY <1>5, <2>1, <2>2
    <2> QED
      BY <1>1, <1>2, <1>3, <2>1, <2>4, <2>5, Idles, Begins
  <1>14. CASE Starts!Listen
    BY <1>6, <1>14 DEF Starts!Listen
  <1>15. CASE Starts!Kill
    <2>1. Starts!Begin(<< >>) /\ UNCHANGED <<plan, schema>>
      BY <1>15 DEF Starts!Kill, Starts!Begin
    <2>2. CASE todo = << >>
      <3>1. UNCHANGED <<cut_short, reported>>
        BY <1>15, <2>2 DEF Starts!Kill, Starts!Half
      <3> QED
        BY <1>1, <1>2, <1>3, <1>5, <2>1, <2>2, <3>1, Idles, Begins
    <2>3. CASE todo # << >>
      <3>1. cut_short' = cut_short \cup Starts!Half /\ reported' = reported \ {Head(queue)}
        BY <1>4, <1>15, <2>3 DEF Starts!Kill
      <3> QED
        BY <1>1, <1>2, <1>3, <2>1, <2>3, <3>1, Abandons, Begins
    <2> QED
      BY <2>2, <2>3
  <1> QED
    BY <1>6, <1>7, <1>8, <1>9, <1>11, <1>12, <1>13, <1>14, <1>15 DEF Starts!Next, migrationVars

LEMMA ReportSound == ReportInv => Starts!ReportedComplete
  <1> SUFFICES ASSUME ReportCore, queue = << >>, NEW s \in reported
               PROVE  Starts!Required(s) \subseteq schema \/ (s \in cut_short /\ ~Starts!Resumes(s))
    BY DEF ReportInv, Starts!ReportedComplete
  <1> QED
    BY NothingAhead DEF ReportCore, Whole
-----------------------------------------------------------------------------
(***************************************************************************)
(* All parts together: of the part that runs its invariant holds.          *)
(***************************************************************************)
EquipmentInv ==
    /\ Chosen("records") => RecordInv
    /\ Chosen("forms") => FormInv
    /\ Chosen("pool") => PoolInv
    /\ Chosen("starts") => StartInv /\ ReportInv
    /\ Chosen("lists") => PagesInv

LEMMA EquipmentStarts == Init => EquipmentInv
  <1> SUFFICES ASSUME Init PROVE EquipmentInv
    OBVIOUS
  <1>1. /\ Chosen("records") => Item!Init
        /\ Chosen("forms") => Item!FormsInit
        /\ Chosen("pool") => Pool!Init
        /\ Chosen("starts") => Starts!Init
        /\ Chosen("lists") => Lists!ListsInit
    BY DEF Init, Chosen
  <1> QED
    BY <1>1, RecordStarts, FormStarts, PoolStarts, StartsBegin, ReportStarts, PagesStart
    DEF EquipmentInv

(* A step is one of the part that runs, or leaves it alone. *)
LEMMA PartSteps ==
  ASSUME [Next]_vars
  PROVE  /\ part' = part
         /\ Chosen("records") => [Item!Next]_recordVars
         /\ Chosen("forms") => [Item!FormsNext]_(Item!allVars)
         /\ Chosen("pool") => [Pool!Next]_poolVars
         /\ Chosen("starts") => [Starts!Next]_migrationVars
         /\ Chosen("lists") => [Lists!ListsNext]_(Lists!listsVars)
  <1>1. CASE Next
    BY <1>1 DEF Next, Chosen
  <1>2. CASE UNCHANGED vars
    <2>1. /\ part' = part /\ UNCHANGED recordVars /\ UNCHANGED formVars /\ UNCHANGED poolVars
          /\ UNCHANGED migrationVars /\ UNCHANGED listVars
      BY <1>2 DEF vars
    <2>2. UNCHANGED Item!allVars
      BY <2>1 DEF Item!allVars, Item!recordVars, Item!besideRecord, Item!formVars, recordVars,
         formVars
    <2>3. UNCHANGED Lists!listsVars
      BY <2>1 DEF listVars, Lists!listsVars, Lists!tableVars, Lists!filterVars, Lists!tickVars,
         Lists!updateVars, Lists!copyVars
    <2> QED
      BY <2>1, <2>2, <2>3
  <1> QED
    BY <1>1, <1>2

LEMMA EquipmentKept == EquipmentInv /\ [Next]_vars => EquipmentInv'
  <1> SUFFICES ASSUME EquipmentInv, [Next]_vars PROVE EquipmentInv'
    OBVIOUS
  <1>1. ASSUME NEW name PROVE Chosen(name)' <=> Chosen(name)
    BY PartSteps DEF Chosen
  <1>2. Chosen("records")' => RecordInv'
    BY <1>1, PartSteps, RecordKept DEF EquipmentInv
  <1>3. Chosen("forms")' => FormInv'
    BY <1>1, PartSteps, FormKept DEF EquipmentInv
  <1>4. Chosen("pool")' => PoolInv'
    BY <1>1, PartSteps, PoolKept DEF EquipmentInv
  <1>5. Chosen("starts")' => StartInv' /\ ReportInv'
    <2>1. Chosen("starts") => StartInv /\ ReportInv /\ plan \in Plans
      BY DEF EquipmentInv, StartInv
    <2> QED
      BY <1>1, <2>1, PartSteps, StartsKept, ReportKept
  <1>6. Chosen("lists")' => PagesInv'
    BY <1>1, PartSteps, PagesKept DEF EquipmentInv
  <1> QED
    BY <1>2, <1>3, <1>4, <1>5, <1>6 DEF EquipmentInv

THEOREM EquipmentInvariant == Spec => []EquipmentInv
  BY EquipmentStarts, EquipmentKept, PTL DEF Spec

(* The row of the item, the fields of the forms, the calls that wait for a *)
(* connection, the scripts of a start and the state of the pages that list *)
(* items keep their types, whatever the texts, the limits and the order of *)
(* the requests.                                                           *)
THEOREM EquipmentTypes == Spec => []TypesOK
  <1>1. EquipmentInv => TypesOK
    BY RecordSound, FormSound, PoolSound, StartsSound, PagesSound DEF EquipmentInv, TypesOK
  <1> QED
    BY <1>1, EquipmentInvariant, PTL

(* The hooks of models/Equipment.js and the handlers of routes/equipment.js *)
(* agree: a row that they stored one after the other is one that saving it  *)
(* again does not change, and a status written by a show, a location that   *)
(* was renamed or a name that was not found is made good by the next        *)
(* request that reads the row and saves it.                                 *)
THEOREM RowsSettled == Spec => []Settled
  <1>1. EquipmentInv => Settled
    BY RecordSound DEF EquipmentInv, Settled
  <1> QED
    BY <1>1, EquipmentInvariant, PTL

(* For every size of the pool and every set of requests, a connection is   *)
(* free, with a request that will give it back, or was lost by the upload  *)
(* that routes/files.js refuses.                                           *)
THEOREM ConnectionsKept == Spec => []ConnectionsAccounted
  <1>1. EquipmentInv => ConnectionsAccounted
    BY PoolSound DEF EquipmentInv, ConnectionsAccounted
  <1> QED
    BY <1>1, EquipmentInvariant, PTL

(* For every set of items and values and every number of updates: an       *)
(* update that is reported was carried out on each item, with the value    *)
(* sent but where the server put another in its place; a copy is one of    *)
(* the item picked; and a list is shown when a filter is set.              *)
THEOREM PagesHonest == Spec => []ListsHonest
  <1>1. EquipmentInv => ListsHonest
    BY PagesSound DEF EquipmentInv, ListsHonest
  <1> QED
    BY <1>1, EquipmentInvariant, PTL

(* NewEquipmentModern.jsx creates the item as it was allocated, whatever   *)
(* the order in which the form was filled.                                 *)
THEOREM CreationsAsChosen == Spec => CreatedAsChosen
  <1>1. EquipmentInv /\ [Next]_vars => [Chosen("forms") => Item!CreatesAsChosen]_vars
    BY PartSteps, FormKept DEF EquipmentInv
  <1> QED
    BY <1>1, EquipmentInvariant, PTL DEF Spec, CreatedAsChosen

(* A script of the schema that reports success has made all that it is for, *)
(* however often starts and scripts were killed or failed, unless it once  *)
(* stopped half way and takes its first object for the whole, or shares a  *)
(* plan with one that undoes it (migrations/runInventoryMigrationDirect.js *)
(* is the script that takes inventory_allocation for both its tables).     *)
THEOREM ReportsComplete == Spec => []ReportedComplete
  <1>1. EquipmentInv => ReportedComplete
    BY ReportSound DEF EquipmentInv, ReportedComplete
  <1> QED
    BY <1>1, EquipmentInvariant, PTL

(* EditEquipmentModern.jsx, saved untouched, changes no column but the     *)
(* status that the server derives.                                         *)
THEOREM SavesOfNothing == Spec => UntouchedSave
  <1>1. EquipmentInv => (Chosen("forms") => Item!SavesUntouched)
    BY FormSavesUntouched DEF EquipmentInv
  <1> QED
    BY <1>1, EquipmentInvariant, PTL DEF Spec, UntouchedSave
================================================================================
