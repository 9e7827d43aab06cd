------------------------ MODULE ShowAllocations_proofs ------------------------
(***************************************************************************)
(* Proofs about ShowAllocations, for any number of items, shows, rows and  *)
(* units, and (where a theorem does not say otherwise) any number of       *)
(* requests served at the same time.                                       *)
(***************************************************************************)
EXTENDS ShowAllocations, FiniteSetTheorems, TLAPS

-----------------------------------------------------------------------------
(* Types: what the table operations and the handlers' closures preserve.    *)
LEMMA IdleOK == RequestOK(Idle)
  BY DEF RequestOK, Request, Idle, Steps, AddSteps, RowSteps, NoId, Omitted, NoStatus

(* The request in slot h moves to a well-typed state. *)
LEMMA BecomeOK ==
  ASSUME TypeOK, NEW h \in Handlers, NEW r, RequestOK(r), Become(h, r)
  PROVE  /\ requests' \in [Handlers -> Request]
         /\ \A g \in Handlers : RequestOK(requests'[g])
  BY DEF TypeOK, Become, RequestOK

LEMMA AnswerOK ==
  ASSUME TypeOK, NEW h \in Handlers, Answer(h)
  PROVE  /\ requests' \in [Handlers -> Request]
         /\ \A g \in Handlers : RequestOK(requests'[g])
  BY IdleOK, BecomeOK DEF Answer

LEMMA UpdateOK ==
  ASSUME NEW Row, NEW table, IsTable(table, Row), NEW id, NEW row,
         id \in DOMAIN table => row \in Row
  PROVE  /\ IsTable(Update(table, id, row), Row)
         /\ DOMAIN Update(table, id, row) = DOMAIN table
  BY DEF IsTable, Update

LEMMA InsertOK ==
  ASSUME NEW Row, NEW table, IsTable(table, Row), NEW id, NEW row,
         id \in RowIds, row \in Row
  PROVE  /\ IsTable(Insert(table, id, row), Row)
         /\ DOMAIN Insert(table, id, row) = DOMAIN table \cup {id}
  BY DEF IsTable, Insert

LEMMA DeleteOK ==
  ASSUME NEW Row, NEW table, IsTable(table, Row), NEW ids
  PROVE  /\ IsTable(DeleteRows(table, ids), Row)
         /\ DOMAIN DeleteRows(table, ids) = DOMAIN table \ ids
  BY DEF IsTable, DeleteRows

(* A table is finite, so its sums are natural numbers. *)
LEMMA UnitsFinite ==
  ASSUME NEW Row, NEW table, IsTable(table, Row), NEW e, NEW S
  PROVE  /\ IsFiniteSet(Units(table, e, S))
         /\ SumAllocated(table, e, S) \in Nat
  <1>1. IsFiniteSet(DOMAIN table)
    <2>1. IsFiniteSet(1..MaxRows)
      BY TablesAssumption, FS_Interval
    <2>2. DOMAIN table \in SUBSET (1..MaxRows)
      BY DEF IsTable, RowIds
    <2> QED
      BY <2>1, <2>2, FS_Subset
  <1>2. IsFiniteSet(1..MaxQuantity)
    BY TablesAssumption, FS_Interval
  <1>3. IsFiniteSet((DOMAIN table) \X (1..MaxQuantity))
    BY <1>1, <1>2, FS_Product
  <1>4. IsFiniteSet(Units(table, e, S))
    BY <1>3, FS_Subset DEF Units
  <1> QED
    BY <1>4, FS_CardinalityType DEF SumAllocated

LEMMA SumType ==
  ASSUME TypeOK, NEW e, NEW S
  PROVE  /\ SumAllocated(show_equipment, e, S) \in Nat
         /\ SumAllocated(inventory_allocation, e, S) \in Nat
  BY UnitsFinite DEF TypeOK, TablesTypeOK

(* What the actions on tables other than their own leave well typed.        *)
LEMMA TablesKept ==
  ASSUME TypeOK, UNCHANGED <<tables, auto_increment>>
  PROVE  /\ TablesTypeOK'
         /\ auto_increment' \in 0..MaxRows
         /\ DOMAIN show_equipment' \subseteq 1..auto_increment'
  BY DEF TypeOK, TablesTypeOK, IsTable, tables

-----------------------------------------------------------------------------
(* Each group of handlers keeps TypeOK. *)
LEMMA TypeAdd ==
  ASSUME TypeOK, NEW h \in Handlers, Add(h)
  PROVE  TypeOK'
  <1> DEFINE r == requests[h]
  <1>0. RequestOK(r) /\ r \in Request
    BY DEF TypeOK
  <1>1. ASSUME NEW s \in Shows, NEW e \in Equipment, NEW n \in 1..MaxQuantity,
               AddFindShow(h, s, e, n)
        PROVE  TypeOK'
    <2> DEFINE new == [Idle EXCEPT !.pc = "existing", !.op = "add", !.show = s,
                                   !.equipment = e, !.needed = n]
    <2>1. n \in Quantities
      BY TablesAssumption DEF Quantities
    <2>2. Idle \in Request /\ "existing" \in Steps /\ "add" \in AllEndpoints
      BY IdleOK DEF RequestOK, Steps, AllEndpoints
    <2>3. /\ new \in Request
          /\ new.pc = "existing" /\ new.show = s /\ new.equipment = e /\ new.needed = n
      BY <2>1, <2>2 DEF Request
    <2> HIDE DEF new
    <2>4. RequestOK(new)
      BY <2>3 DEF RequestOK, AddSteps, RowSteps
    <2> QED
      BY <1>1, <2>4, BecomeOK, TablesKept DEF AddFindShow, TypeOK, new
  <1>2. CASE AddFindExisting(h)
    <2>1. RequestOK([r EXCEPT !.pc = "show_sum"])
      BY <1>0, <1>2 DEF AddFindExisting, At, RequestOK, Request, Steps, AddSteps, RowSteps
    <2> QED
      BY <1>2, <2>1, BecomeOK, AnswerOK, TablesKept DEF AddFindExisting, Goto, TypeOK
  <1>3. CASE AddSumShows(h)
    <2>1. PICK sum \in Sums(show_equipment, r.equipment) :
            Become(h, [r EXCEPT !.pc = "inventory_sum",
                                !.quantity = Uninstalled(r.equipment) - sum])
      BY <1>3 DEF AddSumShows
    <2>2. sum \in Nat
      BY SumType DEF Sums
    <2>3. Uninstalled(r.equipment) \in Int
      <3>1. equipment[r.equipment] \in EquipmentRow
        BY <1>0, <1>3 DEF AddSumShows, At, RequestOK, AddSteps, TypeOK, TablesTypeOK
      <3> QED
        BY <3>1, TablesAssumption DEF EquipmentRow, Quantities, Uninstalled
    <2> HIDE DEF r
    <2>4. RequestOK([r EXCEPT !.pc = "inventory_sum",
                              !.quantity = Uninstalled(r.equipment) - sum])
      <3>1. r.pc = "show_sum"
        BY <1>3 DEF AddSumShows, At, r
      <3>2. Uninstalled(r.equipment) - sum \in Int
        BY <2>2, <2>3
      <3> QED
        BY <1>0, <3>1, <3>2 DEF RequestOK, Request, Steps, AddSteps, RowSteps
    <2> QED
      BY <1>3, <2>1, <2>4, BecomeOK, TablesKept DEF AddSumShows, TypeOK
  <1>4. CASE AddSumInventory(h)
    <2>1. RequestOK([r EXCEPT !.pc = "insert"])
      BY <1>0, <1>4 DEF AddSumInventory, At, RequestOK, Request, Steps, AddSteps, RowSteps
    <2>2. Answer(h) \/ Become(h, [r EXCEPT !.pc = "insert"])
      BY <1>4 DEF AddSumInventory, Goto
    <2> QED
      BY <1>4, <2>1, <2>2, BecomeOK, AnswerOK, TablesKept DEF AddSumInventory, TypeOK
  <1>5. CASE AddInsert(h)
    <2> DEFINE row == [show_id |-> r.show, equipment_id |-> r.equipment,
                       quantity_needed |-> r.needed, quantity_allocated |-> r.needed,
                       status |-> "allocated"]
    <2>1. row \in ShowEquipmentRow
      BY <1>0, <1>5, TablesAssumption
      DEF AddInsert, At, RequestOK, AddSteps, ShowEquipmentRow, ShowStatuses, Quantities
    <2> HIDE DEF row
    <2>2. CASE UNCHANGED <<show_equipment, auto_increment>>
      BY <1>5, <2>2, AnswerOK DEF AddInsert, TypeOK, TablesTypeOK, IsTable
    <2>3. CASE /\ auto_increment < MaxRows
               /\ auto_increment' = auto_increment + 1
               /\ show_equipment' = Insert(show_equipment, auto_increment + 1, row)
      <3> DEFINE id == auto_increment + 1
      <3>1. id \in RowIds
        BY <2>3, TablesAssumption DEF TypeOK, RowIds
      <3> HIDE DEF id
      <3>2. /\ IsTable(show_equipment', ShowEquipmentRow)
            /\ DOMAIN show_equipment' = DOMAIN show_equipment \cup {id}
        <4>1. show_equipment' = Insert(show_equipment, id, row)
          BY <2>3 DEF id
        <4>2. IsTable(show_equipment, ShowEquipmentRow)
          BY DEF TypeOK, TablesTypeOK
        <4>3. /\ IsTable(Insert(show_equipment, id, row), ShowEquipmentRow)
              /\ DOMAIN Insert(show_equipment, id, row) = DOMAIN show_equipment \cup {id}
          BY <2>1, <3>1, <4>2, InsertOK
        <4> QED
          BY <4>1, <4>3
      <3>3. /\ auto_increment' \in 0..MaxRows
            /\ DOMAIN show_equipment' \subseteq 1..auto_increment'
        BY <2>3, <3>2, TablesAssumption DEF TypeOK, id
      <3> QED
        BY <1>5, <3>2, <3>3, AnswerOK DEF AddInsert, TypeOK, TablesTypeOK, IsTable
    <2> QED
      BY <1>5, <2>2, <2>3 DEF AddInsert, row
  <1> QED
    BY <1>1, <1>2, <1>3, <1>4, <1>5 DEF Add

(* A request body's fields fit a closure that begins on an existing row.    *)
LEMMA BeginOK ==
  ASSUME TypeOK, NEW h \in Handlers, NEW op, NEW id, NEW needed, NEW allocated,
         NEW status, NEW quantity, NEW pc,
         op \in Endpoints, id \in DOMAIN show_equipment,
         needed \in Quantities \cup {Omitted}, allocated \in Quantities \cup {Omitted},
         status \in ShowStatuses \cup {NoStatus}, quantity \in Int, pc \in {"own", "write"},
         Begin(h, op, id, needed, allocated, status, quantity, pc),
         op # "remove" => status \in ShowStatuses,
         pc # "write" => op # "remove",
         op \notin {"update", "legacy"} => needed = Omitted /\ allocated = Omitted
  PROVE  /\ requests' \in [Handlers -> Request]
         /\ \A g \in Handlers : RequestOK(requests'[g])
  <1> DEFINE e == show_equipment[id].equipment_id
             new == [Idle EXCEPT !.pc = pc, !.op = op, !.id = id, !.equipment = e,
                                 !.needed = needed, !.allocated = allocated,
                                 !.status = status, !.quantity = quantity]
  <1>1. id \in RowIds /\ e \in Equipment
    BY DEF TypeOK, TablesTypeOK, IsTable, ShowEquipmentRow
  <1>2. op \in AllEndpoints /\ pc \in Steps
    BY HandlersAssumption DEF Steps
  <1>3. Idle \in Request
    BY IdleOK DEF RequestOK
  <1> HIDE DEF e
  <1>4. /\ new \in Request
        /\ new.pc = pc /\ new.op = op /\ new.id = id /\ new.equipment = e
        /\ new.needed = needed /\ new.allocated = allocated /\ new.status = status
    BY <1>1, <1>2, <1>3 DEF Request
  <1> HIDE DEF new
  <1>5. RequestOK(new)
    BY <1>1, <1>4 DEF RequestOK, AddSteps, RowSteps
  <1>6. Become(h, new)
    BY DEF Begin, new, e
  <1> QED
    BY <1>5, <1>6, BecomeOK

LEMMA TypeUpdateRead ==
  ASSUME TypeOK, NEW h \in Handlers, NEW op \in AllEndpoints, NEW id \in RowIds,
         NEW needed \in Quantities \cup {Omitted}, NEW allocated \in Quantities \cup {Omitted},
         NEW status \in ShowStatuses, UpdateRead(h, op, id, needed, allocated, status),
         op # "remove",
         op \notin {"update", "legacy"} => needed = Omitted /\ allocated = Omitted
  PROVE  TypeOK'
  <1> DEFINE row == show_equipment[id]
             quantity == IF op = "legacy"
                           THEN FirstGiven(allocated, needed, row.quantity_allocated)
                           ELSE FirstGiven(needed, Omitted, row.quantity_allocated)
             pc == FirstCheck(row, status)
  <1>1. op \in Endpoints /\ id \in DOMAIN show_equipment
    BY DEF UpdateRead
  <1>2. row.quantity_allocated \in Int
    BY <1>1, TablesAssumption DEF TypeOK, TablesTypeOK, IsTable, ShowEquipmentRow, Quantities
  <1>3. needed \in Int /\ allocated \in Int
    BY TablesAssumption DEF Quantities, Omitted
  <1>4. quantity \in Int
    BY <1>2, <1>3 DEF FirstGiven, Omitted
  <1>5. pc \in {"own", "write"}
    BY DEF FirstCheck
  <1>6. Begin(h, op, id, needed, allocated, status, quantity, pc)
    BY DEF UpdateRead
  <1> HIDE DEF quantity, row, pc
  <1>7. /\ requests' \in [Handlers -> Request]
        /\ \A g \in Handlers : RequestOK(requests'[g])
    BY <1>1, <1>4, <1>5, <1>6, BeginOK
  <1>8. UNCHANGED <<tables, auto_increment>>
    BY DEF UpdateRead
  <1> QED
    BY <1>7, <1>8, TablesKept DEF TypeOK

(* The two reads of validateStatusChange leave the closure well typed.      *)
LEMMA GotoOK ==
  ASSUME TypeOK, NEW h \in Handlers, NEW pc \in RowSteps, requests[h].pc \in RowSteps,
         pc # "write" => requests[h].op # "remove", Goto(h, pc)
  PROVE  /\ requests' \in [Handlers -> Request]
         /\ \A g \in Handlers : RequestOK(requests'[g])
  <1> DEFINE r == requests[h]
  <1>1. RequestOK(r) /\ r \in Request
    BY DEF TypeOK
  <1>2. RequestOK([r EXCEPT !.pc = pc])
    BY <1>1 DEF RequestOK, Request, Steps, RowSteps, AddSteps
  <1> QED
    BY <1>2, BecomeOK DEF Goto

LEMMA TypeChangeRow ==
  ASSUME TypeOK, NEW h \in Handlers, ChangeRow(h)
  PROVE  TypeOK'
  <1> DEFINE r == requests[h]
  <1>0. RequestOK(r) /\ r \in Request
    BY DEF TypeOK
  <1>1. ASSUME NEW id \in RowIds, NEW status \in ShowStatuses,
               UpdateRead(h, "update_status", id, Omitted, Omitted, status)
        PROVE  TypeOK'
    BY <1>1, TypeUpdateRead DEF AllEndpoints
  <1>2. ASSUME NEW op \in {"update", "legacy"}, NEW id \in RowIds,
               NEW needed \in 1..MaxQuantity, NEW status \in ShowStatuses,
               NEW allocated \in 0..needed,
               UpdateRead(h, op, id, needed, allocated, status)
        PROVE  TypeOK'
    <2>1. needed \in Quantities /\ allocated \in Quantities
      BY TablesAssumption DEF Quantities
    <2> QED
      BY <1>2, <2>1, TypeUpdateRead DEF AllEndpoints
  <1>3. ASSUME NEW op \in {"checkout", "return"}, NEW id \in RowIds, MoveRead(h, op, id)
        PROVE  TypeOK'
    <2> DEFINE status == IF op = "checkout" THEN "checked-out" ELSE "returned"
               quantity == show_equipment[id].quantity_allocated
    <2>1. /\ op \in Endpoints /\ id \in DOMAIN show_equipment
          /\ Begin(h, op, id, Omitted, Omitted, status, quantity, "own")
      BY <1>3 DEF MoveRead
    <2>2. quantity \in Int
      BY <2>1, TablesAssumption DEF TypeOK, TablesTypeOK, IsTable, ShowEquipmentRow, Quantities
    <2>3. status \in ShowStatuses
      BY DEF ShowStatuses
    <2> HIDE DEF status, quantity
    <2>4. /\ requests' \in [Handlers -> Request]
          /\ \A g \in Handlers : RequestOK(requests'[g])
      BY <1>3, <2>1, <2>2, <2>3, BeginOK
    <2> QED
      BY <1>3, <2>4, TablesKept DEF MoveRead, TypeOK
  <1>4. ASSUME NEW id \in RowIds, RemoveRead(h, id)
        PROVE  TypeOK'
    <2>1. /\ "remove" \in Endpoints /\ id \in DOMAIN show_equipment
          /\ Begin(h, "remove", id, Omitted, Omitted, NoStatus, 0, "write")
      BY <1>4 DEF RemoveRead
    <2>2. /\ requests' \in [Handlers -> Request]
          /\ \A g \in Handlers : RequestOK(requests'[g])
      BY <2>1, BeginOK
    <2> QED
      BY <1>4, <2>2, TablesKept DEF RemoveRead, TypeOK
  <1>5. CASE ValidateOwnRow(h)
    <2>1. /\ r.pc \in RowSteps /\ "others" \in RowSteps /\ r.op # "remove"
          /\ Goto(h, "others") \/ Answer(h)
      BY <1>0, <1>5 DEF ValidateOwnRow, At, RowSteps, RequestOK
    <2> QED
      BY <1>5, <2>1, GotoOK, AnswerOK, TablesKept DEF ValidateOwnRow, TypeOK
  <1>6. CASE ValidateOthers(h)
    <2>1. r.pc \in RowSteps /\ "write" \in RowSteps /\ (Goto(h, "write") \/ Answer(h))
      BY <1>6 DEF ValidateOthers, At, RowSteps
    <2> QED
      BY <1>6, <2>1, GotoOK, AnswerOK, TablesKept DEF ValidateOthers, TypeOK
  <1>7. CASE UpdateWrite(h)
    <2> DEFINE old == show_equipment[r.id]
               new == [old EXCEPT !.quantity_needed = Given(r.needed, @),
                                  !.quantity_allocated = Given(r.allocated, @),
                                  !.status = r.status]
    <2>1. r.status \in ShowStatuses
      BY <1>0, <1>7 DEF UpdateWrite, At, RequestOK, RowSteps
    <2>2. ASSUME r.id \in DOMAIN show_equipment
          PROVE  new \in ShowEquipmentRow
      <3>1. old \in ShowEquipmentRow
        BY <2>2 DEF TypeOK, TablesTypeOK, IsTable
      <3>2. r.needed \in Quantities \cup {Omitted} /\ r.allocated \in Quantities \cup {Omitted}
        BY <1>0 DEF Request
      <3> QED
        BY <2>1, <3>1, <3>2 DEF ShowEquipmentRow, Given
    <2>3. show_equipment' = Update(show_equipment, r.id, new)
      BY <1>7 DEF UpdateWrite
    <2> HIDE DEF new
    <2>4. /\ IsTable(show_equipment', ShowEquipmentRow)
          /\ DOMAIN show_equipment' = DOMAIN show_equipment
      <3>1. IsTable(show_equipment, ShowEquipmentRow)
        BY DEF TypeOK, TablesTypeOK
      <3>2. /\ IsTable(Update(show_equipment, r.id, new), ShowEquipmentRow)
            /\ DOMAIN Update(show_equipment, r.id, new) = DOMAIN show_equipment
        BY <2>2, <3>1, UpdateOK
      <3> QED
        BY <2>3, <3>2
    <2> QED
      BY <1>7, <2>4, AnswerOK DEF UpdateWrite, TypeOK, TablesTypeOK, IsTable
  <1>8. CASE MoveWriteRow(h)
    <2> DEFINE new == [show_equipment[r.id] EXCEPT !.status = r.status]
    <2>1. r.status \in ShowStatuses
      BY <1>0, <1>8 DEF MoveWriteRow, At, RequestOK, RowSteps
    <2>2. ASSUME r.id \in DOMAIN show_equipment
          PROVE  new \in ShowEquipmentRow
      BY <2>1, <2>2 DEF TypeOK, TablesTypeOK, IsTable, ShowEquipmentRow
    <2>3. show_equipment' = Update(show_equipment, r.id, new)
      BY <1>8 DEF MoveWriteRow
    <2> HIDE DEF new
    <2>4. /\ IsTable(show_equipment', ShowEquipmentRow)
          /\ DOMAIN show_equipment' = DOMAIN show_equipment
      <3>1. IsTable(show_equipment, ShowEquipmentRow)
        BY DEF TypeOK, TablesTypeOK
      <3>2. /\ IsTable(Update(show_equipment, r.id, new), ShowEquipmentRow)
            /\ DOMAIN Update(show_equipment, r.id, new) = DOMAIN show_equipment
        BY <2>2, <3>1, UpdateOK
      <3> QED
        BY <2>3, <3>2
    <2>5. /\ r.pc \in RowSteps /\ "equipment" \in RowSteps /\ r.op # "remove"
          /\ Goto(h, "equipment")
      BY <1>8 DEF MoveWriteRow, At, RowSteps
    <2>6. /\ requests' \in [Handlers -> Request]
          /\ \A g \in Handlers : RequestOK(requests'[g])
      BY <2>5, GotoOK
    <2> QED
      BY <1>8, <2>4, <2>6 DEF MoveWriteRow, TypeOK, TablesTypeOK, IsTable
  <1>9. CASE MoveWriteEquipment(h)
    <2>1. equipment' = [equipment EXCEPT ![r.equipment].status = StatusAfter(r.op)]
      BY <1>9 DEF MoveWriteEquipment
    <2>2. StatusAfter(r.op) \in EquipmentStatuses
      BY DEF StatusAfter, EquipmentStatuses
    <2>3. equipment' \in [Equipment -> EquipmentRow]
      BY <2>1, <2>2 DEF TypeOK, TablesTypeOK, EquipmentRow
    <2> QED
      BY <1>9, <2>3, AnswerOK DEF MoveWriteEquipment, TypeOK, TablesTypeOK, IsTable
  <1>10. CASE RemoveWrite(h)
    <2> DEFINE ids == {r.id}
    <2> HIDE DEF ids
    <2>1. /\ IsTable(DeleteRows(show_equipment, ids), ShowEquipmentRow)
          /\ DOMAIN DeleteRows(show_equipment, ids) = DOMAIN show_equipment \ ids
      BY DeleteOK DEF TypeOK, TablesTypeOK
    <2>2. show_equipment' = DeleteRows(show_equipment, ids)
      BY <1>10 DEF RemoveWrite, ids
    <2> QED
      BY <1>10, <2>1, <2>2, AnswerOK DEF RemoveWrite, TypeOK, TablesTypeOK, IsTable
  <1> QED
    BY <1>1, <1>2, <1>3, <1>4, <1>5, <1>6, <1>7, <1>8, <1>9, <1>10 DEF ChangeRow

LEMMA TypeDeleteShow ==
  ASSUME TypeOK, NEW h \in Handlers, DeleteShow(h)
  PROVE  TypeOK'
  <1>1. ASSUME NEW s \in Shows, DeleteShowRead(h, s)
        PROVE  TypeOK'
    <2> DEFINE new == [Idle EXCEPT !.pc = "destroy", !.op = "delete_show", !.show = s]
    <2>1. Idle \in Request
      BY IdleOK DEF RequestOK
    <2>2. new \in Request /\ new.pc = "destroy"
      BY <2>1 DEF Request, Steps, AllEndpoints
    <2>3. RequestOK(new)
      BY <2>2 DEF RequestOK, AddSteps, RowSteps
    <2> QED
      BY <1>1, <2>3, BecomeOK, TablesKept DEF DeleteShowRead, TypeOK
  <1>2. CASE DeleteShowWrite(h)
    <2> DEFINE s == requests[h].show
    <2>1. /\ IsTable(show_equipment', ShowEquipmentRow)
          /\ DOMAIN show_equipment' \subseteq DOMAIN show_equipment
      <3>1. CASE show_equipment' = show_equipment
        BY <3>1 DEF TypeOK, TablesTypeOK, IsTable
      <3>2. CASE show_equipment' = DeleteRows(show_equipment, RowsOf(s))
        <4>1. /\ IsTable(DeleteRows(show_equipment, RowsOf(s)), ShowEquipmentRow)
              /\ DOMAIN DeleteRows(show_equipment, RowsOf(s)) = DOMAIN show_equipment \ RowsOf(s)
          BY DeleteOK DEF TypeOK, TablesTypeOK
        <4> QED
          BY <3>2, <4>1
      <3> QED
        BY <1>2, <3>1, <3>2 DEF DeleteShowWrite
    <2> QED
      BY <1>2, <2>1, AnswerOK DEF DeleteShowWrite, TypeOK, TablesTypeOK, IsTable
  <1> QED
    BY <1>1, <1>2 DEF DeleteShow

LEMMA TypeInit == Init => TypeOK
  <1> SUFFICES ASSUME Init PROVE TypeOK
    OBVIOUS
  <1>1. equipment \in [Equipment -> EquipmentRow]
    BY DEF Init
  <1>2. IsTable(show_equipment, ShowEquipmentRow)
    BY DEF Init, IsTable
  <1>3. IsTable(inventory_allocation, InventoryRow)
    BY HandlersAssumption DEF Init
  <1>4. \A h \in Handlers : RequestOK(requests[h]) /\ requests[h] \in Request
    BY IdleOK DEF Init, RequestOK
  <1>5. requests \in [Handlers -> Request]
    BY <1>4 DEF Init
  <1> QED
    BY <1>1, <1>2, <1>3, <1>4, <1>5, TablesAssumption DEF Init, TypeOK, TablesTypeOK

LEMMA TypeNext == TypeOK /\ [Next]_vars => TypeOK'
  <1> SUFFICES ASSUME TypeOK, [Next]_vars PROVE TypeOK'
    OBVIOUS
  <1>1. CASE UNCHANGED vars
    BY <1>1 DEF vars, tables, TypeOK, TablesTypeOK, IsTable, RequestOK
  <1>2. ASSUME NEW h \in Handlers, QueryFails(h)
        PROVE  TypeOK'
    BY <1>2, AnswerOK, TablesKept DEF QueryFails, TypeOK
  <1> QED
    BY <1>1, <1>2, TypeAdd, TypeChangeRow, TypeDeleteShow DEF Next

(* The rows of both tables and what every handler keeps between two awaits  *)
(* have the types of the schema, whatever requests are served together.    *)
THEOREM TypeCorrect == Spec => []TypeOK
  BY TypeInit, TypeNext, PTL DEF Spec
-----------------------------------------------------------------------------
(***************************************************************************)
(* The keys of create_shows_tables.js hold under any number of concurrent  *)
(* requests: only the INSERT and the deletion of a show can disturb them.  *)
(***************************************************************************)
KeysKept ==
    /\ shows' = shows
    /\ DOMAIN show_equipment' \subseteq DOMAIN show_equipment
    /\ \A k \in DOMAIN show_equipment' :
          /\ show_equipment'[k].show_id = show_equipment[k].show_id
          /\ show_equipment'[k].equipment_id = show_equipment[k].equipment_id

LEMMA RowChangesKeepKeys ==
  ASSUME TypeOK, NEW h \in Handlers, ChangeRow(h)
  PROVE  KeysKept
  <1> DEFINE r == requests[h]
  <1>1. CASE UNCHANGED <<tables, auto_increment>>
    BY <1>1 DEF KeysKept, tables
  <1>2. CASE UpdateWrite(h)
    <2> DEFINE old == show_equipment[r.id]
               new == [old EXCEPT !.quantity_needed = Given(r.needed, @),
                                  !.quantity_allocated = Given(r.allocated, @),
                                  !.status = r.status]
    <2>1. ASSUME r.id \in DOMAIN show_equipment
          PROVE  new.show_id = old.show_id /\ new.equipment_id = old.equipment_id
      <3>1. old \in ShowEquipmentRow
        BY <2>1 DEF TypeOK, TablesTypeOK, IsTable
      <3> QED
        BY <3>1 DEF ShowEquipmentRow
    <2>2. show_equipment' = Update(show_equipment, r.id, new) /\ shows' = shows
      BY <1>2 DEF UpdateWrite
    <2> HIDE DEF new
    <2> QED
      BY <2>1, <2>2 DEF KeysKept, Update
  <1>3. CASE MoveWriteRow(h)
    <2> DEFINE old == show_equipment[r.id]
               new == [old EXCEPT !.status = r.status]
    <2>1. ASSUME r.id \in DOMAIN show_equipment
          PROVE  new.show_id = old.show_id /\ new.equipment_id = old.equipment_id
      <3>1. old \in ShowEquipmentRow
        BY <2>1 DEF TypeOK, TablesTypeOK, IsTable
      <3> QED
        BY <3>1 DEF ShowEquipmentRow
    <2>2. show_equipment' = Update(show_equipment, r.id, new) /\ shows' = shows
      BY <1>3 DEF MoveWriteRow
    <2> HIDE DEF new
    <2> QED
      BY <2>1, <2>2 DEF KeysKept, Update
  <1>4. CASE MoveWriteEquipment(h)
    BY <1>4 DEF MoveWriteEquipment, KeysKept
  <1>5. CASE RemoveWrite(h)
    BY <1>5 DEF RemoveWrite, DeleteRows, KeysKept
  <1>6. UNCHANGED <<tables, auto_increment>> \/ UpdateWrite(h) \/ MoveWriteRow(h)
            \/ MoveWriteEquipment(h) \/ RemoveWrite(h)
    BY DEF ChangeRow, UpdateRead, MoveRead, RemoveRead, ValidateOwnRow, ValidateOthers
  <1> QED
    BY <1>1, <1>2, <1>3, <1>4, <1>5, <1>6

LEMMA KeysNext ==
  ASSUME MigratedSchema, TypeOK, OneRowPerShow, NoDanglingRows, [Next]_vars
  PROVE  OneRowPerShow' /\ NoDanglingRows'
  <1>1. CASE KeysKept
    BY <1>1 DEF KeysKept, OneRowPerShow, NoDanglingRows
  <1>2. ASSUME NEW h \in Handlers, AddInsert(h)
        PROVE  OneRowPerShow' /\ NoDanglingRows'
    <2> DEFINE r == requests[h]
               id == auto_increment + 1
               row == [show_id |-> r.show, equipment_id |-> r.equipment,
                       quantity_needed |-> r.needed, quantity_allocated |-> r.needed,
                       status |-> "allocated"]
    <2>1. CASE UNCHANGED show_equipment
      BY <1>2, <2>1, <1>1 DEF AddInsert, KeysKept
    <2>2. CASE ~Refused(r) /\ show_equipment' = Insert(show_equipment, id, row)
      <3>1. r.show \in shows /\ ~RowFor(r.show, r.equipment)
        BY <2>2 DEF Refused
      <3>2. id \notin DOMAIN show_equipment
        BY TablesAssumption DEF TypeOK
      <3>3. row.show_id = r.show /\ row.equipment_id = r.equipment
        OBVIOUS
      <3> HIDE DEF id, row
      <3>4. /\ DOMAIN show_equipment' = DOMAIN show_equipment \cup {id}
            /\ show_equipment'[id] = row
            /\ \A k \in DOMAIN show_equipment : show_equipment'[k] = show_equipment[k]
        BY <2>2, <3>2 DEF Insert
      <3>5. shows' = shows
        BY <1>2 DEF AddInsert
      <3> QED
        BY <3>1, <3>3, <3>4, <3>5 DEF OneRowPerShow, NoDanglingRows, RowFor
    <2> QED
      BY <1>2, <2>1, <2>2 DEF AddInsert
  <1>3. ASSUME NEW h \in Handlers, DeleteShowWrite(h)
        PROVE  OneRowPerShow' /\ NoDanglingRows'
    <2> DEFINE s == requests[h].show
    <2>1. shows' = shows \ {s} /\ show_equipment' = DeleteRows(show_equipment, RowsOf(s))
      BY <1>3 DEF DeleteShowWrite
    <2> QED
      BY <2>1 DEF DeleteRows, RowsOf, OneRowPerShow, NoDanglingRows
  <1>4. CASE UNCHANGED <<shows, show_equipment>>
    BY <1>4, <1>1 DEF KeysKept
  <1>5. ASSUME NEW h \in Handlers, Add(h), ~AddInsert(h)
        PROVE  UNCHANGED <<shows, show_equipment>>
    BY <1>5 DEF Add, AddFindShow, AddFindExisting, AddSumShows, AddSumInventory, tables
  <1>6. ASSUME NEW h \in Handlers, DeleteShow(h), ~DeleteShowWrite(h)
        PROVE  UNCHANGED <<shows, show_equipment>>
    BY <1>6 DEF DeleteShow, DeleteShowRead, tables
  <1>7. ASSUME NEW h \in Handlers, QueryFails(h)
        PROVE  UNCHANGED <<shows, show_equipment>>
    BY <1>7 DEF QueryFails, tables
  <1>8. CASE UNCHANGED vars
    BY <1>8, <1>4 DEF vars, tables
  <1> QED
    BY <1>1, <1>2, <1>3, <1>4, <1>5, <1>6, <1>7, <1>8, RowChangesKeepKeys DEF Next

(* Under the migrated schema no interleaving of requests gives a show two   *)
(* rows for one item, or leaves a row whose show is gone.                  *)
THEOREM KeysHold ==
  ASSUME MigratedSchema
  PROVE  Spec => [](OneRowPerShow /\ NoDanglingRows)
  <1>1. Init => OneRowPerShow /\ NoDanglingRows
    BY DEF Init, OneRowPerShow, NoDanglingRows
  <1>2. TypeOK /\ (OneRowPerShow /\ NoDanglingRows) /\ [Next]_vars
            => (OneRowPerShow /\ NoDanglingRows)'
    BY KeysNext
  <1> QED
    BY <1>1, <1>2, TypeCorrect, PTL DEF Spec
-----------------------------------------------------------------------------
(***************************************************************************)
(* Counting units.                                                         *)
(***************************************************************************)
(* A table with fewer units has a smaller sum. *)
LEMMA SumMonotone ==
  ASSUME NEW Row, NEW T, IsTable(T, Row), NEW U, NEW e, NEW S,
         Units(U, e, S) \subseteq Units(T, e, S)
  PROVE  SumAllocated(U, e, S) <= SumAllocated(T, e, S)
  <1>1. IsFiniteSet(Units(T, e, S))
    BY UnitsFinite
  <1> QED
    BY <1>1, FS_Subset DEF SumAllocated

(* Deleting rows lowers every sum. *)
LEMMA SumAfterDelete ==
  ASSUME NEW Row, NEW T, IsTable(T, Row), NEW ids, NEW e, NEW S
  PROVE  SumAllocated(DeleteRows(T, ids), e, S) <= SumAllocated(T, e, S)
  <1>1. Units(DeleteRows(T, ids), e, S) \subseteq Units(T, e, S)
    BY DEF Units, DeleteRows
  <1> QED
    BY <1>1, SumMonotone

(* After an UPDATE a sum is at most that of the other rows and the new row. *)
LEMMA SumAfterUpdate ==
  ASSUME NEW T, IsTable(T, ShowEquipmentRow), NEW id, NEW row, row \in ShowEquipmentRow,
         NEW S
  PROVE  SumAllocated(Update(T, id, row), row.equipment_id, S)
            <= SumAllocated(OtherRows(T, id), row.equipment_id, S) + row.quantity_allocated
  <1> DEFINE e == row.equipment_id
             q == row.quantity_allocated
             Mine == {id} \X (1..q)
             Theirs == Units(OtherRows(T, id), e, S)
             After == Units(Update(T, id, row), e, S)
  <1>1. q \in Nat
    BY TablesAssumption DEF ShowEquipmentRow, Quantities
  <1>2. IsTable(OtherRows(T, id), ShowEquipmentRow)
    BY DEF IsTable, OtherRows, DeleteRows
  <1>3. IsFiniteSet(Theirs) /\ Cardinality(Theirs) \in Nat
    BY <1>2, UnitsFinite DEF SumAllocated
  <1>4. IsFiniteSet(1..q) /\ Cardinality(1..q) = q
    <2> HIDE DEF q
    <2>1. IsFiniteSet(1..q) /\ Cardinality(1..q) = IF 1 > q THEN 0 ELSE q - 1 + 1
      BY <1>1, FS_Interval
    <2> QED
      BY <1>1, <2>1
  <1>5. IsFiniteSet({id}) /\ Cardinality({id}) = 1
    BY FS_Singleton
  <1>6. IsFiniteSet(Mine) /\ Cardinality(Mine) = q
    <2>1. IsFiniteSet(Mine) /\ Cardinality(Mine) = Cardinality({id}) * Cardinality(1..q)
      BY <1>4, <1>5, FS_Product
    <2> QED
      BY <1>1, <1>4, <1>5, <2>1
  <1>7. After \subseteq Theirs \cup Mine
    <2> SUFFICES ASSUME NEW u \in After PROVE u \in Theirs \cup Mine
      OBVIOUS
    <2>1. /\ u \in (DOMAIN T) \X (1..MaxQuantity)
          /\ Update(T, id, row)[u[1]].equipment_id = e
          /\ Update(T, id, row)[u[1]].status \in S
          /\ u[2] <= Update(T, id, row)[u[1]].quantity_allocated
      BY DEF Units, Update
    <2>2. CASE u[1] = id
      <3>1. Update(T, id, row)[u[1]] = row
        BY <2>1, <2>2 DEF Update
      <3>2. u[2] \in 1..q
        BY <1>1, <2>1, <3>1, TablesAssumption
      <3>3. u = <<u[1], u[2]>>
        BY <2>1
      <3> QED
        BY <2>2, <3>2, <3>3
    <2>3. CASE u[1] # id
      <3>1. Update(T, id, row)[u[1]] = T[u[1]]
        BY <2>1, <2>3 DEF Update
      <3>2. u[1] \in DOMAIN OtherRows(T, id) /\ OtherRows(T, id)[u[1]] = T[u[1]]
        BY <2>1, <2>3 DEF OtherRows, DeleteRows
      <3>3. u \in (DOMAIN OtherRows(T, id)) \X (1..MaxQuantity)
        BY <2>1, <3>2
      <3> QED
        BY <2>1, <3>1, <3>2, <3>3 DEF Units
    <2> QED
      BY <2>2, <2>3
  <1> HIDE DEF After, Theirs, Mine, q
  <1>8. /\ IsFiniteSet(Theirs \cup Mine)
        /\ Cardinality(Theirs \cup Mine)
              = Cardinality(Theirs) + Cardinality(Mine) - Cardinality(Theirs \cap Mine)
    BY <1>3, <1>6, FS_Union
  <1>9. Cardinality(Theirs \cap Mine) \in Nat
    <2>1. IsFiniteSet(Theirs \cap Mine)
      BY <1>3, FS_Subset
    <2> QED
      BY <2>1, FS_CardinalityType
  <1>10. IsFiniteSet(After) /\ Cardinality(After) <= Cardinality(Theirs \cup Mine)
    BY <1>7, <1>8, FS_Subset
  <1>11. Cardinality(After) \in Nat
    BY <1>10, FS_CardinalityType
  <1>12. Cardinality(After) <= Cardinality(Theirs) + q
    BY <1>1, <1>3, <1>6, <1>8, <1>9, <1>10, <1>11
  <1> QED
    BY <1>12 DEF SumAllocated, After, Theirs, q

(* An UPDATE that brings no new units into S does not raise the sum. *)
LEMMA SumAfterIdleUpdate ==
  ASSUME NEW T, IsTable(T, ShowEquipmentRow), NEW id, NEW row, NEW e, NEW S,
         id \in DOMAIN T /\ row.equipment_id = e /\ row.status \in S =>
            /\ T[id].equipment_id = e /\ T[id].status \in S
            /\ T[id].quantity_allocated = row.quantity_allocated
  PROVE  SumAllocated(Update(T, id, row), e, S) <= SumAllocated(T, e, S)
  <1>1. Units(Update(T, id, row), e, S) \subseteq Units(T, e, S)
    BY DEF Units, Update
  <1> QED
    BY <1>1, SumMonotone

-----------------------------------------------------------------------------
(***************************************************************************)
(* The check-out desk, one request at a time and no endpoint that writes   *)
(* quantities.  OutWithinStock is not inductive: the write that hands      *)
(* units out relies on a validation two steps earlier.  ReadsCurrent is    *)
(* what that validation has established and nothing has disturbed since.   *)
(***************************************************************************)
OneAtATime == \A g, h \in Handlers : g = h
ValidatedOnly == "update" \notin Endpoints /\ "legacy" \notin Endpoints

RowFits(id) ==
    LET row == show_equipment[id]
    IN  SumAllocated(OtherRows(show_equipment, id), row.equipment_id, OutStatuses)
            + row.quantity_allocated <= equipment[row.equipment_id].quantity

(* What a handler read and validated is still so when it writes: its row is *)
(* there, with the quantity it validated, and if it is about to hand units  *)
(* out they fit the stock beside all that is out.                          *)
ReadsCurrent ==
    \A h \in Handlers :
        LET r == requests[h]
            row == show_equipment[r.id]
        IN  r.pc \in RowSteps =>
               /\ r.id \in DOMAIN show_equipment
               /\ r.equipment = row.equipment_id
               /\ r.op # "remove" => r.quantity = row.quantity_allocated
               /\ r.pc = "write" /\ r.status \in OutStatuses =>
                     row.status = r.status \/ RowFits(r.id)

DeskInv == TypeOK /\ OutWithinStock /\ ReadsCurrent

LEMMA StockType ==
  ASSUME TypeOK, NEW e \in Equipment
  PROVE  equipment[e].quantity \in Nat
  BY TablesAssumption DEF TypeOK, TablesTypeOK, EquipmentRow

(* An UPDATE that fits, or that does not bring the row out, keeps the stock *)
(* covered.                                                                *)
LEMMA OutAfterWrite ==
  ASSUME TypeOK, OutWithinStock, NEW id \in DOMAIN show_equipment,
         NEW new, new \in ShowEquipmentRow,
         new.equipment_id = show_equipment[id].equipment_id,
         new.quantity_allocated = show_equipment[id].quantity_allocated,
         new.status \in OutStatuses =>
            show_equipment[id].status = new.status \/ RowFits(id),
         show_equipment' = Update(show_equipment, id, new),
         equipment' = equipment
  PROVE  OutWithinStock'
  <1> DEFINE T == show_equipment
             old == T[id]
  <1>0. IsTable(T, ShowEquipmentRow)
    BY DEF TypeOK, TablesTypeOK
  <1> SUFFICES ASSUME NEW e \in Equipment
               PROVE  SumAllocated(Update(T, id, new), e, OutStatuses) <= equipment[e].quantity
    BY DEF OutWithinStock
  <1>1. /\ SumAllocated(T, e, OutStatuses) <= equipment[e].quantity
        /\ SumAllocated(T, e, OutStatuses) \in Nat
        /\ equipment[e].quantity \in Nat
    BY SumType, StockType DEF OutWithinStock
  <1>2. SumAllocated(Update(T, id, new), e, OutStatuses) \in Nat
    <2>1. IsTable(Update(T, id, new), ShowEquipmentRow)
      BY <1>0, UpdateOK
    <2> QED
      BY <2>1, UnitsFinite
  <1>3. CASE new.equipment_id = e /\ new.status \in OutStatuses => old.status = new.status
    <2>1. SumAllocated(Update(T, id, new), e, OutStatuses) <= SumAllocated(T, e, OutStatuses)
      BY <1>0, <1>3, SumAfterIdleUpdate
    <2> QED
      BY <1>1, <1>2, <2>1
  <1>4. CASE new.equipment_id = e /\ RowFits(id)
    <2> DEFINE others == SumAllocated(OtherRows(T, id), e, OutStatuses)
               q == new.quantity_allocated
    <2>1. others + q <= equipment[e].quantity
      BY <1>4 DEF RowFits
    <2>2. SumAllocated(Update(T, id, new), e, OutStatuses) <= others + q
      BY <1>0, <1>4, SumAfterUpdate
    <2>3. others \in Nat /\ q \in Nat
      <3>1. IsTable(OtherRows(T, id), ShowEquipmentRow)
        BY <1>0 DEF IsTable, OtherRows, DeleteRows
      <3> QED
        BY <3>1, UnitsFinite, TablesAssumption DEF ShowEquipmentRow, Quantities
    <2> QED
      BY <1>1, <1>2, <2>1, <2>2, <2>3
  <1> QED
    BY <1>3, <1>4

LEMMA OutAfterDelete ==
  ASSUME TypeOK, OutWithinStock, NEW ids,
         show_equipment' = DeleteRows(show_equipment, ids), equipment' = equipment
  PROVE  OutWithinStock'
  <1> DEFINE T == show_equipment
  <1>0. IsTable(T, ShowEquipmentRow)
    BY DEF TypeOK, TablesTypeOK
  <1> SUFFICES ASSUME NEW e \in Equipment
               PROVE  SumAllocated(DeleteRows(T, ids), e, OutStatuses) <= equipment[e].quantity
    BY DEF OutWithinStock
  <1>1. /\ SumAllocated(T, e, OutStatuses) <= equipment[e].quantity
        /\ SumAllocated(T, e, OutStatuses) \in Nat
        /\ equipment[e].quantity \in Nat
    BY SumType, StockType DEF OutWithinStock
  <1>2. IsTable(DeleteRows(T, ids), ShowEquipmentRow)
    BY <1>0, DeleteOK
  <1>3. /\ SumAllocated(DeleteRows(T, ids), e, OutStatuses) \in Nat
        /\ SumAllocated(DeleteRows(T, ids), e, OutStatuses) <= SumAllocated(T, e, OutStatuses)
    BY <1>0, <1>2, UnitsFinite, SumAfterDelete
  <1> QED
    BY <1>1, <1>3

LEMMA OutAfterInsert ==
  ASSUME TypeOK, OutWithinStock, NEW id, NEW row, row.status \notin OutStatuses,
         id \notin DOMAIN show_equipment,
         show_equipment' = Insert(show_equipment, id, row), equipment' = equipment
  PROVE  OutWithinStock'
  <1> DEFINE T == show_equipment
  <1>1. ASSUME NEW e \in Equipment
        PROVE  Units(Insert(T, id, row), e, OutStatuses) = Units(T, e, OutStatuses)
    BY DEF Units, Insert
  <1> QED
    BY <1>1 DEF OutWithinStock, SumAllocated

(* StillHolds of one closure, over given tables. *)
HoldsIn(se, eq, r) ==
    r.pc \in RowSteps =>
        /\ r.id \in DOMAIN se
        /\ r.equipment = se[r.id].equipment_id
        /\ r.op # "remove" => r.quantity = se[r.id].quantity_allocated
        /\ r.pc = "write" /\ r.status \in OutStatuses =>
              \/ se[r.id].status = r.status
              \/ SumAllocated(OtherRows(se, r.id), se[r.id].equipment_id, OutStatuses)
                    + se[r.id].quantity_allocated <= eq[se[r.id].equipment_id].quantity

LEMMA ReadsNow ==
  ASSUME ReadsCurrent, NEW h \in Handlers
  PROVE  HoldsIn(show_equipment, equipment, requests[h])
  BY DEF ReadsCurrent, HoldsIn, RowFits

LEMMA ReadsAfter ==
  ASSUME TypeOK, OneAtATime, NEW h \in Handlers, NEW r, Become(h, r),
         HoldsIn(show_equipment', equipment', r)
  PROVE  ReadsCurrent'
  <1>1. \A g \in Handlers : requests'[g] = r
    BY DEF Become, OneAtATime, TypeOK
  <1> QED
    BY <1>1 DEF ReadsCurrent, HoldsIn, RowFits

LEMMA ReadsAfterAnswer ==
  ASSUME TypeOK, OneAtATime, NEW h \in Handlers, Answer(h)
  PROVE  ReadsCurrent'
  <1>1. HoldsIn(show_equipment', equipment', Idle)
    BY DEF HoldsIn, Idle, RowSteps
  <1> QED
    BY <1>1, ReadsAfter DEF Answer

LEMMA OutKept ==
  ASSUME OutWithinStock, show_equipment' = show_equipment, equipment' = equipment
  PROVE  OutWithinStock'
  BY DEF OutWithinStock

LEMMA DeskAdd ==
  ASSUME DeskInv, OneAtATime, NEW h \in Handlers, Add(h)
  PROVE  OutWithinStock' /\ ReadsCurrent'
  <1> USE DEF DeskInv
  <1> DEFINE r == requests[h]
  <1>1. CASE AddInsert(h)
    <2> DEFINE id == auto_increment + 1
               row == [show_id |-> r.show, equipment_id |-> r.equipment,
                       quantity_needed |-> r.needed, quantity_allocated |-> r.needed,
                       status |-> "allocated"]
    <2>1. equipment' = equipment /\ Answer(h)
      BY <1>1 DEF AddInsert
    <2>2. row.status \notin OutStatuses
      BY DEF OutStatuses
    <2>3. id \notin DOMAIN show_equipment
      BY TablesAssumption DEF TypeOK
    <2>4. show_equipment' = show_equipment \/ show_equipment' = Insert(show_equipment, id, row)
      BY <1>1 DEF AddInsert
    <2> HIDE DEF id, row
    <2>5. OutWithinStock'
      BY <2>1, <2>2, <2>3, <2>4, OutKept, OutAfterInsert
    <2> QED
      BY <2>1, <2>5, ReadsAfterAnswer
  <1>2. ASSUME ~AddInsert(h)
        PROVE  OutWithinStock' /\ ReadsCurrent'
    <2>1. UNCHANGED tables
      BY <1>2 DEF Add, AddFindShow, AddFindExisting, AddSumShows, AddSumInventory
    <2>2. OutWithinStock'
      BY <2>1, OutKept DEF tables
    <2>3. requests[h] \in Request /\ Idle.pc = "idle"
      BY DEF TypeOK, Idle
    <2>4. requests'[h].pc \notin RowSteps
      <3>1. ASSUME NEW s \in Shows, NEW e \in Equipment, NEW n \in 1..MaxQuantity,
                   AddFindShow(h, s, e, n)
            PROVE  requests'[h].pc \notin RowSteps
        <4> DEFINE new == [Idle EXCEPT !.pc = "existing", !.op = "add", !.show = s,
                                       !.equipment = e, !.needed = n]
        <4>1. new.pc = "existing" /\ Become(h, new)
          BY <3>1 DEF AddFindShow, Idle
        <4> HIDE DEF new
        <4> QED
          BY <4>1 DEF Become, TypeOK, RowSteps
      <3>2. ASSUME NEW pc \in {"show_sum", "insert"}, Goto(h, pc)
            PROVE  requests'[h].pc \notin RowSteps
        BY <2>3, <3>2 DEF Goto, Become, TypeOK, RowSteps, Request
      <3>3. ASSUME Answer(h)
            PROVE  requests'[h].pc \notin RowSteps
        BY <2>3, <3>3 DEF Answer, Become, TypeOK, RowSteps
      <3>4. ASSUME AddSumShows(h)
            PROVE  requests'[h].pc \notin RowSteps
        BY <2>3, <3>4 DEF AddSumShows, Become, TypeOK, RowSteps, Request
      <3> QED
        BY <1>2, <3>1, <3>2, <3>3, <3>4 DEF Add, AddFindExisting, AddSumInventory
    <2>5. \A g \in Handlers : requests'[g].pc \notin RowSteps
      BY <2>4 DEF OneAtATime
    <2> QED
      BY <2>2, <2>5 DEF ReadsCurrent
  <1> QED
    BY <1>1, <1>2

LEMMA DeskDeleteShow ==
  ASSUME DeskInv, OneAtATime, NEW h \in Handlers, DeleteShow(h)
  PROVE  OutWithinStock' /\ ReadsCurrent'
  <1> USE DEF DeskInv
  <1>1. ASSUME NEW s \in Shows, DeleteShowRead(h, s)
        PROVE  OutWithinStock' /\ ReadsCurrent'
    <2> DEFINE new == [Idle EXCEPT !.pc = "destroy", !.op = "delete_show", !.show = s]
    <2>1. Become(h, new) /\ UNCHANGED tables
      BY <1>1 DEF DeleteShowRead
    <2>2. new.pc = "destroy"
      BY DEF Idle
    <2> HIDE DEF new
    <2>3. HoldsIn(show_equipment', equipment', new)
      BY <2>2 DEF HoldsIn, RowSteps
    <2> QED
      BY <2>1, <2>3, OutKept, ReadsAfter DEF tables
  <1>2. CASE DeleteShowWrite(h)
    <2>1. equipment' = equipment /\ Answer(h)
      BY <1>2 DEF DeleteShowWrite
    <2>2. \/ show_equipment' = show_equipment
          \/ show_equipment' = DeleteRows(show_equipment, RowsOf(requests[h].show))
      BY <1>2 DEF DeleteShowWrite
    <2> QED
      BY <2>1, <2>2, OutKept, OutAfterDelete, ReadsAfterAnswer
  <1> QED
    BY <1>1, <1>2 DEF DeleteShow

LEMMA DeskBegin ==
  ASSUME DeskInv, OneAtATime, NEW h \in Handlers, NEW op, NEW id \in DOMAIN show_equipment,
         NEW needed, NEW allocated, NEW status, NEW quantity, NEW pc,
         Begin(h, op, id, needed, allocated, status, quantity, pc), UNCHANGED tables,
         op # "remove" => quantity = show_equipment[id].quantity_allocated,
         pc = "write" /\ status \in OutStatuses => show_equipment[id].status = status
  PROVE  OutWithinStock' /\ ReadsCurrent'
  <1> USE DEF DeskInv
  <1> DEFINE e == show_equipment[id].equipment_id
             new == [Idle EXCEPT !.pc = pc, !.op = op, !.id = id, !.equipment = e,
                                 !.needed = needed, !.allocated = allocated,
                                 !.status = status, !.quantity = quantity]
  <1>1. /\ new.pc = pc /\ new.op = op /\ new.id = id /\ new.equipment = e
        /\ new.status = status /\ new.quantity = quantity
    BY DEF Idle
  <1>2. Become(h, new)
    BY DEF Begin
  <1> HIDE DEF new
  <1>3. HoldsIn(show_equipment', equipment', new)
    BY <1>1 DEF HoldsIn, tables
  <1> QED
    BY <1>2, <1>3, OutKept, ReadsAfter DEF tables

(* validateStatusChange lets a row out only if it fits. *)
LEMMA ValidatedFits ==
  ASSUME TypeOK, NEW id \in DOMAIN show_equipment, NEW s \in OutStatuses,
         OtherAllocationsAllow(show_equipment[id].equipment_id, id, s,
                               show_equipment[id].quantity_allocated)
  PROVE  RowFits(id)
  <1> DEFINE row == show_equipment[id]
             e == row.equipment_id
             n == row.quantity_allocated
             show == SumAllocated(OtherRows(show_equipment, id), e, OutStatuses)
             inventory == SumAllocated(OtherRows(inventory_allocation, id), e, OutStatuses)
  <1>1. s \in requiresAvailability /\ CountedStatuses(s) = OutStatuses
    BY DEF requiresAvailability, OutStatuses, CountedStatuses
  <1>2. n + show + inventory <= equipment[e].quantity
    BY <1>1 DEF OtherAllocationsAllow
  <1>3. IsTable(OtherRows(show_equipment, id), ShowEquipmentRow)
    BY DeleteOK DEF OtherRows, TypeOK, TablesTypeOK
  <1>4. IsTable(OtherRows(inventory_allocation, id), InventoryRow)
    BY DeleteOK DEF OtherRows, TypeOK, TablesTypeOK
  <1>5. show \in Nat /\ inventory \in Nat
    BY <1>3, <1>4, UnitsFinite
  <1>6. row \in ShowEquipmentRow
    BY DEF TypeOK, TablesTypeOK, IsTable
  <1>7. n \in Nat /\ equipment[e].quantity \in Nat
    BY <1>6, TablesAssumption, StockType DEF ShowEquipmentRow, Quantities
  <1> HIDE DEF show, inventory, n, e
  <1>8. show + n <= equipment[e].quantity
    BY <1>2, <1>5, <1>7
  <1> QED
    BY <1>8 DEF RowFits, show, n, e

LEMMA DeskChangeRow ==
  ASSUME DeskInv, OneAtATime, ValidatedOnly, NEW h \in Handlers, ChangeRow(h)
  PROVE  OutWithinStock' /\ ReadsCurrent'
  <1> USE DEF DeskInv
  <1> DEFINE r == requests[h]
             row == show_equipment[r.id]
  <1>a. RequestOK(r) /\ r \in Request /\ HoldsIn(show_equipment, equipment, r)
    BY ReadsNow DEF TypeOK
  <1>1. ASSUME NEW id \in RowIds, NEW status \in ShowStatuses,
               UpdateRead(h, "update_status", id, Omitted, Omitted, status)
        PROVE  OutWithinStock' /\ ReadsCurrent'
    <2> DEFINE old == show_equipment[id]
               quantity == FirstGiven(Omitted, Omitted, old.quantity_allocated)
    <2>1. /\ id \in DOMAIN show_equipment /\ UNCHANGED tables
          /\ Begin(h, "update_status", id, Omitted, Omitted, status, quantity,
                   FirstCheck(old, status))
      BY <1>1 DEF UpdateRead
    <2>2. quantity = old.quantity_allocated
      BY DEF FirstGiven
    <2>3. FirstCheck(old, status) = "write" => old.status = status
      BY DEF FirstCheck
    <2> HIDE DEF quantity
    <2> QED
      BY <2>1, <2>2, <2>3, DeskBegin
  <1>2. ASSUME NEW op \in {"update", "legacy"}, NEW id \in RowIds,
               NEW needed, NEW allocated, NEW status,
               UpdateRead(h, op, id, needed, allocated, status)
        PROVE  FALSE
    BY <1>2 DEF UpdateRead, ValidatedOnly
  <1>3. ASSUME NEW op \in {"checkout", "return"}, NEW id \in RowIds, MoveRead(h, op, id)
        PROVE  OutWithinStock' /\ ReadsCurrent'
    BY <1>3, DeskBegin DEF MoveRead
  <1>4. ASSUME NEW id \in RowIds, RemoveRead(h, id)
        PROVE  OutWithinStock' /\ ReadsCurrent'
    BY <1>4, DeskBegin DEF RemoveRead, OutStatuses, NoStatus
  <1>5. CASE ValidateOwnRow(h)
    <2> DEFINE new == [r EXCEPT !.pc = "others"]
    <2>1. UNCHANGED tables /\ r.pc \in RowSteps /\ (Become(h, new) \/ Answer(h))
      BY <1>5 DEF ValidateOwnRow, At, Goto, RowSteps
    <2>2. /\ new.pc = "others" /\ new.op = r.op /\ new.id = r.id
          /\ new.equipment = r.equipment /\ new.status = r.status /\ new.quantity = r.quantity
      BY <1>a DEF Request
    <2> HIDE DEF new
    <2>3. HoldsIn(show_equipment', equipment', new)
      BY <1>a, <2>1, <2>2 DEF HoldsIn, tables
    <2> QED
      BY <2>1, <2>3, OutKept, ReadsAfter, ReadsAfterAnswer DEF tables
  <1>6. CASE ValidateOthers(h)
    <2> DEFINE new == [r EXCEPT !.pc = "write"]
    <2>1. /\ UNCHANGED tables /\ r.pc \in RowSteps
          /\ \/ /\ Become(h, new)
                /\ OtherAllocationsAllow(r.equipment, r.id, r.status, r.quantity)
             \/ Answer(h)
      BY <1>6 DEF ValidateOthers, At, Goto, RowSteps
    <2>2. /\ new.pc = "write" /\ new.op = r.op /\ new.id = r.id
          /\ new.equipment = r.equipment /\ new.status = r.status /\ new.quantity = r.quantity
      BY <1>a DEF Request
    <2> HIDE DEF new
    <2>3. CASE Answer(h)
      BY <2>1, <2>3, OutKept, ReadsAfterAnswer DEF tables
    <2>4. CASE /\ Become(h, new)
               /\ OtherAllocationsAllow(r.equipment, r.id, r.status, r.quantity)
      <3>1. r.op # "remove"
        BY <1>a, <1>6 DEF ValidateOthers, At, RequestOK, RowSteps
      <3>2. /\ r.id \in DOMAIN show_equipment /\ r.equipment = row.equipment_id
            /\ r.quantity = row.quantity_allocated
        BY <1>a, <2>1, <3>1 DEF HoldsIn
      <3>3. r.status \in OutStatuses => RowFits(r.id)
        BY <2>4, <3>2, ValidatedFits
      <3>4. HoldsIn(show_equipment', equipment', new)
        BY <2>1, <2>2, <3>2, <3>3 DEF HoldsIn, RowFits, tables
      <3> QED
        BY <2>1, <2>4, <3>4, OutKept, ReadsAfter DEF tables
    <2> QED
      BY <2>1, <2>3, <2>4
  <1>7. CASE UpdateWrite(h)
    <2> DEFINE new == [row EXCEPT !.quantity_needed = Given(r.needed, @),
                                  !.quantity_allocated = Given(r.allocated, @),
                                  !.status = r.status]
    <2>1. /\ r.pc = "write" /\ r.op # "remove" /\ r.status \in ShowStatuses
          /\ r.needed = Omitted /\ r.allocated = Omitted
      BY <1>a, <1>7 DEF UpdateWrite, At, RequestOK, RowSteps, ValidatedOnly
    <2>2. /\ r.id \in DOMAIN show_equipment
          /\ r.status \in OutStatuses => row.status = r.status \/ RowFits(r.id)
      BY <1>a, <2>1 DEF HoldsIn, RowFits, RowSteps
    <2>3. row \in ShowEquipmentRow
      BY <2>2 DEF TypeOK, TablesTypeOK, IsTable
    <2>4. /\ new \in ShowEquipmentRow /\ new.status = r.status
          /\ new.equipment_id = row.equipment_id
          /\ new.quantity_allocated = row.quantity_allocated
      BY <2>1, <2>3 DEF ShowEquipmentRow, Given
    <2>5. /\ show_equipment' = Update(show_equipment, r.id, new)
          /\ equipment' = equipment /\ Answer(h)
      BY <1>7 DEF UpdateWrite
    <2> HIDE DEF new
    <2> QED
      BY <2>2, <2>4, <2>5, OutAfterWrite, ReadsAfterAnswer
  <1>8. CASE MoveWriteRow(h)
    <2> DEFINE new == [row EXCEPT !.status = r.status]
               next == [r EXCEPT !.pc = "equipment"]
    <2>1. r.pc = "write" /\ r.op # "remove" /\ r.status \in ShowStatuses
      BY <1>a, <1>8 DEF MoveWriteRow, At, RequestOK, RowSteps
    <2>2. /\ r.id \in DOMAIN show_equipment
          /\ r.equipment = row.equipment_id /\ r.quantity = row.quantity_allocated
          /\ r.status \in OutStatuses => row.status = r.status \/ RowFits(r.id)
      BY <1>a, <2>1 DEF HoldsIn, RowFits, RowSteps
    <2>3. row \in ShowEquipmentRow
      BY <2>2 DEF TypeOK, TablesTypeOK, IsTable
    <2>4. /\ new \in ShowEquipmentRow /\ new.status = r.status
          /\ new.equipment_id = row.equipment_id
          /\ new.quantity_allocated = row.quantity_allocated
      BY <2>1, <2>3 DEF ShowEquipmentRow
    <2>5. /\ show_equipment' = Update(show_equipment, r.id, new)
          /\ equipment' = equipment /\ Become(h, next)
      BY <1>8 DEF MoveWriteRow, Goto
    <2>6. /\ next.pc = "equipment" /\ next.op = r.op /\ next.id = r.id
          /\ next.equipment = r.equipment /\ next.quantity = r.quantity
      BY <1>a DEF Request
    <2> HIDE DEF new, next
    <2>7. r.id \in DOMAIN show_equipment' /\ show_equipment'[r.id] = new
      BY <2>2, <2>5 DEF Update
    <2>8. HoldsIn(show_equipment', equipment', next)
      BY <2>2, <2>4, <2>6, <2>7 DEF HoldsIn
    <2> QED
      BY <2>2, <2>4, <2>5, <2>8, OutAfterWrite, ReadsAfter
  <1>9. CASE MoveWriteEquipment(h)
    <2>1. /\ show_equipment' = show_equipment /\ Answer(h)
          /\ equipment' = [equipment EXCEPT ![r.equipment].status = StatusAfter(r.op)]
      BY <1>9 DEF MoveWriteEquipment
    <2>2. \A e \in Equipment : equipment'[e].quantity = equipment[e].quantity
      BY <2>1 DEF TypeOK, TablesTypeOK, EquipmentRow
    <2>3. OutWithinStock'
      BY <2>1, <2>2 DEF OutWithinStock
    <2> QED
      BY <2>1, <2>3, ReadsAfterAnswer
  <1>10. CASE RemoveWrite(h)
    BY <1>10, OutAfterDelete, ReadsAfterAnswer DEF RemoveWrite
  <1> QED
    BY <1>1, <1>2, <1>3, <1>4, <1>5, <1>6, <1>7, <1>8, <1>9, <1>10 DEF ChangeRow

LEMMA DeskInit == Init => DeskInv
  <1> SUFFICES ASSUME Init PROVE DeskInv
    OBVIOUS
  <1>1. TypeOK
    BY TypeInit
  <1>2. ReadsCurrent
    BY DEF Init, ReadsCurrent, Idle, RowSteps
  <1>3. OutWithinStock
    <2> SUFFICES ASSUME NEW e \in Equipment
                 PROVE  SumAllocated(show_equipment, e, OutStatuses) <= equipment[e].quantity
      BY DEF OutWithinStock
    <2>1. Units(show_equipment, e, OutStatuses) = {}
      BY DEF Init, Units
    <2>2. SumAllocated(show_equipment, e, OutStatuses) = 0
      BY <2>1, FS_EmptySet DEF SumAllocated
    <2> QED
      BY <1>1, <2>2, StockType
  <1> QED
    BY <1>1, <1>2, <1>3 DEF DeskInv

LEMMA DeskNext ==
  ASSUME OneAtATime, ValidatedOnly, DeskInv, [Next]_vars
  PROVE  DeskInv'
  <1>1. TypeOK'
    BY TypeNext DEF DeskInv
  <1>2. OutWithinStock' /\ ReadsCurrent'
    <2>1. CASE UNCHANGED vars
      BY <2>1 DEF DeskInv, vars, tables, OutWithinStock, ReadsCurrent, RowFits
    <2>2. ASSUME NEW h \in Handlers, QueryFails(h)
          PROVE  OutWithinStock' /\ ReadsCurrent'
      BY <2>2, OutKept, ReadsAfterAnswer DEF QueryFails, DeskInv, tables
    <2> QED
      BY <2>1, <2>2, DeskAdd, DeskChangeRow, DeskDeleteShow DEF Next
  <1> QED
    BY <1>1, <1>2 DEF DeskInv

(* One request at a time and no endpoint that writes quantities: the units  *)
(* handed out never exceed the stock, even when statements fail.           *)
THEOREM OutCorrect ==
  ASSUME OneAtATime, ValidatedOnly
  PROVE  Spec => []OutWithinStock
  <1>1. DeskInv /\ [Next]_vars => DeskInv'
    BY DeskNext
  <1>2. DeskInv => OutWithinStock
    BY DEF DeskInv
  <1> QED
    BY <1>1, <1>2, DeskInit, PTL DEF Spec

-----------------------------------------------------------------------------
(***************************************************************************)
(* One request at a time, whichever endpoints are used.  FreshIn says, for *)
(* given tables, that what the request at work has found out still holds;  *)
(* with it, what each step does to the tables has one of five forms.       *)
(***************************************************************************)
FreshIn(se, sh, r) ==
    /\ r.pc \in AddSteps => r.show \in sh
    /\ r.pc = "destroy" => r.show \in Shows /\ \A k \in DOMAIN se : se[k].show_id # r.show
    /\ r.pc \in RowSteps => r.id \in DOMAIN se
    /\ r.pc = "write" /\ r.op = "remove" => se[r.id].status \notin OutStatuses
    /\ r.pc \in {"others", "write"} /\ r.op # "remove" =>
          r.status = se[r.id].status \/ OwnRowAllows(se[r.id], r.status)

ReadsFresh == \A h \in Handlers : FreshIn(show_equipment, shows, requests[h])

SerialInv == TypeOK /\ ReadsFresh

NothingWritten == UNCHANGED <<show_equipment, shows>>

RowAdded ==
    /\ shows' = shows
    /\ \E k \in RowIds \ DOMAIN show_equipment, row \in ShowEquipmentRow :
          /\ row.status = "allocated" /\ row.show_id \in shows
          /\ show_equipment' = Insert(show_equipment, k, row)

RowChanged ==
    /\ shows' = shows
    /\ \E k \in DOMAIN show_equipment, row \in ShowEquipmentRow :
          LET old == show_equipment[k] IN
          /\ row.show_id = old.show_id /\ row.equipment_id = old.equipment_id
          /\ ValidatedOnly => row.quantity_allocated = old.quantity_allocated
          /\ row.status = old.status \/ OwnRowAllows(old, row.status)
          /\ show_equipment' = Update(show_equipment, k, row)

RowRemoved ==
    /\ shows' = shows
    /\ \E k \in DOMAIN show_equipment :
          /\ show_equipment[k].status \notin OutStatuses
          /\ show_equipment' = DeleteRows(show_equipment, {k})

ShowRemoved ==
    /\ show_equipment' = show_equipment
    /\ \E s \in Shows : RowsOf(s) = {} /\ shows' = shows \ {s}

TableStep == NothingWritten \/ RowAdded \/ RowChanged \/ RowRemoved \/ ShowRemoved

LEMMA FreshNow ==
  ASSUME SerialInv, NEW h \in Handlers
  PROVE  /\ FreshIn(show_equipment, shows, requests[h])
         /\ RequestOK(requests[h]) /\ requests[h] \in Request
  BY DEF SerialInv, ReadsFresh, TypeOK

LEMMA FreshAfter ==
  ASSUME TypeOK, OneAtATime, NEW h \in Handlers, NEW r, Become(h, r),
         FreshIn(show_equipment', shows', r)
  PROVE  ReadsFresh'
  <1>1. \A g \in Handlers : requests'[g] = r
    BY DEF Become, OneAtATime, TypeOK
  <1> QED
    BY <1>1 DEF ReadsFresh, FreshIn

LEMMA FreshAfterAnswer ==
  ASSUME TypeOK, OneAtATime, NEW h \in Handlers, Answer(h)
  PROVE  ReadsFresh'
  <1>1. FreshIn(show_equipment', shows', Idle)
    BY DEF FreshIn, Idle, RowSteps, AddSteps
  <1> QED
    BY <1>1, FreshAfter DEF Answer

LEMMA SerialAdd ==
  ASSUME SerialInv, OneAtATime, NEW h \in Handlers, Add(h)
  PROVE  ReadsFresh' /\ TableStep
  <1> USE DEF SerialInv
  <1> DEFINE r == requests[h]
  <1>0. FreshIn(show_equipment, shows, r) /\ RequestOK(r) /\ r \in Request
    BY FreshNow
  <1>1. ASSUME NEW s \in Shows, NEW e \in Equipment, NEW n \in 1..MaxQuantity,
               AddFindShow(h, s, e, n)
        PROVE  ReadsFresh' /\ TableStep
    <2> DEFINE new == [Idle EXCEPT !.pc = "existing", !.op = "add", !.show = s,
                                   !.equipment = e, !.needed = n]
    <2>1. /\ new.pc = "existing" /\ new.show = s /\ s \in shows
          /\ Become(h, new) /\ UNCHANGED tables
      BY <1>1 DEF AddFindShow, Idle
    <2> HIDE DEF new
    <2>2. FreshIn(show_equipment', shows', new)
      BY <2>1 DEF FreshIn, RowSteps, tables
    <2> QED
      BY <2>1, <2>2, FreshAfter DEF TableStep, NothingWritten, tables
  <1>2. ASSUME NEW new, r.pc \in AddSteps, Become(h, new), UNCHANGED tables,
               new.pc \in AddSteps, new.show = r.show
        PROVE  ReadsFresh' /\ TableStep
    <2>1. FreshIn(show_equipment', shows', new)
      BY <1>0, <1>2 DEF FreshIn, AddSteps, RowSteps, tables
    <2> QED
      BY <1>2, <2>1, FreshAfter DEF TableStep, NothingWritten, tables
  <1>3. ASSUME Answer(h), UNCHANGED tables
        PROVE  ReadsFresh' /\ TableStep
    BY <1>3, FreshAfterAnswer DEF TableStep, NothingWritten, tables
  <1>4. CASE AddFindExisting(h)
    <2> DEFINE new == [r EXCEPT !.pc = "show_sum"]
    <2>1. new.pc = "show_sum" /\ new.show = r.show
      BY <1>0 DEF Request
    <2>2. r.pc = "existing" /\ UNCHANGED tables /\ (Answer(h) \/ Become(h, new))
      BY <1>4 DEF AddFindExisting, At, Goto
    <2> HIDE DEF new
    <2> QED
      BY <1>2, <1>3, <2>1, <2>2 DEF AddSteps
  <1>5. CASE AddSumShows(h)
    <2>1. PICK sum \in Sums(show_equipment, r.equipment) :
            Become(h, [r EXCEPT !.pc = "inventory_sum",
                                !.quantity = Uninstalled(r.equipment) - sum])
      BY <1>5 DEF AddSumShows
    <2> DEFINE new == [r EXCEPT !.pc = "inventory_sum",
                                !.quantity = Uninstalled(r.equipment) - sum]
    <2>2. new.pc = "inventory_sum" /\ new.show = r.show
      BY <1>0 DEF Request
    <2>3. r.pc = "show_sum" /\ UNCHANGED tables /\ Become(h, new)
      BY <1>5, <2>1 DEF AddSumShows, At
    <2> HIDE DEF new
    <2> QED
      BY <1>2, <2>2, <2>3 DEF AddSteps
  <1>6. CASE AddSumInventory(h)
    <2> DEFINE new == [r EXCEPT !.pc = "insert"]
    <2>1. new.pc = "insert" /\ new.show = r.show
      BY <1>0 DEF Request
    <2>2. r.pc = "inventory_sum" /\ UNCHANGED tables /\ (Answer(h) \/ Become(h, new))
      BY <1>6 DEF AddSumInventory, At, Goto
    <2> HIDE DEF new
    <2> QED
      BY <1>2, <1>3, <2>1, <2>2 DEF AddSteps
  <1>7. CASE AddInsert(h)
    <2> DEFINE id == auto_increment + 1
               row == [show_id |-> r.show, equipment_id |-> r.equipment,
                       quantity_needed |-> r.needed, quantity_allocated |-> r.needed,
                       status |-> "allocated"]
    <2>1. /\ Answer(h) /\ shows' = shows
          /\ \/ show_equipment' = show_equipment
             \/ auto_increment < MaxRows /\ show_equipment' = Insert(show_equipment, id, row)
      BY <1>7 DEF AddInsert
    <2>2. row \in ShowEquipmentRow
      BY <1>0, <1>7, TablesAssumption
      DEF AddInsert, At, RequestOK, AddSteps, ShowEquipmentRow, ShowStatuses, Quantities
    <2>3. row.status = "allocated" /\ row.show_id \in shows
      BY <1>0, <1>7 DEF AddInsert, At, FreshIn, AddSteps
    <2> HIDE DEF row
    <2>4. auto_increment < MaxRows => id \in RowIds \ DOMAIN show_equipment
      BY TablesAssumption DEF TypeOK, RowIds
    <2> HIDE DEF id
    <2>5. TableStep
      BY <2>1, <2>2, <2>3, <2>4 DEF TableStep, NothingWritten, RowAdded
    <2> QED
      BY <2>1, <2>5, FreshAfterAnswer
  <1> QED
    BY <1>1, <1>4, <1>5, <1>6, <1>7 DEF Add

LEMMA SerialBegin ==
  ASSUME SerialInv, OneAtATime, NEW h \in Handlers, NEW op, NEW id \in DOMAIN show_equipment,
         NEW needed, NEW allocated, NEW status, NEW quantity, NEW pc \in {"own", "write"},
         Begin(h, op, id, needed, allocated, status, quantity, pc), UNCHANGED tables,
         pc = "write" => IF op = "remove" THEN show_equipment[id].status \notin OutStatuses
                                          ELSE show_equipment[id].status = status
  PROVE  ReadsFresh' /\ TableStep
  <1> USE DEF SerialInv
  <1> DEFINE e == show_equipment[id].equipment_id
             new == [Idle EXCEPT !.pc = pc, !.op = op, !.id = id, !.equipment = e,
                                 !.needed = needed, !.allocated = allocated,
                                 !.status = status, !.quantity = quantity]
  <1>1. /\ new.pc = pc /\ new.op = op /\ new.id = id /\ new.status = status
    BY DEF Idle
  <1>2. Become(h, new)
    BY DEF Begin
  <1> HIDE DEF new
  <1>3. FreshIn(show_equipment', shows', new)
    BY <1>1 DEF FreshIn, AddSteps, tables
  <1> QED
    BY <1>2, <1>3, FreshAfter DEF TableStep, NothingWritten, tables

LEMMA SerialChangeRow ==
  ASSUME SerialInv, OneAtATime, NEW h \in Handlers, ChangeRow(h)
  PROVE  ReadsFresh' /\ TableStep
  <1> USE DEF SerialInv
  <1> DEFINE r == requests[h]
             row == show_equipment[r.id]
  <1>0. FreshIn(show_equipment, shows, r) /\ RequestOK(r) /\ r \in Request
    BY FreshNow
  <1>a. ASSUME NEW op \in {"update_status", "update", "legacy"}, NEW id \in RowIds,
               NEW needed, NEW allocated, NEW status,
               UpdateRead(h, op, id, needed, allocated, status)
        PROVE  ReadsFresh' /\ TableStep
    <2> DEFINE old == show_equipment[id]
               quantity == IF op = "legacy"
                             THEN FirstGiven(allocated, needed, old.quantity_allocated)
                             ELSE FirstGiven(needed, Omitted, old.quantity_allocated)
    <2>1. /\ id \in DOMAIN show_equipment /\ UNCHANGED tables
          /\ Begin(h, op, id, needed, allocated, status, quantity, FirstCheck(old, status))
      BY <1>a DEF UpdateRead
    <2>2. /\ FirstCheck(old, status) \in {"own", "write"}
          /\ FirstCheck(old, status) = "write" => old.status = status
      BY DEF FirstCheck
    <2> HIDE DEF quantity
    <2> QED
      BY <1>a, <2>1, <2>2, SerialBegin
  <1>b. ASSUME Answer(h), UNCHANGED <<shows, show_equipment>>
        PROVE  ReadsFresh' /\ TableStep
    BY <1>b, FreshAfterAnswer DEF TableStep, NothingWritten
  <1>3. ASSUME NEW op \in {"checkout", "return"}, NEW id \in RowIds, MoveRead(h, op, id)
        PROVE  ReadsFresh' /\ TableStep
    BY <1>3, SerialBegin DEF MoveRead
  <1>4. ASSUME NEW id \in RowIds, RemoveRead(h, id)
        PROVE  ReadsFresh' /\ TableStep
    BY <1>4, SerialBegin DEF RemoveRead
  <1>5. CASE ValidateOwnRow(h)
    <2> DEFINE new == [r EXCEPT !.pc = "others"]
    <2>1. /\ UNCHANGED tables /\ r.pc = "own"
          /\ \/ Become(h, new) /\ (r.id \in DOMAIN show_equipment => OwnRowAllows(row, r.status))
             \/ Answer(h)
      BY <1>5 DEF ValidateOwnRow, At, Goto
    <2>2. new.pc = "others" /\ new.op = r.op /\ new.id = r.id /\ new.status = r.status
      BY <1>0 DEF Request
    <2> HIDE DEF new
    <2>3. CASE Become(h, new) /\ (r.id \in DOMAIN show_equipment => OwnRowAllows(row, r.status))
      <3>1. FreshIn(show_equipment', shows', new)
        BY <1>0, <2>1, <2>2, <2>3 DEF FreshIn, RowSteps, AddSteps, tables
      <3> QED
        BY <2>1, <2>3, <3>1, FreshAfter DEF TableStep, NothingWritten, tables
    <2> QED
      BY <1>b, <2>1, <2>3 DEF tables
  <1>6. CASE ValidateOthers(h)
    <2> DEFINE new == [r EXCEPT !.pc = "write"]
    <2>1. UNCHANGED tables /\ r.pc = "others" /\ (Become(h, new) \/ Answer(h))
      BY <1>6 DEF ValidateOthers, At, Goto
    <2>2. new.pc = "write" /\ new.op = r.op /\ new.id = r.id /\ new.status = r.status
      BY <1>0 DEF Request
    <2>3. r.op # "remove"
      BY <1>0, <2>1 DEF RequestOK, RowSteps
    <2> HIDE DEF new
    <2>4. CASE Become(h, new)
      <3>1. FreshIn(show_equipment', shows', new)
        BY <1>0, <2>1, <2>2, <2>3 DEF FreshIn, RowSteps, AddSteps, tables
      <3> QED
        BY <2>1, <2>4, <3>1, FreshAfter DEF TableStep, NothingWritten, tables
    <2> QED
      BY <1>b, <2>1, <2>4 DEF tables
  <1>7. CASE UpdateWrite(h)
    <2> DEFINE new == [row EXCEPT !.quantity_needed = Given(r.needed, @),
                                  !.quantity_allocated = Given(r.allocated, @),
                                  !.status = r.status]
    <2>1. /\ r.pc = "write" /\ r.op # "remove" /\ r.status \in ShowStatuses
          /\ r.needed \in Quantities \cup {Omitted} /\ r.allocated \in Quantities \cup {Omitted}
          /\ r.op \in Endpoints
          /\ r.op \notin {"update", "legacy"} => r.allocated = Omitted
      BY <1>0, <1>7 DEF UpdateWrite, At, RequestOK, RowSteps, Request
    <2>2. /\ r.id \in DOMAIN show_equipment
          /\ r.status = row.status \/ OwnRowAllows(row, r.status)
      BY <1>0, <2>1 DEF FreshIn, RowSteps
    <2>3. row \in ShowEquipmentRow
      BY <2>2 DEF TypeOK, TablesTypeOK, IsTable
    <2>4. /\ new \in ShowEquipmentRow /\ new.status = r.status
          /\ new.show_id = row.show_id /\ new.equipment_id = row.equipment_id
          /\ ValidatedOnly => new.quantity_allocated = row.quantity_allocated
      BY <2>1, <2>3 DEF ShowEquipmentRow, Given, ValidatedOnly
    <2>5. /\ show_equipment' = Update(show_equipment, r.id, new)
          /\ shows' = shows /\ Answer(h)
      BY <1>7 DEF UpdateWrite
    <2> HIDE DEF new
    <2>6. RowChanged
      BY <2>2, <2>4, <2>5 DEF RowChanged
    <2> QED
      BY <2>5, <2>6, FreshAfterAnswer DEF TableStep
  <1>8. CASE MoveWriteRow(h)
    <2> DEFINE new == [row EXCEPT !.status = r.status]
               next == [r EXCEPT !.pc = "equipment"]
    <2>1. r.pc = "write" /\ r.op # "remove" /\ r.status \in ShowStatuses
      BY <1>0, <1>8 DEF MoveWriteRow, At, RequestOK, RowSteps
    <2>2. /\ r.id \in DOMAIN show_equipment
          /\ r.status = row.status \/ OwnRowAllows(row, r.status)
      BY <1>0, <2>1 DEF FreshIn, RowSteps
    <2>3. row \in ShowEquipmentRow
      BY <2>2 DEF TypeOK, TablesTypeOK, IsTable
    <2>4. /\ new \in ShowEquipmentRow /\ new.status = r.status
          /\ new.show_id = row.show_id /\ new.equipment_id = row.equipment_id
          /\ new.quantity_allocated = row.quantity_allocated
      BY <2>1, <2>3 DEF ShowEquipmentRow
    <2>5. /\ show_equipment' = Update(show_equipment, r.id, new)
          /\ shows' = shows /\ Become(h, next)
      BY <1>8 DEF MoveWriteRow, Goto
    <2>6. next.pc = "equipment" /\ next.id = r.id
      BY <1>0 DEF Request
    <2> HIDE DEF new, next
    <2>7. RowChanged
      BY <2>2, <2>4, <2>5 DEF RowChanged
    <2>8. FreshIn(show_equipment', shows', next)
      BY <2>2, <2>5, <2>6 DEF FreshIn, AddSteps, Update
    <2> QED
      BY <2>5, <2>7, <2>8, FreshAfter DEF TableStep
  <1>9. CASE MoveWriteEquipment(h)
    BY <1>9, <1>b DEF MoveWriteEquipment
  <1>10. CASE RemoveWrite(h)
    <2>1. /\ r.pc = "write" /\ r.op = "remove" /\ shows' = shows
          /\ show_equipment' = DeleteRows(show_equipment, {r.id}) /\ Answer(h)
      BY <1>10 DEF RemoveWrite, At
    <2>2. r.id \in DOMAIN show_equipment /\ row.status \notin OutStatuses
      BY <1>0, <2>1 DEF FreshIn, RowSteps
    <2> QED
      BY <2>1, <2>2, FreshAfterAnswer DEF TableStep, RowRemoved
  <1>11. ASSUME NEW id \in RowIds, NEW status \in ShowStatuses,
                UpdateRead(h, "update_status", id, Omitted, Omitted, status)
         PROVE  ReadsFresh' /\ TableStep
    BY <1>11, <1>a
  <1>12. ASSUME NEW op \in {"update", "legacy"}, NEW id \in RowIds,
                NEW needed, NEW allocated, NEW status,
                UpdateRead(h, op, id, needed, allocated, status)
         PROVE  ReadsFresh' /\ TableStep
    BY <1>12, <1>a
  <1> QED
    BY <1>3, <1>4, <1>5, <1>6, <1>7, <1>8, <1>9, <1>10, <1>11, <1>12 DEF ChangeRow

LEMMA SerialDeleteShow ==
  ASSUME SerialInv, OneAtATime, NEW h \in Handlers, DeleteShow(h)
  PROVE  ReadsFresh' /\ TableStep
  <1> USE DEF SerialInv
  <1> DEFINE r == requests[h]
  <1>0. FreshIn(show_equipment, shows, r)
    BY FreshNow
  <1>1. ASSUME NEW s \in Shows, DeleteShowRead(h, s)
        PROVE  ReadsFresh' /\ TableStep
    <2> DEFINE new == [Idle EXCEPT !.pc = "destroy", !.op = "delete_show", !.show = s]
    <2>1. Become(h, new) /\ UNCHANGED tables /\ RowsOf(s) = {}
      BY <1>1 DEF DeleteShowRead
    <2>2. new.pc = "destroy" /\ new.show = s
      BY DEF Idle
    <2> HIDE DEF new
    <2>3. FreshIn(show_equipment', shows', new)
      BY <2>1, <2>2 DEF FreshIn, RowSteps, AddSteps, RowsOf, tables
    <2> QED
      BY <2>1, <2>3, FreshAfter DEF TableStep, NothingWritten, tables
  <1>2. CASE DeleteShowWrite(h)
    <2>1. /\ r.pc = "destroy" /\ Answer(h) /\ shows' = shows \ {r.show}
          /\ \/ show_equipment' = show_equipment
             \/ show_equipment' = DeleteRows(show_equipment, RowsOf(r.show))
      BY <1>2 DEF DeleteShowWrite, At
    <2>2. RowsOf(r.show) = {} /\ r.show \in Shows
      BY <1>0, <2>1 DEF FreshIn, RowsOf
    <2>3. DeleteRows(show_equipment, {}) = show_equipment
      BY DEF DeleteRows, TypeOK, TablesTypeOK, IsTable
    <2> QED
      BY <2>1, <2>2, <2>3, FreshAfterAnswer DEF TableStep, ShowRemoved
  <1> QED
    BY <1>1, <1>2 DEF DeleteShow

LEMMA SerialInit == Init => SerialInv
  <1>1. Init => TypeOK
    BY TypeInit
  <1>2. Init => ReadsFresh
    BY DEF Init, ReadsFresh, FreshIn, Idle, AddSteps, RowSteps
  <1> QED
    BY <1>1, <1>2 DEF SerialInv

LEMMA SerialStep ==
  ASSUME OneAtATime, SerialInv, [Next]_vars
  PROVE  SerialInv' /\ TableStep
  <1>1. TypeOK'
    BY TypeNext DEF SerialInv
  <1>2. ReadsFresh' /\ TableStep
    <2>1. CASE UNCHANGED vars
      BY <2>1 DEF SerialInv, vars, tables, ReadsFresh, TableStep, NothingWritten
    <2>2. ASSUME NEW h \in Handlers, QueryFails(h)
          PROVE  ReadsFresh' /\ TableStep
      BY <2>2, FreshAfterAnswer DEF QueryFails, SerialInv, TableStep, NothingWritten, tables
    <2> QED
      BY <2>1, <2>2, SerialAdd, SerialChangeRow, SerialDeleteShow DEF Next
  <1> QED
    BY <1>1, <1>2 DEF SerialInv

-----------------------------------------------------------------------------
(* Deleting a show leaves no row behind: the migrated schema cascades, and  *)
(* without its keys one request at a time finds no rows when it looks.     *)
THEOREM NoDanglingRowsLeft ==
  ASSUME MigratedSchema \/ OneAtATime
  PROVE  Spec => []NoDanglingRows
  <1>1. CASE MigratedSchema
    BY <1>1, KeysHold, PTL
  <1>2. CASE OneAtATime
    <2>1. Init => SerialInv /\ NoDanglingRows
      BY SerialInit DEF Init, NoDanglingRows
    <2>2. (SerialInv /\ NoDanglingRows) /\ [Next]_vars => (SerialInv /\ NoDanglingRows)'
      <3> SUFFICES ASSUME SerialInv, NoDanglingRows, [Next]_vars
                   PROVE  SerialInv' /\ NoDanglingRows'
        OBVIOUS
      <3>1. SerialInv' /\ TableStep
        BY <1>2, SerialStep
      <3>2. NoDanglingRows'
        BY <3>1 DEF TableStep, NothingWritten, RowAdded, RowChanged, RowRemoved, ShowRemoved,
                    NoDanglingRows, Insert, Update, DeleteRows, RowsOf
      <3> QED
        BY <3>1, <3>2
    <2> QED
      BY <2>1, <2>2, PTL DEF Spec
  <1> QED
    BY <1>1, <1>2

(* One request at a time, whichever endpoint it uses: a row is returned only *)
(* from the statuses of rows that are out, and in use only from checked    *)
(* out.                                                                    *)
THEOREM WorkflowHolds ==
  ASSUME OneAtATime
  PROVE  Spec => WorkflowRespected
  <1> DEFINE Workflow ==
        \A k \in DOMAIN show_equipment \cap DOMAIN show_equipment' :
          LET old == show_equipment[k].status
              new == show_equipment'[k].status
          IN  old # new =>
                 /\ new = "returned" => old \in OutStatuses
                 /\ new = "in-use" => old = "checked-out"
  <1>1. SerialInv /\ [Next]_vars => SerialInv' /\ TableStep
    BY SerialStep
  <1>2. ASSUME SerialInv, TableStep
        PROVE  Workflow
    <2>1. CASE RowAdded
      BY <2>1 DEF RowAdded, Insert
    <2>2. CASE RowChanged
      BY <2>2 DEF RowChanged, Update, OwnRowAllows
    <2>3. CASE NothingWritten \/ RowRemoved \/ ShowRemoved
      BY <2>3 DEF NothingWritten, RowRemoved, ShowRemoved, DeleteRows
    <2> QED
      BY <1>2, <2>1, <2>2, <2>3 DEF TableStep
  <1>3. SerialInv /\ [Next]_vars => [Workflow]_vars
    BY <1>1, <1>2
  <1> HIDE DEF Workflow
  <1>4. Spec => [][Workflow]_vars
    BY <1>1, <1>3, SerialInit, PTL DEF Spec
  <1> QED
    BY <1>4 DEF Workflow, WorkflowRespected

(* One request at a time: no handler deletes a row whose units are out. *)
THEOREM OutRowsStay ==
  ASSUME OneAtATime
  PROVE  Spec => NoOutRowDeleted
  <1> DEFINE Kept == \A k \in DOMAIN show_equipment \ DOMAIN show_equipment' :
                        show_equipment[k].status \notin OutStatuses
  <1>1. SerialInv /\ [Next]_vars => SerialInv' /\ TableStep
    BY SerialStep
  <1>2. ASSUME TableStep
        PROVE  Kept
    BY <1>2 DEF TableStep, NothingWritten, RowAdded, RowChanged, RowRemoved, ShowRemoved,
                Insert, Update, DeleteRows
  <1>3. SerialInv /\ [Next]_vars => [Kept]_vars
    BY <1>1, <1>2
  <1> HIDE DEF Kept
  <1>4. Spec => [][Kept]_vars
    BY <1>1, <1>3, SerialInit, PTL DEF Spec
  <1> QED
    BY <1>4 DEF Kept, NoOutRowDeleted

-----------------------------------------------------------------------------
(***************************************************************************)
(* One request at a time and no statement that fails: what was free when   *)
(* the sums were taken is free when the row is inserted.  A sum that fails *)
(* counts as nothing, and then it need not be.                             *)
(***************************************************************************)
SumsCurrent ==
    \A h \in Handlers :
        LET r == requests[h] IN
        /\ r.pc = "inventory_sum" =>
              r.quantity = Uninstalled(r.equipment)
                             - SumAllocated(show_equipment, r.equipment, unavailableStatuses)
        /\ r.pc = "insert" => r.needed + Unavailable(r.equipment) <= equipment[r.equipment].quantity

(* After an INSERT a sum is at most that of the old rows and the new row. *)
LEMMA SumAfterInsert ==
  ASSUME NEW T, IsTable(T, ShowEquipmentRow), NEW id \in RowIds, id \notin DOMAIN T,
         NEW row \in ShowEquipmentRow, NEW S
  PROVE  SumAllocated(Insert(T, id, row), row.equipment_id, S)
            <= SumAllocated(T, row.equipment_id, S) + row.quantity_allocated
  <1> DEFINE U == Insert(T, id, row)
  <1>1. IsTable(U, ShowEquipmentRow)
    BY DEF IsTable, Insert
  <1>2. Update(U, id, row) = U
    BY DEF Update, Insert
  <1>3. OtherRows(U, id) = T
    BY DEF OtherRows, DeleteRows, Insert, IsTable
  <1> HIDE DEF U
  <1> QED
    BY <1>1, <1>2, <1>3, SumAfterUpdate DEF U

LEMMA SumsAfter ==
  ASSUME TypeOK, OneAtATime, NEW h \in Handlers, NEW r, Become(h, r),
         r.pc \notin {"inventory_sum", "insert"}
  PROVE  SumsCurrent'
  <1>1. \A g \in Handlers : requests'[g] = r
    BY DEF Become, OneAtATime, TypeOK
  <1> QED
    BY <1>1 DEF SumsCurrent

LEMMA SumsAfterAnswer ==
  ASSUME TypeOK, OneAtATime, NEW h \in Handlers, Answer(h)
  PROVE  SumsCurrent'
  BY SumsAfter DEF Answer, Idle

LEMMA SumsAfterGoto ==
  ASSUME TypeOK, OneAtATime, NEW h \in Handlers, NEW pc \in Steps \ {"inventory_sum", "insert"},
         Goto(h, pc)
  PROVE  SumsCurrent'
  <1> DEFINE new == [requests[h] EXCEPT !.pc = pc]
  <1>1. new.pc = pc /\ Become(h, new)
    BY DEF Goto, TypeOK, Request
  <1> HIDE DEF new
  <1> QED
    BY <1>1, SumsAfter

LEMMA SumsAfterBegin ==
  ASSUME TypeOK, OneAtATime, NEW h \in Handlers, NEW op, NEW id, NEW needed, NEW allocated,
         NEW status, NEW quantity, NEW pc \in {"own", "write"},
         Begin(h, op, id, needed, allocated, status, quantity, pc)
  PROVE  SumsCurrent'
  <1> DEFINE e == show_equipment[id].equipment_id
             new == [Idle EXCEPT !.pc = pc, !.op = op, !.id = id, !.equipment = e,
                                 !.needed = needed, !.allocated = allocated,
                                 !.status = status, !.quantity = quantity]
  <1>1. new.pc = pc /\ Become(h, new)
    BY DEF Idle, Begin
  <1> HIDE DEF new
  <1> QED
    BY <1>1, SumsAfter

(* The units of an item in numbers *)
LEMMA UnitsOf ==
  ASSUME TypeOK, NEW e \in Equipment
  PROVE  /\ equipment[e].quantity \in Nat /\ equipment[e].installation_quantity \in Nat
         /\ SumAllocated(show_equipment, e, unavailableStatuses) \in Nat
         /\ SumAllocated(inventory_allocation, e, unavailableStatuses) \in Nat
  <1>1. equipment[e] \in EquipmentRow
    BY DEF TypeOK, TablesTypeOK
  <1> QED
    BY <1>1, UnitsFinite, TablesAssumption DEF TypeOK, TablesTypeOK, EquipmentRow, Quantities

LEMMA SumsKept ==
  ASSUME TypeOK, SumsCurrent, OneAtATime, ~QueriesMayFail, [Next]_vars
  PROVE  SumsCurrent'
  <1>1. CASE UNCHANGED vars
    BY <1>1 DEF vars, tables, SumsCurrent, Uninstalled, Unavailable
  <1>2. ASSUME NEW h \in Handlers, Add(h)
        PROVE  SumsCurrent'
    <2> DEFINE r == requests[h]
               e == r.equipment
    <2>0. r \in Request /\ RequestOK(r)
      BY DEF TypeOK
    <2>1. ASSUME NEW s \in Shows, NEW eq \in Equipment, NEW n \in 1..MaxQuantity, AddFindShow(h, s, eq, n)
          PROVE  SumsCurrent'
      <3> DEFINE new == [Idle EXCEPT !.pc = "existing", !.op = "add", !.show = s,
                                     !.equipment = eq, !.needed = n]
      <3>1. new.pc = "existing" /\ Become(h, new)
        BY <2>1 DEF AddFindShow, Idle
      <3> HIDE DEF new
      <3> QED
        BY <3>1, SumsAfter
    <2>2. CASE AddFindExisting(h)
      BY <2>2, SumsAfterAnswer, SumsAfterGoto DEF AddFindExisting, Steps
    <2>3. CASE AddSumShows(h)
      <3> DEFINE sum == SumAllocated(show_equipment, e, unavailableStatuses)
                 new == [r EXCEPT !.pc = "inventory_sum", !.quantity = Uninstalled(e) - sum]
      <3>1. Become(h, new) /\ UNCHANGED tables
        BY <2>3 DEF AddSumShows, Sums
      <3>2. new.pc = "inventory_sum" /\ new.quantity = Uninstalled(e) - sum /\ new.equipment = e
        BY <2>0 DEF Request
      <3> HIDE DEF new
      <3>3. \A g \in Handlers : requests'[g] = new
        BY <3>1 DEF Become, OneAtATime, TypeOK
      <3> QED
        BY <3>1, <3>2, <3>3 DEF SumsCurrent, Uninstalled, tables
    <2>4. CASE AddSumInventory(h)
      <3> DEFINE sum == SumAllocated(inventory_allocation, e, unavailableStatuses)
                 new == [r EXCEPT !.pc = "insert"]
      <3>1. /\ UNCHANGED tables /\ r.pc = "inventory_sum"
            /\ \/ Answer(h)
               \/ Become(h, new) /\ ~(NonNegative(r.quantity - sum) < r.needed)
        BY <2>4 DEF AddSumInventory, Sums, At, Goto
      <3>2. new.pc = "insert" /\ new.equipment = e /\ new.needed = r.needed
        BY <2>0 DEF Request
      <3>3. e \in Equipment /\ r.needed \in 1..MaxQuantity
        BY <2>0, <3>1 DEF RequestOK, AddSteps
      <3> HIDE DEF new
      <3>4. CASE Become(h, new) /\ ~(NonNegative(r.quantity - sum) < r.needed)
        <4>1. \A g \in Handlers : requests'[g] = new
          BY <3>4 DEF Become, OneAtATime, TypeOK
        <4>2. r.quantity = equipment[e].quantity - equipment[e].installation_quantity
                             - SumAllocated(show_equipment, e, unavailableStatuses)
          BY <3>1 DEF SumsCurrent, Uninstalled
        <4>3. r.needed <= r.quantity - sum
          BY <3>3, <3>4, <4>2, UnitsOf, TablesAssumption DEF NonNegative
        <4>4. r.needed + Unavailable(e) <= equipment[e].quantity
          BY <3>3, <4>2, <4>3, UnitsOf DEF Unavailable
        <4> QED
          BY <3>1, <3>2, <4>1, <4>4 DEF SumsCurrent, Unavailable, tables
      <3> QED
        BY <3>1, <3>4, SumsAfterAnswer
    <2>5. CASE AddInsert(h)
      BY <2>5, SumsAfterAnswer DEF AddInsert
    <2> QED
      BY <1>2, <2>1, <2>2, <2>3, <2>4, <2>5 DEF Add
  <1>3. ASSUME NEW h \in Handlers, ChangeRow(h)
        PROVE  SumsCurrent'
    <2>1. ASSUME NEW op, NEW id, NEW needed, NEW allocated, NEW status,
                 UpdateRead(h, op, id, needed, allocated, status)
          PROVE  SumsCurrent'
      <3>1. FirstCheck(show_equipment[id], status) \in {"own", "write"}
        BY DEF FirstCheck
      <3> QED
        BY <2>1, <3>1, SumsAfterBegin DEF UpdateRead
    <2>2. ASSUME NEW op, NEW id, MoveRead(h, op, id)
          PROVE  SumsCurrent'
      BY <2>2, SumsAfterBegin DEF MoveRead
    <2>3. ASSUME NEW id, RemoveRead(h, id)
          PROVE  SumsCurrent'
      BY <2>3, SumsAfterBegin DEF RemoveRead
    <2>4. CASE ValidateOwnRow(h) \/ ValidateOthers(h) \/ MoveWriteRow(h)
      BY <2>4, SumsAfterAnswer, SumsAfterGoto DEF ValidateOwnRow, ValidateOthers, MoveWriteRow, Steps
    <2>5. CASE UpdateWrite(h) \/ MoveWriteEquipment(h) \/ RemoveWrite(h)
      BY <2>5, SumsAfterAnswer DEF UpdateWrite, MoveWriteEquipment, RemoveWrite
    <2> QED
      BY <1>3, <2>1, <2>2, <2>3, <2>4, <2>5 DEF ChangeRow
  <1>4. ASSUME NEW h \in Handlers, DeleteShow(h)
        PROVE  SumsCurrent'
    <2>1. ASSUME NEW s \in Shows, DeleteShowRead(h, s)
          PROVE  SumsCurrent'
      <3> DEFINE new == [Idle EXCEPT !.pc = "destroy", !.op = "delete_show", !.show = s]
      <3>1. new.pc = "destroy" /\ Become(h, new)
        BY <2>1 DEF DeleteShowRead, Idle
      <3> HIDE DEF new
      <3> QED
        BY <3>1, SumsAfter
    <2>2. CASE DeleteShowWrite(h)
      BY <2>2, SumsAfterAnswer DEF DeleteShowWrite
    <2> QED
      BY <1>4, <2>1, <2>2 DEF DeleteShow
  <1>5. ASSUME NEW h \in Handlers, QueryFails(h)
        PROVE  SumsCurrent'
    BY <1>5 DEF QueryFails
  <1> QED
    BY <1>1, <1>2, <1>3, <1>4, <1>5 DEF Next

(* Only AddInsert adds a row, and what it adds was free. *)
LEMMA InsertedFree ==
  ASSUME TypeOK, SumsCurrent, NEW h \in Handlers, AddInsert(h),
         NEW e \in Equipment,
         NEW k \in DOMAIN show_equipment' \ DOMAIN show_equipment, show_equipment'[k].equipment_id = e
  PROVE  (Unavailable(e) <= equipment[e].quantity)'
  <1> DEFINE r == requests[h]
             id == auto_increment + 1
             row == [show_id |-> r.show, equipment_id |-> r.equipment,
                     quantity_needed |-> r.needed, quantity_allocated |-> r.needed,
                     status |-> "allocated"]
             sum == SumAllocated(show_equipment, e, unavailableStatuses)
  <1>0. r \in Request /\ RequestOK(r) /\ r.pc = "insert"
    BY DEF TypeOK, AddInsert, At
  <1>1. row \in ShowEquipmentRow /\ row.equipment_id = r.equipment /\ row.quantity_allocated = r.needed
        /\ r.needed \in Nat
    BY <1>0, TablesAssumption DEF RequestOK, AddSteps, ShowEquipmentRow, ShowStatuses, Quantities
  <1>2. /\ auto_increment < MaxRows /\ show_equipment' = Insert(show_equipment, id, row)
        /\ equipment' = equipment /\ inventory_allocation' = inventory_allocation
    BY DEF AddInsert
  <1> HIDE DEF row
  <1>3. id \in RowIds /\ id \notin DOMAIN show_equipment
    BY <1>2, TablesAssumption DEF TypeOK, RowIds
  <1> HIDE DEF id
  <1>4. k = id /\ e = r.equipment
    BY <1>1, <1>2 DEF Insert
  <1>5. IsTable(show_equipment, ShowEquipmentRow)
    BY DEF TypeOK, TablesTypeOK
  <1>6. SumAllocated(Insert(show_equipment, id, row), e, unavailableStatuses) <= sum + r.needed
    BY <1>1, <1>3, <1>4, <1>5, SumAfterInsert
  <1>7. SumAllocated(Insert(show_equipment, id, row), e, unavailableStatuses) \in Nat
    BY <1>1, <1>3, <1>5, InsertOK, UnitsFinite
  <1>8. r.needed + Unavailable(e) <= equipment[e].quantity
    BY <1>0, <1>4 DEF SumsCurrent
  <1>9. Unavailable(e)' = equipment[e].installation_quantity
                            + SumAllocated(Insert(show_equipment, id, row), e, unavailableStatuses)
                            + SumAllocated(inventory_allocation, e, unavailableStatuses)
    BY <1>2 DEF Unavailable
  <1> QED
    BY <1>1, <1>2, <1>6, <1>7, <1>8, <1>9, UnitsOf DEF Unavailable

LEMMA OthersAddNothing ==
  ASSUME [Next]_vars, \A h \in Handlers : ~AddInsert(h)
  PROVE  DOMAIN show_equipment' \subseteq DOMAIN show_equipment
  <1>1. CASE UNCHANGED vars
    BY <1>1 DEF vars, tables
  <1>2. ASSUME NEW h \in Handlers, Add(h)
        PROVE  show_equipment' = show_equipment
    BY <1>2 DEF Add, AddFindShow, AddFindExisting, AddSumShows, AddSumInventory, tables
  <1>3. ASSUME NEW h \in Handlers, ChangeRow(h)
        PROVE  DOMAIN show_equipment' \subseteq DOMAIN show_equipment
    <2>1. CASE UNCHANGED show_equipment
      BY <2>1
    <2>2. CASE UpdateWrite(h) \/ MoveWriteRow(h) \/ RemoveWrite(h)
      BY <2>2 DEF UpdateWrite, MoveWriteRow, RemoveWrite, Update, DeleteRows
    <2> QED
      BY <1>3, <2>1, <2>2 DEF ChangeRow, UpdateRead, MoveRead, RemoveRead, ValidateOwnRow, ValidateOthers,
         MoveWriteEquipment, tables
  <1>4. ASSUME NEW h \in Handlers, DeleteShow(h) \/ QueryFails(h)
        PROVE  DOMAIN show_equipment' \subseteq DOMAIN show_equipment
    BY <1>4 DEF DeleteShow, DeleteShowRead, DeleteShowWrite, QueryFails, DeleteRows, tables
  <1> QED
    BY <1>1, <1>2, <1>3, <1>4 DEF Next

(* One request at a time, whichever endpoints are used and on either schema: *)
(* unless a sum fails, POST /show/:showId/equipment inserts a row only if    *)
(* its units are still free once it is inserted, location rows and           *)
(* installed units counted.                                                  *)
THEOREM InsertsFit ==
  ASSUME OneAtATime, ~QueriesMayFail
  PROVE  Spec => InsertWithinStock
  <1> DEFINE Fits == \A e \in Equipment :
          (\E k \in DOMAIN show_equipment' \ DOMAIN show_equipment :
              show_equipment'[k].equipment_id = e)
          => (Unavailable(e) <= equipment[e].quantity)'
  <1>1. Init => TypeOK /\ SumsCurrent
    BY TypeInit DEF Init, SumsCurrent, Idle
  <1>2. (TypeOK /\ SumsCurrent) /\ [Next]_vars => (TypeOK /\ SumsCurrent)'
    BY TypeNext, SumsKept
  <1>3. TypeOK /\ SumsCurrent /\ [Next]_vars => Fits
    BY InsertedFree, OthersAddNothing
  <1>4. TypeOK /\ SumsCurrent /\ [Next]_vars => [Fits]_vars
    BY <1>3
  <1> HIDE DEF Fits
  <1>5. Spec => [][Fits]_vars
    BY <1>1, <1>2, <1>4, PTL DEF Spec
  <1> QED
    BY <1>5 DEF Fits, InsertWithinStock

-----------------------------------------------------------------------------
(***************************************************************************)
(* One request at a time, through the buttons of the desk and without      *)
(* failures: of an item with one unit, equipment.status tells whether a    *)
(* show has it.  Between its two UPDATEs a move has changed the row and    *)
(* not yet the item, so the invariant says of each step of a move what is  *)
(* out already.                                                            *)
(***************************************************************************)
ButtonsOnly == ValidatedOnly /\ "update_status" \notin Endpoints

Single(e) == equipment[e].quantity = 1
OneOut == \A e \in Equipment : Single(e) => \A j, k \in RowsOut(e) : j = k

BetweenWrites(h, e) == At(h, "equipment") /\ requests[h].equipment = e

StatusAgrees ==
    \A e \in Equipment :
        Single(e) /\ (\A h \in Handlers : ~BetweenWrites(h, e)) =>
            (equipment[e].status = "in-use") = (RowsOut(e) # {})

MoveIn(r) ==
    r.pc \in RowSteps =>
        /\ r.op \in {"checkout", "return", "remove"}
        /\ r.id \in DOMAIN show_equipment /\ r.equipment = show_equipment[r.id].equipment_id
        /\ r.op = "checkout" =>
              /\ r.status = "checked-out"
              /\ r.pc = "write" /\ Single(r.equipment) => RowsOut(r.equipment) \subseteq {r.id}
              /\ r.pc = "equipment" => RowsOut(r.equipment) # {}
        /\ r.op = "return" =>
              /\ r.status = "returned"
              /\ r.pc \in {"others", "write"} => show_equipment[r.id].status \in OutStatuses
              /\ r.pc = "equipment" /\ Single(r.equipment) => RowsOut(r.equipment) = {}

MovesFit == \A h \in Handlers : MoveIn(requests[h])

SingleInv == SerialInv /\ OneOut /\ StatusAgrees /\ MovesFit

LEMMA MovesAfter ==
  ASSUME TypeOK, OneAtATime, NEW h \in Handlers, NEW r, Become(h, r)
  PROVE  /\ \A g \in Handlers : requests'[g] = r
         /\ (r.pc \notin RowSteps) => MovesFit'
  <1>1. \A g \in Handlers : requests'[g] = r
    BY DEF Become, OneAtATime, TypeOK
  <1> QED
    BY <1>1 DEF MovesFit, MoveIn

(* A step that writes nothing, and is neither the first nor the second     *)
(* UPDATE of a move                                                        *)
LEMMA QuietStep ==
  ASSUME SingleInv, OneAtATime, NEW h \in Handlers, NEW r, Become(h, r),
         ~At(h, "equipment"), r.pc # "equipment",
         UNCHANGED <<equipment, show_equipment>>
  PROVE  OneOut' /\ StatusAgrees'
  <1>1. \A g \in Handlers : requests'[g] = r /\ ~At(g, "equipment")
    BY MovesAfter DEF SingleInv, SerialInv, OneAtATime
  <1>2. \A e \in Equipment : RowsOut(e)' = RowsOut(e) /\ (Single(e)' <=> Single(e))
    BY DEF RowsOut, Single
  <1>3. OneOut'
    BY <1>2 DEF SingleInv, OneOut
  <1>4. StatusAgrees'
    BY <1>1, <1>2 DEF SingleInv, StatusAgrees, BetweenWrites
  <1> QED
    BY <1>3, <1>4

LEMMA QuietAnswer ==
  ASSUME SingleInv, OneAtATime, NEW h \in Handlers, Answer(h),
         ~At(h, "equipment"), UNCHANGED <<equipment, show_equipment>>
  PROVE  OneOut' /\ StatusAgrees' /\ MovesFit'
  BY QuietStep, MovesAfter DEF Answer, Idle, RowSteps, SingleInv, SerialInv

(* A step that changes rows, but none that is out, or adds one that is not *)
LEMMA RowsOutSame ==
  ASSUME SingleInv, OneAtATime, NEW h \in Handlers, Answer(h), ~At(h, "equipment"),
         equipment' = equipment, \A e \in Equipment : RowsOut(e)' = RowsOut(e)
  PROVE  OneOut' /\ StatusAgrees' /\ MovesFit'
  <1>1. /\ \A g \in Handlers : requests'[g] = Idle /\ ~At(g, "equipment")
        /\ MovesFit'
    BY MovesAfter DEF SingleInv, SerialInv, OneAtATime, Answer, Idle, RowSteps
  <1>2. \A e \in Equipment : Single(e)' <=> Single(e)
    BY DEF Single
  <1>3. OneOut'
    BY <1>2 DEF SingleInv, OneOut
  <1>4. StatusAgrees'
    BY <1>1, <1>2 DEF SingleInv, StatusAgrees, BetweenWrites
  <1> QED
    BY <1>1, <1>3, <1>4

LEMMA SingleAdd ==
  ASSUME SingleInv, OneAtATime, NEW h \in Handlers, Add(h)
  PROVE  OneOut' /\ StatusAgrees' /\ MovesFit'
  <1> DEFINE r == requests[h]
  <1>0. r \in Request /\ RequestOK(r) /\ TypeOK
    BY DEF SingleInv, SerialInv, TypeOK
  <1>1. ASSUME NEW new, Become(h, new), new.pc \in AddSteps, r.pc # "equipment", UNCHANGED tables
        PROVE  OneOut' /\ StatusAgrees' /\ MovesFit'
    BY <1>0, <1>1, QuietStep, MovesAfter DEF At, AddSteps, RowSteps, tables
  <1>2. ASSUME NEW pc \in AddSteps, Goto(h, pc), r.pc # "equipment", UNCHANGED tables
        PROVE  OneOut' /\ StatusAgrees' /\ MovesFit'
    <2> DEFINE new == [r EXCEPT !.pc = pc]
    <2>1. new.pc = pc /\ Become(h, new)
      BY <1>0, <1>2 DEF Goto, Request
    <2> HIDE DEF new
    <2> QED
      BY <1>1, <1>2, <2>1
  <1>3. ASSUME NEW s \in Shows, NEW e \in Equipment, NEW n \in 1..MaxQuantity, AddFindShow(h, s, e, n)
        PROVE  OneOut' /\ StatusAgrees' /\ MovesFit'
    <2> DEFINE new == [Idle EXCEPT !.pc = "existing", !.op = "add", !.show = s,
                                   !.equipment = e, !.needed = n]
    <2>1. new.pc = "existing" /\ Become(h, new) /\ UNCHANGED tables /\ r.pc = "idle"
      BY <1>3 DEF AddFindShow, Idle, IsIdle
    <2> HIDE DEF new
    <2> QED
      BY <1>1, <2>1 DEF AddSteps
  <1>4. CASE AddFindExisting(h)
    BY <1>2, <1>4, QuietAnswer DEF AddFindExisting, At, AddSteps, tables
  <1>5. CASE AddSumShows(h)
    <2>1. PICK sum \in Sums(show_equipment, r.equipment) :
            Become(h, [r EXCEPT !.pc = "inventory_sum",
                                !.quantity = Uninstalled(r.equipment) - sum])
      BY <1>5 DEF AddSumShows
    <2> DEFINE new == [r EXCEPT !.pc = "inventory_sum",
                                !.quantity = Uninstalled(r.equipment) - sum]
    <2>2. new.pc = "inventory_sum" /\ Become(h, new) /\ UNCHANGED tables /\ r.pc = "show_sum"
      BY <1>0, <1>5, <2>1 DEF Request, AddSumShows, At
    <2> HIDE DEF new
    <2> QED
      BY <1>1, <2>2 DEF AddSteps
  <1>6. CASE AddSumInventory(h)
    BY <1>2, <1>6, QuietAnswer DEF AddSumInventory, At, AddSteps, tables
  <1>7. CASE AddInsert(h)
    <2> DEFINE id == auto_increment + 1
               row == [show_id |-> r.show, equipment_id |-> r.equipment,
                       quantity_needed |-> r.needed, quantity_allocated |-> r.needed,
                       status |-> "allocated"]
    <2>1. /\ Answer(h) /\ equipment' = equipment /\ r.pc = "insert"
          /\ show_equipment' = show_equipment \/ show_equipment' = Insert(show_equipment, id, row)
      BY <1>7 DEF AddInsert, At
    <2>2. row.status \notin OutStatuses
      BY DEF OutStatuses
    <2>3. id \notin DOMAIN show_equipment
      BY <1>0, TablesAssumption DEF TypeOK
    <2> HIDE DEF row, id
    <2>4. \A e \in Equipment : RowsOut(e)' = RowsOut(e)
      BY <2>1, <2>2, <2>3 DEF RowsOut, Insert
    <2> QED
      BY <2>1, <2>4, RowsOutSame DEF At
  <1> QED
    BY <1>3, <1>4, <1>5, <1>6, <1>7 DEF Add

LEMMA SingleDeleteShow ==
  ASSUME SingleInv, OneAtATime, NEW h \in Handlers, DeleteShow(h)
  PROVE  OneOut' /\ StatusAgrees' /\ MovesFit'
  <1>1. ASSUME NEW s \in Shows, DeleteShowRead(h, s)
        PROVE  OneOut' /\ StatusAgrees' /\ MovesFit'
    <2> DEFINE new == [Idle EXCEPT !.pc = "destroy", !.op = "delete_show", !.show = s]
    <2>1. new.pc = "destroy" /\ Become(h, new) /\ UNCHANGED tables /\ requests[h].pc = "idle"
      BY <1>1 DEF DeleteShowRead, Idle, IsIdle
    <2> HIDE DEF new
    <2> QED
      BY <2>1, QuietStep, MovesAfter DEF At, RowSteps, tables, SingleInv, SerialInv
  <1>2. CASE DeleteShowWrite(h)
    <2> DEFINE s == requests[h].show
    <2>1. /\ requests[h].pc = "destroy" /\ Answer(h) /\ equipment' = equipment
          /\ \/ show_equipment' = show_equipment
             \/ show_equipment' = DeleteRows(show_equipment, RowsOf(s))
      BY <1>2 DEF DeleteShowWrite, At
    <2>2. RowsOf(s) = {}
      BY <2>1, FreshNow DEF SingleInv, FreshIn, RowsOf
    <2>3. \A e \in Equipment : RowsOut(e)' = RowsOut(e)
      BY <2>1, <2>2 DEF RowsOut, DeleteRows
    <2> QED
      BY <2>1, <2>3, RowsOutSame DEF At
  <1> QED
    BY <1>1, <1>2 DEF DeleteShow

(* The request of a move begins *)
LEMMA SingleBegin ==
  ASSUME SingleInv, OneAtATime, NEW h \in Handlers, IsIdle(h), UNCHANGED tables,
         NEW op, NEW id \in DOMAIN show_equipment, NEW status, NEW quantity, NEW pc,
         Begin(h, op, id, Omitted, Omitted, status, quantity, pc),
         \/ op = "checkout" /\ status = "checked-out" /\ pc = "own"
         \/ op = "return" /\ status = "returned" /\ pc = "own"
         \/ op = "remove" /\ pc = "write"
  PROVE  OneOut' /\ StatusAgrees' /\ MovesFit'
  <1> DEFINE e == show_equipment[id].equipment_id
             new == [Idle EXCEPT !.pc = pc, !.op = op, !.id = id, !.equipment = e,
                                 !.needed = Omitted, !.allocated = Omitted,
                                 !.status = status, !.quantity = quantity]
  <1>1. /\ new.pc = pc /\ new.op = op /\ new.id = id /\ new.equipment = e /\ new.status = status
        /\ Become(h, new)
    BY DEF Idle, Begin
  <1> HIDE DEF new
  <1>2. \A g \in Handlers : requests'[g] = new
    BY <1>1, MovesAfter DEF SingleInv, SerialInv
  <1>3. MovesFit'
    BY <1>1, <1>2 DEF MovesFit, MoveIn, tables
  <1>4. OneOut' /\ StatusAgrees'
    BY <1>1, QuietStep DEF IsIdle, At, tables
  <1> QED
    BY <1>3, <1>4

(* What the two reads of validateStatusChange find is what the writes need. *)
LEMMA SingleValidates ==
  ASSUME SingleInv, OneAtATime, NEW h \in Handlers, ValidateOwnRow(h) \/ ValidateOthers(h)
  PROVE  OneOut' /\ StatusAgrees' /\ MovesFit'
  <1> DEFINE r == requests[h]
  <1>0. r \in Request /\ RequestOK(r) /\ TypeOK /\ MoveIn(r)
    BY DEF SingleInv, SerialInv, TypeOK, MovesFit
  <1>1. /\ UNCHANGED tables
        /\ \/ Answer(h) /\ r.pc \in {"own", "others"}
           \/ /\ Goto(h, "others") /\ r.pc = "own"
              /\ r.id \in DOMAIN show_equipment => OwnRowAllows(show_equipment[r.id], r.status)
           \/ /\ Goto(h, "write") /\ r.pc = "others"
              /\ OtherAllocationsAllow(r.equipment, r.id, r.status, r.quantity)
    BY DEF ValidateOwnRow, ValidateOthers, At
  <1>2. CASE Answer(h) /\ r.pc \in {"own", "others"}
    BY <1>1, <1>2, QuietAnswer DEF At, tables
  <1>3. ASSUME NEW pc \in {"others", "write"}, Goto(h, pc), r.pc \in {"own", "others"},
               r.op = "return" => show_equipment[r.id].status \in OutStatuses,
               r.op = "checkout" /\ pc = "write" /\ Single(r.equipment) =>
                  RowsOut(r.equipment) \subseteq {r.id}
        PROVE  OneOut' /\ StatusAgrees' /\ MovesFit'
    <2> DEFINE new == [r EXCEPT !.pc = pc]
    <2>1. /\ new.pc = pc /\ new.op = r.op /\ new.id = r.id /\ new.equipment = r.equipment
          /\ new.status = r.status /\ Become(h, new)
      BY <1>0, <1>3 DEF Goto, Request
    <2> HIDE DEF new
    <2>2. \A g \in Handlers : requests'[g] = new
      BY <1>0, <2>1, MovesAfter
    <2>3. OneOut' /\ StatusAgrees'
      BY <1>1, <1>3, <2>1, QuietStep DEF At, tables
    <2>4. MoveIn(new)
      BY <1>0, <1>3, <2>1 DEF MoveIn, RowSteps
    <2>5. MovesFit'
      BY <1>1, <2>2, <2>4 DEF MovesFit, MoveIn, tables, Single, RowsOut
    <2> QED
      BY <2>3, <2>5
  <1>4. CASE /\ Goto(h, "others") /\ r.pc = "own"
             /\ r.id \in DOMAIN show_equipment => OwnRowAllows(show_equipment[r.id], r.status)
    <2>1. r.id \in DOMAIN show_equipment /\ (r.op = "return" => r.status = "returned")
      BY <1>0, <1>4 DEF MoveIn, RowSteps
    <2>2. r.op = "return" => show_equipment[r.id].status \in OutStatuses
      BY <1>4, <2>1 DEF OwnRowAllows
    <2> QED
      BY <1>3, <1>4, <2>2
  <1>5. CASE /\ Goto(h, "write") /\ r.pc = "others"
             /\ OtherAllocationsAllow(r.equipment, r.id, r.status, r.quantity)
    <2>1. r.op = "return" => show_equipment[r.id].status \in OutStatuses
      BY <1>0, <1>5 DEF MoveIn, RowSteps
    <2>2. ASSUME r.op = "checkout", Single(r.equipment)
          PROVE  RowsOut(r.equipment) \subseteq {r.id}
      <3>1. r.status = "checked-out"
        BY <1>0, <1>5, <2>2 DEF MoveIn, RowSteps
      <3>2. ~SomeRow(OtherRows(show_equipment, r.id), r.equipment, {"checked-out", "in-use"})
        BY <1>5, <2>2, <3>1 DEF OtherAllocationsAllow, Single, mutuallyExclusive
      <3> QED
        BY <3>2 DEF SomeRow, OtherRows, DeleteRows, RowsOut, OutStatuses
    <2> QED
      BY <1>3, <1>5, <2>1, <2>2
  <1> QED
    BY <1>1, <1>2, <1>4, <1>5

(* The first UPDATE of a move *)
LEMMA SingleWritesRow ==
  ASSUME SingleInv, OneAtATime, NEW h \in Handlers, MoveWriteRow(h)
  PROVE  OneOut' /\ StatusAgrees' /\ MovesFit'
  <1> DEFINE r == requests[h]
             e == r.equipment
             row == [show_equipment[r.id] EXCEPT !.status = r.status]
             new == [r EXCEPT !.pc = "equipment"]
             After(f) == {k \in DOMAIN show_equipment :
                IF k = r.id THEN e = f /\ r.status \in OutStatuses
                            ELSE show_equipment[k].equipment_id = f /\ show_equipment[k].status \in OutStatuses}
  <1>0. r \in Request /\ TypeOK /\ MoveIn(r) /\ OneOut /\ StatusAgrees
    BY DEF SingleInv, SerialInv, TypeOK, MovesFit
  <1>1. /\ r.pc = "write" /\ r.op \in {"checkout", "return"} /\ equipment' = equipment
        /\ show_equipment' = Update(show_equipment, r.id, row) /\ Become(h, new)
    BY DEF MoveWriteRow, At, Goto
  <1>2. /\ new.pc = "equipment" /\ new.op = r.op /\ new.id = r.id /\ new.equipment = e
        /\ new.status = r.status
    BY <1>0 DEF Request
  <1>3. /\ r.id \in DOMAIN show_equipment /\ e = show_equipment[r.id].equipment_id
        /\ r.op = "checkout" => /\ r.status = "checked-out"
                                /\ Single(e) => RowsOut(e) \subseteq {r.id}
        /\ r.op = "return" => r.status = "returned" /\ show_equipment[r.id].status \in OutStatuses
    BY <1>0, <1>1 DEF MoveIn, RowSteps
  <1>4. show_equipment[r.id] \in ShowEquipmentRow
    BY <1>0, <1>3 DEF TypeOK, TablesTypeOK, IsTable
  <1>5. row.equipment_id = e /\ row.status = r.status /\ e \in Equipment
    BY <1>3, <1>4 DEF ShowEquipmentRow
  <1> HIDE DEF row, new
  <1>6. \A g \in Handlers : requests'[g] = new
    BY <1>0, <1>1, MovesAfter
  <1>7. \A f \in Equipment : RowsOut(f)' = After(f)
    BY <1>1, <1>5 DEF RowsOut, Update
  <1>8. ASSUME NEW f \in Equipment, f # e PROVE RowsOut(f)' = RowsOut(f)
    BY <1>3, <1>7, <1>8 DEF RowsOut
  <1>9. r.op = "checkout" => r.id \in After(e) /\ (Single(e) => After(e) \subseteq {r.id})
    BY <1>3, <1>5 DEF RowsOut, OutStatuses
  <1>10. r.op = "return" /\ Single(e) => After(e) = {}
    <2>1. r.op = "return" => r.id \in RowsOut(e)
      BY <1>3 DEF RowsOut
    <2>2. r.op = "return" /\ Single(e) => RowsOut(e) \subseteq {r.id}
      BY <1>0, <1>5, <2>1 DEF OneOut
    <2>3. r.op = "return" => r.status \notin OutStatuses
      BY <1>3 DEF OutStatuses
    <2> QED
      BY <1>5, <2>2, <2>3 DEF RowsOut
  <1> HIDE DEF After
  <1>11. \A f \in Equipment : Single(f)' <=> Single(f)
    BY <1>1 DEF Single
  <1>12. OneOut'
    <2> SUFFICES ASSUME NEW f \in Equipment, Single(f), NEW j \in RowsOut(f)', NEW k \in RowsOut(f)'
                 PROVE  j = k
      BY <1>11 DEF OneOut
    <2>1. CASE f = e
      BY <1>1, <1>5, <1>7, <1>9, <1>10, <2>1
    <2>2. CASE f # e
      BY <1>0, <1>8, <2>2 DEF OneOut
    <2> QED
      BY <2>1, <2>2
  <1>13. StatusAgrees'
    <2> SUFFICES ASSUME NEW f \in Equipment, Single(f), \A g \in Handlers : ~BetweenWrites(g, f)'
                 PROVE  ((equipment[f].status = "in-use") = (RowsOut(f) # {}))'
      BY <1>11 DEF StatusAgrees
    <2>1. f # e
      BY <1>2, <1>6 DEF BetweenWrites, At
    <2>2. \A g \in Handlers : ~BetweenWrites(g, f)
      BY <1>1 DEF OneAtATime, BetweenWrites, At
    <2> QED
      BY <1>0, <1>1, <1>8, <2>1, <2>2 DEF StatusAgrees
  <1>14. MovesFit'
    <2>1. r.id \in DOMAIN show_equipment' /\ show_equipment'[r.id].equipment_id = e
      BY <1>1, <1>3, <1>5 DEF Update
    <2> QED
      BY <1>1, <1>2, <1>3, <1>5, <1>6, <1>7, <1>9, <1>10, <1>11, <2>1 DEF MovesFit, MoveIn
  <1> QED
    BY <1>12, <1>13, <1>14

(* The second UPDATE: the item says what the row says. *)
LEMMA SingleWritesItem ==
  ASSUME SingleInv, OneAtATime, NEW h \in Handlers, MoveWriteEquipment(h)
  PROVE  OneOut' /\ StatusAgrees' /\ MovesFit'
  <1> DEFINE r == requests[h]
             e == r.equipment
  <1>0. r \in Request /\ RequestOK(r) /\ TypeOK /\ MoveIn(r) /\ OneOut /\ StatusAgrees
    BY DEF SingleInv, SerialInv, TypeOK, MovesFit
  <1>1. /\ r.pc = "equipment" /\ Answer(h) /\ show_equipment' = show_equipment
        /\ equipment' = [equipment EXCEPT ![e].status = StatusAfter(r.op)]
    BY DEF MoveWriteEquipment, At
  <1>2. /\ r.op \in {"checkout", "return"} /\ e \in Equipment
        /\ r.op = "checkout" => RowsOut(e) # {}
        /\ r.op = "return" /\ Single(e) => RowsOut(e) = {}
    BY <1>0, <1>1 DEF MoveIn, RowSteps, RequestOK
  <1>3. \A f \in Equipment : /\ equipment'[f].quantity = equipment[f].quantity
                             /\ equipment'[f].status = IF f = e THEN StatusAfter(r.op) ELSE equipment[f].status
    BY <1>0, <1>1, <1>2 DEF TypeOK, TablesTypeOK, EquipmentRow
  <1>4. \A f \in Equipment : RowsOut(f)' = RowsOut(f) /\ (Single(f)' <=> Single(f))
    BY <1>1, <1>3 DEF RowsOut, Single
  <1>5. MovesFit'
    BY <1>0, <1>1, MovesAfter DEF Answer, Idle, RowSteps
  <1>6. OneOut'
    BY <1>0, <1>4 DEF OneOut
  <1>7. StatusAgrees'
    <2> SUFFICES ASSUME NEW f \in Equipment, Single(f)
                 PROVE  ((equipment[f].status = "in-use") = (RowsOut(f) # {}))'
      BY <1>4 DEF StatusAgrees
    <2>1. CASE f = e
      BY <1>2, <1>3, <1>4, <2>1 DEF StatusAfter
    <2>2. CASE f # e
      <3>1. \A g \in Handlers : ~BetweenWrites(g, f)
        BY <2>2 DEF OneAtATime, BetweenWrites
      <3> QED
        BY <1>0, <1>3, <1>4, <2>2, <3>1 DEF StatusAgrees
    <2> QED
      BY <2>1, <2>2
  <1> QED
    BY <1>5, <1>6, <1>7

LEMMA SingleChangeRow ==
  ASSUME SingleInv, OneAtATime, ButtonsOnly, NEW h \in Handlers, ChangeRow(h)
  PROVE  OneOut' /\ StatusAgrees' /\ MovesFit'
  <1> DEFINE r == requests[h]
  <1>0. r \in Request /\ RequestOK(r) /\ TypeOK /\ MoveIn(r)
    BY DEF SingleInv, SerialInv, TypeOK, MovesFit
  <1>1. ASSUME NEW op \in {"update_status", "update", "legacy"}, NEW id, NEW needed, NEW allocated,
               NEW status, UpdateRead(h, op, id, needed, allocated, status)
        PROVE  FALSE
    BY <1>1 DEF UpdateRead, ButtonsOnly, ValidatedOnly
  <1>2. ASSUME NEW op \in {"checkout", "return"}, NEW id \in RowIds, MoveRead(h, op, id)
        PROVE  OneOut' /\ StatusAgrees' /\ MovesFit'
    BY <1>2, SingleBegin DEF MoveRead
  <1>3. ASSUME NEW id \in RowIds, RemoveRead(h, id)
        PROVE  OneOut' /\ StatusAgrees' /\ MovesFit'
    BY <1>3, SingleBegin DEF RemoveRead
  <1>4. CASE UpdateWrite(h)
    BY <1>0, <1>4 DEF UpdateWrite, At, MoveIn, RowSteps
  <1>5. CASE RemoveWrite(h)
    <2>1. /\ r.pc = "write" /\ r.op = "remove" /\ equipment' = equipment /\ Answer(h)
          /\ show_equipment' = DeleteRows(show_equipment, {r.id})
      BY <1>5 DEF RemoveWrite, At
    <2>2. show_equipment[r.id].status \notin OutStatuses
      BY <2>1, FreshNow DEF SingleInv, FreshIn
    <2>3. \A e \in Equipment : RowsOut(e)' = RowsOut(e)
      BY <2>1, <2>2 DEF RowsOut, DeleteRows
    <2> QED
      BY <2>1, <2>3, RowsOutSame DEF At
  <1> QED
    BY <1>1, <1>2, <1>3, <1>4, <1>5, SingleValidates, SingleWritesRow, SingleWritesItem DEF ChangeRow

(* One request at a time, through the buttons of the desk and without      *)
(* failures: whenever nothing is being served, an item of one unit is      *)
(* "in-use" exactly if a show has it, although a move writes the row and   *)
(* the item in two statements.                                             *)
THEOREM SingleItemsAgree ==
  ASSUME OneAtATime, ButtonsOnly, ~QueriesMayFail
  PROVE  Spec => []SingleItemStatusAgrees
  <1>1. Init => SingleInv
    <2> SUFFICES ASSUME Init PROVE SingleInv
      OBVIOUS
    <2>1. \A e \in Equipment : RowsOut(e) = {} /\ equipment[e].status = "available"
      BY DEF Init, RowsOut
    <2>2. MovesFit
      BY DEF Init, MovesFit, MoveIn, Idle, RowSteps
    <2> QED
      BY <2>1, <2>2, SerialInit DEF SingleInv, OneOut, StatusAgrees
  <1>2. SingleInv /\ [Next]_vars => SingleInv'
    <2> SUFFICES ASSUME SingleInv, [Next]_vars PROVE SingleInv'
      OBVIOUS
    <2>1. SerialInv'
      BY SerialStep DEF SingleInv
    <2>2. CASE UNCHANGED vars
      <3>1. OneOut' /\ StatusAgrees' /\ MovesFit'
        BY <2>2 DEF vars, tables, SingleInv, OneOut, StatusAgrees, MovesFit, MoveIn, RowsOut, Single,
           BetweenWrites, At
      <3> QED
        BY <2>1, <3>1 DEF SingleInv
    <2>3. ASSUME NEW h \in Handlers, Add(h) \/ ChangeRow(h) \/ DeleteShow(h) \/ QueryFails(h)
          PROVE  OneOut' /\ StatusAgrees' /\ MovesFit'
      BY <2>3, SingleAdd, SingleChangeRow, SingleDeleteShow DEF QueryFails
    <2> QED
      BY <2>1, <2>2, <2>3 DEF SingleInv, Next
  <1>3. SingleInv => SingleItemStatusAgrees
    BY DEF SingleInv, StatusAgrees, SingleItemStatusAgrees, AllIdle, IsIdle, BetweenWrites, At, Single
  <1> QED
    BY <1>1, <1>2, <1>3, PTL DEF Spec

-----------------------------------------------------------------------------
(***************************************************************************)
(* The handlers implement the check-out desk of Loans.                     *)
(***************************************************************************)
Stock == [e \in Equipment |-> equipment[e].quantity]
Loaned == [k \in UNION {RowsOut(e) : e \in Equipment} |->
              [item |-> show_equipment[k].equipment_id,
               units |-> show_equipment[k].quantity_allocated]]

OutKeys == {k \in DOMAIN show_equipment : show_equipment[k].status \in OutStatuses}
Loan(row) == [item |-> row.equipment_id, units |-> row.quantity_allocated]

(* The loans are the rows that are out. *)
LEMMA LoanedRows ==
  TablesTypeOK => Loaned = [k \in OutKeys |-> Loan(show_equipment[k])]
  <1> SUFFICES ASSUME TablesTypeOK
               PROVE  Loaned = [k \in OutKeys |-> Loan(show_equipment[k])]
    OBVIOUS
  <1>1. UNION {RowsOut(e) : e \in Equipment} = OutKeys
    <2>1. ASSUME NEW k \in OutKeys
          PROVE  k \in UNION {RowsOut(e) : e \in Equipment}
      <3>1. show_equipment[k].equipment_id \in Equipment
        BY DEF OutKeys, TablesTypeOK, IsTable, ShowEquipmentRow
      <3>2. k \in RowsOut(show_equipment[k].equipment_id)
        BY DEF OutKeys, RowsOut
      <3> QED
        BY <3>1, <3>2
    <2>2. ASSUME NEW e \in Equipment, NEW k \in RowsOut(e)
          PROVE  k \in OutKeys
      BY DEF OutKeys, RowsOut
    <2> QED
      BY <2>1, <2>2
  <1> QED
    BY <1>1 DEF Loaned, Loan

LEMMA LoanedRowsNext ==
  (TablesTypeOK => Loaned = [k \in OutKeys |-> Loan(show_equipment[k])])'
  BY LoanedRows, PTL

LEMMA StockKept ==
  ASSUME TypeOK, [Next]_vars
  PROVE  Stock' = Stock
  <1>1. CASE UNCHANGED equipment
    BY <1>1 DEF Stock
  <1>2. ASSUME NEW h \in Handlers, MoveWriteEquipment(h)
        PROVE  Stock' = Stock
    <2>1. \A e \in Equipment : equipment'[e].quantity = equipment[e].quantity
      BY <1>2 DEF MoveWriteEquipment, TypeOK, TablesTypeOK, EquipmentRow
    <2> QED
      BY <2>1 DEF Stock
  <1>3. ASSUME NEW h \in Handlers, Add(h)
        PROVE  UNCHANGED equipment
    BY <1>3 DEF Add, AddFindShow, AddFindExisting, AddSumShows, AddSumInventory, AddInsert, tables
  <1>4. ASSUME NEW h \in Handlers, ChangeRow(h)
        PROVE  UNCHANGED equipment \/ MoveWriteEquipment(h)
    BY <1>4 DEF ChangeRow, UpdateRead, MoveRead, RemoveRead, ValidateOwnRow, ValidateOthers,
                UpdateWrite, MoveWriteRow, RemoveWrite, tables
  <1>5. ASSUME NEW h \in Handlers, DeleteShow(h) \/ QueryFails(h)
        PROVE  UNCHANGED equipment
    BY <1>5 DEF DeleteShow, DeleteShowRead, DeleteShowWrite, QueryFails, tables
  <1>6. CASE UNCHANGED vars
    BY <1>1, <1>6 DEF vars, tables
  <1>7. CASE Next
    BY <1>1, <1>2, <1>3, <1>4, <1>5, <1>7 DEF Next
  <1> QED
    BY <1>6, <1>7

(* A step is a step of the desk if it says of the loans what the desk says. *)
LEMMA SameCardinality == \A S : LoanBook!Cardinality(S) = Cardinality(S)
  BY DEF LoanBook!Cardinality, Cardinality

LEMMA HandsOut ==
  ASSUME NEW k \in RowIds, NEW i \in Equipment, NEW n \in 1..MaxQuantity,
         k \notin DOMAIN Loaned,
         Loaned' = [j \in DOMAIN Loaned \cup {k} |->
                       IF j = k THEN [item |-> i, units |-> n] ELSE Loaned[j]],
         Cardinality(LoanBook!LoanUnits(Loaned', i)) <= Stock[i],
         Stock' = Stock
  PROVE  LoanBook!Next
  <1>1. LoanBook!Cardinality(LoanBook!LoanUnits(Loaned', i)) <= Stock[i]
    BY SameCardinality
  <1>2. LoanBook!HandOut(k, i, n)
    BY <1>1 DEF LoanBook!HandOut, Loaned, Stock
  <1> QED
    BY <1>2 DEF LoanBook!Next

LEMMA TakesBack ==
  ASSUME NEW k \in RowIds, k \in DOMAIN Loaned,
         Loaned' = [j \in DOMAIN Loaned \ {k} |-> Loaned[j]],
         Stock' = Stock
  PROVE  LoanBook!Next
  BY DEF LoanBook!Next, LoanBook!TakeBack, Loaned, Stock

LEMMA DeskStep ==
  ASSUME ValidatedOnly, TypeOK, TypeOK', OutWithinStock', TableStep, Stock' = Stock
  PROVE  LoanBook!Next \/ UNCHANGED <<Loaned, Stock>>
  <1> DEFINE se == show_equipment
  <1>0. /\ Loaned = [j \in OutKeys |-> Loan(se[j])]
        /\ Loaned' = [j \in OutKeys' |-> Loan(se'[j])]
    BY LoanedRows, LoanedRowsNext DEF TypeOK, Loan
  <1>1. ASSUME OutKeys' = OutKeys, \A j \in OutKeys : Loan(se'[j]) = Loan(se[j])
        PROVE  UNCHANGED <<Loaned, Stock>>
    BY <1>0, <1>1
  <1>2. CASE NothingWritten \/ ShowRemoved
    BY <1>1, <1>2 DEF NothingWritten, ShowRemoved, OutKeys
  <1>3. CASE RowAdded
    BY <1>1, <1>3 DEF RowAdded, Insert, OutKeys, OutStatuses
  <1>4. CASE RowRemoved
    BY <1>1, <1>4 DEF RowRemoved, DeleteRows, OutKeys
  <1>5. CASE RowChanged
    <2>1. PICK k \in DOMAIN se, row \in ShowEquipmentRow :
            /\ row.equipment_id = se[k].equipment_id
            /\ row.quantity_allocated = se[k].quantity_allocated
            /\ row.status = se[k].status \/ OwnRowAllows(se[k], row.status)
            /\ se' = Update(se, k, row)
      BY <1>5 DEF RowChanged
    <2>2. /\ DOMAIN se' = DOMAIN se /\ se'[k] = row
          /\ \A j \in DOMAIN se \ {k} : se'[j] = se[j]
          /\ Loan(row) = Loan(se[k])
      BY <2>1 DEF Update, Loan
    <2>3. k \in RowIds
      BY DEF TypeOK, TablesTypeOK, IsTable
    <2>4. CASE row.status \in OutStatuses <=> se[k].status \in OutStatuses
      BY <1>1, <2>2, <2>4 DEF OutKeys
    <2>5. CASE row.status \notin OutStatuses /\ se[k].status \in OutStatuses
      <3>1. OutKeys' = OutKeys \ {k} /\ k \in OutKeys
        BY <2>2, <2>5 DEF OutKeys
      <3>2. Loaned' = [j \in DOMAIN Loaned \ {k} |-> Loaned[j]]
        BY <1>0, <2>2, <3>1 DEF OutKeys
      <3> QED
        BY <1>0, <2>3, <3>1, <3>2, TakesBack
    <2>6. CASE row.status \in OutStatuses /\ se[k].status \notin OutStatuses
      <3> DEFINE i == row.equipment_id
                 n == row.quantity_allocated
      <3>1. OutKeys' = OutKeys \cup {k} /\ k \notin OutKeys
        BY <2>2, <2>6 DEF OutKeys
      <3>2. Loaned' = [j \in DOMAIN Loaned \cup {k} |->
                          IF j = k THEN [item |-> i, units |-> n] ELSE Loaned[j]]
        BY <1>0, <2>2, <3>1 DEF OutKeys, Loan
      <3>3. i \in Equipment /\ n \in 1..MaxQuantity
        <4>1. se[k].quantity_allocated # 0
          BY <2>1, <2>6 DEF OwnRowAllows, OutStatuses
        <4> QED
          BY <2>1, <4>1, TablesAssumption DEF ShowEquipmentRow, Quantities
      <3>4. LoanBook!LoanUnits(Loaned', i) = Units(se', i, OutStatuses)
        BY <1>0 DEF LoanBook!LoanUnits, Units, OutKeys, Loan
      <3>5. Cardinality(LoanBook!LoanUnits(Loaned', i)) <= Stock[i]
        <4>1. SumAllocated(se', i, OutStatuses) <= equipment'[i].quantity
          BY <3>3 DEF OutWithinStock
        <4>2. equipment'[i].quantity = Stock'[i]
          BY <3>3 DEF Stock
        <4> QED
          BY <3>4, <4>1, <4>2 DEF SumAllocated
      <3>6. k \notin DOMAIN Loaned
        BY <1>0, <3>1
      <3> HIDE DEF i, n
      <3> QED
        BY <2>3, <3>2, <3>3, <3>5, <3>6, HandsOut
    <2> QED
      BY <2>4, <2>5, <2>6
  <1> QED
    BY <1>1, <1>2, <1>3, <1>4, <1>5 DEF TableStep

LEMMA DeskStarts ==
  ASSUME Init
  PROVE  LoanBook!Init
  <1>1. TypeOK
    BY TypeInit
  <1>2. UNION {RowsOut(e) : e \in Equipment} = {}
    BY DEF Init, RowsOut
  <1>3. \A e \in Equipment : equipment[e].quantity \in 1..MaxQuantity
    BY <1>1 DEF TypeOK, TablesTypeOK, EquipmentRow
  <1> QED
    BY <1>2, <1>3 DEF LoanBook!Init

(* One request at a time and no endpoint that writes quantities: every run  *)
(* of the handlers is one of the abstract desk.  A loan is made only if    *)
(* the stock covers it, keeps its size, and ends as a whole.               *)
THEOREM DeskImplemented ==
  ASSUME OneAtATime, ValidatedOnly
  PROVE  Spec => ImplementsLoans
  <1> DEFINE Inv == DeskInv /\ SerialInv
  <1>1. Init => Inv /\ LoanBook!Init
    BY DeskInit, SerialInit, DeskStarts
  <1>2. Inv /\ [Next]_vars => Inv' /\ (LoanBook!Next \/ UNCHANGED <<Loaned, Stock>>)
    <2> SUFFICES ASSUME Inv, [Next]_vars
                 PROVE  Inv' /\ (LoanBook!Next \/ UNCHANGED <<Loaned, Stock>>)
      OBVIOUS
    <2>1. DeskInv' /\ SerialInv' /\ TableStep
      BY DeskNext, SerialStep
    <2>2. Stock' = Stock
      BY StockKept DEF DeskInv
    <2> QED
      BY <2>1, <2>2, DeskStep DEF DeskInv
  <1>3. Inv /\ [Next]_vars => Inv' /\ [LoanBook!Next]_<<Loaned, Stock>>
    BY <1>2
  <1> HIDE DEF Inv
  <1> QED
    BY <1>1, <1>3, PTL DEF Spec, ImplementsLoans, LoanBook!Spec, Loaned, Stock
-----------------------------------------------------------------------------
(***************************************************************************)
(* Any number of requests at the same time, no endpoint that writes         *)
(* quantities.  The rows at stake are those that are out or that a request  *)
(* is about to hand out; a request adds its row to them when it validates   *)
(* it, and its own test then covers the rows that are out.                 *)
(***************************************************************************)
Promises(r, k) == r.pc = "write" /\ r.status \in OutStatuses /\ r.id = k

AtStake(se, rq, e) ==
    {u \in (DOMAIN se) \X (1..MaxQuantity) :
        /\ se[u[1]].equipment_id = e
        /\ u[2] <= se[u[1]].quantity_allocated
        /\ se[u[1]].status \in OutStatuses \/ \E g \in Handlers : Promises(rq[g], u[1])}

(* What a closure keeps is so however many requests come between. *)
KnowsIn(se, eq, ai, r) ==
    /\ r.pc = "inventory_sum" => r.quantity <= eq[r.equipment].quantity
    /\ r.pc = "insert" => r.needed <= eq[r.equipment].quantity
    /\ r.pc \in RowSteps =>
          /\ r.id <= ai
          /\ r.id \in DOMAIN se =>
                /\ r.equipment = se[r.id].equipment_id
                /\ r.op # "remove" => r.quantity = se[r.id].quantity_allocated

ClosuresKnow == \A g \in Handlers : KnowsIn(show_equipment, equipment, auto_increment, requests[g])

RowWithinStock ==
    \A k \in DOMAIN show_equipment :
        show_equipment[k].quantity_allocated <= equipment[show_equipment[k].equipment_id].quantity

StakeBounded ==
    \A e \in Equipment :
        Cardinality(AtStake(show_equipment, requests, e))
            <= Cardinality(Handlers) * equipment[e].quantity

StakeInv == TypeOK /\ ClosuresKnow /\ RowWithinStock /\ StakeBounded

(* What any step of slot h does to the rows: they keep item and quantity,   *)
(* come out only where h was about to hand them out, and a new one is not.  *)
RowsAfter(h) ==
    /\ auto_increment <= auto_increment'
    /\ \A k \in DOMAIN show_equipment' :
          IF k \in DOMAIN show_equipment
            THEN /\ show_equipment'[k].equipment_id = show_equipment[k].equipment_id
                 /\ show_equipment'[k].quantity_allocated = show_equipment[k].quantity_allocated
                 /\ show_equipment'[k].status \in OutStatuses =>
                       show_equipment[k].status \in OutStatuses \/ Promises(requests[h], k)
            ELSE /\ k > auto_increment
                 /\ show_equipment'[k].status \notin OutStatuses
                 /\ show_equipment'[k].quantity_allocated
                        <= equipment[show_equipment'[k].equipment_id].quantity

(* The slot goes on as r; if r is about to hand a row out, the row is out   *)
(* already or has just been validated.                                     *)
GoesOn(h, r) ==
    /\ Become(h, r)
    /\ KnowsIn(show_equipment', equipment, auto_increment', r)
    /\ r.pc = "write" =>
          /\ UNCHANGED show_equipment
          /\ r.status \in OutStatuses /\ r.id \in DOMAIN show_equipment =>
                show_equipment[r.id].status \in OutStatuses \/ RowFits(r.id)

StakeStep(h) == RowsAfter(h) /\ \E r : GoesOn(h, r)

LEMMA RowsUntouched ==
  ASSUME TypeOK, NEW h \in Handlers, UNCHANGED <<show_equipment, auto_increment>>
  PROVE  RowsAfter(h)
  <1>1. auto_increment \in Int
    BY TablesAssumption DEF TypeOK
  <1> QED
    BY <1>1 DEF RowsAfter

LEMMA IdleGoesOn ==
  ASSUME NEW h \in Handlers, Answer(h)
  PROVE  \E r : GoesOn(h, r)
  <1>1. GoesOn(h, Idle)
    BY DEF Answer, GoesOn, KnowsIn, Idle, RowSteps
  <1> QED
    BY <1>1

LEMMA StakeAdd ==
  ASSUME StakeInv, NEW h \in Handlers, Add(h)
  PROVE  StakeStep(h)
  <1> DEFINE r == requests[h]
  <1>0. /\ TypeOK /\ r \in Request /\ RequestOK(r)
        /\ KnowsIn(show_equipment, equipment, auto_increment, r)
    BY DEF StakeInv, ClosuresKnow, TypeOK
  <1>1. ASSUME NEW s \in Shows, NEW e \in Equipment, NEW n \in 1..MaxQuantity,
               AddFindShow(h, s, e, n)
        PROVE  StakeStep(h)
    <2> DEFINE new == [Idle EXCEPT !.pc = "existing", !.op = "add", !.show = s,
                                   !.equipment = e, !.needed = n]
    <2>1. Become(h, new) /\ UNCHANGED <<show_equipment, auto_increment>>
      BY <1>1 DEF AddFindShow, tables
    <2>2. new.pc = "existing"
      BY DEF Idle
    <2> HIDE DEF new
    <2>3. GoesOn(h, new)
      BY <2>1, <2>2 DEF GoesOn, KnowsIn, RowSteps
    <2> QED
      BY <1>0, <2>1, <2>3, RowsUntouched DEF StakeStep
  <1>2. CASE AddFindExisting(h)
    <2> DEFINE new == [r EXCEPT !.pc = "show_sum"]
    <2>1. UNCHANGED <<show_equipment, auto_increment>> /\ (Answer(h) \/ Become(h, new))
      BY <1>2 DEF AddFindExisting, Goto, tables
    <2>2. new.pc = "show_sum"
      BY <1>0 DEF Request
    <2> HIDE DEF new
    <2>3. CASE Become(h, new)
      <3>1. GoesOn(h, new)
        BY <2>1, <2>2, <2>3 DEF GoesOn, KnowsIn, RowSteps
      <3> QED
        BY <1>0, <2>1, <3>1, RowsUntouched DEF StakeStep
    <2> QED
      BY <1>0, <2>1, <2>3, RowsUntouched, IdleGoesOn DEF StakeStep
  <1>3. CASE AddSumShows(h)
    <2>1. PICK sum \in Sums(show_equipment, r.equipment) :
            Become(h, [r EXCEPT !.pc = "inventory_sum",
                                !.quantity = Uninstalled(r.equipment) - sum])
      BY <1>3, Zenon DEF AddSumShows
    <2>2. UNCHANGED <<show_equipment, auto_increment>>
      BY <1>3 DEF AddSumShows, tables
    <2>3. sum \in Nat
      BY <1>0, SumType DEF Sums
    <2> DEFINE left == Uninstalled(r.equipment) - sum
               new == [r EXCEPT !.pc = "inventory_sum", !.quantity = left]
    <2>4. left <= equipment[r.equipment].quantity
      <3>1. equipment[r.equipment] \in EquipmentRow
        BY <1>0, <1>3 DEF AddSumShows, At, RequestOK, AddSteps, TypeOK, TablesTypeOK
      <3> QED
        BY <2>3, <3>1, TablesAssumption DEF EquipmentRow, Quantities, Uninstalled
    <2> HIDE DEF left
    <2>5. new.pc = "inventory_sum" /\ new.quantity = left /\ new.equipment = r.equipment
      BY <1>0 DEF Request
    <2>6. Become(h, new)
      BY <2>1 DEF left
    <2> HIDE DEF new
    <2>7. GoesOn(h, new)
      BY <2>2, <2>4, <2>5, <2>6 DEF GoesOn, KnowsIn, RowSteps
    <2> QED
      BY <1>0, <2>2, <2>7, RowsUntouched DEF StakeStep
  <1>4. CASE AddSumInventory(h)
    <2> DEFINE new == [r EXCEPT !.pc = "insert"]
    <2>1. PICK sum \in Sums(inventory_allocation, r.equipment) :
            IF NonNegative(r.quantity - sum) < r.needed THEN Answer(h) ELSE Become(h, new)
      BY <1>4 DEF AddSumInventory, Goto
    <2>2. UNCHANGED <<show_equipment, auto_increment>>
      BY <1>4 DEF AddSumInventory, tables
    <2>3. sum \in Nat /\ r.quantity \in Int /\ r.needed \in 1..MaxQuantity
      BY <1>0, <1>4, SumType DEF Sums, Request, RequestOK, AddSumInventory, At, AddSteps
    <2>4. CASE Answer(h)
      BY <1>0, <2>2, <2>4, RowsUntouched, IdleGoesOn DEF StakeStep
    <2>5. CASE ~(NonNegative(r.quantity - sum) < r.needed)
      <3>1. equipment[r.equipment].quantity \in Nat
        BY <1>0, <1>4, StockType DEF AddSumInventory, At, RequestOK, AddSteps
      <3>2. r.quantity <= equipment[r.equipment].quantity
        BY <1>0, <1>4 DEF KnowsIn, AddSumInventory, At
      <3>3. r.needed <= equipment[r.equipment].quantity
        BY <2>3, <2>5, <3>1, <3>2, TablesAssumption DEF NonNegative
      <3>4. new.pc = "insert" /\ new.needed = r.needed /\ new.equipment = r.equipment
        BY <1>0 DEF Request
      <3>5. Become(h, new)
        BY <2>1, <2>5
      <3> HIDE DEF new
      <3>6. GoesOn(h, new)
        BY <2>2, <3>3, <3>4, <3>5 DEF GoesOn, KnowsIn, RowSteps
      <3> QED
        BY <1>0, <2>2, <3>6, RowsUntouched DEF StakeStep
    <2> QED
      BY <2>1, <2>4, <2>5
  <1>5. CASE AddInsert(h)
    <2> DEFINE id == auto_increment + 1
               row == [show_id |-> r.show, equipment_id |-> r.equipment,
                       quantity_needed |-> r.needed, quantity_allocated |-> r.needed,
                       status |-> "allocated"]
    <2>1. Answer(h)
      BY <1>5 DEF AddInsert
    <2>2. CASE UNCHANGED <<show_equipment, auto_increment>>
      BY <1>0, <2>1, <2>2, RowsUntouched, IdleGoesOn DEF StakeStep
    <2>3. CASE /\ auto_increment' = id
               /\ show_equipment' = Insert(show_equipment, id, row)
      <3>1. auto_increment \in Int
        BY <1>0, TablesAssumption DEF TypeOK
      <3>2. /\ row.status \notin OutStatuses /\ row.equipment_id = r.equipment
            /\ row.quantity_allocated = r.needed
        BY DEF OutStatuses
      <3>3. r.needed <= equipment[r.equipment].quantity
        BY <1>0, <1>5 DEF KnowsIn, AddInsert, At
      <3>4. id > auto_increment /\ auto_increment <= id
        BY <3>1
      <3>a. id \notin DOMAIN show_equipment
        BY <1>0, <3>1, TablesAssumption DEF TypeOK
      <3> HIDE DEF id, row
      <3>5. RowsAfter(h)
        BY <2>3, <3>2, <3>3, <3>4, <3>a DEF RowsAfter, Insert
      <3> QED
        BY <2>1, <3>5, IdleGoesOn DEF StakeStep
    <2> QED
      BY <1>5, <2>2, <2>3 DEF AddInsert
  <1> QED
    BY <1>1, <1>2, <1>3, <1>4, <1>5 DEF Add

LEMMA StakeDeleteShow ==
  ASSUME StakeInv, NEW h \in Handlers, DeleteShow(h)
  PROVE  StakeStep(h)
  <1>0. TypeOK
    BY DEF StakeInv
  <1>1. ASSUME NEW s \in Shows, DeleteShowRead(h, s)
        PROVE  StakeStep(h)
    <2> DEFINE new == [Idle EXCEPT !.pc = "destroy", !.op = "delete_show", !.show = s]
    <2>1. Become(h, new) /\ UNCHANGED <<show_equipment, auto_increment>>
      BY <1>1 DEF DeleteShowRead, tables
    <2>2. new.pc = "destroy"
      BY DEF Idle
    <2> HIDE DEF new
    <2>3. GoesOn(h, new)
      BY <2>1, <2>2 DEF GoesOn, KnowsIn, RowSteps
    <2> QED
      BY <1>0, <2>1, <2>3, RowsUntouched DEF StakeStep
  <1>2. CASE DeleteShowWrite(h)
    <2>1. auto_increment \in Int
      BY <1>0, TablesAssumption DEF TypeOK
    <2>2. RowsAfter(h)
      BY <1>2, <2>1 DEF DeleteShowWrite, RowsAfter, DeleteRows
    <2> QED
      BY <1>2, <2>2, IdleGoesOn DEF DeleteShowWrite, StakeStep
  <1> QED
    BY <1>1, <1>2 DEF DeleteShow
(* A handler on one row reads it. *)
LEMMA StakeBegin ==
  ASSUME StakeInv, NEW h \in Handlers, NEW op, NEW id \in DOMAIN show_equipment,
         NEW needed, NEW allocated, NEW status, NEW quantity, NEW pc,
         Begin(h, op, id, needed, allocated, status, quantity, pc),
         UNCHANGED <<tables, auto_increment>>, pc \in RowSteps,
         op # "remove" => quantity = show_equipment[id].quantity_allocated,
         pc = "write" /\ status \in OutStatuses => show_equipment[id].status = status
  PROVE  StakeStep(h)
  <1> DEFINE e == show_equipment[id].equipment_id
             new == [Idle EXCEPT !.pc = pc, !.op = op, !.id = id, !.equipment = e,
                                 !.needed = needed, !.allocated = allocated,
                                 !.status = status, !.quantity = quantity]
  <1>1. /\ new.pc = pc /\ new.op = op /\ new.id = id /\ new.equipment = e
        /\ new.status = status /\ new.quantity = quantity
    BY DEF Idle
  <1>2. Become(h, new)
    BY DEF Begin
  <1>3. TypeOK /\ id <= auto_increment
    BY TablesAssumption DEF StakeInv, TypeOK
  <1> HIDE DEF new
  <1>4. GoesOn(h, new)
    BY <1>1, <1>2, <1>3 DEF GoesOn, KnowsIn, RowSteps, tables
  <1> QED
    BY <1>3, <1>4, RowsUntouched DEF StakeStep, tables

(* The UPDATE of a row keeps its item and quantity, and brings it out only *)
(* if the slot was about to.                                               *)
LEMMA StakeUpdate ==
  ASSUME StakeInv, NEW h \in Handlers, NEW new,
         show_equipment' = Update(show_equipment, requests[h].id, new),
         auto_increment' = auto_increment, requests[h].pc = "write",
         requests[h].id \in DOMAIN show_equipment =>
            /\ new.equipment_id = show_equipment[requests[h].id].equipment_id
            /\ new.quantity_allocated = show_equipment[requests[h].id].quantity_allocated
            /\ new.status = requests[h].status
  PROVE  RowsAfter(h)
  <1>1. auto_increment \in Int
    BY TablesAssumption DEF StakeInv, TypeOK
  <1> QED
    BY <1>1 DEF RowsAfter, Update, Promises

LEMMA StakeChangeRow ==
  ASSUME StakeInv, ValidatedOnly, NEW h \in Handlers, ChangeRow(h)
  PROVE  StakeStep(h)
  <1> DEFINE r == requests[h]
             row == show_equipment[r.id]
  <1>0. /\ TypeOK /\ r \in Request /\ RequestOK(r) /\ auto_increment \in Int
        /\ KnowsIn(show_equipment, equipment, auto_increment, r)
    BY TablesAssumption DEF StakeInv, ClosuresKnow, TypeOK
  <1>1. ASSUME NEW id \in RowIds, NEW status \in ShowStatuses,
               UpdateRead(h, "update_status", id, Omitted, Omitted, status)
        PROVE  StakeStep(h)
    <2> DEFINE old == show_equipment[id]
               quantity == FirstGiven(Omitted, Omitted, old.quantity_allocated)
    <2>1. /\ id \in DOMAIN show_equipment /\ UNCHANGED <<tables, auto_increment>>
          /\ Begin(h, "update_status", id, Omitted, Omitted, status, quantity,
                   FirstCheck(old, status))
      BY <1>1 DEF UpdateRead
    <2>2. quantity = old.quantity_allocated
      BY DEF FirstGiven
    <2>3. /\ FirstCheck(old, status) = "write" => old.status = status
          /\ FirstCheck(old, status) \in RowSteps
      BY DEF FirstCheck, RowSteps
    <2> HIDE DEF quantity
    <2> QED
      BY <2>1, <2>2, <2>3, StakeBegin
  <1>2. ASSUME NEW op \in {"update", "legacy"}, NEW id \in RowIds,
               NEW needed, NEW allocated, NEW status,
               UpdateRead(h, op, id, needed, allocated, status)
        PROVE  FALSE
    BY <1>2 DEF UpdateRead, ValidatedOnly
  <1>3. ASSUME NEW op \in {"checkout", "return"}, NEW id \in RowIds, MoveRead(h, op, id)
        PROVE  StakeStep(h)
    BY <1>3, StakeBegin DEF MoveRead, RowSteps
  <1>4. ASSUME NEW id \in RowIds, RemoveRead(h, id)
        PROVE  StakeStep(h)
    BY <1>4, StakeBegin DEF RemoveRead, OutStatuses, NoStatus, RowSteps
  <1>5. CASE ValidateOwnRow(h)
    <2> DEFINE new == [r EXCEPT !.pc = "others"]
    <2>1. /\ UNCHANGED <<show_equipment, auto_increment>> /\ r.pc \in RowSteps
          /\ Become(h, new) \/ Answer(h)
      BY <1>5 DEF ValidateOwnRow, At, Goto, RowSteps, tables
    <2>2. /\ new.pc = "others" /\ new.op = r.op /\ new.id = r.id
          /\ new.equipment = r.equipment /\ new.status = r.status /\ new.quantity = r.quantity
      BY <1>0 DEF Request
    <2> HIDE DEF new
    <2>3. CASE Become(h, new)
      <3>1. GoesOn(h, new)
        BY <1>0, <2>1, <2>2, <2>3 DEF GoesOn, KnowsIn
      <3> QED
        BY <1>0, <2>1, <3>1, RowsUntouched DEF StakeStep
    <2> QED
      BY <1>0, <2>1, <2>3, RowsUntouched, IdleGoesOn DEF StakeStep
  <1>6. CASE ValidateOthers(h)
    <2> DEFINE new == [r EXCEPT !.pc = "write"]
    <2>1. /\ UNCHANGED <<show_equipment, auto_increment>> /\ r.pc = "others"
          /\ \/ /\ Become(h, new)
                /\ OtherAllocationsAllow(r.equipment, r.id, r.status, r.quantity)
             \/ Answer(h)
      BY <1>6 DEF ValidateOthers, At, Goto, tables
    <2>2. /\ new.pc = "write" /\ new.op = r.op /\ new.id = r.id
          /\ new.equipment = r.equipment /\ new.status = r.status /\ new.quantity = r.quantity
      BY <1>0 DEF Request
    <2> HIDE DEF new
    <2>3. CASE /\ Become(h, new)
               /\ OtherAllocationsAllow(r.equipment, r.id, r.status, r.quantity)
      <3>1. r.op # "remove" /\ r.pc \in RowSteps
        BY <1>0, <2>1 DEF RequestOK, RowSteps
      <3>2. ASSUME r.id \in DOMAIN show_equipment, r.status \in OutStatuses
            PROVE  RowFits(r.id)
        <4>1. r.equipment = row.equipment_id /\ r.quantity = row.quantity_allocated
          BY <1>0, <3>1, <3>2 DEF KnowsIn
        <4> QED
          BY <1>0, <2>3, <3>2, <4>1, ValidatedFits
      <3>3. KnowsIn(show_equipment', equipment, auto_increment', new)
        BY <1>0, <2>1, <2>2, <3>1 DEF KnowsIn
      <3>4. GoesOn(h, new)
        BY <2>1, <2>2, <2>3, <3>2, <3>3 DEF GoesOn
      <3> QED
        BY <1>0, <2>1, <3>4, RowsUntouched DEF StakeStep
    <2> QED
      BY <1>0, <2>1, <2>3, RowsUntouched, IdleGoesOn DEF StakeStep
  <1>7. CASE UpdateWrite(h)
    <2> DEFINE new == [row EXCEPT !.quantity_needed = Given(r.needed, @),
                                  !.quantity_allocated = Given(r.allocated, @),
                                  !.status = r.status]
    <2>1. /\ r.pc = "write" /\ r.needed = Omitted /\ r.allocated = Omitted
      BY <1>0, <1>7 DEF UpdateWrite, At, RequestOK, RowSteps, ValidatedOnly
    <2>2. ASSUME r.id \in DOMAIN show_equipment
          PROVE  /\ new.status = r.status /\ new.equipment_id = row.equipment_id
                 /\ new.quantity_allocated = row.quantity_allocated
      <3>1. row \in ShowEquipmentRow
        BY <1>0, <2>2 DEF TypeOK, TablesTypeOK, IsTable
      <3> QED
        BY <2>1, <3>1 DEF ShowEquipmentRow, Given
    <2>3. /\ show_equipment' = Update(show_equipment, r.id, new)
          /\ auto_increment' = auto_increment /\ Answer(h)
      BY <1>7 DEF UpdateWrite
    <2> HIDE DEF new
    <2>4. RowsAfter(h)
      BY <2>1, <2>2, <2>3, StakeUpdate
    <2> QED
      BY <2>3, <2>4, IdleGoesOn DEF StakeStep
  <1>8. CASE MoveWriteRow(h)
    <2> DEFINE new == [row EXCEPT !.status = r.status]
               next == [r EXCEPT !.pc = "equipment"]
    <2>1. r.pc = "write" /\ r.pc \in RowSteps
      BY <1>8 DEF MoveWriteRow, At, RowSteps
    <2>2. ASSUME r.id \in DOMAIN show_equipment
          PROVE  /\ new.status = r.status /\ new.equipment_id = row.equipment_id
                 /\ new.quantity_allocated = row.quantity_allocated
      <3>1. row \in ShowEquipmentRow
        BY <1>0, <2>2 DEF TypeOK, TablesTypeOK, IsTable
      <3> QED
        BY <3>1 DEF ShowEquipmentRow
    <2>3. /\ show_equipment' = Update(show_equipment, r.id, new)
          /\ auto_increment' = auto_increment /\ Become(h, next)
      BY <1>8 DEF MoveWriteRow, Goto
    <2>4. /\ next.pc = "equipment" /\ next.op = r.op /\ next.id = r.id
          /\ next.equipment = r.equipment /\ next.quantity = r.quantity
      BY <1>0 DEF Request
    <2> HIDE DEF new, next
    <2>5. RowsAfter(h)
      BY <2>1, <2>2, <2>3, StakeUpdate
    <2>6. KnowsIn(show_equipment', equipment, auto_increment', next)
      BY <1>0, <2>1, <2>2, <2>3, <2>4 DEF KnowsIn, Update
    <2>7. GoesOn(h, next)
      BY <2>3, <2>4, <2>6 DEF GoesOn
    <2> QED
      BY <2>5, <2>7 DEF StakeStep
  <1>9. CASE MoveWriteEquipment(h)
    BY <1>0, <1>9, RowsUntouched, IdleGoesOn DEF MoveWriteEquipment, StakeStep
  <1>10. CASE RemoveWrite(h)
    <2>1. RowsAfter(h)
      BY <1>0, <1>10 DEF RemoveWrite, RowsAfter, DeleteRows
    <2> QED
      BY <1>10, <2>1, IdleGoesOn DEF RemoveWrite, StakeStep
  <1> QED
    BY <1>1, <1>2, <1>3, <1>4, <1>5, <1>6, <1>7, <1>8, <1>9, <1>10 DEF ChangeRow
(* The other slots promise at most one row each. *)
LEMMA PromisedByOthers ==
  ASSUME NEW rq, NEW h \in Handlers, NEW q \in Nat
  PROVE  LET T == {<<rq[p[1]].id, p[2]>> : p \in (Handlers \ {h}) \X (1..q)}
         IN  IsFiniteSet(T) /\ Cardinality(T) <= (Cardinality(Handlers) - 1) * q
  <1> DEFINE P == (Handlers \ {h}) \X (1..q)
             f == [p \in P |-> <<rq[p[1]].id, p[2]>>]
             T == {<<rq[p[1]].id, p[2]>> : p \in P}
  <1>1. IsFiniteSet(Handlers \ {h}) /\ Cardinality(Handlers \ {h}) = Cardinality(Handlers) - 1
    BY HandlersAssumption, FS_RemoveElement
  <1>2. IsFiniteSet(1..q) /\ Cardinality(1..q) = q
    BY FS_Interval
  <1>3. IsFiniteSet(P) /\ Cardinality(P) = (Cardinality(Handlers) - 1) * q
    BY <1>1, <1>2, FS_Product
  <1>4. f \in Surjection(P, T)
    BY DEF Surjection
  <1> HIDE DEF f, P, T
  <1>5. IsFiniteSet(T) /\ Cardinality(T) <= Cardinality(P)
    BY <1>3, <1>4, FS_Surjection
  <1> QED
    BY <1>3, <1>5 DEF T, P

(* A slot has validated its row: the test covers the row and those that are *)
(* out, and each of the other slots promises at most the stock once.       *)
LEMMA ValidatedStake ==
  ASSUME StakeInv, NEW h \in Handlers, NEW r, Become(h, r), UNCHANGED show_equipment,
         r.id \in DOMAIN show_equipment, RowFits(r.id)
  PROVE  Cardinality(AtStake(show_equipment, requests', show_equipment[r.id].equipment_id))
            <= Cardinality(Handlers) * equipment[show_equipment[r.id].equipment_id].quantity
  <1> DEFINE se == show_equipment
             row == se[r.id]
             e == row.equipment_id
             S == equipment[e].quantity
             q == row.quantity_allocated
             N == Cardinality(Handlers)
             Out == Units(OtherRows(se, r.id), e, OutStatuses)
             Mine == {r.id} \X (1..q)
             Theirs == {<<requests[p[1]].id, p[2]>> : p \in (Handlers \ {h}) \X (1..S)}
             After == AtStake(se, requests', e)
  <1>0. TypeOK /\ IsTable(se, ShowEquipmentRow) /\ row \in ShowEquipmentRow
    BY DEF StakeInv, TypeOK, TablesTypeOK, IsTable
  <1>1. e \in Equipment /\ S \in Nat /\ q \in Nat
    BY <1>0, StockType, TablesAssumption DEF ShowEquipmentRow, Quantities
  <1>2. N \in Nat /\ Cardinality(Handlers) \in Nat
    BY HandlersAssumption, FS_CardinalityType
  <1>3. IsFiniteSet(Out) /\ Cardinality(Out) \in Nat /\ Cardinality(Out) + q <= S
    <2>1. IsTable(OtherRows(se, r.id), ShowEquipmentRow)
      BY <1>0, DeleteOK DEF OtherRows
    <2> QED
      BY <2>1, UnitsFinite DEF RowFits, SumAllocated
  <1>4. IsFiniteSet(Mine) /\ Cardinality(Mine) = q
    <2>1. IsFiniteSet({r.id}) /\ Cardinality({r.id}) = 1
      BY FS_Singleton
    <2>2. IsFiniteSet(1..q) /\ Cardinality(1..q) = q
      <3> HIDE DEF q
      <3>1. IsFiniteSet(1..q) /\ Cardinality(1..q) = IF 1 > q THEN 0 ELSE q - 1 + 1
        BY <1>1, FS_Interval
      <3> QED
        BY <1>1, <3>1
    <2>3. IsFiniteSet(Mine) /\ Cardinality(Mine) = Cardinality({r.id}) * Cardinality(1..q)
      BY <2>1, <2>2, FS_Product
    <2> QED
      BY <1>1, <2>1, <2>2, <2>3
  <1>5. IsFiniteSet(Theirs) /\ Cardinality(Theirs) <= (N - 1) * S
    BY <1>1, PromisedByOthers
  <1>6. After \subseteq (Out \cup Mine) \cup Theirs
    <2> SUFFICES ASSUME NEW u \in After
                 PROVE  u \in (Out \cup Mine) \cup Theirs
      OBVIOUS
    <2>1. /\ u \in (DOMAIN se) \X (1..MaxQuantity)
          /\ se[u[1]].equipment_id = e /\ u[2] <= se[u[1]].quantity_allocated
          /\ se[u[1]].status \in OutStatuses \/ \E g \in Handlers : Promises(requests'[g], u[1])
      BY DEF AtStake
    <2>2. /\ u = <<u[1], u[2]>> /\ u[1] \in DOMAIN se /\ u[2] \in 1..MaxQuantity
          /\ se[u[1]] \in ShowEquipmentRow
      BY <1>0, <2>1 DEF IsTable
    <2>3. CASE u[1] = r.id
      <3>1. u[2] \in 1..q
        BY <1>1, <2>1, <2>2, <2>3, TablesAssumption
      <3> QED
        BY <2>2, <2>3, <3>1
    <2>4. CASE u[1] # r.id /\ se[u[1]].status \in OutStatuses
      <3>1. /\ u[1] \in DOMAIN OtherRows(se, r.id)
            /\ OtherRows(se, r.id)[u[1]] = se[u[1]]
        BY <2>2, <2>4 DEF OtherRows, DeleteRows
      <3> QED
        BY <2>1, <2>2, <2>4, <3>1 DEF Units
    <2>5. ASSUME u[1] # r.id, NEW g \in Handlers, Promises(requests'[g], u[1])
          PROVE  u \in Theirs
      <3>1. g # h /\ requests'[g] = requests[g]
        BY <1>0, <2>5 DEF Become, TypeOK, Promises
      <3>2. requests[g].id = u[1]
        BY <2>5, <3>1 DEF Promises
      <3>3. se[u[1]].quantity_allocated <= S
        BY <2>1, <2>2 DEF StakeInv, RowWithinStock
      <3>4. u[2] \in 1..S
        BY <1>1, <2>1, <2>2, <3>3, TablesAssumption DEF ShowEquipmentRow, Quantities
      <3>5. <<g, u[2]>> \in (Handlers \ {h}) \X (1..S)
        BY <3>1, <3>4
      <3>6. u = <<requests[<<g, u[2]>>[1]].id, <<g, u[2]>>[2]>>
        BY <2>2, <3>2
      <3> QED
        BY <3>5, <3>6
    <2> QED
      BY <2>1, <2>3, <2>4, <2>5
  <1> HIDE DEF After, Out, Mine, Theirs
  <1>7. IsFiniteSet(Out \cup Mine) /\ Cardinality(Out \cup Mine) <= S
    <2>1. IsFiniteSet(Out \cap Mine) /\ Cardinality(Out \cap Mine) \in Nat
      BY <1>3, FS_Subset, FS_CardinalityType
    <2>2. /\ IsFiniteSet(Out \cup Mine)
          /\ Cardinality(Out \cup Mine)
                = Cardinality(Out) + Cardinality(Mine) - Cardinality(Out \cap Mine)
      BY <1>3, <1>4, FS_Union
    <2> QED
      BY <1>1, <1>3, <1>4, <2>1, <2>2
  <1>8. /\ IsFiniteSet((Out \cup Mine) \cup Theirs)
        /\ Cardinality((Out \cup Mine) \cup Theirs)
              <= Cardinality(Out \cup Mine) + Cardinality(Theirs)
    <2>1. IsFiniteSet((Out \cup Mine) \cap Theirs) /\ Cardinality((Out \cup Mine) \cap Theirs) \in Nat
      BY <1>7, FS_Subset, FS_CardinalityType
    <2>2. Cardinality(Out \cup Mine) \in Nat /\ Cardinality(Theirs) \in Nat
      BY <1>5, <1>7, FS_CardinalityType
    <2>3. /\ IsFiniteSet((Out \cup Mine) \cup Theirs)
          /\ Cardinality((Out \cup Mine) \cup Theirs)
                = Cardinality(Out \cup Mine) + Cardinality(Theirs)
                    - Cardinality((Out \cup Mine) \cap Theirs)
      BY <1>5, <1>7, FS_Union
    <2> QED
      BY <2>1, <2>2, <2>3
  <1>9. /\ Cardinality(After) <= Cardinality((Out \cup Mine) \cup Theirs)
        /\ Cardinality(After) \in Nat
    BY <1>6, <1>8, FS_Subset, FS_CardinalityType
  <1>10. (N - 1) * S + S = N * S /\ (N - 1) * S \in Int /\ N * S \in Int
    <2>1. \A n, m \in Nat : /\ (n - 1) * m + m = n * m
                            /\ (n - 1) * m \in Int /\ n * m \in Int
      OBVIOUS
    <2> HIDE DEF N, S
    <2> QED
      BY <1>1, <1>2, <2>1
  <1>11. /\ Cardinality(Out \cup Mine) \in Nat /\ Cardinality(Theirs) \in Nat
         /\ Cardinality((Out \cup Mine) \cup Theirs) \in Nat
    BY <1>5, <1>7, <1>8, FS_CardinalityType
  <1> HIDE DEF N, S
  <1>12. Cardinality(After) <= N * S
    BY <1>1, <1>5, <1>7, <1>8, <1>9, <1>10, <1>11
  <1> QED
    BY <1>12 DEF After, N, S

(* Units at stake are finite. *)
LEMMA StakeFinite ==
  ASSUME TypeOK, NEW rq, NEW e
  PROVE  /\ IsFiniteSet(AtStake(show_equipment, rq, e))
         /\ Cardinality(AtStake(show_equipment, rq, e)) \in Nat
  <1>1. IsFiniteSet(DOMAIN show_equipment)
    <2>1. IsFiniteSet(1..MaxRows)
      BY TablesAssumption, FS_Interval
    <2>2. DOMAIN show_equipment \in SUBSET (1..MaxRows)
      BY DEF TypeOK, TablesTypeOK, IsTable, RowIds
    <2> QED
      BY <2>1, <2>2, FS_Subset
  <1>2. IsFiniteSet(1..MaxQuantity)
    BY TablesAssumption, FS_Interval
  <1>3. IsFiniteSet((DOMAIN show_equipment) \X (1..MaxQuantity))
    BY <1>1, <1>2, FS_Product
  <1>4. AtStake(show_equipment, rq, e) \subseteq (DOMAIN show_equipment) \X (1..MaxQuantity)
    BY DEF AtStake
  <1> QED
    BY <1>3, <1>4, FS_Subset, FS_CardinalityType

LEMMA StakeNext ==
  ASSUME ValidatedOnly, StakeInv, [Next]_vars
  PROVE  StakeInv'
  <1>0. TypeOK /\ TypeOK' /\ Stock' = Stock
    BY TypeNext, StockKept DEF StakeInv
  <1>1. \A e \in Equipment : equipment'[e].quantity = equipment[e].quantity
    <2> SUFFICES ASSUME NEW e \in Equipment PROVE equipment'[e].quantity = equipment[e].quantity
      OBVIOUS
    <2>1. Stock'[e] = Stock[e]
      BY <1>0
    <2> QED
      BY <2>1 DEF Stock
  <1>2. CASE UNCHANGED vars
    BY <1>0, <1>2 DEF StakeInv, vars, tables, ClosuresKnow, RowWithinStock, StakeBounded
  <1>3. ASSUME NEW h \in Handlers, StakeStep(h)
        PROVE  StakeInv'
    <2>1. RowsAfter(h)
      BY <1>3 DEF StakeStep
    <2>2. PICK r : GoesOn(h, r)
      BY <1>3 DEF StakeStep
    <2>3. \A g \in Handlers : requests'[g] = IF g = h THEN r ELSE requests[g]
      BY <1>0, <2>2 DEF GoesOn, Become, TypeOK
    <2>4. ClosuresKnow'
      <3> SUFFICES ASSUME NEW g \in Handlers
                   PROVE  KnowsIn(show_equipment', equipment', auto_increment', requests'[g])
        BY DEF ClosuresKnow
      <3>1. requests'[g] \in Request /\ RequestOK(requests'[g])
        BY <1>0 DEF TypeOK
      <3>2. requests'[g].pc \in AddSteps =>
               equipment'[requests'[g].equipment].quantity = equipment[requests'[g].equipment].quantity
        BY <1>1, <3>1 DEF RequestOK
      <3>3. CASE g = h
        BY <2>2, <2>3, <3>2, <3>3 DEF GoesOn, KnowsIn, AddSteps
      <3>4. CASE g # h
        <4>1. requests'[g] = requests[g] /\ KnowsIn(show_equipment, equipment, auto_increment, requests[g])
          BY <2>3, <3>4 DEF StakeInv, ClosuresKnow
        <4>2. auto_increment \in Int /\ auto_increment' \in Int /\ requests[g].id \in Int
          BY <1>0, <3>1, <4>1, TablesAssumption DEF TypeOK, Request, RowIds
        <4> QED
          BY <2>1, <3>2, <4>1, <4>2 DEF KnowsIn, RowsAfter, AddSteps
      <3> QED
        BY <3>3, <3>4
    <2>5. RowWithinStock'
      <3> SUFFICES ASSUME NEW k \in DOMAIN show_equipment'
                   PROVE  show_equipment'[k].quantity_allocated
                             <= equipment'[show_equipment'[k].equipment_id].quantity
        BY DEF RowWithinStock
      <3>1. show_equipment'[k].equipment_id \in Equipment
        BY <1>0 DEF TypeOK, TablesTypeOK, IsTable, ShowEquipmentRow
      <3> QED
        BY <1>1, <2>1, <3>1 DEF RowsAfter, StakeInv, RowWithinStock
    <2>6. StakeBounded'
      <3> SUFFICES ASSUME NEW e \in Equipment
                   PROVE  Cardinality(AtStake(show_equipment', requests', e))
                             <= Cardinality(Handlers) * equipment[e].quantity
        BY <1>1 DEF StakeBounded
      <3>1. CASE /\ UNCHANGED show_equipment /\ r.id \in DOMAIN show_equipment
                 /\ RowFits(r.id) /\ e = show_equipment[r.id].equipment_id
        BY <2>2, <3>1, ValidatedStake DEF GoesOn
      <3>2. ASSUME ~(/\ UNCHANGED show_equipment /\ r.id \in DOMAIN show_equipment
                     /\ RowFits(r.id) /\ e = show_equipment[r.id].equipment_id)
            PROVE  AtStake(show_equipment', requests', e) \subseteq AtStake(show_equipment, requests, e)
        <4> SUFFICES ASSUME NEW u \in AtStake(show_equipment', requests', e)
                     PROVE  u \in AtStake(show_equipment, requests, e)
          OBVIOUS
        <4> DEFINE k == u[1]
        <4>1. /\ u \in (DOMAIN show_equipment') \X (1..MaxQuantity)
              /\ show_equipment'[k].equipment_id = e
              /\ u[2] <= show_equipment'[k].quantity_allocated
              /\ \/ show_equipment'[k].status \in OutStatuses
                 \/ \E g \in Handlers : Promises(requests'[g], k)
          BY DEF AtStake
        <4>2. k \in DOMAIN show_equipment' /\ u[2] \in 1..MaxQuantity /\ u = <<k, u[2]>>
          BY <4>1
        <4> HIDE DEF k
        <4>3. k \in DOMAIN show_equipment
          <5>1. ASSUME k \notin DOMAIN show_equipment, NEW g \in Handlers, Promises(requests'[g], k)
                PROVE  FALSE
            <6>1. k > auto_increment
              BY <2>1, <4>2, <5>1 DEF RowsAfter
            <6>2. CASE g = h
              BY <2>2, <2>3, <4>2, <5>1, <6>2 DEF GoesOn, Promises
            <6>3. CASE g # h
              <7>1. requests[g].id = k /\ requests[g].id <= auto_increment
                BY <2>3, <5>1, <6>3 DEF Promises, StakeInv, ClosuresKnow, KnowsIn, RowSteps
              <7>2. auto_increment \in Int /\ k \in Int
                BY <1>0, <4>2, TablesAssumption DEF TypeOK, TablesTypeOK, IsTable, RowIds
              <7> QED
                BY <6>1, <7>1, <7>2
            <6> QED
              BY <6>2, <6>3
          <5> QED
            BY <2>1, <4>1, <4>2, <5>1 DEF RowsAfter
        <4>4. /\ show_equipment[k].equipment_id = e /\ u[2] <= show_equipment[k].quantity_allocated
              /\ show_equipment'[k].status \in OutStatuses =>
                    show_equipment[k].status \in OutStatuses \/ Promises(requests[h], k)
          BY <2>1, <4>1, <4>2, <4>3 DEF RowsAfter
        <4>5. ASSUME NEW g \in Handlers, Promises(requests'[g], k)
              PROVE  show_equipment[k].status \in OutStatuses \/ Promises(requests[g], k)
          <5>1. CASE g # h
            BY <2>3, <4>5, <5>1
          <5>2. CASE g = h
            <6>1. r.id = k /\ r.pc = "write" /\ r.status \in OutStatuses
              BY <2>3, <4>5, <5>2 DEF Promises
            <6> QED
              BY <2>2, <3>2, <4>3, <4>4, <6>1 DEF GoesOn
          <5> QED
            BY <5>1, <5>2
        <4>6. \/ show_equipment[k].status \in OutStatuses
              \/ \E g \in Handlers : Promises(requests[g], k)
          BY <4>1, <4>4, <4>5
        <4>7. u \in (DOMAIN show_equipment) \X (1..MaxQuantity) /\ u[1] = k
          BY <4>2, <4>3
        <4> QED
          BY <4>4, <4>6, <4>7 DEF AtStake
      <3>3. ASSUME AtStake(show_equipment', requests', e) \subseteq AtStake(show_equipment, requests, e)
            PROVE  Cardinality(AtStake(show_equipment', requests', e))
                      <= Cardinality(Handlers) * equipment[e].quantity
        <4> DEFINE Now == AtStake(show_equipment, requests, e)
                   After == AtStake(show_equipment', requests', e)
        <4>1. IsFiniteSet(Now) /\ Cardinality(Now) \in Nat
          BY <1>0, StakeFinite
        <4>2. Cardinality(Now) <= Cardinality(Handlers) * equipment[e].quantity
          BY DEF StakeInv, StakeBounded
        <4>3. After \subseteq Now
          BY <3>3
        <4> HIDE DEF Now, After
        <4>4. Cardinality(After) <= Cardinality(Now) /\ Cardinality(After) \in Nat
          BY <4>1, <4>3, FS_Subset, FS_CardinalityType
        <4>5. Cardinality(Handlers) * equipment[e].quantity \in Nat
          BY <1>0, StockType, HandlersAssumption, FS_CardinalityType
        <4>6. Cardinality(After) <= Cardinality(Handlers) * equipment[e].quantity
          <5> DEFINE B == Cardinality(Handlers) * equipment[e].quantity
          <5> HIDE DEF B
          <5>1. B \in Nat /\ Cardinality(Now) <= B
            BY <4>2, <4>5 DEF B
          <5>2. Cardinality(After) <= B
            BY <4>1, <4>4, <5>1
          <5> QED
            BY <5>2 DEF B
        <4> QED
          BY <4>6 DEF After
      <3> QED
        BY <3>1, <3>2, <3>3
    <2> QED
      BY <1>0, <2>4, <2>5, <2>6 DEF StakeInv
  <1>4. ASSUME NEW h \in Handlers, QueryFails(h)
        PROVE  StakeStep(h)
    BY <1>0, <1>4, RowsUntouched, IdleGoesOn DEF QueryFails, StakeStep, tables
  <1> QED
    BY <1>2, <1>3, <1>4, StakeAdd, StakeChangeRow, StakeDeleteShow DEF Next

LEMMA StakeInit == Init => StakeInv
  <1> SUFFICES ASSUME Init PROVE StakeInv
    OBVIOUS
  <1>1. TypeOK
    BY TypeInit
  <1>2. ClosuresKnow /\ RowWithinStock
    BY DEF Init, ClosuresKnow, KnowsIn, Idle, RowSteps, RowWithinStock
  <1>3. StakeBounded
    <2> SUFFICES ASSUME NEW e \in Equipment
                 PROVE  Cardinality(AtStake(show_equipment, requests, e))
                           <= Cardinality(Handlers) * equipment[e].quantity
      BY DEF StakeBounded
    <2>1. AtStake(show_equipment, requests, e) = {}
      BY DEF Init, AtStake
    <2>2. Cardinality(AtStake(show_equipment, requests, e)) = 0
      BY <2>1, FS_EmptySet
    <2>3. Cardinality(Handlers) \in Nat /\ equipment[e].quantity \in Nat
      BY <1>1, StockType, HandlersAssumption, FS_CardinalityType
    <2>4. \A n, m \in Nat : 0 <= n * m
      OBVIOUS
    <2> QED
      BY <2>2, <2>3, <2>4
  <1> QED
    BY <1>1, <1>2, <1>3 DEF StakeInv

(* Any number of requests at the same time, no endpoint that writes         *)
(* quantities, statements that may fail: the units in the hands of shows    *)
(* are at most the stock once for every request served at a time.          *)
THEOREM OverlapBounded ==
  ASSUME ValidatedOnly
  PROVE  Spec => []OutBounded
  <1>1. StakeInv /\ [Next]_vars => StakeInv'
    BY StakeNext
  <1>2. StakeInv => OutBounded
    <2> SUFFICES ASSUME StakeInv, NEW e \in Equipment
                 PROVE  SumAllocated(show_equipment, e, OutStatuses)
                           <= Cardinality(Handlers) * equipment[e].quantity
      BY DEF OutBounded
    <2> DEFINE B == Cardinality(Handlers) * equipment[e].quantity
               Out == Units(show_equipment, e, OutStatuses)
               Stake == AtStake(show_equipment, requests, e)
    <2>1. Out \subseteq Stake
      BY DEF Units, AtStake
    <2>2. IsFiniteSet(Stake) /\ Cardinality(Stake) \in Nat /\ Cardinality(Stake) <= B
      BY StakeFinite DEF StakeInv, StakeBounded
    <2>3. B \in Nat
      BY StockType, HandlersAssumption, FS_CardinalityType DEF StakeInv
    <2> HIDE DEF B, Out, Stake
    <2>4. Cardinality(Out) <= Cardinality(Stake) /\ Cardinality(Out) \in Nat
      BY <2>1, <2>2, FS_Subset, FS_CardinalityType
    <2>5. Cardinality(Out) <= B
      BY <2>2, <2>3, <2>4
    <2> QED
      BY <2>5 DEF B, Out, SumAllocated
  <1> QED
    BY <1>1, <1>2, StakeInit, PTL DEF Spec
=============================================================================
