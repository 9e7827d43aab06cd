---------------------- MODULE LocationAllocations_proofs ----------------------
(***************************************************************************)
(* Proofs about LocationAllocations, for any item, any number of           *)
(* locations, rows and units, and any number of requests served at the     *)
(* same time.                                                              *)
(***************************************************************************)
EXTENDS LocationAllocations, FiniteSetTheorems, TLAPS

(* What the model takes its constants to be.                               *)
PlacesSetUp ==
    /\ Item \in Equipment
    /\ IsFiniteSet(Locations) /\ IsFiniteSet(PlaceHandlers)
    /\ \A table \in ShowRows : IsTable(table, ShowEquipmentRow)

Active == {"allocated", "in-use"}
Placed(table) == SumAllocated(table, Item, Active)

-----------------------------------------------------------------------------
(***************************************************************************)
(* The inductive invariant.  Types: the item and the rows of shows stay as *)
(* they were, the rows are numbered without gaps, and what the handlers    *)
(* keep between two statements is well formed.                             *)
(***************************************************************************)
PlaceRow == [equipment_id : {Item}, quantity_allocated : 1..MaxQuantity,
             status : {"allocated", "returned"}]

RowsOK(table, where) ==
    /\ \E n \in 0..MaxRows : DOMAIN table = 1..n
    /\ table \in [DOMAIN table -> PlaceRow]
    /\ where \in [DOMAIN table -> Locations]

Fits(body) ==
    Cardinality({u \in body \X (1..MaxQuantity) : u[2] <= u[1].quantity}) <= MaxQuantity

CallOK(c, ids) ==
    /\ c.pc \in {"none", "insert", "update", "log", "commit"}
    /\ c.pc = "insert" => /\ c.place \in Locations /\ c.quantity \in 1..MaxQuantity
                          /\ c.by \in {"count", "guess"}
    /\ c.pc \in {"update", "log"} => c.row \in ids /\ c.at \in Locations
    /\ c.pc = "commit" => c.body \in Bodies /\ c.body # {} /\ Fits(c.body)

CallsOK(calls, ids) ==
    /\ DOMAIN calls = PlaceHandlers
    /\ \A h \in PlaceHandlers : CallOK(calls[h], ids)

LogOK(log, ids) == DOMAIN log \subseteq ids /\ log \in [DOMAIN log -> Locations]

ShapesOK ==
    /\ equipment = [e \in Equipment |-> [quantity |-> MaxQuantity, status |-> "available",
                                         installation_quantity |-> 0]]
    /\ shows \subseteq Shows /\ show_equipment \in ShowRows
    /\ RowsOK(inventory_allocation, placed)
    /\ CallsOK(place_calls, DOMAIN inventory_allocation)
    /\ LogOK(status_log, DOMAIN inventory_allocation)
    /\ doubtful \subseteq RowIds /\ outrun \in BOOLEAN
    /\ guessed \subseteq DOMAIN inventory_allocation

(* Nobody outrun: what is placed by a count fits, and what a request that  *)
(* counted is about to insert fits on top of it, as when the request read. *)
StockFor(table, calls) ==
    /\ Placed(table) <= MaxQuantity
    /\ \A h \in PlaceHandlers :
          calls[h].pc = "insert" /\ calls[h].by = "count"
            => calls[h].quantity + Placed(table) <= MaxQuantity
StockOK == ~outrun => StockFor(CountedRows, place_calls)

(* Two requests with one row make it doubtful; a row that is not doubtful  *)
(* is where its entry says or where the request about to log it put it.    *)
EntriesFor(log, where, calls, doubts) ==
    /\ \A g, h \in PlaceHandlers :
          g # h => RowsOf(calls[g]) \cap RowsOf(calls[h]) \subseteq doubts
    /\ \A h \in PlaceHandlers :
          calls[h].pc = "log" /\ calls[h].row \notin doubts => calls[h].at = where[calls[h].row]
    /\ \A r \in DOMAIN log \ doubts :
          \/ log[r] = where[r]
          \/ \E h \in PlaceHandlers : calls[h].pc = "log" /\ calls[h].row = r
EntriesOK == EntriesFor(status_log, placed, place_calls, doubtful)

PlaceInv == ShapesOK /\ StockOK /\ EntriesOK

-----------------------------------------------------------------------------
(* Helpers. *)
LEMMA TotalIs ==
  ASSUME PlacesSetUp, ShapesOK
  PROVE  Total = MaxQuantity
  BY DEF PlacesSetUp, ShapesOK, Total

LEMMA Became ==
  ASSUME NEW ids, CallsOK(place_calls, ids), NEW h \in PlaceHandlers, NEW c, Become(h, c)
  PROVE  /\ DOMAIN place_calls' = PlaceHandlers
         /\ place_calls'[h] = c
         /\ \A g \in PlaceHandlers \ {h} : place_calls'[g] = place_calls[g]
  BY DEF CallsOK, Become

LEMMA CallsAfter ==
  ASSUME NEW ids, CallsOK(place_calls, ids), NEW h \in PlaceHandlers, NEW c, Become(h, c),
         NEW more, ids \subseteq more, CallOK(c, more)
  PROVE  /\ CallsOK(place_calls', more)
         /\ doubtful \subseteq RowIds /\ more \subseteq RowIds => doubtful' \subseteq RowIds
  <1>1. RowsOf(c) \subseteq more
    BY DEF CallOK, RowsOf
  <1>2. doubtful' = doubtful \cup (RowsOf(c) \cap BusyRows(h))
    BY DEF Become
  <1> QED
    BY <1>1, <1>2, Became DEF CallsOK, CallOK

LEMMA RowsInIds ==
  ASSUME NEW table, NEW where, RowsOK(table, where)
  PROVE  DOMAIN table \subseteq RowIds
  BY TablesAssumption DEF RowsOK, RowIds

LEMMA NoCallOK == \A ids : CallOK(NoCall, ids)
  BY DEF CallOK, NoCall

(* The rows are numbered without gaps, so the next one is new. *)
LEMMA Numbered ==
  ASSUME NEW table, NEW where, RowsOK(table, where)
  PROVE  /\ Cardinality(DOMAIN table) \in 0..MaxRows
         /\ DOMAIN table = 1..Cardinality(DOMAIN table)
  <1>1. PICK n \in 0..MaxRows : DOMAIN table = 1..n
    BY DEF RowsOK
  <1>2. IsFiniteSet(1..n) /\ Cardinality(1..n) = IF 1 > n THEN 0 ELSE n - 1 + 1
    BY TablesAssumption, FS_Interval
  <1>3. Cardinality(1..n) = n
    BY <1>2, TablesAssumption
  <1> QED
    BY <1>1, <1>3

LEMMA BodyFinite ==
  ASSUME PlacesSetUp, NEW body \in Bodies
  PROVE  IsFiniteSet(body) /\ Cardinality(body) \in Nat
  <1>1. IsFiniteSet(1..MaxQuantity)
    BY TablesAssumption, FS_Interval
  <1>2. IsFiniteSet(Locations \X (1..MaxQuantity))
    BY <1>1, FS_Product DEF PlacesSetUp
  <1> DEFINE f == [b \in body |-> <<b.place, b.quantity>>]
  <1>3. \A b \in body : b = [place |-> b.place, quantity |-> b.quantity]
                        /\ b.place \in Locations /\ b.quantity \in 1..MaxQuantity
    BY DEF Bodies
  <1>4. f \in [body -> Locations \X (1..MaxQuantity)]
    BY <1>3
  <1>5. \A b, c \in body : f[b] = f[c] => b = c
    BY <1>3
  <1>6. f \in Injection(body, Locations \X (1..MaxQuantity))
    BY <1>4, <1>5 DEF Injection, IsInjective
  <1>7. IsFiniteSet(body)
    BY <1>2, <1>6, FS_Injection
  <1> QED
    BY <1>7, FS_CardinalityType

-----------------------------------------------------------------------------
(***************************************************************************)
(* Counting the units that are placed.                                     *)
(***************************************************************************)
LEMMA PlacedFinite ==
  ASSUME NEW table, IsFiniteSet(DOMAIN table), NEW e, NEW S
  PROVE  /\ IsFiniteSet(Units(table, e, S))
         /\ SumAllocated(table, e, S) \in Nat
  <1>0. IsFiniteSet(1..MaxQuantity)
    BY TablesAssumption, FS_Interval
  <1>1. IsFiniteSet((DOMAIN table) \X (1..MaxQuantity))
    BY <1>0, FS_Product
  <1>2. IsFiniteSet(Units(table, e, S))
    BY <1>1, FS_Subset DEF Units
  <1> QED
    BY <1>2, FS_CardinalityType DEF SumAllocated

LEMMA RowsFinite ==
  ASSUME NEW table, NEW where, RowsOK(table, where)
  PROVE  IsFiniteSet(DOMAIN table)
  BY Numbered, TablesAssumption, FS_Interval

(* Fewer units have a smaller sum. *)
LEMMA PlacedMonotone ==
  ASSUME NEW T, IsFiniteSet(DOMAIN T), NEW U, NEW e, NEW S, NEW R,
         Units(U, e, R) \subseteq Units(T, e, S)
  PROVE  SumAllocated(U, e, R) <= SumAllocated(T, e, S)
  <1>1. IsFiniteSet(Units(T, e, S))
    BY PlacedFinite
  <1> QED
    BY <1>1, FS_Subset DEF SumAllocated

(* The counted rows are some of the rows. *)
LEMMA CountedFinite ==
  ASSUME RowsOK(inventory_allocation, placed)
  PROVE  /\ IsFiniteSet(DOMAIN CountedRows)
         /\ DOMAIN CountedRows = DOMAIN inventory_allocation \ guessed
         /\ Placed(CountedRows) \in Nat
         /\ Placed(inventory_allocation) \in Nat
         /\ Placed(CountedRows) <= Placed(inventory_allocation)
  <1>1. IsFiniteSet(DOMAIN inventory_allocation)
    BY RowsFinite
  <1>2. DOMAIN CountedRows = DOMAIN inventory_allocation \ guessed
    BY DEF CountedRows, DeleteRows
  <1>3. IsFiniteSet(DOMAIN CountedRows)
    BY <1>1, <1>2, FS_Subset
  <1>4. Placed(CountedRows) \in Nat /\ Placed(inventory_allocation) \in Nat
    BY <1>1, <1>3, PlacedFinite DEF Placed
  <1>5. Units(CountedRows, Item, Active) \subseteq Units(inventory_allocation, Item, Active)
    BY DEF Units, CountedRows, DeleteRows
  <1>6. Placed(CountedRows) <= Placed(inventory_allocation)
    BY <1>1, <1>5, PlacedMonotone DEF Placed
  <1> QED
    BY <1>2, <1>3, <1>4, <1>6

LEMMA CountedFiniteNext ==
  ASSUME RowsOK(inventory_allocation, placed)'
  PROVE  /\ IsFiniteSet(DOMAIN CountedRows')
         /\ Placed(CountedRows') \in Nat
         /\ Placed(inventory_allocation') \in Nat
         /\ Placed(CountedRows') <= Placed(inventory_allocation')
  <1>1. (RowsOK(inventory_allocation, placed)
          => /\ IsFiniteSet(DOMAIN CountedRows)
             /\ Placed(CountedRows) \in Nat
             /\ Placed(inventory_allocation) \in Nat
             /\ Placed(CountedRows) <= Placed(inventory_allocation))'
    BY CountedFinite, PTL
  <1> QED
    BY <1>1 DEF Placed

LEMMA CountedSame ==
  ASSUME UNCHANGED <<inventory_allocation, guessed>>
  PROVE  CountedRows' = CountedRows
  BY DEF CountedRows

(* A new row is counted unless its request guessed. *)
LEMMA CountedInsert ==
  ASSUME guessed \subseteq DOMAIN inventory_allocation,
         NEW id, id \notin DOMAIN inventory_allocation, NEW row,
         inventory_allocation' = Insert(inventory_allocation, id, row)
  PROVE  /\ guessed' = guessed \cup {id} => CountedRows' = CountedRows
         /\ guessed' = guessed => CountedRows' = Insert(CountedRows, id, row)
         /\ id \notin DOMAIN CountedRows
  BY DEF CountedRows, DeleteRows, Insert

(* Returning a row does not raise what is placed. *)
LEMMA PlacedAfterReturn ==
  ASSUME NEW T, IsFiniteSet(DOMAIN T), NEW id \in DOMAIN T, T[id] \in PlaceRow
  PROVE  Placed(Update(T, id, [T[id] EXCEPT !.status = "returned"])) <= Placed(T)
  <1> DEFINE row == [T[id] EXCEPT !.status = "returned"]
             U == Update(T, id, row)
  <1>1. ASSUME NEW u \in Units(U, Item, Active)
        PROVE  u \in Units(T, Item, Active)
    <2>1. /\ u \in (DOMAIN T) \X (1..MaxQuantity)
          /\ U[u[1]].equipment_id = Item /\ U[u[1]].status \in Active
          /\ u[2] <= U[u[1]].quantity_allocated
      BY DEF Units, Update
    <2>2. CASE u[1] = id
      <3>1. U[u[1]] = row
        BY <2>1, <2>2 DEF Update
      <3>2. row.status = "returned"
        BY DEF PlaceRow
      <3> QED
        BY <2>1, <3>1, <3>2 DEF Active
    <2>3. CASE u[1] # id
      <3>1. U[u[1]] = T[u[1]]
        BY <2>1, <2>3 DEF Update
      <3> QED
        BY <2>1, <3>1 DEF Units
    <2> QED
      BY <2>2, <2>3
  <1> QED
    BY <1>1, PlacedMonotone DEF Placed

LEMMA CountedAfterReturn ==
  ASSUME RowsOK(inventory_allocation, placed), NEW id \in DOMAIN inventory_allocation,
         inventory_allocation' = Update(inventory_allocation, id,
                                   [inventory_allocation[id] EXCEPT !.status = "returned"]),
         guessed' = guessed
  PROVE  Placed(CountedRows') <= Placed(CountedRows)
  <1> DEFINE row == [inventory_allocation[id] EXCEPT !.status = "returned"]
  <1>1. IsFiniteSet(DOMAIN CountedRows) /\ Placed(CountedRows) \in Nat
    BY CountedFinite
  <1>2. CASE id \in guessed
    <2>1. CountedRows' = CountedRows
      BY <1>2 DEF CountedRows, DeleteRows, Update
    <2> QED
      BY <1>1, <2>1
  <1>3. CASE id \notin guessed
    <2>1. id \in DOMAIN CountedRows /\ CountedRows[id] = inventory_allocation[id]
      BY <1>3 DEF CountedRows, DeleteRows
    <2>2. inventory_allocation[id] \in PlaceRow
      BY DEF RowsOK
    <2>3. CountedRows' = Update(CountedRows, id, row)
      <3>1. \A k \in DOMAIN inventory_allocation \ guessed :
               inventory_allocation'[k] = IF k = id THEN row ELSE inventory_allocation[k]
        BY DEF Update
      <3>2. DOMAIN inventory_allocation' = DOMAIN inventory_allocation
        BY DEF Update
      <3> QED
        BY <3>1, <3>2 DEF CountedRows, DeleteRows, Update
    <2>4. Placed(Update(CountedRows, id, [CountedRows[id] EXCEPT !.status = "returned"]))
             <= Placed(CountedRows)
      BY <1>1, <2>1, <2>2, PlacedAfterReturn
    <2> QED
      BY <2>1, <2>3, <2>4
  <1> QED
    BY <1>2, <1>3

(* A new row adds its units. *)
LEMMA PlacedAfterInsert ==
  ASSUME NEW T, IsFiniteSet(DOMAIN T), NEW id, id \notin DOMAIN T, NEW n \in Nat
  PROVE  Placed(Insert(T, id, Row(n, "allocated"))) <= Placed(T) + n
  <1> DEFINE Mine == {id} \X (1..n)
             Theirs == Units(T, Item, Active)
             U == Insert(T, id, Row(n, "allocated"))
             After == Units(U, Item, Active)
  <1>1. IsFiniteSet(Theirs) /\ Cardinality(Theirs) \in Nat
    BY PlacedFinite DEF SumAllocated
  <1>2. IsFiniteSet(1..n) /\ Cardinality(1..n) = n
    <2>1. IsFiniteSet(1..n) /\ Cardinality(1..n) = IF 1 > n THEN 0 ELSE n - 1 + 1
      BY FS_Interval
    <2> QED
      BY <2>1
  <1>3. IsFiniteSet(Mine) /\ Cardinality(Mine) = n
    <2>1. IsFiniteSet({id}) /\ Cardinality({id}) = 1
      BY FS_Singleton
    <2>2. IsFiniteSet(Mine) /\ Cardinality(Mine) = Cardinality({id}) * Cardinality(1..n)
      BY <1>2, <2>1, FS_Product
    <2> QED
      BY <1>2, <2>1, <2>2
  <1>4. After \subseteq Theirs \cup Mine
    <2> SUFFICES ASSUME NEW u \in After PROVE u \in Theirs \cup Mine
      OBVIOUS
    <2>1. /\ u \in (DOMAIN T \cup {id}) \X (1..MaxQuantity)
          /\ U[u[1]].equipment_id = Item /\ U[u[1]].status \in Active
          /\ u[2] <= U[u[1]].quantity_allocated
      BY DEF Units, Insert
    <2>2. CASE u[1] = id
      <3>1. U[u[1]] = Row(n, "allocated")
        BY <2>1, <2>2 DEF Insert
      <3>2. u[2] \in 1..n
        BY <2>1, <3>1, TablesAssumption DEF Row
      <3>3. u = <<u[1], u[2]>>
        BY <2>1
      <3> QED
        BY <2>2, <3>2, <3>3
    <2>3. CASE u[1] # id
      <3>1. U[u[1]] = T[u[1]]
        BY <2>1, <2>3 DEF Insert
      <3>2. u \in (DOMAIN T) \X (1..MaxQuantity)
        BY <2>1, <2>3
      <3> QED
        BY <2>1, <3>1, <3>2 DEF Units
    <2> QED
      BY <2>2, <2>3
  <1> HIDE DEF After, Theirs, Mine
  <1>5. /\ IsFiniteSet(Theirs \cup Mine)
        /\ Cardinality(Theirs \cup Mine)
              = Cardinality(Theirs) + Cardinality(Mine) - Cardinality(Theirs \cap Mine)
    BY <1>1, <1>3, FS_Union
  <1>6. Cardinality(Theirs \cap Mine) \in Nat
    BY <1>1, FS_Intersection, FS_CardinalityType
  <1>7. /\ Cardinality(After) <= Cardinality(Theirs \cup Mine)
        /\ Cardinality(After) \in Nat
    BY <1>4, <1>5, FS_Subset, FS_CardinalityType
  <1>8. Cardinality(After) <= Cardinality(Theirs) + n
    BY <1>1, <1>3, <1>5, <1>6, <1>7
  <1> QED
    BY <1>8 DEF Placed, SumAllocated, After, Theirs

(* When everything is returned and a body that fits is inserted, what is   *)
(* placed fits: each unit of a new row is one of the body.                 *)
LEMMA PlacedAfterSet ==
  ASSUME PlacesSetUp, NEW body \in Bodies, Fits(body),
         NEW last \in Nat, NEW new, NEW b \in [new -> body],
         \A i, j \in new : i # j => b[i] # b[j],
         NEW U, DOMAIN U = 1..last,
         \A r \in DOMAIN U : U[r].status \in Active =>
             r \in new /\ U[r].quantity_allocated = b[r].quantity
  PROVE  Placed(U) <= MaxQuantity
  <1> DEFINE Wanted == {u \in body \X (1..MaxQuantity) : u[2] <= u[1].quantity}
             Mine == Units(U, Item, Active)
             f == [u \in Mine |-> <<b[u[1]], u[2]>>]
  <1>1. IsFiniteSet(Wanted)
    <2>0. IsFiniteSet(1..MaxQuantity)
      BY TablesAssumption, FS_Interval
    <2>1. IsFiniteSet(body \X (1..MaxQuantity))
      BY <2>0, BodyFinite, FS_Product
    <2> QED
      BY <2>1, FS_Subset
  <1>2. IsFiniteSet(DOMAIN U)
    BY FS_Interval
  <1>3. \A u \in Mine : /\ u = <<u[1], u[2]>> /\ u[1] \in new /\ u[2] \in 1..MaxQuantity
                        /\ b[u[1]] \in body /\ u[2] <= b[u[1]].quantity
    BY DEF Units
  <1>4. f \in [Mine -> Wanted]
    BY <1>3
  <1>5. \A u, v \in Mine : f[u] = f[v] => u = v
    BY <1>3
  <1>6. f \in Injection(Mine, Wanted)
    BY <1>4, <1>5 DEF Injection, IsInjective
  <1>7. Cardinality(Mine) <= Cardinality(Wanted)
    BY <1>1, <1>6, FS_Injection
  <1>8. Cardinality(Mine) \in Nat /\ Cardinality(Wanted) \in Nat
    BY <1>1, <1>2, PlacedFinite, FS_CardinalityType
  <1> QED
    BY <1>7, <1>8, TablesAssumption DEF Fits, Placed, SumAllocated

-----------------------------------------------------------------------------
(***************************************************************************)
(* The invariant holds at the start and is kept by every statement.        *)
(***************************************************************************)
LEMMA PlaceInit ==
  ASSUME PlacesSetUp, Init
  PROVE  PlaceInv
  <1>1. DOMAIN inventory_allocation = {}
    BY DEF Init
  <1>2. RowsOK(inventory_allocation, placed)
    <2>1. DOMAIN inventory_allocation = 1..0 /\ 0 \in 0..MaxRows
      BY <1>1, TablesAssumption
    <2> QED
      BY <2>1 DEF RowsOK, Init
  <1>3. ShapesOK
    BY <1>1, <1>2, NoCallOK DEF ShapesOK, CallsOK, LogOK, Init
  <1>4. Placed(CountedRows) = 0
    <2>1. Units(CountedRows, Item, Active) = {}
      BY <1>1 DEF Units, CountedRows, DeleteRows
    <2> QED
      BY <2>1, FS_EmptySet DEF Placed, SumAllocated
  <1>5. StockOK
    BY <1>4, TablesAssumption DEF StockOK, StockFor, Init, NoCall
  <1>6. EntriesOK
    BY DEF EntriesOK, EntriesFor, RowsOf, Init, NoCall
  <1> QED
    BY <1>3, <1>5, <1>6 DEF PlaceInv

(* Entries stay right when a request that was not about to log takes a     *)
(* row, or none, and says of it where it is.                               *)
LEMMA EntriesKept ==
  ASSUME ShapesOK, EntriesOK, NEW h \in PlaceHandlers, NEW c,
         Become(h, c), ~At(h, "log"), c.pc = "log" => c.at = placed[c.row],
         UNCHANGED <<placed, status_log>>
  PROVE  EntriesOK'
  <1>1. /\ place_calls'[h] = c
        /\ \A g \in PlaceHandlers \ {h} : place_calls'[g] = place_calls[g]
    BY Became DEF ShapesOK
  <1>2. doubtful' = doubtful \cup (RowsOf(c) \cap BusyRows(h))
    BY DEF Become
  <1>3. \A g \in PlaceHandlers \ {h} : RowsOf(place_calls[g]) \subseteq BusyRows(h)
    BY DEF BusyRows
  <1>4. \A g, k \in PlaceHandlers :
           g # k => RowsOf(place_calls'[g]) \cap RowsOf(place_calls'[k]) \subseteq doubtful'
    BY <1>1, <1>2, <1>3 DEF EntriesOK, EntriesFor
  <1>5. \A g \in PlaceHandlers :
           place_calls'[g].pc = "log" /\ place_calls'[g].row \notin doubtful'
             => place_calls'[g].at = placed[place_calls'[g].row]
    BY <1>1, <1>2 DEF EntriesOK, EntriesFor
  <1>6. \A r \in DOMAIN status_log \ doubtful' :
           \/ status_log[r] = placed[r]
           \/ \E g \in PlaceHandlers : place_calls'[g].pc = "log" /\ place_calls'[g].row = r
    BY <1>1, <1>2 DEF EntriesOK, EntriesFor, At
  <1> QED
    BY <1>4, <1>5, <1>6 DEF EntriesOK, EntriesFor

LEMMA StockKept ==
  ASSUME ShapesOK, StockOK, NEW h \in PlaceHandlers, NEW c,
         Become(h, c), c.pc # "insert",
         UNCHANGED <<inventory_allocation, outrun, guessed>>
  PROVE  StockOK'
  BY Became, CountedSame DEF ShapesOK, StockOK, StockFor

(* What getEquipmentAvailability finds free, with all rows counted, fits   *)
(* on top of what is placed.                                               *)
LEMMA FreeWhenRead ==
  ASSUME PlacesSetUp, ShapesOK, NEW n \in 1..MaxQuantity, NEW shown, NEW taken,
         Counted(shown, taken), Enough(n, shown, taken)
  PROVE  n + Placed(CountedRows) <= MaxQuantity
  <1>1. IsFiniteSet(DOMAIN inventory_allocation)
    BY RowsFinite DEF ShapesOK
  <1>2. IsFiniteSet(DOMAIN show_equipment)
    <2>1. IsFiniteSet(1..MaxRows)
      BY TablesAssumption, FS_Interval
    <2> QED
      BY <2>1, FS_Subset DEF ShapesOK, PlacesSetUp, IsTable, RowIds
  <1>3. shown \in Nat
    BY <1>2, PlacedFinite DEF Counted
  <1>4. taken \in Nat /\ Placed(inventory_allocation) \in Nat
    BY <1>1, PlacedFinite DEF Placed, Counted
  <1>5. Placed(inventory_allocation) <= taken
    <2>1. Units(inventory_allocation, Item, Active)
             \subseteq Units(inventory_allocation, Item, unavailableStatuses)
      BY DEF Units, Active, unavailableStatuses
    <2> QED
      BY <1>1, <2>1, PlacedMonotone DEF Placed, Counted
  <1>6. Placed(CountedRows) \in Nat /\ Placed(CountedRows) <= Placed(inventory_allocation)
    BY CountedFinite DEF ShapesOK
  <1>7. equipment[Item].quantity = MaxQuantity /\ equipment[Item].installation_quantity = 0
    BY DEF ShapesOK, PlacesSetUp
  <1>8. n <= NonNegative(MaxQuantity - 0 - shown - taken)
    BY <1>7 DEF Enough, Uninstalled
  <1> QED
    BY <1>3, <1>4, <1>5, <1>6, <1>8, TablesAssumption DEF NonNegative

(* A read of what is free, by which of its forms it counted. *)
LEMMA ReadForm ==
  ASSUME PlacesSetUp, ShapesOK, NEW h \in PlaceHandlers,
         NEW place \in Locations, NEW n \in 1..MaxQuantity, AllocateRead(h, place, n)
  PROVE  \E by \in {"count", "guess"} :
            /\ Start(h, [pc |-> "insert", place |-> place, quantity |-> n, by |-> by])
            /\ by = "count" => n + Placed(CountedRows) <= MaxQuantity
  <1>1. PICK shown \in Sums(show_equipment), taken \in Sums(inventory_allocation) :
           /\ Enough(n, shown, taken)
           /\ Start(h, [pc |-> "insert", place |-> place, quantity |-> n,
                        by |-> IF Counted(shown, taken) THEN "count" ELSE "guess"])
    BY DEF AllocateRead
  <1>2. CASE Counted(shown, taken)
    BY <1>1, <1>2, FreeWhenRead
  <1>3. CASE ~Counted(shown, taken)
    BY <1>1, <1>3
  <1> QED
    BY <1>2, <1>3

LEMMA AllocateReadStep ==
  ASSUME PlacesSetUp, PlaceInv, NEW h \in PlaceHandlers,
         NEW place \in Locations, NEW n \in 1..MaxQuantity, AllocateRead(h, place, n)
  PROVE  PlaceInv'
  <1>0. PICK by \in {"count", "guess"} :
           /\ Start(h, [pc |-> "insert", place |-> place, quantity |-> n, by |-> by])
           /\ by = "count" => n + Placed(CountedRows) <= MaxQuantity
    BY ReadForm DEF PlaceInv
  <1> DEFINE c == [pc |-> "insert", place |-> place, quantity |-> n, by |-> by]
  <1>1. Become(h, c) /\ place_calls[h] = NoCall
    BY <1>0 DEF Start
  <1>2. UNCHANGED <<tables, placed, status_log, outrun, guessed>>
    BY DEF AllocateRead
  <1>3. \A ids : CallOK(c, ids)
    BY DEF CallOK
  <1>4. c.pc = "insert" /\ c.quantity = n /\ c.by = by /\ RowsOf(c) = {}
    BY DEF RowsOf
  <1> HIDE DEF c
  <1>6. ShapesOK'
    BY <1>1, <1>2, <1>3, CallsAfter, RowsInIds DEF PlaceInv, ShapesOK, tables
  <1>7. StockOK'
    <2>1. CountedRows' = CountedRows
      BY <1>2, CountedSame DEF tables
    <2> QED
      BY <1>0, <1>1, <1>2, <1>4, <2>1, Became DEF PlaceInv, ShapesOK, StockOK, StockFor
  <1>8. EntriesOK'
    <2>1. ~At(h, "log")
      BY <1>1 DEF At, NoCall
    <2> QED
      BY <1>1, <1>2, <1>4, <2>1, EntriesKept DEF PlaceInv
  <1> QED
    BY <1>6, <1>7, <1>8 DEF PlaceInv

LEMMA AllocateInsertStep ==
  ASSUME PlacesSetUp, PlaceInv, NEW h \in PlaceHandlers, AllocateInsert(h)
  PROVE  PlaceInv'
  <1> DEFINE c == place_calls[h]
             id == LastRow + 1
             d == [pc |-> "log", row |-> id, at |-> c.place]
  <1>0. /\ At(h, "insert") /\ c.place \in Locations /\ c.quantity \in 1..MaxQuantity
        /\ c.by \in {"count", "guess"}
    BY DEF AllocateInsert, At, PlaceInv, ShapesOK, CallsOK, CallOK
  <1>1. Become(h, d) /\ d.pc = "log" /\ d.row = id /\ d.at = c.place /\ RowsOf(d) = {id}
    BY DEF AllocateInsert, RowsOf
  <1>2. /\ inventory_allocation' = Insert(inventory_allocation, id, Row(c.quantity, "allocated"))
        /\ placed' = Insert(placed, id, c.place)
        /\ UNCHANGED <<equipment, shows, show_equipment, status_log>>
        /\ Outrun(h) /\ id \in RowIds
        /\ guessed' = IF c.by = "guess" THEN guessed \cup {id} ELSE guessed
    BY DEF AllocateInsert, InsertRow
  <1>3. LastRow \in 0..MaxRows /\ DOMAIN inventory_allocation = 1..LastRow
    BY Numbered DEF PlaceInv, ShapesOK, LastRow
  <1>4. id \in 1..MaxRows /\ id \notin DOMAIN inventory_allocation
    BY <1>2, <1>3, TablesAssumption DEF RowIds
  <1>5. DOMAIN inventory_allocation' = DOMAIN inventory_allocation \cup {id}
    BY <1>2 DEF Insert
  <1>6. CallOK(d, DOMAIN inventory_allocation')
    BY <1>0, <1>1, <1>5 DEF CallOK
  <1>7. DOMAIN inventory_allocation' = 1..id
    BY <1>3, <1>4, <1>5, TablesAssumption
  <1>8. Row(c.quantity, "allocated") \in PlaceRow
    BY <1>0 DEF Row, PlaceRow
  <1> HIDE DEF d, c, id
  <1>9. ShapesOK'
    <2>1. RowsOK(inventory_allocation', placed')
      <3>1. id \in 0..MaxRows
        BY <1>4, TablesAssumption
      <3>2. inventory_allocation' \in [DOMAIN inventory_allocation' -> PlaceRow]
        BY <1>2, <1>5, <1>8 DEF Insert, PlaceInv, ShapesOK, RowsOK
      <3>3. placed' \in [DOMAIN inventory_allocation' -> Locations]
        BY <1>0, <1>2, <1>5 DEF Insert, PlaceInv, ShapesOK, RowsOK
      <3> QED
        BY <1>7, <3>1, <3>2, <3>3 DEF RowsOK
    <2>2. CallsOK(place_calls', DOMAIN inventory_allocation')
      BY <1>1, <1>5, <1>6, CallsAfter DEF PlaceInv, ShapesOK
    <2>3. outrun' \in BOOLEAN
      BY <1>2 DEF Outrun, PlaceInv, ShapesOK
    <2>4. doubtful' \subseteq RowIds
      BY <1>1, <1>5, <1>6, <2>1, CallsAfter, RowsInIds DEF PlaceInv, ShapesOK
    <2> QED
      BY <1>2, <1>5, <2>1, <2>2, <2>3, <2>4 DEF PlaceInv, ShapesOK, LogOK
  <1>10. StockOK'
    <2> SUFFICES ASSUME ~outrun' PROVE StockFor(CountedRows', place_calls')
      BY DEF StockOK
    <2>1. ~outrun /\ \A g \in PlaceHandlers \ {h} : place_calls[g].pc # "insert"
      BY <1>2 DEF Outrun
    <2>2. \A g \in PlaceHandlers : place_calls'[g].pc # "insert"
      BY <1>1, <2>1, Became DEF PlaceInv, ShapesOK
    <2>3. StockFor(CountedRows, place_calls)
      BY <2>1 DEF PlaceInv, StockOK
    <2>4. CASE c.by = "guess"
      <3>1. CountedRows' = CountedRows
        BY <1>2, <1>4, <2>4, CountedInsert DEF PlaceInv, ShapesOK
      <3> QED
        BY <2>2, <2>3, <3>1 DEF StockFor
    <2>5. CASE c.by = "count"
      <3>1. /\ CountedRows' = Insert(CountedRows, id, Row(c.quantity, "allocated"))
            /\ id \notin DOMAIN CountedRows
        BY <1>2, <1>4, <2>5, CountedInsert DEF PlaceInv, ShapesOK
      <3>2. c.quantity + Placed(CountedRows) <= MaxQuantity
        BY <1>0, <2>3, <2>5 DEF StockFor, At, c
      <3>3. IsFiniteSet(DOMAIN CountedRows) /\ Placed(CountedRows) \in Nat
        BY CountedFinite DEF PlaceInv, ShapesOK
      <3>4. Placed(CountedRows') \in Nat
        BY <1>9, CountedFiniteNext DEF ShapesOK
      <3>5. Placed(CountedRows') <= Placed(CountedRows) + c.quantity
        BY <1>0, <3>1, <3>3, PlacedAfterInsert, TablesAssumption
      <3>6. Placed(CountedRows') <= MaxQuantity
        BY <1>0, <3>2, <3>3, <3>4, <3>5, TablesAssumption
      <3> QED
        BY <2>2, <3>6 DEF StockFor
    <2> QED
      BY <1>0, <2>4, <2>5
  <1>11. EntriesOK'
    <2>0. /\ place_calls'[h] = d
          /\ \A g \in PlaceHandlers \ {h} : place_calls'[g] = place_calls[g]
      BY <1>1, Became DEF PlaceInv, ShapesOK
    <2>1. doubtful' = doubtful \cup (RowsOf(d) \cap BusyRows(h))
      BY <1>1 DEF Become
    <2>2. \A g \in PlaceHandlers : RowsOf(place_calls[g]) \subseteq DOMAIN inventory_allocation
      BY DEF PlaceInv, ShapesOK, CallsOK, CallOK, RowsOf
    <2>3. \A g, k \in PlaceHandlers :
             g # k => RowsOf(place_calls'[g]) \cap RowsOf(place_calls'[k]) \subseteq doubtful'
      BY <1>1, <1>4, <2>0, <2>1, <2>2 DEF PlaceInv, EntriesOK, EntriesFor
    <2>4. \A g \in PlaceHandlers :
             place_calls'[g].pc = "log" /\ place_calls'[g].row \notin doubtful'
               => place_calls'[g].at = placed'[place_calls'[g].row]
      <3>1. placed'[id] = c.place
        BY <1>2, <1>5 DEF Insert, PlaceInv, ShapesOK, RowsOK
      <3>2. \A r \in DOMAIN inventory_allocation : placed'[r] = placed[r]
        BY <1>2, <1>4 DEF Insert, PlaceInv, ShapesOK, RowsOK
      <3> QED
        BY <1>1, <2>0, <2>1, <2>2, <3>1, <3>2
        DEF PlaceInv, EntriesOK, EntriesFor, RowsOf
    <2>5. \A r \in DOMAIN status_log' \ doubtful' :
             \/ status_log'[r] = placed'[r]
             \/ \E g \in PlaceHandlers : place_calls'[g].pc = "log" /\ place_calls'[g].row = r
      <3> SUFFICES ASSUME NEW r \in DOMAIN status_log, r \notin doubtful
                   PROVE  \/ status_log[r] = placed'[r]
                          \/ \E g \in PlaceHandlers :
                                place_calls'[g].pc = "log" /\ place_calls'[g].row = r
        BY <1>2, <2>1
      <3>1. r \in DOMAIN inventory_allocation
        BY DEF PlaceInv, ShapesOK, LogOK
      <3>2. placed'[r] = placed[r]
        BY <1>2, <1>4, <3>1 DEF Insert, PlaceInv, ShapesOK, RowsOK
      <3>3. \A g \in PlaceHandlers : place_calls[g].pc = "log" => g # h
        BY <1>0 DEF At
      <3> QED
        BY <2>0, <3>2, <3>3 DEF PlaceInv, EntriesOK, EntriesFor
    <2> QED
      BY <2>3, <2>4, <2>5 DEF EntriesOK, EntriesFor
  <1> QED
    BY <1>9, <1>10, <1>11 DEF PlaceInv

LEMMA ReturnUpdateStep ==
  ASSUME PlacesSetUp, PlaceInv, NEW h \in PlaceHandlers,
         NEW id \in DOMAIN inventory_allocation, ReturnUpdate(h, id)
  PROVE  PlaceInv'
  <1> DEFINE d == [pc |-> "log", row |-> id, at |-> placed[id]]
             row == [inventory_allocation[id] EXCEPT !.status = "returned"]
  <1>1. /\ Become(h, d) /\ place_calls[h] = NoCall
        /\ d.pc = "log" /\ d.row = id /\ d.at = placed[id]
    BY DEF ReturnUpdate, Start
  <1>2. /\ inventory_allocation' = Update(inventory_allocation, id, row)
        /\ UNCHANGED <<equipment, shows, show_equipment, placed, status_log, outrun, guessed>>
    BY DEF ReturnUpdate
  <1>3. inventory_allocation[id] \in PlaceRow /\ placed[id] \in Locations
    BY DEF PlaceInv, ShapesOK, RowsOK
  <1>4. row \in PlaceRow
    BY <1>3 DEF PlaceRow
  <1>5. DOMAIN inventory_allocation' = DOMAIN inventory_allocation
    BY <1>2 DEF Update
  <1>7. /\ Placed(CountedRows') <= Placed(CountedRows)
        /\ Placed(CountedRows) \in Nat
    BY <1>2, CountedAfterReturn, CountedFinite DEF PlaceInv, ShapesOK
  <1> HIDE DEF d, row
  <1>8. ShapesOK'
    <2>1. RowsOK(inventory_allocation', placed')
      BY <1>2, <1>4, <1>5 DEF Update, PlaceInv, ShapesOK, RowsOK
    <2>2. CallOK(d, DOMAIN inventory_allocation)
      BY <1>1, <1>3 DEF CallOK
    <2>3. CallsOK(place_calls', DOMAIN inventory_allocation')
      BY <1>1, <1>5, <2>2, CallsAfter DEF PlaceInv, ShapesOK
    <2>4. doubtful' \subseteq RowIds
      BY <1>1, <2>2, CallsAfter, RowsInIds DEF PlaceInv, ShapesOK
    <2> QED
      BY <1>2, <1>5, <2>1, <2>3, <2>4 DEF PlaceInv, ShapesOK, LogOK
  <1>9. StockOK'
    <2> SUFFICES ASSUME ~outrun PROVE StockFor(CountedRows', place_calls')
      BY <1>2 DEF StockOK
    <2>1. \A g \in PlaceHandlers : place_calls'[g].pc = "insert" =>
              /\ place_calls'[g] = place_calls[g]
              /\ place_calls[g].quantity \in 1..MaxQuantity
      <3>1. CallsOK(place_calls, DOMAIN inventory_allocation)
        BY DEF PlaceInv, ShapesOK
      <3>2. place_calls'[h] = d /\ \A g \in PlaceHandlers \ {h} : place_calls'[g] = place_calls[g]
        BY <1>1, <3>1, Became
      <3>3. \A g \in PlaceHandlers :
               place_calls[g].pc = "insert" => place_calls[g].quantity \in 1..MaxQuantity
        BY <3>1 DEF CallsOK, CallOK
      <3> QED
        BY <1>1, <3>2, <3>3
    <2>2. Placed(CountedRows') \in Nat
      BY <1>8, CountedFiniteNext DEF ShapesOK
    <2> QED
      BY <1>7, <2>1, <2>2, TablesAssumption DEF PlaceInv, StockOK, StockFor
  <1>10. EntriesOK'
    <2>1. ~At(h, "log")
      BY <1>1 DEF At, NoCall
    <2> QED
      BY <1>1, <1>2, <2>1, EntriesKept DEF PlaceInv
  <1> QED
    BY <1>8, <1>9, <1>10 DEF PlaceInv

(* A request begins that has only read, and what it goes on to do is not   *)
(* an insert of its own.                                                   *)
LEMMA ReadStep ==
  ASSUME PlaceInv, NEW h \in PlaceHandlers, NEW c, Become(h, c), ~At(h, "log"),
         c.pc \notin {"insert", "log"}, CallOK(c, DOMAIN inventory_allocation),
         UNCHANGED <<tables, placed, status_log, outrun, guessed>>
  PROVE  PlaceInv'
  <1>1. ShapesOK'
    BY CallsAfter, RowsInIds DEF PlaceInv, ShapesOK, tables
  <1>2. StockOK'
    BY StockKept DEF PlaceInv, tables
  <1>3. EntriesOK'
    BY EntriesKept DEF PlaceInv
  <1> QED
    BY <1>1, <1>2, <1>3 DEF PlaceInv

LEMMA MoveReadStep ==
  ASSUME PlaceInv, NEW h \in PlaceHandlers, NEW id \in DOMAIN inventory_allocation,
         NEW place \in Locations, MoveRead(h, id, place)
  PROVE  PlaceInv'
  <1> DEFINE c == [pc |-> "update", row |-> id, at |-> place]
  <1>1. Become(h, c) /\ place_calls[h] = NoCall /\ UNCHANGED <<tables, placed, status_log, outrun, guessed>>
    BY DEF MoveRead, Start
  <1>2. CallOK(c, DOMAIN inventory_allocation) /\ c.pc = "update"
    BY DEF CallOK
  <1>3. ~At(h, "log")
    BY <1>1 DEF At, NoCall
  <1> HIDE DEF c
  <1> QED
    BY <1>1, <1>2, <1>3, ReadStep

LEMMA SetReadStep ==
  ASSUME PlacesSetUp, PlaceInv, NEW h \in PlaceHandlers, NEW body \in Bodies, SetRead(h, body)
  PROVE  PlaceInv'
  <1> DEFINE c == [pc |-> "commit", body |-> body]
  <1>1. Become(h, c) /\ place_calls[h] = NoCall /\ UNCHANGED <<tables, placed, status_log, outrun, guessed>>
    BY DEF SetRead, Start
  <1>2. Fits(body) /\ body # {}
    BY TotalIs DEF SetRead, TotalFits, Fits, PlaceInv
  <1>3. CallOK(c, DOMAIN inventory_allocation) /\ c.pc = "commit"
    BY <1>2 DEF CallOK
  <1>4. ~At(h, "log")
    BY <1>1 DEF At, NoCall
  <1> HIDE DEF c
  <1> QED
    BY <1>1, <1>3, <1>4, ReadStep

LEMMA FailStep ==
  ASSUME PlaceInv, NEW h \in PlaceHandlers, Fail(h)
  PROVE  PlaceInv'
  <1>1. Become(h, NoCall) /\ UNCHANGED <<tables, placed, status_log, outrun, guessed>>
    BY DEF Fail, Answer
  <1>2. ~At(h, "log") /\ NoCall.pc \notin {"insert", "log"}
    BY DEF Fail, At, NoCall
  <1> QED
    BY <1>1, <1>2, NoCallOK, ReadStep

LEMMA MoveUpdateStep ==
  ASSUME PlaceInv, NEW h \in PlaceHandlers, MoveUpdate(h)
  PROVE  PlaceInv'
  <1> DEFINE c == place_calls[h]
             d == [pc |-> "log", row |-> c.row, at |-> c.at]
  <1>0. /\ c.pc = "update" /\ c.row \in DOMAIN inventory_allocation /\ c.at \in Locations
        /\ RowsOf(c) = {c.row}
    BY DEF MoveUpdate, At, PlaceInv, ShapesOK, CallsOK, CallOK, RowsOf
  <1>1. Become(h, d) /\ d.pc = "log" /\ d.row = c.row /\ d.at = c.at /\ RowsOf(d) = {c.row}
    BY DEF MoveUpdate, RowsOf
  <1>2. /\ placed' = Update(placed, c.row, c.at)
        /\ UNCHANGED <<tables, status_log, outrun, guessed>>
    BY DEF MoveUpdate
  <1>3. CallOK(d, DOMAIN inventory_allocation)
    BY <1>0, <1>1 DEF CallOK
  <1>4. /\ DOMAIN placed = DOMAIN inventory_allocation
        /\ placed'[c.row] = c.at
        /\ \A r \in DOMAIN inventory_allocation \ {c.row} : placed'[r] = placed[r]
    BY <1>0, <1>2 DEF Update, PlaceInv, ShapesOK, RowsOK
  <1> DEFINE held == c.row
             to == c.at
  <1>5. place_calls[h].pc = "update" /\ RowsOf(place_calls[h]) = {held}
    BY <1>0
  <1> HIDE DEF d
  <1>6. ShapesOK'
    <2>1. RowsOK(inventory_allocation', placed')
      BY <1>0, <1>2 DEF Update, tables, PlaceInv, ShapesOK, RowsOK
    <2> QED
      BY <1>1, <1>2, <1>3, <2>1, CallsAfter, RowsInIds DEF PlaceInv, ShapesOK, tables
  <1>7. StockOK'
    BY <1>1, <1>2, StockKept DEF PlaceInv, tables
  <1>8. EntriesOK'
    <2>0. /\ place_calls'[h] = d
          /\ \A g \in PlaceHandlers \ {h} : place_calls'[g] = place_calls[g]
      BY <1>1, Became DEF PlaceInv, ShapesOK
    <2>1. doubtful' = doubtful \cup (RowsOf(d) \cap BusyRows(h))
      BY <1>1 DEF Become
    <2>2. \A g \in PlaceHandlers : RowsOf(place_calls[g]) \subseteq DOMAIN inventory_allocation
      BY DEF PlaceInv, ShapesOK, CallsOK, CallOK, RowsOf
    <2>3. \A g \in PlaceHandlers \ {h} : held \in RowsOf(place_calls[g]) => held \in doubtful
      BY <1>5 DEF PlaceInv, EntriesOK, EntriesFor
    <2> HIDE DEF c, held, to
    <2>4. \A g, k \in PlaceHandlers :
             g # k => RowsOf(place_calls'[g]) \cap RowsOf(place_calls'[k]) \subseteq doubtful'
      BY <1>1, <2>0, <2>1, <2>3 DEF PlaceInv, EntriesOK, EntriesFor, held
    <2>5. ASSUME NEW g \in PlaceHandlers, place_calls'[g].pc = "log",
                 place_calls'[g].row \notin doubtful'
          PROVE  place_calls'[g].at = placed'[place_calls'[g].row]
      <3>1. CASE g = h
        BY <1>1, <1>4, <2>0, <3>1
      <3>2. CASE g # h
        <4>1. place_calls'[g] = place_calls[g]
          BY <2>0, <3>2
        <4>2. place_calls[g].row \in RowsOf(place_calls[g])
          BY <2>5, <4>1 DEF RowsOf
        <4>3. place_calls[g].row # held /\ place_calls[g].row \in DOMAIN inventory_allocation
          BY <2>1, <2>2, <2>3, <2>5, <3>2, <4>1, <4>2
        <4> QED
          BY <1>4, <2>1, <2>5, <4>1, <4>3 DEF PlaceInv, EntriesOK, EntriesFor, held
      <3> QED
        BY <3>1, <3>2
    <2>6. ASSUME NEW r \in DOMAIN status_log' \ doubtful'
          PROVE  \/ status_log'[r] = placed'[r]
                 \/ \E g \in PlaceHandlers : place_calls'[g].pc = "log" /\ place_calls'[g].row = r
      <3>1. r \in DOMAIN status_log \ doubtful /\ r \in DOMAIN inventory_allocation
        BY <1>2, <2>1, <2>6 DEF PlaceInv, ShapesOK, LogOK
      <3>2. CASE r = c.row
        BY <1>1, <2>0, <3>2
      <3>3. CASE r # c.row
        <4>1. placed'[r] = placed[r] /\ status_log'[r] = status_log[r]
          BY <1>2, <1>4, <3>1, <3>3
        <4>2. \A g \in PlaceHandlers : place_calls[g].pc = "log" => g # h
          BY <1>5
        <4> QED
          BY <2>0, <3>1, <4>1, <4>2 DEF PlaceInv, EntriesOK, EntriesFor
      <3> QED
        BY <3>2, <3>3
    <2> QED
      BY <2>4, <2>5, <2>6 DEF EntriesOK, EntriesFor
  <1> QED
    BY <1>6, <1>7, <1>8 DEF PlaceInv

LEMMA LogStep ==
  ASSUME PlaceInv, NEW h \in PlaceHandlers, Log(h)
  PROVE  PlaceInv'
  <1> DEFINE row == place_calls[h].row
  <1>0. /\ place_calls[h].pc = "log" /\ row \in DOMAIN inventory_allocation
        /\ place_calls[h].at \in Locations
    BY DEF Log, At, PlaceInv, ShapesOK, CallsOK, CallOK
  <1>1. UNCHANGED <<tables, placed, outrun, guessed>>
    BY DEF Log
  <1>2. /\ DOMAIN place_calls' = PlaceHandlers
        /\ place_calls'[h] = NoCall
        /\ \A g \in PlaceHandlers \ {h} : place_calls'[g] = place_calls[g]
    BY DEF Log, Answer, Become, PlaceInv, ShapesOK, CallsOK
  <1>3. \/ /\ status_log' = Insert(status_log, row, place_calls[h].at)
           /\ doubtful' = doubtful
        \/ /\ status_log' = status_log
           /\ doubtful' = doubtful \cup {row}
    BY DEF Log, Entry, Answer, Become, RowsOf, NoCall
  <1>4. NoCall.pc = "none" /\ RowsOf(NoCall) = {}
    BY DEF NoCall, RowsOf
  <1>5. ShapesOK'
    <2>1. CallsOK(place_calls', DOMAIN inventory_allocation)
      BY <1>2, NoCallOK DEF PlaceInv, ShapesOK, CallsOK
    <2>2. LogOK(status_log', DOMAIN inventory_allocation)
      BY <1>0, <1>3 DEF PlaceInv, ShapesOK, LogOK, Insert
    <2>3. doubtful' \subseteq RowIds
      BY <1>0, <1>3, RowsInIds DEF PlaceInv, ShapesOK
    <2> QED
      BY <1>1, <2>1, <2>2, <2>3 DEF PlaceInv, ShapesOK, tables
  <1>6. StockOK'
    <2>1. CountedRows' = CountedRows
      BY <1>1, CountedSame DEF tables
    <2> QED
      BY <1>1, <1>2, <1>4, <2>1 DEF PlaceInv, StockOK, StockFor
  <1>7. EntriesOK'
    <2>1. \A g, k \in PlaceHandlers :
             g # k => RowsOf(place_calls'[g]) \cap RowsOf(place_calls'[k]) \subseteq doubtful'
      BY <1>2, <1>3, <1>4 DEF PlaceInv, EntriesOK, EntriesFor
    <2>2. \A g \in PlaceHandlers :
             place_calls'[g].pc = "log" /\ place_calls'[g].row \notin doubtful'
               => place_calls'[g].at = placed'[place_calls'[g].row]
      BY <1>1, <1>2, <1>3, <1>4 DEF PlaceInv, EntriesOK, EntriesFor
    <2>3. ASSUME NEW r \in DOMAIN status_log' \ doubtful'
          PROVE  \/ status_log'[r] = placed'[r]
                 \/ \E g \in PlaceHandlers : place_calls'[g].pc = "log" /\ place_calls'[g].row = r
      <3>1. r \notin doubtful /\ placed' = placed
        BY <1>1, <1>3, <2>3
      <3>2. CASE r = row
        <4>1. status_log'[r] = place_calls[h].at
          BY <1>3, <2>3, <3>2 DEF Insert
        <4> QED
          BY <1>0, <3>1, <3>2, <4>1 DEF PlaceInv, EntriesOK, EntriesFor
      <3>3. CASE r # row
        <4>1. r \in DOMAIN status_log /\ status_log'[r] = status_log[r]
          BY <1>3, <2>3, <3>3 DEF Insert
        <4> QED
          BY <1>2, <3>1, <3>3, <4>1 DEF PlaceInv, EntriesOK, EntriesFor
      <3> QED
        BY <3>2, <3>3
    <2> QED
      BY <2>1, <2>2, <2>3 DEF EntriesOK, EntriesFor
  <1> QED
    BY <1>5, <1>6, <1>7 DEF PlaceInv

(* The commit returns what was there and adds rows that fit by themselves. *)
LEMMA CommitForm ==
  ASSUME PlacesSetUp, PlaceInv, NEW h \in PlaceHandlers, SetCommit(h), ~Strict
  PROVE  /\ Placed(inventory_allocation') <= MaxQuantity
         /\ \E new \in SUBSET RowIds :
               /\ new # {} /\ new \cap DOMAIN inventory_allocation = {}
               /\ DOMAIN inventory_allocation' = DOMAIN inventory_allocation \cup new
               /\ \A r \in new : /\ inventory_allocation'[r] \in PlaceRow
                                 /\ inventory_allocation'[r].status = "allocated"
                                 /\ placed'[r] \in Locations
               /\ \A r \in DOMAIN inventory_allocation :
                     /\ inventory_allocation'[r] = AllReturned[r]
                     /\ placed'[r] = placed[r]
  <1> DEFINE body == place_calls[h].body
             last == LastRow + Cardinality(body)
             new == LastRow + 1 .. last
  <1>0. body \in Bodies /\ body # {} /\ Fits(body)
    BY DEF SetCommit, At, PlaceInv, ShapesOK, CallsOK, CallOK
  <1>1. PICK b \in [new -> body] :
           /\ \A i, j \in DOMAIN b : i # j => b[i] # b[j]
           /\ inventory_allocation' = [r \in 1..last |-> IF r \in DOMAIN b
                                           THEN Row(b[r].quantity, "allocated")
                                           ELSE AllReturned[r]]
           /\ placed' = [r \in 1..last |-> IF r \in DOMAIN b THEN b[r].place ELSE placed[r]]
    BY DEF SetCommit
  <1>2. last \in RowIds
    BY DEF SetCommit
  <1>3. LastRow \in 0..MaxRows /\ DOMAIN inventory_allocation = 1..LastRow
    BY Numbered DEF PlaceInv, ShapesOK, LastRow
  <1>4. Cardinality(body) \in Nat /\ Cardinality(body) # 0
    BY <1>0, BodyFinite, FS_EmptySet
  <1> HIDE DEF body
  <1>5. LastRow \in Nat /\ last \in Nat /\ LastRow < last /\ last \in 1..MaxRows
    BY <1>2, <1>3, <1>4, TablesAssumption DEF RowIds
  <1> HIDE DEF last
  <1>6. \A i \in new : b[i].quantity \in 1..MaxQuantity /\ b[i].place \in Locations
    BY <1>0, <1>1 DEF Bodies
  <1>7. /\ DOMAIN b = new /\ new \subseteq 1..MaxRows /\ last \in new
        /\ DOMAIN inventory_allocation \cup new = 1..last
        /\ DOMAIN inventory_allocation \cap new = {}
    BY <1>1, <1>3, <1>5, TablesAssumption
  <1> HIDE DEF new
  <1>8. \A i \in new : /\ Row(b[i].quantity, "allocated") \in PlaceRow
                       /\ Row(b[i].quantity, "allocated").quantity_allocated = b[i].quantity
                       /\ Row(b[i].quantity, "allocated").status = "allocated"
    BY <1>6 DEF Row, PlaceRow
  <1>9. /\ DOMAIN inventory_allocation' = 1..last
        /\ \A r \in new : /\ inventory_allocation'[r] = Row(b[r].quantity, "allocated")
                          /\ placed'[r] = b[r].place
        /\ \A r \in DOMAIN inventory_allocation :
              inventory_allocation'[r] = AllReturned[r] /\ placed'[r] = placed[r]
    BY <1>1, <1>7
  <1>10. \A r \in DOMAIN inventory_allocation : AllReturned[r].status = "returned"
    BY DEF AllReturned, PlaceInv, ShapesOK, RowsOK, PlaceRow
  <1>11. Placed(inventory_allocation') <= MaxQuantity
    <2> DEFINE after == inventory_allocation'
    <2>1. DOMAIN after = 1..last
      BY <1>9
    <2>2. \A r \in DOMAIN after : after[r].status \in Active =>
             r \in new /\ after[r].quantity_allocated = b[r].quantity
      BY <1>7, <1>8, <1>9, <1>10 DEF Active
    <2>3. \A i, j \in new : i # j => b[i] # b[j]
      BY <1>1, <1>7
    <2> HIDE DEF after
    <2>4. Placed(after) <= MaxQuantity
      BY <1>0, <1>1, <1>5, <2>1, <2>2, <2>3, PlacedAfterSet
    <2> QED
      BY <2>4 DEF after, Placed
  <1>12. new \in SUBSET RowIds /\ new # {}
    BY <1>7 DEF RowIds
  <1>13. new \cap DOMAIN inventory_allocation = {}
         /\ DOMAIN inventory_allocation' = DOMAIN inventory_allocation \cup new
    BY <1>7, <1>9
  <1>14. \A r \in new : /\ inventory_allocation'[r] \in PlaceRow
                        /\ inventory_allocation'[r].status = "allocated"
                        /\ placed'[r] \in Locations
    BY <1>6, <1>8, <1>9
  <1>15. \A r \in DOMAIN inventory_allocation :
            inventory_allocation'[r] = AllReturned[r] /\ placed'[r] = placed[r]
    BY <1>9
  <1> QED
    <2>1. \E added \in SUBSET RowIds :
             /\ added # {} /\ added \cap DOMAIN inventory_allocation = {}
             /\ DOMAIN inventory_allocation' = DOMAIN inventory_allocation \cup added
             /\ \A r \in added : /\ inventory_allocation'[r] \in PlaceRow
                                 /\ inventory_allocation'[r].status = "allocated"
                                 /\ placed'[r] \in Locations
             /\ \A r \in DOMAIN inventory_allocation :
                   /\ inventory_allocation'[r] = AllReturned[r]
                   /\ placed'[r] = placed[r]
      <3> USE <1>12
      <3> WITNESS new \in SUBSET RowIds
      <3> QED
        BY <1>13, <1>14, <1>15
    <2> QED
      BY <1>11, <2>1, Zenon

LEMMA SetCommitStep ==
  ASSUME PlacesSetUp, PlaceInv, NEW h \in PlaceHandlers, SetCommit(h)
  PROVE  PlaceInv'
  <1> DEFINE body == place_calls[h].body
             last == LastRow + Cardinality(body)
  <1>0. place_calls[h].pc = "commit" /\ body \in Bodies /\ Fits(body)
    BY DEF SetCommit, At, PlaceInv, ShapesOK, CallsOK, CallOK
  <1>1. Become(h, NoCall) /\ UNCHANGED <<equipment, shows, show_equipment, status_log, guessed>>
    BY DEF SetCommit, Answer
  <1>2. ~At(h, "log") /\ NoCall.pc \notin {"insert", "log"} /\ RowsOf(NoCall) = {}
    BY <1>0 DEF At, NoCall, RowsOf
  <1>3. CASE Strict
    <2>1. UNCHANGED <<tables, placed, status_log, outrun, guessed>>
      BY <1>1, <1>3 DEF SetCommit, tables
    <2> QED
      BY <1>1, <1>2, <2>1, NoCallOK, ReadStep
  <1>4. CASE ~Strict
    <2>1. PICK b \in [LastRow + 1 .. last -> body] :
             /\ \A i, j \in DOMAIN b : i # j => b[i] # b[j]
             /\ inventory_allocation' = [r \in 1..last |-> IF r \in DOMAIN b
                                             THEN Row(b[r].quantity, "allocated")
                                             ELSE AllReturned[r]]
             /\ placed' = [r \in 1..last |-> IF r \in DOMAIN b THEN b[r].place ELSE placed[r]]
      BY <1>4 DEF SetCommit
    <2>2. last \in RowIds /\ Outrun(h)
      BY <1>4 DEF SetCommit
    <2>3. LastRow \in 0..MaxRows /\ DOMAIN inventory_allocation = 1..LastRow
      BY Numbered DEF PlaceInv, ShapesOK, LastRow
    <2>4. Cardinality(body) \in Nat
      BY <1>0, BodyFinite
    <2> HIDE DEF body
    <2>5. LastRow \in Nat /\ last \in Nat /\ LastRow <= last /\ last \in 0..MaxRows
      BY <2>2, <2>3, <2>4, TablesAssumption DEF RowIds
    <2> HIDE DEF last
    <2>6. \A i \in DOMAIN b : b[i].quantity \in 1..MaxQuantity /\ b[i].place \in Locations
      BY <1>0, <2>1 DEF Bodies
    <2>7. \A r \in 1..last : r \notin DOMAIN b => r \in DOMAIN inventory_allocation
      BY <2>1, <2>3, <2>5
    <2>8. DOMAIN inventory_allocation \subseteq 1..last
           /\ \A r \in DOMAIN inventory_allocation : r \notin DOMAIN b
      BY <2>1, <2>3, <2>5
    <2>9. \A r \in DOMAIN inventory_allocation :
             AllReturned[r] \in PlaceRow /\ AllReturned[r].status = "returned"
      BY DEF AllReturned, PlaceInv, ShapesOK, RowsOK, PlaceRow
    <2>10. \A i \in DOMAIN b : /\ Row(b[i].quantity, "allocated") \in PlaceRow
                               /\ Row(b[i].quantity, "allocated").quantity_allocated = b[i].quantity
      BY <2>6 DEF Row, PlaceRow
    <2>11. ShapesOK'
      <3>1. RowsOK(inventory_allocation', placed')
        <4>1. DOMAIN inventory_allocation' = 1..last
          BY <2>1
        <4>2. inventory_allocation' \in [1..last -> PlaceRow]
          BY <2>1, <2>7, <2>9, <2>10
        <4>3. \A r \in DOMAIN inventory_allocation : placed[r] \in Locations
          BY DEF PlaceInv, ShapesOK, RowsOK
        <4>4. placed' \in [1..last -> Locations]
          BY <2>1, <2>6, <2>7, <4>3
        <4> QED
          BY <2>5, <4>1, <4>2, <4>4 DEF RowsOK
      <3>2. DOMAIN inventory_allocation \subseteq DOMAIN inventory_allocation'
        BY <2>1, <2>8
      <3>3. CallsOK(place_calls', DOMAIN inventory_allocation')
        BY <1>1, <3>2, NoCallOK, CallsAfter DEF PlaceInv, ShapesOK
      <3>4. outrun' \in BOOLEAN
        BY <2>2 DEF Outrun, PlaceInv, ShapesOK
      <3>5. doubtful' \subseteq RowIds
        BY <1>1, <3>1, <3>2, NoCallOK, CallsAfter, RowsInIds DEF PlaceInv, ShapesOK
      <3> QED
        BY <1>1, <3>1, <3>2, <3>3, <3>4, <3>5 DEF PlaceInv, ShapesOK, LogOK
    <2>12. StockOK'
      <3> SUFFICES ASSUME ~outrun' PROVE StockFor(CountedRows', place_calls')
        BY DEF StockOK
      <3>1. \A g \in PlaceHandlers : place_calls'[g].pc # "insert"
        BY <1>1, <1>2, <2>2, Became DEF Outrun, PlaceInv, ShapesOK
      <3>2. Placed(inventory_allocation') <= MaxQuantity
        BY <1>4, CommitForm
      <3>3. /\ Placed(CountedRows') <= Placed(inventory_allocation')
            /\ Placed(CountedRows') \in Nat /\ Placed(inventory_allocation') \in Nat
        BY <2>11, CountedFiniteNext DEF ShapesOK
      <3>4. Placed(CountedRows') <= MaxQuantity
        BY <3>2, <3>3, TablesAssumption
      <3> QED
        BY <3>1, <3>4 DEF StockFor
    <2>13. EntriesOK'
      <3>0. /\ place_calls'[h] = NoCall
            /\ \A g \in PlaceHandlers \ {h} : place_calls'[g] = place_calls[g]
        BY <1>1, Became DEF PlaceInv, ShapesOK
      <3>1. doubtful' = doubtful
        BY <1>1, <1>2 DEF Become
      <3>2. \A r \in DOMAIN inventory_allocation : placed'[r] = placed[r]
        BY <2>1, <2>8
      <3>3. \A g \in PlaceHandlers : place_calls[g].pc = "log" =>
               g # h /\ place_calls[g].row \in DOMAIN inventory_allocation
        BY <1>0 DEF PlaceInv, ShapesOK, CallsOK, CallOK
      <3>4. \A g, k \in PlaceHandlers :
               g # k => RowsOf(place_calls'[g]) \cap RowsOf(place_calls'[k]) \subseteq doubtful'
        BY <1>2, <3>0, <3>1 DEF PlaceInv, EntriesOK, EntriesFor
      <3>5. \A g \in PlaceHandlers :
               place_calls'[g].pc = "log" /\ place_calls'[g].row \notin doubtful'
                 => place_calls'[g].at = placed'[place_calls'[g].row]
        BY <1>2, <3>0, <3>1, <3>2, <3>3 DEF PlaceInv, EntriesOK, EntriesFor
      <3>6. \A r \in DOMAIN status_log' \ doubtful' :
               \/ status_log'[r] = placed'[r]
               \/ \E g \in PlaceHandlers : place_calls'[g].pc = "log" /\ place_calls'[g].row = r
        BY <1>1, <3>0, <3>1, <3>2, <3>3
        DEF PlaceInv, ShapesOK, LogOK, EntriesOK, EntriesFor
      <3> QED
        BY <3>4, <3>5, <3>6 DEF EntriesOK, EntriesFor
    <2> QED
      BY <2>11, <2>12, <2>13 DEF PlaceInv
  <1> QED
    BY <1>3, <1>4

LEMMA PlaceStep ==
  ASSUME PlacesSetUp, PlaceInv, [Next]_placeVars
  PROVE  PlaceInv'
  <1>1. CASE Next
    BY <1>1, AllocateReadStep, AllocateInsertStep, ReturnUpdateStep, MoveReadStep,
       MoveUpdateStep, LogStep, SetReadStep, SetCommitStep, FailStep DEF Next
  <1>2. CASE UNCHANGED placeVars
    <2>1. CountedRows' = CountedRows
      BY <1>2, CountedSame DEF placeVars, tables
    <2> QED
      BY <1>2, <2>1 DEF placeVars, tables, PlaceInv, ShapesOK, RowsOK, CallsOK, CallOK, LogOK,
                        StockOK, StockFor, EntriesOK, EntriesFor
  <1> QED
    BY <1>1, <1>2

LEMMA InvWithinStock ==
  ASSUME PlacesSetUp, PlaceInv
  PROVE  PlacedWithinStock
  BY TotalIs DEF PlaceInv, StockOK, StockFor, PlacedWithinStock, Placed, Active

LEMMA InvLogSaysWhere ==
  ASSUME PlaceInv
  PROVE  LogSaysWhere
  BY DEF PlaceInv, EntriesOK, EntriesFor, LogSaysWhere, RowsOf

-----------------------------------------------------------------------------
(* allocateEquipment, POST /equipment/:id/allocations and the rest never   *)
(* place more units of an item than it has, with the rows left out whose   *)
(* request took a failed SELECT for 0, unless a row was inserted between   *)
(* another request's read of what is free and its INSERT.                  *)
THEOREM StaysWithinStock ==
  ASSUME PlacesSetUp
  PROVE  Spec => []PlacedWithinStock
  <1>1. Init => PlaceInv
    BY PlaceInit
  <1>2. PlaceInv /\ [Next]_placeVars => PlaceInv'
    BY PlaceStep
  <1>3. PlaceInv => PlacedWithinStock
    BY InvWithinStock
  <1> QED
    BY <1>1, <1>2, <1>3, PTL DEF Spec

(* The log says of a row where it is, unless two requests worked on that   *)
(* row at the same time or its entry was lost.                             *)
THEOREM LogStaysRight ==
  ASSUME PlacesSetUp
  PROVE  Spec => []LogSaysWhere
  <1>1. Init => PlaceInv
    BY PlaceInit
  <1>2. PlaceInv /\ [Next]_placeVars => PlaceInv'
    BY PlaceStep
  <1>3. PlaceInv => LogSaysWhere
    BY InvLogSaysWhere
  <1> QED
    BY <1>1, <1>2, <1>3, PTL DEF Spec

(* The type invariant.  The tables keep their columns' types, and a row is *)
(* doubtful only if it is there.                                           *)
LEMMA InvTypes ==
  ASSUME PlacesSetUp, PlaceInv
  PROVE  PlaceTypeOK
  <1>1. equipment \in [Equipment -> EquipmentRow]
    <2>1. [quantity |-> MaxQuantity, status |-> "available", installation_quantity |-> 0]
             \in EquipmentRow
      BY TablesAssumption DEF EquipmentRow, Quantities, EquipmentStatuses
    <2> QED
      BY <2>1 DEF PlaceInv, ShapesOK
  <1>2. PlaceRow \subseteq InventoryRow
    BY TablesAssumption DEF PlaceRow, InventoryRow, PlacesSetUp, Quantities, InventoryStatuses
  <1>3. IsTable(inventory_allocation, InventoryRow)
    BY <1>2, RowsInIds DEF PlaceInv, ShapesOK, RowsOK, IsTable
  <1> QED
    BY <1>1, <1>3
    DEF PlaceTypeOK, TablesTypeOK, PlacesSetUp, PlaceInv, ShapesOK, RowsOK, LogOK
-----------------------------------------------------------------------------
(***************************************************************************)
(* Requests that overlap.  What is placed by a count and what requests that *)
(* counted are about to insert is bounded together: a request adds its      *)
(* units to these when it has found them free beside all that is placed,    *)
(* and each of the others wants at most all there are.                     *)
(***************************************************************************)
Wanted(calls) ==
    {u \in PlaceHandlers \X (1..MaxQuantity) :
        calls[u[1]].pc = "insert" /\ calls[u[1]].by = "count" /\ u[2] <= calls[u[1]].quantity}

AllWithin(table, calls) ==
    Placed(table) + Cardinality(Wanted(calls)) <= Cardinality(PlaceHandlers) * MaxQuantity

BoundInv == PlaceInv /\ AllWithin(CountedRows, place_calls)

LEMMA WantedFinite ==
  ASSUME PlacesSetUp, NEW calls
  PROVE  IsFiniteSet(Wanted(calls)) /\ Cardinality(Wanted(calls)) \in Nat
  <1>1. IsFiniteSet(1..MaxQuantity)
    BY TablesAssumption, FS_Interval
  <1>2. IsFiniteSet(PlaceHandlers \X (1..MaxQuantity))
    BY <1>1, FS_Product DEF PlacesSetUp
  <1>3. Wanted(calls) \subseteq PlaceHandlers \X (1..MaxQuantity)
    BY DEF Wanted
  <1> QED
    BY <1>2, <1>3, FS_Subset, FS_CardinalityType

LEMMA BoundType ==
  ASSUME PlacesSetUp
  PROVE  /\ Cardinality(PlaceHandlers) \in Nat
         /\ Cardinality(PlaceHandlers) * MaxQuantity \in Nat
         /\ (Cardinality(PlaceHandlers) - 1) * MaxQuantity + MaxQuantity
               = Cardinality(PlaceHandlers) * MaxQuantity
         /\ (Cardinality(PlaceHandlers) - 1) * MaxQuantity \in Int
  <1>1. Cardinality(PlaceHandlers) \in Nat /\ MaxQuantity \in Nat
    BY TablesAssumption, FS_CardinalityType DEF PlacesSetUp
  <1>2. \A n, m \in Nat : /\ n * m \in Nat /\ (n - 1) * m + m = n * m
                          /\ (n - 1) * m \in Int
    OBVIOUS
  <1> QED
    BY <1>1, <1>2

(* A slot that wants nothing leaves the bound of the others. *)
LEMMA OthersWant ==
  ASSUME PlacesSetUp, NEW calls, NEW h \in PlaceHandlers,
         calls[h].pc # "insert" \/ calls[h].by # "count"
  PROVE  Cardinality(Wanted(calls)) <= (Cardinality(PlaceHandlers) - 1) * MaxQuantity
  <1> DEFINE Others == PlaceHandlers \ {h}
             U == 1..MaxQuantity
  <1>1. IsFiniteSet(Others) /\ Cardinality(Others) = Cardinality(PlaceHandlers) - 1
    BY FS_RemoveElement DEF PlacesSetUp
  <1>2. IsFiniteSet(U) /\ Cardinality(U) = MaxQuantity
    <2>1. IsFiniteSet(1..MaxQuantity)
          /\ Cardinality(1..MaxQuantity) = IF 1 > MaxQuantity THEN 0 ELSE MaxQuantity - 1 + 1
      BY TablesAssumption, FS_Interval
    <2> QED
      BY <2>1, TablesAssumption
  <1>3. Wanted(calls) \subseteq Others \X U
    BY DEF Wanted
  <1> HIDE DEF Others, U
  <1>4. IsFiniteSet(Others \X U)
        /\ Cardinality(Others \X U) = (Cardinality(PlaceHandlers) - 1) * MaxQuantity
    BY <1>1, <1>2, FS_Product
  <1>5. Cardinality(Wanted(calls)) <= Cardinality(Others \X U)
    BY <1>3, <1>4, FS_Subset
  <1> QED
    BY <1>4, <1>5

(* What one slot wants comes on top of what the others want. *)
LEMMA OwnWant ==
  ASSUME PlacesSetUp, NEW calls, NEW rest, NEW h \in PlaceHandlers,
         calls[h].pc = "insert", calls[h].by = "count", calls[h].quantity \in 1..MaxQuantity,
         rest[h].pc # "insert", \A g \in PlaceHandlers \ {h} : rest[g] = calls[g]
  PROVE  Cardinality(Wanted(calls)) = Cardinality(Wanted(rest)) + calls[h].quantity
  <1> DEFINE n == calls[h].quantity
             Mine == {h} \X (1..n)
             Theirs == Wanted(rest)
  <1>1. n \in Nat /\ n <= MaxQuantity
    BY TablesAssumption
  <1>2. Wanted(calls) = Theirs \cup Mine
    <2>1. ASSUME NEW u \in Wanted(calls)
          PROVE  u \in Theirs \cup Mine
      <3>1. u = <<u[1], u[2]>> /\ u[1] \in PlaceHandlers /\ u[2] \in 1..MaxQuantity
        BY DEF Wanted
      <3>2. CASE u[1] = h
        BY <1>1, <3>1, <3>2 DEF Wanted
      <3>3. CASE u[1] # h
        BY <3>1, <3>3 DEF Wanted
      <3> QED
        BY <3>2, <3>3
    <2>2. ASSUME NEW u \in Theirs
          PROVE  u \in Wanted(calls)
      <3>1. u[1] # h /\ u[1] \in PlaceHandlers
        BY <2>2 DEF Wanted
      <3> QED
        BY <2>2, <3>1 DEF Wanted
    <2>3. ASSUME NEW u \in Mine
          PROVE  u \in Wanted(calls)
      BY <1>1, TablesAssumption DEF Wanted
    <2> QED
      BY <2>1, <2>2, <2>3
  <1>3. Theirs \cap Mine = {}
    BY DEF Wanted
  <1>4. IsFiniteSet(Theirs) /\ Cardinality(Theirs) \in Nat
    BY WantedFinite
  <1> HIDE DEF n, Theirs
  <1>5. IsFiniteSet(1..n) /\ Cardinality(1..n) = n
    <2>1. n \in Int
      BY <1>1
    <2>2. IsFiniteSet(1..n) /\ Cardinality(1..n) = IF 1 > n THEN 0 ELSE n - 1 + 1
      BY <2>1, FS_Interval
    <2> QED
      BY <1>1, <2>2
  <1>6. IsFiniteSet({h}) /\ Cardinality({h}) = 1
    BY FS_Singleton
  <1>7. IsFiniteSet(Mine) /\ Cardinality(Mine) = Cardinality({h}) * Cardinality(1..n)
    BY <1>5, <1>6, FS_Product
  <1>8. Cardinality(Mine) = n
    BY <1>1, <1>5, <1>6, <1>7
  <1> HIDE DEF Mine
  <1>9. Cardinality(Theirs \cup Mine)
           = Cardinality(Theirs) + Cardinality(Mine) - Cardinality(Theirs \cap Mine)
    BY <1>4, <1>7, FS_Union
  <1>10. Cardinality(Theirs \cap Mine) = 0
    BY <1>3, FS_EmptySet
  <1> QED
    BY <1>1, <1>2, <1>4, <1>8, <1>9, <1>10 DEF n, Theirs

LEMMA PlacedType ==
  ASSUME PlaceInv
  PROVE  Placed(CountedRows) \in Nat
  BY CountedFinite DEF PlaceInv, ShapesOK

(* Fewer units placed and no more wanted. *)
LEMMA WithinKept ==
  ASSUME PlacesSetUp, BoundInv, PlaceInv',
         Placed(CountedRows') <= Placed(CountedRows),
         Wanted(place_calls') \subseteq Wanted(place_calls)
  PROVE  AllWithin(CountedRows', place_calls')
  <1> DEFINE W == Wanted(place_calls)
             V == Wanted(place_calls')
             B == Cardinality(PlaceHandlers) * MaxQuantity
             P == Placed(CountedRows)
             Q == Placed(CountedRows')
  <1>1. IsFiniteSet(W) /\ Cardinality(W) \in Nat /\ Cardinality(V) \in Nat
    BY WantedFinite
  <1>2. B \in Nat
    BY BoundType
  <1>3. P \in Nat
    BY PlacedType DEF BoundInv
  <1>4. Q \in Nat
    BY CountedFiniteNext DEF PlaceInv, ShapesOK
  <1>5. P + Cardinality(W) <= B
    BY DEF BoundInv, AllWithin
  <1> HIDE DEF W, V, B, P, Q
  <1>6. Cardinality(V) <= Cardinality(W)
    BY <1>1, FS_Subset DEF W, V
  <1>7. Q + Cardinality(V) <= B
    BY <1>1, <1>2, <1>3, <1>4, <1>5, <1>6 DEF P, Q
  <1> QED
    BY <1>7 DEF AllWithin, Q, V, B

(* The steps that place nothing and begin no insert. *)
LEMMA WithinQuiet ==
  ASSUME PlacesSetUp, BoundInv, PlaceInv', NEW h \in PlaceHandlers, NEW c,
         Become(h, c) \/ place_calls' = [place_calls EXCEPT ![h] = c],
         c.pc # "insert",
         Placed(CountedRows') <= Placed(CountedRows)
  PROVE  AllWithin(CountedRows', place_calls')
  <1>1. /\ place_calls'[h] = c
        /\ \A g \in PlaceHandlers \ {h} : place_calls'[g] = place_calls[g]
    BY DEF Become, BoundInv, PlaceInv, ShapesOK, CallsOK
  <1>2. Wanted(place_calls') \subseteq Wanted(place_calls)
    BY <1>1 DEF Wanted
  <1> QED
    BY <1>2, WithinKept

LEMMA WithinSame ==
  ASSUME BoundInv, UNCHANGED <<inventory_allocation, guessed>>
  PROVE  Placed(CountedRows') <= Placed(CountedRows)
  <1>1. Placed(CountedRows) \in Nat
    BY PlacedType DEF BoundInv
  <1>2. CountedRows' = CountedRows
    BY CountedSame
  <1> QED
    BY <1>1, <1>2

LEMMA WithinRead ==
  ASSUME PlacesSetUp, BoundInv, PlaceInv', NEW h \in PlaceHandlers,
         NEW place \in Locations, NEW n \in 1..MaxQuantity, AllocateRead(h, place, n)
  PROVE  AllWithin(CountedRows', place_calls')
  <1>0. PICK by \in {"count", "guess"} :
           /\ Start(h, [pc |-> "insert", place |-> place, quantity |-> n, by |-> by])
           /\ by = "count" => n + Placed(CountedRows) <= MaxQuantity
    BY ReadForm DEF BoundInv, PlaceInv
  <1> DEFINE c == [pc |-> "insert", place |-> place, quantity |-> n, by |-> by]
             others == (Cardinality(PlaceHandlers) - 1) * MaxQuantity
             B == Cardinality(PlaceHandlers) * MaxQuantity
             P == Placed(CountedRows)
             W == Cardinality(Wanted(place_calls))
             V == Cardinality(Wanted(place_calls'))
  <1>1. Become(h, c) /\ place_calls[h] = NoCall /\ UNCHANGED <<inventory_allocation, guessed>>
    BY <1>0 DEF AllocateRead, Start, tables
  <1>2. place_calls'[h] = c /\ \A g \in PlaceHandlers \ {h} : place_calls'[g] = place_calls[g]
    BY <1>1, Became DEF BoundInv, PlaceInv, ShapesOK
  <1>3. place_calls[h].pc # "insert"
    BY <1>1 DEF NoCall
  <1>4. CountedRows' = CountedRows
    BY <1>1, CountedSame
  <1>5. CASE by = "guess"
    <2>1. Wanted(place_calls') \subseteq Wanted(place_calls)
      BY <1>2, <1>5 DEF Wanted
    <2> QED
      BY <1>1, <2>1, WithinSame, WithinKept
  <1>6. CASE by = "count"
    <2>1. n + P <= MaxQuantity
      BY <1>0, <1>6
    <2>2. W <= others
      BY <1>3, OthersWant
    <2>3. V = W + n
      BY <1>2, <1>3, <1>6, OwnWant
    <2>4. P \in Nat /\ W \in Nat
      BY PlacedType, WantedFinite DEF BoundInv
    <2>5. others \in Int /\ B \in Nat /\ others + MaxQuantity = B
      BY BoundType
    <2> HIDE DEF others, B, P, W, V
    <2>6. P + V <= B
      BY <2>1, <2>2, <2>3, <2>4, <2>5, TablesAssumption
    <2> QED
      BY <1>4, <2>6 DEF AllWithin, P, V, B
  <1> QED
    BY <1>5, <1>6

LEMMA WithinInsert ==
  ASSUME PlacesSetUp, BoundInv, PlaceInv', NEW h \in PlaceHandlers, AllocateInsert(h)
  PROVE  AllWithin(CountedRows', place_calls')
  <1> DEFINE c == place_calls[h]
             id == LastRow + 1
             d == [pc |-> "log", row |-> id, at |-> c.place]
  <1>1. c.pc = "insert" /\ c.quantity \in 1..MaxQuantity /\ c.by \in {"count", "guess"}
    BY DEF AllocateInsert, At, BoundInv, PlaceInv, ShapesOK, CallsOK, CallOK
  <1>2. /\ Become(h, d) /\ d.pc = "log"
        /\ inventory_allocation' = Insert(inventory_allocation, id, Row(c.quantity, "allocated"))
        /\ guessed' = IF c.by = "guess" THEN guessed \cup {id} ELSE guessed
    BY DEF AllocateInsert, InsertRow
  <1>3. place_calls'[h] = d /\ \A g \in PlaceHandlers \ {h} : place_calls'[g] = place_calls[g]
    BY <1>2, Became DEF BoundInv, PlaceInv, ShapesOK
  <1>4. id \notin DOMAIN inventory_allocation
    <2>1. LastRow \in 0..MaxRows /\ DOMAIN inventory_allocation = 1..LastRow
      BY Numbered DEF BoundInv, PlaceInv, ShapesOK, LastRow
    <2> QED
      BY <2>1, TablesAssumption
  <1> HIDE DEF id, d
  <1>5. CASE c.by = "guess"
    <2>1. CountedRows' = CountedRows
      BY <1>2, <1>4, <1>5, CountedInsert DEF BoundInv, PlaceInv, ShapesOK
    <2>2. Placed(CountedRows') <= Placed(CountedRows)
      BY <2>1, PlacedType DEF BoundInv
    <2> QED
      BY <1>2, <2>2, WithinQuiet
  <1>6. CASE c.by = "count"
    <2> DEFINE B == Cardinality(PlaceHandlers) * MaxQuantity
               P == Placed(CountedRows)
               Q == Placed(CountedRows')
               W == Cardinality(Wanted(place_calls))
               V == Cardinality(Wanted(place_calls'))
    <2>1. /\ CountedRows' = Insert(CountedRows, id, Row(c.quantity, "allocated"))
          /\ id \notin DOMAIN CountedRows
      BY <1>2, <1>4, <1>6, CountedInsert DEF BoundInv, PlaceInv, ShapesOK
    <2>2. IsFiniteSet(DOMAIN CountedRows) /\ P \in Nat
      BY CountedFinite DEF BoundInv, PlaceInv, ShapesOK
    <2>3. Q \in Nat
      BY CountedFiniteNext DEF PlaceInv, ShapesOK
    <2>4. Q <= P + c.quantity
      <3>1. c.quantity \in Nat
        BY <1>1, TablesAssumption
      <3> QED
        BY <2>1, <2>2, <3>1, PlacedAfterInsert
    <2>5. W = V + c.quantity
      BY <1>1, <1>2, <1>3, <1>6, OwnWant
    <2>6. W \in Nat /\ V \in Nat /\ B \in Nat /\ P + W <= B
      BY WantedFinite, BoundType DEF BoundInv, AllWithin
    <2> HIDE DEF B, P, Q, W, V, c
    <2>7. Q + V <= B
      BY <1>1, <2>2, <2>3, <2>4, <2>5, <2>6, TablesAssumption
    <2> QED
      BY <2>7 DEF AllWithin, Q, V, B
  <1> QED
    BY <1>1, <1>5, <1>6

LEMMA WithinCommit ==
  ASSUME PlacesSetUp, BoundInv, PlaceInv', NEW h \in PlaceHandlers, SetCommit(h)
  PROVE  AllWithin(CountedRows', place_calls')
  <1>1. Become(h, NoCall) /\ NoCall.pc # "insert"
    BY DEF SetCommit, Answer, NoCall
  <1>2. CASE Strict
    <2>1. UNCHANGED <<inventory_allocation, guessed>>
      BY <1>2 DEF SetCommit
    <2> QED
      BY <1>1, <2>1, WithinSame, WithinQuiet
  <1>3. CASE ~Strict
    <2> DEFINE others == (Cardinality(PlaceHandlers) - 1) * MaxQuantity
               B == Cardinality(PlaceHandlers) * MaxQuantity
               R == Placed(inventory_allocation')
               Q == Placed(CountedRows')
               V == Cardinality(Wanted(place_calls'))
    <2>1. R <= MaxQuantity
      BY <1>3, CommitForm DEF BoundInv
    <2>2. place_calls'[h].pc # "insert"
      BY <1>1, Became DEF BoundInv, PlaceInv, ShapesOK
    <2>3. V <= others
      BY <2>2, OthersWant
    <2>4. Q \in Nat /\ R \in Nat /\ Q <= R
      BY CountedFiniteNext DEF PlaceInv, ShapesOK
    <2>5. V \in Nat
      BY WantedFinite
    <2>6. others \in Int /\ B \in Nat /\ others + MaxQuantity = B
      BY BoundType
    <2> HIDE DEF others, B, Q, R, V
    <2>7. Q + V <= B
      BY <2>1, <2>3, <2>4, <2>5, <2>6, TablesAssumption
    <2> QED
      BY <2>7 DEF AllWithin, Q, V, B
  <1> QED
    BY <1>2, <1>3

LEMMA WithinStep ==
  ASSUME PlacesSetUp, BoundInv, PlaceInv', [Next]_placeVars
  PROVE  AllWithin(CountedRows', place_calls')
  <1>1. ASSUME NEW h \in PlaceHandlers, NEW id \in DOMAIN inventory_allocation,
               ReturnUpdate(h, id)
        PROVE  AllWithin(CountedRows', place_calls')
    <2> DEFINE d == [pc |-> "log", row |-> id, at |-> placed[id]]
    <2>1. Become(h, d) /\ d.pc # "insert"
      BY <1>1 DEF ReturnUpdate, Start
    <2>2. Placed(CountedRows') <= Placed(CountedRows)
      BY <1>1, CountedAfterReturn DEF ReturnUpdate, BoundInv, PlaceInv, ShapesOK
    <2> QED
      BY <2>1, <2>2, WithinQuiet
  <1>2. ASSUME NEW h \in PlaceHandlers, NEW id \in DOMAIN inventory_allocation,
               NEW place \in Locations, MoveRead(h, id, place)
        PROVE  AllWithin(CountedRows', place_calls')
    <2> DEFINE d == [pc |-> "update", row |-> id, at |-> place]
    <2>1. Become(h, d) /\ d.pc # "insert" /\ UNCHANGED <<inventory_allocation, guessed>>
      BY <1>2 DEF MoveRead, Start, tables
    <2> QED
      BY <2>1, WithinSame, WithinQuiet
  <1>3. ASSUME NEW h \in PlaceHandlers, NEW body \in Bodies, SetRead(h, body)
        PROVE  AllWithin(CountedRows', place_calls')
    <2> DEFINE d == [pc |-> "commit", body |-> body]
    <2>1. Become(h, d) /\ d.pc # "insert" /\ UNCHANGED <<inventory_allocation, guessed>>
      BY <1>3 DEF SetRead, Start, tables
    <2> QED
      BY <2>1, WithinSame, WithinQuiet
  <1>4. ASSUME NEW h \in PlaceHandlers, MoveUpdate(h)
        PROVE  AllWithin(CountedRows', place_calls')
    <2> DEFINE d == [pc |-> "log", row |-> place_calls[h].row, at |-> place_calls[h].at]
    <2>1. Become(h, d) /\ d.pc # "insert" /\ UNCHANGED <<inventory_allocation, guessed>>
      BY <1>4 DEF MoveUpdate, tables
    <2> QED
      BY <2>1, WithinSame, WithinQuiet
  <1>5. ASSUME NEW h \in PlaceHandlers, Log(h) \/ Fail(h)
        PROVE  AllWithin(CountedRows', place_calls')
    <2>1. /\ Become(h, NoCall) \/ place_calls' = [place_calls EXCEPT ![h] = NoCall]
          /\ NoCall.pc # "insert" /\ UNCHANGED <<inventory_allocation, guessed>>
      BY <1>5 DEF Log, Fail, Answer, NoCall, tables
    <2> QED
      BY <2>1, WithinSame, WithinQuiet
  <1>6. CASE UNCHANGED placeVars
    <2>1. UNCHANGED <<inventory_allocation, guessed>> /\ Wanted(place_calls') \subseteq Wanted(place_calls)
      BY <1>6 DEF placeVars, tables, Wanted
    <2> QED
      BY <2>1, WithinSame, WithinKept
  <1> QED
    BY <1>1, <1>2, <1>3, <1>4, <1>5, <1>6, WithinRead, WithinInsert, WithinCommit
    DEF Next, BoundInv

LEMMA BoundInit ==
  ASSUME PlacesSetUp, Init
  PROVE  BoundInv
  <1>1. PlaceInv
    BY PlaceInit
  <1>2. Placed(CountedRows) = 0
    <2>1. Units(CountedRows, Item, Active) = {}
      BY DEF Units, CountedRows, DeleteRows, Init
    <2> QED
      BY <2>1, FS_EmptySet DEF Placed, SumAllocated
  <1>3. Cardinality(Wanted(place_calls)) = 0
    <2>1. Wanted(place_calls) = {}
      BY DEF Wanted, Init, NoCall
    <2> QED
      BY <2>1, FS_EmptySet
  <1> QED
    BY <1>1, <1>2, <1>3, BoundType DEF BoundInv, AllWithin

(* However many requests insert on what they read before, the units placed  *)
(* by those that counted are at most the item's quantity once for each      *)
(* request served at a time: allocateEquipment reads what is free anew for  *)
(* every row it inserts.                                                    *)
THEOREM OverlappingPlaces ==
  ASSUME PlacesSetUp
  PROVE  Spec => []PlacedBounded
  <1>1. Init => BoundInv
    BY BoundInit
  <1>2. BoundInv /\ [Next]_placeVars => BoundInv'
    BY PlaceStep, WithinStep DEF BoundInv
  <1>3. BoundInv => PlacedBounded
    <2> SUFFICES ASSUME BoundInv PROVE PlacedBounded
      OBVIOUS
    <2> DEFINE P == Placed(CountedRows)
               W == Cardinality(Wanted(place_calls))
               B == Cardinality(PlaceHandlers) * MaxQuantity
    <2>1. P \in Nat /\ W \in Nat /\ B \in Nat
      BY PlacedType, WantedFinite, BoundType DEF BoundInv
    <2>2. P + W <= B
      BY DEF BoundInv, AllWithin
    <2>3. Total = MaxQuantity
      BY TotalIs DEF BoundInv, PlaceInv
    <2> HIDE DEF P, W, B
    <2>4. P <= B
      BY <2>1, <2>2
    <2> QED
      BY <2>3, <2>4 DEF PlacedBounded, P, B, Placed, Active
  <1> QED
    BY <1>1, <1>2, <1>3, PTL DEF Spec
-----------------------------------------------------------------------------
(***************************************************************************)
(* The handlers keep the book of Placements.                               *)
(***************************************************************************)
LEMMA BoundNext ==
  ASSUME PlacesSetUp, BoundInv, [Next]_placeVars
  PROVE  BoundInv'
  BY PlaceStep, WithinStep DEF BoundInv

How(r, guesses) == IF r \in guesses THEN "guess" ELSE "count"

Page(row, where, by) ==
    [spot |-> where, units |-> row.quantity_allocated,
     phase |-> IF row.status = "returned" THEN "ended" ELSE "lasting", by |-> by]

LEMMA Pages ==
  /\ Book = [r \in DOMAIN inventory_allocation |->
                Page(inventory_allocation[r], placed[r], How(r, guessed))]
  /\ Book' = [r \in DOMAIN inventory_allocation' |->
                 Page(inventory_allocation'[r], placed'[r], How(r, guessed'))]
  BY DEF Book, Page, How

(* The page of a returned row says so, and the rest as before. *)
LEMMA PageEnds ==
  ASSUME NEW row, NEW old, NEW where, NEW by, row.status = "returned",
         row.quantity_allocated = old.quantity_allocated
  PROVE  Page(row, where, by) = [Page(old, where, by) EXCEPT !.phase = "ended"]
  BY DEF Page

LEMMA SameCardinality == \A S : Ledger!Cardinality(S) = Cardinality(S)
  BY DEF Ledger!Cardinality, Cardinality

(* The units of the placements that last and were counted are those placed *)
(* by the counted rows.                                                    *)
LEMMA LastingUnits ==
  ASSUME NEW table, NEW where, NEW guesses, table \in [DOMAIN table -> PlaceRow]
  PROVE  Ledger!Lasting([r \in DOMAIN table |-> Page(table[r], where[r], How(r, guesses))])
           = Units(DeleteRows(table, guesses), Item, Active)
  <1> DEFINE b == [r \in DOMAIN table |-> Page(table[r], where[r], How(r, guesses))]
             T == DeleteRows(table, guesses)
  <1>1. /\ DOMAIN b = DOMAIN table /\ DOMAIN T = DOMAIN table \ guesses
        /\ \A r \in DOMAIN T : T[r] = table[r]
    BY DEF DeleteRows
  <1>2. \A r \in DOMAIN table : /\ b[r].units = table[r].quantity_allocated
                                /\ b[r].phase = "lasting" <=> table[r].status # "returned"
                                /\ b[r].by = "count" <=> r \in DOMAIN T
    BY <1>1 DEF Page, How
  <1>3. \A r \in DOMAIN table : /\ table[r].equipment_id = Item
                                /\ table[r].status # "returned" <=> table[r].status \in Active
    BY DEF PlaceRow, Active
  <1> HIDE DEF b, T
  <1>4. Ledger!Lasting(b) \subseteq Units(T, Item, Active)
    <2> SUFFICES ASSUME NEW u \in Ledger!Lasting(b) PROVE u \in Units(T, Item, Active)
      OBVIOUS
    <2>1. /\ u \in (DOMAIN table) \X (1..MaxQuantity)
          /\ b[u[1]].phase = "lasting" /\ b[u[1]].by = "count" /\ u[2] <= b[u[1]].units
      BY <1>1 DEF Ledger!Lasting
    <2>2. u[1] \in DOMAIN table /\ u[1] \in DOMAIN T
      BY <1>2, <2>1
    <2>3. /\ T[u[1]].equipment_id = Item /\ T[u[1]].status \in Active
          /\ u[2] <= T[u[1]].quantity_allocated
      <3>1. table[u[1]].status # "returned" /\ b[u[1]].units = table[u[1]].quantity_allocated
        BY <1>2, <2>1, <2>2
      <3> QED
        BY <1>1, <1>3, <2>1, <2>2, <3>1
    <2>4. u \in (DOMAIN T) \X (1..MaxQuantity)
      BY <2>1, <2>2
    <2> QED
      BY <2>3, <2>4 DEF Units
  <1>5. Units(T, Item, Active) \subseteq Ledger!Lasting(b)
    <2> SUFFICES ASSUME NEW u \in Units(T, Item, Active) PROVE u \in Ledger!Lasting(b)
      OBVIOUS
    <2>1. /\ u \in (DOMAIN T) \X (1..MaxQuantity)
          /\ T[u[1]].status \in Active /\ u[2] <= T[u[1]].quantity_allocated
      BY DEF Units
    <2>2. u[1] \in DOMAIN T /\ u[1] \in DOMAIN table
      BY <1>1, <2>1
    <2>3. u \in (DOMAIN b) \X (1..MaxQuantity)
      BY <1>1, <2>1, <2>2
    <2> QED
      BY <1>1, <1>2, <1>3, <2>1, <2>2, <2>3 DEF Ledger!Lasting
  <1> QED
    BY <1>4, <1>5 DEF b, T

(* The invariant says that the placements that last fit. *)
LEMMA BookFits ==
  PlacesSetUp /\ BoundInv => Ledger!Fits
  <1> SUFFICES ASSUME PlacesSetUp, BoundInv PROVE Ledger!Fits
    OBVIOUS
  <1> DEFINE P == Placed(CountedRows)
             W == Cardinality(Wanted(place_calls))
             B == Cardinality(PlaceHandlers) * MaxQuantity
  <1>1. P \in Nat /\ W \in Nat /\ B \in Nat /\ P + W <= B
    BY PlacedType, WantedFinite, BoundType DEF BoundInv, AllWithin
  <1>2. ~outrun => P <= MaxQuantity
    BY DEF BoundInv, PlaceInv, StockOK, StockFor
  <1>3. Total = MaxQuantity
    BY TotalIs DEF BoundInv, PlaceInv
  <1>4. Ledger!Lasting(Book) = Units(CountedRows, Item, Active)
    BY Pages, LastingUnits DEF BoundInv, PlaceInv, ShapesOK, RowsOK, CountedRows
  <1>5. Ledger!Cardinality(Ledger!Lasting(Book)) = P
    BY <1>4, SameCardinality DEF Placed, SumAllocated
  <1>6. Ledger!Limit = IF outrun THEN B ELSE MaxQuantity
    BY <1>3, SameCardinality DEF Ledger!Limit
  <1> HIDE DEF P, W, B
  <1>7. P <= B
    BY <1>1
  <1>8. P <= Ledger!Limit
    BY <1>2, <1>6, <1>7
  <1> QED
    BY <1>5, <1>8 DEF Ledger!Fits

LEMMA BookFitsNext == (PlacesSetUp /\ BoundInv => Ledger!Fits)'
  BY BookFits, PTL

(* New rows are placements that were added. *)
LEMMA RowsAdded ==
  ASSUME PlacesSetUp, BoundInv', NEW new \in SUBSET RowIds, new # {},
         new \cap DOMAIN inventory_allocation = {},
         DOMAIN inventory_allocation' = DOMAIN inventory_allocation \cup new,
         \A r \in new : /\ inventory_allocation'[r] \in PlaceRow
                        /\ inventory_allocation'[r].status = "allocated"
                        /\ placed'[r] \in Locations,
         outrun => outrun'
  PROVE  Ledger!Added(new)
  <1>1. DOMAIN Book = DOMAIN inventory_allocation /\ DOMAIN Book' = DOMAIN inventory_allocation'
    BY Pages
  <1>2. \A r \in new : Book'[r] \in Ledger!Placement /\ Book'[r].phase = "lasting"
    BY Pages DEF Page, How, PlaceRow, Ledger!Placement
  <1>3. Ledger!Fits'
    BY BookFitsNext DEF PlacesSetUp
  <1> QED
    BY <1>1, <1>2, <1>3 DEF Ledger!Added

LEMMA InsertPlaces ==
  ASSUME PlacesSetUp, BoundInv, BoundInv', NEW h \in PlaceHandlers, AllocateInsert(h)
  PROVE  \E k \in RowIds : Ledger!Place(k)
  <1> DEFINE c == place_calls[h]
             id == LastRow + 1
             new == {id}
  <1>1. c.quantity \in 1..MaxQuantity /\ c.place \in Locations
    BY DEF AllocateInsert, At, BoundInv, PlaceInv, ShapesOK, CallsOK, CallOK
  <1>2. /\ id \in RowIds
        /\ inventory_allocation' = Insert(inventory_allocation, id, Row(c.quantity, "allocated"))
        /\ placed' = Insert(placed, id, c.place)
        /\ outrun => outrun'
        /\ guessed' = guessed \/ guessed' = guessed \cup {id}
    BY DEF AllocateInsert, InsertRow, Outrun
  <1>3. id \notin DOMAIN inventory_allocation
    <2>1. LastRow \in 0..MaxRows /\ DOMAIN inventory_allocation = 1..LastRow
      BY Numbered DEF BoundInv, PlaceInv, ShapesOK, LastRow
    <2> QED
      BY <2>1, TablesAssumption
  <1>4. DOMAIN placed = DOMAIN inventory_allocation
    BY DEF BoundInv, PlaceInv, ShapesOK, RowsOK
  <1> HIDE DEF id
  <1>5. /\ DOMAIN inventory_allocation' = DOMAIN inventory_allocation \cup new
        /\ inventory_allocation'[id] = Row(c.quantity, "allocated") /\ placed'[id] = c.place
        /\ \A r \in DOMAIN inventory_allocation :
              inventory_allocation'[r] = inventory_allocation[r] /\ placed'[r] = placed[r]
    BY <1>2, <1>3, <1>4 DEF Insert
  <1>6. /\ Row(c.quantity, "allocated") \in PlaceRow
        /\ Row(c.quantity, "allocated").status = "allocated"
    BY <1>1 DEF Row, PlaceRow
  <1>7. Ledger!Added(new)
    BY <1>1, <1>2, <1>3, <1>5, <1>6, RowsAdded
  <1>8. \A r \in DOMAIN Book : Book'[r] = Book[r]
    <2>1. \A r \in DOMAIN inventory_allocation : How(r, guessed') = How(r, guessed)
      BY <1>2, <1>3 DEF How
    <2> QED
      BY <1>5, <2>1, Pages
  <1>9. Ledger!Place(id)
    BY <1>7, <1>8 DEF Ledger!Place
  <1> QED
    BY <1>2, <1>9

LEMMA CommitReplaces ==
  ASSUME PlacesSetUp, BoundInv, BoundInv', NEW h \in PlaceHandlers, SetCommit(h), ~Strict
  PROVE  \E new \in SUBSET RowIds : Ledger!Replace(new)
  <1>1. PICK new \in SUBSET RowIds :
           /\ new # {} /\ new \cap DOMAIN inventory_allocation = {}
           /\ DOMAIN inventory_allocation' = DOMAIN inventory_allocation \cup new
           /\ \A r \in new : /\ inventory_allocation'[r] \in PlaceRow
                             /\ inventory_allocation'[r].status = "allocated"
                             /\ placed'[r] \in Locations
           /\ \A r \in DOMAIN inventory_allocation :
                 /\ inventory_allocation'[r] = AllReturned[r]
                 /\ placed'[r] = placed[r]
    BY CommitForm DEF BoundInv
  <1>2. (outrun => outrun') /\ guessed' = guessed
    BY DEF SetCommit, Outrun
  <1>3. Ledger!Added(new)
    BY <1>1, <1>2, RowsAdded
  <1>4. \A r \in DOMAIN Book : Book'[r] = [Book[r] EXCEPT !.phase = "ended"]
    <2> SUFFICES ASSUME NEW r \in DOMAIN inventory_allocation
                 PROVE  Book'[r] = [Book[r] EXCEPT !.phase = "ended"]
      BY Pages
    <2>1. inventory_allocation[r] \in PlaceRow
      BY DEF BoundInv, PlaceInv, ShapesOK, RowsOK
    <2>2. /\ AllReturned[r].status = "returned"
          /\ AllReturned[r].quantity_allocated = inventory_allocation[r].quantity_allocated
      BY <2>1 DEF AllReturned, PlaceRow
    <2>3. Book[r] = Page(inventory_allocation[r], placed[r], How(r, guessed))
      BY Pages
    <2>4. Book'[r] = Page(AllReturned[r], placed[r], How(r, guessed))
      BY <1>1, <1>2, Pages
    <2> QED
      BY <2>2, <2>3, <2>4, PageEnds
  <1>5. Ledger!Replace(new)
    BY <1>3, <1>4 DEF Ledger!Replace
  <1> QED
    BY <1>5

LEMMA ReturnEnds ==
  ASSUME PlacesSetUp, BoundInv, NEW h \in PlaceHandlers,
         NEW id \in DOMAIN inventory_allocation, ReturnUpdate(h, id)
  PROVE  \E k \in DOMAIN Book : Ledger!End(k)
  <1>1. inventory_allocation[id] \in PlaceRow
    BY DEF BoundInv, PlaceInv, ShapesOK, RowsOK
  <1> DEFINE row == [inventory_allocation[id] EXCEPT !.status = "returned"]
  <1>2. row.status = "returned" /\ row.quantity_allocated = inventory_allocation[id].quantity_allocated
    BY <1>1 DEF PlaceRow
  <1>3. inventory_allocation' = Update(inventory_allocation, id, row) /\ UNCHANGED <<placed, outrun, guessed>>
    BY DEF ReturnUpdate
  <1> HIDE DEF row
  <1>4. /\ DOMAIN inventory_allocation' = DOMAIN inventory_allocation
        /\ inventory_allocation'[id] = row
        /\ \A r \in DOMAIN inventory_allocation \ {id} :
              inventory_allocation'[r] = inventory_allocation[r]
    BY <1>3 DEF Update
  <1>5. Page(row, placed[id], How(id, guessed))
           = [Page(inventory_allocation[id], placed[id], How(id, guessed)) EXCEPT !.phase = "ended"]
    BY <1>2, PageEnds
  <1>6. Book' = [Book EXCEPT ![id].phase = "ended"]
    BY <1>3, <1>4, <1>5, Pages
  <1>7. id \in DOMAIN Book /\ Ledger!End(id)
    BY <1>3, <1>6, Pages DEF Ledger!End
  <1> QED
    BY <1>7

LEMMA UpdateMoves ==
  ASSUME PlacesSetUp, BoundInv, NEW h \in PlaceHandlers, MoveUpdate(h)
  PROVE  \E k \in DOMAIN Book, spot \in Locations : Ledger!Move(k, spot)
  <1> DEFINE id == place_calls[h].row
             spot == place_calls[h].at
  <1>1. id \in DOMAIN inventory_allocation /\ spot \in Locations
    BY DEF MoveUpdate, At, BoundInv, PlaceInv, ShapesOK, CallsOK, CallOK
  <1>2. placed' = Update(placed, id, spot) /\ UNCHANGED <<inventory_allocation, outrun, guessed>>
    BY DEF MoveUpdate, tables
  <1>3. DOMAIN placed = DOMAIN inventory_allocation
    BY DEF BoundInv, PlaceInv, ShapesOK, RowsOK
  <1> HIDE DEF id, spot
  <1>4. placed'[id] = spot /\ \A r \in DOMAIN inventory_allocation \ {id} : placed'[r] = placed[r]
    BY <1>1, <1>2, <1>3 DEF Update
  <1>5. Page(inventory_allocation[id], spot, How(id, guessed))
           = [Page(inventory_allocation[id], placed[id], How(id, guessed)) EXCEPT !.spot = spot]
    BY DEF Page
  <1>6. Book' = [Book EXCEPT ![id].spot = spot]
    BY <1>2, <1>4, <1>5, Pages
  <1>7. id \in DOMAIN Book /\ Ledger!Move(id, spot)
    BY <1>1, <1>2, <1>6, Pages DEF Ledger!Move
  <1> QED
    BY <1>1, <1>7

LEMMA BookStarts ==
  ASSUME PlacesSetUp, Init
  PROVE  Ledger!Init
  <1>1. DOMAIN inventory_allocation = {}
    BY DEF Init
  <1>2. Book = [k \in {} |-> k]
    BY <1>1, Pages
  <1>3. Total \in 1..MaxQuantity
    BY TablesAssumption DEF Init, Total, PlacesSetUp
  <1> QED
    BY <1>2, <1>3 DEF Ledger!Init, Init

LEMMA BookStep ==
  ASSUME PlacesSetUp, BoundInv, BoundInv', [Next]_placeVars
  PROVE  [Ledger!Next]_<<Book, Total, outrun>>
  <1>1. Total' = Total
    <2>1. equipment' = equipment
      BY DEF BoundInv, PlaceInv, ShapesOK
    <2> QED
      BY <2>1 DEF Total
  <1>2. ASSUME UNCHANGED <<inventory_allocation, placed, outrun, guessed>>
        PROVE  UNCHANGED <<Book, Total, outrun>>
    BY <1>1, <1>2 DEF Book
  <1>3. CASE UNCHANGED placeVars
    BY <1>2, <1>3 DEF placeVars, tables
  <1>4. ASSUME NEW h \in PlaceHandlers, NEW place \in Locations, NEW n \in 1..MaxQuantity,
               AllocateRead(h, place, n)
        PROVE  UNCHANGED <<Book, Total, outrun>>
    BY <1>2, <1>4 DEF AllocateRead, tables
  <1>5. ASSUME NEW h \in PlaceHandlers, NEW id \in DOMAIN inventory_allocation,
               NEW place \in Locations, MoveRead(h, id, place)
        PROVE  UNCHANGED <<Book, Total, outrun>>
    BY <1>2, <1>5 DEF MoveRead, tables
  <1>6. ASSUME NEW h \in PlaceHandlers, NEW body \in Bodies, SetRead(h, body)
        PROVE  UNCHANGED <<Book, Total, outrun>>
    BY <1>2, <1>6 DEF SetRead, tables
  <1>7. ASSUME NEW h \in PlaceHandlers, Log(h) \/ Fail(h)
        PROVE  UNCHANGED <<Book, Total, outrun>>
    BY <1>2, <1>7 DEF Log, Fail, tables
  <1>8. ASSUME NEW h \in PlaceHandlers, SetCommit(h), Strict
        PROVE  UNCHANGED <<Book, Total, outrun>>
    BY <1>2, <1>8 DEF SetCommit
  <1>9. ASSUME NEW h \in PlaceHandlers, SetCommit(h), ~Strict
        PROVE  Ledger!Next
    BY <1>1, <1>9, CommitReplaces DEF Ledger!Next
  <1>10. ASSUME NEW h \in PlaceHandlers, AllocateInsert(h)
         PROVE  Ledger!Next
    BY <1>1, <1>10, InsertPlaces DEF Ledger!Next
  <1>11. ASSUME NEW h \in PlaceHandlers, MoveUpdate(h)
         PROVE  Ledger!Next
    BY <1>1, <1>11, UpdateMoves DEF Ledger!Next
  <1>12. ASSUME NEW h \in PlaceHandlers, NEW id \in DOMAIN inventory_allocation,
                ReturnUpdate(h, id)
         PROVE  Ledger!Next
    BY <1>1, <1>12, ReturnEnds DEF Ledger!Next
  <1> QED
    BY <1>3, <1>4, <1>5, <1>6, <1>7, <1>8, <1>9, <1>10, <1>11, <1>12 DEF Next

(* Every run of the location handlers is one of the book of placements:     *)
(* what allocateEquipment inserts on a full count, and what POST            *)
(* /equipment/:id/allocations inserts, fits when it is inserted; a move     *)
(* keeps the units, a return is for good, and setting an item's             *)
(* allocations ends the others in the same step.                            *)
THEOREM PlacementsKept ==
  ASSUME PlacesSetUp
  PROVE  Spec => ImplementsPlacements
  <1>1. Init => BoundInv
    BY BoundInit
  <1>2. Init => Ledger!Init
    BY BookStarts
  <1>3. BoundInv /\ [Next]_placeVars => BoundInv' /\ [Ledger!Next]_<<Book, Total, outrun>>
    BY BoundNext, BookStep
  <1> QED
    BY <1>1, <1>2, <1>3, PTL DEF Spec, ImplementsPlacements, Ledger!Spec
===============================================================================
