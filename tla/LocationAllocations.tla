------------------------- MODULE LocationAllocations -------------------------
(***************************************************************************)
(* Units of an item placed at locations: routes/inventory.js with          *)
(* allocateEquipment, returnEquipment and moveEquipment of                 *)
(* inventoryService.js, and POST /equipment/:id/allocations, with the log  *)
(* equipment_status_log that all but the last write.                       *)
(*                                                                         *)
(* A step is a SQL statement with the code up to the next await; what a    *)
(* transaction writes appears at its commit.  Rows of shows do not change  *)
(* here (ShowAllocations has those), nor does the item's own row; all      *)
(* three SELECTs of getEquipmentAvailability are one step, because only    *)
(* one reads a table that changes.                                         *)
(***************************************************************************)
EXTENDS InventoryTables

CONSTANTS
    Item,              \* the item: items never meet in a statement
    Locations,
    Strict,            \* sql_mode of the database: FALSE stores '' for an unknown ENUM
    PlaceHandlers,     \* requests served at the same time
    ShowRows           \* what show_equipment may hold

VARIABLES
    placed,        \* location_id of each row of inventory_allocation
    status_log,    \* where the last entry about a row says it went
    place_calls,   \* what the request in each slot keeps
    doubtful,      \* rows that two requests worked on at once, or an entry was lost of
    outrun,        \* TRUE once a row was inserted between another's read and INSERT
    guessed        \* rows inserted after a SELECT that failed was counted as 0

placeVars == <<tables, placed, status_log, place_calls, doubtful, outrun, guessed>>

NoCall == [pc |-> "none"]

Total == equipment[Item].quantity

PlaceTypeOK ==
    /\ TablesTypeOK
    /\ placed \in [DOMAIN inventory_allocation -> Locations]
    /\ status_log \in [DOMAIN status_log -> Locations]
    /\ DOMAIN status_log \subseteq DOMAIN inventory_allocation
    /\ doubtful \subseteq RowIds
    /\ guessed \subseteq DOMAIN inventory_allocation

Init ==
    /\ equipment = [e \in Equipment |-> [quantity |-> MaxQuantity, status |-> "available",
                                         installation_quantity |-> 0]]
    /\ shows = Shows
    /\ show_equipment \in ShowRows
    /\ inventory_allocation = [r \in {} |-> r] /\ placed = [r \in {} |-> r]
    /\ status_log = [r \in {} |-> r]
    /\ place_calls = [h \in PlaceHandlers |-> NoCall]
    /\ doubtful = {} /\ outrun = FALSE /\ guessed = {}
-----------------------------------------------------------------------------
At(h, pc) == place_calls[h].pc = pc
LastRow == Cardinality(DOMAIN inventory_allocation)   \* no row is ever deleted

(* Rows that a call works on, until it has written its entry. *)
RowsOf(c) == IF c.pc \in {"update", "log"} THEN {c.row} ELSE {}
BusyRows(h) == UNION {RowsOf(place_calls[g]) : g \in PlaceHandlers \ {h}}

Become(h, c) ==
    /\ place_calls' = [place_calls EXCEPT ![h] = c]
    /\ doubtful' = doubtful \cup (RowsOf(c) \cap BusyRows(h))
Start(h, c) == place_calls[h] = NoCall /\ Become(h, c)
Answer(h) == Become(h, NoCall)

(* A row is inserted: whoever read the availability before is outrun. *)
Outrun(h) ==
    outrun' = (outrun \/ \E g \in PlaceHandlers \ {h} : place_calls[g].pc = "insert")

Row(n, status) == [equipment_id |-> Item, quantity_allocated |-> n, status |-> status]

InsertRow(id, n, status, place) ==
    /\ inventory_allocation' = Insert(inventory_allocation, id, Row(n, status))
    /\ placed' = Insert(placed, id, place)

(***************************************************************************)
(* POST /inventory/allocate                                                *)
(***************************************************************************)
(* What a SUM may be taken for: its SELECT may fail, and that is swallowed. *)
Sums(table) == {SumAllocated(table, Item, unavailableStatuses), 0}

Counted(shown, taken) ==
    /\ shown = SumAllocated(show_equipment, Item, unavailableStatuses)
    /\ taken = SumAllocated(inventory_allocation, Item, unavailableStatuses)

Enough_ShowsOnly(n, shown, taken) ==     \* variant: inventory_allocation is not counted
    n <= NonNegative(Uninstalled(Item) - shown)
Enough(n, shown, taken) == n <= NonNegative(Uninstalled(Item) - shown - taken)

AllocateRead(h, place, n) ==
    \E shown \in Sums(show_equipment), taken \in Sums(inventory_allocation) :
        /\ Enough(n, shown, taken)
        /\ Start(h, [pc |-> "insert", place |-> place, quantity |-> n,
                     by |-> IF Counted(shown, taken) THEN "count" ELSE "guess"])
        /\ UNCHANGED <<tables, placed, status_log, outrun, guessed>>

AllocateInsert(h) ==
    LET c == place_calls[h]
        id == LastRow + 1
    IN
    /\ At(h, "insert") /\ id \in RowIds
    /\ InsertRow(id, c.quantity, "allocated", c.place)
    /\ guessed' = IF c.by = "guess" THEN guessed \cup {id} ELSE guessed
    /\ Become(h, [pc |-> "log", row |-> id, at |-> c.place])
    /\ Outrun(h)
    /\ UNCHANGED <<equipment, shows, show_equipment, status_log>>

(***************************************************************************)
(* PUT /inventory/allocations/:id/return: the UPDATE matches no row that   *)
(* is returned, and an entry with the place is written all the same.       *)
(***************************************************************************)
ReturnUpdate(h, id) ==
    LET row == inventory_allocation[id] IN
    /\ id \in DOMAIN inventory_allocation
    /\ inventory_allocation' =
          Update(inventory_allocation, id, [row EXCEPT !.status = "returned"])
    /\ Start(h, [pc |-> "log", row |-> id, at |-> placed[id]])
    /\ UNCHANGED <<equipment, shows, show_equipment, placed, status_log, outrun, guessed>>

(***************************************************************************)
(* PUT /inventory/allocations/:id/move: also of a row that is returned.    *)
(***************************************************************************)
MoveRead(h, id, place) ==
    /\ id \in DOMAIN inventory_allocation
    /\ Start(h, [pc |-> "update", row |-> id, at |-> place])
    /\ UNCHANGED <<tables, placed, status_log, outrun, guessed>>

MoveUpdate(h) ==
    LET c == place_calls[h] IN
    /\ At(h, "update")
    /\ placed' = Update(placed, c.row, c.at)
    /\ Become(h, [pc |-> "log", row |-> c.row, at |-> c.at])
    /\ UNCHANGED <<tables, status_log, outrun, guessed>>

(* logStatusChange swallows its errors. *)
Entry_Previous(c) ==     \* variant: a move logs the location that was left
    IF c.row \in DOMAIN status_log THEN status_log[c.row] ELSE c.at
Entry(c) == c.at

Log(h) ==
    LET c == place_calls[h] IN
    /\ At(h, "log")
    /\ \/ status_log' = Insert(status_log, c.row, Entry(c)) /\ Answer(h)
       \/ /\ UNCHANGED status_log
          /\ place_calls' = [place_calls EXCEPT ![h] = NoCall]
          /\ doubtful' = doubtful \cup {c.row}
    /\ UNCHANGED <<tables, placed, outrun, guessed>>

(***************************************************************************)
(* POST /equipment/:id/allocations with some rows.  findByPk and the test  *)
(* of the total; then, in the transaction, every active row is returned    *)
(* and the new ones are inserted with the type 'location', which the ENUM  *)
(* of the migrations does not have.  (Without rows it returns the rows of  *)
(* that type, and there are none: nothing happens.)                        *)
(***************************************************************************)
TotalFits_Each(body) == \A b \in body : b.quantity <= Total   \* variant: row by row
TotalFits(body) ==
    Cardinality({u \in body \X (1..MaxQuantity) : u[2] <= u[1].quantity}) <= Total

SetRead(h, body) ==
    /\ body # {} /\ TotalFits(body)
    /\ Start(h, [pc |-> "commit", body |-> body])
    /\ UNCHANGED <<tables, placed, status_log, outrun, guessed>>

AllReturned_None == inventory_allocation   \* variant: the rows there were stay active
AllReturned ==
    [r \in DOMAIN inventory_allocation |->
        [inventory_allocation[r] EXCEPT !.status = "returned"]]

SetCommit(h) ==
    LET body == place_calls[h].body
        last == LastRow + Cardinality(body)
    IN
    /\ At(h, "commit")
    /\ IF Strict THEN UNCHANGED <<inventory_allocation, placed, outrun>>
       ELSE /\ last \in RowIds
            /\ \E b \in [LastRow + 1 .. last -> body] :
                  /\ \A i, j \in DOMAIN b : i # j => b[i] # b[j]
                  /\ inventory_allocation' =
                        [r \in 1..last |-> IF r \in DOMAIN b
                                             THEN Row(b[r].quantity, "allocated")
                                             ELSE AllReturned[r]]
                  /\ placed' = [r \in 1..last |-> IF r \in DOMAIN b
                                                    THEN b[r].place ELSE placed[r]]
            /\ Outrun(h)
    /\ Answer(h)
    /\ UNCHANGED <<equipment, shows, show_equipment, status_log, guessed>>

(* A statement fails: the handler answers 400 or 500 *)
Fail(h) ==
    /\ place_calls[h].pc \in {"insert", "update", "commit"}
    /\ Answer(h)
    /\ UNCHANGED <<tables, placed, status_log, outrun, guessed>>
-----------------------------------------------------------------------------
(* What the dialogue of the locations lets pass, and can have in it *)
OneRowEach(body) == \A b, c \in body : b # c => b.place # c.place
Bodies == {body \in SUBSET [place : Locations, quantity : 1..MaxQuantity] : OneRowEach(body)}

Next ==
    \E h \in PlaceHandlers :
        \/ \E place \in Locations, n \in 1..MaxQuantity : AllocateRead(h, place, n)
        \/ \E id \in DOMAIN inventory_allocation : ReturnUpdate(h, id)
        \/ \E id \in DOMAIN inventory_allocation, place \in Locations : MoveRead(h, id, place)
        \/ \E body \in Bodies : SetRead(h, body)
        \/ AllocateInsert(h) \/ MoveUpdate(h) \/ Log(h) \/ SetCommit(h) \/ Fail(h)

Spec == Init /\ [][Next]_placeVars
-----------------------------------------------------------------------------
(* Rows that are there by a full count.                                     *)
CountedRows == DeleteRows(inventory_allocation, guessed)

(* The units that were placed on a full count are no more than the item    *)
(* has, unless a request inserted a row after another had read what is     *)
(* free.  A row that is there by a guess, because a SELECT failed, lets    *)
(* only its own units past the stock: every later request counts it.       *)
(* Setting all allocations of an item needs no exception: it returns what  *)
(* is active in the transaction that inserts.                              *)
PlacedWithinStock ==
    ~outrun => SumAllocated(CountedRows, Item, {"allocated", "in-use"}) <= Total

(* The log says of a row where it is, as long as no two requests worked on *)
(* that row at the same time and no entry was lost.                        *)
LogSaysWhere ==
    \A r \in DOMAIN status_log \ doubtful :
        status_log[r] = placed[r] \/ \E h \in PlaceHandlers : r \in RowsOf(place_calls[h])

(* Requests that insert after another's read may place more than there is, *)
(* but each that counted all rows found its own units free: what they      *)
(* placed is at most the stock once for every request served at a time.    *)
PlacedBounded ==
    SumAllocated(CountedRows, Item, {"allocated", "in-use"})
        <= Cardinality(PlaceHandlers) * Total

(* The handlers keep the book of Placements: a row keeps its units, a row   *)
(* that is returned stays so whatever moves it, and nothing but POST        *)
(* /equipment/:id/allocations ends more than one placement in a step.      *)
Book == [r \in DOMAIN inventory_allocation |->
            [spot |-> placed[r],
             units |-> inventory_allocation[r].quantity_allocated,
             phase |-> IF inventory_allocation[r].status = "returned"
                         THEN "ended" ELSE "lasting",
             by |-> IF r \in guessed THEN "guess" ELSE "count"]]

Ledger == INSTANCE Placements WITH
    Ids <- RowIds,
    Spots <- Locations,
    MaxUnits <- MaxQuantity,
    Adders <- PlaceHandlers,
    book <- Book,
    stock <- Total,
    late <- outrun

ImplementsPlacements == Ledger!Spec
=============================================================================
