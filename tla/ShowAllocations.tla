--------------------------- MODULE ShowAllocations ---------------------------
(***************************************************************************)
(* The handlers of routes/showEquipment.js that write, and the deletion of  *)
(* a show (routes/shows.js).                                               *)
(*                                                                         *)
(* Every handler is a chain of awaited, auto-committed SQL statements; the *)
(* server interleaves the chains of the requests it is serving.  A step of *)
(* this specification is one such statement with the code up to the next   *)
(* await.  requests[h] is what the closure of the request in slot h keeps  *)
(* between two awaits.  A request that is refused by its first query       *)
(* changes nothing and is not represented.                                 *)
(***************************************************************************)
EXTENDS InventoryTables

CONSTANTS
    Handlers,         \* requests the server serves at the same time
    Endpoints,        \* the requests that clients send in this instance
    QueriesMayFail,   \* TRUE: a statement may fail and end its handler
    InitialInventory  \* the contents inventory_allocation may start with

AllEndpoints == {"add", "update_status", "update", "legacy",
                 "checkout", "return", "remove", "delete_show"}

ASSUME HandlersAssumption ==
    /\ IsFiniteSet(Handlers)
    /\ Endpoints \subseteq AllEndpoints
    /\ QueriesMayFail \in BOOLEAN
    /\ \A table \in InitialInventory : IsTable(table, InventoryRow)

VARIABLES
    requests,        \* the state of the handler in each slot
    auto_increment   \* ids given out by show_equipment so far

vars == <<tables, requests, auto_increment>>
-----------------------------------------------------------------------------
NoId == "none"
Omitted == -1        \* a quantity the request body leaves undefined
NoStatus == "undefined"

Steps == {"idle", "existing", "show_sum", "inventory_sum", "insert",
          "own", "others", "write", "equipment", "destroy"}

Request == [pc : Steps,
            op : AllEndpoints \cup {NoId},
            id : RowIds \cup {0},
            show : Shows \cup {NoId},
            equipment : Equipment \cup {NoId},
            needed : Quantities \cup {Omitted},
            allocated : Quantities \cup {Omitted},
            status : ShowStatuses \cup {NoStatus},
            quantity : Int]   \* the quantity to validate, or units found free

Idle == [pc |-> "idle", op |-> NoId, id |-> 0, show |-> NoId, equipment |-> NoId,
         needed |-> Omitted, allocated |-> Omitted, status |-> NoStatus, quantity |-> 0]

IsIdle(h) == requests[h].pc = "idle"
At(h, pc) == requests[h].pc = pc
Become(h, r) == requests' = [requests EXCEPT ![h] = r]
Goto(h, pc) == Become(h, [requests[h] EXCEPT !.pc = pc])
Answer(h) == Become(h, Idle)     \* res.json or res.status: the closure is gone

AddSteps == {"existing", "show_sum", "inventory_sum", "insert"}
RowSteps == {"own", "others", "write", "equipment"}

RequestOK(r) ==
    /\ r \in Request
    /\ r.pc \in AddSteps =>
          r.show \in Shows /\ r.equipment \in Equipment /\ r.needed \in 1..MaxQuantity
    /\ r.pc \in RowSteps =>
          /\ r.op \in Endpoints
          /\ r.id \in RowIds /\ r.equipment \in Equipment
          /\ r.op # "remove" => r.status \in ShowStatuses
          /\ r.pc # "write" => r.op # "remove"
          /\ r.op \notin {"update", "legacy"} => r.needed = Omitted /\ r.allocated = Omitted

(* Rows, requests and the values the handlers keep between two awaits are   *)
(* of the types the schemas and the request bodies allow.                  *)
TypeOK ==
    /\ TablesTypeOK
    /\ requests \in [Handlers -> Request]
    /\ \A h \in Handlers : RequestOK(requests[h])
    /\ auto_increment \in 0..MaxRows
    /\ DOMAIN show_equipment \subseteq 1..auto_increment

Init ==
    /\ equipment \in [Equipment -> {r \in EquipmentRow :
                                        /\ r.installation_quantity <= r.quantity
                                        /\ r.status = "available"}]
    /\ shows = Shows
    /\ show_equipment = [k \in {} |-> k]
    /\ inventory_allocation \in InitialInventory
    /\ requests = [h \in Handlers |-> Idle]
    /\ auto_increment = 0
-----------------------------------------------------------------------------
(***************************************************************************)
(* POST /show/:showId/equipment                                            *)
(***************************************************************************)
RowFor_Active(s, e) ==   \* variant: a returned row does not count
    \E k \in DOMAIN show_equipment :
        /\ show_equipment[k].show_id = s /\ show_equipment[k].equipment_id = e
        /\ show_equipment[k].status # "returned"

RowFor(s, e) ==
    \E k \in DOMAIN show_equipment :
        show_equipment[k].show_id = s /\ show_equipment[k].equipment_id = e

AddFindShow(h, s, e, n) ==
    /\ "add" \in Endpoints
    /\ IsIdle(h)
    /\ s \in shows
    /\ Become(h, [Idle EXCEPT !.pc = "existing", !.op = "add", !.show = s,
                              !.equipment = e, !.needed = n])
    /\ UNCHANGED <<tables, auto_increment>>

AddFindExisting(h) ==
    /\ At(h, "existing")
    /\ IF RowFor(requests[h].show, requests[h].equipment)
         THEN Answer(h)
         ELSE Goto(h, "show_sum")
    /\ UNCHANGED <<tables, auto_increment>>

(* The SELECTs of getEquipmentAvailability.  A SELECT on an allocation     *)
(* table that fails is caught there, and counts as no allocation.          *)
Sums(table, e) ==
    {SumAllocated(table, e, unavailableStatuses)} \cup (IF QueriesMayFail THEN {0} ELSE {})

AddSumShows(h) ==
    LET r == requests[h] IN
    /\ At(h, "show_sum")
    /\ \E sum \in Sums(show_equipment, r.equipment) :
          Become(h, [r EXCEPT !.pc = "inventory_sum", !.quantity = Uninstalled(r.equipment) - sum])
    /\ UNCHANGED <<tables, auto_increment>>

AddSumInventory(h) ==
    LET r == requests[h] IN
    /\ At(h, "inventory_sum")
    /\ \E sum \in Sums(inventory_allocation, r.equipment) :
          IF NonNegative(r.quantity - sum) < r.needed THEN Answer(h) ELSE Goto(h, "insert")
    /\ UNCHANGED <<tables, auto_increment>>

(* The INSERT, refused by the foreign keys and the unique key if the schema *)
(* has them.                                                               *)
Refused_NoForeignKey(r) == MigratedSchema /\ RowFor(r.show, r.equipment)   \* variant
Refused_NoUniqueKey(r) == MigratedSchema /\ r.show \notin shows            \* variant

Refused(r) == MigratedSchema /\ (r.show \notin shows \/ RowFor(r.show, r.equipment))

AddInsert(h) ==
    LET r == requests[h]
        row == [show_id |-> r.show, equipment_id |-> r.equipment,
                quantity_needed |-> r.needed, quantity_allocated |-> r.needed,
                status |-> "allocated"]
    IN
    /\ At(h, "insert")
    /\ \/ /\ Refused(r)
          /\ UNCHANGED <<show_equipment, auto_increment>>
       \/ /\ ~Refused(r)
          /\ auto_increment < MaxRows
          /\ auto_increment' = auto_increment + 1
          /\ show_equipment' = Insert(show_equipment, auto_increment + 1, row)
    /\ Answer(h)
    /\ UNCHANGED <<equipment, shows, inventory_allocation>>
-----------------------------------------------------------------------------
(***************************************************************************)
(* The handlers on one row.  Each begins with SELECT * FROM show_equipment *)
(* WHERE id = ?, and keeps what it needs of that row.                      *)
(***************************************************************************)
FirstGiven(a, b, c) ==      \* a || b || c of JavaScript
    IF a \notin {Omitted, 0} THEN a ELSE IF b \notin {Omitted, 0} THEN b ELSE c

Begin(h, op, id, needed, allocated, status, quantity, pc) ==
    Become(h, [Idle EXCEPT !.pc = pc, !.op = op, !.id = id,
                           !.equipment = show_equipment[id].equipment_id,
                           !.needed = needed, !.allocated = allocated,
                           !.status = status, !.quantity = quantity])

FirstCheck_Availability(row, status) ==   \* variant: releasing statuses unchecked
    IF status # row.status /\ status \in requiresAvailability THEN "own" ELSE "write"

(* A status is validated only if it changes. *)
FirstCheck(row, status) == IF status # row.status THEN "own" ELSE "write"

(* PUT /allocation/:allocationId gets the status alone ("update_status",    *)
(* from InlineStatusEdit) or the whole form ("update", from                 *)
(* ShowEquipmentEditModal and InlineQuantityEdit); the legacy PUT /:id      *)
(* writes all fields, and fails if one is undefined.  The forms send at     *)
(* least 1 needed and no more allocated than needed.  The first endpoint    *)
(* validates with quantityNeeded || the old quantity_allocated, the second  *)
(* prefers quantityAllocated.                                              *)
UpdateRead(h, op, id, needed, allocated, status) ==
    LET row == show_equipment[id]
        quantity == IF op = "legacy"
                      THEN FirstGiven(allocated, needed, row.quantity_allocated)
                      ELSE FirstGiven(needed, Omitted, row.quantity_allocated)
    IN
    /\ op \in Endpoints
    /\ IsIdle(h)
    /\ id \in DOMAIN show_equipment
    /\ Begin(h, op, id, needed, allocated, status, quantity,
             FirstCheck(row, status))
    /\ UNCHANGED <<tables, auto_increment>>

(* POST /:id/checkout and POST /:id/return *)
MoveRead(h, op, id) ==
    /\ op \in Endpoints
    /\ IsIdle(h)
    /\ id \in DOMAIN show_equipment
    /\ Begin(h, op, id, Omitted, Omitted,
             IF op = "checkout" THEN "checked-out" ELSE "returned",
             show_equipment[id].quantity_allocated, "own")
    /\ UNCHANGED <<tables, auto_increment>>

RemoveRead_CheckedOutOnly(h, id) ==   \* variant: a row in use may go
    /\ "remove" \in Endpoints
    /\ IsIdle(h)
    /\ id \in DOMAIN show_equipment
    /\ show_equipment[id].status # "checked-out"
    /\ Begin(h, "remove", id, Omitted, Omitted, NoStatus, 0, "write")
    /\ UNCHANGED <<tables, auto_increment>>

(* DELETE /:id *)
RemoveRead(h, id) ==
    /\ "remove" \in Endpoints
    /\ IsIdle(h)
    /\ id \in DOMAIN show_equipment
    /\ show_equipment[id].status \notin OutStatuses
    /\ Begin(h, "remove", id, Omitted, Omitted, NoStatus, 0, "write")
    /\ UNCHANGED <<tables, auto_increment>>

(* validateStatusChange: its own SELECT of the row; a row deleted meanwhile *)
(* is `undefined`, and the checks on it are skipped.                       *)
ValidateOwnRow(h) ==
    LET r == requests[h] IN
    /\ At(h, "own")
    /\ IF r.id \in DOMAIN show_equipment => OwnRowAllows(show_equipment[r.id], r.status)
         THEN Goto(h, "others")
         ELSE Answer(h)
    /\ UNCHANGED <<tables, auto_increment>>

ValidateOthers(h) ==
    LET r == requests[h] IN
    /\ At(h, "others")
    /\ IF OtherAllocationsAllow(r.equipment, r.id, r.status, r.quantity)
         THEN Goto(h, "write")
         ELSE Answer(h)
    /\ UNCHANGED <<tables, auto_increment>>

Given_Always(value, old) == value   \* variant: an omitted field is written too

Given(value, old) == IF value = Omitted THEN old ELSE value

(* The UPDATE of the fields the body gives. *)
UpdateWrite(h) ==
    LET r == requests[h]
        old == show_equipment[r.id]
        new == [old EXCEPT !.quantity_needed = Given(r.needed, @),
                           !.quantity_allocated = Given(r.allocated, @),
                           !.status = r.status]
    IN
    /\ At(h, "write")
    /\ r.op \in {"update_status", "update", "legacy"}
    /\ show_equipment' = Update(show_equipment, r.id, new)
    /\ Answer(h)
    /\ UNCHANGED <<equipment, shows, inventory_allocation, auto_increment>>

(* First UPDATE of checkout and return: the row's status. *)
MoveWriteRow(h) ==
    LET r == requests[h] IN
    /\ At(h, "write")
    /\ r.op \in {"checkout", "return"}
    /\ show_equipment' = Update(show_equipment, r.id,
                                [show_equipment[r.id] EXCEPT !.status = r.status])
    /\ Goto(h, "equipment")
    /\ UNCHANGED <<equipment, shows, inventory_allocation, auto_increment>>

StatusAfter_InUse(op) == "in-use"   \* variant: a return keeps the item in use

StatusAfter(op) == IF op = "checkout" THEN "in-use" ELSE "available"

(* Second UPDATE of checkout and return: the status of the equipment. *)
MoveWriteEquipment(h) ==
    LET r == requests[h] IN
    /\ At(h, "equipment")
    /\ equipment' = [equipment EXCEPT ![r.equipment].status = StatusAfter(r.op)]
    /\ Answer(h)
    /\ UNCHANGED <<shows, show_equipment, inventory_allocation, auto_increment>>

RemoveWrite(h) ==
    LET r == requests[h] IN
    /\ At(h, "write")
    /\ r.op = "remove"
    /\ show_equipment' = DeleteRows(show_equipment, {r.id})
    /\ Answer(h)
    /\ UNCHANGED <<equipment, shows, inventory_allocation, auto_increment>>
-----------------------------------------------------------------------------
(***************************************************************************)
(* DELETE /shows/:id                                                       *)
(***************************************************************************)
RowsOf_Active(s) ==   \* variant: returned rows do not count
    {k \in DOMAIN show_equipment :
        show_equipment[k].show_id = s /\ show_equipment[k].status # "returned"}

RowsOf(s) == {k \in DOMAIN show_equipment : show_equipment[k].show_id = s}

DeleteShowRead(h, s) ==
    /\ "delete_show" \in Endpoints
    /\ IsIdle(h)
    /\ s \in shows
    /\ RowsOf(s) = {}
    /\ Become(h, [Idle EXCEPT !.pc = "destroy", !.op = "delete_show", !.show = s])
    /\ UNCHANGED <<tables, auto_increment>>

(* show.destroy(): ON DELETE CASCADE under the migrated schema. *)
DeleteShowWrite(h) ==
    LET s == requests[h].show IN
    /\ At(h, "destroy")
    /\ shows' = shows \ {s}
    /\ show_equipment' = IF MigratedSchema
                           THEN DeleteRows(show_equipment, RowsOf(s))
                           ELSE show_equipment
    /\ Answer(h)
    /\ UNCHANGED <<equipment, inventory_allocation, auto_increment>>
-----------------------------------------------------------------------------
(* A statement fails (connection lost, pool timeout): the catch block       *)
(* answers 500 and what was already committed stays.  The one exception is *)
(* the SUM over inventory_allocation, caught in getEquipmentAvailability.   *)
QueryFails(h) ==
    /\ QueriesMayFail
    /\ requests[h].pc \notin {"idle", "inventory_sum"}
    /\ Answer(h)
    /\ UNCHANGED <<tables, auto_increment>>

Add(h) ==
    \/ \E s \in Shows, e \in Equipment, n \in 1..MaxQuantity : AddFindShow(h, s, e, n)
    \/ AddFindExisting(h)
    \/ AddSumShows(h)
    \/ AddSumInventory(h)
    \/ AddInsert(h)

ChangeRow(h) ==
    \/ \E id \in RowIds, status \in ShowStatuses :
            UpdateRead(h, "update_status", id, Omitted, Omitted, status)
    \/ \E op \in {"update", "legacy"}, id \in RowIds, needed \in 1..MaxQuantity,
          status \in ShowStatuses : \E allocated \in 0..needed :
              UpdateRead(h, op, id, needed, allocated, status)
    \/ \E op \in {"checkout", "return"}, id \in RowIds : MoveRead(h, op, id)
    \/ \E id \in RowIds : RemoveRead(h, id)
    \/ ValidateOwnRow(h)
    \/ ValidateOthers(h)
    \/ UpdateWrite(h)
    \/ MoveWriteRow(h)
    \/ MoveWriteEquipment(h)
    \/ RemoveWrite(h)

DeleteShow(h) ==
    \/ \E s \in Shows : DeleteShowRead(h, s)
    \/ DeleteShowWrite(h)

Next == \E h \in Handlers : Add(h) \/ ChangeRow(h) \/ DeleteShow(h) \/ QueryFails(h)

Spec == Init /\ [][Next]_vars
-----------------------------------------------------------------------------
(***************************************************************************)
(* What the handlers are meant to guarantee.                               *)
(***************************************************************************)
AllIdle == \A h \in Handlers : IsIdle(h)

RowsOut(e) == {k \in DOMAIN show_equipment :
                  /\ show_equipment[k].equipment_id = e
                  /\ show_equipment[k].status \in OutStatuses}

(* The units in the hands of shows (checked out or in use) never exceed the *)
(* stock: validateStatusChange checks every move of a row into such a       *)
(* status against what the other rows hold.                                *)
OutWithinStock ==
    \A e \in Equipment :
        SumAllocated(show_equipment, e, OutStatuses) <= equipment[e].quantity

(* "Not enough equipment available": POST /show/:showId/equipment inserts a *)
(* row only if the units it takes are still free once it is inserted.      *)
InsertWithinStock ==
    [][\A e \in Equipment :
          (\E k \in DOMAIN show_equipment' \ DOMAIN show_equipment :
              show_equipment'[k].equipment_id = e)
          => (Unavailable(e) <= equipment[e].quantity)']_vars

(* "Cannot return equipment that was never checked out" and "Cannot put     *)
(* equipment in-use without checking it out first": whatever endpoint is    *)
(* used, a row enters these statuses only from the ones before them.        *)
WorkflowRespected ==
    [][\A k \in DOMAIN show_equipment \cap DOMAIN show_equipment' :
          LET old == show_equipment[k].status
              new == show_equipment'[k].status
          IN  old # new =>
                 /\ new = "returned" => old \in OutStatuses
                 /\ new = "in-use" => old = "checked-out"]_vars

(* "Status transition rules (logical workflow)": a row's status moves only  *)
(* along allowedTransitions, so that a returned row starts a new cycle at   *)
(* "requested".                                                            *)
TransitionsFollowRules ==
    [][\A k \in DOMAIN show_equipment \cap DOMAIN show_equipment' :
          LET old == show_equipment[k].status
              new == show_equipment'[k].status
          IN  old # new => new \in allowedTransitions(old)]_vars

(* "Items with insufficient allocation cannot be set to allocated or        *)
(* checked-out": a row enters a status that needs units only with all the   *)
(* units it needs.                                                         *)
NoShortRowTaken ==
    [][\A k \in DOMAIN show_equipment \cap DOMAIN show_equipment' :
          LET old == show_equipment[k]
              new == show_equipment'[k]
          IN  old.status # new.status /\ new.status \in requiresAvailability
                => new.quantity_needed <= new.quantity_allocated]_vars

(* "Cannot remove checked-out equipment. Please return it first." and        *)
(* "Cannot delete show with allocated equipment": no row disappears while   *)
(* its units are out, whichever handler deletes it.                        *)
NoOutRowDeleted ==
    [][\A k \in DOMAIN show_equipment \ DOMAIN show_equipment' :
          show_equipment[k].status \notin OutStatuses]_vars

(* "Equipment already added to this show": one row for a show and an item.  *)
OneRowPerShow ==
    \A j, k \in DOMAIN show_equipment :
        /\ show_equipment[j].show_id = show_equipment[k].show_id
        /\ show_equipment[j].equipment_id = show_equipment[k].equipment_id
        => j = k

(* "Cannot delete show with allocated equipment": every row belongs to a    *)
(* show that exists, so DELETE /shows/:id leaves no row behind.             *)
NoDanglingRows ==
    \A k \in DOMAIN show_equipment : show_equipment[k].show_id \in shows

(* Checkout and return write two tables in two statements.  For an item of  *)
(* which there is one unit they agree once no request is being served: the  *)
(* equipment row says "in-use" exactly if a show has the unit.              *)
SingleItemStatusAgrees ==
    AllIdle => \A e \in Equipment :
        equipment[e].quantity = 1 =>
            (equipment[e].status = "in-use") = (RowsOut(e) # {})

(* Two requests at the same time may both find units free (checkout_race),  *)
(* but each has validated its own row against the stock: the units out are  *)
(* at most the stock once for every request the server serves at a time.    *)
OutBounded ==
    \A e \in Equipment :
        SumAllocated(show_equipment, e, OutStatuses)
            <= Cardinality(Handlers) * equipment[e].quantity

(* The handlers implement the check-out desk of Loans: the loans are the    *)
(* rows that are out.                                                      *)
LoanBook == INSTANCE Loans WITH
    Ids <- RowIds,
    Items <- Equipment,
    MaxUnits <- MaxQuantity,
    stock <- [e \in Equipment |-> equipment[e].quantity],
    loans <- [k \in UNION {RowsOut(e) : e \in Equipment} |->
                 [item |-> show_equipment[k].equipment_id,
                  units |-> show_equipment[k].quantity_allocated]]

ImplementsLoans == LoanBook!Spec
=============================================================================
