--------------------------- MODULE InventoryTables ---------------------------
(***************************************************************************)
(* The four tables the allocation handlers share, and the reads they make  *)
(* of them: getEquipmentAvailability of inventoryService.js and            *)
(* validateStatusChange of statusValidationService.js.                     *)
(*                                                                         *)
(* A table is a function whose domain is the set of primary keys in use.   *)
(* The modules that EXTEND this one add the handlers that write.           *)
(***************************************************************************)
EXTENDS Integers, FiniteSets

CONSTANTS
    Equipment,       \* ids of the equipment rows
    Shows,           \* ids of the shows
    MaxQuantity,     \* bound: largest quantity a request or a row mentions
    MaxRows,         \* bound: rows ever inserted into each allocation table
    MigratedSchema   \* TRUE: create_shows_tables.js (UNIQUE key, foreign keys,
                     \* ENUM); FALSE: create_show_equipment_table_simple.sql

ASSUME TablesAssumption ==
    /\ IsFiniteSet(Equipment)
    /\ MaxQuantity \in Nat \ {0}
    /\ MaxRows \in Nat
    /\ MigratedSchema \in BOOLEAN

VARIABLES
    equipment,            \* the equipment table, every row present
    shows,                \* ids of the shows that exist
    show_equipment,       \* rows that give equipment to a show
    inventory_allocation  \* rows that place equipment at a location

tables == <<equipment, shows, show_equipment, inventory_allocation>>
-----------------------------------------------------------------------------
RowIds == 1..MaxRows      \* AUTO_INCREMENT starts at 1 in both tables
Quantities == 0..MaxQuantity

ShowStatuses == {"requested", "allocated", "checked-out", "in-use", "returned"}
                    \cup (IF MigratedSchema THEN {} ELSE {"cancelled"})
InventoryStatuses == {"allocated", "in-use", "reserved", "returned", "maintenance"}
EquipmentStatuses == {"available", "in-use", "maintenance", "unavailable", "broken"}

EquipmentRow == [quantity : 1..MaxQuantity,
                 installation_quantity : Quantities,
                 status : EquipmentStatuses]

ShowEquipmentRow == [show_id : Shows,
                     equipment_id : Equipment,
                     quantity_needed : Quantities,
                     quantity_allocated : Quantities,
                     status : ShowStatuses]

InventoryRow == [equipment_id : Equipment,
                 quantity_allocated : Quantities,
                 status : InventoryStatuses]

IsTable(table, Row) ==
    /\ DOMAIN table \subseteq RowIds
    /\ table \in [DOMAIN table -> Row]

TablesTypeOK ==
    /\ equipment \in [Equipment -> EquipmentRow]
    /\ shows \in SUBSET Shows
    /\ IsTable(show_equipment, ShowEquipmentRow)
    /\ IsTable(inventory_allocation, InventoryRow)
-----------------------------------------------------------------------------
(***************************************************************************)
(* INSERT, UPDATE and DELETE of one row.  An UPDATE or DELETE whose WHERE   *)
(* names a key that is gone matches no row and changes nothing.            *)
(***************************************************************************)
Insert(table, id, row) ==
    [k \in DOMAIN table \cup {id} |-> IF k = id THEN row ELSE table[k]]

Update(table, id, row) ==
    [k \in DOMAIN table |-> IF k = id THEN row ELSE table[k]]

DeleteRows(table, ids) == [k \in DOMAIN table \ ids |-> table[k]]
-----------------------------------------------------------------------------
(***************************************************************************)
(* SUM(quantity_allocated) over the rows of e whose status is in S.  A row  *)
(* of quantity q stands for the q pairs <<id, 1>> .. <<id, q>>, so the sum  *)
(* is the number of such pairs: a form the proofs can count with.          *)
(***************************************************************************)
Units_RowsCounted(table, e, S) ==   \* variant: COUNT(*) in place of SUM
    {u \in (DOMAIN table) \X {1} :
        table[u[1]].equipment_id = e /\ table[u[1]].status \in S}

Units(table, e, S) ==
    {u \in (DOMAIN table) \X (1..MaxQuantity) :
        /\ table[u[1]].equipment_id = e
        /\ table[u[1]].status \in S
        /\ u[2] <= table[u[1]].quantity_allocated}

SumAllocated(table, e, S) == Cardinality(Units(table, e, S))
-----------------------------------------------------------------------------
(***************************************************************************)
(* inventoryService.getEquipmentAvailability                               *)
(***************************************************************************)
unavailableStatuses == {"requested", "allocated", "checked-out", "in-use"}

NonNegative(n) == IF n < 0 THEN 0 ELSE n

Uninstalled_Ignored(e) == equipment[e].quantity   \* variant: all units portable

Uninstalled(e) == equipment[e].quantity - equipment[e].installation_quantity

Unavailable(e) == equipment[e].installation_quantity
                    + SumAllocated(show_equipment, e, unavailableStatuses)
                    + SumAllocated(inventory_allocation, e, unavailableStatuses)

AvailableQuantity(e) == NonNegative(equipment[e].quantity - Unavailable(e))
-----------------------------------------------------------------------------
(***************************************************************************)
(* statusValidationService.validateStatusChange, in the two parts that      *)
(* read the database at different moments: the row's own SELECT, and the    *)
(* SELECT of all other allocations with the equipment's quantity.           *)
(***************************************************************************)
requiresAvailability == {"allocated", "checked-out", "in-use"}
OutStatuses == {"checked-out", "in-use"}

mutuallyExclusive(s) == CASE s = "checked-out" -> {"checked-out", "in-use"}
                          [] s = "in-use" -> {"checked-out", "in-use", "allocated"}
                          [] s = "allocated" -> {"in-use"}
                          [] OTHER -> {}

allowedTransitions(s) == CASE s = "requested" -> {"allocated", "cancelled"}
                           [] s = "allocated" -> {"checked-out", "cancelled"}
                           [] s = "checked-out" -> {"in-use", "returned"}
                           [] s = "in-use" -> {"returned"}
                           [] OTHER -> {"requested"}

OwnRowAllows_AnyReturn(row, s) ==   \* variant: no check of the status returned from
    /\ s \in requiresAvailability => row.quantity_needed <= row.quantity_allocated
    /\ s = "in-use" => row.status = "checked-out"

(* The checks against the row being changed. *)
OwnRowAllows(row, s) ==
    /\ s \in requiresAvailability => row.quantity_needed <= row.quantity_allocated
    /\ s = "checked-out" => row.quantity_allocated # 0
    /\ s = "returned" => row.status \in OutStatuses
    /\ s = "in-use" => row.status = "checked-out"

CountedStatuses_InUse(s) ==   \* variant: units on their way are not counted
    IF s \in OutStatuses THEN {"in-use"} ELSE requiresAvailability

(* The statuses of other rows that count as unavailable for the new status. *)
CountedStatuses(s) == IF s \in OutStatuses THEN OutStatuses ELSE requiresAvailability

(* Both tables are filtered by the one id: `se.id != ?` and `ia.id != ?`.   *)
OtherRows(table, id) == DeleteRows(table, {id})

SomeRow(table, e, S) ==
    \E k \in DOMAIN table : table[k].equipment_id = e /\ table[k].status \in S

OtherAllocationsAllow_Locations(e, id, s, n) ==   \* variant: other shows are not asked
    s \in requiresAvailability =>
        n + SumAllocated(OtherRows(inventory_allocation, id), e, CountedStatuses(s))
            <= equipment[e].quantity

OtherAllocationsAllow(e, id, s, n) ==
    LET show == OtherRows(show_equipment, id)
        inventory == OtherRows(inventory_allocation, id)
        counted == CountedStatuses(s)
    IN  /\ equipment[e].quantity = 1 =>
               ~ (\/ SomeRow(show, e, mutuallyExclusive(s))
                  \/ SomeRow(inventory, e, mutuallyExclusive(s)))
        /\ s \in requiresAvailability =>
               n + SumAllocated(show, e, counted) + SumAllocated(inventory, e, counted)
                   <= equipment[e].quantity
=============================================================================
