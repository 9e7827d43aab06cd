-------------------------- MODULE MCShowAllocations --------------------------
(* Constants of the TLC runs of ShowAllocations. *)
EXTENDS ShowAllocations, TLC

CONSTANTS e1, s1, s2, s3, h1, h2

NoInventory == {[k \in {} |-> k]}

Alike == Permutations(Handlers) \cup Permutations(Shows)

(* One row that holds one unit at a location, under an id that a row of     *)
(* show_equipment may have too.                                            *)
SomeInventory ==
    NoInventory \cup
    {(k :> [equipment_id |-> e1, quantity_allocated |-> 1, status |-> st]) :
        k \in {1}, st \in {"allocated"}}
=============================================================================
