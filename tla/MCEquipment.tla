------------------------------ MODULE MCEquipment ------------------------------
(***************************************************************************)
(* A small instance of EquipmentParts.                                     *)
(***************************************************************************)
EXTENDS EquipmentParts

LagerAndHall == <<"Lager", "Hall">>
HallToLagerAndBack == {[id |-> 2, name |-> "Lager"], [id |-> 2, name |-> "Hall"]}

(* Of two requests on the row, one may do anything and the other moves the *)
(* item.                                                                   *)
MovesInSecond(h, e) == h = 1 \/ e = "location"

Choice(k, p) == [kind |-> k, place |-> p]
FourChoices == {Choice("storage", 0), Choice("show", 0), Choice("location", 2),
                Choice("installation", 2)}

AllPlans ==
    {"production", "mysql", "older", "sqlite", "installing", "counting", "placing", "units",
     "rooms", "types", "showing", "ranks", "pictures", "constraints", "constraints_sequelize",
     "constraints_direct", "grouping", "linking", "locating", "previews", "searching", "numbering",
     "custom"}

UpToTwoFields ==
    [updates |-> {}, copies |-> {"search"}, advanced |-> {"status", "category"},
     simple |-> {"status", "dateRange"}]
================================================================================
