------------------------------- MODULE MCServer -------------------------------
(***************************************************************************)
(* A small instance of Server.                                             *)
(***************************************************************************)
EXTENDS Server

(* Two requests at a time, or two tabs, and two locations: each are alike. *)
Symmetric == Permutations(SearchHandlers) \cup Permutations(Locations)
-----------------------------------------------------------------------------
(* MySQL's collation folds case: Lager and LAGER are the same name. *)
NamesOf(k) == IF k = "location" THEN {"Lager"} ELSE {"Lager", "LAGER", "Hall"}
FoldedCase(n) == IF n = "LAGER" THEN "Lager" ELSE n

(* Of two requests, one may do anything and the other only writes names. *)
ManagesNames(h, e) == h = 1 \/ e = "names"

OneShowRow == [show_id |-> "s", equipment_id |-> "e", quantity_needed |-> 1,
               quantity_allocated |-> 1, status |-> "requested"]
RowsOfOneShow == {[k \in {} |-> k], [k \in {1} |-> OneShowRow]}

Line(i, s, n) == [id |-> i, serial |-> s, named |-> n]
NoSerial == "none"

(* " s" is "s" that was typed with a blank. *)
WithoutBlanks(serial) == IF serial = " s" THEN "s" ELSE serial
FourFiles ==
    {<<Line(0, "s", TRUE)>>,
     <<Line(1, "s", FALSE), Line(0, NoSerial, TRUE)>>,
     <<Line(1, NoSerial, TRUE)>>,
     <<Line(0, NoSerial, FALSE), Line(2, "s", TRUE)>>}
===============================================================================
