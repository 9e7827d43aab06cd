----------------------------- MODULE Placements -----------------------------
(***************************************************************************)
(* What the placement of an item's units promises, without tables,         *)
(* handlers or statuses.  A placement keeps its units while it moves, and  *)
(* ends once and for good; a replacement ends all placements and makes its *)
(* own in one step.  What is added by counting fits the stock with all     *)
(* that lasts, until someone has added without knowing of another: from    *)
(* then on it fits the stock once for each of those who may add at a time. *)
(* A placement made by a guess need not fit, and does not stop the others  *)
(* from fitting.                                                           *)
(***************************************************************************)
EXTENDS Integers, FiniteSets

CONSTANTS Ids, Spots, MaxUnits,
          Adders                \* those who may add at a time

VARIABLES book,    \* a function on the placements made so far
          stock,   \* units there are
          late     \* TRUE once something was added unknown to another

Placement == [spot : Spots, units : 1..MaxUnits, phase : {"lasting", "ended"},
              by : {"count", "guess"}]

Lasting(b) ==
    {u \in (DOMAIN b) \X (1..MaxUnits) :
        b[u[1]].phase = "lasting" /\ b[u[1]].by = "count" /\ u[2] <= b[u[1]].units}

Limit == IF late THEN Cardinality(Adders) * stock ELSE stock
Fits == Cardinality(Lasting(book)) <= Limit

Init ==
    /\ book = [k \in {} |-> k]
    /\ stock \in 1..MaxUnits
    /\ late = FALSE

(* New placements that last. *)
Added(new) ==
    /\ new # {} /\ new \subseteq Ids \ DOMAIN book
    /\ DOMAIN book' = DOMAIN book \cup new
    /\ \A k \in new : book'[k] \in Placement /\ book'[k].phase = "lasting"
    /\ late => late'
    /\ Fits'

Place(k) == Added({k}) /\ \A j \in DOMAIN book : book'[j] = book[j]

Replace(new) ==
    Added(new) /\ \A j \in DOMAIN book : book'[j] = [book[j] EXCEPT !.phase = "ended"]

Move(k, spot) == book' = [book EXCEPT ![k].spot = spot] /\ UNCHANGED late
End(k) == book' = [book EXCEPT ![k].phase = "ended"] /\ UNCHANGED late

Next ==
    /\ UNCHANGED stock
    /\ \/ \E k \in Ids : Place(k)
       \/ \E new \in SUBSET Ids : Replace(new)
       \/ \E k \in DOMAIN book, spot \in Spots : Move(k, spot)
       \/ \E k \in DOMAIN book : End(k)

Spec == Init /\ [][Next]_<<book, stock, late>>
=============================================================================
