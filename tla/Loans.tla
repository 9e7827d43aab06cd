------------------------------- MODULE Loans -------------------------------
(***************************************************************************)
(* What the check-out desk promises, without tables, handlers or statuses. *)
(* A loan is a number of units of one item that left the stock together    *)
(* under one allocation.  A loan is made only if the stock covers it and   *)
(* the loans already made; it keeps its size while it lasts; and it ends   *)
(* only as a whole, when its units are back.                               *)
(***************************************************************************)
EXTENDS Integers, FiniteSets

CONSTANTS Ids, Items, MaxUnits

VARIABLES loans,   \* the loans that last: a function on a set of allocations
          stock    \* units owned of each item

LoanUnits(book, i) ==
    {u \in (DOMAIN book) \X (1..MaxUnits) :
        book[u[1]].item = i /\ u[2] <= book[u[1]].units}

Init ==
    /\ loans = [k \in {} |-> k]
    /\ stock \in [Items -> 1..MaxUnits]

HandOut(k, i, n) ==
    /\ k \notin DOMAIN loans
    /\ loans' = [j \in DOMAIN loans \cup {k} |->
                    IF j = k THEN [item |-> i, units |-> n] ELSE loans[j]]
    /\ Cardinality(LoanUnits(loans', i)) <= stock[i]
    /\ UNCHANGED stock

TakeBack(k) ==
    /\ k \in DOMAIN loans
    /\ loans' = [j \in DOMAIN loans \ {k} |-> loans[j]]
    /\ UNCHANGED stock

Next ==
    \/ \E k \in Ids, i \in Items, n \in 1..MaxUnits : HandOut(k, i, n)
    \/ \E k \in Ids : TakeBack(k)

Spec == Init /\ [][Next]_<<loans, stock>>
=============================================================================
