---------------------------- MODULE ConnectionPool ----------------------------
(***************************************************************************)
(* The connections of config/database.js and the order in which a request  *)
(* takes them.  flexAuth reads the user on a connection of its own; after   *)
(* it a handler runs plain statements, each on any connection, and a       *)
(* handler with a transaction keeps one from BEGIN to COMMIT or ROLLBACK.  *)
(*                                                                         *)
(* Which rows a statement touches does not matter here, only how it ends.  *)
(* A rejection that no try catches ends the process (Node 18, no handler   *)
(* of unhandledRejection), and with it every request and every connection; *)
(* the container starts it again.                                          *)
(***************************************************************************)
EXTENDS Integers, FiniteSets, Sequences

CONSTANTS
    MaxConnections,   \* pool.max: 5
    PoolCalls         \* requests served at the same time

VARIABLES
    free,         \* connections that nobody uses
    pool_calls,   \* the request in each slot
    lost          \* connections of transactions that nobody will end

poolVars == <<free, pool_calls, lost>>

(***************************************************************************)
(* What a handler does with connections, after flexAuth.  "begin" opens    *)
(* the transaction, "inside" runs on its connection, "read" does not.      *)
(***************************************************************************)
Program == [read            |-> <<"read">>,
            delete_item     |-> <<"begin", "inside", "end">>,
            delete_file     |-> <<"begin", "inside", "end">>,
            upload          |-> <<"begin", "role", "inside", "end">>,
            set_allocations |-> <<"begin", "read", "inside", "end">>,
            put_allocations |-> <<"unbound">>]
Kinds == DOMAIN Program

(* sequelize.transaction() stands before the try in these. *)
OutsideTry == Kinds \ {"delete_item"}

NoCall == [kind |-> "none"]
Needs == {"auth", "read", "begin"}      \* steps that take a connection

PoolTypeOK ==
    /\ free \in 0..MaxConnections /\ lost \in 0..MaxConnections
    /\ \A h \in PoolCalls : pool_calls[h] # NoCall =>
          /\ pool_calls[h].kind \in Kinds
          /\ pool_calls[h].open \in BOOLEAN /\ pool_calls[h].has \in BOOLEAN

Init ==
    /\ free = MaxConnections
    /\ pool_calls = [h \in PoolCalls |-> NoCall]
    /\ lost = 0
-----------------------------------------------------------------------------
Busy(h) == pool_calls[h] # NoCall
Now(h) == Head(pool_calls[h].todo)
Waits(h) == Busy(h) /\ Now(h) \in Needs /\ ~pool_calls[h].has
Runs(h) == Busy(h) /\ ~Waits(h)

Request(h, kind) ==
    /\ ~Busy(h)
    /\ pool_calls' = [pool_calls EXCEPT ![h] =
          [kind |-> kind, todo |-> <<"auth">> \o Program[kind], open |-> FALSE, has |-> FALSE]]
    /\ UNCHANGED <<free, lost>>

Acquire(h) ==
    /\ Waits(h) /\ free > 0
    /\ free' = free - 1
    /\ pool_calls' = [pool_calls EXCEPT ![h].has = TRUE]
    /\ UNCHANGED lost

(* The process ends and is started again. *)
Crash ==
    /\ free' = MaxConnections /\ lost' = 0
    /\ pool_calls' = [h \in PoolCalls |-> NoCall]

(* The answer is sent, with the connections in `back` released. *)
Answer(h, back) ==
    /\ free' = free + back
    /\ pool_calls' = [pool_calls EXCEPT ![h] = NoCall]
    /\ UNCHANGED lost

Continue(h, todo, open, back) ==
    /\ free' = free + back
    /\ pool_calls' = [pool_calls EXCEPT ![h].todo = todo, ![h].open = open, ![h].has = FALSE]
    /\ UNCHANGED lost

Rest(h) == Tail(pool_calls[h].todo)

(* A step succeeds.  The last one releases its connection and answers. *)
Succeed(h) ==
    /\ Runs(h) /\ Now(h) \notin {"role", "unbound"}
    /\ IF Rest(h) = << >> THEN Answer(h, 1)
       ELSE IF Now(h) \in {"begin", "inside"} THEN Continue(h, Rest(h), TRUE, 0)
       ELSE Continue(h, Rest(h), pool_calls[h].open, 1)

(* The row is not there: 404, after a rollback where a transaction is open. *)
NotFound_KeepsOpen(h) ==    \* variant: answers without the rollback
    Answer(h, IF Now(h) = "read" THEN 1 ELSE 0)
NotFound(h) ==
    IF pool_calls[h].open
      THEN Continue(h, <<"end">>, TRUE, IF Now(h) = "read" THEN 1 ELSE 0)
      ELSE Answer(h, 1)
Missing(h) == Runs(h) /\ Now(h) \in {"auth", "read", "inside"} /\ NotFound(h)

(* POST /files/upload tests the role when the transaction is open; 403 is  *)
(* answered without ending it.                                             *)
RoleAllows(h) ==
    /\ Runs(h) /\ Now(h) = "role"
    /\ Continue(h, Rest(h), TRUE, 0)

RoleRefused(h) ==
    /\ Runs(h) /\ Now(h) = "role"
    /\ lost' = lost + 1
    /\ pool_calls' = [pool_calls EXCEPT ![h] = NoCall]
    /\ UNCHANGED free

(***************************************************************************)
(* A step fails, with `back` connections to release.  flexAuth answers 401 *)
(* to any error, a handler rolls back and answers 500.  A transaction that *)
(* cannot be opened before the try, and, in POST /equipment/:id/allocations, *)
(* the rollback after a COMMIT that failed, are caught by nobody.          *)
(***************************************************************************)
Uncaught(h) ==
    \/ Now(h) = "begin" /\ pool_calls[h].kind \in OutsideTry
    \/ Now(h) = "end" /\ pool_calls[h].kind = "set_allocations"

Failed_Twice(h, back) ==    \* variant: a rollback after the failed end releases once more
    IF Uncaught(h) THEN Crash
    ELSE IF ~pool_calls[h].open THEN Answer(h, back)
    ELSE IF Now(h) # "end" THEN Continue(h, <<"end">>, TRUE, back)
    ELSE Answer(h, back + 1)

Failed(h, back) ==
    IF Uncaught(h) THEN Crash
    ELSE IF pool_calls[h].open /\ Now(h) # "end" THEN Continue(h, <<"end">>, TRUE, back)
    ELSE Answer(h, back)

Fail(h) ==
    /\ Runs(h) /\ Now(h) \notin {"role", "unbound"}
    /\ Failed(h, IF Now(h) = "inside" THEN 0 ELSE 1)

(* pool.acquire: 30 s without a connection are an error like any other.    *)
TimesOut_Empty(h) == Waits(h) /\ free = 0 /\ ~pool_calls[h].open   \* variant: only the first
TimesOut(h) == Waits(h) /\ free = 0
Timeout(h) == TimesOut(h) /\ Failed(h, 0)

(* PUT /inventory/equipment/:id/allocations names `sequelize`, which its   *)
(* module does not import: ReferenceError, before the try.                 *)
Unbound(h) == Runs(h) /\ Now(h) = "unbound" /\ Crash
-----------------------------------------------------------------------------
Serve(h) == Acquire(h) \/ Timeout(h)
Step(h) == Succeed(h) \/ Missing(h) \/ RoleAllows(h) \/ RoleRefused(h) \/ Fail(h) \/ Unbound(h)

Next ==
    \E h \in PoolCalls :
        \/ \E kind \in Kinds : Request(h, kind)
        \/ Serve(h) \/ Step(h)

(* The pool grants a free connection or its timer fires; the database      *)
(* answers a statement, if only with an error.                             *)
Fairness == \A h \in PoolCalls : WF_poolVars(Serve(h)) /\ WF_poolVars(Step(h))

Spec == Init /\ [][Next]_poolVars /\ Fairness
-----------------------------------------------------------------------------
Holding(h) ==
    IF ~Busy(h) THEN 0
    ELSE (IF pool_calls[h].open THEN 1 ELSE 0) + (IF pool_calls[h].has THEN 1 ELSE 0)

Holders(n) == {h \in PoolCalls : Holding(h) >= n}

(* No path through a handler forgets its connection but one: a connection  *)
(* is free, with a request that will still give it back, or was lost when  *)
(* an upload was refused for the role of its user.                         *)
ConnectionsAccounted ==
    free + lost + Cardinality(Holders(1)) + Cardinality(Holders(2)) = MaxConnections

(* Every request ends, with an answer or with the process: requests that   *)
(* all hold the connection of a transaction and all wait for a second one, *)
(* as POST /equipment/:id/allocations does, are freed by their timers.     *)
Answered == \A h \in PoolCalls : Busy(h) ~> ~Busy(h)
=============================================================================
