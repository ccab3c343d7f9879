------------------------------ MODULE TaskContract ------------------------------
(***************************************************************************)
(* What durable delivery promises whoever enqueues a task, with no pump,   *)
(* worker, broker or lease in sight: a requested task takes effect at most *)
(* once, a task may be parked in the dead-letter journal and taken out of  *)
(* it by an operator, and a task left alone ends up done or parked.        *)
(***************************************************************************)
EXTENDS Naturals

CONSTANT Messages

VARIABLES
    requested,   \* the tasks whose request has been committed
    parked,      \* the tasks with an open dead letter
    done         \* how many times each task has taken effect

contractVars == <<requested, parked, done>>

Init == requested = {} /\ parked = {} /\ done = [m \in Messages |-> 0]

Request(m) ==
    /\ m \notin requested
    /\ requested' = requested \cup {m}
    /\ UNCHANGED <<parked, done>>

Complete(m) ==
    /\ m \in requested
    /\ done[m] = 0
    /\ done' = [done EXCEPT ![m] = 1]
    /\ UNCHANGED <<requested, parked>>

\* One reconciliation may park several tasks.
Park(ms) ==
    /\ ms \subseteq requested
    /\ parked' = parked \cup ms
    /\ UNCHANGED <<requested, done>>

Unpark(m) ==
    /\ m \in parked
    /\ parked' = parked \ {m}
    /\ UNCHANGED <<requested, done>>

Next ==
    \/ \E m \in Messages : Request(m) \/ Complete(m) \/ Unpark(m)
    \/ \E ms \in SUBSET Messages : Park(ms)

Spec == Init /\ [][Next]_contractVars

\* A requested task is eventually done or parked.
Settles == \A m \in Messages : m \in requested ~> (done[m] = 1 \/ m \in parked)
================================================================================
