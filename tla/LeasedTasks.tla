------------------------------- MODULE LeasedTasks -------------------------------
(***************************************************************************)
(* What a task handler may count on, between TaskContract and the real     *)
(* thing (DurableTasks): a worker takes a requested task under the lease   *)
(* of the task's resource; the lease may lapse at any time while the       *)
(* handler goes on; only the worker whose lease is live commits the        *)
(* completion of the task, and with it the requests of further tasks.      *)
(* The modules about the handlers are written against these operators.     *)
(***************************************************************************)
CONSTANTS
    Tasks,
    Resources,    \* topic ":" aggregate_key
    ResourceOf,   \* [Tasks -> Resources]
    Workers,
    None

VARIABLES
    requested,   \* the tasks with a row in outbox_message
    parked,      \* those with an open dead letter
    done,        \* those with a row in inbox_message
    lease        \* per resource, whose task is executed by which worker

leasedVars == <<requested, parked, done, lease>>

Lease == [task: Tasks \cup {None}, worker: Workers \cup {None}, live: BOOLEAN]

Free == [task |-> None, worker |-> None, live |-> FALSE]

Init ==
    /\ requested = {}
    /\ parked = {}
    /\ done = {}
    /\ lease = [r \in Resources |-> Free]

Holds(w, t) == lease[ResourceOf[t]] = [task |-> t, worker |-> w, live |-> TRUE]

\* The deduplication key of a task is the task: a second request changes nothing.
Request(ts) ==
    /\ requested' = requested \cup ts
    /\ UNCHANGED <<parked, done, lease>>

Take(w, t) ==
    /\ t \in requested \ done
    /\ ~lease[ResourceOf[t]].live
    /\ lease' = [lease EXCEPT ![ResourceOf[t]] =
         [task |-> t, worker |-> w, live |-> TRUE]]
    /\ UNCHANGED <<requested, parked, done>>

Commit(w, t, ts) ==
    /\ Holds(w, t)
    /\ t \notin done
    /\ done' = done \cup {t}
    /\ requested' = requested \cup ts
    /\ UNCHANGED <<parked, lease>>

Lapse(r) ==
    /\ lease[r].live
    /\ lease' = [lease EXCEPT ![r].live = FALSE]
    /\ UNCHANGED <<requested, parked, done>>

\* The clock is set back: leases nobody took over are live again.
Regain(rs) ==
    /\ \A r \in rs : lease[r] # Free
    /\ lease' = [r \in Resources |->
                   IF r \in rs THEN [lease[r] EXCEPT !.live = TRUE] ELSE lease[r]]
    /\ UNCHANGED <<requested, parked, done>>

GiveBack(r) ==
    /\ lease' = [lease EXCEPT ![r] = Free]
    /\ UNCHANGED <<requested, parked, done>>

Park(ts) ==
    /\ ts \subseteq requested
    /\ parked' = parked \cup ts
    /\ UNCHANGED <<requested, done, lease>>

Unpark(t) ==
    /\ t \in parked
    /\ parked' = parked \ {t}
    /\ UNCHANGED <<requested, done, lease>>

Next ==
    \/ \E ts \in SUBSET Tasks : Request(ts) \/ Park(ts)
    \/ \E t \in Tasks : Unpark(t)
    \/ \E w \in Workers, t \in Tasks :
          Take(w, t) \/ \E ts \in SUBSET Tasks : Commit(w, t, ts)
    \/ \E r \in Resources : Lapse(r) \/ GiveBack(r)
    \/ \E rs \in SUBSET Resources : Regain(rs)

Spec == Init /\ [][Next]_leasedVars
==================================================================================
