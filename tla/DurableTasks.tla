------------------------------ MODULE DurableTasks ------------------------------
(***************************************************************************)
(* The consumers of the outbox (infrastructure/messaging/durable_tasks.py) *)
(*                                                                         *)
(* A worker that receives a hint claims the lease of the message's         *)
(* aggregate, runs the handler, and commits the handler's last changes     *)
(* together with the acknowledgement.  Every commit of the handler's       *)
(* session is guarded by the lease; a heartbeat renews it.                 *)
(***************************************************************************)
EXTENDS DurableDelivery

CONSTANTS
    Workers,
    MaxEpoch   \* bound: executions of one aggregate

ASSUME WorkersAssumption == None \notin Workers
ASSUME MaxEpochAssumption == MaxEpoch \in Nat

VARIABLES
    worker,    \* where each consumer is, and the ConsumerLease it holds
    effects,   \* how many final commits each message has had
    work,      \* per aggregate, the lease and message of the latest guarded commit
    freed      \* per aggregate, the latest epoch that was given back

taskVars == <<worker, effects, work, freed>>
vars == <<deliveryVars, taskVars>>

Lease == [msg: Messages \cup {None}, owner: Workers \cup {None}, epoch: Nat,
          expires: {"released", "lapsed", "live"}]

WorkerState ==
    [pc: {"idle", "claiming", "leased", "running", "closing"},
     msg: Messages \cup {None}, epoch: Nat,
     asof: Nat]   \* history: the corrections of the clock when the message was read

IdleWorker == [pc |-> "idle", msg |-> None, epoch |-> 0, asof |-> 0]

\* An aggregate nobody has leased yet has no row; epoch 0 stands for that.
Init ==
    /\ DeliveryInit
    /\ execution = [a \in Aggregates |->
         [msg |-> None, owner |-> None, epoch |-> 0, expires |-> "released"]]
    /\ worker = [w \in Workers |-> IdleWorker]
    /\ effects = [m \in Messages |-> 0]
    /\ work = [a \in Aggregates |-> [epoch |-> 0, msg |-> None]]
    /\ freed = [a \in Aggregates |-> 0]

--------------------------------------------------------------------------------

Consumable_bug(m) ==   \* trusts the hint for the not-before time
    /\ outbox[m].status # "absent"
    /\ m \notin inbox
    /\ ~DeadLettered(m)

Consumable(m) ==
    /\ outbox[m].status # "absent"
    /\ NotBeforeDue(m)
    /\ m \notin inbox
    /\ ~DeadLettered(m)

Turn(state, pc) == [state EXCEPT !.pc = pc]

Leased(state, epoch) == [state EXCEPT !.pc = "leased", !.epoch = epoch]

AggregateOfWorker(w) == AggregateOf[worker[w].msg]

\* The identity part of CHECK_LEASE, and all of it.
HoldsLease(w) ==
    LET lease == execution[AggregateOfWorker(w)] IN
    lease.msg = worker[w].msg /\ lease.owner = w /\ lease.epoch = worker[w].epoch

LeaseCurrent(w) ==
    HoldsLease(w) /\ execution[AggregateOfWorker(w)].expires = "live"

--------------------------------------------------------------------------------
(* claim_execution reads the message, and then takes the lease: another     *)
(* execution may run to its end in between.                                 *)

ReceiveHint(w, m) ==
    /\ worker[w].pc = "idle"
    /\ m \in hints
    /\ Consumable(m)
    /\ worker' = [worker EXCEPT ![w] =
         [pc |-> "claiming", msg |-> m, epoch |-> 0, asof |-> corrections]]
    /\ UNCHANGED <<deliveryVars, effects, work, freed>>

ClaimExecution_bug(w) ==   \* does not look at the inbox again
    LET a == AggregateOfWorker(w) IN
    /\ worker[w].pc = "claiming"
    /\ execution[a].expires # "live"
    /\ execution[a].epoch < MaxEpoch
    /\ execution' = [execution EXCEPT ![a] =
         [msg |-> worker[w].msg, owner |-> w, epoch |-> @.epoch + 1, expires |-> "live"]]
    /\ worker' = [worker EXCEPT ![w] =
         Leased(worker[w], execution[a].epoch + 1)]
    /\ UNCHANGED <<outbox, dead, inbox, ripe, hints, pump, corrections, effects, work, freed>>

ClaimExecution(w) ==
    LET m == worker[w].msg
        a == AggregateOfWorker(w)
        epoch == execution[a].epoch + 1
        acknowledged == m \in inbox
    IN  /\ worker[w].pc = "claiming"
        /\ \/ /\ execution[a].expires = "live"
              /\ worker' = [worker EXCEPT ![w] = IdleWorker]
              /\ UNCHANGED <<execution, freed>>
           \/ /\ execution[a].expires # "live"
              /\ execution[a].epoch < MaxEpoch
              /\ execution' = [execution EXCEPT ![a] =
                   [msg |-> m, owner |-> w, epoch |-> epoch,
                    expires |-> IF acknowledged THEN "released" ELSE "live"]]
              /\ worker' = [worker EXCEPT ![w] = IF acknowledged THEN IdleWorker
                   ELSE Leased(worker[w], epoch)]
              /\ freed' = IF acknowledged THEN [freed EXCEPT ![a] = epoch] ELSE freed
        /\ UNCHANGED <<outbox, dead, inbox, ripe, hints, pump, corrections, effects, work>>

\* assert_execution_current, before the handler is entered.
StartHandler(w) ==
    /\ worker[w].pc = "leased"
    /\ worker' = [worker EXCEPT ![w] = Turn(@, IF LeaseCurrent(w) THEN "running" ELSE "closing")]
    /\ UNCHANGED <<deliveryVars, effects, work, freed>>

Renew(w) ==
    /\ worker[w].pc \in {"leased", "running"}
    /\ IF LeaseCurrent(w)
       THEN UNCHANGED worker   \* the lease stays live
       ELSE worker' = [worker EXCEPT ![w] = Turn(@, "closing")]
    /\ UNCHANGED <<deliveryVars, effects, work, freed>>

CommitProgress_bug(w) ==   \* not guarded by the lease
    /\ worker[w].pc = "running"
    /\ work' = [work EXCEPT ![AggregateOfWorker(w)] =
         [epoch |-> worker[w].epoch, msg |-> worker[w].msg]]
    /\ UNCHANGED <<deliveryVars, worker, effects, freed>>

\* A domain service commits intermediate progress on the guarded session.
CommitProgress(w) ==
    /\ worker[w].pc = "running"
    /\ IF LeaseCurrent(w)
       THEN /\ work' = [work EXCEPT ![AggregateOfWorker(w)] =
                 [epoch |-> worker[w].epoch, msg |-> worker[w].msg]]
            /\ UNCHANGED worker
       ELSE /\ worker' = [worker EXCEPT ![w] = Turn(@, "closing")]
            /\ UNCHANGED work
    /\ UNCHANGED <<deliveryVars, effects, freed>>

Complete_bug(w) ==   \* not guarded by the lease
    /\ worker[w].pc = "running"
    /\ worker' = [worker EXCEPT ![w] = Turn(@, "closing")]
    /\ inbox' = inbox \cup {worker[w].msg}
    /\ effects' = [effects EXCEPT ![worker[w].msg] = @ + 1]
    /\ UNCHANGED <<outbox, dead, execution, ripe, hints, pump, corrections, work, freed>>

\* The handler's last changes and the inbox row, in one guarded commit.
Complete(w) ==
    LET m == worker[w].msg IN
    /\ worker[w].pc = "running"
    /\ worker' = [worker EXCEPT ![w] = Turn(@, "closing")]
    /\ IF LeaseCurrent(w)
       THEN /\ inbox' = inbox \cup {m}
            /\ effects' = [effects EXCEPT ![m] = @ + 1]
            /\ work' = [work EXCEPT ![AggregateOfWorker(w)] =
                 [epoch |-> worker[w].epoch, msg |-> m]]
       ELSE UNCHANGED <<inbox, effects, work>>
    /\ UNCHANGED <<outbox, dead, execution, ripe, hints, pump, corrections, freed>>

HandlerFails(w) ==
    /\ worker[w].pc = "running"
    /\ worker' = [worker EXCEPT ![w] = Turn(@, "closing")]
    /\ UNCHANGED <<deliveryVars, effects, work, freed>>

Release_bug(w) ==   \* writes the present time instead of minus infinity
    /\ worker[w].pc = "closing"
    /\ worker' = [worker EXCEPT ![w] = IdleWorker]
    /\ IF HoldsLease(w)
       THEN /\ execution' = [execution EXCEPT ![AggregateOfWorker(w)] = Expiring(@, "lapsed")]
            /\ freed' = [freed EXCEPT ![AggregateOfWorker(w)] = worker[w].epoch]
       ELSE UNCHANGED <<execution, freed>>
    /\ UNCHANGED <<outbox, dead, inbox, ripe, hints, pump, corrections, effects, work>>

Release(w) ==
    /\ worker[w].pc = "closing"
    /\ worker' = [worker EXCEPT ![w] = IdleWorker]
    /\ IF HoldsLease(w)
       THEN /\ execution' = [execution EXCEPT ![AggregateOfWorker(w)] = Expiring(@, "released")]
            /\ freed' = [freed EXCEPT ![AggregateOfWorker(w)] = worker[w].epoch]
       ELSE UNCHANGED <<execution, freed>>
    /\ UNCHANGED <<outbox, dead, inbox, ripe, hints, pump, corrections, effects, work>>

CrashWorker(w) ==
    /\ worker[w].pc # "idle"
    /\ worker' = [worker EXCEPT ![w] = IdleWorker]
    /\ UNCHANGED <<deliveryVars, effects, work, freed>>

--------------------------------------------------------------------------------

WorkerStep(w) ==
    \/ ClaimExecution(w)
    \/ StartHandler(w)
    \/ Complete(w)
    \/ HandlerFails(w)
    \/ Release(w)

Next ==
    \/ DeliveryNext /\ UNCHANGED taskVars
    \/ \E w \in Workers : \/ \E m \in Messages : ReceiveHint(w, m)
                          \/ WorkerStep(w)
                          \/ Renew(w)
                          \/ CommitProgress(w)
                          \/ CrashWorker(w)

Spec == Init /\ [][Next]_vars

(***************************************************************************)
(* Fairness.  Beat starts a pump every five seconds and a pump run does not *)
(* block; it may crash, but not each time before it has claimed a message   *)
(* (strong fairness of the claim); deadlines pass; a worker that has        *)
(* claimed a message runs its handler to an end, good or bad.  Nothing is   *)
(* assumed of the broker: not one hint has to arrive.  The operator does    *)
(* not go on replaying for ever.                                            *)
(***************************************************************************)
Fairness ==
    /\ \A p \in Pumps : /\ WF_vars(PumpStep(p) /\ UNCHANGED taskVars)
                        /\ SF_vars(ClaimDelivery(p) /\ UNCHANGED taskVars)
    /\ \A w \in Workers : WF_vars(WorkerStep(w))
    /\ \A m \in Messages :
        WF_vars((\/ DeliveryLeaseLapses(m) \/ BackoffEnds(m)
                 \/ PublicationAges(m) \/ Ripen(m)) /\ UNCHANGED taskVars)
    /\ \A a \in Aggregates : WF_vars(ExecutionLeaseLapses(a) /\ UNCHANGED taskVars)

ReplaysEnd == <>[][\A m \in Messages : ~Replay(m)]_vars

FairSpec == Spec /\ Fairness /\ ReplaysEnd

--------------------------------------------------------------------------------
(* Properties.                                                              *)

\* The rows, the leases and the process states have their types.
TypeOK ==
    /\ outbox \in [Messages -> MessageRow]
    /\ dead \subseteq Messages
    /\ inbox \subseteq Messages
    /\ execution \in [Aggregates -> Lease]
    /\ ripe \subseteq Messages
    /\ hints \subseteq Messages
    /\ pump \in [Pumps -> PumpState]
    /\ corrections \in Nat
    /\ worker \in [Workers -> WorkerState]
    /\ effects \in [Messages -> Nat]
    /\ work \in [Aggregates -> [epoch: Nat, msg: Messages \cup {None}]]
    /\ freed \in [Aggregates -> Nat]

\* Whatever is redelivered, replayed or retried by whichever worker, the final
\* commit of a message's handler happens at most once, and exactly for the
\* acknowledged messages.  The inbox insert itself would not stop a second one
\* (ON CONFLICT DO NOTHING, its result unread): the lease has to.
EffectOnce == \A m \in Messages : effects[m] = IF m \in inbox THEN 1 ELSE 0

\* Fencing: once an execution has committed on an aggregate, no execution with
\* an older epoch commits there any more, and no epoch serves two messages.
Fencing ==
    [][\A a \in Aggregates : work'[a] # work[a] =>
          /\ work'[a].epoch >= work[a].epoch
          /\ work'[a].epoch = work[a].epoch => work'[a].msg = work[a].msg]_vars

\* A handler that still holds its lease runs for a message nobody has
\* acknowledged; and it runs before the not-before time only when the clock was
\* set back after the message was read.  The hint itself may be older than the
\* correction, so the consumer has to look at the time again
\* (delivery_schedule.py, durable_tasks.py:93); that a handler already under way
\* is stopped by a correction is not promised (delivery-clock-semantics.md:18).
NoWorkOutOfTurn ==
    \A w \in Workers : worker[w].pc = "running" /\ LeaseCurrent(w) =>
        /\ worker[w].msg \notin inbox
        /\ worker[w].msg \in ripe \/ worker[w].asof < corrections

\* A lease that was given back is never live again under the same epoch: not
\* even a clock set back returns it to its old owner or makes a retry wait for it
\* (durable_tasks.py:167).
ReleasedForGood ==
    \A a \in Aggregates : execution[a].expires = "live" => execution[a].epoch # freed[a]

\* A message is given up only after MaxAttempts claims since it was enqueued or
\* last replayed: the failure of a pump that lost its lease, whose message still
\* says the attempts of an earlier round, does not park a replayed message again
\* while its new round has attempts left.
GivenUpAfterAttempts ==
    [][\A m \in dead' \ dead : outbox[m].attempts >= MaxAttempts]_vars

(* What the outbox promises its producers: TaskContract.                    *)
Contract ==
    INSTANCE TaskContract WITH
        requested <- {m \in Messages : outbox[m].status # "absent"},
        parked <- dead,
        done <- effects

\* Pumps, leases, retries and replays together are a task that takes effect at
\* most once and that only an operator takes out of the dead-letter journal.
ImplementsContract == Contract!Spec

(* What it offers the task handlers: LeasedTasks.                           *)
Leases ==
    INSTANCE LeasedTasks WITH
        Tasks <- Messages, Resources <- Aggregates, ResourceOf <- AggregateOf,
        requested <- {m \in Messages : outbox[m].status # "absent"},
        parked <- dead,
        done <- inbox,
        lease <- [a \in Aggregates |->
            IF execution[a].expires = "released"
            THEN [task |-> None, worker |-> None, live |-> FALSE]
            ELSE [task |-> execution[a].msg, worker |-> execution[a].owner,
                  live |-> execution[a].expires = "live"]]

\* A handler runs under a lease that may lapse any time, and its last commit is
\* that of the lease's holder: what the modules about the handlers assume.
ImplementsLeases == Leases!Spec

\* A requested task is eventually done, or parked where an operator sees it,
\* even if every single hint is lost.
Settled == Contract!Settles
================================================================================
