---------------------------- MODULE DurableDelivery ----------------------------
(***************************************************************************)
(* The transactional outbox and the pumps that publish it                  *)
(* (infrastructure/messaging/durable_delivery.py, tasks/durable_delivery.py)*)
(*                                                                         *)
(* A message row is written by the transaction that wants the work done.   *)
(* Pumps claim a row under a lease, hand a hint to the broker, and record  *)
(* the outcome.  The broker owes nothing: hints get lost and duplicated.   *)
(* `Reconcile` recovers what nobody acknowledged and dead-letters what has *)
(* used up its attempts; an operator may replay a dead letter.             *)
(*                                                                         *)
(* Time is the database clock.  A deadline is kept as what the code's      *)
(* predicates can tell of it: a lease is "live" or "lapsed", available_at  *)
(* (`due`) lies "ahead", is "past", or is minus infinity and so "always"   *)
(* due, a publication is older than the lease (`overdue`) or not, a        *)
(* not-before time has come (`ripe`) or not.  The passing of time is an    *)
(* action per deadline; setting the clock back undoes any of them.         *)
(***************************************************************************)
EXTENDS Naturals

CONSTANTS
    Messages,       \* numbered in the order of (created_at, id)
    Aggregates,     \* topic ":" aggregate_key, the resource a consumer leases
    AggregateOf,    \* Messages -> Aggregates
    Scheduled,      \* the messages that carry a not-before header
    Pumps,          \* concurrent runs of the pump task
    None,
    MaxAttempts,    \* max_attempts
    PumpLimit,      \* the batch limit of one pump run
    AttemptCap,     \* bound: no claim takes attempt_count above it
    MaxCorrections  \* bound: how often the clock is set back

ASSUME MessagesAssumption == Messages \subseteq Nat
ASSUME AggregateOfAssumption == AggregateOf \in [Messages -> Aggregates]
ASSUME ScheduledAssumption == Scheduled \subseteq Messages
ASSUME NoneAssumption == None \notin Pumps /\ None \notin Messages
ASSUME BoundsAssumption ==
    /\ MaxAttempts \in Nat \ {0}
    /\ PumpLimit \in Nat
    /\ AttemptCap \in Nat
    /\ MaxCorrections \in Nat

VARIABLES
    outbox,       \* outbox_message, one row per message
    dead,         \* outbox_dead_letter: the messages whose row is not replayed
    inbox,        \* inbox_message: the acknowledged messages
    execution,    \* outbox_execution: the consumer lease of each aggregate
    ripe,         \* the messages whose not-before time has come
    hints,        \* the broker
    pump,         \* where each pump run is
    corrections   \* how often the clock was set back

deliveryVars == <<outbox, dead, inbox, execution, ripe, hints, pump, corrections>>

MessageRow ==
    [status: {"absent", "pending", "delivering", "published"},
     owner: Pumps \cup {None}, lease: {"none", "live", "lapsed"},
     attempts: Nat, due: {"ahead", "past", "always"}, overdue: BOOLEAN]

PumpState ==
    [pc: {"idle", "claiming", "publishing", "finishing"},
     msg: Messages \cup {None}, attempts: Nat, failed: BOOLEAN, left: Nat]

IdlePump == [pc |-> "idle", msg |-> None, attempts |-> 0, failed |-> FALSE, left |-> 0]

DeliveryInit ==
    /\ outbox = [m \in Messages |->
         [status |-> "absent", owner |-> None, lease |-> "none",
          attempts |-> 0, due |-> "ahead", overdue |-> FALSE]]
    /\ dead = {}
    /\ inbox = {}
    /\ ripe = Messages \ Scheduled
    /\ hints = {}
    /\ pump = [p \in Pumps |-> IdlePump]
    /\ corrections = 0

--------------------------------------------------------------------------------
(* What the SQL predicates read.  Faulty forms of a definition, each with a *)
(* bug that the properties must notice, stand before it and end in _bug.    *)

NotBeforeDue(m) == m \in ripe

DeadLettered(m) == m \in dead

\* Open to a claim: never claimed, or claimed by a pump that let its lease lapse.
Unowned(m) ==
    \/ outbox[m].status = "pending"
    \/ outbox[m].status = "delivering" /\ outbox[m].lease = "lapsed"

Claimable(m) ==
    /\ Unowned(m)
    /\ outbox[m].due # "ahead"
    /\ NotBeforeDue(m)
    /\ ~DeadLettered(m)
    /\ outbox[m].attempts < AttemptCap   \* the bound, not a condition of the code

ActiveExecution(m) ==
    \E a \in Aggregates : execution[a].msg = m /\ execution[a].expires = "live"

Exhausted_bug(m) ==
    outbox[m].status = "pending" /\ outbox[m].attempts >= MaxAttempts /\ ~DeadLettered(m)

Exhausted(m) ==
    Unowned(m) /\ outbox[m].attempts >= MaxAttempts /\ ~DeadLettered(m)

Unacknowledged(m) ==
    /\ outbox[m].status = "published"
    /\ outbox[m].overdue
    /\ m \notin inbox
    /\ ~ActiveExecution(m)
    /\ ~DeadLettered(m)

OwnsDelivery_bug(p, m) ==
    outbox[m].status = "delivering" /\ outbox[m].lease = "live"

\* The pump still owns the delivery it claimed.
OwnsDelivery(p, m) ==
    outbox[m].owner = p /\ outbox[m].status = "delivering" /\ outbox[m].lease = "live"

--------------------------------------------------------------------------------
(* What the transactions write in a row, and in a pump run's memory.        *)

AsPending(row, due) == [row EXCEPT !.status = "pending", !.due = due]

AsClaimed(row, p) ==
    [row EXCEPT !.status = "delivering", !.owner = p, !.lease = "live", !.attempts = row.attempts + 1]

AsFinished(row, failed) ==
    [row EXCEPT !.status = IF failed THEN "pending" ELSE "published",
                !.owner = None, !.lease = "none", !.due = "ahead",
                !.overdue = IF failed THEN @ ELSE FALSE]

AsReplayed(row) ==
    [row EXCEPT !.status = "pending", !.attempts = 0, !.due = "always",
                !.owner = None, !.lease = "none"]

WithLease(row, state) == [row EXCEPT !.lease = state]

Expiring(lease, state) == [lease EXCEPT !.expires = state]

\* The clock is set back: those deadlines of the row that had passed lie ahead.
Corrected(m, leases, waits, ages) ==
    [outbox[m] EXCEPT !.lease = IF m \in leases THEN "live" ELSE outbox[m].lease,
                      !.due = IF m \in waits THEN "ahead" ELSE outbox[m].due,
                      !.overdue = outbox[m].overdue /\ m \notin ages]

\* `attempts` is the attempt_count of the row as the claim returned it.
At(pc, msg, attempts, failed, left) ==
    [pc |-> pc, msg |-> msg, attempts |-> attempts, failed |-> failed, left |-> left]

--------------------------------------------------------------------------------
(* Producers.                                                               *)

\* A business transaction commits its state and the intent together.  A second
\* enqueue with the same deduplication key finds the row and changes nothing.
Enqueue(m) ==
    /\ outbox[m].status = "absent"
    /\ outbox' = [outbox EXCEPT ![m] =
         AsPending(@, IF m \notin Scheduled THEN "always"
                      ELSE IF NotBeforeDue(m) THEN "past" ELSE "ahead")]
    /\ UNCHANGED <<dead, inbox, execution, ripe, hints, pump, corrections>>

--------------------------------------------------------------------------------
(* A pump run: reconcile once, then claim, publish and finish up to a limit. *)

Reconcile(p) ==
    LET spent == {m \in Messages : Unacknowledged(m) /\ outbox[m].attempts >= MaxAttempts}
        again == {m \in Messages : Unacknowledged(m)} \ spent
    IN  /\ pump[p].pc = "idle"
        /\ pump' = [pump EXCEPT ![p] = At("claiming", None, 0, FALSE, PumpLimit)]
        /\ dead' = dead \cup spent \cup {m \in Messages : Exhausted(m)}
        /\ outbox' = [m \in Messages |->
                        IF m \in again THEN AsPending(outbox[m], "always") ELSE outbox[m]]
        /\ UNCHANGED <<inbox, execution, ripe, hints, corrections>>

\* The oldest claimable message.
ClaimDelivery(p) ==
    /\ pump[p].pc = "claiming"
    /\ pump[p].left > 0
    /\ \E m \in Messages :
        /\ Claimable(m)
        /\ \A n \in Messages : Claimable(n) => m <= n
        /\ outbox' = [outbox EXCEPT ![m] = AsClaimed(@, p)]
        /\ pump' = [pump EXCEPT ![p] =
             At("publishing", m, outbox[m].attempts + 1, FALSE, pump[p].left - 1)]
    /\ UNCHANGED <<dead, inbox, execution, ripe, hints, corrections>>

EndRun(p) ==
    /\ pump[p].pc = "claiming"
    /\ pump[p].left = 0 \/ \A m \in Messages : ~Claimable(m)
    /\ pump' = [pump EXCEPT ![p] = IdlePump]
    /\ UNCHANGED <<outbox, dead, inbox, execution, ripe, hints, corrections>>

\* apply_async.  It may fail after the broker has taken the hint.
Publish(p) ==
    /\ pump[p].pc = "publishing"
    /\ \E taken, failed \in BOOLEAN :
        /\ taken \/ failed
        /\ hints' = IF taken THEN hints \cup {pump[p].msg} ELSE hints
        /\ pump' = [pump EXCEPT ![p] =
             At("finishing", pump[p].msg, pump[p].attempts, failed, pump[p].left)]
    /\ UNCHANGED <<outbox, dead, inbox, execution, ripe, corrections>>

\* finish_delivery, with the message as it was claimed; DeliveryLeaseLost is
\* swallowed by the pump.
FinishDelivery(p) ==
    LET m == pump[p].msg
        failed == pump[p].failed
    IN  /\ pump[p].pc = "finishing"
        /\ pump' = [pump EXCEPT ![p] = At("claiming", None, 0, FALSE, pump[p].left)]
        /\ IF OwnsDelivery(p, m)
           THEN /\ outbox' = [outbox EXCEPT ![m] = AsFinished(@, failed)]
                /\ dead' = IF failed /\ pump[p].attempts >= MaxAttempts
                             THEN dead \cup {m} ELSE dead
           ELSE UNCHANGED <<outbox, dead>>
        /\ UNCHANGED <<inbox, execution, ripe, hints, corrections>>

CrashPump(p) ==
    /\ pump[p].pc # "idle"
    /\ pump' = [pump EXCEPT ![p] = IdlePump]
    /\ UNCHANGED <<outbox, dead, inbox, execution, ripe, hints, corrections>>

--------------------------------------------------------------------------------
(* The operator.                                                            *)

Replay_bug(m) ==   \* forgets the receipt
    /\ DeadLettered(m)
    /\ dead' = dead \ {m}
    /\ inbox' = inbox \ {m}
    /\ outbox' = [outbox EXCEPT ![m] = AsReplayed(@)]
    /\ UNCHANGED <<execution, ripe, hints, pump, corrections>>

Replay(m) ==
    /\ DeadLettered(m)
    /\ dead' = dead \ {m}
    /\ outbox' = [outbox EXCEPT ![m] = AsReplayed(@)]
    /\ UNCHANGED <<inbox, execution, ripe, hints, pump, corrections>>

--------------------------------------------------------------------------------
(* The broker and the clock.                                                *)

\* A hint is acknowledged, dropped or expires; until then it may be delivered
\* any number of times.
LoseHint(m) ==
    /\ m \in hints
    /\ hints' = hints \ {m}
    /\ UNCHANGED <<outbox, dead, inbox, execution, ripe, pump, corrections>>

DeliveryLeaseLapses(m) ==
    /\ outbox[m].status = "delivering"
    /\ outbox[m].lease = "live"
    /\ outbox' = [outbox EXCEPT ![m] = WithLease(@, "lapsed")]
    /\ UNCHANGED <<dead, inbox, execution, ripe, hints, pump, corrections>>

BackoffEnds(m) ==
    /\ outbox[m].status \in {"pending", "delivering"}
    /\ outbox[m].due = "ahead"
    /\ NotBeforeDue(m)   \* available_at starts at the not-before time
    /\ outbox' = [outbox EXCEPT ![m].due = "past"]
    /\ UNCHANGED <<dead, inbox, execution, ripe, hints, pump, corrections>>

PublicationAges(m) ==
    /\ outbox[m].status = "published"
    /\ ~outbox[m].overdue
    /\ outbox' = [outbox EXCEPT ![m] = [@ EXCEPT !.overdue = TRUE]]
    /\ UNCHANGED <<dead, inbox, execution, ripe, hints, pump, corrections>>

Ripen(m) ==
    /\ m \notin ripe
    /\ ripe' = ripe \cup {m}
    /\ UNCHANGED <<outbox, dead, inbox, execution, hints, pump, corrections>>

ExecutionLeaseLapses(a) ==
    /\ execution[a].expires = "live"
    /\ execution' = [execution EXCEPT ![a] = Expiring(@, "lapsed")]
    /\ UNCHANGED <<outbox, dead, inbox, ripe, hints, pump, corrections>>

\* The clock is set back: any deadlines that had passed lie ahead again.  Minus
\* infinity, the value of a released lease and of an available_at that nothing
\* put off, is not a deadline; available_at is never before the not-before time.
ClockSetBack ==
    /\ corrections < MaxCorrections
    /\ corrections' = corrections + 1
    /\ \E leases, waits, ages, times \in SUBSET Messages, as \in SUBSET Aggregates :
        /\ \A m \in leases : outbox[m].lease = "lapsed"
        /\ \A m \in waits : outbox[m].due = "past"
        /\ times \subseteq Scheduled
        /\ \A m \in times : outbox[m].due = "past" => m \in waits
        /\ \A a \in as : execution[a].expires = "lapsed"
        /\ outbox' = [m \in Messages |-> Corrected(m, leases, waits, ages)]
        /\ ripe' = ripe \ times
        /\ execution' = [a \in Aggregates |->
                           IF a \in as THEN Expiring(execution[a], "live") ELSE execution[a]]
    /\ UNCHANGED <<dead, inbox, hints, pump>>

PumpStep(p) ==
    \/ Reconcile(p)
    \/ ClaimDelivery(p)
    \/ EndRun(p)
    \/ Publish(p)
    \/ FinishDelivery(p)

DeliveryNext ==
    \/ \E m \in Messages : \/ Enqueue(m)
                           \/ Replay(m)
                           \/ LoseHint(m)
                           \/ DeliveryLeaseLapses(m)
                           \/ BackoffEnds(m)
                           \/ PublicationAges(m)
                           \/ Ripen(m)
    \/ \E p \in Pumps : PumpStep(p) \/ CrashPump(p)
    \/ \E a \in Aggregates : ExecutionLeaseLapses(a)
    \/ ClockSetBack
================================================================================
