--------------------------- MODULE DurableTasks_proofs ---------------------------
(***************************************************************************)
(* Proofs about the outbox and its consumers, for any number of messages,  *)
(* aggregates, pumps and workers and any value of the bounds.              *)
(***************************************************************************)
EXTENDS DurableTasks, TLAPS

USE MessagesAssumption, AggregateOfAssumption, ScheduledAssumption,
    NoneAssumption, BoundsAssumption, WorkersAssumption, MaxEpochAssumption

(***************************************************************************)
(* The inductive invariant.  A pump or worker that is busy is busy with a  *)
(* real message.  A worker's epoch is never ahead of its aggregate's, and  *)
(* equals it only for the worker the lease row names (LeaseInv).  As long  *)
(* as that worker has not committed, nobody has acknowledged its message   *)
(* (HeldInv): this is what makes the final commit happen once.  A pump     *)
(* that owns a delivery remembers the attempts of its row (AttemptInv).    *)
(***************************************************************************)
PumpInv ==
    \A p \in Pumps : pump[p].pc \in {"publishing", "finishing"} => pump[p].msg \in Messages

Busy(w) == worker[w].pc \in {"leased", "running", "closing"}

WorkerInv ==
    \A w \in Workers : worker[w].pc # "idle" =>
        /\ worker[w].msg \in Messages
        /\ worker[w].asof <= corrections
        /\ worker[w].msg \in ripe \/ worker[w].asof < corrections

LeaseInv ==
    \A w \in Workers : Busy(w) =>
        /\ worker[w].epoch <= execution[AggregateOf[worker[w].msg]].epoch
        /\ worker[w].epoch = execution[AggregateOf[worker[w].msg]].epoch => HoldsLease(w)

HeldInv ==
    \A w \in Workers :
        /\ worker[w].pc \in {"leased", "running"}
        /\ worker[w].epoch = execution[AggregateOf[worker[w].msg]].epoch
        => worker[w].msg \notin inbox

WorkInv ==
    \A a \in Aggregates :
        /\ work[a].epoch <= execution[a].epoch
        /\ work[a].epoch = execution[a].epoch => work[a].msg = execution[a].msg


TypeInv == TypeOK /\ PumpInv /\ WorkerInv

Dues == {"ahead", "past", "always"}

\* What a transaction writes in a message row is a message row.
LEMMA RowTypes ==
  ASSUME NEW row \in MessageRow
  PROVE  /\ \A due \in Dues : AsPending(row, due) \in MessageRow
         /\ \A p \in Pumps : AsClaimed(row, p) \in MessageRow
         /\ \A failed \in BOOLEAN : AsFinished(row, failed) \in MessageRow
         /\ AsReplayed(row) \in MessageRow
         /\ \A state \in {"none", "live", "lapsed"} : WithLease(row, state) \in MessageRow
         /\ [row EXCEPT !.overdue = TRUE] \in MessageRow
         /\ [row EXCEPT !.due = "past"] \in MessageRow
<1> USE DEF Dues
<1>1. ASSUME NEW due \in Dues PROVE AsPending(row, due) \in MessageRow
  BY DEF MessageRow, AsPending
<1>2. ASSUME NEW p \in Pumps PROVE AsClaimed(row, p) \in MessageRow
  <2>1. PICK n \in Nat : n = row.attempts + 1
    BY DEF MessageRow
  <2>2. [row EXCEPT !.status = "delivering", !.owner = p, !.lease = "live",
                    !.attempts = n] \in MessageRow
    BY DEF MessageRow
  <2> QED
    BY <2>1, <2>2 DEF AsClaimed
<1>3. ASSUME NEW failed \in BOOLEAN PROVE AsFinished(row, failed) \in MessageRow
  BY DEF MessageRow, AsFinished
<1>4. AsReplayed(row) \in MessageRow
  BY DEF MessageRow, AsReplayed
<1>5. ASSUME NEW state \in {"none", "live", "lapsed"} PROVE WithLease(row, state) \in MessageRow
  BY DEF MessageRow, WithLease
<1>6. [row EXCEPT !.overdue = TRUE] \in MessageRow /\ [row EXCEPT !.due = "past"] \in MessageRow
  BY DEF MessageRow
<1> QED
  BY <1>1, <1>2, <1>3, <1>4, <1>5, <1>6

\* Setting the clock back leaves a row a row, of the same status and claim.
LEMMA CorrectedRow ==
  ASSUME NEW m, outbox[m] \in MessageRow, NEW leases, NEW waits, NEW ages
  PROVE  /\ Corrected(m, leases, waits, ages) \in MessageRow
         /\ Corrected(m, leases, waits, ages).status = outbox[m].status
         /\ Corrected(m, leases, waits, ages).owner = outbox[m].owner
         /\ Corrected(m, leases, waits, ages).attempts = outbox[m].attempts
BY DEF MessageRow, Corrected

LEMMA LeaseTypes ==
  ASSUME NEW lease \in Lease, NEW state \in {"released", "lapsed", "live"}
  PROVE  Expiring(lease, state) \in Lease
BY DEF Lease, Expiring

LEMMA InitTypeInv == Init => TypeInv
<1> SUFFICES ASSUME Init PROVE TypeInv
  OBVIOUS
<1> USE DEF Init, DeliveryInit
<1>1. outbox \in [Messages -> MessageRow]
  BY DEF MessageRow
<1>2. pump \in [Pumps -> PumpState] /\ worker \in [Workers -> WorkerState]
  BY DEF PumpState, IdlePump, WorkerState, IdleWorker
<1>3. execution \in [Aggregates -> Lease]
  BY DEF Lease
<1>4. TypeOK
  BY <1>1, <1>2, <1>3 DEF TypeOK
<1>5. PumpInv /\ WorkerInv
  BY DEF PumpInv, WorkerInv, IdlePump, IdleWorker
<1> QED
  BY <1>4, <1>5 DEF TypeInv

\* Types: every action writes values of the declared types, because a busy
\* process is busy with a message.
LEMMA NextTypeInv == TypeInv /\ [Next]_vars => TypeInv'
<1> SUFFICES ASSUME TypeInv, [Next]_vars PROVE TypeInv'
  OBVIOUS
<1> USE DEF TypeInv
<1>0. worker \in [Workers -> WorkerState]
  BY DEF TypeOK
<1>1. ASSUME NEW m \in Messages, Enqueue(m), UNCHANGED taskVars
     PROVE  TypeInv'
  <2>1. PICK due \in Dues : outbox' = [outbox EXCEPT ![m] = AsPending(outbox[m], due)]
    BY <1>1 DEF Enqueue, Dues
  <2>2. AsPending(outbox[m], due) \in MessageRow
    BY RowTypes DEF TypeOK
  <2>3. TypeOK'
    BY <1>1, <2>1, <2>2 DEF TypeOK, Enqueue, taskVars
  <2>4. PumpInv' /\ WorkerInv'
    BY <1>1 DEF Enqueue, PumpInv, WorkerInv, taskVars
  <2> QED
    BY <2>3, <2>4
<1>2. ASSUME NEW m \in Messages, Replay(m), UNCHANGED taskVars
     PROVE  TypeInv'
  <2>1. outbox' \in [Messages -> MessageRow]
    BY <1>2, RowTypes DEF TypeOK, Replay
  <2>2. TypeOK'
    BY <1>2, <2>1 DEF TypeOK, Replay, taskVars
  <2>3. PumpInv' /\ WorkerInv'
    BY <1>2 DEF Replay, PumpInv, WorkerInv, taskVars
  <2> QED
    BY <2>2, <2>3
<1>3. ASSUME NEW m \in Messages, DeliveryLeaseLapses(m), UNCHANGED taskVars
     PROVE  TypeInv'
  <2>1. outbox' \in [Messages -> MessageRow]
    BY <1>3, RowTypes DEF TypeOK, DeliveryLeaseLapses
  <2>2. TypeOK'
    BY <1>3, <2>1 DEF TypeOK, DeliveryLeaseLapses, taskVars
  <2>3. PumpInv' /\ WorkerInv'
    BY <1>3 DEF DeliveryLeaseLapses, PumpInv, WorkerInv, taskVars
  <2> QED
    BY <2>2, <2>3
<1>4. ASSUME NEW m \in Messages, BackoffEnds(m), UNCHANGED taskVars
     PROVE  TypeInv'
  <2>1. outbox' \in [Messages -> MessageRow]
    BY <1>4, RowTypes DEF TypeOK, BackoffEnds
  <2>2. TypeOK'
    BY <1>4, <2>1 DEF TypeOK, BackoffEnds, taskVars
  <2>3. PumpInv' /\ WorkerInv'
    BY <1>4 DEF BackoffEnds, PumpInv, WorkerInv, taskVars
  <2> QED
    BY <2>2, <2>3
<1>5. ASSUME NEW m \in Messages, PublicationAges(m), UNCHANGED taskVars
     PROVE  TypeInv'
  <2>1. outbox' \in [Messages -> MessageRow]
    BY <1>5, RowTypes DEF TypeOK, PublicationAges
  <2>2. TypeOK'
    BY <1>5, <2>1 DEF TypeOK, PublicationAges, taskVars
  <2>3. PumpInv' /\ WorkerInv'
    BY <1>5 DEF PublicationAges, PumpInv, WorkerInv, taskVars
  <2> QED
    BY <2>2, <2>3
<1>6. ASSUME NEW m \in Messages, LoseHint(m), UNCHANGED taskVars
     PROVE  TypeInv'
  BY <1>6 DEF LoseHint, TypeOK, PumpInv, WorkerInv, taskVars
<1>7. ASSUME NEW m \in Messages, Ripen(m), UNCHANGED taskVars
     PROVE  TypeInv'
  BY <1>7 DEF Ripen, TypeOK, PumpInv, WorkerInv, taskVars
<1>8. ASSUME NEW p \in Pumps, Reconcile(p), UNCHANGED taskVars
     PROVE  TypeInv'
  <2>1. pump' \in [Pumps -> PumpState]
    BY <1>8 DEF TypeOK, PumpInv, Reconcile, PumpState, At, IdlePump
  <2>2. outbox' \in [Messages -> MessageRow]
    BY <1>8, RowTypes DEF TypeOK, Reconcile, Dues
  <2>3. TypeOK'
    BY <1>8, <2>1, <2>2 DEF TypeOK, PumpInv, Reconcile, taskVars
  <2>4. PumpInv' /\ WorkerInv'
    BY <1>8 DEF TypeOK, PumpInv, WorkerInv, Reconcile, At, IdlePump, taskVars
  <2> QED
    BY <2>3, <2>4
<1>9. ASSUME NEW p \in Pumps, ClaimDelivery(p), UNCHANGED taskVars
     PROVE  TypeInv'
  <2>1. pump' \in [Pumps -> PumpState]
    <3>1. PICK m \in Messages : pump' = [pump EXCEPT ![p] =
            At("publishing", m, outbox[m].attempts + 1, FALSE, pump[p].left - 1)]
      BY <1>9 DEF ClaimDelivery
    <3>2. outbox[m].attempts + 1 \in Nat /\ pump[p].left - 1 \in Nat
      BY <1>9 DEF TypeOK, MessageRow, PumpState, ClaimDelivery
    <3>3. At("publishing", m, outbox[m].attempts + 1, FALSE, pump[p].left - 1) \in PumpState
      BY <3>2 DEF At, PumpState
    <3> QED
      BY <3>1, <3>3 DEF TypeOK
  <2>2. outbox' \in [Messages -> MessageRow]
    <3>1. PICK m \in Messages : outbox' = [outbox EXCEPT ![m] = AsClaimed(@, p)]
      BY <1>9 DEF ClaimDelivery
    <3>2. AsClaimed(outbox[m], p) \in MessageRow
      BY RowTypes DEF TypeOK
    <3> QED
      BY <3>1, <3>2 DEF TypeOK
  <2>3. TypeOK'
    BY <1>9, <2>1, <2>2 DEF TypeOK, PumpInv, ClaimDelivery, taskVars
  <2>4. PumpInv' /\ WorkerInv'
    BY <1>9 DEF TypeOK, PumpInv, WorkerInv, ClaimDelivery, At, IdlePump, taskVars
  <2> QED
    BY <2>3, <2>4
<1>10. ASSUME NEW p \in Pumps, EndRun(p), UNCHANGED taskVars
     PROVE  TypeInv'
  <2>1. pump' \in [Pumps -> PumpState]
    BY <1>10 DEF TypeOK, PumpInv, EndRun, PumpState, At, IdlePump
  <2>3. TypeOK'
    BY <1>10, <2>1 DEF TypeOK, PumpInv, EndRun, taskVars
  <2>4. PumpInv' /\ WorkerInv'
    BY <1>10 DEF TypeOK, PumpInv, WorkerInv, EndRun, At, IdlePump, taskVars
  <2> QED
    BY <2>3, <2>4
<1>11. ASSUME NEW p \in Pumps, Publish(p), UNCHANGED taskVars
     PROVE  TypeInv'
  <2>1. pump' \in [Pumps -> PumpState]
    BY <1>11 DEF TypeOK, PumpInv, Publish, PumpState, At, IdlePump
  <2>3. TypeOK'
    BY <1>11, <2>1 DEF TypeOK, PumpInv, Publish, taskVars
  <2>4. PumpInv' /\ WorkerInv'
    BY <1>11 DEF TypeOK, PumpInv, WorkerInv, Publish, At, IdlePump, taskVars
  <2> QED
    BY <2>3, <2>4
<1>12. ASSUME NEW p \in Pumps, CrashPump(p), UNCHANGED taskVars
     PROVE  TypeInv'
  <2>1. pump' \in [Pumps -> PumpState]
    BY <1>12 DEF TypeOK, PumpInv, CrashPump, PumpState, At, IdlePump
  <2>3. TypeOK'
    BY <1>12, <2>1 DEF TypeOK, PumpInv, CrashPump, taskVars
  <2>4. PumpInv' /\ WorkerInv'
    BY <1>12 DEF TypeOK, PumpInv, WorkerInv, CrashPump, At, IdlePump, taskVars
  <2> QED
    BY <2>3, <2>4
<1>13. ASSUME NEW p \in Pumps, FinishDelivery(p), UNCHANGED taskVars
     PROVE  TypeInv'
  <2>1. pump[p].msg \in Messages /\ pump[p].failed \in BOOLEAN
    BY <1>13 DEF FinishDelivery, PumpInv, TypeOK, PumpState
  <2>2. AsFinished(outbox[pump[p].msg], pump[p].failed) \in MessageRow
    BY <2>1, RowTypes DEF TypeOK
  <2>3. outbox' \in [Messages -> MessageRow]
    BY <1>13, <2>2 DEF FinishDelivery, TypeOK
  <2>4. pump' \in [Pumps -> PumpState]
    BY <1>13 DEF FinishDelivery, TypeOK, PumpState, At
  <2>5. TypeOK'
    BY <1>13, <2>1, <2>3, <2>4 DEF FinishDelivery, TypeOK, taskVars
  <2>6. PumpInv' /\ WorkerInv'
    BY <1>13 DEF FinishDelivery, TypeOK, PumpInv, WorkerInv, At, taskVars
  <2> QED
    BY <2>5, <2>6
<1>14. ASSUME NEW a \in Aggregates, ExecutionLeaseLapses(a), UNCHANGED taskVars
     PROVE  TypeInv'
  <2>1. execution' \in [Aggregates -> Lease]
    BY <1>14, LeaseTypes DEF TypeOK, ExecutionLeaseLapses
  <2> QED
    BY <1>14, <2>1 DEF ExecutionLeaseLapses, TypeOK, PumpInv, WorkerInv, taskVars
<1>15. ASSUME ClockSetBack, UNCHANGED taskVars
     PROVE  TypeInv'
  <2>1. PICK as \in SUBSET Aggregates : execution' = [a \in Aggregates |->
            IF a \in as THEN Expiring(execution[a], "live") ELSE execution[a]]
    BY <1>15 DEF ClockSetBack
  <2>2. ASSUME NEW a \in Aggregates PROVE Expiring(execution[a], "live") \in Lease
    BY LeaseTypes DEF TypeOK
  <2>3. outbox' \in [Messages -> MessageRow] /\ execution' \in [Aggregates -> Lease]
        /\ ripe' \subseteq Messages
    <3>1. outbox' \in [Messages -> MessageRow]
      BY <1>15, CorrectedRow DEF ClockSetBack, TypeOK
    <3>2. execution' \in [Aggregates -> Lease]
      BY <2>1, <2>2 DEF TypeOK
    <3>3. ripe' \subseteq Messages
      BY <1>15 DEF ClockSetBack, TypeOK
    <3> QED
      BY <3>1, <3>2, <3>3
  <2>5. corrections' \in Nat
    BY <1>15 DEF TypeOK, ClockSetBack
  <2>6. TypeOK'
    BY <1>15, <2>3, <2>5 DEF TypeOK, ClockSetBack, taskVars
  <2>4. PumpInv' /\ WorkerInv'
    <3>1. \A w \in Workers : worker[w].asof \in Nat
      BY DEF TypeOK, WorkerState
    <3>2. corrections \in Nat /\ corrections' = corrections + 1
      BY <1>15 DEF TypeOK, ClockSetBack
    <3> QED
      BY <1>15, <3>1, <3>2 DEF ClockSetBack, PumpInv, WorkerInv, taskVars
  <2> QED
    BY <2>4, <2>6
<1>16. ASSUME NEW w \in Workers, NEW m \in Messages, ReceiveHint(w, m)
     PROVE  TypeInv'
  <2>1. worker' \in [Workers -> WorkerState]
    BY <1>16 DEF TypeOK, ReceiveHint, WorkerState
  <2> QED
    BY <1>16, <2>1 DEF ReceiveHint, Consumable, NotBeforeDue, TypeOK, PumpInv, WorkerInv, deliveryVars
<1>17. ASSUME NEW w \in Workers, ClaimExecution(w)
     PROVE  TypeInv'
  <2>1. worker[w].msg \in Messages /\ AggregateOfWorker(w) \in Aggregates
    BY <1>17 DEF ClaimExecution, WorkerInv, AggregateOfWorker
  <2>2. execution' \in [Aggregates -> Lease]
    BY <1>17, <2>1 DEF TypeOK, ClaimExecution, Lease
  <2>6. PICK n \in Nat : n = execution[AggregateOfWorker(w)].epoch + 1
    BY <2>1 DEF TypeOK, Lease
  <2>7. IdleWorker \in WorkerState
        /\ Leased(worker[w], n) \in WorkerState
    BY <1>0 DEF WorkerState, IdleWorker, Leased
  <2>3. worker' \in [Workers -> WorkerState]
    BY <1>17, <2>6, <2>7 DEF TypeOK, ClaimExecution
  <2>8. freed' \in [Aggregates -> Nat]
    <3>1. freed \in [Aggregates -> Nat]
      BY DEF TypeOK
    <3>2. freed' = freed \/ freed' = [freed EXCEPT ![AggregateOfWorker(w)] = n]
      BY <1>17, <2>6 DEF ClaimExecution
    <3> QED
      BY <3>1, <3>2
  <2>4. TypeOK'
    BY <1>17, <2>2, <2>3, <2>8 DEF TypeOK, ClaimExecution
  <2>9. Leased(worker[w], n).msg = worker[w].msg /\ Leased(worker[w], n).asof = worker[w].asof
    BY <1>0 DEF Leased, WorkerState
  <2>5. PumpInv' /\ WorkerInv'
    BY <1>17, <1>0, <2>6, <2>9 DEF ClaimExecution, PumpInv, WorkerInv, IdleWorker
  <2> QED
    BY <2>4, <2>5
<1>18. ASSUME NEW w \in Workers, StartHandler(w)
     PROVE  TypeInv'
  <2>1. worker' \in [Workers -> WorkerState]
    BY <1>18, <1>0 DEF StartHandler, Turn, WorkerState, IdleWorker
  <2>2. PumpInv' /\ WorkerInv'
    BY <1>18, <1>0 DEF StartHandler, Turn, PumpInv, WorkerInv, IdleWorker, WorkerState, deliveryVars
  <2> QED
    BY <1>18, <2>1, <2>2 DEF StartHandler, TypeOK, deliveryVars
<1>19. ASSUME NEW w \in Workers, HandlerFails(w)
     PROVE  TypeInv'
  <2>1. worker' \in [Workers -> WorkerState]
    BY <1>19, <1>0 DEF HandlerFails, Turn, WorkerState, IdleWorker
  <2>2. PumpInv' /\ WorkerInv'
    BY <1>19, <1>0 DEF HandlerFails, Turn, PumpInv, WorkerInv, IdleWorker, WorkerState, deliveryVars
  <2> QED
    BY <1>19, <2>1, <2>2 DEF HandlerFails, TypeOK, deliveryVars
<1>20. ASSUME NEW w \in Workers, Renew(w)
     PROVE  TypeInv'
  <2>1. worker' \in [Workers -> WorkerState]
    BY <1>20, <1>0 DEF Renew, Turn, WorkerState, IdleWorker
  <2>2. PumpInv' /\ WorkerInv'
    BY <1>20, <1>0 DEF Renew, Turn, PumpInv, WorkerInv, IdleWorker, WorkerState, deliveryVars
  <2> QED
    BY <1>20, <2>1, <2>2 DEF Renew, TypeOK, deliveryVars
<1>21. ASSUME NEW w \in Workers, CrashWorker(w)
     PROVE  TypeInv'
  <2>1. worker' \in [Workers -> WorkerState]
    BY <1>21, <1>0 DEF CrashWorker, Turn, WorkerState, IdleWorker
  <2>2. PumpInv' /\ WorkerInv'
    BY <1>21, <1>0 DEF CrashWorker, Turn, PumpInv, WorkerInv, IdleWorker, WorkerState, deliveryVars
  <2> QED
    BY <1>21, <2>1, <2>2 DEF CrashWorker, TypeOK, deliveryVars
<1>22. ASSUME NEW w \in Workers, CommitProgress(w)
     PROVE  TypeInv'
  <2>1. worker[w].msg \in Messages /\ worker[w].epoch \in Nat
        /\ AggregateOfWorker(w) \in Aggregates
    BY <1>22 DEF CommitProgress, WorkerInv, AggregateOfWorker, TypeOK, WorkerState
  <2>2. worker' \in [Workers -> WorkerState]
    BY <1>22 DEF TypeOK, CommitProgress, Turn, WorkerState
  <2>3. PumpInv' /\ WorkerInv'
    BY <1>22, <1>0
       DEF CommitProgress, Turn, PumpInv, WorkerInv, WorkerState, deliveryVars
  <2>4. work' \in [Aggregates -> [epoch: Nat, msg: Messages \cup {None}]]
    BY <1>22, <2>1 DEF CommitProgress, TypeOK
  <2> QED
    BY <1>22, <2>2, <2>3, <2>4 DEF CommitProgress, TypeOK, deliveryVars
<1>23. ASSUME NEW w \in Workers, Complete(w)
     PROVE  TypeInv'
  <2>1. worker[w].msg \in Messages /\ worker[w].epoch \in Nat
        /\ AggregateOfWorker(w) \in Aggregates
    BY <1>23 DEF Complete, WorkerInv, AggregateOfWorker, TypeOK, WorkerState
  <2>2. worker' \in [Workers -> WorkerState]
    BY <1>23 DEF TypeOK, Complete, Turn, WorkerState
  <2>3. PumpInv' /\ WorkerInv'
    BY <1>23 DEF Complete, Turn, TypeOK, PumpInv, WorkerInv, WorkerState
  <2>4. work' \in [Aggregates -> [epoch: Nat, msg: Messages \cup {None}]]
    BY <1>23, <2>1 DEF Complete, TypeOK
  <2>5. effects' \in [Messages -> Nat] /\ inbox' \subseteq Messages
    <3>1. effects \in [Messages -> Nat] /\ inbox \subseteq Messages
      BY DEF TypeOK
    <3>2. effects[worker[w].msg] \in Nat
      BY <2>1, <3>1
    <3>3. PICK n \in Nat : n = effects[worker[w].msg] + 1
      BY <3>2
    <3>4. CASE LeaseCurrent(w)
      BY <1>23, <3>4, <2>1, <3>1, <3>3 DEF Complete
    <3>5. CASE ~LeaseCurrent(w)
      BY <1>23, <3>5, <3>1 DEF Complete
    <3> QED
      BY <3>4, <3>5
  <2> QED
    BY <1>23, <2>2, <2>3, <2>4, <2>5 DEF Complete, TypeOK
<1>24. ASSUME NEW w \in Workers, Release(w)
     PROVE  TypeInv'
  <2>1. worker[w].msg \in Messages /\ AggregateOfWorker(w) \in Aggregates
    BY <1>24 DEF Release, WorkerInv, AggregateOfWorker
  <2>2. worker' \in [Workers -> WorkerState]
    BY <1>24 DEF TypeOK, Release, IdleWorker, WorkerState
  <2>3. execution' \in [Aggregates -> Lease]
    BY <1>24, <2>1, LeaseTypes DEF TypeOK, Release
  <2>4. PumpInv' /\ WorkerInv'
    BY <1>24 DEF Release, TypeOK, PumpInv, WorkerInv, IdleWorker
  <2>5. freed' \in [Aggregates -> Nat]
    <3>1. freed \in [Aggregates -> Nat] /\ worker[w].epoch \in Nat
      BY DEF TypeOK, WorkerState
    <3> QED
      BY <1>24, <3>1 DEF Release
  <2> QED
    BY <1>24, <2>2, <2>3, <2>4, <2>5 DEF Release, TypeOK
<1>25. ASSUME UNCHANGED vars
     PROVE  TypeInv'
  BY <1>25 DEF vars, deliveryVars, taskVars, TypeOK, PumpInv, WorkerInv
<1> QED
  BY <1>1, <1>2, <1>3, <1>4, <1>5, <1>6, <1>7, <1>8, <1>9, <1>10, <1>11, <1>12, <1>13, <1>14, <1>15, <1>16, <1>17, <1>18, <1>19, <1>20, <1>21, <1>22, <1>23, <1>24, <1>25 DEF Next, DeliveryNext, PumpStep, WorkerStep
SafeInv == LeaseInv /\ HeldInv /\ WorkInv /\ EffectOnce

Requested == {m \in Messages : outbox[m].status # "absent"}

\* Only requested messages are executed or dead-lettered.
RequestInv ==
    /\ dead \subseteq Requested
    /\ \A w \in Workers : worker[w].pc # "idle" => worker[w].msg \in Requested

\* The epoch last given back is not the aggregate's present one, unless the row
\* says released; and no clock makes a released row live.
FreedInv ==
    \A a \in Aggregates :
        /\ freed[a] <= execution[a].epoch
        /\ freed[a] = execution[a].epoch => execution[a].expires = "released"

\* The row is under the same claim as it was.
SameClaim(new, old) ==
    new.status = old.status /\ new.owner = old.owner /\ new.attempts = old.attempts

\* A pump that owns the delivery it is busy with remembers the attempts of its row.
AttemptInv ==
    \A p \in Pumps :
        /\ pump[p].pc \in {"publishing", "finishing"}
        /\ outbox[pump[p].msg].status = "delivering"
        /\ outbox[pump[p].msg].owner = p
        => outbox[pump[p].msg].attempts = pump[p].attempts

IInv == TypeInv /\ SafeInv /\ RequestInv /\ FreedInv /\ AttemptInv

LEMMA InitSafeInv == Init => SafeInv
BY DEF Init, DeliveryInit, SafeInv, LeaseInv, Busy, HeldInv, WorkInv, EffectOnce, IdleWorker

\* A lease row that changes only in its deadline is as good as unchanged.
LEMMA SameLeases ==
  ASSUME SafeInv, UNCHANGED <<inbox, taskVars>>,
         \A a \in Aggregates :
            /\ execution'[a].msg = execution[a].msg
            /\ execution'[a].owner = execution[a].owner
            /\ execution'[a].epoch = execution[a].epoch,
         TypeInv
  PROVE  SafeInv'
<1>1. \A w \in Workers : worker[w].pc # "idle" => AggregateOf[worker[w].msg] \in Aggregates
  BY DEF TypeInv, WorkerInv
<1>2. LeaseInv'
  BY <1>1 DEF SafeInv, LeaseInv, Busy, HoldsLease, AggregateOfWorker, taskVars
<1>3. HeldInv'
  BY <1>1 DEF SafeInv, HeldInv, taskVars
<1>4. WorkInv' /\ EffectOnce'
  BY DEF SafeInv, WorkInv, EffectOnce, taskVars
<1> QED
  BY <1>2, <1>3, <1>4 DEF SafeInv

\* A worker that only turns from a busy state to another, or to idle, and that
\* does not enter the handler anew, leaves the invariant alone.
LEMMA SameHolders ==
  ASSUME SafeInv, UNCHANGED <<inbox, effects, execution, work>>,
         \A w \in Workers : worker'[w].pc # "idle" /\ worker'[w].pc # "claiming" =>
            /\ worker'[w].msg = worker[w].msg
            /\ worker'[w].epoch = worker[w].epoch
            /\ Busy(w)
            /\ worker'[w].pc \in {"leased", "running"} => worker[w].pc \in {"leased", "running"}
  PROVE  SafeInv'
<1>1. LeaseInv'
  BY DEF SafeInv, LeaseInv, Busy, HoldsLease, AggregateOfWorker
<1>2. HeldInv'
  BY DEF SafeInv, HeldInv
<1>3. WorkInv' /\ EffectOnce'
  BY DEF SafeInv, WorkInv, EffectOnce
<1> QED
  BY <1>1, <1>2, <1>3 DEF SafeInv

LEMMA NextSafeInv == IInv /\ [Next]_vars => SafeInv'
<1> SUFFICES ASSUME TypeInv, SafeInv, [Next]_vars PROVE SafeInv'
  BY DEF IInv
<1>1. CASE DeliveryNext /\ UNCHANGED taskVars
  <2>1. UNCHANGED inbox
    BY <1>1 DEF DeliveryNext, PumpStep, Enqueue, Replay, LoseHint, DeliveryLeaseLapses,
       BackoffEnds, PublicationAges, Ripen, Reconcile, ClaimDelivery, EndRun, Publish,
       FinishDelivery, CrashPump, ExecutionLeaseLapses, ClockSetBack
  <2>2. CASE UNCHANGED execution
    BY <1>1, <2>1, <2>2, SameLeases
  <2>3. CASE \E a \in Aggregates : ExecutionLeaseLapses(a)
    <3>1. \A b \in Aggregates : /\ execution'[b].msg = execution[b].msg
                                /\ execution'[b].owner = execution[b].owner
                                /\ execution'[b].epoch = execution[b].epoch
      BY <2>3 DEF ExecutionLeaseLapses, Expiring, TypeInv, TypeOK, Lease
    <3> QED
      BY <1>1, <2>1, <3>1, SameLeases
  <2>4. CASE ClockSetBack
    <3>1. \A b \in Aggregates : /\ execution'[b].msg = execution[b].msg
                                /\ execution'[b].owner = execution[b].owner
                                /\ execution'[b].epoch = execution[b].epoch
      BY <2>4 DEF ClockSetBack, Expiring, TypeInv, TypeOK, Lease
    <3> QED
      BY <1>1, <2>1, <3>1, SameLeases
  <2> QED
    BY <1>1, <2>2, <2>3, <2>4 DEF DeliveryNext, PumpStep, Enqueue, Replay, LoseHint,
       DeliveryLeaseLapses, BackoffEnds, PublicationAges, Ripen, Reconcile, ClaimDelivery,
       EndRun, Publish, FinishDelivery, CrashPump
<1>2. ASSUME NEW w \in Workers, NEW m \in Messages, ReceiveHint(w, m)
      PROVE  SafeInv'
  BY <1>2, SameHolders DEF ReceiveHint, deliveryVars, Busy, TypeInv, TypeOK, WorkerState
<1>3. ASSUME NEW w \in Workers, StartHandler(w) \/ HandlerFails(w) \/ Renew(w) \/ CrashWorker(w)
      PROVE  SafeInv'
  BY <1>3, SameHolders DEF StartHandler, HandlerFails, Renew, CrashWorker, Turn, IdleWorker,
     deliveryVars, Busy, TypeInv, TypeOK, WorkerState
<1>4. ASSUME NEW w \in Workers, ClaimExecution(w)
      PROVE  SafeInv'
  <2> DEFINE a == AggregateOfWorker(w)
  <2>1. worker[w].msg \in Messages /\ a \in Aggregates /\ a = AggregateOf[worker[w].msg]
    BY <1>4 DEF ClaimExecution, TypeInv, WorkerInv, AggregateOfWorker
  <2>2. CASE execution[a].expires = "live"
    BY <1>4, <2>2, SameHolders DEF ClaimExecution, Busy, TypeInv, TypeOK, IdleWorker, WorkerState
  <2>3. CASE execution[a].expires # "live"
    <3>1. PICK n \in Nat : n = execution[a].epoch + 1
      BY <2>1 DEF TypeInv, TypeOK, Lease
    <3>2. /\ execution'[a].msg = worker[w].msg /\ execution'[a].owner = w
          /\ execution'[a].epoch = n
          /\ \A b \in Aggregates : b # a => execution'[b] = execution[b]
          /\ worker'[w] = IF worker[w].msg \in inbox THEN IdleWorker
                          ELSE Leased(worker[w], n)
          /\ \A v \in Workers : v # w => worker'[v] = worker[v]
          /\ UNCHANGED <<inbox, effects, work>>
      BY <1>4, <2>1, <2>3, <3>1 DEF ClaimExecution, TypeInv, TypeOK
    <3>3. \A v \in Workers : worker[v].pc # "idle" =>
             AggregateOf[worker[v].msg] \in Aggregates /\ worker[v].epoch \in Nat
      BY DEF TypeInv, WorkerInv, TypeOK, WorkerState
    <3>4. execution[a].epoch \in Nat
      BY <2>1 DEF TypeInv, TypeOK, Lease
    <3>8. Leased(worker[w], n).msg = worker[w].msg /\ Leased(worker[w], n).epoch = n
      BY DEF Leased, TypeInv, TypeOK, WorkerState
    <3>5. LeaseInv'
      <4> SUFFICES ASSUME NEW v \in Workers, Busy(v)'
                   PROVE  /\ worker'[v].epoch <= execution'[AggregateOf[worker'[v].msg]].epoch
                          /\ worker'[v].epoch = execution'[AggregateOf[worker'[v].msg]].epoch
                               => HoldsLease(v)'
        BY DEF LeaseInv
      <4>1. CASE v = w
        <5>1. worker'[w] = Leased(worker[w], n)
          BY <4>1, <3>2 DEF Busy, IdleWorker
        <5>2. worker'[w].msg = worker[w].msg /\ worker'[w].epoch = n
          BY <5>1, <3>8
        <5>3. AggregateOf[worker'[w].msg] = a
          BY <2>1, <5>2
        <5> HIDE DEF a
        <5>4. worker'[w].epoch <= execution'[a].epoch
          BY <3>1, <3>2, <5>2
        <5>5. HoldsLease(w)'
          BY <3>2, <5>2, <5>3 DEF HoldsLease, AggregateOfWorker
        <5> QED
          BY <4>1, <5>3, <5>4, <5>5
      <4>2. CASE v # w
        BY <4>2, <3>1, <3>2, <3>3, <3>4, <2>1
           DEF SafeInv, LeaseInv, Busy, HoldsLease, AggregateOfWorker
      <4> QED
        BY <4>1, <4>2
    <3>6. HeldInv'
      <4> SUFFICES ASSUME NEW v \in Workers, worker'[v].pc \in {"leased", "running"},
                          worker'[v].epoch = execution'[AggregateOf[worker'[v].msg]].epoch
                   PROVE  worker'[v].msg \notin inbox'
        BY DEF HeldInv
      <4>1. CASE v = w
        BY <4>1, <3>2, <3>8 DEF IdleWorker
      <4>2. CASE v # w
        BY <4>2, <3>1, <3>2, <3>3, <3>4, <2>1 DEF SafeInv, LeaseInv, HeldInv, Busy
      <4> QED
        BY <4>1, <4>2
    <3>7. WorkInv' /\ EffectOnce'
      <4>1. \A b \in Aggregates : work[b].epoch \in Nat
        BY DEF TypeInv, TypeOK
      <4> QED
        BY <3>1, <3>2, <3>4, <4>1, <2>1 DEF SafeInv, WorkInv, EffectOnce
    <3> QED
      BY <3>5, <3>6, <3>7 DEF SafeInv
  <2> QED
    BY <2>2, <2>3
<1>5. ASSUME NEW w \in Workers, CommitProgress(w)
      PROVE  SafeInv'
  <2>1. worker[w].msg \in Messages /\ AggregateOfWorker(w) \in Aggregates
    BY <1>5 DEF CommitProgress, TypeInv, WorkerInv, AggregateOfWorker
  <2>2. LeaseInv' /\ HeldInv' /\ EffectOnce'
    <3>0. \A v \in Workers :
            /\ worker'[v].msg = worker[v].msg /\ worker'[v].epoch = worker[v].epoch
            /\ worker'[v].pc \in {"leased", "running", "closing"}
                 => worker[v].pc \in {"leased", "running", "closing"}
      <4>1. UNCHANGED worker \/ worker' = [worker EXCEPT ![w] = Turn(worker[w], "closing")]
        BY <1>5 DEF CommitProgress
      <4>2. /\ Turn(worker[w], "closing").msg = worker[w].msg
            /\ Turn(worker[w], "closing").epoch = worker[w].epoch
        BY DEF Turn, TypeInv, TypeOK, WorkerState
      <4> QED
        BY <1>5, <4>1, <4>2 DEF CommitProgress, TypeInv, TypeOK
    <3>1. LeaseInv'
      BY <1>5, <3>0 DEF CommitProgress, deliveryVars, SafeInv, LeaseInv, Busy, HoldsLease,
         AggregateOfWorker
    <3>2. HeldInv' /\ EffectOnce'
      BY <1>5 DEF CommitProgress, Turn, deliveryVars, SafeInv, HeldInv, EffectOnce,
         TypeInv, TypeOK, WorkerState
    <3> QED
      BY <3>1, <3>2
  <2>3. WorkInv'
    BY <1>5, <2>1 DEF CommitProgress, deliveryVars, SafeInv, WorkInv, LeaseCurrent, HoldsLease,
       TypeInv, TypeOK, Lease
  <2> QED
    BY <2>2, <2>3 DEF SafeInv
<1>6. ASSUME NEW w \in Workers, Complete(w)
      PROVE  SafeInv'
  <2>1. worker[w].msg \in Messages /\ AggregateOfWorker(w) \in Aggregates
        /\ AggregateOfWorker(w) = AggregateOf[worker[w].msg]
    BY <1>6 DEF Complete, TypeInv, WorkerInv, AggregateOfWorker
  <2>2. CASE ~LeaseCurrent(w)
    BY <1>6, <2>2, SameHolders DEF Complete, Turn, Busy, TypeInv, TypeOK, WorkerState
  <2>3. CASE LeaseCurrent(w)
    <3>1. worker[w].msg \notin inbox
      BY <1>6, <2>3 DEF Complete, LeaseCurrent, HoldsLease, AggregateOfWorker, SafeInv, HeldInv
    <3>2. EffectOnce'
      BY <1>6, <2>1, <2>3, <3>1 DEF Complete, SafeInv, EffectOnce, TypeInv, TypeOK
    <3>3. LeaseInv'
      BY <1>6 DEF Complete, Turn, SafeInv, LeaseInv, Busy, HoldsLease,
         AggregateOfWorker, TypeInv, TypeOK, WorkerState
    <3>4. WorkInv'
      BY <1>6, <2>1, <2>3 DEF Complete, SafeInv, WorkInv, LeaseCurrent, HoldsLease,
         TypeInv, TypeOK, Lease
    <3>5. HeldInv'
      <4> SUFFICES ASSUME NEW v \in Workers, worker'[v].pc \in {"leased", "running"},
                          worker'[v].epoch = execution'[AggregateOf[worker'[v].msg]].epoch
                   PROVE  worker'[v].msg \notin inbox'
        BY DEF HeldInv
      <4>1. v # w /\ worker'[v] = worker[v] /\ UNCHANGED execution
        BY <1>6 DEF Complete, Turn, TypeInv, TypeOK, WorkerState
      <4>2. worker[v].msg \notin inbox /\ HoldsLease(v)
        BY <4>1 DEF SafeInv, HeldInv, LeaseInv, Busy
      <4>3. worker[v].msg # worker[w].msg
        BY <4>1, <4>2, <2>3 DEF HoldsLease, LeaseCurrent, AggregateOfWorker
      <4> QED
        BY <1>6, <2>3, <4>1, <4>2, <4>3 DEF Complete
    <3> QED
      BY <3>2, <3>3, <3>4, <3>5 DEF SafeInv
  <2> QED
    BY <2>2, <2>3
<1>7. ASSUME NEW w \in Workers, Release(w)
      PROVE  SafeInv'
  <2>1. worker[w].msg \in Messages /\ AggregateOfWorker(w) \in Aggregates
    BY <1>7 DEF Release, TypeInv, WorkerInv, AggregateOfWorker
  <2>2. \A a \in Aggregates : /\ execution'[a].msg = execution[a].msg
                              /\ execution'[a].owner = execution[a].owner
                              /\ execution'[a].epoch = execution[a].epoch
    <3>1. execution \in [Aggregates -> Lease]
      BY DEF TypeInv, TypeOK
    <3>2. execution' = execution
          \/ execution' = [execution EXCEPT ![AggregateOfWorker(w)] = Expiring(@, "released")]
      BY <1>7 DEF Release
    <3>3. \A lease \in Lease : /\ Expiring(lease, "released").msg = lease.msg
                              /\ Expiring(lease, "released").owner = lease.owner
                              /\ Expiring(lease, "released").epoch = lease.epoch
      BY DEF Lease, Expiring
    <3> QED
      BY <2>1, <3>1, <3>2, <3>3
  <2>3. \A v \in Workers : worker'[v] = worker[v] \/ worker'[v].pc = "idle"
    BY <1>7 DEF Release, IdleWorker, TypeInv, TypeOK
  <2>4. \A v \in Workers : worker[v].pc # "idle" => AggregateOf[worker[v].msg] \in Aggregates
    BY DEF TypeInv, WorkerInv
  <2>5. UNCHANGED <<inbox, effects, work>>
    BY <1>7 DEF Release
  <2>6. LeaseInv'
    BY <2>2, <2>3, <2>4 DEF SafeInv, LeaseInv, Busy, HoldsLease, AggregateOfWorker
  <2>7. HeldInv'
    BY <2>2, <2>3, <2>4, <2>5 DEF SafeInv, HeldInv
  <2>8. WorkInv' /\ EffectOnce'
    BY <2>2, <2>5 DEF SafeInv, WorkInv, EffectOnce
  <2> QED
    BY <2>6, <2>7, <2>8 DEF SafeInv
<1>8. CASE UNCHANGED vars
  BY <1>8, SameLeases DEF vars, deliveryVars, taskVars
<1> QED
  BY <1>1, <1>2, <1>3, <1>4, <1>5, <1>6, <1>7, <1>8 DEF Next, WorkerStep


\* The status a transaction leaves in a row.
LEMMA RowStatus ==
  ASSUME NEW row \in MessageRow
  PROVE  /\ \A due : AsPending(row, due).status = "pending"
         /\ \A p : AsClaimed(row, p).status = "delivering"
         /\ \A failed : AsFinished(row, failed).status \in {"pending", "published"}
         /\ AsReplayed(row).status = "pending"
         /\ \A state : WithLease(row, state).status = row.status
         /\ [row EXCEPT !.overdue = TRUE].status = row.status
         /\ [row EXCEPT !.due = "past"].status = row.status
BY DEF MessageRow, AsPending, AsClaimed, AsFinished, AsReplayed, WithLease

\* A request is never withdrawn, and only Enqueue makes one.
LEMMA SameRequested ==
  ASSUME TypeInv, RequestInv, [Next]_vars, \A m \in Messages : ~Enqueue(m)
  PROVE  Requested' = Requested
<1> SUFFICES ASSUME NEW m \in Messages
             PROVE  outbox'[m].status = "absent" <=> outbox[m].status = "absent"
  BY DEF Requested
<1> USE RowStatus DEF TypeInv, TypeOK
<1>1. CASE UNCHANGED outbox
  BY <1>1
<1>2. ASSUME NEW n \in Messages, Replay(n)
      PROVE  outbox'[m].status = "absent" <=> outbox[m].status = "absent"
  BY <1>2 DEF Replay, DeadLettered, RequestInv, Requested
<1>3. ASSUME NEW n \in Messages, DeliveryLeaseLapses(n) \/ BackoffEnds(n) \/ PublicationAges(n)
      PROVE  outbox'[m].status = "absent" <=> outbox[m].status = "absent"
  <2>1. CASE DeliveryLeaseLapses(n)
    BY <2>1 DEF DeliveryLeaseLapses
  <2>2. CASE BackoffEnds(n)
    <3>1. outbox' = [outbox EXCEPT ![n] = [outbox[n] EXCEPT !.due = "past"]]
      BY <2>2 DEF BackoffEnds
    <3>2. [outbox[n] EXCEPT !.due = "past"].status = outbox[n].status
      BY DEF MessageRow
    <3> QED
      BY <3>1, <3>2
  <2>3. CASE PublicationAges(n)
    <3>1. outbox' = [outbox EXCEPT ![n] = [outbox[n] EXCEPT !.overdue = TRUE]]
      BY <2>3 DEF PublicationAges
    <3>2. [outbox[n] EXCEPT !.overdue = TRUE].status = outbox[n].status
      BY DEF MessageRow
    <3> QED
      BY <3>1, <3>2
  <2> QED
    BY <1>3, <2>1, <2>2, <2>3
<1>4. ASSUME NEW p \in Pumps, Reconcile(p)
      PROVE  outbox'[m].status = "absent" <=> outbox[m].status = "absent"
  BY <1>4 DEF Reconcile, Unacknowledged
<1>5. ASSUME NEW p \in Pumps, ClaimDelivery(p)
      PROVE  outbox'[m].status = "absent" <=> outbox[m].status = "absent"
  BY <1>5 DEF ClaimDelivery, Claimable, Unowned
<1>6. ASSUME NEW p \in Pumps, FinishDelivery(p)
      PROVE  outbox'[m].status = "absent" <=> outbox[m].status = "absent"
  <2>1. CASE UNCHANGED outbox
    BY <2>1
  <2>2. CASE outbox' # outbox
    <3>1. /\ outbox' = [outbox EXCEPT ![pump[p].msg] = AsFinished(@, pump[p].failed)]
          /\ outbox[pump[p].msg].status = "delivering"
      BY <1>6, <2>2 DEF FinishDelivery, OwnsDelivery
    <3> QED
      BY <3>1
  <2> QED
    BY <2>1, <2>2
<1>7. CASE ClockSetBack
  BY <1>7, CorrectedRow DEF ClockSetBack
<1> QED
  BY <1>1, <1>2, <1>3, <1>4, <1>5, <1>6, <1>7 DEF Next, WorkerStep, DeliveryNext, PumpStep,
     vars, deliveryVars, LoseHint, Ripen, EndRun, Publish, CrashPump, ExecutionLeaseLapses,
     ReceiveHint, ClaimExecution, StartHandler, Complete, HandlerFails, Release, Renew,
     CommitProgress, CrashWorker

LEMMA StaysRequested ==
  ASSUME TypeInv, RequestInv, [Next]_vars
  PROVE  Requested \subseteq Requested'
<1>1. CASE \A m \in Messages : ~Enqueue(m)
  BY <1>1, SameRequested
<1>2. ASSUME NEW m \in Messages, Enqueue(m) PROVE Requested \subseteq Requested'
  BY <1>2, RowStatus DEF Enqueue, Requested, TypeInv, TypeOK
<1> QED
  BY <1>1, <1>2

LEMMA NextRequestInv == IInv /\ [Next]_vars => RequestInv'
<1> SUFFICES ASSUME TypeInv, RequestInv, [Next]_vars PROVE RequestInv'
  BY DEF IInv
<1>1. dead' \subseteq Requested'
  <2>1. dead' \subseteq Requested
    <3>1. ASSUME NEW m \in Messages, Replay(m) PROVE dead' \subseteq dead
      BY <3>1 DEF Replay
    <3>2. ASSUME NEW p \in Pumps, Reconcile(p) PROVE dead' \subseteq Requested
      BY <3>2 DEF Reconcile, Exhausted, Unowned, Unacknowledged, Requested, RequestInv
    <3>3. ASSUME NEW p \in Pumps, FinishDelivery(p) PROVE dead' \subseteq Requested
      BY <3>3 DEF FinishDelivery, OwnsDelivery, Requested, RequestInv, TypeInv, PumpInv
    <3> QED
      BY <3>1, <3>2, <3>3 DEF Next, WorkerStep, DeliveryNext, PumpStep, vars, deliveryVars,
         Enqueue, LoseHint, DeliveryLeaseLapses, BackoffEnds, PublicationAges, Ripen,
         ClaimDelivery, EndRun, Publish, CrashPump, ExecutionLeaseLapses, ClockSetBack,
         ReceiveHint, ClaimExecution, StartHandler, Complete, HandlerFails, Release, Renew,
         CommitProgress, CrashWorker, RequestInv
  <2> QED
    BY <2>1, StaysRequested
<1>2. ASSUME NEW w \in Workers, worker'[w].pc # "idle"
      PROVE  worker'[w].msg \in Requested
  <2> USE DEF RequestInv, TypeInv, TypeOK, WorkerState, IdleWorker, Turn
  <2>1. CASE UNCHANGED worker
    BY <1>2, <2>1
  <2>2. ASSUME NEW v \in Workers, NEW m \in Messages, ReceiveHint(v, m)
        PROVE  worker'[w].msg \in Requested
    BY <1>2, <2>2 DEF ReceiveHint, Consumable, Requested
  <2>3. ASSUME NEW v \in Workers, ClaimExecution(v) PROVE worker'[w].msg \in Requested
    <3>1. \/ worker'[w] = worker[w]
          \/ worker'[w].pc = "idle"
          \/ w = v /\ worker'[w].msg = worker[w].msg
      <4>1. CASE w # v
        BY <2>3, <4>1 DEF ClaimExecution
      <4>2. CASE w = v
        <5>1. \A epoch : Leased(worker[w], epoch).msg = worker[w].msg
          BY DEF Leased
        <5> QED
          BY <2>3, <4>2, <5>1 DEF ClaimExecution
      <4> QED
        BY <4>1, <4>2
    <3> QED
      BY <1>2, <2>3, <3>1 DEF ClaimExecution
  <2>4. ASSUME NEW v \in Workers,
               \/ StartHandler(v) \/ HandlerFails(v) \/ Renew(v) \/ CommitProgress(v)
               \/ Complete(v) \/ Release(v) \/ CrashWorker(v)
        PROVE  worker'[w].msg \in Requested
    BY <1>2, <2>4 DEF StartHandler, HandlerFails, Renew, CommitProgress, Complete, Release,
       CrashWorker
  <2> QED
    BY <2>1, <2>2, <2>3, <2>4 DEF Next, WorkerStep, vars, taskVars
<1> QED
  BY <1>1, <1>2, StaysRequested DEF RequestInv

LEMMA InitRequestInv == Init => RequestInv
BY DEF Init, DeliveryInit, RequestInv, IdleWorker

--------------------------------------------------------------------------------

LEMMA NextFreedInv == IInv /\ [Next]_vars => FreedInv'
<1> SUFFICES ASSUME TypeInv, SafeInv, FreedInv, [Next]_vars, NEW b \in Aggregates
             PROVE  /\ freed'[b] <= execution'[b].epoch
                    /\ freed'[b] = execution'[b].epoch => execution'[b].expires = "released"
  BY DEF IInv, FreedInv
<1>1. /\ freed[b] \in Nat /\ execution[b].epoch \in Nat /\ freed[b] <= execution[b].epoch
      /\ freed[b] = execution[b].epoch => execution[b].expires = "released"
  BY DEF FreedInv, TypeInv, TypeOK, Lease
<1>2. execution \in [Aggregates -> Lease] /\ freed \in [Aggregates -> Nat]
  BY DEF TypeInv, TypeOK
<1>3. CASE UNCHANGED <<execution, freed>>
  BY <1>1, <1>3
<1>4. ASSUME NEW a \in Aggregates, ExecutionLeaseLapses(a), UNCHANGED freed
      PROVE  /\ freed'[b] <= execution'[b].epoch
             /\ freed'[b] = execution'[b].epoch => execution'[b].expires = "released"
  BY <1>1, <1>2, <1>4 DEF ExecutionLeaseLapses, Expiring, Lease
<1>5. ASSUME ClockSetBack, UNCHANGED freed
      PROVE  /\ freed'[b] <= execution'[b].epoch
             /\ freed'[b] = execution'[b].epoch => execution'[b].expires = "released"
  <2>1. PICK as \in SUBSET Aggregates :
          /\ \A a \in as : execution[a].expires = "lapsed"
          /\ execution' = [a \in Aggregates |->
                             IF a \in as THEN Expiring(execution[a], "live") ELSE execution[a]]
    BY <1>5 DEF ClockSetBack
  <2>2. CASE b \in as
    <3>1. execution[b].expires = "lapsed" /\ execution'[b].epoch = execution[b].epoch
      BY <1>2, <2>1, <2>2 DEF Expiring, Lease
    <3> QED
      BY <1>1, <1>5, <3>1
  <2>3. CASE b \notin as
    BY <1>1, <1>5, <2>1, <2>3
  <2> QED
    BY <2>2, <2>3
<1>6. ASSUME NEW w \in Workers, ClaimExecution(w)
      PROVE  /\ freed'[b] <= execution'[b].epoch
             /\ freed'[b] = execution'[b].epoch => execution'[b].expires = "released"
  BY <1>1, <1>2, <1>6 DEF ClaimExecution, Lease
<1>7. ASSUME NEW w \in Workers, Release(w)
      PROVE  /\ freed'[b] <= execution'[b].epoch
             /\ freed'[b] = execution'[b].epoch => execution'[b].expires = "released"
  <2>1. CASE HoldsLease(w) /\ b = AggregateOfWorker(w)
    BY <1>1, <1>2, <1>7, <2>1 DEF Release, HoldsLease, Expiring, Lease
  <2>2. CASE ~(HoldsLease(w) /\ b = AggregateOfWorker(w))
    BY <1>1, <1>2, <1>7, <2>2 DEF Release
  <2> QED
    BY <2>1, <2>2
<1> QED
  BY <1>3, <1>4, <1>5, <1>6, <1>7 DEF Next, WorkerStep, DeliveryNext, PumpStep, vars, taskVars,
     deliveryVars, Enqueue, Replay, LoseHint, DeliveryLeaseLapses, BackoffEnds, PublicationAges,
     Ripen, Reconcile, ClaimDelivery, EndRun, Publish, FinishDelivery, CrashPump, ReceiveHint,
     StartHandler, Complete, HandlerFails, Renew, CommitProgress, CrashWorker

LEMMA InitFreedInv == Init => FreedInv
BY DEF Init, FreedInv

LEMMA InitAttemptInv == Init => AttemptInv
BY DEF Init, DeliveryInit, AttemptInv, IdlePump

\* What a transaction leaves of a row's owner and attempts.
LEMMA RowOwner ==
  ASSUME NEW row \in MessageRow
  PROVE  /\ \A due : AsPending(row, due).status = "pending"
         /\ \A p : /\ AsClaimed(row, p).owner = p
                   /\ AsClaimed(row, p).attempts = row.attempts + 1
         /\ \A failed : AsFinished(row, failed).owner = None
         /\ AsReplayed(row).owner = None
         /\ \A state : SameClaim(WithLease(row, state), row)
         /\ SameClaim([row EXCEPT !.overdue = TRUE], row)
         /\ SameClaim([row EXCEPT !.due = "past"], row)
BY DEF MessageRow, AsPending, AsClaimed, AsFinished, AsReplayed, WithLease, SameClaim

\* A row that keeps its claim, or gives it up, leaves AttemptInv alone.
LEMMA SameAttempts ==
  ASSUME AttemptInv,
         \A m \in Messages : \/ SameClaim(outbox'[m], outbox[m])
                             \/ outbox'[m].status # "delivering"
                             \/ outbox'[m].owner = None,
         \A p \in Pumps : pump'[p].pc \in {"publishing", "finishing"} =>
            /\ pump[p].pc \in {"publishing", "finishing"}
            /\ pump[p].msg \in Messages
            /\ pump'[p].msg = pump[p].msg /\ pump'[p].attempts = pump[p].attempts
  PROVE  AttemptInv'
<1> SUFFICES ASSUME NEW p \in Pumps, pump'[p].pc \in {"publishing", "finishing"},
                    outbox'[pump'[p].msg].status = "delivering",
                    outbox'[pump'[p].msg].owner = p
             PROVE  outbox'[pump'[p].msg].attempts = pump'[p].attempts
  BY DEF AttemptInv
<1>1. /\ pump[p].pc \in {"publishing", "finishing"} /\ pump[p].msg \in Messages
      /\ pump'[p].msg = pump[p].msg /\ pump'[p].attempts = pump[p].attempts
  OBVIOUS
<1>2. SameClaim(outbox'[pump[p].msg], outbox[pump[p].msg])
  BY <1>1, NoneAssumption
<1> QED
  BY <1>1, <1>2 DEF AttemptInv, SameClaim

LEMMA NextAttemptInv == IInv /\ [Next]_vars => AttemptInv'
<1> SUFFICES ASSUME TypeInv, AttemptInv, [Next]_vars PROVE AttemptInv'
  BY DEF IInv
<1> USE RowOwner DEF TypeInv, TypeOK
<1> DEFINE Kept(m) == \/ SameClaim(outbox'[m], outbox[m])
                      \/ outbox'[m].status # "delivering"
                      \/ outbox'[m].owner = None
<1>0. \A p \in Pumps : pump[p].pc \in {"publishing", "finishing"} => pump[p].msg \in Messages
  BY DEF PumpInv
<1>k. ASSUME NEW m \in Messages, outbox'[m] = outbox[m] PROVE Kept(m)
  BY <1>k DEF SameClaim
<1>1. CASE UNCHANGED <<outbox, pump>>
  BY <1>1 DEF AttemptInv
<1>2. ASSUME NEW n \in Messages, UNCHANGED pump,
             \/ Enqueue(n) \/ Replay(n) \/ DeliveryLeaseLapses(n)
             \/ BackoffEnds(n) \/ PublicationAges(n)
      PROVE  AttemptInv'
  <2>1. ASSUME NEW m \in Messages PROVE Kept(m)
    <3>1. CASE m # n
      BY <1>2, <1>k, <3>1 DEF Enqueue, Replay, DeliveryLeaseLapses, BackoffEnds, PublicationAges
    <3>2. CASE m = n /\ Enqueue(n)
      BY <3>2 DEF Enqueue
    <3>3. CASE m = n /\ Replay(n)
      BY <3>3 DEF Replay
    <3>4. CASE m = n /\ DeliveryLeaseLapses(n)
      BY <3>4 DEF DeliveryLeaseLapses
    <3>5. CASE m = n /\ BackoffEnds(n)
      <4>1. outbox'[m] = [outbox[m] EXCEPT !.due = "past"]
        BY <3>5 DEF BackoffEnds
      <4>2. outbox[m] \in MessageRow
        OBVIOUS
      <4> QED  BY <4>1, <4>2
    <3>6. CASE m = n /\ PublicationAges(n)
      <4>1. outbox'[m] = [outbox[m] EXCEPT !.overdue = TRUE]
        BY <3>6 DEF PublicationAges
      <4>2. outbox[m] \in MessageRow
        OBVIOUS
      <4> QED  BY <4>1, <4>2
    <3> QED  BY <1>2, <3>1, <3>2, <3>3, <3>4, <3>5, <3>6
  <2> QED  BY <1>0, <1>2, <2>1, SameAttempts
<1>3. ASSUME ClockSetBack PROVE AttemptInv'
  <2>1. ASSUME NEW m \in Messages PROVE Kept(m)
    BY <1>3, CorrectedRow DEF ClockSetBack, SameClaim
  <2> QED  BY <1>0, <1>3, <2>1, SameAttempts DEF ClockSetBack
<1>4. ASSUME NEW p \in Pumps, Reconcile(p) PROVE AttemptInv'
  <2>1. ASSUME NEW m \in Messages PROVE Kept(m)
    BY <1>4, <1>k DEF Reconcile
  <2> QED  BY <1>0, <1>4, <2>1, SameAttempts DEF Reconcile, At
<1>5. ASSUME NEW p \in Pumps, ClaimDelivery(p) PROVE AttemptInv'
  <2>1. PICK m \in Messages :
          /\ outbox' = [outbox EXCEPT ![m] = AsClaimed(outbox[m], p)]
          /\ pump' = [pump EXCEPT ![p] =
               At("publishing", m, outbox[m].attempts + 1, FALSE, pump[p].left - 1)]
    BY <1>5 DEF ClaimDelivery
  <2> SUFFICES ASSUME NEW q \in Pumps, pump'[q].pc \in {"publishing", "finishing"},
                      outbox'[pump'[q].msg].status = "delivering",
                      outbox'[pump'[q].msg].owner = q
               PROVE  outbox'[pump'[q].msg].attempts = pump'[q].attempts
    BY DEF AttemptInv
  <2>2. CASE q = p
    BY <2>1, <2>2 DEF At
  <2>3. CASE q # p
    <3>1. pump'[q] = pump[q] /\ pump[q].msg \in Messages
      BY <1>0, <2>1, <2>3
    <3>2. pump[q].msg # m
      <4>1. AsClaimed(outbox[m], p).owner = p
        OBVIOUS
      <4> QED  BY <2>1, <2>3, <3>1, <4>1
    <3>3. outbox'[pump[q].msg] = outbox[pump[q].msg]
      BY <2>1, <3>1, <3>2
    <3>4. /\ pump[q].pc \in {"publishing", "finishing"}
          /\ outbox[pump[q].msg].status = "delivering" /\ outbox[pump[q].msg].owner = q
      BY <3>1, <3>3
    <3>5. outbox[pump[q].msg].attempts = pump[q].attempts
      BY <3>4 DEF AttemptInv
    <3> QED  BY <3>1, <3>3, <3>5
  <2> QED  BY <2>2, <2>3
<1>6. ASSUME NEW p \in Pumps, FinishDelivery(p) PROVE AttemptInv'
  <2>1. ASSUME NEW m \in Messages PROVE Kept(m)
    <3>1. \/ outbox'[m] = outbox[m]
          \/ outbox'[m] = AsFinished(outbox[m], pump[p].failed)
      BY <1>6 DEF FinishDelivery
    <3>2. AsFinished(outbox[m], pump[p].failed).owner = None
      OBVIOUS
    <3> QED  BY <1>k, <3>1, <3>2
  <2> QED  BY <1>0, <1>6, <2>1, SameAttempts DEF FinishDelivery, At
<1>7. ASSUME NEW p \in Pumps, EndRun(p) \/ Publish(p) \/ CrashPump(p) PROVE AttemptInv'
  <2>1. ASSUME NEW m \in Messages PROVE Kept(m)
    BY <1>7, <1>k DEF EndRun, Publish, CrashPump
  <2>2. ASSUME NEW q \in Pumps, pump'[q].pc \in {"publishing", "finishing"}
        PROVE  /\ pump[q].pc \in {"publishing", "finishing"}
               /\ pump'[q].msg = pump[q].msg /\ pump'[q].attempts = pump[q].attempts
    BY <1>7, <2>2 DEF EndRun, Publish, CrashPump, At, IdlePump
  <2> QED  BY <1>0, <2>1, <2>2, SameAttempts
<1> QED
  BY <1>1, <1>2, <1>3, <1>4, <1>5, <1>6, <1>7 DEF Next, WorkerStep, DeliveryNext, PumpStep, vars,
     deliveryVars, LoseHint, Ripen, ExecutionLeaseLapses, Replay, Enqueue, DeliveryLeaseLapses,
     BackoffEnds, PublicationAges, ReceiveHint, ClaimExecution, StartHandler,
     Complete, HandlerFails, Release, Renew, CommitProgress, CrashWorker

LEMMA Invariance == Spec => []IInv
<1>1. Init => IInv
  BY InitTypeInv, InitSafeInv, InitRequestInv, InitFreedInv, InitAttemptInv DEF IInv
<1>2. IInv /\ [Next]_vars => IInv'
  BY NextTypeInv, NextSafeInv, NextRequestInv, NextFreedInv, NextAttemptInv DEF IInv
<1> QED
  BY <1>1, <1>2, PTL DEF Spec

\* Every reachable state has the declared types.
THEOREM TypeCorrect == Spec => []TypeOK
<1>1. IInv => TypeOK
  BY DEF IInv, TypeInv
<1> QED
  BY <1>1, Invariance, PTL

\* The final commit of each message happens at most once, and exactly for the
\* acknowledged messages: however many workers, replays and redeliveries.
THEOREM OnceOnly == Spec => []EffectOnce
<1>1. IInv => EffectOnce
  BY DEF IInv, SafeInv
<1> QED
  BY <1>1, Invariance, PTL
\* A lease that was given back is never live again under its old epoch, however
\* often the clock is set back.
THEOREM FreedForGood == Spec => []ReleasedForGood
<1>1. IInv => ReleasedForGood
  BY DEF IInv, FreedInv, ReleasedForGood
<1> QED
  BY <1>1, Invariance, PTL

\* Only a worker that holds the lease row commits on an aggregate: what its
\* commit writes and what the row says are the same.
LEMMA WorkStep ==
  ASSUME IInv, [Next]_vars, NEW a \in Aggregates, work'[a] # work[a]
  PROVE  /\ work'[a].epoch = execution[a].epoch
         /\ work'[a].msg = execution[a].msg
<1> USE DEF IInv, TypeInv, TypeOK
<1>1. PICK w \in Workers : CommitProgress(w) \/ Complete(w)
  BY DEF Next, WorkerStep, taskVars, vars, ReceiveHint, ClaimExecution, StartHandler,
     HandlerFails, Release, Renew, CrashWorker
<1>2. LeaseCurrent(w) /\ worker[w].pc = "running"
      /\ work' = [work EXCEPT ![AggregateOfWorker(w)] =
                    [epoch |-> worker[w].epoch, msg |-> worker[w].msg]]
  BY <1>1 DEF CommitProgress, Complete
<1>3. a = AggregateOfWorker(w)
  BY <1>2
<1> QED
  BY <1>2, <1>3 DEF LeaseCurrent, HoldsLease, AggregateOfWorker, WorkerInv

\* A commit carries the aggregate's current epoch, so commits of older
\* executions never follow those of newer ones.
THEOREM FencedCommits == Spec => Fencing
<1>1. ASSUME IInv, [Next]_vars, NEW a \in Aggregates, work'[a] # work[a]
      PROVE  /\ work'[a].epoch >= work[a].epoch
             /\ work'[a].epoch = work[a].epoch => work'[a].msg = work[a].msg
  <2>1. work'[a].epoch = execution[a].epoch /\ work'[a].msg = execution[a].msg
    BY <1>1, WorkStep
  <2>2. work[a].epoch \in Nat /\ execution[a].epoch \in Nat
    BY <1>1 DEF IInv, TypeInv, TypeOK, Lease
  <2> QED
    BY <1>1, <2>1, <2>2 DEF IInv, SafeInv, WorkInv
<1>2. IInv /\ [Next]_vars =>
        [\A a \in Aggregates : work'[a] # work[a] =>
            /\ work'[a].epoch >= work[a].epoch
            /\ work'[a].epoch = work[a].epoch => work'[a].msg = work[a].msg]_vars
  BY <1>1
<1> QED
  BY <1>2, Invariance, PTL DEF Spec, Fencing

\* A handler under a live lease runs for a message nobody has acknowledged, and
\* before its time only if the clock was set back since the message was read.
THEOREM WorkInTurn == Spec => []NoWorkOutOfTurn
<1>1. IInv => NoWorkOutOfTurn
  BY DEF IInv, TypeInv, SafeInv, HeldInv, WorkerInv, NoWorkOutOfTurn, LeaseCurrent, HoldsLease,
     AggregateOfWorker
<1> QED
  BY <1>1, Invariance, PTL

\* A message is given up only after MaxAttempts claims since it was enqueued or
\* last replayed: a pump that lost its lease does not count against a new round.
THEOREM GivenUpLate == Spec => GivenUpAfterAttempts
<1>1. ASSUME IInv, [Next]_vars, NEW m \in dead' \ dead
      PROVE  outbox[m].attempts >= MaxAttempts
  <2>1. ASSUME NEW p \in Pumps, Reconcile(p)
        PROVE  outbox[m].attempts >= MaxAttempts
    BY <1>1, <2>1 DEF Reconcile, Exhausted
  <2>2. ASSUME NEW p \in Pumps, FinishDelivery(p)
        PROVE  outbox[m].attempts >= MaxAttempts
    <3>1. /\ m = pump[p].msg /\ OwnsDelivery(p, m)
          /\ pump[p].attempts >= MaxAttempts /\ pump[p].pc = "finishing"
      BY <1>1, <2>2 DEF FinishDelivery
    <3> QED
      BY <1>1, <3>1 DEF IInv, AttemptInv, OwnsDelivery
  <2> QED
    BY <1>1, <2>1, <2>2 DEF Next, WorkerStep, DeliveryNext, PumpStep, vars, deliveryVars,
       Enqueue, Replay, LoseHint, DeliveryLeaseLapses, BackoffEnds, PublicationAges, Ripen,
       ClaimDelivery, EndRun, Publish, CrashPump, ExecutionLeaseLapses, ClockSetBack,
       ReceiveHint, ClaimExecution, StartHandler, Complete, HandlerFails, Release, Renew,
       CommitProgress, CrashWorker
<1>2. IInv /\ [Next]_vars =>
        [\A m \in dead' \ dead : outbox[m].attempts >= MaxAttempts]_vars
  BY <1>1
<1> QED
  BY <1>2, Invariance, PTL DEF Spec, GivenUpAfterAttempts

--------------------------------------------------------------------------------
(***************************************************************************)
(* Refinement.  Every step of the implementation is a step of the contract *)
(* or leaves requested, parked and done as they are.                       *)
(***************************************************************************)

LEMMA ParkStep ==
  ASSUME NEW ms \in SUBSET Messages, ms \subseteq Requested, dead' = dead \cup ms,
         UNCHANGED effects, Requested' = Requested
  PROVE  [Contract!Next]_(Contract!contractVars)
BY DEF Contract!Next, Contract!Park, Contract!contractVars, Requested

LEMMA ContractStutter ==
  ASSUME UNCHANGED <<dead, effects>>, Requested' = Requested
  PROVE  [Contract!Next]_(Contract!contractVars)
BY DEF Contract!contractVars, Requested

THEOREM KeepsContract == Spec => ImplementsContract
<1>1. Init => Contract!Init
  BY DEF Init, DeliveryInit, Contract!Init
<1>2. ASSUME IInv, [Next]_vars
      PROVE  [Contract!Next]_(Contract!contractVars)
  <2> USE DEF IInv, TypeInv
  <2>1. CASE \E m \in Messages : Enqueue(m) /\ UNCHANGED taskVars
    <3>1. PICK m \in Messages : Enqueue(m) /\ UNCHANGED taskVars
      BY <2>1
    <3>2. Requested' = Requested \cup {m} /\ m \notin Requested
      <4>1. outbox[m].status = "absent" /\ outbox[m] \in MessageRow
            /\ \E due : outbox' = [outbox EXCEPT ![m] = AsPending(outbox[m], due)]
        BY <1>2, <3>1 DEF Enqueue, TypeOK
      <4>2. outbox'[m].status = "pending"
        BY <1>2, <4>1, RowStatus DEF TypeOK
      <4> QED
        BY <1>2, <4>1, <4>2 DEF Requested, TypeOK
    <3>3. UNCHANGED <<dead, effects>>
      BY <3>1 DEF Enqueue, taskVars
    <3> QED
      BY <3>2, <3>3 DEF Requested, Contract!Next, Contract!Request
  <2>2. CASE ~\E m \in Messages : Enqueue(m) /\ UNCHANGED taskVars
    <3>0. \A m \in Messages : ~Enqueue(m)
      <4> SUFFICES ASSUME NEW m \in Messages, Enqueue(m) PROVE FALSE
        OBVIOUS
      <4>1. outbox[m].status = "absent" /\ outbox[m] \in MessageRow
            /\ \E due : outbox' = [outbox EXCEPT ![m] = AsPending(outbox[m], due)]
        BY <1>2 DEF Enqueue, TypeOK
      <4>2. outbox'[m].status = "pending"
        BY <1>2, <4>1, RowStatus DEF TypeOK
      <4>3. outbox' # outbox
        BY <4>1, <4>2
      <4> QED
        BY <1>2, <2>2, <4>3 DEF Next, WorkerStep, vars, deliveryVars, ReceiveHint,
           ClaimExecution, StartHandler, Complete, HandlerFails, Release, Renew,
           CommitProgress, CrashWorker
    <3>1. Requested' = Requested
      BY <1>2, <3>0, SameRequested
    <3>2. CASE DeliveryNext /\ UNCHANGED taskVars
      <4> UNCHANGED effects
        BY <3>2 DEF taskVars
      <4>1. ASSUME NEW m \in Messages, Replay(m)
            PROVE  [Contract!Next]_(Contract!contractVars)
        <5>1. m \in dead /\ dead' = dead \ {m}
          BY <4>1 DEF Replay, DeadLettered
        <5> QED
          BY <3>1, <5>1 DEF Requested, Contract!Next, Contract!Unpark
      <4>2. ASSUME NEW p \in Pumps, Reconcile(p)
            PROVE  [Contract!Next]_(Contract!contractVars)
        <5> DEFINE ms == {m \in Messages :
              Exhausted(m) \/ (Unacknowledged(m) /\ outbox[m].attempts >= MaxAttempts)}
        <5>1. dead' = dead \cup ms
          BY <4>2 DEF Reconcile
        <5>2. ms \in SUBSET Messages /\ ms \subseteq Requested
          BY DEF Exhausted, Unowned, Unacknowledged, Requested
        <5> HIDE DEF ms
        <5> QED
          BY <3>1, <5>1, <5>2, ParkStep
      <4>3. ASSUME NEW p \in Pumps, FinishDelivery(p)
            PROVE  [Contract!Next]_(Contract!contractVars)
        <5>1. CASE UNCHANGED dead
          BY <3>1, <5>1, ContractStutter
        <5>2. CASE dead' # dead
          <6>1. pump[p].msg \in Messages /\ OwnsDelivery(p, pump[p].msg)
                /\ dead' = dead \cup {pump[p].msg}
            BY <1>2, <4>3, <5>2 DEF FinishDelivery, PumpInv
          <6>2. pump[p].msg \in Requested
            BY <6>1 DEF OwnsDelivery, Requested
          <6>3. {pump[p].msg} \in SUBSET Messages /\ {pump[p].msg} \subseteq Requested
            BY <6>1, <6>2
          <6> QED
            BY <3>1, <6>1, <6>3, ParkStep
        <5> QED
          BY <5>1, <5>2
      <4>4. CASE UNCHANGED dead
        BY <3>1, <4>4, ContractStutter
      <4> QED
        BY <3>0, <3>2, <4>1, <4>2, <4>3, <4>4 DEF DeliveryNext, PumpStep, LoseHint,
           DeliveryLeaseLapses, BackoffEnds, PublicationAges, Ripen, ClaimDelivery, EndRun,
           Publish, CrashPump, ExecutionLeaseLapses, ClockSetBack
    <3>3. ASSUME NEW w \in Workers, Complete(w), LeaseCurrent(w)
          PROVE  [Contract!Next]_(Contract!contractVars)
      <4> DEFINE m == worker[w].msg
      <4>1. m \in Requested /\ m \in Messages
        BY <1>2, <3>3 DEF Complete, RequestInv, Requested
      <4>2. m \notin inbox
        BY <1>2, <3>3 DEF Complete, SafeInv, HeldInv, LeaseCurrent, HoldsLease, AggregateOfWorker
      <4>3. effects[m] = 0
        BY <1>2, <4>1, <4>2 DEF SafeInv, EffectOnce
      <4>4. effects' = [effects EXCEPT ![m] = 1] /\ UNCHANGED dead
        BY <1>2, <3>3, <4>1, <4>3 DEF Complete, TypeOK
      <4> HIDE DEF m
      <4> QED
        BY <3>1, <4>1, <4>3, <4>4 DEF Contract!Next, Contract!Complete, Requested
    <3>4. CASE UNCHANGED <<dead, effects>>
      BY <3>1, <3>4, ContractStutter
    <3> QED
      BY <1>2, <3>2, <3>3, <3>4 DEF Next, WorkerStep, vars, deliveryVars, taskVars, ReceiveHint,
         ClaimExecution, StartHandler, Complete, HandlerFails, Release, Renew, CommitProgress,
         CrashWorker
  <2> QED
    BY <2>1, <2>2
<1> QED
  BY <1>1, <1>2, Invariance, PTL DEF Spec, ImplementsContract, Contract!Spec

--------------------------------------------------------------------------------
(***************************************************************************)
(* The leases.  A row of outbox_execution is shown to the handlers as the  *)
(* lease of its aggregate, and as none once it is released.                *)
(***************************************************************************)

Shown(row) ==
    IF row.expires = "released" THEN [task |-> None, worker |-> None, live |-> FALSE]
    ELSE [task |-> row.msg, worker |-> row.owner, live |-> row.expires = "live"]

Granted == [a \in Aggregates |-> Shown(execution[a])]

\* A row with a deadline was written for a message.
GrantedInv ==
    \A a \in Aggregates : execution[a].expires # "released" => execution[a].msg \in Messages

LEMMA ShownRow ==
  ASSUME NEW row \in Lease
  PROVE  /\ Shown(row).live <=> row.expires = "live"
         /\ row.msg \in Messages /\ row.expires # "released" => Shown(row) # Leases!Free
         /\ Shown(Expiring(row, "released")) = Leases!Free
         /\ row.expires # "released" =>
              /\ Shown(Expiring(row, "live")) = [Shown(row) EXCEPT !.live = TRUE]
              /\ Shown(Expiring(row, "lapsed")) = [Shown(row) EXCEPT !.live = FALSE]
<1>1. row = [msg |-> row.msg, owner |-> row.owner, epoch |-> row.epoch, expires |-> row.expires]
  BY DEF Lease
<1>2. \A state : Expiring(row, state) =
        [msg |-> row.msg, owner |-> row.owner, epoch |-> row.epoch, expires |-> state]
  BY DEF Lease, Expiring
<1>3. Shown(Expiring(row, "released")) = Leases!Free
  BY <1>2 DEF Shown, Leases!Free
<1>4. ASSUME row.expires # "released"
      PROVE  Shown(row) = [task |-> row.msg, worker |-> row.owner, live |-> row.expires = "live"]
  BY <1>4 DEF Shown
<1>5. ASSUME row.expires # "released"
      PROVE  /\ Shown(Expiring(row, "live")) = [Shown(row) EXCEPT !.live = TRUE]
             /\ Shown(Expiring(row, "lapsed")) = [Shown(row) EXCEPT !.live = FALSE]
  <2>1. Shown(Expiring(row, "live")) = [task |-> row.msg, worker |-> row.owner, live |-> TRUE]
    <3> DEFINE e == Expiring(row, "live")
    <3>1. e.expires = "live" /\ e.msg = row.msg /\ e.owner = row.owner
      BY <1>2
    <3>2. (e.expires = "live") = TRUE
      BY <3>1
    <3>3. Shown(e) = [task |-> e.msg, worker |-> e.owner, live |-> e.expires = "live"]
      BY <3>1 DEF Shown
    <3> HIDE DEF e
    <3>4. Shown(e) = [task |-> e.msg, worker |-> e.owner, live |-> TRUE]
      BY <3>2, <3>3
    <3> QED  BY <3>1, <3>4 DEF e
  <2>2. Shown(Expiring(row, "lapsed")) = [task |-> row.msg, worker |-> row.owner, live |-> FALSE]
    <3> DEFINE e == Expiring(row, "lapsed")
    <3>1. e.expires = "lapsed" /\ e.msg = row.msg /\ e.owner = row.owner
      BY <1>2
    <3>2. (e.expires = "live") = FALSE
      BY <3>1
    <3>3. Shown(e) = [task |-> e.msg, worker |-> e.owner, live |-> e.expires = "live"]
      BY <3>1 DEF Shown
    <3> HIDE DEF e
    <3>4. Shown(e) = [task |-> e.msg, worker |-> e.owner, live |-> FALSE]
      BY <3>2, <3>3
    <3> QED  BY <3>1, <3>4 DEF e
  <2> QED  BY <1>4, <1>5, <2>1, <2>2
<1>6. row.msg \in Messages /\ row.expires # "released" => Shown(row) # Leases!Free
  BY <1>4 DEF Leases!Free
<1>7. Shown(row).live <=> row.expires = "live"
  BY DEF Shown
<1> QED  BY <1>3, <1>5, <1>6, <1>7

LEMMA GrantedChanges ==
  ASSUME NEW a \in Aggregates, NEW row, execution \in [Aggregates -> Lease],
         execution' = [execution EXCEPT ![a] = row]
  PROVE  Granted' = [Granted EXCEPT ![a] = Shown(row)]
BY DEF Granted

LEMMA InitGrantedInv == Init => GrantedInv
BY DEF Init, GrantedInv

LEMMA NextGrantedInv == IInv /\ GrantedInv /\ [Next]_vars => GrantedInv'
<1> SUFFICES ASSUME TypeInv, GrantedInv, [Next]_vars, NEW b \in Aggregates,
                    execution'[b].expires # "released"
             PROVE  execution'[b].msg \in Messages
  BY DEF IInv, GrantedInv
<1>0. execution \in [Aggregates -> Lease]
  BY DEF TypeInv, TypeOK
<1>1. CASE UNCHANGED execution
  BY <1>1 DEF GrantedInv
<1>2. ASSUME NEW a \in Aggregates, ExecutionLeaseLapses(a)
      PROVE  execution'[b].msg \in Messages
  BY <1>0, <1>2 DEF ExecutionLeaseLapses, GrantedInv, Expiring, Lease
<1>3. ASSUME ClockSetBack PROVE execution'[b].msg \in Messages
  <2>1. PICK as \in SUBSET Aggregates :
          /\ \A a \in as : execution[a].expires = "lapsed"
          /\ execution' = [a \in Aggregates |->
                             IF a \in as THEN Expiring(execution[a], "live") ELSE execution[a]]
    BY <1>3 DEF ClockSetBack
  <2>2. CASE b \in as
    <3>1. execution'[b].msg = execution[b].msg
      BY <1>0, <2>1, <2>2 DEF Expiring, Lease
    <3> QED  BY <2>1, <2>2, <3>1 DEF GrantedInv
  <2>3. CASE b \notin as
    BY <2>1, <2>3 DEF GrantedInv
  <2> QED  BY <2>2, <2>3
<1>4. ASSUME NEW w \in Workers, ClaimExecution(w)
      PROVE  execution'[b].msg \in Messages
  <2>1. worker[w].msg \in Messages
    BY <1>4 DEF ClaimExecution, TypeInv, WorkerInv
  <2>2. \/ execution'[b].msg = execution[b].msg /\ execution'[b].expires = execution[b].expires
        \/ execution'[b].msg = worker[w].msg
    BY <1>0, <1>4 DEF ClaimExecution
  <2> QED  BY <2>1, <2>2 DEF GrantedInv
<1>5. ASSUME NEW w \in Workers, Release(w)
      PROVE  execution'[b].msg \in Messages
  BY <1>0, <1>5 DEF Release, GrantedInv, Expiring, Lease
<1> QED
  BY <1>1, <1>2, <1>3, <1>4, <1>5 DEF Next, WorkerStep, DeliveryNext, PumpStep, vars,
     deliveryVars, Enqueue, Replay, LoseHint, DeliveryLeaseLapses, BackoffEnds, PublicationAges,
     Ripen, Reconcile, ClaimDelivery, EndRun, Publish, FinishDelivery, CrashPump, ReceiveHint,
     StartHandler, Complete, HandlerFails, Renew, CommitProgress, CrashWorker

LEMMA LeasesStutter ==
  ASSUME UNCHANGED <<dead, inbox>>, Requested' = Requested, Granted' = Granted
  PROVE  [Leases!Next]_(Leases!leasedVars)
BY DEF Leases!leasedVars, Requested, Granted, Shown

LEMMA LeasesPark ==
  ASSUME NEW ms \in SUBSET Messages, ms \subseteq Requested, dead' = dead \cup ms,
         UNCHANGED inbox, Requested' = Requested, Granted' = Granted
  PROVE  [Leases!Next]_(Leases!leasedVars)
<1>1. Leases!Park(ms)
  BY DEF Leases!Park, Requested, Granted, Shown
<1> QED  BY <1>1 DEF Leases!Next

LEMMA LeaseGivenBack ==
  ASSUME NEW a \in Aggregates, NEW row \in Lease, execution \in [Aggregates -> Lease],
         execution' = [execution EXCEPT ![a] = row], row.expires = "released",
         UNCHANGED <<dead, inbox>>, Requested' = Requested
  PROVE  [Leases!Next]_(Leases!leasedVars)
<1>1. Granted' = [Granted EXCEPT ![a] = Leases!Free]
  BY GrantedChanges DEF Shown, Leases!Free
<1>2. Leases!GiveBack(a)
  BY <1>1 DEF Leases!GiveBack, Requested, Granted, Shown
<1> QED  BY <1>2 DEF Leases!Next

\* A producer's, a pump's or the operator's step, or one of the clock.
LEMMA DeliveryLeases ==
  ASSUME IInv, GrantedInv, DeliveryNext, UNCHANGED taskVars
  PROVE  [Leases!Next]_(Leases!leasedVars)
<1> USE DEF IInv, TypeInv, TypeOK
<1>0. [Next]_vars
  BY DEF Next
<1>1. ASSUME NEW m \in Messages, Enqueue(m)
      PROVE  [Leases!Next]_(Leases!leasedVars)
  <2>1. Requested' = Requested \cup {m}
    <3>1. outbox'[m].status = "pending"
      BY <1>1, RowStatus DEF Enqueue
    <3> QED  BY <1>1, <3>1 DEF Enqueue, Requested
  <2>2. UNCHANGED <<dead, inbox>> /\ Granted' = Granted
    BY <1>1 DEF Enqueue, Granted
  <2>3. Leases!Request({m})
    BY <2>1, <2>2 DEF Leases!Request, Requested, Granted, Shown
  <2> QED  BY <2>3 DEF Leases!Next
<1>2. ASSUME NEW m \in Messages, Replay(m), Requested' = Requested
      PROVE  [Leases!Next]_(Leases!leasedVars)
  <2>1. m \in dead /\ dead' = dead \ {m} /\ UNCHANGED inbox /\ Granted' = Granted
    BY <1>2 DEF Replay, DeadLettered, Granted
  <2>2. Leases!Unpark(m)
    BY <1>2, <2>1 DEF Leases!Unpark, Requested, Granted, Shown
  <2> QED  BY <2>2 DEF Leases!Next
<1>3. ASSUME NEW p \in Pumps, Reconcile(p), Requested' = Requested
      PROVE  [Leases!Next]_(Leases!leasedVars)
  <2> DEFINE ms == {m \in Messages :
        Exhausted(m) \/ (Unacknowledged(m) /\ outbox[m].attempts >= MaxAttempts)}
  <2>1. dead' = dead \cup ms /\ UNCHANGED inbox /\ Granted' = Granted
    BY <1>3 DEF Reconcile, Granted
  <2>2. ms \in SUBSET Messages /\ ms \subseteq Requested
    BY DEF Exhausted, Unowned, Unacknowledged, Requested
  <2> HIDE DEF ms
  <2> QED  BY <1>3, <2>1, <2>2, LeasesPark
<1>4. ASSUME NEW p \in Pumps, FinishDelivery(p), Requested' = Requested
      PROVE  [Leases!Next]_(Leases!leasedVars)
  <2>1. UNCHANGED inbox /\ Granted' = Granted
    BY <1>4 DEF FinishDelivery, Granted
  <2>2. CASE UNCHANGED dead
    BY <1>4, <2>1, <2>2, LeasesStutter
  <2>3. CASE dead' # dead
    <3>1. pump[p].msg \in Messages /\ OwnsDelivery(p, pump[p].msg)
          /\ dead' = dead \cup {pump[p].msg}
      BY <1>4, <2>3 DEF FinishDelivery, PumpInv
    <3>2. {pump[p].msg} \in SUBSET Messages /\ {pump[p].msg} \subseteq Requested
      BY <3>1 DEF OwnsDelivery, Requested
    <3> QED  BY <1>4, <2>1, <3>1, <3>2, LeasesPark
  <2> QED  BY <2>2, <2>3
<1>5. ASSUME NEW a \in Aggregates, ExecutionLeaseLapses(a), Requested' = Requested
      PROVE  [Leases!Next]_(Leases!leasedVars)
  <2>1. /\ execution[a] \in Lease /\ execution[a].expires = "live"
        /\ execution' = [execution EXCEPT ![a] = Expiring(execution[a], "lapsed")]
        /\ UNCHANGED <<dead, inbox>>
    BY <1>5 DEF ExecutionLeaseLapses
  <2>2. Granted' = [Granted EXCEPT ![a] = Shown(Expiring(execution[a], "lapsed"))]
    BY <2>1, GrantedChanges
  <2>3. Granted[a] = Shown(execution[a])
    BY DEF Granted
  <2>4. Granted[a].live /\ Granted' = [Granted EXCEPT ![a].live = FALSE]
    BY <2>1, <2>2, <2>3, ShownRow
  <2>5. Leases!Lapse(a)
    BY <1>5, <2>1, <2>4 DEF Leases!Lapse, Requested, Granted, Shown
  <2> QED  BY <2>5 DEF Leases!Next
<1>6. ASSUME ClockSetBack, Requested' = Requested
      PROVE  [Leases!Next]_(Leases!leasedVars)
  <2>1. PICK as \in SUBSET Aggregates :
          /\ \A a \in as : execution[a].expires = "lapsed"
          /\ execution' = [a \in Aggregates |->
                             IF a \in as THEN Expiring(execution[a], "live") ELSE execution[a]]
    BY <1>6 DEF ClockSetBack
  <2>2. UNCHANGED <<dead, inbox>>
    BY <1>6 DEF ClockSetBack
  <2>3. \A a \in as : Granted[a] # Leases!Free
    <3> SUFFICES ASSUME NEW a \in as PROVE Granted[a] # Leases!Free
      OBVIOUS
    <3>1. execution[a] \in Lease /\ execution[a].msg \in Messages
      BY <2>1 DEF GrantedInv
    <3>2. Granted[a] = Shown(execution[a])
      BY DEF Granted
    <3>3. execution[a].expires = "lapsed"
      BY <2>1
    <3>4. Shown(execution[a]) # Leases!Free
      BY <3>1, <3>3, ShownRow
    <3> QED  BY <3>2, <3>4
  <2>4. ASSUME NEW a \in Aggregates
        PROVE  Shown(execution'[a]) = IF a \in as THEN [Granted[a] EXCEPT !.live = TRUE]
                                      ELSE Granted[a]
    BY <2>1, ShownRow DEF Granted
  <2>5. Granted' = [a \in Aggregates |-> IF a \in as THEN [Granted[a] EXCEPT !.live = TRUE]
                                         ELSE Granted[a]]
    <3>1. Granted' = [a \in Aggregates |-> Shown(execution'[a])]
      BY DEF Granted
    <3> QED  BY <2>4, <3>1
  <2>6. Leases!Regain(as)
    BY <1>6, <2>2, <2>3, <2>5 DEF Leases!Regain, Leases!Free, Requested, Granted, Shown
  <2> QED  BY <2>6 DEF Leases!Next
<1>7. CASE UNCHANGED <<dead, inbox, execution>> /\ Requested' = Requested
  <2>1. Granted' = Granted
    BY <1>7 DEF Granted
  <2> QED  BY <1>7, <2>1, LeasesStutter
<1>8. CASE \A m \in Messages : ~Enqueue(m)
  <2>1. Requested' = Requested
    BY <1>0, <1>8, SameRequested
  <2> QED
    BY <1>2, <1>3, <1>4, <1>5, <1>6, <1>7, <1>8, <2>1 DEF DeliveryNext, PumpStep, LoseHint,
       DeliveryLeaseLapses, BackoffEnds, PublicationAges, Ripen, ClaimDelivery, EndRun,
       Publish, CrashPump
<1> QED  BY <1>1, <1>8

\* A worker's step.
LEMMA WorkerLeases ==
  ASSUME IInv, [Next]_vars, Requested' = Requested, NEW w \in Workers, WorkerStep(w)
  PROVE  [Leases!Next]_(Leases!leasedVars)
<1> USE DEF IInv, TypeInv, TypeOK
<1>m. PICK m \in Messages : m = worker[w].msg
  BY DEF WorkerStep, ClaimExecution, StartHandler, Complete, HandlerFails, Release, WorkerInv
<1> DEFINE a == AggregateOf[m]
<1>0. m = worker[w].msg /\ m \in Requested /\ a \in Aggregates
  BY <1>m DEF WorkerStep, ClaimExecution, StartHandler, Complete, HandlerFails, Release,
     WorkerInv, RequestInv
<1>1. CASE UNCHANGED <<dead, inbox, execution>>
  <2>1. Granted' = Granted
    BY <1>1 DEF Granted
  <2> QED  BY <1>1, <2>1, LeasesStutter
<1>2. CASE ClaimExecution(w) /\ execution' # execution
  <2> DEFINE row == [msg |-> m, owner |-> w, epoch |-> execution[a].epoch + 1,
                     expires |-> IF m \in inbox THEN "released" ELSE "live"]
  <2>1. /\ execution[a].expires # "live" /\ UNCHANGED <<dead, inbox>>
        /\ execution' = [execution EXCEPT ![a] = row]
    BY <1>0, <1>2 DEF ClaimExecution, AggregateOfWorker
  <2>2. row \in Lease
    BY <1>0 DEF Lease
  <2>3. CASE m \in inbox
    <3>1. row.expires = "released"
      BY <2>3
    <3> HIDE DEF row
    <3> QED  BY <1>0, <2>1, <2>2, <3>1, LeaseGivenBack
  <2>4. CASE m \notin inbox
    <3>1. ~Granted[a].live
      BY <1>0, <2>1, ShownRow DEF Granted
    <3>2. Shown(row) = [task |-> m, worker |-> w, live |-> TRUE]
      <4>1. row.expires = "live" /\ row.msg = m /\ row.owner = w
        BY <2>4
      <4> HIDE DEF row
      <4>2. (row.expires = "live") = TRUE
        BY <4>1
      <4>3. Shown(row) = [task |-> row.msg, worker |-> row.owner, live |-> row.expires = "live"]
        BY <4>1 DEF Shown
      <4>4. Shown(row) = [task |-> row.msg, worker |-> row.owner, live |-> TRUE]
        BY <4>2, <4>3
      <4> QED  BY <4>1, <4>4
    <3>3. Granted' = [Granted EXCEPT ![a] = [task |-> m, worker |-> w, live |-> TRUE]]
      <4> HIDE DEF row
      <4> QED  BY <1>0, <2>1, <3>2, GrantedChanges
    <3>4. Leases!Take(w, m)
      BY <1>0, <2>1, <2>4, <3>1, <3>3 DEF Leases!Take, Requested, Granted, Shown
    <3>5. \E v \in Workers, t \in Messages : Leases!Take(v, t)
      BY <1>0, <3>4
    <3> QED  BY <3>5 DEF Leases!Next
  <2> QED  BY <2>3, <2>4
<1>3. CASE Complete(w) /\ inbox' # inbox
  <2>1. /\ LeaseCurrent(w) /\ worker[w].pc = "running" /\ inbox' = inbox \cup {m}
        /\ UNCHANGED <<dead, execution>>
    BY <1>0, <1>3 DEF Complete
  <2>2. execution[a].msg = m /\ execution[a].owner = w /\ execution[a].expires = "live"
    BY <1>0, <2>1 DEF LeaseCurrent, HoldsLease, AggregateOfWorker
  <2>3. m \notin inbox
    BY <1>0, <2>1 DEF SafeInv, HeldInv, LeaseCurrent, HoldsLease, AggregateOfWorker
  <2>4. Granted[a] = [task |-> m, worker |-> w, live |-> TRUE]
    <3>1. (execution[a].expires = "live") = TRUE
      BY <2>2
    <3>2. Granted[a] = [task |-> execution[a].msg, worker |-> execution[a].owner,
                        live |-> execution[a].expires = "live"]
      BY <1>0, <2>2 DEF Granted, Shown
    <3>3. Granted[a] = [task |-> execution[a].msg, worker |-> execution[a].owner, live |-> TRUE]
      BY <3>1, <3>2
    <3> QED  BY <2>2, <3>3
  <2>5. Granted' = Granted
    BY <2>1 DEF Granted
  <2>6. Leases!Commit(w, m, {})
    BY <1>0, <2>1, <2>3, <2>4, <2>5
       DEF Leases!Commit, Leases!Holds, Requested, Granted, Shown
  <2> QED  BY <1>0, <2>6 DEF Leases!Next
<1>4. CASE Release(w) /\ execution' # execution
  <2> DEFINE row == Expiring(execution[a], "released")
  <2>1. UNCHANGED <<dead, inbox>> /\ execution' = [execution EXCEPT ![a] = row]
    BY <1>0, <1>4 DEF Release, AggregateOfWorker
  <2>2. row \in Lease
    BY <1>0, LeaseTypes
  <2>3. row.expires = "released"
    BY <1>0 DEF Expiring, Lease
  <2> HIDE DEF row
  <2> QED  BY <1>0, <2>1, <2>2, <2>3, LeaseGivenBack
<1> QED
  BY <1>1, <1>2, <1>3, <1>4 DEF WorkerStep, deliveryVars, ClaimExecution, StartHandler, Complete,
     HandlerFails, Release

\* Handlers find what LeasedTasks promises: a task is taken once it is requested and while
\* nobody else has the lease, a lease ends at any time, and only its holder acknowledges
\* the task, which nobody has acknowledged before.
THEOREM KeepsLeases == Spec => ImplementsLeases
<1>1. Init => Leases!Init
  <2> SUFFICES ASSUME Init PROVE Leases!Init
    OBVIOUS
  <2>1. Granted = [a \in Aggregates |-> Leases!Free]
    BY DEF Init, Granted, Shown, Leases!Free
  <2> QED  BY <2>1 DEF Init, DeliveryInit, Leases!Init, Leases!Free, Granted, Shown
<1>2. ASSUME IInv, GrantedInv, [Next]_vars
      PROVE  [Leases!Next]_(Leases!leasedVars)
  <2>1. CASE DeliveryNext /\ UNCHANGED taskVars
    BY <1>2, <2>1, DeliveryLeases
  <2>2. ASSUME UNCHANGED <<dead, inbox, execution, outbox>>
        PROVE  [Leases!Next]_(Leases!leasedVars)
    BY <2>2, LeasesStutter DEF Requested, Granted
  <2>3. ASSUME NEW w \in Workers, WorkerStep(w)
        PROVE  [Leases!Next]_(Leases!leasedVars)
    <3>1. UNCHANGED outbox
      BY <2>3 DEF WorkerStep, deliveryVars, ClaimExecution, StartHandler, Complete, HandlerFails,
         Release
    <3> QED  BY <1>2, <2>3, <3>1, WorkerLeases DEF Requested
  <2> QED
    BY <1>2, <2>1, <2>2, <2>3 DEF Next, vars, deliveryVars, taskVars, ReceiveHint, Renew,
       CommitProgress, CrashWorker
<1>3. Spec => []GrantedInv
  BY InitGrantedInv, NextGrantedInv, Invariance, PTL DEF Spec
<1> QED
  BY <1>1, <1>2, <1>3, Invariance, PTL DEF Spec, ImplementsLeases, Leases!Spec

================================================================================
