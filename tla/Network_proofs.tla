------------------------------ MODULE Network_proofs ------------------------------
(* What the service does over the network, for any number of documents, workers,        *)
(* fetches, objects, writers and reports: a record says "succeeded" only of what was     *)
(* received, no slot is lost and no header leaves its site, what is reported as a        *)
(* candidate had no row when it was listed, and a batch that succeeded is whole.         *)
EXTENDS Distribution, Fetching, Collecting, ArtifactInventory, WellFoundedInduction,
        FiniteSetTheorems, TLAPS

\* A set of natural numbers that is not empty has a least one.
LEMMA LeastNatural ==
    ASSUME NEW S \in SUBSET Nat, S # {}
    PROVE  \E n \in S : \A m \in S : n <= m
<1> DEFINE R == OpToRel(<, Nat)
<1>1. IsWellFoundedOn(R, Nat)
  BY NatLessThanWellFounded
<1>2. PICK n \in S : \A y \in S : ~(<<y, n>> \in R)
  BY <1>1, WFMin
<1>3. \A y \in S : ~(y < n)
  BY <1>2 DEF OpToRel
<1>. QED BY <1>3

(* Delivering documents to the knowledge app.                                       *)

Record == [status : Statuses \cup {"absent"}, retries : Generations]

Sender == [pc : {"idle", "entering", "sending", "settling", "committing"},
           command : Commands \cup {None}, retries : Generations,
           result : {None, "pending", "failed", "succeeded"}]

DistributionTypeInv ==
    /\ record \in [Records -> Record]
    /\ sender \in [Workers -> Sender]
    /\ requested \subseteq Commands
    /\ lease \in [Records -> Delivery!Lease]

\* What a worker carries from step to step: a POST that succeeded was received, and while
\* the lease is its own and nobody has edited it, the record is as the worker has left it.
SenderInv(w) ==
    sender[w].pc # "idle" =>
      /\ sender[w].command \in Commands
      /\ sender[w].pc = "settling" =>
           /\ sender[w].result \in {"pending", "failed", "succeeded"}
           /\ sender[w].result = "succeeded" => Target(w) \in received
      /\ Target(w) \notin raced /\ sender[w].pc \in {"sending", "settling"} /\ HasLease(w) =>
           record[Target(w)] = [status |-> "running", retries |-> sender[w].retries]

DistributionInv ==
    /\ DistributionTypeInv
    /\ \A w \in Workers : SenderInv(w)
    /\ SucceededIsReceived
    /\ HistoryCoversCommands

--------------------------------------------------------------------------------------
(* Leases.                                                                               *)

\* The lease a worker needs is that of the record.
LEMMA LeaseOf ==
    ASSUME NEW w, NEW t \in Commands
    PROVE  /\ Delivery!Holds(w, t) <=> lease[t[1]] = [task |-> t, worker |-> w, live |-> TRUE]
           /\ Delivery!Holds(w, t)' <=> lease'[t[1]] = [task |-> t, worker |-> w, live |-> TRUE]
BY DEF Delivery!Holds

\* Two workers do not hold the lease of one record.
LEMMA OneHolder ==
    ASSUME NEW w \in Workers, NEW q \in Workers,
           sender[w].command \in Commands, sender[q].command \in Commands,
           HasLease(w), HasLease(q), Target(w) = Target(q)
    PROVE  w = q
<1>1. /\ lease[Target(w)] = [task |-> sender[w].command, worker |-> w, live |-> TRUE]
      /\ lease[Target(q)] = [task |-> sender[q].command, worker |-> q, live |-> TRUE]
  BY LeaseOf DEF HasLease, Target
<1> QED  BY <1>1

\* A lease that is given up is nobody's, and no other is gained by it.
LEMMA LeaseGoes ==
    ASSUME DistributionInv, NEW d \in Records, Delivery!GiveBack(d)
    PROVE  /\ lease' \in [Records -> Delivery!Lease]
           /\ \A w \in Workers, t \in Commands : Delivery!Holds(w, t)' => Delivery!Holds(w, t)
<1>1. lease' = [lease EXCEPT ![d] = Delivery!Free]
  BY DEF Delivery!GiveBack
<1>2. Delivery!Free \in Delivery!Lease /\ ~Delivery!Free.live
  BY DEF Delivery!Free, Delivery!Lease
<1>3. lease' \in [Records -> Delivery!Lease]
  BY <1>1, <1>2 DEF DistributionInv, DistributionTypeInv
<1>4. ASSUME NEW w \in Workers, NEW t \in Commands, Delivery!Holds(w, t)'
      PROVE  Delivery!Holds(w, t)
  <2>1. t[1] \in Records /\ lease'[t[1]].live
    <3>1. lease'[t[1]] = [task |-> t, worker |-> w, live |-> TRUE]
      BY <1>4, LeaseOf
    <3> QED  BY <3>1 DEF Commands
  <2>2. lease'[t[1]] = lease[t[1]]
    BY <1>1, <1>2, <2>1 DEF DistributionInv, DistributionTypeInv
  <2> QED  BY <1>4, <2>2, LeaseOf
<1> QED  BY <1>3, <1>4

\* A lease that is taken was free before: the other ones stay as they are.
LEMMA LeaseTaken ==
    ASSUME DistributionInv, NEW w \in Workers, NEW t \in Commands, Delivery!Take(w, t)
    PROVE  /\ lease' \in [Records -> Delivery!Lease]
           /\ \A q \in Workers \ {w}, u \in Commands :
                Delivery!Holds(q, u)' => Delivery!Holds(q, u)
<1>1. t[1] \in Records /\ [x \in Commands |-> x[1]][t] = t[1]
  BY DEF Commands
<1> DEFINE new == [task |-> t, worker |-> w, live |-> TRUE]
<1>2. lease' = [lease EXCEPT ![t[1]] = new]
  BY <1>1 DEF Delivery!Take
<1>3. new \in Delivery!Lease
  BY DEF Delivery!Lease
<1>4. lease' \in [Records -> Delivery!Lease]
  BY <1>1, <1>2, <1>3 DEF DistributionInv, DistributionTypeInv
<1>5. ASSUME NEW q \in Workers \ {w}, NEW u \in Commands, Delivery!Holds(q, u)'
      PROVE  Delivery!Holds(q, u)
  <2>1. u[1] \in Records /\ lease'[u[1]] = [task |-> u, worker |-> q, live |-> TRUE]
    BY <1>5, LeaseOf DEF Commands
  <2>2. u[1] # t[1]
    BY <1>1, <1>2, <2>1 DEF DistributionInv, DistributionTypeInv
  <2>3. lease'[u[1]] = lease[u[1]]
    BY <1>2, <2>1, <2>2 DEF DistributionInv, DistributionTypeInv
  <2> QED  BY <2>1, <2>3, LeaseOf
<1> QED  BY <1>4, <1>5

--------------------------------------------------------------------------------------
(* What a step may do to the workers that do not take it.                                *)

LEMMA OthersKeep ==
    ASSUME DistributionInv, NEW w,
           received \subseteq received', raced \subseteq raced',
           \A q \in Workers \ {w} :
             /\ sender'[q] = sender[q]
             /\ \A t \in Commands : Delivery!Holds(q, t)' => Delivery!Holds(q, t)
             /\ Target(q) \notin raced' /\ sender[q].pc \in {"sending", "settling"} /\ HasLease(q) =>
                  record'[Target(q)] = record[Target(q)]
    PROVE  \A q \in Workers \ {w} : SenderInv(q)'
<1> SUFFICES ASSUME NEW q \in Workers \ {w}, sender[q].pc # "idle"
             PROVE  SenderInv(q)'
  BY DEF SenderInv
<1>1. SenderInv(q) /\ sender'[q] = sender[q] /\ sender[q].command \in Commands
  BY DEF DistributionInv, SenderInv
<1>2. HasLease(q)' => HasLease(q)
  BY <1>1 DEF HasLease
<1>3. Target(q)' = Target(q)
  BY <1>1 DEF Target
<1> QED  BY <1>1, <1>2, <1>3 DEF SenderInv

--------------------------------------------------------------------------------------
(* The steps.                                                                            *)

\* A record is written by an HTTP operation: what was requested stays covered.
LEMMA OperationsKeep ==
    ASSUME DistributionInv, NEW d \in Records,
           \/ \E dispatch \in BOOLEAN : Create(d, dispatch)
           \/ \E given \in Statuses : UpdateStatus(d, given)
           \/ Retry(d)
           \/ RequestDispatch(d)
    PROVE  DistributionInv'
<1> USE DEF DistributionInv
<1>1. /\ UNCHANGED <<received, sender, lease>>
      /\ raced \subseteq raced'
  BY DEF Create, UpdateStatus, Retry, RequestDispatch, Command, Delivery!Request, deliveryVars
<1>3. record[d] \in Record
  BY DEF DistributionTypeInv
\* how the record and the commands move
<1>4. ASSUME record' \in [Records -> Record],
             \A e \in Records \ {d} : record'[e] = record[e],
             record[d].retries <= record'[d].retries,
             \/ record'[d] = record[d] \/ record[d].status # "running"
             \/ ~InFlight(d) \/ d \in raced',
             record'[d].status = "succeeded" =>
               d \in edited' \/ (record[d].status = "succeeded" /\ edited' = edited),
             \A e \in Records \ {d} : e \in edited => e \in edited',
             requested' = requested \/ requested' = requested \cup {<<d, record'[d].retries>>}
      PROVE  DistributionInv'
  <2>1. requested' \subseteq Commands
    BY <1>4 DEF DistributionTypeInv, Commands, Record
  <2>2. DistributionTypeInv'
    BY <1>1, <1>4, <2>1 DEF DistributionTypeInv
  <2>3. \A q \in Workers : SenderInv(q)'
    <3>1. \A q \in Workers, t \in Commands : Delivery!Holds(q, t)' => Delivery!Holds(q, t)
      BY <1>1, LeaseOf
    <3>2. ASSUME NEW q \in Workers, Target(q) \notin raced', sender[q].pc \in {"sending", "settling"},
                 HasLease(q)
          PROVE  record'[Target(q)] = record[Target(q)]
      <4>1. record[Target(q)].status = "running" /\ Target(q) \in Records
        <5>1. /\ record[Target(q)] = [status |-> "running", retries |-> sender[q].retries]
              /\ sender[q].command \in Commands
          BY <1>1, <3>2, SMT DEF SenderInv
        <5> QED  BY <5>1 DEF Target, Commands
      <4>2. CASE Target(q) = d
        <5>1. InFlight(d)
          BY <3>2, <4>2 DEF InFlight
        <5> QED  BY <1>4, <3>2, <4>1, <4>2, <5>1
      <4>3. CASE Target(q) # d
        BY <1>4, <4>1, <4>3
      <4> QED  BY <4>2, <4>3
    <3>3. \A q \in Workers \ {None} : SenderInv(q)'
      BY <1>1, <3>1, <3>2, OthersKeep
    <3> QED  BY <3>3, NoneAssumption
  <2>4. SucceededIsReceived'
    BY <1>1, <1>4 DEF SucceededIsReceived
  <2>5. HistoryCoversCommands'
    <3> SUFFICES ASSUME NEW t \in requested', t[1] \notin raced'
                 PROVE  t[2] <= record'[t[1]].retries
      BY DEF HistoryCoversCommands
    <3>1. /\ record[d].retries \in Nat /\ record'[d].retries \in Nat
          /\ record[d].retries <= record'[d].retries
      BY <1>3, <1>4 DEF Record, Generations
    <3>2. CASE t \in requested
      <4>1. t[1] \in Records /\ t[2] \in Nat /\ t[2] <= record[t[1]].retries
        BY <1>1, <3>2 DEF DistributionTypeInv, HistoryCoversCommands, Commands, Generations
      <4>2. CASE t[1] = d
        BY <3>1, <4>1, <4>2
      <4>3. CASE t[1] # d
        BY <1>4, <4>1, <4>3
      <4> QED  BY <4>2, <4>3
    <3>3. CASE t = <<d, record'[d].retries>>
      BY <3>1, <3>3
    <3> QED  BY <1>4, <3>2, <3>3
  <2> QED  BY <2>2, <2>3, <2>4, <2>5
<1>5. ASSUME NEW dispatch \in BOOLEAN, Create(d, dispatch)
      PROVE  DistributionInv'
  <2>1. CASE record[d].status = "absent"
    <3>1. /\ record' = [record EXCEPT ![d].status = "pending"] /\ edited' = edited
          /\ requested' = requested \/ requested' = requested \cup {<<d, record[d].retries>>}
      BY <1>5, <2>1 DEF Create, Command, Delivery!Request, deliveryVars
    <3>2. /\ record' \in [Records -> Record] /\ record'[d].retries = record[d].retries
          /\ record'[d].status = "pending"
          /\ \A e \in Records \ {d} : record'[e] = record[e]
      BY <3>1 DEF DistributionTypeInv, Record, Statuses
    <3> QED  BY <1>3, <1>4, <2>1, <3>1, <3>2 DEF Record, Generations
  <2>2. CASE record[d].status # "absent"
    <3>1. /\ UNCHANGED <<record, edited>>
          /\ requested' = requested \/ requested' = requested \cup {<<d, record[d].retries>>}
      BY <1>5, <2>2 DEF Create, Command, Delivery!Request, deliveryVars
    <3> QED  BY <1>3, <1>4, <3>1 DEF Record, Generations, DistributionTypeInv
  <2> QED  BY <2>1, <2>2
<1>6. ASSUME NEW given \in Statuses, UpdateStatus(d, given)
      PROVE  DistributionInv'
  <2>1. /\ record' = [record EXCEPT ![d].status = given] /\ edited' = edited \cup {d}
        /\ InFlight(d) => d \in raced'
        /\ requested' = requested
    BY <1>6 DEF UpdateStatus, deliveryVars
  <2>2. /\ record' \in [Records -> Record] /\ record'[d].retries = record[d].retries
        /\ \A e \in Records \ {d} : record'[e] = record[e]
    BY <2>1 DEF DistributionTypeInv, Record
  <2>3. record[d].retries <= record'[d].retries
    BY <1>3, <2>2 DEF Record, Generations
  <2> QED  BY <1>4, <2>1, <2>2, <2>3
<1>7. CASE Retry(d)
  <2> DEFINE generation == record[d].retries + 1
  <2>1. /\ record' = [record EXCEPT ![d] = [status |-> "pending", retries |-> generation]]
        /\ record[d].status = "failed" /\ generation <= MaxRetries
        /\ edited' = edited \ {d}
        /\ requested' = requested \cup {<<d, generation>>}
    BY <1>7 DEF Retry, Command, Delivery!Request
  <2>2. generation \in Generations /\ record[d].retries <= generation
    BY <1>3, <2>1, BoundAssumption DEF Record, Generations
  <2> HIDE DEF generation
  <2>3. /\ record' \in [Records -> Record] /\ record'[d].retries = generation
        /\ record'[d].status = "pending"
        /\ \A e \in Records \ {d} : record'[e] = record[e]
    BY <2>1, <2>2 DEF DistributionTypeInv, Record, Statuses
  <2> QED  BY <1>4, <2>1, <2>2, <2>3
<1>8. CASE RequestDispatch(d)
  <2>1. /\ UNCHANGED <<record, edited>>
        /\ requested' = requested \cup {<<d, record[d].retries>>}
    BY <1>8 DEF RequestDispatch, Command, Delivery!Request
  <2> QED  BY <1>3, <1>4, <2>1 DEF Record, Generations, DistributionTypeInv
<1> QED  BY <1>5, <1>6, <1>7, <1>8

\* What is left to show of a step of a worker.
LEMMA WorkerKeeps ==
    ASSUME DistributionInv, NEW w \in Workers, NEW row \in Sender,
           sender' = [sender EXCEPT ![w] = row],
           UNCHANGED <<requested, lease, raced>>, received \subseteq received',
           \/ UNCHANGED <<record, edited>>
           \/ /\ Target(w) \in Records
              /\ sender[w].command \in Commands /\ HasLease(w)
              /\ record' \in [Records -> Record]
              /\ \A d \in Records \ {Target(w)} : record'[d] = record[d] /\ (d \in edited => d \in edited')
              /\ \/ Target(w) \in raced
                 \/ record'[Target(w)].retries = record[Target(w)].retries
              /\ record'[Target(w)].status = "succeeded" => Target(w) \in received',
           SenderInv(w)'
    PROVE  DistributionInv'
<1> USE DEF DistributionInv
<1>1. DistributionTypeInv'
  BY DEF DistributionTypeInv
<1>2. \A q \in Workers \ {w} : SenderInv(q)'
  <2>1. ASSUME NEW q \in Workers \ {w}
        PROVE  /\ sender'[q] = sender[q]
               /\ \A t \in Commands : Delivery!Holds(q, t)' => Delivery!Holds(q, t)
    BY LeaseOf DEF DistributionTypeInv
  <2>2. ASSUME NEW q \in Workers \ {w}, sender[q].pc \in {"sending", "settling"}, HasLease(q)
        PROVE  record'[Target(q)] = record[Target(q)]
    <3>1. sender[q].command \in Commands /\ Target(q) \in Records
      BY <2>2 DEF SenderInv, Target, Commands
    <3> QED  BY <2>2, <3>1, OneHolder
  <2> QED  BY <2>1, <2>2, OthersKeep
<1>3. SucceededIsReceived'
  BY DEF SucceededIsReceived
<1>4. HistoryCoversCommands'
  <2> SUFFICES ASSUME NEW t \in requested, t[1] \notin raced
               PROVE  t[2] <= record'[t[1]].retries
    BY DEF HistoryCoversCommands
  <2>1. t[1] \in Records /\ t[2] <= record[t[1]].retries
    BY DEF HistoryCoversCommands, DistributionTypeInv, Commands
  <2> QED  BY <2>1
<1> QED  BY <1>1, <1>2, <1>3, <1>4

LEMMA NoSenderInv ==
    /\ NoSender \in Sender /\ NoSender.pc = "idle"
BY BoundAssumption DEF NoSender, Sender, Generations

\* A worker that stops, wherever it is, leaves everything as it is.
LEMMA StopKeeps ==
    ASSUME DistributionInv, NEW w \in Workers, sender' = [sender EXCEPT ![w] = NoSender],
           UNCHANGED <<record, received, edited, raced, requested, lease>>
    PROVE  DistributionInv'
<1>1. sender'[w].pc = "idle"
  BY NoSenderInv DEF DistributionInv, DistributionTypeInv
<1>2. SenderInv(w)'
  BY <1>1 DEF SenderInv
<1> QED  BY <1>2, NoSenderInv, WorkerKeeps

LEMMA StartKeeps ==
    ASSUME DistributionInv, NEW w \in Workers, NEW t \in Commands, StartSending(w, t)
    PROVE  DistributionInv'
<1> USE DEF DistributionInv
<1> DEFINE half == [NoSender EXCEPT !.pc = "entering"]
           row == [half EXCEPT !.command = t]
<1>1. /\ Delivery!Take(w, t) /\ requested' = requested
      /\ UNCHANGED <<record, received, edited, raced>>
      /\ sender' = [sender EXCEPT ![w] = row]
  BY DEF StartSending, recordVars, Delivery!Take
<1>2. row \in Sender /\ row.pc = "entering" /\ row.command = t
  <2>1. half \in Sender /\ half.pc = "entering"
    BY NoSenderInv, Zenon DEF Sender
  <2> HIDE DEF half
  <2> QED  BY <2>1, Zenon DEF Sender
<1> HIDE DEF row
<1>3. sender' \in [Workers -> Sender] /\ sender'[w] = row
      /\ \A q \in Workers \ {w} : sender'[q] = sender[q]
  BY <1>1, <1>2 DEF DistributionTypeInv
<1>4. DistributionTypeInv'
  BY <1>1, <1>3, LeaseTaken DEF DistributionTypeInv
<1>5. \A q \in Workers \ {w} : SenderInv(q)'
  BY <1>1, <1>3, LeaseTaken, OthersKeep
<1>6. SenderInv(w)'
  BY <1>2, <1>3 DEF SenderInv
<1>7. SucceededIsReceived' /\ HistoryCoversCommands'
  BY <1>1 DEF SucceededIsReceived, HistoryCoversCommands
<1> QED  BY <1>4, <1>5, <1>6, <1>7

LEMMA MarkKeeps ==
    ASSUME DistributionInv, NEW w \in Workers, MarkRunning(w)
    PROVE  DistributionInv'
<1> USE DEF DistributionInv
<1> DEFINE d == Target(w)
<1>1. /\ sender[w].pc = "entering" /\ sender[w].command \in Commands /\ d \in Records
      /\ sender[w] \in Sender /\ record[d] \in Record
      /\ UNCHANGED <<received, raced, requested, lease>>
  BY DEF MarkRunning, SenderInv, DistributionTypeInv, Target, Commands, deliveryVars
<1>2. CASE Goto(w, "committing") /\ UNCHANGED <<record, edited>>
  <2> DEFINE row == [sender[w] EXCEPT !.pc = "committing"]
  <2>1. row \in Sender /\ row.pc = "committing" /\ row.command = sender[w].command
    BY <1>1 DEF Sender
  <2>2. sender' = [sender EXCEPT ![w] = row]
    BY <1>2 DEF Goto
  <2> HIDE DEF row
  <2>3. SenderInv(w)'
    BY <1>1, <2>1, <2>2 DEF SenderInv, DistributionTypeInv
  <2> QED  BY <1>1, <1>2, <2>1, <2>2, <2>3, WorkerKeeps
<1>3. CASE /\ HasLease(w)
           /\ record' = [record EXCEPT ![d].status = "running"]
           /\ edited' = edited \ {d}
           /\ sender' = [sender EXCEPT ![w] =
                [@ EXCEPT !.pc = "sending", !.retries = record[d].retries]]
  <2> DEFINE half == [sender[w] EXCEPT !.pc = "sending"]
             row == [half EXCEPT !.retries = record[d].retries]
  <2>1. half \in Sender /\ half.pc = "sending" /\ half.command = sender[w].command
    BY <1>1, Zenon DEF Sender
  <2>2. sender' = [sender EXCEPT ![w] = row]
    BY <1>3
  <2> HIDE DEF half
  <2>3. /\ row \in Sender /\ row.pc = "sending" /\ row.command = sender[w].command
        /\ row.retries = record[d].retries
    <3>1. record[d].retries \in Generations
      BY <1>1 DEF Record
    <3> QED  BY <2>1, <3>1, Zenon DEF Sender
  <2> HIDE DEF row
  <2>4. /\ record' \in [Records -> Record]
        /\ record'[d] = [status |-> "running", retries |-> record[d].retries]
        /\ \A e \in Records \ {d} : record'[e] = record[e]
    BY <1>1, <1>3 DEF DistributionTypeInv, Record, Statuses
  <2>5. sender'[w] = row /\ Target(w)' = d
    BY <2>2, <2>3 DEF DistributionTypeInv, Target
  <2> HIDE DEF d
  <2>6. SenderInv(w)'
    BY <1>1, <2>3, <2>4, <2>5 DEF SenderInv
  <2> USE DEF d
  <2>7. record'[d].status = "running" /\ record'[d].retries = record[d].retries
    BY <2>4
  <2> QED  BY <1>1, <1>3, <2>2, <2>3, <2>4, <2>6, <2>7, WorkerKeeps
<1> QED  BY <1>2, <1>3 DEF MarkRunning

LEMMA SendKeeps ==
    ASSUME DistributionInv, NEW w \in Workers, Send(w)
    PROVE  DistributionInv'
<1> USE DEF DistributionInv
<1> DEFINE d == Target(w)
<1>1. /\ sender[w].pc = "sending" /\ sender[w].command \in Commands
      /\ sender[w] \in Sender /\ HasLease(w) /\ received \subseteq received'
      /\ UNCHANGED <<record, edited, raced, requested, lease>>
  BY DEF Send, SenderInv, DistributionTypeInv, deliveryVars
<1>2. PICK result \in {"pending", "failed", "succeeded"} :
        /\ sender' = [sender EXCEPT ![w] = [@ EXCEPT !.pc = "settling", !.result = result]]
        /\ result = "succeeded" => d \in received'
  BY DEF Send
<1> DEFINE half == [sender[w] EXCEPT !.pc = "settling"]
           row == [half EXCEPT !.result = result]
<1>3. /\ half \in Sender /\ half.pc = "settling" /\ half.command = sender[w].command
      /\ half.retries = sender[w].retries
  BY <1>1, Zenon DEF Sender
<1>4. sender' = [sender EXCEPT ![w] = row]
  BY <1>2
<1> HIDE DEF half
<1>5. /\ row \in Sender /\ row.pc = "settling" /\ row.command = sender[w].command
      /\ row.retries = sender[w].retries /\ row.result = result
  BY <1>3, Zenon DEF Sender
<1> HIDE DEF row
<1>6. sender'[w] = row /\ Target(w)' = d
  BY <1>4, <1>5 DEF DistributionTypeInv, Target
<1>7. SenderInv(w)'
  <2>1. HasLease(w)' => HasLease(w)
    BY <1>1, <1>5, <1>6, LeaseOf DEF HasLease
  <2>2. d \notin raced => record[d] = [status |-> "running", retries |-> sender[w].retries]
    BY <1>1 DEF SenderInv
  <2> HIDE DEF d
  <2> QED  BY <1>1, <1>2, <1>5, <1>6, <2>1, <2>2 DEF SenderInv
<1> QED  BY <1>1, <1>4, <1>5, <1>7, WorkerKeeps

LEMMA SettleKeeps ==
    ASSUME DistributionInv, NEW w \in Workers, Settle(w)
    PROVE  DistributionInv'
<1> USE DEF DistributionInv
<1> DEFINE d == Target(w)
           new == [status |-> sender[w].result, retries |-> sender[w].retries]
<1>1. /\ sender[w].pc = "settling" /\ sender[w].command \in Commands /\ d \in Records
      /\ sender[w] \in Sender /\ HasLease(w)
      /\ record' = [record EXCEPT ![d] = new] /\ edited' = edited \ {d}
      /\ UNCHANGED <<received, raced, requested, lease>>
  BY DEF Settle, SenderInv, DistributionTypeInv, Target, Commands, deliveryVars
<1>2. /\ new \in Record /\ new.retries = sender[w].retries
      /\ new.status = "succeeded" => d \in received
  BY <1>1 DEF SenderInv, Sender, Record, Statuses
<1>3. d \notin raced => record[d].retries = sender[w].retries
  <2>1. d \notin raced => record[d] = [status |-> "running", retries |-> sender[w].retries]
    BY <1>1, SMT DEF SenderInv
  <2> QED  BY <2>1
<1> HIDE DEF new
<1>4. /\ record' \in [Records -> Record] /\ record'[d] = new
      /\ \A e \in Records \ {d} : record'[e] = record[e]
  BY <1>1, <1>2 DEF DistributionTypeInv
<1>5. \E row \in Sender :
        /\ sender' = [sender EXCEPT ![w] = row]
        /\ row.pc \in {"idle", "committing"}
        /\ row.pc = "committing" => row.command = sender[w].command
  <2>1. CASE Goto(w, "committing")
    <3> DEFINE row == [sender[w] EXCEPT !.pc = "committing"]
    <3>1. row \in Sender /\ row.pc = "committing" /\ row.command = sender[w].command
      BY <1>1 DEF Sender
    <3> QED  BY <2>1, <3>1 DEF Goto
  <2>2. CASE sender' = [sender EXCEPT ![w] = NoSender]
    BY <2>2, NoSenderInv
  <2> QED  BY <2>1, <2>2 DEF Settle
<1>6. PICK row \in Sender :
        /\ sender' = [sender EXCEPT ![w] = row]
        /\ row.pc \in {"idle", "committing"}
        /\ row.pc = "committing" => row.command = sender[w].command
  BY <1>5
<1>7. SenderInv(w)'
  BY <1>1, <1>6 DEF SenderInv, DistributionTypeInv
<1> QED  BY <1>1, <1>2, <1>3, <1>4, <1>6, <1>7, WorkerKeeps

LEMMA InitDistributionInv == Init => DistributionInv
<1> SUFFICES ASSUME Init
             PROVE  DistributionInv
  OBVIOUS
<1> USE DEF Init, Delivery!Init
<1>1. record \in [Records -> Record] /\ \A d \in Records : record[d].status = "absent"
  BY BoundAssumption DEF Record, Generations
<1>2. lease \in [Records -> Delivery!Lease]
  BY DEF Delivery!Free, Delivery!Lease
<1>3. DistributionTypeInv
  BY <1>1, <1>2, NoSenderInv DEF DistributionTypeInv
<1>4. \A w \in Workers : SenderInv(w)
  BY DEF SenderInv, NoSender
<1> QED  BY <1>1, <1>3, <1>4 DEF DistributionInv, SucceededIsReceived, HistoryCoversCommands

LEMMA DistributionStep == DistributionInv /\ [Next]_vars => DistributionInv'
<1> SUFFICES ASSUME DistributionInv, [Next]_vars
             PROVE  DistributionInv'
  OBVIOUS
<1>1. CASE UNCHANGED <<recordVars, sender, requested, lease>>
  <2>1. UNCHANGED <<record, received, edited, raced, sender, requested, lease>>
    BY <1>1 DEF recordVars
  <2>2. \A w \in Workers : SenderInv(w)'
    BY <2>1, LeaseOf DEF DistributionInv, SenderInv, HasLease, Target
  <2> QED
    BY <2>1, <2>2 DEF DistributionInv, DistributionTypeInv, SucceededIsReceived, HistoryCoversCommands
<1>2. CASE LeaseEnds
  <2>1. PICK d \in Records : Delivery!GiveBack(d)
    BY <1>2 DEF LeaseEnds
  <2>2. UNCHANGED <<record, received, edited, raced, sender, requested>>
    BY <1>2, <2>1 DEF LeaseEnds, recordVars, Delivery!GiveBack
  <2>3. DistributionTypeInv'
    BY <2>1, <2>2, LeaseGoes DEF DistributionInv, DistributionTypeInv
  <2>4. \A w \in Workers \ {None} : SenderInv(w)'
    BY <2>1, <2>2, LeaseGoes, OthersKeep
  <2>5. \A w \in Workers : SenderInv(w)'
    BY <2>4, NoneAssumption
  <2> QED  BY <2>2, <2>3, <2>5 DEF DistributionInv, SucceededIsReceived, HistoryCoversCommands
<1>3. CASE ParkOrReplay
  BY <1>1, <1>3 DEF ParkOrReplay, Delivery!Park, Delivery!Unpark
<1>4. ASSUME NEW w \in Workers, SenderStep(w)
      PROVE  DistributionInv'
  <2>1. CASE CommitSending(w)
    BY <2>1, StopKeeps DEF CommitSending, recordVars, Delivery!Commit
  <2>2. CASE AbandonSending(w)
    BY <2>2, StopKeeps DEF AbandonSending, recordVars, deliveryVars
  <2> QED  BY <1>4, <2>1, <2>2, MarkKeeps, SendKeeps, SettleKeeps DEF SenderStep
<1>5. CASE UNCHANGED vars
  BY <1>1, <1>5 DEF vars, deliveryVars
<1> QED
  BY <1>2, <1>3, <1>4, <1>5, OperationsKeep, StartKeeps DEF Next

LEMMA DistributionInvariant == Spec => []DistributionInv
BY InitDistributionInv, DistributionStep, PTL DEF Spec

--------------------------------------------------------------------------------------
(* What it is for.                                                                       *)

\* A record says "succeeded" only of what the knowledge app has, or because somebody wrote
\* so: an outcome is written under the lease the POST was made under.
THEOREM OnlyReceivedSucceeds == Spec => []SucceededIsReceived
<1>1. DistributionInv => SucceededIsReceived
  BY DEF DistributionInv
<1> QED  BY <1>1, DistributionInvariant, PTL

\* A worker takes no retry back when it writes the history it read before the POST, unless
\* somebody edited the status during the POST: the record it marked is "running", and can
\* be retried by nobody.
THEOREM RetriesAreKept == Spec => []HistoryCoversCommands
<1>1. DistributionInv => HistoryCoversCommands
  BY DEF DistributionInv
<1> QED  BY <1>1, DistributionInvariant, PTL

--------------------------------------------------------------------------------------
(* Fetching pages.                                                                  *)

Fetch ==
    [pc : {"idle", "target", "resolving", "request", "reading"},
     method : {"GET", "POST"}, url : Urls, hop : Nat,
     headers : SUBSET {"own", "common"}, away : BOOLEAN,
     compressed : BOOLEAN, complete : BOOLEAN,
     received : Nat, content : Nat, largest : Nat]

\* What a fetch is, wherever it is: what was read of a body that is not compressed is
\* what has arrived.
GoodFetch ==
    {s \in Fetch :
      /\ "own" \in s.headers => ~s.away
      /\ s.received <= MaxBytes
      /\ ~s.compressed => s.content = s.received
      /\ s.content <= MaxBytes
      /\ s.largest <= MaxBytes + 1}

FetchesGood == fetch \in [Fetchers -> GoodFetch]

LookupTypeOK ==
    /\ lookup \in [Fetchers -> {"none", "running", "public", "mixed", "empty", "failed"}]
    /\ free \in Nat
    /\ abandoned \in Nat

\* A thread has a caller only while the fetch waits for it.  A fetch that starts a new
\* lookup has none, so the count of the running ones goes up by one.
LookupInv == \A f \in Fetchers : lookup[f] # "none" => fetch[f].pc = "resolving"

FetchInv == FetchesGood /\ LookupTypeOK /\ LookupInv /\ SlotsKept

WaitedFor == {f \in Fetchers : lookup[f] = "running"}

--------------------------------------------------------------------------------------

LEMMA RestIsFetch == AnyUrl \in Urls /\ AtRest \in Fetch
  <1>1. AnyUrl \in Urls
    BY UrlsAssumption DEF AnyUrl
  <1> QED
    BY <1>1, SMT DEF AtRest, Fetch

\* The decoder gives no more than it is asked for, unless it is asked for 0 bytes.
LEMMA DecoderBounded ==
    ASSUME NEW n \in Nat, NEW limit \in Nat \ {0}
    PROVE  Decompress(n, limit) \in Nat /\ Decompress(n, limit) <= limit
  BY SMT DEF Decompress

\* A piece either fits or ends the fetch; in neither case is more than the limit kept.
LEMMA FeedBounded ==
    ASSUME NEW s \in Fetch, NEW n \in Nat,
           s.content <= MaxBytes, s.largest <= MaxBytes + 1
    PROVE  /\ Feed(s, n) \in Fetch
           /\ Feed(s, n).content <= MaxBytes
           /\ Feed(s, n).largest <= MaxBytes + 1
           /\ Feed(s, n).headers = s.headers
           /\ Feed(s, n).away = s.away
           /\ Feed(s, n).compressed = s.compressed
           /\ Feed(s, n).received = s.received
           /\ Feed(s, n).pc \in {s.pc, "idle"}
  <1> DEFINE piece == Decompress(n, MaxBytes - s.content + 1)
  <1>1. MaxBytes \in Nat /\ s.content \in Nat /\ s.largest \in Nat
    BY FetchLimitsAssumption, SMT DEF Fetch
  <1>2. MaxBytes - s.content + 1 \in Nat \ {0}
    BY <1>1, SMT
  <1>3. piece \in Nat /\ piece <= MaxBytes - s.content + 1
    BY <1>2, DecoderBounded
  <1> HIDE DEF piece
  <1> DEFINE l == IF piece > s.largest THEN piece ELSE s.largest
             c == IF piece > MaxBytes - s.content THEN s.content ELSE s.content + piece
             p == IF piece > MaxBytes - s.content THEN "idle" ELSE s.pc
  <1>4. Feed(s, n) = [s EXCEPT !.largest = l, !.content = c, !.pc = p]
    BY SMT DEF Feed, piece, Fetch
  <1>5. /\ l \in Nat /\ l <= MaxBytes + 1
        /\ c \in Nat /\ c <= MaxBytes
    BY <1>1, <1>3, SMT
  <1>6. p \in {s.pc, "idle"}
    OBVIOUS
  <1> HIDE DEF l, c, p
  <1>7. p \in {"idle", "target", "resolving", "request", "reading"}
    BY <1>6, SMT DEF Fetch
  <1>8. [s EXCEPT !.largest = l, !.content = c, !.pc = p] \in Fetch
    BY <1>5, <1>7, Zenon DEF Fetch
  <1> DEFINE t == [s EXCEPT !.largest = l, !.content = c, !.pc = p]
  <1>9. /\ t.content = c /\ t.largest = l /\ t.pc = p
        /\ t.headers = s.headers /\ t.away = s.away
        /\ t.compressed = s.compressed /\ t.received = s.received
    BY SMT DEF Fetch
  <1> QED
    BY <1>4, <1>5, <1>6, <1>8, <1>9, Zenon

--------------------------------------------------------------------------------------
(* Where a fetch goes.                                                                 *)

LEMMA RestIsGood == AtRest \in GoodFetch
  <1>1. AtRest.headers = {} /\ AtRest.received = 0 /\ AtRest.content = 0
        /\ AtRest.largest = 0
    BY DEF AtRest
  <1> QED
    BY <1>1, RestIsFetch, FetchLimitsAssumption, SMT DEF GoodFetch

LEMMA BecomesGood ==
    ASSUME FetchesGood, NEW f \in Fetchers, NEW s \in GoodFetch, Becomes(f, s)
    PROVE  FetchesGood'
  BY Zenon DEF FetchesGood, Becomes

LEMMA StepKeepsGood ==
    ASSUME FetchesGood, NEW f \in Fetchers, FetchStep(f)
    PROVE  FetchesGood'
  <1> USE DEF FetchesGood
  <1>f. fetch[f] \in GoodFetch /\ fetch[f] \in Fetch
    BY Zenon DEF GoodFetch
  <1>s. ASSUME Stops(f) PROVE FetchesGood'
    BY <1>s, RestIsGood, BecomesGood DEF Stops
  <1>u. ASSUME UNCHANGED fetch PROVE FetchesGood'
    BY <1>u, Zenon
  <1>p. ASSUME NEW pc \in {"request", "resolving"}, Becomes(f, [fetch[f] EXCEPT !.pc = pc])
        PROVE  FetchesGood'
    <2>1. [fetch[f] EXCEPT !.pc = pc] \in Fetch
      BY <1>f, Zenon DEF Fetch
    <2>2. [fetch[f] EXCEPT !.pc = pc] \in GoodFetch
      BY <1>f, <2>1, SMT DEF GoodFetch, Fetch
    <2> QED
      BY <1>p, <2>2, BecomesGood
  <1>1. CASE StartFetch(f)
    <2>1. PICK u \in Urls, m \in {"GET", "POST"}, own \in {{}, {"own"}} :
            Becomes(f, [AtRest EXCEPT !.pc = "target", !.url = u, !.method = m,
                                      !.headers = own \cup {"common"}])
      BY <1>1, Zenon DEF StartFetch
    <2> DEFINE h == own \cup {"common"}
               s == [AtRest EXCEPT !.pc = "target", !.url = u, !.method = m, !.headers = h]
    <2>2. h \in SUBSET {"own", "common"}
      OBVIOUS
    <2> HIDE DEF h
    <2>3. s \in Fetch
      BY <2>2, RestIsFetch, Zenon DEF Fetch
    <2>s. s.away = FALSE /\ s.received = 0 /\ s.content = 0 /\ s.largest = 0
      BY DEF AtRest
    <2>4. s \in GoodFetch
      <3> HIDE DEF s
      <3> QED
        BY <2>3, <2>s, FetchLimitsAssumption, SMT DEF GoodFetch
    <2> HIDE DEF s
    <2> QED
      BY <2>1, <2>4, BecomesGood DEF s, h
  <1>2. CASE TargetAddress(f)
    BY <1>2, <1>s, <1>p, Zenon DEF TargetAddress
  <1>3. CASE NoLookup(f)
    BY <1>3, <1>s DEF NoLookup
  <1>4. CASE StartLookup(f)
    BY <1>4, <1>p DEF StartLookup
  <1>5. CASE EndLookup(f)
    BY <1>5, <1>u DEF EndLookup
  <1>6. CASE Deliver(f)
    BY <1>6, <1>s, <1>p, Zenon DEF Deliver
  <1>7. CASE TimeOut(f)
    BY <1>7, <1>s DEF TimeOut
  <1>8. CASE FailRequest(f)
    BY <1>8, <1>s DEF FailRequest
  <1>9. ASSUME NEW u \in Urls, Follow(f, u) PROVE FetchesGood'
    <2> DEFINE h == HeadersFor(fetch[f], u)
               a == fetch[f].away \/ u # fetch[f].url
               s == [fetch[f] EXCEPT !.pc = "target", !.url = u, !.hop = @ + 1,
                                     !.headers = h, !.away = a]
    <2>1. Becomes(f, s)
      BY <1>9, SMT DEF Follow
    <2>2. fetch[f].headers \in SUBSET {"own", "common"} /\ fetch[f].away \in BOOLEAN
          /\ fetch[f].hop + 1 \in Nat
      BY <1>f, SMT DEF Fetch
    <2>3. h \in SUBSET {"own", "common"} /\ a \in BOOLEAN
      BY <2>2, Zenon DEF HeadersFor
    <2>4. "own" \in h => ~a
      BY <1>f, <2>2, SMT DEF HeadersFor, GoodFetch
    <2> HIDE DEF h, a
    <2>5. s \in Fetch
      BY <1>f, <2>2, <2>3, Zenon DEF Fetch
    <2>6. /\ s.headers = h /\ s.away = a
          /\ s.received = fetch[f].received /\ s.content = fetch[f].content
          /\ s.largest = fetch[f].largest /\ s.compressed = fetch[f].compressed
      BY <1>f, Zenon DEF Fetch
    <2> HIDE DEF s
    <2>7. s \in GoodFetch
      BY <1>f, <2>4, <2>5, <2>6, SMT DEF GoodFetch
    <2> QED
      BY <2>1, <2>7, BecomesGood
  <1>10. ASSUME NEW c \in BOOLEAN, Answer(f, c) PROVE FetchesGood'
    <2> DEFINE s == [AtRest EXCEPT !.pc = "reading", !.compressed = c]
    <2>1. s \in Fetch
      BY RestIsFetch, Zenon DEF Fetch
    <2>2. s.headers = {} /\ s.received = 0 /\ s.content = 0 /\ s.largest = 0
      BY DEF AtRest
    <2> HIDE DEF s
    <2>3. s \in GoodFetch
      BY <2>1, <2>2, FetchLimitsAssumption, SMT DEF GoodFetch
    <2> QED
      BY <1>10, <2>3, BecomesGood DEF Answer, s
  <1>11. ASSUME NEW n \in Chunks, NEW m \in Inflated, NEW ends \in BOOLEAN,
                ReadChunk(f, n, m, ends)
         PROVE  FetchesGood'
    <2>n. n \in Nat /\ m \in Nat /\ MaxBytes \in Nat
      BY FetchLimitsAssumption
    <2>r. fetch[f].received \in Nat /\ fetch[f].content \in Nat
      BY <1>f, SMT DEF Fetch
    <2>1. CASE Stops(f)
      BY <2>1, <1>s
    <2>2. CASE /\ n <= MaxBytes - fetch[f].received
               /\ ~fetch[f].complete /\ fetch[f].compressed
               /\ Becomes(f, [Feed(fetch[f], m) EXCEPT !.received = @ + n,
                                                      !.complete = ends])
      <3> DEFINE t == Feed(fetch[f], m)
                 r == t.received + n
                 s == [t EXCEPT !.received = r, !.complete = ends]
      <3>1. /\ t \in Fetch
            /\ t.content <= MaxBytes /\ t.largest <= MaxBytes + 1
            /\ t.headers = fetch[f].headers /\ t.away = fetch[f].away
            /\ t.compressed = fetch[f].compressed /\ t.received = fetch[f].received
        BY <1>f, <2>n, FeedBounded, Zenon DEF GoodFetch
      <3>2. Becomes(f, s)
        BY <2>2, <3>1, Zenon DEF t, Fetch
      <3> HIDE DEF t
      <3>3. r \in Nat /\ r <= MaxBytes
        BY <2>2, <2>n, <2>r, <3>1, SMT
      <3> HIDE DEF r
      <3>4. s \in Fetch
        BY <3>1, <3>3, Zenon DEF Fetch
      <3>5. /\ s.received = r /\ s.content = t.content /\ s.largest = t.largest
            /\ s.headers = t.headers /\ s.away = t.away /\ s.compressed = t.compressed
        BY <3>1, Zenon DEF Fetch
      <3> HIDE DEF s
      <3>6. s.compressed /\ ("own" \in s.headers => ~s.away)
        BY <1>f, <2>2, <3>1, <3>5, Zenon DEF GoodFetch
      <3>7. s \in GoodFetch
        BY <3>1, <3>3, <3>4, <3>5, <3>6, Zenon DEF GoodFetch
      <3> QED
        BY <3>2, <3>7, BecomesGood
    <2>3. CASE /\ n <= MaxBytes - fetch[f].received
               /\ ~fetch[f].complete /\ ~fetch[f].compressed
               /\ Becomes(f, [fetch[f] EXCEPT !.received = @ + n, !.content = @ + n])
      <3> DEFINE r == fetch[f].received + n
                 b == fetch[f].content + n
                 s == [fetch[f] EXCEPT !.received = r, !.content = b]
      <3>1. Becomes(f, s)
        BY <1>f, <2>3, Zenon DEF Fetch
      <3>2. r \in Nat /\ b \in Nat /\ r <= MaxBytes /\ b = r
        BY <1>f, <2>3, <2>n, <2>r, SMT DEF GoodFetch
      <3> HIDE DEF r, b
      <3>3. s \in Fetch
        BY <1>f, <3>2, Zenon DEF Fetch
      <3>4. /\ s.received = r /\ s.content = b /\ s.largest = fetch[f].largest
            /\ s.headers = fetch[f].headers /\ s.away = fetch[f].away
        BY <1>f, Zenon DEF Fetch
      <3> HIDE DEF s
      <3>5. s \in GoodFetch
        BY <1>f, <3>2, <3>3, <3>4, SMT DEF GoodFetch
      <3> QED
        BY <3>1, <3>5, BecomesGood
    <2> QED
      BY <1>11, <2>1, <2>2, <2>3, Zenon DEF ReadChunk
  <1>12. CASE EndBody(f)
    BY <1>12, <1>s DEF EndBody
  <1> QED
    BY <1>1, <1>2, <1>3, <1>4, <1>5, <1>6, <1>7, <1>8, <1>9, <1>10, <1>11, <1>12
       DEF FetchStep

--------------------------------------------------------------------------------------
(* Who holds a slot.                                                                   *)

LEMMA WaitedForFinite == IsFiniteSet(WaitedFor)
  BY FetchersAssumption, FS_Subset DEF WaitedFor

\* One more, or one less, that is waited for.
LEMMA OneMore ==
    ASSUME NEW f \in Fetchers, f \notin WaitedFor, WaitedFor' = WaitedFor \cup {f}
    PROVE  Cardinality(WaitedFor') = Cardinality(WaitedFor) + 1
  BY WaitedForFinite, FS_AddElement

LEMMA OneLess ==
    ASSUME NEW f \in WaitedFor, WaitedFor' = WaitedFor \ {f}
    PROVE  Cardinality(WaitedFor') = Cardinality(WaitedFor) - 1
  BY WaitedForFinite, FS_RemoveElement

LEMMA CountIsNatural == Cardinality(WaitedFor) \in Nat
  BY WaitedForFinite, FS_CardinalityType

SlotInv == LookupTypeOK /\ LookupInv /\ SlotsKept

\* A step that leaves the threads alone, of a fetch that has none.
LEMMA ThreadsAlone ==
    ASSUME SlotInv, FetchesGood, NEW f \in Fetchers, NEW s,
           Becomes(f, s), UNCHANGED <<lookup, free, abandoned>>,
           fetch[f].pc # "resolving"
    PROVE  SlotInv'
  <1>1. lookup[f] = "none"
    BY SMT DEF SlotInv, LookupInv
  <1>2. \A g \in Fetchers \ {f} : fetch'[g] = fetch[g]
    BY Zenon DEF Becomes, FetchesGood
  <1>3. LookupInv'
    BY <1>1, <1>2, Zenon DEF SlotInv, LookupInv
  <1> QED
    BY <1>3, Zenon DEF SlotInv, LookupTypeOK, SlotsKept

LEMMA StepKeepsSlots ==
    ASSUME SlotInv, FetchesGood, NEW f \in Fetchers, FetchStep(f)
    PROVE  SlotInv'
  <1>n. /\ Cardinality(WaitedFor) \in Nat /\ free \in Nat /\ abandoned \in Nat
        /\ free + abandoned + Cardinality(WaitedFor) = Slots
    BY CountIsNatural, Zenon DEF SlotInv, LookupTypeOK, SlotsKept, WaitedFor
  <1>o. ASSUME NEW s, Becomes(f, s)
        PROVE  fetch'[f] = s /\ \A g \in Fetchers \ {f} : fetch'[g] = fetch[g]
    BY <1>o, Zenon DEF Becomes, FetchesGood
  <1>s. ASSUME Stops(f), UNCHANGED <<lookup, free, abandoned>>, fetch[f].pc # "resolving"
        PROVE  SlotInv'
    BY <1>s, ThreadsAlone DEF Stops
  <1>1. CASE StartFetch(f)
    BY <1>1, ThreadsAlone DEF StartFetch, At
  <1>2. CASE TargetAddress(f)
    BY <1>2, <1>s, ThreadsAlone DEF TargetAddress, At
  <1>3. CASE NoLookup(f)
    BY <1>3, <1>s DEF NoLookup, At
  <1>4. CASE StartLookup(f)
    <2>1. lookup[f] = "none"
      BY <1>4, SMT DEF StartLookup, At, SlotInv, LookupInv
    <2>2. f \notin WaitedFor /\ WaitedFor' = WaitedFor \cup {f}
      BY <1>4, <2>1, SMT DEF StartLookup, WaitedFor, SlotInv, LookupTypeOK
    <2>3. LookupTypeOK'
      BY <1>4, <1>n, SMT DEF StartLookup, SlotInv, LookupTypeOK
    <2>4. fetch'[f].pc = "resolving"
      BY <1>4, <1>o, SMT DEF StartLookup, FetchesGood, GoodFetch, Fetch
    <2>5. LookupInv'
      BY <1>4, <1>o, <2>4, SMT DEF StartLookup, SlotInv, LookupInv, LookupTypeOK
    <2>6. SlotsKept'
      BY <1>4, <1>n, <2>2, OneMore, SMT DEF StartLookup, SlotsKept, WaitedFor
    <2> QED
      BY <2>3, <2>5, <2>6 DEF SlotInv
  <1>5. CASE EndLookup(f)
    <2>1. PICK a \in {"public", "mixed", "empty", "failed"} :
            lookup' = [lookup EXCEPT ![f] = a]
      BY <1>5, Zenon DEF EndLookup
    <2>2. f \in WaitedFor /\ WaitedFor' = WaitedFor \ {f}
      BY <1>5, <2>1, SMT DEF EndLookup, WaitedFor, SlotInv, LookupTypeOK
    <2>3. LookupTypeOK'
      BY <1>5, <1>n, <2>1, SMT DEF EndLookup, SlotInv, LookupTypeOK
    <2>4. LookupInv'
      BY <1>5, <2>1, SMT DEF EndLookup, SlotInv, LookupInv, LookupTypeOK
    <2>5. SlotsKept'
      BY <1>5, <1>n, <2>2, OneLess, SMT DEF EndLookup, SlotsKept, WaitedFor
    <2> QED
      BY <2>3, <2>4, <2>5 DEF SlotInv
  <1>6. CASE Deliver(f)
    <2>1. WaitedFor' = WaitedFor
      BY <1>6, SMT DEF Deliver, WaitedFor, SlotInv, LookupTypeOK
    <2>2. LookupTypeOK'
      BY <1>6, SMT DEF Deliver, SlotInv, LookupTypeOK
    <2>3. \A g \in Fetchers \ {f} : fetch'[g] = fetch[g]
      BY <1>6, <1>o, Zenon DEF Deliver, Stops
    <2>4. LookupInv'
      BY <1>6, <2>3, SMT DEF Deliver, SlotInv, LookupInv, LookupTypeOK
    <2>5. SlotsKept'
      BY <1>6, <1>n, <2>1, SMT DEF Deliver, SlotsKept, WaitedFor
    <2> QED
      BY <2>2, <2>4, <2>5 DEF SlotInv
  <1>7. CASE TimeOut(f)
    <2>1. \A g \in Fetchers \ {f} : fetch'[g] = fetch[g]
      BY <1>7, <1>o, Zenon DEF TimeOut, Stops
    <2>2. LookupTypeOK'
      BY <1>7, <1>n, SMT DEF TimeOut, SlotInv, LookupTypeOK
    <2>3. LookupInv'
      BY <1>7, <2>1, SMT DEF TimeOut, SlotInv, LookupInv, LookupTypeOK
    <2>4. CASE lookup[f] = "running"
      <3>1. f \in WaitedFor /\ WaitedFor' = WaitedFor \ {f}
        BY <1>7, <2>4, SMT DEF TimeOut, WaitedFor, SlotInv, LookupTypeOK
      <3>2. SlotsKept'
        BY <1>7, <1>n, <2>4, <3>1, OneLess, SMT DEF TimeOut, SlotsKept, WaitedFor
      <3> QED
        BY <2>2, <2>3, <3>2 DEF SlotInv
    <2>5. CASE lookup[f] # "running"
      <3>1. WaitedFor' = WaitedFor
        BY <1>7, <2>5, SMT DEF TimeOut, WaitedFor, SlotInv, LookupTypeOK
      <3>2. SlotsKept'
        BY <1>7, <1>n, <2>5, <3>1, SMT DEF TimeOut, SlotsKept, WaitedFor
      <3> QED
        BY <2>2, <2>3, <3>2 DEF SlotInv
    <2> QED
      BY <2>4, <2>5
  <1>8. CASE FailRequest(f)
    BY <1>8, <1>s, Zenon DEF FailRequest
  <1>9. ASSUME NEW u \in Urls, Follow(f, u) PROVE SlotInv'
    BY <1>9, ThreadsAlone DEF Follow, At
  <1>10. ASSUME NEW c \in BOOLEAN, Answer(f, c) PROVE SlotInv'
    BY <1>10, ThreadsAlone DEF Answer, At
  <1>11. ASSUME NEW n \in Chunks, NEW m \in Inflated, NEW ends \in BOOLEAN,
                ReadChunk(f, n, m, ends)
         PROVE  SlotInv'
    BY <1>11, <1>s, ThreadsAlone DEF ReadChunk, At
  <1>12. CASE EndBody(f)
    BY <1>12, <1>s DEF EndBody, At
  <1> QED
    BY <1>1, <1>2, <1>3, <1>4, <1>5, <1>6, <1>7, <1>8, <1>9, <1>10, <1>11, <1>12
       DEF FetchStep

--------------------------------------------------------------------------------------

LEMMA InitIsInv == FetchInit => FetchInv
  <1> SUFFICES ASSUME FetchInit PROVE FetchInv
    OBVIOUS
  <1> USE DEF FetchInit
  <1>1. FetchesGood
    BY RestIsGood, Zenon DEF FetchesGood
  <1>2. LookupTypeOK /\ LookupInv
    BY FetchLimitsAssumption, SMT DEF LookupTypeOK, LookupInv
  <1>3. WaitedFor = {}
    BY SMT DEF WaitedFor
  <1>4. SlotsKept
    BY <1>3, FS_EmptySet, FetchLimitsAssumption, SMT DEF SlotsKept, WaitedFor
  <1> QED
    BY <1>1, <1>2, <1>4 DEF FetchInv

LEMMA NextKeepsInv == FetchInv /\ [FetchNext]_fetchVars => FetchInv'
  <1> SUFFICES ASSUME FetchInv, [FetchNext]_fetchVars PROVE FetchInv'
    OBVIOUS
  <1>i. FetchesGood /\ SlotInv
    BY DEF FetchInv, SlotInv
  <1>1. ASSUME NEW f \in Fetchers, FetchStep(f) PROVE FetchInv'
    BY <1>1, <1>i, StepKeepsGood, StepKeepsSlots DEF FetchInv, SlotInv
  <1>2. CASE EndAbandoned
    <2>1. FetchesGood' /\ LookupInv' /\ WaitedFor' = WaitedFor
      BY <1>2, <1>i, Zenon DEF EndAbandoned, FetchesGood, SlotInv, LookupInv, WaitedFor
    <2>2. LookupTypeOK'
      BY <1>2, <1>i, SMT DEF EndAbandoned, SlotInv, LookupTypeOK
    <2>3. SlotsKept'
      BY <1>2, <1>i, <2>1, CountIsNatural, SMT
         DEF EndAbandoned, SlotInv, LookupTypeOK, SlotsKept, WaitedFor
    <2> QED
      BY <2>1, <2>2, <2>3 DEF FetchInv
  <1>3. CASE UNCHANGED fetchVars
    BY <1>3, Zenon DEF fetchVars, FetchInv, FetchesGood, LookupTypeOK, LookupInv, SlotsKept
  <1> QED
    BY <1>1, <1>2, <1>3 DEF FetchNext

LEMMA AlwaysInv == FetchSpec => []FetchInv
  BY InitIsInv, NextKeepsInv, PTL DEF FetchSpec

\* Whoever gives up waiting, and whenever: the slots are free or held by a thread that
\* runs.
THEOREM NoSlotLost == FetchSpec => []SlotsKept
  <1>1. FetchInv => SlotsKept
    BY DEF FetchInv
  <1> QED
    BY <1>1, AlwaysInv, PTL

\* However long a chain of redirects is, and wherever it leads.
THEOREM HeadersStayHome == FetchSpec => []OwnHeadersStayHome
  <1>1. FetchInv => OwnHeadersStayHome
    BY Zenon DEF FetchInv, FetchesGood, GoodFetch, OwnHeadersStayHome
  <1> QED
    BY <1>1, AlwaysInv, PTL

\* Whatever the sizes of the chunks and whatever they inflate to.
THEOREM BodiesBounded == FetchSpec => []MemoryBounded
  <1>1. FetchInv => MemoryBounded
    BY Zenon DEF FetchInv, FetchesGood, GoodFetch, MemoryBounded
  <1> QED
    BY <1>1, AlwaysInv, PTL

--------------------------------------------------------------------------------------
(* Taking stock of the stored objects.                                              *)

Object == [kind : {"none", "version", "marker", "gone"}, since : Nat]

InventoryTypeOK ==
    /\ storage \in [Places -> Object]
    /\ writer \in [Writers -> Places \cup {Nothing}]
    /\ reported \in [Places -> {"unseen", "missing_version", "registered_metadata_match",
                                "protected_ambiguous_reference", "unregistered_recent",
                                "unregistered_candidate", "delete_marker"}]

ObserverInv ==
    /\ observer = [at |-> observer.at, mode |-> observer.mode,
                   observed |-> observer.observed, after |-> observer.after,
                   page |-> observer.page, more |-> observer.more,
                   snapshot |-> observer.snapshot, began |-> observer.began,
                   registered |-> observer.registered]
    /\ observer.mode \in {"inventory", "references"}

\* A row that was there when the page was listed is there when the snapshot is taken, and
\* in the snapshot.
SnapshotInv ==
    /\ observer.at = "listed" => observer.registered \subseteq rows
    /\ observer.at = "checking" /\ observer.mode = "inventory" =>
         observer.registered \subseteq observer.snapshot

InventoryInv == InventoryTypeOK /\ ObserverInv /\ SnapshotInv

--------------------------------------------------------------------------------------

LEMMA PlacesAreNumbers == Places \subseteq Nat /\ Nothing \notin Places
BY PlacesAssumption, FS_CardinalityType, SMT DEF Nothing

\* Nothing the environment does takes a row away.
LEMMA EnvironmentKeeps ==
    ASSUME InventoryInv,
           \/ \E w \in Writers, p \in Places : PutObject(w, p)
           \/ \E w \in Writers : RegisterObject(w) \/ LoseWriter(w)
           \/ \E p \in Places : MarkDeleted(p) \/ DeleteVersion(p)
    PROVE  InventoryInv' /\ reported' = reported
<1> USE DEF InventoryInv, InventoryTypeOK, Object
<1>1. InventoryTypeOK'
  <2>1. \A t \in Times : t \in Nat
    BY LimitAssumption
  <2>2. Places \subseteq Nat /\ Nothing \notin Places
    BY PlacesAreNumbers
  <2>3. ASSUME NEW w \in Writers, NEW p \in Places, PutObject(w, p) PROVE InventoryTypeOK'
    <3>1. PICK t \in Times : storage' = [storage EXCEPT ![p] = [kind |-> "version", since |-> t]]
      BY <2>3 DEF PutObject
    <3>2. [kind |-> "version", since |-> t] \in Object
      BY <2>1
    <3>3. storage' \in [Places -> Object]
      BY <3>1, <3>2
    <3>. QED BY <2>3, <3>3 DEF PutObject, observerVars
  <2>4. ASSUME NEW w \in Writers, RegisterObject(w) \/ LoseWriter(w) PROVE InventoryTypeOK'
    BY <2>4 DEF RegisterObject, LoseWriter, observerVars
  <2>5. ASSUME NEW p \in Places, MarkDeleted(p) \/ DeleteVersion(p) PROVE InventoryTypeOK'
    BY <2>5 DEF MarkDeleted, DeleteVersion, observerVars
  <2>. QED BY <2>3, <2>4, <2>5
<1>2. UNCHANGED observerVars /\ rows \subseteq rows'
  BY DEF PutObject, RegisterObject, LoseWriter, MarkDeleted, DeleteVersion
<1>3. ObserverInv' /\ SnapshotInv'
  BY <1>2 DEF ObserverInv, SnapshotInv, observerVars
<1>. QED BY <1>1, <1>2, <1>3 DEF observerVars

--------------------------------------------------------------------------------------

\* What an entry of the page is reported as; a candidate is not in the snapshot.
LEMMA CandidateOfPage ==
    ASSUME InventoryInv, NEW x \in Places, CheckEntry(x)
    PROVE  /\ StateOf(x) \in {"missing_version", "registered_metadata_match",
                              "protected_ambiguous_reference", "unregistered_recent",
                              "unregistered_candidate", "delete_marker"}
           /\ StateOf(x) = "unregistered_candidate" => x \notin observer.registered
<1> USE DEF InventoryInv
<1>1. HeadState(x) \in {"missing_version", "registered_metadata_match"}
  BY DEF HeadState
<1>2. UnregisteredState(x) \in {"protected_ambiguous_reference", "unregistered_recent",
                                "unregistered_candidate"}
  BY DEF UnregisteredState
<1>3. StateOf(x) \in {HeadState(x), UnregisteredState(x), "delete_marker"}
  BY DEF StateOf
<1>4. ASSUME StateOf(x) = "unregistered_candidate"
      PROVE  x \notin observer.registered
  <2>1. observer.mode = "inventory" /\ x \notin observer.snapshot
    BY <1>1, <1>4 DEF StateOf, ObserverInv
  <2>2. observer.at = "checking"
    BY DEF CheckEntry
  <2>. QED BY <2>1, <2>2 DEF SnapshotInv
<1>. QED BY <1>1, <1>2, <1>3, <1>4

LEMMA InventoryInitInv == InventoryInit => InventoryInv
BY SMT DEF InventoryInit, InventoryInv, InventoryTypeOK, ObserverInv, SnapshotInv, Object,
   NoPass, Nothing

\* Only the check of an entry reports a candidate.
NewCandidate(p) ==
    reported[p] # "unregistered_candidate" /\ reported'[p] = "unregistered_candidate"

\* Every step keeps the invariant, and reports no version whose row was there.
LEMMA InventoryStep ==
    InventoryInv /\ [InventoryNext]_inventoryVars =>
      InventoryInv' /\ \A p \in Places : NewCandidate(p) => p \notin observer.registered
<1> DEFINE Claim == InventoryInv' /\ \A p \in Places : NewCandidate(p) => p \notin observer.registered
<1> SUFFICES ASSUME InventoryInv, [InventoryNext]_inventoryVars
             PROVE  Claim
  OBVIOUS
<1> USE DEF InventoryInv
<1>1. CASE \/ \E w \in Writers, p \in Places : PutObject(w, p)
           \/ \E w \in Writers : RegisterObject(w) \/ LoseWriter(w)
           \/ \E p \in Places : MarkDeleted(p) \/ DeleteVersion(p)
  BY <1>1, EnvironmentKeeps DEF NewCandidate
<1>2. ASSUME NEW mode \in {"inventory", "references"}, StartPass(mode)
      PROVE  Claim
  <2>1. /\ observer'.at = "page" /\ observer'.mode = mode
        /\ reported' = [p \in Places |-> "unseen"]
        /\ UNCHANGED environmentVars
    BY <1>2, Zenon DEF StartPass, ObserverInv, NoPass
  <2>2. observer' = [at |-> observer'.at, mode |-> observer'.mode,
                   observed |-> observer'.observed, after |-> observer'.after,
                   page |-> observer'.page, more |-> observer'.more,
                   snapshot |-> observer'.snapshot, began |-> observer'.began,
                   registered |-> observer'.registered]
    BY <1>2, Zenon DEF StartPass, ObserverInv, NoPass
  <2>3. InventoryTypeOK' /\ \A p \in Places : ~NewCandidate(p)
    BY <2>1 DEF InventoryTypeOK, NewCandidate, environmentVars
  <2>4. ObserverInv'
    BY <2>1, <2>2 DEF ObserverInv
  <2>5. SnapshotInv'
    BY <2>1 DEF SnapshotInv, environmentVars
  <2>. QED BY <2>3, <2>4, <2>5
<1>3. CASE NextPage
  <2>1. /\ observer'.at = "page" /\ observer'.mode = observer.mode
        /\ UNCHANGED <<environmentVars, reported>>
    BY <1>3, Zenon DEF NextPage, ObserverInv
  <2>2. observer' = [at |-> observer'.at, mode |-> observer'.mode,
                   observed |-> observer'.observed, after |-> observer'.after,
                   page |-> observer'.page, more |-> observer'.more,
                   snapshot |-> observer'.snapshot, began |-> observer'.began,
                   registered |-> observer'.registered]
    BY <1>3, Zenon DEF NextPage, ObserverInv
  <2>3. InventoryTypeOK' /\ \A p \in Places : ~NewCandidate(p)
    BY <2>1 DEF InventoryTypeOK, NewCandidate, environmentVars
  <2>4. ObserverInv'
    BY <2>1, <2>2 DEF ObserverInv
  <2>5. SnapshotInv'
    BY <2>1 DEF SnapshotInv, environmentVars
  <2>. QED BY <2>3, <2>4, <2>5
<1>4. CASE ListVersions
  <2>1. /\ observer'.at = "listed" /\ observer'.mode = observer.mode
        /\ observer'.registered = rows
        /\ UNCHANGED <<environmentVars, reported>>
    BY <1>4, Zenon DEF ListVersions, ObserverInv
  <2>2. observer' = [at |-> observer'.at, mode |-> observer'.mode,
                   observed |-> observer'.observed, after |-> observer'.after,
                   page |-> observer'.page, more |-> observer'.more,
                   snapshot |-> observer'.snapshot, began |-> observer'.began,
                   registered |-> observer'.registered]
    BY <1>4, Zenon DEF ListVersions, ObserverInv
  <2>3. InventoryTypeOK' /\ \A p \in Places : ~NewCandidate(p)
    BY <2>1 DEF InventoryTypeOK, NewCandidate, environmentVars
  <2>4. ObserverInv'
    BY <2>1, <2>2 DEF ObserverInv
  <2>5. SnapshotInv'
    BY <2>1 DEF SnapshotInv, environmentVars
  <2>. QED BY <2>3, <2>4, <2>5
<1>5. CASE ReadRows
  <2>1. /\ observer'.at = "checking" /\ observer'.mode = "references"
        /\ UNCHANGED <<environmentVars, reported>>
    BY <1>5, Zenon DEF ReadRows, ObserverInv
  <2>2. observer' = [at |-> observer'.at, mode |-> observer'.mode,
                   observed |-> observer'.observed, after |-> observer'.after,
                   page |-> observer'.page, more |-> observer'.more,
                   snapshot |-> observer'.snapshot, began |-> observer'.began,
                   registered |-> observer'.registered]
    BY <1>5, Zenon DEF ReadRows, ObserverInv
  <2>3. InventoryTypeOK' /\ \A p \in Places : ~NewCandidate(p)
    BY <2>1 DEF InventoryTypeOK, NewCandidate, environmentVars
  <2>4. ObserverInv'
    BY <2>1, <2>2 DEF ObserverInv
  <2>5. SnapshotInv'
    BY <2>1 DEF SnapshotInv, environmentVars
  <2>. QED BY <2>3, <2>4, <2>5
<1>6. CASE TakeSnapshot
  <2>1. /\ observer.at = "listed" /\ observer'.at = "checking"
        /\ observer'.mode = observer.mode /\ observer'.snapshot = rows
        /\ observer'.registered = observer.registered
        /\ UNCHANGED <<environmentVars, reported>>
    BY <1>6, Zenon DEF TakeSnapshot, ObserverInv
  <2>2. observer' = [at |-> observer'.at, mode |-> observer'.mode,
                   observed |-> observer'.observed, after |-> observer'.after,
                   page |-> observer'.page, more |-> observer'.more,
                   snapshot |-> observer'.snapshot, began |-> observer'.began,
                   registered |-> observer'.registered]
    BY <1>6, Zenon DEF TakeSnapshot, ObserverInv
  <2>3. InventoryTypeOK' /\ \A p \in Places : ~NewCandidate(p)
    BY <2>1 DEF InventoryTypeOK, NewCandidate, environmentVars
  <2>4. ObserverInv'
    BY <2>1, <2>2 DEF ObserverInv
  <2>5. SnapshotInv'
    BY <2>1 DEF SnapshotInv, environmentVars
  <2>. QED BY <2>3, <2>4, <2>5
<1>7. ASSUME NEW x \in Places, CheckEntry(x)
      PROVE  Claim
  <2>1. /\ reported' = [reported EXCEPT ![x] = StateOf(x)]
        /\ observer' = [observer EXCEPT !.page = @ \ {x}]
        /\ UNCHANGED environmentVars
    BY <1>7 DEF CheckEntry
  <2>2. InventoryTypeOK'
    BY <1>7, <2>1, CandidateOfPage DEF InventoryTypeOK, environmentVars
  <2>3. ObserverInv' /\ SnapshotInv'
    BY <2>1, SMT DEF ObserverInv, SnapshotInv, environmentVars
  <2>4. \A p \in Places : NewCandidate(p) => p = x /\ StateOf(x) = "unregistered_candidate"
    BY <2>1 DEF InventoryTypeOK, NewCandidate
  <2>5. \A p \in Places : NewCandidate(p) => p \notin observer.registered
    BY <1>7, <2>4, CandidateOfPage
  <2>. QED BY <2>2, <2>3, <2>5
<1>8. CASE EndPage
  <2>1. /\ observer'.at \in {"between", "done"} /\ observer'.mode = observer.mode
        /\ UNCHANGED <<environmentVars, reported>>
    BY <1>8, Zenon DEF EndPage, ObserverInv, NoPass
  <2>2. observer' = [at |-> observer'.at, mode |-> observer'.mode,
                   observed |-> observer'.observed, after |-> observer'.after,
                   page |-> observer'.page, more |-> observer'.more,
                   snapshot |-> observer'.snapshot, began |-> observer'.began,
                   registered |-> observer'.registered]
    BY <1>8, Zenon DEF EndPage, ObserverInv, NoPass
  <2>3. InventoryTypeOK' /\ \A p \in Places : ~NewCandidate(p)
    BY <2>1 DEF InventoryTypeOK, NewCandidate, environmentVars
  <2>4. ObserverInv'
    BY <2>1, <2>2 DEF ObserverInv
  <2>5. SnapshotInv'
    BY <2>1 DEF SnapshotInv, environmentVars
  <2>. QED BY <2>3, <2>4, <2>5
<1>9. CASE EndPass
  BY <1>9, SMT DEF EndPass, NoPass, environmentVars, InventoryTypeOK, ObserverInv,
     SnapshotInv, NewCandidate
<1>10. CASE UNCHANGED inventoryVars
  BY <1>10 DEF inventoryVars, InventoryTypeOK, ObserverInv, SnapshotInv, NewCandidate
<1>. QED BY <1>1, <1>2, <1>3, <1>4, <1>5, <1>6, <1>7, <1>8, <1>9, <1>10 DEF InventoryNext

\* A version that reconcile_page reports as an unregistered candidate had no row when its
\* page was listed, whatever the writers do between the listing and the queries: the
\* snapshot the rows are read in is taken later.
THEOREM CandidatesWereWithoutRows == InventorySpec => CandidatesWereUnregistered
<1>1. InventoryInv /\ [InventoryNext]_inventoryVars =>
        [\A p \in Places :
           /\ reported[p] # "unregistered_candidate"
           /\ reported'[p] = "unregistered_candidate"
           => p \notin observer.registered]_inventoryVars
  BY InventoryStep DEF NewCandidate
<1>2. InventorySpec => []InventoryInv
  BY InventoryInitInv, InventoryStep, PTL DEF InventorySpec
<1>. QED BY <1>1, <1>2, PTL DEF InventorySpec, CandidatesWereUnregistered

--------------------------------------------------------------------------------------
(* A pass covers everything.                                                           *)

Reading == observer.at \in {"listed", "checking"}

\* What an entry of the beginning has come to: it is reported, or on the page that is being
\* read, or still ahead of the cursor.
Covered(x) ==
    \/ reported[x] # "unseen"
    \/ observer.mode = "inventory" /\ storage[x].kind = "gone"
    \/ Reading /\ x \in observer.page
    \/ /\ observer.at \in {"page", "between"} \/ (Reading /\ observer.more)
       /\ RankNow(x) > observer.after

CoverInv ==
    /\ rows \subseteq Places
    /\ \A x \in observer.began :
         /\ x \in Places
         /\ IF observer.mode = "references" THEN x \in rows
            ELSE storage[x].kind \in {"version", "marker", "gone"}
         /\ Covered(x)

\* The entries of a pass stand at different places of its order.
LEMMA Ranks ==
    ASSUME ObserverInv
    PROVE  /\ \A p \in Places : RankNow(p) \in Nat \ {0}
           /\ \A p, q \in Places : RankNow(p) = RankNow(q) => p = q
<1>1. \A p \in Places : p \in Nat \ {0} /\ RowId[p] \in Places
  BY PlacesAssumption, PlacesAreNumbers DEF Nothing
<1>2. CASE observer.mode = "inventory"
  BY <1>1, <1>2 DEF RankNow, Rank
<1>3. CASE observer.mode = "references"
  BY <1>1, <1>3, PlacesAssumption DEF RankNow, Rank
<1> QED  BY <1>2, <1>3 DEF ObserverInv

\* Positions count what is not behind: they grow with the rank.
LEMMA Positions ==
    ASSUME ObserverInv, Ahead \subseteq Places
    PROVE  /\ IsFiniteSet(Ahead) /\ Cardinality(Ahead) \in Nat
           /\ \A p \in Ahead : Position(p) \in 1 .. Cardinality(Ahead)
           /\ \A p, q \in Ahead : RankNow(p) < RankNow(q) => Position(p) < Position(q)
<1> DEFINE Behind(p) == {q \in Ahead : RankNow(q) <= RankNow(p)}
<1>1. IsFiniteSet(Ahead)
  BY PlacesAssumption, FS_Subset
<1>2. Cardinality(Ahead) \in Nat
  BY <1>1, FS_CardinalityType
<1>3. \A p \in Ahead : RankNow(p) \in Nat
  BY Ranks
<1>4. ASSUME NEW p \in Ahead
      PROVE  /\ Behind(p) \in SUBSET Ahead /\ p \in Behind(p) /\ IsFiniteSet(Behind(p))
             /\ Position(p) = Cardinality(Behind(p)) /\ Position(p) \in Nat
             /\ Position(p) <= Cardinality(Ahead)
  <2>1. Behind(p) \in SUBSET Ahead /\ Position(p) = Cardinality(Behind(p))
    BY DEF Position
  <2>2. p \in Behind(p)
    BY <1>3
  <2> HIDE DEF Behind
  <2> QED  BY <1>1, <2>1, <2>2, FS_Subset, FS_CardinalityType
<1>5. ASSUME NEW p \in Ahead PROVE Position(p) \in 1 .. Cardinality(Ahead)
  <2>1. Position(p) # 0
    <3> HIDE DEF Behind
    <3> QED  BY <1>4, FS_EmptySet
  <2>2. Position(p) \in Nat /\ Position(p) <= Cardinality(Ahead)
    BY <1>4
  <2> HIDE DEF Behind
  <2> QED  BY <1>2, <2>1, <2>2
<1>6. ASSUME NEW p \in Ahead, NEW q \in Ahead, RankNow(p) < RankNow(q)
      PROVE  Position(p) < Position(q)
  <2>1. Behind(p) \in SUBSET Behind(q) /\ q \notin Behind(p)
    BY <1>3, <1>6
  <2> HIDE DEF Behind
  <2>2. Position(p) <= Position(q) /\ Position(p) # Position(q)
    BY <1>4, <2>1, FS_Subset
  <2> QED  BY <1>4, <2>2
<1> QED  BY <1>1, <1>2, <1>5, <1>6

\* If a page does not take all that is ahead, one entry is the last of it: else more
\* entries would be ahead than there are positions.
LEMMA LastOfPage ==
    ASSUME ObserverInv, Ahead \subseteq Places, FirstOfAhead # Ahead
    PROVE  \E p \in Ahead : Position(p) = Limit
<1> DEFINE n == Cardinality(Ahead)
           others == (1 .. n) \ {Limit}
<1>1. Limit \in 1 .. n
  <2>1. PICK q \in Ahead : ~ (Position(q) <= Limit)
    BY DEF FirstOfAhead
  <2> QED  BY <2>1, Positions, LimitAssumption
<1>2. IsFiniteSet(others) /\ Cardinality(others) = n - 1
  <2>1. IsFiniteSet(1 .. n) /\ Cardinality(1 .. n) = n
    BY <1>1, Positions, FS_Interval
  <2> QED  BY <1>1, <2>1, FS_RemoveElement
<1>3. SUFFICES ASSUME \A p \in Ahead : Position(p) # Limit PROVE FALSE
  OBVIOUS
<1> DEFINE f == [p \in Ahead |-> Position(p)]
<1>4. f \in [Ahead -> others]
  BY <1>3, Positions
<1>5. Cardinality(others) < Cardinality(Ahead)
  BY <1>2, Positions
<1>6. PICK p, q \in Ahead : p # q /\ f[p] = f[q]
  <2> HIDE DEF f, others
  <2> QED  BY <1>2, <1>4, <1>5, Positions, FS_PigeonHole
<1>7. RankNow(p) < RankNow(q) \/ RankNow(q) < RankNow(p)
  BY <1>6, Ranks
<1>8. Position(p) = Position(q) /\ Position(p) \in Nat
  BY <1>6, Positions
<1> QED  BY <1>7, <1>8, Positions

\* What is ahead is on the page, or beyond the cursor of the next one.
LEMMA PageOrBeyond ==
    ASSUME ObserverInv, Ahead \subseteq Places, NEW x \in Ahead
    PROVE  x \in FirstOfAhead \/ (FirstOfAhead # Ahead /\ RankNow(x) > Cursor)
<1>a. CASE x \in FirstOfAhead
  BY <1>a
<1> SUFFICES ASSUME x \notin FirstOfAhead
             PROVE  FirstOfAhead # Ahead /\ RankNow(x) > Cursor
  BY <1>a
<1> DEFINE last == CHOOSE p \in Ahead : Position(p) = Limit
<1>b. FirstOfAhead # Ahead
  OBVIOUS
<1>1. last \in Ahead /\ Position(last) = Limit
  BY <1>b, LastOfPage
<1>2. Cursor = RankNow(last)
  BY <1>b DEF Cursor
<1> HIDE DEF last
<1>3. ~ (Position(x) <= Limit)
  BY DEF FirstOfAhead
<1>4. RankNow(x) \in Nat /\ RankNow(last) \in Nat /\ (RankNow(x) = RankNow(last) => x = last)
  BY <1>1, Ranks
<1>5. Position(x) \in Nat /\ (RankNow(x) < RankNow(last) => Position(x) < Position(last))
  BY <1>1, Positions
<1> QED  BY <1>1, <1>2, <1>3, <1>4, <1>5, <1>b, LimitAssumption

LEMMA AheadIsThere ==
    ASSUME CoverInv
    PROVE  /\ Ahead \subseteq Places
           /\ \A x \in observer.began :
                \/ observer.mode = "inventory" /\ storage[x].kind = "gone"
                \/ observer.mode \notin {"inventory", "references"}
                \/ RankNow(x) > observer.after => x \in Ahead
BY DEF CoverInv, Ahead, Entries, Existing

\* The environment takes no row away, and what was there stays there or is gone for good.
LEMMA EnvironmentCovers ==
    ASSUME InventoryInv, CoverInv,
           \/ \E w \in Writers, p \in Places : PutObject(w, p)
           \/ \E w \in Writers : RegisterObject(w) \/ LoseWriter(w)
           \/ \E p \in Places : MarkDeleted(p) \/ DeleteVersion(p)
    PROVE  CoverInv'
<1> USE DEF InventoryInv, InventoryTypeOK, Object
<1>1. UNCHANGED observerVars
  BY DEF PutObject, RegisterObject, LoseWriter, MarkDeleted, DeleteVersion
<1>2. rows \subseteq rows' /\ rows' \subseteq Places
  BY DEF PutObject, RegisterObject, LoseWriter, MarkDeleted, DeleteVersion, CoverInv
<1>3. ASSUME NEW x \in Places, storage[x].kind \in {"version", "marker", "gone"}
      PROVE  /\ storage'[x].kind \in {"version", "marker", "gone"}
             /\ storage[x].kind = "gone" => storage'[x].kind = "gone"
  <2>1. CASE UNCHANGED storage
    BY <1>3, <2>1
  <2>2. ASSUME NEW w \in Writers, NEW p \in Places, PutObject(w, p)
        PROVE  storage'[x] = storage[x]
    BY <1>3, <2>2 DEF PutObject
  <2>3. ASSUME NEW p \in Places, MarkDeleted(p)
        PROVE  storage'[x] = storage[x]
    BY <1>3, <2>3 DEF MarkDeleted
  <2>4. ASSUME NEW p \in Places, DeleteVersion(p)
        PROVE  \/ storage'[x] = storage[x]
               \/ storage[x].kind = "version" /\ storage'[x].kind = "gone"
    <3>1. storage[p].kind = "version" /\ storage' = [storage EXCEPT ![p].kind = "gone"]
      BY <2>4 DEF DeleteVersion
    <3>2. CASE p = x
      <4>1. storage'[x] = [storage[x] EXCEPT !.kind = "gone"]
        BY <3>1, <3>2
      <4> QED  BY <3>1, <3>2, <4>1
    <3>3. CASE p # x
      BY <3>1, <3>3
    <3> QED  BY <3>2, <3>3
  <2> QED
    BY <1>3, <2>1, <2>2, <2>3, <2>4 DEF RegisterObject, LoseWriter
<1>4. ASSUME NEW x \in observer.began
      PROVE  /\ x \in Places
             /\ IF observer.mode = "references" THEN x \in rows'
                ELSE storage'[x].kind \in {"version", "marker", "gone"}
             /\ Covered(x)'
  <2>1. /\ x \in Places
        /\ IF observer.mode = "references" THEN x \in rows
           ELSE storage[x].kind \in {"version", "marker", "gone"}
        /\ Covered(x)
    BY DEF CoverInv
  <2>2. IF observer.mode = "references" THEN x \in rows'
        ELSE storage'[x].kind \in {"version", "marker", "gone"}
    BY <1>2, <1>3, <2>1
  <2>3. storage[x].kind = "gone" => storage'[x].kind = "gone"
    BY <1>3, <2>1
  <2>4. Covered(x)'
    BY <1>1, <2>1, <2>3 DEF Covered, Reading, RankNow, observerVars
  <2> QED  BY <2>1, <2>2, <2>4
<1> QED  BY <1>1, <1>2, <1>4 DEF CoverInv, observerVars

\* A page is read: what was ahead is on it or beyond it.
LEMMA ReadingCovers ==
    ASSUME InventoryInv, CoverInv, UNCHANGED <<environmentVars, reported>>,
           observer.at = "page", observer'.at \in {"listed", "checking"},
           observer'.mode = observer.mode, observer'.began = observer.began,
           observer'.page = FirstOfAhead, observer'.more = (FirstOfAhead # Ahead),
           observer'.after = Cursor
    PROVE  CoverInv'
<1> SUFFICES ASSUME NEW x \in observer.began PROVE Covered(x)'
  BY DEF CoverInv, environmentVars
<1>1. Covered(x) /\ x \in Places
  BY DEF CoverInv
<1>2. CASE RankNow(x) > observer.after /\ ~ (observer.mode = "inventory" /\ storage[x].kind = "gone")
  <2>1. x \in Ahead /\ Ahead \subseteq Places
    BY <1>2, AheadIsThere DEF InventoryInv, ObserverInv
  <2>2. x \in FirstOfAhead \/ (FirstOfAhead # Ahead /\ RankNow(x) > Cursor)
    BY <2>1, PageOrBeyond DEF InventoryInv
  <2>3. RankNow(x)' = RankNow(x)
    BY DEF RankNow
  <2>4. observer'.more <=> FirstOfAhead # Ahead
    OBVIOUS
  <2> QED  BY <2>2, <2>3, <2>4 DEF Covered, Reading
<1> QED  BY <1>1, <1>2 DEF Covered, Reading, environmentVars

LEMMA CoverStep == InventoryInv /\ CoverInv /\ [InventoryNext]_inventoryVars => CoverInv'
<1> SUFFICES ASSUME InventoryInv, CoverInv, [InventoryNext]_inventoryVars
             PROVE  CoverInv'
  OBVIOUS
<1>0. observer = [at |-> observer.at, mode |-> observer.mode,
                   observed |-> observer.observed, after |-> observer.after,
                   page |-> observer.page, more |-> observer.more,
                   snapshot |-> observer.snapshot, began |-> observer.began,
                   registered |-> observer.registered]
  BY DEF InventoryInv, ObserverInv
<1>1. ASSUME NEW mode \in {"inventory", "references"}, StartPass(mode)
      PROVE  CoverInv'
  <2>1. /\ observer'.at = "page" /\ observer'.mode = mode /\ observer'.after = 0
        /\ observer'.began = Entries(mode) /\ UNCHANGED environmentVars
    BY <1>1 DEF StartPass, NoPass
  <2>2. \A p \in Places : Rank(mode, p) > 0
    <3>1. \A p \in Places : p \in Nat \ {0} /\ RowId[p] \in Places
      BY PlacesAssumption, PlacesAreNumbers DEF Nothing
    <3> QED  BY <3>1 DEF Rank
  <2>3. \A p \in Places : RankNow(p)' = Rank(mode, p)
    BY <2>1 DEF RankNow, Rank
  <2>4. \A x \in Entries(mode) : /\ x \in Places
                                 /\ mode = "references" => x \in rows
                                 /\ mode = "inventory" => storage[x].kind \in {"version", "marker"}
    BY DEF Entries, Existing, CoverInv
  <2>5. ASSUME NEW x \in Entries(mode) PROVE Covered(x)'
    <3>1. RankNow(x)' > 0
      BY <2>2, <2>3, <2>4
    <3> QED  BY <2>1, <3>1 DEF Covered
  <2> QED  BY <2>1, <2>4, <2>5 DEF CoverInv, environmentVars
<1>2. CASE NextPage
  <2>1. /\ observer.at = "between" /\ observer'.at = "page"
        /\ UNCHANGED <<environmentVars, reported>>
        /\ observer'.mode = observer.mode /\ observer'.after = observer.after
        /\ observer'.began = observer.began
    BY <1>0, <1>2, Zenon DEF NextPage
  <2> QED  BY <2>1 DEF CoverInv, Covered, Reading, RankNow, environmentVars
<1>3. CASE ListVersions
  <2>1. /\ observer'.at = "listed" /\ observer'.mode = observer.mode
        /\ observer'.began = observer.began /\ observer'.page = FirstOfAhead
        /\ observer'.more = (FirstOfAhead # Ahead) /\ observer'.after = Cursor
    BY <1>0, <1>3, Zenon DEF ListVersions
  <2> QED  BY <1>3, <2>1, ReadingCovers DEF ListVersions
<1>4. CASE ReadRows
  <2>1. /\ observer'.at = "checking" /\ observer'.mode = observer.mode
        /\ observer'.began = observer.began /\ observer'.page = FirstOfAhead
        /\ observer'.more = (FirstOfAhead # Ahead) /\ observer'.after = Cursor
    BY <1>0, <1>4, Zenon DEF ReadRows
  <2> QED  BY <1>4, <2>1, ReadingCovers DEF ReadRows
<1>5. CASE TakeSnapshot
  <2>1. /\ observer.at = "listed" /\ observer'.at = "checking"
        /\ UNCHANGED <<environmentVars, reported>>
        /\ observer'.mode = observer.mode /\ observer'.after = observer.after
        /\ observer'.began = observer.began /\ observer'.page = observer.page
        /\ observer'.more = observer.more
    BY <1>0, <1>5, Zenon DEF TakeSnapshot
  <2> QED  BY <2>1 DEF CoverInv, Covered, Reading, RankNow, environmentVars
<1>6. ASSUME NEW x \in Places, CheckEntry(x)
      PROVE  CoverInv'
  <2>1. /\ observer'.at = observer.at /\ observer'.mode = observer.mode
        /\ observer'.after = observer.after /\ observer'.began = observer.began
        /\ observer'.page = observer.page \ {x} /\ observer'.more = observer.more
    BY <1>0, <1>6, Zenon DEF CheckEntry
  <2>2. StateOf(x) # "unseen"
    BY <1>6, CandidateOfPage
  <2>3. reported' = [reported EXCEPT ![x] = StateOf(x)] /\ UNCHANGED environmentVars
    BY <1>6 DEF CheckEntry
  <2>4. \A y \in Places : reported[y] # "unseen" \/ y = x => reported'[y] # "unseen"
    BY <2>2, <2>3 DEF InventoryInv, InventoryTypeOK
  <2> QED  BY <2>1, <2>3, <2>4 DEF CoverInv, Covered, Reading, RankNow, environmentVars
<1>7. CASE EndPage
  <2>1. /\ observer.at = "checking" /\ observer.page = {}
        /\ UNCHANGED <<environmentVars, reported>>
        /\ observer'.mode = observer.mode /\ observer'.began = observer.began
        /\ observer.more => observer'.at = "between" /\ observer'.after = observer.after
    BY <1>0, <1>7, Zenon DEF EndPage, NoPass
  <2> QED  BY <2>1 DEF CoverInv, Covered, Reading, RankNow, environmentVars
<1>8. CASE EndPass
  <2>1. observer'.began = {} /\ UNCHANGED environmentVars
    BY <1>8 DEF EndPass, NoPass
  <2> QED  BY <2>1 DEF CoverInv, environmentVars
<1>9. CASE UNCHANGED inventoryVars
  BY <1>9 DEF inventoryVars, CoverInv, Covered, Reading, RankNow
<1> QED
  BY <1>1, <1>2, <1>3, <1>4, <1>5, <1>6, <1>7, <1>8, <1>9, EnvironmentCovers DEF InventoryNext

\* A pass that has come to its end has reported every entry there was at its beginning,
\* unless it has been deleted: pages are no snapshot, but what was there keeps its place in
\* the order of the cursor, and nothing put behind or before it can push it off a page.
THEOREM PassesCover == InventorySpec => []PassCoversAll
<1>1. InventoryInit => CoverInv
  BY DEF InventoryInit, CoverInv, NoPass
<1>2. CoverInv => PassCoversAll
  BY DEF CoverInv, Covered, Reading, PassCoversAll
<1> QED
  BY <1>1, <1>2, InventoryInitInv, InventoryStep, CoverStep, PTL DEF InventorySpec

--------------------------------------------------------------------------------------
(* Collecting the originals of a company.                                               *)

\* A relation that orders the members of a set, one before the other.
Orders(R, S) ==
    /\ \A x \in S : <<x, x>> \notin R
    /\ \A x, y \in S : x # y => <<x, y>> \in R \/ <<y, x>> \in R
    /\ \A x, y, z \in S : <<x, y>> \in R /\ <<y, z>> \in R => <<x, z>> \in R

Ascending(q, R) == \A i, j \in DOMAIN q : i < j => <<q[i], q[j]>> \in R

\* A finite set that is ordered has its members in order: each at its rank, the number of
\* members up to it.
LEMMA OrderedSequence ==
    ASSUME NEW S, IsFiniteSet(S), NEW R, Orders(R, S)
    PROVE  \E q \in [1 .. Cardinality(S) -> S] : Ascending(q, R)
<1> DEFINE UpTo(x) == {y \in S : y = x \/ <<y, x>> \in R}
           rank == [x \in S |-> Cardinality(UpTo(x))]
           n == Cardinality(S)
           q == [k \in 1 .. n |-> CHOOSE x \in S : rank[x] = k]
<1>1. n \in Nat
  BY FS_CardinalityType
<1>2. \A x \in S : IsFiniteSet(UpTo(x)) /\ UpTo(x) \subseteq S /\ x \in UpTo(x)
  BY FS_Subset
<1>3. \A x \in S : rank[x] = Cardinality(UpTo(x))
  OBVIOUS
<1>4. \A x, y \in S : <<x, y>> \in R => UpTo(x) \subseteq UpTo(y) /\ y \notin UpTo(x)
  BY DEF Orders
<1> HIDE DEF UpTo, rank
<1>5. \A x \in S : rank[x] \in Nat /\ rank[x] <= n /\ rank[x] # 0
  <2> SUFFICES ASSUME NEW x \in S PROVE rank[x] \in Nat /\ rank[x] <= n /\ rank[x] # 0
    OBVIOUS
  <2>1. IsFiniteSet(UpTo(x)) /\ UpTo(x) \subseteq S /\ UpTo(x) # {}
    BY <1>2
  <2>2. Cardinality(UpTo(x)) \in Nat /\ Cardinality(UpTo(x)) <= Cardinality(S)
    BY <2>1, FS_Subset, FS_CardinalityType
  <2>3. Cardinality(UpTo(x)) # 0
    BY <2>1, FS_EmptySet
  <2>. QED BY <2>2, <2>3, <1>3
<1>6. \A x, y \in S : <<x, y>> \in R => rank[x] < rank[y]
  <2> SUFFICES ASSUME NEW x \in S, NEW y \in S, <<x, y>> \in R PROVE rank[x] < rank[y]
    OBVIOUS
  <2>1. UpTo(x) \subseteq UpTo(y) /\ UpTo(x) # UpTo(y)
    BY <1>2, <1>4
  <2>2. IsFiniteSet(UpTo(y))
    BY <1>2
  <2>3. Cardinality(UpTo(x)) \in Nat /\ Cardinality(UpTo(y)) \in Nat
    BY <1>2, FS_CardinalityType
  <2>4. Cardinality(UpTo(x)) < Cardinality(UpTo(y))
    BY <2>1, <2>2, <2>3, FS_Subset
  <2>. QED BY <2>4, <1>3
<1>7. \A x, y \in S : rank[x] = rank[y] => x = y
  <2> SUFFICES ASSUME NEW x \in S, NEW y \in S, x # y PROVE rank[x] # rank[y]
    OBVIOUS
  <2>1. <<x, y>> \in R \/ <<y, x>> \in R
    BY DEF Orders
  <2>. QED BY <2>1, <1>5, <1>6
<1>8. \A k \in 1 .. n : \E x \in S : rank[x] = k
  <2>1. rank \in [S -> 1 .. n]
    BY <1>1, <1>5 DEF rank
  <2>2. rank \in Injection(S, 1 .. n)
    BY <2>1, <1>7 DEF Injection, IsInjective
  <2> HIDE DEF n
  <2>3. n \in Int /\ 1 \in Int
    BY <1>1
  <2>4. IsFiniteSet(1 .. n) /\ Cardinality(1 .. n) = IF 1 > n THEN 0 ELSE n - 1 + 1
    BY <2>3, FS_Interval
  <2>5. IsFiniteSet(1 .. n) /\ Cardinality(1 .. n) = Cardinality(S)
    BY <1>1, <2>4 DEF n
  <2>6. rank \in Surjection(S, 1 .. n)
    BY <2>2, <2>5, FS_Injection
  <2>. QED BY <2>6 DEF Surjection
<1>9. \A k \in 1 .. n : q[k] \in S /\ rank[q[k]] = k
  BY <1>8
<1>10. q \in [1 .. n -> S]
  BY <1>9
<1>11. Ascending(q, R)
  <2> SUFFICES ASSUME NEW i \in 1 .. n, NEW j \in 1 .. n, i < j PROVE <<q[i], q[j]>> \in R
    BY <1>10 DEF Ascending
  <2> HIDE DEF q
  <2>1. q[i] \in S /\ q[j] \in S /\ rank[q[i]] = i /\ rank[q[j]] = j
    BY <1>9
  <2>2. q[i] # q[j]
    BY <2>1
  <2>3. <<q[j], q[i]>> \in R => j < i
    BY <2>1, <1>6
  <2>4. <<q[j], q[i]>> \notin R
    BY <2>3, <1>1
  <2>. QED BY <2>1, <2>2, <2>4 DEF Orders
<1>. QED BY <1>10, <1>11

\* InOrder has every member once.
LEMMA InOrderHasAll ==
    ASSUME NEW S, IsFiniteSet(S), NEW R, Orders(R, S)
    PROVE  /\ Cardinality(S) \in Nat
           /\ InOrder(S, R) \in [1 .. Cardinality(S) -> S]
           /\ Ascending(InOrder(S, R), R)
           /\ \A x \in S : \E k \in 1 .. Cardinality(S) : InOrder(S, R)[k] = x
<1> DEFINE n == Cardinality(S)
           q == InOrder(S, R)
<1>1. n \in Nat
  BY FS_CardinalityType
<1>2. q \in [1 .. n -> S] /\ Ascending(q, R)
  BY OrderedSequence DEF InOrder, Ascending
<1> HIDE DEF q
<1>3. \A i, j \in 1 .. n : q[i] = q[j] => i = j
  <2> SUFFICES ASSUME NEW i \in 1 .. n, NEW j \in 1 .. n, i # j PROVE q[i] # q[j]
    OBVIOUS
  <2>1. i < j \/ j < i
    BY <1>1
  <2>2. <<q[i], q[j]>> \in R \/ <<q[j], q[i]>> \in R
    BY <1>2, <2>1 DEF Ascending
  <2>. QED BY <2>2, <1>2 DEF Orders
<1>4. q \in Injection(1 .. n, S)
  BY <1>2, <1>3 DEF Injection, IsInjective
<1>5. IsFiniteSet(1 .. n) /\ Cardinality(1 .. n) = Cardinality(S)
  <2> HIDE DEF n
  <2>1. n \in Int /\ 1 \in Int
    BY <1>1
  <2>2. IsFiniteSet(1 .. n) /\ Cardinality(1 .. n) = IF 1 > n THEN 0 ELSE n - 1 + 1
    BY <2>1, FS_Interval
  <2>. QED BY <1>1, <2>2 DEF n
<1>6. q \in Surjection(1 .. n, S)
  BY <1>4, <1>5, FS_Injection
<1>7. \A x \in S : \E k \in 1 .. n : q[k] = x
  BY <1>6 DEF Surjection
<1>. QED BY <1>1, <1>2, <1>7 DEF q

\* What is not repeated has everything that was there.
LEMMA DistinctHasAll ==
    ASSUME NEW T, NEW s \in Seq(T)
    PROVE  /\ Distinct(s) \in Seq(T)
           /\ \A k \in DOMAIN s : s[k] \in Range(Distinct(s))
<1> DEFINE first == {i \in DOMAIN s : \A j \in DOMAIN s : j < i => s[j] # s[i]}
           before == {p \in first \X first : p[1] < p[2]}
           order == InOrder(first, before)
           n == Cardinality(first)
<1>1. Len(s) \in Nat /\ DOMAIN s = 1 .. Len(s) /\ \A i \in 1 .. Len(s) : s[i] \in T
  OBVIOUS
<1>2. IsFiniteSet(1 .. Len(s))
  BY <1>1, FS_Interval
<1>3. first \subseteq 1 .. Len(s) /\ IsFiniteSet(first)
  BY <1>1, <1>2, FS_Subset
<1>4. \A i, j \in first : <<i, j>> \in before <=> i < j
  OBVIOUS
<1>5. \A i \in first : i \in Nat
  BY <1>1, <1>3
<1>6. Distinct(s) = [k \in DOMAIN order |-> s[order[k]]]
  BY DEF Distinct
<1>7. ASSUME NEW k \in DOMAIN s
      PROVE  \E i \in first : s[i] = s[k]
  <2> DEFINE C == {j \in DOMAIN s : s[j] = s[k]}
  <2>1. C \in SUBSET Nat /\ C # {}
    BY <1>1
  <2> HIDE DEF C
  <2>2. PICK i \in C : \A m \in C : i <= m
    BY <2>1, LeastNatural
  <2>3. i \in DOMAIN s /\ s[i] = s[k]
    BY <2>2 DEF C
  <2>4. \A j \in DOMAIN s : j < i => s[j] # s[i]
    <3> SUFFICES ASSUME NEW j \in DOMAIN s, j < i, s[j] = s[i] PROVE FALSE
      OBVIOUS
    <3>1. j \in C
      BY <2>3 DEF C
    <3>2. i <= j
      BY <2>2, <3>1
    <3>. QED BY <3>2, <1>1, <2>3
  <2>. QED BY <2>3, <2>4
<1> HIDE DEF first, before
<1>8. Orders(before, first)
  BY <1>4, <1>5 DEF Orders
<1>9. /\ n \in Nat /\ order \in [1 .. n -> first]
      /\ \A x \in first : \E k \in 1 .. n : order[k] = x
  BY <1>3, <1>8, InOrderHasAll
<1> HIDE DEF order, n
<1>10. Distinct(s) \in [1 .. n -> T]
  BY <1>1, <1>3, <1>6, <1>9
<1>11. Distinct(s) \in Seq(T)
  BY <1>9, <1>10
<1>12. ASSUME NEW k \in DOMAIN s PROVE s[k] \in Range(Distinct(s))
  <2>1. PICK i \in first : s[i] = s[k]
    BY <1>7
  <2>2. PICK m \in 1 .. n : order[m] = i
    BY <1>9
  <2>3. Distinct(s)[m] = s[k] /\ m \in DOMAIN Distinct(s)
    BY <1>6, <1>9, <2>1, <2>2
  <2>. QED BY <2>3 DEF Range
<1>. QED BY <1>11, <1>12

\* A listing of reports: the title, time and size tell which are the same.
Row == [id : Nat, title : STRING, size : Nat \cup {Unsized}, full : BOOLEAN]

\* Of every full report that is listed, it or another listing of it is kept.
LEMMA ReportsHasAll ==
    ASSUME NEW listed \in Seq(Row)
    PROVE  /\ Reports(listed) \in Seq(Row)
           /\ \A k \in DOMAIN Reports(listed) :
                \E i \in DOMAIN listed : Reports(listed)[k] = listed[i]
           /\ \A i \in DOMAIN listed : listed[i].full =>
                \E b \in Range(Reports(listed)) : b = listed[i] \/ SameReport(listed[i], b)
<1> DEFINE full == {i \in DOMAIN listed : listed[i].full}
           before == {p \in full \X full :
                        \/ listed[p[1]].id < listed[p[2]].id
                        \/ listed[p[1]].id = listed[p[2]].id /\ p[1] < p[2]}
           first == {i \in full : \A j \in full :
                        <<j, i>> \in before => ~SameReport(listed[j], listed[i])}
           order == InOrder(first, before)
           n == Cardinality(first)
<1>1. /\ Len(listed) \in Nat /\ DOMAIN listed = 1 .. Len(listed)
      /\ \A i \in 1 .. Len(listed) : listed[i] \in Row
  OBVIOUS
<1>2. IsFiniteSet(1 .. Len(listed))
  BY <1>1, FS_Interval
<1>3. /\ full \subseteq DOMAIN listed /\ IsFiniteSet(full)
      /\ first \subseteq full /\ IsFiniteSet(first)
  <2>1. full \subseteq 1 .. Len(listed) /\ first \subseteq full
    BY <1>1
  <2>. QED BY <1>1, <1>2, <2>1, FS_Subset
<1>4. \A i \in full : i \in Nat /\ listed[i].id \in Nat
  BY <1>1 DEF Row
<1>5. \A i, j \in full :
          <<i, j>> \in before <=> \/ listed[i].id < listed[j].id
                                \/ (listed[i].id = listed[j].id /\ i < j)
  OBVIOUS
<1>6. Reports(listed) = [k \in DOMAIN order |-> listed[order[k]]]
  BY DEF Reports
<1>7. \A i \in full :
          \/ i \in first
          \/ \E j \in full : <<j, i>> \in before /\ SameReport(listed[j], listed[i])
  OBVIOUS
<1>8. \A i \in DOMAIN listed : listed[i].full => i \in full
  OBVIOUS
<1> HIDE DEF full, before, first
<1>9. Orders(before, full)
  <2>1. \A x \in full : <<x, x>> \notin before
    BY <1>4, <1>5
  <2>2. \A x, y \in full : x # y => <<x, y>> \in before \/ <<y, x>> \in before
    BY <1>4, <1>5
  <2>3. \A x, y, z \in full : <<x, y>> \in before /\ <<y, z>> \in before => <<x, z>> \in before
    BY <1>4, <1>5
  <2>. QED BY <2>1, <2>2, <2>3 DEF Orders
<1>10. Orders(before, first)
  BY <1>3, <1>9 DEF Orders
<1>11. /\ n \in Nat /\ order \in [1 .. n -> first]
       /\ \A x \in first : \E k \in 1 .. n : order[k] = x
  BY <1>3, <1>10, InOrderHasAll
<1>12. ASSUME NEW i \in full
       PROVE  \E j \in first : j = i \/ SameReport(listed[i], listed[j])
  <2> DEFINE m == Cardinality(full)
             q == InOrder(full, before)
             C == {k \in 1 .. m : q[k] = i \/ SameReport(listed[i], listed[q[k]])}
  <2>1. /\ m \in Nat /\ q \in [1 .. m -> full] /\ Ascending(q, before)
        /\ \A x \in full : \E k \in 1 .. m : q[k] = x
    BY <1>3, <1>9, InOrderHasAll
  <2> HIDE DEF q, m
  <2>2. C \in SUBSET Nat /\ C # {}
    BY <2>1
  <2> HIDE DEF C
  <2>3. PICK k \in C : \A l \in C : k <= l
    BY <2>2, LeastNatural
  <2>4. k \in 1 .. m /\ q[k] \in full /\ (q[k] = i \/ SameReport(listed[i], listed[q[k]]))
    BY <2>1, <2>3 DEF C
  <2>5. ASSUME NEW j \in full, <<j, q[k]>> \in before, SameReport(listed[j], listed[q[k]])
        PROVE  FALSE
    <3>1. j = i \/ SameReport(listed[i], listed[j])
      BY <2>4, <2>5 DEF SameReport
    <3>2. PICK l \in 1 .. m : q[l] = j
      BY <2>1
    <3>3. l \in C
      BY <3>1, <3>2 DEF C
    <3>4. k <= l
      BY <2>3, <3>3
    <3>5. k # l
      BY <2>4, <2>5, <3>2, <1>9 DEF Orders
    <3>6. k < l
      BY <2>1, <2>4, <3>4, <3>5
    <3>7. <<q[k], j>> \in before
      BY <2>1, <2>4, <3>2, <3>6 DEF Ascending
    <3>. QED BY <2>4, <2>5, <3>7, <1>9 DEF Orders
  <2>6. q[k] \in first
    BY <2>4, <2>5, <1>7
  <2>. QED BY <2>4, <2>6
<1> HIDE DEF order, n
<1>13. Reports(listed) \in [1 .. n -> Row] /\ \A k \in 1 .. n : order[k] \in DOMAIN listed
  BY <1>1, <1>3, <1>6, <1>11
<1>14. Reports(listed) \in Seq(Row)
  BY <1>11, <1>13
<1>15. \A k \in DOMAIN Reports(listed) : \E i \in DOMAIN listed : Reports(listed)[k] = listed[i]
  BY <1>6, <1>11, <1>13
<1>16. ASSUME NEW i \in DOMAIN listed, listed[i].full
       PROVE  \E b \in Range(Reports(listed)) : b = listed[i] \/ SameReport(listed[i], b)
  <2>1. PICK j \in first : j = i \/ SameReport(listed[i], listed[j])
    BY <1>8, <1>12, <1>16
  <2>2. PICK k \in 1 .. n : order[k] = j
    BY <1>11
  <2>3. Reports(listed)[k] = listed[j] /\ k \in DOMAIN Reports(listed)
    BY <1>6, <1>11, <2>2
  <2>4. listed[j] \in Range(Reports(listed))
    BY <2>3 DEF Range
  <2>. QED BY <2>1, <2>4
<1>. QED BY <1>14, <1>15, <1>16

--------------------------------------------------------------------------------
(* The steps of a batch.                                                                *)

Kinds == {"stock_list", "announcement_query", "report_file", "company_type_page",
          "statement_periods", "statement_data"}
Asked == [kind : Kinds, of : Nat, about : Seq(STRING)]
Answered == [code : Nat, good : BOOLEAN, rows : Seq(Row) \cup Seq(STRING),
             total : Nat \cup {NoTotal}]
ArchivedItem == [request : Asked, response : Answered]

Active == at \in {"asking", "archiving", "using"}

\* The parts of SucceededIsWhole: the last page, a report and the data of a statement are there.
FinalPage ==
    \E p \in 1 .. MaxPages :
        /\ \A q \in 1 .. p : Readable(Page(q)) # {}
        /\ \E i \in Readable(Page(p)) :
             LET r == items[i].response IN
             r.total = NoTotal \/ r.rows = <<>> \/ p * PageSize >= r.total

Taken(b) ==
    \/ \E i \in Archived(Report(b)) : items[i].response.code < 400
    \/ Report(b) \in skipped

AllTaken ==
    \A a \in {a \in Announced : a.full} :
        \E b \in Announced : (b = a \/ SameReport(a, b)) /\ Taken(b)

ReportThere ==
    \E i \in DOMAIN items : items[i].request.kind = "report_file" /\ items[i].response.code < 400

HasData(n, period) ==
    \E j \in DOMAIN items :
        /\ items[j].request.kind = "statement_data" /\ items[j].request.of = n
        /\ j \in Readable(items[j].request) /\ items[j].response.rows # <<>>
        /\ period \in Range(items[j].request.about)

StatementDone(n) ==
    \E i \in Readable(PeriodsOf(n)) :
        /\ items[i].response.rows # <<>>
        /\ \A k \in DOMAIN items[i].response.rows : HasData(n, items[i].response.rows[k])

Whole == FinalPage /\ AllTaken /\ ReportThere /\ \A n \in 1 .. Statements : StatementDone(n)

\* Where a batch is, by what it asks for.  What the pages list has been found; of what was
\* found, and of the periods listed for a statement, all is there, asked for or left to do.
PagesFound ==
    /\ found \in Seq(Row)
    /\ Range(found) \subseteq Announced
    /\ \A a \in Announced :
          \/ a \in Range(found)
          \/ /\ at = "using" /\ request.kind = "announcement_query"
             /\ a \in Range(answer.rows)

ReadUpTo(p) == p \in 1 .. MaxPages /\ \A q \in 1 .. (p - 1) : Readable(Page(q)) # {}

ReportsLeft(left, r) ==
    \A a \in {a \in Announced : a.full} :
        \E b \in Announced :
            /\ b = a \/ SameReport(a, b)
            /\ Taken(b) \/ b \in Range(left) \/ r = Report(b)

PeriodsLeft(n, left, about) ==
    \E i \in Readable(PeriodsOf(n)) :
        /\ items[i].response.rows # <<>>
        /\ \A k \in DOMAIN items[i].response.rows :
              \/ HasData(n, items[i].response.rows[k])
              \/ items[i].response.rows[k] \in Range(left)
              \/ items[i].response.rows[k] \in Range(about)

AtPages ==
    /\ PagesFound
    /\ request = StockList \/ \E p \in 1 .. MaxPages : request = Page(p) /\ ReadUpTo(p)

AtReports ==
    /\ FinalPage /\ todo \in Seq(Row) /\ ReportsLeft(todo, request)
    /\ downloaded \in Nat /\ (downloaded > 0 => ReportThere)
    /\ \E b \in Row : request = Report(b)

AtStatements ==
    /\ FinalPage /\ AllTaken /\ ReportThere
    /\ \/ request = CompanyType
       \/ \E n \in 1 .. Statements :
            /\ \A m \in 1 .. (n - 1) : StatementDone(m)
            /\ \/ request = PeriodsOf(n)
               \/ \E about \in Seq(STRING) :
                     request = Data(n, about) /\ todo \in Seq(STRING) /\ PeriodsLeft(n, todo, about)

CollectInv ==
    /\ items \in Seq(ArchivedItem)
    /\ Active => AtPages \/ AtReports \/ AtStatements
    /\ at \in {"archiving", "using"} => answer \in Responses(request)
    /\ at = "using" => (/\ Len(items) \in DOMAIN items
                        /\ items[Len(items)] = [request |-> request, response |-> answer])
    /\ (at = "finishing" /\ outcome = "succeeded") => Whole
    /\ status = "succeeded" => (at = "ended" /\ Whole)

LEMMA AnnouncedIsListed ==
    \A a : a \in Announced <=>
        \E i \in DOMAIN items :
            /\ items[i].request.kind = "announcement_query"
            /\ \E k \in DOMAIN items[i].response.rows : a = items[i].response.rows[k]
BY DEF Announced

LEMMA AnnouncedThen ==
    \A a : a \in Announced' <=>
        \E i \in DOMAIN items' :
            /\ items'[i].request.kind = "announcement_query"
            /\ \E k \in DOMAIN items'[i].response.rows : a = items'[i].response.rows[k]
BY DEF Announced

LEMMA CollectInitInv == CollectInit => CollectInv
<1> SUFFICES ASSUME CollectInit PROVE CollectInv
  OBVIOUS
<1>1. items = <<>> /\ found = <<>> /\ at = "asking" /\ status = "running" /\ request = StockList
  BY DEF CollectInit
<1>2. Announced = {}
  BY <1>1, AnnouncedIsListed
<1>3. PagesFound
  BY <1>1, <1>2 DEF PagesFound, Range
<1>. QED BY <1>1, <1>3 DEF CollectInv, AtPages, Active

\* An answer is one that the request may get.
LEMMA AnswersTyped ==
    ASSUME NEW r, NEW a \in Responses(r)
    PROVE  /\ a \in Answered /\ a.code \in {200, 404, 503}
           /\ r.kind = "announcement_query" => a.rows \in Seq(Row)
           /\ r.kind \in {"statement_periods", "statement_data"} => a.rows \in Seq(STRING)
<1>1. <<>> \in Seq(Row) /\ <<>> \in Seq(STRING) /\ <<>> \in Seq(Row) \cup Seq(STRING)
  OBVIOUS
<1>2. /\ {200, 404, 503} \subseteq Nat
      /\ Seq(Row) \subseteq Seq(Row) \cup Seq(STRING)
      /\ Seq(STRING) \subseteq Seq(Row) \cup Seq(STRING)
  OBVIOUS
<1> DEFINE Plain == /\ a \in Answered /\ a.code \in {200, 404, 503}
                    /\ a.rows \in Seq(Row) /\ a.rows \in Seq(STRING)
<1>3. /\ a = Response(404, FALSE, <<>>, NoTotal) => Plain
      /\ a = Response(503, FALSE, <<>>, NoTotal) => Plain
      /\ a = Response(200, FALSE, <<>>, NoTotal) => Plain
      /\ a = Response(200, TRUE, <<>>, NoTotal) => Plain
  <2>1. ASSUME NEW c \in {200, 404, 503}, NEW g \in BOOLEAN,
               a = [code |-> c, good |-> g, rows |-> <<>>, total |-> NoTotal]
        PROVE  Plain
    <3>1. c \in Nat /\ NoTotal \in Nat \cup {NoTotal}
      OBVIOUS
    <3>2. a \in Answered
      BY <1>1, <2>1, <3>1 DEF Answered
    <3>3. a.code = c /\ a.rows = <<>>
      BY <2>1
    <3>. QED BY <1>1, <3>2, <3>3
  <2> HIDE DEF Plain
  <2>2. a = Response(404, FALSE, <<>>, NoTotal) => Plain
    <3>1. 404 \in {200, 404, 503} /\ FALSE \in BOOLEAN
      OBVIOUS
    <3>. QED BY <2>1, <3>1 DEF Response
  <2>3. a = Response(503, FALSE, <<>>, NoTotal) => Plain
    <3>1. 503 \in {200, 404, 503} /\ FALSE \in BOOLEAN
      OBVIOUS
    <3>. QED BY <2>1, <3>1 DEF Response
  <2>4. a = Response(200, FALSE, <<>>, NoTotal) => Plain
    <3>1. 200 \in {200, 404, 503} /\ FALSE \in BOOLEAN
      OBVIOUS
    <3>. QED BY <2>1, <3>1 DEF Response
  <2>5. a = Response(200, TRUE, <<>>, NoTotal) => Plain
    <3>1. 200 \in {200, 404, 503} /\ TRUE \in BOOLEAN
      OBVIOUS
    <3>. QED BY <2>1, <3>1 DEF Response
  <2>. QED BY <2>2, <2>3, <2>4, <2>5
<1>4. CASE r.kind = "announcement_query"
  <2>1. ASSUME NEW listed \in Listings, NEW total \in Totals, a = Response(200, TRUE, listed, total)
        PROVE  a \in Answered /\ a.code \in {200, 404, 503} /\ a.rows \in Seq(Row)
    <3>1. listed \in Seq(Row) /\ total \in Nat \cup {NoTotal}
      BY CollectLimitsAssumption DEF Row
    <3>2. listed \in Seq(Row) \cup Seq(STRING)
      BY <3>1
    <3>3. a = [code |-> 200, good |-> TRUE, rows |-> listed, total |-> total]
      BY <2>1 DEF Response
    <3>. QED BY <3>1, <3>2, <3>3 DEF Answered
  <2>2. CASE \E listed \in Listings, total \in Totals : a = Response(200, TRUE, listed, total)
    <3>1. PICK listed \in Listings, total \in Totals : a = Response(200, TRUE, listed, total)
      BY <2>2
    <3>. QED BY <1>4, <2>1, <3>1
  <2>3. CASE ~\E listed \in Listings, total \in Totals : a = Response(200, TRUE, listed, total)
    <3>0. r.kind # "report_file" /\ r.kind = "announcement_query"
      BY <1>4
    <3>1. a \in {Response(404, FALSE, <<>>, NoTotal), Response(503, FALSE, <<>>, NoTotal),
                  Response(200, FALSE, <<>>, NoTotal)}
      BY <3>0, <2>3 DEF Responses, Response
    <3>. QED BY <1>3, <1>4, <3>1
  <2>. QED BY <2>2, <2>3
<1>5. CASE r.kind \in {"statement_periods", "statement_data"}
  <2>1. ASSUME NEW listed \in PeriodLists, a = Response(200, TRUE, listed, NoTotal)
        PROVE  a \in Answered /\ a.code \in {200, 404, 503} /\ a.rows \in Seq(STRING)
    <3>1. listed \in Seq(STRING)
      BY CollectLimitsAssumption
    <3>2. listed \in Seq(Row) \cup Seq(STRING)
      BY <3>1
    <3>3. a = [code |-> 200, good |-> TRUE, rows |-> listed, total |-> NoTotal]
      BY <2>1 DEF Response
    <3>. QED BY <3>1, <3>2, <3>3 DEF Answered
  <2>2. CASE \E listed \in PeriodLists : a = Response(200, TRUE, listed, NoTotal)
    <3>1. PICK listed \in PeriodLists : a = Response(200, TRUE, listed, NoTotal)
      BY <2>2
    <3>. QED BY <1>5, <2>1, <3>1
  <2>3. CASE ~\E listed \in PeriodLists : a = Response(200, TRUE, listed, NoTotal)
    <3>0. /\ r.kind # "report_file" /\ r.kind # "announcement_query"
          /\ r.kind \in {"statement_periods", "statement_data"}
      BY <1>5
    <3>1. a \in {Response(404, FALSE, <<>>, NoTotal), Response(503, FALSE, <<>>, NoTotal),
                  Response(200, FALSE, <<>>, NoTotal)}
      BY <3>0, <2>3 DEF Responses, Response
    <3>. QED BY <1>3, <1>5, <3>1
  <2>. QED BY <2>2, <2>3
<1>6. CASE r.kind \notin {"announcement_query", "statement_periods", "statement_data"}
  <2>1. a \in {Response(404, FALSE, <<>>, NoTotal), Response(503, FALSE, <<>>, NoTotal),
                Response(200, FALSE, <<>>, NoTotal), Response(200, TRUE, <<>>, NoTotal)}
    BY <1>6 DEF Responses, Response
  <2>. QED BY <1>3, <1>6, <2>1
<1>. QED BY <1>4, <1>5, <1>6

\* What is archived stays, and what was skipped.
Grows ==
    /\ items \in Seq(ArchivedItem) /\ items' \in Seq(ArchivedItem)
    /\ \A i \in DOMAIN items : i \in DOMAIN items' /\ items'[i] = items[i]
    /\ skipped \subseteq skipped'

LEMMA FactsStay ==
    ASSUME Grows
    PROVE  /\ \A r : Readable(r) \subseteq Readable(r)'
           /\ FinalPage => FinalPage'
           /\ ReportThere => ReportThere'
           /\ \A b : Taken(b) => Taken(b)'
           /\ \A n, period : HasData(n, period) => HasData(n, period)'
           /\ \A n : StatementDone(n) => StatementDone(n)'
           /\ \A n, left, about : PeriodsLeft(n, left, about) => PeriodsLeft(n, left, about)'
           /\ \A p : ReadUpTo(p) => ReadUpTo(p)'
<1>1. \A i \in DOMAIN items : i \in DOMAIN items' /\ items'[i] = items[i]
  BY DEF Grows
<1>2. \A r : \A i \in Archived(r) : i \in Archived(r)' /\ i \in DOMAIN items
  BY <1>1 DEF Archived
<1>3. \A r : \A i \in Readable(r) : /\ i \in Readable(r)' /\ items'[i] = items[i]
                                    /\ i \in DOMAIN items
  BY <1>1, <1>2 DEF Readable
<1>4. \A n, period : HasData(n, period) => HasData(n, period)'
  BY <1>1, <1>3 DEF HasData
<1>5. FinalPage => FinalPage'
  BY <1>3 DEF FinalPage
<1>6. ReportThere => ReportThere'
  BY <1>1 DEF ReportThere
<1>7. \A b : Taken(b) => Taken(b)'
  BY <1>1, <1>2 DEF Taken, Grows
<1>8. \A n : StatementDone(n) => StatementDone(n)'
  BY <1>3, <1>4 DEF StatementDone
<1>9. \A n, left, about : PeriodsLeft(n, left, about) => PeriodsLeft(n, left, about)'
  BY <1>3, <1>4 DEF PeriodsLeft
<1>10. \A p : ReadUpTo(p) => ReadUpTo(p)'
  BY <1>3 DEF ReadUpTo
<1>. QED BY <1>3, <1>4, <1>5, <1>6, <1>7, <1>8, <1>9, <1>10

\* The steps that go on: a batch that is about to fail has nothing to show, one that
\* asks on must be at one of the three places.
LEMMA Failing ==
    ASSUME Grows, status' = status, status # "succeeded", at' = "finishing",
           outcome' = "failed"
    PROVE  CollectInv'
BY DEF CollectInv, Active, Grows

LEMMA GoesOn ==
    ASSUME Grows, status' = status, status # "succeeded", at' = "asking",
           (AtPages \/ AtReports \/ AtStatements)'
    PROVE  CollectInv'
BY DEF CollectInv, Active, Grows

\* Of the full reports that are announced, all is there or among what is left.
Remaining(left) ==
    \A a \in {a \in Announced : a.full} :
        \E b \in Announced :
            /\ b = a \/ SameReport(a, b)
            /\ Taken(b) \/ b \in Range(left)

LEMMA ReportsGoOn ==
    ASSUME Grows, status' = status, status # "succeeded",
           NEW left \in Seq(Row), NEW had \in Nat,
           FinalPage', had > 0 => ReportThere', Remaining(left)', NextReport(left, had)
    PROVE  CollectInv'
<1>1. CASE left # <<>>
  <2>1. Head(left) \in Row /\ Tail(left) \in Seq(Row)
    BY <1>1
  <2>2. \A b \in Range(left) : b = Head(left) \/ b \in Range(Tail(left))
    <3> SUFFICES ASSUME NEW k \in 1 .. Len(left), left[k] # Head(left)
                 PROVE  left[k] \in Range(Tail(left))
      BY DEF Range
    <3>1. k - 1 \in 1 .. Len(Tail(left)) /\ Tail(left)[k - 1] = left[k]
      BY <1>1
    <3>2. k - 1 \in DOMAIN Tail(left)
      BY <3>1, <2>1
    <3>. QED BY <3>1, <3>2 DEF Range
  <2>3. Ask(Report(Head(left))) /\ todo' = Tail(left) /\ downloaded' = had
    BY <1>1 DEF NextReport
  <2>4. CASE at' = "finishing" /\ outcome' = "failed"
    BY <2>4, Failing
  <2>5. CASE at' = "asking" /\ request' = Report(Head(left))
    <3>1. ReportsLeft(todo, request)'
      BY <2>2, <2>3, <2>5 DEF Remaining, ReportsLeft
    <3>2. AtReports'
      BY <2>1, <2>3, <2>5, <3>1 DEF AtReports
    <3>. QED BY <2>5, <3>2, GoesOn
  <2>. QED BY <2>3, <2>4, <2>5 DEF Ask
<1>2. CASE left = <<>>
  <2>1. AllTaken'
    BY <1>2 DEF Remaining, AllTaken, Range
  <2>2. CASE had = 0
    BY <1>2, <2>2, Failing DEF NextReport, End
  <2>3. CASE had # 0
    <3>1. Ask(CompanyType) /\ ReportThere'
      BY <1>2, <2>3 DEF NextReport
    <3>2. CASE at' = "asking" /\ request' = CompanyType
      <4>1. AtStatements'
        BY <2>1, <3>1, <3>2 DEF AtStatements
      <4>. QED BY <3>2, <4>1, GoesOn
    <3>. QED BY <3>1, <3>2, Failing DEF Ask
  <2>. QED BY <2>2, <2>3
<1>. QED BY <1>1, <1>2

LEMMA DataGoesOn ==
    ASSUME Grows, status' = status, status # "succeeded",
           NEW n \in 1 .. Statements, NEW ps \in Seq(STRING),
           FinalPage', AllTaken', ReportThere',
           \A m \in 1 .. (n - 1) : StatementDone(m)',
           PeriodsLeft(n, ps, <<>>)', NextData(n, ps)
    PROVE  CollectInv'
<1>0. Statements \in Nat \ {0} /\ PeriodBatch \in Nat \ {0}
  BY CollectLimitsAssumption
<1>1. CASE ps # <<>>
  <2> DEFINE k == IF Len(ps) < PeriodBatch THEN Len(ps) ELSE PeriodBatch
             batch == SubSeq(ps, 1, k)
             later == SubSeq(ps, k + 1, Len(ps))
  <2>1. k \in 1 .. Len(ps)
    BY <1>0, <1>1
  <2>2. Ask(Data(n, batch)) /\ todo' = later
    BY <1>1 DEF NextData
  <2> HIDE DEF k
  <2>3. batch \in Seq(STRING) /\ later \in Seq(STRING) /\ Len(batch) = k /\ Len(later) = Len(ps) - k
    BY <2>1
  <2>4. \A i \in 1 .. k : batch[i] = ps[i]
    BY <2>1
  <2>5. \A i \in 1 .. (Len(ps) - k) : later[i] = ps[i + k]
    BY <2>1
  <2> HIDE DEF batch, later
  <2>6. \A x \in Range(ps) : x \in Range(batch) \/ x \in Range(later)
    <3> SUFFICES ASSUME NEW i \in 1 .. Len(ps)
                 PROVE  ps[i] \in Range(batch) \/ ps[i] \in Range(later)
      BY DEF Range
    <3>1. CASE i <= k
      BY <2>1, <2>3, <2>4, <3>1 DEF Range
    <3>2. CASE i > k
      <4>1. i - k \in 1 .. (Len(ps) - k) /\ (i - k) + k = i
        BY <2>1, <3>2
      <4>2. later[i - k] = ps[i] /\ i - k \in DOMAIN later
        BY <2>3, <2>5, <4>1
      <4>. QED BY <4>2 DEF Range
    <3>. QED BY <2>1, <3>1, <3>2
  <2>7. \A x \in Range(<<>>) : FALSE
    BY DEF Range
  <2>8. PeriodsLeft(n, later, batch)'
    BY <2>6, <2>7 DEF PeriodsLeft
  <2>9. CASE at' = "finishing" /\ outcome' = "failed"
    BY <2>9, Failing
  <2>10. CASE at' = "asking" /\ request' = Data(n, batch)
    <3>2. (\E about \in Seq(STRING) :
             request = Data(n, about) /\ todo \in Seq(STRING) /\ PeriodsLeft(n, todo, about))'
      BY <2>2, <2>3, <2>8, <2>10 DEF PeriodsLeft
    <3>3. AtStatements'
      BY <3>2 DEF AtStatements
    <3>. QED BY <2>10, <3>3, GoesOn
  <2>. QED BY <2>2, <2>9, <2>10 DEF Ask
<1>2. CASE ps = <<>>
  <2>1. \A x \in Range(<<>>) : FALSE
    BY DEF Range
  <2>2. StatementDone(n)'
    BY <1>2, <2>1 DEF PeriodsLeft, StatementDone
  <2>3. CASE n < Statements
    <3>1. Ask(PeriodsOf(n + 1))
      BY <1>2, <2>3 DEF NextData
    <3>2. CASE at' = "asking" /\ request' = PeriodsOf(n + 1)
      <4>1. n + 1 \in 1 .. Statements /\ (n + 1) - 1 = n
        BY <1>0, <2>3
      <4>2. \A m \in 1 .. ((n + 1) - 1) : StatementDone(m)'
        <5>1. \A m \in 1 .. ((n + 1) - 1) : m = n \/ m \in 1 .. (n - 1)
          BY <1>0
        <5>. QED BY <2>2, <5>1
      <4>3. AtStatements'
        BY <3>2, <4>1, <4>2 DEF AtStatements
      <4>. QED BY <3>2, <4>3, GoesOn
    <3>. QED BY <3>1, <3>2, Failing DEF Ask
  <2>4. CASE ~(n < Statements)
    <3>1. End("succeeded")
      BY <1>2, <2>4 DEF NextData
    <3>2. \A m \in 1 .. Statements : m = n \/ m \in 1 .. (n - 1)
      BY <1>0, <2>4
    <3>3. Whole'
      BY <2>2, <3>2 DEF Whole
    <3>. QED BY <3>1, <3>3 DEF End, CollectInv, Active, Grows
  <2>. QED BY <2>3, <2>4
<1>. QED BY <1>1, <1>2

\* What the archived pages list does not change when nothing is archived.
LEMMA NothingAnnounced == ASSUME items' = items PROVE Announced' = Announced
BY DEF Announced

LEMMA WholeStays ==
    ASSUME Grows, items' = items
    PROVE  /\ AllTaken => AllTaken'
           /\ Whole => Whole'
           /\ \A left : Remaining(left) => Remaining(left)'
<1>1. Announced' = Announced
  BY NothingAnnounced
<1>2. AllTaken => AllTaken'
  BY <1>1, FactsStay DEF AllTaken
<1>3. \A left : Remaining(left) => Remaining(left)'
  BY <1>1, FactsStay DEF Remaining
<1>4. Whole => Whole'
  BY <1>2, FactsStay DEF Whole
<1>. QED BY <1>2, <1>3, <1>4

\* A place is kept by a step that neither asks nor archives.
LEMMA PlaceStays ==
    ASSUME Grows, UNCHANGED <<items, skipped, request, found, todo, downloaded>>,
           PagesFound => PagesFound'
    PROVE  /\ AtPages => AtPages'
           /\ AtReports => AtReports'
           /\ AtStatements => AtStatements'
<1>1. Announced' = Announced
  BY NothingAnnounced
<1>2. AtPages => AtPages'
  BY FactsStay DEF AtPages
<1>3. AtReports => AtReports'
  <2>1. ReportsLeft(todo, request) => ReportsLeft(todo, request)'
    BY <1>1, FactsStay DEF ReportsLeft
  <2>. QED BY <2>1, FactsStay DEF AtReports
<1>4. AtStatements => AtStatements'
  <2>1. \A n, about : PeriodsLeft(n, todo, about) => (PeriodsLeft(n, todo, about))'
    BY FactsStay DEF PeriodsLeft, Readable, Archived, HasData
  <2>. QED BY <2>1, FactsStay, WholeStays DEF AtStatements
<1>. QED BY <1>2, <1>3, <1>4

LEMMA Archives ==
    ASSUME items \in Seq(ArchivedItem),
           items' = Append(items, [request |-> request, response |-> answer])
    PROVE  /\ request.kind = "announcement_query" =>
                 Announced' = Announced \cup Range(answer.rows)
           /\ request.kind # "announcement_query" => Announced' = Announced
<1> DEFINE n == Len(items)
           new == [request |-> request, response |-> answer]
<1>1. n \in Nat /\ DOMAIN items = 1 .. n
  OBVIOUS
<1>2. /\ DOMAIN items' = 1 .. (n + 1) /\ items'[n + 1] = new
      /\ \A i \in 1 .. n : items'[i] = items[i]
  OBVIOUS
<1>3. new.request = request /\ new.response = answer
  OBVIOUS
<1> HIDE DEF n, new
<1>4. \A i \in 1 .. (n + 1) : i = n + 1 \/ i \in 1 .. n
  BY <1>1
<1>5. \A i \in 1 .. n : i \in 1 .. (n + 1)
  BY <1>1
<1>6. n + 1 \in 1 .. (n + 1)
  BY <1>1
<1>7. \A a : a \in Range(answer.rows) <=> \E k \in DOMAIN answer.rows : a = answer.rows[k]
  BY DEF Range
<1> DEFINE Lists(i, a) == /\ items[i].request.kind = "announcement_query"
                          /\ \E k \in DOMAIN items[i].response.rows : a = items[i].response.rows[k]
           ListsNow(i, a) == /\ items'[i].request.kind = "announcement_query"
                             /\ \E k \in DOMAIN items'[i].response.rows : a = items'[i].response.rows[k]
<1>8. \A a : a \in Announced <=> \E i \in 1 .. n : Lists(i, a)
  BY <1>1, AnnouncedIsListed
<1>9. \A a : a \in Announced' <=> \E i \in 1 .. (n + 1) : ListsNow(i, a)
  <2> SUFFICES ASSUME NEW a
               PROVE  a \in Announced' <=> \E i \in 1 .. (n + 1) : ListsNow(i, a)
    OBVIOUS
  <2>1. DOMAIN items' = 1 .. (n + 1)
    BY <1>2
  <2>2. a \in Announced' <=> \E i \in DOMAIN items' : ListsNow(i, a)
    <3>1. a \in Announced' <=>
            \E i \in DOMAIN items' :
                /\ items'[i].request.kind = "announcement_query"
                /\ \E k \in DOMAIN items'[i].response.rows : a = items'[i].response.rows[k]
      BY AnnouncedThen
    <3>. QED BY <3>1
  <2> HIDE DEF ListsNow
  <2>. QED BY <2>1, <2>2, Zenon
<1>10. \A a : \A i \in 1 .. n : Lists(i, a) <=> ListsNow(i, a)
  <2> SUFFICES ASSUME NEW a, NEW i \in 1 .. n PROVE Lists(i, a) <=> ListsNow(i, a)
    OBVIOUS
  <2>1. items'[i] = items[i]
    BY <1>2
  <2>. QED BY <2>1, Zenon
<1>11. \A a : ListsNow(n + 1, a) <=>
           (request.kind = "announcement_query" /\ a \in Range(answer.rows))
  <2>1. items'[n + 1].request = request /\ items'[n + 1].response = answer
    BY <1>2, <1>3
  <2>. QED BY <2>1, <1>7, Zenon
<1> HIDE DEF Lists, ListsNow
<1>12. \A a : a \in Announced' <=>
           (a \in Announced \/ (request.kind = "announcement_query" /\ a \in Range(answer.rows)))
  BY <1>4, <1>5, <1>6, <1>8, <1>9, <1>10, <1>11
<1>. QED BY <1>12

\* There is no answer: a report is given up and recorded, anything else fails the batch.
LEMMA GiveUpGoesOn ==
    ASSUME CollectInv, Active, GiveUp, items' = items, status' = status
    PROVE  CollectInv'
<1>1. items \in Seq(ArchivedItem) /\ status # "succeeded" /\ (AtPages \/ AtReports \/ AtStatements)
  BY DEF CollectInv, Active
<1>2. CASE request.kind # "report_file"
  <2>1. Grows
    BY <1>1, <1>2 DEF GiveUp, Grows
  <2>. QED BY <1>1, <1>2, <2>1, Failing DEF GiveUp, End
<1>3. CASE request.kind = "report_file"
  <2>1. AtReports
    BY <1>1, <1>3 DEF AtPages, AtStatements, StockList, Page, CompanyType, PeriodsOf, Data
  <2>2. skipped' = skipped \cup {request} /\ NextReport(todo, downloaded)
    BY <1>3 DEF GiveUp
  <2>3. Grows
    BY <1>1, <2>2 DEF Grows
  <2>4. PICK left \in Seq(Row), had \in Nat : left = todo /\ had = downloaded
    BY <2>1 DEF AtReports
  <2>5. Remaining(left)'
    <3>1. Announced' = Announced
      BY NothingAnnounced
    <3>2. \A b : request = Report(b) => Taken(b)'
      BY <2>2 DEF Taken
    <3>. QED BY <2>1, <2>3, <2>4, <3>1, <3>2, FactsStay DEF Remaining, AtReports, ReportsLeft
  <2>6. FinalPage' /\ (had > 0 => ReportThere')
    BY <2>1, <2>3, <2>4, FactsStay DEF AtReports
  <2>7. NextReport(left, had)
    BY <2>2, <2>4
  <2>. QED BY <1>1, <2>3, <2>5, <2>6, <2>7, ReportsGoOn
<1>. QED BY <1>2, <1>3

\* What the collector makes of a page, of a report and of the other lists.
LEMMA PageGoesOn ==
    ASSUME CollectInv, AtPages, at = "using", items' = items, skipped' = skipped,
           status' = status, answer.code < 400, answer.good,
           NEW p, request = Page(p), UsePage(p)
    PROVE  CollectInv'
<1> DEFINE listed == found \o answer.rows
           k == Len(items)
<1>1. /\ items \in Seq(ArchivedItem) /\ status # "succeeded" /\ answer \in Responses(request)
      /\ k \in DOMAIN items /\ items[k] = [request |-> request, response |-> answer]
  BY DEF CollectInv
<1>2. Grows
  BY <1>1 DEF Grows
<1>3. /\ request.kind = "announcement_query" /\ request.of = p
      /\ p \in 1 .. MaxPages /\ ReadUpTo(p)
  BY DEF AtPages, Page, StockList
<1>4. found \in Seq(Row) /\ answer.rows \in Seq(Row)
  BY <1>1, <1>3, AnswersTyped DEF AtPages, PagesFound
<1>5. MaxPages \in Nat \ {0}
  BY CollectLimitsAssumption
<1>6. k \in Readable(Page(p)) /\ items[k].response = answer
  BY <1>1 DEF Readable, Archived
<1>7. \A q \in 1 .. p : Readable(Page(q)) # {}
  <2>1. \A q \in 1 .. p : q = p \/ q \in 1 .. (p - 1)
    BY <1>3
  <2>. QED BY <1>3, <1>6, <2>1 DEF ReadUpTo
<1>8. listed \in Seq(Row) /\ Range(listed) = Range(found) \cup Range(answer.rows)
  <2>1. /\ listed \in Seq(Row) /\ Len(listed) = Len(found) + Len(answer.rows)
        /\ \A i \in 1 .. Len(listed) :
              listed[i] = IF i <= Len(found) THEN found[i] ELSE answer.rows[i - Len(found)]
    BY <1>4
  <2>2. /\ DOMAIN listed = 1 .. Len(listed) /\ DOMAIN found = 1 .. Len(found)
        /\ DOMAIN answer.rows = 1 .. Len(answer.rows)
        /\ Len(found) \in Nat /\ Len(answer.rows) \in Nat
    BY <1>4, <2>1
  <2> HIDE DEF listed
  <2>3. ASSUME NEW x \in Range(listed) PROVE x \in Range(found) \cup Range(answer.rows)
    <3>1. PICK i \in 1 .. Len(listed) : x = listed[i]
      BY <2>2, <2>3 DEF Range
    <3>2. CASE i <= Len(found)
      BY <2>1, <2>2, <3>1, <3>2 DEF Range
    <3>3. CASE ~(i <= Len(found))
      <4>1. i - Len(found) \in 1 .. Len(answer.rows) /\ x = answer.rows[i - Len(found)]
        BY <2>1, <2>2, <3>1, <3>3
      <4>. QED BY <2>2, <4>1 DEF Range
    <3>. QED BY <3>2, <3>3
  <2>4. ASSUME NEW i \in 1 .. Len(found) PROVE found[i] \in Range(listed)
    <3>1. i \in 1 .. Len(listed) /\ listed[i] = found[i]
      BY <2>1, <2>2
    <3>. QED BY <2>2, <3>1 DEF Range
  <2>5. ASSUME NEW i \in 1 .. Len(answer.rows) PROVE answer.rows[i] \in Range(listed)
    <3>1. i + Len(found) \in 1 .. Len(listed) /\ ~(i + Len(found) <= Len(found))
          /\ (i + Len(found)) - Len(found) = i
      BY <2>1, <2>2
    <3>2. listed[i + Len(found)] = answer.rows[i]
      BY <2>1, <3>1
    <3>. QED BY <2>2, <3>1, <3>2 DEF Range
  <2>6. Range(found) \subseteq Range(listed) /\ Range(answer.rows) \subseteq Range(listed)
    BY <2>2, <2>4, <2>5 DEF Range
  <2>. QED BY <2>1, <2>3, <2>6
<1>9. Announced' = Announced
  BY NothingAnnounced
<1>10. Range(listed) = Announced
  <2>1. Range(answer.rows) \subseteq Announced
    <3>1. \A a \in Range(answer.rows) : \E j \in DOMAIN answer.rows : a = answer.rows[j]
      BY DEF Range
    <3>. QED BY <1>1, <1>3, <1>6, <3>1, AnnouncedIsListed
  <2>. QED BY <1>8, <2>1 DEF AtPages, PagesFound
<1>11. found' = listed
  BY DEF UsePage
<1>12. CASE LastPage(p)
  <2>1. FinalPage
    BY <1>3, <1>6, <1>7, <1>12 DEF FinalPage, LastPage
  <2>2. CASE Reports(listed) = <<>>
    BY <1>1, <1>2, <1>12, <2>2, Failing DEF UsePage, End
  <2>3. CASE Reports(listed) # <<>>
    <3>1. NextReport(Reports(listed), 0)
      BY <1>12, <2>3 DEF UsePage
    <3>2. PICK left : left = Reports(listed)
      OBVIOUS
    <3>3. left \in Seq(Row)
      BY <1>8, <3>2, ReportsHasAll
    <3> HIDE DEF listed
    <3>4. ASSUME NEW a \in Announced, a.full
          PROVE  \E b \in Announced : (b = a \/ SameReport(a, b)) /\ b \in Range(left)
      <4>1. PICK i \in DOMAIN listed : a = listed[i]
        BY <1>10 DEF Range
      <4>2. PICK b \in Range(left) : b = a \/ SameReport(a, b)
        BY <1>8, <3>2, <3>4, <4>1, ReportsHasAll
      <4>3. PICK j \in DOMAIN left : b = left[j]
        BY <4>2 DEF Range
      <4>4. PICK m \in DOMAIN listed : left[j] = listed[m]
        BY <1>8, <3>2, <4>3, ReportsHasAll
      <4>5. b \in Announced
        BY <1>10, <4>3, <4>4 DEF Range
      <4>. QED BY <4>2, <4>5
    <3>5. Remaining(left)'
      BY <1>9, <3>4 DEF Remaining
    <3>6. FinalPage'
      BY <1>2, <2>1, FactsStay
    <3>7. NextReport(left, 0)
      BY <3>1, <3>2
    <3>. QED BY <1>1, <1>2, <3>3, <3>5, <3>6, <3>7, ReportsGoOn
  <2>. QED BY <2>2, <2>3
<1>13. CASE ~LastPage(p)
  <2>1. CASE p = MaxPages
    BY <1>1, <1>2, <1>13, <2>1, Failing DEF UsePage, End
  <2>2. CASE p # MaxPages
    <3>1. Ask(Page(p + 1))
      BY <1>13, <2>2 DEF UsePage
    <3>2. CASE at' = "asking" /\ request' = Page(p + 1)
      <4>1. p + 1 \in 1 .. MaxPages /\ (p + 1) - 1 = p
        BY <1>3, <1>5, <2>2
      <4>2. ReadUpTo(p + 1)
        BY <1>7, <4>1 DEF ReadUpTo
      <4>3. PICK q \in 1 .. MaxPages : q = p + 1
        BY <4>1
      <4>4. ReadUpTo(q)'
        BY <1>2, <4>2, <4>3, FactsStay
      <4> HIDE DEF listed
      <4>5. PagesFound'
        BY <1>8, <1>9, <1>10, <1>11 DEF PagesFound
      <4>6. AtPages'
        BY <3>2, <4>3, <4>4, <4>5 DEF AtPages
      <4>. QED BY <1>1, <1>2, <3>2, <4>6, GoesOn
    <3>. QED BY <1>1, <1>2, <3>1, <3>2, Failing DEF Ask
  <2>. QED BY <2>1, <2>2
<1>. QED BY <1>12, <1>13

LEMMA ReportGoesOn ==
    ASSUME CollectInv, AtReports, at = "using", items' = items, skipped' = skipped,
           status' = status, answer.code < 400, NextReport(todo, downloaded + 1)
    PROVE  CollectInv'
<1> DEFINE k == Len(items)
<1>1. /\ items \in Seq(ArchivedItem) /\ status # "succeeded"
      /\ k \in DOMAIN items /\ items[k] = [request |-> request, response |-> answer]
  BY DEF CollectInv
<1>2. Grows
  BY <1>1 DEF Grows
<1>3. \A b : request = Report(b) => Taken(b)
  BY <1>1 DEF Taken, Archived
<1>4. ReportThere
  <2>1. request.kind = "report_file"
    BY DEF AtReports, Report
  <2>. QED BY <1>1, <2>1 DEF ReportThere
<1>5. PICK left \in Seq(Row), had \in Nat : left = todo /\ had = downloaded + 1
  BY DEF AtReports
<1>6. Remaining(left)
  BY <1>3, <1>5 DEF AtReports, ReportsLeft, Remaining
<1>7. Remaining(left)'
  BY <1>2, <1>6, WholeStays
<1>8. FinalPage' /\ ReportThere'
  BY <1>2, <1>4, FactsStay DEF AtReports
<1>9. NextReport(left, had)
  BY <1>5
<1>. QED BY <1>1, <1>2, <1>7, <1>8, <1>9, ReportsGoOn

LEMMA ListGoesOn ==
    ASSUME CollectInv, AtPages \/ AtStatements, at = "using", items' = items,
           skipped' = skipped, status' = status, answer.code < 400, answer.good,
           request.kind # "announcement_query", UseList(request)
    PROVE  CollectInv'
<1> DEFINE k == Len(items)
<1>1. /\ items \in Seq(ArchivedItem) /\ status # "succeeded" /\ answer \in Responses(request)
      /\ k \in DOMAIN items /\ items[k] = [request |-> request, response |-> answer]
  BY DEF CollectInv
<1>2. Grows
  BY <1>1 DEF Grows
<1>3. k \in Readable(request) /\ items[k].response = answer /\ items[k].request = request
  BY <1>1 DEF Readable, Archived
<1>4. CASE AtPages
  <2>1. request = StockList
    BY <1>4 DEF AtPages, Page
  <2>2. Ask(Page(1)) /\ UNCHANGED <<found, todo, downloaded>>
    BY <2>1 DEF UseList, StockList
  <2>3. CASE at' = "asking" /\ request' = Page(1)
    <3>1. 1 \in 1 .. MaxPages
      BY CollectLimitsAssumption
    <3>2. ReadUpTo(1)'
      BY <3>1 DEF ReadUpTo
    <3>3. Announced' = Announced
      BY NothingAnnounced
    <3>4. PagesFound'
      BY <1>4, <2>1, <2>2, <3>3 DEF AtPages, PagesFound, StockList
    <3>5. AtPages'
      BY <2>3, <3>1, <3>2, <3>4 DEF AtPages
    <3>. QED BY <1>1, <1>2, <2>3, <3>5, GoesOn
  <2>. QED BY <1>1, <1>2, <2>2, <2>3, Failing DEF Ask
<1>5. CASE AtStatements
  <2>1. FinalPage' /\ AllTaken' /\ ReportThere'
    BY <1>2, <1>5, FactsStay, WholeStays DEF AtStatements
  <2>2. CASE request = CompanyType
    <3>1. Ask(PeriodsOf(1))
      BY <2>2 DEF UseList, CompanyType
    <3>2. CASE at' = "asking" /\ request' = PeriodsOf(1)
      <4>1. 1 \in 1 .. Statements /\ \A m \in 1 .. (1 - 1) : FALSE
        BY CollectLimitsAssumption
      <4>2. AtStatements'
        BY <2>1, <3>2, <4>1 DEF AtStatements
      <4>. QED BY <1>1, <1>2, <3>2, <4>2, GoesOn
    <3>. QED BY <1>1, <1>2, <3>1, <3>2, Failing DEF Ask
  <2>3. ASSUME NEW n \in 1 .. Statements, \A m \in 1 .. (n - 1) : StatementDone(m),
               request = PeriodsOf(n)
        PROVE  CollectInv'
    <3>1. request.kind = "statement_periods" /\ request.of = n
      BY <2>3 DEF PeriodsOf
    <3>2. answer.rows \in Seq(STRING)
      BY <1>1, <3>1, AnswersTyped
    <3>3. CASE answer.rows = <<>>
      BY <1>1, <1>2, <3>1, <3>3, Failing DEF UseList, End
    <3>4. CASE answer.rows # <<>>
      <4>1. NextData(n, Distinct(answer.rows))
        BY <3>1, <3>4 DEF UseList
      <4>2. PICK ps \in Seq(STRING) : ps = Distinct(answer.rows)
        BY <3>2, DistinctHasAll
      <4>3. \A j \in DOMAIN answer.rows : answer.rows[j] \in Range(ps)
        BY <3>2, <4>2, DistinctHasAll
      <4>4. PeriodsLeft(n, ps, <<>>)
        BY <1>3, <2>3, <3>4, <4>3 DEF PeriodsLeft
      <4>5. PeriodsLeft(n, ps, <<>>)' /\ \A m \in 1 .. (n - 1) : StatementDone(m)'
        BY <1>2, <2>3, <4>4, FactsStay
      <4>6. NextData(n, ps)
        BY <4>1, <4>2
      <4>. QED BY <1>1, <1>2, <2>1, <4>5, <4>6, DataGoesOn
    <3>. QED BY <3>3, <3>4
  <2>4. ASSUME NEW n \in 1 .. Statements, \A m \in 1 .. (n - 1) : StatementDone(m),
               NEW about \in Seq(STRING), request = Data(n, about),
               todo \in Seq(STRING), PeriodsLeft(n, todo, about)
        PROVE  CollectInv'
    <3>1. request.kind = "statement_data" /\ request.of = n /\ request.about = about
      BY <2>4 DEF Data
    <3>2. CASE answer.rows = <<>>
      BY <1>1, <1>2, <3>1, <3>2, Failing DEF UseList, End
    <3>3. CASE answer.rows # <<>>
      <4>1. NextData(n, todo)
        BY <3>1, <3>3 DEF UseList
      <4>2. PICK ps \in Seq(STRING) : ps = todo
        BY <2>4
      <4>3. \A x \in Range(about) : HasData(n, x)
        BY <1>1, <1>3, <3>1, <3>3 DEF HasData
      <4>4. PeriodsLeft(n, ps, <<>>)
        BY <2>4, <4>2, <4>3 DEF PeriodsLeft
      <4>5. PeriodsLeft(n, ps, <<>>)' /\ \A m \in 1 .. (n - 1) : StatementDone(m)'
        BY <1>2, <2>4, <4>4, FactsStay
      <4>6. NextData(n, ps)
        BY <4>1, <4>2
      <4>. QED BY <1>1, <1>2, <2>1, <4>5, <4>6, DataGoesOn
    <3>. QED BY <3>2, <3>3
  <2>. QED BY <1>5, <2>2, <2>3, <2>4 DEF AtStatements
<1>. QED BY <1>4, <1>5

LEMMA UseGoesOn == ASSUME CollectInv, Use PROVE CollectInv'
<1>1. at = "using" /\ items' = items /\ status' = status
  BY DEF Use
<1>2. /\ AtPages \/ AtReports \/ AtStatements
      /\ answer.code \in {200, 404, 503}
  BY <1>1, AnswersTyped DEF CollectInv, Active
<1>3. CASE answer.code >= 400
  <2>1. GiveUp
    <3>1. ~(answer.code < 400)
      BY <1>2, <1>3
    <3>. QED BY <1>3, <3>1, Zenon DEF Use
  <2>. QED BY <1>1, <2>1, GiveUpGoesOn DEF Active
<1>4. CASE answer.code < 400 /\ request.kind = "report_file"
  <2>1. AtReports
    BY <1>2, <1>4 DEF AtPages, AtStatements, StockList, Page, CompanyType, PeriodsOf, Data
  <2>2. ~(answer.code >= 400)
    BY <1>2, <1>4
  <2>3. NextReport(todo, downloaded + 1) /\ skipped' = skipped
    BY <1>4, <2>2 DEF Use
  <2>. QED BY <1>1, <1>4, <2>1, <2>3, ReportGoesOn
<1>5. CASE answer.code < 400 /\ request.kind # "report_file" /\ ~answer.good
  <2>1. ~(answer.code >= 400)
    BY <1>2, <1>5
  <2>2. End("failed") /\ skipped' = skipped
    BY <1>5, <2>1 DEF Use
  <2>3. Grows /\ status # "succeeded"
    BY <1>1, <2>2 DEF CollectInv, Grows
  <2>. QED BY <1>1, <2>2, <2>3, Failing DEF End
<1>6. CASE answer.code < 400 /\ request.kind # "report_file" /\ answer.good
  <2>1. ~(answer.code >= 400)
    BY <1>2, <1>6
  <2>2. /\ skipped' = skipped
        /\ IF request.kind = "announcement_query" THEN UsePage(request.of) ELSE UseList(request)
    BY <1>6, <2>1 DEF Use
  <2>3. AtPages \/ AtStatements
    BY <1>2, <1>6 DEF AtReports, Report
  <2>4. CASE request.kind = "announcement_query"
    <3>1. AtPages
      BY <2>3, <2>4 DEF AtStatements, CompanyType, PeriodsOf, Data
    <3>2. PICK p : request = Page(p)
      BY <3>1, <2>4 DEF AtPages, StockList
    <3>3. request.of = p
      BY <3>2 DEF Page
    <3>4. UsePage(p)
      BY <2>2, <2>4, <3>3
    <3>. QED BY <1>1, <1>6, <2>2, <3>1, <3>2, <3>4, PageGoesOn
  <2>5. CASE request.kind # "announcement_query"
    <3>1. UseList(request)
      BY <2>2, <2>5
    <3>. QED BY <1>1, <1>6, <2>2, <2>3, <2>5, <3>1, ListGoesOn
  <2>. QED BY <2>4, <2>5
<1>. QED BY <1>2, <1>3, <1>4, <1>5, <1>6

LEMMA ReceiveInv == ASSUME CollectInv, Receive PROVE CollectInv'
<1>1. /\ at = "asking" /\ at' = "archiving" /\ answer' \in Responses(request)
      /\ UNCHANGED <<status, items, skipped, request, found, todo, downloaded>>
  BY DEF Receive, Keeps
<1>2. Announced' = Announced
  BY <1>1, NothingAnnounced
<1>3. PagesFound => PagesFound'
  BY <1>1, <1>2 DEF PagesFound
<1>4. Grows /\ status # "succeeded" /\ (AtPages \/ AtReports \/ AtStatements)
  BY <1>1 DEF CollectInv, Active, Grows
<1>5. (AtPages \/ AtReports \/ AtStatements)'
  BY <1>1, <1>3, <1>4, PlaceStays
<1>6. answer' \in Responses(request')
  BY <1>1
<1>7. (answer \in Responses(request))'
  BY <1>6
<1>. QED BY <1>1, <1>4, <1>5, <1>7 DEF CollectInv, Grows

LEMMA TryAgainInv == ASSUME CollectInv, TryAgain PROVE CollectInv'
<1>1. /\ at = "asking" /\ at' = at
      /\ UNCHANGED <<status, items, skipped, request, answer, found, todo, downloaded>>
  BY DEF TryAgain, Keeps
<1>2. PagesFound => PagesFound'
  BY <1>1, NothingAnnounced DEF PagesFound
<1>3. Grows /\ status # "succeeded" /\ (AtPages \/ AtReports \/ AtStatements)
  BY <1>1 DEF CollectInv, Active, Grows
<1>4. (AtPages \/ AtReports \/ AtStatements)'
  BY <1>1, <1>2, <1>3, PlaceStays
<1>. QED BY <1>1, <1>3, <1>4, GoesOn

\* An answer is archived before the collector sees it, so what is used is there.
LEMMA ArchiveInv == ASSUME CollectInv, Archive PROVE CollectInv'
<1> DEFINE n == Len(items)
           new == [request |-> request, response |-> answer]
<1>1. /\ at = "archiving" /\ at' = "using" /\ items' = Append(items, new)
      /\ UNCHANGED <<status, skipped, request, answer, found, todo, downloaded>>
  BY DEF Archive
<1>2. /\ items \in Seq(ArchivedItem) /\ status # "succeeded" /\ answer \in Responses(request)
      /\ AtPages \/ AtReports \/ AtStatements
  BY <1>1 DEF CollectInv, Active
<1>3. new \in ArchivedItem
  <2>1. request \in Asked
    <3>1. <<>> \in Seq(STRING) /\ 0 \in Nat
      OBVIOUS
    <3>2. ASSUME NEW k \in Kinds, NEW m \in Nat, NEW ps \in Seq(STRING)
          PROVE  [kind |-> k, of |-> m, about |-> ps] \in Asked
      BY DEF Asked
    <3>3. ASSUME NEW m \in Nat PROVE Page(m) \in Asked /\ PeriodsOf(m) \in Asked
      BY <3>1, <3>2 DEF Page, PeriodsOf, Kinds
    <3>4. StockList \in Asked /\ CompanyType \in Asked
      BY <3>1, <3>2 DEF StockList, CompanyType, Kinds
    <3>5. ASSUME NEW m \in Nat, NEW ps \in Seq(STRING) PROVE Data(m, ps) \in Asked
      BY <3>2 DEF Data, Kinds
    <3>6. \A b \in Row : Report(b) \in Asked
      <4> SUFFICES ASSUME NEW b \in Row PROVE Report(b) \in Asked
        OBVIOUS
      <4>1. b.id \in Nat
        BY DEF Row
      <4>. QED BY <3>1, <3>2, <4>1 DEF Report, Kinds
    <3>7. (\A p \in 1 .. MaxPages : p \in Nat) /\ (\A m \in 1 .. Statements : m \in Nat)
      BY CollectLimitsAssumption
    <3>8. CASE AtPages
      BY <3>3, <3>4, <3>7, <3>8 DEF AtPages
    <3>9. CASE AtReports
      BY <3>6, <3>9 DEF AtReports
    <3>10. CASE AtStatements
      BY <3>3, <3>4, <3>5, <3>7, <3>10 DEF AtStatements
    <3>. QED BY <1>2, <3>8, <3>9, <3>10
  <2>2. answer \in Answered
    BY <1>2, AnswersTyped
  <2>. QED BY <2>1, <2>2 DEF ArchivedItem
<1> HIDE DEF new
<1>4. /\ items' \in Seq(ArchivedItem) /\ Len(items') = n + 1 /\ items'[n + 1] = new
      /\ n + 1 \in DOMAIN items'
      /\ \A i \in DOMAIN items : i \in DOMAIN items' /\ items'[i] = items[i]
  BY <1>1, <1>2, <1>3
<1>5. Grows
  BY <1>1, <1>2, <1>4 DEF Grows
<1>6. /\ request.kind = "announcement_query" => Announced' = Announced \cup Range(answer.rows)
      /\ request.kind # "announcement_query" => Announced' = Announced
  BY <1>1, <1>2, Archives DEF new
<1>7. ASSUME AtPages PROVE AtPages'
  <2>1. PagesFound'
    BY <1>1, <1>6, <1>7 DEF AtPages, PagesFound
  <2>2. AtPages'
    BY <1>1, <1>5, <1>7, <2>1, FactsStay DEF AtPages
  <2>. QED BY <2>2
<1>8. ASSUME AtReports PROVE AtReports'
  <2>1. Announced' = Announced
    BY <1>6, <1>8 DEF AtReports, Report
  <2>2. ReportsLeft(todo, request)'
    BY <1>1, <1>5, <1>8, <2>1, FactsStay DEF AtReports, ReportsLeft
  <2>3. AtReports'
    BY <1>1, <1>5, <1>8, <2>2, FactsStay DEF AtReports
  <2>. QED BY <2>3
<1>9. ASSUME AtStatements PROVE AtStatements'
  <2>1. Announced' = Announced
    BY <1>6, <1>9 DEF AtStatements, CompanyType, PeriodsOf, Data
  <2>2. AllTaken'
    BY <1>5, <1>9, <2>1, FactsStay DEF AtStatements, AllTaken
  <2>3. \A m, about : PeriodsLeft(m, todo, about) => (PeriodsLeft(m, todo, about))'
    <3>2. \A r : \A i \in Readable(r) : i \in Readable(r)' /\ i \in DOMAIN items
      BY <1>5, FactsStay DEF Readable, Archived
    <3>3. \A i \in DOMAIN items : items'[i] = items[i]
      BY <1>4
    <3>. QED BY <1>1, <1>5, <3>2, <3>3, FactsStay DEF PeriodsLeft
  <2>4. AtStatements'
    BY <1>1, <1>5, <1>9, <2>2, <2>3, FactsStay DEF AtStatements
  <2>. QED BY <2>4
<1>10. (AtPages \/ AtReports \/ AtStatements)'
  BY <1>2, <1>7, <1>8, <1>9
<1>11. (answer \in Responses(request))'
  <2>1. answer' = answer /\ request' = request
    BY <1>1
  <2>. QED BY <1>2, <2>1
<1>12. /\ Len(items') \in DOMAIN items'
       /\ items'[Len(items')] = [request |-> request', response |-> answer']
  BY <1>1, <1>4 DEF new
<1>. QED BY <1>1, <1>2, <1>4, <1>10, <1>11, <1>12 DEF CollectInv

LEMMA CollectNextInv == ASSUME CollectInv, [CollectNext]_collectVars PROVE CollectInv'
<1>1. CASE TryAgain
  BY <1>1, TryAgainInv
<1>2. CASE FetchFails
  BY <1>2, GiveUpGoesOn DEF FetchFails, Active
<1>3. CASE Receive
  BY <1>3, ReceiveInv
<1>4. CASE Archive
  BY <1>4, ArchiveInv
<1>5. CASE Use
  BY <1>5, UseGoesOn
<1>6. CASE Finish
  <2>1. /\ at = "finishing" /\ at' = "ended" /\ status' = outcome
        /\ UNCHANGED <<items, skipped>>
    BY <1>6 DEF Finish
  <2>2. Grows
    BY <2>1 DEF CollectInv, Grows
  <2>3. outcome = "succeeded" => Whole'
    BY <2>1, <2>2, WholeStays DEF CollectInv
  <2>. QED BY <2>1, <2>2, <2>3 DEF CollectInv, Active, Grows
<1>7. CASE BreakOff
  <2>1. at # "ended" /\ at' = "ended" /\ UNCHANGED <<status, items, skipped>>
    BY <1>7 DEF BreakOff, Keeps
  <2>. QED BY <2>1 DEF CollectInv, Active
<1>8. CASE UNCHANGED collectVars
  <2>1. UNCHANGED <<status, items, skipped, at, request, answer, found, todo, downloaded, outcome>>
    BY <1>8 DEF collectVars
  <2>2. Grows
    BY <2>1 DEF CollectInv, Grows
  <2>3. PagesFound => PagesFound'
    BY <2>1, NothingAnnounced DEF PagesFound
  <2>4. (AtPages \/ AtReports \/ AtStatements) => (AtPages \/ AtReports \/ AtStatements)'
    BY <2>1, <2>2, <2>3, PlaceStays
  <2>5. Whole => Whole'
    BY <2>1, <2>2, WholeStays
  <2>6. (answer \in Responses(request)) => (answer \in Responses(request))'
    <3>1. answer' = answer /\ request' = request
      BY <2>1
    <3>. QED BY <3>1
  <2>. QED BY <2>1, <2>2, <2>4, <2>5, <2>6 DEF CollectInv, Active
<1>. QED BY <1>1, <1>2, <1>3, <1>4, <1>5, <1>6, <1>7, <1>8 DEF CollectNext

\* A batch that is recorded as succeeded has every report that its own pages list, or has
\* it recorded as skipped, and has asked, and been given something, for every period that
\* its own lists name: SqlIngestionStore.finish records nobody's word for it but the
\* collectors', who have come to the end.
THEOREM WholeBatchesSucceed == CollectSpec => []SucceededIsWhole
<1>1. CollectInv => SucceededIsWhole
  <2> SUFFICES ASSUME CollectInv, status = "succeeded" PROVE SucceededIsWhole
    BY DEF SucceededIsWhole
  <2>1. FinalPage /\ AllTaken /\ ReportThere /\ \A n \in 1 .. Statements : StatementDone(n)
    BY DEF CollectInv, Whole
  <2> DEFINE Data1(n) == \E i \in Readable(PeriodsOf(n)) :
               /\ items[i].response.rows # <<>>
               /\ \A k \in DOMAIN items[i].response.rows :
                    \E j \in DOMAIN items :
                      LET d == items[j].request IN
                      /\ d.kind = "statement_data" /\ d.of = n /\ j \in Readable(d)
                      /\ items[j].response.rows # <<>>
                      /\ items[i].response.rows[k] \in Range(d.about)
  <2>2. \A n \in 1 .. Statements : Data1(n)
    BY <2>1 DEF StatementDone, HasData
  <2> HIDE DEF Data1
  <2>3. \A a \in {a \in Announced : a.full} :
           \E b \in Announced :
             /\ b = a \/ SameReport(a, b)
             /\ \/ \E i \in Archived(Report(b)) : items[i].response.code < 400
                \/ Report(b) \in skipped
    BY <2>1 DEF AllTaken, Taken
  <2>. QED BY <2>1, <2>2, <2>3 DEF SucceededIsWhole, FinalPage, ReportThere, Data1
<1>2. CollectSpec => []CollectInv
  BY CollectInitInv, CollectNextInv, PTL DEF CollectSpec
<1>. QED BY <1>1, <1>2, PTL
======================================================================================
