------------------------------- MODULE Distribution -------------------------------
(***************************************************************************)
(* Handing document versions to the knowledge app                          *)
(* (application/services/info_crawl_service.py, delivery_outbox.py).       *)
(*                                                                         *)
(* One record per document version and target.  A durable command, one     *)
(* generation per retry, has a worker POST the document; the worker reads  *)
(* the record before the POST and writes its outcome over it afterwards,   *)
(* while an administrator may change the record in between.                *)
(***************************************************************************)
EXTENDS Naturals

CONSTANTS
    None,
    Records,        \* the possible records, by document version and target
    Workers,
    MaxRetries,     \* bound: retries of one record
    MaxEdits        \* bound: status changes by administrators

ASSUME NoneAssumption == None \notin Workers \cup Records
ASSUME BoundAssumption == MaxRetries \in Nat /\ MaxEdits \in Nat

VARIABLES
    record,      \* distribution_record
    received,    \* the records whose document the knowledge app has
    edited,      \* the records whose present status an administrator wrote
    edits,       \* how many such changes there have been
    raced,       \* the records that were changed so while a worker was sending them
    asked,       \* the records for which a dispatch was requested by hand
    sender,      \* where each worker is in the handler
    requested, parked, done, lease   \* LeasedTasks

recordVars == <<record, received, edited, edits, raced, asked>>
deliveryVars == <<requested, parked, done, lease>>
vars == <<recordVars, sender, deliveryVars>>

Generations == 0 .. MaxRetries

\* The deduplication key: the record, and how often it was retried.
Commands == Records \X Generations

Delivery == INSTANCE LeasedTasks WITH
    Tasks <- Commands, Resources <- Records,
    ResourceOf <- [t \in Commands |-> t[1]]

\* Administrators may write any status; these are the ones the code knows.
Statuses == {"pending", "running", "failed", "succeeded"}

\* retries: the length of the retry history the worker has read.
NoSender == [pc |-> "idle", command |-> None, retries |-> 0, result |-> None]

Init ==
    /\ record = [d \in Records |-> [status |-> "absent", retries |-> 0]]
    /\ received = {} /\ edited = {} /\ asked = {}
    /\ edits = 0 /\ raced = {}
    /\ sender = [w \in Workers |-> NoSender]
    /\ Delivery!Init

--------------------------------------------------------------------------------
(* The HTTP operations; each locks the record for its transaction.          *)

\* ensure_distribution_dispatch_outbox
Command(d, retries) == Delivery!Request({<<d, retries>>})

\* A record that exists is returned as it is; a pending one may be sent.
Create(d, dispatch) ==
    /\ record' = IF record[d].status = "absent"
                 THEN [record EXCEPT ![d].status = "pending"] ELSE record
    /\ IF dispatch /\ record'[d].status = "pending"
       THEN Command(d, record[d].retries) ELSE UNCHANGED deliveryVars
    /\ UNCHANGED <<received, edited, edits, raced, asked, sender>>

Target(w) == sender[w].command[1]

\* Between the two commits of dispatch_distribution.
InFlight(d) == \E w \in Workers : sender[w].pc \in {"sending", "settling"} /\ Target(w) = d

UpdateStatus(d, status) ==
    /\ record[d].status # "absent"
    /\ edits < MaxEdits
    /\ edits' = edits + 1
    /\ raced' = IF InFlight(d) THEN raced \cup {d} ELSE raced
    /\ record' = [record EXCEPT ![d].status = status]
    /\ edited' = edited \cup {d}
    /\ UNCHANGED <<received, asked, sender, deliveryVars>>

\* retry_distribution: only what has failed; the next generation's command.
Retry(d) ==
    LET generation == record[d].retries + 1 IN
    /\ record[d].status = "failed"
    /\ generation <= MaxRetries
    /\ record' = [record EXCEPT ![d] = [status |-> "pending", retries |-> generation]]
    /\ edited' = edited \ {d}
    /\ Command(d, generation)
    /\ UNCHANGED <<received, edits, raced, asked, sender>>

\* request_distribution_dispatch
RequestDispatch(d) ==
    /\ record[d].status \notin {"absent", "succeeded"}
    /\ Command(d, record[d].retries)
    /\ asked' = asked \cup {d}
    /\ UNCHANGED <<record, received, edited, edits, raced, sender>>

--------------------------------------------------------------------------------
(* The handler.  Its session commits only while the lease is held.          *)

Goto(w, pc) == sender' = [sender EXCEPT ![w].pc = pc]

StartSending(w, t) ==
    /\ sender[w].pc = "idle"
    /\ t \notin parked   \* claim_execution
    /\ Delivery!Take(w, t)
    /\ sender' = [sender EXCEPT ![w] = [NoSender EXCEPT !.pc = "entering", !.command = t]]
    /\ UNCHANGED recordVars

HasLease(w) == Delivery!Holds(w, sender[w].command)

\* The record is locked and marked running; the worker keeps what it has read.
MarkRunning(w) ==
    LET d == Target(w) IN
    /\ sender[w].pc = "entering"
    /\ IF record[d].status = "succeeded"
       THEN Goto(w, "committing") /\ UNCHANGED <<record, edited>>
       ELSE /\ HasLease(w)
            /\ record' = [record EXCEPT ![d].status = "running"]
            /\ edited' = edited \ {d}
            /\ sender' = [sender EXCEPT ![w] =
                 [@ EXCEPT !.pc = "sending", !.retries = record[d].retries]]
    /\ UNCHANGED <<received, edits, raced, asked, deliveryVars>>

Send_bug(w) ==   \* takes every answer for a success
    LET d == Target(w) IN
    /\ sender[w].pc = "sending"
    /\ HasLease(w)
    /\ received' \in {received, received \cup {d}}
    /\ sender' = [sender EXCEPT ![w] = [@ EXCEPT !.pc = "settling", !.result = "succeeded"]]
    /\ UNCHANGED <<record, edited, edits, raced, asked, deliveryVars>>

\* assert_execution_current, then the POST: not configured, failed (the document may
\* have arrived all the same), or answered.  No lock is held meanwhile.
Send(w) ==
    LET d == Target(w) IN
    /\ sender[w].pc = "sending"
    /\ HasLease(w)
    /\ \E result \in {"pending", "failed", "succeeded"} :
         /\ CASE result = "pending" -> UNCHANGED received
              [] result = "failed" -> received' \in {received, received \cup {d}}
              [] result = "succeeded" -> received' = received \cup {d}
         /\ sender' = [sender EXCEPT ![w] = [@ EXCEPT !.pc = "settling", !.result = result]]
    /\ UNCHANGED <<record, edited, edits, raced, asked, deliveryVars>>

Settle_bug(w) ==   \* not guarded by the lease
    LET d == Target(w) IN
    /\ sender[w].pc = "settling"
    /\ record' = [record EXCEPT ![d] =
         [status |-> sender[w].result, retries |-> sender[w].retries]]
    /\ edited' = edited \ {d}
    /\ IF sender[w].result = "succeeded" THEN Goto(w, "committing")
       ELSE sender' = [sender EXCEPT ![w] = NoSender]
    /\ UNCHANGED <<received, edits, raced, asked, deliveryVars>>

\* The outcome and the history that was read before the POST are written over the
\* record; unless it succeeded the handler then raises, and the task is retried.
Settle(w) ==
    LET d == Target(w) IN
    /\ sender[w].pc = "settling"
    /\ HasLease(w)
    /\ record' = [record EXCEPT ![d] =
         [status |-> sender[w].result, retries |-> sender[w].retries]]
    /\ edited' = edited \ {d}
    /\ IF sender[w].result = "succeeded" THEN Goto(w, "committing")
       ELSE sender' = [sender EXCEPT ![w] = NoSender]
    /\ UNCHANGED <<received, edits, raced, asked, deliveryVars>>

CommitSending(w) ==
    /\ sender[w].pc = "committing"
    /\ Delivery!Commit(w, sender[w].command, {})
    /\ sender' = [sender EXCEPT ![w] = NoSender]
    /\ UNCHANGED recordVars

\* The process dies, or finds its lease lost.
AbandonSending(w) ==
    /\ sender[w].pc # "idle"
    /\ sender' = [sender EXCEPT ![w] = NoSender]
    /\ UNCHANGED <<recordVars, deliveryVars>>

LeaseEnds ==
    /\ \E d \in Records : lease[d].live /\ Delivery!GiveBack(d)
    /\ UNCHANGED <<recordVars, sender>>

\* Delivered too often (record_failure, reconcile); an operator may replay it.
ParkOrReplay ==
    /\ \E t \in requested : \/ t \notin done \cup parked /\ Delivery!Park({t})
                            \/ Delivery!Unpark(t)
    /\ UNCHANGED <<recordVars, sender>>

SenderStep(w) ==
    \/ MarkRunning(w)
    \/ Send(w)
    \/ Settle(w)
    \/ CommitSending(w)
    \/ AbandonSending(w)

Next ==
    \/ \E d \in Records : \/ \E dispatch \in BOOLEAN : Create(d, dispatch)
                          \/ \E status \in Statuses : UpdateStatus(d, status)
                          \/ Retry(d)
                          \/ RequestDispatch(d)
    \/ \E w \in Workers : \/ \E t \in Commands : StartSending(w, t)
                          \/ SenderStep(w)
    \/ LeaseEnds
    \/ ParkOrReplay

Spec == Init /\ [][Next]_vars

--------------------------------------------------------------------------------
(* Properties.                                                              *)

\* A record says that its document was delivered only if the knowledge app has it,
\* unless an administrator wrote so.
SucceededIsReceived ==
    \A d \in Records : record[d].status = "succeeded" => d \in received \cup edited

\* No retry is forgotten: a worker that read the history before its POST and writes it
\* back afterwards takes back no retry that was made in between, or the next retry would
\* find its command requested already.  That holds of a record whose status nobody edited
\* while it was being sent: edited to "failed" then, it can be retried, and the worker
\* writes the retry over.
HistoryCoversCommands ==
    \A t \in requested : t[1] \notin raced => t[2] <= record[t[1]].retries

==================================================================================
