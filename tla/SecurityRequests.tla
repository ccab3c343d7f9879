----------------------------- MODULE SecurityRequests -----------------------------
(***************************************************************************)
(* The requests of users to collect a company's data, and what becomes of  *)
(* them (application/securities/request_service.py, request_store.py).     *)
(*                                                                         *)
(* A request belongs to everybody who asked for the same company while it  *)
(* was open.  Once approved it has a batch, and its progress is read off   *)
(* the batch and the dataset; whoever looks at a request whose progress    *)
(* has come to an end records that as its outcome and closes it.           *)
(***************************************************************************)
EXTENDS SecurityPipeline, FiniteSets

CONSTANTS
    Sessions,      \* the database sessions of concurrent HTTP requests
    Actors,
    MaxOpen,       \* how many open requests an actor may have
    MaxRequests    \* bound: requests

ASSUME ActorsAssumption == None \notin Actors
ASSUME MaxOpenAssumption == MaxOpen \in Nat \ {0}
ASSUME MaxRequestsAssumption == MaxRequests \in Nat

VARIABLES
    request,     \* security_request, with the requesters that have not withdrawn
    watchlist,   \* the codes that are approved without being asked
    session      \* what each session has read, and the row locks it holds

requestVars == <<request, watchlist, session>>
requestsVars == <<requestVars, pipelineVars>>

Requests == 1 .. MaxRequests

Final == {"rejected", "withdrawn", "available", "quality_failed", "failed",
          "registration_failed"}

ASSUME OutcomesAssumption == None \notin Final

\* The status of a request is "absent", "pending", "approved", "rejected" or "withdrawn";
\* its outcome is a member of Final, and active are the actors that wait for it.
NoRequest ==
    [status |-> "absent", code |-> None, open |-> FALSE, batch |-> None,
     outcome |-> None, active |-> {}]

\* found: the open request that a submission joins (at most one).
\* ended: the outcomes, by request, that the session has read and will record.
NoSession ==
    [pc |-> "idle", actor |-> None, code |-> None, found |-> {}, ended |-> <<>>]

RequestsInit ==
    /\ PipelineInit
    /\ request = [r \in Requests |-> NoRequest]
    /\ watchlist = {}
    /\ session = [s \in Sessions |-> NoSession]

--------------------------------------------------------------------------------
(* Progress.                                                                *)

\* A dataset names the batch it was first built of.
DatasetOf(b) == {v \in Versions : dataset[v].batch = b}

Progress_bug(row) ==   \* does not ask whether the registration is over
    LET b == row.batch
        built == DatasetOf(b)
    IN  IF row.status # "approved" THEN row.status
        ELSE IF batch[b].status = "pending" THEN "queued"
        ELSE IF batch[b].status = "running" THEN "collecting"
        ELSE IF batch[b].status = "failed" THEN "failed"
        ELSE IF built = {} THEN IF batch[b].refused THEN "failed" ELSE "building"
        ELSE IF built \cap Passing = {} THEN "quality_failed"
        ELSE "available"

\* progress_after_approval, of what ingestion_state and dataset_of find.
Progress(row) ==
    LET b == row.batch
        built == DatasetOf(b)
        Registered == \E v \in built : dataset[v].registered
        Failing == \E v \in built : dataset[v].failing
    IN  CASE row.status # "approved" -> row.status
          [] row.status = "approved" /\ batch[b].status = "pending" -> "queued"
          [] row.status = "approved" /\ batch[b].status = "running" -> "collecting"
          [] row.status = "approved" /\ batch[b].status = "failed" -> "failed"
          [] OTHER ->
               IF built = {} THEN IF batch[b].refused THEN "failed" ELSE "building"
               ELSE IF built \cap Passing = {} THEN "quality_failed"
               ELSE IF ~Configured \/ Registered THEN "available"
               ELSE IF Failing THEN "registration_failed"
               ELSE "registering"

\* What the store writes in a row.
Opened(c, a) ==
    [NoRequest EXCEPT !.status = "pending", !.code = c, !.open = TRUE, !.active = {a}]
Joined(row, a) == [row EXCEPT !.active = @ \cup {a}]
Without(row, a) == [row EXCEPT !.active = @ \ {a}]
WithDecision(row, status, b) == [row EXCEPT !.status = status, !.batch = b]
Closed(row, outcome) == [row EXCEPT !.open = FALSE, !.outcome = outcome]

\* _view of a row this session has locked.
Viewed(row) ==
    IF row.open /\ Progress(row) \in Final THEN Closed(row, Progress(row)) ELSE row

--------------------------------------------------------------------------------
(* Row locks.  A submission keeps the request it joins and those it closes  *)
(* locked until it commits.                                                 *)

Locks_bug(s) == DOMAIN session[s].ended   \* reads the open request without FOR UPDATE

Locks(s) == session[s].found \cup DOMAIN session[s].ended

Locked(r) == \E s \in Sessions : session[s].pc = "submitting" /\ r \in Locks(s)

OpenRequests == {r \in Requests : request[r].open}

--------------------------------------------------------------------------------
(* Submitting.                                                              *)

SubmitRead_bug(s, a, c) ==   \* without the advisory lock
    LET found == {r \in OpenRequests : request[r].code = c}
        mine == {r \in OpenRequests : a \in request[r].active}
        ended == {r \in found \cup mine : Progress(request[r]) \in Final}
    IN  /\ session[s].pc = "idle"
        /\ \A r \in found \cup ended : ~Locked(r)
        /\ \A r \in found \ ended : a \notin request[r].active
        /\ Cardinality(mine \ ended) < MaxOpen
        /\ session' = [session EXCEPT ![s] =
             [pc |-> "submitting", actor |-> a, code |-> c, found |-> found \ ended,
              ended |-> [r \in ended |-> Progress(request[r])]]]
        /\ UNCHANGED <<request, watchlist, pipelineVars>>

\* submit, up to the room it finds: one submission of an actor at a time
\* (lock_requester).  If the request is the actor's already it is only viewed; if
\* there is no room everything is rolled back.
SubmitRead(s, a, c) ==
    LET found == {r \in OpenRequests : request[r].code = c}
        mine == {r \in OpenRequests : a \in request[r].active}
        ended == {r \in found \cup mine : Progress(request[r]) \in Final}
    IN  /\ session[s].pc = "idle"
        /\ \A other \in Sessions :
             session[other].pc = "submitting" => session[other].actor # a
        /\ \A r \in found \cup ended : ~Locked(r)
        /\ \A r \in found \ ended : a \notin request[r].active
        /\ Cardinality(mine \ ended) < MaxOpen
        /\ session' = [session EXCEPT ![s] =
             [pc |-> "submitting", actor |-> a, code |-> c, found |-> found \ ended,
              ended |-> [r \in ended |-> Progress(request[r])]]]
        /\ UNCHANGED <<request, watchlist, pipelineVars>>

\* The requests as the submission's transaction sees and will commit them.
AfterClosing(s) ==
    [r \in Requests |->
        IF r \in DOMAIN session[s].ended
        THEN Closed(request[r], session[s].ended[r]) ELSE request[r]]

\* The request found first, or one created meanwhile, which the unique index on the
\* open code brings up (OpenRequestExists).
SubmitJoin(s) ==
    LET rows == AfterClosing(s) IN
    /\ session[s].pc = "submitting"
    /\ \E r \in Requests :
         /\ IF session[s].found # {} THEN r \in session[s].found
            ELSE /\ rows[r].open /\ rows[r].code = session[s].code
                 /\ ~Locked(r)
                 /\ Progress(rows[r]) \notin Final
         /\ request' = [rows EXCEPT ![r] = Viewed(Joined(rows[r], session[s].actor))]
    /\ session' = [session EXCEPT ![s] = NoSession]
    /\ UNCHANGED <<watchlist, pipelineVars>>

SubmitCreate(s) ==
    LET rows == AfterClosing(s)
        c == session[s].code
        r == CHOOSE i \in Requests : request[i] = NoRequest
        row == Opened(c, session[s].actor)
    IN  /\ session[s].pc = "submitting"
        /\ session[s].found = {}
        /\ \A i \in Requests : rows[i].open => rows[i].code # c
        /\ \E i \in Requests : request[i] = NoRequest
        /\ \/ /\ c \notin watchlist
              /\ request' = [rows EXCEPT ![r] = row]
              /\ UNCHANGED pipelineVars
           \/ /\ c \in watchlist
              /\ \E b \in Batches :
                   /\ RequestIngestion(b, c)
                   /\ request' = [rows EXCEPT ![r] = WithDecision(row, "approved", b)]
        /\ session' = [session EXCEPT ![s] = NoSession]
        /\ UNCHANGED watchlist

\* The transaction is rolled back: a conflict, a deadlock, or the client is gone.
SessionAborts(s) ==
    /\ session[s].pc # "idle"
    /\ session' = [session EXCEPT ![s] = NoSession]
    /\ UNCHANGED <<request, watchlist, pipelineVars>>

--------------------------------------------------------------------------------
(* Looking at a request: availability, mine, one_of_mine, listing.          *)

ViewRead(s, r) ==
    /\ session[s].pc = "idle"
    /\ request[r].open
    /\ Progress(request[r]) \in Final
    /\ session' = [session EXCEPT ![s] =
         [NoSession EXCEPT !.pc = "viewing", !.ended = [i \in {r} |-> Progress(request[i])]]]
    /\ UNCHANGED <<request, watchlist, pipelineVars>>

ViewClose_bug(s) ==   \* does not look whether the request is still open
    /\ session[s].pc = "viewing"
    /\ \A r \in DOMAIN session[s].ended : ~Locked(r)
    /\ request' = AfterClosing(s)
    /\ session' = [session EXCEPT ![s] = NoSession]
    /\ UNCHANGED <<watchlist, pipelineVars>>

\* close: locks the row, and leaves it as it is if it is no longer open.
ViewClose(s) ==
    /\ session[s].pc = "viewing"
    /\ \A r \in DOMAIN session[s].ended : ~Locked(r)
    /\ request' = [r \in Requests |->
         IF request[r].open THEN AfterClosing(s)[r] ELSE request[r]]
    /\ session' = [session EXCEPT ![s] = NoSession]
    /\ UNCHANGED <<watchlist, pipelineVars>>

--------------------------------------------------------------------------------
(* One person withdraws; the owner decides.  Each locks the request first.  *)

Withdraw(r, a) ==
    LET row == Without(request[r], a) IN
    /\ ~Locked(r)
    /\ request[r].open /\ request[r].status = "pending"
    /\ a \in request[r].active
    /\ request' = [request EXCEPT ![r] =
         IF row.active = {} THEN Closed(WithDecision(row, "withdrawn", row.batch), "withdrawn")
         ELSE row]
    /\ UNCHANGED <<watchlist, session, pipelineVars>>

Approve(r, add) ==
    /\ ~Locked(r)
    /\ request[r].open /\ request[r].status = "pending"
    /\ \E b \in Batches :
         /\ RequestIngestion(b, request[r].code)
         /\ request' = [request EXCEPT ![r] = WithDecision(@, "approved", b)]
    /\ watchlist' = IF add THEN watchlist \cup {request[r].code} ELSE watchlist
    /\ UNCHANGED session

Reject(r) ==
    /\ ~Locked(r)
    /\ request[r].open /\ request[r].status = "pending"
    /\ request' = [request EXCEPT ![r] = Closed(WithDecision(@, "rejected", @.batch), "rejected")]
    /\ UNCHANGED <<watchlist, session, pipelineVars>>

Watch(c) ==
    /\ watchlist' = watchlist \cup {c}
    /\ UNCHANGED <<request, session, pipelineVars>>

Unwatch(c) ==
    /\ watchlist' = watchlist \ {c}
    /\ UNCHANGED <<request, session, pipelineVars>>

RequestsNext ==
    \/ \E s \in Sessions :
         \/ \E a \in Actors, c \in Codes : SubmitRead(s, a, c)
         \/ SubmitJoin(s)
         \/ SubmitCreate(s)
         \/ SessionAborts(s)
         \/ \E r \in Requests : ViewRead(s, r)
         \/ ViewClose(s)
    \/ \E r \in Requests : \/ \E a \in Actors : Withdraw(r, a)
                           \/ \E add \in BOOLEAN : Approve(r, add)
                           \/ Reject(r)
    \/ \E c \in Codes : Watch(c) \/ Unwatch(c)
    \/ PipelineNext /\ UNCHANGED requestVars

RequestsSpec == RequestsInit /\ [][RequestsNext]_requestsVars

--------------------------------------------------------------------------------
(* Properties.                                                              *)

\* An actor has at most MaxOpen open requests, however many submissions, of this
\* actor and of others for the same companies, run at the same time.
WithinLimit ==
    \A a \in Actors : Cardinality({r \in OpenRequests : a \in request[r].active}) <= MaxOpen

\* A company has one open request, so that everybody waits for the same batch; while
\* it can be withdrawn somebody is waiting, and nobody waits for a withdrawn one.
SharedByRequesters ==
    /\ \A r, other \in OpenRequests : request[r].code = request[other].code => r = other
    /\ \A r \in Requests :
         /\ request[r].open /\ request[r].status = "pending" => request[r].active # {}
         /\ request[r].status = "withdrawn" => request[r].active = {}

\* What two people who look at a request see at its end, they see for ever: the
\* outcome is recorded once (requests.py:4).
OutcomeStays ==
    [][\A r \in Requests : request[r].outcome # None => request'[r] = request[r]]_requestsVars

\* A request ends as available only if its own dataset passed, and the knowledge
\* service has it if there is one.
AvailableIsServed ==
    \A r \in Requests :
        request[r].outcome = "available" =>
            \E v \in Passing : /\ dataset[v].batch = request[r].batch
                               /\ Configured => v \in knowledge

\* "the progress of the request relies on it to know that there will be no dataset any
\* more" (record_dataset_build_refusal): when the build is over, the request is not
\* in progress as being built.
BuildEndsProgress ==
    \A r \in Requests :
        /\ request[r].status = "approved"
        /\ Build(request[r].batch) \in done
        => Progress(request[r]) # "building"

==================================================================================
