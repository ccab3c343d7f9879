----------------------------- MODULE SecurityPipeline -----------------------------
(***************************************************************************)
(* From a security code to a registered dataset: three durable tasks       *)
(* (messaging/delivery_handlers.py, bootstrap/securities.py).              *)
(*                                                                         *)
(*   ingest   collects a batch of originals, ingestion_service.py          *)
(*   build    makes a dataset version of them, dataset_service.py          *)
(*   register hands the version to the knowledge service,                  *)
(*            registration_service.py                                      *)
(*                                                                         *)
(* A handler's own stores commit in sessions of their own, which the lease *)
(* of the task does not guard; only the request of the next task and the   *)
(* acknowledgement of this one are committed under the lease.  What a      *)
(* handler does at each step is therefore decided by the rows it finds.    *)
(***************************************************************************)
EXTENDS Naturals

CONSTANTS
    None,
    Workers,
    Codes,
    Versions,       \* the contents a batch may have, by the dataset version they give
    CodeOf,         \* [Versions -> Codes]
    Unbuildable,    \* the versions that stand for originals no dataset can be built of
    Passing,        \* the versions that pass the quality checks
    Configured,     \* is there a knowledge service to register with
    MaxBatches      \* bound: batches

ASSUME NoneAssumption ==
    None \notin Workers \cup Codes \cup Versions /\ None \notin 1 .. MaxBatches
ASSUME VersionsAssumption ==
    /\ CodeOf \in [Versions -> Codes]
    /\ Unbuildable \subseteq Versions /\ Passing \subseteq Versions
    /\ Unbuildable \cap Passing = {}
ASSUME BoundAssumption == MaxBatches \in Nat /\ Configured \in BOOLEAN

VARIABLES
    batch,       \* security_ingestion, by identifier
    dataset,     \* security_dataset, by data_version
    knowledge,   \* the versions the knowledge service has accepted
    handler,     \* where each worker is in a handler
    requested, parked, done, lease   \* LeasedTasks

securityVars == <<batch, dataset, knowledge, handler>>
deliveryVars == <<requested, parked, done, lease>>
pipelineVars == <<securityVars, deliveryVars>>

Batches == 1 .. MaxBatches

Ingest(b) == <<"ingest", b>>
Build(b) == <<"build", b>>
Register(v) == <<"register", v>>

SecurityTasks ==
    {Ingest(b) : b \in Batches} \cup {Build(b) : b \in Batches}
        \cup {Register(v) : v \in Versions}

\* The aggregate key of each task is the identifier its deduplication key names.
Delivery == INSTANCE LeasedTasks WITH
    Tasks <- SecurityTasks, Resources <- SecurityTasks,
    ResourceOf <- [t \in SecurityTasks |-> t]

\* A handler is "idle"; at "begin", "collecting" or "finishing" an ingest; at "load",
\* "saving" or "refusing" a build; "registering", "accepted", "postponed" or "declined";
\* or "committing", with the next tasks it asks for.
Idle == [pc |-> "idle", task |-> None, next |-> {}]

PipelineInit ==
    /\ batch = [b \in Batches |->
         [status |-> "absent", code |-> None, content |-> None, refused |-> FALSE]]
    /\ dataset = [v \in Versions |->
         [batch |-> None, registered |-> FALSE, failing |-> FALSE]]
    /\ knowledge = {}
    /\ handler = [w \in Workers |-> Idle]
    /\ Delivery!Init

\* The batch, or the version, that worker w's task is about.
Subject(w) == handler[w].task[2]

Goto(w, pc) == handler' = [handler EXCEPT ![w].pc = pc]

\* The handler has returned: its session requests the next tasks and commits.
Return(w, ts) == handler' = [handler EXCEPT ![w].pc = "committing", ![w].next = ts]

Running(kind, w, pc) == handler[w].pc = pc /\ handler[w].task[1] = kind

--------------------------------------------------------------------------------
(* Requesting a batch.                                                      *)

\* start_security_ingestion: the batch, and the task that is to run it, in the
\* transaction of the caller.
StartBatch(b, c) ==
    /\ batch[b].status = "absent"
    /\ \A other \in Batches : other < b => batch[other].status # "absent"
    /\ batch' = [batch EXCEPT ![b] = [@ EXCEPT !.status = "pending", !.code = c]]
    /\ Delivery!Request({Ingest(b)})

RequestIngestion(b, c) ==
    /\ StartBatch(b, c)
    /\ UNCHANGED <<dataset, knowledge, handler>>

--------------------------------------------------------------------------------
(* The handlers.                                                            *)

FirstStep(t) ==
    CASE t[1] = "ingest" -> "begin"
      [] t[1] = "build" -> "load"
      [] t[1] = "register" -> "registering"

StartTask(w, t) ==
    /\ handler[w].pc = "idle"
    /\ Delivery!Take(w, t)
    /\ handler' = [handler EXCEPT ![w] = [pc |-> FirstStep(t), task |-> t, next |-> {}]]
    /\ UNCHANGED <<batch, dataset, knowledge>>

BeginBatch_bug(w) ==   \* a batch whose worker was interrupted is run again
    LET b == Subject(w) IN
    /\ Running("ingest", w, "begin")
    /\ IF batch[b].status \in {"pending", "running"}
       THEN /\ batch' = [batch EXCEPT ![b].status = "running"]
            /\ Goto(w, "collecting")
       ELSE Return(w, {}) /\ UNCHANGED batch
    /\ UNCHANGED <<dataset, knowledge, deliveryVars>>

\* SqlIngestionStore.begin.  A batch found running was interrupted: it has failed.
BeginBatch(w) ==
    LET b == Subject(w) IN
    /\ Running("ingest", w, "begin")
    /\ \/ /\ batch[b].status = "pending"
          /\ batch' = [batch EXCEPT ![b].status = "running"]
          /\ Goto(w, "collecting")
       \/ /\ batch[b].status = "running"
          /\ batch' = [batch EXCEPT ![b].status = "failed"]
          /\ Return(w, {})
       \/ /\ batch[b].status \in {"succeeded", "failed"}
          /\ Return(w, {})
          /\ UNCHANGED batch
    /\ UNCHANGED <<dataset, knowledge, deliveryVars>>

\* The collectors archive what they fetch, item by item; or one of them gives up
\* (CollectError), after which the batch has no content a dataset is built of.
Collect(w) ==
    LET b == Subject(w) IN
    /\ Running("ingest", w, "collecting")
    /\ \/ \E v \in {u \in Versions : CodeOf[u] = batch[b].code} :
            batch' = [batch EXCEPT ![b].content = v]
       \/ UNCHANGED batch
    /\ Goto(w, "finishing")
    /\ UNCHANGED <<dataset, knowledge, deliveryVars>>

\* SqlIngestionStore.finish does not look at the status it overwrites.
FinishBatch(w) ==
    LET b == Subject(w)
        complete == batch[b].content # None
    IN  /\ Running("ingest", w, "finishing")
        /\ batch' = [batch EXCEPT ![b].status = IF complete THEN "succeeded" ELSE "failed"]
        /\ Return(w, IF complete THEN {Build(b)} ELSE {})
        /\ UNCHANGED <<dataset, knowledge, deliveryVars>>

\* build reads the batch and its originals and builds the file.
LoadBatch(w) ==
    LET b == Subject(w) IN
    /\ Running("build", w, "load")
    /\ Goto(w, IF batch[b].status = "succeeded" /\ batch[b].content \notin Unbuildable
               THEN "saving" ELSE "refusing")
    /\ UNCHANGED <<batch, dataset, knowledge, deliveryVars>>

RefuseBuild_bug(w) ==   \* only logs the refusal
    /\ Running("build", w, "refusing")
    /\ Return(w, {})
    /\ UNCHANGED <<batch, dataset, knowledge, deliveryVars>>

RefuseBuild(w) ==
    /\ Running("build", w, "refusing")
    /\ batch' = [batch EXCEPT ![Subject(w)].refused = TRUE]
    /\ Return(w, {})
    /\ UNCHANGED <<dataset, knowledge, deliveryVars>>

\* SqlDatasetStore.save: a version that exists is returned as it is, the batch it
\* was first built of included.
SaveDataset(w) ==
    LET b == Subject(w)
        v == batch[b].content
    IN  /\ Running("build", w, "saving")
        /\ dataset' = IF dataset[v].batch = None
                      THEN [dataset EXCEPT ![v].batch = b] ELSE dataset
        /\ Return(w, IF v \in Passing /\ Configured THEN {Register(v)} ELSE {})
        /\ UNCHANGED <<batch, knowledge, deliveryVars>>

\* register: a version that did not pass is not handed on.  The POST may have been
\* accepted although the answer is lost or not the expected one.
PostDataset(w) ==
    LET v == Subject(w) IN
    /\ Running("register", w, "registering")
    /\ IF v \in Passing
       THEN \/ knowledge' = knowledge \cup {v} /\ Goto(w, "accepted")
            \/ /\ knowledge' \in {knowledge, knowledge \cup {v}}
               /\ Goto(w, "postponed") \/ Goto(w, "declined")
       ELSE Return(w, {}) /\ UNCHANGED knowledge
    /\ UNCHANGED <<batch, dataset, deliveryVars>>

MarkRegistered(w) ==
    /\ Running("register", w, "accepted")
    /\ dataset' = [dataset EXCEPT ![Subject(w)] =
         [@ EXCEPT !.registered = TRUE, !.failing = FALSE]]
    /\ Return(w, {})
    /\ UNCHANGED <<batch, knowledge, deliveryVars>>

\* mark_registration_failed: either way the error is recorded; an error that may
\* pass is raised again, and the task retried.
MarkFailed(w) ==
    /\ \/ Running("register", w, "postponed") /\ handler' = [handler EXCEPT ![w] = Idle]
       \/ Running("register", w, "declined") /\ Return(w, {})
    /\ dataset' = [dataset EXCEPT ![Subject(w)].failing = TRUE]
    /\ UNCHANGED <<batch, knowledge, deliveryVars>>

\* The guarded commit: under a lost lease everything in it is rolled back.
CommitTask(w) ==
    LET t == handler[w].task IN
    /\ handler[w].pc = "committing"
    /\ handler' = [handler EXCEPT ![w] = Idle]
    /\ \/ Delivery!Commit(w, t, handler[w].next)
       \/ ~Delivery!Holds(w, t) /\ UNCHANGED deliveryVars
    /\ UNCHANGED <<batch, dataset, knowledge>>

\* The process dies, the heartbeat finds the lease lost and cancels the handler,
\* or a store, the database or the object storage fails.
AbandonTask(w) ==
    /\ handler[w].pc # "idle"
    /\ handler' = [handler EXCEPT ![w] = Idle]
    /\ UNCHANGED <<batch, dataset, knowledge, deliveryVars>>

HandlerStep(w) ==
    \/ BeginBatch(w)
    \/ Collect(w)
    \/ FinishBatch(w)
    \/ LoadBatch(w)
    \/ RefuseBuild(w)
    \/ SaveDataset(w)
    \/ PostDataset(w)
    \/ MarkRegistered(w)
    \/ MarkFailed(w)
    \/ CommitTask(w)

\* A lease ends: it lapses, or its worker gives it back.  (A clock set back may
\* bring back a lease nobody has taken over: that is as if it had not ended.  A
\* parked task is one that nobody starts: as good as a delivery that is late.)
LeaseEnds ==
    /\ \E t \in SecurityTasks : lease[t].live /\ Delivery!GiveBack(t)
    /\ UNCHANGED securityVars

PipelineNext ==
    \/ \E b \in Batches, c \in Codes : RequestIngestion(b, c)
    \/ \E w \in Workers : \/ \E t \in SecurityTasks : StartTask(w, t)
                          \/ HandlerStep(w)
                          \/ AbandonTask(w)
    \/ LeaseEnds

PipelineSpec == PipelineInit /\ [][PipelineNext]_pipelineVars

--------------------------------------------------------------------------------
(* Properties.                                                              *)

\* Nobody visits the sources for a batch somebody else is still collecting, whatever
\* is redelivered and whichever lease was lost (SECURITY_INGESTION.md:39).
OneCollector ==
    \A w, other \in Workers :
        /\ handler[w].pc \in {"collecting", "finishing"}
        /\ handler[other].pc \in {"collecting", "finishing"}
        /\ Subject(w) = Subject(other)
        => w = other

\* A task that is acknowledged has left its result where the requests' progress looks
\* for it: the batch has ended, the build gave a dataset or is recorded as refused,
\* the registration succeeded or its error is recorded.
DoneMeansDecided ==
    /\ \A b \in Batches :
        /\ Ingest(b) \in done => batch[b].status \in {"succeeded", "failed"}
        /\ Build(b) \in done =>
              \/ batch[b].refused
              \/ \E v \in Versions : batch[b].content = v /\ dataset[v].batch # None
    /\ \A v \in Versions :
        Register(v) \in done => dataset[v].registered \/ dataset[v].failing

\* "the next step is committed with this task's completion: it is not left out"
\* (delivery_handlers.py:54).
NextStepNotLeftOut ==
    \A b \in Batches :
        Ingest(b) \in done /\ batch[b].status = "succeeded" => Build(b) \in requested

==================================================================================
