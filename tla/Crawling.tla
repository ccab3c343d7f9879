--------------------------------- MODULE Crawling ---------------------------------
(***************************************************************************)
(* Crawl jobs, the documents they make and the index of their versions     *)
(* (application/services/info_crawl_service.py).                           *)
(*                                                                         *)
(* A crawl is a durable task.  It admits itself to its source with an      *)
(* advisory lock, commits that it runs, fetches without any row lock, then *)
(* locks the document, and commits the job, the document, the version and  *)
(* the request to index it in one transaction, under the lease of the task.*)
(* Administrators create and run jobs, upload files, let a collector       *)
(* discover jobs and review documents meanwhile.                           *)
(***************************************************************************)
EXTENDS Naturals, Sequences, FiniteSets

CONSTANTS
    None,
    Workers,
    Clients,         \* requests of administrators, each with a session of its own
    Jobs,
    Sources,
    SourceOf,        \* [Jobs -> Sources], or the host of the target URL
    Documents,       \* by canonical identity
    Texts,           \* the contents a page or a file may have, by hash
    SearchEnabled,
    MaxGeneration,   \* bound: deliveries requested of one job
    MaxVersions,     \* bound: versions of one document
    MaxSessions      \* bound: workers and clients busy at a time

ASSUME NoneAssumption == None \notin Workers \cup Clients \cup Documents \cup Texts
ASSUME ActorsAssumption == Workers \cap Clients = {}
ASSUME SourcesAssumption == SourceOf \in [Jobs -> Sources]
ASSUME CrawlBounds ==
    /\ MaxGeneration \in Nat /\ MaxVersions \in Nat /\ MaxSessions \in Nat
    /\ SearchEnabled \in BOOLEAN

VARIABLES
    job,        \* knowfeed_crawl_job
    document,   \* knowfeed_document with its versions, and who has its row locked
    slot,       \* who holds the advisory lock of each source
    outage,     \* has the database dropped the connection of a slot
    indexed,    \* the versions the search index has an entry of
    actor,      \* where each worker and each client is
    requested, parked, done, lease   \* LeasedTasks

infoVars == <<job, document, slot, outage, indexed>>
deliveryVars == <<requested, parked, done, lease>>
crawlVars == <<infoVars, actor, deliveryVars>>

Actors == Workers \cup Clients
Numbers == 1 .. MaxVersions

Crawl(j, g) == <<"crawl", j, g>>
Index(d, n) == <<"index", d, n>>

CrawlTasks ==
    {Crawl(j, g) : j \in Jobs, g \in 0 .. MaxGeneration}
        \cup {Index(d, n) : d \in Documents, n \in Numbers}

\* The aggregate of a crawl is its job, of whatever generation; that of an index
\* task is the version.
ResourceOf ==
    [t \in CrawlTasks |-> IF t[1] = "crawl" THEN <<"crawl", t[2]>> ELSE <<"index", t[2], t[3]>>]
Aggregates == {ResourceOf[t] : t \in CrawlTasks}

Delivery == INSTANCE LeasedTasks WITH Tasks <- CrawlTasks, Resources <- Aggregates

\* The reviews of a document are the review_history of its metadata, each named by the
\* client that made it.  A version is a number and a text, None where the extraction failed.  An actor is
\* "idle"; at "admit", "begin", "fetching", "locking", "finishing" or "committing" a crawl,
\* some of these also for an upload; "discovering"; or "reviewing" with what it has read.
Idle ==
    [pc |-> "idle", task |-> None, source |-> None, document |-> None, text |-> None,
     number |-> 0, reviews |-> {}]

CrawlInit ==
    /\ job = [j \in Jobs |-> [status |-> "absent", generation |-> 0]]
    /\ document = [d \in Documents |->
         [versions |-> <<>>, current |-> 0, reviews |-> {}, locked |-> None]]
    /\ slot = [s \in Sources |-> None]
    /\ outage = FALSE
    /\ indexed = {}
    /\ actor = [a \in Actors |-> Idle]
    /\ Delivery!Init

At(a, pc) == actor[a].pc = pc
JobOf(w) == actor[w].task[2]
MayStart(a) ==
    /\ At(a, "idle")
    /\ Cardinality({b \in Actors : ~At(b, "idle")}) < MaxSessions   \* bound

CurrentText(d) ==
    IF document[d].current = 0 THEN None
    ELSE document[d].versions[document[d].current].text

\* The locks a session holds end with it.
RowsFreedBy(a, docs) ==
    [d \in Documents |-> IF docs[d].locked = a THEN [docs[d] EXCEPT !.locked = None] ELSE docs[d]]
SlotsFreedBy(a) == [s \in Sources |-> IF slot[s] = a THEN None ELSE slot[s]]

--------------------------------------------------------------------------------
(* Jobs are created, discovered and requested.                              *)

\* create_crawl_job: the task, when it is asked for, in the same transaction.
CreateJob(j, enqueue) ==
    /\ job[j].status = "absent"
    /\ job' = [job EXCEPT ![j].status = "pending"]
    /\ Delivery!Request(IF enqueue THEN {Crawl(j, 0)} ELSE {})
    /\ UNCHANGED <<document, slot, outage, indexed, actor>>

\* request_crawl_job: only a failed job gets a task of a new generation; the others
\* get the task they have, if they have it.
RequestJob(j) ==
    LET generation == job[j].generation + (IF job[j].status = "failed" THEN 1 ELSE 0) IN
    /\ job[j].status \notin {"absent", "succeeded"}
    /\ generation <= MaxGeneration
    /\ job' = [job EXCEPT ![j].generation = generation,
                          ![j].status = IF @ = "running" THEN @ ELSE "pending"]
    /\ Delivery!Request({Crawl(j, generation)})
    /\ UNCHANGED <<document, slot, outage, indexed, actor>>

\* run_collector_discovery visits the source in its slot, or is turned away.
StartDiscovery(c, s) ==
    /\ MayStart(c)
    /\ slot[s] = None
    /\ slot' = [slot EXCEPT ![s] = c]
    /\ actor' = [actor EXCEPT ![c] = [Idle EXCEPT !.pc = "discovering", !.source = s]]
    /\ UNCHANGED <<job, document, outage, indexed, deliveryVars>>

\* The jobs it has found are committed after the slot is given back.
FinishDiscovery(c) ==
    /\ At(c, "discovering")
    /\ slot' = SlotsFreedBy(c)
    /\ actor' = [actor EXCEPT ![c] = Idle]
    /\ \E found \in SUBSET {j \in Jobs : /\ job[j].status = "absent"
                                          /\ SourceOf[j] = actor[c].source} :
          job' = [j \in Jobs |-> IF j \in found THEN [job[j] EXCEPT !.status = "pending"]
                                 ELSE job[j]]
    /\ UNCHANGED <<document, outage, indexed, deliveryVars>>

--------------------------------------------------------------------------------
(* A crawl.                                                                 *)

StartCrawl(w, t) ==
    /\ t[1] = "crawl"
    /\ MayStart(w)
    /\ Delivery!Take(w, t)
    /\ actor' = [actor EXCEPT ![w] = [Idle EXCEPT !.pc = "admit", !.task = t]]
    /\ UNCHANGED infoVars

AdmitCrawl_bug(w) ==   \* a crawl that is turned away counts as executed
    LET s == SourceOf[JobOf(w)] IN
    /\ At(w, "admit")
    /\ IF job[JobOf(w)].status \in {"succeeded", "failed"} \/ slot[s] # None
       THEN actor' = [actor EXCEPT ![w].pc = "committing"] /\ UNCHANGED slot
       ELSE /\ slot' = [slot EXCEPT ![s] = w]
            /\ actor' = [actor EXCEPT ![w].pc = "begin", ![w].source = s]
    /\ UNCHANGED <<job, document, outage, indexed, deliveryVars>>

\* process_crawl_job.  A busy source is an error: the task is tried again later.
AdmitCrawl(w) ==
    LET s == SourceOf[JobOf(w)] IN
    /\ At(w, "admit")
    /\ \/ /\ job[JobOf(w)].status \in {"succeeded", "failed"}
          /\ actor' = [actor EXCEPT ![w].pc = "committing"]
          /\ UNCHANGED slot
       \/ /\ job[JobOf(w)].status \notin {"succeeded", "failed"}
          /\ slot[s] = None
          /\ slot' = [slot EXCEPT ![s] = w]
          /\ actor' = [actor EXCEPT ![w].pc = "begin", ![w].source = s]
       \/ /\ job[JobOf(w)].status \notin {"succeeded", "failed"}
          /\ slot[s] # None
          /\ actor' = [actor EXCEPT ![w] = Idle]
          /\ UNCHANGED slot
    /\ UNCHANGED <<job, document, outage, indexed, deliveryVars>>

BeginCrawl_bug(w) ==   \* the slot is a lock of the session, released by its commit
    LET j == JobOf(w) IN
    /\ At(w, "begin")
    /\ IF job[j].status \in {"succeeded", "failed"}
       THEN actor' = [actor EXCEPT ![w].pc = "committing"] /\ UNCHANGED job
       ELSE /\ Delivery!Holds(w, actor[w].task)
            /\ job' = [job EXCEPT ![j].status = "running"]
            /\ actor' = [actor EXCEPT ![w].pc = "fetching"]
    /\ slot' = SlotsFreedBy(w)
    /\ UNCHANGED <<document, outage, indexed, deliveryVars>>

\* _process_admitted_crawl_job looks at the job again, now in the slot, and commits
\* that it runs if the lease is still its own.
BeginCrawl(w) ==
    LET j == JobOf(w) IN
    /\ At(w, "begin")
    /\ \/ /\ job[j].status \in {"succeeded", "failed"}
          /\ actor' = [actor EXCEPT ![w].pc = "committing"]
          /\ slot' = SlotsFreedBy(w)
          /\ UNCHANGED job
       \/ /\ job[j].status \notin {"succeeded", "failed"}
          /\ Delivery!Holds(w, actor[w].task)
          /\ job' = [job EXCEPT ![j].status = "running"]
          /\ actor' = [actor EXCEPT ![w].pc = "fetching"]
          /\ UNCHANGED slot
    /\ UNCHANGED <<document, outage, indexed, deliveryVars>>

\* The response is fetched, archived and its text extracted.  The page may have been
\* redirected to the URL of any document.  Without a page, or with an error page,
\* there is no document to record the failure on.
Fetch(w) ==
    /\ At(w, "fetching")
    /\ \/ \E d \in Documents, x \in Texts \cup {None} :
            actor' = [actor EXCEPT ![w] =
              [@ EXCEPT !.pc = "locking", !.document = d, !.text = x]]
       \/ actor' = [actor EXCEPT ![w].pc = "finishing"]
    /\ UNCHANGED <<infoVars, deliveryVars>>

LockDocument_bug(a) ==   \* reads the row and its versions without FOR UPDATE
    LET d == actor[a].document IN
    /\ At(a, "locking")
    /\ actor' = [actor EXCEPT ![a] =
         [@ EXCEPT !.pc = "finishing", !.number = Len(document[d].versions) + 1,
                   !.reviews = document[d].reviews]]
    /\ UNCHANGED <<infoVars, deliveryVars>>

\* _find_or_create_document and _next_version_no hold the row until the transaction
\* ends.  _apply_duplicate_metadata rewrites the metadata, with the reviews it finds.
LockDocument(a) ==
    LET d == actor[a].document IN
    /\ At(a, "locking")
    /\ document[d].locked = None
    /\ document' = [document EXCEPT ![d].locked = a]
    /\ actor' = [actor EXCEPT ![a] =
         [@ EXCEPT !.pc = "finishing", !.number = Len(document[d].versions) + 1,
                   !.reviews = document[d].reviews]]
    /\ UNCHANGED <<job, slot, outage, indexed, deliveryVars>>

\* A new version of text x, numbered and with the reviews as its author has read them.
Versioned(row, author, x) ==
    [row EXCEPT !.versions = Append(@, [number |-> author.number, text |-> x]),
                !.current = author.number, !.reviews = author.reviews]

\* The document as actor a commits it.
WithVersion(a, x) ==
    LET d == actor[a].document IN
    [document EXCEPT ![d] = Versioned(document[d], actor[a], x)]

\* The final commit of the crawl: everything, if the lease is still its own.
EndCrawl(w, status, docs, tasks) ==
    /\ At(w, "finishing")
    /\ w \in Workers
    /\ Delivery!Holds(w, actor[w].task)
    /\ job' = [job EXCEPT ![JobOf(w)].status = status]
    /\ document' = RowsFreedBy(w, docs)
    /\ slot' = SlotsFreedBy(w)
    /\ Delivery!Request(tasks)
    /\ actor' = [actor EXCEPT ![w] = [Idle EXCEPT !.pc = "committing", !.task = actor[w].task]]
    /\ UNCHANGED <<outage, indexed>>

\* The text is the one the document has: the job succeeds without a version.
EndUnchanged(w) ==
    LET d == actor[w].document IN
    /\ d # None
    /\ actor[w].text # None
    /\ actor[w].text = CurrentText(d)
    /\ EndCrawl(w, "succeeded", [document EXCEPT ![d].reviews = actor[w].reviews], {})

EndWithVersion(w) ==
    LET d == actor[w].document
        n == actor[w].number
    IN  /\ d # None
        /\ n <= MaxVersions
        /\ actor[w].text # None
        /\ actor[w].text # CurrentText(d)
        /\ EndCrawl(w, "succeeded", WithVersion(w, actor[w].text), {Index(d, n)})

EndWithFailure_bug(w) ==   \* leaves the failure out of the index
    LET d == actor[w].document
        n == actor[w].number
    IN  /\ d # None
        /\ n <= MaxVersions
        /\ actor[w].text # None => actor[w].text # CurrentText(d)
        /\ EndCrawl(w, "failed", WithVersion(w, None), {})

\* _record_extraction_failure: nothing was extracted, or the extracted files could not
\* be stored.  The failure becomes the current version.
EndWithFailure(w) ==
    LET d == actor[w].document
        n == actor[w].number
    IN  /\ d # None
        /\ n <= MaxVersions
        /\ actor[w].text # None => actor[w].text # CurrentText(d)
        /\ EndCrawl(w, "failed", WithVersion(w, None), {Index(d, n)})

EndWithoutDocument(w) ==
    /\ actor[w].document = None
    /\ EndCrawl(w, "failed", document, {})

\* The guarded commit of the acknowledgement.
CommitTask(w) ==
    LET t == actor[w].task IN
    /\ At(w, "committing")
    /\ actor' = [actor EXCEPT ![w] = Idle]
    /\ \/ Delivery!Commit(w, t, {})
       \/ ~Delivery!Holds(w, t) /\ UNCHANGED deliveryVars
    /\ UNCHANGED infoVars

--------------------------------------------------------------------------------
(* The index.                                                               *)

\* The entry of a version is PUT under the identifier of the version.
Entry(t) == <<t[2], t[3]>>

\* index_document_version and its task in one step, as what the entry holds is left out.
\* The task is acknowledged, or its worker does not get that far; an error is raised
\* (delivery_handlers.py).
IndexVersion(t) ==
    /\ t[1] = "index"
    /\ t \in requested \ done
    /\ indexed' = IF SearchEnabled THEN indexed \cup {Entry(t)} ELSE indexed
    /\ done' \in {done, done \cup {t}}
    /\ UNCHANGED <<job, document, slot, outage, actor, requested, parked, lease>>

--------------------------------------------------------------------------------
(* Uploads and reviews.                                                     *)

\* ingest_uploaded_file: a file that has no text is a version of its bytes.  (No page
\* has the identity of a file; that they may meet here only adds interleavings.)
StartUpload(c) ==
    /\ MayStart(c)
    /\ \E d \in Documents, x \in Texts :
          actor' = [actor EXCEPT ![c] =
            [Idle EXCEPT !.pc = "locking", !.document = d, !.text = x]]
    /\ UNCHANGED <<infoVars, deliveryVars>>

FinishUpload(c) ==
    LET d == actor[c].document
        n == actor[c].number
    IN  /\ At(c, "finishing")
        /\ c \in Clients
        /\ n <= MaxVersions
        /\ document' = RowsFreedBy(c, WithVersion(c, actor[c].text))
        /\ Delivery!Request({Index(d, n)})
        /\ actor' = [actor EXCEPT ![c] = Idle]
        /\ UNCHANGED <<job, slot, outage, indexed>>

StartReview_bug(c) ==   \* reads the document without FOR UPDATE
    /\ MayStart(c)
    /\ \E d \in Documents :
        /\ document[d].current > 0
        /\ c \notin document[d].reviews
        /\ actor' = [actor EXCEPT ![c] =
             [Idle EXCEPT !.pc = "reviewing", !.document = d, !.reviews = document[d].reviews]]
    /\ UNCHANGED <<infoVars, deliveryVars>>

\* _get_document_for_mutation.  A reviewer who expects another state gets a conflict.
StartReview(c) ==
    /\ MayStart(c)
    /\ \E d \in Documents :
        /\ document[d].current > 0
        /\ c \notin document[d].reviews   \* bound: each client reviews a document once
        /\ document[d].locked = None
        /\ document' = [document EXCEPT ![d].locked = c]
        /\ actor' = [actor EXCEPT ![c] =
             [Idle EXCEPT !.pc = "reviewing", !.document = d, !.reviews = document[d].reviews]]
    /\ UNCHANGED <<job, slot, outage, indexed, deliveryVars>>

\* The metadata as it was read, with one more entry in its history.
Reviewed(row, reviews, c) == [row EXCEPT !.reviews = reviews \cup {c}]

\* The UPDATE waits for a row that another transaction has locked.
FinishReview(c) ==
    LET d == actor[c].document IN
    /\ At(c, "reviewing")
    /\ document[d].locked \in {None, c}
    /\ document' = RowsFreedBy(c,
         [document EXCEPT ![d] = Reviewed(document[d], actor[c].reviews, c)])
    /\ actor' = [actor EXCEPT ![c] = Idle]
    /\ UNCHANGED <<job, slot, outage, indexed, deliveryVars>>

--------------------------------------------------------------------------------
(* Failures.                                                                *)

\* The session ends without a commit: the process dies, the handler is cancelled
\* because the lease is lost, or the database, the storage or the index fails.
Abandon(a) ==
    /\ ~At(a, "idle")
    /\ actor' = [actor EXCEPT ![a] = Idle]
    /\ document' = RowsFreedBy(a, document)
    /\ slot' = SlotsFreedBy(a)
    /\ UNCHANGED <<job, outage, indexed, deliveryVars>>

\* The database drops the connection that holds a slot, and nothing else.
DropSlot(s) ==
    /\ slot[s] # None
    /\ slot' = [slot EXCEPT ![s] = None]
    /\ outage' = TRUE
    /\ UNCHANGED <<job, document, indexed, actor, deliveryVars>>

LeaseEnds ==
    /\ \E r \in Aggregates : lease[r].live /\ Delivery!GiveBack(r)
    /\ UNCHANGED <<infoVars, actor>>

CrawlStep(w) ==
    \/ AdmitCrawl(w)
    \/ BeginCrawl(w)
    \/ Fetch(w)
    \/ LockDocument(w)
    \/ EndUnchanged(w)
    \/ EndWithVersion(w)
    \/ EndWithFailure(w)
    \/ EndWithoutDocument(w)

ClientStep(c) ==
    \/ \E s \in Sources : StartDiscovery(c, s)
    \/ FinishDiscovery(c)
    \/ StartUpload(c)
    \/ LockDocument(c)
    \/ FinishUpload(c)
    \/ StartReview(c)
    \/ FinishReview(c)

CrawlNext ==
    \/ \E j \in Jobs : RequestJob(j) \/ \E enqueue \in BOOLEAN : CreateJob(j, enqueue)
    \/ \E w \in Workers : \/ \E t \in CrawlTasks : StartCrawl(w, t)
                          \/ CrawlStep(w)
                          \/ CommitTask(w)
    \/ \E t \in CrawlTasks : IndexVersion(t)
    \/ \E c \in Clients : ClientStep(c)
    \/ \E a \in Actors : Abandon(a)
    \/ \E s \in Sources : DropSlot(s)
    \/ LeaseEnds

CrawlSpec == CrawlInit /\ [][CrawlNext]_crawlVars

--------------------------------------------------------------------------------
(* Properties.                                                              *)

\* Crawls, uploads and failures of one document number its versions without a gap and
\* without a number used twice, and the newest is the current one, whoever was fetching
\* at the same time (uq_knowfeed_document_version_no, _next_version_no).
NumberedInOrder ==
    \A d \in Documents :
        /\ \A i \in DOMAIN document[d].versions : document[d].versions[i].number = i
        /\ document[d].current = Len(document[d].versions)

\* Two executions never visit one source at the same time, redelivered crawls and
\* discoveries included, until the database drops the connection that holds a slot
\* (crawl_concurrency.py:3).
Visiting(a) == actor[a].pc \in {"begin", "fetching", "discovering"}
OneExecutionPerSource ==
    ~outage =>
        \A a, other \in Actors :
            /\ Visiting(a)
            /\ Visiting(other)
            /\ actor[a].source = actor[other].source
            => a = other

\* A crawl that is acknowledged has ended its job, unless the job has been requested
\* again since: no request is lost because the source was busy or a worker gave up.
AcknowledgedIsEnded ==
    \A j \in Jobs, g \in 0 .. MaxGeneration :
        Crawl(j, g) \in done =>
            job[j].status \in {"succeeded", "failed"} \/ job[j].generation > g

\* Every version is in the index once its task is acknowledged, and there is a task
\* for every version, those of failures included.
VersionsReachIndex ==
    \A d \in Documents : \A i \in DOMAIN document[d].versions :
        /\ Index(d, i) \in requested
        /\ SearchEnabled /\ Index(d, i) \in done => <<d, i>> \in indexed

\* A review, once committed, stays in the history of its document: a crawl, an upload
\* or another review that writes the metadata read before does not take it out again.
ReviewsStay ==
    [][\A d \in Documents : document[d].reviews \subseteq document'[d].reviews]_crawlVars

===================================================================================
