# Formal models of the info backend ("knowfeed")

TLA+ modules for the backend: the durable outbox and the tasks it delivers, the
business rows those tasks and HTTP sessions change at the same time, the browser
logins, what the service does over the network, and the steps from a company's
annual reports to its dataset.  TLC checks small instances; TLAPS proves every safety
property of the runs for any number of processes, messages and objects, and for reports,
statements and lists of any length.  `PROJECT.json` maps every definition to its lines of
code.

## 1. The system

A FastAPI application, Celery workers and a Celery beat share one PostgreSQL
(READ COMMITTED).  Redis holds browser sessions, a versioned object storage the
originals; a knowledge app and a search index are downstream, an identity provider
and public sites upstream.  Nothing in the business code waits for a broker: a
transaction that wants work done inserts a row into `outbox_message`; beat starts a
*pump* every five seconds that turns due rows into broker hints; a *consumer* that
gets a hint takes a lease on the message's aggregate, runs the handler, and
acknowledges by an `inbox_message` row.

| Component | State | Operations | Interacts with | What is hard | What makes it correct |
| --- | --- | --- | --- | --- | --- |
| Durable delivery (`durable_delivery.py`, `outbox.py`) | message rows, dead letters, delivery leases | enqueue, reconcile, claim, publish, finish, replay | broker; consumers | pumps that race or die, lost and duplicated hints, clocks set back, attempts | nothing requested is forgotten; a message is given up only with its attempts used up; only replay leaves the journal |
| Durable tasks (`durable_tasks.py`) | execution leases, inbox | claim, start, renew, commit, complete, release | all handlers | a worker suspended past its lease | one final commit per message; fenced commits |
| Securities pipeline (`delivery_handlers.py`, `ingestion_service.py`, `dataset_service.py`, `registration_service.py`, stores) | batches, originals, datasets | begin, collect, finish, build, refuse, save, register | outbox, sites, object storage, knowledge service | stores commit in sessions of their own, not under the lease | one collector; an acknowledged task has left its result; a batch that succeeds is complete |
| Security requests (`request_service.py`, `request_store.py`) | requests, requesters, watchlist | submit, join, withdraw, approve, reject, view | starts batches; reads batches and datasets | concurrent sessions; progress read first and recorded later | limit per user; one open request per company; an outcome stays |
| Financial checks, report extraction (`application/securities/dataset/`, `report_extraction/`) | none | screen, read reports, assign bases, check; find statements, items, units | dataset build | titles and units that repeat, restated years, boundaries | what is published agrees with a report; no table, unit or amount is mixed up |
| Distribution (`info_crawl_service.py` 970-1401) | distribution records | create, edit, retry, dispatch | outbox, knowledge app | a remote call between reading and writing a record | delivered means received; no execution takes a retry back |
| Crawl jobs and documents (rest of `info_crawl_service.py`, `crawl_concurrency.py`) | jobs, documents, versions | create, request, discover, crawl, upload, review | outbox, sites, object storage, index | one job per source, version numbers, failures half-way | versions numbered in order; no request lost; reviews stay |
| Search index (`info_index.py`) | entries of versions | index, rebuild | crawl jobs | a version whose indexing is never asked for | every version gets there |
| Login and sessions (`auth_service.py`, `oidc.py`, `session_store.py`) | Redis transactions and sessions, users, cached keys | begin, complete, read, end | identity provider | concurrent callbacks, two surfaces with one row of users, keys that rotate | a login gives one session, with its own roles; good tokens are accepted |
| External clients (`crawl_http.py`, `knowbase_app.py`, `downstream_service.py`) | DNS slots, cached tokens | fetch, ask for a token | public sites, other services | lookups nobody can cancel, redirects, bodies that inflate, expiry | slots come back; headers stay home; memory is bounded; one request for a token at a time |
| Artifact reconciliation (`artifact_reconciliation.py`, `object_storage.py`) | none (reads) | a page of objects or rows | storage, all writers | pages are no snapshot | a candidate had no row when its page was listed; a pass sees everything |
| Observation, HTTP interfaces, settings, command lines, provisioning | | | | | not modelled as such, see section 8 |

## 2. The modules

```
TaskContract        what the outbox promises a producer                  (abstract)
LeasedTasks         what it offers a handler                             (abstract)
DurableDelivery     outbox rows, pumps, dead letters
  DurableTasks      + consumers and execution leases; implements both contracts
SecurityPipeline    three task handlers, over LeasedTasks
  SecurityRequests  + users' requests and the sessions that serve them
Collecting          one batch of originals: the inside of SecurityPipeline's Collect
DatasetBuild        from originals to a dataset: the inside of its build
  ReportReader      finding the statements in the lines of a report
  StatementLines    from the lines of a statement to figures
  CrossYear         two reports on one year
Crawling            crawls, uploads, reviews and indexing, over LeasedTasks
Distribution        the distribution handler and its HTTP operations, over LeasedTasks
Login               logins and browser sessions on two surfaces
ServiceTokens       the token cache of a client of another service
Fetching            fetching a page of the public internet
ArtifactInventory   taking stock of the object storage while it is written to
*_proofs            DurableTasks, SecurityPipeline, SecurityRequests, Crawling,
                    Identity (Login, ServiceTokens), Network (Distribution, Fetching,
                    Collecting, ArtifactInventory), Reports (ReportReader,
                    StatementLines), Figures (DatasetBuild, CrossYear)
MC...               the instances TLC checks
```

The split follows the leases.  `DurableTasks` has every step of the runtime and is
too large to be run under a handler; it is shown to implement `LeasedTasks` (a task
is taken under a lease, the lease may end any time, only its holder commits), and
the handlers' modules are written against the operators of `LeasedTasks`.  Their
`LeaseEnds` is a lapse and a release in one: for a handler the two are the same.
(The indentation under `DatasetBuild` is one of purpose; those modules share no state.)

Modules hold, next to some definitions, a variant named `..._bug`: the definition
with a plausible mistake.  `PROJECT.json` pairs each with the property that must
fail when it takes the place of the definition, which shows that the property depends
on that piece of the code.  No specification uses them.

### DurableDelivery, DurableTasks

`outbox[m]` is a row of `outbox_message` with its delivery lease (`none`, `lapsed`,
`live` instead of a time), `dead` the open rows of `outbox_dead_letter`, `inbox` the
acknowledged messages, `execution[a]` the row of `outbox_execution` of an aggregate,
`pump[p]` and `worker[w]` where a process is in `_run` and `consume`.  Times become
actions that say when a deadline passes (`DeliveryLeaseLapses`, `BackoffEnds`,
`PublicationAges`, `ExecutionLeaseLapses`, `Ripen`).  All of them are compared with the one
database clock, so `ClockSetBack` takes any of them back: leases, not-before times, the
times at which a row is due or its publication too old.  A worker remembers the corrections
there had been when it read its message (`asof`).  `work`, `effects` and `freed` are history
variables.

### SecurityPipeline, Collecting

`batch`, `dataset` are the rows; a *version* stands for the contents of a batch,
since equal contents give equal versions.  `handler[w]` is the step a worker is at;
each step is one transaction of a store, which the lease does not guard; only
`CommitTask` is.  `AbandonTask` (crash, cancelled by the heartbeat, I/O error) can
come between any two.  A parked task is a task nobody starts, so parking has no
action here.

The fetches of a collection are one step there, `Collect`, and a module of their own:
`Collecting` asks (`Receive`, `FetchFails`, `TryAgain`), archives each answer in its own
transaction (`Archive`) and only then lets the collector look at it (`Use`), so that
what is asked next depends on what was answered.  Sites may answer anything: pages that
shift, totals that are missing, reports listed twice, failures worth a retry and others.

### SecurityRequests

`request[r]` is a row with the users who have not withdrawn.  `session[s]` is a
transaction that has read something: `SubmitRead` is `submit` up to the count of the
user's requests (it holds the advisory lock and the rows it locked), `SubmitJoin`
and `SubmitCreate` are its commit; `ViewRead` and `ViewClose` are a look at a
request, whose progress is read without a lock and recorded later.  Operations that
lock their row first and change nothing before it (`Withdraw`, `Approve`, `Reject`)
are one action.  A submission takes its row locks at once; the deadlock that two of
them can run into in PostgreSQL aborts one, which is `SessionAborts`.

### DatasetBuild, ReportReader, StatementLines, CrossYear

`DatasetBuild` goes through `DatasetService.build`: the third party's statements are
parsed and screened (`ReadStatements`), the reports are read in the order of year and
disclosure (`NextReport`, `ReadReport`), each annual row gets the basis on which a
report agrees with it (`AssignBasis`, `Decide`), and `Publish` applies the four
blocking checks.  The catalogue and what a report may say are parameters.

`ReportReader` prints a report line by line and reads it at the same time: titles, units,
amounts, across pages and repeated titles; `printed` also keeps which table a line
really belongs to, which the code cannot know and the properties compare with.
`StatementLines` matches the rows with item names, which may run over lines (`resolve`),
balances the statement and judges its unit.  `CrossYear` compares by name
(`CompareByName`), then by value (`PairByValue`).

### Crawling

A crawl is admitted to its source (`AdmitCrawl`, advisory lock in a connection of its
own: `slot`), commits that it runs (`BeginCrawl`), fetches (`Fetch`), locks the document
(`LockDocument`) and ends in one of four ways, each one transaction under the lease.
Uploads and reviews (`StartUpload`, `FinishUpload`, `StartReview`, `FinishReview`) work on
the same rows; `StartDiscovery` competes for the slot; `Abandon`, `DropSlot` and `LeaseEnds`
are the failures; `IndexVersion` is the task every version asks for.

### Distribution

`record[d]` has the status and the length of the retry history, which names the
next command.  The handler is `MarkRunning` (commits), `Send` (the POST, no lock
held), `Settle` (writes back what it read before), `CommitSending`.  `received` is what
the knowledge app has, `raced` the records an administrator edited between the first two
commits of the handler (`InFlight`).

### Login, ServiceTokens

`transaction[t]` is a login transaction in Redis, which `TakeTransaction` consumes (GETDEL);
the callback goes on with `ExchangeCode`, `DecodeWithCache`, `AskForKeys`,
`DecodeWithAnswer`, `Validate`, `UpsertUser` and `CreateSession`, and may break off
anywhere (`AbandonLogin`).  `published` and `keyCache` are the provider's keys and what each
surface has cached of them; `RotateKeys`, `Deploy` and `Tick` change the world meanwhile.
A session is read by `ServeRequest`, which drops it when it has expired
or is of an older policy; `served` is the last request that got through.

`ServiceTokens` is the double-checked cache of one token: a look without the lock, one with
it, the request, the answer, the margin.  It has the life the client believes a token to have,
by a clock that may be set back, and says nothing of the life the provider gives it.

### Fetching, ArtifactInventory

`fetch[f]` is where a coroutine is in `fetch_crawl_url`; `lookup[f]` is the thread that
resolves a name for it, which goes on when the coroutine gives up (`abandoned`), and
`free` the slots.  A hop resolves, connects to the address it has checked, follows a
redirect or reads the body chunk by chunk.

`ArtifactInventory` has the versions of the storage, the rows of `raw_artifact`, writers between
upload and commit, and one operator who goes through either of them page by page, each page
a listing, then a snapshot of the database, then its entries.  The storage's clock and the
operator's are unrelated, and a row may be committed however long after the upload.

## 3. The runs

| Run | Instance | What it shows |
| --- | --- | --- |
| `pumps` | 1 scheduled message, 2 pumps, 1 worker, 2 attempts before the journal, 1 clock correction | `GivenUpAfterAttempts`, `NoWorkOutOfTurn`, `ImplementsContract` (refinement of `TaskContract`) |
| `workers` | 1 message, 1 pump, 2 workers, 3 executions, 1 clock correction | `EffectOnce`, `Fencing`, `ReleasedForGood`, `ImplementsLeases` (refinement of `LeasedTasks`) |
| `settled` | 1 message, 1 pump, 1 worker, every hint may be lost | `Settled` (liveness) |
| `pipeline` | 2 batches, 2 workers, a content that passes and one that cannot be built | `OneCollector`, `DoneMeansDecided` |
| `requests_shared` | 2 users, 2 sessions, 2 companies, 2 requests, limit 1 | `WithinLimit`, `SharedByRequesters` |
| `requests_outcome` | 1 request, 2 sessions, 2 workers, a content whose dataset passes and is registered and one that does not pass | `AvailableIsServed`, `OutcomeStays` |
| `crawling` | 1 job that may be requested again, 1 document, 2 workers and 2 clients, 2 of them busy at a time, 2 versions, a review by each client | `NumberedInOrder`, `OneExecutionPerSource`, `AcknowledgedIsEnded`, `VersionsReachIndex`, `ReviewsStay` |
| `login` | 2 surfaces, 2 logins, 2 callbacks at a time, 2 keys; 3 callers of another service, 3 lives, a clock set back twice | `OneSessionPerLogin`, `RolesOfOwnLogin`, `PublishedKeysAccepted`, `ServedWithinToken`; `OneRequest` |
| `figures` | 3 years and 3 reports, the oldest year before the hard window; reports of 3 pages and 6 lines, each turn of a page counted as one; statements of 3 rows; columns of 3 amounts | `PublishedAgrees`, `OnlyOldPeriodsMissing`, `BreaksAreRestatements`; `ExtractedWhole`, `UnitIsItsOwn`; `RowsReadOnce`, `ScaleIsRight`; `EveryAmountOnce` |
| `network` | 1 record, 2 workers, 1 retry, 2 edits; 2 fetchers, 1 slot, 2 redirects, 2 bytes; 2 statements, 2 pages, 2 attempts; 3 objects, pages of 1 | `SucceededIsReceived`, `HistoryCoversCommands`; `SlotsKept`, `OwnHeadersStayHome`, `MemoryBounded`; `SucceededIsWhole`; `CandidatesWereUnregistered`, `PassCoversAll` |
| `next_step` | the pipeline | violation of `NextStepNotLeftOut` (section 4) |
| `build_ends` | one request, two batches | violation of `BuildEndsProgress` (section 4) |

`login`, `figures` and `network` each explore several modules that share no state: a step of
one is taken only while the others have not begun (in `network` a variable `part` says
which).  The states are the sum, not the product, of those of the modules.

Every run but the three of the outbox stops somewhere without being stuck, hence
`CHECK_DEADLOCK FALSE`: batches, requests, versions, retries or times are bounded and used up,
and a computation (a dataset, a report, a batch of originals) simply ends.  The runs of the
outbox are checked for deadlock.

**Bounds, and why they suffice.**  Two of every process are enough for each race the
properties are about: they relate one old and one new holder of a lease, one reader and one
writer of a row, one thread that was given up and one fetch that wants its slot. Three
executions (`MaxEpoch`) allow a third after a lost and a released one.  In `requests_shared`
nothing can be collected, which keeps the pipeline short while requests still end and make
room; in `requests_outcome` the whole pipeline runs.  One crawl job with `MaxGeneration` 1
is crawled, redelivered, failed and requested again.  `MaxSessions` lets two of the workers
and clients be in the middle of something at once, any two: two crawls, a crawl and an
upload, two reviews of one row; each of them can use the same source, text and version
number, and others follow when they are done.  Two logins on either surface, with one
rotation and one change of policy, let a callback of one login meet every step of the other;
three callers let one wait for a lock that is passed on past it.  Six lines and three pages
hold a table of contents with two statements after it, or a statement that continues on the
next page with its title repeated and another one after it, or one that goes on for too
long.  One retry and two edits are enough for an old worker to come back after its successor
has failed, the retry was made and the status changed.  The amounts of `figures` lie on both
sides of each tolerance, and of the half that rounds down and up, and a report may print a
column of a later year, marked as restated or not.  Redirects that leave the origin and come
back need two; a body of two bytes has a chunk below, at and above the limit.  Three objects
with pages of one need two cursors; two times with a grace period of one make an object old,
young or, the clocks being two, put later than it is looked at.

**Assumptions the code does not enforce.**  `Numeric`, `Internal`: an address is public or
not as `ipaddress` says.  Nothing is assumed of how long a transaction or a request takes, nor
that a clock is never set back; only the clock of `Login` just goes forward.

The assumptions give the constants their types, which the code has from its own: limits
are positive, a statement is a sequence of rows with integer amounts or none
(`LinesAssumption`), a column a sequence of labelled values and the coarser unit positive
(`ColumnsAssumption`), a company's statements and reports are finitely many
(`BuildAssumption`), a page lists no more than its size (`CollectLimitsAssumption`), and the
names "none" and "other" are no statement's (`ReaderAssumption`).  TLC evaluates each of them
in a run.

## 4. What the code and its documents disagree on

Two runs end in a violation:

| Run | Property | What happens |
| --- | --- | --- |
| `next_step` | `NextStepNotLeftOut` | A batch succeeds in its own session, its worker loses the lease, the redelivery finds the batch ended and is acknowledged: no build is requested. |
| `build_ends` | `BuildEndsProgress` | A refresh with unchanged contents gets the earlier batch's dataset; its request shows "building" for ever and stays open. |

Found on the way, in steps the modules have, and not kept as runs:

- `finish` (`store.py:300`) does not look at the status it overwrites: a first worker that
  finishes after its successor has recorded the batch as interrupted turns failed into
  succeeded, and no build follows.
- A request seen between two attempts of the registration is closed as failed
  (`domain/securities/requests.py:125`), and the next attempt may succeed.
- A command that is dead-lettered keeps its key: a dispatch by hand of a pending record
  (`delivery_outbox.py:21`), or a run of a pending crawl job
  (`info_crawl_service.py:537`), asks for a message that exists already.
- A status edited to `failed` during a POST lets a record be retried whose retry the end of
  the POST then erases.  `HistoryCoversCommands` therefore speaks only of records no status of
  which was edited during a POST (`raced`); edits at any other time are allowed.
- `claim_delivery` does not look at the attempts, so a lease that lapses after the
  reconciliation of a batch allows an attempt beyond `docs/durable-delivery-luna.md:14`.
- An answer without a total ends the listing of announcements at its page, and an
  announcement listed twice with an unknown size is downloaded twice.  Announcements that
  move to an earlier page between two answers are not seen (`SucceededIsWhole` speaks of
  what the answers list).
- An answer for several periods needs only to have a row (`eastmoney_f10.py:70`); which of the
  periods asked for it has is not looked at, so a batch may succeed without some of those its
  lists name.  `SucceededIsWhole` says that every one was asked for and something came.
- Figures from tables of key figures in thousands or ten thousands of yuan are taken to be
  precise to one yuan (`official_report.py`), though the comment at
  `domain/securities/dataset.py:47` says 1000 for a table in thousands: comparisons are
  stricter than that comment has them.
- A callback that arrives with the cookie of one tab and the state of another consumes the
  transaction of the first.
- A service token that is rejected with 401 stays in the cache until its margin.
- A service token may be believed longer than it lives: `expires_in` is counted from the answer,
  300 s are taken where it is missing and 1..3600 s at the extremes (`knowbase_app.py:76`,
  `downstream_service.py:86-91`), and `knowbase_app.py` reads `time.time()`, which may be set back.
- A candidate of the reconciliation may get its row after it was reported, however old it is, as
  `artifact_reconciliation.py:3-5` says itself; `CandidatesWereUnregistered` claims no more than
  that it had none when its page was listed.
- A clock set back does not stop a handler that is under way: it may commit before the not-before
  time, which `docs/delivery-clock-semantics.md:18` does not exclude; `NoWorkOutOfTurn` excepts it.
- The entry of a version in the search index is written once; a review after that is not.
- Registrations of two versions of one company have different keys and aggregates
  (`bootstrap/securities.py:195`), so a retried older one may arrive last.

## 5. Fairness

Only `settled` needs it.  Beat starts a pump every five seconds and a pump does not
block (weak fairness of its steps); it may crash, but not each time before its claim
(strong fairness of `ClaimDelivery`); deadlines pass; a worker that claimed a message
brings its handler to an end, good or bad.  Nothing is assumed of the broker.
`ReplaysEnd`: the operator does not replay for ever.  All other properties are safety
and hold without any fairness.

## 6. What is proved

From the assumptions on the constants alone, for any sets of processes, messages,
aggregates, batches, versions, requests, jobs, sources, documents, records, logins, keys,
callers, fetchers (finitely many) and objects, and for statements, reports, columns and lists
of any length:

| Module | Theorem | Statement |
| --- | --- | --- |
| `DurableTasks_proofs` | `TypeCorrect` | `Spec => []TypeOK` |
| | `OnceOnly` | `Spec => []EffectOnce` |
| | `FreedForGood` | `Spec => []ReleasedForGood` |
| | `FencedCommits` | `Spec => Fencing` |
| | `WorkInTurn` | `Spec => []NoWorkOutOfTurn` |
| | `GivenUpLate` | `Spec => GivenUpAfterAttempts` |
| | `KeepsContract` | `Spec => ImplementsContract` |
| | `KeepsLeases` | `Spec => ImplementsLeases` |
| `SecurityPipeline_proofs` | `NeverTwoCollectors` | `PipelineSpec => []OneCollector` |
| | `ResultsAreLeft` | `PipelineSpec => []DoneMeansDecided` |
| `SecurityRequests_proofs` | `NobodyBeyondLimit` | `RequestsSpec => []WithinLimit` |
| | `RequestsAreShared` | `RequestsSpec => []SharedByRequesters` |
| | `AvailableWasServed` | `RequestsSpec => []AvailableIsServed` |
| | `OutcomesStay` | `RequestsSpec => OutcomeStays` |
| `Crawling_proofs` | `VersionsNumbered` | `CrawlSpec => []NumberedInOrder` |
| | `SourcesVisitedByOne` | `CrawlSpec => []OneExecutionPerSource` |
| | `AcknowledgedCrawlEnded` | `CrawlSpec => []AcknowledgedIsEnded` |
| | `VersionsIndexed` | `CrawlSpec => []VersionsReachIndex` |
| | `ReviewsNotUndone` | `CrawlSpec => ReviewsStay` |
| `Identity_proofs` | `OneSessionOfALogin` | `LoginSpec => []OneSessionPerLogin` |
| | `RolesAreOfTheToken` | `LoginSpec => []RolesOfOwnLogin` |
| | `NoPublishedKeyRejected` | `LoginSpec => []PublishedKeysAccepted` |
| | `ServedBeforeTheTokenEnds` | `LoginSpec => ServedWithinToken` |
| | `OneRequestAtATime` | `TokensSpec => []OneRequest` |
| `Network_proofs` | `OnlyReceivedSucceeds` | `Spec => []SucceededIsReceived` |
| | `RetriesAreKept` | `Spec => []HistoryCoversCommands` |
| | `NoSlotLost` | `FetchSpec => []SlotsKept` |
| | `HeadersStayHome` | `FetchSpec => []OwnHeadersStayHome` |
| | `BodiesBounded` | `FetchSpec => []MemoryBounded` |
| | `WholeBatchesSucceed` | `CollectSpec => []SucceededIsWhole` |
| | `CandidatesWereWithoutRows` | `InventorySpec => CandidatesWereUnregistered` |
| | `PassesCover` | `InventorySpec => []PassCoversAll` |
| `Reports_proofs` | `StatementsExtractedWhole` | `ReaderSpec => []ExtractedWhole` |
| | `UnitsAreTheirOwn` | `ReaderSpec => []UnitIsItsOwn` |
| | `LinesReadOnceOnly` | `LinesSpec => []RowsReadOnce` |
| | `AmountsOfTheRightScale` | `LinesSpec => []ScaleIsRight` |
| `Figures_proofs` | `PublishedYearsAgree` | `BuildSpec => []PublishedAgrees` |
| | `OnlyOldPeriodsAreMissing` | `BuildSpec => []OnlyOldPeriodsMissing` |
| | `BreaksHaveReasons` | `BuildSpec => []BreaksAreRestatements` |
| | `AmountsComparedOnce` | `CrossSpec => []EveryAmountOnce` |

**DurableTasks.**  The inductive invariant is
`IInv == TypeInv /\ SafeInv /\ RequestInv /\ FreedInv /\ AttemptInv`:

- `TypeInv` is TypeOK with `PumpInv` and `WorkerInv`: a busy pump or worker is busy
  with a real message, and a worker's message is ripe unless the clock was set back since it was
  read.  Types alone are not inductive: what a process writes depends on the message it holds;
- `SafeInv` is `EffectOnce` with
  - `LeaseInv`: a busy worker's epoch is never ahead of its aggregate's, and equals it
    only for the worker the lease row names, which is what makes the epoch a fence;
  - `HeldInv`: as long as a worker with the present epoch is between claim and commit,
    nobody has acknowledged its message.  `EffectOnce` is not inductive without it: the
    insert into the inbox ignores a conflict, so it is the lease that stops a second
    commit;
  - `WorkInv`: the last commit of an aggregate has an epoch no later than the present
    one, and one of the present epoch was of the message the lease row names;
- `RequestInv`: dead letters and the messages the workers execute were requested;
- `FreedInv`: an epoch given back is no later than the present one, and while it is the
  present one the row says released, so no clock revives it;
- `AttemptInv`: a pump that still owns the row it has claimed knows its attempts, as whoever
  claims the row later owns it.  So the pump that gives a message up (`GivenUpAfterAttempts`)
  counts right, however old its reading is.

Each part is preserved by a lemma (`NextTypeInv`, `NextSafeInv`, `NextRequestInv`,
`NextFreedInv`, `NextAttemptInv`) with one step per action; the actions that leave a part's variables
alone share a lemma (`SameLeases`, `SameHolders`, `SameRequested`).

The two refinements are proved step by step: every action is a step of the abstract
specification or leaves its variables alone.  For `KeepsLeases`, which the theorems about
the handlers rest on, the row of `outbox_execution` is shown as a lease (`Shown`, `Granted`);
`GrantedInv` adds that a row with a deadline was written for a message, so that a clock set
back revives a lease somebody had, and `HeldInv` that whoever commits is the first to
acknowledge.

**SecurityPipeline.**  Neither theorem may use the lease: a store commits whether its worker
still has it or not.  `PipelineInv` says why the rows are enough.  Only a pending batch is
begun and no batch becomes pending again, so whoever collects it is alone (`CollectorInv`).
A build is requested only of a batch that is over, begun and with no collector left
(`RequestInv`), whose content nobody changes any more; so what a build has read is still
what the batch brought (`ContentInv`), and a dataset saved of it is the result
`DecidedInv` asks for, of every acknowledged task and of every handler that is about to
commit.  All actions have one shape: a worker moves on (`Moves`), the rows go on
(`RowsGoOn`), the journal goes on (`JournalGoesOn`), and the new step fits (`Fits`).
`StepKeeps` proves that such a step keeps the invariant; one lemma per action shows that it
has the shape.

**SecurityRequests.**  `AllInv == PipelineInv /\ KnowledgeInv /\ RequestsInv`: a user's
request and the pipeline it waits for are proved about together.

- `SubmittingInv` is the heart.  A submission reads first and writes later, so `LimitInv`
  (nobody has more than `MaxOpen` open requests) is not inductive by itself.  It becomes so
  with what the locks give: one submission per actor (the advisory lock), the rows two
  submissions have locked are disjoint and still open, and the room the count found, less
  the rows it is about to close, is still there, as only this submission could use it up.
- `EndedInv`: the outcome a session has read without a lock and will record later is still
  true when it does.  This needs the pipeline: `KnowledgeInv` says that a registered
  dataset has passed and that the knowledge service has it, and a dataset is never changed
  once saved, so `ServedStays`.
- `RowInv` says of a row by itself what the columns allow together (an open row has a
  code, no outcome and, while pending, somebody who waits); `UniqueInv` is the unique index.

Each action changes some rows of `touched` and ends some sessions; `RowsChange` proves that
this keeps `RequestsInv` if each row moves as `RowMoves` allows, and the cardinalities are
done there and in the lemma for `SubmitCreate`, the only action that adds to anyone's count.
The steps of the pipeline leave the requests alone and need only `ServedStays`.

**Crawling.**  `CrawlInv` has `GoodDocument` (versions numbered 1, 2, ..., the newest current,
a task to index each) and, per actor, `GoodActor`:

- who is about to add a version or to commit a review holds the row lock and has read what
  the row says now (`UpToDate`), reviews included, so the number it computed is the next, and
  what it writes leaves no review out.  A worker that has no document yet has no number to be
  wrong about;
- who visits a source has its slot, unless the database has dropped a connection
  (`outage`, which stays TRUE: after one the code itself promises nothing);
- who is about to acknowledge has `Settled` its job.  The status alone would not be stable,
  as a job that ended may be requested again; `Settled` is, since that raises the
  generation.

Not the leases but the row locks make this true: a crawl that lost its lease still finds
its document locked by itself or not at all.  `CrawlStepKeeps` has what one actor's step
must leave to the others; one lemma per action shows that it does.

**Distribution.**  The handler writes back a history it read before the POST.  `SenderInv`
says why it takes no retry back: while its lease is its own and nobody has edited the record
during a POST (`raced`), the record is as the worker left it (`running`, with the retries it
read), because a retry is refused unless the record has failed.  A status `succeeded` that it
will write was received.

**Identity.**  `GoodCallback` says of a callback that its transaction is gone and was taken by
nobody else, and how far its checks have got, which gives `OneSessionPerLogin` and
`RolesOfOwnLogin`.  For `PublishedKeysAccepted` the published keys are an interval
(`PublishedInv`): a token's key is published, or is older than all that are and will never be
published again; so a key that is missing in an answer asked for after the token is no
longer published.
`SessionsInv` has that no session outlives its token, whose end is compared exactly once the
token has been accepted with its leeway: hence `ServedWithinToken`.
`OneRequest` needs that whoever is between entering the lock and its answer is its holder, and
that the cache is stale meanwhile unless the clock was set back since; that no caller remembers
more corrections than there were is `LooksInv`.

**Fetching.**  `SlotsKept` counts: free slots, lookups that are waited for and lookups that
were given up add up to `Slots`.  It is proved with cardinalities, from `LookupInv`: only a
fetch at the step that waits has a lookup.  `FetchesGood` carries per fetch what the other two
theorems need: its content and the piece asked of the decoder stay within the limit, and
the headers it has left once it has been away.

**ArtifactInventory.**  `SnapshotInv` says that the rows there were when the page was listed are
in the snapshot taken after it, since rows are only added; so an entry without a row in the
snapshot had none at the listing, at which it was in the storage.  Were the snapshot the older of
the two, a row committed in between would be missed.  For `PassCoversAll`, `CoverInv` says
what an entry of the beginning has come to: reported, deleted, on the page, or ahead of the
cursor.  That a page leaves nothing between its last entry and the cursor (`LastOfPage`) is
counting: were no entry at position `Limit`, more entries would be ahead than there are
positions (`FS_PigeonHole`).

**Collecting.**  What a batch will lack is decided while it runs, so `CollectInv` says what is
still to do wherever the batch is: at the pages (`AtPages`: what the pages list has been
found, and all pages before the present one are archived), at the reports (`AtReports`: of
every full report that is listed, it or another listing of it is taken, being asked for or
left), at the statements (`AtStatements`: every period listed for the present statement was
asked for and something came, or it is asked for or left, and the earlier statements are
done).  As an
answer is archived before it is used, what leaves the list is in the batch.  `FactsStay` has
that nothing of this is undone, since originals are only added; `ReportsGoOn` and
`DataGoesOn` are the two loops.  That neither merging the listings (`ReportsHasAll`) nor
dropping repetitions (`DistinctHasAll`) loses one rests on a finite ordered set being a
sequence (`OrderedSequence`), and on the least of the listings that are the same.

**ReportReader.**  The reader sees lines; only `printed` knows the tables.  `ReaderInv` ties
them: every section stands under one title (`Titled`) with lines of that table alone, and has
all its amounts as long as it is open or once it has ended, so a section that was given up
is the only one that misses some.  `OpenUnderTitle` says that a table without an open section
is one that has ended or is too long.  For the units, `AboveIsFree` and `AboveIsOwn` say that
a unit printed above a title is in no section and serves one, and `Titled` that the unit of a
section came before its amounts.

**StatementLines.**  `LinesInv` counts: `times` of a field is one exactly when one row has it,
so a second row with the same name leaves the field unresolved (`FoundByRows`), and a text
that is borrowed was free (`OptionsTake`).  `SameMagnitude` is the arithmetic of the unit:
amounts that are the same by `SameScale` cannot be `OtherScale` apart.

**DatasetBuild.**  `BuildInv` keeps how far the build has come: the rows are those the
screening lets pass, figures are those of a report that was read, the bases are those
`Decide` gives, and what is published has passed the checks.  What the checks then mean is
shown of one state: the report a year is said to agree with has a column that does
(`FirstAgrees`, `DecidedAgrees`), a column that agrees has been read (`AgreeingWasRead`), a year
without an original basis is restated (`RestatedYear`).

**CrossYear.**  `CrossInv` is that each amount is in one item (`EarlierOnce`, `LaterOnce`).  By
name it holds since the n-th amount of a label is paired with the n-th, a bijection by rank
(`Ranks`); by value since a pair is taken only of a bucket with one amount on each side
(`TwinsArePairs`), and two values of one bucket are at most a unit apart
(`SameBucketIsNear`).

Induction over data is avoided rather than done: where an argument is about all the lines up
to one, the state that is carried from line to line is in the invariant, and where it is
about the first of several, the least one is taken (`LeastNatural`, from the well-foundedness
of the natural numbers).  Lists are put in order by choosing the sequence (`InOrder`), and
the sums of `StatementLines` and `DatasetBuild` are folds of which the proofs need no more
than that they are the same on both sides.

Only model-checked: `Settled`, as liveness under fairness is out of the prover's reach, and
the two violations of section 4, which are counterexamples.  What the folds compute (the sums
of an equation) no theorem says.  No module declares a RECURSIVE operator.

## 7. Abstractions

- Times are replaced by the order of events, or by a small clock where two deadlines are
  compared (`Login`, `ServiceTokens`); in `ArtifactInventory` they are arbitrary.
- Each transaction is atomic at its commit, except where it reads without a lock first.
- PostgreSQL gives READ COMMITTED (REPEATABLE READ where the code asks for it); unique
  indexes, row locks and advisory locks do what they say.  Redis executes one command at a
  time.
- Payloads, error texts and audit entries are left out; a page, a text, a report is a
  member of a small set.
- Amounts are integers of yuan; the ratios of units in `figures` are scaled down (10 instead
  of the limits of `checks.py`), names are sequences of parts.

## 8. Not modelled, and why

- Observation of deliveries and of the scheduler, logging, readiness: they change no
  business state.
- HTTP interfaces: the routes are the steps of clients in `Crawling`, `Login`,
  `SecurityRequests` and `Distribution`; validation and formatting of inputs are data.
- Settings, command lines, provisioning: start-up.  An operator who runs the pipeline's
  services by hand on a batch that a task works on is outside the models.
- Pure editing of sources, collectors and documents (one row, locked, no other state), the
  value of `expected_updated_at`, the counter `attempt_count`.
- `rebuild_search_index` (run by hand; it asks for the index tasks of all versions once
  more), queries of the index.
- Rows of artifacts in `Crawling`, the reuse of artifacts and the summary of a batch in
  `Collecting`: `ArtifactInventory` has the one thing several actors depend on.
- The geometry of words on a page (`layout.py` apart from what `ReportReader` uses), formats
  of numbers, the written tables (`tables.py`), checks that only warn, the metadata of a
  dataset.
- Cryptography, authorization of single routes, tokens presented to this service.
- In `Fetching`: the deadline as a number (it may run out wherever a fetch waits), failed
  HEAD requests, declared lengths; in `ArtifactInventory`: failing HEAD requests and
  objects without a version, which are reported and change nothing.
- The former `claim_batch`/`mark_*` methods of the outbox repository, which nothing calls.

## 9. What could come next

The order of two registrations of one company, once the code orders them; `tables.py`, which
writes the published rows out; and the two cases of section 4 as properties that hold, once
the code excludes them.
