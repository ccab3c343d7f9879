-------------------------- MODULE SecurityPipeline_proofs --------------------------
(* For any number of workers, companies, versions and batches: nobody collects a batch *)
(* that somebody else is collecting, and what is acknowledged has left its result.      *)
EXTENDS SecurityPipeline, TLAPS

Statuses == {"absent", "pending", "running", "succeeded", "failed"}
Steps == {"idle", "begin", "collecting", "finishing", "load", "saving", "refusing",
          "registering", "accepted", "postponed", "declined", "committing"}

Batch == [status : Statuses, code : Codes \cup {None}, content : Versions \cup {None},
          refused : BOOLEAN]
Dataset == [batch : Batches \cup {None}, registered : BOOLEAN, failing : BOOLEAN]
Handler == [pc : Steps, task : SecurityTasks \cup {None}, next : SUBSET SecurityTasks]

RowsOK ==
    /\ batch \in [Batches -> Batch]
    /\ dataset \in [Versions -> Dataset]
    /\ requested \subseteq SecurityTasks
    /\ handler \in [Workers -> Handler]

\* A handler that is not idle works on a task of its kind, which was requested.
TaskInv ==
    \A w \in Workers :
      /\ handler[w].pc # "idle" => handler[w].task \in requested
      /\ handler[w].pc \in {"begin", "collecting", "finishing"} =>
           \E b \in Batches : handler[w].task = Ingest(b)
      /\ handler[w].pc \in {"load", "saving", "refusing"} =>
           \E b \in Batches : handler[w].task = Build(b)
      /\ handler[w].pc \in {"registering", "accepted", "postponed", "declined"} =>
           \E v \in Versions : handler[w].task = Register(v)

Collecting(w, b) ==
    handler[w].pc \in {"collecting", "finishing"} /\ handler[w].task = Ingest(b)

Begun(b) == batch[b].status \notin {"absent", "pending"}
Ended(b) == batch[b].status \in {"succeeded", "failed"}

\* Only a pending batch is begun, and it is not pending any more: there is no second
\* collector, whoever held or lost which lease.
CollectorInv ==
    \A b \in Batches, w \in Workers : Collecting(w, b) =>
      Begun(b) /\ \A other \in Workers : Collecting(other, b) => other = w

\* A batch that is begun and that nobody collects keeps its content.
Over(b) == Begun(b) /\ \A w \in Workers : ~Collecting(w, b)

\* A build is requested, and a version handed on, only when that makes sense.
RequestInv ==
    \A ts \in {requested} \cup {handler[w].next : w \in Workers} :
      /\ \A b \in Batches : Build(b) \in ts => Over(b)
      /\ \A v \in Versions : Register(v) \in ts => v \in Passing

ContentInv ==
    /\ \A b \in Batches : batch[b].status = "succeeded" => batch[b].content # None
    /\ \A w \in Workers, b \in Batches :
         handler[w].pc = "saving" /\ handler[w].task = Build(b) => batch[b].content # None

\* A task has left its result.
Built(b) == batch[b].content # None /\ dataset[batch[b].content].batch # None
Decided(t) ==
    /\ \A b \in Batches : t = Ingest(b) => Ended(b)
    /\ \A b \in Batches : t = Build(b) => batch[b].refused \/ Built(b)
    /\ \A v \in Versions : t = Register(v) => dataset[v].registered \/ dataset[v].failing

DecidedInv ==
    /\ done \subseteq requested
    /\ \A t \in done : Decided(t)
    /\ \A w \in Workers : handler[w].pc = "committing" => Decided(handler[w].task)

PipelineInv ==
    RowsOK /\ TaskInv /\ CollectorInv /\ RequestInv /\ ContentInv /\ DecidedInv

--------------------------------------------------------------------------------------
(* What the actions have in common: worker w, if there is one, is now at pc with task t  *)
(* and next ns, and the rows only go on.                                                 *)

Moves(w, pc, t, ns) ==
    /\ handler' \in [Workers -> Handler]
    /\ \A other \in Workers \ {w} : handler'[other] = handler[other]
    /\ w \in Workers =>
         handler'[w].pc = pc /\ handler'[w].task = t /\ handler'[w].next = ns

\* No batch is begun twice or un-ended, no refusal, dataset or registration forgotten,
\* and what is built stays what was collected.
RowsGoOn ==
    /\ batch' \in [Batches -> Batch] /\ dataset' \in [Versions -> Dataset]
    /\ \A b \in Batches :
         /\ Begun(b) => Begun(b)'
         /\ Ended(b) => Ended(b)'
         /\ batch[b].refused => batch'[b].refused
         /\ Build(b) \in requested => batch'[b].content = batch[b].content
         /\ batch'[b].status = "succeeded" => batch'[b].content # None
    /\ \A v \in Versions :
         /\ dataset[v].batch # None => dataset'[v].batch # None
         /\ dataset[v].registered \/ dataset[v].failing =>
              dataset'[v].registered \/ dataset'[v].failing

\* Where the handler is now, it may be.
Fits(w, pc, t, ns) ==
    /\ pc # "idle" => t \in requested
    /\ pc \in {"begin", "collecting", "finishing"} => \E b \in Batches : t = Ingest(b)
    /\ pc \in {"load", "saving", "refusing"} => \E b \in Batches : t = Build(b)
    /\ pc \in {"registering", "accepted", "postponed", "declined"} =>
         \E v \in Versions : t = Register(v)
    /\ \A b \in Batches : pc \in {"collecting", "finishing"} /\ t = Ingest(b) =>
         Collecting(w, b) \/ (~Begun(b) /\ Begun(b)')
    /\ \A b \in Batches : Build(b) \in ns => Over(b) \/ Over(b)'
    /\ \A v \in Versions : Register(v) \in ns => v \in Passing
    /\ \A b \in Batches : pc = "saving" /\ t = Build(b) => batch[b].content # None
    /\ pc = "committing" => Decided(t)'

\* New requests make sense, and what is acknowledged was decided.
JournalGoesOn ==
    /\ requested \subseteq requested' /\ requested' \subseteq SecurityTasks
    /\ \A b \in Batches : Build(b) \in requested' => Over(b)
    /\ \A v \in Versions : Register(v) \in requested' => v \in Passing
    /\ \A x \in done' : x \in requested /\ Decided(x)

LEMMA TasksDiffer ==
    /\ \A b, c : Ingest(b) = Ingest(c) => b = c
    /\ \A b, c : Build(b) = Build(c) => b = c
    /\ \A b, c : Register(b) = Register(c) => b = c
    /\ \A b, c : Ingest(b) # Build(c) /\ Ingest(b) # Register(c) /\ Build(b) # Register(c)
    /\ \A b : Ingest(b)[2] = b /\ Build(b)[2] = b /\ Register(b)[2] = b
    /\ \A b : Ingest(b)[1] = "ingest" /\ Build(b)[1] = "build" /\ Register(b)[1] = "register"
BY SMT DEF Ingest, Build, Register

LEMMA TasksAreTasks ==
    /\ \A b \in Batches : Ingest(b) \in SecurityTasks /\ Build(b) \in SecurityTasks
    /\ \A v \in Versions : Register(v) \in SecurityTasks
    /\ \A t \in SecurityTasks : \/ \E b \in Batches : t = Ingest(b) \/ t = Build(b)
                                \/ \E v \in Versions : t = Register(v)
BY DEF SecurityTasks

\* What is decided stays decided.
LEMMA DecidedStays ==
    ASSUME RowsOK, RowsGoOn, NEW t \in requested, Decided(t)
    PROVE  Decided(t)'
<1>1. ASSUME NEW b \in Batches, t = Ingest(b)
      PROVE  Ended(b)'
  BY <1>1 DEF Decided, RowsGoOn
<1>2. ASSUME NEW b \in Batches, t = Build(b)
      PROVE  batch'[b].refused \/ Built(b)'
  <2>1. CASE batch[b].refused
    BY <2>1 DEF RowsGoOn
  <2>2. CASE Built(b)
    <3>1. batch[b].content \in Versions
      BY <2>2 DEF Built, RowsOK, Batch
    <3>2. batch'[b].content = batch[b].content
      BY <1>2 DEF RowsGoOn
    <3> QED  BY <2>2, <3>1, <3>2 DEF RowsGoOn, Built
  <2> QED  BY <1>2, <2>1, <2>2 DEF Decided
<1>3. ASSUME NEW v \in Versions, t = Register(v)
      PROVE  dataset'[v].registered \/ dataset'[v].failing
  BY <1>3 DEF Decided, RowsGoOn
<1> QED  BY <1>1, <1>2, <1>3 DEF Decided

\* Such a step keeps the invariant.
LEMMA StepKeeps ==
    ASSUME PipelineInv, NEW w, NEW pc, NEW t, NEW ns,
           Moves(w, pc, t, ns), RowsGoOn, JournalGoesOn,
           w \in Workers => Fits(w, pc, t, ns)
    PROVE  PipelineInv'
<1> USE DEF PipelineInv
<1>1. RowsOK'
  BY DEF RowsOK, Moves, RowsGoOn, JournalGoesOn
<1>2. TaskInv'
  <2> SUFFICES ASSUME NEW o \in Workers
               PROVE
      /\ handler'[o].pc # "idle" => handler'[o].task \in requested'
      /\ handler'[o].pc \in {"begin", "collecting", "finishing"} =>
           \E b \in Batches : handler'[o].task = Ingest(b)
      /\ handler'[o].pc \in {"load", "saving", "refusing"} =>
           \E b \in Batches : handler'[o].task = Build(b)
      /\ handler'[o].pc \in {"registering", "accepted", "postponed", "declined"} =>
           \E v \in Versions : handler'[o].task = Register(v)
    BY DEF TaskInv, Ingest, Build, Register
  <2>1. CASE o = w
    BY <2>1 DEF Moves, Fits, JournalGoesOn
  <2>2. CASE o # w
    BY <2>2 DEF Moves, TaskInv, JournalGoesOn
  <2> QED  BY <2>1, <2>2
<1>3. ASSUME NEW o \in Workers, NEW b \in Batches, Collecting(o, b)'
      PROVE  Collecting(o, b) \/ (o = w /\ ~Begun(b) /\ Begun(b)')
  <2>1. CASE o = w
    BY <1>3, <2>1 DEF Moves, Fits, Collecting, Ingest
  <2>2. CASE o # w
    BY <1>3, <2>2 DEF Moves, Collecting, Ingest
  <2> QED  BY <2>1, <2>2
<1>4. CollectorInv'
  <2> SUFFICES ASSUME NEW b \in Batches, NEW o \in Workers, Collecting(o, b)'
               PROVE  Begun(b)' /\ \A other \in Workers : Collecting(other, b)' => other = o
    BY DEF CollectorInv
  <2>1. Begun(b)'
    BY <1>3 DEF CollectorInv, RowsGoOn
  <2>2. ASSUME NEW other \in Workers, Collecting(other, b)'
        PROVE  other = o
    BY <1>3, <2>2 DEF CollectorInv
  <2> QED  BY <2>1, <2>2
<1>5. ASSUME NEW b \in Batches, Over(b)
      PROVE  Over(b)'
  BY <1>3, <1>5 DEF Over, RowsGoOn
<1>6. RequestInv'
  <2>1. /\ \A b \in Batches : Build(b) \in requested' => Over(b)'
        /\ \A v \in Versions : Register(v) \in requested' => v \in Passing
    BY <1>5 DEF JournalGoesOn
  <2>2. ASSUME NEW o \in Workers
        PROVE  /\ \A b \in Batches : Build(b) \in handler'[o].next => Over(b)'
               /\ \A v \in Versions : Register(v) \in handler'[o].next => v \in Passing
    <3>1. CASE o = w
      BY <1>5, <3>1 DEF Moves, Fits
    <3>2. CASE o # w
      BY <1>5, <3>2 DEF Moves, RequestInv
    <3> QED  BY <3>1, <3>2
  <2> QED  BY <2>1, <2>2 DEF RequestInv, Build, Register
<1>7. ContentInv'
  <2> SUFFICES ASSUME NEW o \in Workers, NEW b \in Batches,
                      handler'[o].pc = "saving", handler'[o].task = Build(b)
               PROVE  batch'[b].content # None
    BY DEF ContentInv, RowsGoOn, Build
  <2>1. Build(b) \in requested /\ batch[b].content # None
    <3>1. CASE o = w
      BY <3>1 DEF Moves, Fits
    <3>2. CASE o # w
      BY <3>2 DEF Moves, ContentInv, TaskInv
    <3> QED  BY <3>1, <3>2
  <2> QED  BY <2>1 DEF RowsGoOn
<1>8. DecidedInv'
  <2>1. done' \subseteq requested' /\ \A x \in done' : Decided(x)'
    BY DecidedStays DEF JournalGoesOn
  <2>2. ASSUME NEW o \in Workers, handler'[o].pc = "committing"
        PROVE  \E x : x = handler'[o].task /\ Decided(x)'
    <3>1. CASE o = w
      BY <2>2, <3>1 DEF Moves, Fits
    <3>2. CASE o # w
      <4>1. handler'[o] = handler[o] /\ handler[o].task \in requested /\ Decided(handler[o].task)
        BY <2>2, <3>2 DEF Moves, TaskInv, DecidedInv
      <4>2. PICK x \in requested : x = handler[o].task
        BY <4>1
      <4>3. Decided(x)'
        BY <4>1, <4>2, DecidedStays
      <4> QED  BY <4>1, <4>2, <4>3
    <3> QED  BY <3>1, <3>2
  <2>3. \A o \in Workers : handler'[o].pc = "committing" => Decided(handler[o].task)'
    BY <2>2 DEF Decided, Ingest, Build, Register, Ended, Built
  <2> QED  BY <2>1, <2>3 DEF DecidedInv
<1> QED  BY <1>1, <1>2, <1>4, <1>6, <1>7, <1>8

--------------------------------------------------------------------------------------
(* The actions.                                                                          *)

LEMMA HandlerMoves ==
    ASSUME RowsOK, NEW w \in Workers
    PROVE  /\ \A pc \in Steps : Goto(w, pc) =>
                Moves(w, pc, handler[w].task, handler[w].next)
           /\ \A ts \in SUBSET SecurityTasks : Return(w, ts) =>
                Moves(w, "committing", handler[w].task, ts)
           /\ handler' = [handler EXCEPT ![w] = Idle] => Moves(w, "idle", None, {})
<1>1. ASSUME NEW pc \in Steps, Goto(w, pc)
      PROVE  Moves(w, pc, handler[w].task, handler[w].next)
  BY <1>1, SMT DEF Goto, Moves, RowsOK, Handler
<1>2. ASSUME NEW ts \in SUBSET SecurityTasks, Return(w, ts)
      PROVE  Moves(w, "committing", handler[w].task, ts)
  <2> DEFINE h == [handler EXCEPT ![w].pc = "committing"]
  <2>1. /\ h \in [Workers -> Handler] /\ \A other \in Workers \ {w} : h[other] = handler[other]
        /\ h[w].pc = "committing" /\ h[w].task = handler[w].task
    BY SMT DEF RowsOK, Handler, Steps
  <2>2. handler' = [h EXCEPT ![w].next = ts]
    BY <1>2 DEF Return
  <2> HIDE DEF h
  <2> QED  BY <2>1, <2>2, SMT DEF Moves, Handler
<1>3. ASSUME handler' = [handler EXCEPT ![w] = Idle]
      PROVE  Moves(w, "idle", None, {})
  BY <1>3, SMT DEF Idle, Moves, RowsOK, Handler, Steps
<1> QED  BY <1>1, <1>2, <1>3

\* The handlers do not touch the journal, and most of them few rows.
LEMMA JournalKept ==
    ASSUME PipelineInv, UNCHANGED <<requested, done>>
    PROVE  JournalGoesOn
BY DEF PipelineInv, JournalGoesOn, RowsOK, RequestInv, DecidedInv

LEMMA RowsKept ==
    ASSUME PipelineInv, UNCHANGED <<batch, dataset>>
    PROVE  RowsGoOn
BY DEF PipelineInv, RowsGoOn, RowsOK, ContentInv, Begun, Ended

\* A step on from one batch, or from one dataset, when the rest stays.
LEMMA BatchGoesOn ==
    ASSUME PipelineInv, NEW b \in Batches, UNCHANGED dataset,
           batch' \in [Batches -> Batch],
           \A c \in Batches \ {b} : batch'[c] = batch[c],
           Begun(b) => Begun(b)', Ended(b) => Ended(b)',
           batch[b].refused => batch'[b].refused,
           Build(b) \in requested => batch'[b].content = batch[b].content,
           batch'[b].status = "succeeded" => batch'[b].content # None
    PROVE  RowsGoOn
BY DEF PipelineInv, RowsGoOn, RowsOK, ContentInv, Begun, Ended

LEMMA DatasetGoesOn ==
    ASSUME PipelineInv, NEW v \in Versions, UNCHANGED batch,
           dataset' \in [Versions -> Dataset],
           \A u \in Versions \ {v} : dataset'[u] = dataset[u],
           dataset[v].batch # None => dataset'[v].batch # None,
           dataset[v].registered \/ dataset[v].failing =>
             dataset'[v].registered \/ dataset'[v].failing
    PROVE  RowsGoOn
BY DEF PipelineInv, RowsGoOn, RowsOK, ContentInv, Begun, Ended

\* A handler that goes on within its task, without collecting or committing.
LEMMA FitsOn ==
    ASSUME PipelineInv, NEW w \in Workers, NEW t \in requested,
           NEW pc \in {"refusing", "saving", "accepted", "postponed", "declined"},
           pc \in {"refusing", "saving"} => \E b \in Batches : t = Build(b),
           pc \in {"accepted", "postponed", "declined"} => \E v \in Versions : t = Register(v),
           \A b \in Batches : pc = "saving" /\ t = Build(b) => batch[b].content # None
    PROVE  Fits(w, pc, t, handler[w].next)
BY DEF PipelineInv, Fits, RequestInv

\* A handler that returns.
LEMMA FitsReturn ==
    ASSUME NEW w \in Workers, NEW t \in requested, NEW ts, Decided(t)',
           \A b \in Batches : Build(b) \in ts => Over(b)',
           \A v \in Versions : Register(v) \in ts => v \in Passing
    PROVE  Fits(w, "committing", t, ts)
BY DEF Fits

LEMMA FitsIdle == ASSUME NEW w PROVE Fits(w, "idle", None, {})
BY DEF Fits

LEMMA InitPipelineInv == PipelineInit => PipelineInv
<1> SUFFICES ASSUME PipelineInit
             PROVE  PipelineInv
  OBVIOUS
<1> USE DEF PipelineInit, Idle
<1>1. requested = {} /\ done = {}
  BY DEF Delivery!Init
<1>2. RowsOK
  BY <1>1, SMT DEF RowsOK, Batch, Dataset, Handler, Steps, Statuses
<1>3. TaskInv /\ CollectorInv
  BY DEF TaskInv, CollectorInv, Collecting
<1>4. RequestInv
  BY <1>1 DEF RequestInv
<1>5. ContentInv /\ DecidedInv
  BY <1>1 DEF ContentInv, DecidedInv
<1> QED  BY <1>2, <1>3, <1>4, <1>5 DEF PipelineInv

\* Requesting a batch: nobody collects it, as it was absent.
LEMMA RequestKeeps ==
    ASSUME PipelineInv, NEW b \in Batches, NEW c \in Codes, RequestIngestion(b, c)
    PROVE  PipelineInv'
<1>1. /\ batch[b].status = "absent" /\ UNCHANGED <<dataset, handler, done>>
      /\ batch' = [batch EXCEPT ![b] = [@ EXCEPT !.status = "pending", !.code = c]]
      /\ requested' = requested \cup {Ingest(b)}
  BY DEF RequestIngestion, StartBatch, Delivery!Request
<1>2. /\ batch' \in [Batches -> Batch] /\ \A d \in Batches \ {b} : batch'[d] = batch[d]
      /\ batch'[b].status = "pending" /\ batch'[b].content = batch[b].content
      /\ batch'[b].refused = batch[b].refused
  <2> DEFINE r == [batch[b] EXCEPT !.status = "pending"]
  <2>1. batch[b] \in Batch /\ r \in Batch /\ r.status = "pending"
          /\ r.content = batch[b].content /\ r.refused = batch[b].refused
    BY SMT DEF PipelineInv, RowsOK, Batch, Statuses
  <2>2. batch' = [batch EXCEPT ![b] = [r EXCEPT !.code = c]]
    BY <1>1
  <2> HIDE DEF r
  <2>3. [r EXCEPT !.code = c] \in Batch /\ [r EXCEPT !.code = c].status = "pending"
          /\ [r EXCEPT !.code = c].content = batch[b].content
          /\ [r EXCEPT !.code = c].refused = batch[b].refused
    BY <2>1, SMT DEF Batch
  <2> QED  BY <2>2, <2>3 DEF PipelineInv, RowsOK
<1>3. RowsGoOn
  BY <1>1, <1>2, BatchGoesOn DEF Begun, Ended
<1>4. JournalGoesOn
  BY <1>1, TasksDiffer, TasksAreTasks
     DEF PipelineInv, JournalGoesOn, RowsOK, RequestInv, DecidedInv
<1>5. None \notin Workers /\ Moves(None, "idle", None, {})
  BY <1>1, NoneAssumption DEF Moves, PipelineInv, RowsOK
<1> QED  BY <1>3, <1>4, <1>5, StepKeeps

LEMMA StartKeeps ==
    ASSUME PipelineInv, NEW w \in Workers, NEW t \in SecurityTasks, StartTask(w, t)
    PROVE  PipelineInv'
<1>1. /\ t \in requested /\ UNCHANGED <<batch, dataset, requested, done>>
      /\ handler' = [handler EXCEPT ![w] = [pc |-> FirstStep(t), task |-> t, next |-> {}]]
  BY DEF StartTask, Delivery!Take
<1>2. \/ FirstStep(t) = "begin" /\ \E b \in Batches : t = Ingest(b)
      \/ FirstStep(t) = "load" /\ \E b \in Batches : t = Build(b)
      \/ FirstStep(t) = "registering" /\ \E v \in Versions : t = Register(v)
  <2>1. ASSUME NEW b \in Batches, t = Ingest(b)
        PROVE  FirstStep(t) = "begin"
    BY <2>1 DEF FirstStep, Ingest
  <2>2. ASSUME NEW b \in Batches, t = Build(b)
        PROVE  FirstStep(t) = "load"
    BY <2>2 DEF FirstStep, Build
  <2>3. ASSUME NEW v \in Versions, t = Register(v)
        PROVE  FirstStep(t) = "registering"
    BY <2>3 DEF FirstStep, Register
  <2> QED  BY <2>1, <2>2, <2>3, TasksAreTasks
<1>3. Moves(w, FirstStep(t), t, {})
  BY <1>1, <1>2, SMT DEF Moves, PipelineInv, RowsOK, Handler, Steps
<1>4. Fits(w, FirstStep(t), t, {})
  BY <1>1, <1>2 DEF Fits
<1> QED  BY <1>1, <1>3, <1>4, RowsKept, JournalKept, StepKeeps

LEMMA AbandonKeeps ==
    ASSUME PipelineInv, NEW w \in Workers, AbandonTask(w)
    PROVE  PipelineInv'
<1>1. Moves(w, "idle", None, {}) /\ UNCHANGED <<batch, dataset, requested, done>>
  BY HandlerMoves DEF AbandonTask, PipelineInv, deliveryVars
<1> QED  BY <1>1, FitsIdle, RowsKept, JournalKept, StepKeeps

\* The commit: what the worker asks for and acknowledges was prepared when it returned.
LEMMA CommitKeeps ==
    ASSUME PipelineInv, NEW w \in Workers, CommitTask(w)
    PROVE  PipelineInv'
<1> USE DEF PipelineInv
<1>1. /\ Moves(w, "idle", None, {}) /\ UNCHANGED <<batch, dataset>>
      /\ handler[w].pc = "committing"
  BY HandlerMoves DEF CommitTask
<1>2. JournalGoesOn
  <2>1. CASE UNCHANGED deliveryVars
    BY <2>1, JournalKept DEF deliveryVars
  <2>2. CASE Delivery!Commit(w, handler[w].task, handler[w].next)
    <3>1. /\ done' = done \cup {handler[w].task}
          /\ requested' = requested \cup handler[w].next
      BY <2>2 DEF Delivery!Commit
    <3>2. requested \subseteq requested' /\ requested' \subseteq SecurityTasks
      BY <3>1 DEF RowsOK, Handler
    <3>3. /\ \A b \in Batches : Build(b) \in requested' => Over(b)
          /\ \A v \in Versions : Register(v) \in requested' => v \in Passing
      BY <3>1 DEF RequestInv
    <3>4. \A x \in done' : x \in requested /\ Decided(x)
      BY <1>1, <3>1 DEF DecidedInv, TaskInv
    <3> QED  BY <3>2, <3>3, <3>4 DEF JournalGoesOn
  <2> QED  BY <2>1, <2>2 DEF CommitTask
<1> QED  BY <1>1, <1>2, FitsIdle, RowsKept, StepKeeps

--------------------------------------------------------------------------------------
(* Collecting.                                                                           *)

\* The batch an ingest is about.
LEMMA IngestOf ==
    ASSUME PipelineInv, NEW w \in Workers,
           handler[w].pc \in {"begin", "collecting", "finishing"}
    PROVE  \E b \in Batches : /\ handler[w].task = Ingest(b) /\ Subject(w) = b
                              /\ Ingest(b) \in requested
BY TasksDiffer DEF PipelineInv, TaskInv, Subject

\* A field of a batch is written.
LEMMA BatchWritten ==
    ASSUME PipelineInv, NEW b \in Batches
    PROVE  /\ \A s \in Statuses : batch' = [batch EXCEPT ![b].status = s] =>
                /\ batch' \in [Batches -> Batch]
                /\ \A c \in Batches \ {b} : batch'[c] = batch[c]
                /\ batch'[b].status = s /\ batch'[b].content = batch[b].content
                /\ batch'[b].refused = batch[b].refused
           /\ \A v \in Versions : batch' = [batch EXCEPT ![b].content = v] =>
                /\ batch' \in [Batches -> Batch]
                /\ \A c \in Batches \ {b} : batch'[c] = batch[c]
                /\ batch'[b].status = batch[b].status /\ batch'[b].content = v
                /\ batch'[b].refused = batch[b].refused
           /\ batch' = [batch EXCEPT ![b].refused = TRUE] =>
                /\ batch' \in [Batches -> Batch]
                /\ \A c \in Batches \ {b} : batch'[c] = batch[c]
                /\ batch'[b].status = batch[b].status
                /\ batch'[b].content = batch[b].content /\ batch'[b].refused
<1> USE DEF PipelineInv, RowsOK, Batch
<1>1. ASSUME NEW s \in Statuses, batch' = [batch EXCEPT ![b].status = s]
      PROVE  /\ batch' \in [Batches -> Batch]
             /\ \A c \in Batches \ {b} : batch'[c] = batch[c]
             /\ batch'[b].status = s /\ batch'[b].content = batch[b].content
             /\ batch'[b].refused = batch[b].refused
  BY <1>1, SMT
<1>2. ASSUME NEW v \in Versions, batch' = [batch EXCEPT ![b].content = v]
      PROVE  /\ batch' \in [Batches -> Batch]
             /\ \A c \in Batches \ {b} : batch'[c] = batch[c]
             /\ batch'[b].status = batch[b].status /\ batch'[b].content = v
             /\ batch'[b].refused = batch[b].refused
  BY <1>2, SMT
<1>3. ASSUME batch' = [batch EXCEPT ![b].refused = TRUE]
      PROVE  /\ batch' \in [Batches -> Batch]
             /\ \A c \in Batches \ {b} : batch'[c] = batch[c]
             /\ batch'[b].status = batch[b].status
             /\ batch'[b].content = batch[b].content /\ batch'[b].refused
  <2> DEFINE r == [batch[b] EXCEPT !.refused = TRUE]
  <2>1. batch[b] \in Batch /\ batch' = [batch EXCEPT ![b] = r]
    BY <1>3
  <2>2. r \in Batch /\ r.status = batch[b].status /\ r.content = batch[b].content
    BY <2>1, Zenon
  <2>3. r.refused
    BY <2>1, Zenon
  <2> HIDE DEF r
  <2>4. batch'[b] = r /\ batch' \in [Batches -> Batch]
          /\ \A c \in Batches \ {b} : batch'[c] = batch[c]
    BY <2>1, <2>2, Zenon
  <2> QED  BY <2>2, <2>3, <2>4, Zenon
<1> QED  BY <1>1, <1>2, <1>3

LEMMA BeginKeeps ==
    ASSUME PipelineInv, NEW w \in Workers, BeginBatch(w)
    PROVE  PipelineInv'
<1>1. PICK b \in Batches : handler[w].task = Ingest(b) /\ Subject(w) = b /\ Ingest(b) \in requested
  BY IngestOf DEF BeginBatch, Running
<1>2. UNCHANGED <<dataset, requested, done>> /\ JournalGoesOn
  BY JournalKept DEF BeginBatch, deliveryVars
<1>3. CASE /\ batch[b].status = "pending"
           /\ batch' = [batch EXCEPT ![b].status = "running"]
           /\ Goto(w, "collecting")
  <2>1. /\ batch' \in [Batches -> Batch]
        /\ \A c \in Batches \ {b} : batch'[c] = batch[c]
        /\ batch'[b].status = "running" /\ batch'[b].content = batch[b].content
        /\ batch'[b].refused = batch[b].refused
    BY <1>3, BatchWritten DEF Statuses
  <2>2. RowsGoOn
    BY <1>2, <1>3, <2>1, BatchGoesOn DEF Begun, Ended
  <2>3. Moves(w, "collecting", Ingest(b), handler[w].next)
    BY <1>1, <1>3, HandlerMoves DEF PipelineInv, Steps
  <2>4. Fits(w, "collecting", Ingest(b), handler[w].next)
    <3>1. ~Begun(b) /\ Begun(b)'
      BY <1>3, <2>1 DEF Begun
    <3> QED  BY <1>1, <3>1, TasksDiffer DEF Fits, PipelineInv, RequestInv
  <2> QED  BY <1>2, <2>2, <2>3, <2>4, StepKeeps
<1>4. ASSUME Return(w, {}), RowsGoOn, Ended(b)'
      PROVE  PipelineInv'
  <2>1. Moves(w, "committing", Ingest(b), {})
    BY <1>1, <1>4, HandlerMoves DEF PipelineInv
  <2>2. Decided(Ingest(b))'
    BY <1>4, TasksDiffer DEF Decided
  <2>3. Fits(w, "committing", Ingest(b), {})
    BY <1>1, <2>2, FitsReturn
  <2> QED  BY <1>2, <1>4, <2>1, <2>3, StepKeeps
<1>5. CASE /\ batch[b].status = "running"
           /\ batch' = [batch EXCEPT ![b].status = "failed"]
           /\ Return(w, {})
  <2>1. /\ batch' \in [Batches -> Batch]
        /\ \A c \in Batches \ {b} : batch'[c] = batch[c]
        /\ batch'[b].status = "failed" /\ batch'[b].content = batch[b].content
        /\ batch'[b].refused = batch[b].refused
    BY <1>5, BatchWritten DEF Statuses
  <2>2. RowsGoOn /\ Ended(b)'
    BY <1>2, <1>5, <2>1, BatchGoesOn DEF Begun, Ended
  <2> QED  BY <1>4, <1>5, <2>2
<1>6. CASE /\ batch[b].status \in {"succeeded", "failed"}
           /\ Return(w, {})
           /\ UNCHANGED batch
  BY <1>2, <1>4, <1>6, RowsKept DEF Ended
<1> QED  BY <1>1, <1>3, <1>5, <1>6 DEF BeginBatch

LEMMA CollectKeeps ==
    ASSUME PipelineInv, NEW w \in Workers, Collect(w)
    PROVE  PipelineInv'
<1>1. PICK b \in Batches : handler[w].task = Ingest(b) /\ Subject(w) = b /\ Ingest(b) \in requested
  BY IngestOf DEF Collect, Running
<1>2. UNCHANGED <<dataset, requested, done>> /\ JournalGoesOn /\ Collecting(w, b)
  BY <1>1, JournalKept DEF Collect, Running, deliveryVars, Collecting
<1>3. Build(b) \notin requested
  BY <1>2 DEF PipelineInv, RequestInv, Over
<1>4. RowsGoOn
  <2>1. CASE UNCHANGED batch
    BY <1>2, <2>1, RowsKept
  <2>2. ASSUME NEW v \in Versions, batch' = [batch EXCEPT ![b].content = v]
        PROVE  RowsGoOn
    <3>1. /\ batch' \in [Batches -> Batch]
          /\ \A c \in Batches \ {b} : batch'[c] = batch[c]
          /\ batch'[b].status = batch[b].status /\ batch'[b].content = v
          /\ batch'[b].refused = batch[b].refused
      BY <2>2, BatchWritten
    <3>2. v # None
      BY NoneAssumption
    <3> QED  BY <1>2, <1>3, <3>1, <3>2, BatchGoesOn DEF Begun, Ended
  <2> QED  BY <1>1, <2>1, <2>2 DEF Collect
<1>5. Moves(w, "finishing", Ingest(b), handler[w].next)
  BY <1>1, HandlerMoves DEF Collect, PipelineInv, Steps
<1>6. Fits(w, "finishing", Ingest(b), handler[w].next)
  BY <1>1, <1>2, TasksDiffer DEF Fits, PipelineInv, RequestInv
<1> QED  BY <1>2, <1>4, <1>5, <1>6, StepKeeps

LEMMA FinishKeeps ==
    ASSUME PipelineInv, NEW w \in Workers, FinishBatch(w)
    PROVE  PipelineInv'
<1>1. PICK b \in Batches : handler[w].task = Ingest(b) /\ Subject(w) = b /\ Ingest(b) \in requested
  BY IngestOf DEF FinishBatch, Running
<1>2. UNCHANGED <<dataset, requested, done>> /\ JournalGoesOn /\ Collecting(w, b)
  BY <1>1, JournalKept DEF FinishBatch, Running, deliveryVars, Collecting
<1> DEFINE complete == batch[b].content # None
           status == IF complete THEN "succeeded" ELSE "failed"
           ts == IF complete THEN {Build(b)} ELSE {}
<1>3. batch' = [batch EXCEPT ![b].status = status] /\ Return(w, ts)
  BY <1>1 DEF FinishBatch
<1>4. /\ batch' \in [Batches -> Batch]
      /\ \A c \in Batches \ {b} : batch'[c] = batch[c]
      /\ batch'[b].status = status /\ batch'[b].content = batch[b].content
      /\ batch'[b].refused = batch[b].refused
  <2>1. status \in Statuses
    BY DEF Statuses
  <2> HIDE DEF status
  <2> QED  BY <1>3, <2>1, BatchWritten
<1>5. RowsGoOn /\ Begun(b)' /\ Ended(b)'
  BY <1>2, <1>4, BatchGoesOn DEF Begun, Ended
<1>6. Moves(w, "committing", Ingest(b), ts)
  BY <1>1, <1>3, HandlerMoves, TasksAreTasks DEF PipelineInv
\* The one collector has left the batch.
<1>7. Over(b)'
  <2> SUFFICES ASSUME NEW o \in Workers, Collecting(o, b)'
               PROVE  FALSE
    BY <1>5 DEF Over
  <2>1. o # w
    BY <1>6 DEF Moves, Collecting
  <2>2. Collecting(o, b)
    BY <1>6, <2>1 DEF Moves, Collecting, Ingest
  <2> QED  BY <1>2, <2>1, <2>2 DEF PipelineInv, CollectorInv
<1>8. Decided(Ingest(b))'
  BY <1>5, TasksDiffer DEF Decided
<1>9. Fits(w, "committing", Ingest(b), ts)
  BY <1>1, <1>7, <1>8, FitsReturn, TasksDiffer
<1> QED  BY <1>2, <1>5, <1>6, <1>9, StepKeeps

--------------------------------------------------------------------------------------
(* Building.                                                                             *)

LEMMA BuildOf ==
    ASSUME PipelineInv, NEW w \in Workers,
           handler[w].pc \in {"load", "saving", "refusing"}
    PROVE  \E b \in Batches : /\ handler[w].task = Build(b) /\ Subject(w) = b
                              /\ Build(b) \in requested
BY TasksDiffer DEF PipelineInv, TaskInv, Subject

LEMMA LoadKeeps ==
    ASSUME PipelineInv, NEW w \in Workers, LoadBatch(w)
    PROVE  PipelineInv'
<1>1. PICK b \in Batches : handler[w].task = Build(b) /\ Subject(w) = b /\ Build(b) \in requested
  BY BuildOf DEF LoadBatch, Running
<1>2. RowsGoOn /\ JournalGoesOn
  BY RowsKept, JournalKept DEF LoadBatch, deliveryVars
<1>3. PICK pc \in {"saving", "refusing"} :
        Goto(w, pc) /\ (pc = "saving" => batch[b].status = "succeeded")
  BY <1>1 DEF LoadBatch
<1>4. Moves(w, pc, Build(b), handler[w].next)
  BY <1>1, <1>3, HandlerMoves DEF PipelineInv, Steps
<1>5. pc = "saving" => batch[b].content # None
  BY <1>3 DEF PipelineInv, ContentInv
<1>6. Fits(w, pc, Build(b), handler[w].next)
  BY <1>1, <1>5, FitsOn, TasksDiffer
<1> QED  BY <1>2, <1>4, <1>6, StepKeeps

LEMMA RefuseKeeps ==
    ASSUME PipelineInv, NEW w \in Workers, RefuseBuild(w)
    PROVE  PipelineInv'
<1>1. PICK b \in Batches : handler[w].task = Build(b) /\ Subject(w) = b /\ Build(b) \in requested
  BY BuildOf DEF RefuseBuild, Running
<1>2. JournalGoesOn /\ Return(w, {}) /\ UNCHANGED <<dataset, requested>>
        /\ batch' = [batch EXCEPT ![b].refused = TRUE]
  BY <1>1, JournalKept DEF RefuseBuild, deliveryVars
<1>3. /\ batch' \in [Batches -> Batch]
      /\ \A c \in Batches \ {b} : batch'[c] = batch[c]
      /\ batch'[b].status = batch[b].status
      /\ batch'[b].content = batch[b].content /\ batch'[b].refused
  BY <1>2, BatchWritten
<1>4. RowsGoOn
  BY <1>2, <1>3, BatchGoesOn DEF Begun, Ended, PipelineInv, ContentInv
<1>5. Moves(w, "committing", Build(b), {})
  BY <1>1, <1>2, HandlerMoves DEF PipelineInv
<1>6. Decided(Build(b))'
  BY <1>3, TasksDiffer DEF Decided
<1>7. Fits(w, "committing", Build(b), {})
  BY <1>1, <1>6, FitsReturn
<1> QED  BY <1>2, <1>4, <1>5, <1>7, StepKeeps

\* The dataset of a version, written, with the rest of the datasets kept.
LEMMA SaveKeeps ==
    ASSUME PipelineInv, NEW w \in Workers, SaveDataset(w)
    PROVE  PipelineInv'
<1>1. PICK b \in Batches : handler[w].task = Build(b) /\ Subject(w) = b /\ Build(b) \in requested
  BY BuildOf DEF SaveDataset, Running
<1> DEFINE v == batch[b].content
           ts == IF v \in Passing /\ Configured THEN {Register(v)} ELSE {}
<1>2. v \in Versions
  <2>1. v # None
    BY <1>1 DEF PipelineInv, ContentInv, SaveDataset, Running
  <2> QED  BY <2>1 DEF PipelineInv, RowsOK, Batch
<1>3. /\ JournalGoesOn /\ Return(w, ts) /\ UNCHANGED <<batch, requested>>
      /\ dataset' = IF dataset[v].batch = None
                    THEN [dataset EXCEPT ![v].batch = b] ELSE dataset
  BY <1>1, JournalKept DEF SaveDataset, deliveryVars
<1> HIDE DEF v
<1>4. /\ dataset' \in [Versions -> Dataset]
      /\ \A u \in Versions \ {v} : dataset'[u] = dataset[u]
      /\ dataset'[v].batch # None
      /\ dataset'[v].registered = dataset[v].registered
      /\ dataset'[v].failing = dataset[v].failing
  <2>1. CASE dataset[v].batch = None
    <3>1. dataset' = [dataset EXCEPT ![v].batch = b] /\ b # None
      BY <1>3, <2>1, NoneAssumption DEF Batches
    <3> QED  BY <1>2, <3>1, SMT DEF PipelineInv, RowsOK, Dataset
  <2>2. CASE dataset[v].batch # None
    BY <1>3, <2>2 DEF PipelineInv, RowsOK
  <2> QED  BY <2>1, <2>2
<1>5. RowsGoOn
  BY <1>2, <1>3, <1>4, DatasetGoesOn
<1>6. Moves(w, "committing", Build(b), ts)
  BY <1>1, <1>2, <1>3, HandlerMoves, TasksAreTasks DEF PipelineInv
<1>7. Decided(Build(b))'
  <2>1. Built(b)'
    BY <1>2, <1>3, <1>4, NoneAssumption DEF Built, v
  <2> QED  BY <2>1, TasksDiffer DEF Decided
<1>8. Fits(w, "committing", Build(b), ts)
  BY <1>1, <1>7, FitsReturn, TasksDiffer
<1> QED  BY <1>3, <1>5, <1>6, <1>8, StepKeeps

--------------------------------------------------------------------------------------
(* Registering.                                                                          *)

LEMMA RegisterOf ==
    ASSUME PipelineInv, NEW w \in Workers,
           handler[w].pc \in {"registering", "accepted", "postponed", "declined"}
    PROVE  \E v \in Versions : /\ handler[w].task = Register(v) /\ Subject(w) = v
                               /\ Register(v) \in requested /\ v \in Passing
BY TasksDiffer DEF PipelineInv, TaskInv, RequestInv, Subject

LEMMA PostKeeps ==
    ASSUME PipelineInv, NEW w \in Workers, PostDataset(w)
    PROVE  PipelineInv'
<1>1. PICK v \in Versions : /\ handler[w].task = Register(v) /\ Subject(w) = v
                            /\ Register(v) \in requested /\ v \in Passing
  BY RegisterOf DEF PostDataset, Running
<1>2. RowsGoOn /\ JournalGoesOn
  BY RowsKept, JournalKept DEF PostDataset, deliveryVars
<1>3. PICK pc \in {"accepted", "postponed", "declined"} : Goto(w, pc)
  BY <1>1 DEF PostDataset
<1>4. Moves(w, pc, Register(v), handler[w].next)
  BY <1>1, <1>3, HandlerMoves DEF PipelineInv, Steps
<1>5. Fits(w, pc, Register(v), handler[w].next)
  BY <1>1, FitsOn, TasksDiffer
<1> QED  BY <1>2, <1>4, <1>5, StepKeeps

\* A registration that has an end has one from then on.
LEMMA MarkedGoesOn ==
    ASSUME PipelineInv, NEW w \in Workers, NEW v \in Versions, UNCHANGED batch,
           \/ dataset' = [dataset EXCEPT ![v] = [@ EXCEPT !.registered = TRUE, !.failing = FALSE]]
           \/ dataset' = [dataset EXCEPT ![v].failing = TRUE]
    PROVE  RowsGoOn /\ (dataset'[v].registered \/ dataset'[v].failing)
<1> DEFINE r == [dataset[v] EXCEPT !.registered = TRUE]
           accepted == [r EXCEPT !.failing = FALSE]
           failed == [dataset[v] EXCEPT !.failing = TRUE]
<1>1. dataset \in [Versions -> Dataset] /\ dataset[v] \in Dataset
  BY DEF PipelineInv, RowsOK
<1>2. r \in Dataset /\ r.batch = dataset[v].batch /\ r.registered
  BY <1>1, Zenon DEF Dataset
<1>3. accepted \in Dataset /\ accepted.batch = dataset[v].batch /\ accepted.registered
  <2> HIDE DEF r
  <2> QED  BY <1>2, Zenon DEF Dataset
<1>4. failed \in Dataset /\ failed.batch = dataset[v].batch /\ failed.failing
  BY <1>1, Zenon DEF Dataset
<1>5. dataset' = [dataset EXCEPT ![v] = accepted] \/ dataset' = [dataset EXCEPT ![v] = failed]
  OBVIOUS
<1> HIDE DEF accepted, failed
<1>6. /\ dataset' \in [Versions -> Dataset]
      /\ \A u \in Versions \ {v} : dataset'[u] = dataset[u]
      /\ dataset'[v] \in {accepted, failed}
  BY <1>1, <1>3, <1>4, <1>5, Zenon
<1>7. /\ dataset'[v].batch = dataset[v].batch
      /\ dataset'[v].registered \/ dataset'[v].failing
  BY <1>3, <1>4, <1>6, Zenon
<1> QED  BY <1>6, <1>7, DatasetGoesOn

LEMMA MarkKeeps ==
    ASSUME PipelineInv, NEW w \in Workers, MarkRegistered(w) \/ MarkFailed(w)
    PROVE  PipelineInv'
<1>1. PICK v \in Versions : /\ handler[w].task = Register(v) /\ Subject(w) = v
                            /\ Register(v) \in requested /\ v \in Passing
  BY RegisterOf DEF MarkRegistered, MarkFailed, Running
<1>2. /\ JournalGoesOn /\ UNCHANGED batch
      /\ Return(w, {}) \/ handler' = [handler EXCEPT ![w] = Idle]
  BY JournalKept DEF MarkRegistered, MarkFailed, deliveryVars
<1>3. \/ dataset' = [dataset EXCEPT ![v] = [@ EXCEPT !.registered = TRUE, !.failing = FALSE]]
      \/ dataset' = [dataset EXCEPT ![v].failing = TRUE]
  BY <1>1 DEF MarkRegistered, MarkFailed
<1>4. RowsGoOn /\ (dataset'[v].registered \/ dataset'[v].failing)
  BY <1>2, <1>3, MarkedGoesOn
<1>5. CASE Return(w, {})
  <2>1. Moves(w, "committing", Register(v), {})
    BY <1>1, <1>5, HandlerMoves DEF PipelineInv
  <2>2. Decided(Register(v))'
    BY <1>4, TasksDiffer DEF Decided
  <2>3. Fits(w, "committing", Register(v), {})
    BY <1>1, <2>2, FitsReturn
  <2> QED  BY <1>2, <1>4, <2>1, <2>3, StepKeeps
<1>6. CASE handler' = [handler EXCEPT ![w] = Idle]
  <2>1. Moves(w, "idle", None, {})
    BY <1>6, HandlerMoves DEF PipelineInv
  <2> QED  BY <1>2, <1>4, <2>1, FitsIdle, StepKeeps
<1> QED  BY <1>2, <1>5, <1>6

--------------------------------------------------------------------------------------

LEMMA PipelineStep == PipelineInv /\ [PipelineNext]_pipelineVars => PipelineInv'
<1> SUFFICES ASSUME PipelineInv, [PipelineNext]_pipelineVars
             PROVE  PipelineInv'
  OBVIOUS
<1>1. ASSUME UNCHANGED <<batch, dataset, handler, requested, done>>
      PROVE  PipelineInv'
  <2>1. None \notin Workers /\ Moves(None, "idle", None, {})
    BY <1>1, NoneAssumption DEF Moves, PipelineInv, RowsOK
  <2> QED  BY <1>1, <2>1, RowsKept, JournalKept, StepKeeps
<1>2. CASE LeaseEnds
  BY <1>1, <1>2 DEF LeaseEnds, Delivery!GiveBack, securityVars
<1>3. CASE UNCHANGED pipelineVars
  BY <1>1, <1>3 DEF pipelineVars, securityVars, deliveryVars
<1>4. ASSUME NEW w \in Workers, HandlerStep(w)
      PROVE  PipelineInv'
  BY <1>4, BeginKeeps, CollectKeeps, FinishKeeps, LoadKeeps, RefuseKeeps, SaveKeeps,
     PostKeeps, MarkKeeps, CommitKeeps DEF HandlerStep
<1> QED
  BY <1>2, <1>3, <1>4, RequestKeeps, StartKeeps, AbandonKeeps DEF PipelineNext

LEMMA PipelineInvariant == PipelineSpec => []PipelineInv
BY InitPipelineInv, PipelineStep, PTL DEF PipelineSpec

\* However often an ingest is delivered and whichever worker loses its lease when, the
\* sources are never visited twice for one batch: begin moves a batch on only once.
THEOREM NeverTwoCollectors == PipelineSpec => []OneCollector
<1>1. PipelineInv => OneCollector
  <2> SUFFICES ASSUME PipelineInv, NEW w \in Workers, NEW other \in Workers,
                      handler[w].pc \in {"collecting", "finishing"},
                      handler[other].pc \in {"collecting", "finishing"},
                      Subject(w) = Subject(other)
               PROVE  w = other
    BY DEF OneCollector
  <2>1. PICK b \in Batches : handler[w].task = Ingest(b) /\ Subject(w) = b
    BY IngestOf
  <2>2. PICK c \in Batches : handler[other].task = Ingest(c) /\ Subject(other) = c
    BY IngestOf
  <2>3. Collecting(w, b) /\ Collecting(other, b)
    BY <2>1, <2>2 DEF Collecting
  <2> QED  BY <2>3 DEF PipelineInv, CollectorInv
<1> QED  BY <1>1, PipelineInvariant, PTL

\* An acknowledged task has left its result, although the stores commit on their own and
\* a worker may die, or lose its lease, between any two of their commits.
THEOREM ResultsAreLeft == PipelineSpec => []DoneMeansDecided
<1>1. PipelineInv => DoneMeansDecided
  <2> SUFFICES ASSUME PipelineInv
               PROVE  DoneMeansDecided
    OBVIOUS
  <2>1. \A t \in done : Decided(t)
    BY DEF PipelineInv, DecidedInv
  <2>2. ASSUME NEW b \in Batches, Ingest(b) \in done
        PROVE  batch[b].status \in {"succeeded", "failed"}
    BY <2>1, <2>2 DEF Decided, Ended
  <2>3. ASSUME NEW b \in Batches, Build(b) \in done
        PROVE  \/ batch[b].refused
               \/ \E v \in Versions : batch[b].content = v /\ dataset[v].batch # None
    <3>1. batch[b].refused \/ Built(b)
      BY <2>1, <2>3 DEF Decided
    <3>2. batch[b].content \in Versions \cup {None}
      BY DEF PipelineInv, RowsOK, Batch
    <3> QED  BY <3>1, <3>2 DEF Built
  <2>4. ASSUME NEW v \in Versions, Register(v) \in done
        PROVE  dataset[v].registered \/ dataset[v].failing
    BY <2>1, <2>4 DEF Decided
  <2> QED  BY <2>2, <2>3, <2>4 DEF DoneMeansDecided
<1> QED  BY <1>1, PipelineInvariant, PTL
======================================================================================
