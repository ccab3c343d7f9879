-------------------------------- MODULE Crawling_proofs --------------------------------
(* For any number of workers, administrators, jobs, sources and documents: versions are  *)
(* numbered in order and reach the index, reviews stay, a source is visited by one, and  *)
(* an acknowledged crawl has ended.                                                      *)
EXTENDS Crawling, SequenceTheorems, TLAPS

JobRow == [status : {"absent", "pending", "running", "succeeded", "failed"}, generation : Nat]

Document == [versions : Seq([number : Nat, text : Texts \cup {None}]), current : Nat,
             reviews : SUBSET Clients, locked : Actors \cup {None}]

Pcs == {"idle", "admit", "begin", "fetching", "locking", "finishing", "committing",
        "discovering", "reviewing"}

ActorRow == [pc : Pcs, task : CrawlTasks \cup {None}, source : Sources \cup {None},
             document : Documents \cup {None}, text : Texts \cup {None},
             number : Nat, reviews : SUBSET Clients]

CrawlTypeInv ==
    /\ job \in [Jobs -> JobRow]
    /\ document \in [Documents -> Document]
    /\ slot \in [Sources -> Actors \cup {None}]
    /\ outage \in BOOLEAN
    /\ actor \in [Actors -> ActorRow]

\* The job needs no execution of generation g any more.
Settled(j, g) == job[j].status \in {"succeeded", "failed"} \/ job[j].generation > g

RequestedInv ==
    \A j \in Jobs, g \in 0 .. MaxGeneration :
      Crawl(j, g) \in requested => g <= job[j].generation

DoneInv ==
    \A t \in done :
      \/ \E j \in Jobs, g \in 0 .. MaxGeneration : t = Crawl(j, g) /\ t \in requested /\ Settled(j, g)
      \/ \E d \in Documents, n \in Numbers :
           t = Index(d, n) /\ (SearchEnabled => <<d, n>> \in indexed)

GoodDocument(d) ==
    /\ \A i \in DOMAIN document[d].versions :
         /\ document[d].versions[i].number = i
         /\ Index(d, i) \in requested
    /\ document[d].current = Len(document[d].versions)

\* What actor a has read of document d is still so: the row is locked.
UpToDate(a, d) ==
    /\ d \in Documents
    /\ document[d].locked = a
    /\ actor[a].reviews = document[d].reviews

GoodActor(a) ==
    /\ a \in Workers /\ ~At(a, "idle") =>
         \E j \in Jobs, g \in 0 .. MaxGeneration :
           /\ actor[a].task = Crawl(j, g) /\ Crawl(j, g) \in requested
           /\ At(a, "committing") => Settled(j, g)
    /\ actor[a].pc \in {"admit", "begin", "fetching"} => actor[a].document = None
    /\ At(a, "locking") => actor[a].document \in Documents
    /\ At(a, "finishing") =>
         \/ a \in Workers /\ actor[a].document = None
         \/ /\ UpToDate(a, actor[a].document)
            /\ actor[a].number = Len(document[actor[a].document].versions) + 1
    /\ At(a, "reviewing") => UpToDate(a, actor[a].document)
    /\ Visiting(a) /\ ~outage => actor[a].source \in Sources /\ slot[actor[a].source] = a

CrawlInv ==
    /\ CrawlTypeInv /\ RequestedInv /\ DoneInv
    /\ \A d \in Documents : GoodDocument(d)
    /\ \A a \in Actors : GoodActor(a)

--------------------------------------------------------------------------------------
(* What a step of actor a leaves to the others.                                          *)

OthersStay(a) ==
    /\ actor' \in [Actors -> ActorRow]
    /\ \A b \in Actors \ {a} : actor'[b] = actor[b]

RowsGoOn(a) ==
    /\ document' \in [Documents -> Document]
    /\ \A d \in Documents : GoodDocument(d)'
    /\ \A d \in Documents : \A b \in Actors \ {a} :
         document[d].locked = b => document'[d] = document[d]

SlotsGoOn(a) ==
    /\ slot' \in [Sources -> Actors \cup {None}]
    /\ outage' \in BOOLEAN /\ (outage => outage')
    /\ \A s \in Sources : \A b \in Actors \ {a} : slot[s] = b => slot'[s] = b \/ outage'

JobsGoOn ==
    /\ job' \in [Jobs -> JobRow]
    /\ \A j \in Jobs :
         /\ job[j].generation <= job'[j].generation
         /\ \A g \in Nat : g <= job[j].generation /\ Settled(j, g) => Settled(j, g)'

JournalGoesOn ==
    /\ requested \subseteq requested'
    /\ \A j \in Jobs, g \in 0 .. MaxGeneration :
         Crawl(j, g) \in requested' \ requested => g <= job'[j].generation
    /\ \A t \in done' \ done :
         \/ \E j \in Jobs, g \in 0 .. MaxGeneration : t = Crawl(j, g) /\ t \in requested /\ Settled(j, g)
         \/ \E d \in Documents, n \in Numbers :
              t = Index(d, n) /\ (SearchEnabled => <<d, n>> \in indexed')
    /\ indexed \subseteq indexed'

LEMMA CrawlStepKeeps ==
    ASSUME CrawlInv, NEW a,
           OthersStay(a), RowsGoOn(a), SlotsGoOn(a), JobsGoOn, JournalGoesOn,
           a \in Actors => GoodActor(a)'
    PROVE  CrawlInv'
<1> USE DEF CrawlInv
<1>1. CrawlTypeInv'
  BY DEF CrawlTypeInv, OthersStay, RowsGoOn, SlotsGoOn, JobsGoOn
<1>2. \A j \in Jobs, g \in 0 .. MaxGeneration :
        Crawl(j, g) \in requested /\ Settled(j, g) => Settled(j, g)'
  BY CrawlBounds DEF RequestedInv, JobsGoOn
<1>3. RequestedInv'
  <2> SUFFICES ASSUME NEW j \in Jobs, NEW g \in 0 .. MaxGeneration, Crawl(j, g) \in requested'
               PROVE  g <= job'[j].generation
    BY DEF RequestedInv
  <2>1. CASE Crawl(j, g) \in requested
    <3>1. g <= job[j].generation /\ job[j].generation <= job'[j].generation
      BY <2>1 DEF RequestedInv, JobsGoOn
    <3>2. job[j].generation \in Nat /\ job'[j].generation \in Nat
      BY <1>1 DEF CrawlTypeInv, JobRow
    <3> QED  BY <3>1, <3>2, CrawlBounds
  <2> QED  BY <2>1 DEF JournalGoesOn
<1>4. DoneInv'
  <2> SUFFICES ASSUME NEW t \in done'
               PROVE
      \/ \E j \in Jobs, g \in 0 .. MaxGeneration : t = Crawl(j, g) /\ t \in requested' /\ Settled(j, g)'
      \/ \E d \in Documents, n \in Numbers :
           t = Index(d, n) /\ (SearchEnabled => <<d, n>> \in indexed')
    BY DEF DoneInv
  <2>1. \/ \E j \in Jobs, g \in 0 .. MaxGeneration : t = Crawl(j, g) /\ t \in requested /\ Settled(j, g)
        \/ \E d \in Documents, n \in Numbers :
             t = Index(d, n) /\ (SearchEnabled => <<d, n>> \in indexed')
    <3>1. CASE t \in done
      <4>1. indexed \subseteq indexed'
        BY DEF JournalGoesOn
      <4> QED  BY <3>1, <4>1 DEF DoneInv
    <3>2. CASE t \notin done
      BY <3>2 DEF JournalGoesOn
    <3> QED  BY <3>1, <3>2
  <2> QED  BY <1>2, <2>1 DEF JournalGoesOn
<1>5. ASSUME NEW b \in Actors \ {a}
      PROVE  GoodActor(b)'
  <2>1. GoodActor(b) /\ actor'[b] = actor[b] /\ b # None
    BY NoneAssumption DEF OthersStay, Actors
  <2>2. b \in Workers /\ ~At(b, "idle") =>
         \E j \in Jobs, g \in 0 .. MaxGeneration :
           /\ actor[b].task = Crawl(j, g) /\ Crawl(j, g) \in requested'
           /\ At(b, "committing") => Settled(j, g)'
    BY <1>2, <2>1 DEF GoodActor, JournalGoesOn
  <2>3. \A d : UpToDate(b, d) => UpToDate(b, d)' /\ document'[d] = document[d]
    BY <2>1 DEF UpToDate, RowsGoOn
  <2>4. At(b, "finishing") =>
         \/ b \in Workers /\ actor[b].document = None
         \/ /\ UpToDate(b, actor[b].document)'
            /\ actor[b].number = Len(document'[actor[b].document].versions) + 1
    <3>1. UpToDate(b, actor[b].document) =>
            /\ UpToDate(b, actor[b].document)'
            /\ document'[actor[b].document] = document[actor[b].document]
      BY <2>1, <2>3
    <3> QED  BY <2>1, <3>1 DEF GoodActor
  <2>5. Visiting(b) /\ ~outage' => actor[b].source \in Sources /\ slot'[actor[b].source] = b
    BY <2>1 DEF GoodActor, SlotsGoOn
  <2>6. (\A pc : At(b, pc)' <=> At(b, pc)) /\ (Visiting(b)' <=> Visiting(b))
    BY <2>1 DEF At, Visiting
  <2>7. At(b, "reviewing") => UpToDate(b, actor[b].document)'
    BY <2>1, <2>3 DEF GoodActor
  <2>8. At(b, "locking") => actor[b].document \in Documents
    BY <2>1 DEF GoodActor
  <2>9. actor[b].pc \in {"admit", "begin", "fetching"} => actor[b].document = None
    BY <2>1 DEF GoodActor
  <2> QED  BY <2>1, <2>2, <2>4, <2>5, <2>6, <2>7, <2>8, <2>9 DEF GoodActor
<1> QED
  BY <1>1, <1>3, <1>4, <1>5 DEF RowsGoOn

--------------------------------------------------------------------------------------
(* What most steps leave alone, and the writes that several steps have in common.        *)

LEMMA TasksDiffer ==
    /\ \A j, i, g, h : Crawl(j, g) = Crawl(i, h) => j = i /\ g = h
    /\ \A j, g, d, n : Crawl(j, g) # Index(d, n)
    /\ \A d, e, n, m : Index(d, n) = Index(e, m) => d = e /\ n = m
    /\ \A j, g : Crawl(j, g)[1] = "crawl" /\ Crawl(j, g)[2] = j /\ Crawl(j, g)[3] = g
    /\ \A d, n : Index(d, n)[1] = "index" /\ Index(d, n)[2] = d /\ Index(d, n)[3] = n
BY DEF Crawl, Index

LEMMA RowsKept ==
    ASSUME CrawlInv, UNCHANGED document, requested \subseteq requested'
    PROVE  \A a : RowsGoOn(a)
BY DEF CrawlInv, CrawlTypeInv, GoodDocument, RowsGoOn

LEMMA SlotsKept ==
    ASSUME CrawlInv, UNCHANGED <<slot, outage>>
    PROVE  \A a : SlotsGoOn(a)
BY DEF CrawlInv, CrawlTypeInv, SlotsGoOn

LEMMA JobsKept ==
    ASSUME CrawlInv, UNCHANGED job
    PROVE  JobsGoOn
<1>1. \A j \in Jobs : job[j].generation <= job[j].generation
  BY DEF CrawlInv, CrawlTypeInv, JobRow
<1> QED  BY <1>1 DEF CrawlInv, CrawlTypeInv, JobsGoOn, Settled

LEMMA JournalKept ==
    ASSUME UNCHANGED <<requested, done, indexed>>
    PROVE  JournalGoesOn
BY DEF JournalGoesOn

LEMMA SlotsFreed ==
    ASSUME CrawlInv, NEW a \in Actors, slot' = SlotsFreedBy(a), UNCHANGED outage
    PROVE  SlotsGoOn(a)
BY DEF CrawlInv, CrawlTypeInv, SlotsGoOn, SlotsFreedBy

\* The rows that a transaction gives back are as it has written them.
LEMMA RowsFreed ==
    ASSUME NEW a, NEW docs \in [Documents -> Document]
    PROVE  /\ RowsFreedBy(a, docs) \in [Documents -> Document]
           /\ \A d \in Documents :
                /\ RowsFreedBy(a, docs)[d].versions = docs[d].versions
                /\ RowsFreedBy(a, docs)[d].current = docs[d].current
                /\ RowsFreedBy(a, docs)[d].reviews = docs[d].reviews
                /\ docs[d].locked # a => RowsFreedBy(a, docs)[d] = docs[d]
BY DEF RowsFreedBy, Document

\* A row is written by whoever has it locked, or locked by an actor as nobody had it.
LEMMA RowWritten ==
    ASSUME CrawlInv, NEW a \in Actors, NEW d \in Documents, NEW row \in Document,
           document[d].locked \in {a, None},
           \/ document' = [document EXCEPT ![d] = row]
           \/ document' = RowsFreedBy(a, [document EXCEPT ![d] = row]),
           requested \subseteq requested',
           \A i \in DOMAIN row.versions :
             row.versions[i].number = i /\ Index(d, i) \in requested',
           row.current = Len(row.versions)
    PROVE  RowsGoOn(a)
<1> USE DEF CrawlInv
<1> DEFINE docs == [document EXCEPT ![d] = row]
<1>1. /\ docs \in [Documents -> Document] /\ docs[d] = row
      /\ \A e \in Documents \ {d} : docs[e] = document[e]
  BY DEF CrawlTypeInv
<1> HIDE DEF docs
<1>2. /\ document' \in [Documents -> Document]
      /\ \A e \in Documents :
           /\ document'[e].versions = docs[e].versions
           /\ document'[e].current = docs[e].current
           /\ docs[e].locked # a => document'[e] = docs[e]
  <2>1. CASE document' = docs
    BY <1>1, <2>1
  <2>2. CASE document' = RowsFreedBy(a, docs)
    BY <1>1, <2>2, RowsFreed
  <2> QED  BY <2>1, <2>2 DEF docs
<1>3. ASSUME NEW e \in Documents
      PROVE  GoodDocument(e)'
  <2>1. CASE e = d
    BY <1>1, <1>2, <2>1 DEF GoodDocument
  <2>2. CASE e # d
    BY <1>1, <1>2, <2>2 DEF GoodDocument
  <2> QED  BY <2>1, <2>2
<1>4. ASSUME NEW e \in Documents, NEW b \in Actors \ {a}, document[e].locked = b
      PROVE  document'[e] = document[e]
  BY <1>1, <1>2, <1>4, NoneAssumption DEF Actors
<1> QED  BY <1>2, <1>3, <1>4 DEF RowsGoOn

\* A transaction ends without having written a row.
LEMMA NothingWritten ==
    ASSUME CrawlInv, NEW a \in Actors, document' = RowsFreedBy(a, document),
           requested \subseteq requested'
    PROVE  RowsGoOn(a)
<1>1. document \in [Documents -> Document]
  BY DEF CrawlInv, CrawlTypeInv
<1>2. /\ document' \in [Documents -> Document]
      /\ \A d \in Documents :
           /\ document'[d].versions = document[d].versions
           /\ document'[d].current = document[d].current
           /\ document[d].locked # a => document'[d] = document[d]
  BY <1>1, RowsFreed
<1>3. \A d \in Documents : GoodDocument(d)'
  BY <1>2 DEF CrawlInv, GoodDocument
<1> QED  BY <1>2, <1>3 DEF RowsGoOn

\* A new version has the next number, and is asked to be indexed.
LEMMA VersionAdded ==
    ASSUME CrawlInv, NEW a \in Actors, NEW x \in Texts \cup {None},
           At(a, "finishing"), UpToDate(a, actor[a].document),
           actor[a].number = Len(document[actor[a].document].versions) + 1,
           document' = RowsFreedBy(a, WithVersion(a, x)),
           requested' = requested \cup {Index(actor[a].document, actor[a].number)}
    PROVE  RowsGoOn(a)
<1> DEFINE d == actor[a].document
           n == actor[a].number
           v == [number |-> n, text |-> x]
           vs == Append(document[d].versions, v)
           r1 == [document[d] EXCEPT !.versions = vs]
           r2 == [r1 EXCEPT !.current = n]
           row == [r2 EXCEPT !.reviews = actor[a].reviews]
<1>1. /\ d \in Documents /\ document[d] \in Document /\ GoodDocument(d)
      /\ n \in Nat /\ actor[a].reviews \in SUBSET Clients
      /\ document[d].locked = a
  BY DEF CrawlInv, CrawlTypeInv, ActorRow, UpToDate
<1>2. WithVersion(a, x) = [document EXCEPT ![d] = row]
  BY DEF WithVersion, Versioned
<1>3. /\ vs \in Seq([number : Nat, text : Texts \cup {None}]) /\ Len(vs) = n
      /\ vs[n] = v /\ \A i \in DOMAIN vs : i = n \/ (i \in DOMAIN document[d].versions /\ vs[i] = document[d].versions[i])
  <2>1. document[d].versions \in Seq([number : Nat, text : Texts \cup {None}])
    BY <1>1 DEF Document
  <2>2. v \in [number : Nat, text : Texts \cup {None}]
    <3> HIDE DEF n
    <3> QED  BY <1>1
  <2>3. n = Len(document[d].versions) + 1
    OBVIOUS
  <2> HIDE DEF v, d, n
  <2> QED  BY <2>1, <2>2, <2>3
<1>4. \A i \in DOMAIN vs : vs[i].number = i /\ Index(d, i) \in requested'
  <2>1. v.number = n
    OBVIOUS
  <2>2. Index(d, n) \in requested'
    OBVIOUS
  <2> HIDE DEF v, vs, n, d
  <2> QED  BY <1>1, <1>3, <2>1, <2>2 DEF GoodDocument
<1> HIDE DEF vs, v
<1>5. r1 \in Document /\ r1.versions = vs
  BY <1>1, <1>3, Zenon DEF Document
<1> HIDE DEF r1
<1>6. r2 \in Document /\ r2.versions = vs /\ r2.current = n
  BY <1>1, <1>5, Zenon DEF Document
<1> HIDE DEF r2
<1>7. row \in Document /\ row.versions = vs /\ row.current = n
  BY <1>1, <1>6, Zenon DEF Document
<1> HIDE DEF row
<1> QED  BY <1>1, <1>2, <1>3, <1>4, <1>7, RowWritten

--------------------------------------------------------------------------------------
(* An actor moves.                                                                       *)

LEMMA IdleActor ==
    /\ Idle \in ActorRow /\ Idle.pc = "idle"
    /\ \A a \in Actors : actor'[a] = Idle => GoodActor(a)'
BY DEF Idle, ActorRow, Pcs, GoodActor, At, Visiting

LEMMA ActorMoves ==
    ASSUME CrawlInv, NEW a \in Actors, NEW row \in ActorRow,
           actor' = [actor EXCEPT ![a] = row]
    PROVE  OthersStay(a) /\ actor'[a] = row
BY DEF CrawlInv, CrawlTypeInv, OthersStay

\* Nobody moves.
LEMMA NobodyMoves ==
    ASSUME CrawlInv, UNCHANGED actor, RowsGoOn(None), SlotsGoOn(None), JobsGoOn, JournalGoesOn
    PROVE  CrawlInv'
<1>1. None \notin Actors
  BY NoneAssumption DEF Actors
<1>2. OthersStay(None)
  BY DEF CrawlInv, CrawlTypeInv, OthersStay
<1> QED  BY <1>1, <1>2, CrawlStepKeeps

--------------------------------------------------------------------------------------
(* Jobs.                                                                                 *)

LEMMA CreateJobKeeps ==
    ASSUME CrawlInv, NEW j \in Jobs, NEW enqueue \in BOOLEAN, CreateJob(j, enqueue)
    PROVE  CrawlInv'
<1> USE DEF CrawlInv
<1>1. /\ job[j].status = "absent" /\ job' = [job EXCEPT ![j].status = "pending"]
      /\ requested' = requested \cup (IF enqueue THEN {Crawl(j, 0)} ELSE {})
      /\ UNCHANGED <<document, slot, outage, indexed, actor, done>>
  BY DEF CreateJob, Delivery!Request
<1>2. /\ job' \in [Jobs -> JobRow] /\ job'[j].generation = job[j].generation
      /\ \A i \in Jobs \ {j} : job'[i] = job[i]
      /\ \A i \in Jobs : job[i].generation \in Nat
  BY <1>1 DEF CrawlTypeInv, JobRow
<1>3. JobsGoOn
  <2> SUFFICES ASSUME NEW i \in Jobs
               PROVE  /\ job[i].generation <= job'[i].generation
                      /\ \A g \in Nat : Settled(i, g) => Settled(i, g)'
    BY <1>2 DEF JobsGoOn
  <2>1. job'[i].generation = job[i].generation /\ job[i].generation \in Nat
    BY <1>2
  <2>2. \A g \in Nat : Settled(i, g) => Settled(i, g)'
    BY <1>1, <1>2 DEF Settled
  <2> QED  BY <2>1, <2>2
<1>4. JournalGoesOn
  <2>1. \A i \in Jobs, g \in 0 .. MaxGeneration :
          Crawl(i, g) \in requested' \ requested => g <= job'[i].generation
    BY <1>1, <1>2, TasksDiffer
  <2> QED  BY <1>1, <2>1 DEF JournalGoesOn
<1>5. requested \subseteq requested'
  BY <1>1
<1> QED  BY <1>1, <1>3, <1>4, <1>5, RowsKept, SlotsKept, NobodyMoves

LEMMA RequestJobKeeps ==
    ASSUME CrawlInv, NEW j \in Jobs, RequestJob(j)
    PROVE  CrawlInv'
<1> USE DEF CrawlInv
<1> DEFINE generation == job[j].generation + (IF job[j].status = "failed" THEN 1 ELSE 0)
<1>1. /\ job[j].status \notin {"absent", "succeeded"}
      /\ job' = [job EXCEPT ![j].generation = generation,
                            ![j].status = IF @ = "running" THEN @ ELSE "pending"]
      /\ requested' = requested \cup {Crawl(j, generation)}
      /\ UNCHANGED <<document, slot, outage, indexed, actor, done>>
  BY DEF RequestJob, Delivery!Request
<1>2. \A i \in Jobs : job[i] \in JobRow /\ job[i].generation \in Nat
  BY DEF CrawlTypeInv, JobRow
<1>3. /\ generation \in Nat /\ job[j].generation <= generation
      /\ job[j].status = "failed" => generation = job[j].generation + 1
  BY <1>2
<1> HIDE DEF generation
<1>4. /\ job' \in [Jobs -> JobRow] /\ job'[j].generation = generation
      /\ \A i \in Jobs \ {j} : job'[i] = job[i]
  BY <1>1, <1>2, <1>3 DEF CrawlTypeInv, JobRow
<1>5. JobsGoOn
  <2> SUFFICES ASSUME NEW i \in Jobs
               PROVE  /\ job[i].generation <= job'[i].generation
                      /\ \A g \in Nat : g <= job[i].generation /\ Settled(i, g) => Settled(i, g)'
    BY <1>4 DEF JobsGoOn
  <2>1. CASE i = j
    <3>1. ASSUME NEW g \in Nat, g <= job[j].generation, Settled(j, g)
          PROVE  generation > g
      BY <1>1, <1>2, <1>3, <3>1 DEF Settled
    <3> QED  BY <1>3, <1>4, <2>1, <3>1 DEF Settled
  <2>2. CASE i # j
    BY <1>2, <1>4, <2>2 DEF Settled
  <2> QED  BY <2>1, <2>2
<1>6. JournalGoesOn
  <2>1. \A i \in Jobs, g \in 0 .. MaxGeneration :
          Crawl(i, g) \in requested' \ requested => g <= job'[i].generation
    BY <1>1, <1>3, <1>4, TasksDiffer
  <2> QED  BY <1>1, <2>1 DEF JournalGoesOn
<1>7. requested \subseteq requested'
  BY <1>1
<1> QED  BY <1>1, <1>5, <1>6, <1>7, RowsKept, SlotsKept, NobodyMoves

LEMMA DiscoveryKeeps ==
    ASSUME CrawlInv, NEW c \in Clients,
           (\E s \in Sources : StartDiscovery(c, s)) \/ FinishDiscovery(c)
    PROVE  CrawlInv'
<1> USE DEF CrawlInv
<1>1. /\ c \in Actors /\ c \notin Workers
      /\ UNCHANGED <<document, outage, indexed, requested, done>>
  BY ActorsAssumption DEF Actors, StartDiscovery, FinishDiscovery, deliveryVars
<1>2. ASSUME NEW s \in Sources, StartDiscovery(c, s)
      PROVE  CrawlInv'
  <2> DEFINE row == [Idle EXCEPT !.pc = "discovering", !.source = s]
  <2>1. /\ slot[s] = None /\ slot' = [slot EXCEPT ![s] = c] /\ UNCHANGED job
        /\ actor' = [actor EXCEPT ![c] = row]
    BY <1>2 DEF StartDiscovery
  <2>2. row \in ActorRow /\ row.pc = "discovering" /\ row.source = s
    BY DEF Idle, ActorRow, Pcs
  <2> HIDE DEF row
  <2>3. OthersStay(c) /\ actor'[c] = row
    BY <1>1, <2>1, <2>2, ActorMoves
  <2>4. SlotsGoOn(c) /\ slot'[s] = c
    BY <1>1, <2>1, NoneAssumption DEF SlotsGoOn, CrawlTypeInv, Actors
  <2>5. GoodActor(c)'
    BY <1>1, <2>2, <2>3, <2>4 DEF GoodActor, At, Visiting
  <2> QED  BY <1>1, <2>1, <2>3, <2>4, <2>5, RowsKept, JobsKept, JournalKept, CrawlStepKeeps
<1>3. CASE FinishDiscovery(c)
  <2>1. /\ slot' = SlotsFreedBy(c) /\ actor' = [actor EXCEPT ![c] = Idle]
        /\ \E found \in SUBSET {j \in Jobs : job[j].status = "absent"} :
             job' = [j \in Jobs |-> IF j \in found THEN [job[j] EXCEPT !.status = "pending"]
                                    ELSE job[j]]
    BY <1>3 DEF FinishDiscovery
  <2>2. OthersStay(c) /\ GoodActor(c)'
    BY <1>1, <2>1, IdleActor, ActorMoves
  <2>3. JobsGoOn
    <3>1. \A j \in Jobs : job[j] \in JobRow
      BY DEF CrawlTypeInv
    <3>2. \A j \in Jobs : /\ job'[j] \in JobRow /\ job'[j].generation = job[j].generation
                          /\ job'[j].status # job[j].status => job[j].status = "absent"
      BY <2>1, <3>1 DEF JobRow
    <3>3. job' = [j \in Jobs |-> job'[j]]
      BY <2>1
    <3>4. job' \in [Jobs -> JobRow]
      BY <3>2, <3>3
    <3>5. \A j \in Jobs : job[j].generation <= job'[j].generation
      BY <3>1, <3>2 DEF JobRow
    <3>6. \A j \in Jobs, g \in Nat : Settled(j, g) => Settled(j, g)'
      BY <3>2 DEF Settled
    <3> QED  BY <3>4, <3>5, <3>6 DEF JobsGoOn
  <2>4. SlotsGoOn(c)
    BY <1>1, <2>1, SlotsFreed
  <2>5. requested \subseteq requested'
    BY <1>1
  <2> QED  BY <1>1, <2>2, <2>3, <2>4, <2>5, RowsKept, JournalKept, CrawlStepKeeps
<1> QED  BY <1>2, <1>3

--------------------------------------------------------------------------------------
(* A crawl.                                                                              *)

\* A worker goes on with its crawl.
LEMMA WorkerGoesOn ==
    ASSUME CrawlInv, NEW w \in Workers, ~At(w, "idle"), NEW row \in ActorRow,
           actor' = [actor EXCEPT ![w] = row], row.task = actor[w].task,
           row.pc \in {"begin", "fetching", "locking", "finishing", "committing"},
           row.pc \in {"begin", "fetching", "finishing"} => row.document = None,
           row.pc = "locking" => row.document \in Documents,
           row.pc \in {"begin", "fetching"} /\ ~outage' =>
             row.source \in Sources /\ slot'[row.source] = w,
           row.pc = "committing" =>
             \A j \in Jobs, g \in 0 .. MaxGeneration :
               row.task = Crawl(j, g) /\ Crawl(j, g) \in requested => Settled(j, g)',
           requested \subseteq requested'
    PROVE  OthersStay(w) /\ GoodActor(w)'
<1>1. w \in Actors
  BY DEF Actors
<1>2. OthersStay(w) /\ actor'[w] = row
  BY <1>1, ActorMoves
<1>3. PICK j \in Jobs, g \in 0 .. MaxGeneration :
        actor[w].task = Crawl(j, g) /\ Crawl(j, g) \in requested
  BY <1>1 DEF CrawlInv, GoodActor
<1>4. \E i \in Jobs, h \in 0 .. MaxGeneration :
        /\ actor'[w].task = Crawl(i, h) /\ Crawl(i, h) \in requested'
        /\ At(w, "committing")' => Settled(i, h)'
  BY <1>2, <1>3 DEF At
<1> QED  BY <1>2, <1>4 DEF GoodActor, At, Visiting

LEMMA StartCrawlKeeps ==
    ASSUME CrawlInv, NEW w \in Workers, NEW t \in CrawlTasks, StartCrawl(w, t)
    PROVE  CrawlInv'
<1> DEFINE row == [Idle EXCEPT !.pc = "admit", !.task = t]
<1>1. /\ w \in Actors /\ t \in requested
      /\ UNCHANGED <<job, document, slot, outage, indexed, requested, done>>
      /\ actor' = [actor EXCEPT ![w] = row]
  BY DEF Actors, StartCrawl, Delivery!Take, infoVars
<1>2. PICK j \in Jobs, g \in 0 .. MaxGeneration : t = Crawl(j, g)
  BY TasksDiffer DEF StartCrawl, CrawlTasks
<1>3. row \in ActorRow /\ row.pc = "admit" /\ row.task = t /\ row.document = None
  BY DEF Idle, ActorRow, Pcs
<1> HIDE DEF row
<1>4. OthersStay(w) /\ actor'[w] = row
  BY <1>1, <1>3, ActorMoves
<1>5. GoodActor(w)'
  <2>1. \E i \in Jobs, h \in 0 .. MaxGeneration :
          actor'[w].task = Crawl(i, h) /\ Crawl(i, h) \in requested'
    BY <1>1, <1>2, <1>3, <1>4
  <2> QED  BY <1>3, <1>4, <2>1 DEF GoodActor, At, Visiting
<1>6. requested \subseteq requested'
  BY <1>1
<1> QED  BY <1>1, <1>4, <1>5, <1>6, RowsKept, SlotsKept, JobsKept, JournalKept, CrawlStepKeeps

LEMMA AdmitCrawlKeeps ==
    ASSUME CrawlInv, NEW w \in Workers, AdmitCrawl(w)
    PROVE  CrawlInv'
<1> DEFINE j == JobOf(w)
           s == SourceOf[j]
<1>1. /\ w \in Actors /\ At(w, "admit") /\ ~At(w, "idle") /\ actor[w] \in ActorRow
      /\ actor[w].document = None
      /\ UNCHANGED <<job, document, outage, indexed, requested, done>>
      /\ requested \subseteq requested'
  BY DEF Actors, AdmitCrawl, At, deliveryVars, CrawlInv, CrawlTypeInv, GoodActor
<1>2. /\ j \in Jobs
      /\ \A i \in Jobs, g \in 0 .. MaxGeneration : actor[w].task = Crawl(i, g) => i = j
  <2>1. \E i \in Jobs, g \in 0 .. MaxGeneration : actor[w].task = Crawl(i, g)
    BY <1>1 DEF CrawlInv, GoodActor
  <2> QED  BY <2>1, TasksDiffer DEF JobOf
<1>3. OthersStay(w) /\ GoodActor(w)' /\ SlotsGoOn(w)
  <2>1. CASE /\ job[j].status \in {"succeeded", "failed"}
             /\ actor' = [actor EXCEPT ![w].pc = "committing"]
             /\ UNCHANGED slot
    <3> DEFINE row == [actor[w] EXCEPT !.pc = "committing"]
    <3>1. /\ row \in ActorRow /\ row.pc = "committing" /\ row.task = actor[w].task
          /\ actor' = [actor EXCEPT ![w] = row]
      BY <1>1, <2>1 DEF ActorRow, Pcs, CrawlInv, CrawlTypeInv
    <3> HIDE DEF row
    <3>2. \A i \in Jobs, g \in 0 .. MaxGeneration : row.task = Crawl(i, g) => Settled(i, g)'
      BY <1>1, <1>2, <2>1, <3>1 DEF Settled
    <3> QED  BY <1>1, <2>1, <3>1, <3>2, SlotsKept, WorkerGoesOn
  <2>2. CASE /\ slot[s] = None
             /\ slot' = [slot EXCEPT ![s] = w]
             /\ actor' = [actor EXCEPT ![w].pc = "begin", ![w].source = s]
    <3> DEFINE row == [actor[w] EXCEPT !.pc = "begin", !.source = s]
    <3>1. s \in Sources
      BY <1>2, SourcesAssumption
    <3> HIDE DEF s
    <3>2. /\ row \in ActorRow /\ row.pc = "begin" /\ row.task = actor[w].task
          /\ row.document = None /\ row.source = s
          /\ actor' = [actor EXCEPT ![w] = row]
      BY <1>1, <2>2, <3>1 DEF ActorRow, Pcs, CrawlInv, CrawlTypeInv
    <3> HIDE DEF row
    <3>3. SlotsGoOn(w) /\ slot'[s] = w
      BY <1>1, <2>2, <3>1, NoneAssumption DEF SlotsGoOn, CrawlInv, CrawlTypeInv, Actors
    <3> QED  BY <1>1, <3>1, <3>2, <3>3, WorkerGoesOn
  <2>3. CASE actor' = [actor EXCEPT ![w] = Idle] /\ UNCHANGED slot
    BY <1>1, <2>3, IdleActor, ActorMoves, SlotsKept
  <2> QED  BY <2>1, <2>2, <2>3 DEF AdmitCrawl
<1> QED  BY <1>1, <1>3, RowsKept, JobsKept, JournalKept, CrawlStepKeeps

LEMMA BeginCrawlKeeps ==
    ASSUME CrawlInv, NEW w \in Workers, BeginCrawl(w)
    PROVE  CrawlInv'
<1> DEFINE j == JobOf(w)
<1>1. /\ w \in Actors /\ At(w, "begin") /\ ~At(w, "idle") /\ actor[w] \in ActorRow
      /\ actor[w].document = None
      /\ UNCHANGED <<document, outage, indexed, requested, done>>
      /\ requested \subseteq requested'
  BY DEF Actors, BeginCrawl, At, deliveryVars, CrawlInv, CrawlTypeInv, GoodActor
<1>2. /\ j \in Jobs
      /\ \A i \in Jobs, g \in 0 .. MaxGeneration : actor[w].task = Crawl(i, g) => i = j
  <2>1. \E i \in Jobs, g \in 0 .. MaxGeneration : actor[w].task = Crawl(i, g)
    BY <1>1 DEF CrawlInv, GoodActor
  <2> QED  BY <2>1, TasksDiffer DEF JobOf
<1>3. OthersStay(w) /\ GoodActor(w)' /\ SlotsGoOn(w) /\ JobsGoOn
  <2>1. CASE /\ job[j].status \in {"succeeded", "failed"}
             /\ actor' = [actor EXCEPT ![w].pc = "committing"]
             /\ slot' = SlotsFreedBy(w)
             /\ UNCHANGED job
    <3> DEFINE row == [actor[w] EXCEPT !.pc = "committing"]
    <3>1. /\ row \in ActorRow /\ row.pc = "committing" /\ row.task = actor[w].task
          /\ actor' = [actor EXCEPT ![w] = row]
      BY <1>1, <2>1 DEF ActorRow, Pcs, CrawlInv, CrawlTypeInv
    <3> HIDE DEF row
    <3>2. \A i \in Jobs, g \in 0 .. MaxGeneration : row.task = Crawl(i, g) => Settled(i, g)'
      BY <1>1, <1>2, <2>1, <3>1 DEF Settled
    <3> QED  BY <1>1, <2>1, <3>1, <3>2, SlotsFreed, JobsKept, WorkerGoesOn
  <2>2. CASE /\ job[j].status \notin {"succeeded", "failed"}
             /\ job' = [job EXCEPT ![j].status = "running"]
             /\ actor' = [actor EXCEPT ![w].pc = "fetching"]
             /\ UNCHANGED slot
    <3> DEFINE row == [actor[w] EXCEPT !.pc = "fetching"]
    <3>1. /\ row \in ActorRow /\ row.pc = "fetching" /\ row.task = actor[w].task
          /\ row.document = None /\ row.source = actor[w].source
          /\ actor' = [actor EXCEPT ![w] = row]
      BY <1>1, <2>2 DEF ActorRow, Pcs, CrawlInv, CrawlTypeInv
    <3> HIDE DEF row
    <3>2. ~outage' => actor[w].source \in Sources /\ slot'[actor[w].source] = w
      BY <1>1, <2>2 DEF CrawlInv, GoodActor, At, Visiting
    <3>3. JobsGoOn
      <4>1. \A i \in Jobs : job[i] \in JobRow /\ job[i].generation \in Nat
        BY DEF CrawlInv, CrawlTypeInv, JobRow
      <4> HIDE DEF j
      <4>2. /\ job' \in [Jobs -> JobRow] /\ job'[j].generation = job[j].generation
            /\ \A i \in Jobs \ {j} : job'[i] = job[i]
        BY <1>2, <2>2, <4>1 DEF CrawlInv, CrawlTypeInv, JobRow
      <4>3. \A i \in Jobs : job[i].generation <= job'[i].generation
        BY <1>2, <4>1, <4>2
      <4>4. \A i \in Jobs, g \in Nat : Settled(i, g) => Settled(i, g)'
        BY <1>2, <2>2, <4>2 DEF Settled
      <4> QED  BY <4>2, <4>3, <4>4 DEF JobsGoOn
    <3> QED  BY <1>1, <2>2, <3>1, <3>2, <3>3, SlotsKept, WorkerGoesOn
  <2> QED  BY <2>1, <2>2 DEF BeginCrawl
<1> QED  BY <1>1, <1>3, RowsKept, JournalKept, CrawlStepKeeps

LEMMA FetchKeeps ==
    ASSUME CrawlInv, NEW w \in Workers, Fetch(w)
    PROVE  CrawlInv'
<1>1. /\ w \in Actors /\ ~At(w, "idle") /\ actor[w] \in ActorRow
      /\ actor[w].document = None
      /\ UNCHANGED <<job, document, slot, outage, indexed, requested, done>>
      /\ requested \subseteq requested'
  BY DEF Actors, Fetch, At, infoVars, deliveryVars, CrawlInv, CrawlTypeInv, GoodActor
<1>2. OthersStay(w) /\ GoodActor(w)'
  <2>1. ASSUME NEW d \in Documents, NEW x \in Texts \cup {None},
               actor' = [actor EXCEPT ![w] =
                 [@ EXCEPT !.pc = "locking", !.document = d, !.text = x]]
        PROVE  OthersStay(w) /\ GoodActor(w)'
    <3> DEFINE row == [actor[w] EXCEPT !.pc = "locking", !.document = d, !.text = x]
    <3>1. /\ row \in ActorRow /\ row.pc = "locking" /\ row.task = actor[w].task
          /\ row.document = d
          /\ actor' = [actor EXCEPT ![w] = row]
      BY <1>1, <2>1 DEF ActorRow, Pcs, CrawlInv, CrawlTypeInv
    <3> HIDE DEF row
    <3> QED  BY <1>1, <3>1, WorkerGoesOn
  <2>2. CASE actor' = [actor EXCEPT ![w].pc = "finishing"]
    <3> DEFINE row == [actor[w] EXCEPT !.pc = "finishing"]
    <3>1. /\ row \in ActorRow /\ row.pc = "finishing" /\ row.task = actor[w].task
          /\ row.document = None
          /\ actor' = [actor EXCEPT ![w] = row]
      BY <1>1, <2>2 DEF ActorRow, Pcs, CrawlInv, CrawlTypeInv
    <3> HIDE DEF row
    <3> QED  BY <1>1, <3>1, WorkerGoesOn
  <2> QED  BY <2>1, <2>2 DEF Fetch
<1> QED  BY <1>1, <1>2, RowsKept, SlotsKept, JobsKept, JournalKept, CrawlStepKeeps

\* A crawl, an upload or a review has the row of its document locked.
LEMMA LockDocumentKeeps ==
    ASSUME CrawlInv, NEW a \in Actors, LockDocument(a)
    PROVE  CrawlInv'
<1>0. PICK d : d = actor[a].document
  OBVIOUS
<1> DEFINE n == Len(document[d].versions) + 1
           locked == [document[d] EXCEPT !.locked = a]
           r1 == [actor[a] EXCEPT !.pc = "finishing"]
           r2 == [r1 EXCEPT !.number = n]
           row == [r2 EXCEPT !.reviews = document[d].reviews]
<1>1. /\ At(a, "locking") /\ document[d].locked = None
      /\ document' = [document EXCEPT ![d] = locked]
      /\ actor' = [actor EXCEPT ![a] = row]
      /\ UNCHANGED <<job, slot, outage, indexed, requested, done>>
      /\ requested \subseteq requested'
  BY <1>0 DEF LockDocument, deliveryVars
<1>2. /\ d \in Documents /\ document[d] \in Document /\ GoodDocument(d)
      /\ actor[a] \in ActorRow /\ GoodActor(a)
  BY <1>0, <1>1 DEF CrawlInv, CrawlTypeInv, GoodActor
<1>3. /\ locked \in Document /\ locked.versions = document[d].versions
      /\ locked.current = document[d].current /\ locked.reviews = document[d].reviews
      /\ locked.locked = a
  BY <1>2 DEF Document
<1>4. n \in Nat /\ document[d].reviews \in SUBSET Clients
  BY <1>2, LenProperties DEF Document
<1>5. RowsGoOn(a) /\ document'[d] = locked
  <2>1. \A i \in DOMAIN locked.versions :
          locked.versions[i].number = i /\ Index(d, i) \in requested'
    BY <1>1, <1>2, <1>3 DEF GoodDocument
  <2>2. locked.current = Len(locked.versions)
    BY <1>2, <1>3 DEF GoodDocument
  <2> HIDE DEF locked
  <2>3. RowsGoOn(a)
    BY <1>1, <1>2, <1>3, <2>1, <2>2, RowWritten
  <2>4. document'[d] = locked
    BY <1>1, <1>2 DEF CrawlInv, CrawlTypeInv
  <2> QED  BY <2>3, <2>4
<1> HIDE DEF locked, n
<1>6. /\ row \in ActorRow /\ row.pc = "finishing" /\ row.task = actor[a].task
      /\ row.document = d /\ row.number = n /\ row.reviews = document[d].reviews
  <2>1. r1 \in ActorRow /\ r1.pc = "finishing" /\ r1.task = actor[a].task /\ r1.document = d
    BY <1>0, <1>2 DEF ActorRow, Pcs
  <2> HIDE DEF r1
  <2>2. r2 \in ActorRow /\ r2.pc = "finishing" /\ r2.task = actor[a].task
        /\ r2.document = d /\ r2.number = n
    BY <1>4, <2>1 DEF ActorRow
  <2> HIDE DEF r2
  <2> QED  BY <1>4, <2>2 DEF ActorRow
<1> HIDE DEF row
<1>7. OthersStay(a) /\ actor'[a] = row
  BY <1>1, <1>6, ActorMoves
<1>8. GoodActor(a)'
  <2>1. a \in Workers => \E j \in Jobs, g \in 0 .. MaxGeneration :
                            actor'[a].task = Crawl(j, g) /\ Crawl(j, g) \in requested'
    BY <1>1, <1>2, <1>6, <1>7 DEF GoodActor, At
  <2>2. UpToDate(a, d)'
    BY <1>2, <1>3, <1>5, <1>6, <1>7 DEF UpToDate
  <2>3. actor'[a].number = Len(document'[d].versions) + 1
    BY <1>3, <1>5, <1>6, <1>7 DEF n
  <2>4. actor'[a].document = d
    BY <1>6, <1>7
  <2> QED  BY <1>6, <1>7, <2>1, <2>2, <2>3, <2>4 DEF GoodActor, At, Visiting
<1> QED  BY <1>1, <1>5, <1>7, <1>8, SlotsKept, JobsKept, JournalKept, CrawlStepKeeps

\* A crawl ends: the row of the document, if there is one, is the matter of its callers.
LEMMA EndCrawlKeeps ==
    ASSUME CrawlInv, NEW w \in Workers, NEW status \in {"succeeded", "failed"},
           NEW docs, NEW tasks, EndCrawl(w, status, docs, tasks),
           RowsGoOn(w), \A j, g : Crawl(j, g) \notin tasks
    PROVE  CrawlInv'
<1> DEFINE row == [Idle EXCEPT !.pc = "committing", !.task = actor[w].task]
<1>1. /\ w \in Actors /\ At(w, "finishing")
      /\ job' = [job EXCEPT ![JobOf(w)].status = status]
      /\ slot' = SlotsFreedBy(w)
      /\ requested' = requested \cup tasks /\ requested \subseteq requested'
      /\ UNCHANGED <<outage, indexed, done>>
      /\ actor' = [actor EXCEPT ![w] = row]
  BY DEF Actors, EndCrawl, Delivery!Request
<1>2. PICK j \in Jobs, g \in 0 .. MaxGeneration :
        actor[w].task = Crawl(j, g) /\ Crawl(j, g) \in requested
  BY <1>1 DEF CrawlInv, GoodActor, At
<1>3. JobOf(w) = j
  BY <1>2, TasksDiffer DEF JobOf
<1>4. \A i \in Jobs : job[i] \in JobRow /\ job[i].generation \in Nat
  BY DEF CrawlInv, CrawlTypeInv, JobRow
<1>5. /\ job' \in [Jobs -> JobRow] /\ job'[j].generation = job[j].generation
      /\ job'[j].status = status
      /\ \A i \in Jobs \ {j} : job'[i] = job[i]
  BY <1>1, <1>3, <1>4 DEF CrawlInv, CrawlTypeInv, JobRow
<1>6. JobsGoOn
  <2>1. \A i \in Jobs : job[i].generation <= job'[i].generation
    BY <1>4, <1>5
  <2>2. \A i \in Jobs, h \in Nat : Settled(i, h) => Settled(i, h)'
    BY <1>5 DEF Settled
  <2> QED  BY <1>5, <2>1, <2>2 DEF JobsGoOn
<1>7. JournalGoesOn
  BY <1>1 DEF JournalGoesOn
<1>8. OthersStay(w) /\ GoodActor(w)'
  <2>1. /\ row \in ActorRow /\ row.pc = "committing" /\ row.task = Crawl(j, g)
    BY <1>1, <1>2 DEF Idle, ActorRow, Pcs, CrawlInv, CrawlTypeInv
  <2> HIDE DEF row
  <2>2. OthersStay(w) /\ actor'[w] = row
    BY <1>1, <2>1, ActorMoves
  <2>3. Settled(j, g)'
    BY <1>5 DEF Settled
  <2> QED  BY <1>1, <1>2, <2>1, <2>2, <2>3 DEF GoodActor, At, Visiting
<1>9. SlotsGoOn(w)
  BY <1>1, SlotsFreed
<1> QED  BY <1>1, <1>6, <1>7, <1>8, <1>9, CrawlStepKeeps

LEMMA EndUnchangedKeeps ==
    ASSUME CrawlInv, NEW w \in Workers, EndUnchanged(w)
    PROVE  CrawlInv'
<1> DEFINE d == actor[w].document
           row == [document[d] EXCEPT !.reviews = actor[w].reviews]
<1>1. /\ w \in Actors /\ d # None /\ At(w, "finishing")
      /\ EndCrawl(w, "succeeded", [document EXCEPT ![d].reviews = actor[w].reviews], {})
      /\ requested \subseteq requested'
      /\ document' = RowsFreedBy(w, [document EXCEPT ![d] = row])
  BY DEF Actors, EndUnchanged, EndCrawl, Delivery!Request
<1>2. UpToDate(w, d)
  BY <1>1 DEF CrawlInv, GoodActor
<1>3. /\ d \in Documents /\ document[d] \in Document /\ GoodDocument(d)
      /\ document[d].locked = w /\ actor[w].reviews \in SUBSET Clients
  BY <1>1, <1>2 DEF CrawlInv, CrawlTypeInv, UpToDate, ActorRow
<1>4. /\ row \in Document /\ row.versions = document[d].versions
      /\ row.current = document[d].current
  BY <1>3 DEF Document
<1>5. /\ \A i \in DOMAIN row.versions :
           row.versions[i].number = i /\ Index(d, i) \in requested'
      /\ row.current = Len(row.versions)
  BY <1>1, <1>3, <1>4 DEF GoodDocument
<1> HIDE DEF row, d
<1>6. RowsGoOn(w)
  BY <1>1, <1>3, <1>4, <1>5, RowWritten
<1> QED  BY <1>1, <1>6, EndCrawlKeeps

LEMMA EndWithDocumentKeeps ==
    ASSUME CrawlInv, NEW w \in Workers, EndWithVersion(w) \/ EndWithFailure(w)
    PROVE  CrawlInv'
<1> DEFINE d == actor[w].document
           n == actor[w].number
<1>1. /\ w \in Actors /\ d # None /\ At(w, "finishing") /\ actor[w].text \in Texts \cup {None}
      /\ \E status \in {"succeeded", "failed"}, x \in Texts \cup {None} :
           EndCrawl(w, status, WithVersion(w, x), {Index(d, n)})
  BY DEF Actors, EndWithVersion, EndWithFailure, EndCrawl, CrawlInv, CrawlTypeInv, ActorRow
<1>2. UpToDate(w, d) /\ n = Len(document[d].versions) + 1
  BY <1>1 DEF CrawlInv, GoodActor
<1>3. PICK status \in {"succeeded", "failed"}, x \in Texts \cup {None} :
        EndCrawl(w, status, WithVersion(w, x), {Index(d, n)})
  BY <1>1
<1>4. /\ document' = RowsFreedBy(w, WithVersion(w, x))
      /\ requested' = requested \cup {Index(d, n)}
  BY <1>3 DEF EndCrawl, Delivery!Request
<1>5. RowsGoOn(w)
  BY <1>1, <1>2, <1>4, VersionAdded
<1>6. \A j, g : Crawl(j, g) \notin {Index(d, n)}
  BY TasksDiffer
<1> QED  BY <1>3, <1>5, <1>6, EndCrawlKeeps

LEMMA EndWithoutDocumentKeeps ==
    ASSUME CrawlInv, NEW w \in Workers, EndWithoutDocument(w)
    PROVE  CrawlInv'
<1>1. /\ w \in Actors /\ EndCrawl(w, "failed", document, {})
      /\ document' = RowsFreedBy(w, document) /\ requested \subseteq requested'
  BY DEF Actors, EndWithoutDocument, EndCrawl, Delivery!Request
<1>2. RowsGoOn(w)
  BY <1>1, NothingWritten
<1> QED  BY <1>1, <1>2, EndCrawlKeeps

LEMMA CommitTaskKeeps ==
    ASSUME CrawlInv, NEW w \in Workers, CommitTask(w)
    PROVE  CrawlInv'
<1> DEFINE t == actor[w].task
<1>1. /\ w \in Actors /\ At(w, "committing") /\ ~At(w, "idle")
      /\ UNCHANGED <<job, document, slot, outage, indexed>>
      /\ actor' = [actor EXCEPT ![w] = Idle]
      /\ requested' = requested /\ done' \subseteq done \cup {t}
      /\ requested \subseteq requested'
  BY DEF Actors, CommitTask, At, infoVars, deliveryVars, Delivery!Commit
<1>2. OthersStay(w) /\ GoodActor(w)'
  BY <1>1, IdleActor, ActorMoves
<1>3. PICK j \in Jobs, g \in 0 .. MaxGeneration :
        t = Crawl(j, g) /\ Crawl(j, g) \in requested /\ Settled(j, g)
  BY <1>1 DEF CrawlInv, GoodActor
<1>4. JournalGoesOn
  BY <1>1, <1>3 DEF JournalGoesOn
<1> QED  BY <1>1, <1>2, <1>4, RowsKept, SlotsKept, JobsKept, CrawlStepKeeps

--------------------------------------------------------------------------------------
(* The index, uploads and reviews.                                                       *)

LEMMA IndexVersionKeeps ==
    ASSUME CrawlInv, NEW t \in CrawlTasks, IndexVersion(t)
    PROVE  CrawlInv'
<1>1. PICK d \in Documents, n \in Numbers : t = Index(d, n)
  BY TasksDiffer DEF IndexVersion, CrawlTasks
<1>2. /\ indexed' = (IF SearchEnabled THEN indexed \cup {<<d, n>>} ELSE indexed)
      /\ done' \subseteq done \cup {t}
      /\ UNCHANGED <<job, document, slot, outage, actor, requested>>
      /\ requested \subseteq requested'
  <2>1. t[2] = d /\ t[3] = n
    BY <1>1, TasksDiffer
  <2> QED  BY <2>1 DEF IndexVersion, Entry
<1>3. JournalGoesOn
  BY <1>1, <1>2 DEF JournalGoesOn
<1> QED  BY <1>2, <1>3, RowsKept, SlotsKept, JobsKept, NobodyMoves

LEMMA StartUploadKeeps ==
    ASSUME CrawlInv, NEW c \in Clients, StartUpload(c)
    PROVE  CrawlInv'
<1>1. /\ c \in Actors /\ c \notin Workers
      /\ UNCHANGED <<job, document, slot, outage, indexed, requested, done>>
      /\ requested \subseteq requested'
  BY ActorsAssumption DEF Actors, StartUpload, infoVars, deliveryVars
<1>2. PICK d \in Documents, x \in Texts :
        actor' = [actor EXCEPT ![c] =
          [Idle EXCEPT !.pc = "locking", !.document = d, !.text = x]]
  BY DEF StartUpload
<1> DEFINE row == [Idle EXCEPT !.pc = "locking", !.document = d, !.text = x]
<1>3. row \in ActorRow /\ row.pc = "locking" /\ row.document = d
  BY DEF Idle, ActorRow, Pcs
<1>4. actor' = [actor EXCEPT ![c] = row]
  BY <1>2
<1> HIDE DEF row
<1>5. OthersStay(c) /\ actor'[c] = row
  BY <1>1, <1>3, <1>4, ActorMoves
<1>6. GoodActor(c)'
  BY <1>1, <1>3, <1>5 DEF GoodActor, At, Visiting
<1> QED  BY <1>1, <1>5, <1>6, RowsKept, SlotsKept, JobsKept, JournalKept, CrawlStepKeeps

LEMMA FinishUploadKeeps ==
    ASSUME CrawlInv, NEW c \in Clients, FinishUpload(c)
    PROVE  CrawlInv'
<1> DEFINE d == actor[c].document
           n == actor[c].number
<1>1. /\ c \in Actors /\ c \notin Workers /\ At(c, "finishing")
      /\ actor[c].text \in Texts \cup {None}
      /\ UNCHANGED <<job, slot, outage, indexed, done>>
      /\ document' = RowsFreedBy(c, WithVersion(c, actor[c].text))
      /\ requested' = requested \cup {Index(d, n)}
      /\ actor' = [actor EXCEPT ![c] = Idle]
  BY ActorsAssumption DEF Actors, FinishUpload, Delivery!Request, CrawlInv, CrawlTypeInv, ActorRow
<1>2. UpToDate(c, d) /\ n = Len(document[d].versions) + 1
  BY <1>1 DEF CrawlInv, GoodActor
<1>3. RowsGoOn(c)
  BY <1>1, <1>2, VersionAdded
<1>4. OthersStay(c) /\ GoodActor(c)'
  BY <1>1, IdleActor, ActorMoves
<1>5. JournalGoesOn
  BY <1>1, TasksDiffer DEF JournalGoesOn
<1> QED  BY <1>1, <1>3, <1>4, <1>5, SlotsKept, JobsKept, CrawlStepKeeps

LEMMA StartReviewKeeps ==
    ASSUME CrawlInv, NEW c \in Clients, StartReview(c)
    PROVE  CrawlInv'
<1>1. /\ c \in Actors /\ c \notin Workers
      /\ UNCHANGED <<job, slot, outage, indexed, requested, done>>
      /\ requested \subseteq requested'
  BY ActorsAssumption DEF Actors, StartReview, deliveryVars
<1>2. PICK d \in Documents :
        /\ document[d].locked = None
        /\ document' = [document EXCEPT ![d].locked = c]
        /\ actor' = [actor EXCEPT ![c] =
             [Idle EXCEPT !.pc = "reviewing", !.document = d, !.reviews = document[d].reviews]]
  BY DEF StartReview
<1> DEFINE locked == [document[d] EXCEPT !.locked = c]
           row == [Idle EXCEPT !.pc = "reviewing", !.document = d,
                               !.reviews = document[d].reviews]
<1>3. document[d] \in Document /\ GoodDocument(d) /\ document[d].reviews \in SUBSET Clients
  BY DEF CrawlInv, CrawlTypeInv, Document
<1>4. /\ locked \in Document /\ locked.versions = document[d].versions
      /\ locked.current = document[d].current /\ locked.reviews = document[d].reviews
      /\ locked.locked = c
  BY <1>1, <1>3 DEF Document
<1>5. /\ \A i \in DOMAIN locked.versions :
           locked.versions[i].number = i /\ Index(d, i) \in requested'
      /\ locked.current = Len(locked.versions)
  BY <1>1, <1>3, <1>4 DEF GoodDocument
<1>6. document' = [document EXCEPT ![d] = locked] /\ actor' = [actor EXCEPT ![c] = row]
  BY <1>2
<1> HIDE DEF locked
<1>7. RowsGoOn(c) /\ document'[d] = locked
  <2>1. document'[d] = locked
    BY <1>6 DEF CrawlInv, CrawlTypeInv
  <2> QED  BY <1>1, <1>2, <1>4, <1>5, <1>6, <2>1, RowWritten
<1>8. /\ row \in ActorRow /\ row.pc = "reviewing" /\ row.document = d
      /\ row.reviews = document[d].reviews
  BY <1>3 DEF Idle, ActorRow, Pcs
<1> HIDE DEF row
<1>9. OthersStay(c) /\ actor'[c] = row
  BY <1>1, <1>6, <1>8, ActorMoves
<1>10. UpToDate(c, actor[c].document)'
  BY <1>4, <1>7, <1>8, <1>9 DEF UpToDate
<1>11. GoodActor(c)'
  BY <1>1, <1>8, <1>9, <1>10 DEF GoodActor, At, Visiting
<1> QED  BY <1>1, <1>7, <1>9, <1>11, SlotsKept, JobsKept, JournalKept, CrawlStepKeeps

LEMMA FinishReviewKeeps ==
    ASSUME CrawlInv, NEW c \in Clients, FinishReview(c)
    PROVE  CrawlInv'
<1> DEFINE d == actor[c].document
           row == Reviewed(document[d], actor[c].reviews, c)
<1>1. /\ c \in Actors /\ At(c, "reviewing")
      /\ UNCHANGED <<job, slot, outage, indexed, requested, done>>
      /\ requested \subseteq requested'
      /\ document' = RowsFreedBy(c, [document EXCEPT ![d] = row])
      /\ actor' = [actor EXCEPT ![c] = Idle]
  BY DEF Actors, FinishReview, deliveryVars
<1>2. UpToDate(c, d)
  BY <1>1 DEF CrawlInv, GoodActor
<1>3. /\ d \in Documents /\ document[d] \in Document /\ GoodDocument(d)
      /\ document[d].locked = c /\ actor[c].reviews \in SUBSET Clients
  BY <1>1, <1>2 DEF CrawlInv, CrawlTypeInv, UpToDate, ActorRow
<1>4. /\ row \in Document /\ row.versions = document[d].versions
      /\ row.current = document[d].current
  BY <1>3 DEF Document, Reviewed
<1>5. /\ \A i \in DOMAIN row.versions :
           row.versions[i].number = i /\ Index(d, i) \in requested'
      /\ row.current = Len(row.versions)
  BY <1>1, <1>3, <1>4 DEF GoodDocument
<1> HIDE DEF row, d
<1>6. RowsGoOn(c)
  BY <1>1, <1>3, <1>4, <1>5, RowWritten
<1>7. OthersStay(c) /\ GoodActor(c)'
  BY <1>1, IdleActor, ActorMoves
<1> QED  BY <1>1, <1>6, <1>7, SlotsKept, JobsKept, JournalKept, CrawlStepKeeps

--------------------------------------------------------------------------------------
(* Failures.                                                                             *)

LEMMA FailureKeeps ==
    ASSUME CrawlInv,
           \/ \E a \in Actors : Abandon(a)
           \/ \E s \in Sources : DropSlot(s)
           \/ LeaseEnds
    PROVE  CrawlInv'
<1>1. ASSUME NEW a \in Actors, Abandon(a)
      PROVE  CrawlInv'
  <2>1. /\ UNCHANGED <<job, outage, indexed, requested, done>>
        /\ requested \subseteq requested'
        /\ document' = RowsFreedBy(a, document) /\ slot' = SlotsFreedBy(a)
        /\ actor' = [actor EXCEPT ![a] = Idle]
    BY <1>1 DEF Abandon, deliveryVars
  <2>2. OthersStay(a) /\ GoodActor(a)'
    BY <2>1, IdleActor, ActorMoves
  <2> QED  BY <2>1, <2>2, NothingWritten, SlotsFreed, JobsKept, JournalKept, CrawlStepKeeps
<1>2. ASSUME NEW s \in Sources, DropSlot(s)
      PROVE  CrawlInv'
  <2>1. /\ UNCHANGED <<job, document, indexed, actor, requested, done>>
        /\ requested \subseteq requested'
        /\ slot' = [slot EXCEPT ![s] = None] /\ outage' = TRUE
    BY <1>2 DEF DropSlot, deliveryVars
  <2>2. SlotsGoOn(None)
    BY <2>1 DEF CrawlInv, CrawlTypeInv, SlotsGoOn
  <2> QED  BY <2>1, <2>2, RowsKept, JobsKept, JournalKept, NobodyMoves
<1>3. CASE LeaseEnds
  <2>1. /\ UNCHANGED <<job, document, slot, outage, indexed, actor, requested, done>>
        /\ requested \subseteq requested'
    BY <1>3 DEF LeaseEnds, infoVars, Delivery!GiveBack
  <2> QED  BY <2>1, RowsKept, SlotsKept, JobsKept, JournalKept, NobodyMoves
<1> QED  BY <1>1, <1>2, <1>3

--------------------------------------------------------------------------------------
(* The invariant.                                                                        *)

LEMMA InitCrawlInv == CrawlInit => CrawlInv
<1> SUFFICES ASSUME CrawlInit
             PROVE  CrawlInv
  OBVIOUS
<1>1. CrawlTypeInv
  <2>1. [versions |-> <<>>, current |-> 0, reviews |-> {}, locked |-> None] \in Document
    BY EmptySeq DEF Document
  <2>2. [status |-> "absent", generation |-> 0] \in JobRow
    BY DEF JobRow
  <2> QED  BY <2>1, <2>2, IdleActor DEF CrawlInit, CrawlTypeInv
<1>2. RequestedInv /\ DoneInv
  BY DEF CrawlInit, Delivery!Init, RequestedInv, DoneInv
<1>3. \A d \in Documents : GoodDocument(d)
  BY EmptySeq DEF CrawlInit, GoodDocument
<1>4. \A a \in Actors : GoodActor(a)
  BY DEF CrawlInit, Idle, GoodActor, At, Visiting
<1> QED  BY <1>1, <1>2, <1>3, <1>4 DEF CrawlInv

LEMMA CrawlInvStep == CrawlInv /\ [CrawlNext]_crawlVars => CrawlInv'
<1> SUFFICES ASSUME CrawlInv, [CrawlNext]_crawlVars
             PROVE  CrawlInv'
  OBVIOUS
<1>1. ASSUME NEW j \in Jobs, RequestJob(j) \/ \E enqueue \in BOOLEAN : CreateJob(j, enqueue)
      PROVE  CrawlInv'
  BY <1>1, RequestJobKeeps, CreateJobKeeps
<1>2. ASSUME NEW w \in Workers,
             (\E t \in CrawlTasks : StartCrawl(w, t)) \/ CrawlStep(w) \/ CommitTask(w)
      PROVE  CrawlInv'
  <2>1. w \in Actors
    BY DEF Actors
  <2>2. CASE CrawlStep(w)
    <3>1. CASE EndWithVersion(w) \/ EndWithFailure(w)
      BY <3>1, EndWithDocumentKeeps
    <3> QED  BY <2>1, <2>2, <3>1, AdmitCrawlKeeps, BeginCrawlKeeps, FetchKeeps, LockDocumentKeeps,
                EndUnchangedKeeps, EndWithoutDocumentKeeps DEF CrawlStep
  <2> QED  BY <1>2, <2>2, StartCrawlKeeps, CommitTaskKeeps
<1>3. ASSUME NEW t \in CrawlTasks, IndexVersion(t)
      PROVE  CrawlInv'
  BY <1>3, IndexVersionKeeps
<1>4. ASSUME NEW c \in Clients, ClientStep(c)
      PROVE  CrawlInv'
  <2>1. c \in Actors
    BY DEF Actors
  <2> QED  BY <1>4, <2>1, DiscoveryKeeps, StartUploadKeeps, LockDocumentKeeps, FinishUploadKeeps,
              StartReviewKeeps, FinishReviewKeeps DEF ClientStep
<1>5. CASE UNCHANGED crawlVars
  <2>1. /\ UNCHANGED <<job, document, slot, outage, indexed, actor, requested, done>>
        /\ requested \subseteq requested'
    BY <1>5 DEF crawlVars, infoVars, deliveryVars
  <2> QED  BY <2>1, RowsKept, SlotsKept, JobsKept, JournalKept, NobodyMoves
<1> QED  BY <1>1, <1>2, <1>3, <1>4, <1>5, FailureKeeps DEF CrawlNext

LEMMA CrawlInvariant == CrawlSpec => []CrawlInv
BY InitCrawlInv, CrawlInvStep, PTL DEF CrawlSpec

--------------------------------------------------------------------------------------
(* What a crawl promises.                                                                *)

\* The versions of a document have the numbers 1, 2, ... in the order of their commits and
\* the newest is current, however many crawls and uploads of it there are at a time: whoever
\* numbers a version has the row locked since it counted them (_next_version_no).
THEOREM VersionsNumbered == CrawlSpec => []NumberedInOrder
<1>1. CrawlInv => NumberedInOrder
  BY DEF CrawlInv, GoodDocument, NumberedInOrder
<1> QED  BY <1>1, CrawlInvariant, PTL

\* As long as the database has dropped no connection that holds a slot, no two executions
\* visit a source at a time: each of them is the holder of its slot (crawl_concurrency.py).
THEOREM SourcesVisitedByOne == CrawlSpec => []OneExecutionPerSource
<1>1. CrawlInv => OneExecutionPerSource
  BY DEF CrawlInv, GoodActor, OneExecutionPerSource
<1> QED  BY <1>1, CrawlInvariant, PTL

\* The task of a crawl is acknowledged only when the job has ended or has been requested
\* again: what a worker has seen ended before its last commit is still settled then, as a
\* redo raises the generation (request_crawl_job, process_crawl_job).
THEOREM AcknowledgedCrawlEnded == CrawlSpec => []AcknowledgedIsEnded
<1>1. CrawlInv => AcknowledgedIsEnded
  <2> SUFFICES ASSUME CrawlInv, NEW j \in Jobs, NEW g \in 0 .. MaxGeneration, Crawl(j, g) \in done
               PROVE  Settled(j, g)
    BY DEF AcknowledgedIsEnded, Settled
  <2>1. \A d \in Documents, n \in Numbers : Crawl(j, g) # Index(d, n)
    BY TasksDiffer
  <2>2. PICK i \in Jobs, h \in 0 .. MaxGeneration : Crawl(j, g) = Crawl(i, h) /\ Settled(i, h)
    BY <2>1 DEF CrawlInv, DoneInv
  <2> QED  BY <2>2, TasksDiffer
<1> QED  BY <1>1, CrawlInvariant, PTL

\* Each version, of an upload, a crawl or a failure, has a task to index it, and is in the
\* index when that is acknowledged (index_document_version).
THEOREM VersionsIndexed == CrawlSpec => []VersionsReachIndex
<1>1. CrawlInv => VersionsReachIndex
  <2> SUFFICES ASSUME CrawlInv, NEW d \in Documents, NEW i \in DOMAIN document[d].versions
               PROVE  /\ Index(d, i) \in requested
                      /\ SearchEnabled /\ Index(d, i) \in done => <<d, i>> \in indexed
    BY DEF VersionsReachIndex
  <2>1. \A j \in Jobs, g \in 0 .. MaxGeneration : Index(d, i) # Crawl(j, g)
    BY TasksDiffer
  <2>2. ASSUME Index(d, i) \in done
        PROVE  SearchEnabled => <<d, i>> \in indexed
    <3>1. PICK e \in Documents, n \in Numbers :
            Index(d, i) = Index(e, n) /\ (SearchEnabled => <<e, n>> \in indexed)
      BY <2>1, <2>2 DEF CrawlInv, DoneInv
    <3> QED  BY <3>1, TasksDiffer
  <2> QED  BY <2>2 DEF CrawlInv, GoodDocument
<1> QED  BY <1>1, CrawlInvariant, PTL

\* A row that keeps the reviews of its document, or adds to them, is committed or given back.
LEMMA ReviewsKept ==
    ASSUME CrawlTypeInv, NEW a, NEW e \in Documents, NEW row, NEW d \in Documents,
           row.reviews \in SUBSET Clients, document[e].reviews \subseteq row.reviews,
           [row EXCEPT !.locked = None].reviews = row.reviews,
           \/ document' = [document EXCEPT ![e] = row]
           \/ document' = RowsFreedBy(a, [document EXCEPT ![e] = row])
    PROVE  document[d].reviews \subseteq document'[d].reviews
<1> DEFINE docs == [document EXCEPT ![e] = row]
<1>1. /\ document[d] \in Document /\ document[d].reviews \in SUBSET Clients
      /\ docs[d] = IF d = e THEN row ELSE document[d]
  BY DEF CrawlTypeInv, Document
<1>2. document'[d] = docs[d] \/ document'[d] = [docs[d] EXCEPT !.locked = None]
  <2> HIDE DEF docs
  <2> QED  BY DEF RowsFreedBy, docs
<1>3. [document[d] EXCEPT !.locked = None].reviews = document[d].reviews
  BY <1>1 DEF Document
<1> HIDE DEF docs
<1>4. CASE d = e
  <2>1. document'[d].reviews = row.reviews
    BY <1>1, <1>2, <1>4
  <2> QED  BY <1>4, <2>1
<1>5. CASE d # e
  <2>1. document'[d].reviews = document[d].reviews
    BY <1>1, <1>2, <1>3, <1>5
  <2> QED  BY <1>1, <2>1
<1> QED  BY <1>4, <1>5

\* The reviews an author rewrites with the metadata are those the document has: it read
\* them with the row locked, so no review of the meantime is undone (_get_document_for_mutation).
THEOREM ReviewsNotUndone == CrawlSpec => ReviewsStay
<1>1. ASSUME CrawlInv, CrawlNext, NEW d \in Documents
      PROVE  document[d].reviews \subseteq document'[d].reviews
  <2>1. CrawlTypeInv /\ document \in [Documents -> Document]
    BY <1>1 DEF CrawlInv, CrawlTypeInv
  <2>2. \A e \in Documents : document[e] \in Document /\ document[e].reviews \in SUBSET Clients
    BY <2>1 DEF Document
  <2>3. ASSUME NEW a, document' = RowsFreedBy(a, document)
        PROVE  document[d].reviews \subseteq document'[d].reviews
    <3>1. document'[d].reviews = document[d].reviews
      BY <2>1, <2>3, RowsFreed
    <3> QED  BY <2>2, <3>1
  <2>4. ASSUME NEW a \in Actors, At(a, "finishing"), actor[a].document # None \/ a \in Clients
        PROVE  /\ actor[a].document \in Documents
               /\ actor[a].reviews = document[actor[a].document].reviews
    BY <1>1, <2>4, ActorsAssumption DEF CrawlInv, GoodActor, UpToDate
  <2>5. ASSUME NEW a \in Actors, LockDocument(a)
        PROVE  document[d].reviews \subseteq document'[d].reviews
    <3> DEFINE e == actor[a].document
               row == [document[e] EXCEPT !.locked = a]
    <3>1. e \in Documents /\ document' = [document EXCEPT ![e] = row]
      BY <1>1, <2>5 DEF CrawlInv, GoodActor, LockDocument
    <3>2. row.reviews = document[e].reviews /\ [row EXCEPT !.locked = None].reviews = row.reviews
      BY <2>2, <3>1 DEF Document
    <3> HIDE DEF row
    <3> QED  BY <2>1, <2>2, <3>1, <3>2, ReviewsKept
  <2>6. ASSUME NEW a \in Actors, NEW x, At(a, "finishing"),
               actor[a].document # None \/ a \in Clients,
               document' = RowsFreedBy(a, WithVersion(a, x))
        PROVE  document[d].reviews \subseteq document'[d].reviews
    <3> DEFINE e == actor[a].document
               row == Versioned(document[e], actor[a], x)
    <3>1. e \in Documents /\ actor[a].reviews = document[e].reviews
      BY <2>4, <2>6
    <3>2. document' = RowsFreedBy(a, [document EXCEPT ![e] = row])
      BY <2>6 DEF WithVersion
    <3>3. /\ row.reviews = actor[a].reviews
          /\ [row EXCEPT !.locked = None].reviews = row.reviews
      BY <2>2, <3>1 DEF Versioned, Document
    <3> HIDE DEF row, e
    <3>4. row.reviews \in SUBSET Clients /\ document[e].reviews \subseteq row.reviews
      BY <2>2, <3>1, <3>2, <3>3
    <3> QED  BY <2>1, <3>1, <3>2, <3>3, <3>4, ReviewsKept
  <2>7. ASSUME NEW w \in Workers, EndUnchanged(w)
        PROVE  document[d].reviews \subseteq document'[d].reviews
    <3> DEFINE e == actor[w].document
               row == [document[e] EXCEPT !.reviews = actor[w].reviews]
    <3>1. /\ w \in Actors /\ At(w, "finishing") /\ e # None
          /\ document' = RowsFreedBy(w, [document EXCEPT ![e] = row])
      BY <2>7 DEF Actors, EndUnchanged, EndCrawl
    <3>2. e \in Documents /\ actor[w].reviews = document[e].reviews
      BY <2>4, <3>1
    <3>3. row.reviews = actor[w].reviews /\ [row EXCEPT !.locked = None].reviews = row.reviews
      BY <2>2, <3>2 DEF Document
    <3> HIDE DEF row, e
    <3>4. row.reviews \in SUBSET Clients /\ document[e].reviews \subseteq row.reviews
      BY <2>2, <3>1, <3>2, <3>3
    <3> QED  BY <2>1, <3>1, <3>2, <3>3, <3>4, ReviewsKept
  <2>8. ASSUME NEW c \in Clients, StartReview(c)
        PROVE  document[d].reviews \subseteq document'[d].reviews
    <3>1. PICK e \in Documents : document' = [document EXCEPT ![e].locked = c]
      BY <2>8 DEF StartReview
    <3> DEFINE row == [document[e] EXCEPT !.locked = c]
    <3>2. row.reviews = document[e].reviews /\ [row EXCEPT !.locked = None].reviews = row.reviews
      BY <2>2, <3>1 DEF Document
    <3>3. document' = [document EXCEPT ![e] = row]
      BY <3>1
    <3> HIDE DEF row
    <3> QED  BY <2>1, <2>2, <3>2, <3>3, ReviewsKept
  <2>9. ASSUME NEW c \in Clients, FinishReview(c)
        PROVE  document[d].reviews \subseteq document'[d].reviews
    <3> DEFINE e == actor[c].document
               row == Reviewed(document[e], actor[c].reviews, c)
    <3>1. /\ c \in Actors /\ At(c, "reviewing")
          /\ document' = RowsFreedBy(c, [document EXCEPT ![e] = row])
      BY <2>9 DEF Actors, FinishReview
    <3>2. e \in Documents /\ actor[c].reviews = document[e].reviews
      BY <1>1, <3>1 DEF CrawlInv, GoodActor, UpToDate
    <3>3. /\ row.reviews = actor[c].reviews \cup {c}
          /\ [row EXCEPT !.locked = None].reviews = row.reviews
      BY <2>2, <3>2 DEF Document, Reviewed
    <3> HIDE DEF row, e
    <3>4. row.reviews \in SUBSET Clients /\ document[e].reviews \subseteq row.reviews
      BY <2>2, <3>1, <3>2, <3>3
    <3> QED  BY <2>1, <3>1, <3>2, <3>3, <3>4, ReviewsKept
  <2>10. CASE UNCHANGED document
    BY <2>2, <2>10
  <2>11. ASSUME NEW w \in Workers, CrawlStep(w)
         PROVE  document[d].reviews \subseteq document'[d].reviews
    <3>1. w \in Actors
      BY DEF Actors
    <3>2. CASE AdmitCrawl(w) \/ BeginCrawl(w) \/ Fetch(w)
      BY <2>10, <3>2 DEF AdmitCrawl, BeginCrawl, Fetch, infoVars
    <3>3. CASE EndWithVersion(w) \/ EndWithFailure(w)
      BY <2>6, <3>1, <3>3 DEF EndWithVersion, EndWithFailure, EndCrawl
    <3>4. CASE EndWithoutDocument(w)
      BY <2>3, <3>4 DEF EndWithoutDocument, EndCrawl
    <3> QED  BY <2>5, <2>7, <2>11, <3>1, <3>2, <3>3, <3>4 DEF CrawlStep
  <2>12. ASSUME NEW c \in Clients, ClientStep(c)
         PROVE  document[d].reviews \subseteq document'[d].reviews
    <3>1. c \in Actors
      BY DEF Actors
    <3>2. CASE (\E s \in Sources : StartDiscovery(c, s)) \/ FinishDiscovery(c) \/ StartUpload(c)
      BY <2>10, <3>2 DEF StartDiscovery, FinishDiscovery, StartUpload, infoVars
    <3>3. CASE FinishUpload(c)
      BY <2>6, <3>1, <3>3 DEF FinishUpload
    <3> QED  BY <2>5, <2>8, <2>9, <2>12, <3>1, <3>2, <3>3 DEF ClientStep
  <2>13. ASSUME NEW a \in Actors, Abandon(a)
         PROVE  document[d].reviews \subseteq document'[d].reviews
    BY <2>3, <2>13 DEF Abandon
  <2>14. CASE \E j \in Jobs : RequestJob(j) \/ \E enqueue \in BOOLEAN : CreateJob(j, enqueue)
    BY <2>10, <2>14 DEF RequestJob, CreateJob
  <2>15. CASE \E w \in Workers : (\E t \in CrawlTasks : StartCrawl(w, t)) \/ CommitTask(w)
    BY <2>10, <2>15 DEF StartCrawl, CommitTask, infoVars
  <2>16. CASE (\E t \in CrawlTasks : IndexVersion(t)) \/ (\E s \in Sources : DropSlot(s)) \/ LeaseEnds
    BY <2>10, <2>16 DEF IndexVersion, DropSlot, LeaseEnds, infoVars
  <2> QED
    BY <1>1, <2>11, <2>12, <2>13, <2>14, <2>15, <2>16 DEF CrawlNext
<1>2. CrawlInv /\ [CrawlNext]_crawlVars
        => [\A d \in Documents : document[d].reviews \subseteq document'[d].reviews]_crawlVars
  BY <1>1
<1> QED  BY <1>2, CrawlInvariant, PTL DEF CrawlSpec, ReviewsStay

========================================================================================
