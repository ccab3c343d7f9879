--------------------------- MODULE SecurityRequests_proofs ---------------------------
(* For any number of users, sessions, companies and requests: nobody exceeds the limit,  *)
(* a company has one open request, an outcome stays, and what is available was served.   *)
EXTENDS SecurityRequests, SecurityPipeline_proofs, FiniteSetTheorems

Row == [status : {"absent", "pending", "approved", "rejected", "withdrawn"},
        code : Codes \cup {None}, open : BOOLEAN, batch : Batches \cup {None},
        outcome : Final \cup {None}, active : SUBSET Actors]

Endings == UNION {[rs -> Final] : rs \in SUBSET Requests}

Session == [pc : {"idle", "submitting", "viewing"}, actor : Actors \cup {None},
            code : Codes \cup {None}, found : SUBSET Requests, ended : Endings]

RequestsTypeInv ==
    /\ request \in [Requests -> Row]
    /\ session \in [Sessions -> Session]

\* What a request of batch b needs to be available.
Served(b) ==
    /\ b \in Batches
    /\ \E v \in Passing : /\ dataset[v].batch = b
                          /\ Configured => v \in knowledge

\* A row by itself.
GoodRow(row) ==
    /\ row.open => /\ row.status \in {"pending", "approved"}
                   /\ row.outcome = None /\ row.code \in Codes
    /\ row.open /\ row.status = "pending" => row.active # {}
    /\ row.status = "withdrawn" => row.active = {}
    /\ row.status = "approved" => row.batch \in Batches
    /\ row.outcome = "available" => Served(row.batch)

RowInv == \A r \in Requests : GoodRow(request[r])

UniqueInv ==
    \A r, other \in OpenRequests : request[r].code = request[other].code => r = other

Mine(a) == {r \in OpenRequests : a \in request[r].active}

LimitInv == \A a \in Actors : Cardinality(Mine(a)) <= MaxOpen

Submitting(s) == session[s].pc = "submitting"

\* A submission is the only one of its actor, holds rows that are open and that no other
\* submission holds, and the room it has found stays: only it could use it up.
SubmittingInv ==
    \A s \in Sessions : Submitting(s) =>
      /\ session[s].actor \in Actors /\ session[s].code \in Codes
      /\ \A r \in Locks(s) : request[r].open
      /\ Cardinality(Mine(session[s].actor) \ DOMAIN session[s].ended) < MaxOpen
      /\ \A other \in Sessions \ {s} : Submitting(other) =>
           session[other].actor # session[s].actor /\ Locks(other) \cap Locks(s) = {}

\* The outcomes a session is going to record are still true, whoever records them first.
EndedInv ==
    \A s \in Sessions : session[s].pc # "idle" =>
      \A r \in DOMAIN session[s].ended :
        /\ request[r].status \notin {"absent", "pending"}
        /\ session[s].ended[r] = "available" => Served(request[r].batch)

RequestsInv ==
    RequestsTypeInv /\ RowInv /\ UniqueInv /\ LimitInv /\ SubmittingInv /\ EndedInv

\* What is registered has passed, and the knowledge service has it.
KnowledgeInv ==
    /\ \A v \in Versions : dataset[v].registered => v \in Passing \cap knowledge
    /\ \A w \in Workers, v \in Versions :
         handler[w].pc = "accepted" /\ handler[w].task = Register(v) => v \in knowledge

AllInv == PipelineInv /\ KnowledgeInv /\ RequestsInv

--------------------------------------------------------------------------------------
(* What the actions have in common: some sessions come to their end, and some rows move. *)

RowMoves(r) ==
    /\ GoodRow(request[r])'
    /\ request[r].status \notin {"absent", "pending"} =>
         /\ request'[r].status \notin {"absent", "pending"}
         /\ request'[r].batch = request[r].batch
    /\ request'[r].open =>
         IF request[r].open THEN request'[r].code = request[r].code
         ELSE \A other \in Requests \ {r} :
                request'[other].open => request'[other].code # request'[r].code

ServedStays == \A b \in Batches : Served(b) => Served(b)'

LEMMA RequestsFinite ==
    /\ IsFiniteSet(Requests)
    /\ \A rs \in SUBSET Requests : IsFiniteSet(rs) /\ Cardinality(rs) \in Nat
<1>1. IsFiniteSet(Requests)
  BY FS_Interval, MaxRequestsAssumption DEF Requests
<1> QED  BY <1>1, FS_Subset, FS_CardinalityType

LEMMA RowsChange ==
    ASSUME RequestsInv, ServedStays, NEW a, NEW touched,
           RequestsTypeInv',
           \A s \in Sessions : session'[s] = session[s] \/ session'[s] = NoSession,
           \A r \in Requests \ touched : request'[r] = request[r],
           \A r \in Requests \cap touched : RowMoves(r),
           a \in Actors => Cardinality(Mine(a)') <= MaxOpen,
           \A b \in Actors \ {a} : Mine(b)' \subseteq Mine(b),
           \A s \in Sessions : Submitting(s)' =>
             session[s].actor # a /\ Locks(s) \cap touched = {}
    PROVE  RequestsInv'
<1> USE DEF RequestsInv
<1>1. ASSUME NEW r \in Requests
      PROVE  GoodRow(request[r])'
  BY <1>1 DEF RowMoves, RowInv, GoodRow, ServedStays, Served
<1>2. UniqueInv'
  <2> SUFFICES ASSUME NEW r \in Requests, NEW other \in Requests, r # other,
                      request'[r].open, request'[other].open,
                      request'[r].code = request'[other].code
               PROVE  FALSE
    BY DEF UniqueInv, OpenRequests
  <2>1. ASSUME NEW q \in Requests, request'[q].open
        PROVE  \/ request[q].open /\ request'[q].code = request[q].code
               \/ \A o \in Requests \ {q} : request'[o].open => request'[o].code # request'[q].code
    BY <2>1 DEF RowMoves
  <2>2. request[r].open /\ request'[r].code = request[r].code
    BY <2>1
  <2>3. request[other].open /\ request'[other].code = request[other].code
    BY <2>1
  <2> QED  BY <2>2, <2>3 DEF UniqueInv, OpenRequests
<1>3. \A b \in Actors : Mine(b) \in SUBSET Requests /\ Mine(b)' \in SUBSET Requests
  BY DEF Mine, OpenRequests
<1>4. LimitInv'
  <2> SUFFICES ASSUME NEW b \in Actors, b # a
               PROVE  Cardinality(Mine(b)') <= MaxOpen
    BY DEF LimitInv
  <2>1. Cardinality(Mine(b)') <= Cardinality(Mine(b))
    BY <1>3, RequestsFinite, FS_Subset
  <2> QED  BY <1>3, <2>1, RequestsFinite, MaxOpenAssumption DEF LimitInv
<1>5. SubmittingInv'
  <2> SUFFICES ASSUME NEW s \in Sessions, Submitting(s)'
               PROVE
      /\ session'[s].actor \in Actors /\ session'[s].code \in Codes
      /\ \A r \in Locks(s)' : request'[r].open
      /\ Cardinality(Mine(session[s].actor)' \ DOMAIN session'[s].ended) < MaxOpen
      /\ \A other \in Sessions \ {s} : Submitting(other)' =>
           session'[other].actor # session'[s].actor /\ Locks(other)' \cap Locks(s)' = {}
    BY DEF SubmittingInv
  <2>1. \A q \in Sessions : Submitting(q)' =>
          session'[q] = session[q] /\ Submitting(q) /\ Locks(q)' = Locks(q)
    BY DEF Submitting, NoSession, Locks
  <2>2. Locks(s) \subseteq Requests
    <3>1. session[s] \in Session
      BY DEF RequestsTypeInv
    <3> QED  BY <3>1 DEF Locks, Session, Endings
  <2>3. \A r \in Locks(s)' : request'[r].open
    BY <2>1, <2>2 DEF SubmittingInv
  <2>4. Cardinality(Mine(session[s].actor)' \ DOMAIN session'[s].ended) < MaxOpen
    <3> DEFINE b == session[s].actor
               old == Mine(b) \ DOMAIN session[s].ended
               new == Mine(b)' \ DOMAIN session'[s].ended
    <3>1. b \in Actors \ {a} /\ Cardinality(old) < MaxOpen
      BY <2>1 DEF SubmittingInv
    <3>2. new \subseteq old /\ old \subseteq Requests
      BY <2>1, <1>3, <3>1
    <3> HIDE DEF b, old, new
    <3>3. Cardinality(new) <= Cardinality(old)
      BY <3>2, RequestsFinite, FS_Subset
    <3>4. new \subseteq Requests
      BY <3>2
    <3>5. Cardinality(new) < MaxOpen
      BY <3>1, <3>2, <3>3, <3>4, RequestsFinite, MaxOpenAssumption
    <3> QED  BY <3>5, <2>1 DEF new, b
  <2>5. \A other \in Sessions \ {s} : Submitting(other)' =>
          session[other].actor # session[s].actor /\ Locks(other) \cap Locks(s) = {}
    BY <2>1 DEF SubmittingInv
  <2>6. session'[s].actor \in Actors /\ session'[s].code \in Codes
    BY <2>1 DEF SubmittingInv
  <2> QED  BY <2>1, <2>3, <2>4, <2>5, <2>6
<1>6. EndedInv'
  <2> SUFFICES ASSUME NEW s \in Sessions, session'[s].pc # "idle",
                      NEW r \in DOMAIN session'[s].ended
               PROVE  /\ request'[r].status \notin {"absent", "pending"}
                      /\ session'[s].ended[r] = "available" => Served(request[r].batch)'
    BY DEF EndedInv
  <2>1. session'[s] = session[s]
    BY DEF NoSession
  <2>2. session[s] \in Session
    BY DEF RequestsTypeInv
  <2>3. r \in Requests
    BY <2>1, <2>2 DEF Session, Endings
  <2>4. /\ request[r].status \notin {"absent", "pending"}
        /\ session[s].ended[r] = "available" => Served(request[r].batch)
    BY <2>1 DEF EndedInv
  <2>5. /\ request'[r].status \notin {"absent", "pending"}
        /\ request'[r].batch = request[r].batch
    BY <2>3, <2>4 DEF RowMoves
  <2>6. Served(request[r].batch) => Served(request[r].batch)'
    BY <2>5 DEF ServedStays, Served
  <2> QED  BY <2>1, <2>4, <2>5, <2>6
<1> QED  BY <1>1, <1>2, <1>4, <1>5, <1>6 DEF RowInv

--------------------------------------------------------------------------------------
(* Rows and sessions.                                                                    *)

LEMMA EndingsHold ==
    /\ NoSession \in Session
    /\ \A f \in Endings : DOMAIN f \subseteq Requests /\ \A r \in DOMAIN f : f[r] \in Final
<1>1. <<>> \in Endings
  <2>1. <<>> \in [{} -> Final]
    OBVIOUS
  <2> QED  BY <2>1 DEF Endings
<1> QED  BY <1>1 DEF Endings, NoSession, Session

\* What a request's progress has come to when it ends.
LEMMA ProgressEnds ==
    ASSUME KnowledgeInv, NEW row \in Row, GoodRow(row)
    PROVE  /\ row.open /\ Progress(row) \in Final => row.status = "approved"
           /\ Progress(row) = "available" /\ row.open => Served(row.batch)
<1>1. ASSUME row.open, Progress(row) \in Final
      PROVE  row.status = "approved"
  BY <1>1 DEF Progress, DatasetOf, GoodRow, Final
<1>2. ASSUME Progress(row) = "available", row.open
      PROVE  Served(row.batch)
  <2> DEFINE built == {v \in Versions : dataset[v].batch = row.batch}
  <2>1. row.status = "approved" /\ row.batch \in Batches
    BY <1>1, <1>2 DEF Final, GoodRow
  <2>2. built \cap Passing # {} /\ (~Configured \/ \E v \in built : dataset[v].registered)
    BY <1>2, <2>1 DEF Progress, DatasetOf
  <2>3. CASE ~Configured
    BY <2>1, <2>2, <2>3 DEF Served
  <2>4. ASSUME NEW v \in built, dataset[v].registered
        PROVE  Served(row.batch)
    BY <2>1, <2>4 DEF Served, KnowledgeInv
  <2> QED  BY <2>2, <2>3, <2>4
<1> QED  BY <1>1, <1>2

LEMMA ClosedRow ==
    ASSUME NEW row \in Row, NEW o \in Final
    PROVE  /\ Closed(row, o) \in Row
           /\ ~Closed(row, o).open /\ Closed(row, o).outcome = o
           /\ Closed(row, o).status = row.status /\ Closed(row, o).code = row.code
           /\ Closed(row, o).batch = row.batch /\ Closed(row, o).active = row.active
<1> DEFINE shut == [row EXCEPT !.open = FALSE]
<1>1. /\ shut \in Row /\ ~shut.open /\ shut.status = row.status /\ shut.code = row.code
      /\ shut.batch = row.batch /\ shut.active = row.active
  BY Zenon DEF Row
<1>2. Closed(row, o) = [shut EXCEPT !.outcome = o]
  BY DEF Closed
<1> HIDE DEF shut
<1> QED  BY <1>1, <1>2, Zenon DEF Row

LEMMA DecisionRow ==
    ASSUME NEW row \in Row, NEW status \in {"approved", "rejected", "withdrawn"},
           NEW b \in Batches \cup {None}
    PROVE  /\ WithDecision(row, status, b) \in Row
           /\ WithDecision(row, status, b).status = status /\ WithDecision(row, status, b).batch = b
           /\ WithDecision(row, status, b).code = row.code
           /\ WithDecision(row, status, b).outcome = row.outcome
           /\ WithDecision(row, status, b).active = row.active
<1> DEFINE half == [row EXCEPT !.status = status]
<1>1. /\ half \in Row /\ half.status = status /\ half.code = row.code
      /\ half.outcome = row.outcome /\ half.active = row.active
  BY Zenon DEF Row
<1>2. WithDecision(row, status, b) = [half EXCEPT !.batch = b]
  BY DEF WithDecision
<1> HIDE DEF half
<1> QED  BY <1>1, <1>2, Zenon DEF Row

LEMMA OpenedRow ==
    ASSUME RequestsTypeInv, NEW r \in Requests, request[r] = NoRequest,
           NEW c \in Codes, NEW a \in Actors
    PROVE  /\ Opened(c, a) \in Row /\ Opened(c, a).status = "pending"
           /\ Opened(c, a).code = c /\ Opened(c, a).outcome = None
           /\ Opened(c, a).batch = None /\ Opened(c, a).active = {a}
<1> DEFINE r1 == [NoRequest EXCEPT !.status = "pending"]
           r2 == [r1 EXCEPT !.code = c]
           r3 == [r2 EXCEPT !.open = TRUE]
           r4 == [r3 EXCEPT !.active = {a}]
<1>1. NoRequest \in Row /\ NoRequest.outcome = None /\ NoRequest.batch = None
  BY Zenon DEF NoRequest, RequestsTypeInv
<1>2. r1 \in Row /\ r1.status = "pending" /\ r1.outcome = None /\ r1.batch = None
  BY <1>1, Zenon DEF Row
<1>3. r2 \in Row /\ r2.status = "pending" /\ r2.outcome = None /\ r2.batch = None /\ r2.code = c
  <2> HIDE DEF r1
  <2> QED  BY <1>2, Zenon DEF Row
<1>4. r3 \in Row /\ r3.status = "pending" /\ r3.outcome = None /\ r3.batch = None /\ r3.code = c
  <2> HIDE DEF r2
  <2> QED  BY <1>3, Zenon DEF Row
<1>5. /\ r4 \in Row /\ r4.status = "pending" /\ r4.outcome = None /\ r4.batch = None
      /\ r4.code = c /\ r4.active = {a}
  <2> HIDE DEF r3
  <2>1. {a} \subseteq Actors
    OBVIOUS
  <2> QED  BY <1>4, <2>1, Zenon DEF Row
<1>6. Opened(c, a) = r4
  BY DEF Opened
<1> HIDE DEF r4
<1> QED  BY <1>5, <1>6

LEMMA ViewedRow ==
    ASSUME KnowledgeInv, NEW row \in Row, GoodRow(row)
    PROVE  /\ Viewed(row) \in Row /\ GoodRow(Viewed(row))
           /\ Viewed(row).open => row.open
           /\ Viewed(row).status = row.status /\ Viewed(row).code = row.code
           /\ Viewed(row).batch = row.batch /\ Viewed(row).active = row.active
<1>1. CASE row.open /\ Progress(row) \in Final
  <2>1. Viewed(row) = Closed(row, Progress(row))
    BY <1>1 DEF Viewed
  <2> QED  BY <1>1, <2>1, ClosedRow, ProgressEnds DEF GoodRow
<1>2. CASE ~(row.open /\ Progress(row) \in Final)
  BY <1>2 DEF Viewed
<1> QED  BY <1>1, <1>2

\* The rows a session commits, before it adds to them.
LEMMA ClosedRows ==
    ASSUME RequestsInv, NEW s \in Sessions, session[s].pc # "idle"
    PROVE  /\ AfterClosing(s) \in [Requests -> Row]
           /\ DOMAIN session[s].ended \subseteq Requests
           /\ \A r \in Requests :
                /\ GoodRow(AfterClosing(s)[r])
                /\ AfterClosing(s)[r].status = request[r].status
                /\ AfterClosing(s)[r].code = request[r].code
                /\ AfterClosing(s)[r].batch = request[r].batch
                /\ AfterClosing(s)[r].active = request[r].active
                /\ IF r \in DOMAIN session[s].ended THEN ~AfterClosing(s)[r].open
                   ELSE AfterClosing(s)[r] = request[r]
<1> USE DEF RequestsInv
<1> DEFINE ended == session[s].ended
<1>1. ended \in Endings
  BY DEF RequestsTypeInv, Session
<1>2. ASSUME NEW r \in Requests
      PROVE  /\ AfterClosing(s)[r] \in Row
             /\ GoodRow(AfterClosing(s)[r])
             /\ AfterClosing(s)[r].status = request[r].status
             /\ AfterClosing(s)[r].code = request[r].code
             /\ AfterClosing(s)[r].batch = request[r].batch
             /\ AfterClosing(s)[r].active = request[r].active
             /\ IF r \in DOMAIN ended THEN ~AfterClosing(s)[r].open
                ELSE AfterClosing(s)[r] = request[r]
  <2>1. request[r] \in Row /\ GoodRow(request[r])
    BY DEF RequestsTypeInv, RowInv
  <2>2. CASE r \in DOMAIN ended
    <3>1. ended[r] \in Final /\ AfterClosing(s)[r] = Closed(request[r], ended[r])
      BY <1>1, <2>2, EndingsHold DEF AfterClosing
    <3>2. ended[r] = "available" => Served(request[r].batch)
      BY <2>2 DEF EndedInv
    <3> QED  BY <2>1, <2>2, <3>1, <3>2, ClosedRow DEF GoodRow
  <2>3. CASE r \notin DOMAIN ended
    BY <2>1, <2>3 DEF AfterClosing
  <2> QED  BY <2>2, <2>3
<1>3. AfterClosing(s) \in [Requests -> Row]
  <2>1. AfterClosing(s) = [r \in Requests |-> AfterClosing(s)[r]]
    BY DEF AfterClosing
  <2> QED  BY <1>2, <2>1
<1> QED  BY <1>1, <1>2, <1>3, EndingsHold

--------------------------------------------------------------------------------------
(* The steps of a session.                                                               *)

\* The session of s ends with its transaction, and no other one is concerned.
LEMMA SessionEnds ==
    ASSUME RequestsInv, NEW s \in Sessions,
           session' = [session EXCEPT ![s] = NoSession]
    PROVE  /\ session' \in [Sessions -> Session]
           /\ \A q \in Sessions : session'[q] = session[q] \/ session'[q] = NoSession
           /\ \A q \in Sessions : Submitting(q)' => q # s /\ Submitting(q)
BY EndingsHold DEF RequestsInv, RequestsTypeInv, Submitting, NoSession

\* A session that starts: it has read, and changes nothing yet.
LEMMA SessionStarts ==
    ASSUME RequestsInv, UNCHANGED <<request, dataset, knowledge>>,
           NEW s \in Sessions, NEW new \in Session,
           session' = [session EXCEPT ![s] = new],
           \A r \in DOMAIN new.ended :
             /\ request[r].status \notin {"absent", "pending"}
             /\ new.ended[r] = "available" => Served(request[r].batch),
           new.pc = "submitting" =>
             /\ new.actor \in Actors /\ new.code \in Codes
             /\ \A r \in new.found \cup DOMAIN new.ended : request[r].open /\ ~Locked(r)
             /\ Cardinality(Mine(new.actor) \ DOMAIN new.ended) < MaxOpen
             /\ \A other \in Sessions : Submitting(other) => session[other].actor # new.actor
    PROVE  RequestsInv'
<1> USE DEF RequestsInv
<1>1. /\ session' \in [Sessions -> Session]
      /\ session'[s] = new /\ \A q \in Sessions \ {s} : session'[q] = session[q]
  BY DEF RequestsTypeInv
<1>2. RequestsTypeInv' /\ UniqueInv' /\ LimitInv'
  BY <1>1 DEF RequestsTypeInv, UniqueInv, OpenRequests, LimitInv, Mine
<1>3. RowInv'
  BY DEF RowInv, GoodRow, Served
<1>4. EndedInv'
  BY <1>1 DEF EndedInv, Served
<1>5. SubmittingInv'
  <2>1. \A a \in Actors : Mine(a)' = Mine(a)
    BY DEF Mine, OpenRequests
  <2>2. \A q \in Sessions \ {s} : (Submitting(q)' <=> Submitting(q)) /\ Locks(q)' = Locks(q)
    BY <1>1 DEF Submitting, Locks
  <2>3. Submitting(s)' => new.pc = "submitting" /\ Locks(s)' = new.found \cup DOMAIN new.ended
    BY <1>1 DEF Submitting, Locks
  <2>4. ASSUME Submitting(s)', NEW q \in Sessions \ {s}, Submitting(q)
        PROVE  session[q].actor # new.actor /\ Locks(q) \cap Locks(s)' = {}
    BY <2>3, <2>4 DEF Locked, Submitting
  <2>5. ASSUME NEW q \in Sessions \ {s}, Submitting(q)'
        PROVE
      /\ session'[q].actor \in Actors /\ session'[q].code \in Codes
      /\ \A r \in Locks(q)' : request'[r].open
      /\ Cardinality(Mine(session[q].actor)' \ DOMAIN session'[q].ended) < MaxOpen
      /\ \A other \in Sessions \ {q} : Submitting(other)' =>
           session'[other].actor # session'[q].actor /\ Locks(other)' \cap Locks(q)' = {}
    <3>1. Submitting(q) /\ session'[q] = session[q] /\ Locks(q)' = Locks(q)
      BY <1>1, <2>2, <2>5
    <3>2. /\ session[q].actor \in Actors /\ session[q].code \in Codes
          /\ \A r \in Locks(q) : request[r].open
          /\ Cardinality(Mine(session[q].actor) \ DOMAIN session[q].ended) < MaxOpen
      BY <3>1 DEF SubmittingInv
    <3>3. Mine(session[q].actor)' = Mine(session[q].actor)
      BY <2>1, <3>1, <3>2
    <3>4. ASSUME NEW other \in Sessions \ {q}, Submitting(other)'
          PROVE  session'[other].actor # session'[q].actor /\ Locks(other)' \cap Locks(q)' = {}
      <4>1. CASE other = s
        BY <1>1, <2>4, <3>1, <3>4, <4>1
      <4>2. CASE other # s
        BY <1>1, <2>2, <3>1, <3>4, <4>2 DEF SubmittingInv
      <4> QED  BY <4>1, <4>2
    <3> QED  BY <3>1, <3>2, <3>3, <3>4
  <2>6. ASSUME Submitting(s)'
        PROVE
      /\ session'[s].actor \in Actors /\ session'[s].code \in Codes
      /\ \A r \in Locks(s)' : request'[r].open
      /\ Cardinality(Mine(session[s].actor)' \ DOMAIN session'[s].ended) < MaxOpen
      /\ \A other \in Sessions \ {s} : Submitting(other)' =>
           session'[other].actor # session'[s].actor /\ Locks(other)' \cap Locks(s)' = {}
    <3>1. /\ new.actor \in Actors /\ new.code \in Codes
          /\ \A r \in Locks(s)' : request'[r].open
          /\ Cardinality(Mine(new.actor) \ DOMAIN new.ended) < MaxOpen
      BY <2>3, <2>6
    <3>2. Mine(session[s].actor)' = Mine(new.actor)
      BY <1>1, <2>1, <3>1
    <3>3. \A other \in Sessions \ {s} : Submitting(other)' =>
           session'[other].actor # session'[s].actor /\ Locks(other)' \cap Locks(s)' = {}
      BY <1>1, <2>2, <2>4, <2>6
    <3> QED  BY <1>1, <3>1, <3>2, <3>3
  <2> QED  BY <2>5, <2>6 DEF SubmittingInv
<1> QED  BY <1>2, <1>3, <1>4, <1>5

LEMMA SubmitReadKeeps ==
    ASSUME RequestsInv, KnowledgeInv, NEW s \in Sessions, NEW a \in Actors, NEW c \in Codes,
           SubmitRead(s, a, c)
    PROVE  RequestsInv'
<1> DEFINE found == {r \in OpenRequests : request[r].code = c}
           ended == {r \in found \cup Mine(a) : Progress(request[r]) \in Final}
           endings == [r \in ended |-> Progress(request[r])]
           new == [pc |-> "submitting", actor |-> a, code |-> c, found |-> found \ ended,
                   ended |-> endings]
<1>1. /\ \A other \in Sessions : Submitting(other) => session[other].actor # a
      /\ \A r \in found \cup ended : ~Locked(r)
      /\ Cardinality(Mine(a) \ ended) < MaxOpen
      /\ session' = [session EXCEPT ![s] = new]
      /\ UNCHANGED <<request, dataset, knowledge>>
  BY DEF SubmitRead, Mine, Submitting, pipelineVars, securityVars
<1>2. \A r \in found \cup ended : r \in Requests /\ request[r].open
  BY DEF OpenRequests, Mine
<1>3. \A r \in ended :
        /\ request[r].status \notin {"absent", "pending"}
        /\ Progress(request[r]) = "available" => Served(request[r].batch)
  BY <1>2, ProgressEnds DEF RequestsInv, RequestsTypeInv, RowInv
<1>4. endings \in Endings /\ DOMAIN endings = ended
  <2>1. ended \in SUBSET Requests
    BY <1>2
  <2>2. endings \in [ended -> Final]
    OBVIOUS
  <2> HIDE DEF ended, endings
  <2> QED  BY <2>1, <2>2 DEF Endings
<1> HIDE DEF ended
<1>5. new \in Session
  BY <1>2, <1>4 DEF Session
<1>6. /\ new.pc = "submitting" /\ new.actor = a /\ new.code = c /\ new.found = found \ ended
      /\ new.ended = endings
  OBVIOUS
<1>7. \A r \in DOMAIN new.ended :
        /\ request[r].status \notin {"absent", "pending"}
        /\ new.ended[r] = "available" => Served(request[r].batch)
  BY <1>3
<1> HIDE DEF found, new
<1>8. /\ new.actor \in Actors /\ new.code \in Codes
      /\ \A r \in new.found \cup DOMAIN new.ended : request[r].open /\ ~Locked(r)
      /\ Cardinality(Mine(new.actor) \ DOMAIN new.ended) < MaxOpen
      /\ \A other \in Sessions : Submitting(other) => session[other].actor # new.actor
  BY <1>1, <1>2, <1>4, <1>6
<1> QED  BY <1>1, <1>5, <1>7, <1>8, SessionStarts

LEMMA ViewReadKeeps ==
    ASSUME RequestsInv, KnowledgeInv, NEW s \in Sessions, NEW r \in Requests, ViewRead(s, r)
    PROVE  RequestsInv'
<1> DEFINE endings == [i \in {r} |-> Progress(request[i])]
           new == [NoSession EXCEPT !.pc = "viewing", !.ended = endings]
<1>1. /\ request[r].open /\ Progress(request[r]) \in Final
      /\ session' = [session EXCEPT ![s] = new]
      /\ UNCHANGED <<request, dataset, knowledge>>
  BY DEF ViewRead, pipelineVars, securityVars
<1>2. endings \in Endings
  <2>1. endings \in [{r} -> Final]
    BY <1>1
  <2> QED  BY <2>1 DEF Endings
<1>3. DOMAIN endings = {r} /\ endings[r] = Progress(request[r])
  OBVIOUS
<1> HIDE DEF endings
<1>4. new \in Session /\ new.pc = "viewing" /\ new.ended = endings
  <2> DEFINE viewing == [NoSession EXCEPT !.pc = "viewing"]
  <2>1. viewing \in Session /\ viewing.pc = "viewing"
    BY EndingsHold, Zenon DEF Session
  <2>2. new = [viewing EXCEPT !.ended = endings]
    OBVIOUS
  <2> HIDE DEF viewing
  <2> QED  BY <1>2, <2>1, <2>2, Zenon DEF Session
<1>5. /\ request[r].status \notin {"absent", "pending"}
      /\ Progress(request[r]) = "available" => Served(request[r].batch)
  BY <1>1, ProgressEnds DEF RequestsInv, RequestsTypeInv, RowInv
<1> HIDE DEF new
<1> QED  BY <1>1, <1>3, <1>4, <1>5, SessionStarts

\* Rows that only close, or lose a requester, make no room smaller and no code open.
LEMMA MineShrinks ==
    ASSUME \A r \in Requests : request'[r].open =>
             request[r].open /\ request'[r].active \subseteq request[r].active
    PROVE  \A a \in Actors : Mine(a)' \subseteq Mine(a)
BY DEF Mine, OpenRequests

LEMMA AbortKeeps ==
    ASSUME RequestsInv, NEW s \in Sessions, SessionAborts(s)
    PROVE  RequestsInv'
<1>1. /\ session' = [session EXCEPT ![s] = NoSession] /\ UNCHANGED <<request, dataset, knowledge>>
  BY DEF SessionAborts, pipelineVars, securityVars
<1>2. ServedStays
  BY <1>1 DEF ServedStays, Served
<1>3. RequestsTypeInv'
  BY <1>1, SessionEnds DEF RequestsInv, RequestsTypeInv
<1>4. \A a \in Actors : Mine(a)' \subseteq Mine(a)
  BY <1>1 DEF Mine, OpenRequests
<1>5. \A q \in Sessions : Submitting(q)' => session[q].actor \in Actors
  BY <1>1, SessionEnds DEF RequestsInv, SubmittingInv
<1> QED
  <2>1. \A q \in Sessions : Submitting(q)' => session[q].actor # None /\ Locks(q) \cap {} = {}
    BY <1>5, ActorsAssumption
  <2> QED
    BY <1>1, <1>2, <1>3, <1>4, <2>1, SessionEnds, RowsChange, ActorsAssumption

LEMMA ViewCloseKeeps ==
    ASSUME RequestsInv, NEW s \in Sessions, ViewClose(s)
    PROVE  RequestsInv'
<1> DEFINE touched == DOMAIN session[s].ended
<1>1. /\ session' = [session EXCEPT ![s] = NoSession] /\ UNCHANGED <<dataset, knowledge>>
      /\ session[s].pc # "idle" /\ \A r \in touched : ~Locked(r)
      /\ request' = [r \in Requests |->
           IF request[r].open THEN AfterClosing(s)[r] ELSE request[r]]
  BY DEF ViewClose, pipelineVars, securityVars
<1>2. ServedStays
  BY <1>1 DEF ServedStays, Served
<1>3. RequestsTypeInv'
  <2>1. request' \in [Requests -> Row]
    BY <1>1, ClosedRows DEF RequestsInv, RequestsTypeInv
  <2> QED  BY <1>1, <2>1, SessionEnds DEF RequestsTypeInv
<1>4. \A r \in Requests \ touched : request'[r] = request[r]
  BY <1>1, ClosedRows
<1>5. ASSUME NEW r \in Requests \cap touched
      PROVE  RowMoves(r)
  <2>1. GoodRow(request'[r])
    BY <1>1, ClosedRows DEF RequestsInv, RowInv
  <2>2. GoodRow(request[r])'
    BY <1>1, <2>1 DEF GoodRow, Served
  <2> QED  BY <1>1, <2>2, ClosedRows DEF RowMoves
<1>6. \A a \in Actors : Mine(a)' \subseteq Mine(a)
  <2>1. \A r \in Requests : request'[r].open =>
             request[r].open /\ request'[r].active \subseteq request[r].active
    BY <1>1, ClosedRows
  <2> QED  BY <2>1, MineShrinks
<1>7. \A q \in Sessions : Submitting(q)' =>
        session[q].actor # None /\ Locks(q) \cap touched = {}
  <2>1. \A q \in Sessions : Submitting(q)' => session[q].actor \in Actors /\ Submitting(q)
    BY <1>1, SessionEnds DEF RequestsInv, SubmittingInv
  <2> QED  BY <1>1, <2>1, ActorsAssumption DEF Locked, Submitting
<1> HIDE DEF touched
<1> QED
  BY <1>1, <1>2, <1>3, <1>4, <1>5, <1>6, <1>7, SessionEnds, RowsChange, ActorsAssumption

\* A submission that commits: its actor's requests are those it found room beside, and one more.
LEMMA SubmissionCommits ==
    ASSUME RequestsInv, ServedStays, NEW s \in Sessions, Submitting(s), NEW r \in Requests,
           NEW row \in Row, GoodRow(row)',
           request' = [AfterClosing(s) EXCEPT ![r] = row],
           session' = [session EXCEPT ![s] = NoSession],
           r \in Locks(s) \/ ~Locked(r),
           row.open => row.active \subseteq request[r].active \cup {session[s].actor},
           IF request[r].open
           THEN /\ row.code = request[r].code /\ row.batch = request[r].batch
                /\ row.status = request[r].status
           ELSE /\ request[r].status = "absent"
                /\ row.active = {session[s].actor}
                /\ \A other \in Requests : AfterClosing(s)[other].open =>
                     AfterClosing(s)[other].code # row.code
    PROVE  RequestsInv'
<1> USE DEF RequestsInv
<1> DEFINE touched == DOMAIN session[s].ended \cup {r}
           ended == DOMAIN session[s].ended
<1>0. PICK a : a = session[s].actor
  OBVIOUS
<1>1. /\ a \in Actors /\ \A q \in Locks(s) : request[q].open
      /\ Cardinality(Mine(a) \ ended) < MaxOpen
      /\ \A other \in Sessions \ {s} : Submitting(other) =>
           session[other].actor # a /\ Locks(other) \cap Locks(s) = {}
  BY <1>0 DEF SubmittingInv
<1>2. session[s].pc # "idle" /\ ended \subseteq Requests /\ ended \subseteq Locks(s)
  BY ClosedRows DEF Submitting, Locks
<1>3. /\ request' \in [Requests -> Row] /\ request'[r] = row
      /\ \A q \in Requests \ {r} : request'[q] = AfterClosing(s)[q]
  BY <1>2, ClosedRows
<1>4. RequestsTypeInv'
  BY <1>3, SessionEnds DEF RequestsTypeInv
<1>5. \A q \in Requests \ touched : request'[q] = request[q]
  BY <1>2, <1>3, ClosedRows
<1>6. ASSUME NEW q \in Requests \cap touched
      PROVE  RowMoves(q)
  <2>1. CASE q # r
    <3>1. GoodRow(request'[q])
      BY <1>2, <1>3, <2>1, ClosedRows
    <3>2. GoodRow(request[q])'
      BY <3>1 DEF GoodRow, ServedStays, Served
    <3> QED  BY <1>2, <1>3, <2>1, <3>2, ClosedRows DEF RowMoves
  <2>2. CASE q = r
    <3>1. GoodRow(request[r])'
      BY <1>3 DEF GoodRow, Served
    <3>2. CASE request[r].open
      BY <1>3, <2>2, <3>1, <3>2 DEF RowMoves
    <3>3. CASE ~request[r].open
      <4>1. request[r].status = "absent"
        BY <3>3
      <4>2. \A other \in Requests \ {r} : request'[other].open => request'[other].code # row.code
        BY <1>3, <3>3
      <4> QED  BY <1>3, <2>2, <3>1, <3>3, <4>1, <4>2 DEF RowMoves
    <3> QED  BY <3>2, <3>3
  <2> QED  BY <2>1, <2>2
<1>7. Cardinality(Mine(a)') <= MaxOpen
  <2>1. Mine(a)' \subseteq (Mine(a) \ ended) \cup {r}
    <3> SUFFICES ASSUME NEW q \in Mine(a)', q # r
                 PROVE  q \in Mine(a) \ ended
      OBVIOUS
    <3>1. q \in Requests /\ request'[q].open /\ a \in request'[q].active
      BY <1>3 DEF Mine, OpenRequests
    <3> QED  BY <1>0, <1>2, <1>3, <3>1, ClosedRows DEF Mine, OpenRequests
  <2> DEFINE old == Mine(a) \ ended
             new == Mine(a)'
  <2>2. old \in SUBSET Requests /\ new \subseteq old \cup {r}
    BY <2>1 DEF Mine, OpenRequests
  <2>3. Cardinality(old) < MaxOpen
    BY <1>1
  <2> HIDE DEF old, new
  <2>4. IsFiniteSet(old \cup {r}) /\ Cardinality(old \cup {r}) <= MaxOpen
    BY <2>2, <2>3, RequestsFinite, FS_AddElement, MaxOpenAssumption
  <2>5. Cardinality(new) <= Cardinality(old \cup {r})
    BY <2>2, <2>4, FS_Subset
  <2>6. new \in SUBSET Requests
    BY <2>2
  <2>7. Cardinality(new) <= MaxOpen
    BY <2>2, <2>4, <2>5, <2>6, RequestsFinite, MaxOpenAssumption
  <2> QED  BY <2>7 DEF new
<1>8. \A b \in Actors \ {a} : Mine(b)' \subseteq Mine(b)
  <2> SUFFICES ASSUME NEW b \in Actors \ {a}, NEW q \in Requests,
                      request'[q].open, b \in request'[q].active
               PROVE  request[q].open /\ b \in request[q].active
    BY DEF Mine, OpenRequests
  <2>1. CASE q = r
    BY <1>0, <1>3, <2>1
  <2>2. CASE q # r
    BY <1>2, <1>3, <2>2, ClosedRows
  <2> QED  BY <2>1, <2>2
<1>9. \A q \in Sessions : Submitting(q)' =>
        session[q].actor # a /\ Locks(q) \cap touched = {}
  <2>1. \A q \in Sessions : Submitting(q)' => q \in Sessions \ {s} /\ Submitting(q)
    BY SessionEnds
  <2>2. ASSUME NEW q \in Sessions \ {s}, Submitting(q)
        PROVE  session[q].actor # a /\ Locks(q) \cap Locks(s) = {} /\ r \notin Locks(q)
    BY <1>0, <1>1, <2>2 DEF Locked, Submitting
  <2> QED  BY <1>2, <2>1, <2>2
<1> HIDE DEF touched
<1> QED
  BY <1>4, <1>5, <1>6, <1>7, <1>8, <1>9, SessionEnds, RowsChange

LEMMA SubmitJoinKeeps ==
    ASSUME RequestsInv, KnowledgeInv, NEW s \in Sessions, SubmitJoin(s)
    PROVE  RequestsInv'
<1> USE DEF RequestsInv
<1> DEFINE rows == AfterClosing(s)
<1>1. /\ Submitting(s) /\ session[s].pc # "idle" /\ session' = [session EXCEPT ![s] = NoSession]
      /\ UNCHANGED <<dataset, knowledge>>
  BY DEF SubmitJoin, Submitting, pipelineVars, securityVars
<1>2. PICK r \in Requests :
        /\ IF session[s].found # {} THEN r \in session[s].found
           ELSE rows[r].open /\ ~Locked(r)
        /\ request' = [rows EXCEPT ![r] = Viewed(Joined(rows[r], session[s].actor))]
  BY DEF SubmitJoin
<1> DEFINE joined == Joined(rows[r], session[s].actor)
<1>3. (r \in Locks(s) \/ ~Locked(r)) /\ request[r].open
  <2>1. CASE r \in session[s].found
    BY <1>1, <2>1 DEF SubmittingInv, Locks
  <2>2. CASE rows[r].open /\ ~Locked(r)
    BY <1>1, <2>2, ClosedRows
  <2> QED  BY <1>2, <2>1, <2>2
<1>4. /\ rows[r] \in Row /\ GoodRow(rows[r]) /\ rows[r].status = request[r].status
      /\ rows[r].code = request[r].code /\ rows[r].batch = request[r].batch
      /\ rows[r].active = request[r].active
  BY <1>1, ClosedRows
<1>5. session[s].actor \in Actors
  BY <1>1 DEF SubmittingInv
<1>6. request[r].status # "withdrawn"
  BY <1>3 DEF RowInv, GoodRow
<1>7. /\ joined \in Row /\ joined.status = rows[r].status /\ joined.open = rows[r].open
      /\ joined.outcome = rows[r].outcome
      /\ joined.code = rows[r].code /\ joined.batch = rows[r].batch
      /\ joined.active = rows[r].active \cup {session[s].actor}
  <2> DEFINE row == rows[r]
             active == row.active \cup {session[s].actor}
  <2>1. row \in Row /\ active \subseteq Actors
    BY <1>4, <1>5 DEF Row
  <2> HIDE DEF row, active
  <2>2. /\ [row EXCEPT !.active = active] \in Row
        /\ [row EXCEPT !.active = active].status = row.status
        /\ [row EXCEPT !.active = active].open = row.open
        /\ [row EXCEPT !.active = active].outcome = row.outcome
        /\ [row EXCEPT !.active = active].code = row.code
        /\ [row EXCEPT !.active = active].batch = row.batch
        /\ [row EXCEPT !.active = active].active = active
    BY <2>1, Zenon DEF Row
  <2> QED  BY <2>2 DEF row, active, Joined
<1>8. GoodRow(joined)
  BY <1>4, <1>6, <1>7 DEF GoodRow
<1> HIDE DEF joined
<1>9. /\ Viewed(joined) \in Row /\ GoodRow(Viewed(joined))
      /\ Viewed(joined).status = request[r].status /\ Viewed(joined).code = request[r].code
      /\ Viewed(joined).batch = request[r].batch
      /\ Viewed(joined).active = request[r].active \cup {session[s].actor}
  BY <1>4, <1>7, <1>8, ViewedRow
<1>10. PICK row \in Row : row = Viewed(joined)
  BY <1>9
<1>11. ServedStays /\ GoodRow(row)'
  BY <1>1, <1>9, <1>10 DEF ServedStays, Served, GoodRow
<1>12. request' = [rows EXCEPT ![r] = row]
  BY <1>2, <1>10 DEF joined
<1> QED
  BY <1>1, <1>3, <1>9, <1>10, <1>11, <1>12, SubmissionCommits

LEMMA SubmitCreateKeeps ==
    ASSUME RequestsInv, NEW s \in Sessions, SubmitCreate(s)
    PROVE  RequestsInv'
<1> USE DEF RequestsInv
<1> DEFINE rows == AfterClosing(s)
           c == session[s].code
           blank == Opened(c, session[s].actor)
<1>1. /\ Submitting(s) /\ session[s].pc # "idle" /\ session' = [session EXCEPT ![s] = NoSession]
      /\ \A i \in Requests : rows[i].open => rows[i].code # c
      /\ UNCHANGED <<dataset, knowledge>>
  BY DEF SubmitCreate, Submitting, pipelineVars, securityVars, RequestIngestion
<1>2. PICK r \in Requests :
        /\ request[r] = NoRequest
        /\ \/ request' = [rows EXCEPT ![r] = blank]
           \/ \E b \in Batches : request' = [rows EXCEPT ![r] = WithDecision(blank, "approved", b)]
  BY DEF SubmitCreate
<1>3. session[s].actor \in Actors /\ c \in Codes
  BY <1>1 DEF SubmittingInv
<1>4. request[r].status = "absent" /\ ~request[r].open
  <2>1. NoRequest.status = "absent"
    BY DEF NoRequest
  <2>2. ~NoRequest.open
    BY DEF NoRequest
  <2> QED  BY <1>2, <2>1, <2>2
<1>5. ~Locked(r)
  BY <1>4 DEF Locked, SubmittingInv, Submitting
<1>6. ServedStays
  BY <1>1 DEF ServedStays, Served
<1>7. /\ blank \in Row /\ blank.status = "pending" /\ blank.code = c /\ blank.outcome = None
      /\ blank.active = {session[s].actor}
  BY <1>2, <1>3, OpenedRow
<1> HIDE DEF blank
<1>9. ASSUME NEW row \in Row, row.status = "pending" \/ (row.status = "approved" /\ row.batch \in Batches),
             row.code = c, row.outcome = None, row.active = {session[s].actor},
             request' = [rows EXCEPT ![r] = row]
      PROVE  RequestsInv'
  <2>1. GoodRow(row)'
    BY <1>3, <1>9, OutcomesAssumption DEF GoodRow, Final
  <2> QED  BY <1>1, <1>4, <1>5, <1>6, <1>9, <2>1, SubmissionCommits
<1>10. ASSUME NEW b \in Batches, request' = [rows EXCEPT ![r] = WithDecision(blank, "approved", b)]
       PROVE  RequestsInv'
  <2>1. PICK row \in Row : row = WithDecision(blank, "approved", b)
    BY <1>7, DecisionRow
  <2>2. /\ row.status = "approved" /\ row.batch = b /\ row.code = c
        /\ row.outcome = None /\ row.active = {session[s].actor}
    BY <1>7, <2>1, DecisionRow
  <2> QED  BY <1>9, <1>10, <2>1, <2>2
<1> QED  BY <1>2, <1>7, <1>9, <1>10

--------------------------------------------------------------------------------------
(* One row by itself: a requester withdraws, the owner decides.                          *)

LEMMA OneRowMoves ==
    ASSUME RequestsInv, UNCHANGED <<session, dataset, knowledge>>,
           NEW r \in Requests, ~Locked(r), request[r].open, request[r].status = "pending",
           NEW row \in Row, GoodRow(row), row.code = request[r].code,
           row.active \subseteq request[r].active,
           request' = [request EXCEPT ![r] = row]
    PROVE  RequestsInv'
<1> USE DEF RequestsInv
<1>1. /\ request' \in [Requests -> Row] /\ request'[r] = row
      /\ \A q \in Requests \ {r} : request'[q] = request[q]
  BY DEF RequestsTypeInv
<1>2. RequestsTypeInv' /\ ServedStays
  BY <1>1 DEF RequestsTypeInv, ServedStays, Served
<1>3. \A q \in Requests \cap {r} : RowMoves(q)
  BY <1>1 DEF RowMoves, GoodRow, Served
<1>4. \A a \in Actors : Mine(a)' \subseteq Mine(a)
  BY <1>1, MineShrinks
<1>5. \A q \in Sessions : Submitting(q)' =>
        session[q].actor # None /\ Locks(q) \cap {r} = {}
  BY ActorsAssumption DEF Submitting, SubmittingInv, Locked
<1> QED
  BY <1>1, <1>2, <1>3, <1>4, <1>5, RowsChange, ActorsAssumption

LEMMA DecideKeeps ==
    ASSUME RequestsInv, NEW r \in Requests,
           \/ \E a \in Actors : Withdraw(r, a)
           \/ \E add \in BOOLEAN : Approve(r, add)
           \/ Reject(r)
    PROVE  RequestsInv'
<1> USE DEF RequestsInv
<1>1. /\ ~Locked(r) /\ request[r].open /\ request[r].status = "pending"
      /\ UNCHANGED <<session, dataset, knowledge>>
  BY DEF Withdraw, Approve, Reject, pipelineVars, securityVars, RequestIngestion
<1> DEFINE row == request[r]
<1>2. row \in Row /\ GoodRow(row) /\ row.outcome = None /\ row.open /\ row.status = "pending"
  BY <1>1 DEF RequestsTypeInv, RowInv, GoodRow
<1> HIDE DEF row
<1>3. ASSUME NEW a \in Actors, Withdraw(r, a)
      PROVE  RequestsInv'
  <2>1. PICK fewer : fewer = Without(row, a)
    OBVIOUS
  <2>2. /\ fewer \in Row /\ fewer.code = row.code /\ fewer.status = row.status
        /\ fewer.active = row.active \ {a} /\ fewer.outcome = row.outcome
        /\ fewer.batch \in Batches \cup {None}
    <3> DEFINE left == row.active \ {a}
    <3>1. left \subseteq Actors
      BY <1>2 DEF Row
    <3>2. fewer = [row EXCEPT !.active = left]
      BY <2>1 DEF Without
    <3> HIDE DEF left
    <3>3. /\ fewer \in Row /\ fewer.code = row.code /\ fewer.status = row.status
          /\ fewer.active = left /\ fewer.outcome = row.outcome
      BY <1>2, <3>1, <3>2, Zenon DEF Row
    <3> QED  BY <3>3 DEF left, Row
  <2>3. request' = [request EXCEPT ![r] =
          IF fewer.active = {} THEN Closed(WithDecision(fewer, "withdrawn", fewer.batch), "withdrawn")
          ELSE fewer]
    BY <1>3, <2>1 DEF Withdraw, row
  <2>4. CASE fewer.active = {}
    <3>1. PICK gone : gone = WithDecision(fewer, "withdrawn", fewer.batch)
      OBVIOUS
    <3>2. /\ gone \in Row /\ gone.code = row.code /\ gone.status = "withdrawn"
          /\ gone.active = {}
      BY <2>2, <2>4, <3>1, DecisionRow
    <3>3. /\ Closed(gone, "withdrawn") \in Row /\ GoodRow(Closed(gone, "withdrawn"))
          /\ Closed(gone, "withdrawn").code = row.code /\ Closed(gone, "withdrawn").active = {}
      BY <3>2, ClosedRow DEF GoodRow, Final
    <3>4. request' = [request EXCEPT ![r] = Closed(gone, "withdrawn")]
      BY <2>3, <2>4, <3>1
    <3> QED  BY <1>1, <3>3, <3>4, OneRowMoves DEF row
  <2>5. CASE fewer.active # {}
    <3>1. request' = [request EXCEPT ![r] = fewer]
      BY <2>3, <2>5
    <3>2. GoodRow(fewer)
      BY <1>2, <2>2, <2>5, OutcomesAssumption DEF GoodRow, Final
    <3> QED  BY <1>1, <2>2, <3>1, <3>2, OneRowMoves DEF row
  <2> QED  BY <2>4, <2>5
<1>4. ASSUME NEW b \in Batches, request' = [request EXCEPT ![r] = WithDecision(@, "approved", b)]
      PROVE  RequestsInv'
  <2>1. PICK whole : whole = WithDecision(row, "approved", b)
    OBVIOUS
  <2>2. /\ whole \in Row /\ whole.status = "approved" /\ whole.code = row.code
        /\ whole.batch = b /\ whole.outcome = row.outcome /\ whole.active = row.active
    BY <1>2, <2>1, DecisionRow
  <2>3. GoodRow(whole)
    BY <1>2, <2>2, OutcomesAssumption DEF GoodRow, Final
  <2>4. request' = [request EXCEPT ![r] = whole]
    BY <1>4, <2>1 DEF row
  <2> QED  BY <1>1, <2>2, <2>3, <2>4, OneRowMoves DEF row
<1>5. CASE Reject(r)
  <2>1. PICK refused : refused = WithDecision(row, "rejected", row.batch)
    OBVIOUS
  <2>2. /\ refused \in Row /\ refused.status = "rejected" /\ refused.code = row.code
        /\ refused.active = row.active
    <3>1. row.batch \in Batches \cup {None}
      BY <1>2 DEF Row
    <3> QED  BY <1>2, <2>1, <3>1, DecisionRow
  <2>3. PICK shut : shut = Closed(refused, "rejected")
    OBVIOUS
  <2>4. shut \in Row /\ GoodRow(shut) /\ shut.code = row.code /\ shut.active = row.active
    BY <2>2, <2>3, ClosedRow DEF GoodRow, Final
  <2>5. request' = [request EXCEPT ![r] = shut]
    BY <1>5, <2>1, <2>3 DEF Reject, row
  <2> QED  BY <1>1, <2>4, <2>5, OneRowMoves DEF row
<1> QED  BY <1>3, <1>4, <1>5 DEF Approve

--------------------------------------------------------------------------------------
(* The pipeline goes on meanwhile: what was served stays served.                         *)

LEMMA KnowledgeGoesOn ==
    ASSUME KnowledgeInv, knowledge \subseteq knowledge',
           \A w \in Workers :
             \/ handler'[w] = handler[w]
             \/ handler'[w].pc # "accepted"
             \/ \E v \in Versions : handler'[w].task = Register(v) /\ v \in knowledge',
           \A v \in Versions :
             /\ dataset'[v].registered => dataset[v].registered \/ v \in Passing \cap knowledge'
             /\ dataset[v].batch \in Batches => dataset'[v].batch = dataset[v].batch
    PROVE  KnowledgeInv' /\ ServedStays
<1>1. \A v \in Versions : dataset'[v].registered => v \in Passing \cap knowledge'
  BY DEF KnowledgeInv
<1>2. ASSUME NEW w \in Workers, NEW v \in Versions,
             handler'[w].pc = "accepted", handler'[w].task = Register(v)
      PROVE  v \in knowledge'
  BY <1>2, TasksDiffer DEF KnowledgeInv
<1>3. ServedStays
  BY VersionsAssumption DEF ServedStays, Served
<1> QED  BY <1>1, <1>2, <1>3 DEF KnowledgeInv, Register

\* Most steps leave datasets and knowledge alone.
LEMMA KnowledgeKept ==
    ASSUME PipelineInv, KnowledgeInv, UNCHANGED <<dataset, knowledge>>,
           \/ UNCHANGED handler
           \/ \E w \in Workers, pc \in Steps \ {"accepted"} : \E t, ns : Moves(w, pc, t, ns)
    PROVE  KnowledgeInv' /\ ServedStays
<1>1. \A w \in Workers : handler'[w] = handler[w] \/ handler'[w].pc # "accepted"
  BY DEF Moves
<1> QED  BY <1>1, KnowledgeGoesOn

LEMMA PostKnows ==
    ASSUME PipelineInv, KnowledgeInv, NEW w \in Workers, PostDataset(w)
    PROVE  KnowledgeInv' /\ ServedStays
<1>1. PICK v \in Versions : handler[w].task = Register(v) /\ Subject(w) = v /\ v \in Passing
  BY RegisterOf DEF PostDataset, Running
<1>2. /\ UNCHANGED dataset /\ knowledge \subseteq knowledge'
      /\ \E pc \in Steps : Goto(w, pc) /\ (pc = "accepted" => v \in knowledge')
  BY <1>1 DEF PostDataset, Steps
<1>3. \A o \in Workers :
             \/ handler'[o] = handler[o]
             \/ handler'[o].pc # "accepted"
             \/ \E u \in Versions : handler'[o].task = Register(u) /\ u \in knowledge'
  BY <1>1, <1>2, HandlerMoves DEF Moves, PipelineInv
<1> QED  BY <1>2, <1>3, KnowledgeGoesOn

LEMMA SaveKnows ==
    ASSUME PipelineInv, KnowledgeInv, NEW w \in Workers, SaveDataset(w)
    PROVE  KnowledgeInv' /\ ServedStays
<1>1. PICK b \in Batches : handler[w].task = Build(b) /\ Subject(w) = b
  BY BuildOf DEF SaveDataset, Running
<1> DEFINE v == batch[b].content
           ts == IF v \in Passing /\ Configured THEN {Register(v)} ELSE {}
<1>2. v \in Versions
  <2>1. v # None
    BY <1>1 DEF PipelineInv, ContentInv, SaveDataset, Running
  <2> QED  BY <2>1 DEF PipelineInv, RowsOK, Batch
<1>3. /\ Return(w, ts) /\ UNCHANGED knowledge
      /\ dataset' = IF dataset[v].batch = None
                    THEN [dataset EXCEPT ![v].batch = b] ELSE dataset
  BY <1>1 DEF SaveDataset
<1> HIDE DEF v
<1>4. ts \in SUBSET SecurityTasks
  BY <1>2, TasksAreTasks
<1>5. \A o \in Workers : handler'[o] = handler[o] \/ handler'[o].pc # "accepted"
  BY <1>3, <1>4, HandlerMoves DEF Moves, PipelineInv
<1>6. \A u \in Versions :
        /\ dataset'[u].registered = dataset[u].registered
        /\ dataset[u].batch \in Batches => dataset'[u].batch = dataset[u].batch
  <2>1. None \notin Batches /\ dataset \in [Versions -> Dataset]
    BY NoneAssumption DEF Batches, PipelineInv, RowsOK
  <2> QED  BY <1>2, <1>3, <2>1 DEF Dataset
<1> QED  BY <1>3, <1>5, <1>6, KnowledgeGoesOn

LEMMA MarkKnows ==
    ASSUME PipelineInv, KnowledgeInv, NEW w \in Workers, MarkRegistered(w) \/ MarkFailed(w)
    PROVE  KnowledgeInv' /\ ServedStays
<1>1. PICK v \in Versions : handler[w].task = Register(v) /\ Subject(w) = v /\ v \in Passing
  BY RegisterOf DEF MarkRegistered, MarkFailed, Running
<1>2. /\ UNCHANGED knowledge
      /\ Return(w, {}) \/ handler' = [handler EXCEPT ![w] = Idle]
  BY DEF MarkRegistered, MarkFailed
<1>3. \A o \in Workers : handler'[o] = handler[o] \/ handler'[o].pc # "accepted"
  BY <1>2, HandlerMoves DEF Moves, PipelineInv
<1>4. dataset \in [Versions -> Dataset]
  BY DEF PipelineInv, RowsOK
<1>5. CASE MarkRegistered(w)
  <2>1. v \in knowledge
    BY <1>1, <1>5 DEF KnowledgeInv, MarkRegistered, Running
  <2>2. \A u \in Versions :
          /\ dataset'[u].batch = dataset[u].batch
          /\ u # v => dataset'[u] = dataset[u]
    <3>1. dataset' = [dataset EXCEPT ![v] = [@ EXCEPT !.registered = TRUE, !.failing = FALSE]]
      BY <1>1, <1>5 DEF MarkRegistered
    <3> QED  BY <1>4, <3>1 DEF Dataset
  <2> QED  BY <1>1, <1>2, <1>3, <2>1, <2>2, KnowledgeGoesOn
<1>6. CASE MarkFailed(w)
  <2>1. dataset' = [dataset EXCEPT ![v].failing = TRUE]
    BY <1>1, <1>6 DEF MarkFailed
  <2>2. \A u \in Versions :
          /\ dataset'[u].batch = dataset[u].batch
          /\ dataset'[u].registered = dataset[u].registered
    BY <1>4, <2>1 DEF Dataset
  <2> QED  BY <1>2, <1>3, <2>2, KnowledgeGoesOn
<1> QED  BY <1>5, <1>6

LEMMA PipelineKnows ==
    ASSUME PipelineInv, KnowledgeInv, [PipelineNext]_pipelineVars
    PROVE  KnowledgeInv' /\ ServedStays
<1>1. ASSUME NEW w \in Workers, NEW pc \in Steps \ {"accepted"}, Goto(w, pc),
             UNCHANGED <<dataset, knowledge>>
      PROVE  KnowledgeInv' /\ ServedStays
  BY <1>1, HandlerMoves, KnowledgeKept DEF PipelineInv
<1>2. ASSUME NEW w \in Workers, NEW ts \in SUBSET SecurityTasks, Return(w, ts),
             UNCHANGED <<dataset, knowledge>>
      PROVE  KnowledgeInv' /\ ServedStays
  <2>1. Moves(w, "committing", handler[w].task, ts)
    BY <1>2, HandlerMoves DEF PipelineInv
  <2> QED  BY <1>2, <2>1, KnowledgeKept DEF Steps
<1>3. ASSUME NEW w \in Workers, handler' = [handler EXCEPT ![w] = Idle],
             UNCHANGED <<dataset, knowledge>>
      PROVE  KnowledgeInv' /\ ServedStays
  <2>1. Moves(w, "idle", None, {})
    BY <1>3, HandlerMoves DEF PipelineInv
  <2> QED  BY <1>3, <2>1, KnowledgeKept DEF Steps
<1>4. CASE UNCHANGED <<dataset, knowledge, handler>>
  BY <1>4, KnowledgeKept
<1>5. ASSUME NEW w \in Workers, HandlerStep(w)
      PROVE  KnowledgeInv' /\ ServedStays
  <2>1. CASE BeginBatch(w)
    BY <1>1, <1>2, <2>1 DEF BeginBatch, Steps
  <2>2. CASE Collect(w)
    BY <1>1, <2>2 DEF Collect, Steps
  <2>3. CASE FinishBatch(w)
    <3>1. PICK b \in Batches : Subject(w) = b
      BY <2>3, IngestOf DEF FinishBatch, Running
    <3>2. \E ts \in SUBSET SecurityTasks : Return(w, ts)
      BY <2>3, <3>1, TasksAreTasks DEF FinishBatch
    <3> QED  BY <1>2, <2>3, <3>2 DEF FinishBatch
  <2>4. CASE LoadBatch(w)
    BY <1>1, <2>4 DEF LoadBatch, Steps
  <2>5. CASE RefuseBuild(w)
    BY <1>2, <2>5 DEF RefuseBuild
  <2>6. CASE CommitTask(w)
    BY <1>3, <2>6 DEF CommitTask
  <2> QED
    BY <1>5, <2>1, <2>2, <2>3, <2>4, <2>5, <2>6, SaveKnows, PostKnows, MarkKnows DEF HandlerStep
<1>6. ASSUME NEW w \in Workers, NEW t \in SecurityTasks, StartTask(w, t)
      PROVE  KnowledgeInv' /\ ServedStays
  <2>1. FirstStep(t) \in Steps \ {"accepted"}
    BY TasksAreTasks, TasksDiffer DEF FirstStep, Steps
  <2>2. Moves(w, FirstStep(t), t, {})
    BY <1>6, <2>1, SMT DEF StartTask, Moves, PipelineInv, RowsOK, Handler
  <2>3. UNCHANGED <<dataset, knowledge>>
    BY <1>6 DEF StartTask
  <2> QED  BY <2>1, <2>2, <2>3, KnowledgeKept
<1>7. ASSUME NEW w \in Workers, AbandonTask(w)
      PROVE  KnowledgeInv' /\ ServedStays
  BY <1>3, <1>7 DEF AbandonTask
<1>8. CASE LeaseEnds
  BY <1>4, <1>8 DEF LeaseEnds, securityVars
<1>9. ASSUME NEW b \in Batches, NEW c \in Codes, RequestIngestion(b, c)
      PROVE  KnowledgeInv' /\ ServedStays
  BY <1>4, <1>9 DEF RequestIngestion
<1>10. CASE UNCHANGED pipelineVars
  BY <1>4, <1>10 DEF pipelineVars, securityVars
<1> QED
  BY <1>5, <1>6, <1>7, <1>8, <1>9, <1>10 DEF PipelineNext

\* The requests do not notice what the pipeline does.
LEMMA RequestsWait ==
    ASSUME RequestsInv, ServedStays, UNCHANGED <<request, session>>
    PROVE  RequestsInv'
<1>1. RequestsTypeInv'
  BY DEF RequestsInv, RequestsTypeInv
<1>2. \A a \in Actors : Mine(a)' \subseteq Mine(a)
  BY MineShrinks
<1>3. \A s \in Sessions : Submitting(s)' => session[s].actor # None
  BY ActorsAssumption DEF RequestsInv, SubmittingInv, Submitting
<1> QED  BY <1>1, <1>2, <1>3, RowsChange, ActorsAssumption

--------------------------------------------------------------------------------------
(* The invariant.                                                                        *)

LEMMA InitAllInv == RequestsInit => AllInv
<1> SUFFICES ASSUME RequestsInit
             PROVE  AllInv
  OBVIOUS
<1> USE DEF RequestsInit
<1>1. NoRequest \in Row /\ GoodRow(NoRequest)
  BY OutcomesAssumption DEF NoRequest, Row, GoodRow, Final
<1>2. RequestsTypeInv /\ RowInv
  BY <1>1, EndingsHold DEF RequestsTypeInv, RowInv
<1>3. OpenRequests = {}
  BY DEF OpenRequests, NoRequest
<1>4. UniqueInv
  BY <1>3 DEF UniqueInv
<1>5. LimitInv
  BY <1>3, FS_EmptySet, MaxOpenAssumption DEF LimitInv, Mine
<1>6. SubmittingInv /\ EndedInv
  BY DEF SubmittingInv, EndedInv, Submitting, NoSession
<1>7. KnowledgeInv
  BY DEF KnowledgeInv, PipelineInit, Idle
<1> QED
  BY <1>2, <1>4, <1>5, <1>6, <1>7, InitPipelineInv DEF AllInv, RequestsInv

LEMMA RequestsStep == AllInv /\ [RequestsNext]_requestsVars => AllInv'
<1> SUFFICES ASSUME AllInv, [RequestsNext]_requestsVars
             PROVE  AllInv'
  OBVIOUS
<1> USE DEF AllInv
<1>1. \/ UNCHANGED pipelineVars
      \/ \E b \in Batches, c \in Codes : RequestIngestion(b, c)
      \/ PipelineNext
  <2>1. ASSUME NEW s \in Sessions, SubmitCreate(s)
        PROVE  \/ UNCHANGED pipelineVars
               \/ \E b \in Batches, c \in Codes : RequestIngestion(b, c)
    <3>1. session[s].code \in Codes
      BY <2>1 DEF SubmitCreate, RequestsInv, SubmittingInv, Submitting
    <3> QED  BY <2>1, <3>1, Zenon DEF SubmitCreate
  <2>2. ASSUME NEW r \in Requests, NEW add \in BOOLEAN, Approve(r, add)
        PROVE  \E b \in Batches, c \in Codes : RequestIngestion(b, c)
    <3>1. request[r].code \in Codes
      BY <2>2 DEF Approve, RequestsInv, RowInv, GoodRow
    <3> QED  BY <2>2, <3>1, Zenon DEF Approve
  <2> QED
    BY <2>1, <2>2, Zenon DEF RequestsNext, SubmitRead, SubmitJoin, SessionAborts, ViewRead,
       ViewClose, Withdraw, Reject, Watch, Unwatch, requestsVars
<1>2. PipelineInv' /\ KnowledgeInv' /\ ServedStays
  <2>1. [PipelineNext]_pipelineVars
    BY <1>1, Zenon DEF PipelineNext
  <2> QED  BY <2>1, PipelineStep, PipelineKnows
<1>3. CASE UNCHANGED <<request, session>>
  BY <1>2, <1>3, RequestsWait
<1>4. ASSUME NEW s \in Sessions,
             \/ \E a \in Actors, c \in Codes : SubmitRead(s, a, c)
             \/ SubmitJoin(s)
             \/ SubmitCreate(s)
             \/ SessionAborts(s)
             \/ \E r \in Requests : ViewRead(s, r)
             \/ ViewClose(s)
      PROVE  RequestsInv'
  BY <1>4, SubmitReadKeeps, SubmitJoinKeeps, SubmitCreateKeeps, AbortKeeps, ViewReadKeeps,
     ViewCloseKeeps
<1>5. ASSUME NEW r \in Requests,
             \/ \E a \in Actors : Withdraw(r, a)
             \/ \E add \in BOOLEAN : Approve(r, add)
             \/ Reject(r)
      PROVE  RequestsInv'
  BY <1>5, DecideKeeps
<1>6. CASE \E c \in Codes : Watch(c) \/ Unwatch(c)
  BY <1>3, <1>6 DEF Watch, Unwatch
<1>7. CASE UNCHANGED requestsVars \/ UNCHANGED requestVars
  BY <1>3, <1>7 DEF requestsVars, requestVars
<1> QED  BY <1>2, <1>4, <1>5, <1>6, <1>7 DEF RequestsNext

LEMMA AllInvariant == RequestsSpec => []AllInv
BY InitAllInv, RequestsStep, PTL DEF RequestsSpec

\* A row that has an outcome is not touched: what a session writes is open or absent.
LEMMA OutcomeKept ==
    ASSUME RequestsInv, [RequestsNext]_requestsVars,
           NEW r \in Requests, request[r].outcome # None
    PROVE  request'[r] = request[r]
<1> USE DEF RequestsInv
<1>1. ~request[r].open /\ request[r] # NoRequest
  BY DEF RowInv, GoodRow, NoRequest
<1>2. ASSUME NEW s \in Sessions, Submitting(s)
      PROVE  /\ r \notin Locks(s)
             /\ AfterClosing(s) = [q \in Requests |-> AfterClosing(s)[q]]
             /\ AfterClosing(s)[r] = request[r]
  BY <1>1, <1>2 DEF SubmittingInv, AfterClosing, Locks
<1>3. ASSUME NEW s \in Sessions, SubmitJoin(s)
      PROVE  request'[r] = request[r]
  <2>1. Submitting(s)
    BY <1>3 DEF SubmitJoin, Submitting
  <2>2. PICK q \in Requests :
          /\ q \in session[s].found \/ AfterClosing(s)[q].open
          /\ request' = [AfterClosing(s) EXCEPT
                ![q] = Viewed(Joined(AfterClosing(s)[q], session[s].actor))]
    BY <1>3 DEF SubmitJoin
  <2>3. q # r
    BY <1>1, <1>2, <2>1, <2>2 DEF Locks
  <2> QED  BY <1>2, <2>1, <2>2, <2>3
<1>4. ASSUME NEW s \in Sessions, SubmitCreate(s)
      PROVE  request'[r] = request[r]
  <2> DEFINE q == CHOOSE i \in Requests : request[i] = NoRequest
  <2>1. Submitting(s) /\ \E i \in Requests : request[i] = NoRequest
    BY <1>4 DEF SubmitCreate, Submitting
  <2>2. q # r
    BY <1>1, <2>1
  <2>3. \E row : request' = [AfterClosing(s) EXCEPT ![q] = row]
    BY <1>4 DEF SubmitCreate
  <2> HIDE DEF q
  <2> QED  BY <1>2, <2>1, <2>2, <2>3
<1>5. ASSUME NEW s \in Sessions, ViewClose(s)
      PROVE  request'[r] = request[r]
  BY <1>1, <1>5 DEF ViewClose
<1>6. ASSUME NEW q \in Requests,
             \/ \E a \in Actors : Withdraw(q, a)
             \/ \E add \in BOOLEAN : Approve(q, add)
             \/ Reject(q)
      PROVE  request'[r] = request[r]
  <2>1. request[q].open /\ \E row : request' = [request EXCEPT ![q] = row]
    BY <1>6 DEF Withdraw, Approve, Reject
  <2> QED  BY <1>1, <2>1 DEF RequestsTypeInv
<1>7. CASE UNCHANGED request
  BY <1>7
<1> QED
  BY <1>3, <1>4, <1>5, <1>6, <1>7
  DEF RequestsNext, SubmitRead, SessionAborts, ViewRead, Watch, Unwatch, requestsVars, requestVars

--------------------------------------------------------------------------------------
(* What it is for.                                                                       *)

\* No actor gets past the limit, however many submissions run at the same time: the
\* submissions of one actor go one after the other, and others only take requests away.
THEOREM NobodyBeyondLimit == RequestsSpec => []WithinLimit
<1>1. AllInv => WithinLimit
  BY DEF AllInv, RequestsInv, LimitInv, Mine, WithinLimit
<1> QED  BY <1>1, AllInvariant, PTL

\* Everybody who asks for a company waits for the same request, which is open as long as
\* it can be withdrawn and somebody waits for it.
THEOREM RequestsAreShared == RequestsSpec => []SharedByRequesters
<1>1. AllInv => SharedByRequesters
  BY DEF AllInv, RequestsInv, UniqueInv, RowInv, GoodRow, SharedByRequesters
<1> QED  BY <1>1, AllInvariant, PTL

\* What was recorded as available is: its dataset passed, and was handed on.
THEOREM AvailableWasServed == RequestsSpec => []AvailableIsServed
<1>1. AllInv => AvailableIsServed
  BY DEF AllInv, RequestsInv, RowInv, GoodRow, Served, AvailableIsServed
<1> QED  BY <1>1, AllInvariant, PTL

\* An outcome is recorded once, whoever looks, joins, withdraws or decides at that time.
THEOREM OutcomesStay == RequestsSpec => OutcomeStays
<1>1. AllInv /\ [RequestsNext]_requestsVars =>
        [\A r \in Requests : request[r].outcome # None => request'[r] = request[r]]_requestsVars
  BY OutcomeKept DEF AllInv
<1> QED  BY <1>1, AllInvariant, PTL DEF RequestsSpec, OutcomeStays

======================================================================================
