--------------------------------- MODULE Collecting ---------------------------------
(* One batch of originals of a company (application/securities/ingestion_service.py):  *)
(* the collectors ask the disclosure platform for the annual reports and then a second *)
(* site for the three statements.  What the next request is depends on the answers, so *)
(* each answer is archived, in a transaction of its own, before a collector sees it.   *)
EXTENDS Naturals, Sequences, FiniteSets, Functions

CONSTANTS
    Statements,       \* how many statements there are
    Listings,         \* what a page may list: sequences of records of id, title (with
                      \* time), size or Unsized, and whether it is a full report
    Totals,           \* what a page may say of how many there are, NoTotal for nothing
    PeriodLists,      \* what the second site may list, or give data of: sequences of periods
    PeriodBatch,      \* _BATCH: periods in one request
    Unsized, NoTotal,
    PageSize, MaxPages, MaxRequests, MaxAttempts,
    NoAnswer

ASSUME CollectLimitsAssumption ==
    /\ {Statements, PeriodBatch, PageSize, MaxPages, MaxRequests, MaxAttempts}
         \subseteq Nat \ {0}
    /\ Listings \subseteq Seq([id : Nat, title : STRING, size : Nat \cup {Unsized}, full : BOOLEAN])
    /\ \A rows \in Listings : Len(rows) <= PageSize
    /\ Totals \subseteq Nat \cup {NoTotal} /\ PeriodLists \subseteq Seq(STRING)

VARIABLES
    status,     \* of the batch: "running", "succeeded" or "failed"
    items,      \* security_ingestion_item, in the order of seq
    skipped,    \* the requests of items given up one by one
    at,         \* "asking", "archiving", "using", "finishing" or "ended"
    request,    \* what is being asked for
    attempt,
    answer,     \* the response, until the collector is done with it
    found,      \* the announcements the pages had so far
    todo,       \* what is left of the reports, or of a statement's periods
    downloaded,
    outcome     \* what is going to be recorded

collectVars ==
    <<status, items, skipped, at, request, attempt, answer, found, todo, downloaded,
      outcome>>

StockList == [kind |-> "stock_list", of |-> 0, about |-> <<>>]
Page(p) == [kind |-> "announcement_query", of |-> p, about |-> <<>>]
Report(a) == [kind |-> "report_file", of |-> a.id, about |-> <<>>]
CompanyType == [kind |-> "company_type_page", of |-> 0, about |-> <<>>]
PeriodsOf(i) == [kind |-> "statement_periods", of |-> i, about |-> <<>>]
Data(i, ps) == [kind |-> "statement_data", of |-> i, about |-> ps]

\* A response: its status, whether it reads as expected, and what it lists.
Response(code, good, rows, total) ==
    [code |-> code, good |-> good, rows |-> rows, total |-> total]

\* The answers a request may get: a success, read or not, a status worth another
\* attempt, or one that is not.  What statement data are of need not be what was asked for.
Responses(r) ==
    {Response(404, FALSE, <<>>, NoTotal), Response(503, FALSE, <<>>, NoTotal)}
    \cup
    (IF r.kind = "report_file" THEN {} ELSE {Response(200, FALSE, <<>>, NoTotal)})
    \cup
    CASE r.kind = "announcement_query" ->
           {Response(200, TRUE, rows, total) : rows \in Listings, total \in Totals}
      [] r.kind \in {"statement_periods", "statement_data"} ->
           {Response(200, TRUE, rows, NoTotal) : rows \in PeriodLists}
      [] OTHER -> {Response(200, TRUE, <<>>, NoTotal)}

CollectInit ==
    /\ status = "running"   \* begun: SecurityPipeline!BeginBatch
    /\ items = <<>> /\ skipped = {}
    /\ at = "asking" /\ request = StockList /\ attempt = 1 /\ answer = NoAnswer
    /\ found = <<>> /\ todo = <<>> /\ downloaded = 0
    /\ outcome = "succeeded"

--------------------------------------------------------------------------------------
(* Where a collector goes on.                                                          *)

\* The members of a finite set, in the order of a relation between them.
InOrder(S, before) ==
    CHOOSE q \in [1 .. Cardinality(S) -> S] :
        \A i, j \in DOMAIN q : i < j => <<q[i], q[j]>> \in before

\* A list without its repetitions, each at its first place (dict.fromkeys).
Distinct(s) ==
    LET first == {i \in DOMAIN s : \A j \in DOMAIN s : j < i => s[j] # s[i]}
        order == InOrder(first, {p \in first \X first : p[1] < p[2]})
    IN  [k \in DOMAIN order |-> s[order[k]]]

\* _report and _without_relisted: the full reports, by number; of those that have the
\* same title, time and size only the first.  Without a size nothing is merged.
SameReport(a, b) == a.title = b.title /\ a.size = b.size /\ a.size # Unsized

Reports(rows) ==
    LET full == {i \in DOMAIN rows : rows[i].full}
        before == {p \in full \X full :
                     \/ rows[p[1]].id < rows[p[2]].id
                     \/ rows[p[1]].id = rows[p[2]].id /\ p[1] < p[2]}
        first == {i \in full : \A j \in full :
                     <<j, i>> \in before => ~SameReport(rows[j], rows[i])}
        order == InOrder(first, before)
    IN  [k \in DOMAIN order |-> rows[order[k]]]

\* fetch: a batch may ask only so often.
Ask(r) ==
    IF Len(items) >= MaxRequests
    THEN /\ at' = "finishing" /\ outcome' = "failed"
         /\ UNCHANGED <<request, attempt>>
    ELSE /\ at' = "asking" /\ request' = r /\ attempt' = 1
         /\ UNCHANGED outcome

End(result) ==
    /\ at' = "finishing" /\ outcome' = result
    /\ UNCHANGED <<request, attempt>>

\* The statement data are asked for a few periods at a time, statement by statement.
NextData(i, ps) ==
    LET n == IF Len(ps) < PeriodBatch THEN Len(ps) ELSE PeriodBatch IN
    IF ps # <<>>
    THEN Ask(Data(i, SubSeq(ps, 1, n))) /\ todo' = SubSeq(ps, n + 1, Len(ps))
    ELSE /\ IF i < Statements THEN Ask(PeriodsOf(i + 1)) ELSE End("succeeded")
         /\ todo' = <<>>

\* After the reports the first collector is done, if there was one to be had.
NextReport(left, had) ==
    /\ downloaded' = had
    /\ IF left # <<>>
       THEN Ask(Report(Head(left))) /\ todo' = Tail(left)
       ELSE /\ IF had = 0 THEN End("failed") ELSE Ask(CompanyType)
            /\ todo' = <<>>

UseList(r) ==
    CASE r.kind = "stock_list" ->
           Ask(Page(1)) /\ UNCHANGED <<found, todo, downloaded>>
      [] r.kind = "company_type_page" ->
           Ask(PeriodsOf(1)) /\ UNCHANGED <<found, todo, downloaded>>
      [] r.kind = "statement_periods" ->
           /\ IF answer.rows = <<>>
              THEN End("failed") /\ UNCHANGED todo
              ELSE NextData(r.of, Distinct(answer.rows))
           /\ UNCHANGED <<found, downloaded>>
      [] r.kind = "statement_data" ->
           /\ IF answer.rows = <<>>
              THEN End("failed") /\ UNCHANGED todo
              ELSE NextData(r.of, todo)
           /\ UNCHANGED <<found, downloaded>>

LastPage_bug(p) ==   \* a full page is taken for the last one when one more row follows
    answer.total = NoTotal \/ answer.rows = <<>> \/ p * PageSize + 1 >= answer.total

\* _annual_announcements stops here.
LastPage(p) ==
    \/ answer.total = NoTotal
    \/ answer.rows = <<>>
    \/ p * PageSize >= answer.total

UsePage(p) ==
    LET rows == found \o answer.rows IN
    /\ found' = rows
    /\ IF LastPage(p)
       THEN IF Reports(rows) = <<>>
            THEN End("failed") /\ UNCHANGED <<todo, downloaded>>
            ELSE NextReport(Reports(rows), 0)
       ELSE /\ IF p = MaxPages THEN End("failed") ELSE Ask(Page(p + 1))
            /\ UNCHANGED <<todo, downloaded>>

--------------------------------------------------------------------------------------
(* One request: up to MaxAttempts times, then archived, then used.                     *)

Keeps == UNCHANGED <<status, items, skipped, found, todo, downloaded>>

\* _fetch_with_retry, after a failure that may be gone the next time.
TryAgain ==
    /\ at = "asking" /\ attempt < MaxAttempts
    /\ attempt' = attempt + 1
    /\ UNCHANGED <<at, request, answer, outcome>> /\ Keeps

\* There is no answer.  A report is given up, anything else ends the batch.
GiveUp ==
    IF request.kind = "report_file"
    THEN /\ skipped' = skipped \cup {request}
         /\ NextReport(todo, downloaded)
         /\ UNCHANGED found
    ELSE End("failed") /\ UNCHANGED <<skipped, found, todo, downloaded>>

FetchFails ==
    /\ at = "asking"
    /\ GiveUp
    /\ UNCHANGED <<status, items, answer>>

Receive ==
    /\ at = "asking"
    /\ \E a \in Responses(request) :
         /\ a.code = 503 => attempt = MaxAttempts
         /\ answer' = a
    /\ at' = "archiving"
    /\ UNCHANGED <<request, attempt, outcome>> /\ Keeps

\* SqlIngestionStore.archive: the job, the artifact or the reference to the one there
\* is, and the item, committed together.
Archive ==
    /\ at = "archiving"
    /\ items' = Append(items, [request |-> request, response |-> answer])
    /\ at' = "using"
    /\ UNCHANGED <<status, skipped, request, attempt, answer, found, todo, downloaded,
                   outcome>>

\* What the collector makes of the answer.
Use ==
    /\ at = "using"
    /\ answer' = NoAnswer
    /\ CASE answer.code >= 400 -> GiveUp
         [] answer.code < 400 /\ request.kind = "report_file" ->
              NextReport(todo, downloaded + 1) /\ UNCHANGED <<skipped, found>>
         [] answer.code < 400 /\ request.kind # "report_file" /\ ~answer.good ->
              End("failed") /\ UNCHANGED <<skipped, found, todo, downloaded>>
         [] answer.code < 400 /\ request.kind # "report_file" /\ answer.good ->
              /\ IF request.kind = "announcement_query"
                 THEN UsePage(request.of)
                 ELSE UseList(request)
              /\ UNCHANGED skipped
    /\ UNCHANGED <<status, items>>

\* SqlIngestionStore.finish
Finish ==
    /\ at = "finishing"
    /\ status' = outcome
    /\ at' = "ended"
    /\ UNCHANGED <<items, skipped, request, attempt, answer, found, todo, downloaded,
                   outcome>>

\* The worker dies, or the database or the object storage fails: the batch stays as it
\* is, for SecurityPipeline!BeginBatch to record as interrupted.
BreakOff ==
    /\ at # "ended"
    /\ at' = "ended"
    /\ answer' = NoAnswer
    /\ UNCHANGED <<request, attempt, outcome>> /\ Keeps

CollectNext == TryAgain \/ FetchFails \/ Receive \/ Archive \/ Use \/ Finish \/ BreakOff

CollectSpec == CollectInit /\ [][CollectNext]_collectVars

--------------------------------------------------------------------------------------

Archived(r) == {i \in DOMAIN items : items[i].request = r}
Readable(r) == {i \in Archived(r) : items[i].response.code < 400 /\ items[i].response.good}

\* Every announcement the archived pages list.
Announced ==
    UNION {{items[i].response.rows[k] : k \in DOMAIN items[i].response.rows} :
             i \in {i \in DOMAIN items : items[i].request.kind = "announcement_query"}}

\* The archived originals of a batch that succeeded are complete, by what they
\* themselves say: the pages go on to the total they claim; each full report they list,
\* or another listing of it, is there or recorded as skipped, and at least one is there;
\* and for every statement the data of every period that is listed for it have been asked
\* for, and some came.  Which ones came is not looked at.
SucceededIsWhole ==
    status = "succeeded" =>
      /\ \E p \in 1 .. MaxPages :
           /\ \A q \in 1 .. p : Readable(Page(q)) # {}
           /\ \E i \in Readable(Page(p)) :
                LET r == items[i].response IN
                r.total = NoTotal \/ r.rows = <<>> \/ p * PageSize >= r.total
      /\ \A a \in {a \in Announced : a.full} :
           \E b \in Announced :
             /\ b = a \/ SameReport(a, b)
             /\ \/ \E i \in Archived(Report(b)) : items[i].response.code < 400
                \/ Report(b) \in skipped
      /\ \E i \in DOMAIN items :
           items[i].request.kind = "report_file" /\ items[i].response.code < 400
      /\ \A n \in 1 .. Statements :
           \E i \in Readable(PeriodsOf(n)) :
             /\ items[i].response.rows # <<>>
             /\ \A k \in DOMAIN items[i].response.rows :
                  \E j \in DOMAIN items :
                    LET d == items[j].request IN
                    /\ d.kind = "statement_data" /\ d.of = n /\ j \in Readable(d)
                    /\ items[j].response.rows # <<>>
                    /\ items[i].response.rows[k] \in Range(d.about)
======================================================================================
