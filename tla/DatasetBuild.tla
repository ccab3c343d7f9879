------------------------------- MODULE DatasetBuild -------------------------------
(***************************************************************************)
(* Building a dataset of the originals of one batch                        *)
(* (application/securities/dataset_service.py and dataset/): the third     *)
(* party's statements are parsed and screened, the annual reports are read *)
(* one by one, each annual row is given the basis on which a report agrees *)
(* with it, and the dataset is published if the blocking checks pass.      *)
(*                                                                         *)
(* Amounts are integers in yuan.  A period is a year and a kind of report, *)
(* which is what its date says.  The catalogue (statements, fields, key    *)
(* items, rules) is a parameter; so are the originals there may be.        *)
(***************************************************************************)
EXTENDS Integers, FiniteSets, FiniteSetsExt

CONSTANTS
    None,
    Statements,
    KeyItems,        \* [item, table, field], KEY_ITEMS
    Rules,           \* [table, terms: SUBSET [name, sign, optional]], RECONCILIATION_RULES
    Required,        \* [Statements -> set of fields], _REQUIRED
    CashFlow, BeginCash, EndCash,   \* the statement and the fields of the cash carried over
    HardYears,       \* security_dataset_hard_years
    MinItems,        \* _MIN_ITEMS
    Tolerance,       \* TOLERANCE_YUAN
    StatementData,   \* the sets of raw rows the third party may have given
    Reports,         \* the annual reports of the batch: [title, year, disclosed, revised]
    Readings(_)      \* what may be read of a report: [route, unit, columns], or None

ASSUME BuildAssumption ==
    /\ HardYears \in Nat \ {0} /\ MinItems \in Nat \ {0} /\ Tolerance \in Nat
    /\ \A data \in StatementData : IsFiniteSet(data) /\ \A r \in data : r.year \in Int
    /\ IsFiniteSet(Reports) /\ \A r \in Reports : {r.year, r.disclosed} \subseteq Int

VARIABLES
    stage,       \* how far build has got
    raw,         \* the rows the third party gave
    rows,        \* the rows that passed the screening
    unread,      \* the reports still to be read
    figures,     \* what the reports say
    explained,   \* per year, the report whose explanation of a restatement is kept
    decided      \* [years -> [basis, against]], once it is decided

buildVars == <<stage, raw, rows, unread, figures, explained, decided>>

Undecided == [y \in {} |-> None]

BuildInit ==
    /\ stage = "statements"
    /\ raw = {}
    /\ rows = {}
    /\ unread = Reports
    /\ figures = {}
    /\ explained = [y \in {} |-> None]
    /\ decided = Undecided

Abs(n) == IF n < 0 THEN -n ELSE n
Larger(m, n) == IF m >= n THEN m ELSE n
Period(row) == <<row.year, row.type>>

--------------------------------------------------------------------------------
(* The statements.                                                          *)

\* _residual: a rule says nothing of a row that lacks one of its terms.
Applies(rule, row) ==
    /\ row.statement = rule.table
    /\ \A t \in rule.terms : t.optional \/ row.values[t.name] # None

Residual(rule, row) ==
    MapThenSumSet(LAMBDA t : t.sign * row.values[t.name],
                  {t \in rule.terms : row.values[t.name] # None})

Balanced(rule, row) == Applies(rule, row) => Abs(Residual(rule, row)) <= Tolerance

FirstHardYear(rs) == Max({r.year : r \in rs}) - HardYears + 1

Dropped_bug(rs) ==   \* whatever its year
    {Period(r) : r \in {x \in rs : \E rule \in Rules : ~Balanced(rule, x)}}

\* screen: before the hard window a period that does not balance is dropped from every
\* statement; within it nothing is.
Dropped(rs) ==
    {Period(r) : r \in {x \in rs : /\ x.year < FirstHardYear(rs)
                                   /\ \E rule \in Rules : ~Balanced(rule, x)}}

\* parse_statement: payloads may repeat a period, but not with other values.
Conflicting(rs) ==
    \E r, other \in rs :
        /\ r.statement = other.statement
        /\ Period(r) = Period(other)
        /\ r.values # other.values

ReadStatements ==
    /\ stage = "statements"
    /\ \E data \in StatementData :
        /\ raw' = data
        /\ IF Conflicting(data) \/ \E s \in Statements : \A r \in data : r.statement # s
           THEN stage' = "refused" /\ UNCHANGED rows
           ELSE /\ rows' = {r \in data : Period(r) \notin Dropped(data)}
                /\ stage' = IF Reports = {} THEN "refused" ELSE "reports"
    /\ UNCHANGED <<unread, figures, explained, decided>>

--------------------------------------------------------------------------------
(* The annual reports.                                                      *)

\* The basis of a column: the year it is of, and whether it is marked as adjusted.
BasisOf(column, report) ==
    CASE column.year = report.year /\ column.marker = "none" -> "original"
      [] column.marker = "after" -> "restated"
      [] column.marker = "before" -> "original"
      [] column.marker = "none" /\ column.year < report.year -> "comparative"
      [] OTHER -> None

\* OfficialFigure.  Figures of the table of key figures are taken to be precise to one
\* yuan, whatever its unit; those of the statements to the unit of the statement.
FiguresOf(report, reading) ==
    LET columns == {c \in reading.columns : BasisOf(c, report) # None}
        printed(c) == {i \in {k.item : k \in KeyItems} : c.amounts[i] # None}
        figure(c, i) ==
          [year |-> c.year, item |-> i, value |-> c.amounts[i] * reading.unit,
           basis |-> BasisOf(c, report), report |-> report,
           precision |-> IF reading.route = "statements" THEN reading.unit ELSE 1]
    IN  UNION {{figure(c, i) : i \in printed(c)} : c \in columns}

\* A reading with less than three items of the report's own year is a problem.
Recognized(report, reading) ==
    /\ reading # None
    /\ Cardinality({f.item : f \in {g \in FiguresOf(report, reading) :
                                        g.year = report.year}}) >= MinItems

\* The reports are read in the order of their years, and of their disclosure.
NextReport ==
    CHOOSE r \in unread : \A other \in unread :
        r.year < other.year \/ (r.year = other.year /\ r.disclosed <= other.disclosed)

RestatedYears(report, reading) ==
    {f.year : f \in {g \in FiguresOf(report, reading) : g.basis = "restated"}}

ReadReport ==
    /\ stage = "reports" /\ unread # {}
    /\ LET r == NextReport IN
        /\ unread' = unread \ {r}
        /\ \E reading \in Readings(r) :
              IF Recognized(r, reading)
              THEN /\ figures' = figures \cup FiguresOf(r, reading)
                   /\ LET new == IF reading.explains THEN RestatedYears(r, reading) ELSE {} IN
                      explained' = [y \in DOMAIN explained \cup new |->
                          IF y \in DOMAIN explained THEN explained[y] ELSE r]
              ELSE UNCHANGED <<figures, explained>>
    /\ UNCHANGED <<stage, raw, rows, decided>>

--------------------------------------------------------------------------------
(* The basis of each year (assign_basis).                                   *)

\* The value of a key item in the annual rows of a year.
ValueOf(year, item) ==
    LET k == CHOOSE k \in KeyItems : k.item = item
        at == {r \in rows : /\ r.statement = k.table /\ r.year = year /\ r.type = "annual"
                            /\ r.values[k.field] # None}
    IN  IF at = {} THEN None ELSE (CHOOSE r \in at : TRUE).values[k.field]

Near(f) == Abs(ValueOf(f.year, f.item) - f.value) <= Larger(Tolerance, f.precision)

ColumnOf(year, basis, report) ==
    {f \in figures : f.year = year /\ f.basis = basis /\ f.report = report}

Common(year, column) == {f \in column : ValueOf(year, f.item) # None}

Agrees_bug(year, column) ==   \* most of them
    LET near == {f \in Common(year, column) : Near(f)} IN
    /\ Cardinality(Common(year, column)) >= MinItems
    /\ 2 * Cardinality(near) > Cardinality(Common(year, column))

\* All comparable items agree, and there are enough of them.
Agrees(year, column) ==
    /\ Cardinality(Common(year, column)) >= MinItems
    /\ \A f \in Common(year, column) : Near(f)

Earlier(r, other) ==
    \/ r.disclosed < other.disclosed
    \/ r.disclosed = other.disclosed /\ (other.revised \/ ~r.revised)

First(rs) == CHOOSE r \in rs : \A other \in rs : Earlier(r, other)

Agreeing(year, basis) == {r \in Reports : Agrees(year, ColumnOf(year, basis, r))}

\* _decide: the report of the year itself first, then what later ones say of it.
Decide(year) ==
    LET own == {r \in Agreeing(year, "original") : r.year = year}
        original == Agreeing(year, "original")
        restated == Agreeing(year, "restated")
        comparative == Agreeing(year, "comparative")
        disclosed == \E f \in figures : f.year = year /\ f.basis = "original"
    IN  CASE own # {} -> [basis |-> "original", against |-> First(own)]
          [] own = {} /\ original # {} -> [basis |-> "original", against |-> First(original)]
          [] original = {} /\ restated # {} ->
                [basis |-> "restated", against |-> First(restated)]
          [] original = {} /\ restated = {} /\ disclosed /\ comparative # {} ->
                [basis |-> "restated", against |-> First(comparative)]
          [] OTHER -> [basis |-> "unverified", against |-> None]

AnnualYears == {r.year : r \in {x \in rows : x.type = "annual"}}

AssignBasis ==
    /\ stage = "reports" /\ unread = {}
    /\ decided' = [y \in AnnualYears |-> Decide(y)]
    /\ stage' = "checks"
    /\ UNCHANGED <<raw, rows, unread, figures, explained>>

--------------------------------------------------------------------------------
(* The blocking checks (run_checks).                                        *)

\* The years of which a report has been read.
Window == {f.report.year : f \in figures}

Structure ==
    \A s \in Statements :
        /\ \E r \in rows : r.statement = s
        /\ \A r \in rows :
            r.statement = s /\ r.type = "annual" /\ r.year \in Window
            => \A name \in Required[s] : r.values[name] # None

Reconciliation ==
    \A rule \in Rules :
        /\ \E r \in rows : Applies(rule, r)
        /\ \A r \in rows : Balanced(rule, r)

Follows(previous, current) ==
    /\ {previous, current} \subseteq {r \in rows : r.statement = CashFlow /\ r.type = "annual"}
    /\ current.year = previous.year + 1
    /\ current.values[BeginCash] # None /\ previous.values[EndCash] # None

CarriedOver(previous, current) ==
    Abs(current.values[BeginCash] - previous.values[EndCash]) <= Tolerance

Restated(year) == decided[year].basis = "restated"

Continuity_bug ==   \* the later year alone can explain a break
    \A previous, current \in rows :
        Follows(previous, current) =>
            \/ CarriedOver(previous, current)
            \/ decided[current.year].basis # "original"
            \/ current.year < FirstHardYear(raw)

\* The cash at the beginning of a year is that at the end of the year before, or one of
\* the two is restated, or it is long ago.
Continuity ==
    \A previous, current \in rows :
        Follows(previous, current) =>
            \/ CarriedOver(previous, current)
            \/ Restated(previous.year) \/ Restated(current.year)
            \/ current.year < FirstHardYear(raw)

\* Q-OFFICIAL: what a row was verified against does not contradict it.
Official ==
    \A f \in figures :
        /\ f.basis # "comparative"
        /\ f.year \in AnnualYears
        /\ decided[f.year] = [basis |-> f.basis, against |-> f.report]
        /\ ValueOf(f.year, f.item) # None
        => Near(f)

BasisCoverage ==
    /\ AnnualYears \cap Window # {}
    /\ \A y \in AnnualYears \cap Window : decided[y].basis # "unverified"

Publish ==
    /\ stage = "checks"
    /\ stage' = IF /\ Structure /\ Reconciliation /\ Continuity /\ Official
                   /\ BasisCoverage
                THEN "published" ELSE "quality_failed"
    /\ UNCHANGED <<raw, rows, unread, figures, explained, decided>>

BuildNext == ReadStatements \/ ReadReport \/ AssignBasis \/ Publish

BuildSpec == BuildInit /\ [][BuildNext]_buildVars

--------------------------------------------------------------------------------
(* Properties.                                                              *)

\* In a published dataset the annual figures of a year of which a report was read agree,
\* item by item, with one column of the very report they are said to be verified against,
\* and that column was the first disclosure of the year just if the dataset says so.
PublishedAgrees ==
    stage = "published" =>
        \A y \in AnnualYears \cap Window : \E b \in {"original", "restated", "comparative"} :
            LET said == {f \in figures : f.year = y /\ f.report = decided[y].against /\ f.basis = b
                                         /\ ValueOf(y, f.item) # None}
            IN  /\ (b = "original") = (decided[y].basis = "original")
                /\ Cardinality(said) >= MinItems
                /\ \A f \in said : Near(f)

\* No period is missing of a published dataset but old ones that did not balance; those
\* are missing of every statement, and all that is left balances.
OnlyOldPeriodsMissing ==
    stage = "published" =>
        /\ \A r \in raw \ rows :
            /\ r.year <= Max({x.year : x \in raw}) - HardYears
            /\ \E x \in raw, rule \in Rules :
                  Period(x) = Period(r) /\ ~Balanced(rule, x)
        /\ {Period(r) : r \in raw \ rows} \cap {Period(r) : r \in rows} = {}
        /\ \A r \in rows, rule \in Rules : Balanced(rule, r)

\* A break of the cash between two recent years of a published dataset has a reason: one
\* of the years is not as it was first disclosed.
BreaksAreRestatements ==
    stage = "published" =>
        \A previous, current \in rows :
            /\ Follows(previous, current)
            /\ ~CarriedOver(previous, current)
            /\ current.year > Max({x.year : x \in raw}) - HardYears
            => \E y \in {previous.year, current.year} :
                  /\ \E f \in figures : f.year = y /\ f.basis # "original"
                  /\ ~\E r \in Reports : Agrees(y, ColumnOf(y, "original", r))
====================================================================================
