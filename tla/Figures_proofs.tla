------------------------------ MODULE Figures_proofs ------------------------------
(* Datasets of any number of reports, periods and items, and columns of any number of    *)
(* amounts: what is published agrees with a report and balances, its breaks have         *)
(* reasons, and a comparison says of every amount once what became of it.                *)
EXTENDS DatasetBuild, CrossYear, WellFoundedInduction, FiniteSetTheorems, TLAPS

\* A set of natural numbers that is not empty has a least one.
LEMMA LeastNatural ==
    ASSUME NEW S \in SUBSET Nat, S # {}
    PROVE  \E n \in S : \A m \in S : n <= m
<1> DEFINE R == OpToRel(<, Nat)
<1>1. IsWellFoundedOn(R, Nat)
  BY NatLessThanWellFounded
<1>2. PICK n \in S : \A y \in S : ~(<<y, n>> \in R)
  BY <1>1, WFMin
<1>3. \A y \in S : ~(y < n)
  BY <1>2 DEF OpToRel
<1>. QED BY <1>3

(* Building a dataset.                                                                  *)

\* A finite set of integers that is not empty has a largest one: that below which the
\* fewest are missing.
LEMMA FiniteHasLargest ==
    ASSUME NEW S \in SUBSET Int, IsFiniteSet(S), S # {}
    PROVE  \E x \in S : \A y \in S : y <= x
<1> DEFINE Above(x) == {y \in S : y > x}
           Counts == {Cardinality(Above(x)) : x \in S}
<1>1. \A x \in S : IsFiniteSet(Above(x)) /\ Cardinality(Above(x)) \in Nat
  BY FS_Subset, FS_CardinalityType
<1>2. PICK x \in S : \A y \in S : Cardinality(Above(x)) <= Cardinality(Above(y))
  <2>1. Counts \in SUBSET Nat /\ Counts # {}
    BY <1>1
  <2> HIDE DEF Counts
  <2>2. PICK c \in Counts : \A d \in Counts : c <= d
    BY <2>1, LeastNatural
  <2>. QED BY <2>2 DEF Counts
<1>3. ASSUME NEW y \in S, y > x PROVE FALSE
  <2>1. \A z \in S : z \in Int
    OBVIOUS
  <2>2. \A z \in S : z > y => z > x
    BY <1>3, <2>1
  <2>3. Above(y) \subseteq Above(x) /\ y \in Above(x)
    BY <1>3, <2>2
  <2>4. y \notin Above(y)
    BY <2>1
  <2> HIDE DEF Above
  <2>5. Cardinality(Above(y)) < Cardinality(Above(x))
    <3>1. Above(y) # Above(x)
      BY <2>3, <2>4
    <3>. QED BY <2>3, <3>1, <1>1, FS_Subset
  <2>. QED BY <2>5, <1>2, <1>1
<1>. QED BY <1>3

LEMMA FiniteImage ==
    ASSUME NEW S, IsFiniteSet(S), NEW f, DOMAIN f = S
    PROVE  IsFiniteSet({f[x] : x \in S})
<1> DEFINE T == {f[x] : x \in S}
           g == [x \in S |-> f[x]]
<1>1. g \in [S -> T] /\ \A t \in T : \E x \in S : g[x] = t
  OBVIOUS
<1> HIDE DEF T, g
<1>2. g \in Surjection(S, T)
  BY <1>1 DEF Surjection
<1>. QED BY <1>2, FS_Surjection DEF T

LEMMA FiniteHasLeast ==
    ASSUME NEW S \in SUBSET Int, IsFiniteSet(S), S # {}
    PROVE  \E x \in S : \A y \in S : x <= y
<1> DEFINE Negated == {-y : y \in S}
<1>1. Negated \in SUBSET Int /\ Negated # {}
  <2>1. \A y \in S : y \in Int /\ -y \in Int /\ -y \in Negated
    OBVIOUS
  <2>2. \A n \in Negated : n \in Int
    BY <2>1
  <2>. QED BY <2>1, <2>2
<1>2. IsFiniteSet(Negated)
  <2> DEFINE f == [y \in S |-> -y]
  <2>1. DOMAIN f = S /\ Negated = {f[x] : x \in S}
    OBVIOUS
  <2> HIDE DEF f, Negated
  <2>. QED BY <2>1, FiniteImage
<1> HIDE DEF Negated
<1>3. PICK m \in Negated : \A y \in Negated : y <= m
  BY <1>1, <1>2, FiniteHasLargest
<1>4. \A y \in S : y \in Int /\ -y \in Negated /\ -(-y) = y
  BY DEF Negated
<1>5. PICK x \in S : m = -x
  BY DEF Negated
<1>6. ASSUME NEW y \in S PROVE x <= y
  BY <1>3, <1>4, <1>5
<1>. QED BY <1>6

LEMMA MaxIsLargest ==
    ASSUME NEW S \in SUBSET Int, IsFiniteSet(S), S # {}
    PROVE  Max(S) \in S /\ \A y \in S : y <= Max(S)
<1>1. \E x \in S : \A y \in S : x >= y
  <2>1. PICK x \in S : \A y \in S : y <= x
    BY FiniteHasLargest
  <2>. QED BY <2>1
<1>. QED BY <1>1 DEF Max

\* The reports are read earliest year first, and the first disclosed first.
LEMMA NextReportIsUnread ==
    ASSUME NEW S \in SUBSET Reports, S # {}
    PROVE  \E r \in S : \A other \in S :
               r.year < other.year \/ (r.year = other.year /\ r.disclosed <= other.disclosed)
<1> DEFINE years == [r \in S |-> r.year]
           Years == {years[r] : r \in S}
<1>1. IsFiniteSet(S) /\ \A r \in S : r.year \in Int /\ r.disclosed \in Int
  BY FS_Subset, BuildAssumption
<1>2. IsFiniteSet(Years)
  <2>1. DOMAIN years = S
    OBVIOUS
  <2> HIDE DEF years
  <2>. QED BY <1>1, <2>1, FiniteImage
<1>3. Years \in SUBSET Int /\ Years # {} /\ \A r \in S : r.year \in Years
  BY <1>1
<1>4. PICK first \in Years : \A y \in Years : first <= y
  <2> HIDE DEF Years
  <2>. QED BY <1>2, <1>3, FiniteHasLeast
<1> DEFINE Early == {r \in S : r.year = first}
           dates == [r \in Early |-> r.disclosed]
           Dates == {dates[r] : r \in Early}
<1>5. IsFiniteSet(Dates)
  <2>1. DOMAIN dates = Early /\ IsFiniteSet(Early)
    BY <1>1, FS_Subset
  <2> HIDE DEF dates, Early
  <2>. QED BY <2>1, FiniteImage
<1>6. Dates \in SUBSET Int /\ Dates # {} /\ \A r \in Early : r.disclosed \in Dates
  BY <1>1
<1>7. PICK date \in Dates : \A d \in Dates : date <= d
  <2> HIDE DEF Dates
  <2>. QED BY <1>5, <1>6, FiniteHasLeast
<1>8. PICK r \in Early : r.disclosed = date
  OBVIOUS
<1>9. ASSUME NEW other \in S
      PROVE  r.year < other.year \/ (r.year = other.year /\ r.disclosed <= other.disclosed)
  <2>1. r.year = first /\ first <= other.year /\ first \in Int /\ other.year \in Int
    BY <1>1, <1>3, <1>4
  <2>2. CASE other.year = first
    BY <2>1, <2>2, <1>6, <1>7, <1>8
  <2>3. CASE other.year # first
    BY <2>1, <2>3
  <2>. QED BY <2>2, <2>3
<1>. QED BY <1>9

Read == stage \in {"reports", "checks", "published", "quality_failed"}
Decided == stage \in {"checks", "published", "quality_failed"}

\* What is left of the rows is what the screening lets pass.
Screened ==
    Read => raw \in StatementData /\ rows = {r \in raw : Period(r) \notin Dropped(raw)}

\* Figures come from the reports of the batch.
FiguresRead ==
    /\ unread \subseteq Reports
    /\ \A f \in figures :
        /\ f.report \in Reports
        /\ f.basis \in {"original", "restated", "comparative"}

BasisAssigned == Decided => decided = [y \in AnnualYears |-> Decide(y)]

ChecksPassed ==
    stage = "published" =>
        Structure /\ Reconciliation /\ Continuity /\ Official /\ BasisCoverage

BuildInv == Screened /\ FiguresRead /\ BasisAssigned /\ ChecksPassed

LEMMA BuildInitInv == BuildInit => BuildInv
BY DEF BuildInit, BuildInv, Screened, FiguresRead, BasisAssigned, ChecksPassed, Read, Decided

LEMMA FiguresAreOfTheReport ==
    ASSUME NEW r \in Reports, NEW reading \in Readings(r) \ {None}
    PROVE  \A f \in FiguresOf(r, reading) :
              /\ f.report = r
              /\ f.basis \in {"original", "restated", "comparative"}
<1> SUFFICES ASSUME NEW f \in FiguresOf(r, reading)
             PROVE  /\ f.report = r
                    /\ f.basis \in {"original", "restated", "comparative"}
  OBVIOUS
<1>1. PICK c \in reading.columns :
        /\ BasisOf(c, r) # None
        /\ f.year = c.year /\ f.basis = BasisOf(c, r) /\ f.report = r
  BY DEF FiguresOf
<1>2. BasisOf(c, r) \in {"original", "restated", "comparative"}
  BY <1>1 DEF BasisOf
<1>. QED BY <1>1, <1>2

\* What is decided depends on the rows and the figures only.
LEMMA SameFigures ==
    ASSUME UNCHANGED <<rows, figures>>
    PROVE  /\ AnnualYears' = AnnualYears /\ Window' = Window
           /\ \A y, i : ValueOf(y, i)' = ValueOf(y, i)
           /\ \A f : Near(f)' = Near(f)
           /\ \A y : Decide(y)' = Decide(y)
<1>1. AnnualYears' = AnnualYears /\ Window' = Window
  BY DEF AnnualYears, Window
<1>2. \A y, i : ValueOf(y, i)' = ValueOf(y, i)
  BY DEF ValueOf
<1>3. \A y, b, r : ColumnOf(y, b, r)' = ColumnOf(y, b, r)
  BY DEF ColumnOf
<1>4. \A f : Near(f)' = Near(f)
  BY <1>2 DEF Near
<1>5. \A y, c : Common(y, c)' = Common(y, c)
  BY <1>2 DEF Common
<1>6. \A y, c : Agrees(y, c)' = Agrees(y, c)
  BY <1>4, <1>5 DEF Agrees
<1>7. \A y, b : Agreeing(y, b)' = Agreeing(y, b)
  BY <1>3, <1>6 DEF Agreeing
<1>8. \A y : Decide(y)' = Decide(y)
  BY <1>7 DEF Decide
<1>. QED BY <1>1, <1>2, <1>4, <1>8

\* The checks look at these four variables.
LEMMA SameChecks ==
    ASSUME UNCHANGED <<raw, rows, figures, decided>>
    PROVE  /\ Structure' = Structure /\ Reconciliation' = Reconciliation
           /\ Continuity' = Continuity /\ Official' = Official
           /\ BasisCoverage' = BasisCoverage
<1>1. /\ AnnualYears' = AnnualYears /\ Window' = Window
      /\ \A y, i : ValueOf(y, i)' = ValueOf(y, i)
      /\ \A f : Near(f)' = Near(f)
  BY SameFigures
<1>2. Structure' = Structure /\ Reconciliation' = Reconciliation
  BY <1>1 DEF Structure, Reconciliation
<1>3. Continuity' = Continuity
  BY DEF Continuity, Follows, CarriedOver, Restated
<1>4. Official' = Official
  BY <1>1 DEF Official
<1>5. BasisCoverage' = BasisCoverage
  BY <1>1 DEF BasisCoverage
<1>. QED BY <1>2, <1>3, <1>4, <1>5

LEMMA SameScreening ==
    ASSUME UNCHANGED <<raw, rows>>, Screened, Read' => Read
    PROVE  Screened'
<1>. QED BY DEF Screened

LEMMA BuildReadStatements ==
    ASSUME BuildInv, ReadStatements
    PROVE  BuildInv'
<1> USE DEF BuildInv
<1>1. PICK data \in StatementData :
        /\ raw' = data
        /\ IF Conflicting(data) \/ \E s \in Statements : \A r \in data : r.statement # s
           THEN stage' = "refused" /\ UNCHANGED rows
           ELSE /\ rows' = {r \in data : Period(r) \notin Dropped(data)}
                /\ stage' = IF Reports = {} THEN "refused" ELSE "reports"
  BY DEF ReadStatements
<1>2. UNCHANGED <<unread, figures, explained, decided>> /\ stage' \in {"refused", "reports"}
  BY <1>1 DEF ReadStatements
<1>3. Screened'
  BY <1>1 DEF Screened, Read
<1>4. FiguresRead' /\ BasisAssigned' /\ ChecksPassed'
  BY <1>2 DEF FiguresRead, BasisAssigned, ChecksPassed, Decided
<1>. QED BY <1>3, <1>4

LEMMA BuildReadReport ==
    ASSUME BuildInv, ReadReport
    PROVE  BuildInv'
<1> USE DEF BuildInv
<1>1. UNCHANGED <<stage, raw, rows, decided>> /\ stage = "reports" /\ unread # {}
  BY DEF ReadReport
<1>2. NextReport \in unread
  BY <1>1, NextReportIsUnread DEF NextReport, FiguresRead
<1>3. unread' \subseteq unread
  BY DEF ReadReport
<1>4. PICK reading \in Readings(NextReport) :
        IF Recognized(NextReport, reading)
        THEN figures' = figures \cup FiguresOf(NextReport, reading)
        ELSE UNCHANGED figures
  BY DEF ReadReport
<1>5. FiguresRead'
  <2>1. CASE Recognized(NextReport, reading)
    <3>1. reading \in Readings(NextReport) \ {None} /\ NextReport \in Reports
      BY <2>1, <1>2 DEF Recognized, FiguresRead
    <3>2. \A f \in FiguresOf(NextReport, reading) :
            /\ f.report = NextReport
            /\ f.basis \in {"original", "restated", "comparative"}
      BY <3>1, FiguresAreOfTheReport
    <3>. QED BY <1>3, <1>4, <2>1, <3>1, <3>2 DEF FiguresRead
  <2>2. CASE ~Recognized(NextReport, reading)
    BY <1>3, <1>4, <2>2 DEF FiguresRead
  <2>. QED BY <2>1, <2>2
<1>6. Screened' /\ BasisAssigned' /\ ChecksPassed'
  <2>1. Screened'
    BY <1>1, SameScreening DEF Read
  <2>. QED BY <1>1, <2>1 DEF BasisAssigned, ChecksPassed, Decided
<1>. QED BY <1>5, <1>6

LEMMA BuildAssign ==
    ASSUME BuildInv, AssignBasis
    PROVE  BuildInv'
<1> USE DEF BuildInv
<1>1. /\ UNCHANGED <<raw, rows, unread, figures, explained>>
      /\ stage = "reports" /\ stage' = "checks"
      /\ decided' = [y \in AnnualYears |-> Decide(y)]
  BY DEF AssignBasis
<1>2. BasisAssigned'
  BY <1>1, SameFigures DEF BasisAssigned
<1>3. Screened'
  BY <1>1, SameScreening DEF Read
<1>4. FiguresRead' /\ ChecksPassed'
  BY <1>1 DEF FiguresRead, ChecksPassed
<1>. QED BY <1>2, <1>3, <1>4

LEMMA BuildPublish ==
    ASSUME BuildInv, Publish
    PROVE  BuildInv'
<1> USE DEF BuildInv
<1>1. /\ UNCHANGED <<raw, rows, unread, figures, explained, decided>>
      /\ stage = "checks" /\ stage' \in {"published", "quality_failed"}
  BY DEF Publish
<1>2. BasisAssigned'
  BY <1>1, SameFigures DEF BasisAssigned, Decided
<1>3. Screened'
  BY <1>1, SameScreening DEF Read
<1>4. ChecksPassed'
  <2>1. stage' = "published" =>
            Structure /\ Reconciliation /\ Continuity /\ Official /\ BasisCoverage
    BY DEF Publish
  <2>. QED BY <1>1, <2>1, SameChecks DEF ChecksPassed
<1>5. FiguresRead'
  BY <1>1 DEF FiguresRead
<1>. QED BY <1>2, <1>3, <1>4, <1>5

LEMMA BuildStep == BuildInv /\ [BuildNext]_buildVars => BuildInv'
<1> SUFFICES ASSUME BuildInv, [BuildNext]_buildVars PROVE BuildInv'
  OBVIOUS
<1>1. CASE UNCHANGED buildVars
  <2>1. UNCHANGED <<stage, raw, rows, unread, figures, explained, decided>>
    BY <1>1 DEF buildVars
  <2>2. Screened'
    BY <2>1, SameScreening DEF BuildInv, Read
  <2>3. BasisAssigned'
    BY <2>1, SameFigures DEF BuildInv, BasisAssigned, Decided
  <2>4. ChecksPassed'
    BY <2>1, SameChecks DEF BuildInv, ChecksPassed
  <2>5. FiguresRead'
    BY <2>1 DEF BuildInv, FiguresRead
  <2>. QED BY <2>2, <2>3, <2>4, <2>5 DEF BuildInv
<1>. QED BY <1>1, BuildReadStatements, BuildReadReport, BuildAssign, BuildPublish DEF BuildNext

\* The latest year of the rows.
LEMMA LatestYear ==
    ASSUME NEW data \in StatementData, NEW r \in data
    PROVE  /\ Max({x.year : x \in data}) \in Int
           /\ r.year \in Int /\ r.year <= Max({x.year : x \in data})
<1> DEFINE year == [x \in data |-> x.year]
           Years == {year[x] : x \in data}
<1>1. IsFiniteSet(data) /\ \A x \in data : x.year \in Int
  BY BuildAssumption
<1>2. IsFiniteSet(Years)
  <2>1. DOMAIN year = data
    OBVIOUS
  <2> HIDE DEF year
  <2>. QED BY <1>1, <2>1, FiniteImage
<1>3. Years = {x.year : x \in data} /\ r.year \in Years /\ Years \in SUBSET Int
  BY <1>1
<1> HIDE DEF Years
<1>4. Max(Years) \in Years /\ r.year <= Max(Years)
  BY <1>2, <1>3, MaxIsLargest
<1>. QED BY <1>1, <1>3, <1>4

\* What is agreed with has been read: a column that agrees is not empty.
LEMMA AgreeingWasRead ==
    ASSUME NEW y, NEW b, NEW r \in Agreeing(y, b)
    PROVE  /\ r \in Reports
           /\ \E f \in figures : f.year = y /\ f.basis = b /\ f.report = r
<1>1. Agrees(y, ColumnOf(y, b, r)) /\ r \in Reports
  BY DEF Agreeing
<1>2. Common(y, ColumnOf(y, b, r)) # {}
  BY <1>1, FS_EmptySet, BuildAssumption DEF Agrees
<1>. QED BY <1>1, <1>2 DEF Common, ColumnOf

\* Of the reports that agree with a year, the first to be disclosed is one.
LEMMA FirstAgrees ==
    ASSUME NEW S \in SUBSET Reports, S # {}
    PROVE  First(S) \in S
<1> DEFINE dates == [r \in S |-> r.disclosed]
           Dates == {dates[r] : r \in S}
<1>1. IsFiniteSet(S) /\ \A r \in S : r.disclosed \in Int
  BY FS_Subset, BuildAssumption
<1>2. IsFiniteSet(Dates)
  <2>1. DOMAIN dates = S
    OBVIOUS
  <2> HIDE DEF dates
  <2>. QED BY <1>1, <2>1, FiniteImage
<1>3. Dates \in SUBSET Int /\ Dates # {} /\ \A r \in S : r.disclosed \in Dates
  BY <1>1
<1>4. PICK date \in Dates : \A d \in Dates : date <= d
  <2> HIDE DEF Dates
  <2>. QED BY <1>2, <1>3, FiniteHasLeast
<1>5. PICK r \in S : r.disclosed = date
  OBVIOUS
<1>6. \A other \in S : date < other.disclosed \/ date = other.disclosed
  <2> SUFFICES ASSUME NEW other \in S
               PROVE  date < other.disclosed \/ date = other.disclosed
    OBVIOUS
  <2>1. other.disclosed \in Dates
    BY <1>3
  <2> HIDE DEF Dates
  <2>2. date \in Int /\ other.disclosed \in Int /\ date <= other.disclosed
    BY <2>1, <1>3, <1>4
  <2>. QED BY <2>2
<1>7. \E f \in S : \A other \in S : Earlier(f, other)
  <2>1. CASE \E f \in S : f.disclosed = date /\ ~f.revised
    BY <2>1, <1>6 DEF Earlier
  <2>2. CASE ~\E f \in S : f.disclosed = date /\ ~f.revised
    <3>1. \A other \in S : Earlier(r, other)
      BY <2>2, <1>5, <1>6 DEF Earlier
    <3>. QED BY <3>1
  <2>. QED BY <2>1, <2>2
<1>. QED BY <1>7 DEF First

\* What is decided of a year that is verified: the report is one that agrees with it.
LEMMA DecidedAgrees ==
    ASSUME NEW y, Decide(y).basis # "unverified"
    PROVE  \E b \in {"original", "restated", "comparative"} :
              /\ (b = "original") = (Decide(y).basis = "original")
              /\ Decide(y).against \in Agreeing(y, b)
<1>1. \A b : Agreeing(y, b) \in SUBSET Reports
  BY DEF Agreeing
<1> DEFINE own == {r \in Agreeing(y, "original") : r.year = y}
<1>2. CASE own # {}
  <2>1. First(own) \in own
    BY <1>1, <1>2, FirstAgrees
  <2>2. Decide(y) = [basis |-> "original", against |-> First(own)]
    BY <1>2 DEF Decide
  <2>. QED BY <2>1, <2>2
<1>3. CASE own = {} /\ Agreeing(y, "original") # {}
  <2>1. First(Agreeing(y, "original")) \in Agreeing(y, "original")
    BY <1>1, <1>3, FirstAgrees
  <2>2. Decide(y) = [basis |-> "original", against |-> First(Agreeing(y, "original"))]
    BY <1>3 DEF Decide
  <2>. QED BY <2>1, <2>2
<1>4. CASE Agreeing(y, "original") = {} /\ Agreeing(y, "restated") # {}
  <2>1. First(Agreeing(y, "restated")) \in Agreeing(y, "restated")
    BY <1>1, <1>4, FirstAgrees
  <2>2. Decide(y) = [basis |-> "restated", against |-> First(Agreeing(y, "restated"))]
    BY <1>4 DEF Decide
  <2>. QED BY <2>1, <2>2
<1>5. CASE Agreeing(y, "original") = {} /\ Agreeing(y, "restated") = {}
  <2>1. /\ Agreeing(y, "comparative") # {}
        /\ Decide(y) = [basis |-> "restated", against |-> First(Agreeing(y, "comparative"))]
    BY <1>5 DEF Decide
  <2>2. First(Agreeing(y, "comparative")) \in Agreeing(y, "comparative")
    BY <1>1, <2>1, FirstAgrees
  <2>. QED BY <2>1, <2>2
<1>. QED BY <1>2, <1>3, <1>4, <1>5

LEMMA BuildAgrees == BuildInv => PublishedAgrees
<1> DEFINE said(y, r, b) == {f \in figures : f.year = y /\ f.report = r /\ f.basis = b
                                             /\ ValueOf(y, f.item) # None}
<1> SUFFICES ASSUME BuildInv, stage = "published", NEW y \in AnnualYears \cap Window
             PROVE  \E b \in {"original", "restated", "comparative"} :
                      /\ (b = "original") = (decided[y].basis = "original")
                      /\ Cardinality(said(y, decided[y].against, b)) >= MinItems
                      /\ \A f \in said(y, decided[y].against, b) : Near(f)
  BY DEF PublishedAgrees
<1>1. decided[y] = Decide(y) /\ Decide(y).basis # "unverified"
  BY DEF BuildInv, ChecksPassed, BasisAssigned, Decided, BasisCoverage
<1>2. PICK b \in {"original", "restated", "comparative"} :
        /\ (b = "original") = (Decide(y).basis = "original")
        /\ Decide(y).against \in Agreeing(y, b)
  BY <1>1, DecidedAgrees
<1>3. said(y, decided[y].against, b) = Common(y, ColumnOf(y, b, decided[y].against))
  BY DEF Common, ColumnOf
<1>4. /\ Cardinality(said(y, decided[y].against, b)) >= MinItems
      /\ \A f \in said(y, decided[y].against, b) : Near(f)
  BY <1>1, <1>2, <1>3 DEF Agreeing, Agrees
<1> HIDE DEF said
<1>. QED BY <1>1, <1>2, <1>4

\* What the build publishes of a year with a report agrees with a column of the report it
\* is said to be verified against, whatever reports there are and in whatever order they
\* were disclosed: the gate of assign_basis is passed before anything is published.
THEOREM PublishedYearsAgree == BuildSpec => []PublishedAgrees
BY BuildInitInv, BuildStep, BuildAgrees, PTL DEF BuildSpec

LEMMA BuildMissing == BuildInv => OnlyOldPeriodsMissing
<1> SUFFICES ASSUME BuildInv, stage = "published" PROVE OnlyOldPeriodsMissing
  BY DEF OnlyOldPeriodsMissing
<1>1. raw \in StatementData /\ rows = {r \in raw : Period(r) \notin Dropped(raw)}
  BY DEF BuildInv, Screened, Read
<1>2. ASSUME NEW r \in raw \ rows
      PROVE  /\ r.year <= Max({x.year : x \in raw}) - HardYears
             /\ \E x \in raw, rule \in Rules : Period(x) = Period(r) /\ ~Balanced(rule, x)
  <2>1. PICK x \in raw : /\ x.year < FirstHardYear(raw)
                         /\ Period(x) = Period(r)
                         /\ \E rule \in Rules : ~Balanced(rule, x)
    BY <1>1, <1>2 DEF Dropped
  <2>2. x.year = r.year
    BY <2>1 DEF Period
  <2>3. r.year \in Int /\ Max({z.year : z \in raw}) \in Int
    BY <1>1, LatestYear
  <2>4. r.year <= Max({z.year : z \in raw}) - HardYears
    BY <2>1, <2>2, <2>3, BuildAssumption DEF FirstHardYear
  <2>. QED BY <2>1, <2>4
<1>3. {Period(r) : r \in raw \ rows} \cap {Period(r) : r \in rows} = {}
  BY <1>1
<1>4. \A r \in rows, rule \in Rules : Balanced(rule, r)
  BY DEF BuildInv, ChecksPassed, Reconciliation
<1>. QED BY <1>2, <1>3, <1>4 DEF OnlyOldPeriodsMissing

\* The screening of the periods drops old ones that do not balance, each with all its
\* statements, and nothing else; all that is published balances.
THEOREM OnlyOldPeriodsAreMissing == BuildSpec => []OnlyOldPeriodsMissing
BY BuildInitInv, BuildStep, BuildMissing, PTL DEF BuildSpec

LEMMA RestatedYear ==
    ASSUME NEW y, Decide(y).basis = "restated"
    PROVE  /\ \E f \in figures : f.year = y /\ f.basis # "original"
           /\ ~\E r \in Reports : Agrees(y, ColumnOf(y, "original", r))
<1>1. Agreeing(y, "original") = {}
  BY DEF Decide
<1>2. PICK b \in {"restated", "comparative"} : Agreeing(y, b) # {}
  <2>1. Agreeing(y, "restated") # {} \/ Agreeing(y, "comparative") # {}
    BY DEF Decide
  <2>. QED BY <2>1
<1>3. PICK r \in Agreeing(y, b) : TRUE
  BY <1>2
<1>4. \E f \in figures : f.year = y /\ f.basis = b /\ f.report = r
  BY <1>3, AgreeingWasRead
<1>5. b # "original"
  OBVIOUS
<1>. QED BY <1>1, <1>4, <1>5 DEF Agreeing

LEMMA BuildBreaks == BuildInv => BreaksAreRestatements
<1> SUFFICES ASSUME BuildInv, stage = "published", NEW previous \in rows, NEW current \in rows,
                    Follows(previous, current), ~CarriedOver(previous, current),
                    current.year > Max({x.year : x \in raw}) - HardYears
             PROVE  \E y \in {previous.year, current.year} :
                      /\ \E f \in figures : f.year = y /\ f.basis # "original"
                      /\ ~\E r \in Reports : Agrees(y, ColumnOf(y, "original", r))
  BY DEF BreaksAreRestatements
<1>1. raw \in StatementData /\ current \in raw
  BY DEF BuildInv, Screened, Read
<1>2. ~(current.year < FirstHardYear(raw))
  <2>1. current.year \in Int /\ Max({x.year : x \in raw}) \in Int
    BY <1>1, LatestYear
  <2>. QED BY <2>1, BuildAssumption DEF FirstHardYear
<1>3. Restated(previous.year) \/ Restated(current.year)
  BY <1>2 DEF BuildInv, ChecksPassed, Continuity
<1>4. previous.year \in AnnualYears /\ current.year \in AnnualYears
  BY DEF Follows, AnnualYears
<1>5. PICK y \in {previous.year, current.year} : Decide(y).basis = "restated"
  <2>1. decided = [y \in AnnualYears |-> Decide(y)]
    BY DEF BuildInv, BasisAssigned, Decided
  <2>. QED BY <2>1, <1>3, <1>4 DEF Restated
<1>. QED BY <1>5, RestatedYear

\* Cash that is not carried over between two recent years is published only when one of
\* them is a restated year: the check of the continuity knows no other excuse.
THEOREM BreaksHaveReasons == BuildSpec => []BreaksAreRestatements
BY BuildInitInv, BuildStep, BuildBreaks, PTL DEF BuildSpec

--------------------------------------------------------------------------------------
(* Comparing two columns.                                                               *)

\* The elements of a finite set of numbers have the ranks from one to their number.
RankIn(S, j) == Cardinality({m \in S : m <= j})

LEMMA Ranks ==
    ASSUME NEW S \in SUBSET Nat, IsFiniteSet(S)
    PROVE  /\ \A j \in S : RankIn(S, j) \in 1 .. Cardinality(S)
           /\ \A i, j \in S : RankIn(S, i) = RankIn(S, j) => i = j
           /\ \A k \in 1 .. Cardinality(S) : \E j \in S : RankIn(S, j) = k
<1> DEFINE UpTo(j) == {m \in S : m <= j}
           rank == [j \in S |-> RankIn(S, j)]
<1>0. \A j \in S : j \in Nat
  OBVIOUS
<1>1. \A j \in S : IsFiniteSet(UpTo(j)) /\ UpTo(j) \subseteq S /\ j \in UpTo(j)
  BY <1>0, FS_Subset
<1>2. \A j \in S : RankIn(S, j) = Cardinality(UpTo(j))
  BY DEF RankIn
<1>3. ASSUME NEW i \in S, NEW j \in S, i < j
      PROVE  RankIn(S, i) < RankIn(S, j)
  <2>0. \A m \in S : m <= i => m <= j
    BY <1>0, <1>3
  <2>1. UpTo(i) \subseteq UpTo(j)
    BY <2>0
  <2>2. j \notin UpTo(i)
    BY <1>0, <1>3
  <2> HIDE DEF UpTo
  <2>3. UpTo(i) # UpTo(j)
    BY <2>2, <1>1
  <2>4. Cardinality(UpTo(i)) \in Nat /\ Cardinality(UpTo(j)) \in Nat
    BY <1>1, FS_CardinalityType
  <2>5. Cardinality(UpTo(i)) < Cardinality(UpTo(j))
    BY <2>1, <2>3, <2>4, <1>1, FS_Subset
  <2>. QED BY <2>5, <1>2
<1>4. \A i, j \in S : RankIn(S, i) = RankIn(S, j) => i = j
  <2> SUFFICES ASSUME NEW i \in S, NEW j \in S, i # j
               PROVE  RankIn(S, i) # RankIn(S, j)
    OBVIOUS
  <2>1. i < j \/ j < i
    BY <1>0
  <2>2. RankIn(S, i) \in Nat /\ RankIn(S, j) \in Nat
    BY <1>1, <1>2, FS_CardinalityType
  <2>. QED BY <2>1, <2>2, <1>3
<1>5. \A j \in S : RankIn(S, j) \in 1 .. Cardinality(S)
  <2> SUFFICES ASSUME NEW j \in S PROVE RankIn(S, j) \in 1 .. Cardinality(S)
    OBVIOUS
  <2> HIDE DEF UpTo
  <2>1. Cardinality(UpTo(j)) \in Nat /\ Cardinality(UpTo(j)) <= Cardinality(S)
        /\ Cardinality(S) \in Nat
    BY <1>1, FS_Subset, FS_CardinalityType
  <2>2. Cardinality(UpTo(j)) # 0
    BY <1>1, FS_EmptySet
  <2>. QED BY <2>1, <2>2, <1>2
<1>6. ASSUME NEW k \in 1 .. Cardinality(S) PROVE \E j \in S : RankIn(S, j) = k
  <2>1. Cardinality(S) \in Nat
    BY FS_CardinalityType
  <2>2. IsFiniteSet(1 .. Cardinality(S)) /\ Cardinality(1 .. Cardinality(S)) = Cardinality(S)
    <3> DEFINE n == Cardinality(S)
    <3>1. n \in Nat /\ n \in Int /\ 1 \in Int
      BY <2>1
    <3> HIDE DEF n
    <3>2. IsFiniteSet(1 .. n) /\ Cardinality(1 .. n) = IF 1 > n THEN 0 ELSE n - 1 + 1
      BY <3>1, FS_Interval
    <3>3. IsFiniteSet(1 .. n) /\ Cardinality(1 .. n) = n
      BY <3>1, <3>2
    <3>. QED BY <3>3 DEF n
  <2>3. rank \in [S -> 1 .. Cardinality(S)] /\ \A i, j \in S : rank[i] = rank[j] => i = j
    BY <1>4, <1>5
  <2> HIDE DEF rank
  <2>4. rank \in Injection(S, 1 .. Cardinality(S))
    BY <2>3 DEF Injection, IsInjective
  <2>5. rank \in Surjection(S, 1 .. Cardinality(S))
    BY <2>2, <2>4, FS_Injection
  <2>6. \E j \in S : rank[j] = k
    BY <2>5 DEF Surjection
  <2>. QED BY <2>6 DEF rank
<1>. QED BY <1>4, <1>5, <1>6

Compared == step \in {"values", "done"}

\* What is said of the amounts: of each once, and that two agree only if they do.
EarlierOnce ==
    /\ \A i \in 1 .. Len(ours) : \E x \in items : x.earlier = i
    /\ \A x, y \in items : x.earlier = y.earlier /\ x.earlier # 0 => x = y

LaterOnce ==
    /\ \A j \in 1 .. Len(theirs) : \E x \in items : x.later = j
    /\ \A x, y \in items : x.later = y.later /\ x.later # 0 => x = y

ItemsOK ==
    \A x \in items :
        /\ x.earlier \in 0 .. Len(ours) /\ x.later \in 0 .. Len(theirs)
        /\ x.verdict = "agree" =>
               /\ x.earlier # 0 /\ x.later # 0
               /\ Size(ours[x.earlier].value - theirs[x.later].value) <= CoarserUnit

OneAmount == [label : {Unlabelled} \cup STRING, value : Int]
Amounts == Seq(OneAmount)

CrossInv ==
    /\ ours \in Amounts /\ theirs \in Amounts
    /\ Compared => EarlierOnce /\ LaterOnce /\ ItemsOK

\* The amounts with one label, and the place of an amount among them.
LEMMA UnderIsFinite ==
    ASSUME NEW column \in Amounts, NEW label
    PROVE  /\ IsFiniteSet(Under(column, label)) /\ Under(column, label) \in SUBSET Nat
           /\ \A i \in 1 .. Len(column) : i \in Under(column, column[i].label)
           /\ \A i \in Under(column, label) :
                /\ i \in 1 .. Len(column) /\ column[i].label = label
                /\ Occurrence(column, i) = RankIn(Under(column, label), i)
<1>1. Len(column) \in Nat
  BY DEF Amounts
<1>2. IsFiniteSet(1 .. Len(column))
  BY <1>1, FS_Interval
<1>3. Under(column, label) \subseteq 1 .. Len(column)
  BY DEF Under
<1>4. IsFiniteSet(Under(column, label))
  BY <1>2, <1>3, FS_Subset
<1>5. \A i \in Under(column, label) : i \in 1 .. Len(column) /\ column[i].label = label
  BY DEF Under
<1>6. \A i \in Under(column, label) : Occurrence(column, i) = RankIn(Under(column, label), i)
  BY <1>5 DEF Occurrence, RankIn
<1>7. \A i \in 1 .. Len(column) : i \in Under(column, column[i].label)
  BY DEF Under
<1>. QED BY <1>1, <1>3, <1>4, <1>5, <1>6, <1>7

\* An amount whose name can be paired is paired with one amount of the other column.
LEMMA NamedPairs ==
    ASSUME ours \in Amounts, theirs \in Amounts
    PROVE  /\ \A i \in 1 .. Len(ours) :
                Pairable(ours[i].label) => \E j \in 1 .. Len(theirs) : <<i, j>> \in Named
           /\ \A j \in 1 .. Len(theirs) :
                Pairable(theirs[j].label) => \E i \in 1 .. Len(ours) : <<i, j>> \in Named
           /\ \A p, q \in Named : p[1] = q[1] \/ p[2] = q[2] => p = q
<1>1. ASSUME NEW i \in 1 .. Len(ours), Pairable(ours[i].label)
      PROVE  \E j \in 1 .. Len(theirs) : <<i, j>> \in Named
  <2> DEFINE label == ours[i].label
             mine == Under(ours, label)
             other == Under(theirs, label)
  <2>1. i \in mine /\ Occurrence(ours, i) = RankIn(mine, i)
    BY UnderIsFinite
  <2>2. RankIn(mine, i) \in 1 .. Cardinality(mine)
    BY <2>1, UnderIsFinite, Ranks
  <2>3. Cardinality(mine) = Cardinality(other)
    BY <1>1 DEF Pairable
  <2>4. PICK j \in other : RankIn(other, j) = RankIn(mine, i)
    BY <2>2, <2>3, UnderIsFinite, Ranks
  <2>5. /\ j \in 1 .. Len(theirs) /\ theirs[j].label = label
        /\ Occurrence(theirs, j) = RankIn(other, j)
    BY UnderIsFinite
  <2>. QED BY <2>1, <2>4, <2>5, <1>1 DEF Named
<1>2. ASSUME NEW j \in 1 .. Len(theirs), Pairable(theirs[j].label)
      PROVE  \E i \in 1 .. Len(ours) : <<i, j>> \in Named
  <2> DEFINE label == theirs[j].label
             mine == Under(theirs, label)
             other == Under(ours, label)
  <2>1. j \in mine /\ Occurrence(theirs, j) = RankIn(mine, j)
    BY UnderIsFinite
  <2>2. RankIn(mine, j) \in 1 .. Cardinality(mine)
    BY <2>1, UnderIsFinite, Ranks
  <2>3. Cardinality(mine) = Cardinality(other)
    BY <1>2 DEF Pairable
  <2>4. PICK i \in other : RankIn(other, i) = RankIn(mine, j)
    BY <2>2, <2>3, UnderIsFinite, Ranks
  <2>5. /\ i \in 1 .. Len(ours) /\ ours[i].label = label
        /\ Occurrence(ours, i) = RankIn(other, i)
    BY UnderIsFinite
  <2>. QED BY <2>1, <2>4, <2>5, <1>2 DEF Named
<1>3. ASSUME NEW p \in Named, NEW q \in Named, p[1] = q[1] \/ p[2] = q[2]
      PROVE  p = q
  <2> DEFINE label == ours[p[1]].label
  <2>1. /\ p[1] \in 1 .. Len(ours) /\ p[2] \in 1 .. Len(theirs) /\ p = <<p[1], p[2]>>
        /\ q[1] \in 1 .. Len(ours) /\ q[2] \in 1 .. Len(theirs) /\ q = <<q[1], q[2]>>
        /\ theirs[p[2]].label = label /\ ours[q[1]].label = label /\ theirs[q[2]].label = label
        /\ Occurrence(ours, p[1]) = Occurrence(theirs, p[2])
        /\ Occurrence(ours, q[1]) = Occurrence(theirs, q[2])
    BY <1>3 DEF Named
  <2>2. /\ p[1] \in Under(ours, label) /\ q[1] \in Under(ours, label)
        /\ p[2] \in Under(theirs, label) /\ q[2] \in Under(theirs, label)
    BY <2>1, UnderIsFinite
  <2>3. /\ Occurrence(ours, p[1]) = RankIn(Under(ours, label), p[1])
        /\ Occurrence(ours, q[1]) = RankIn(Under(ours, label), q[1])
        /\ Occurrence(theirs, p[2]) = RankIn(Under(theirs, label), p[2])
        /\ Occurrence(theirs, q[2]) = RankIn(Under(theirs, label), q[2])
    BY <2>2, UnderIsFinite
  <2>4. p[1] = q[1] <=> p[2] = q[2]
    <3>1. \A i, j \in Under(ours, label) :
            RankIn(Under(ours, label), i) = RankIn(Under(ours, label), j) => i = j
      BY UnderIsFinite, Ranks
    <3>2. \A i, j \in Under(theirs, label) :
            RankIn(Under(theirs, label), i) = RankIn(Under(theirs, label), j) => i = j
      BY UnderIsFinite, Ranks
    <3> HIDE DEF label
    <3>. QED BY <2>1, <2>2, <2>3, <3>1, <3>2
  <2>. QED BY <2>1, <2>4, <1>3
<1>. QED BY <1>1, <1>2, <1>3

LEMMA CrossInitInv == CrossInit => CrossInv
<1>1. <<>> \in Amounts
  BY DEF Amounts
<1>. QED BY <1>1 DEF CrossInit, CrossInv, Compared

LEMMA CrossTake ==
    ASSUME CrossInv, TakeColumns
    PROVE  CrossInv'
BY ColumnsAssumption DEF TakeColumns, CrossInv, Compared, Amounts, OneAmount

LEMMA JudgedAgree ==
    ASSUME NEW a \in Int, NEW b \in Int, Judge(a, b) = "agree"
    PROVE  Size(a - b) <= CoarserUnit
<1>1. Size(a - b) \in Int /\ Size(Size(a) - Size(b)) \in Int
  BY DEF Size
<1>2. CASE Size(a - b) > CoarserUnit
  <2>1. Judge(a, b) # "agree"
    BY <1>1, <1>2, ColumnsAssumption DEF Judge
  <2>. QED BY <2>1
<1>. QED BY <1>1, <1>2, ColumnsAssumption

LEMMA AmountsHaveValues ==
    ASSUME NEW column \in Amounts, NEW i \in 1 .. Len(column)
    PROVE  column[i].value \in Int
<1>1. column[i] \in OneAmount
  BY DEF Amounts
<1>. QED BY <1>1 DEF OneAmount

LEMMA ItemFields ==
    \A i, j, verdict : /\ Item(i, j, verdict).earlier = i
                       /\ Item(i, j, verdict).later = j
                       /\ Item(i, j, verdict).verdict = verdict
BY DEF Item

LEMMA AloneDoesNotAgree ==
    \A there, label : /\ Alone("only_earlier", there, label) # "agree"
                      /\ Alone("only_later", there, label) # "agree"
BY DEF Alone

LEMMA CrossCompare ==
    ASSUME CrossInv, CompareByName
    PROVE  CrossInv'
<1> DEFINE OnlyOurs == {Item(i, 0, Alone("only_earlier", theirs, ours[i].label)) :
                          i \in {k \in 1 .. Len(ours) : ~Pairable(ours[k].label)}}
           OnlyTheirs == {Item(0, j, Alone("only_later", ours, theirs[j].label)) :
                            j \in {k \in 1 .. Len(theirs) : ~Pairable(theirs[k].label)}}
           Both == {Item(p[1], p[2], Judge(ours[p[1]].value, theirs[p[2]].value)) : p \in Named}
<1>0. /\ UNCHANGED <<ours, theirs>> /\ step' = "values"
      /\ ours \in Amounts /\ theirs \in Amounts
      /\ items' = OnlyOurs \cup OnlyTheirs \cup Both
  BY DEF CompareByName, CrossInv
<1>1. \A x \in OnlyOurs : \E i \in 1 .. Len(ours) :
        /\ ~Pairable(ours[i].label) /\ x = Item(i, 0, Alone("only_earlier", theirs, ours[i].label))
        /\ x.earlier = i /\ x.later = 0 /\ x.verdict # "agree"
  BY ItemFields, AloneDoesNotAgree
<1>2. \A x \in OnlyTheirs : \E j \in 1 .. Len(theirs) :
        /\ ~Pairable(theirs[j].label) /\ x = Item(0, j, Alone("only_later", ours, theirs[j].label))
        /\ x.earlier = 0 /\ x.later = j /\ x.verdict # "agree"
  BY ItemFields, AloneDoesNotAgree
<1>3. \A x \in Both : \E p \in Named :
        /\ x = Item(p[1], p[2], Judge(ours[p[1]].value, theirs[p[2]].value))
        /\ x.earlier = p[1] /\ x.later = p[2]
        /\ x.verdict = Judge(ours[p[1]].value, theirs[p[2]].value)
  BY ItemFields
<1>4. \A p \in Named :
        /\ p[1] \in 1 .. Len(ours) /\ p[2] \in 1 .. Len(theirs)
        /\ Pairable(ours[p[1]].label) /\ Pairable(theirs[p[2]].label)
        /\ ours[p[1]].value \in Int /\ theirs[p[2]].value \in Int
  <2>1. \A i \in 1 .. Len(ours) : ours[i].value \in Int
    BY <1>0, AmountsHaveValues
  <2>2. \A j \in 1 .. Len(theirs) : theirs[j].value \in Int
    BY <1>0, AmountsHaveValues
  <2>. QED BY <2>1, <2>2 DEF Named
<1>5. Len(ours) \in Nat /\ Len(theirs) \in Nat
  BY <1>0 DEF Amounts
<1>6. EarlierOnce'
  <2>1. ASSUME NEW i \in 1 .. Len(ours) PROVE \E x \in items' : x.earlier = i
    <3>1. CASE Pairable(ours[i].label)
      <4>1. PICK j \in 1 .. Len(theirs) : <<i, j>> \in Named
        BY <3>1, <1>0, NamedPairs
      <4>2. Item(i, j, Judge(ours[i].value, theirs[j].value)) \in Both
        BY <4>1
      <4>. QED BY <4>2, <1>0, ItemFields
    <3>2. CASE ~Pairable(ours[i].label)
      <4>1. Item(i, 0, Alone("only_earlier", theirs, ours[i].label)) \in OnlyOurs
        BY <3>2
      <4>. QED BY <4>1, <1>0, ItemFields
    <3>. QED BY <3>1, <3>2
  <2>2. ASSUME NEW x \in items', NEW y \in items', x.earlier = y.earlier, x.earlier # 0
        PROVE  x = y
    <3>1. x \in OnlyOurs \/ x \in Both
      BY <1>0, <1>2, <2>2
    <3>2. y \in OnlyOurs \/ y \in Both
      BY <1>0, <1>2, <2>2
    <3> HIDE DEF OnlyOurs, Both
    <3>3. CASE x \in OnlyOurs /\ y \in OnlyOurs
      BY <3>3, <2>2, <1>1
    <3>4. CASE x \in Both /\ y \in Both
      BY <3>4, <2>2, <1>3, NamedPairs, <1>0
    <3>5. CASE x \in OnlyOurs /\ y \in Both
      BY <3>5, <2>2, <1>1, <1>3, <1>4
    <3>6. CASE x \in Both /\ y \in OnlyOurs
      BY <3>6, <2>2, <1>1, <1>3, <1>4
    <3>. QED BY <3>1, <3>2, <3>3, <3>4, <3>5, <3>6
  <2>. QED BY <2>1, <2>2, <1>0 DEF EarlierOnce
<1>7. LaterOnce'
  <2>1. ASSUME NEW j \in 1 .. Len(theirs) PROVE \E x \in items' : x.later = j
    <3>1. CASE Pairable(theirs[j].label)
      <4>1. PICK i \in 1 .. Len(ours) : <<i, j>> \in Named
        BY <3>1, <1>0, NamedPairs
      <4>2. Item(i, j, Judge(ours[i].value, theirs[j].value)) \in Both
        BY <4>1
      <4>. QED BY <4>2, <1>0, ItemFields
    <3>2. CASE ~Pairable(theirs[j].label)
      <4>1. Item(0, j, Alone("only_later", ours, theirs[j].label)) \in OnlyTheirs
        BY <3>2
      <4>. QED BY <4>1, <1>0, ItemFields
    <3>. QED BY <3>1, <3>2
  <2>2. ASSUME NEW x \in items', NEW y \in items', x.later = y.later, x.later # 0
        PROVE  x = y
    <3>1. x \in OnlyTheirs \/ x \in Both
      BY <1>0, <1>1, <2>2
    <3>2. y \in OnlyTheirs \/ y \in Both
      BY <1>0, <1>1, <2>2
    <3> HIDE DEF OnlyTheirs, Both
    <3>3. CASE x \in OnlyTheirs /\ y \in OnlyTheirs
      BY <3>3, <2>2, <1>2
    <3>4. CASE x \in Both /\ y \in Both
      BY <3>4, <2>2, <1>3, NamedPairs, <1>0
    <3>5. CASE x \in OnlyTheirs /\ y \in Both
      BY <3>5, <2>2, <1>2, <1>3, <1>4
    <3>6. CASE x \in Both /\ y \in OnlyTheirs
      BY <3>6, <2>2, <1>2, <1>3, <1>4
    <3>. QED BY <3>1, <3>2, <3>3, <3>4, <3>5, <3>6
  <2>. QED BY <2>1, <2>2, <1>0 DEF LaterOnce
<1>8. ItemsOK'
  <2>1. ASSUME NEW x \in OnlyOurs \cup OnlyTheirs
        PROVE  /\ x.earlier \in 0 .. Len(ours) /\ x.later \in 0 .. Len(theirs)
               /\ x.verdict # "agree"
    BY <1>1, <1>2, <1>5
  <2>2. ASSUME NEW x \in Both
        PROVE  /\ x.earlier \in 0 .. Len(ours) /\ x.later \in 0 .. Len(theirs)
               /\ x.earlier # 0 /\ x.later # 0
               /\ x.verdict = "agree" =>
                    Size(ours[x.earlier].value - theirs[x.later].value) <= CoarserUnit
    <3>1. PICK p \in Named : /\ x.earlier = p[1] /\ x.later = p[2]
                             /\ x.verdict = Judge(ours[p[1]].value, theirs[p[2]].value)
      BY <1>3
    <3>. QED BY <3>1, <1>4, <1>5, JudgedAgree
  <2> HIDE DEF OnlyOurs, OnlyTheirs, Both
  <2>. QED BY <2>1, <2>2, <1>0 DEF ItemsOK
<1>. QED BY <1>0, <1>6, <1>7, <1>8 DEF CrossInv

\* Division of integers by a positive one.
LEMMA Division ==
    ASSUME NEW n \in Int, NEW u \in Nat \ {0}
    PROVE  /\ n \div u \in Int /\ n % u \in Int
           /\ n = (n \div u) * u + (n % u) /\ 0 <= n % u /\ n % u < u
<1>1. n = (n \div u) * u + (n % u)
  BY Z3
<1>2. n \div u \in Int /\ n % u \in Int /\ 0 <= n % u /\ n % u < u
  OBVIOUS
<1>. QED BY <1>1, <1>2

\* A value is at most half a unit from its rounding.
LEMMA BucketIsNear ==
    ASSUME NEW v \in Int
    PROVE  \E b \in Int : /\ b = Bucket(v) * CoarserUnit
                          /\ 2 * v <= 2 * b + CoarserUnit /\ 2 * b <= 2 * v + CoarserUnit
<1> DEFINE u == CoarserUnit
           q == v \div u
           r == v % u
<1>1. u \in Nat \ {0}
  BY ColumnsAssumption
<1> HIDE DEF u
<1>2. q \in Int /\ r \in Int /\ v = q * u + r /\ 0 <= r /\ r < u
  BY <1>1, Division
<1>3. \/ Bucket(v) = q /\ 2 * r <= u
      \/ Bucket(v) = q + 1 /\ 2 * r >= u
  <2>1. Bucket(v) = IF 2 * r < u \/ (2 * r = u /\ q % 2 = 0) THEN q ELSE q + 1
    BY DEF Bucket, u
  <2>2. r \in Int /\ u \in Int
    BY <1>1, <1>2
  <2> HIDE DEF q, r
  <2>3. CASE 2 * r < u \/ (2 * r = u /\ q % 2 = 0)
    BY <2>1, <2>2, <2>3
  <2>4. CASE ~(2 * r < u \/ (2 * r = u /\ q % 2 = 0))
    BY <2>1, <2>2, <2>4
  <2>. QED BY <2>3, <2>4
<1> HIDE DEF q, r
<1>4. PICK m \in Int : m = q * u
  BY <1>1, <1>2
<1>5. (q + 1) * u = m + u
  BY <1>1, <1>2, <1>4
<1>6. CASE Bucket(v) = q /\ 2 * r <= u
  <2>1. 2 * v <= 2 * m + u /\ 2 * m <= 2 * v + u
    BY <1>1, <1>2, <1>4, <1>6
  <2>. QED BY <2>1, <1>4, <1>6 DEF u
<1>7. CASE Bucket(v) = q + 1 /\ 2 * r >= u
  <2>1. 2 * v <= 2 * (m + u) + u /\ 2 * (m + u) <= 2 * v + u
    BY <1>1, <1>2, <1>4, <1>7
  <2>2. m + u \in Int
    BY <1>1, <1>4
  <2>. QED BY <2>1, <2>2, <1>5, <1>7 DEF u
<1>. QED BY <1>3, <1>6, <1>7

\* Two values that round to the same number of units are at most a unit apart.
LEMMA SameBucketIsNear ==
    ASSUME NEW v \in Int, NEW w \in Int, Bucket(v) = Bucket(w)
    PROVE  Size(v - w) <= CoarserUnit
<1>1. CoarserUnit \in Nat
  BY ColumnsAssumption
<1>2. PICK b \in Int : /\ b = Bucket(v) * CoarserUnit
                       /\ 2 * v <= 2 * b + CoarserUnit /\ 2 * b <= 2 * v + CoarserUnit
  BY BucketIsNear
<1>3. PICK c \in Int : /\ c = Bucket(w) * CoarserUnit
                       /\ 2 * w <= 2 * c + CoarserUnit /\ 2 * c <= 2 * w + CoarserUnit
  BY BucketIsNear
<1>4. b = c
  BY <1>2, <1>3
<1>5. v - w <= CoarserUnit /\ w - v <= CoarserUnit
  BY <1>1, <1>2, <1>3, <1>4
<1>. QED BY <1>1, <1>5 DEF Size
\* What the pairing by value takes away and what it puts in its place: every item paired is
\* an amount of one column only, and is paired with one other.
LEMMA TwinsArePairs ==
    ASSUME CrossInv, step = "values"
    PROVE  \A t \in Twins :
             /\ t[1] \in items /\ t[2] \in items
             /\ t[1].earlier \in 1 .. Len(ours) /\ t[1].later = 0
             /\ t[2].later \in 1 .. Len(theirs) /\ t[2].earlier = 0
             /\ Size(ours[t[1].earlier].value - theirs[t[2].later].value) <= CoarserUnit
             /\ \A s \in Twins : (s[1] = t[1] <=> s[2] = t[2]) /\ s[1] # t[2]
<1>1. ours \in Amounts /\ theirs \in Amounts /\ EarlierOnce /\ LaterOnce /\ ItemsOK
  BY DEF CrossInv, Compared
<1>2. Len(ours) \in Nat /\ Len(theirs) \in Nat
  BY <1>1 DEF Amounts
<1>3. \A x \in Left : x \in items /\ x.earlier \in 1 .. Len(ours) /\ x.later = 0
  BY <1>1, <1>2 DEF Left, Unpaired, ItemsOK
<1>4. \A x \in Right : x \in items /\ x.later \in 1 .. Len(theirs) /\ x.earlier = 0
  BY <1>1, <1>2 DEF Right, Unpaired, ItemsOK
<1>5. \A t \in Twins : /\ t[1] \in Left /\ t[2] \in Right /\ SameBucket(t[1], t[2])
                       /\ \A other \in Left : SameBucket(other, t[1]) => other = t[1]
                       /\ \A other \in Right : SameBucket(other, t[2]) => other = t[2]
  BY DEF Twins
<1>6. ASSUME NEW t \in Twins
      PROVE  Size(ours[t[1].earlier].value - theirs[t[2].later].value) <= CoarserUnit
  <2>1. AmountOf(t[1]) = ours[t[1].earlier].value /\ AmountOf(t[2]) = theirs[t[2].later].value
    BY <1>3, <1>4, <1>5 DEF AmountOf
  <2>2. AmountOf(t[1]) \in Int /\ AmountOf(t[2]) \in Int
    BY <2>1, <1>1, <1>3, <1>4, <1>5, AmountsHaveValues
  <2>3. Bucket(AmountOf(t[1])) = Bucket(AmountOf(t[2]))
    BY <1>5 DEF SameBucket
  <2>4. Size(AmountOf(t[1]) - AmountOf(t[2])) <= CoarserUnit
    BY <2>2, <2>3, SameBucketIsNear
  <2>. QED BY <2>1, <2>4
<1>7. ASSUME NEW t \in Twins, NEW s \in Twins
      PROVE  (s[1] = t[1] <=> s[2] = t[2]) /\ s[1] # t[2]
  <2>1. s[1] = t[1] => SameBucket(s[2], t[2])
    BY <1>5 DEF SameBucket
  <2>2. s[2] = t[2] => SameBucket(s[1], t[1])
    BY <1>5 DEF SameBucket
  <2>3. s[1] # t[2]
    BY <1>2, <1>3, <1>4, <1>5
  <2>. QED BY <1>5, <2>1, <2>2, <2>3
<1>. QED BY <1>3, <1>4, <1>5, <1>6, <1>7

\* The pairing keeps every amount once.
LEMMA CrossPair ==
    ASSUME CrossInv, PairByValue
    PROVE  CrossInv'
<1> DEFINE Gone == UNION {{t[1], t[2]} : t \in Twins}
           New == {Item(t[1].earlier, t[2].later, "agree") : t \in Twins}
           Kept == items \ Gone
<1>0. /\ UNCHANGED <<ours, theirs>> /\ step = "values" /\ step' = "done"
      /\ ours \in Amounts /\ theirs \in Amounts
      /\ items' = Kept \cup New
      /\ EarlierOnce /\ LaterOnce /\ ItemsOK
  BY DEF PairByValue, CrossInv, Compared
<1>1. \A t \in Twins :
         /\ t[1] \in items /\ t[2] \in items
         /\ t[1].earlier \in 1 .. Len(ours) /\ t[1].later = 0
         /\ t[2].later \in 1 .. Len(theirs) /\ t[2].earlier = 0
         /\ Size(ours[t[1].earlier].value - theirs[t[2].later].value) <= CoarserUnit
         /\ \A s \in Twins : (s[1] = t[1] <=> s[2] = t[2]) /\ s[1] # t[2]
  BY <1>0, TwinsArePairs
<1>2. \A x \in Gone : \E t \in Twins : x = t[1] \/ x = t[2]
  OBVIOUS
<1>3. \A t \in Twins : t[1] \in Gone /\ t[2] \in Gone
  OBVIOUS
<1>4. \A x \in New : \E t \in Twins : /\ x = Item(t[1].earlier, t[2].later, "agree")
                                      /\ x.earlier = t[1].earlier /\ x.later = t[2].later
                                      /\ x.verdict = "agree"
  BY ItemFields
<1>5. ASSUME NEW t \in Twins
      PROVE  \E x \in New : x.earlier = t[1].earlier /\ x.later = t[2].later
  <2>1. Item(t[1].earlier, t[2].later, "agree") \in New
    OBVIOUS
  <2>. QED BY <2>1, ItemFields
<1>6. Len(ours) \in Nat /\ Len(theirs) \in Nat
  BY <1>0 DEF Amounts
<1>7. \A x \in Kept : x \in items /\ \A t \in Twins : x # t[1] /\ x # t[2]
  BY <1>3
<1>8. \A x \in items : x \in Kept \/ \E t \in Twins : x = t[1] \/ x = t[2]
  BY <1>2
<1> HIDE DEF Gone, New, Kept
<1>9. EarlierOnce'
  <2>1. ASSUME NEW i \in 1 .. Len(ours) PROVE \E x \in items' : x.earlier = i
    <3>1. PICK x \in items : x.earlier = i
      BY <1>0 DEF EarlierOnce
    <3>2. CASE x \in Kept
      BY <3>1, <3>2, <1>0
    <3>3. CASE \E t \in Twins : x = t[1] \/ x = t[2]
      <4>1. PICK t \in Twins : x = t[1] \/ x = t[2]
        BY <3>3
      <4>2. x = t[1]
        BY <4>1, <3>1, <1>1, <1>6
      <4>. QED BY <4>2, <3>1, <1>5, <1>0
    <3>. QED BY <3>2, <3>3, <1>8
  <2>2. ASSUME NEW x \in items', NEW y \in items', x.earlier = y.earlier, x.earlier # 0
        PROVE  x = y
    <3>1. (x \in Kept \/ x \in New) /\ (y \in Kept \/ y \in New)
      BY <1>0
    <3>2. \A a, b \in items : a.earlier = b.earlier /\ a.earlier # 0 => a = b
      BY <1>0 DEF EarlierOnce
    <3>3. CASE x \in Kept /\ y \in Kept
      BY <3>2, <3>3, <2>2, <1>7
    <3>4. CASE x \in New /\ y \in New
      <4>1. PICK s \in Twins : x = Item(s[1].earlier, s[2].later, "agree") /\ x.earlier = s[1].earlier
        BY <3>4, <1>4
      <4>2. PICK t \in Twins : y = Item(t[1].earlier, t[2].later, "agree") /\ y.earlier = t[1].earlier
        BY <3>4, <1>4
      <4>3. s[1] = t[1]
        BY <4>1, <4>2, <3>2, <2>2, <1>1
      <4>4. s[2] = t[2]
        BY <4>3, <1>1
      <4>. QED BY <4>1, <4>2, <4>3, <4>4
    <3>5. CASE x \in Kept /\ y \in New
      BY <3>2, <3>5, <2>2, <1>1, <1>4, <1>7
    <3>6. CASE x \in New /\ y \in Kept
      BY <3>2, <3>6, <2>2, <1>1, <1>4, <1>7
    <3>. QED BY <3>1, <3>3, <3>4, <3>5, <3>6
  <2>. QED BY <2>1, <2>2, <1>0 DEF EarlierOnce
<1>10. LaterOnce'
  <2>1. ASSUME NEW j \in 1 .. Len(theirs) PROVE \E x \in items' : x.later = j
    <3>1. PICK x \in items : x.later = j
      BY <1>0 DEF LaterOnce
    <3>2. CASE x \in Kept
      BY <3>1, <3>2, <1>0
    <3>3. CASE \E t \in Twins : x = t[1] \/ x = t[2]
      <4>1. PICK t \in Twins : x = t[1] \/ x = t[2]
        BY <3>3
      <4>2. x = t[2]
        BY <4>1, <3>1, <1>1, <1>6
      <4>. QED BY <4>2, <3>1, <1>5, <1>0
    <3>. QED BY <3>2, <3>3, <1>8
  <2>2. ASSUME NEW x \in items', NEW y \in items', x.later = y.later, x.later # 0
        PROVE  x = y
    <3>1. (x \in Kept \/ x \in New) /\ (y \in Kept \/ y \in New)
      BY <1>0
    <3>2. \A a, b \in items : a.later = b.later /\ a.later # 0 => a = b
      BY <1>0 DEF LaterOnce
    <3>3. CASE x \in Kept /\ y \in Kept
      BY <3>2, <3>3, <2>2, <1>7
    <3>4. CASE x \in New /\ y \in New
      <4>1. PICK s \in Twins : x = Item(s[1].earlier, s[2].later, "agree") /\ x.later = s[2].later
        BY <3>4, <1>4
      <4>2. PICK t \in Twins : y = Item(t[1].earlier, t[2].later, "agree") /\ y.later = t[2].later
        BY <3>4, <1>4
      <4>3. s[2] = t[2]
        BY <4>1, <4>2, <3>2, <2>2, <1>1
      <4>4. s[1] = t[1]
        BY <4>3, <1>1
      <4>. QED BY <4>1, <4>2, <4>3, <4>4
    <3>5. CASE x \in Kept /\ y \in New
      BY <3>2, <3>5, <2>2, <1>1, <1>4, <1>7
    <3>6. CASE x \in New /\ y \in Kept
      BY <3>2, <3>6, <2>2, <1>1, <1>4, <1>7
    <3>. QED BY <3>1, <3>3, <3>4, <3>5, <3>6
  <2>. QED BY <2>1, <2>2, <1>0 DEF LaterOnce
<1>11. ItemsOK'
  <2>1. ASSUME NEW x \in New
        PROVE  /\ x.earlier \in 1 .. Len(ours) /\ x.later \in 1 .. Len(theirs)
               /\ Size(ours[x.earlier].value - theirs[x.later].value) <= CoarserUnit
    BY <1>1, <1>4
  <2>2. \A x \in New : /\ x.earlier \in 0 .. Len(ours) /\ x.later \in 0 .. Len(theirs)
                       /\ x.earlier # 0 /\ x.later # 0
    BY <2>1, <1>6
  <2>. QED BY <2>1, <2>2, <1>0, <1>7 DEF ItemsOK
<1>. QED BY <1>0, <1>9, <1>10, <1>11 DEF CrossInv

LEMMA CrossStutter ==
    ASSUME CrossInv, UNCHANGED crossVars
    PROVE  CrossInv'
BY DEF CrossInv, crossVars, Compared, EarlierOnce, LaterOnce, ItemsOK

LEMMA CrossIsEveryAmountOnce == CrossInv => EveryAmountOnce
<1> SUFFICES ASSUME CrossInv, step = "done" PROVE EveryAmountOnce
  BY DEF EveryAmountOnce
<1>1. EarlierOnce /\ LaterOnce /\ ItemsOK /\ ours \in Amounts /\ theirs \in Amounts
  BY DEF CrossInv, Compared
<1>2. ASSUME NEW i \in 1 .. Len(ours)
      PROVE  Cardinality({x \in items : x.earlier = i}) = 1
  <2>1. PICK x \in items : x.earlier = i
    BY <1>1 DEF EarlierOnce
  <2>2. i # 0
    OBVIOUS
  <2>3. {y \in items : y.earlier = i} = {x}
    BY <2>1, <2>2, <1>1 DEF EarlierOnce
  <2>. QED BY <2>3, FS_Singleton
<1>3. ASSUME NEW j \in 1 .. Len(theirs)
      PROVE  Cardinality({x \in items : x.later = j}) = 1
  <2>1. PICK x \in items : x.later = j
    BY <1>1 DEF LaterOnce
  <2>2. j # 0
    OBVIOUS
  <2>3. {y \in items : y.later = j} = {x}
    BY <2>1, <2>2, <1>1 DEF LaterOnce
  <2>. QED BY <2>3, FS_Singleton
<1>. QED BY <1>1, <1>2, <1>3 DEF EveryAmountOnce, ItemsOK

\* cross_check loses no amount of either column and repeats none, whatever labels repeat
\* and whatever is paired by its value afterwards; what it says to agree is at most the
\* coarser of the two units apart.
THEOREM AmountsComparedOnce == CrossSpec => []EveryAmountOnce
<1>1. CrossInv /\ [CrossNext]_crossVars => CrossInv'
  BY CrossTake, CrossCompare, CrossPair, CrossStutter DEF CrossNext
<1>. QED BY <1>1, CrossInitInv, CrossIsEveryAmountOnce, PTL DEF CrossSpec
======================================================================================
