------------------------------- MODULE StatementLines -------------------------------
(***************************************************************************)
(* From the lines of one statement of an annual report to the key figures  *)
(* it gives (application/securities/report_extraction/labels.py and        *)
(* checks.py, application/securities/dataset/statement_figures.py): names  *)
(* of items are recognized, also when they run over several lines; the     *)
(* statement is used if it balances and its unit can be trusted.           *)
(*                                                                         *)
(* A name is a sequence of parts, which is what it is broken into by       *)
(* lines; numbering, notes and punctuation are taken off it already.       *)
(***************************************************************************)
EXTENDS Integers, Sequences, FiniteSets, FiniteSetsExt

CONSTANTS
    NoAmount,
    Names,           \* catalog_names: set of [name: Seq(parts), field]
    Equations,       \* the rules of this statement: sets of [name, sign, optional]
    MinPrefix,       \* parts of a name that may stand for the whole of it
    UnitTolerance,   \* _TOLERANCE_UNITS
    SameScale, OtherScale,   \* _SAME, _UNIT
    Statement,       \* the statements there may be: [rows, unit, onStatement]
    Reference        \* what the third party may say, in yuan: [fields -> Int or NoAmount]

FieldNames == {n.field : n \in Names}

ExtractedRow == [label : Seq(STRING), current : Int \cup {NoAmount}, prior : Int \cup {NoAmount}]

ASSUME LinesAssumption ==
    /\ NoAmount \notin Int
    /\ SameScale \in Nat \ {0} /\ OtherScale \in Nat /\ SameScale < OtherScale
    /\ Statement \subseteq [rows : Seq(ExtractedRow), unit : Nat \ {0}, onStatement : BOOLEAN]
    /\ Reference \subseteq [FieldNames -> Int \cup {NoAmount}]

VARIABLES
    statement,   \* the one that was extracted
    reference,
    at,          \* the row that resolve looks at next
    found,       \* found: what each field has been matched with, and how often
    lent,        \* the neighbours whose text a row has taken; used is all of them
    verdict,     \* what becomes of the statement
    given        \* the figures taken from it: [field, amount]

lineVars == <<statement, reference, at, found, lent, verdict, given>>

Rows == statement.rows

NoStatement == [rows |-> <<>>, unit |-> 1, onStatement |-> FALSE]

LinesInit ==
    /\ statement = NoStatement
    /\ reference = [f \in FieldNames |-> NoAmount]
    /\ at = 0
    /\ found = [f \in FieldNames |-> [row |-> 0, times |-> 0]]
    /\ lent = <<>>
    /\ verdict = "none"
    /\ given = {}

\* The statement that was extracted, and what the third party says of the same year.
TakeStatement ==
    /\ verdict = "none"
    /\ statement' \in Statement
    /\ reference' \in Reference
    /\ at' = 1
    /\ lent' = [i \in 1 .. Len(statement'.rows) |-> {}]
    /\ verdict' = "reading"
    /\ UNCHANGED <<found, given>>

Amount(i, column) == IF column = "current" THEN Rows[i].current ELSE Rows[i].prior
Numbered(i) == Rows[i].current # NoAmount \/ Rows[i].prior # NoAmount

--------------------------------------------------------------------------------
(* Recognizing items (resolve).                                             *)

\* match: the name itself, or the beginning of one name only.
Match(label) ==
    LET exact == {n.field : n \in {x \in Names : x.name = label}}
        begun == {n.field : n \in {x \in Names : /\ Len(label) <= Len(x.name)
                                                 /\ SubSeq(x.name, 1, Len(label)) = label}}
    IN  IF label = <<>> THEN {}
        ELSE IF exact # {} THEN exact
        ELSE IF Len(label) >= MinPrefix /\ Cardinality(begun) = 1 THEN begun ELSE {}

Used == UNION {lent[i] : i \in DOMAIN lent}

TextAt_bug(i) ==   \* also text that has been lent
    IF i \in 1 .. Len(Rows) /\ ~Numbered(i) THEN Rows[i].label ELSE <<>>

\* The text of a neighbour that has no number and has not been lent yet.
TextAt(i) ==
    IF i \in (1 .. Len(Rows)) \ Used /\ ~Numbered(i) THEN Rows[i].label ELSE <<>>

\* What the name of row i may be, in the order it is tried: with the text before it,
\* with the text after it, with both, alone; and whether there is such text.
Options(i) ==
    LET before == TextAt(i - 1)
        after == TextAt(i + 1)
        own == Rows[i].label
    IN  << [label |-> before \o own, takes |-> {i - 1}, is |-> before # <<>>],
           [label |-> own \o after, takes |-> {i + 1}, is |-> after # <<>>],
           [label |-> before \o own \o after, takes |-> {i - 1, i + 1},
            is |-> before # <<>> /\ after # <<>>],
           [label |-> own, takes |-> {}, is |-> TRUE] >>

\* A neighbour is not taken by a row whose own name is complete already.
Fits(i, option) ==
    /\ option.is
    /\ Match(option.label) # {}
    /\ option.takes # {} => Match(option.label) # {n.field : n \in {x \in Names : x.name = Rows[i].label}}

SkipRow ==
    /\ at \in 1 .. Len(Rows) /\ ~Numbered(at)
    /\ at' = at + 1
    /\ UNCHANGED <<statement, reference, found, lent, verdict, given>>

\* A field that a second row is matched with is not used, whatever follows.
ResolveRow ==
    /\ at \in 1 .. Len(Rows) /\ Numbered(at)
    /\ LET fitting == {k \in 1 .. Len(Options(at)) : Fits(at, Options(at)[k])} IN
        IF fitting = {}
        THEN UNCHANGED <<found, lent>>
        ELSE LET option == Options(at)[Min(fitting)]
                 field == CHOOSE f \in Match(option.label) : TRUE
             IN  /\ lent' = [lent EXCEPT ![at] = option.takes]
                 /\ found' = [found EXCEPT ![field] = [row |-> at, times |-> @.times + 1]]
    /\ at' = at + 1
    /\ UNCHANGED <<statement, reference, verdict, given>>

--------------------------------------------------------------------------------
(* Trusting the statement (reconcile, check_unit, figures_from_statements). *)

Resolved == {f \in FieldNames : found[f].times = 1}

\* values_of
Value(f, column) == IF f \in Resolved THEN Amount(found[f].row, column) ELSE NoAmount

Checked(terms, column) == \A t \in terms : t.optional \/ Value(t.name, column) # NoAmount

SumOf(terms, column) ==
    MapThenSumSet(LAMBDA t : t.sign * Value(t.name, column),
                  {t \in terms : Value(t.name, column) # NoAmount})

Even(terms, column) == SumOf(terms, column) \in -UnitTolerance .. UnitTolerance

Checks == {c \in Equations \X {"current", "prior"} : Checked(c[1], c[2])}
Balances == \A c \in Checks : Even(c[1], c[2])

Magnitude_bug(ours, theirs) ==   \* one way only
    IF ours <= SameScale * theirs THEN "same"
    ELSE IF ours >= OtherScale * theirs THEN "unit_mismatch" ELSE "different"

\* How many times one amount is the other, whichever is larger.
Magnitude(ours, theirs) ==
    IF ours = 0 \/ theirs = 0 THEN IF ours = theirs THEN "same" ELSE "different"
    ELSE LET size == [a |-> IF ours < 0 THEN -ours ELSE ours,
                      b |-> IF theirs < 0 THEN -theirs ELSE theirs]
             small == IF size.a <= size.b THEN size.a ELSE size.b
             large == IF size.a <= size.b THEN size.b ELSE size.a
         IN  IF large <= SameScale * small THEN "same"
             ELSE IF large >= OtherScale * small THEN "unit_mismatch" ELSE "different"

Comparable == {f \in Resolved : Value(f, "current") # NoAmount /\ reference[f] # NoAmount}

\* check_unit: of the verdicts only the confirmation lets the statement be used.
UnitConfirmed ==
    /\ Comparable # {}
    /\ \A f \in Comparable :
          Magnitude(Value(f, "current") * statement.unit, reference[f]) = "same"

\* A statement is used if something could be checked and all of it balances, and its
\* unit is its own or confirmed by the size of the third party's amounts.
JudgeStatement ==
    /\ at > Len(Rows) /\ verdict = "reading"
    /\ verdict' =
         CASE Checks = {} -> "not_reconciled"
           [] ~Balances -> "unbalanced"
           [] Checks # {} /\ Balances /\ ~statement.onStatement /\ ~UnitConfirmed -> "unit"
           [] OTHER -> "used"
    /\ given' = IF verdict' = "used"
                THEN {[field |-> f, amount |-> Value(f, "current") * statement.unit] :
                        f \in {x \in Resolved : Value(x, "current") # NoAmount}}
                ELSE {}
    /\ UNCHANGED <<statement, reference, at, found, lent>>

LinesNext == TakeStatement \/ SkipRow \/ ResolveRow \/ JudgeStatement

LinesSpec == LinesInit /\ [][LinesNext]_lineVars

--------------------------------------------------------------------------------
(* Properties.                                                              *)

\* A line of text that rows borrow is part of one name at most, and no field has its amount
\* from either of two rows that have the same name by themselves, without such a line.
RowsReadOnce ==
    /\ \A i, j \in DOMAIN lent : i # j => lent[i] \cap lent[j] = {}
    /\ \A i, j \in 1 .. at - 1 :
        /\ i # j /\ Numbered(i) /\ Numbered(j)
        /\ lent[i] = {} /\ lent[j] = {}
        /\ Rows[i].label = Rows[j].label
        => \A f \in Resolved : found[f].row \notin {i, j}

\* A figure that is used has the scale of what the third party says, though the unit may
\* have been misread, unless the statement states the unit itself.
ScaleIsRight ==
    ~statement.onStatement =>
        \A g \in given :
            reference[g.field] # NoAmount /\ reference[g.field] # 0 =>
                LET size == IF g.amount < 0 THEN -g.amount ELSE g.amount
                    other == IF reference[g.field] < 0 THEN -reference[g.field]
                             ELSE reference[g.field]
                IN  size < OtherScale * other /\ other < OtherScale * size
====================================================================================
