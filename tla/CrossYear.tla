--------------------------------- MODULE CrossYear ---------------------------------
(***************************************************************************)
(* Comparing the amounts that two annual reports give for one year         *)
(* (application/securities/report_extraction/cross_year.py): the current   *)
(* column of the earlier report and the prior column of the later one,     *)
(* matched by the names of the items and then, for the rest, by value.     *)
(*                                                                         *)
(* A column is a sequence of [label, value], the value in yuan; an amount  *)
(* is named by its place in its column.                                    *)
(***************************************************************************)
EXTENDS Integers, Sequences, FiniteSets

CONSTANTS
    Unlabelled,      \* the label of rows without a name
    Columns,         \* the columns there may be
    CoarserUnit,     \* tolerance: the coarser of the units of the two reports
    LeastToPair,     \* _MIN_VALUE_TO_PAIR
    UnitFactors,     \* _UNIT_FACTORS
    Base             \* of the digits amounts are printed in

ASSUME ColumnsAssumption ==
    /\ Columns \subseteq Seq([label : {Unlabelled} \cup STRING, value : Int])
    /\ CoarserUnit \in Nat \ {0}

VARIABLES
    ours, theirs,    \* the two columns
    items,           \* what is said of the amounts
    step

crossVars == <<ours, theirs, items, step>>

CrossInit == ours = <<>> /\ theirs = <<>> /\ items = {} /\ step = "none"

TakeColumns ==
    /\ step = "none"
    /\ ours' \in Columns
    /\ theirs' \in Columns
    /\ step' = "labels"
    /\ UNCHANGED items

Size(n) == IF n < 0 THEN -n ELSE n

--------------------------------------------------------------------------------
(* How two amounts of the same item differ (judge).                         *)

Digits(n) == CHOOSE d \in 1 .. 10 : Size(n) < Base ^ d /\ (d = 1 \/ Size(n) >= Base ^ (d - 1))

\* The digits of the one are the last digits of the other, two of them at least.
IsTail(short, long) ==
    /\ Digits(short) >= 2 /\ Digits(short) < Digits(long)
    /\ Size(long) % (Base ^ Digits(short)) = Size(short)

\* Within one per cent of a ratio of two units.
UnitsApart(small, large) ==
    small > 0 /\ \E f \in UnitFactors : 100 * Size(large - f * small) <= f * small

Judge(a, b) ==
    CASE Size(a - b) <= CoarserUnit -> "agree"
      [] Size(a - b) > CoarserUnit /\ Size(Size(a) - Size(b)) <= CoarserUnit -> "sign_only"
      [] OTHER ->
            IF IsTail(a, b) \/ IsTail(b, a) THEN "suspect_truncated"
            ELSE IF UnitsApart(Size(a), Size(b)) \/ UnitsApart(Size(b), Size(a))
            THEN "suspect_unit" ELSE "different"

--------------------------------------------------------------------------------
(* Matching by name (cross_check).                                          *)

Item(i, j, verdict) == [earlier |-> i, later |-> j, verdict |-> verdict]   \* 0: no amount

Under(column, label) == {k \in 1 .. Len(column) : column[k].label = label}

\* Which of the amounts with its label an amount is.
Occurrence(column, i) == Cardinality({k \in Under(column, column[i].label) : k <= i})

Pairable(label) ==
    /\ label # Unlabelled
    /\ Cardinality(Under(ours, label)) = Cardinality(Under(theirs, label))

Alone(here, there, label) == IF Under(there, label) = {} THEN here ELSE "ambiguous"

\* The amounts with a name that both columns have as often, the first with the first.
Named ==
    {p \in (1 .. Len(ours)) \X (1 .. Len(theirs)) :
        /\ ours[p[1]].label = theirs[p[2]].label
        /\ Pairable(ours[p[1]].label)
        /\ Occurrence(ours, p[1]) = Occurrence(theirs, p[2])}

CompareByName ==
    /\ step = "labels"
    /\ items' =
         {Item(i, 0, Alone("only_earlier", theirs, ours[i].label)) :
            i \in {k \in 1 .. Len(ours) : ~Pairable(ours[k].label)}}
         \cup {Item(0, j, Alone("only_later", ours, theirs[j].label)) :
            j \in {k \in 1 .. Len(theirs) : ~Pairable(theirs[k].label)}}
         \cup {Item(p[1], p[2], Judge(ours[p[1]].value, theirs[p[2]].value)) : p \in Named}
    /\ step' = "values"
    /\ UNCHANGED <<ours, theirs>>

--------------------------------------------------------------------------------
(* Matching the rest by value (_pair_by_value).                             *)

\* The value in units, rounded; a half goes to the even number.
Bucket(v) ==
    LET q == v \div CoarserUnit
        rest == 2 * (v % CoarserUnit)
    IN  IF rest < CoarserUnit \/ (rest = CoarserUnit /\ q % 2 = 0) THEN q ELSE q + 1

Unpaired == {x \in items : x.earlier = 0 \/ x.later = 0}
AmountOf(x) == IF x.earlier # 0 THEN ours[x.earlier].value ELSE theirs[x.later].value

Left == {x \in Unpaired : x.earlier # 0 /\ Size(AmountOf(x)) >= LeastToPair}
Right == {x \in Unpaired : x.later # 0 /\ Size(AmountOf(x)) >= LeastToPair}
SameBucket(x, y) == Bucket(AmountOf(x)) = Bucket(AmountOf(y))

Twins_bug == {t \in Left \X Right : SameBucket(t[1], t[2])}   \* though there may be others

\* Two amounts of the same value, and no other amount left has it.
Twins ==
    {t \in Left \X Right :
        /\ SameBucket(t[1], t[2])
        /\ \A other \in Left : SameBucket(other, t[1]) => other = t[1]
        /\ \A other \in Right : SameBucket(other, t[2]) => other = t[2]}

PairByValue ==
    /\ step = "values"
    /\ items' = (items \ UNION {{t[1], t[2]} : t \in Twins})
                  \cup {Item(t[1].earlier, t[2].later, "agree") : t \in Twins}
    /\ step' = "done"
    /\ UNCHANGED <<ours, theirs>>

CrossNext == TakeColumns \/ CompareByName \/ PairByValue

CrossSpec == CrossInit /\ [][CrossNext]_crossVars

--------------------------------------------------------------------------------
(* Properties.                                                              *)

\* Every amount of either report is in the result once, whatever names repeat or are
\* broken differently, and amounts are said to agree only within the coarser unit.
EveryAmountOnce ==
    step = "done" =>
        /\ \A i \in 1 .. Len(ours) : Cardinality({x \in items : x.earlier = i}) = 1
        /\ \A j \in 1 .. Len(theirs) : Cardinality({x \in items : x.later = j}) = 1
        /\ \A x \in items :
            x.verdict = "agree" =>
                Size(ours[x.earlier].value - theirs[x.later].value) <= CoarserUnit
====================================================================================
