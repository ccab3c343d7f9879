------------------------------ MODULE MCDatasetBuild ------------------------------
(* Three years of a company, the oldest of them before the hard window.       *)
EXTENDS DatasetBuild, TLC

Items == {"assets", "income", "cash"}
MCKeyItems ==
    {[item |-> "assets", table |-> "balance_sheet", field |-> "assets"],
     [item |-> "income", table |-> "income_statement", field |-> "income"],
     [item |-> "cash", table |-> "cash_flow", field |-> "end"]}
MCRules ==
    {[table |-> "balance_sheet",
      terms |-> {[name |-> "assets", sign |-> 1, optional |-> FALSE],
                 [name |-> "claims", sign |-> -1, optional |-> FALSE],
                 [name |-> "minority", sign |-> -1, optional |-> TRUE]}]}
MCRequired ==
    [s \in {"balance_sheet", "income_statement", "cash_flow"} |->
        IF s = "cash_flow" THEN {"end"} ELSE IF s = "balance_sheet" THEN {"assets"} ELSE {"income"}]

\* What the third party may say of a year: its figures as disclosed (6), restated (12), some
\* of each, off by the tolerance, without the income, or out of balance.
Shapes ==
    {[assets |-> 6, claims |-> 6, minority |-> None, income |-> 6, begin |-> 6, end |-> 6],
     [assets |-> 12, claims |-> 6, minority |-> 6, income |-> 12, begin |-> 12, end |-> 12],
     [assets |-> 7, claims |-> 7, minority |-> None, income |-> 12, begin |-> 6, end |-> 6],
     [assets |-> 6, claims |-> 6, minority |-> None, income |-> None, begin |-> 12, end |-> 6],
     [assets |-> 6, claims |-> 9, minority |-> None, income |-> 6, begin |-> 6, end |-> 12]}

RowsOfYear(y, shape) ==
    {[statement |-> "balance_sheet", year |-> y, type |-> "annual",
      values |-> [assets |-> shape.assets, claims |-> shape.claims, minority |-> shape.minority]],
     [statement |-> "income_statement", year |-> y, type |-> "annual",
      values |-> [income |-> shape.income]],
     [statement |-> "cash_flow", year |-> y, type |-> "annual",
      values |-> [begin |-> shape.begin, end |-> shape.end]]}

MCStatementData ==
    {UNION {RowsOfYear(y, s[y]) : y \in 1 .. 3} : s \in [1 .. 3 -> Shapes]}
    \cup {RowsOfYear(3, a) \cup RowsOfYear(3, b) : a, b \in Shapes}

MCReports ==
    {[title |-> "two", year |-> 2, disclosed |-> 1, revised |-> FALSE],
     [title |-> "two, revised", year |-> 2, disclosed |-> 3, revised |-> TRUE],
     [title |-> "three", year |-> 3, disclosed |-> 2, revised |-> FALSE]}

Disclosed == [i \in Items |-> 6]
Adjusted == [i \in Items |-> 12]
Mixed == [i \in Items |-> IF i = "income" THEN 12 ELSE 6]

Column(y, marker, amounts, unit) ==
    [year |-> y, marker |-> marker, amounts |-> [i \in Items |-> amounts[i] \div unit]]

\* A report cannot be read, gives last year's figures for comparison or as adjusted, seems
\* to give figures of the year after it, as adjusted or not, or is read from its statements,
\* in units of four yuan.
MCReadings(r) ==
    {None}
    \cup {[route |-> "key_figures", unit |-> 1, explains |-> TRUE,
           columns |-> {Column(r.year, "none", own, 1), Column(r.year - 1, "none", last, 1)}] :
             own \in {Disclosed, Mixed}, last \in {Disclosed, Adjusted}}
    \cup {[route |-> "key_figures", unit |-> 1, explains |-> r.revised,
           columns |-> {Column(r.year, "none", own, 1),
                        Column(r.year - 1, "after", Adjusted, 1),
                        Column(r.year - 1, "before", Disclosed, 1)}] :
             own \in {Disclosed, Adjusted}}
    \cup {[route |-> "key_figures", unit |-> 1, explains |-> FALSE,
           columns |-> {Column(r.year, "none", Disclosed, 1),
                        Column(r.year + 1, "after", Adjusted, 1),
                        Column(r.year + 1, "none", Disclosed, 1)}]}
    \cup {[route |-> "statements", unit |-> 4, explains |-> FALSE,
           columns |-> {Column(r.year, "none", own, 4), Column(r.year - 1, "none", own, 4)}] :
             own \in {Disclosed, Adjusted}}
===================================================================================
