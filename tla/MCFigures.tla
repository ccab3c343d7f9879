--------------------------------- MODULE MCFigures ---------------------------------
(* The steps from the originals of a company to its dataset: finding the statements   *)
(* in a report, reading their lines, comparing reports of successive years, building. *)
(* The steps share no state, so each is explored while the others wait.               *)
EXTENDS MCDatasetBuild, ReportReader, StatementLines, CrossYear

MCNames ==
    {[name |-> <<"parent", "profit">>, field |-> "parent_netprofit"],
     [name |-> <<"profit">>, field |-> "netprofit"],
     [name |-> <<"total", "before", "tax">>, field |-> "total_profit"]}
MCEquations ==
    {{[name |-> "netprofit", sign |-> 1, optional |-> FALSE],
      [name |-> "total_profit", sign |-> -1, optional |-> FALSE]},
     {[name |-> "netprofit", sign |-> 1, optional |-> FALSE],
      [name |-> "parent_netprofit", sign |-> -1, optional |-> FALSE]}}

Line(label, now, prior) == [label |-> label, current |-> now, prior |-> prior]
LineKinds ==
    {Line(<<"parent">>, NoAmount, NoAmount), Line(<<"profit">>, NoAmount, NoAmount),
     Line(<<"profit">>, 2, NoAmount), Line(<<"profit">>, 4, 4),
     Line(<<"parent", "profit">>, 2, 2), Line(<<"total", "before">>, 2, NoAmount),
     Line(<<>>, 2, 4)}
MCStatement ==
    {[rows |-> rs, unit |-> u.unit, onStatement |-> u.own] :
        rs \in UNION {[1 .. n -> LineKinds] : n \in 1 .. 3},
        u \in {[unit |-> 1, own |-> FALSE], [unit |-> 1000, own |-> FALSE],
               [unit |-> 1000, own |-> TRUE]}}
MCReference ==
    {[f \in {"netprofit", "parent_netprofit", "total_profit"} |->
        IF f = "total_profit" THEN other ELSE amount] :
          amount \in {2, 2000, 0, NoAmount}, other \in {2, NoAmount}}

\* Values on both sides of the boundaries of rounding, and of the least that is paired.
MCColumns ==
    UNION {[1 .. n -> [label : {Unlabelled, "a"}, value : {2, 6, -6, 9, 10, 90}]] :
             n \in 0 .. 2}
    \cup {<<x, y, [label |-> "b", value |-> 6]>> :
             x, y \in [label : {"a", "b"}, value : {6, 9}]}

FiguresInit == BuildInit /\ ReaderInit /\ LinesInit /\ CrossInit

\* A step is taken only while the others have not begun.
FiguresNext ==
    \/ ReaderInit /\ LinesInit /\ CrossInit /\ BuildNext
         /\ UNCHANGED <<readerVars, lineVars, crossVars>>
    \/ BuildInit /\ LinesInit /\ CrossInit /\ ReaderNext
         /\ UNCHANGED <<buildVars, lineVars, crossVars>>
    \/ BuildInit /\ ReaderInit /\ CrossInit /\ LinesNext
         /\ UNCHANGED <<buildVars, readerVars, crossVars>>
    \/ BuildInit /\ ReaderInit /\ LinesInit /\ CrossNext
         /\ UNCHANGED <<buildVars, readerVars, lineVars>>

FiguresSpec ==
    FiguresInit /\ [][FiguresNext]_<<buildVars, readerVars, lineVars, crossVars>>
====================================================================================
