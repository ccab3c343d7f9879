----------------------------- MODULE MCDurableTasks -----------------------------
(* Small instances of the outbox and its consumers.                         *)
EXTENDS DurableTasks, TLC

CONSTANT a1

\* One message.
OneMessage == {1}
OneAggregateOf == [m \in OneMessage |-> a1]

================================================================================
