--------------------------- MODULE MCSecurityRequests ---------------------------
(* Small instances of the requests and the pipeline that serves them.       *)
EXTENDS SecurityRequests, TLC

CONSTANTS c1, c2

\* One company, whatever its originals give.
OneCompany == [v \in Versions |-> c1]

\* Companies that nothing can be collected of.
NoVersion == <<>>

RequestsSymmetry ==
    Permutations(Sessions) \cup Permutations(Actors) \cup Permutations(Workers)
=================================================================================
