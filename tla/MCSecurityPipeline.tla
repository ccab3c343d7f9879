--------------------------- MODULE MCSecurityPipeline ---------------------------
(* Small instances of the securities pipeline.                              *)
EXTENDS SecurityPipeline, TLC

CONSTANTS c1

\* One company, whatever its originals give.
OneCompany == [v \in Versions |-> c1]

PipelineSymmetry == Permutations(Workers)
=================================================================================
