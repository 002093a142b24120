--------------------------- MODULE MCPowerSetRun ---------------------------
(* Every nondeterministic model over NdState and Labels that lists at most *)
(* two states, equal ones included, as initial and as successors.          *)
EXTENDS PowerSetRun

Lists == UNION { [1..n -> NdState] : n \in 0..2 }

MCNdModels == [init : Lists, step : [NdState \X Labels -> Lists]]
=============================================================================
