------------------------- MODULE MCPredictiveCache -------------------------
(* Small instances of the predictive cache for TLC. *)
EXTENDS PredictiveCache

CONSTANTS c1, e1, e2, t1, t2, u1, u2

\* Each episode resolves to a file of its own.
MCUrl == [e \in Episode |-> IF e = e1 THEN {u1} ELSE {u2}]
MCSourceKey == [u \in Urls |-> u]
===========================================================================
