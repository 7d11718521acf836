------------------------- MODULE MCReplicaLifecycle -------------------------
(***************************************************************************)
(* Model-checking instance of ReplicaLifecycle: one native and one wasm    *)
(* function, two handler goroutines.                                       *)
(***************************************************************************)
EXTENDS ReplicaLifecycle

CONSTANTS fnN, fnW, q1, q2

MCFns == {fnN, fnW}

MCFnKind == [f \in MCFns |-> IF f = fnN THEN "native" ELSE "wasm"]
MCReqs == {q1, q2}

=============================================================================
