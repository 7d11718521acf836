------------------------- MODULE MCStatsAggregator -------------------------
(***************************************************************************)
(* Model-checking instances of StatsAggregator.  fA is a deployed native   *)
(* function; fX is deployed but has no functionStats entry (a function     *)
(* reloaded by InitFunctionStore after a restart); h is a hybrid backed by *)
(* the native function hn and the wasm function hw.                        *)
(***************************************************************************)
EXTENDS StatsAggregator

CONSTANTS fA, fX, h, hn, hw, q1, q2

MCReqs == {q1, q2}

MCFns == {fA, fX}
MCFnKind == [f \in MCFns |-> "native"]
MCSandboxes == [f \in MCFns |-> [k \in Kinds |-> f]]
MCRegistered == {fA}

HyFns == {h, hn, hw}
HyFnKind == (h :> "hybrid") @@ (hn :> "native") @@ (hw :> "wasm")
HySandboxes == [f \in HyFns |-> [native |-> hn, wasm |-> hw]]

=============================================================================
