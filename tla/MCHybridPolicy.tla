-------------------------- MODULE MCHybridPolicy --------------------------
(***************************************************************************)
(* Model-checking instances of HybridPolicy: two invocations, one         *)
(* goroutine of each evaluator, and one policy endpoint request sent      *)
(* either a full policy (native cold, wasm warm, no extra replicas, a     *)
(* keepalive) or nothing valid.                                          *)
(***************************************************************************)
EXTENDS HybridPolicy, TLC

CONSTANTS q1, q2, eCold, eWarm, eUtil, u1

MCReqs == {q1, q2}
MCEvals == {eCold, eWarm, eUtil}
MCEvalKind == (eCold :> "cold") @@ (eWarm :> "warm") @@ (eUtil :> "util")
MCUpdates == {u1}
MCUpdateInputs ==
    { [cold |-> "native", warm |-> "wasm", spawn |-> 0, keep |-> 30],
      [cold |-> NoKind, warm |-> NoKind, spawn |-> -1, keep |-> -1] }

OneReq == {q1}
NoEvals == {}
NoEvalKind == [e \in NoEvals |-> "cold"]
NoUpdates == {}

====
