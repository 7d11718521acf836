----------------------------- MODULE HybridPolicy -----------------------------
(***************************************************************************)
(* The invocation policy of one hybrid function and the goroutines that    *)
(* read and write it (policy.go): the policy endpoint (UpdatePolicy), the  *)
(* three evaluators (EvalColdStartPolicy, EvalWarmStartPolicy,             *)
(* EvalSandboxUtilization with EvalSpawnAddlCtrs), the hybrid resolver     *)
(* (ResolveHybrid in invoke_resolver.go) with its background spawns of     *)
(* extra replicas, and the return of a replica after the call              *)
(* (UpdateReplicaStatusInactive in function_store.go).                     *)
(*                                                                         *)
(* The hybrid's two underlying functions are abstracted to a count of idle *)
(* and of live replicas per kind: the order inside a pool is modelled by   *)
(* IdleReplicas and ReplicaLifecycle, and plays no part here.  The stats   *)
(* the evaluators read (avgSvcCold, avgSvcWarm of each underlying function *)
(* and coldRatio of the hybrid) are written by StatsUpdate, which stands   *)
(* for ProcessFunctionStats.                                               *)
(***************************************************************************)
EXTENDS Integers, FiniteSets

CONSTANTS
    Reqs,           \* HTTP handler goroutines invoking the hybrid
    Evals,          \* evaluator goroutines, each launched once
    EvalKind,       \* [Evals -> {"cold", "warm", "util"}]: which evaluator
    Updates,        \* policy endpoint requests (action=update)
    UpdateInputs,   \* the Policy values the endpoint may be sent
    SvcValues,      \* average service times the stats may hold
    MaxStatUpdates, \* bound: stats changes over a behaviour
    Cap,            \* container counter limit, per kind
    CreateMayFail,  \* createNativeReplica/createWasmReplica may return an error
    MAX_ADDL_CTRS,      \* FunctionStore.MAX_ADDL_CTRS (5)
    MAX_KEEPALIVE_TIME  \* FunctionStore.MAX_KEEPALIVE_TIME (60)

Kinds == {"native", "wasm"}
\* coldRatio classified by the thresholds of EvalSpawnAddlCtrs:
\* <= COLD_RATIO_LOW, between, >= COLD_RATIO_HIGH
Ratios == {"low", "mid", "high"}
NoKind == ""
NoPolicy == [cold |-> NoKind, warm |-> NoKind, spawn |-> 0, keep |-> 0]

ASSUME EvalKind \in [Evals -> {"cold", "warm", "util"}]
ASSUME UpdateInputs \subseteq [cold : Kinds \cup {NoKind}, warm : Kinds \cup {NoKind},
                              spawn : Int, keep : Int]
ASSUME SvcValues \subseteq Nat /\ 0 \in SvcValues
ASSUME MaxStatUpdates \in Nat /\ Cap \in Nat /\ CreateMayFail \in BOOLEAN
ASSUME MAX_ADDL_CTRS \in Nat /\ MAX_KEEPALIVE_TIME \in Nat

VARIABLES
    policy,     \* Function.policy of the hybrid
    stats,      \* avgSvcCold, avgSvcWarm per kind; coldRatio of the hybrid
    statUpdates,\* stats changes so far
    idle,       \* [Kinds -> Nat]: idleReplicas.count of each underlying function
    live,       \* [Kinds -> Nat]: replicas counted by the container counters
    spawns,     \* [Kinds -> Nat]: spawn goroutines of ResolveHybrid not yet run
    req,        \* [Reqs -> request record]
    ev,         \* [Evals -> evaluator record]
    upd         \* [Updates -> endpoint record]

vars == <<policy, stats, statUpdates, idle, live, spawns, req, ev, upd>>

Policy == [cold : Kinds, warm : Kinds, spawn : Int, keep : Int]
Stats == [avgCold : [Kinds -> SvcValues], avgWarm : [Kinds -> SvcValues],
          coldRatio : Ratios]

\* UpdatePolicy holds policyMu.RLock from its first field write to its last.
UpdateHolding == {"warm", "spawn", "keep"}
RLockedByUpdate == \E u \in Updates : upd[u].pc \in UpdateHolding

\* deploy.go: the default policy of a hybrid
DefaultPolicy == [cold |-> "wasm", warm |-> "native", spawn |-> 1, keep |-> 0]

\* A goroutine that has returned keeps no locals; a request keeps only
\* whether its policy copy was torn.
ReqDone(torn) == [pc |-> "done", kind |-> NoKind, startup |-> NoKind,
                  snap |-> NoPolicy, torn |-> torn]
EvDone == [pc |-> "done", native |-> 0, wasm |-> 0, ratio |-> "low"]
UpdDone == [pc |-> "done", in |-> NoPolicy, before |-> NoPolicy]

Init ==
    /\ policy = DefaultPolicy
    /\ stats = [avgCold |-> [k \in Kinds |-> 0], avgWarm |-> [k \in Kinds |-> 0],
                coldRatio |-> "low"]
    /\ statUpdates = 0
    /\ idle = [k \in Kinds |-> 0]
    /\ live = [k \in Kinds |-> 0]
    /\ spawns = [k \in Kinds |-> 0]
    /\ req = [q \in Reqs |-> [pc |-> "start", kind |-> NoKind,
                              startup |-> NoKind, snap |-> NoPolicy, torn |-> FALSE]]
    /\ ev = [e \in Evals |-> [pc |-> "start", native |-> 0, wasm |-> 0,
                              ratio |-> "low"]]
    /\ upd = [u \in Updates |-> [pc |-> "idle", in |-> NoPolicy, before |-> NoPolicy]]

-----------------------------------------------------------------------------
(***************************************************************************)
(* The policy endpoint: UpdatePolicy writes each valid field in turn while *)
(* holding only the read side of policyMu, so readers (GetInvocationPolicy)*)
(* and other UpdatePolicy calls run between its writes; its field writes   *)
(* are word-sized, so a racing read sees each field old or new.            *)
(***************************************************************************)
\* The four guarded field writes of UpdatePolicy.
WithCold(p, in) == IF in.cold \in Kinds THEN [p EXCEPT !.cold = in.cold] ELSE p
WithWarm(p, in) == IF in.warm \in Kinds THEN [p EXCEPT !.warm = in.warm] ELSE p
WithSpawn(p, in) ==
    IF in.spawn # -1 /\ in.spawn < MAX_ADDL_CTRS THEN [p EXCEPT !.spawn = in.spawn] ELSE p
WithKeep(p, in) ==
    IF in.keep >= 0 /\ in.keep < MAX_KEEPALIVE_TIME THEN [p EXCEPT !.keep = in.keep] ELSE p

\* What the whole call does to a policy, as one step.
UpdateApplied(p, in) == WithKeep(WithSpawn(WithWarm(WithCold(p, in), in), in), in)

\* RLock, then the first write; the policy it started from is kept to tell
\* a value no atomic update could produce.
UpdateCold(u) ==
    /\ upd[u].pc = "idle"
    /\ \E in \in UpdateInputs :
         /\ upd' = [upd EXCEPT ![u] = [pc |-> "warm", in |-> in, before |-> policy]]
         /\ policy' = WithCold(policy, in)
    /\ UNCHANGED <<stats, statUpdates, idle, live, spawns, req, ev>>

UpdateWarm(u) ==
    /\ upd[u].pc = "warm"
    /\ policy' = WithWarm(policy, upd[u].in)
    /\ upd' = [upd EXCEPT ![u].pc = "spawn"]
    /\ UNCHANGED <<stats, statUpdates, idle, live, spawns, req, ev>>

UpdateSpawn(u) ==
    /\ upd[u].pc = "spawn"
    /\ policy' = WithSpawn(policy, upd[u].in)
    /\ upd' = [upd EXCEPT ![u].pc = "keep"]
    /\ UNCHANGED <<stats, statUpdates, idle, live, spawns, req, ev>>

UpdateKeepNoUnlock(u) ==
    /\ upd[u].pc = "keep"
    /\ policy' = WithKeep(policy, upd[u].in)
    /\ UNCHANGED <<upd, stats, statUpdates, idle, live, spawns, req, ev>>

\* The last write, the view built from the policy, and RUnlock.
UpdateKeep(u) ==
    /\ upd[u].pc = "keep"
    /\ policy' = WithKeep(policy, upd[u].in)
    /\ upd' = [upd EXCEPT ![u] = UpdDone]
    /\ UNCHANGED <<stats, statUpdates, idle, live, spawns, req, ev>>

-----------------------------------------------------------------------------
(***************************************************************************)
(* The evaluators.  Each reads the stats under statMu, then takes          *)
(* policyMu.Lock to write: the Lock waits while an UpdatePolicy holds the  *)
(* read side, and the stats may change between the read and the write.    *)
(***************************************************************************)
EvalColdStartRead(e) ==
    /\ EvalKind[e] = "cold" /\ ev[e].pc = "start"
    /\ ev' = [ev EXCEPT ![e] = [@ EXCEPT !.pc = "read",
                                  !.native = stats.avgCold["native"],
                                  !.wasm = stats.avgCold["wasm"]]]
    /\ UNCHANGED <<policy, stats, statUpdates, idle, live, spawns, req, upd>>

\* The lower average cold service time wins; keepalive is set when the
\* choice equals the warm kind, and never cleared here.
EvalColdStartWrite(e) ==
    /\ EvalKind[e] = "cold" /\ ev[e].pc = "read"
    /\ ~RLockedByUpdate
    /\ LET c == IF ev[e].native < ev[e].wasm THEN "native" ELSE "wasm" IN
         policy' = [policy EXCEPT !.cold = c,
                                  !.keep = IF c = policy.warm THEN 60 ELSE @,
                                  !.spawn = IF c = "native" THEN 0 ELSE 1]
    /\ ev' = [ev EXCEPT ![e] = EvDone]
    /\ UNCHANGED <<stats, statUpdates, idle, live, spawns, req, upd>>

EvalWarmStartRead(e) ==
    /\ EvalKind[e] = "warm" /\ ev[e].pc = "start"
    /\ ev' = [ev EXCEPT ![e] = [@ EXCEPT !.pc = "read",
                                  !.native = stats.avgWarm["native"],
                                  !.wasm = stats.avgWarm["wasm"]]]
    /\ UNCHANGED <<policy, stats, statUpdates, idle, live, spawns, req, upd>>

EvalWarmStartWrite(e) ==
    /\ EvalKind[e] = "warm" /\ ev[e].pc = "read"
    /\ ~RLockedByUpdate
    /\ policy' = [policy EXCEPT !.warm = IF ev[e].native < ev[e].wasm
                                         THEN "native" ELSE "wasm"]
    /\ ev' = [ev EXCEPT ![e] = EvDone]
    /\ UNCHANGED <<stats, statUpdates, idle, live, spawns, req, upd>>

\* Reads the replica counts (stored back as sandboxUtil, activeCount and
\* idleCount, which no decision reads) and coldRatio.
EvalSandboxUtilization(e) ==
    /\ EvalKind[e] = "util" /\ ev[e].pc = "start"
    /\ ev' = [ev EXCEPT ![e] = [@ EXCEPT !.pc = "read", !.ratio = stats.coldRatio]]
    /\ UNCHANGED <<policy, stats, statUpdates, idle, live, spawns, req, upd>>

SpawnDelta(r) == CASE r = "low" -> -1 [] r = "mid" -> 0 [] r = "high" -> 1

\* policy.spawnAddlCtrs += delta, with no clamp.
EvalSpawnAddlCtrs(e) ==
    /\ EvalKind[e] = "util" /\ ev[e].pc = "read"
    /\ ~RLockedByUpdate
    /\ policy' = [policy EXCEPT !.spawn = @ + SpawnDelta(ev[e].ratio)]
    /\ ev' = [ev EXCEPT ![e] = EvDone]
    /\ UNCHANGED <<stats, statUpdates, idle, live, spawns, req, upd>>

\* ProcessFunctionStats: a cold (warm) stat of one underlying function sets
\* its avgSvcCold (avgSvcWarm); a sample epoch of the hybrid sets coldRatio.
StatsUpdate ==
    /\ statUpdates < MaxStatUpdates
    /\ \/ \E k \in Kinds, v \in SvcValues :
            \/ stats' = [stats EXCEPT !.avgCold[k] = v]
            \/ stats' = [stats EXCEPT !.avgWarm[k] = v]
       \/ \E r \in Ratios : stats' = [stats EXCEPT !.coldRatio = r]
    /\ statUpdates' = statUpdates + 1
    /\ UNCHANGED <<policy, idle, live, spawns, req, ev, upd>>

-----------------------------------------------------------------------------
(***************************************************************************)
(* The invocation path of the hybrid.                                      *)
(***************************************************************************)
\* GetInvocationPolicy: a copy taken under policyMu.RLock, so it runs
\* beside an UpdatePolicy but not inside an evaluator's write.
GetInvocationPolicy == policy

\* The copy is neither the policy an in-flight UpdatePolicy started from nor
\* the one it will leave.
TornRead ==
    \E u \in Updates :
        /\ upd[u].pc \in UpdateHolding
        /\ policy \notin {upd[u].before, UpdateApplied(upd[u].before, upd[u].in)}

\* ResolveHybrid reads the policy once and pops an idle replica of the warm
\* kind (GetIdleReplica on sandboxes[warmStartCtrType]) ...
ResolveHybridWarm(q) ==
    /\ req[q].pc = "start"
    /\ LET snap == GetInvocationPolicy IN
         /\ idle[snap.warm] > 0
         /\ idle' = [idle EXCEPT ![snap.warm] = @ - 1]
         /\ req' = [req EXCEPT ![q] = [pc |-> "serving", kind |-> snap.warm,
                                       startup |-> "warm", snap |-> NoPolicy,
                                       torn |-> TornRead]]
    /\ UNCHANGED <<policy, stats, statUpdates, live, spawns, ev, upd>>

\* ... and on a miss goes on to createReplica of the cold kind.
ResolveHybridMiss(q) ==
    /\ req[q].pc = "start"
    /\ LET snap == GetInvocationPolicy IN
         /\ idle[snap.warm] = 0
         /\ req' = [req EXCEPT ![q] = [@ EXCEPT !.pc = "create", !.snap = snap,
                                                  !.torn = TornRead]]
    /\ UNCHANGED <<policy, stats, statUpdates, idle, live, spawns, ev, upd>>

\* createReplica(coldStartSandbox, coldStartType, setActive=true): the
\* counter is taken, or the 60 s poll gives up while it is at the limit and
\* the error goes back to the client.  A backend error after the counter
\* was taken (GetDeployedFunction, image, task, CNI, GetNetNS, runw) is
\* returned as it is, the counter kept (replicas.go:105-107), and no
\* replica spawned.  On success spawnAddlCtrs goroutines are started for
\* the warm kind of the same snapshot.
CreateColdReplica(q) ==
    /\ req[q].pc = "create"
    /\ LET snap == req[q].snap
           k == snap.cold IN
         \/ /\ live[k] < Cap
            /\ live' = [live EXCEPT ![k] = @ + 1]
            /\ req' = [req EXCEPT ![q] = [@ EXCEPT !.pc = "serving", !.kind = k,
                                                   !.startup = "cold",
                                                   !.snap = NoPolicy]]
            /\ spawns' = IF snap.spawn > 0
                         THEN [spawns EXCEPT ![snap.warm] = @ + snap.spawn]
                         ELSE spawns
        \/ /\ live[k] < Cap /\ CreateMayFail
            /\ live' = [live EXCEPT ![k] = @ + 1]
            /\ req' = [req EXCEPT ![q] = ReqDone(@.torn)]
            /\ UNCHANGED spawns
        \/ /\ live[k] >= Cap
            /\ req' = [req EXCEPT ![q] = ReqDone(@.torn)]
            /\ UNCHANGED <<live, spawns>>
    /\ UNCHANGED <<policy, stats, statUpdates, idle, ev, upd>>

SpawnReplicaNoLimit(k) ==
    /\ spawns[k] > 0
    /\ spawns' = [spawns EXCEPT ![k] = @ - 1]
    /\ live' = [live EXCEPT ![k] = @ + 1]
    /\ idle' = [idle EXCEPT ![k] = @ + 1]
    /\ UNCHANGED <<policy, stats, statUpdates, req, ev, upd>>

\* A spawn goroutine: createReplica(sandboxes[warm], warm, setActive=false)
\* puts the new replica in the idle pool, keeps the counter without a
\* replica when the backend fails after it was taken, or gives up at the
\* limit.
SpawnReplica(k) ==
    /\ spawns[k] > 0
    /\ spawns' = [spawns EXCEPT ![k] = @ - 1]
    /\ \/ /\ live[k] < Cap
          /\ live' = [live EXCEPT ![k] = @ + 1]
          /\ idle' = [idle EXCEPT ![k] = @ + 1]
       \/ /\ live[k] < Cap /\ CreateMayFail
          /\ live' = [live EXCEPT ![k] = @ + 1]
          /\ UNCHANGED idle
       \/ /\ live[k] >= Cap
          /\ UNCHANGED <<live, idle>>
    /\ UNCHANGED <<policy, stats, statUpdates, req, ev, upd>>

ReturnReplicaNoEarlyReturn(q) ==
    /\ req[q].pc = "serving"
    /\ LET p == GetInvocationPolicy
           k == req[q].kind IN
         /\ live' = IF p.keep # 0 /\ k = p.cold THEN [live EXCEPT ![k] = @ - 1] ELSE live
         /\ idle' = [idle EXCEPT ![k] = @ + 1]
    /\ req' = [req EXCEPT ![q] = ReqDone(@.torn)]
    /\ UNCHANGED <<policy, stats, statUpdates, spawns, ev, upd>>

\* UpdateReplicaStatusInactive after the call: the replica leaves the
\* active map; with the policy read now, a replica of the cold kind is
\* deleted when keepaliveColdStartCtr is not 0, and any other goes back to
\* the idle pool (AddIdleReplica).
ReturnReplica(q) ==
    /\ req[q].pc = "serving"
    /\ LET p == GetInvocationPolicy
           k == req[q].kind IN
         IF p.keep # 0 /\ k = p.cold
         THEN /\ live' = [live EXCEPT ![k] = @ - 1]
              /\ UNCHANGED idle
         ELSE /\ idle' = [idle EXCEPT ![k] = @ + 1]
              /\ UNCHANGED live
    /\ req' = [req EXCEPT ![q] = ReqDone(@.torn)]
    /\ UNCHANGED <<policy, stats, statUpdates, spawns, ev, upd>>

-----------------------------------------------------------------------------
AllDone ==
    /\ \A q \in Reqs : req[q].pc = "done"
    /\ \A e \in Evals : ev[e].pc = "done"
    /\ \A u \in Updates : upd[u].pc = "done"
    /\ \A k \in Kinds : spawns[k] = 0

\* Every goroutine has returned: the process idles.
Finished == AllDone /\ UNCHANGED vars

Next ==
    \/ \E u \in Updates :
         UpdateCold(u) \/ UpdateWarm(u) \/ UpdateSpawn(u) \/ UpdateKeep(u)
    \/ \E e \in Evals :
         \/ EvalColdStartRead(e) \/ EvalColdStartWrite(e)
         \/ EvalWarmStartRead(e) \/ EvalWarmStartWrite(e)
         \/ EvalSandboxUtilization(e) \/ EvalSpawnAddlCtrs(e)
    \/ StatsUpdate
    \/ \E q \in Reqs :
         \/ ResolveHybridWarm(q) \/ ResolveHybridMiss(q)
         \/ CreateColdReplica(q) \/ ReturnReplica(q)
    \/ \E k \in Kinds : SpawnReplica(k)
    \/ Finished

Spec == Init /\ [][Next]_vars

-----------------------------------------------------------------------------
(***************************************************************************)
(* Properties.                                                             *)
(***************************************************************************)
TypeOK ==
    /\ policy \in Policy /\ stats \in Stats
    /\ statUpdates \in 0..MaxStatUpdates
    /\ idle \in [Kinds -> 0..Cap] /\ live \in [Kinds -> 0..Cap]
    /\ spawns \in [Kinds -> Nat]
    /\ \A q \in Reqs :
         /\ req[q].pc \in {"start", "create", "serving", "done"}
         /\ req[q].pc = "serving" => req[q].kind \in Kinds
    /\ \A e \in Evals : ev[e].pc \in {"start", "read", "done"}
    /\ \A u \in Updates : upd[u].pc \in {"idle"} \cup UpdateHolding \cup {"done"}

\* No kind runs more replicas than its container counter holds: every idle
\* replica and every replica serving a request was counted when created and
\* is uncounted only when deleted, however the policy changes between the
\* cold create, the warm pop and the return (which decides on a policy read
\* after the call whether to delete or re-pool).  A failed create keeps its
\* count (replicas.go:105-107), so the counter may exceed the replicas; it
\* must never fall short of them, or Cap would not bound the containers.
ReplicasWithinCounter ==
    \A k \in Kinds :
        idle[k] + Cardinality({q \in Reqs : req[q].pc = "serving" /\ req[q].kind = k})
            <= live[k]

-----------------------------------------------------------------------------
(***************************************************************************)
(* What the specification says of the policy and the code does not keep.  *)
(***************************************************************************)

\* Spec section 5: policy changes become visible atomically under the policy
\* lock, so the copy ResolveHybrid takes (GetInvocationPolicy) is never half
\* of an UpdatePolicy call.
PolicyReadsAtomic == \A q \in Reqs : ~req[q].torn

====
