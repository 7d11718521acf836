-------------------------- MODULE ReplicaLifecycle --------------------------
(***************************************************************************)
(* The replica lifecycle engine of the provider for single-backend         *)
(* (native and wasm) functions: concurrent invocations (proxyRequest in    *)
(* function_proxy.go) resolve to a warm replica popped from the function's *)
(* idle pool or to a cold replica made by createReplica (replicas.go)      *)
(* under the global container counters, call it, and return it to the     *)
(* pool (UpdateReplicaStatusInactive); the cleanup daemon (CleanupDaemon)  *)
(* sweeps the pools and destroys expired replicas (DeleteReplica); wasm    *)
(* replicas take a network namespace from the pool filled at startup       *)
(* (CreateWasmInterfaces, GetNetNS).                                       *)
(*                                                                         *)
(* Replicas are the naturals 1..MaxInvocations (each invocation makes at   *)
(* most one); time is a natural clock advanced by Tick.                    *)
(***************************************************************************)
EXTENDS Naturals, Sequences, FiniteSets, IdleReplicas

CONSTANTS
    Fns,              \* deployed functions
    FnKind,           \* [Fns -> {"native", "wasm"}]: the ctrType label
    Reqs,             \* HTTP handler goroutines serving invocations
    MaxInvocations,   \* bound: invocations served over a behaviour
    MaxTime,          \* bound: seconds of the clock
    ExpirationTime,   \* cfg.ContainerExpirationTime
    MaxWasmContainers,\* cfg.MaxWasmContainers
    NativeLimit,      \* the literal cap of AddContainerCount (1000)
    CreateMayFail,    \* backend steps of createReplica may fail
    TeardownMayFail,  \* service.Remove / os.RemoveAll of DeleteReplica may fail
    UpstreamMayFail   \* the upstream call may fail or the client disconnect

ASSUME FnKind \in [Fns -> {"native", "wasm"}]
ASSUME MaxInvocations \in Nat \ {0} /\ MaxTime \in Nat
ASSUME ExpirationTime \in Nat \ {0}
ASSUME MaxWasmContainers \in Nat /\ NativeLimit \in Nat

VARIABLES
    pool,        \* [Fns -> pool record]: Function.idleReplicas
    active,      \* [Fns -> SUBSET Ids]: Function.activeReplicas
    rfn,         \* [Ids -> Fns \cup {NoFn}]: Replica.fname, NoFn if not made
    rns,         \* [Ids -> 0..MaxWasmContainers]: Replica.netNS (0: none)
    lastAccess,  \* [Ids -> 0..MaxTime]: Replica.lastAccess
    live,        \* replicas whose sandbox exists
    destroyed,   \* replicas DeleteReplica was called on
    containerCount,      \* FunctionStore.containerCount
    wasmContainerCount,  \* FunctionStore.wasmContainerCount
    netnsList,   \* FunctionStore.netnsList: free namespaces, FIFO
    req,         \* [Reqs -> request record]: one proxyRequest per goroutine
    invocations, \* invocations started so far
    cleaner,     \* the CleanupDaemon run (cleanupMu makes it single-flight)
    now          \* the clock, in seconds

vars == <<pool, active, rfn, rns, lastAccess, live, destroyed, containerCount,
          wasmContainerCount, netnsList, req, invocations, cleaner, now>>

Ids == 1..MaxInvocations
NoFn == "NoFn"
NSs == 1..MaxWasmContainers

Kind(r) == FnKind[rfn[r]]

\* What an in-flight request holds: the replica it resolved, while it uses it.
Held(q) == req[q].pc \in {"call", "return"}

ReqType ==
    [pc: {"idle", "warm", "acquire", "create", "call", "return"},
     fn: Fns, replica: Ids \cup {Nil}, startup: {"cold", "warm"}]

\* A goroutine between invocations.
IdleReq == [pc |-> "idle", fn |-> CHOOSE f \in Fns : TRUE, replica |-> Nil,
            startup |-> "cold"]

CleanerType ==
    [pc: {"sleep", "scan", "lru", "destroy"}, ts: 0..MaxTime,
     todo: SUBSET Fns, cur: Fns \cup {NoFn}, victim: Ids \cup {Nil}]

Init ==
    /\ pool = [f \in Fns |-> EmptyPool]
    /\ active = [f \in Fns |-> {}]
    /\ rfn = [r \in Ids |-> NoFn]
    /\ rns = [r \in Ids |-> 0]
    /\ lastAccess = [r \in Ids |-> 0]
    /\ live = {}
    /\ destroyed = {}
    /\ containerCount = 0
    /\ wasmContainerCount = 0
    \* CreateWasmInterfaces(cfg.MaxWasmContainers): namespaces 1..n in order
    /\ netnsList = [i \in 1..MaxWasmContainers |-> i]
    /\ req = [q \in Reqs |-> IdleReq]
    /\ invocations = 0
    /\ cleaner = [pc |-> "sleep", ts |-> 0, todo |-> {}, cur |-> NoFn,
                  victim |-> Nil]
    /\ now = 0

-----------------------------------------------------------------------------
(***************************************************************************)
(* Container counters (AddContainerCount, AddWasmContainerCount,           *)
(* DelContainerCount, DelWasmContainerCount), all under ccMu.              *)
(***************************************************************************)
CapOf(k) == IF k = "wasm" THEN MaxWasmContainers ELSE NativeLimit
CountOf(k) == IF k = "wasm" THEN wasmContainerCount ELSE containerCount

\* Mutation-analysis variant of AddCount: <= where the code has <.
AddCountOffByOne(k) ==
    /\ CountOf(k) <= CapOf(k)
    /\ IF k = "wasm"
       THEN wasmContainerCount' = wasmContainerCount + 1
            /\ UNCHANGED containerCount
       ELSE containerCount' = containerCount + 1
            /\ UNCHANGED wasmContainerCount

AddCount(k) ==
    /\ CountOf(k) < CapOf(k)
    /\ IF k = "wasm"
       THEN wasmContainerCount' = wasmContainerCount + 1
            /\ UNCHANGED containerCount
       ELSE containerCount' = containerCount + 1
            /\ UNCHANGED wasmContainerCount

DelCount(k) ==
    IF k = "wasm"
    THEN /\ wasmContainerCount' = IF wasmContainerCount > 0
                                  THEN wasmContainerCount - 1
                                  ELSE wasmContainerCount
         /\ UNCHANGED containerCount
    ELSE /\ containerCount' = IF containerCount > 0
                              THEN containerCount - 1 ELSE containerCount
         /\ UNCHANGED wasmContainerCount

(***************************************************************************)
(* DeleteReplica: native: delete the CNI network (error ignored), remove   *)
(* the container (on error return before the counter), release the        *)
(* counter.  wasm: delete the network, kill the process, remove the rootfs *)
(* (on error return before the counter), remove the cgroups, release the   *)
(* counter.  The namespace is not given back to netnsList.                 *)
(***************************************************************************)
\* Mutation-analysis variant of DeleteReplica: the counter is released even
\* when the native container could not be removed.
DeleteReplicaAlwaysRelease(r) ==
    /\ destroyed' = destroyed \cup {r}
    /\ \E ok \in IF TeardownMayFail THEN BOOLEAN ELSE {TRUE} :
         /\ live' = IF ok \/ Kind(r) = "wasm" THEN live \ {r} ELSE live
         /\ DelCount(Kind(r))

DeleteReplica(r) ==
    /\ destroyed' = destroyed \cup {r}
    /\ \E ok \in IF TeardownMayFail THEN BOOLEAN ELSE {TRUE} :
         IF Kind(r) = "native"
         THEN /\ live' = IF ok THEN live \ {r} ELSE live
              /\ IF ok THEN DelCount("native")
                 ELSE UNCHANGED <<containerCount, wasmContainerCount>>
         ELSE /\ live' = live \ {r}
              /\ IF ok THEN DelCount("wasm")
                 ELSE UNCHANGED <<containerCount, wasmContainerCount>>

Expired(r, ts) == r /= Nil /\ ts - lastAccess[r] >= ExpirationTime

-----------------------------------------------------------------------------
(***************************************************************************)
(* Invocation goroutines.                                                  *)
(***************************************************************************)

\* A request arrives for f; Resolve looks the function up and, unless the
\* startupType header is "cold", tries a warm start.
Arrive(q) ==
    /\ req[q].pc = "idle"
    /\ invocations < MaxInvocations
    /\ \E f \in Fns, cold \in BOOLEAN :
         req' = [req EXCEPT ![q] = [pc |-> IF cold THEN "acquire" ELSE "warm",
                                    fn |-> f, replica |-> Nil,
                                    startup |-> "cold"]]
    /\ invocations' = invocations + 1
    /\ UNCHANGED <<pool, active, rfn, rns, lastAccess, live, destroyed,
                   containerCount, wasmContainerCount, netnsList, cleaner, now>>

\* GetIdleReplica finds an MRU: it becomes active and the request warm.
GetIdleReplicaHit(q) ==
    LET f == req[q].fn
        r == pool[f].MRU
    IN /\ req[q].pc = "warm"
       /\ r /= Nil
       /\ active' = [active EXCEPT ![f] = @ \cup {r}]
       /\ pool' = [pool EXCEPT ![f] = PoolPop(@)]
       /\ req' = [req EXCEPT ![q].pc = "call", ![q].replica = r,
                             ![q].startup = "warm"]
       /\ UNCHANGED <<rfn, rns, lastAccess, live, destroyed, containerCount,
                      wasmContainerCount, netnsList, invocations, cleaner, now>>

\* GetIdleReplica finds MRU nil and errors: Resolve falls to a cold start.
GetIdleReplicaMiss(q) ==
    /\ req[q].pc = "warm"
    /\ pool[req[q].fn].MRU = Nil
    /\ req' = [req EXCEPT ![q].pc = "acquire"]
    /\ UNCHANGED <<pool, active, rfn, rns, lastAccess, live, destroyed,
                   containerCount, wasmContainerCount, netnsList, invocations,
                   cleaner, now>>

\* createReplica's polling loop takes a slot of the counter of the kind.
AcquireCapacity(q) ==
    /\ req[q].pc = "acquire"
    /\ AddCount(FnKind[req[q].fn])
    /\ req' = [req EXCEPT ![q].pc = "create"]
    /\ UNCHANGED <<pool, active, rfn, rns, lastAccess, live, destroyed,
                   netnsList, invocations, cleaner, now>>

\* Mutation-analysis variant of AcquireTimeout: the poll loop never gives up.
AcquireTimeoutNever(q) == FALSE

\* After 60 s of failed polls: "container limit reached", the proxy answers
\* 503 and the goroutine is free again.
AcquireTimeout(q) ==
    /\ req[q].pc = "acquire"
    /\ CountOf(FnKind[req[q].fn]) >= CapOf(FnKind[req[q].fn])
    /\ req' = [req EXCEPT ![q] = IdleReq]
    /\ UNCHANGED <<pool, active, rfn, rns, lastAccess, live, destroyed,
                   containerCount, wasmContainerCount, netnsList, invocations,
                   cleaner, now>>

\* The new replica is recorded active (setActive = true) under the next id.
NewActiveReplica(q, ns) ==
    LET f == req[q].fn
        r == CHOOSE i \in Ids : rfn[i] = NoFn /\ \A j \in 1..(i - 1) : rfn[j] /= NoFn
    IN /\ rfn' = [rfn EXCEPT ![r] = f]
       /\ rns' = [rns EXCEPT ![r] = ns]
       /\ lastAccess' = [lastAccess EXCEPT ![r] = now]
       /\ live' = live \cup {r}
       /\ active' = [active EXCEPT ![f] = @ \cup {r}]
       /\ req' = [req EXCEPT ![q].pc = "call", ![q].replica = r,
                             ![q].startup = "cold"]

\* createNativeReplica succeeds: image, container, task and CNI all work.
CreateNativeReplica(q) ==
    /\ req[q].pc = "create"
    /\ FnKind[req[q].fn] = "native"
    /\ NewActiveReplica(q, 0)
    /\ UNCHANGED <<pool, destroyed, containerCount, wasmContainerCount,
                   netnsList, invocations, cleaner, now>>

\* Mutation-analysis variant of CreateWasmReplica: GetNetNS reads the head
\* without removing it from the list.
CreateWasmReplicaNoPop(q) ==
    /\ req[q].pc = "create"
    /\ FnKind[req[q].fn] = "wasm"
    /\ netnsList /= << >>
    /\ UNCHANGED netnsList
    /\ NewActiveReplica(q, Head(netnsList))
    /\ UNCHANGED <<pool, destroyed, containerCount, wasmContainerCount,
                   invocations, cleaner, now>>

\* createWasmReplica succeeds: storage, then the head namespace, then runw.
CreateWasmReplica(q) ==
    /\ req[q].pc = "create"
    /\ FnKind[req[q].fn] = "wasm"
    /\ netnsList /= << >>
    /\ netnsList' = Tail(netnsList)
    /\ NewActiveReplica(q, Head(netnsList))
    /\ UNCHANGED <<pool, destroyed, containerCount, wasmContainerCount,
                   invocations, cleaner, now>>

\* createReplica returns an error after the counter was taken: the counter
\* is not released.  A wasm create fails when netnsList is empty, and may
\* fail in setupWasmStorage (before GetNetNS) or cmd.Start (after it, the
\* namespace is then lost); a native create may fail in any backend step.
CreateReplicaFails(q) ==
    /\ req[q].pc = "create"
    /\ \/ /\ FnKind[req[q].fn] = "wasm"
          /\ netnsList = << >>
          /\ UNCHANGED netnsList
       \/ /\ CreateMayFail
          /\ FnKind[req[q].fn] = "wasm"
          /\ netnsList /= << >>
          /\ netnsList' \in {netnsList, Tail(netnsList)}
       \/ /\ CreateMayFail
          /\ FnKind[req[q].fn] = "native"
          /\ UNCHANGED netnsList
    /\ req' = [req EXCEPT ![q] = IdleReq]
    /\ UNCHANGED <<pool, active, rfn, rns, lastAccess, live, destroyed,
                   containerCount, wasmContainerCount, invocations, cleaner, now>>

\* The retrying HTTP client reaches the replica and gets 200.
CallUpstream(q) ==
    /\ req[q].pc = "call"
    /\ req' = [req EXCEPT ![q].pc = "return"]
    /\ UNCHANGED <<pool, active, rfn, rns, lastAccess, live, destroyed,
                   containerCount, wasmContainerCount, netnsList, invocations,
                   cleaner, now>>

\* Retries exhausted, a non-200 status or a client disconnect: the proxy
\* answers 500 and returns without giving the replica back.
CallUpstreamFails(q) ==
    /\ req[q].pc = "call"
    /\ UpstreamMayFail
    /\ req' = [req EXCEPT ![q] = IdleReq]
    /\ UNCHANGED <<pool, active, rfn, rns, lastAccess, live, destroyed,
                   containerCount, wasmContainerCount, netnsList, invocations,
                   cleaner, now>>

\* UpdateReplicaStatusInactive: remove from the active map; the policy of a
\* single-backend function is the zero Policy (keepalive 0), so the replica
\* goes back to the idle pool by AddIdleReplica with lastAccess = now.
ReturnReplicaToIdle(q) ==
    LET f == req[q].fn
        r == req[q].replica
    IN /\ req[q].pc = "return"
       /\ active' = [active EXCEPT ![f] = @ \ {r}]
       /\ pool' = [pool EXCEPT ![f] = PoolPush(@, r)]
       /\ lastAccess' = [lastAccess EXCEPT ![r] = now]
       /\ req' = [req EXCEPT ![q] = IdleReq]
       /\ UNCHANGED <<rfn, rns, live, destroyed, containerCount,
                      wasmContainerCount, netnsList, invocations, cleaner, now>>

-----------------------------------------------------------------------------
(***************************************************************************)
(* The cleanup daemon: a gocron tick whose TryLock on cleanupMu lets one   *)
(* sweep run at a time.  For each function it evicts the LRU while it is   *)
(* expired, dropping the pool lock around each DeleteReplica, then checks  *)
(* MRU once.                                                               *)
(***************************************************************************)
CleanupStart ==
    /\ cleaner.pc = "sleep"
    /\ cleaner' = [cleaner EXCEPT !.pc = "scan", !.ts = now, !.todo = Fns]
    /\ UNCHANGED <<pool, active, rfn, rns, lastAccess, live, destroyed,
                   containerCount, wasmContainerCount, netnsList, req,
                   invocations, now>>

\* The range over deployedFunctions moves to its next function.
CleanupNextFunction ==
    /\ cleaner.pc = "scan"
    /\ \/ \E f \in cleaner.todo :
            cleaner' = [cleaner EXCEPT !.pc = "lru", !.cur = f,
                                       !.todo = @ \ {f}]
       \/ /\ cleaner.todo = {}
          /\ cleaner' = [cleaner EXCEPT !.pc = "sleep", !.cur = NoFn]
    /\ UNCHANGED <<pool, active, rfn, rns, lastAccess, live, destroyed,
                   containerCount, wasmContainerCount, netnsList, req,
                   invocations, now>>

\* Under the pool lock: the LRU is expired, so RemoveIdleReplica, unlock.
CleanupEvictLRU ==
    LET f == cleaner.cur
    IN /\ cleaner.pc = "lru"
       /\ Expired(pool[f].LRU, cleaner.ts)
       /\ pool' = [pool EXCEPT ![f] = PoolEvictLRU(@)]
       /\ cleaner' = [cleaner EXCEPT !.pc = "destroy", !.victim = pool[f].LRU]
       /\ UNCHANGED <<active, rfn, rns, lastAccess, live, destroyed,
                      containerCount, wasmContainerCount, netnsList, req,
                      invocations, now>>

\* Outside the lock: DeleteReplica(victim), sleep, relock.
CleanupDestroyVictim ==
    /\ cleaner.pc = "destroy"
    /\ DeleteReplica(cleaner.victim)
    /\ cleaner' = [cleaner EXCEPT !.pc = "lru", !.victim = Nil]
    /\ UNCHANGED <<pool, active, rfn, rns, lastAccess, netnsList, req,
                   invocations, now>>

\* Under the lock, the LRU loop ends; an expired MRU is set to nil (nothing
\* is promoted into it, count is left alone) and destroyed; unlock.
CleanupExpireMRU ==
    LET f == cleaner.cur
    IN /\ cleaner.pc = "lru"
       /\ ~Expired(pool[f].LRU, cleaner.ts)
       /\ Expired(pool[f].MRU, cleaner.ts)
       /\ pool' = [pool EXCEPT ![f].MRU = Nil]
       /\ DeleteReplica(pool[f].MRU)
       /\ cleaner' = [cleaner EXCEPT !.pc = "scan", !.cur = NoFn]
       /\ UNCHANGED <<active, rfn, rns, lastAccess, netnsList, req,
                      invocations, now>>

CleanupKeepMRU ==
    LET f == cleaner.cur
    IN /\ cleaner.pc = "lru"
       /\ ~Expired(pool[f].LRU, cleaner.ts)
       /\ ~Expired(pool[f].MRU, cleaner.ts)
       /\ cleaner' = [cleaner EXCEPT !.pc = "scan", !.cur = NoFn]
       /\ UNCHANGED <<pool, active, rfn, rns, lastAccess, live, destroyed,
                      containerCount, wasmContainerCount, netnsList, req,
                      invocations, now>>

Tick ==
    /\ now < MaxTime
    /\ now' = now + 1
    /\ UNCHANGED <<pool, active, rfn, rns, lastAccess, live, destroyed,
                   containerCount, wasmContainerCount, netnsList, req,
                   invocations, cleaner>>

-----------------------------------------------------------------------------
RequestStep(q) ==
    \/ Arrive(q)
    \/ GetIdleReplicaHit(q)
    \/ GetIdleReplicaMiss(q)
    \/ AcquireCapacity(q)
    \/ AcquireTimeout(q)
    \/ CreateNativeReplica(q)
    \/ CreateWasmReplica(q)
    \/ CreateReplicaFails(q)
    \/ CallUpstream(q)
    \/ CallUpstreamFails(q)
    \/ ReturnReplicaToIdle(q)

CleanupStep ==
    \/ CleanupStart
    \/ CleanupNextFunction
    \/ CleanupEvictLRU
    \/ CleanupDestroyVictim
    \/ CleanupExpireMRU
    \/ CleanupKeepMRU

\* The bounded run is over: every invocation served, the clock at its end
\* and the daemon asleep.
Finished ==
    /\ invocations = MaxInvocations
    /\ \A q \in Reqs : req[q].pc = "idle"
    /\ now = MaxTime
    /\ cleaner.pc = "sleep"
    /\ UNCHANGED vars

Next ==
    \/ \E q \in Reqs : RequestStep(q)
    \/ CleanupStep
    \/ Tick
    \/ Finished

Spec == Init /\ [][Next]_vars

-----------------------------------------------------------------------------
TypeOK ==
    /\ pool \in [Fns -> PoolType(Ids)]
    /\ active \in [Fns -> SUBSET Ids]
    /\ rfn \in [Ids -> Fns \cup {NoFn}]
    /\ rns \in [Ids -> 0..MaxWasmContainers]
    /\ lastAccess \in [Ids -> 0..MaxTime]
    /\ live \subseteq Ids /\ destroyed \subseteq Ids
    /\ containerCount \in 0..NativeLimit
    /\ wasmContainerCount \in 0..MaxWasmContainers
    /\ netnsList \in Seq(NSs)
    /\ req \in [Reqs -> ReqType]
    /\ invocations \in 0..MaxInvocations
    /\ cleaner \in CleanerType
    /\ now \in 0..MaxTime

(***************************************************************************)
(* A replica serves at most one invocation at a time (spec glossary): no   *)
(* replica occupies two slots of an idle pool, two pools, or a pool slot   *)
(* and an in-flight request, whatever the interleaving of GetIdleReplica,  *)
(* UpdateReplicaStatusInactive and the cleanup daemon.                     *)
(***************************************************************************)
ReplicaSingleLocation ==
    \A r \in Ids :
        LET inPools == {f \in Fns : Occurrences(pool[f], r) > 0}
            holders == {q \in Reqs : Held(q) /\ req[q].replica = r}
        IN  /\ \A f \in inPools : Occurrences(pool[f], r) = 1
            /\ Cardinality(inPools) + Cardinality(holders) <= 1

(***************************************************************************)
(* A replica DeleteReplica was called on is never handed to an invocation  *)
(* nor left reachable in an idle pool: the cleanup daemon's eviction,      *)
(* done with the pool lock dropped around the delete, never races a        *)
(* GetIdleReplica into using a dead sandbox.                               *)
(***************************************************************************)
NoDestroyedReplicaReachable ==
    /\ \A q \in Reqs : Held(q) => req[q].replica \notin destroyed
    /\ \A f \in Fns : Members(pool[f]) \cap destroyed = {}

(***************************************************************************)
(* The container counters never exceed their caps, and never count fewer  *)
(* replicas of a kind than are live: a counter slot is taken before a      *)
(* sandbox exists and released at most once per destroyed sandbox.         *)
(***************************************************************************)
CapacityRespected ==
    \A k \in {"native", "wasm"} :
        /\ CountOf(k) <= CapOf(k)
        /\ Cardinality({r \in live : Kind(r) = k}) <= CountOf(k)

(***************************************************************************)
(* Refinement of the abstract pool (module IdlePool).  A pool record is    *)
(* read as the sequence LRU, slice, MRU with the nil slots left out, the   *)
(* active map as the busy set, a replica as made once it has a function,   *)
(* and the replicas DeleteReplica was called on as the dead ones.          *)
(* GetIdleReplicaHit is Take, ReturnReplicaToIdle is Return, the create    *)
(* actions are Spawn, CleanupEvictLRU is Evict and CleanupDestroyVictim    *)
(* Destroy, CleanupExpireMRU is Evict with its destroy, Tick is Advance;   *)
(* every other step leaves the abstract state alone.                       *)
(***************************************************************************)
Abstract == INSTANCE IdlePool WITH
    idle <- [f \in Fns |-> IdleSeq(pool[f])],
    busy <- active,
    made <- {r \in Ids : rfn[r] /= NoFn},
    lastUse <- lastAccess,
    dead <- destroyed

(***************************************************************************)
(* The MRU / LRU / slice pool with its unlocked eviction implements the    *)
(* abstract pool: every warm start takes the most recently returned idle   *)
(* replica, the daemon (the single MRU check included) only ever removes   *)
(* the oldest idle replica and only once it is expired at the current      *)
(* time, although currTs was read at the start of the sweep, a replica is  *)
(* destroyed only after it has left the pool and never while active, and  *)
(* a replica is returned only by the request that holds it.                *)
(***************************************************************************)
ImplementsIdlePool == Abstract!ASpec

-----------------------------------------------------------------------------
(***************************************************************************)
(* Statements of the specification that the code does not meet (checked   *)
(* by the runs that expect a violation).                                   *)
(***************************************************************************)

(***************************************************************************)
(* spec 4.1 and 4.5: a warm attempt falls back to a cold start only when   *)
(* the function's idle pool is empty.  GetIdleReplica consults MRU alone,  *)
(* so a replica left in the LRU slot after MRU is popped is not reused.   *)
(***************************************************************************)
ColdStartOnlyWhenPoolEmpty ==
    [][\A q \in Reqs :
         GetIdleReplicaMiss(q) => Members(pool[req[q].fn]) = {}]_vars

(***************************************************************************)
(* spec 3 and 8, CapacityGuard: each counter equals the number of live     *)
(* replicas of its kind plus the creations in progress; spec 7: a create   *)
(* that fails after taking a slot releases it.  createReplica returns the  *)
(* backend's error without DelContainerCount / DelWasmContainerCount.      *)
(***************************************************************************)
CountersMatchLive ==
    \A k \in {"native", "wasm"} :
        CountOf(k) = Cardinality({r \in live : Kind(r) = k})
                     + Cardinality({q \in Reqs : req[q].pc = "create"
                                                 /\ FnKind[req[q].fn] = k})

=============================================================================
