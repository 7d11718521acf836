# TLA+ models of fecore's replica management

fecore is a FaaS provider for the edge. It runs each function in native
(containerd) or WebAssembly sandboxes, called *replicas*. It keeps idle
replicas warm for reuse, caps how many sandboxes of each kind exist, and
destroys replicas that stay idle too long. This directory holds TLA+ models of
that replica management, and TLC configurations that check them.

## 1. Inventory of the system

| Part | Code | State | Operations |
|------|------|-------|-----------|
| Idle pool (per function) | `handlers/functions.go` `IdleReplicas`; `function_store.go` 310-388 | `MRU`, `LRU`, slice `containers`, `count` (uint32) | `AddIdleReplica`, `GetIdleReplica`, `RemoveIdleReplica` |
| Active set (per function) | `function_store.go` 391-401, 595-598 | `activeReplicas` map | `AddActiveReplica`, removal in `UpdateReplicaStatusInactive` |
| CapacityGuard | `function_store.go` 449-493 | `containerCount`, `wasmContainerCount` under `ccMu` | `Add/Del(Wasm)ContainerCount`. Native cap is the literal 1000. Wasm cap is `cfg.MaxWasmContainers`. |
| NetNSPool | `function_store.go` 616-639; `wasm_network.go` 94-120 | FIFO `netnsList` under `nsMu` | filled once at start-up; `GetNetNS` pops the head; `ReturnNetNS` has no caller |
| ReplicaFactory | `replicas.go` 80-335 | the counters and the pool of namespaces | `createReplica`: polls the counter for 60 s in 100 ms steps, then runs the native or wasm backend |
| Replica teardown | `function_store.go` 495-570 | counters and sandboxes | `DeleteReplica`. It returns early on a failed container remove or rootfs remove. |
| InvokeResolver | `invoke_resolver.go` 27-194 | none of its own | `Resolve`: warm attempt, then cold start. Hybrid functions go through the policy. |
| InvocationProxy | `proxy/function_proxy.go` 73-178 | one goroutine per HTTP request | resolve, then upstream call with retries, then stats, then `UpdateReplicaStatusInactive` |
| EvictorDaemon | `function_store.go` 134-177; `cmd/provider.go` 118-121 | `cleanupMu` (TryLock) | gocron tick; evicts expired LRUs, then checks MRU once |
| StatsAggregator | `stats.go` | ring buffer of 100 stats per function; channel of 100 | `UpdateFunctionStats` (send), `ProcessFunctionStats` (receive, percentiles) |
| PolicyController | `policy.go` | per-function `Policy` under `policyMu` | `UpdatePolicy`, `EvalColdStart/WarmStart/SpawnAddlCtrs/SandboxUtilization` |
| Deploy / Delete / Update | `deploy.go`, `delete.go`, `update.go`; `function_store.go` 220-289, 404-426 | `deployedFunctions` under `dfMu`; the SQLite `Function` table | deploy: insert the row, then install a fresh `Function`; delete: `DeleteAllReplicas`, delete the row, delete the entry; update: reads the entry and stores nothing |
| Start-up | `cmd/provider.go`, `InitFunctionStore` | reload from SQLite (the `Container` table never has a row) | starts the cleaner, the stats goroutine and the namespace pool |
| Metrics report | `metrics.go` 75-206 | reads the stats under `statMu.RLock`, then the policy and the pools | `GetMetricsReport` (`/metrics?action=stats`) |
| IPAM sidechannel | `ipam.go`; `function_store.go` 118 | `nextIP` under `metricMu`; `ipconfigs` (`sync.Map`, container id to address) | `/ipam` actions `LastReservedIP`, `Reserve`, `ReleaseBy`, `FindBy`, `GetBy`, called by the native backend's CNI plugin |
| wasm addressing | `wasm_network.go` 94-120; `utilities/wasmnet` | the address of each namespace | the provider numbers its pool from 10.63.100.1; the wasmnet utility creates 500 namespaces, counting the same way |
| CNI, timec, storage, CLI, examples | elsewhere | I/O and reporting | not control state |

**Interactions.** Many proxy goroutines share one function's pool, the two
counters and the namespace list with the cleanup daemon. The daemon drops
the pool lock while it destroys a replica. Requests report stats to the
aggregator over a bounded channel. For hybrid functions, the aggregator
drives the policy controller, and `Resolve` and `UpdateReplicaStatusInactive`
read that policy. Deploy and delete handlers change the registry and the
`Function` table while invocations use the pools of the registered
`Function` objects. The pool operations (`GetIdleReplica`,
`AddActiveReplica`, `AddIdleReplica`) index the map without `dfMu`. A crash
loses the registry, the pools and the counters but not the table or the
running containers.

**Hard behaviours.**
- The lock drop inside the cleanup sweep, interleaved with pops and pushes.
- Partial failures that skip the release of a counter or a namespace:
  - a failed create;
  - a failed teardown;
  - an upstream error, which leaves the replica active.
- The 60 s capacity poll and its timeout.
- The LRU slot that `GetIdleReplica` never looks at.
- The MRU that cleanup sets to nil without promoting anything.
- The ring buffer's edge at entry 100.
- The policy written under a read lock.
- A deploy and a delete of one name interleaving their row write and map
  write.
- A panic (a nil `*Function` after a delete) recovered by net/http while
  `dfMu.RLock` is held.
- A crash between two writes, and the restart's reload.
- The restart's reset of the address counter while native containers keep
  their addresses.

The hazards are listed in `PROJECT.json`, each at the line where it bites.

## 2. Modules

- **`IdleReplicas`**: the pool as a record `[MRU, LRU, containers, count]`.
  It has pure operators:
  - `PoolPush` is `AddIdleReplica`;
  - `PoolPop` is the pool part of `GetIdleReplica`;
  - `PoolEvictLRU` is `RemoveIdleReplica`.
  Replicas are naturals; nil is 0.
- **`IdlePool`**: the abstract pool, written from spec 3, 4.1 and 4.10 and
  not from the code. It has no MRU, LRU or slice, only:
  - per function, a sequence of idle replicas, oldest first, and a set of
    active ones;
  - the replicas made and destroyed so far, and each replica's last use.
  A warm start (`Take`) takes the newest idle replica. `Evict` removes the
  oldest, and only after `ExpirationTime`. `Destroy` needs a replica that
  is neither idle nor active. `Spawn` needs a fresh id. A warm miss is
  allowed at any time; it is not an action, so it leaves the state alone.
- **`ReplicaLifecycle`**: the composition of the request goroutines
  (`Reqs`), the cleanup daemon and the clock.
  - Variables:
    - `pool` and `active` per function;
    - per-replica function, namespace and `lastAccess` (`rfn`, `rns`,
      `lastAccess`);
    - `live`, the sandboxes that exist;
    - `destroyed`, the replicas `DeleteReplica` was called on;
    - the two counters;
    - `netnsList`;
    - a program counter per request (`req`);
    - the daemon's state (`cleaner`);
    - `now`, the time in seconds.
  - Actions follow the code step by step:
    - `Arrive` is `Resolve`'s entry and the startupType header.
    - `GetIdleReplicaHit` / `GetIdleReplicaMiss` are the warm attempt.
    - `AcquireCapacity` / `AcquireTimeout` are the poll loop of `createReplica`.
    - `CreateNativeReplica` / `CreateWasmReplica` / `CreateReplicaFails` are
      the backends. A wasm create pops `netnsList`. A failure keeps the
      counter.
    - `CallUpstream` / `CallUpstreamFails` are the retrying HTTP call. A
      failure returns without giving the replica back. `CallUpstream`
      leaves out the `UpdateFunctionStats` call that follows it
      (`function_proxy.go` 145, a blocking send on `statsChan`,
      `stats.go` 57-77). `StatsAggregator` models that send, and
      `stats_metrics_hang` shows that it can block for ever. For that
      reason this module states no liveness.
    - `ReturnReplicaToIdle` is `UpdateReplicaStatusInactive`
      (`function_store.go` 575-614) as one step. The code takes `dfMu`, the
      active-map removal and `AddIdleReplica`'s pool lock one after
      another. Only `FunctionRegistry` splits them, where a delete or a
      redeploy can land in between.
    - `CleanupStart`, `CleanupNextFunction`, `CleanupEvictLRU` (under the
      lock), `CleanupDestroyVictim` (lock dropped), `CleanupExpireMRU` and
      `CleanupKeepMRU` are one `CleanupDaemon` sweep.
    - `DeleteReplica` has a nondeterministic outcome when `TeardownMayFail`:
      - A failed native remove keeps the sandbox live and counted.
      - A failed wasm rootfs remove kills the process but keeps the counter.
- **`StatsAggregator`**: `stats.go`.
  - Request goroutines report stats through `UpdateFunctionStats`
    (`ReportStats`, then one blocking `SendStat` per message). A hybrid
    sends two messages, tagged with the backend that served it.
  - The aggregator goroutine is `ProcessStat` / `DropUnknownStat`
    (`ProcessFunctionStats`). `ProcessRecord` is the per-stat update in the
    code's order:
    1. on a full ring, sort the ring in place and read p50/p99;
    2. reset `totalSvcTime`, then add the new time;
    3. write the new time at `entryPos`;
    4. assign (not add) the cold/warm totals.
  - `HybridEpoch` and `Launched` are the `CtrType == "hybrid"` branch. The
    policy evaluations it would start as goroutines are counted in `evals`.
  - A stat keeps its function, tag, service time and startup type. The code
    only ever adds exec time and startup time together for the properties
    checked here.
  - `hist` is a history variable: the stats applied per function, which the
    reference definitions (`SumSvc`, `KthSmallest`) are computed
    from.
  - `MetricsReport` is `GetMetricsReport`, the `/metrics?action=stats`
    handler:
    - for a function without stats it dereferences nil before the lock;
    - otherwise it takes `statMu.RLock`;
    - its inverted `totalInvocations > 0` test divides by zero when the
      function has no stat yet, and it panics holding the read lock.
    `leaked` counts such read holds per function. `ProcessStat` (the
    aggregator's `statMu.Lock`) needs none. A new reader waits while the
    aggregator waits for the same lock (`WriterWaiting`).
- **`MCStatsAggregator`**: `fA` is a native function with stats. `fX` has no
  `functionStats` entry (a function reloaded after a restart). `h` is a
  hybrid over `hn` and `hw`.
- **`HybridPolicy`** models the policy of one hybrid function and every
  goroutine that reads or writes it:
  - `UpdatePolicy` (the policy endpoint) is four actions, `UpdateCold`,
    `UpdateWarm`, `UpdateSpawn` and `UpdateKeep`, one per guarded field
    write. The code holds only `policyMu.RLock` while it writes, so readers
    and other updates run between them. `WithCold` ... `WithKeep` are the
    four guards, and `UpdateApplied` is the whole call as one step. The
    invalid inputs the handler sends (`""` kinds, `-1` counts) are `NoKind`
    and `-1`.
  - Each evaluator is a read of the stats, then a write under
    `policyMu.Lock`. The write waits while an update holds the read side:
    - `EvalColdStartRead/Write` (`EvalColdStartPolicy`);
    - `EvalWarmStartRead/Write`;
    - `EvalSandboxUtilization` / `EvalSpawnAddlCtrs`, where `SpawnDelta`
      classifies `coldRatio` by the 0.10 and 0.25 thresholds.
  - `StatsUpdate` stands for `ProcessFunctionStats` writing one average or
    the epoch's `coldRatio`.
  - `ResolveHybridWarm` / `ResolveHybridMiss` / `CreateColdReplica` are
    `ResolveHybrid`. It takes one policy copy (`GetInvocationPolicy`), pops
    the warm kind, or creates the cold kind and, on success, starts
    `spawnAddlCtrs` spawn goroutines of the copy's warm kind.
  - `SpawnReplica(k)` is one such goroutine: `createReplica` with
    `setActive=false`.
  - When `CreateMayFail` holds, a create can fail after `createReplica`
    took the counter (`replicas.go` 105-107: a backend error, `GetNetNS`
    on an empty list, `runw`). The count is then kept and no replica
    exists. This holds both for the cold create (no spawns start) and for
    a spawn.
  - `ReturnReplica` is `UpdateReplicaStatusInactive`. It reads the policy
    again after the call, then deletes the replica or pools it.
  - The hybrid's two underlying functions are counts: `idle[k]` and
    `live[k]`. The order inside a pool is `IdleReplicas`' subject, and
    teardown failures are `ReplicaLifecycle`'s.
  - Evaluator goroutines may start at any point. The code starts them inside
    `ProcessFunctionStats` (a branch no stat reaches: every stat is tagged
    native or wasm),
    so this over-approximates when they run; it never changes what one does.
  - `EvalColdStartPolicy` reads the two averages under two separate locks.
    The model reads them in one step.
- **`MCHybridPolicy`**: two requests, one goroutine of each evaluator, and
  one update that is sent either a full policy (native cold, wasm warm, no
  spawns, keepalive 30) or nothing valid.
- **`FunctionRegistry`**: the registry, the table and the handlers that
  change them, with the invocations that use a registered function. It
  uses the `IdleReplicas` pool operators.
  - Variables:
    - `deployed`, the map's keys;
    - `db`, the names with a row;
    - `pool` and `active` of the current `Function` of each name (a deploy
      installs empty ones);
    - `rfn`, `live`, `containerCount`;
    - `born`, the process lifetime that made a replica;
    - `leakedRLocks`, read holds of `dfMu` whose goroutine panicked;
    - `up` and `crashes`;
    - one record per handler goroutine (`req`, `dep`, `del`, `upd`);
    - `cleaner`, the daemon's sweep: its place, the keys the range has yet
      to yield, the `Function` it holds (`fn`; `stale` once the map no
      longer holds that object, whose pool is then `opool`), the replicas
      expired at the sweep's `currTs` (`exp`) and the one it deletes.
  - `dfMu`: each critical section is one step. `CanLock` needs no leaked
    read hold; `CanRLock` fails only while a writer waits behind one
    (`WriterWaiting`), as Go's `RWMutex` does.
  - Invocation: `Resolve` (`GetDeployedFunction`, 404), `GetIdleReplica`,
    `AcquireCapacity`, `CreateNativeReplica` (looks the function up again),
    `AddActiveReplica`, `UpdateReplicaStatusInactive`. A nil entry panics
    where the code dereferences it; the goroutine ends and what it holds
    stays held.
  - Deploy: `DeployInsert` (`deploy()` or `InsertFunction` may fail;
    `InsertFunction` fails for a name with a row), then
    `AddDeployedFunction` under `Lock`.
  - Delete: `DeleteAllReplicas` (destroys the slice's replicas through
    `DestroyNative`, leaves them in it, touches nothing else), then
    `DeleteFunctionRow` (the row; a storage error ends the handler; a nil
    entry panics in `getContainers`), then `RemoveDeployedFunction` under
    `Lock`.
  - `UpdateHandler`: one read under `RLock`. The handler deploys into a
    local `Function` it never stores, and `service.Remove(name)` finds no
    container of that name.
  - `Crash` and `InitFunctionStore`: a crash ends every handler in flight.
    The restart reloads one empty `Function` per row, sets the counter
    to 0 and creates no `functionStats` entry (`statFns` becomes empty).
    Only `AddDeployedFunction` adds one. `Die` is that end of the process, shared by the crash, a panic on
    the daemon's goroutine and `FatalMapWrite`.
  - `FatalMapWrite`: the map is read without `dfMu` by `GetIdleReplica`,
    `AddActiveReplica`, `UpdateReplicaStatusInactive`, the daemon's range
    and `RemoveIdleReplica` (`UnguardedReader`). A deploy's or delete's
    write that overlaps such a read is a fatal error of the Go runtime, so
    the write may end the process instead.
  - The cleanup daemon (`CleanupStart`, `CleanupNextFunction`,
    `CleanupEvictLRU`, `CleanupDestroyVictim`, `CleanupExpireMRU`,
    `CleanupKeepMRU`), as in `ReplicaLifecycle` but over a changing map:
    - time is left out: `CleanupStart` picks the expired set, an
      oldest-first prefix of each pool's idle sequence (`ExpiredAt`, since
      `AddIdleReplica` stamps `lastAccess` in pool order); a replica
      returned during the sweep is fresh;
    - Go's range does not yield a key deleted before it is reached and may
      or may not yield one added during it;
    - when a deploy replaces or a delete removes the entry the daemon
      holds (`Orphaned`), it keeps the old object: `CleanupEvictLRU`
      reads that object's LRU but evicts through `RemoveIdleReplica
      (fn.name)` from the `Function` now mapped, or panics on a nil one.
  - Functions are native, so a returned replica always goes back to the
    pool (the zero policy has keepalive 0).
- **`MCFunctionRegistry`**: one function, three invocations, one deployer,
  two deleters, one updater, and smaller sets for the violation runs.
- **`IPAM`**: the `/ipam` sidechannel and the start-up steps that set up
  addressing.
  - State: `nextIP`, `ipconfigs` (container id to address, `NoAddr` for
    none), `netnsList`, `lifetime` (restarts so far), `ctr` (the plugin's
    view of each container: adding, up with an address, failed, deleting,
    gone) and `req` (the handler goroutine of each ADD attempt).
  - Addresses are numbers, packed from octets as `getNextIP` packs them,
    so the carry from one octet to the next is what the code does.
  - `LastReservedIP` is one step, because it holds `metricMu`. `Reserve`
    is a `Load` step and a `Store` step (`ReserveLoad`, `ReserveStore`),
    and `ReleaseBy` is a `Load` step and a `Delete` step. `FindBy` and
    `GetBy` only read and are left out.
  - The CNI plugin is not in this repository. It is the environment: an
    ADD asks `LastReservedIP` and then `Reserve`s that address; a plugin
    may give up on an attempt and try again (`AddStart`), while the old
    handler runs on and its answer is lost; a DEL asks `ReleaseBy`.
  - `Restart` is `InitFunctionStore` again: `nextIP` is 10.62.0.1,
    `ipconfigs` is a new `sync.Map`, the pool is built again, and handlers
    in flight end. Containers keep their addresses.
  - `CreateWasmInterfaces` and the wasmnet utility's loop are operators:
    `NSStep` and `WasmnetStep` are the loop bodies, and `Iterate` applies a
    body k times.
- **`MCIPAM`**: two containers as model values, with symmetry.
- **`MCReplicaLifecycle`**: model values for two functions (`fnN` native,
  `fnW` wasm) and two requests.

Two inputs are taken from what the code does in practice:
- A single-backend function's policy is the zero `Policy`, so its keepalive
  is 0 and `UpdateReplicaStatusInactive` always returns the replica to idle.
- `rns = 0` for native replicas.

## 3. Runs

| Run | cfg | Expect | What it shows |
|-----|-----|--------|---------------|
| `lifecycle` | `MCReplicaLifecycle.cfg` | pass | See below. |
| `counter_leak` | `MCReplicaLifecycle_CounterLeak.cfg` | violation | `CountersMatchLive`: with no backend failure at all, a wasm create that finds the namespace list empty keeps its slot. |
| `stats` | `MCStatsAggregator.cfg` | pass | `TypeOK`. `StatsExactBeforeWrap`: until the ring fills, it holds exactly the times sent, in order, and `avgSvcTime` is their mean. `SendCompletesUnlessStatLockLeaked`: a send blocked on the full channel completes, unless a metrics report has leaked a `statMu` read lock. |
| `stats_metrics_hang` | `MCStatsAggregator_MetricsHang.cfg` | violation | `SendEventuallyCompletes`: a metrics report of a function with no stat yet panics holding `statMu.RLock`. The aggregator then waits in `Lock` for ever, the channel fills, and a request never gets its stat sent. |
| `hybrid` | `MCHybridPolicy.cfg` | pass | See below. |
| `hybrid_torn_policy` | `MCHybridPolicy_Torn.cfg` | violation | `PolicyReadsAtomic`: a resolve reads the policy between two field writes of `UpdatePolicy` and cold-starts native with one spawn, which neither the old nor the new policy says. |
| `registry` | `MCFunctionRegistry.cfg` | pass | See below. |
| `registry_deploy_race` | `MCFunctionRegistry_Race.cfg` | violation | `RegistryMatchesStore`: a delete removes its row; a deploy of the same name inserts a new row and installs its `Function`; the delete then removes that entry. The name has a row and is not served. |
| `registry_hang` | `MCFunctionRegistry_Hang.cfg` | violation | `HandlersReturn`: a function is deleted while an invocation runs. The invocation's return panics holding `dfMu.RLock`, and the next deploy waits in `Lock` for ever. |
| `ipam` | `MCIPAM.cfg` | pass | See below. |
| `ipam_restart_reissue` | `MCIPAM_Reissue.cfg` | violation | `AddressesUnique`: a container is added with 10.62.0.1; the provider restarts; the next ADD is given 10.62.0.1 again while the first container still runs with it. |
| `registry_cleanup_spin` | `MCFunctionRegistry_CleanupSpin.cfg` | violation | `CleanupEnds`: a sweep starts; the function is deleted and redeployed before the daemon locks it. `RemoveIdleReplica(fn.name)` then pops the new, empty `Function`, the loop re-reads the old one's expired LRU, and the daemon deletes that replica for ever while every later tick skips. |

The `lifecycle` run checks, with create, teardown and upstream failures all
enabled:
- `TypeOK`;
- `ReplicaSingleLocation`: no replica occupies two pool slots, two pools, or
  a pool and a request;
- `NoDestroyedReplicaReachable`: the cleaner's lock drop never lets a request
  take a dead replica, and no destroyed replica stays in a pool;
- `CapacityRespected`: counters stay at or under their caps and at or above
  the live sandboxes;
- `ImplementsIdlePool`: the refinement of `IdlePool`. The mapping
  (`Abstract == INSTANCE IdlePool WITH ...`) reads a pool record as the
  sequence LRU, slice, MRU with nil slots dropped; `active` as the busy
  sets; `destroyed` as the dead set. It shows that:
  - a warm start takes the most recently returned replica;
  - the daemon, the single MRU check included, removes only the oldest
    idle replica, and only once it has expired at the current time, even
    though `currTs` is read at the start of the sweep;
  - no replica is destroyed while it is in a pool or active.
  The stranded LRU does not break this refinement: it is only a warm miss
  that the abstract pool allows.
  `PoolEvictLRUNoReset` (LRU not cleared) breaks it: the daemon then
  destroys a replica that is still idle.

The `hybrid` run checks, with an update, all three evaluators and stats
changes racing two invocations:
- `TypeOK`, whose counter bounds catch a spawn that skips the limit;
- `ReplicasWithinCounter`: the idle and serving replicas of a kind never
  outnumber its counter, so `Cap` bounds the containers. This holds across
  the cold create, the background spawns, the warm pop, and the return
  that decides on a fresh policy read. The counter may exceed the replicas,
  because a failed create keeps its count. `ReturnReplicaNoEarlyReturn`
  pools a replica whose count it released, and that breaks this property.

`counter_leak` already shows the counter leak itself. No liveness property
is stated here. `UpdatePolicy` releases its read lock with `defer`. The
evaluators run only in a branch no stat reaches (see above). A request's
stats send is `StatsAggregator`'s subject.

The `registry` run checks, with deploys, two concurrent deletes, an update,
three invocations, one cleanup sweep, storage errors and one crash or fatal
map race:
- `TypeOK`;
- `DaemonVictimUnreachable`: the replica the daemon deletes outside the
  pool lock is in no pool and no active set of a mapped `Function`, while
  invocations pop and push, a delete destroys the slice, and a redeploy
  swaps the `Function` the daemon holds. `CleanupEvictLRUNoRemove`
  (the delete without `RemoveIdleReplica`) breaks it.

It runs with `CHECK_DEADLOCK FALSE`, because the code really can stop: that
is `registry_hang`.

`EpochCapacity` (`FunctionRegistry`) states that within one process
lifetime the native counter is at most the cap and at least the number of
running containers made in that lifetime. The code breaks it, and no run
checks it. `DeleteAllReplicas` leaves destroyed replicas in the slice and
does not reset `count`. `DeleteNativeReplica` gives the count back even
for a container that is gone: `service.Remove` returns nil, and
`DelContainerCount` only stops at 0.

Under `MCFunctionRegistry.cfg`, TLC finds the violation in 21 states:
1. three replicas of `f1` run;
2. `x1` and `x2` both run `DeleteAllReplicas`, and both destroy the
   slice's replica;
3. the counter is now 1, while the LRU and MRU replicas still run.

The cap then admits one container more than it should. The same double
release follows a delete retried after a failed row delete.

The `ipam` run checks, with two containers added concurrently, attempts
given up and retried, DELs and one restart:
- `TypeOK`;
- `AddressesDistinctInLifetime`: two containers that got their addresses
  in the same process lifetime hold different addresses, although
  abandoned attempts take addresses too. `LastReservedIPUnlocked` (the
  read and write of `nextIP` without `metricMu`) breaks it;
- `WasmPoolMatchesNamespaces`: every entry of the pool that
  `CreateWasmInterfaces(500)` builds names a namespace the wasmnet utility
  created, with the address wasmnet gave it. The fourth octet wraps after
  .254, so the 500 entries cross from 10.63.100 to 10.63.101. With a
  `MaxWasmContainers` of 501 to 1000, which the code accepts (it clamps at
  1000), the pool names namespaces wasmnet never created.

The violation runs are findings of the code; see `findings` in `PROJECT.json`.
The failure flags are off in them, so each counterexample comes from the
code's normal paths.

**Bounds.**
- `MaxInvocations = 3` with two request goroutines: one function gets three
  replicas, two of them serving concurrently. That fills MRU, LRU and the
  slice of a pool.
- `NativeLimit = 3`: enough for three native replicas.
- `MaxWasmContainers = 1`: the wasm counter and the namespace list are both
  at their limit, so the timeout path and the empty-list path happen.
- `MaxTime = 1`, `ExpirationTime = 1`: replicas used at time 0 expire at
  time 1 while replicas returned at time 1 are fresh, and a sweep runs with
  its timestamp older than a concurrent return.

The run explores about 150,000 distinct states in under a minute.

For the aggregator:
- `MaxEntries = 4` stands for 100. The code reads p50 and p99 at Go indices
  49 and 98, and the model reads them at `MaxEntries/2 - 1` and
  `MaxEntries - 2`, the same ranks.
- `ChanCap = 2` stands for 100, so the channel fills.
- `MaxStats = 5` lets the ring wrap and take one more stat after that.
- `MaxReports = 1`: one metrics report, which may come before or after the
  first stat of `fA`, or be for `fX`.
- Service times come from {1, 2}.
- `EvalEvery = 2` stands for 10.

The pass run explores about 230,000 distinct states in about 35 s. It runs
with `CHECK_DEADLOCK FALSE`, because a leaked read lock really stops the
aggregator (that is `stats_metrics_hang`).

For the hybrid:
- `Cap = 1` per kind, so both the cold create and the spawns hit the limit
  and time out.
- `MaxStatUpdates = 1` with averages from {0, 1}: one stats change can flip
  a comparison between an evaluator's read and its write.
- `MAX_ADDL_CTRS = 5` and `MAX_KEEPALIVE_TIME = 60`, the code's values.
- Locals are dropped when a goroutine returns.

The pass run explores about 630,000 states in under a minute and a half.

For the registry:
- Three invocations with `Cap = 3` fill MRU, LRU and the slice of one pool
  (the slice is what `DeleteAllReplicas` destroys).
- `MaxCleanups = 1`: one sweep, which can start before or after any
  return, delete or deploy, and so meets each of them mid-sweep.
- Two deleters, so that a second delete meets the destroyed slice.
- `MaxCrashes = 1`: one crash, at any point, and one restart.
- Requests and deleters are interchangeable, so the run uses symmetry; it
  checks only invariants.

The run explores about 330,000 distinct states in about 25 s. It starts
from a table that holds `f1`, so its invocations first meet the reloaded
function's missing stats, and a deploy must first meet a delete.
`registry_hang` and `registry_cleanup_spin` start from a fresh install
(`InitFns <- NoFns`) with two deployers. There `f1` has its stats entry,
and the daemon's spin needs two replicas (an LRU), one delete and one
redeploy.

For the IPAM:
- Two containers, so that two ADDs race for `nextIP`.
- `MaxTries = 2`: one retry per container. An abandoned attempt can be
  before its `Load` or between `Load` and `Store`, so the retry's `Load`
  can find the old reservation.
- `MaxRestarts = 1`: a restart at any point, with containers up,
  half-added or being deleted.
- `MaxWasmContainers = WasmnetNamespaces = 500`, the defaults, which take
  the loops past one wrap of the fourth octet.

The run explores about 14,000 distinct states in about 10 s.

**Fairness.** `ReplicaLifecycle`, `HybridPolicy` and `IPAM` check only
safety and state no fairness.

In `StatsAggregator`, each blocked send and the aggregator loop get weak
fairness. `ProcessFunctionStats` loops on the channel for the life of the
process.

In `FunctionRegistry`, every handler goroutine and the daemon get weak
fairness (gocron calls the daemon every `ContainerCleanupInterval`, and a
started sweep is a running goroutine). `Crash`, `FatalMapWrite` and the
restart get none: nothing forces a crash or makes a racing write fatal, and
the restart is up to the operator.

`Finished` is a stuttering step taken only when the run's bounds are used up
and everything is idle. It keeps TLC from reporting that end as a deadlock.
The system itself never stops.

## 4. Not modelled yet, and the plan

1. **HybridPolicy**, done. Still to do: two goroutines of one evaluator, to
   state which stale write may win, and a composition with the
   aggregator's launch points.
2. **StatsAggregator**, done. Still to do: compose it with the proxy, so
   that a blocked send delays `ReturnReplicaToIdle`, and feed its averages
   to the policy evaluations.
3. **Deploy/Delete/Update and restart**, done in `FunctionRegistry`. Still
   to do:
   - the cleanup daemon is there now;
   - wasm functions: a second `DeleteWasmReplica` of a destroyed replica
     gives the wasm count back again (its removes do not fail on missing
     paths), the double release `EpochCapacity` shows for native.
4. **Abstract pool**, done (`IdlePool`, refined by `ReplicaLifecycle`).
   Still to do: refine the hybrid pools of `HybridPolicy` with the same
   abstraction.

Two properties are stated and fail on the code, but no run checks them,
because a sequential unit test reaches each of them:
- `ColdStartOnlyWhenPoolEmpty` (`ReplicaLifecycle`): `GetIdleReplica`
  looks only at MRU. After two returns and one warm start, a replica stays
  in LRU unseen, and the next warm request cold-starts, against spec 4.1
  and 4.5.
- `RoundTrip` (`StatsAggregator`): at entry 100 the service times are
  sorted before the 100th value is written, and `totalSvcTime` is reset
  before the addition. Inputs 1..100 give p50 49, p99 98 and an average
  of 1, where spec 5 and scenario 6 say 50, 99 and 50.

In `IPAM`, a plugin that gives up on an ADD between the old attempt's
`Load` and `Store` gets the race of `Reserve`: the late `Store` overwrites
the retry's reservation, so `GetBy` answers the abandoned address. Both
attempts answer "true". No property states this, because the retry is an
assumption about a plugin outside the repository.

`LastReservedIP` never reuses an address, and `getNextIP` carries into the
next octet. After 65,534 native ADDs the counter leaves 10.62.0.0/16 and
hands out 10.63.0.1, the wasm bridge's gateway. That many ADDs are beyond
the bounds.

`UpdateReplicaStatusInactive` deletes a replica of the cold-start kind
whenever `keepaliveColdStartCtr` is not 0, warm-started ones included,
while spec 4.9 sets a keepalive so that cold starters are kept warm.
`HybridPolicy`'s `ReturnReplica` does what the code does, and
`ReplicasWithinCounter` checks the books either way; which behaviour is meant
is not a property any run states.

The restart's reload of replicas with an empty `ctrType` is unreachable:
no `Container` row is ever written. So it is not modelled beyond that.

`AddActiveReplica` puts the replica in `activeReplicas`, then locks
`functionStats[fname].statMu` (`function_store.go` 391-401). Only
`AddDeployedFunction` creates that entry (line 254). `InitFunctionStore`
reloads the functions from the table (line 115) without one. After a
restart, the first cold start of a reloaded function therefore
dereferences a nil `*FunctionStats` and panics. Its replica is left active
and counted, and every later invocation does the same. A redeploy alone
does not help: `InsertFunction` fails for a name that has a row. Only a
delete followed by a deploy gives the function its stats back.

`FunctionRegistry` keeps the keys of `functionStats` as `statFns`, and its
`AddActiveReplica` panics for a name outside it. No run states the
consequence, because `counter_leak` already shows the same stranded count.
What this does to the stats themselves is `StatsAggregator`'s subject,
and that module has no restart.

Left out for good: the `ip netns` / `ip link` commands that build the
namespaces and the CNI calls (host I/O; `IPAM` keeps the number and
address each gives), SQLite I/O
other than the `Function` rows,
the other `/metrics` actions and the timing logs (they only fill and read
log buffers), the CLI and installer, and the example functions.
