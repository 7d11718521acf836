-------------------------- MODULE FunctionRegistry --------------------------
(***************************************************************************)
(* The function registry of the provider: FunctionStore.deployedFunctions *)
(* (guarded by dfMu) and its copy in the sqlite Function table, changed by *)
(* the deploy, delete and update handlers (deploy.go, delete.go,          *)
(* update.go) while invocations resolve, use and return replicas of the   *)
(* registered Function objects (invoke_resolver.go, replicas.go,          *)
(* UpdateReplicaStatusInactive), and rebuilt from the table when the      *)
(* process restarts after a crash (InitFunctionStore).                    *)
(*                                                                         *)
(* A Function object is its idle pool and its activeReplicas set: a       *)
(* deploy installs a fresh one (empty pool, empty set).  Functions are    *)
(* single-backend native functions, whose policy has keepalive 0, so a    *)
(* returned replica always goes back to the pool.  A goroutine that       *)
(* panics (nil *Function) is recovered by net/http and ends; what it held *)
(* stays held.  The map itself is read without dfMu by the pool           *)
(* operations and by the cleanup daemon (CleanupDaemon), which ranges over *)
(* it: a map write that overlaps such a read is a fatal error of the Go    *)
(* runtime and ends the process, otherwise the read sees the map before or *)
(* after the write.  The daemon holds the *Function the range handed it    *)
(* while it drops the pool lock, and a deploy or delete may meanwhile put  *)
(* another Function under that name or none.                               *)
(***************************************************************************)
EXTENDS Naturals, Sequences, FiniteSets, IdleReplicas

CONSTANTS
    Fns,            \* function names
    InitFns,        \* rows of the Function table when the process starts
    Reqs,           \* goroutines serving one invocation each
    Deployers,      \* goroutines serving one deploy request each
    Deleters,       \* goroutines serving one delete request each
    Updaters,       \* goroutines serving one update request each
    MaxReplicas,    \* bound: replicas made over a behaviour
    Cap,            \* the native cap of AddContainerCount
    MaxCrashes,     \* bound: process crashes over a behaviour
    StorageMayFail, \* a sqlite statement may fail (disk full, locked file)
    MaxCleanups     \* bound: gocron runs of CleanupDaemon over a behaviour

ASSUME InitFns \subseteq Fns /\ Cap \in Nat /\ MaxCrashes \in Nat
ASSUME MaxReplicas \in Nat \ {0} /\ StorageMayFail \in BOOLEAN
ASSUME MaxCleanups \in Nat

VARIABLES
    up,          \* the provider process is running
    db,          \* names with a row in the Function table
    deployed,    \* the keys of FunctionStore.deployedFunctions
    pool,        \* [Fns -> pool record]: idleReplicas of the current Function
    active,      \* [Fns -> SUBSET Ids]: activeReplicas of the current Function
    rfn,         \* [Ids -> Fns \cup {NoFn}]: Replica.fname, NoFn if not made
    born,        \* [Ids -> Nat]: the process lifetime that made the replica
    live,        \* replicas whose container exists
    containerCount, \* FunctionStore.containerCount
    statFns,     \* the keys of FunctionStore.functionStats
    leakedRLocks,\* read holds of dfMu whose goroutine panicked
    crashes,     \* crashes so far; also the current process lifetime
    req, dep, del, upd, \* the handler goroutines
    cleaner      \* the CleanupDaemon run (cleanupMu.TryLock: one at a time)

vars == <<up, db, deployed, pool, active, rfn, born, live, containerCount,
          statFns, leakedRLocks, crashes, req, dep, del, upd, cleaner>>

Ids == 1..MaxReplicas
NoFn == "NoFn"
Made == {r \in Ids : rfn[r] /= NoFn}

\* The daemon between runs.  fn is the Function the range handed it, stale
\* once the map no longer holds that object, whose pool is then opool; exp
\* the replicas expired at the run's currTs; victim the replica it deletes.
CleanerAsleep(runs) ==
    [pc |-> "sleep", todo |-> {}, fn |-> NoFn, stale |-> FALSE,
     opool |-> EmptyPool, exp |-> {}, victim |-> Nil, runs |-> runs]

Init ==
    \* InitFunctionStore: one Function per row, and no replica, because no
    \* Container row is ever written (AddDeployedFunction stores the
    \* containers of a Function that has none yet).
    /\ up = TRUE
    /\ db = InitFns
    /\ deployed = InitFns
    /\ pool = [f \in Fns |-> EmptyPool]
    /\ active = [f \in Fns |-> {}]
    /\ rfn = [r \in Ids |-> NoFn]
    /\ born = [r \in Ids |-> 0]
    /\ live = {}
    /\ containerCount = 0
    \* NewFunctionStore makes functionStats empty and the reload adds none.
    /\ statFns = {}
    /\ leakedRLocks = 0
    /\ crashes = 0
    /\ req = [q \in Reqs |-> [pc |-> "idle", fn |-> NoFn, replica |-> Nil]]
    /\ dep = [d \in Deployers |-> [pc |-> "idle", fn |-> NoFn]]
    /\ del = [x \in Deleters |-> [pc |-> "idle", fn |-> NoFn]]
    /\ upd = [u \in Updaters |-> "idle"]
    /\ cleaner = CleanerAsleep(0)

-----------------------------------------------------------------------------
(***************************************************************************)
(* dfMu, a sync.RWMutex.  Every critical section is one step, so the only *)
(* holds that outlive a step are the read holds of panicked goroutines.   *)
(* Lock waits for the readers to leave; once a writer waits, RLock waits  *)
(* behind it.                                                              *)
(***************************************************************************)
WriterWaiting ==
    /\ leakedRLocks > 0
    /\ \/ \E d \in Deployers : dep[d].pc = "map"
       \/ \E x \in Deleters : del[x].pc = "unmap"

CanRLock == up /\ ~WriterWaiting
CanLock == up /\ leakedRLocks = 0

\* Nothing else about the Function changes when a goroutine ends.
ReqDone(q) == req' = [req EXCEPT ![q] = [pc |-> "done", fn |-> NoFn,
                                          replica |-> Nil]]
-----------------------------------------------------------------------------
(***************************************************************************)
(* An invocation (proxyRequest, Resolve, ResolveNative).                   *)
(***************************************************************************)
\* GetDeployedFunction under dfMu.RLock: 404 when the name is not mapped.
Resolve(q) ==
    /\ req[q].pc = "idle" /\ CanRLock
    /\ \E f \in Fns :
        IF f \in deployed
        THEN req' = [req EXCEPT ![q].pc = "warm", ![q].fn = f]
        ELSE ReqDone(q)
    /\ UNCHANGED <<statFns, up, db, deployed, pool, active, rfn, born, live,
                   containerCount, leakedRLocks, crashes, dep, del, upd, cleaner>>

\* Mutation-analysis variant: MRU is taken without the nil check.
GetIdleReplicaNoNilCheck(q) ==
    LET f == req[q].fn IN
    /\ req[q].pc = "warm" /\ up
    /\ \/ /\ f \notin deployed
          /\ ReqDone(q)
          /\ UNCHANGED <<statFns, pool, active>>
       \/ /\ f \in deployed
          /\ active' = [active EXCEPT ![f] = @ \cup {pool[f].MRU}]
          /\ pool' = [pool EXCEPT ![f] = PoolPop(@)]
          /\ req' = [req EXCEPT ![q].pc = "return", ![q].replica = pool[f].MRU]
    /\ UNCHANGED <<statFns, up, db, deployed, rfn, born, live, containerCount,
                   leakedRLocks, crashes, dep, del, upd, cleaner>>

\* GetIdleReplica: fs.deployedFunctions[fn] unguarded (nil: panic); takes
\* MRU into activeReplicas, or reports no idle replica (a cold start).
GetIdleReplica(q) ==
    LET f == req[q].fn IN
    /\ req[q].pc = "warm" /\ up
    /\ \/ /\ f \notin deployed
          /\ ReqDone(q)
          /\ UNCHANGED <<statFns, pool, active>>
       \/ /\ f \in deployed /\ pool[f].MRU /= Nil
          /\ active' = [active EXCEPT ![f] = @ \cup {pool[f].MRU}]
          /\ pool' = [pool EXCEPT ![f] = PoolPop(@)]
          /\ req' = [req EXCEPT ![q].pc = "return", ![q].replica = pool[f].MRU]
       \/ /\ f \in deployed /\ pool[f].MRU = Nil
          /\ req' = [req EXCEPT ![q].pc = "acquire"]
          /\ UNCHANGED <<statFns, pool, active>>
    /\ UNCHANGED <<statFns, up, db, deployed, rfn, born, live, containerCount,
                   leakedRLocks, crashes, dep, del, upd, cleaner>>

\* createReplica: AddContainerCount succeeds below the cap, or the 60 s
\* retry loop gives up with "container limit reached".
AcquireCapacity(q) ==
    /\ req[q].pc = "acquire" /\ up
    /\ \/ /\ containerCount < Cap
          /\ containerCount' = containerCount + 1
          /\ req' = [req EXCEPT ![q].pc = "create"]
       \/ /\ containerCount >= Cap
          /\ ReqDone(q)
          /\ UNCHANGED containerCount
    /\ UNCHANGED <<statFns, up, db, deployed, pool, active, rfn, born, live,
                   leakedRLocks, crashes, dep, del, upd, cleaner>>

\* createNativeReplica: GetDeployedFunction again (an error returns without
\* giving the count back), then the container is created and started.
CreateNativeReplica(q) ==
    LET f == req[q].fn
        r == CHOOSE i \in Ids \ Made : \A j \in Ids \ Made : i <= j
    IN
    /\ req[q].pc = "create" /\ CanRLock /\ Made /= Ids
    /\ \/ /\ f \notin deployed
          /\ ReqDone(q)
          /\ UNCHANGED <<statFns, rfn, born, live>>
       \/ /\ f \in deployed
          /\ rfn' = [rfn EXCEPT ![r] = f]
          /\ born' = [born EXCEPT ![r] = crashes]
          /\ live' = live \cup {r}
          /\ req' = [req EXCEPT ![q].pc = "addactive", ![q].replica = r]
    /\ UNCHANGED <<statFns, up, db, deployed, pool, active, containerCount,
                   leakedRLocks, crashes, dep, del, upd, cleaner>>

\* AddActiveReplica: fs.deployedFunctions[fname] unguarded (nil: panic,
\* the running container is referenced by nothing).  The replica is put in
\* activeReplicas, then functionStats[fname].statMu is locked: a function
\* reloaded by InitFunctionStore has no entry, and the nil dereference
\* panics with the replica left active (the deferred Unlock runs).
AddActiveReplica(q) ==
    LET f == req[q].fn IN
    /\ req[q].pc = "addactive" /\ up
    /\ IF f \in deployed
       THEN /\ active' = [active EXCEPT ![f] = @ \cup {req[q].replica}]
            /\ IF f \in statFns THEN req' = [req EXCEPT ![q].pc = "return"]
                                ELSE ReqDone(q)
       ELSE /\ ReqDone(q)
            /\ UNCHANGED active
    /\ UNCHANGED <<statFns, up, db, deployed, pool, rfn, born, live, containerCount,
                   leakedRLocks, crashes, dep, del, upd, cleaner>>

(***************************************************************************)
(* UpdateReplicaStatusInactive, after the upstream call.  It reads the     *)
(* Function's labels under dfMu.RLock: for an unmapped name that read      *)
(* panics with the read lock held.  Then it takes the replica out of       *)
(* activeReplicas; a Function installed since the replica was made does   *)
(* not hold it, the lookup yields nil and AddIdleReplica(nil) panics.     *)
(***************************************************************************)
UpdateReplicaStatusInactive(q) ==
    LET f == req[q].fn
        r == req[q].replica
    IN
    /\ req[q].pc = "return" /\ CanRLock
    /\ \/ /\ f \notin deployed
          /\ leakedRLocks' = leakedRLocks + 1
          /\ UNCHANGED <<statFns, pool, active, cleaner>>
       \/ /\ f \in deployed /\ r \notin active[f]
          /\ UNCHANGED <<statFns, pool, active, leakedRLocks, cleaner>>
       \/ /\ f \in deployed /\ r \in active[f]
          /\ active' = [active EXCEPT ![f] = @ \ {r}]
          \* AddIdleReplica stamps lastAccess after any running sweep's currTs
          /\ pool' = [pool EXCEPT ![f] = PoolPush(@, r)]
          /\ cleaner' = [cleaner EXCEPT !.exp = @ \ {r}]
          /\ UNCHANGED leakedRLocks
    /\ ReqDone(q)
    /\ UNCHANGED <<statFns, up, db, deployed, rfn, born, live, containerCount,
                   crashes, dep, del, upd>>
-----------------------------------------------------------------------------
(***************************************************************************)
(* MakeDeployHandler: deploy() (image pull, labels, wasm untar) may fail;  *)
(* then AddDeployedFunction inserts the row, which fails for a name that  *)
(* has one (PRIMARY KEY) or on a storage error, and only then installs a  *)
(* fresh Function under dfMu.Lock.                                         *)
(***************************************************************************)
\* InsertFunction: the name column is PRIMARY KEY, so a name with a row
\* is an error.
InsertFunction(f) == f \notin db /\ db' = db \cup {f}

\* DeleteFunction: DELETE ... WHERE name = ?, no error for a missing row.
DeleteFunction(f) == db' = db \ {f}

\* deploy() or InsertFunction returns an error and the handler answers 400,
\* or the row is written and the map entry is next.
DeployInsert(d) ==
    /\ dep[d].pc = "idle" /\ up
    /\ \E f \in Fns :
        \/ /\ dep' = [dep EXCEPT ![d] = [pc |-> "done", fn |-> NoFn]]
           /\ UNCHANGED db
        \/ /\ InsertFunction(f)
           /\ dep' = [dep EXCEPT ![d] = [pc |-> "map", fn |-> f]]
    /\ UNCHANGED <<statFns, up, deployed, pool, active, rfn, born, live,
                   containerCount, leakedRLocks, crashes, req, del, upd, cleaner>>

\* The daemon is sweeping the Function object now under f.
Sweeping(f) ==
    cleaner.pc \in {"lru", "destroy"} /\ cleaner.fn = f /\ ~cleaner.stale

\* The entry of f is replaced or removed: a daemon sweeping it keeps the old
\* object, which nothing else reaches any more.
Orphaned(f) ==
    IF Sweeping(f) THEN [cleaner EXCEPT !.stale = TRUE, !.opool = pool[f]]
    ELSE cleaner

\* fs.deployedFunctions[fn.name] = fn: the new Function replaces any entry,
\* and a fresh functionStats entry is made for the name.
\* A range in progress may or may not yield a key added during it.
AddDeployedFunction(d) ==
    LET f == dep[d].fn IN
    /\ dep[d].pc = "map" /\ CanLock
    /\ deployed' = deployed \cup {f}
    /\ statFns' = statFns \cup {f}
    /\ pool' = [pool EXCEPT ![f] = EmptyPool]
    /\ active' = [active EXCEPT ![f] = {}]
    /\ dep' = [dep EXCEPT ![d] = [pc |-> "done", fn |-> NoFn]]
    /\ cleaner' \in IF f \notin deployed /\ cleaner.pc /= "sleep"
                    THEN {cleaner, [cleaner EXCEPT !.todo = @ \cup {f}]}
                    ELSE {Orphaned(f)}
    /\ UNCHANGED <<up, db, rfn, born, live, containerCount, leakedRLocks,
                   crashes, req, del, upd>>

(***************************************************************************)
(* MakeDeleteHandler: DeleteAllReplicas, then RemoveDeployedFunction; the *)
(* errors of both are ignored.                                             *)
(***************************************************************************)
\* DeleteNativeReplica on each replica: DeleteCNINetwork's error is only
\* logged, service.Remove of a container that is already gone returns nil,
\* and DelContainerCount takes one off unless the counter is at 0.  The
\* calls of one delete are one step.
DestroyNative(S) ==
    /\ live' = live \ S
    /\ containerCount' = IF containerCount > Cardinality(S)
                         THEN containerCount - Cardinality(S) ELSE 0

\* Under idleReplicasLock: nothing when count <= 0, otherwise the replicas
\* of the containers slice are destroyed and left in it; MRU, LRU and the
\* active replicas are not touched.  An unmapped name panics.
DeleteAllReplicas(x) ==
    /\ del[x].pc = "idle" /\ up
    /\ \E f \in Fns :
        \/ /\ f \notin deployed
           /\ del' = [del EXCEPT ![x] = [pc |-> "done", fn |-> NoFn]]
           /\ UNCHANGED <<statFns, live, containerCount>>
        \/ /\ f \in deployed /\ pool[f].count = 0
           /\ del' = [del EXCEPT ![x] = [pc |-> "dbdelete", fn |-> f]]
           /\ UNCHANGED <<statFns, live, containerCount>>
        \/ /\ f \in deployed /\ pool[f].count > 0
           /\ DestroyNative(ToSet(pool[f].containers))
           /\ del' = [del EXCEPT ![x] = [pc |-> "dbdelete", fn |-> f]]
    /\ UNCHANGED <<statFns, up, db, deployed, pool, active, rfn, born, leakedRLocks,
                   crashes, req, dep, upd, cleaner>>

\* RemoveDeployedFunction: reads the entry under RLock, deletes the row (an
\* error returns), then getContainers(fn) panics on a nil entry.
DeleteFunctionRow(x) ==
    LET f == del[x].fn IN
    /\ del[x].pc = "dbdelete" /\ CanRLock
    /\ \/ /\ StorageMayFail
          /\ del' = [del EXCEPT ![x] = [pc |-> "done", fn |-> NoFn]]
          /\ UNCHANGED db
       \/ /\ DeleteFunction(f)
          /\ del' = [del EXCEPT ![x] = IF f \in deployed THEN [@ EXCEPT !.pc = "unmap"]
                                       ELSE [pc |-> "done", fn |-> NoFn]]
    /\ UNCHANGED <<statFns, up, deployed, pool, active, rfn, born, live,
                   containerCount, leakedRLocks, crashes, req, dep, upd, cleaner>>

\* Under dfMu.Lock: the entry is deleted if there is one; a range in
\* progress no longer yields it.
RemoveDeployedFunction(x) ==
    LET f == del[x].fn IN
    /\ del[x].pc = "unmap" /\ CanLock
    /\ deployed' = deployed \ {f}
    /\ del' = [del EXCEPT ![x] = [pc |-> "done", fn |-> NoFn]]
    /\ cleaner' = [Orphaned(f) EXCEPT !.todo = @ \ {f}]
    /\ UNCHANGED <<statFns, up, db, pool, active, rfn, born, live, containerCount,
                   leakedRLocks, crashes, req, dep, upd>>

(***************************************************************************)
(* MakeUpdateHandler: GetDeployedFunction (404 when unmapped) under RLock; *)
(* the secret and pull errors do not return; service.Remove(name) finds no *)
(* container of that name (replicas are named name_uuid_n); deploy() fills *)
(* a local Function that is never stored.  The registry is unchanged.     *)
(***************************************************************************)
UpdateHandler(u) ==
    /\ upd[u] = "idle" /\ CanRLock
    /\ upd' = [upd EXCEPT ![u] = "done"]
    /\ UNCHANGED <<statFns, up, db, deployed, pool, active, rfn, born, live,
                   containerCount, leakedRLocks, crashes, req, dep, del, cleaner>>

(***************************************************************************)
(* The process ends: every handler in flight ends and the in-memory store *)
(* is lost; containers keep running and the Function table stays.  The    *)
(* restart runs InitFunctionStore: one empty Function per row, counters at *)
(* 0.  A crash is a kill or a power loss (at most MaxCrashes); a panic on  *)
(* the daemon's goroutine or a fatal map race ends the process the same    *)
(* way.                                                                    *)
(***************************************************************************)
Die ==
    /\ up' = FALSE
    /\ crashes' = crashes + 1
    /\ deployed' = {}
    /\ leakedRLocks' = 0
    /\ req' = [q \in Reqs |-> IF req[q].pc = "idle" THEN req[q]
                              ELSE [pc |-> "done", fn |-> NoFn, replica |-> Nil]]
    /\ dep' = [d \in Deployers |-> IF dep[d].pc = "idle" THEN dep[d]
                                   ELSE [pc |-> "done", fn |-> NoFn]]
    /\ del' = [x \in Deleters |-> IF del[x].pc = "idle" THEN del[x]
                                  ELSE [pc |-> "done", fn |-> NoFn]]
    /\ cleaner' = CleanerAsleep(cleaner.runs)
    /\ UNCHANGED <<statFns, db, pool, active, rfn, born, live, containerCount, upd>>

Crash == up /\ crashes < MaxCrashes /\ Die

\* A goroutine is about to read deployedFunctions without dfMu: the pool
\* operations of an invocation, the daemon's range and RemoveIdleReplica.
UnguardedReader ==
    \/ \E q \in Reqs : req[q].pc \in {"warm", "addactive", "return"}
    \/ cleaner.pc \in {"scan", "lru"}

\* A deploy's or a delete's map write overlaps an unguarded read: "fatal
\* error: concurrent map read and map write" (or "iteration and map
\* write") ends the process, and no recover catches it.
FatalMapWrite ==
    /\ \/ \E d \in Deployers : dep[d].pc = "map"
       \/ \E x \in Deleters : del[x].pc = "unmap" /\ del[x].fn \in deployed
    /\ CanLock /\ UnguardedReader /\ crashes < MaxCrashes
    /\ Die

InitFunctionStore ==
    /\ ~up
    /\ up' = TRUE
    /\ deployed' = db
    /\ pool' = [f \in Fns |-> EmptyPool]
    /\ active' = [f \in Fns |-> {}]
    /\ containerCount' = 0
    /\ statFns' = {}
    /\ UNCHANGED <<db, rfn, born, live, leakedRLocks, crashes, req, dep, del,
                   upd, cleaner>>

(***************************************************************************)
(* CleanupDaemon, run by gocron every ContainerCleanupInterval seconds:    *)
(* for each function of the range, under fn.idleReplicasLock, it evicts    *)
(* the LRU while it is expired, dropping the lock around each              *)
(* DeleteReplica, then checks MRU once.                                    *)
(***************************************************************************)
\* The idle replicas of the mapped Functions.
IdleNow == UNION {Range(IdleSeq(pool[f])) : f \in deployed}

\* E is what expires at currTs: idle sequences are in lastAccess order, so
\* E holds an oldest-first prefix of each.
ExpiredAt(E) ==
    \A f \in deployed :
        LET s == IdleSeq(pool[f]) IN
        \E k \in 0..Len(s) : E \cap Range(s) = Range(SubSeq(s, 1, k))

\* TryLock on cleanupMu succeeds (one sweep at a time); currTs = time.Now().
CleanupStart ==
    /\ cleaner.pc = "sleep" /\ up /\ cleaner.runs < MaxCleanups
    /\ \E E \in SUBSET IdleNow :
         /\ ExpiredAt(E)
         /\ cleaner' = [cleaner EXCEPT !.pc = "scan", !.todo = deployed,
                                       !.exp = E, !.runs = @ + 1]
    /\ UNCHANGED <<statFns, up, db, deployed, pool, active, rfn, born, live,
                   containerCount, leakedRLocks, crashes, req, dep, del, upd>>

\* The range yields a key not yet visited and the Function under it, or
\* ends and the sweep returns (cleanupMu.Unlock).
CleanupNextFunction ==
    /\ cleaner.pc = "scan" /\ up
    /\ \/ \E f \in cleaner.todo :
            cleaner' = [cleaner EXCEPT !.pc = "lru", !.fn = f, !.todo = @ \ {f}]
       \/ /\ cleaner.todo = {}
          /\ cleaner' = CleanerAsleep(cleaner.runs)
    /\ UNCHANGED <<statFns, up, db, deployed, pool, active, rfn, born, live,
                   containerCount, leakedRLocks, crashes, req, dep, del, upd>>

\* The pool of the Function object the daemon holds.
HeldPool == IF cleaner.stale THEN cleaner.opool ELSE pool[cleaner.fn]

\* Mutation-analysis variant: the expired LRU is deleted without
\* RemoveIdleReplica.
CleanupEvictLRUNoRemove ==
    LET r == HeldPool.LRU IN
    /\ cleaner.pc = "lru" /\ up /\ r /= Nil /\ r \in cleaner.exp
    /\ cleaner' = [cleaner EXCEPT !.pc = "destroy", !.victim = r]
    /\ UNCHANGED <<statFns, up, db, deployed, pool, active, rfn, born, live,
                   containerCount, leakedRLocks, crashes, req, dep, del, upd>>

\* Under the held Function's lock its LRU is expired: RemoveIdleReplica
\* (fn.name) looks the name up again and evicts the LRU of the Function
\* now under it, then unlock.  No Function under it: the nil dereference
\* panics on the daemon's goroutine, which nothing recovers.
CleanupEvictLRU ==
    LET f == cleaner.fn
        r == HeldPool.LRU
    IN
    /\ cleaner.pc = "lru" /\ up /\ r /= Nil /\ r \in cleaner.exp
    /\ \/ /\ f \in deployed
          /\ pool' = [pool EXCEPT ![f] = PoolEvictLRU(@)]
          /\ cleaner' = [cleaner EXCEPT !.pc = "destroy", !.victim = r]
          /\ UNCHANGED <<statFns, up, db, deployed, active, rfn, born, live,
                         containerCount, leakedRLocks, crashes, req, dep,
                         del, upd>>
       \/ /\ f \notin deployed
          /\ Die

\* Outside the lock: DeleteReplica(victim), the 10 ms sleep, relock.
CleanupDestroyVictim ==
    /\ cleaner.pc = "destroy" /\ up
    /\ DestroyNative({cleaner.victim})
    /\ cleaner' = [cleaner EXCEPT !.pc = "lru", !.victim = Nil]
    /\ UNCHANGED <<statFns, up, db, deployed, pool, active, rfn, born, leakedRLocks,
                   crashes, req, dep, del, upd>>

\* The daemon leaves the held Function and goes back to the range.
NextKey == [cleaner EXCEPT !.pc = "scan", !.fn = NoFn, !.stale = FALSE,
                           !.opool = EmptyPool]

\* The LRU loop ends (nil or not expired); an expired MRU of the held
\* object is set to nil (count is left alone) and deleted; unlock.
CleanupExpireMRU ==
    LET p == HeldPool IN
    /\ cleaner.pc = "lru" /\ up
    /\ p.LRU = Nil \/ p.LRU \notin cleaner.exp
    /\ p.MRU /= Nil /\ p.MRU \in cleaner.exp
    /\ pool' = IF cleaner.stale THEN pool
               ELSE [pool EXCEPT ![cleaner.fn].MRU = Nil]
    /\ DestroyNative({p.MRU})
    /\ cleaner' = NextKey
    /\ UNCHANGED <<statFns, up, db, deployed, active, rfn, born, leakedRLocks,
                   crashes, req, dep, del, upd>>

CleanupKeepMRU ==
    LET p == HeldPool IN
    /\ cleaner.pc = "lru" /\ up
    /\ p.LRU = Nil \/ p.LRU \notin cleaner.exp
    /\ p.MRU = Nil \/ p.MRU \notin cleaner.exp
    /\ cleaner' = NextKey
    /\ UNCHANGED <<statFns, up, db, deployed, pool, active, rfn, born, live,
                   containerCount, leakedRLocks, crashes, req, dep, del, upd>>

-----------------------------------------------------------------------------
AllDone ==
    /\ \A q \in Reqs : req[q].pc \in {"idle", "done"}
    /\ \A d \in Deployers : dep[d].pc \in {"idle", "done"}
    /\ \A x \in Deleters : del[x].pc \in {"idle", "done"}
    /\ cleaner.pc = "sleep"

\* Every handler has returned and the process runs: nothing more happens.
Finished == up /\ AllDone /\ UNCHANGED vars

ReqStep(q) ==
    \/ Resolve(q) \/ GetIdleReplica(q) \/ AcquireCapacity(q)
    \/ CreateNativeReplica(q) \/ AddActiveReplica(q)
    \/ UpdateReplicaStatusInactive(q)

DeployStep(d) == DeployInsert(d) \/ AddDeployedFunction(d)

DeleteStep(x) ==
    DeleteAllReplicas(x) \/ DeleteFunctionRow(x) \/ RemoveDeployedFunction(x)

CleanupStep ==
    \/ CleanupStart \/ CleanupNextFunction \/ CleanupEvictLRU
    \/ CleanupDestroyVictim \/ CleanupExpireMRU \/ CleanupKeepMRU

Next ==
    \/ \E q \in Reqs : ReqStep(q)
    \/ \E d \in Deployers : DeployStep(d)
    \/ \E x \in Deleters : DeleteStep(x)
    \/ \E u \in Updaters : UpdateHandler(u)
    \/ CleanupStep
    \/ Crash \/ FatalMapWrite \/ InitFunctionStore
    \/ Finished

\* The Go scheduler runs every runnable goroutine and gocron fires the
\* daemon every interval; nothing forces a crash or a racing write to
\* fail, and a restart is up to the operator.
Fairness ==
    /\ \A q \in Reqs : WF_vars(ReqStep(q))
    /\ \A d \in Deployers : WF_vars(DeployStep(d))
    /\ \A x \in Deleters : WF_vars(DeleteStep(x))
    /\ \A u \in Updaters : WF_vars(UpdateHandler(u))
    /\ WF_vars(CleanupStep)

Spec == Init /\ [][Next]_vars /\ Fairness
-----------------------------------------------------------------------------
(***************************************************************************)
(* Properties.                                                             *)
(***************************************************************************)
\* Process lifetimes: crashes, and at most one daemon panic per sweep.
Lifetimes == 0..(MaxCrashes + MaxCleanups)

RecordsOf(pcs) == [pc: pcs, fn: Fns \cup {NoFn}]

TypeOK ==
    /\ up \in BOOLEAN /\ db \subseteq Fns /\ deployed \subseteq Fns
    /\ pool \in [Fns -> PoolType(Ids)]
    /\ active \in [Fns -> SUBSET Ids]
    /\ rfn \in [Ids -> Fns \cup {NoFn}] /\ born \in [Ids -> Lifetimes]
    /\ live \subseteq Made
    /\ containerCount \in Int /\ statFns \subseteq Fns /\ leakedRLocks \in Nat
    /\ crashes \in Lifetimes
    /\ req \in [Reqs -> [pc: {"idle", "warm", "acquire", "create",
                              "addactive", "return", "done"},
                         fn: Fns \cup {NoFn}, replica: Ids \cup {Nil}]]
    /\ dep \in [Deployers -> RecordsOf({"idle", "map", "done"})]
    /\ del \in [Deleters -> RecordsOf({"idle", "dbdelete", "unmap", "done"})]
    /\ upd \in [Updaters -> {"idle", "done"}]
    /\ cleaner \in [pc: {"sleep", "scan", "lru", "destroy"}, todo: SUBSET Fns,
                    fn: Fns \cup {NoFn}, stale: BOOLEAN, opool: PoolType(Ids),
                    exp: SUBSET Ids, victim: Ids \cup {Nil},
                    runs: 0..MaxCleanups]

\* A delete of f has removed the row and not yet the map entry.
UnmapPending(f) == \E x \in Deleters : del[x].pc = "unmap" /\ del[x].fn = f

\* A deploy of f has inserted the row and not yet the map entry.
MapPending(f) == \E d \in Deployers : dep[d].pc = "map" /\ dep[d].fn = f

(***************************************************************************)
(* Within one process lifetime the native counter never counts fewer      *)
(* containers than are running, and stays within the cap: a delete that   *)
(* meets a replica another delete (or the same slice twice) already       *)
(* destroyed must not give its count back again.  DeleteAllReplicas       *)
(* leaves destroyed replicas in the slice and does not reset count, so    *)
(* two deletes of one function, or a delete retried after a failed row    *)
(* delete, destroy the same replicas twice, and DeleteNativeReplica gives  *)
(* the count back each time (service.Remove of a container that is gone   *)
(* returns nil): this code does not keep the property.                    *)
(***************************************************************************)
EpochCapacity ==
    /\ Cardinality({r \in live : born[r] = crashes}) <= containerCount
    /\ containerCount <= Cap

(***************************************************************************)
(* The replica the daemon deletes outside the pool lock is in no pool and *)
(* no active set of a mapped Function: not while invocations pop and push, *)
(* a delete destroys the slice, or a deploy replaces the Function the     *)
(* daemon holds (RemoveIdleReplica then evicts from the new one).         *)
(***************************************************************************)
DaemonVictimUnreachable ==
    cleaner.pc = "destroy" =>
        \A f \in deployed : cleaner.victim \notin Members(pool[f]) \cup active[f]

(***************************************************************************)
(* The registry and the Function table agree on every name, except while  *)
(* a deploy or a delete of it is between its two writes: a deploy that    *)
(* succeeds is served, and a delete that returns leaves no row that a     *)
(* restart would bring back (spec 6: deploy creates, delete removes).     *)
(***************************************************************************)
RegistryMatchesStore ==
    up => \A f \in Fns :
            (f \in deployed <=> f \in db) \/ UnmapPending(f) \/ MapPending(f)

(***************************************************************************)
(* A sweep the daemon starts ends: the range visits each function once   *)
(* and the LRU loop stops at the first nil or unexpired LRU.  While one   *)
(* runs, every later gocron tick fails cleanupMu.TryLock and returns, so  *)
(* a sweep that never ends is the end of all cleanup.  The held Function  *)
(* replaced under its name, RemoveIdleReplica pops the new Function's     *)
(* pool while the loop re-reads the old one's LRU.                        *)
(***************************************************************************)
CleanupEnds == cleaner.pc /= "sleep" ~> cleaner.pc = "sleep"

(***************************************************************************)
(* Every deploy, delete and invocation handler eventually returns.  A     *)
(* goroutine that panics inside UpdateReplicaStatusInactive holding dfMu's *)
(* read lock must not keep the writers (AddDeployedFunction,               *)
(* RemoveDeployedFunction) and, behind them, every reader waiting.        *)
(***************************************************************************)
HandlersReturn ==
    /\ \A d \in Deployers : dep[d].pc = "map" ~> dep[d].pc = "done"
    /\ \A x \in Deleters : del[x].pc = "unmap" ~> del[x].pc = "done"
====
