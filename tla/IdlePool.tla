------------------------------ MODULE IdlePool ------------------------------
(***************************************************************************)
(* What the per-function idle pool promises (spec 3, 4.1, 4.10), stated    *)
(* without its MRU / LRU / slice layout: the idle replicas of a function   *)
(* form a sequence ordered by the time they were returned; a warm start    *)
(* takes the most recently returned one, eviction removes the oldest and   *)
(* only once it has been idle for ExpirationTime; a replica is idle or     *)
(* active, never both; a new replica has an identity never used before.    *)
(* A warm attempt may fall back to a cold start at any time (the stronger  *)
(* promise, a miss only on an empty pool, is checked separately).          *)
(***************************************************************************)
EXTENDS Naturals, Sequences, SequencesExt

CONSTANTS Fns, Ids, ExpirationTime, MaxTime

VARIABLES
    idle,      \* [Fns -> Seq(Ids)]: idle replicas, oldest first
    busy,      \* [Fns -> SUBSET Ids]: replicas marked active
    made,      \* replicas that have been created
    lastUse,   \* [Ids -> Nat]: when a replica was made or last returned
    dead,      \* replicas whose sandbox has been destroyed
    now        \* the clock

avars == <<idle, busy, made, lastUse, dead, now>>

\* The replicas of some function's idle sequence or busy set.
InUse == UNION {Range(idle[f]) \cup busy[f] : f \in Fns}

AInit ==
    /\ idle = [f \in Fns |-> << >>]
    /\ busy = [f \in Fns |-> {}]
    /\ made = {}
    /\ lastUse = [r \in Ids |-> 0]
    /\ dead = {}
    /\ now = 0

\* A cold start: a replica with a fresh identity is made and is active.
Spawn(f, r) ==
    /\ r \notin made
    /\ made' = made \cup {r}
    /\ busy' = [busy EXCEPT ![f] = @ \cup {r}]
    /\ lastUse' = [lastUse EXCEPT ![r] = now]
    /\ UNCHANGED <<idle, dead, now>>

\* A warm start: the most recently returned idle replica becomes active.
Take(f) ==
    /\ idle[f] /= << >>
    /\ idle' = [idle EXCEPT ![f] = Front(@)]
    /\ busy' = [busy EXCEPT ![f] = @ \cup {Last(idle[f])}]
    /\ UNCHANGED <<made, lastUse, dead, now>>

\* An active replica is handed back and becomes the newest idle one.
Return(f, r) ==
    /\ r \in busy[f]
    /\ busy' = [busy EXCEPT ![f] = @ \ {r}]
    /\ idle' = [idle EXCEPT ![f] = Append(@, r)]
    /\ lastUse' = [lastUse EXCEPT ![r] = now]
    /\ UNCHANGED <<made, dead, now>>

\* The oldest idle replica, once expired, leaves the pool; it is destroyed
\* in the same step or later by Destroy.
Evict(f) ==
    /\ idle[f] /= << >>
    /\ now - lastUse[Head(idle[f])] >= ExpirationTime
    /\ idle' = [idle EXCEPT ![f] = Tail(@)]
    /\ dead' \in {dead, dead \cup {Head(idle[f])}}
    /\ UNCHANGED <<busy, made, lastUse, now>>

\* A made replica that is neither idle nor active is destroyed.
Destroy(r) ==
    /\ r \in made \ (dead \cup InUse)
    /\ dead' = dead \cup {r}
    /\ UNCHANGED <<idle, busy, made, lastUse, now>>

Advance ==
    /\ now < MaxTime
    /\ now' = now + 1
    /\ UNCHANGED <<idle, busy, made, lastUse, dead>>

ANext ==
    \/ \E f \in Fns, r \in Ids : Spawn(f, r) \/ Return(f, r)
    \/ \E r \in Ids : Destroy(r)
    \/ \E f \in Fns : Take(f) \/ Evict(f)
    \/ Advance

ASpec == AInit /\ [][ANext]_avars

=============================================================================
