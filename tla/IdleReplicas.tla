---------------------------- MODULE IdleReplicas ----------------------------
(***************************************************************************)
(* The per-function idle pool of src/pkg/provider/handlers (type           *)
(* IdleReplicas in functions.go): a distinguished MRU slot, an LRU slot, a *)
(* slice `containers` between them and a uint32 `count`.  Replicas are     *)
(* positive naturals; the Go nil pointer is 0.  The operators are pure:    *)
(* they map a pool record to a pool record and are used by the actions of *)
(* ReplicaLifecycle, which hold the pool lock around them as the code     *)
(* holds idleReplicasLock.                                                 *)
(***************************************************************************)
EXTENDS Naturals, Sequences, SequencesExt

Nil == 0

EmptyPool == [MRU |-> Nil, LRU |-> Nil, containers |-> << >>, count |-> 0]

PoolType(Ids) ==
    [MRU: Ids \cup {Nil}, LRU: Ids \cup {Nil}, containers: Seq(Ids), count: Nat]

\* The replicas the pool structure references, whatever count says.
Members(p) == ({p.MRU, p.LRU} \ {Nil}) \cup ToSet(p.containers)

\* The slots a replica occupies; more than one would be a duplicated replica.
Occurrences(p, r) ==
    (IF p.MRU = r THEN 1 ELSE 0) + (IF p.LRU = r THEN 1 ELSE 0)
        + Len(SelectSeq(p.containers, LAMBDA x : x = r))

\* The idle replicas in the order they were returned (AddIdleReplica stamps
\* lastAccess): LRU, then the slice, then MRU, nil slots left out.
IdleSeq(p) ==
    SelectSeq(<<p.LRU>> \o p.containers \o <<p.MRU>>, LAMBDA r : r /= Nil)

(***************************************************************************)
(* AddIdleReplica: the new replica becomes MRU; the old MRU moves to LRU   *)
(* when LRU and the slice are empty, and is appended to the slice          *)
(* otherwise.                                                              *)
(***************************************************************************)
PoolPush(p, r) ==
    IF p.MRU = Nil
    THEN [p EXCEPT !.MRU = r, !.count = @ + 1]
    ELSE IF p.LRU = Nil /\ p.containers = << >>
         THEN [p EXCEPT !.LRU = p.MRU, !.MRU = r, !.count = @ + 1]
         ELSE [p EXCEPT !.containers = Append(@, p.MRU), !.MRU = r,
                        !.count = @ + 1]

(***************************************************************************)
(* GetIdleReplica, the pool part: the caller takes p.MRU (it must be non-  *)
(* nil); the last element of the slice becomes MRU, or MRU becomes nil and *)
(* count is reset to 0 when the slice is empty.  LRU is never consulted.   *)
(***************************************************************************)
\* Mutation-analysis variant of PoolPop: MRU is not cleared when the slice
\* is empty.
PoolPopNoReset(p) ==
    IF p.containers /= << >>
    THEN [p EXCEPT !.MRU = Last(p.containers), !.count = @ - 1,
                   !.containers = Front(@)]
    ELSE [p EXCEPT !.count = 0]

PoolPop(p) ==
    IF p.containers /= << >>
    THEN [p EXCEPT !.MRU = Last(p.containers), !.count = @ - 1,
                   !.containers = Front(@)]
    ELSE [p EXCEPT !.MRU = Nil, !.count = 0]

(***************************************************************************)
(* RemoveIdleReplica: drops the current LRU (the caller destroys it); the  *)
(* head of the slice becomes LRU, or LRU becomes nil and count is reset to *)
(* 0 when the slice is empty, whatever MRU still holds.                    *)
(***************************************************************************)
\* Mutation-analysis variant of PoolEvictLRU: LRU is not cleared when the
\* slice is empty.
PoolEvictLRUNoReset(p) ==
    IF p.containers /= << >>
    THEN [p EXCEPT !.LRU = Head(p.containers), !.containers = Tail(@),
                   !.count = @ - 1]
    ELSE [p EXCEPT !.count = 0]

PoolEvictLRU(p) ==
    IF p.containers /= << >>
    THEN [p EXCEPT !.LRU = Head(p.containers), !.containers = Tail(@),
                   !.count = @ - 1]
    ELSE [p EXCEPT !.LRU = Nil, !.count = 0]

=============================================================================
