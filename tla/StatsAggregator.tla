--------------------------- MODULE StatsAggregator ---------------------------
(***************************************************************************)
(* The statistics path of src/pkg/provider/handlers/stats.go.  Request     *)
(* goroutines, after a successful upstream call, hand their stat to        *)
(* UpdateFunctionStats, which sends it (twice for a hybrid function) on    *)
(* the buffered channel statsChan; the single goroutine running            *)
(* ProcessFunctionStats receives each stat and folds it into the           *)
(* function's FunctionStats: a ring of MaxEntries service times (100 in    *)
(* the code), running totals and averages, p50/p99 recomputed when the     *)
(* ring is full, and, for stats tagged "hybrid", the launch of the policy  *)
(* evaluations.                                                            *)
(*                                                                         *)
(* A stat is reduced to what the aggregator computes with: its function,   *)
(* its CtrType tag, its service time (StartupTime + ExecTime, which the    *)
(* code only ever adds) and its startup type.                              *)
(***************************************************************************)
EXTENDS Naturals, Sequences, SequencesExt, FiniteSets, TLC

CONSTANTS
    Fns,             \* function names
    FnKind,          \* the ctrType label of each function
    Sandboxes,       \* a hybrid's underlying functions, per backend kind
    Registered,      \* functions that have a functionStats entry
    Reqs,            \* request goroutines that report stats
    SvcTimes,        \* service times (ms) a stat may carry
    MaxEntries,      \* MAX_ENTRIES, the ring size (100)
    ChanCap,         \* capacity of statsChan (100)
    MaxStats,        \* bound on the invocations that report a stat
    EvalEvery,       \* every how many cold/warm samples a policy is evaluated (10)
    SampleThreshold, \* cfg.InvocationSampleThreshold
    MaxReports       \* bound on the /metrics?action=stats requests

Kinds == {"native", "wasm"}

ASSUME /\ FnKind \in [Fns -> {"native", "wasm", "hybrid"}]
       /\ Sandboxes \in [Fns -> [Kinds -> Fns]]
       /\ Registered \subseteq Fns
       /\ SvcTimes \subseteq Nat
       /\ MaxEntries \in Nat /\ MaxEntries >= 2
       /\ ChanCap \in Nat \ {0}
       /\ MaxStats \in Nat
       /\ EvalEvery \in Nat \ {0}
       /\ SampleThreshold \in Nat
       /\ MaxReports \in Nat

VARIABLES
    statsChan,  \* the stats buffered in the channel, oldest first
    outbox,     \* per request: the stats UpdateFunctionStats still has to send
    fstats,     \* fs.functionStats, per registered function
    evals,      \* per function: policy evaluations launched (util, cold, warm)
    hist,       \* history: per function, the stats applied to it, in order
    sent,       \* history: the invocations that reported stats so far
    leaked,     \* per registered function: read holds of statMu never released
    reports     \* the metrics report requests served so far

vars == <<statsChan, outbox, fstats, evals, hist, sent, leaked, reports>>

Stat == [fn: Fns, ctr: {"native", "wasm", "hybrid"}, svc: SvcTimes,
         startup: {"cold", "warm"}]

\* The Go indices the code reads p50 and p99 at (49 and 98 for 100 entries).
P50Index == MaxEntries \div 2 - 1
P99Index == MaxEntries - 2

\* The zero FunctionStats that AddDeployedFunction stores.
ZeroStats ==
    [entryPos |-> 0, coldPos |-> 0, warmPos |-> 0,
     currInvocations |-> 0, coldStarts |-> 0, warmStarts |-> 0,
     totalInvocations |-> 0,
     serviceTimes |-> [i \in 1..MaxEntries |-> 0],
     totalSvcTime |-> 0, avgSvcTime |-> 0,
     p50SvcTime |-> 0, p99SvcTime |-> 0,
     totalSvcCold |-> 0, avgSvcCold |-> 0,
     totalSvcWarm |-> 0, avgSvcWarm |-> 0]

Init ==
    /\ statsChan = << >>
    /\ outbox = [q \in Reqs |-> << >>]
    /\ fstats = [f \in Registered |-> ZeroStats]
    /\ evals = [f \in Fns |-> [util |-> 0, cold |-> 0, warm |-> 0]]
    /\ hist = [f \in Fns |-> << >>]
    /\ sent = 0
    /\ leaked = [f \in Registered |-> 0]
    /\ reports = 0

-----------------------------------------------------------------------------
(***************************************************************************)
(* UpdateFunctionStats: the stats one invocation reports.  A hybrid        *)
(* reports the backend that served it (the _n / _w suffix of the replica   *)
(* name) twice: against the hybrid and against the underlying function.    *)
(* Neither stat is tagged "hybrid".                                        *)
(***************************************************************************)
StatsFor(f, served, svc, startup) ==
    IF FnKind[f] = "hybrid"
    THEN << [fn |-> f, ctr |-> served, svc |-> svc, startup |-> startup],
            [fn |-> Sandboxes[f][served], ctr |-> served, svc |-> svc,
             startup |-> startup] >>
    ELSE << [fn |-> f, ctr |-> FnKind[f], svc |-> svc, startup |-> startup] >>

\* proxyRequest has its response and calls UpdateFunctionStats.
ReportStats(q) ==
    /\ outbox[q] = << >>
    /\ sent < MaxStats
    /\ \E f \in Fns, svc \in SvcTimes, startup \in {"cold", "warm"} :
         \E served \in (IF FnKind[f] = "hybrid" THEN Kinds ELSE {FnKind[f]}) :
            outbox' = [outbox EXCEPT ![q] = StatsFor(f, served, svc, startup)]
    /\ sent' = sent + 1
    /\ UNCHANGED <<statsChan, fstats, evals, hist, leaked, reports>>

\* Mutation-analysis variant of SendStat: the send ignores the buffer size.
SendStatUnbounded(q) ==
    /\ outbox[q] /= << >>
    /\ statsChan' = Append(statsChan, Head(outbox[q]))
    /\ outbox' = [outbox EXCEPT ![q] = Tail(@)]
    /\ UNCHANGED <<fstats, evals, hist, sent, leaked, reports>>

\* fs.statsChan <- stat: blocks while the channel holds ChanCap stats.
SendStat(q) ==
    /\ outbox[q] /= << >>
    /\ Len(statsChan) < ChanCap
    /\ statsChan' = Append(statsChan, Head(outbox[q]))
    /\ outbox' = [outbox EXCEPT ![q] = Tail(@)]
    /\ UNCHANGED <<fstats, evals, hist, sent, leaked, reports>>

-----------------------------------------------------------------------------
(***************************************************************************)
(* ProcessFunctionStats, one received stat, under the function's statMu.   *)
(* The order is the code's: when entryPos is the last slot the ring is     *)
(* sorted in place and p50/p99 read from it, and totalSvcTime reset,       *)
(* BEFORE the new service time is added and written at entryPos.  The      *)
(* cold (warm) total is assigned, not added to.                            *)
(***************************************************************************)
\* Mutation-analysis variant of SvcTotal: totalSvcTime is assigned the new
\* service time instead of accumulating it.
SvcTotalAssigned(s, stat) == stat.svc

\* totalSvcTime after the stat: reset first when the ring is full.
SvcTotal(s, stat) ==
    (IF s.entryPos = MaxEntries - 1 THEN 0 ELSE s.totalSvcTime) + stat.svc

ProcessRecord(s, stat) ==
    LET wrap  == s.entryPos = MaxEntries - 1
        times == IF wrap THEN SortSeq(s.serviceTimes, <) ELSE s.serviceTimes
        total == SvcTotal(s, stat)
        cold  == stat.startup = "cold"
        warm  == stat.startup = "warm"
    IN [s EXCEPT
          !.currInvocations = @ + 1,
          !.p50SvcTime = IF wrap THEN times[P50Index + 1] ELSE @,
          !.p99SvcTime = IF wrap THEN times[P99Index + 1] ELSE @,
          !.totalSvcTime = total,
          !.avgSvcTime = total \div (s.entryPos + 1),
          !.totalInvocations = @ + 1,
          !.serviceTimes = [times EXCEPT ![s.entryPos + 1] = stat.svc],
          !.coldStarts = IF cold THEN @ + 1 ELSE @,
          !.totalSvcCold = IF cold THEN stat.svc
                           ELSE IF s.coldPos = MaxEntries - 1 THEN 0 ELSE @,
          !.avgSvcCold = IF cold THEN stat.svc \div (s.coldPos + 1) ELSE @,
          !.coldPos = IF cold THEN (@ + 1) % MaxEntries ELSE @,
          !.warmStarts = IF warm THEN @ + 1 ELSE @,
          !.totalSvcWarm = IF warm THEN stat.svc
                           ELSE IF s.warmPos = MaxEntries - 1 THEN 0 ELSE @,
          !.avgSvcWarm = IF warm THEN stat.svc \div (s.warmPos + 1) ELSE @,
          !.warmPos = IF warm THEN (@ + 1) % MaxEntries ELSE @,
          !.entryPos = (@ + 1) % MaxEntries]

\* The "hybrid" branch: the epoch counters are reset when currInvocations
\* reaches the sample threshold (the ratios are only logged and stored).
HybridEpoch(s, stat) ==
    IF stat.ctr = "hybrid" /\ s.currInvocations = SampleThreshold
    THEN [s EXCEPT !.currInvocations = 0, !.warmStarts = 0, !.coldStarts = 0]
    ELSE s

\* The evaluations the "hybrid" branch launches as goroutines; the cold and
\* warm triggers test the positions read before the update.
Launched(e, old, new, stat) ==
    IF stat.ctr /= "hybrid" THEN e
    ELSE [e EXCEPT
            !.util = IF new.currInvocations = SampleThreshold THEN @ + 1 ELSE @,
            !.cold = IF (old.coldPos + 1) % EvalEvery = 0 THEN @ + 1 ELSE @,
            !.warm = IF (old.warmPos + 1) % EvalEvery = 0 THEN @ + 1 ELSE @]

\* Mutation-analysis variant of DropUnknownStat: the stat is skipped without
\* being taken off the channel.
DropUnknownStatNoReceive ==
    /\ statsChan /= << >>
    /\ Head(statsChan).fn \notin Registered
    /\ UNCHANGED vars

\* A stat for a function without a functionStats entry is logged and dropped.
DropUnknownStat ==
    /\ statsChan /= << >>
    /\ Head(statsChan).fn \notin Registered
    /\ statsChan' = Tail(statsChan)
    /\ UNCHANGED <<outbox, fstats, evals, hist, sent, leaked, reports>>

\* statMu.Lock waits until no reader holds the function's statMu.
ProcessStat ==
    /\ statsChan /= << >>
    /\ LET stat == Head(statsChan)
           f    == stat.fn
           new  == ProcessRecord(fstats[f], stat)
       IN /\ f \in Registered
          /\ fstats' = [fstats EXCEPT ![f] = HybridEpoch(new, stat)]
          /\ evals' = [evals EXCEPT ![f] = Launched(@, fstats[f], new, stat)]
          /\ hist' = [hist EXCEPT ![f] = Append(@, stat)]
          /\ leaked[f] = 0
    /\ statsChan' = Tail(statsChan)
    /\ UNCHANGED <<outbox, sent, leaked, reports>>

-----------------------------------------------------------------------------
(***************************************************************************)
(* GetMetricsReport (metrics.go), the /metrics?action=stats handler, for   *)
(* the function named in the query.  It dereferences functionStats[fname]  *)
(* to take statMu.RLock: for a function without an entry that is a nil     *)
(* dereference and the handler panics before the lock.  Under the read     *)
(* lock it formats the stats; its test of totalInvocations is inverted, so *)
(* with no invocation yet it divides by zero and panics HOLDING the read   *)
(* lock (net/http recovers the panic, nothing unlocks).  Otherwise it      *)
(* unlocks, copies the policy under policyMu and renders the pools; none   *)
(* of that changes state.  A reader does not get the read lock while the   *)
(* aggregator waits in Lock for the same statMu (Go's RWMutex).            *)
(***************************************************************************)
WriterWaiting(f) ==
    /\ leaked[f] > 0
    /\ statsChan /= << >>
    /\ Head(statsChan).fn = f

MetricsReport ==
    /\ reports < MaxReports
    /\ \E f \in Fns :
         \/ /\ f \notin Registered
            /\ UNCHANGED leaked
         \/ /\ f \in Registered
            /\ ~WriterWaiting(f)
            /\ leaked' = IF fstats[f].totalInvocations = 0
                         THEN [leaked EXCEPT ![f] = @ + 1]
                         ELSE leaked
    /\ reports' = reports + 1
    /\ UNCHANGED <<statsChan, outbox, fstats, evals, hist, sent>>

\* The bounded run is over: every invocation reported, every stat applied
\* and every metrics report served.
Finished ==
    /\ sent = MaxStats
    /\ reports = MaxReports
    /\ statsChan = << >>
    /\ \A q \in Reqs : outbox[q] = << >>
    /\ UNCHANGED vars

Next ==
    \/ \E q \in Reqs : ReportStats(q) \/ SendStat(q)
    \/ ProcessStat
    \/ DropUnknownStat
    \/ MetricsReport
    \/ Finished

\* Each request goroutine retries its blocked send; the aggregator goroutine
\* loops on the channel for the life of the process.
Fairness ==
    /\ \A q \in Reqs : WF_vars(SendStat(q))
    /\ WF_vars(ProcessStat \/ DropUnknownStat)

Spec == Init /\ [][Next]_vars /\ Fairness

-----------------------------------------------------------------------------
(***************************************************************************)
(* Reference definitions, independent of the code's sort and ring.         *)
(***************************************************************************)
SvcSeq(h) == [i \in DOMAIN h |-> h[i].svc]
SumSvc(h) == FoldSeq(LAMBDA x, y : x + y, 0, SvcSeq(h))

\* The k-th smallest element of s (1-based, counting repetitions).
KthSmallest(s, k) ==
    CHOOSE v \in ToSet(s) :
        /\ Cardinality({i \in DOMAIN s : s[i] < v}) < k
        /\ k <= Cardinality({i \in DOMAIN s : s[i] <= v})

TypeOK ==
    /\ statsChan \in Seq(Stat) /\ Len(statsChan) <= ChanCap
    /\ outbox \in [Reqs -> Seq(Stat)]
    /\ \A f \in Registered :
         /\ fstats[f].entryPos \in 0..(MaxEntries - 1)
         /\ fstats[f].coldPos \in 0..(MaxEntries - 1)
         /\ fstats[f].warmPos \in 0..(MaxEntries - 1)
         /\ fstats[f].serviceTimes \in [1..MaxEntries -> SvcTimes \cup {0}]
    /\ evals \in [Fns -> [util: Nat, cold: Nat, warm: Nat]]
    /\ hist \in [Fns -> Seq(Stat)]
    /\ sent \in 0..MaxStats
    /\ leaked \in [Registered -> 0..MaxReports]
    /\ reports \in 0..MaxReports

(***************************************************************************)
(* Until the ring fills for the first time, ProcessFunctionStats keeps    *)
(* exactly what it was sent: slot i holds the i-th service time received  *)
(* for the function, the unused slots are zero, and avgSvcTime is the      *)
(* integer mean of all of them (spec 5, stats round-trip for N < 100),     *)
(* whatever the interleaving of senders and of hybrid double reports.      *)
(***************************************************************************)
StatsExactBeforeWrap ==
    \A f \in Registered :
        LET h == hist[f]
            s == fstats[f]
        IN  0 < Len(h) /\ Len(h) < MaxEntries =>
              /\ \A i \in 1..MaxEntries :
                   s.serviceTimes[i] = IF i <= Len(h) THEN h[i].svc ELSE 0
              /\ s.avgSvcTime = SumSvc(h) \div Len(h)

(***************************************************************************)
(* A request goroutine blocked in UpdateFunctionStats on a full statsChan  *)
(* (still holding its replica away from the idle pool) gets its stats      *)
(* sent, unless a metrics report has left a statMu read-locked: the        *)
(* aggregator drains the channel, dropped stats of unregistered functions  *)
(* included, and only a leaked read lock can stop it.                      *)
(***************************************************************************)
SendCompletesUnlessStatLockLeaked ==
    \A q \in Reqs :
        (outbox[q] /= << >>)
            ~> (outbox[q] = << >> \/ \E f \in Registered : leaked[f] > 0)

-----------------------------------------------------------------------------
(***************************************************************************)
(* Statements of the specification that the code does not meet (checked   *)
(* by the runs that expect a violation).                                   *)
(***************************************************************************)

(***************************************************************************)
(* spec 5 and scenario 6: after exactly MaxEntries stats, p50 is the       *)
(* (MaxEntries/2)-th and p99 the (MaxEntries-1)-th smallest service time,  *)
(* and avgSvcTime = sum / MaxEntries.  The code sorts before writing the   *)
(* last value, and resets totalSvcTime before adding it.                   *)
(***************************************************************************)
RoundTrip ==
    \A f \in Registered :
        LET h == hist[f]
            s == fstats[f]
        IN  Len(h) = MaxEntries =>
              /\ s.p50SvcTime = KthSmallest(SvcSeq(h), MaxEntries \div 2)
              /\ s.p99SvcTime = KthSmallest(SvcSeq(h), MaxEntries - 1)
              /\ s.avgSvcTime = SumSvc(h) \div MaxEntries

(***************************************************************************)
(* spec 5 (StatsAggregator, single consumer, FIFO) and 4.7: a stat that    *)
(* proxyRequest hands to UpdateFunctionStats is eventually sent, so the    *)
(* request returns its replica.  A metrics report of a function with no    *)
(* invocation yet panics holding statMu.RLock; the aggregator then waits   *)
(* in statMu.Lock for ever, the channel fills and every sender blocks.     *)
(***************************************************************************)
SendEventuallyCompletes ==
    \A q \in Reqs : (outbox[q] /= << >>) ~> (outbox[q] = << >>)

=============================================================================
