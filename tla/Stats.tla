------------------------------- MODULE Stats -------------------------------
(***************************************************************************)
(* The statistics of gf_stats.c: the event loop (the generator) counts in  *)
(* current (a) and hands it over by swapping it with shadow (b); the       *)
(* aggregator thread adds shadow to sum (c), which it alone reads to       *)
(* answer.  The two threads share two volatile flags and no lock.          *)
(*                                                                         *)
(* A step is a read or a write of a flag, the swap, or the treatment of    *)
(* one metric, so the threads interleave between the metrics.  Accesses    *)
(* take effect in program order, as x86 does and volatile asks of the      *)
(* compiler for the flags.                                                 *)
(***************************************************************************)
EXTENDS Integers

CONSTANTS NMetric,     \* metrics of the pools and the servers, in array order
          Type,        \* stm->type of each
          Values,      \* amounts added, and timestamps
          MaxUpdate    \* bound: updates of metrics

Metric == 1..NMetric

ASSUME StatsAssumption ==
    /\ NMetric \in Nat
    /\ Type \in [Metric -> {"counter", "gauge", "timestamp"}]
    /\ Values \subseteq Nat \ {0}
    /\ MaxUpdate \in Nat

VARIABLES
    current,     \* st->current (a)
    shadow,      \* st->shadow (b)
    sum,         \* st->sum (c)
    updated,     \* st->updated
    aggregate,   \* st->aggregate
    gpc, gi,     \* the generator: where it is, the metric it resets
    tpc, ti,     \* the aggregator: where it is, the metric it adds
    n,           \* what epoll_wait returned to the aggregator
    report,      \* the last answer sent to a collector
    nupdate,     \* updates so far
    total,       \* history: every update so far
    handed,      \* history: total when current was last handed over
    seen         \* history: handed when shadow was last added to sum

generator == <<current, updated, gpc, gi, nupdate, total, handed>>
aggregator == <<sum, tpc, ti, n, report, seen>>
vars == <<generator, aggregator, shadow, aggregate>>

Zero == [m \in Metric |-> 0]

TypeOK ==
    /\ current \in [Metric -> Int]
    /\ shadow \in [Metric -> Int]
    /\ sum \in [Metric -> Int]
    /\ updated \in {0, 1} /\ aggregate \in {0, 1}
    /\ gpc \in {"run", "swap", "reset", "armed"} /\ gi \in 1..(NMetric + 1)
    /\ tpc \in {"wait", "aggregate", "sum", "answer"} /\ ti \in 1..(NMetric + 1)
    /\ n \in {0, 1}
    /\ report \in [Metric -> Int]
    /\ nupdate \in 0..MaxUpdate
    /\ total \in [Metric -> Int]
    /\ handed \in [Metric -> Int]
    /\ seen \in [Metric -> Int]

Init ==
    /\ current = Zero /\ shadow = Zero /\ sum = Zero
    /\ updated = 0 /\ aggregate = 0
    /\ gpc = "run" /\ gi = 1
    /\ tpc = "wait" /\ ti = 1 /\ n = 0
    /\ report = Zero
    /\ nupdate = 0 /\ total = Zero /\ handed = Zero /\ seen = Zero

-----------------------------------------------------------------------------
(* The generator: incr, decr, set_ts and, once per core_loop, stats_swap.  *)

\* How stats_aggregate_metric adds y to x, and set_ts or incr changes x.
Plus(m, x, y) == IF Type[m] # "timestamp" THEN x + y
                 ELSE IF y # 0 THEN y ELSE x

Update(m, v) ==
    /\ gpc = "run" /\ nupdate < MaxUpdate
    /\ nupdate' = nupdate + 1
    /\ updated' = 1
    /\ current' = [current EXCEPT ![m] = Plus(m, @, v)]
    /\ total' = [total EXCEPT ![m] = Plus(m, @, v)]
    /\ UNCHANGED <<aggregator, shadow, aggregate, gpc, gi, handed>>

\* mutant: decr on whatever the metric is
MutDecrAny(m, v) == Update(m, 0 - v)

stats_incr_by(m, v) == Update(m, v)
stats_decr_by(m, v) == Type[m] = "gauge" /\ Update(m, 0 - v)

\* mutant: shadow is swapped while the aggregator still adds it
MutSwapBusy ==
    /\ gpc = "run" /\ updated = 1
    /\ gpc' = "swap"
    /\ UNCHANGED <<aggregator, shadow, aggregate, current, updated, gi,
                   nupdate, total, handed>>

stats_swap ==
    /\ gpc = "run" /\ aggregate = 0 /\ updated = 1
    /\ gpc' = "swap"
    /\ UNCHANGED <<aggregator, shadow, aggregate, current, updated, gi,
                   nupdate, total, handed>>

array_swap ==
    /\ gpc = "swap"
    /\ current' = shadow /\ shadow' = current
    /\ handed' = total
    /\ gpc' = "reset" /\ gi' = 1
    /\ UNCHANGED <<aggregator, aggregate, updated, nupdate, total>>

\* mutant: current is given back with what was counted before
MutNoReset ==
    /\ gpc = "reset" /\ gi <= NMetric
    /\ gi' = gi + 1
    /\ UNCHANGED <<aggregator, shadow, aggregate, current, updated, gpc,
                   nupdate, total, handed>>

\* mutant: the loop runs one metric past the end
MutResetPast ==
    /\ gpc = "reset" /\ gi <= NMetric + 1
    /\ current' = [m \in Metric |-> IF m = gi THEN 0 ELSE current[m]]
    /\ gi' = gi + 1
    /\ UNCHANGED <<aggregator, shadow, aggregate, updated, gpc, nupdate,
                   total, handed>>

stats_pool_reset ==
    /\ gpc = "reset" /\ gi <= NMetric
    /\ current' = [current EXCEPT ![gi] = 0]
    /\ gi' = gi + 1
    /\ UNCHANGED <<aggregator, shadow, aggregate, updated, gpc, nupdate,
                   total, handed>>

SwapCounted ==
    /\ gpc = "reset" /\ gi > NMetric
    /\ updated' = 0
    /\ gpc' = "armed"
    /\ UNCHANGED <<aggregator, shadow, aggregate, current, gi, nupdate,
                   total, handed>>

\* mutant: the flag that gives shadow to the aggregator is not set
MutNotHanded ==
    /\ gpc = "armed"
    /\ gpc' = "run"
    /\ UNCHANGED <<aggregator, shadow, aggregate, current, updated, gi,
                   nupdate, total, handed>>

SwapHandsOver ==
    /\ gpc = "armed"
    /\ aggregate' = 1
    /\ gpc' = "run"
    /\ UNCHANGED <<aggregator, shadow, current, updated, gi, nupdate,
                   total, handed>>

-----------------------------------------------------------------------------
(* The aggregator: event_loop_stats and stats_loop_callback.               *)

\* k = 0: st->interval elapsed; k = 1: a collector connected.
event_loop_stats(k) ==
    /\ tpc = "wait"
    /\ n' = k
    /\ tpc' = "aggregate"
    /\ UNCHANGED <<generator, shadow, aggregate, sum, ti, report, seen>>

\* mutant: shadow is given back before it was added
MutReleaseEarly ==
    /\ tpc = "aggregate"
    /\ IF aggregate = 0 THEN tpc' = "answer" /\ UNCHANGED ti
                        ELSE tpc' = "sum" /\ ti' = 1
    /\ aggregate' = 0
    /\ UNCHANGED <<generator, shadow, sum, n, report, seen>>

stats_aggregate ==
    /\ tpc = "aggregate"
    /\ IF aggregate = 0 THEN tpc' = "answer" /\ UNCHANGED ti
                        ELSE tpc' = "sum" /\ ti' = 1
    /\ UNCHANGED <<generator, shadow, aggregate, sum, n, report, seen>>

stats_aggregate_metric ==
    /\ tpc = "sum" /\ ti <= NMetric
    /\ sum' = [sum EXCEPT ![ti] = Plus(ti, @, shadow[ti])]
    /\ ti' = ti + 1
    /\ UNCHANGED <<generator, shadow, aggregate, tpc, n, report, seen>>

StatsAggregated ==
    /\ tpc = "sum" /\ ti > NMetric
    /\ aggregate' = 0
    /\ seen' = handed
    /\ tpc' = "answer"
    /\ UNCHANGED <<generator, shadow, sum, ti, n, report>>

\* stats_send_rsp fails when accept or send does.
stats_loop_callback ==
    /\ tpc = "answer"
    /\ tpc' = "wait"
    /\ \/ n = 1 /\ report' = sum
       \/ UNCHANGED report
    /\ UNCHANGED <<generator, shadow, aggregate, sum, ti, n, seen>>

Swap == stats_swap \/ array_swap \/ stats_pool_reset \/ SwapCounted \/ SwapHandsOver
Aggregate == \/ \E k \in {0, 1} : event_loop_stats(k)
             \/ stats_aggregate \/ stats_aggregate_metric \/ StatsAggregated
             \/ stats_loop_callback

Next == \/ \E m \in Metric, v \in Values : stats_incr_by(m, v) \/ stats_decr_by(m, v)
        \/ Swap
        \/ Aggregate

\* core_loop calls stats_swap after every epoll_wait, whose timeout is
\* bounded by max_timeout; the aggregator wakes up every st->interval.
Spec == Init /\ [][Next]_vars
FairSpec == Spec /\ WF_vars(Swap) /\ WF_vars(Aggregate)

-----------------------------------------------------------------------------

Handing == gpc \in {"reset", "armed"} \/ aggregate = 1
Owed(m) == IF Handing /\ ~(tpc = "sum" /\ m < ti) THEN shadow[m] ELSE 0
Fresh(m) == IF gpc = "reset" /\ m >= gi THEN 0 ELSE current[m]

(* No update is lost and none counts twice, whatever the interleaving of   *)
(* stats_swap with stats_aggregate: sum, with what shadow holds and was    *)
(* not added yet, is all that was handed over; with current, all there is. *)
Conserved ==
    \A m \in Metric : /\ Plus(m, sum[m], Owed(m)) = handed[m]
                      /\ Plus(m, handed[m], Fresh(m)) = total[m]

(* stats_swap never exchanges or resets an array that stats_aggregate      *)
(* reads: aggregate hands shadow to and fro (gf_stats.c:665,691,986,1010). *)
HandOff == ~(gpc \in {"swap", "reset", "armed"} /\ tpc = "sum")

(* An answer shows all metrics as they were at one moment of the generator *)
(* (a swap), not some of them before an update and others after a later    *)
(* one: the aggregator answers from sum between two aggregations only.     *)
SnapshotReports == tpc # "sum" => sum = seen

(* The counters that a collector reads never go back.                      *)
CountersGrow ==
    [][\A m \in Metric : Type[m] = "counter" => report'[m] >= report[m]]_vars

(* What is counted gets into sum, and so into the answers, in the end:     *)
(* no update is left behind by the updated and aggregate flags.            *)
UpdatesGetCounted ==
    \A k \in 1..MaxUpdate : (nupdate = k) ~> (nupdate > k \/ seen = total)

=============================================================================
