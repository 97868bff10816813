---------------------------- MODULE StatsProofs ----------------------------
(***************************************************************************)
(* Proofs about Stats for any number of metrics, of values and of updates. *)
(* The argument: aggregate = 1 is a token.  While the aggregator holds it  *)
(* (Phase) the generator does not touch shadow, so each of its two loops   *)
(* meets the array the other one left; Conserved follows step by step.     *)
(***************************************************************************)
EXTENDS Stats, TLAPS

(* Who may use shadow, from the flag.                                      *)
Phase == /\ gpc # "run" => aggregate = 0
         /\ tpc = "sum" => aggregate = 1

(* What makes the sums of a counter grow.                                  *)
Growing == \A m \in Metric : Type[m] = "counter" =>
              current[m] >= 0 /\ shadow[m] >= 0 /\ report[m] <= sum[m]

IInv == TypeOK /\ Phase /\ Conserved /\ SnapshotReports /\ Growing

-----------------------------------------------------------------------------

(* Plus is a total operation on integers with 0 as its unit.               *)
LEMMA PlusUnit ==
    ASSUME NEW m \in Metric, NEW x \in Int, NEW y \in Int
    PROVE  /\ Plus(m, x, y) \in Int
           /\ Plus(m, x, 0) = x
BY DEF Plus

(* Adding an update v to current adds it to the total.                     *)
LEMMA PlusAssoc ==
    ASSUME NEW m \in Metric, NEW x \in Int, NEW y \in Int, NEW v \in Int, v # 0
    PROVE  Plus(m, Plus(m, x, y), v) = Plus(m, x, Plus(m, y, v))
BY DEF Plus

LEMMA InitIInv == Init => IInv
<1> SUFFICES ASSUME Init PROVE IInv
    OBVIOUS
<1>1. TypeOK
    BY StatsAssumption DEF Init, TypeOK, Zero, Metric
<1>2. Conserved
    BY DEF Init, Conserved, Plus, Owed, Fresh, Handing, Zero, Metric
<1>3. Phase /\ SnapshotReports /\ Growing
    BY DEF Init, Phase, SnapshotReports, Growing, Zero, Metric
<1> QED
    BY <1>1, <1>2, <1>3 DEF IInv

(* An update, whatever its sign where the type allows one.                 *)
LEMMA UpdateStep ==
    ASSUME IInv, NEW m \in Metric, NEW v \in Int, v # 0, Update(m, v),
           Type[m] = "counter" => v > 0
    PROVE  IInv'
<1> USE StatsAssumption
<1>1. TypeOK'
  <2>1. Plus(m, current[m], v) \in Int /\ Plus(m, total[m], v) \in Int
      BY PlusUnit DEF IInv, TypeOK
  <2> QED
      BY <2>1 DEF Update, IInv, TypeOK, aggregator
<1>2. ASSUME NEW k \in Metric
      PROVE  /\ Plus(k, sum'[k], Owed(k)') = handed'[k]
             /\ Plus(k, handed'[k], Fresh(k)') = total'[k]
  <2>1. Owed(k)' = Owed(k) /\ sum' = sum /\ handed' = handed
      BY DEF Update, aggregator, Owed, Handing
  <2>2. Fresh(k) = current[k] /\ Fresh(k)' = current'[k]
      BY DEF Update, Fresh
  <2>3. CASE k # m
      BY <2>1, <2>2, <2>3 DEF IInv, Conserved, Update, TypeOK, Plus
  <2>4. CASE k = m
    <3>1. /\ current'[k] = Plus(k, current[k], v)
          /\ total'[k] = Plus(k, total[k], v)
        BY <2>4 DEF Update, IInv, TypeOK
    <3>2. total[k] = Plus(k, handed[k], current[k])
        BY <2>2 DEF IInv, Conserved
    <3>3. Plus(k, Plus(k, handed[k], current[k]), v)
            = Plus(k, handed[k], Plus(k, current[k], v))
        BY PlusAssoc DEF IInv, TypeOK
    <3>4. Plus(k, handed'[k], Fresh(k)') = total'[k]
        BY <2>1, <2>2, <3>1, <3>2, <3>3
    <3>5. Plus(k, sum'[k], Owed(k)') = handed'[k]
        BY <2>1 DEF IInv, Conserved, Plus
    <3> QED BY <3>4, <3>5
  <2> QED BY <2>3, <2>4
<1>3. Conserved'
    BY <1>2 DEF Conserved, Plus, Metric
<1>4. Phase' /\ SnapshotReports'
    BY DEF Update, IInv, Phase, SnapshotReports, aggregator
<1>5. Growing'
    BY DEF Update, IInv, TypeOK, Growing, aggregator, Plus
<1> QED
    BY <1>1, <1>3, <1>4, <1>5 DEF IInv

LEMMA SwapStep == IInv /\ Swap => IInv'
<1> SUFFICES ASSUME IInv, Swap PROVE IInv'
    OBVIOUS
<1> USE StatsAssumption
<1>1. TypeOK'
  <2>1. CASE stats_swap
      BY <2>1 DEF stats_swap, aggregator, IInv, TypeOK
  <2>2. CASE array_swap
      BY <2>2 DEF array_swap, aggregator, IInv, TypeOK
  <2>3. CASE stats_pool_reset
    <3>1. gi' \in 1..(NMetric + 1)
        BY <2>3 DEF stats_pool_reset, IInv, TypeOK
    <3>2. current' \in [Metric -> Int]
      <4>1. current \in [Metric -> Int] /\ 0 \in Int
          BY DEF IInv, TypeOK
      <4>2. current' = [current EXCEPT ![gi] = 0]
          BY <2>3 DEF stats_pool_reset
      <4> HIDE StatsAssumption
      <4> QED BY <4>1, <4>2
    <3> QED BY <2>3, <3>1, <3>2 DEF stats_pool_reset, aggregator, IInv, TypeOK
  <2>4. CASE SwapCounted \/ SwapHandsOver
      BY <2>4 DEF SwapCounted, SwapHandsOver, aggregator, IInv, TypeOK
  <2> QED BY <2>1, <2>2, <2>3, <2>4 DEF Swap
<1>2. Phase'
    BY DEF Swap, stats_swap, array_swap, stats_pool_reset, SwapCounted,
           SwapHandsOver, aggregator, IInv, Phase
<1>3. SnapshotReports'
    BY DEF Swap, stats_swap, array_swap, stats_pool_reset, SwapCounted,
           SwapHandsOver, aggregator, IInv, SnapshotReports
<1>4. Growing'
    BY DEF Swap, stats_swap, array_swap, stats_pool_reset, SwapCounted,
           SwapHandsOver, aggregator, IInv, TypeOK, Growing
<1>5. ASSUME NEW m \in Metric
      PROVE  /\ Plus(m, sum'[m], Owed(m)') = handed'[m]
             /\ Plus(m, handed'[m], Fresh(m)') = total'[m]
  <2>1. /\ Plus(m, sum[m], Owed(m)) = handed[m]
        /\ Plus(m, handed[m], Fresh(m)) = total[m]
      BY DEF IInv, Conserved
  <2>2. CASE array_swap
    <3>1. Owed(m) = 0 /\ Fresh(m) = current[m]
        BY <2>2 DEF array_swap, IInv, Phase, TypeOK, Owed, Fresh, Handing
    <3>2. Owed(m)' = current[m] /\ Fresh(m)' = 0
        BY <2>2 DEF array_swap, IInv, Phase, TypeOK, aggregator, Owed, Fresh,
                    Handing, Metric
    <3>3. sum[m] = handed[m]
        BY <2>1, <3>1, PlusUnit DEF IInv, TypeOK
    <3>4. /\ sum'[m] = sum[m] /\ handed'[m] = total[m] /\ total'[m] = total[m]
        BY <2>2 DEF array_swap, aggregator
    <3>5. Plus(m, total[m], 0) = total[m]
        BY PlusUnit DEF IInv, TypeOK
    <3> QED BY <2>1, <3>1, <3>2, <3>3, <3>4, <3>5
  <2>3. CASE ~array_swap
    <3>1. Owed(m)' = Owed(m)
        BY <2>3 DEF Swap, stats_swap, stats_pool_reset, SwapCounted, SwapHandsOver,
                    aggregator, IInv, Phase, Owed, Handing
    <3>2. Fresh(m)' = Fresh(m)
      <4>1. CASE stats_pool_reset
          BY <4>1 DEF stats_pool_reset, IInv, TypeOK, Fresh, Metric
      <4>2. CASE SwapCounted
          BY <4>2 DEF SwapCounted, IInv, TypeOK, Fresh, Metric
      <4>3. CASE stats_swap \/ SwapHandsOver
          BY <4>3 DEF stats_swap, SwapHandsOver, Fresh
      <4> QED BY <2>3, <4>1, <4>2, <4>3 DEF Swap
    <3>3. sum' = sum /\ handed' = handed /\ total' = total
        BY <2>3 DEF Swap, stats_swap, stats_pool_reset, SwapCounted, SwapHandsOver,
                    aggregator
    <3> QED BY <2>1, <3>1, <3>2, <3>3 DEF Plus
  <2> QED BY <2>2, <2>3
<1>6. Conserved'
    BY <1>5 DEF Conserved, Plus, Metric
<1> QED
    BY <1>1, <1>2, <1>3, <1>4, <1>6 DEF IInv

LEMMA AggregateStep == IInv /\ Aggregate => IInv'
<1> SUFFICES ASSUME IInv, Aggregate PROVE IInv'
    OBVIOUS
<1> USE StatsAssumption
<1>1. TypeOK'
  <2>1. CASE stats_aggregate_metric
    <3>1. ti \in Metric /\ ti' \in 1..(NMetric + 1)
        BY <2>1 DEF stats_aggregate_metric, IInv, TypeOK, Metric
    <3>2. Plus(ti, sum[ti], shadow[ti]) \in Int
        BY <3>1, PlusUnit DEF IInv, TypeOK
    <3> QED BY <2>1, <3>1, <3>2 DEF stats_aggregate_metric, generator, IInv, TypeOK
  <2>2. CASE stats_aggregate
    <3>1. 1 \in 1..(NMetric + 1)
        OBVIOUS
    <3> QED BY <2>2, <3>1 DEF stats_aggregate, generator, IInv, TypeOK
  <2>3. CASE StatsAggregated \/ stats_loop_callback
      BY <2>3 DEF StatsAggregated, stats_loop_callback, generator, IInv, TypeOK
  <2>4. ASSUME NEW k \in {0, 1}, event_loop_stats(k) PROVE TypeOK'
      BY <2>4 DEF event_loop_stats, generator, IInv, TypeOK
  <2> QED BY <2>1, <2>2, <2>3, <2>4 DEF Aggregate
<1>2. Phase'
    BY DEF Aggregate, event_loop_stats, stats_aggregate, stats_aggregate_metric,
           StatsAggregated, stats_loop_callback, generator, IInv, TypeOK, Phase
<1>3. ASSUME NEW m \in Metric
      PROVE  /\ Plus(m, sum'[m], Owed(m)') = handed'[m]
             /\ Plus(m, handed'[m], Fresh(m)') = total'[m]
  <2>1. /\ Plus(m, sum[m], Owed(m)) = handed[m]
        /\ Plus(m, handed[m], Fresh(m)) = total[m]
      BY DEF IInv, Conserved
  <2>2. Fresh(m)' = Fresh(m) /\ handed' = handed /\ total' = total
      BY DEF Aggregate, event_loop_stats, stats_aggregate, stats_aggregate_metric,
             StatsAggregated, stats_loop_callback, generator, Fresh
  <2>3. CASE stats_aggregate_metric /\ m = ti
    <3>1. Owed(m) = shadow[m] /\ Owed(m)' = 0
        BY <2>3 DEF stats_aggregate_metric, generator, IInv, Phase, TypeOK,
                    Owed, Handing, Metric
    <3>2. sum'[m] = Plus(m, sum[m], shadow[m])
        BY <2>3 DEF stats_aggregate_metric, IInv, TypeOK
    <3>3. Plus(m, sum'[m], 0) = sum'[m]
        BY <1>1, PlusUnit DEF TypeOK
    <3> QED BY <2>1, <2>2, <3>1, <3>2, <3>3
  <2>4. CASE ~(stats_aggregate_metric /\ m = ti)
    <3>1. sum'[m] = sum[m]
        BY <2>4 DEF Aggregate, event_loop_stats, stats_aggregate,
                    stats_aggregate_metric, StatsAggregated, stats_loop_callback,
                    IInv, TypeOK
    <3>2. Owed(m)' = Owed(m)
      <4>1. CASE stats_aggregate_metric
        <5>1. m # ti /\ ti' = ti + 1 /\ tpc' = tpc
            BY <2>4, <4>1 DEF stats_aggregate_metric
        <5>2. m \in Int /\ ti \in Int
            BY DEF IInv, TypeOK, Metric
        <5>3. (m < ti') <=> (m < ti)
            BY <5>1, <5>2
        <5>4. gpc' = gpc /\ aggregate' = aggregate /\ shadow' = shadow
            BY <4>1 DEF stats_aggregate_metric, generator
        <5> QED BY <5>1, <5>3, <5>4 DEF Owed, Handing
      <4>2. CASE StatsAggregated
          BY <4>2 DEF StatsAggregated, generator, IInv, Phase, TypeOK, Owed,
                      Handing, Metric
      <4>3. CASE stats_aggregate
          BY <4>3 DEF stats_aggregate, generator, Owed, Handing, Metric
      <4>4. CASE stats_loop_callback \/ \E k \in {0, 1} : event_loop_stats(k)
          BY <4>4 DEF event_loop_stats, stats_loop_callback, generator, Owed, Handing
      <4> QED BY <4>1, <4>2, <4>3, <4>4 DEF Aggregate
    <3> QED BY <2>1, <2>2, <3>1, <3>2
  <2> QED BY <2>3, <2>4
<1>4. Conserved'
    BY <1>3 DEF Conserved, Plus, Metric
<1>5. SnapshotReports'
  <2>1. CASE StatsAggregated
    <3>1. ASSUME NEW m \in Metric PROVE sum[m] = handed[m]
      <4>1. Owed(m) = 0
          BY <2>1 DEF StatsAggregated, Owed, IInv, TypeOK, Metric
      <4> QED BY <4>1, PlusUnit DEF IInv, Conserved, TypeOK
    <3>2. sum = handed
        BY <3>1 DEF IInv, TypeOK
    <3> QED BY <2>1, <3>2 DEF StatsAggregated, SnapshotReports
  <2>2. CASE ~StatsAggregated
      BY <2>2 DEF Aggregate, event_loop_stats, stats_aggregate,
                  stats_aggregate_metric, stats_loop_callback, IInv, SnapshotReports
  <2> QED BY <2>1, <2>2
<1>6. Growing'
  <2>1. CASE stats_aggregate_metric
      BY <2>1 DEF stats_aggregate_metric, generator, IInv, TypeOK, Growing, Plus, Metric
  <2>2. CASE ~stats_aggregate_metric
      BY <2>2 DEF Aggregate, event_loop_stats, stats_aggregate, StatsAggregated,
                  stats_loop_callback, generator, IInv, TypeOK, Growing
  <2> QED BY <2>1, <2>2
<1> QED
    BY <1>1, <1>2, <1>4, <1>5, <1>6 DEF IInv

LEMMA NextIInv == IInv /\ [Next]_vars => IInv'
<1> SUFFICES ASSUME IInv, [Next]_vars PROVE IInv'
    OBVIOUS
<1>1. ASSUME NEW m \in Metric, NEW v \in Values, stats_incr_by(m, v)
      PROVE  IInv'
    BY <1>1, UpdateStep, StatsAssumption DEF stats_incr_by
<1>2. ASSUME NEW m \in Metric, NEW v \in Values, stats_decr_by(m, v)
      PROVE  IInv'
  <2>1. 0 - v \in Int /\ 0 - v # 0
      BY StatsAssumption
  <2> QED BY <1>2, <2>1, UpdateStep DEF stats_decr_by
<1>3. CASE Swap
    BY <1>3, SwapStep
<1>4. CASE Aggregate
    BY <1>4, AggregateStep
<1>5. CASE UNCHANGED vars
  <2>1. TypeOK' /\ Phase' /\ SnapshotReports' /\ Growing'
      BY <1>5 DEF vars, generator, aggregator, IInv, TypeOK, Phase,
                  SnapshotReports, Growing
  <2>2. Conserved'
      BY <1>5 DEF vars, generator, aggregator, IInv, Conserved, Plus, Owed,
                  Fresh, Handing
  <2> QED BY <2>1, <2>2 DEF IInv
<1> QED
    BY <1>1, <1>2, <1>3, <1>4, <1>5 DEF Next

LEMMA AlwaysIInv == Spec => []IInv
BY InitIInv, NextIInv, PTL DEF Spec

-----------------------------------------------------------------------------

(* Every variable keeps its type, with any number of metrics and updates.  *)
THEOREM StatsTypeCorrect == Spec => []TypeOK
<1>1. IInv => TypeOK
    BY DEF IInv
<1> QED BY <1>1, AlwaysIInv, PTL

(* The two threads never use shadow at the same time.                      *)
THEOREM StatsHandOff == Spec => []HandOff
<1>1. IInv => HandOff
    BY DEF IInv, Phase, HandOff
<1> QED BY <1>1, AlwaysIInv, PTL

(* stats_swap and stats_aggregate lose no update and count none twice.     *)
THEOREM StatsConserved == Spec => []Conserved
<1>1. IInv => Conserved
    BY DEF IInv
<1> QED BY <1>1, AlwaysIInv, PTL

(* Every answer is a snapshot of all the metrics.                          *)
THEOREM StatsSnapshotReports == Spec => []SnapshotReports
<1>1. IInv => SnapshotReports
    BY DEF IInv
<1> QED BY <1>1, AlwaysIInv, PTL

(* What collectors read of a counter never decreases.                      *)
THEOREM StatsCountersGrow == Spec => CountersGrow
<1> DEFINE Grow == \A m \in Metric : Type[m] = "counter" => report'[m] >= report[m]
<1>1. IInv /\ [Next]_vars => [Grow]_vars
  <2> SUFFICES ASSUME IInv, Next PROVE Grow
      OBVIOUS
  <2>1. report' = report \/ report' = sum
      BY DEF Next, stats_incr_by, stats_decr_by, Update, Swap, stats_swap,
             array_swap, stats_pool_reset, SwapCounted, SwapHandsOver, Aggregate,
             event_loop_stats, stats_aggregate, stats_aggregate_metric,
             StatsAggregated, stats_loop_callback, aggregator
  <2> QED BY <2>1 DEF IInv, TypeOK, Growing
<1> QED BY <1>1, AlwaysIInv, PTL DEF Spec, CountersGrow

=============================================================================
