------------------------- MODULE StatementCounters -------------------------
(***************************************************************************)
(* How the boards turn cumulative counters into "increase over the range". *)
(* PostgreSQL adds to one counter per entry of pg_stat_statements, evicts  *)
(* an entry to make room for another and forgets all of them on a reset;   *)
(* Telegraf samples the entries (pg_stmt, top N), their sums per mask      *)
(* (pg_stmt_mask, top N) and the sum of all (pg_stmt_totals); a sample     *)
(* reaches the store late, twice or never; the queries of                  *)
(* builder/clickhouse.py and builder/common.py see the rows that are       *)
(* there.                                                                  *)
(*                                                                         *)
(* The time of a sample is its number, and the range is all samples.       *)
(***************************************************************************)
EXTENDS Integers, Sequences, FiniteSets, SequencesExt

CONSTANTS
  Entry,      \* statements that may have an entry in pg_stat_statements
  Mask,       \* query masks
  MaskOf,     \* the mask of each entry
  MaxEntries, \* pg_stat_statements.max
  TopN,       \* entries and masks returned by cluster_stmt.sql / _mask.sql
  BucketLen,  \* samples per $__timeInterval bucket
  Before,     \* work of an entry older than the range
  MaxWork,    \* bound: units of work in all
  MaxSamples  \* bound: samples

ASSUME ConstantsAssumption ==
  /\ IsFiniteSet(Entry)
  /\ MaskOf \in [Entry -> Mask]
  /\ MaxEntries \in Nat \ {0}
  /\ TopN \in Nat \ {0}
  /\ BucketLen \in Nat \ {0}
  /\ Before \in Nat \ {0}
  /\ MaxWork \in Nat
  /\ MaxSamples \in Nat

VARIABLES
  tracked,  \* entries in pg_stat_statements
  counter,  \* their counters
  done,     \* work done since then per entry, tracked or not
  samples,  \* what each sample read
  copies,   \* rows of each sample in the store: 0, 1 or 2 (a retried batch)
  intact    \* nothing evicted or reset since the first sample

vars == <<tracked, counter, done, samples, copies, intact>>

Absent == -1
OnReset == {"value", "ignore"}
Sum(f, S) == SumFunctionOnSet(f, S)

\* Bounds: units of work in all, and none after the last sample, which would
\* not be seen.
Bounded == Sum(done, Entry) < MaxWork /\ Len(samples) < MaxSamples

Sample == [read : [Entry -> Nat \cup {Absent}], top : SUBSET Entry,
           topMasks : SUBSET Mask, done : [Entry -> Nat]]

\* pg_stat_statements never holds more than its maximum, and an entry it
\* does not hold has no counter.
TypeOK ==
  /\ tracked \in SUBSET Entry /\ Cardinality(tracked) <= MaxEntries
  /\ counter \in [Entry -> Nat]
  /\ \A e \in Entry \ tracked : counter[e] = 0
  /\ done \in [Entry -> Nat]
  /\ samples \in Seq(Sample)
  /\ copies \in [DOMAIN samples -> 0..2]
  /\ intact \in BOOLEAN

Init ==
  /\ tracked \in {S \in SUBSET Entry : Cardinality(S) <= MaxEntries}
  /\ counter = [e \in Entry |-> IF e \in tracked THEN Before ELSE 0]
  /\ done = [e \in Entry |-> 0]
  /\ samples = <<>>
  /\ copies = <<>>
  /\ intact = TRUE
-----------------------------------------------------------------------------
(* PostgreSQL                                                              *)

\* Mistake: an evicted entry keeps its counter for its return.
ExecuteAfterEvictionKept(e) ==
  /\ Bounded
  /\ e \notin tracked
  /\ Cardinality(tracked) = MaxEntries
  /\ \E f \in tracked :
       /\ tracked' = (tracked \ {f}) \cup {e}
       /\ counter' = [counter EXCEPT ![e] = @ + 1]
  /\ done' = [done EXCEPT ![e] = @ + 1]
  /\ intact' = (samples = <<>>)
  /\ UNCHANGED <<samples, copies>>

\* A full pg_stat_statements gives up an entry: its counter is gone, and it
\* starts again from zero if it returns.
ExecuteAfterEviction(e) ==
  /\ Bounded
  /\ e \notin tracked
  /\ Cardinality(tracked) = MaxEntries
  /\ \E f \in tracked :
       /\ tracked' = (tracked \ {f}) \cup {e}
       /\ counter' = [counter EXCEPT ![f] = 0, ![e] = 1]
  /\ done' = [done EXCEPT ![e] = @ + 1]
  /\ intact' = (samples = <<>>)
  /\ UNCHANGED <<samples, copies>>

Execute(e) ==
  /\ Bounded
  /\ e \in tracked \/ Cardinality(tracked) < MaxEntries
  /\ tracked' = tracked \cup {e}
  /\ counter' = [counter EXCEPT ![e] = @ + 1]
  /\ done' = [done EXCEPT ![e] = @ + 1]
  /\ UNCHANGED <<samples, copies, intact>>

\* pg_stat_statements_reset() or a restart without saved statistics.
Reset ==
  /\ tracked # {}
  /\ Len(samples) < MaxSamples
  /\ tracked' = {}
  /\ counter' = [e \in Entry |-> 0]
  /\ intact' = (samples = <<>>)
  /\ UNCHANGED <<done, samples, copies>>
-----------------------------------------------------------------------------
(* Telegraf                                                                *)

\* The largest TopN of S by f, ties cut anyhow.
Tops(S, f) ==
  LET size == IF Cardinality(S) < TopN THEN Cardinality(S) ELSE TopN
  IN {T \in SUBSET S : /\ Cardinality(T) = size
                       /\ \A x \in T, y \in S \ T : f[x] >= f[y]}

EntriesOf(k) == {e \in Entry : MaskOf[e] = k}

\* cluster_stmt.sql, cluster_stmt_mask.sql and cluster_stmt_totals.sql
TakeSample ==
  LET maskSum == [k \in Mask |-> Sum(counter, tracked \cap EntriesOf(k))]
      masks == {MaskOf[e] : e \in tracked}
  IN
  /\ Len(samples) < MaxSamples
  /\ \E T \in Tops(tracked, counter), M \in Tops(masks, maskSum) :
       samples' = Append(samples,
         [read |-> [e \in Entry |->
                      IF e \in tracked THEN counter[e] ELSE Absent],
          top |-> T, topMasks |-> M, done |-> done])
  /\ copies' = Append(copies, 0)
  /\ UNCHANGED <<tracked, counter, done, intact>>

\* A sample's rows arrive at the store, perhaps after later ones, perhaps
\* for the second time.
Deliver(t) ==
  /\ copies[t] < 2
  /\ copies' = [copies EXCEPT ![t] = @ + 1]
  /\ UNCHANGED <<tracked, counter, done, samples, intact>>

Next ==
  \/ \E e \in Entry : Execute(e) \/ ExecuteAfterEviction(e)
  \/ Reset
  \/ TakeSample
  \/ \E t \in DOMAIN samples : Deliver(t)

Spec == Init /\ [][Next]_vars
-----------------------------------------------------------------------------
(* The rows of one series, by sample; Absent where the sample has none     *)

EntrySeries(e) ==
  [t \in DOMAIN samples |->
     IF e \in samples[t].top THEN samples[t].read[e] ELSE Absent]

ReadEntries(t) == {e \in Entry : samples[t].read[e] # Absent}

MaskSeries(k) ==
  [t \in DOMAIN samples |->
     IF k \in samples[t].topMasks
       THEN Sum(samples[t].read, ReadEntries(t) \cap EntriesOf(k)) ELSE Absent]

TotalSeries ==
  [t \in DOMAIN samples |->
     IF ReadEntries(t) # {} THEN Sum(samples[t].read, ReadEntries(t))
                            ELSE Absent]

-----------------------------------------------------------------------------
(* The queries                                                             *)

\* Mistake: the rows are sorted the other way round.
RowTimesDescending(series, cps) ==
  Reverse(FlattenSeq([t \in DOMAIN series |->
            IF series[t] = Absent THEN <<>> ELSE [c \in 1..cps[t] |-> t]]))

\* Times of the rows of a series, duplicates included, in the order of
\* arraySort((v, t) -> t, ...).
RowTimes(series, cps) ==
  FlattenSeq([t \in DOMAIN series |->
                IF series[t] = Absent THEN <<>> ELSE [c \in 1..cps[t] |-> t]])

ValuesAt(series, times) == [i \in DOMAIN times |-> series[times[i]]]

\* Mistake: the first value counts as its own difference.
DifferenceFromZero(v) ==
  [i \in DOMAIN v |-> IF i = 1 THEN v[1] ELSE v[i] - v[i - 1]]

arrayDifference(v) == [i \in DOMAIN v |-> IF i = 1 THEN 0 ELSE v[i] - v[i - 1]]

\* Mistake: last() - first().
LastMinusFirst(v, on_reset) == IF v = <<>> THEN 0 ELSE v[Len(v)] - v[1]

\* Increase of a counter over the values of one series, oldest first.
Steps(v, on_reset) ==
  LET d == arrayDifference(v)
  IN SumFunction([i \in DOMAIN v |->
       IF d[i] >= 0 THEN d[i] ELSE IF on_reset = "value" THEN v[i] ELSE 0])

increase(series, cps, on_reset) ==
  Steps(ValuesAt(series, RowTimes(series, cps)), on_reset)

\* The last row time of every bucket that has rows.
LastOfBuckets(times) ==
  LET BucketOf(i) == (times[i] - 1) \div BucketLen
      IsLast(i) == \A j \in DOMAIN times :
                     BucketOf(j) = BucketOf(i) => times[j] <= times[i]
  IN FlattenSeq([i \in DOMAIN times |-> IF IsLast(i) THEN <<times[i]>> ELSE <<>>])

\* Mistake: the first bucket is compared with zero.
rateTotalFromZero(series, cps, on_reset) ==
  Steps(<<0>> \o ValuesAt(series, LastOfBuckets(RowTimes(series, cps))), on_reset)

\* What the points of a rate_query() panel add up to: the last value of a
\* bucket less the last value of the bucket before it in the same series; the
\* first bucket has no point.  The rows of one sample are equal, so that a
\* duplicate changes neither.
rateTotal(series, cps, on_reset) ==
  Steps(ValuesAt(series, LastOfBuckets(RowTimes(series, cps))), on_reset)

\* InfluxQL: sum(non_negative_difference(last())) by time(step).
increaseInflux(series, cps) == rateTotal(series, cps, "ignore")

\* InfluxQL: spread() = max - min.
spread(series, cps) ==
  LET v == ValuesAt(series, RowTimes(series, cps))
  IN IF v = <<>> THEN 0
     ELSE CHOOSE d \in {v[i] - v[j] : i, j \in DOMAIN v} :
            \A i, j \in DOMAIN v : v[i] - v[j] <= d

\* Mistake: the drop of a sum counts as a reset.
BreakdownByValue(cps) == increase(TotalSeries, cps, "value")

Breakdown(cps) == increase(TotalSeries, cps, "ignore")
TopMask(k, cps) == increase(MaskSeries(k), cps, "ignore")
TopStatement(e, cps) == increase(EntrySeries(e), cps, "value")
-----------------------------------------------------------------------------
(* What the boards promise                                                 *)

\* Work of the entries of S between the first and the last readable sample.
WorkShown(series, S) ==
  LET times == RowTimes(series, copies)
  IN IF times = <<>> THEN 0
     ELSE Sum(samples[times[Len(times)]].done, S) - Sum(samples[times[1]].done, S)

\* No panel shows work that was not done: not after a reset, an eviction and
\* a return, an absence from the top N, a lost or a duplicated row.
NeverOvercounts ==
  /\ Breakdown(copies) <= WorkShown(TotalSeries, Entry)
  /\ \A k \in Mask :
       TopMask(k, copies) <= WorkShown(MaskSeries(k), EntriesOf(k))
  /\ \A e \in Entry : TopStatement(e, copies) <= WorkShown(EntrySeries(e), {e})

\* Without evictions and resets the totals miss nothing either.
ExactWithoutDrops ==
  intact => Breakdown(copies) = WorkShown(TotalSeries, Entry)

\* The InfluxDB board, with its coarser steps, and the rate panels never show
\* more than the ClickHouse table over the same rows.
BucketsBelowIncrease ==
  /\ increaseInflux(TotalSeries, copies) <= Breakdown(copies)
  /\ \A e \in Entry :
       rateTotal(EntrySeries(e), copies, "value") <= TopStatement(e, copies)
  /\ \A k \in Mask :
       rateTotal(MaskSeries(k), copies, "ignore") <= TopMask(k, copies)

\* Without evictions and resets the pg-* tables (spread) and the ch-* tables
\* (increase) show the same numbers.
BoardsAgree ==
  intact => /\ \A e \in Entry :
                 spread(EntrySeries(e), copies) = TopStatement(e, copies)
            /\ \A k \in Mask :
                 spread(MaskSeries(k), copies) = TopMask(k, copies)

\* A row that arrives late or twice never lowers a number already shown.
LateRowsOnlyRaise ==
  [][samples' = samples =>
       /\ Breakdown(copies) <= Breakdown(copies')
       /\ \A k \in Mask : TopMask(k, copies) <= TopMask(k, copies')
       /\ \A e \in Entry : TopStatement(e, copies) <= TopStatement(e, copies')
    ]_vars

\* "Top-N subset: totals here are <= Breakdown totals."
TopNBelowBreakdown ==
  Sum([e \in Entry |-> TopStatement(e, copies)], Entry) <= Breakdown(copies)
=============================================================================
