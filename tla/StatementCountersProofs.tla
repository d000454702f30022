---------------------- MODULE StatementCountersProofs ----------------------
(***************************************************************************)
(* What the boards show of the counters of pg_stat_statements, for every   *)
(* set of statements and masks, every size of pg_stat_statements and of    *)
(* the top N, every length of a bucket and every number of samples.        *)
(*                                                                         *)
(* CountersInv relates every sample to the later ones and to the counters  *)
(* now; RowsBacked and MoreRowsMore say what increase() makes of the rows  *)
(* of such samples, whichever of them arrived.                             *)
(***************************************************************************)
EXTENDS StatementCounters, FoldLemmas, TLAPS

-----------------------------------------------------------------------------
(* The increase of a list of values                                        *)

\* What one row adds to the increase: y is read after x.
StepOf(x, y, on_reset) ==
  IF y - x >= 0 THEN y - x ELSE IF on_reset = "value" THEN y ELSE 0

StepTerms(v, on_reset) ==
  [i \in 1..Len(v) |-> IF i = 1 THEN 0 ELSE StepOf(v[i - 1], v[i], on_reset)]

\* Steps adds up what each row adds.
LEMMA StepsIsSum ==
  ASSUME NEW v \in Seq(Nat), NEW r
  PROVE  Steps(v, r) = SumFunctionOnSet(StepTerms(v, r), 1..Len(v))
<1> DEFINE d == arrayDifference(v)
           f == [i \in DOMAIN v |-> IF d[i] >= 0 THEN d[i] ELSE IF r = "value" THEN v[i] ELSE 0]
<1>1. DOMAIN v = 1..Len(v)
  BY LenProperties
<1>2. \A i \in 1..Len(v) : d[i] = IF i = 1 THEN 0 ELSE v[i] - v[i - 1]
  BY <1>1 DEF arrayDifference
<1>3. \A i \in 1..Len(v) : f[i] = IF i = 1 THEN 0 ELSE StepOf(v[i - 1], v[i], r)
  <2> HIDE DEF d
  <2> QED BY <1>1, <1>2 DEF StepOf
<1>4. f = StepTerms(v, r)
  <2>1. f = [i \in 1..Len(v) |-> f[i]]
    BY <1>1
  <2> HIDE DEF f
  <2> QED BY <1>3, <2>1 DEF StepTerms
<1>5. DOMAIN f = 1..Len(v)
  BY <1>1
<1>6. Steps(v, r) = SumFunction(f)
  BY DEF Steps
<1> HIDE DEF f
<1> QED BY <1>4, <1>5, <1>6 DEF SumFunction

\* A row never takes anything away from the increase.
LEMMA StepNat ==
  ASSUME NEW x \in Nat, NEW y \in Nat, NEW r
  PROVE  StepOf(x, y, r) \in Nat
BY DEF StepOf

\* Nor does any row of a list.
LEMMA StepTermNat ==
  ASSUME NEW v \in Seq(Nat), NEW r, NEW i \in 1..Len(v)
  PROVE  StepTerms(v, r)[i] \in Nat
<1>1. CASE i = 1
  BY <1>1 DEF StepTerms
<1>2. CASE i # 1
  <2>1. i - 1 \in 1..Len(v) /\ v[i - 1] \in Nat /\ v[i] \in Nat
    BY <1>2, LenProperties, ElementOfSeq
  <2> QED BY <1>2, <2>1, StepNat DEF StepTerms
<1> QED BY <1>1, <1>2

\* Skipping a row shows no more than reading it.
LEMMA StepTriangle ==
  ASSUME NEW x \in Nat, NEW y \in Nat, NEW z \in Nat, NEW r
  PROVE  StepOf(x, z, r) <= StepOf(x, y, r) + StepOf(y, z, r)
BY DEF StepOf

\* A counter that never goes down: every step is a difference.
LEMMA StepsRising ==
  ASSUME NEW v \in Seq(Nat), v # <<>>, NEW r,
         \A i \in 2..Len(v) : v[i - 1] <= v[i]
  PROVE  Steps(v, r) = v[Len(v)] - v[1]
<1> DEFINE n == Len(v)
           d == StepTerms(v, r)
<1>1. n \in Nat /\ n # 0 /\ \A i \in 1..n : v[i] \in Nat
  BY EmptySeq, LenProperties, ElementOfSeq
<1>2. \A i \in 2..n : i \in 1..n /\ i - 1 \in 1..n /\ i # 1
  BY <1>1
<1>3. \A i \in 1..n : d[i] \in Int /\ v[i] \in Int
  BY <1>1, StepTermNat
<1>4. d[1] = 0
  BY <1>1 DEF StepTerms
<1>5. \A i \in 2..n : d[i] = v[i] - v[i - 1]
  BY <1>1, <1>2 DEF StepTerms, StepOf
<1> HIDE DEF d
<1>6. SumFunctionOnSet(d, 1..n) = v[n] - v[1]
  <2> HIDE DEF n
  <2> QED BY <1>1, <1>3, <1>4, <1>5, TelescopeExactly
<1> QED BY <1>6, StepsIsSum DEF d

\* Steps no longer than those of p.
LEMMA StepsBelow ==
  ASSUME NEW v \in Seq(Nat), v # <<>>, NEW r, NEW p,
         \A i \in 1..Len(v) : p[i] \in Int,
         \A i \in 2..Len(v) : StepOf(v[i - 1], v[i], r) <= p[i] - p[i - 1]
  PROVE  Steps(v, r) <= p[Len(v)] - p[1]
<1> DEFINE n == Len(v)
           d == StepTerms(v, r)
<1>1. n \in Nat /\ n # 0
  BY EmptySeq, LenProperties
<1>2. \A i \in 2..n : i \in 1..n /\ i # 1
  BY <1>1
<1>3. \A i \in 1..n : d[i] \in Int /\ p[i] \in Int
  BY StepTermNat
<1>4. d[1] = 0
  BY <1>1 DEF StepTerms
<1>5. \A i \in 2..n : d[i] <= p[i] - p[i - 1]
  BY <1>2 DEF StepTerms
<1> HIDE DEF d
<1>6. SumFunctionOnSet(d, 1..n) <= p[n] - p[1]
  <2> HIDE DEF n
  <2> QED BY <1>1, <1>3, <1>4, <1>5, Telescope
<1> QED BY <1>6, StepsIsSum DEF d

\* A series without rows shows no increase.
LEMMA StepsOfNothing ==
  ASSUME NEW r
  PROVE  Steps(<<>>, r) = 0
<1>1. <<>> \in Seq(Nat) /\ Len(<<>>) = 0 /\ 1..0 = {}
  OBVIOUS
<1>2. Steps(<<>>, r) = SumFunctionOnSet(StepTerms(<<>>, r), {})
  BY <1>1, StepsIsSum
<1> QED BY <1>2, SumEmpty

\* The steps add up as the rows are read, and one long step is never longer
\* than the short ones in between.
Running(v, r) == [i \in 1..Len(v) |-> SumFunctionOnSet(StepTerms(v, r), 1..i)]

\* The running increase grows by one step per row.
LEMMA RunningSteps ==
  ASSUME NEW v \in Seq(Nat), NEW r, NEW i \in 1..Len(v)
  PROVE  /\ Running(v, r)[i] \in Nat
         /\ i + 1 \in 1..Len(v) =>
              Running(v, r)[i + 1] = Running(v, r)[i] + StepOf(v[i], v[i + 1], r)
<1> DEFINE d == StepTerms(v, r)
           zero == [j \in 1..i |-> 0]
<1>1. \A j \in 1..Len(v) : d[j] \in Nat
  BY StepTermNat
<1>2. Len(v) \in Nat /\ i \in Nat /\ \A j \in 1..i : j \in 1..Len(v)
  BY LenProperties
<1>3. IsFiniteSet(1..i)
  BY <1>2, FS_Interval
<1>4. SumFunctionOnSet(d, 1..i) \in Nat
  <2>1. SumFunctionOnSet(zero, 1..i) <= SumFunctionOnSet(d, 1..i)
    <3>1. \A j \in 1..i : zero[j] \in Int /\ d[j] \in Int /\ zero[j] <= d[j]
      BY <1>1, <1>2
    <3> HIDE DEF zero, d
    <3> QED BY <1>3, <3>1, SumLeq
  <2>2. SumFunctionOnSet(zero, 1..i) = 0
    <3>1. \A j \in 1..i : zero[j] = 0
      OBVIOUS
    <3> HIDE DEF zero
    <3>2. SumFunctionOnSet(zero, 1..i) = SumFunctionOnSet(zero, {})
      BY <1>3, <3>1, SumZeroes
    <3> QED BY <3>2, SumEmpty
  <2>3. SumFunctionOnSet(d, 1..i) \in Int
    <3>1. \A j \in 1..i : d[j] \in Int
      BY <1>1, <1>2
    <3> HIDE DEF d
    <3> QED BY <1>3, <3>1, SumInt
  <2> QED BY <2>1, <2>2, <2>3
<1>5. ASSUME i + 1 \in 1..Len(v)
      PROVE  SumFunctionOnSet(d, 1..(i + 1)) = SumFunctionOnSet(d, 1..i) + StepOf(v[i], v[i + 1], r)
  <2>1. \A j \in 1..(i + 1) : j \in 1..Len(v)
    BY <1>2, <1>5
  <2>2. \A j \in 1..(i + 1) : d[j] \in Int
    BY <1>1, <2>1
  <2>3. d[i + 1] = StepOf(v[i], v[i + 1], r)
    <3>1. i + 1 # 1 /\ (i + 1) - 1 = i
      BY <1>2
    <3> QED BY <1>5, <3>1 DEF StepTerms
  <2>4. d[i + 1] \in Int
    BY <1>1, <1>5
  <2> HIDE DEF d
  <2>5. SumFunctionOnSet(d, 1..(i + 1)) = d[i + 1] + SumFunctionOnSet(d, 1..i)
    BY <1>2, <2>2, SumLast
  <2> QED BY <1>4, <2>3, <2>4, <2>5
<1> QED BY <1>4, <1>5 DEF Running

\* From row i to row j the running increase grows by at least the step
\* between these two.
LEMMA LongSteps ==
  ASSUME NEW v \in Seq(Nat), NEW r, NEW i \in 1..Len(v), NEW j \in i..Len(v)
  PROVE  Running(v, r)[i] + StepOf(v[i], v[j], r) <= Running(v, r)[j]
<1> DEFINE p == Running(v, r)
           B == {m \in Nat : i + m <= Len(v) => p[i] + StepOf(v[i], v[i + m], r) <= p[i + m]}
<1>1. /\ Len(v) \in Nat /\ i \in Nat
      /\ \A k \in 1..Len(v) : v[k] \in Nat /\ p[k] \in Nat
  BY LenProperties, ElementOfSeq, RunningSteps
<1>2. 0 \in B
  <2>1. i + 0 = i /\ v[i] \in Nat /\ p[i] \in Nat
    BY <1>1
  <2>2. StepOf(v[i], v[i], r) = 0
    BY <2>1 DEF StepOf
  <2> HIDE DEF p
  <2> QED BY <2>1, <2>2
<1>3. ASSUME NEW m \in Nat, m \in B PROVE m + 1 \in B
  <2> SUFFICES ASSUME i + (m + 1) <= Len(v)
               PROVE  p[i] + StepOf(v[i], v[i + (m + 1)], r) <= p[i + (m + 1)]
    OBVIOUS
  <2>1. i + m \in 1..Len(v) /\ (i + m) + 1 \in 1..Len(v) /\ (i + m) + 1 = i + (m + 1) /\ i + m <= Len(v)
    BY <1>1
  <2>2. p[i + (m + 1)] = p[i + m] + StepOf(v[i + m], v[i + (m + 1)], r)
    <3>1. p[(i + m) + 1] = p[i + m] + StepOf(v[i + m], v[(i + m) + 1], r)
      BY <2>1, RunningSteps
    <3> QED BY <2>1, <3>1
  <2>3. p[i] + StepOf(v[i], v[i + m], r) <= p[i + m]
    BY <1>3, <2>1
  <2>4. v[i] \in Nat /\ v[i + m] \in Nat /\ v[i + (m + 1)] \in Nat
    BY <1>1, <2>1
  <2>5. StepOf(v[i], v[i + (m + 1)], r) <= StepOf(v[i], v[i + m], r) + StepOf(v[i + m], v[i + (m + 1)], r)
    BY <2>4, StepTriangle
  <2>6. /\ StepOf(v[i], v[i + (m + 1)], r) \in Nat /\ StepOf(v[i], v[i + m], r) \in Nat
        /\ StepOf(v[i + m], v[i + (m + 1)], r) \in Nat
    BY <2>4, StepNat
  <2>7. p[i] \in Nat /\ p[i + m] \in Nat
    BY <1>1, <2>1
  <2> DEFINE a == p[i]
             b == p[i + m]
             c == p[i + (m + 1)]
             x == StepOf(v[i], v[i + m], r)
             y == StepOf(v[i + m], v[i + (m + 1)], r)
             z == StepOf(v[i], v[i + (m + 1)], r)
  <2>8. c = b + y /\ a + x <= b /\ z <= x + y
    BY <2>2, <2>3, <2>5
  <2>9. a \in Nat /\ b \in Nat /\ x \in Nat /\ y \in Nat /\ z \in Nat
    BY <2>6, <2>7
  <2>10. a + z <= c
    <3> HIDE DEF a, b, c, x, y, z
    <3> QED BY <2>8, <2>9
  <2> QED BY <2>10
<1>4. Nat \subseteq B
  <2> HIDE DEF B
  <2> QED BY <1>2, <1>3, NatInd
<1>5. j - i \in Nat /\ i + (j - i) = j /\ j <= Len(v)
  BY <1>1
<1>6. j - i \in B
  <2> HIDE DEF B
  <2> QED BY <1>4, <1>5
<1> QED BY <1>5, <1>6

\* The rows at times us are those at times ts and others.
Covers(us, ts) == \A i \in 1..Len(ts) : Holds(us, ts[i])

\* Of a series, more rows never show less.
LEMMA MoreRowsMore ==
  ASSUME NEW series, NEW r,
         NEW ts \in Seq(Nat), Sorted(ts), NEW us \in Seq(Nat), Sorted(us), Covers(us, ts),
         \A i \in 1..Len(us) : series[us[i]] \in Nat
  PROVE  Steps(ValuesAt(series, ts), r) <= Steps(ValuesAt(series, us), r)
<1> DEFINE v == ValuesAt(series, ts)
           w == ValuesAt(series, us)
           p == Running(w, r)
           Place(t) == CHOOSE j \in 1..Len(us) : us[j] = t
           q == [i \in 1..Len(ts) |-> p[Place(ts[i])]]
<1>1. Len(ts) \in Nat /\ Len(us) \in Nat /\ DOMAIN ts = 1..Len(ts) /\ DOMAIN us = 1..Len(us)
  BY LenProperties
<1>2. \A i \in 1..Len(ts) : Place(ts[i]) \in 1..Len(us) /\ us[Place(ts[i])] = ts[i]
  BY DEF Covers, Holds
<1>3. \A i \in 1..Len(ts) : series[ts[i]] \in Nat
  BY <1>2
<1>4. v = [i \in 1..Len(ts) |-> series[ts[i]]] /\ w = [i \in 1..Len(us) |-> series[us[i]]]
  BY <1>1 DEF ValuesAt
<1>5. v \in Seq(Nat) /\ Len(v) = Len(ts) /\ w \in Seq(Nat) /\ Len(w) = Len(us)
  <2> HIDE DEF v, w
  <2> QED BY <1>1, <1>3, <1>4
<1>6. \A i \in 1..Len(us) : p[i] \in Nat
  <2> HIDE DEF w
  <2> QED BY <1>5, RunningSteps
<1>7. ASSUME NEW i \in 1..Len(us), NEW j \in i..Len(us)
      PROVE  p[i] + StepOf(w[i], w[j], r) <= p[j] /\ p[i] <= p[j]
  <2>1. p[i] + StepOf(w[i], w[j], r) <= p[j]
    <3> HIDE DEF w
    <3> QED BY <1>5, LongSteps
  <2>2. j \in 1..Len(us)
    BY <1>1
  <2>3. StepOf(w[i], w[j], r) \in Nat
    <3>1. w[i] \in Nat /\ w[j] \in Nat
      <4> HIDE DEF w
      <4> QED BY <1>5, <2>2, ElementOfSeq
    <3> QED BY <3>1, StepNat
  <2>4. p[i] \in Nat /\ p[j] \in Nat
    BY <1>6, <2>2
  <2> HIDE DEF p, w
  <2> QED BY <2>1, <2>3, <2>4
<1>8. Steps(w, r) \in Nat /\ (us # <<>> => Steps(w, r) = p[Len(us)])
  <2>1. CASE us = <<>>
    <3>1. Len(w) = 0 /\ 1..0 = {} /\ us = <<>>
      BY <1>5, <2>1
    <3>2. Steps(w, r) = SumFunctionOnSet(StepTerms(w, r), {})
      <4> HIDE DEF w
      <4> QED BY <1>5, <3>1, StepsIsSum
    <3> QED BY <3>1, <3>2, SumEmpty
  <2>2. CASE us # <<>>
    <3>1. Len(us) \in 1..Len(us)
      BY <1>1, <2>2, EmptySeq
    <3>2. p[Len(us)] = SumFunctionOnSet(StepTerms(w, r), 1..Len(us))
      BY <1>5, <3>1 DEF Running
    <3>3. Steps(w, r) = SumFunctionOnSet(StepTerms(w, r), 1..Len(us))
      <4> HIDE DEF w
      <4> QED BY <1>5, StepsIsSum
    <3> QED BY <1>6, <3>1, <3>2, <3>3
  <2> QED BY <2>1, <2>2
<1>9. CASE ts = <<>>
  <2>1. Len(v) = 0 /\ 1..0 = {}
    BY <1>5, <1>9
  <2>2. Steps(v, r) = SumFunctionOnSet(StepTerms(v, r), {})
    <3> HIDE DEF v
    <3> QED BY <1>5, <2>1, StepsIsSum
  <2> QED BY <1>8, <2>2, SumEmpty
<1>10. CASE ts # <<>>
  <2>1. Len(ts) # 0 /\ 1 \in 1..Len(ts) /\ Len(ts) \in 1..Len(ts)
    BY <1>1, <1>10, EmptySeq
  <2>2. \A i \in 1..Len(ts) : q[i] \in Nat /\ q[i] = p[Place(ts[i])]
    BY <1>2, <1>6
  <2>3. ASSUME NEW i \in 2..Len(v)
        PROVE  StepOf(v[i - 1], v[i], r) <= q[i] - q[i - 1]
    <3>1. i \in 1..Len(ts) /\ i - 1 \in 1..Len(ts) /\ i - 1 <= i
      BY <1>1, <1>5
    <3> DEFINE a == Place(ts[i - 1])
               b == Place(ts[i])
    <3>2. /\ a \in 1..Len(us) /\ us[a] = ts[i - 1]
          /\ b \in 1..Len(us) /\ us[b] = ts[i]
      BY <1>2, <3>1
    <3>3. ts[i - 1] <= ts[i] /\ ts[i - 1] \in Nat /\ ts[i] \in Nat
      BY <3>1, ElementOfSeq DEF Sorted
    <3>4. a <= b
      <4>1. CASE ts[i - 1] = ts[i]
        <5>1. a = b
          BY <4>1
        <5> HIDE DEF a, b
        <5> QED BY <3>2, <5>1
      <4>2. CASE ts[i - 1] # ts[i]
        <5> HIDE DEF a, b
        <5>1. ~(b <= a)
          BY <3>2, <3>3, <4>2 DEF Sorted
        <5> QED BY <3>2, <5>1
      <4> QED BY <4>1, <4>2
    <3>5. v[i - 1] = w[a] /\ v[i] = w[b]
      <4>1. v[i - 1] = series[ts[i - 1]] /\ v[i] = series[ts[i]]
        BY <3>1, <1>4
      <4> HIDE DEF a, b, v
      <4> QED BY <1>4, <3>2, <4>1
    <3>6. q[i - 1] = p[a] /\ q[i] = p[b]
      BY <3>1
    <3>7. p[a] + StepOf(w[a], w[b], r) <= p[b]
      <4> HIDE DEF a, b, p, q, v, w
      <4>1. b \in a..Len(us)
        BY <3>2, <3>4
      <4> QED BY <1>7, <3>2, <4>1
    <3>8. StepOf(w[a], w[b], r) \in Nat
      <4> HIDE DEF a, b, p, q, v, w
      <4>1. w[a] \in Nat /\ w[b] \in Nat
        BY <1>5, <3>2, ElementOfSeq
      <4> QED BY <4>1, StepNat
    <3> DEFINE step == StepOf(w[a], w[b], r)
               low == p[a]
               high == p[b]
    <3>9. low \in Nat /\ high \in Nat /\ step \in Nat /\ low + step <= high
      BY <1>6, <3>2, <3>7, <3>8
    <3>10. step <= high - low
      <4> HIDE DEF step, low, high
      <4> QED BY <3>9
    <3> HIDE DEF a, b, p, q, v, w
    <3> QED BY <3>5, <3>6, <3>10
  <2>4. Steps(v, r) <= q[Len(ts)] - q[1]
    <3> HIDE DEF q, v
    <3>1. v # <<>> /\ \A i \in 1..Len(v) : q[i] \in Int
      BY <1>5, <2>1, <2>2
    <3> QED BY <1>5, <2>3, <3>1, StepsBelow
  <2>5. q[Len(ts)] <= p[Len(us)]
    <3> DEFINE a == Place(ts[Len(ts)])
    <3>1. a \in 1..Len(us) /\ q[Len(ts)] = p[a]
      BY <1>2, <2>1
    <3>2. Len(us) \in a..Len(us)
      <4> HIDE DEF a
      <4> QED BY <1>1, <3>1
    <3> HIDE DEF a, p, q
    <3> QED BY <1>7, <3>1, <3>2
  <2>6. us # <<>>
    <3>1. Place(ts[1]) \in 1..Len(us)
      BY <1>2, <2>1
    <3>2. Len(us) # 0
      BY <3>1
    <3> QED BY <3>2, EmptySeq
  <2>7. q[1] \in Nat /\ q[Len(ts)] \in Nat /\ p[Len(us)] \in Nat
    BY <1>6, <1>8, <2>1, <2>2, <2>6
  <2>8. Steps(w, r) = p[Len(us)]
    BY <1>8, <2>6
  <2>9. Steps(v, r) \in Int
    <3> HIDE DEF v
    <3>1. IsFiniteSet(1..Len(v))
      BY <1>1, <1>5, FS_Interval
    <3>2. \A i \in 1..Len(v) : StepTerms(v, r)[i] \in Int
      BY <1>5, StepTermNat
    <3> QED BY <1>5, <3>1, <3>2, StepsIsSum, SumInt
  <2>10. Steps(v, r) <= Steps(w, r)
    <3> HIDE DEF q, p, v, w
    <3> QED BY <2>4, <2>5, <2>7, <2>8, <2>9
  <2> QED BY <2>10
<1> QED BY <1>9, <1>10

-----------------------------------------------------------------------------
(* The rows of a series                                                    *)

\* The rows in order of time: those of the samples that have the series and
\* have arrived.
LEMMA RowTimesAre ==
  ASSUME NEW n \in Nat, NEW series \in [1..n -> Nat \cup {Absent}], NEW cps \in [1..n -> 0..2]
  PROVE  /\ RowTimes(series, cps) \in Seq(Nat) /\ Sorted(RowTimes(series, cps))
         /\ \A t : Holds(RowTimes(series, cps), t) <=>
                     t \in 1..n /\ series[t] # Absent /\ cps[t] > 0
<1> DEFINE seqs == [t \in 1..n |-> IF series[t] = Absent THEN <<>> ELSE [c \in 1..cps[t] |-> t]]
           key == [t \in 1..n |-> t]
<1>1. RowTimes(series, cps) = FlattenSeq(seqs)
  BY DEF RowTimes
<1>2. ASSUME NEW t \in 1..n
      PROVE  /\ seqs[t] \in Seq(Nat) /\ \A j \in 1..Len(seqs[t]) : seqs[t][j] = t
             /\ seqs[t] # <<>> <=> series[t] # Absent /\ cps[t] > 0
  <2>1. CASE series[t] = Absent
    <3>1. seqs[t] = <<>> /\ 1..0 = {} /\ Len(<<>>) = 0
      BY <2>1
    <3> QED BY <2>1, <3>1
  <2>2. CASE series[t] # Absent
    <3> DEFINE block == [c \in 1..cps[t] |-> t]
    <3>1. seqs[t] = block
      BY <2>2
    <3>2. cps[t] \in Nat /\ t \in Nat
      OBVIOUS
    <3>3. block \in Seq(Nat) /\ Len(block) = cps[t]
      BY <3>2
    <3>4. \A c \in 1..cps[t] : block[c] = t
      OBVIOUS
    <3>5. block # <<>> <=> cps[t] > 0
      <4> HIDE DEF block
      <4> QED BY <3>2, <3>3, EmptySeq
    <3> HIDE DEF block, seqs
    <3> QED BY <2>2, <3>1, <3>3, <3>4, <3>5
  <2> QED BY <2>1, <2>2
<1>3. seqs \in [1..n -> Seq(Nat)]
  <2>1. seqs = [t \in 1..n |-> seqs[t]]
    OBVIOUS
  <2> HIDE DEF seqs
  <2> QED BY <1>2, <2>1
<1>4. key \in [1..n -> Nat]
  OBVIOUS
<1>5. \A t \in 1..n : key[t] = t
  OBVIOUS
<1>6. \A i, j \in 1..n : i <= j => key[i] <= key[j]
  BY <1>5
<1> HIDE DEF seqs, key
<1>7. \A i \in 1..n : \A j \in 1..Len(seqs[i]) : seqs[i][j] = key[i]
  BY <1>2, <1>5
<1>8. /\ FlattenSeq(seqs) \in Seq(Nat) /\ Sorted(FlattenSeq(seqs))
      /\ \A v : Holds(FlattenSeq(seqs), v) <=> \E i \in 1..n : seqs[i] # <<>> /\ key[i] = v
  BY <1>3, <1>4, <1>6, <1>7, FlattenSorted
<1>9. ASSUME NEW t
      PROVE  (\E i \in 1..n : seqs[i] # <<>> /\ key[i] = t)
                <=> t \in 1..n /\ series[t] # Absent /\ cps[t] > 0
  <2>1. ASSUME NEW i \in 1..n, seqs[i] # <<>>, key[i] = t
        PROVE  t \in 1..n /\ series[t] # Absent /\ cps[t] > 0
    <3>1. i = t
      BY <1>5, <2>1
    <3> QED BY <1>2, <2>1, <3>1
  <2>2. ASSUME t \in 1..n, series[t] # Absent, cps[t] > 0
        PROVE  \E i \in 1..n : seqs[i] # <<>> /\ key[i] = t
    BY <1>2, <1>5, <2>2
  <2> QED BY <2>1, <2>2
<1>10. \A t : Holds(FlattenSeq(seqs), t)
                <=> t \in 1..n /\ series[t] # Absent /\ cps[t] > 0
  BY <1>8, <1>9
<1> QED BY <1>1, <1>8, <1>10

\* The last rows of the buckets are rows, in order of time.
LEMMA BucketTimesAre ==
  ASSUME NEW ts \in Seq(Nat), Sorted(ts)
  PROVE  /\ LastOfBuckets(ts) \in Seq(Nat) /\ Sorted(LastOfBuckets(ts))
         /\ Covers(ts, LastOfBuckets(ts))
<1> DEFINE n == Len(ts)
           BucketOf(i) == (ts[i] - 1) \div BucketLen
           IsLast(i) == \A j \in DOMAIN ts : BucketOf(j) = BucketOf(i) => ts[j] <= ts[i]
           seqs == [i \in 1..n |-> IF IsLast(i) THEN <<ts[i]>> ELSE <<>>]
<1>1. n \in Nat /\ DOMAIN ts = 1..n /\ ts \in [1..n -> Nat]
  BY LenProperties
<1>2. LastOfBuckets(ts) = FlattenSeq(seqs)
  BY <1>1 DEF LastOfBuckets
<1> HIDE DEF IsLast
<1>3. ASSUME NEW i \in 1..n
      PROVE  seqs[i] \in Seq(Nat) /\ \A j \in 1..Len(seqs[i]) : seqs[i][j] = ts[i]
  <2>1. CASE IsLast(i)
    <3>1. seqs[i] = <<ts[i]>> /\ ts[i] \in Nat
      BY <1>1, <2>1
    <3> HIDE DEF seqs
    <3> QED BY <3>1
  <2>2. CASE ~IsLast(i)
    <3>1. seqs[i] = <<>> /\ Len(<<>>) = 0 /\ 1..0 = {}
      BY <2>2
    <3> HIDE DEF seqs
    <3> QED BY <3>1
  <2> QED BY <2>1, <2>2
<1>4. seqs \in [1..n -> Seq(Nat)]
  <2>1. seqs = [i \in 1..n |-> seqs[i]]
    OBVIOUS
  <2> HIDE DEF seqs
  <2> QED BY <1>3, <2>1
<1>5. \A i, j \in 1..n : i <= j => ts[i] <= ts[j]
  BY DEF Sorted
<1> HIDE DEF seqs, n
<1>6. /\ FlattenSeq(seqs) \in Seq(Nat) /\ Sorted(FlattenSeq(seqs))
      /\ \A v : Holds(FlattenSeq(seqs), v) <=> \E i \in 1..n : seqs[i] # <<>> /\ ts[i] = v
  BY <1>1, <1>3, <1>4, <1>5, FlattenSorted
<1>7. Covers(ts, FlattenSeq(seqs))
  <2> SUFFICES ASSUME NEW i \in 1..Len(FlattenSeq(seqs)) PROVE Holds(ts, FlattenSeq(seqs)[i])
    BY DEF Covers
  <2>1. Holds(FlattenSeq(seqs), FlattenSeq(seqs)[i])
    BY DEF Holds
  <2>2. PICK j \in 1..n : ts[j] = FlattenSeq(seqs)[i]
    BY <1>6, <2>1
  <2> QED BY <2>2 DEF Holds, n
<1> QED BY <1>2, <1>6, <1>7

\* A series of n samples against the work D done by then: no step is longer
\* than the work between its two rows, and none is shorter if exact.
Backed(series, D, n, r, exact) ==
  /\ series \in [1..n -> Nat \cup {Absent}]
  /\ D \in [1..n -> Int]
  /\ \A s, t \in 1..n : s <= t /\ series[s] # Absent /\ series[t] # Absent =>
       /\ StepOf(series[s], series[t], r) <= D[t] - D[s]
       /\ exact => series[t] - series[s] = D[t] - D[s]

\* The rows that arrived of a backed series show no more than the work
\* between the first and the last, and exactly that where nothing was cleared.
LEMMA RowsBacked ==
  ASSUME NEW n \in Nat, NEW series, NEW D, NEW r, NEW exact \in BOOLEAN,
         Backed(series, D, n, r, exact), NEW cps \in [1..n -> 0..2],
         RowTimes(series, cps) # <<>>
  PROVE  LET ts == RowTimes(series, cps)
             v == ValuesAt(series, ts)
         IN /\ Steps(v, r) <= D[ts[Len(ts)]] - D[ts[1]]
            /\ exact => Steps(v, r) = D[ts[Len(ts)]] - D[ts[1]]
            /\ v \in Seq(Nat) /\ v # <<>>
            /\ exact => \A i, j \in 1..Len(v) : i <= j => v[i] <= v[j]
<1> DEFINE ts == RowTimes(series, cps)
           v == ValuesAt(series, ts)
           p == [i \in 1..Len(ts) |-> D[ts[i]]]
<1>1. /\ ts \in Seq(Nat) /\ Sorted(ts)
      /\ \A t : Holds(ts, t) => t \in 1..n /\ series[t] # Absent
  BY RowTimesAre DEF Backed
<1>2. ts # <<>>
  OBVIOUS
<1> HIDE DEF ts
<1>3. Len(ts) \in Nat /\ Len(ts) # 0 /\ DOMAIN ts = 1..Len(ts)
  BY <1>1, <1>2, EmptySeq, LenProperties
<1>4. \A i \in 1..Len(ts) : ts[i] \in 1..n /\ series[ts[i]] # Absent /\ series[ts[i]] \in Nat /\ D[ts[i]] \in Int
  <2> SUFFICES ASSUME NEW i \in 1..Len(ts)
               PROVE  ts[i] \in 1..n /\ series[ts[i]] # Absent /\ series[ts[i]] \in Nat /\ D[ts[i]] \in Int
    OBVIOUS
  <2>1. Holds(ts, ts[i])
    BY DEF Holds
  <2>2. ts[i] \in 1..n /\ series[ts[i]] # Absent
    BY <1>1, <2>1
  <2> QED BY <2>2 DEF Backed
<1>5. v = [i \in 1..Len(ts) |-> series[ts[i]]]
  BY <1>3 DEF ValuesAt
<1>6. v \in Seq(Nat) /\ Len(v) = Len(ts) /\ v # <<>>
  <2>1. v \in Seq(Nat) /\ Len(v) = Len(ts)
    <3> HIDE DEF v
    <3> QED BY <1>3, <1>4, <1>5
  <2> HIDE DEF v
  <2> QED BY <1>3, <2>1, EmptySeq
<1>7. \A i \in 1..Len(ts) : v[i] = series[ts[i]] /\ p[i] = D[ts[i]] /\ v[i] \in Nat /\ p[i] \in Int
  <2> HIDE DEF v
  <2> QED BY <1>4, <1>5
<1>8. ASSUME NEW i \in 1..Len(ts), NEW j \in 1..Len(ts), i <= j
      PROVE  /\ StepOf(v[i], v[j], r) <= p[j] - p[i]
             /\ exact => v[j] - v[i] = p[j] - p[i]
  <2>1. ts[i] <= ts[j]
    BY <1>1, <1>8 DEF Sorted
  <2>2. /\ StepOf(series[ts[i]], series[ts[j]], r) <= D[ts[j]] - D[ts[i]]
        /\ exact => series[ts[j]] - series[ts[i]] = D[ts[j]] - D[ts[i]]
    BY <1>4, <2>1 DEF Backed
  <2> HIDE DEF v, p
  <2> QED BY <1>7, <2>2
<1>9. \A i \in 2..Len(v) : i \in 1..Len(ts) /\ i - 1 \in 1..Len(ts) /\ i - 1 <= i
  <2> HIDE DEF v
  <2> QED BY <1>3, <1>6
<1>10. 1 \in 1..Len(ts) /\ Len(ts) \in 1..Len(ts)
  BY <1>3
<1>11. p[Len(ts)] = D[ts[Len(ts)]] /\ p[1] = D[ts[1]]
  BY <1>7, <1>10
<1>12. Steps(v, r) <= p[Len(v)] - p[1]
  <2>1. \A i \in 2..Len(v) : StepOf(v[i - 1], v[i], r) <= p[i] - p[i - 1]
    <3> HIDE DEF v, p
    <3> QED BY <1>8, <1>9
  <2>2. \A i \in 1..Len(v) : p[i] \in Int
    <3> HIDE DEF v, p
    <3> QED BY <1>6, <1>7
  <2> HIDE DEF v, p
  <2> QED BY <1>6, <2>1, <2>2, StepsBelow
<1>13. ASSUME exact, NEW i \in 1..Len(ts), NEW j \in 1..Len(ts), i <= j PROVE v[i] <= v[j]
  <2>1. StepOf(v[i], v[j], r) <= p[j] - p[i] /\ v[j] - v[i] = p[j] - p[i]
    BY <1>8, <1>13
  <2>2. StepOf(v[i], v[j], r) \in Nat /\ v[i] \in Nat /\ v[j] \in Nat /\ p[i] \in Int /\ p[j] \in Int
    <3> HIDE DEF v, p
    <3> QED BY <1>7, StepNat
  <2> DEFINE x == v[i]
             y == v[j]
             step == StepOf(v[i], v[j], r)
             low == p[i]
             high == p[j]
  <2>3. x <= y
    <3>1. step <= high - low /\ y - x = high - low
      BY <2>1
    <3>2. step \in Nat /\ x \in Nat /\ y \in Nat /\ low \in Int /\ high \in Int
      BY <2>2
    <3> HIDE DEF x, y, step, low, high
    <3> QED BY <3>1, <3>2
  <2> QED BY <2>3
<1>14. ASSUME exact PROVE Steps(v, r) = p[Len(v)] - p[1]
  <2>1. \A i \in 2..Len(v) : v[i - 1] <= v[i]
    <3> HIDE DEF v
    <3> QED BY <1>9, <1>13, <1>14
  <2>2. v[Len(ts)] - v[1] = p[Len(ts)] - p[1]
    <3>1. 1 <= Len(ts)
      BY <1>3
    <3> HIDE DEF v, p
    <3> QED BY <1>8, <1>10, <1>14, <3>1
  <2>3. Steps(v, r) = v[Len(v)] - v[1]
    <3> HIDE DEF v
    <3> QED BY <1>6, <2>1, StepsRising
  <2> HIDE DEF v, p
  <2> QED BY <1>6, <2>2, <2>3
<1>15. /\ Steps(v, r) <= D[ts[Len(ts)]] - D[ts[1]]
       /\ exact => Steps(v, r) = D[ts[Len(ts)]] - D[ts[1]]
  <2> HIDE DEF v, p
  <2> QED BY <1>6, <1>11, <1>12, <1>14
<1>16. exact => \A i, j \in 1..Len(v) : i <= j => v[i] <= v[j]
  <2> HIDE DEF v
  <2> QED BY <1>6, <1>13
<1> QED BY <1>6, <1>15, <1>16 DEF ts

\* One row more, or the same row again.
LEMMA MoreCopiesMore ==
  ASSUME NEW n \in Nat, NEW series \in [1..n -> Nat \cup {Absent}], NEW r,
         NEW cps \in [1..n -> 0..2], NEW more \in [1..n -> 0..2],
         \A t \in 1..n : cps[t] <= more[t]
  PROVE  increase(series, cps, r) <= increase(series, more, r)
<1> DEFINE ts == RowTimes(series, cps)
           us == RowTimes(series, more)
<1>1. /\ ts \in Seq(Nat) /\ Sorted(ts)
      /\ \A t : Holds(ts, t) => t \in 1..n /\ series[t] # Absent /\ cps[t] > 0
  BY RowTimesAre
<1>2. /\ us \in Seq(Nat) /\ Sorted(us)
      /\ \A t : Holds(us, t) <=> t \in 1..n /\ series[t] # Absent /\ more[t] > 0
  BY RowTimesAre
<1> HIDE DEF ts, us
<1>3. ASSUME NEW i \in 1..Len(ts) PROVE Holds(us, ts[i])
  <2>1. Holds(ts, ts[i])
    BY DEF Holds
  <2> DEFINE t == ts[i]
  <2>2. t \in 1..n /\ series[t] # Absent /\ cps[t] > 0
    BY <1>1, <2>1
  <2> HIDE DEF t
  <2>3. more[t] > 0
    <3>1. cps[t] \in Int /\ more[t] \in Int /\ cps[t] <= more[t]
      BY <2>2
    <3> QED BY <2>2, <3>1
  <2>4. Holds(us, t)
    BY <1>2, <2>2, <2>3
  <2> QED BY <2>4 DEF t
<1>4. Covers(us, ts)
  BY <1>3 DEF Covers
<1>5. \A i \in 1..Len(us) : series[us[i]] \in Nat
  <2> SUFFICES ASSUME NEW i \in 1..Len(us) PROVE series[us[i]] \in Nat
    OBVIOUS
  <2>1. Holds(us, us[i])
    BY DEF Holds
  <2>2. us[i] \in 1..n /\ series[us[i]] # Absent
    BY <1>2, <2>1
  <2> QED BY <2>2
<1>6. Steps(ValuesAt(series, ts), r) <= Steps(ValuesAt(series, us), r)
  BY <1>1, <1>2, <1>4, <1>5, MoreRowsMore
<1> QED BY <1>6 DEF increase, ts, us

\* The buckets keep some of the rows.
LEMMA BucketsShowLess ==
  ASSUME NEW n \in Nat, NEW series \in [1..n -> Nat \cup {Absent}], NEW r,
         NEW cps \in [1..n -> 0..2]
  PROVE  rateTotal(series, cps, r) <= increase(series, cps, r)
<1> DEFINE us == RowTimes(series, cps)
           ts == LastOfBuckets(us)
<1>1. /\ us \in Seq(Nat) /\ Sorted(us)
      /\ \A t : Holds(us, t) => t \in 1..n /\ series[t] # Absent
  BY RowTimesAre
<1> HIDE DEF us
<1>2. ts \in Seq(Nat) /\ Sorted(ts) /\ Covers(us, ts)
  BY <1>1, BucketTimesAre
<1> HIDE DEF ts
<1>3. \A i \in 1..Len(us) : series[us[i]] \in Nat
  <2> SUFFICES ASSUME NEW i \in 1..Len(us) PROVE series[us[i]] \in Nat
    OBVIOUS
  <2>1. Holds(us, us[i])
    BY DEF Holds
  <2>2. us[i] \in 1..n /\ series[us[i]] # Absent
    BY <1>1, <2>1
  <2> QED BY <2>2
<1>4. Steps(ValuesAt(series, ts), r) <= Steps(ValuesAt(series, us), r)
  BY <1>1, <1>2, <1>3, MoreRowsMore
<1> QED BY <1>4 DEF rateTotal, increase, ts, us

\* max - min of values that never go down.
LEMMA SpreadRising ==
  ASSUME NEW series, NEW cps, NEW r,
         ValuesAt(series, RowTimes(series, cps)) \in Seq(Nat),
         \A i, j \in 1..Len(ValuesAt(series, RowTimes(series, cps))) :
           i <= j => ValuesAt(series, RowTimes(series, cps))[i]
                       <= ValuesAt(series, RowTimes(series, cps))[j]
  PROVE  spread(series, cps) = increase(series, cps, r)
<1> DEFINE v == ValuesAt(series, RowTimes(series, cps))
           Differences == {v[i] - v[j] : i, j \in DOMAIN v}
           Bound(d) == \A i, j \in DOMAIN v : v[i] - v[j] <= d
           top == v[Len(v)] - v[1]
<1>1. v \in Seq(Nat) /\ \A i, j \in 1..Len(v) : i <= j => v[i] <= v[j]
  OBVIOUS
<1>2. /\ spread(series, cps) = IF v = <<>> THEN 0 ELSE CHOOSE d \in Differences : Bound(d)
      /\ increase(series, cps, r) = Steps(v, r)
  BY DEF spread, increase
<1>3. CASE v = <<>>
  BY <1>2, <1>3, StepsOfNothing
<1>4. CASE v # <<>>
  <2> HIDE DEF v
  <2>1. Len(v) \in Nat /\ Len(v) # 0 /\ DOMAIN v = 1..Len(v)
    BY <1>1, <1>4, EmptySeq, LenProperties
  <2>2. 1 \in DOMAIN v /\ Len(v) \in DOMAIN v
    BY <2>1
  <2>3. top \in Differences
    BY <2>2
  <2>4. ASSUME NEW i \in DOMAIN v
        PROVE  v[i] \in Nat /\ v[1] <= v[i] /\ v[i] <= v[Len(v)] /\ v[1] \in Nat /\ v[Len(v)] \in Nat
    <3>1. i \in 1..Len(v) /\ 1 \in 1..Len(v) /\ Len(v) \in 1..Len(v) /\ 1 <= i /\ i <= Len(v)
      BY <2>1
    <3> QED BY <1>1, <3>1, ElementOfSeq
  <2>5. ASSUME NEW i \in DOMAIN v, NEW j \in DOMAIN v
        PROVE  v[i] - v[j] <= top /\ v[i] - v[j] \in Int
    BY <2>4
  <2>6. Bound(top)
    BY <2>5
  <2> DEFINE chosen == CHOOSE d \in Differences : Bound(d)
  <2>7. chosen \in Differences /\ Bound(chosen)
    <3> HIDE DEF Differences, Bound, top
    <3>1. \E d \in Differences : Bound(d)
      BY <2>3, <2>6
    <3> QED BY <3>1
  <2> HIDE DEF chosen
  <2>8. PICK a \in DOMAIN v, b \in DOMAIN v : chosen = v[a] - v[b]
    BY <2>7
  <2>9. chosen <= top /\ chosen \in Int
    BY <2>5, <2>8
  <2>10. top <= chosen /\ top \in Int
    BY <2>2, <2>4, <2>7
  <2>11. chosen = top
    <3> HIDE DEF top
    <3> QED BY <2>9, <2>10
  <2>12. \A i \in 2..Len(v) : v[i - 1] <= v[i]
    <3>1. \A i \in 2..Len(v) : i \in 1..Len(v) /\ i - 1 \in 1..Len(v) /\ i - 1 <= i
      BY <2>1
    <3> QED BY <1>1, <3>1
  <2>13. Steps(v, r) = top
    BY <1>1, <1>4, <2>12, StepsRising
  <2> QED BY <1>2, <1>4, <2>11, <2>13 DEF chosen
<1> QED BY <1>3, <1>4

-----------------------------------------------------------------------------
(* The counters and the work behind them                                   *)

\* An entry that is not there counts nothing.
Value(x) == IF x = Absent THEN 0 ELSE x

\* Counter c2 at work d2, read after c at work d: it went up by no more than
\* the work in between; one that went down was cleared in between and counts
\* only work done since; one never cleared counts all of it.
Follows(c, d, c2, d2, exact) ==
  /\ d <= d2
  /\ c2 - c <= d2 - d
  /\ c2 < c => c2 <= d2 - d
  /\ exact => c2 - c = d2 - d

ValueIn(t, e) == Value(samples[t].read[e])

\* Every sample against the counters now.
SamplesFollowed ==
  \A t \in DOMAIN samples : \A e \in Entry :
    Follows(ValueIn(t, e), samples[t].done[e], counter[e], done[e], intact)

\* Every sample against the later ones.
SamplesInOrder ==
  \A s, t \in DOMAIN samples : s < t => \A e \in Entry :
    Follows(ValueIn(s, e), samples[s].done[e],
            ValueIn(t, e), samples[t].done[e], intact)

CountersInv == TypeOK /\ SamplesFollowed /\ SamplesInOrder

\* Before the first sample.
LEMMA InitCounters == Init => CountersInv
<1> SUFFICES ASSUME Init PROVE CountersInv
  OBVIOUS
<1>1. counter \in [Entry -> Nat] /\ \A e \in Entry \ tracked : counter[e] = 0
  BY ConstantsAssumption DEF Init
<1>2. Len(samples) = 0 /\ DOMAIN samples = {} /\ samples \in Seq(Sample)
  BY DEF Init
<1>3. copies \in [DOMAIN samples -> 0..2]
  BY <1>2 DEF Init
<1> QED BY <1>1, <1>2, <1>3 DEF Init, CountersInv, TypeOK, SamplesFollowed, SamplesInOrder

\* Steps that take no sample keep the order.
LEMMA SameSamples ==
  ASSUME CountersInv, samples' = samples, intact' => intact
  PROVE  SamplesInOrder'
<1>1. \A t, e : ValueIn(t, e)' = ValueIn(t, e)
  BY DEF ValueIn
<1> QED BY <1>1 DEF CountersInv, SamplesInOrder, Follows

\* What a sample holds.
LEMMA SamplesTyped ==
  ASSUME TypeOK, NEW t \in DOMAIN samples, NEW e \in Entry
  PROVE  /\ ValueIn(t, e) \in Nat /\ samples[t].done[e] \in Nat
         /\ samples[t].read[e] \in Nat \cup {Absent}
         /\ samples[t] \in Sample
<1>1. samples[t] \in Sample
  BY LenProperties, ElementOfSeq DEF TypeOK
<1>2. samples[t].read[e] \in Nat \cup {Absent} /\ samples[t].done[e] \in Nat
  BY <1>1 DEF Sample
<1> QED BY <1>1, <1>2 DEF ValueIn, Value

\* Every step keeps the types and the size of pg_stat_statements.
LEMMA NextTypes == CountersInv /\ Next => TypeOK'
<1> SUFFICES ASSUME CountersInv, Next PROVE TypeOK'
  OBVIOUS
<1> USE ConstantsAssumption
<1>1. IsFiniteSet(tracked)
  BY FS_Subset DEF CountersInv, TypeOK
<1>2. Cardinality(tracked) \in Nat
  BY <1>1, FS_CardinalityType
<1>3. ASSUME NEW e \in Entry, Execute(e) PROVE TypeOK'
  <2>1. Cardinality(tracked') <= MaxEntries
    <3>1. CASE e \in tracked
      <4>1. tracked' = tracked
        BY <1>3, <3>1 DEF Execute
      <4> QED BY <4>1 DEF CountersInv, TypeOK
    <3>2. CASE e \notin tracked
      <4>1. Cardinality(tracked) < MaxEntries /\ tracked' = tracked \cup {e}
        BY <1>3, <3>2 DEF Execute
      <4>2. Cardinality(tracked') = Cardinality(tracked) + 1
        BY <1>1, <3>2, <4>1, FS_AddElement
      <4> QED BY <1>2, <4>1, <4>2
    <3> QED BY <3>1, <3>2
  <2>2. /\ counter' \in [Entry -> Nat] /\ done' \in [Entry -> Nat]
        /\ \A x \in Entry \ tracked' : counter'[x] = 0
    BY <1>3 DEF Execute, CountersInv, TypeOK
  <2> QED BY <1>3, <2>1, <2>2 DEF Execute, CountersInv, TypeOK
<1>4. ASSUME NEW e \in Entry, ExecuteAfterEviction(e) PROVE TypeOK'
  <2>1. PICK f \in tracked :
          /\ tracked' = (tracked \ {f}) \cup {e}
          /\ counter' = [counter EXCEPT ![f] = 0, ![e] = 1]
    BY <1>4 DEF ExecuteAfterEviction
  <2>2. e \notin tracked /\ Cardinality(tracked) = MaxEntries
    BY <1>4 DEF ExecuteAfterEviction
  <2>3. Cardinality(tracked') <= MaxEntries
    <3>1. Cardinality(tracked \ {f}) = Cardinality(tracked) - 1 /\ IsFiniteSet(tracked \ {f})
      BY <1>1, FS_RemoveElement
    <3>2. Cardinality((tracked \ {f}) \cup {e}) = Cardinality(tracked \ {f}) + 1
      BY <2>2, <3>1, FS_AddElement
    <3> QED BY <1>2, <2>1, <2>2, <3>1, <3>2
  <2>4. /\ counter' \in [Entry -> Nat] /\ done' \in [Entry -> Nat]
        /\ \A x \in Entry \ tracked' : counter'[x] = 0
    BY <1>4, <2>1 DEF ExecuteAfterEviction, CountersInv, TypeOK
  <2> QED BY <1>4, <2>1, <2>3, <2>4 DEF ExecuteAfterEviction, CountersInv, TypeOK
<1>5. CASE Reset
  <2>1. Cardinality({}) = 0
    BY FS_EmptySet
  <2> QED BY <1>5, <2>1 DEF Reset, CountersInv, TypeOK
<1>6. CASE TakeSample
  <2>1. PICK x : /\ samples' = Append(samples, x) /\ x \in Sample
    <3> DEFINE masks == {MaskOf[e] : e \in tracked}
               maskSum == [k \in Mask |-> Sum(counter, tracked \cap EntriesOf(k))]
    <3>1. PICK T \in Tops(tracked, counter), M \in Tops(masks, maskSum) :
            samples' = Append(samples,
              [read |-> [e \in Entry |-> IF e \in tracked THEN counter[e] ELSE Absent],
               top |-> T, topMasks |-> M, done |-> done])
      BY <1>6 DEF TakeSample
    <3> HIDE DEF maskSum
    <3>2. T \subseteq Entry
      BY DEF Tops, CountersInv, TypeOK
    <3>3. M \subseteq Mask
      BY DEF Tops, CountersInv, TypeOK
    <3>4. [e \in Entry |-> IF e \in tracked THEN counter[e] ELSE Absent] \in [Entry -> Nat \cup {Absent}]
      BY DEF CountersInv, TypeOK
    <3>5. done \in [Entry -> Nat]
      BY DEF CountersInv, TypeOK
    <3> DEFINE read == [e \in Entry |-> IF e \in tracked THEN counter[e] ELSE Absent]
               x == [read |-> read, top |-> T, topMasks |-> M, done |-> done]
    <3>6. x \in Sample
      <4> HIDE DEF read
      <4> QED BY <3>2, <3>3, <3>4, <3>5 DEF Sample, read
    <3>7. samples' = Append(samples, x)
      BY <3>1
    <3> HIDE DEF x
    <3> QED BY <3>6, <3>7
  <2>2. samples' \in Seq(Sample) /\ Len(samples') = Len(samples) + 1 /\ Len(samples) \in Nat
    BY <2>1, LenProperties, AppendProperties DEF CountersInv, TypeOK
  <2>3. copies' \in [DOMAIN samples' -> 0..2]
    <3>1. DOMAIN samples = 1..Len(samples) /\ DOMAIN samples' = 1..(Len(samples) + 1)
      BY <2>2, LenProperties DEF CountersInv, TypeOK
    <3>2. copies \in Seq(0..2) /\ Len(copies) = Len(samples)
      BY <2>2, <3>1 DEF CountersInv, TypeOK
    <3>3. copies' = Append(copies, 0) /\ 0 \in 0..2
      BY <1>6 DEF TakeSample
    <3>4. copies' \in Seq(0..2) /\ Len(copies') = Len(samples) + 1
      BY <2>2, <3>2, <3>3, AppendProperties
    <3> QED BY <3>1, <3>4, LenProperties
  <2> QED BY <1>6, <2>2, <2>3 DEF TakeSample, CountersInv, TypeOK
<1>7. ASSUME NEW t \in DOMAIN samples, Deliver(t) PROVE TypeOK'
  <2>1. copies[t] \in 0..1 /\ copies' = [copies EXCEPT ![t] = copies[t] + 1]
    BY <1>7 DEF Deliver, CountersInv, TypeOK
  <2>2. copies' \in [DOMAIN samples -> 0..2]
    <3>1. copies[t] + 1 \in 0..2
      BY <2>1
    <3> QED BY <2>1, <3>1 DEF CountersInv, TypeOK
  <2> QED BY <1>7, <2>2 DEF Deliver, CountersInv, TypeOK
<1> QED BY <1>3, <1>4, <1>5, <1>6, <1>7 DEF Next

\* Every step keeps the samples in line with the counters.
LEMMA NextCounters == CountersInv /\ [Next]_vars => CountersInv'
<1> SUFFICES ASSUME CountersInv, [Next]_vars PROVE CountersInv'
  OBVIOUS
<1> USE ConstantsAssumption
<1>0. \A t, e : samples' = samples => ValueIn(t, e)' = ValueIn(t, e)
  BY DEF ValueIn
<1>1. CASE UNCHANGED vars
  BY <1>1, <1>0 DEF vars, CountersInv, TypeOK, SamplesFollowed, SamplesInOrder
<1>2. CASE Next
  <2>0. TypeOK'
    BY <1>2, NextTypes
  <2>1. ASSUME NEW t \in DOMAIN samples, NEW e \in Entry
        PROVE  /\ ValueIn(t, e) \in Nat /\ samples[t].done[e] \in Nat
               /\ counter[e] \in Nat /\ done[e] \in Nat
               /\ Follows(ValueIn(t, e), samples[t].done[e], counter[e], done[e], intact)
    BY SamplesTyped DEF CountersInv, TypeOK, SamplesFollowed
  <2>2. ASSUME NEW e \in Entry, Execute(e) PROVE CountersInv'
    <3>1. ASSUME NEW t \in DOMAIN samples, NEW x \in Entry
          PROVE  Follows(ValueIn(t, x), samples[t].done[x], counter'[x], done'[x], intact')
      <4>1. CASE x = e
        <5>1. counter'[x] = counter[x] + 1 /\ done'[x] = done[x] + 1 /\ intact' = intact
          BY <2>2, <4>1 DEF Execute, CountersInv, TypeOK
        <5> QED BY <2>1, <5>1 DEF Follows
      <4>2. CASE x # e
        <5>1. counter'[x] = counter[x] /\ done'[x] = done[x] /\ intact' = intact
          BY <2>2, <4>2 DEF Execute, CountersInv, TypeOK
        <5> QED BY <2>1, <5>1 DEF Follows
      <4> QED BY <4>1, <4>2
    <3>2. samples' = samples /\ (intact' => intact)
      BY <2>2 DEF Execute
    <3>3. SamplesFollowed'
      BY <1>0, <3>1, <3>2 DEF SamplesFollowed
    <3> QED BY <2>0, <3>2, <3>3, SameSamples DEF CountersInv
  <2>3. ASSUME NEW e \in Entry, ExecuteAfterEviction(e) PROVE CountersInv'
    <3>1. PICK f \in tracked : counter' = [counter EXCEPT ![f] = 0, ![e] = 1]
      BY <2>3 DEF ExecuteAfterEviction
    <3>2. e \notin tracked /\ counter[e] = 0 /\ e # f
      BY <2>3 DEF ExecuteAfterEviction, CountersInv, TypeOK
    <3>3. ASSUME NEW t \in DOMAIN samples, NEW x \in Entry
          PROVE  Follows(ValueIn(t, x), samples[t].done[x], counter'[x], done'[x], intact')
      <4>0. ~intact'
        <5>1. samples # <<>>
          OBVIOUS
        <5> QED BY <2>3, <5>1 DEF ExecuteAfterEviction
      <4>1. CASE x = e
        <5>1. counter'[x] = counter[x] + 1 /\ done'[x] = done[x] + 1
          BY <2>3, <3>1, <3>2, <4>1 DEF ExecuteAfterEviction, CountersInv, TypeOK
        <5> QED BY <2>1, <4>0, <5>1 DEF Follows
      <4>2. CASE x = f
        <5>1. counter'[x] = 0 /\ done'[x] = done[x]
          BY <2>3, <3>1, <3>2, <4>2 DEF ExecuteAfterEviction, CountersInv, TypeOK
        <5> QED BY <2>1, <4>0, <5>1 DEF Follows
      <4>3. CASE x # e /\ x # f
        <5>1. counter'[x] = counter[x] /\ done'[x] = done[x]
          BY <2>3, <3>1, <4>3 DEF ExecuteAfterEviction, CountersInv, TypeOK
        <5> QED BY <2>1, <4>0, <5>1 DEF Follows
      <4> QED BY <4>1, <4>2, <4>3
    <3>4. samples' = samples
      BY <2>3 DEF ExecuteAfterEviction
    <3>5. SamplesFollowed'
      BY <1>0, <3>3, <3>4 DEF SamplesFollowed
    <3>6. CASE samples = <<>>
      <4>1. DOMAIN samples = {}
        BY <3>6
      <4> QED BY <2>0, <3>4, <3>5, <4>1 DEF CountersInv, SamplesInOrder
    <3>7. CASE samples # <<>>
      <4>1. ~intact'
        BY <2>3, <3>7 DEF ExecuteAfterEviction
      <4> QED BY <2>0, <3>4, <3>5, <4>1, SameSamples DEF CountersInv
    <3> QED BY <3>6, <3>7
  <2>4. CASE Reset
    <3>1. samples' = samples /\ done' = done /\ \A x \in Entry : counter'[x] = 0
      BY <2>4 DEF Reset
    <3>2. ASSUME NEW t \in DOMAIN samples, NEW x \in Entry
          PROVE  Follows(ValueIn(t, x), samples[t].done[x], counter'[x], done'[x], intact')
      <4>1. ~intact'
        <5>1. samples # <<>>
          OBVIOUS
        <5> QED BY <2>4, <5>1 DEF Reset
      <4> QED BY <2>1, <3>1, <4>1 DEF Follows
    <3>3. SamplesFollowed'
      BY <1>0, <3>1, <3>2 DEF SamplesFollowed
    <3>4. CASE samples = <<>>
      <4>1. DOMAIN samples = {}
        BY <3>4
      <4> QED BY <2>0, <3>1, <3>3, <4>1 DEF CountersInv, SamplesInOrder
    <3>5. CASE samples # <<>>
      <4>1. ~intact'
        BY <2>4, <3>5 DEF Reset
      <4> QED BY <2>0, <3>1, <3>3, <4>1, SameSamples DEF CountersInv
    <3> QED BY <3>4, <3>5
  <2>5. CASE TakeSample
    <3> DEFINE n == Len(samples)
    <3>0. PICK T \in SUBSET tracked : \E M :
            samples' = Append(samples,
              [read |-> [e \in Entry |-> IF e \in tracked THEN counter[e] ELSE Absent],
               top |-> T, topMasks |-> M, done |-> done])
      BY <2>5 DEF TakeSample, Tops
    <3>1. PICK M :
            samples' = Append(samples,
              [read |-> [e \in Entry |-> IF e \in tracked THEN counter[e] ELSE Absent],
               top |-> T, topMasks |-> M, done |-> done])
      BY <3>0
    <3>2. n \in Nat /\ DOMAIN samples = 1..n /\ samples \in Seq(Sample)
      BY LenProperties DEF CountersInv, TypeOK
    <3>3. DOMAIN samples' = 1..(n + 1) /\ \A t \in 1..n : samples'[t] = samples[t]
      BY <3>1, <3>2
    <3>4. /\ samples'[n + 1].read = [e \in Entry |-> IF e \in tracked THEN counter[e] ELSE Absent]
          /\ samples'[n + 1].top = T /\ samples'[n + 1].done = done
      BY <3>1, <3>2
    <3>5. ASSUME NEW e \in Entry PROVE Value(samples'[n + 1].read[e]) = counter[e]
      <4>1. counter[e] \in Nat /\ (e \notin tracked => counter[e] = 0)
        BY DEF CountersInv, TypeOK
      <4>2. samples'[n + 1].read[e] = IF e \in tracked THEN counter[e] ELSE Absent
        BY <3>4
      <4> QED BY <4>1, <4>2 DEF Value, Absent
    <3>6. counter' = counter /\ done' = done /\ intact' = intact
      BY <2>5 DEF TakeSample
    <3>7. \A t \in 1..(n + 1) : t \in 1..n \/ t = n + 1
      BY <3>2
    <3>8. ASSUME NEW t \in 1..n, NEW e \in Entry
          PROVE  Follows(Value(samples[t].read[e]), samples[t].done[e], counter[e], done[e], intact)
      BY <2>1, <3>2 DEF ValueIn
    <3>9. SamplesFollowed'
      <4> SUFFICES ASSUME NEW t \in 1..(n + 1), NEW e \in Entry
                   PROVE  Follows(Value(samples'[t].read[e]), samples'[t].done[e],
                                  counter[e], done[e], intact)
        BY <3>3, <3>6 DEF SamplesFollowed, ValueIn
      <4>1. CASE t \in 1..n
        BY <3>3, <3>8, <4>1
      <4>2. CASE t = n + 1
        <5>1. counter[e] \in Nat /\ done[e] \in Nat
          BY DEF CountersInv, TypeOK
        <5>2. Follows(counter[e], done[e], counter[e], done[e], intact)
          BY <5>1 DEF Follows
        <5> QED BY <3>4, <3>5, <4>2, <5>2
      <4> QED BY <3>7, <4>1, <4>2
    <3>10. SamplesInOrder'
      <4> SUFFICES ASSUME NEW s \in 1..(n + 1), NEW t \in 1..(n + 1), s < t, NEW e \in Entry
                   PROVE  Follows(Value(samples'[s].read[e]), samples'[s].done[e],
                                  Value(samples'[t].read[e]), samples'[t].done[e], intact)
        BY <3>3, <3>6 DEF SamplesInOrder, ValueIn
      <4>1. s \in 1..n
        BY <3>2
      <4>2. CASE t \in 1..n
        <5>1. Follows(Value(samples[s].read[e]), samples[s].done[e],
                      Value(samples[t].read[e]), samples[t].done[e], intact)
          BY <3>2, <4>1, <4>2 DEF CountersInv, SamplesInOrder, ValueIn
        <5> QED BY <3>3, <4>1, <4>2, <5>1
      <4>3. CASE t = n + 1
        <5>1. samples'[s] = samples[s]
          BY <3>3, <4>1
        <5>2. Value(samples'[t].read[e]) = counter[e] /\ samples'[t].done[e] = done[e]
          BY <3>4, <3>5, <4>3
        <5> QED BY <3>8, <4>1, <5>1, <5>2
      <4> QED BY <3>7, <4>2, <4>3
    <3> QED BY <2>0, <3>9, <3>10 DEF CountersInv
  <2>6. ASSUME NEW t \in DOMAIN samples, Deliver(t) PROVE CountersInv'
    <3>1. UNCHANGED <<tracked, counter, done, samples, intact>>
      BY <2>6 DEF Deliver
    <3>2. SamplesFollowed'
      BY <1>0, <3>1 DEF CountersInv, SamplesFollowed
    <3> QED BY <2>0, <3>1, <3>2, SameSamples DEF CountersInv
  <2> QED BY <1>2, <2>2, <2>3, <2>4, <2>5, <2>6 DEF Next
<1> QED BY <1>1, <1>2

\* A counter read later is ahead of one read earlier by at most the work in
\* between, through every eviction, return and reset.
THEOREM CountersInvariant == Spec => []CountersInv
BY InitCounters, NextCounters, PTL DEF Spec

-----------------------------------------------------------------------------
(* The series of the samples, each backed by the work of its entries       *)

WorkDone(S) == [t \in DOMAIN samples |-> Sum(samples[t].done, S)]
Values(t) == [e \in Entry |-> ValueIn(t, e)]

\* What samples and rows there are.
LEMMA SamplesAre ==
  ASSUME TypeOK
  PROVE  /\ Len(samples) \in Nat /\ DOMAIN samples = 1..Len(samples)
         /\ copies \in [1..Len(samples) -> 0..2]
BY LenProperties DEF TypeOK

\* Sums of follow-ups follow.
LEMMA SumFollows ==
  ASSUME CountersInv, NEW S \in SUBSET Entry,
         NEW s \in DOMAIN samples, NEW t \in DOMAIN samples, s < t
  PROVE  /\ Sum(Values(s), S) \in Int /\ Sum(Values(t), S) \in Int
         /\ WorkDone(S)[s] \in Int /\ WorkDone(S)[t] \in Int
         /\ WorkDone(S)[s] <= WorkDone(S)[t]
         /\ Sum(Values(t), S) - Sum(Values(s), S) <= WorkDone(S)[t] - WorkDone(S)[s]
         /\ intact => Sum(Values(t), S) - Sum(Values(s), S) = WorkDone(S)[t] - WorkDone(S)[s]
<1> DEFINE c == Values(s)
           c2 == Values(t)
           d == samples[s].done
           d2 == samples[t].done
           cDiff == [e \in S |-> c2[e] - c[e]]
           dDiff == [e \in S |-> d2[e] - d[e]]
<1>1. IsFiniteSet(S)
  BY ConstantsAssumption, FS_Subset
<1>2. ASSUME NEW e \in S
      PROVE  /\ c[e] \in Nat /\ c2[e] \in Nat /\ d[e] \in Nat /\ d2[e] \in Nat
             /\ Follows(c[e], d[e], c2[e], d2[e], intact)
  <2>1. e \in Entry
    OBVIOUS
  <2>2. c[e] = ValueIn(s, e) /\ c2[e] = ValueIn(t, e)
    BY <2>1 DEF Values
  <2>3. ValueIn(s, e) \in Nat /\ ValueIn(t, e) \in Nat /\ d[e] \in Nat /\ d2[e] \in Nat
    BY <2>1, SamplesTyped DEF CountersInv
  <2>4. Follows(ValueIn(s, e), d[e], ValueIn(t, e), d2[e], intact)
    BY <2>1 DEF CountersInv, SamplesInOrder
  <2> QED BY <2>2, <2>3, <2>4
<1>3. \A e \in S : cDiff[e] = c2[e] - c[e] /\ dDiff[e] = d2[e] - d[e]
  OBVIOUS
<1>4. WorkDone(S)[s] = SumFunctionOnSet(d, S) /\ WorkDone(S)[t] = SumFunctionOnSet(d2, S)
  BY DEF WorkDone, Sum
<1>5. Sum(Values(s), S) = SumFunctionOnSet(c, S) /\ Sum(Values(t), S) = SumFunctionOnSet(c2, S)
  BY DEF Sum
<1> HIDE DEF c, c2, d, d2, cDiff, dDiff
<1>6. /\ SumFunctionOnSet(c, S) \in Int /\ SumFunctionOnSet(c2, S) \in Int
      /\ SumFunctionOnSet(d, S) \in Int /\ SumFunctionOnSet(d2, S) \in Int
  <2>1. \A e \in S : c[e] \in Int /\ c2[e] \in Int /\ d[e] \in Int /\ d2[e] \in Int
    BY <1>2
  <2> QED BY <1>1, <2>1, SumInt
<1>7. SumFunctionOnSet(d, S) <= SumFunctionOnSet(d2, S)
  <2>1. \A e \in S : d[e] \in Int /\ d2[e] \in Int /\ d[e] <= d2[e]
    BY <1>2 DEF Follows
  <2> QED BY <1>1, <2>1, SumLeq
<1>8. /\ SumFunctionOnSet(cDiff, S) = SumFunctionOnSet(c2, S) - SumFunctionOnSet(c, S)
      /\ SumFunctionOnSet(dDiff, S) = SumFunctionOnSet(d2, S) - SumFunctionOnSet(d, S)
  <2>1. \A e \in S : c2[e] \in Int /\ c[e] \in Int /\ cDiff[e] = c2[e] - c[e]
    BY <1>2, <1>3
  <2>2. \A e \in S : d2[e] \in Int /\ d[e] \in Int /\ dDiff[e] = d2[e] - d[e]
    BY <1>2, <1>3
  <2> QED BY <1>1, <2>1, <2>2, SumMinus
<1>9. ASSUME NEW e \in S
      PROVE  /\ cDiff[e] \in Int /\ dDiff[e] \in Int /\ cDiff[e] <= dDiff[e]
             /\ intact => cDiff[e] = dDiff[e]
  BY <1>2, <1>3 DEF Follows
<1>10. SumFunctionOnSet(cDiff, S) <= SumFunctionOnSet(dDiff, S)
  BY <1>1, <1>9, SumLeq
<1>11. ASSUME intact PROVE SumFunctionOnSet(cDiff, S) = SumFunctionOnSet(dDiff, S)
  <2>1. \A e \in S : cDiff[e] \in Int /\ dDiff[e] = cDiff[e]
    BY <1>9, <1>11
  <2>2. S \ S = {} /\ S \in SUBSET S
    OBVIOUS
  <2> QED BY <1>1, <2>1, <2>2, SumZeroes
<1> QED BY <1>4, <1>5, <1>6, <1>7, <1>8, <1>10, <1>11

\* A series that shows the sum over a group of entries.
LEMMA GroupBacked ==
  ASSUME CountersInv, NEW S \in SUBSET Entry, NEW series,
         series = [t \in DOMAIN samples |-> series[t]],
         \A t \in DOMAIN samples :
           series[t] # Absent => series[t] \in Nat /\ series[t] = Sum(Values(t), S)
  PROVE  Backed(series, WorkDone(S), Len(samples), "ignore", intact)
<1> DEFINE D == WorkDone(S)
<1>1. Len(samples) \in Nat /\ DOMAIN samples = 1..Len(samples)
  BY SamplesAre DEF CountersInv
<1>2. series \in [1..Len(samples) -> Nat \cup {Absent}]
  BY <1>1
<1>3. D \in [1..Len(samples) -> Int]
  <2>1. ASSUME NEW t \in DOMAIN samples PROVE Sum(samples[t].done, S) \in Int
    <3>1. IsFiniteSet(S)
      BY ConstantsAssumption, FS_Subset
    <3>2. \A e \in S : samples[t].done[e] \in Int
      BY SamplesTyped DEF CountersInv
    <3> QED BY <3>1, <3>2, SumInt DEF Sum
  <2> QED BY <1>1, <2>1 DEF WorkDone
<1>4. ASSUME NEW s \in 1..Len(samples), NEW t \in 1..Len(samples), s <= t,
             series[s] # Absent, series[t] # Absent
      PROVE  /\ StepOf(series[s], series[t], "ignore") <= D[t] - D[s]
             /\ intact => series[t] - series[s] = D[t] - D[s]
  <2>0. series[s] \in Nat /\ series[t] \in Nat /\ D[s] \in Int /\ D[t] \in Int
    BY <1>1, <1>3, <1>4
  <2>1. CASE s = t
    <3> HIDE DEF D
    <3> QED BY <2>0, <2>1 DEF StepOf
  <2>2. CASE s # t
    <3>1. s < t
      BY <1>1, <1>4, <2>2
    <3>2. /\ D[s] <= D[t]
          /\ Sum(Values(t), S) - Sum(Values(s), S) <= D[t] - D[s]
          /\ intact => Sum(Values(t), S) - Sum(Values(s), S) = D[t] - D[s]
      BY <1>1, <3>1, SumFollows
    <3>3. series[s] = Sum(Values(s), S) /\ series[t] = Sum(Values(t), S)
      BY <1>1, <1>4
    <3>4. /\ D[s] <= D[t] /\ series[t] - series[s] <= D[t] - D[s]
          /\ intact => series[t] - series[s] = D[t] - D[s]
      BY <3>2, <3>3
    <3> HIDE DEF D
    <3> QED BY <2>0, <3>4 DEF StepOf
  <2> QED BY <2>1, <2>2
<1> HIDE DEF D
<1> QED BY <1>2, <1>3, <1>4 DEF Backed, D

\* The entries that were read make up a sum.
LEMMA ReadSum ==
  ASSUME CountersInv, NEW t \in DOMAIN samples, NEW S \in SUBSET Entry
  PROVE  /\ Sum(samples[t].read, ReadEntries(t) \cap S) = Sum(Values(t), S)
         /\ Sum(Values(t), S) \in Nat
<1> DEFINE R == ReadEntries(t) \cap S
           c == Values(t)
           read == samples[t].read
           zero == [e \in Entry |-> 0]
<1>1. IsFiniteSet(S) /\ R \in SUBSET S
  BY ConstantsAssumption, FS_Subset
<1>2. \A e \in S : c[e] = Value(read[e]) /\ c[e] \in Nat /\ zero[e] = 0
  BY SamplesTyped DEF Values, ValueIn, CountersInv
<1>3. \A e \in R : read[e] = c[e] /\ c[e] \in Int
  BY <1>2 DEF ReadEntries, Value
<1>4. \A e \in S \ R : c[e] = 0
  BY <1>2 DEF ReadEntries, Value
<1>5. Sum(read, R) = Sum(c, S)
  <2> HIDE DEF c, R, read
  <2> QED BY <1>1, <1>3, <1>4, SumZeroes DEF Sum
<1>6. Sum(c, S) \in Nat
  <2> HIDE DEF c, zero
  <2>1. Sum(c, S) \in Int
    BY <1>1, <1>2, SumInt DEF Sum
  <2>2. SumFunctionOnSet(zero, S) <= SumFunctionOnSet(c, S)
    BY <1>1, <1>2, SumLeq
  <2>3. SumFunctionOnSet(zero, S) = SumFunctionOnSet(zero, {})
    BY <1>1, <1>2, SumZeroes
  <2>4. SumFunctionOnSet(zero, {}) = 0
    BY SumEmpty
  <2> QED BY <2>1, <2>2, <2>3, <2>4 DEF Sum
<1> QED BY <1>5, <1>6

\* cluster_stmt_totals.sql
LEMMA TotalBacked ==
  ASSUME CountersInv
  PROVE  Backed(TotalSeries, WorkDone(Entry), Len(samples), "ignore", intact)
<1>1. ASSUME NEW t \in DOMAIN samples, TotalSeries[t] # Absent
      PROVE  TotalSeries[t] \in Nat /\ TotalSeries[t] = Sum(Values(t), Entry)
  <2>1. TotalSeries[t] = Sum(samples[t].read, ReadEntries(t))
    BY <1>1 DEF TotalSeries
  <2>2. ReadEntries(t) \cap Entry = ReadEntries(t)
    BY DEF ReadEntries
  <2>3. /\ Sum(samples[t].read, ReadEntries(t) \cap Entry) = Sum(Values(t), Entry)
        /\ Sum(Values(t), Entry) \in Nat
    BY ReadSum
  <2> QED BY <2>1, <2>2, <2>3
<1>2. TotalSeries = [t \in DOMAIN samples |-> TotalSeries[t]]
  BY DEF TotalSeries
<1> QED BY <1>1, <1>2, GroupBacked

\* cluster_stmt_mask.sql: a mask that was among the top N shows all its
\* entries.
LEMMA MaskBacked ==
  ASSUME CountersInv, NEW k \in Mask
  PROVE  Backed(MaskSeries(k), WorkDone(EntriesOf(k)), Len(samples), "ignore", intact)
<1>0. EntriesOf(k) \in SUBSET Entry
  BY DEF EntriesOf
<1>1. ASSUME NEW t \in DOMAIN samples, MaskSeries(k)[t] # Absent
      PROVE  MaskSeries(k)[t] \in Nat /\ MaskSeries(k)[t] = Sum(Values(t), EntriesOf(k))
  <2>1. MaskSeries(k)[t] = Sum(samples[t].read, ReadEntries(t) \cap EntriesOf(k))
    BY <1>1 DEF MaskSeries
  <2>2. /\ Sum(samples[t].read, ReadEntries(t) \cap EntriesOf(k)) = Sum(Values(t), EntriesOf(k))
        /\ Sum(Values(t), EntriesOf(k)) \in Nat
    BY <1>0, ReadSum
  <2> QED BY <2>1, <2>2
<1>2. MaskSeries(k) = [t \in DOMAIN samples |-> MaskSeries(k)[t]]
  BY DEF MaskSeries
<1> QED BY <1>0, <1>1, <1>2, GroupBacked

\* The counter of one entry may also count from zero.
LEMMA EntryBacked ==
  ASSUME CountersInv, NEW e \in Entry
  PROVE  Backed(EntrySeries(e), WorkDone({e}), Len(samples), "value", intact)
<1> DEFINE D == WorkDone({e})
           series == EntrySeries(e)
<1>1. Len(samples) \in Nat /\ DOMAIN samples = 1..Len(samples)
  BY SamplesAre DEF CountersInv
<1>2. ASSUME NEW t \in DOMAIN samples
      PROVE  /\ series[t] \in Nat \cup {Absent}
             /\ series[t] # Absent => series[t] = ValueIn(t, e)
  <2>1. samples[t].read[e] \in Nat \cup {Absent}
    BY SamplesTyped DEF CountersInv
  <2> QED BY <2>1 DEF EntrySeries, ValueIn, Value
<1>3. ASSUME NEW t \in DOMAIN samples
      PROVE  D[t] = samples[t].done[e] /\ D[t] \in Int
  <2>1. samples[t].done[e] \in Int
    BY SamplesTyped DEF CountersInv
  <2> DEFINE f == samples[t].done
  <2>2. {e} = {} \cup {e} /\ e \notin {} /\ \A x \in {} \cup {e} : f[x] \in Int
    BY <2>1
  <2>3. SumFunctionOnSet(f, {} \cup {e}) = f[e] + SumFunctionOnSet(f, {})
    <3> HIDE DEF f
    <3> QED BY <2>2, SumAdd, FS_EmptySet
  <2>4. SumFunctionOnSet(f, {}) = 0
    BY SumEmpty
  <2>5. D[t] = SumFunctionOnSet(f, {e})
    BY DEF WorkDone, Sum
  <2> QED BY <2>1, <2>2, <2>3, <2>4, <2>5
<1>4. series \in [1..Len(samples) -> Nat \cup {Absent}]
  <2>1. series = [t \in DOMAIN samples |-> series[t]]
    BY DEF EntrySeries
  <2> HIDE DEF series
  <2> QED BY <1>1, <1>2, <2>1
<1>5. D \in [1..Len(samples) -> Int]
  <2>1. D = [t \in DOMAIN samples |-> D[t]]
    BY DEF WorkDone
  <2> HIDE DEF D
  <2> QED BY <1>1, <1>3, <2>1
<1>6. ASSUME NEW s \in 1..Len(samples), NEW t \in 1..Len(samples), s <= t,
             series[s] # Absent, series[t] # Absent
      PROVE  /\ StepOf(series[s], series[t], "value") <= D[t] - D[s]
             /\ intact => series[t] - series[s] = D[t] - D[s]
  <2>0. /\ series[s] \in Nat /\ series[t] \in Nat /\ D[s] \in Int /\ D[t] \in Int
        /\ series[s] = ValueIn(s, e) /\ series[t] = ValueIn(t, e)
        /\ D[s] = samples[s].done[e] /\ D[t] = samples[t].done[e]
    BY <1>1, <1>2, <1>3, <1>6
  <2> HIDE DEF D, series
  <2>1. CASE s = t
    BY <2>0, <2>1 DEF StepOf
  <2>2. CASE s # t
    <3>1. s < t
      BY <1>1, <1>6, <2>2
    <3>2. Follows(series[s], D[s], series[t], D[t], intact)
      BY <1>1, <2>0, <3>1 DEF CountersInv, SamplesInOrder
    <3> QED BY <2>0, <3>2 DEF Follows, StepOf
  <2> QED BY <2>1, <2>2
<1> HIDE DEF D, series
<1> QED BY <1>4, <1>5, <1>6 DEF Backed, D, series

-----------------------------------------------------------------------------
(* The theorems                                                            *)

\* pg_stat_statements never holds more than its maximum, an untracked entry
\* counts nothing, and every row is there at most twice.
THEOREM CountersTyped == Spec => []TypeOK
BY CountersInvariant, PTL DEF CountersInv

\* What a panel shows of a backed series, and what spread() shows of it.
LEMMA ShownBelowWork ==
  ASSUME CountersInv, NEW series, NEW S, NEW r,
         Backed(series, WorkDone(S), Len(samples), r, intact)
  PROVE  /\ increase(series, copies, r) <= WorkShown(series, S)
         /\ intact => increase(series, copies, r) = WorkShown(series, S)
         /\ intact => \A r2 : spread(series, copies) = increase(series, copies, r2)
<1> DEFINE ts == RowTimes(series, copies)
           D == WorkDone(S)
           v == ValuesAt(series, ts)
<1>1. Len(samples) \in Nat /\ DOMAIN samples = 1..Len(samples) /\ copies \in [1..Len(samples) -> 0..2]
  BY SamplesAre DEF CountersInv
<1>2. series \in [1..Len(samples) -> Nat \cup {Absent}]
  BY DEF Backed
<1>3. intact \in BOOLEAN
  BY DEF CountersInv, TypeOK
<1>4. /\ ts \in Seq(Nat)
      /\ \A t : Holds(ts, t) => t \in 1..Len(samples)
  BY <1>1, <1>2, RowTimesAre
<1>5. increase(series, copies, r) = Steps(v, r)
  BY DEF increase
<1>6. CASE ts = <<>>
  <2>1. v = <<>>
    BY <1>6 DEF ValuesAt
  <2>2. WorkShown(series, S) = 0
    BY <1>6 DEF WorkShown
  <2>3. \A r2 : increase(series, copies, r2) = 0
    BY <2>1, StepsOfNothing DEF increase
  <2>4. spread(series, copies) = 0
    BY <2>1 DEF spread
  <2> QED BY <2>2, <2>3, <2>4
<1>7. CASE ts # <<>>
  <2>1. /\ Steps(v, r) <= D[ts[Len(ts)]] - D[ts[1]]
        /\ intact => Steps(v, r) = D[ts[Len(ts)]] - D[ts[1]]
        /\ v \in Seq(Nat)
        /\ intact => \A i, j \in 1..Len(v) : i <= j => v[i] <= v[j]
    BY <1>1, <1>3, <1>7, RowsBacked
  <2>2. 1 \in 1..Len(ts) /\ Len(ts) \in 1..Len(ts)
    <3> HIDE DEF ts
    <3> QED BY <1>4, <1>7, EmptySeq, LenProperties
  <2>3. ts[1] \in DOMAIN samples /\ ts[Len(ts)] \in DOMAIN samples
    <3> HIDE DEF ts
    <3> QED BY <1>1, <1>4, <2>2 DEF Holds
  <2>4. WorkShown(series, S) = D[ts[Len(ts)]] - D[ts[1]]
    <3>1. WorkShown(series, S) = Sum(samples[ts[Len(ts)]].done, S) - Sum(samples[ts[1]].done, S)
      BY <1>7 DEF WorkShown
    <3> HIDE DEF ts
    <3> QED BY <2>3, <3>1 DEF WorkDone
  <2>5. ASSUME intact, NEW r2 PROVE spread(series, copies) = increase(series, copies, r2)
    BY <2>1, <2>5, SpreadRising
  <2> QED BY <1>5, <2>1, <2>4, <2>5
<1> QED BY <1>6, <1>7

\* For every set of statements, masks, sizes of pg_stat_statements and of the
\* top N, and whatever rows were lost, late or written twice: no panel of
\* increase() shows work that was not done between its first and last row.
THEOREM CountersNeverOvercount == Spec => []NeverOvercounts
<1>1. ASSUME CountersInv PROVE NeverOvercounts
  <2>1. Breakdown(copies) <= WorkShown(TotalSeries, Entry)
    BY <1>1, TotalBacked, ShownBelowWork DEF Breakdown
  <2>2. \A k \in Mask : TopMask(k, copies) <= WorkShown(MaskSeries(k), EntriesOf(k))
    BY <1>1, MaskBacked, ShownBelowWork DEF TopMask
  <2>3. \A e \in Entry : TopStatement(e, copies) <= WorkShown(EntrySeries(e), {e})
    BY <1>1, EntryBacked, ShownBelowWork DEF TopStatement
  <2> QED BY <2>1, <2>2, <2>3 DEF NeverOvercounts
<1> QED BY <1>1, CountersInvariant, PTL

\* While nothing is evicted or reset, the totals show exactly the work done
\* between their first and last row.
THEOREM CountersExact == Spec => []ExactWithoutDrops
<1>1. ASSUME CountersInv PROVE ExactWithoutDrops
  BY <1>1, TotalBacked, ShownBelowWork DEF Breakdown, ExactWithoutDrops
<1> QED BY <1>1, CountersInvariant, PTL

\* While nothing is evicted or reset, spread() of the pg-* boards and
\* increase() of the ch-* boards are one number.
THEOREM CountersBoardsAgree == Spec => []BoardsAgree
<1>1. ASSUME CountersInv PROVE BoardsAgree
  <2>1. ASSUME intact, NEW e \in Entry PROVE spread(EntrySeries(e), copies) = TopStatement(e, copies)
    BY <1>1, <2>1, EntryBacked, ShownBelowWork DEF TopStatement
  <2>2. ASSUME intact, NEW k \in Mask PROVE spread(MaskSeries(k), copies) = TopMask(k, copies)
    BY <1>1, <2>2, MaskBacked, ShownBelowWork DEF TopMask
  <2> QED BY <2>1, <2>2 DEF BoardsAgree
<1> QED BY <1>1, CountersInvariant, PTL

\* The three kinds of series.
LEMMA SeriesTyped ==
  ASSUME CountersInv
  PROVE  /\ TotalSeries \in [1..Len(samples) -> Nat \cup {Absent}]
         /\ \A k \in Mask : MaskSeries(k) \in [1..Len(samples) -> Nat \cup {Absent}]
         /\ \A e \in Entry : EntrySeries(e) \in [1..Len(samples) -> Nat \cup {Absent}]
BY TotalBacked, MaskBacked, EntryBacked DEF Backed

\* Whatever the length of a bucket, the points of a rate panel and of the
\* InfluxDB boards add up to no more than the table of the same rows.
THEOREM CountersBuckets == Spec => []BucketsBelowIncrease
<1>1. ASSUME CountersInv PROVE BucketsBelowIncrease
  <2>1. Len(samples) \in Nat /\ copies \in [1..Len(samples) -> 0..2]
    BY <1>1, SamplesAre DEF CountersInv
  <2>2. increaseInflux(TotalSeries, copies) <= Breakdown(copies)
    BY <1>1, <2>1, SeriesTyped, BucketsShowLess DEF increaseInflux, Breakdown
  <2>3. \A e \in Entry : rateTotal(EntrySeries(e), copies, "value") <= TopStatement(e, copies)
    BY <1>1, <2>1, SeriesTyped, BucketsShowLess DEF TopStatement
  <2>4. \A k \in Mask : rateTotal(MaskSeries(k), copies, "ignore") <= TopMask(k, copies)
    BY <1>1, <2>1, SeriesTyped, BucketsShowLess DEF TopMask
  <2> QED BY <2>2, <2>3, <2>4 DEF BucketsBelowIncrease
<1> QED BY <1>1, CountersInvariant, PTL

\* No step takes a row out of the store.
LEMMA RowsOnlyAdded ==
  ASSUME CountersInv, [Next]_vars, samples' = samples
  PROVE  /\ copies' \in [1..Len(samples) -> 0..2]
         /\ \A t \in 1..Len(samples) : copies[t] <= copies'[t]
<1>1. Len(samples) \in Nat /\ DOMAIN samples = 1..Len(samples) /\ copies \in [1..Len(samples) -> 0..2]
  BY SamplesAre DEF CountersInv
<1>2. copies' \in [1..Len(samples) -> 0..2]
  <2>1. TypeOK'
    BY NextCounters DEF CountersInv
  <2> QED BY <1>1, <2>1 DEF TypeOK
<1>3. CASE copies' = copies
  <2>1. \A t \in 1..Len(samples) : copies[t] <= copies[t]
    BY <1>1
  <2> QED BY <1>2, <1>3, <2>1
<1>4. ASSUME NEW t \in DOMAIN samples, Deliver(t)
      PROVE  \A u \in 1..Len(samples) : copies[u] <= copies'[u]
  BY <1>1, <1>4 DEF Deliver
<1>5. ASSUME TakeSample PROVE FALSE
  <2>1. PICK x : samples' = Append(samples, x)
    BY <1>5 DEF TakeSample
  <2>2. Len(Append(samples, x)) = Len(samples) + 1
    BY <1>1 DEF CountersInv, TypeOK
  <2> QED BY <1>1, <2>1, <2>2
<1> QED BY <1>2, <1>3, <1>4, <1>5
        DEF Next, vars, Execute, ExecuteAfterEviction, Reset

\* A row that reaches the store late or again never lowers a number that a
\* table has shown over the same samples.
THEOREM CountersLateRows == Spec => LateRowsOnlyRaise
<1>1. ASSUME CountersInv, [Next]_vars, samples' = samples
      PROVE  /\ Breakdown(copies) <= Breakdown(copies')
             /\ \A k \in Mask : TopMask(k, copies) <= TopMask(k, copies')
             /\ \A e \in Entry : TopStatement(e, copies) <= TopStatement(e, copies')
  <2>1. Len(samples) \in Nat /\ copies \in [1..Len(samples) -> 0..2]
    BY <1>1, SamplesAre DEF CountersInv
  <2>2. /\ copies' \in [1..Len(samples) -> 0..2]
        /\ \A t \in 1..Len(samples) : copies[t] <= copies'[t]
    BY <1>1, RowsOnlyAdded
  <2>3. Breakdown(copies) <= Breakdown(copies')
    BY <1>1, <2>1, <2>2, SeriesTyped, MoreCopiesMore DEF Breakdown
  <2>4. \A k \in Mask : TopMask(k, copies) <= TopMask(k, copies')
    BY <1>1, <2>1, <2>2, SeriesTyped, MoreCopiesMore DEF TopMask
  <2>5. \A e \in Entry : TopStatement(e, copies) <= TopStatement(e, copies')
    BY <1>1, <2>1, <2>2, SeriesTyped, MoreCopiesMore DEF TopStatement
  <2> QED BY <2>3, <2>4, <2>5
<1> QED BY <1>1, CountersInvariant, PTL DEF LateRowsOnlyRaise, Spec
=============================================================================
