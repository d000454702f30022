-------------------------- MODULE EnvCompareProofs --------------------------
(***************************************************************************)
(* Theorems of EnvCompare for any envs, names, bounds and TopN.            *)
(***************************************************************************)
EXTENDS EnvCompare, FoldLemmas, FiniteSetTheorems, WellFoundedInduction, TLAPS

Catalogs == UNION {[S -> Index] : S \in SUBSET Object}

\* What OnlyInIsMissingOrCut rests on: the rows of every sample in the range
\* are what ORDER BY and LIMIT leave of the catalog of its time.
Samples == {s \in [catalog : Catalogs, top : SUBSET Object, since : Happened] :
              s.top \in Tops(s.catalog)}

EnvInv ==
  /\ catalog \in [Env -> Catalogs]
  /\ pending \in [Env -> Happened]
  /\ samples \in [Env -> Seq(Samples)]
  /\ changes \in Nat

LEMMA CatalogOf ==
  ASSUME NEW S \in SUBSET Object, NEW c \in [S -> Index]
  PROVE  c \in Catalogs
BY DEF Catalogs

LEMMA DomainOfCatalog ==
  ASSUME NEW c \in Catalogs
  PROVE  DOMAIN c \in SUBSET Object /\ c \in [DOMAIN c -> Index] /\ IsFiniteSet(DOMAIN c)
<1>1. PICK S \in SUBSET Object : c \in [S -> Index]
  BY DEF Catalogs
<1>2. IsFiniteSet(S)
  BY <1>1, EnvCompareAssumption, FS_Subset
<1> QED BY <1>1, <1>2

LEMMA NewIndex ==
  ASSUME NEW u \in {0, 1}, NEW v \in {0, 1}
  PROVE  [size |-> 0, is_unique |-> u, is_valid |-> v, idx_scan |-> 0] \in Index
BY EnvCompareAssumption DEF Index

LEMMA ElementOf ==
  ASSUME NEW S, NEW s \in Seq(S), NEW n \in DOMAIN s
  PROVE  s[n] \in S
OBVIOUS

LEMMA InitInv == Init => EnvInv
<1> SUFFICES ASSUME Init PROVE EnvInv
  OBVIOUS
<1>1. Released \in Index
  BY EnvCompareAssumption DEF Index, Released
<1>2. \A S \in SUBSET Object : [o \in S |-> Released] \in Catalogs
  BY <1>1, CatalogOf
<1>3. catalog \in [Env -> Catalogs]
  BY <1>2 DEF Init
<1>4. Nothing \in Happened
  BY DEF Nothing, Happened
<1>5. <<>> \in Seq(Samples)
  OBVIOUS
<1> QED BY <1>3, <1>4, <1>5 DEF Init, EnvInv

\* Every change leaves catalogs.
LEMMA ChangeInv ==
  ASSUME EnvInv, NEW e \in Env, NEW c \in Catalogs, Change(e, c),
         pending' \in [Env -> Happened]
  PROVE  EnvInv'
<1>1. catalog' \in [Env -> Catalogs]
  BY DEF EnvInv, Change
<1>2. samples' \in [Env -> Seq(Samples)]
  BY DEF EnvInv, Change
<1>3. changes' \in Nat
  BY DEF EnvInv, Change
<1> QED BY <1>1, <1>2, <1>3 DEF EnvInv

LEMMA PendingScanned ==
  ASSUME EnvInv, NEW e \in Env, NEW S \in SUBSET Object
  PROVE  [pending EXCEPT ![e].scanned = @ \cup S] \in [Env -> Happened]
BY DEF EnvInv, Happened

LEMMA PendingRenewed ==
  ASSUME EnvInv, NEW e \in Env, NEW S \in SUBSET Object
  PROVE  [pending EXCEPT ![e].renewed = @ \cup S] \in [Env -> Happened]
BY DEF EnvInv, Happened

LEMMA NextInv == EnvInv /\ [Next]_vars => EnvInv'
<1> SUFFICES ASSUME EnvInv, [Next]_vars PROVE EnvInv'
  OBVIOUS
<1>1. CASE UNCHANGED vars
  BY <1>1 DEF vars, EnvInv
<1>2. ASSUME NEW e \in Env, NEW o \in Object, CreateIndex(e, o) PROVE EnvInv'
  <2>1. PICK u \in {0, 1}, v \in {0, 1} :
          Change(e, [x \in DOMAIN catalog[e] \cup {o} |->
            IF x = o THEN [size |-> 0, is_unique |-> u, is_valid |-> v, idx_scan |-> 0]
            ELSE catalog[e][x]])
    BY <1>2 DEF CreateIndex
  <2>2. catalog[e] \in Catalogs
    BY DEF EnvInv
  <2> DEFINE new == [x \in DOMAIN catalog[e] \cup {o} |->
            IF x = o THEN [size |-> 0, is_unique |-> u, is_valid |-> v, idx_scan |-> 0]
            ELSE catalog[e][x]]
  <2>3. new \in [DOMAIN catalog[e] \cup {o} -> Index]
    BY <2>2, DomainOfCatalog, NewIndex
  <2>4. new \in Catalogs
    BY <2>2, <2>3, DomainOfCatalog, CatalogOf
  <2>5. pending' \in [Env -> Happened]
    BY <1>2 DEF CreateIndex, EnvInv
  <2> QED BY <2>1, <2>4, <2>5, ChangeInv
<1>3. ASSUME NEW e \in Env, NEW o \in Object, DropIndex(e, o) PROVE EnvInv'
  <2> DEFINE new == [x \in DOMAIN catalog[e] \ {o} |-> catalog[e][x]]
  <2>1. catalog[e] \in Catalogs
    BY DEF EnvInv
  <2>2. new \in Catalogs
    <3>1. new \in [DOMAIN catalog[e] \ {o} -> Index]
      BY <2>1, DomainOfCatalog
    <3> QED BY <2>1, <3>1, DomainOfCatalog, CatalogOf
  <2>3. pending' \in [Env -> Happened]
    BY <1>3, PendingRenewed DEF DropIndex
  <2>4. Change(e, new)
    BY <1>3 DEF DropIndex
  <2> QED BY <2>2, <2>3, <2>4, ChangeInv
<1>4. ASSUME NEW e \in Env, NEW o \in Object, FinishBuild(e, o) PROVE EnvInv'
  <2> DEFINE new == [catalog[e] EXCEPT ![o].is_valid = 1]
  <2>1. catalog[e] \in Catalogs
    BY DEF EnvInv
  <2>2. new \in [DOMAIN catalog[e] -> Index]
    BY <1>4, <2>1, DomainOfCatalog DEF FinishBuild, Index
  <2>3. new \in Catalogs
    BY <2>1, <2>2, DomainOfCatalog, CatalogOf
  <2>4. Change(e, new) /\ pending' \in [Env -> Happened]
    BY <1>4 DEF FinishBuild, EnvInv
  <2> QED BY <2>3, <2>4, ChangeInv
<1>5. ASSUME NEW e \in Env, NEW o \in Object, Grow(e, o) PROVE EnvInv'
  <2> DEFINE new == [catalog[e] EXCEPT ![o].size = @ + 1]
  <2>1. catalog[e] \in Catalogs
    BY DEF EnvInv
  <2>2. new \in [DOMAIN catalog[e] -> Index]
    BY <1>5, <2>1, DomainOfCatalog, EnvCompareAssumption DEF Grow, Index
  <2>3. new \in Catalogs
    BY <2>1, <2>2, DomainOfCatalog, CatalogOf
  <2>4. Change(e, new) /\ pending' \in [Env -> Happened]
    BY <1>5 DEF Grow, EnvInv
  <2> QED BY <2>3, <2>4, ChangeInv
<1>6. ASSUME NEW e \in Env, NEW o \in Object, UseIndex(e, o) PROVE EnvInv'
  <2> DEFINE new == [catalog[e] EXCEPT ![o].idx_scan = @ + 1]
  <2>1. catalog[e] \in Catalogs
    BY DEF EnvInv
  <2>2. new \in [DOMAIN catalog[e] -> Index]
    BY <1>6, <2>1, DomainOfCatalog DEF UseIndex, Index
  <2>3. new \in Catalogs
    BY <2>1, <2>2, DomainOfCatalog, CatalogOf
  <2>4. pending' \in [Env -> Happened]
    BY <1>6, PendingScanned DEF UseIndex
  <2>5. Change(e, new)
    BY <1>6 DEF UseIndex
  <2> QED BY <2>3, <2>4, <2>5, ChangeInv
<1>7. ASSUME NEW e \in Env, ResetStatistics(e) PROVE EnvInv'
  <2> DEFINE new == [o \in DOMAIN catalog[e] |-> [catalog[e][o] EXCEPT !.idx_scan = 0]]
  <2>1. catalog[e] \in Catalogs
    BY DEF EnvInv
  <2>2. new \in [DOMAIN catalog[e] -> Index]
    BY <2>1, DomainOfCatalog DEF Index
  <2>3. new \in Catalogs
    BY <2>1, <2>2, DomainOfCatalog, CatalogOf
  <2>4. pending' \in [Env -> Happened]
    BY <1>7, <2>1, DomainOfCatalog, PendingRenewed DEF ResetStatistics
  <2>5. Change(e, new)
    BY <1>7 DEF ResetStatistics
  <2> QED BY <2>3, <2>4, <2>5, ChangeInv
<1>8. ASSUME NEW e \in Env, TakeSample(e) PROVE EnvInv'
  <2>1. PICK T \in Tops(catalog[e]) :
          samples' = [samples EXCEPT ![e] =
                        Append(@, [catalog |-> catalog[e], top |-> T, since |-> pending[e]])]
    BY <1>8 DEF TakeSample
  <2> DEFINE s == [catalog |-> catalog[e], top |-> T, since |-> pending[e]]
  <2>2. catalog[e] \in Catalogs /\ pending[e] \in Happened /\ samples[e] \in Seq(Samples)
    BY DEF EnvInv
  <2>3. T \in SUBSET Object
    BY <2>2, DomainOfCatalog DEF Tops
  <2>4. s \in Samples
    BY <2>2, <2>3 DEF Samples
  <2>5. Append(samples[e], s) \in Seq(Samples)
    BY <2>2, <2>4
  <2>6. samples' \in [Env -> Seq(Samples)]
    BY <2>1, <2>5 DEF EnvInv
  <2>7. pending' \in [Env -> Happened]
    BY <1>8 DEF TakeSample, EnvInv, Nothing, Happened
  <2> QED BY <1>8, <2>6, <2>7 DEF TakeSample, EnvInv
<1>9. ASSUME NEW e \in Env, MoveRange(e) PROVE EnvInv'
  <2>1. samples[e] \in Seq(Samples) /\ samples[e] # <<>>
    BY <1>9 DEF EnvInv, MoveRange
  <2>2. Tail(samples[e]) \in Seq(Samples)
    BY <2>1
  <2>3. samples' \in [Env -> Seq(Samples)]
    BY <1>9, <2>2 DEF EnvInv, MoveRange
  <2> QED BY <1>9, <2>3 DEF EnvInv, MoveRange
<1> QED BY <1>1, <1>2, <1>3, <1>4, <1>5, <1>6, <1>7, <1>8, <1>9 DEF Next

\* The rows of every sample are those of the largest indexes of its time.
THEOREM EnvInvariant == Spec => []EnvInv
<1>1. Init => EnvInv
  BY InitInv
<1>2. EnvInv /\ [Next]_vars => EnvInv'
  BY NextInv
<1> QED BY <1>1, <1>2, PTL DEF Spec

-----------------------------------------------------------------------------
LEMMA SampleOf ==
  ASSUME EnvInv, NEW e \in Env, NEW i \in DOMAIN samples[e]
  PROVE  /\ samples[e][i] \in Samples
         /\ samples[e][i].catalog \in Catalogs
         /\ samples[e][i].top \in Tops(samples[e][i].catalog)
         /\ samples[e][i].since \in Happened
<1>1. samples[e] \in Seq(Samples)
  BY DEF EnvInv
<1>2. samples[e][i] \in Samples
  BY <1>1, ElementOf
<1> QED BY <1>2 DEF Samples

\* LIMIT: what is kept of a catalog is at most TopN rows, and is either all of
\* it or TopN rows.
LEMMA TopsCut ==
  ASSUME NEW c \in Catalogs, NEW T \in Tops(c)
  PROVE  /\ T \subseteq DOMAIN c /\ IsFiniteSet(T)
         /\ Cardinality(T) \in Nat /\ Cardinality(T) <= TopN
         /\ T = DOMAIN c \/ Cardinality(T) = TopN
<1>1. IsFiniteSet(DOMAIN c) /\ T \in SUBSET DOMAIN c
  BY DomainOfCatalog DEF Tops
<1>2. /\ IsFiniteSet(T) /\ Cardinality(T) \in Nat /\ Cardinality(DOMAIN c) \in Nat
      /\ Cardinality(DOMAIN c) = Cardinality(T) => DOMAIN c = T
  BY <1>1, FS_Subset, FS_CardinalityType
<1>3. Cardinality(T) = IF Cardinality(DOMAIN c) < TopN THEN Cardinality(DOMAIN c) ELSE TopN
  BY DEF Tops
<1>4. TopN \in Nat
  BY EnvCompareAssumption
<1> QED BY <1>1, <1>2, <1>3, <1>4

\* Types of the state, and no more than TopN rows in any sample.
THEOREM EnvTyped == Spec => []EnvTypeOK
<1>1. EnvInv => EnvTypeOK
  <2> SUFFICES ASSUME EnvInv PROVE EnvTypeOK
    OBVIOUS
  <2>1. \A e \in Env : IsCatalog(catalog[e])
    BY DomainOfCatalog DEF EnvInv, IsCatalog
  <2>2. ASSUME NEW e \in Env, NEW i \in DOMAIN samples[e]
        PROVE  IsSample(samples[e][i])
    <3>1. DOMAIN samples[e][i] = {"catalog", "top", "since"}
      BY SampleOf DEF Samples
    <3>2. IsCatalog(samples[e][i].catalog)
      BY SampleOf, DomainOfCatalog DEF IsCatalog
    <3> QED BY <3>1, <3>2, SampleOf, TopsCut DEF IsSample
  <2>3. \A e \in Env : DOMAIN samples[e] = 1..Len(samples[e])
    BY DEF EnvInv
  <2> QED BY <2>1, <2>2, <2>3 DEF EnvTypeOK, EnvInv
<1> QED BY <1>1, EnvInvariant, PTL

\* An object that only env A shows is not in env B, or B has TopN others at
\* least as large.
THEOREM OnlyInExplained == Spec => []OnlyInIsMissingOrCut
<1>1. EnvInv => OnlyInIsMissingOrCut
  <2> SUFFICES ASSUME EnvInv, NEW A \in Env, NEW B \in Env,
                      NEW o \in ch_only_in(A, B) \cup influx_only_in(A, B),
                      NEW i \in DOMAIN samples[B],
                      o \in DOMAIN samples[B][i].catalog
               PROVE  Cardinality({x \in DOMAIN samples[B][i].catalog \ {o} :
                        samples[B][i].catalog[x].size >= samples[B][i].catalog[o].size}) >= TopN
    BY DEF OnlyInIsMissingOrCut
  <2> DEFINE there == samples[B][i].catalog
             T == samples[B][i].top
             larger == {x \in DOMAIN there \ {o} : there[x].size >= there[o].size}
  <2>1. o \notin Seen(B)
    BY DEF ch_only_in, pair_of, influx_only_in, FilterNull, IsNull
  <2>2. o \notin T
    BY <2>1 DEF Seen
  <2>3. there \in Catalogs /\ T \in Tops(there)
    BY SampleOf
  <2>4. /\ T \subseteq DOMAIN there /\ IsFiniteSet(T) /\ Cardinality(T) = TopN
        /\ Cardinality(T) \in Nat
    BY <2>2, <2>3, TopsCut
  <2>5. T \subseteq larger
    BY <2>2, <2>3, <2>4 DEF Tops
  <2>6. IsFiniteSet(larger)
    BY <2>3, DomainOfCatalog, FS_Subset
  <2>7. Cardinality(T) <= Cardinality(larger)
    BY <2>5, <2>6, FS_Subset
  <2> QED BY <2>4, <2>6, <2>7, FS_CardinalityType, EnvCompareAssumption
<1> QED BY <1>1, EnvInvariant, PTL

-----------------------------------------------------------------------------
\* What the panels are, without the detour over null columns and counts.
LEMMA PanelsOf ==
  ASSUME NEW A, NEW B
  PROVE  /\ influx_only_in(A, B) = IF Seen(B) = {} THEN {} ELSE Seen(A) \ Seen(B)
         /\ influx_both(A, B) = IF Seen(A) = {} \/ Seen(B) = {} THEN Seen(A) \cup Seen(B)
                                ELSE Seen(A) \cap Seen(B)
         /\ ch_only_in(A, B) = Seen(A) \ Seen(B)
         /\ ch_both(A, B) = Seen(A) \cap Seen(B)
<1>1. influx_only_in(A, B) = IF Seen(B) = {} THEN {} ELSE Seen(A) \ Seen(B)
  BY DEF influx_only_in, FilterNull, IsNull, Merged
<1>2. influx_both(A, B) = IF Seen(A) = {} \/ Seen(B) = {} THEN Seen(A) \cup Seen(B)
                          ELSE Seen(A) \cap Seen(B)
  BY DEF influx_both, FilterNull, IsNull, Merged
<1>3. DOMAIN pair_of(A, B) = Seen(A) \cup Seen(B)
  BY DEF pair_of
<1>4. \A o \in Seen(A) \cup Seen(B) :
        /\ pair_of(A, B)[o].n_a = IF o \in Seen(A) THEN 1 ELSE 0
        /\ pair_of(A, B)[o].n_b = IF o \in Seen(B) THEN 1 ELSE 0
  BY DEF pair_of
<1>5. ch_only_in(A, B) = Seen(A) \ Seen(B)
  BY <1>3, <1>4 DEF ch_only_in
<1>6. ch_both(A, B) = Seen(A) \cap Seen(B)
  BY <1>3, <1>4 DEF ch_both
<1> QED BY <1>1, <1>2, <1>5, <1>6

\* No object is missing from the three panels of a pair of envs, and none is
\* in two of them.
THEOREM ObjectsOnce == Spec => []EveryObjectOnce
<1>1. EveryObjectOnce
  BY PanelsOf DEF EveryObjectOnce
<1> QED BY <1>1, PTL

\* Two counts from the end: the largest of a set of positions.
LEMMA LargestOf ==
  ASSUME NEW n \in Nat, NEW S \in SUBSET (1..n), S # {}
  PROVE  \E i \in S : \A j \in S : j <= i
<1> DEFINE R == OpToRel(<, Nat)
           T == {n - i : i \in S}
<1>1. IsWellFoundedOn(R, Nat)
  BY NatLessThanWellFounded
<1>2. T \subseteq Nat /\ T # {}
  <2>1. \A i \in 1..n : n - i \in Nat
    OBVIOUS
  <2> QED BY <2>1
<1>3. PICK x \in T : \A y \in T : ~ (<<y, x>> \in R)
  BY <1>1, <1>2, WFMin
<1>4. \A y \in T : ~ (y < x)
  BY <1>2, <1>3 DEF OpToRel
<1>5. PICK i \in S : x = n - i
  OBVIOUS
<1>6. ASSUME NEW j \in S PROVE j <= i
  <2>1. ~ (n - j < n - i)
    BY <1>4, <1>5
  <2>2. i \in Nat /\ j \in Nat
    OBVIOUS
  <2> QED BY <2>1, <2>2
<1> QED BY <1>6

\* The last row of an object is one of its rows.
LEMMA LastRowOf ==
  ASSUME EnvInv, NEW e \in Env, NEW o \in Seen(e)
  PROVE  /\ LastRow(e, o) \in Index
         /\ \E t \in Times(e, o) :
              LastRow(e, o) = samples[e][t].catalog[o] /\ \A j \in Times(e, o) : j <= t
<1> DEFINE t == CHOOSE i \in Times(e, o) : \A j \in Times(e, o) : j <= i
<1>1. t \in Times(e, o) /\ \A j \in Times(e, o) : j <= t
  <2>1. Times(e, o) \in SUBSET (1..Len(samples[e])) /\ Len(samples[e]) \in Nat
    BY DEF EnvInv, Times
  <2>2. Times(e, o) # {}
    BY DEF Seen, Times
  <2> QED BY <2>1, <2>2, LargestOf
<1>2. LastRow(e, o) = samples[e][t].catalog[o]
  BY DEF LastRow
<1>3. LastRow(e, o) \in Index
  <2>1. t \in DOMAIN samples[e] /\ o \in samples[e][t].top
    BY <1>1 DEF Times
  <2> HIDE DEF t
  <2>2. /\ samples[e][t].catalog \in Catalogs
        /\ samples[e][t].top \in Tops(samples[e][t].catalog)
    BY <2>1, SampleOf
  <2>3. o \in DOMAIN samples[e][t].catalog
    BY <2>1, <2>2, TopsCut
  <2> QED BY <1>2, <2>2, <2>3, DomainOfCatalog
<1> QED BY <1>1, <1>2, <1>3

\* The two stores compare alike.
THEOREM StoresAlike == Spec => []StoresCompareAlike
<1>1. EnvInv => StoresCompareAlike
  <2> SUFFICES ASSUME EnvInv, NEW A \in Env, NEW B \in Env, Seen(A) # {}, Seen(B) # {}
               PROVE  /\ influx_only_in(A, B) = ch_only_in(A, B)
                      /\ influx_delta(A, B) = ch_delta(A, B)
                      /\ influx_changed(A, B) = ch_changed(A, B)
    BY DEF StoresCompareAlike
  <2>1. influx_only_in(A, B) = ch_only_in(A, B) /\ influx_both(A, B) = ch_both(A, B)
    BY PanelsOf
  <2>2. ASSUME NEW o \in ch_both(A, B)
        PROVE  pair_of(A, B)[o].a = LastRow(A, o) /\ pair_of(A, B)[o].b = LastRow(B, o)
    <3>1. o \in Seen(A) /\ o \in Seen(B)
      BY PanelsOf
    <3> QED BY <3>1 DEF pair_of
  <2>3. influx_delta(A, B) = ch_delta(A, B)
    BY <2>1, <2>2 DEF influx_delta, ch_delta
  <2>4. ASSUME NEW e \in Env, NEW o \in Seen(e), NEW flag \in FLAGS
        PROVE  LastRow(e, o)[flag] \in Int
    <3>1. LastRow(e, o) \in Index
      BY LastRowOf
    <3> QED BY <3>1 DEF Index, FLAGS
  <2>5. ASSUME NEW o \in ch_both(A, B)
        PROVE  (~ \A flag \in FLAGS : LastRow(B, o)[flag] - LastRow(A, o)[flag] = 0)
               <=> \E flag \in FLAGS : pair_of(A, B)[o].a[flag] # pair_of(A, B)[o].b[flag]
    <3>1. o \in Seen(A) /\ o \in Seen(B)
      BY PanelsOf
    <3> QED BY <2>2, <2>4, <3>1
  <2>6. influx_changed(A, B) = ch_changed(A, B)
    BY <2>1, <2>5 DEF influx_changed, ch_changed
  <2> QED BY <2>1, <2>3, <2>6
<1> QED BY <1>1, EnvInvariant, PTL

-----------------------------------------------------------------------------
\* One sample that LIMIT does not cut shows the catalog.
LEMMA OneSample ==
  ASSUME EnvInv, NEW e \in Env, Len(samples[e]) = 1,
         Cardinality(DOMAIN samples[e][1].catalog) \in 1..TopN
  PROVE  /\ Seen(e) = DOMAIN samples[e][1].catalog /\ Seen(e) # {}
         /\ \A o \in Seen(e) : LastRow(e, o) = samples[e][1].catalog[o]
<1> DEFINE there == samples[e][1].catalog
           T == samples[e][1].top
<1>1. DOMAIN samples[e] = {1}
  BY DEF EnvInv
<1>2. there \in Catalogs /\ T \in Tops(there)
  BY <1>1, SampleOf
<1>3. IsFiniteSet(DOMAIN there)
  BY <1>2, DomainOfCatalog
<1>4. T = DOMAIN there
  <2>1. T \subseteq DOMAIN there /\ (T = DOMAIN there \/ Cardinality(T) = TopN)
    BY <1>2, TopsCut
  <2>2. Cardinality(T) <= Cardinality(DOMAIN there)
        /\ (Cardinality(DOMAIN there) = Cardinality(T) => DOMAIN there = T)
    BY <1>3, <2>1, FS_Subset
  <2>3. CASE Cardinality(T) = TopN
    <3>1. TopN \in Nat /\ Cardinality(DOMAIN there) \in Nat
      BY EnvCompareAssumption, <1>3, FS_CardinalityType
    <3> QED BY <2>2, <2>3, <3>1
  <2> QED BY <2>1, <2>3
<1>5. Seen(e) = DOMAIN there
  BY <1>1, <1>4 DEF Seen
<1>6. DOMAIN there # {}
  <2>1. Cardinality(DOMAIN there) # 0
    OBVIOUS
  <2> QED BY <2>1, FS_EmptySet
<1>7. ASSUME NEW o \in Seen(e) PROVE LastRow(e, o) = there[o]
  BY <1>1, LastRowOf DEF Times
<1> QED BY <1>5, <1>6, <1>7

\* A flag that differs, as the rows and as the catalogs have it.
LEMMA FlagDiffers ==
  ASSUME NEW a \in Index, NEW b \in Index
  PROVE  (~ \A flag \in FLAGS : b[flag] - a[flag] = 0) <=> \E flag \in FLAGS : a[flag] # b[flag]
<1>1. \A flag \in FLAGS : a[flag] \in Int /\ b[flag] \in Int
  BY DEF FLAGS, Index
<1> QED BY <1>1

\* A short range shows the difference of two catalogs: what is only in one of
\* them, how the others have grown, and whose flags differ.
THEOREM ShortRange == Spec => []ShortRangeIsExact
<1>1. EnvInv => ShortRangeIsExact
  <2> SUFFICES ASSUME EnvInv, NEW A \in Env, NEW B \in Env,
                      Len(samples[A]) = 1, Len(samples[B]) = 1,
                      Cardinality(DOMAIN samples[A][1].catalog) \in 1..TopN,
                      Cardinality(DOMAIN samples[B][1].catalog) \in 1..TopN
               PROVE  LET a == samples[A][1].catalog
                          b == samples[B][1].catalog
                          both == DOMAIN a \cap DOMAIN b
                      IN /\ influx_only_in(A, B) = DOMAIN a \ DOMAIN b
                         /\ ch_only_in(A, B) = DOMAIN a \ DOMAIN b
                         /\ influx_delta(A, B) = [o \in both |-> b[o].size - a[o].size]
                         /\ ch_delta(A, B) = [o \in both |-> b[o].size - a[o].size]
                         /\ \A o \in both :
                              LET differs == \E flag \in FLAGS : a[o][flag] # b[o][flag]
                              IN /\ o \in influx_changed(A, B) <=> differs
                                 /\ o \in ch_changed(A, B) <=> differs
    BY DEF ShortRangeIsExact
  <2> DEFINE a == samples[A][1].catalog
             b == samples[B][1].catalog
             both == DOMAIN a \cap DOMAIN b
  <2>1. /\ Seen(A) = DOMAIN a /\ Seen(A) # {} /\ \A o \in Seen(A) : LastRow(A, o) = a[o]
        /\ Seen(B) = DOMAIN b /\ Seen(B) # {} /\ \A o \in Seen(B) : LastRow(B, o) = b[o]
    BY OneSample
  <2>2. /\ influx_only_in(A, B) = DOMAIN a \ DOMAIN b
        /\ ch_only_in(A, B) = DOMAIN a \ DOMAIN b
        /\ influx_both(A, B) = both /\ ch_both(A, B) = both
    BY <2>1, PanelsOf
  <2> HIDE DEF a, b
  <2>3. \A o \in both : LastRow(A, o) = a[o] /\ LastRow(B, o) = b[o]
    BY <2>1
  <2>4. \A o \in both : pair_of(A, B)[o].a = a[o] /\ pair_of(A, B)[o].b = b[o]
    BY <2>1, <2>3 DEF pair_of
  <2>5. influx_delta(A, B) = [o \in both |-> b[o].size - a[o].size]
    BY <2>2, <2>3 DEF influx_delta
  <2>6. ch_delta(A, B) = [o \in both |-> b[o].size - a[o].size]
    BY <2>2, <2>4 DEF ch_delta
  <2>7. ASSUME NEW o \in both
        PROVE  /\ o \in influx_changed(A, B) <=> \E flag \in FLAGS : a[o][flag] # b[o][flag]
               /\ o \in ch_changed(A, B) <=> \E flag \in FLAGS : a[o][flag] # b[o][flag]
    <3>1. a[o] \in Index /\ b[o] \in Index
      <4>1. LastRow(A, o) \in Index /\ LastRow(B, o) \in Index
        BY <2>1, LastRowOf
      <4> QED BY <2>3, <4>1
    <3>2. o \in influx_changed(A, B)
            <=> ~ \A flag \in FLAGS : b[o][flag] - a[o][flag] = 0
      BY <2>2, <2>3 DEF influx_changed
    <3>3. o \in ch_changed(A, B) <=> \E flag \in FLAGS : a[o][flag] # b[o][flag]
      BY <2>2, <2>4 DEF ch_changed
    <3> QED BY <3>1, <3>2, <3>3, FlagDiffers
  <2> QED BY <2>2, <2>5, <2>6, <2>7 DEF a, b
<1> QED BY <1>1, EnvInvariant, PTL

-----------------------------------------------------------------------------
(* The scan counters                                                       *)

\* Between samples i and k.
Happens(s, o, what, i, k) == \E j \in (i + 1)..k : o \in s[j].since[what]

\* What catalog c tells of an index whose counter was v: one neither dropped
\* nor reset has counted every scan and nothing else, and one not scanned has
\* the same counter or a new one.
Traced(v, c, o, renewed, scanned) ==
  /\ ~ renewed => o \in DOMAIN c /\ v <= c[o].idx_scan /\ (scanned <=> v < c[o].idx_scan)
  /\ ~ scanned /\ o \in DOMAIN c => c[o].idx_scan = 0 \/ c[o].idx_scan = v

\* Every sample against the catalog now, what is pending included.
Now(s, c, p) ==
  \A i \in 1..Len(s) : \A o \in DOMAIN s[i].catalog :
    Traced(s[i].catalog[o].idx_scan, c, o,
           Happens(s, o, "renewed", i, Len(s)) \/ o \in p.renewed,
           Happens(s, o, "scanned", i, Len(s)) \/ o \in p.scanned)

\* Every sample against the later ones.
Later(s) ==
  \A i, k \in 1..Len(s) : i <= k => \A o \in DOMAIN s[i].catalog :
    Traced(s[i].catalog[o].idx_scan, s[k].catalog, o,
           Happens(s, o, "renewed", i, k), Happens(s, o, "scanned", i, k))

ScanInv ==
  /\ EnvInv
  /\ \A e \in Env : Now(samples[e], catalog[e], pending[e]) /\ Later(samples[e])

\* One change of a catalog, as far as the counter of o goes.
Moves(c, c2, o, renewed, scanned) ==
  /\ ~ renewed /\ o \in DOMAIN c =>
       o \in DOMAIN c2 /\ c2[o].idx_scan = c[o].idx_scan + (IF scanned THEN 1 ELSE 0)
  /\ ~ scanned /\ o \in DOMAIN c2 =>
       c2[o].idx_scan = 0 \/ (o \in DOMAIN c /\ c2[o].idx_scan = c[o].idx_scan)

\* An index of a catalog has a counter.
LEMMA ScanNat ==
  ASSUME NEW c \in Catalogs, NEW o \in DOMAIN c
  PROVE  c[o].idx_scan \in Nat /\ o \in Object
<1>1. c[o] \in Index /\ o \in Object
  BY DomainOfCatalog
<1> QED BY <1>1 DEF Index

\* A counter tells nothing of itself.
LEMMA TracedSame ==
  ASSUME NEW c \in Catalogs, NEW o \in DOMAIN c
  PROVE  Traced(c[o].idx_scan, c, o, FALSE, FALSE)
BY ScanNat DEF Traced

\* What a counter told before one more change it tells after it.
LEMMA TracedMove ==
  ASSUME NEW v \in Nat, NEW c \in Catalogs, NEW c2 \in Catalogs, NEW o,
         NEW R \in BOOLEAN, NEW S \in BOOLEAN, NEW r \in BOOLEAN, NEW t \in BOOLEAN,
         Traced(v, c, o, R, S), Moves(c, c2, o, r, t)
  PROVE  Traced(v, c2, o, R \/ r, S \/ t)
<1>1. o \in DOMAIN c => c[o].idx_scan \in Nat
  BY ScanNat
<1>2. ASSUME ~ (R \/ r)
      PROVE  o \in DOMAIN c2 /\ v <= c2[o].idx_scan /\ ((S \/ t) <=> v < c2[o].idx_scan)
  <2>1. o \in DOMAIN c /\ v <= c[o].idx_scan /\ (S <=> v < c[o].idx_scan)
    BY <1>2 DEF Traced
  <2>2. o \in DOMAIN c2 /\ c2[o].idx_scan = c[o].idx_scan + (IF t THEN 1 ELSE 0)
    BY <1>2, <2>1 DEF Moves
  <2>3. CASE t
    BY <1>1, <2>1, <2>2, <2>3
  <2>4. CASE ~ t
    <3>1. c2[o].idx_scan = c[o].idx_scan
      BY <1>1, <2>1, <2>2, <2>4
    <3> QED BY <2>1, <2>2, <2>4, <3>1
  <2> QED BY <2>3, <2>4
<1>3. ASSUME ~ (S \/ t), o \in DOMAIN c2
      PROVE  c2[o].idx_scan = 0 \/ c2[o].idx_scan = v
  BY <1>3 DEF Traced, Moves
<1> QED BY <1>2, <1>3 DEF Traced

\* A change of the catalog.
LEMMA NowChanged ==
  ASSUME NEW s \in Seq(Samples), NEW c \in Catalogs, NEW c2 \in Catalogs,
         NEW p \in Happened, NEW p2 \in Happened, NEW R, NEW S,
         p2.renewed = p.renewed \cup R, p2.scanned = p.scanned \cup S,
         \A o \in Object : Moves(c, c2, o, o \in R, o \in S),
         Now(s, c, p)
  PROVE  Now(s, c2, p2)
<1> SUFFICES ASSUME NEW i \in 1..Len(s), NEW o \in DOMAIN s[i].catalog
             PROVE  Traced(s[i].catalog[o].idx_scan, c2, o,
                      Happens(s, o, "renewed", i, Len(s)) \/ o \in p2.renewed,
                      Happens(s, o, "scanned", i, Len(s)) \/ o \in p2.scanned)
  BY DEF Now
<1> DEFINE hr == Happens(s, o, "renewed", i, Len(s))
           hs == Happens(s, o, "scanned", i, Len(s))
           v == s[i].catalog[o].idx_scan
<1>1. s[i] \in Samples
  BY ElementOfSeq
<1>2. v \in Nat /\ o \in Object
  BY <1>1, ScanNat DEF Samples
<1>3. Traced(v, c, o, hr \/ o \in p.renewed, hs \/ o \in p.scanned)
  BY DEF Now
<1>4. Moves(c, c2, o, o \in R, o \in S)
  BY <1>2
<1>5. hr \in BOOLEAN /\ hs \in BOOLEAN
  BY DEF Happens
<1> HIDE DEF hr, hs, v
<1>6. Traced(v, c2, o, (hr \/ o \in p.renewed) \/ o \in R, (hs \/ o \in p.scanned) \/ o \in S)
  <2> DEFINE r1 == hr \/ o \in p.renewed
             s1 == hs \/ o \in p.scanned
             r2 == o \in R
             s2 == o \in S
  <2>1. r1 \in BOOLEAN /\ s1 \in BOOLEAN /\ r2 \in BOOLEAN /\ s2 \in BOOLEAN
    BY <1>5
  <2>2. Traced(v, c, o, r1, s1) /\ Moves(c, c2, o, r2, s2)
    BY <1>3, <1>4
  <2> HIDE DEF r1, s1, r2, s2
  <2>3. Traced(v, c2, o, r1 \/ r2, s1 \/ s2)
    BY <1>2, <2>1, <2>2, TracedMove
  <2> QED BY <2>3 DEF r1, s1, r2, s2
<1>7. /\ (hr \/ o \in p2.renewed) <=> ((hr \/ o \in p.renewed) \/ o \in R)
      /\ (hs \/ o \in p2.scanned) <=> ((hs \/ o \in p.scanned) \/ o \in S)
  OBVIOUS
<1>8. Traced(v, c2, o, hr \/ o \in p2.renewed, hs \/ o \in p2.scanned)
  BY <1>6, <1>7 DEF Traced
<1> QED BY <1>8 DEF hr, hs, v

\* A new sample adds what was pending.
LEMMA HappensAppend ==
  ASSUME NEW s \in Seq(Samples), NEW x, NEW o, NEW what, NEW i \in 1..Len(s), NEW k \in 1..Len(s)
  PROVE  /\ Happens(Append(s, x), o, what, i, k) <=> Happens(s, o, what, i, k)
         /\ Happens(Append(s, x), o, what, i, Len(s) + 1)
              <=> Happens(s, o, what, i, Len(s)) \/ o \in x.since[what]
<1> DEFINE n == Len(s)
           a == Append(s, x)
<1>1. n \in Nat /\ (\A j \in 1..n : a[j] = s[j]) /\ a[n + 1] = x
  OBVIOUS
<1>2. \A j \in (i + 1)..k : j \in 1..n
  BY <1>1
<1>3. (i + 1)..(n + 1) = ((i + 1)..n) \cup {n + 1}
  BY <1>1
<1>4. \A j \in (i + 1)..n : j \in 1..n
  BY <1>1
<1> HIDE DEF a, n
<1>5. Happens(a, o, what, i, k) <=> Happens(s, o, what, i, k)
  BY <1>1, <1>2 DEF Happens
<1>6. Happens(a, o, what, i, n + 1) <=> Happens(s, o, what, i, n) \/ o \in x.since[what]
  BY <1>1, <1>3, <1>4 DEF Happens
<1> QED BY <1>5, <1>6 DEF a, n

\* Nothing happens between a sample and itself.
LEMMA HappensNever ==
  ASSUME NEW s, NEW o, NEW what, NEW i \in Int
  PROVE  Happens(s, o, what, i, i) <=> FALSE
<1>1. (i + 1)..i = {}
  OBVIOUS
<1> QED BY <1>1 DEF Happens

\* A sample of the catalog and of what was pending.
LEMMA Sampled ==
  ASSUME NEW s \in Seq(Samples), NEW c \in Catalogs, NEW p \in Happened,
         NEW x \in Samples, x.catalog = c, x.since = p,
         Now(s, c, p), Later(s)
  PROVE  Now(Append(s, x), c, Nothing) /\ Later(Append(s, x))
<1> DEFINE n == Len(s)
           a == Append(s, x)
<1>1. n \in Nat /\ (\A j \in 1..n : a[j] = s[j]) /\ a[n + 1] = x /\ Len(a) = n + 1
  OBVIOUS
<1>2. \A j \in 1..(n + 1) : j \in 1..n \/ j = n + 1
  BY <1>1
<1>3. ASSUME NEW i \in 1..n, NEW o \in DOMAIN s[i].catalog
      PROVE  Traced(s[i].catalog[o].idx_scan, c, o,
               Happens(a, o, "renewed", i, n + 1), Happens(a, o, "scanned", i, n + 1))
  <2>1. Traced(s[i].catalog[o].idx_scan, c, o,
           Happens(s, o, "renewed", i, n) \/ o \in p.renewed,
           Happens(s, o, "scanned", i, n) \/ o \in p.scanned)
    BY DEF Now
  <2>2. /\ Happens(a, o, "renewed", i, n + 1) <=> Happens(s, o, "renewed", i, n) \/ o \in p.renewed
        /\ Happens(a, o, "scanned", i, n + 1) <=> Happens(s, o, "scanned", i, n) \/ o \in p.scanned
    <3>1. \A what : Happens(a, o, what, i, n + 1) <=> Happens(s, o, what, i, n) \/ o \in p[what]
      BY HappensAppend
    <3>2. p["renewed"] = p.renewed /\ p["scanned"] = p.scanned
      OBVIOUS
    <3> HIDE DEF a, n
    <3> QED BY <3>1
  <2> HIDE DEF a, n
  <2> QED BY <2>1, <2>2 DEF Traced
<1>4. ASSUME NEW o \in DOMAIN c
      PROVE  Traced(c[o].idx_scan, c, o,
               Happens(a, o, "renewed", n + 1, n + 1), Happens(a, o, "scanned", n + 1, n + 1))
  <2>1. \A what : ~ Happens(a, o, what, n + 1, n + 1)
    <3> HIDE DEF a
    <3> QED BY <1>1, HappensNever
  <2>2. Traced(c[o].idx_scan, c, o, FALSE, FALSE)
    BY TracedSame
  <2> HIDE DEF a, n
  <2> QED BY <2>1, <2>2 DEF Traced
<1> HIDE DEF a, n
<1>5. Now(a, c, Nothing)
  <2> SUFFICES ASSUME NEW i \in 1..(n + 1), NEW o \in DOMAIN a[i].catalog
               PROVE  Traced(a[i].catalog[o].idx_scan, c, o,
                        Happens(a, o, "renewed", i, n + 1) \/ o \in Nothing.renewed,
                        Happens(a, o, "scanned", i, n + 1) \/ o \in Nothing.scanned)
    BY <1>1 DEF Now
  <2>1. Traced(a[i].catalog[o].idx_scan, c, o,
          Happens(a, o, "renewed", i, n + 1), Happens(a, o, "scanned", i, n + 1))
    <3>1. CASE i \in 1..n
      BY <1>1, <1>3, <3>1
    <3>2. CASE i = n + 1
      BY <1>1, <1>4, <3>2
    <3> QED BY <1>2, <3>1, <3>2
  <2>2. o \notin Nothing.renewed /\ o \notin Nothing.scanned
    BY DEF Nothing
  <2> QED BY <2>1, <2>2 DEF Traced
<1>6. Later(a)
  <2> SUFFICES ASSUME NEW i \in 1..(n + 1), NEW k \in 1..(n + 1), i <= k,
                      NEW o \in DOMAIN a[i].catalog
               PROVE  Traced(a[i].catalog[o].idx_scan, a[k].catalog, o,
                        Happens(a, o, "renewed", i, k), Happens(a, o, "scanned", i, k))
    BY <1>1 DEF Later
  <2>1. CASE k = n + 1 /\ i = n + 1
    BY <1>1, <1>4, <2>1
  <2>2. CASE k = n + 1 /\ i \in 1..n
    BY <1>1, <1>3, <2>2
  <2>3. CASE k \in 1..n
    <3>1. i \in 1..n
      BY <1>1, <2>3
    <3>2. Traced(s[i].catalog[o].idx_scan, s[k].catalog, o,
            Happens(s, o, "renewed", i, k), Happens(s, o, "scanned", i, k))
      BY <1>1, <2>3, <3>1 DEF Later, n
    <3>3. \A what : Happens(a, o, what, i, k) <=> Happens(s, o, what, i, k)
      BY <2>3, <3>1, HappensAppend DEF a, n
    <3> QED BY <1>1, <2>3, <3>1, <3>2, <3>3 DEF Traced
  <2> QED BY <1>2, <2>1, <2>2, <2>3
<1> QED BY <1>5, <1>6 DEF a

\* The samples that stay are numbered anew.
LEMMA HappensTail ==
  ASSUME NEW s \in Seq(Samples), s # <<>>, NEW o, NEW what,
         NEW i \in 1..(Len(s) - 1), NEW k \in 1..(Len(s) - 1)
  PROVE  Happens(Tail(s), o, what, i, k) <=> Happens(s, o, what, i + 1, k + 1)
<1>1. Len(s) \in Nat /\ \A j \in 1..(Len(s) - 1) : Tail(s)[j] = s[j + 1]
  BY HeadTailProperties
<1>2. \A j \in (i + 1)..k : j \in 1..(Len(s) - 1) /\ j + 1 \in ((i + 1) + 1)..(k + 1)
  BY <1>1
<1>3. \A j \in ((i + 1) + 1)..(k + 1) : j - 1 \in (i + 1)..k /\ (j - 1) + 1 = j
  BY <1>1
<1> QED BY <1>1, <1>2, <1>3 DEF Happens

\* The oldest sample leaves the range.
LEMMA Moved ==
  ASSUME NEW s \in Seq(Samples), s # <<>>, NEW c, NEW p, Now(s, c, p), Later(s)
  PROVE  Now(Tail(s), c, p) /\ Later(Tail(s))
<1> DEFINE n == Len(s)
           b == Tail(s)
<1>1. n \in Nat /\ n # 0 /\ Len(b) = n - 1 /\ (\A j \in 1..(n - 1) : b[j] = s[j + 1])
  BY EmptySeq, HeadTailProperties
<1>2. \A j \in 1..(n - 1) : j + 1 \in 1..n /\ n - 1 \in 1..(n - 1) /\ (n - 1) + 1 = n
  BY <1>1
<1>3. ASSUME NEW i \in 1..(n - 1), NEW k \in 1..(n - 1), NEW o, NEW what
      PROVE  Happens(b, o, what, i, k) <=> Happens(s, o, what, i + 1, k + 1)
  BY HappensTail
<1> HIDE DEF b, n
<1>4. Now(b, c, p)
  <2> SUFFICES ASSUME NEW i \in 1..(n - 1), NEW o \in DOMAIN b[i].catalog
               PROVE  Traced(b[i].catalog[o].idx_scan, c, o,
                        Happens(b, o, "renewed", i, n - 1) \/ o \in p.renewed,
                        Happens(b, o, "scanned", i, n - 1) \/ o \in p.scanned)
    BY <1>1 DEF Now
  <2>1. Traced(s[i + 1].catalog[o].idx_scan, c, o,
                        Happens(s, o, "renewed", i + 1, n) \/ o \in p.renewed,
                        Happens(s, o, "scanned", i + 1, n) \/ o \in p.scanned)
    BY <1>1, <1>2 DEF Now, n
  <2>2. \A what : Happens(b, o, what, i, n - 1) <=> Happens(s, o, what, i + 1, n)
    <3>1. \A what : Happens(b, o, what, i, n - 1) <=> Happens(s, o, what, i + 1, (n - 1) + 1)
      BY <1>2, <1>3
    <3> QED BY <1>2, <3>1
  <2>3. b[i] = s[i + 1]
    BY <1>1
  <2> QED BY <2>1, <2>2, <2>3 DEF Traced
<1>5. Later(b)
  <2> SUFFICES ASSUME NEW i \in 1..(n - 1), NEW k \in 1..(n - 1), i <= k,
                      NEW o \in DOMAIN b[i].catalog
               PROVE  Traced(b[i].catalog[o].idx_scan, b[k].catalog, o,
                        Happens(b, o, "renewed", i, k), Happens(b, o, "scanned", i, k))
    BY <1>1 DEF Later
  <2>0. i + 1 \in 1..n /\ k + 1 \in 1..n /\ i + 1 <= k + 1
    BY <1>1
  <2>1. b[i] = s[i + 1] /\ b[k] = s[k + 1]
    BY <1>1
  <2>2. Traced(s[i + 1].catalog[o].idx_scan, s[k + 1].catalog, o,
            Happens(s, o, "renewed", i + 1, k + 1), Happens(s, o, "scanned", i + 1, k + 1))
    BY <2>0, <2>1 DEF Later, n
  <2>3. \A what : Happens(b, o, what, i, k) <=> Happens(s, o, what, i + 1, k + 1)
    BY <1>3
  <2> QED BY <2>1, <2>2, <2>3 DEF Traced
<1> QED BY <1>4, <1>5 DEF b

\* Before the first sample.
LEMMA InitScans == Init => ScanInv
<1> SUFFICES ASSUME Init PROVE ScanInv
  OBVIOUS
<1>1. EnvInv
  BY InitInv
<1>2. ASSUME NEW e \in Env PROVE Len(samples[e]) = 0
  BY DEF Init
<1>3. \A e \in Env : 1..Len(samples[e]) = {}
  BY <1>2
<1> QED BY <1>1, <1>3 DEF ScanInv, Now, Later

\* A change of one catalog.
LEMMA ChangeScans ==
  ASSUME ScanInv, EnvInv', NEW e \in Env, NEW c2 \in Catalogs, Change(e, c2),
         NEW R, NEW S,
         pending'[e].renewed = pending[e].renewed \cup R,
         pending'[e].scanned = pending[e].scanned \cup S,
         \A x \in Env : x # e => pending'[x] = pending[x],
         \A o \in Object : Moves(catalog[e], c2, o, o \in R, o \in S)
  PROVE  ScanInv'
<1>1. samples' = samples /\ catalog'[e] = c2 /\ \A x \in Env : x # e => catalog'[x] = catalog[x]
  BY DEF Change, ScanInv, EnvInv
<1>2. \A x \in Env : Later(samples[x])
  BY DEF ScanInv
<1>3. ASSUME NEW x \in Env PROVE Now(samples[x], catalog'[x], pending'[x])
  <2>1. CASE x # e
    BY <1>1, <2>1 DEF ScanInv
  <2>2. CASE x = e
    <3>1. /\ samples[e] \in Seq(Samples) /\ catalog[e] \in Catalogs
          /\ pending[e] \in Happened /\ pending'[e] \in Happened
      BY DEF ScanInv, EnvInv
    <3>2. Now(samples[e], catalog[e], pending[e])
      BY DEF ScanInv
    <3>3. Now(samples[e], c2, pending'[e])
      BY <3>1, <3>2, NowChanged
    <3> QED BY <1>1, <2>2, <3>3
  <2> QED BY <2>1, <2>2
<1> QED BY <1>1, <1>2, <1>3 DEF ScanInv

\* One step per action.
LEMMA NextScans == ScanInv /\ [Next]_vars => ScanInv'
<1> SUFFICES ASSUME ScanInv, [Next]_vars PROVE ScanInv'
  OBVIOUS
<1>0. EnvInv /\ EnvInv'
  BY NextInv DEF ScanInv
<1>1. CASE UNCHANGED vars
  BY <1>0, <1>1 DEF vars, ScanInv
<1>c. ASSUME NEW e \in Env
      PROVE  /\ catalog[e] \in Catalogs /\ catalog'[e] \in Catalogs
             /\ pending[e] \in Happened /\ samples[e] \in Seq(Samples)
  BY <1>0 DEF EnvInv
<1>s. ASSUME NEW e \in Env, NEW o \in DOMAIN catalog[e]
      PROVE  catalog[e][o].idx_scan \in Nat /\ catalog[e][o] \in Index
  BY <1>c, DomainOfCatalog, ScanNat
<1>u. ASSUME NEW e \in Env, NEW c2, Change(e, c2)
      PROVE  catalog'[e] = c2 /\ c2 \in Catalogs
  <2>1. catalog'[e] = c2
    BY <1>0, <1>u DEF Change, EnvInv
  <2> QED BY <1>c, <2>1
<1>2. ASSUME NEW e \in Env, NEW o \in Object, CreateIndex(e, o) PROVE ScanInv'
  <2>1. PICK u \in {0, 1}, v \in {0, 1} :
          Change(e, [x \in DOMAIN catalog[e] \cup {o} |->
            IF x = o THEN [size |-> 0, is_unique |-> u, is_valid |-> v, idx_scan |-> 0]
            ELSE catalog[e][x]])
    BY <1>2 DEF CreateIndex
  <2> DEFINE new == [x \in DOMAIN catalog[e] \cup {o} |->
            IF x = o THEN [size |-> 0, is_unique |-> u, is_valid |-> v, idx_scan |-> 0]
            ELSE catalog[e][x]]
  <2>2. new \in Catalogs
    BY <1>u, <2>1
  <2>3. ASSUME NEW x \in Object PROVE Moves(catalog[e], new, x, x \in {}, x \in {})
    <3>1. o \notin DOMAIN catalog[e]
      BY <1>2 DEF CreateIndex
    <3>2. x \in DOMAIN catalog[e] => new[x] = catalog[e][x] /\ x \in DOMAIN new
      BY <3>1
    <3>3. x \in DOMAIN new => x \in DOMAIN catalog[e] \/ new[x].idx_scan = 0
      OBVIOUS
    <3> HIDE DEF new
    <3> QED BY <1>s, <3>2, <3>3 DEF Moves
  <2>4. pending' = pending
    BY <1>2 DEF CreateIndex
  <2> HIDE DEF new
  <2>5. Change(e, new)
    BY <2>1 DEF new
  <2> QED BY <1>0, <2>2, <2>3, <2>4, <2>5, ChangeScans
<1>3. ASSUME NEW e \in Env, NEW o \in Object, DropIndex(e, o) PROVE ScanInv'
  <2> DEFINE new == [x \in DOMAIN catalog[e] \ {o} |-> catalog[e][x]]
  <2>1. Change(e, new)
    BY <1>3 DEF DropIndex
  <2>2. new \in Catalogs
    BY <1>u, <2>1
  <2>3. ASSUME NEW x \in Object PROVE Moves(catalog[e], new, x, x \in {o}, x \in {})
    <3>1. DOMAIN new = DOMAIN catalog[e] \ {o} /\ \A y \in DOMAIN new : new[y] = catalog[e][y]
      OBVIOUS
    <3> HIDE DEF new
    <3> QED BY <1>s, <3>1 DEF Moves
  <2>4. /\ pending'[e].renewed = pending[e].renewed \cup {o}
        /\ pending'[e].scanned = pending[e].scanned \cup {}
        /\ \A x \in Env : x # e => pending'[x] = pending[x]
    BY <1>0, <1>3 DEF DropIndex, EnvInv, Happened
  <2> HIDE DEF new
  <2> QED BY <1>0, <2>1, <2>2, <2>3, <2>4, ChangeScans
<1>4. ASSUME NEW e \in Env, NEW o \in Object, FinishBuild(e, o) PROVE ScanInv'
  <2> DEFINE new == [catalog[e] EXCEPT ![o].is_valid = 1]
  <2>1. Change(e, new) /\ pending' = pending
    BY <1>4 DEF FinishBuild
  <2>2. new \in Catalogs
    BY <1>u, <2>1
  <2>3. ASSUME NEW x \in Object PROVE Moves(catalog[e], new, x, x \in {}, x \in {})
    <3>1. DOMAIN new = DOMAIN catalog[e]
      OBVIOUS
    <3>2. \A y \in DOMAIN catalog[e] : new[y].idx_scan = catalog[e][y].idx_scan
      BY <1>s DEF Index
    <3> HIDE DEF new
    <3> QED BY <1>s, <3>1, <3>2 DEF Moves
  <2> HIDE DEF new
  <2> QED BY <1>0, <2>1, <2>2, <2>3, ChangeScans
<1>5. ASSUME NEW e \in Env, NEW o \in Object, Grow(e, o) PROVE ScanInv'
  <2> DEFINE new == [catalog[e] EXCEPT ![o].size = @ + 1]
  <2>1. Change(e, new) /\ pending' = pending
    BY <1>5 DEF Grow
  <2>2. new \in Catalogs
    BY <1>u, <2>1
  <2>3. ASSUME NEW x \in Object PROVE Moves(catalog[e], new, x, x \in {}, x \in {})
    <3>1. DOMAIN new = DOMAIN catalog[e]
      OBVIOUS
    <3>2. \A y \in DOMAIN catalog[e] : new[y].idx_scan = catalog[e][y].idx_scan
      BY <1>s DEF Index
    <3> HIDE DEF new
    <3> QED BY <1>s, <3>1, <3>2 DEF Moves
  <2> HIDE DEF new
  <2> QED BY <1>0, <2>1, <2>2, <2>3, ChangeScans
<1>6. ASSUME NEW e \in Env, NEW o \in Object, UseIndex(e, o) PROVE ScanInv'
  <2> DEFINE new == [catalog[e] EXCEPT ![o].idx_scan = @ + 1]
  <2>1. Change(e, new)
    BY <1>6 DEF UseIndex
  <2>2. new \in Catalogs
    BY <1>u, <2>1
  <2>3. ASSUME NEW x \in Object PROVE Moves(catalog[e], new, x, x \in {}, x \in {o})
    <3>1. DOMAIN new = DOMAIN catalog[e]
      OBVIOUS
    <3>2. \A y \in DOMAIN catalog[e] :
            new[y].idx_scan = catalog[e][y].idx_scan + (IF y = o THEN 1 ELSE 0)
      BY <1>s DEF Index
    <3> HIDE DEF new
    <3>3. x \in DOMAIN catalog[e] /\ x # o => new[x].idx_scan = catalog[e][x].idx_scan
      BY <1>s, <3>2
    <3> QED BY <3>1, <3>2, <3>3 DEF Moves
  <2>4. /\ pending'[e].renewed = pending[e].renewed \cup {}
        /\ pending'[e].scanned = pending[e].scanned \cup {o}
        /\ \A x \in Env : x # e => pending'[x] = pending[x]
    BY <1>0, <1>6 DEF UseIndex, EnvInv, Happened
  <2> HIDE DEF new
  <2> QED BY <1>0, <2>1, <2>2, <2>3, <2>4, ChangeScans
<1>7. ASSUME NEW e \in Env, ResetStatistics(e) PROVE ScanInv'
  <2> DEFINE new == [o \in DOMAIN catalog[e] |-> [catalog[e][o] EXCEPT !.idx_scan = 0]]
  <2>1. Change(e, new)
    BY <1>7 DEF ResetStatistics
  <2>2. new \in Catalogs
    BY <1>u, <2>1
  <2>3. ASSUME NEW x \in Object PROVE Moves(catalog[e], new, x, x \in DOMAIN catalog[e], x \in {})
    <3>1. DOMAIN new = DOMAIN catalog[e]
      OBVIOUS
    <3>2. \A y \in DOMAIN catalog[e] : new[y].idx_scan = 0
      BY <1>s DEF Index
    <3> HIDE DEF new
    <3> QED BY <3>1, <3>2 DEF Moves
  <2>4. /\ pending'[e].renewed = pending[e].renewed \cup DOMAIN catalog[e]
        /\ pending'[e].scanned = pending[e].scanned \cup {}
        /\ \A x \in Env : x # e => pending'[x] = pending[x]
    BY <1>0, <1>7 DEF ResetStatistics, EnvInv, Happened
  <2> HIDE DEF new
  <2> QED BY <1>0, <2>1, <2>2, <2>3, <2>4, ChangeScans
<1>8. ASSUME NEW e \in Env, TakeSample(e) PROVE ScanInv'
  <2>1. PICK T \in Tops(catalog[e]) :
          samples' = [samples EXCEPT ![e] =
                        Append(@, [catalog |-> catalog[e], top |-> T, since |-> pending[e]])]
    BY <1>8 DEF TakeSample
  <2> DEFINE x == [catalog |-> catalog[e], top |-> T, since |-> pending[e]]
  <2>2. x \in Samples /\ x.catalog = catalog[e] /\ x.since = pending[e]
    <3>1. T \in SUBSET Object
      BY <1>c, DomainOfCatalog DEF Tops
    <3> QED BY <1>c, <3>1 DEF Samples
  <2>3. samples' = [samples EXCEPT ![e] = Append(samples[e], x)]
    BY <2>1
  <2> HIDE DEF x
  <2>4. Now(Append(samples[e], x), catalog[e], Nothing) /\ Later(Append(samples[e], x))
    BY <1>c, <2>2, Sampled DEF ScanInv
  <2>5. catalog' = catalog /\ pending' = [pending EXCEPT ![e] = Nothing]
    BY <1>8 DEF TakeSample
  <2>6. ASSUME NEW y \in Env PROVE Now(samples'[y], catalog'[y], pending'[y]) /\ Later(samples'[y])
    <3>1. CASE y = e
      <4>1. samples'[y] = Append(samples[e], x) /\ pending'[y] = Nothing
        BY <1>0, <2>3, <2>5, <3>1 DEF EnvInv
      <4> QED BY <2>4, <2>5, <3>1, <4>1
    <3>2. CASE y # e
      <4>1. samples'[y] = samples[y] /\ pending'[y] = pending[y]
        BY <1>0, <2>3, <2>5, <3>2 DEF EnvInv
      <4> QED BY <2>5, <4>1 DEF ScanInv
    <3> QED BY <3>1, <3>2
  <2> QED BY <1>0, <2>6 DEF ScanInv
<1>9. ASSUME NEW e \in Env, MoveRange(e) PROVE ScanInv'
  <2>1. samples[e] # <<>> /\ samples' = [samples EXCEPT ![e] = Tail(samples[e])]
        /\ catalog' = catalog /\ pending' = pending
    BY <1>9 DEF MoveRange
  <2>2. Now(Tail(samples[e]), catalog[e], pending[e]) /\ Later(Tail(samples[e]))
    BY <1>c, <2>1, Moved DEF ScanInv
  <2>3. ASSUME NEW y \in Env PROVE Now(samples'[y], catalog'[y], pending'[y]) /\ Later(samples'[y])
    <3>1. CASE y = e
      <4>1. samples'[y] = Tail(samples[e])
        BY <1>0, <2>1, <3>1 DEF EnvInv
      <4> QED BY <2>1, <2>2, <3>1, <4>1
    <3>2. CASE y # e
      <4>1. samples'[y] = samples[y]
        BY <1>0, <2>1, <3>2 DEF EnvInv
      <4> QED BY <2>1, <4>1 DEF ScanInv
    <3> QED BY <3>1, <3>2
  <2> QED BY <1>0, <2>3 DEF ScanInv
<1> QED BY <1>1, <1>2, <1>3, <1>4, <1>5, <1>6, <1>7, <1>8, <1>9 DEF Next

\* What the scan counters of any two samples, and of a sample and the catalog
\* now, say of the scans, drops and resets in between.
THEOREM ScanInvariant == Spec => []ScanInv
BY InitScans, NextScans, PTL DEF Spec

-----------------------------------------------------------------------------
(* The values of a counter                                                 *)

\* Where an object has its rows, oldest first.
RowTimes(e, o) ==
  FlattenSeq([i \in DOMAIN samples[e] |-> IF o \in samples[e][i].top THEN <<i>> ELSE <<>>])

\* The values of a counter are those of the rows of the object.
LEMMA CounterIs ==
  ASSUME EnvInv, NEW e \in Env, NEW o \in Seen(e)
  PROVE  /\ RowTimes(e, o) \in Seq(Nat) /\ Sorted(RowTimes(e, o))
         /\ \A t : Holds(RowTimes(e, o), t) <=> t \in Times(e, o)
         /\ Len(RowTimes(e, o)) \in Nat \ {0}
         /\ Counter(e, o) \in Seq(Nat) /\ Len(Counter(e, o)) = Len(RowTimes(e, o))
         /\ \A k \in 1..Len(RowTimes(e, o)) :
              Counter(e, o)[k] = samples[e][RowTimes(e, o)[k]].catalog[o].idx_scan
<1> DEFINE s == samples[e]
           n == Len(s)
           keys == [i \in 1..n |-> IF o \in s[i].top THEN <<i>> ELSE <<>>]
           seqs == [i \in 1..n |-> IF o \in s[i].top THEN <<s[i].catalog[o].idx_scan>> ELSE <<>>]
           key == [i \in 1..n |-> i]
           g == [i \in 1..n |-> s[i].catalog[o].idx_scan]
<1>1. n \in Nat /\ DOMAIN s = 1..n
  BY DEF EnvInv
<1>2. RowTimes(e, o) = FlattenSeq(keys) /\ Counter(e, o) = FlattenSeq(seqs)
  BY <1>1 DEF RowTimes, Counter
<1>3. ASSUME NEW i \in 1..n, o \in s[i].top PROVE s[i].catalog[o].idx_scan \in Nat
  <2>1. s[i].catalog \in Catalogs /\ s[i].top \in Tops(s[i].catalog)
    BY <1>1, SampleOf
  <2>2. o \in DOMAIN s[i].catalog
    BY <1>3, <2>1, TopsCut
  <2> QED BY <2>1, <2>2, ScanNat
<1>4. keys \in [1..n -> Seq(Nat)] /\ seqs \in [1..n -> Seq(Nat)] /\ key \in [1..n -> Nat]
  BY <1>3
<1>5. \A i \in 1..n : keys[i] # <<>> <=> o \in s[i].top
  OBVIOUS
<1>6. \A i \in 1..n : \A j \in 1..Len(keys[i]) : keys[i][j] = key[i]
  OBVIOUS
<1>7. \A i \in 1..n : /\ Len(seqs[i]) = Len(keys[i])
                      /\ \A j \in 1..Len(keys[i]) : seqs[i][j] = g[keys[i][j]]
  OBVIOUS
<1>8. \A i, j \in 1..n : i <= j => key[i] <= key[j]
  OBVIOUS
<1>9. \A i \in 1..n : key[i] = i /\ g[i] = s[i].catalog[o].idx_scan
  OBVIOUS
<1>10. \A t : t \in Times(e, o) <=> t \in 1..n /\ o \in s[t].top
  BY <1>1 DEF Times
<1> DEFINE ts == FlattenSeq(keys)
           v == FlattenSeq(seqs)
<1> HIDE DEF n, keys, seqs, key, g
<1>11. /\ ts \in Seq(Nat) /\ Sorted(ts)
       /\ \A t : Holds(ts, t) <=> \E i \in 1..n : keys[i] # <<>> /\ key[i] = t
  BY <1>1, <1>4, <1>6, <1>8, FlattenSorted
<1>12. \A t : Holds(ts, t) <=> t \in Times(e, o)
  BY <1>5, <1>9, <1>10, <1>11
<1>13. v \in Seq(Nat) /\ Len(v) = Len(ts) /\ \A k \in 1..Len(ts) : v[k] = g[ts[k]]
  <2>1. /\ n \in Nat /\ keys \in [1..n -> Seq(Nat)] /\ seqs \in [1..n -> Seq(Nat)]
        /\ \A i \in 1..n : Maps(g, seqs[i], keys[i])
    BY <1>1, <1>4, <1>7 DEF Maps
  <2>2. FlattenSeq(seqs) \in Seq(Nat) /\ Maps(g, FlattenSeq(seqs), FlattenSeq(keys))
    BY <2>1, FlattenMapped
  <2> QED BY <2>2 DEF Maps
<1> HIDE DEF ts, v
<1>14. \A k \in 1..Len(ts) : ts[k] \in 1..n
  <2>1. \A k \in 1..Len(ts) : Holds(ts, ts[k])
    BY DEF Holds
  <2> QED BY <1>10, <1>12, <2>1
<1>15. \A k \in 1..Len(ts) : v[k] = s[ts[k]].catalog[o].idx_scan
  BY <1>9, <1>13, <1>14
<1>16. Len(ts) \in Nat \ {0}
  <2>1. PICK t : t \in Times(e, o)
    BY DEF Seen, Times
  <2>2. Holds(ts, t)
    BY <1>12, <2>1
  <2>3. 1..Len(ts) # {}
    BY <2>2 DEF Holds
  <2> QED BY <1>11, <2>3, LenProperties
<1> QED BY <1>2, <1>11, <1>12, <1>13, <1>15, <1>16 DEF ts, v

\* What a row adds to the increase.
IncreaseTerms(v) ==
  [i \in 1..Len(v) |-> IF i = 1 THEN 0 ELSE IF v[i] < v[i - 1] THEN v[i] ELSE v[i] - v[i - 1]]

\* increase as a sum over the rows.
LEMMA IncreaseIs ==
  ASSUME NEW v \in Seq(Nat)
  PROVE  increase(v) = SumFunctionOnSet(IncreaseTerms(v), 1..Len(v))
<1>1. DOMAIN v = 1..Len(v)
  BY LenProperties
<1>2. increase(v) = SumFunction(IncreaseTerms(v))
  BY <1>1 DEF increase, IncreaseTerms
<1>3. DOMAIN IncreaseTerms(v) = 1..Len(v)
  BY DEF IncreaseTerms
<1> QED BY <1>2, <1>3 DEF SumFunction

\* A counter that never goes down: the spread is the increase.
LEMMA IncreaseRising ==
  ASSUME NEW v \in Seq(Nat), Len(v) # 0,
         \A i, j \in 1..Len(v) : i <= j => v[i] <= v[j]
  PROVE  increase(v) = v[Len(v)] - v[1] /\ spread(v) = v[Len(v)] - v[1]
<1> DEFINE n == Len(v)
           d == IncreaseTerms(v)
<1>1. n \in Nat /\ n # 0 /\ DOMAIN v = 1..n /\ \A i \in 1..n : v[i] \in Nat
  BY LenProperties, ElementOfSeq
<1>2. \A i \in 2..n : i \in 1..n /\ i - 1 \in 1..n /\ i # 1 /\ i - 1 <= i
  BY <1>1
<1>3. 1 \in 1..n /\ n \in 1..n /\ \A i \in 1..n : 1 <= i /\ i <= n
  BY <1>1
<1>4. d[1] = 0 /\ \A i \in 2..n : d[i] = v[i] - v[i - 1]
  <2>1. d[1] = 0
    BY <1>3 DEF IncreaseTerms
  <2>2. ASSUME NEW i \in 2..n PROVE d[i] = v[i] - v[i - 1]
    <3>1. v[i - 1] <= v[i] /\ v[i] \in Nat /\ v[i - 1] \in Nat /\ i \in 1..n /\ i # 1
      BY <1>1, <1>2
    <3>2. ~ (v[i] < v[i - 1])
      BY <3>1
    <3> QED BY <3>1, <3>2 DEF IncreaseTerms
  <2> QED BY <2>1, <2>2
<1>5. \A i \in 1..n : d[i] \in Int /\ v[i] \in Int
  <2>1. \A i \in 1..n : i = 1 \/ i \in 2..n
    BY <1>1
  <2>2. \A i \in 2..n : v[i] \in Int /\ v[i - 1] \in Int
    BY <1>1, <1>2
  <2> HIDE DEF d, n
  <2>3. \A i \in 2..n : d[i] \in Int
    BY <1>4, <2>2
  <2> QED BY <1>1, <1>4, <2>1, <2>3
<1>6. increase(v) = v[n] - v[1]
  <2>1. increase(v) = SumFunctionOnSet(d, 1..n)
    BY IncreaseIs
  <2> HIDE DEF d, n
  <2>2. SumFunctionOnSet(d, 1..n) = v[n] - v[1]
    BY <1>1, <1>4, <1>5, TelescopeExactly
  <2> QED BY <2>1, <2>2
<1>7. spread(v) = v[n] - v[1]
  <2> DEFINE D == {v[i] - v[j] : i, j \in DOMAIN v}
             top == v[n] - v[1]
  <2>1. top \in D
    BY <1>1, <1>3
  <2>2. \A i, j \in 1..n : v[i] - v[j] <= top
    <3> SUFFICES ASSUME NEW i \in 1..n, NEW j \in 1..n PROVE v[i] - v[j] <= v[n] - v[1]
      OBVIOUS
    <3>1. v[i] <= v[n] /\ v[1] <= v[j]
      BY <1>3
    <3>2. v[i] \in Int /\ v[j] \in Int /\ v[n] \in Int /\ v[1] \in Int
      BY <1>1, <1>3
    <3> HIDE DEF n
    <3> QED BY <3>1, <3>2
  <2>3. ASSUME NEW x \in D, \A i, j \in DOMAIN v : v[i] - v[j] <= x PROVE x = top
    <3>0. \E i, j \in 1..n : x = v[i] - v[j]
      BY <1>1
    <3>1. x <= top
      BY <2>2, <3>0
    <3>3. top <= x
      <4>1. n \in DOMAIN v /\ 1 \in DOMAIN v
        BY <1>1, <1>3
      <4>2. \A i, j \in DOMAIN v : v[i] - v[j] <= x
        BY <2>3
      <4> HIDE DEF n, D
      <4> QED BY <4>1, <4>2
    <3>2. x \in Int /\ top \in Int
      BY <1>1, <1>3
    <3> HIDE DEF top
    <3> QED BY <3>1, <3>2, <3>3
  <2>4. spread(v) = CHOOSE x \in D : \A i, j \in DOMAIN v : v[i] - v[j] <= x
    BY DEF spread
  <2>5. \A i, j \in DOMAIN v : v[i] - v[j] <= top
    BY <1>1, <2>2
  <2> HIDE DEF D, top
  <2>6. spread(v) = top
    BY <2>1, <2>3, <2>4, <2>5
  <2> QED BY <2>6 DEF top
<1> QED BY <1>6, <1>7

\* A counter that only starts anew: nothing is added.
LEMMA IncreaseOfNothing ==
  ASSUME NEW v \in Seq(Nat), \A i \in 2..Len(v) : v[i] = 0 \/ v[i] = v[i - 1]
  PROVE  increase(v) = 0
<1> DEFINE n == Len(v)
           d == IncreaseTerms(v)
<1>1. n \in Nat /\ \A i \in 1..n : v[i] \in Nat
  BY LenProperties, ElementOfSeq
<1>2. ASSUME NEW i \in 1..n PROVE d[i] = 0
  <2>1. CASE i = 1
    BY <2>1 DEF IncreaseTerms
  <2>2. CASE i # 1
    <3>1. i \in 2..n /\ i - 1 \in 1..n
      BY <1>1, <2>2
    <3>2. (v[i] = 0 \/ v[i] = v[i - 1]) /\ v[i] \in Nat /\ v[i - 1] \in Nat
      BY <1>1, <3>1
    <3>3. d[i] = IF v[i] < v[i - 1] THEN v[i] ELSE v[i] - v[i - 1]
      BY <2>2 DEF IncreaseTerms
    <3> QED BY <3>2, <3>3
  <2> QED BY <2>1, <2>2
<1>3. SumFunctionOnSet(d, 1..n) = 0
  <2>1. IsFiniteSet(1..n) /\ \A x \in 1..n : d[x] = 0
    BY <1>1, <1>2, FS_Interval
  <2> HIDE DEF d, n
  <2> QED BY <2>1, SumOfZeroes
<1> QED BY <1>3, IncreaseIs

\* From the first row to the last.
LEMMA BetweenIs ==
  ASSUME EnvInv, NEW e \in Env, NEW o \in Seen(e), NEW what
  PROVE  LET ts == RowTimes(e, o)
         IN /\ Between(e, o, what) <=> Happens(samples[e], o, what, ts[1], ts[Len(ts)])
            /\ \A i, j \in 1..Len(ts) :
                 Happens(samples[e], o, what, ts[i], ts[j]) => Between(e, o, what)
<1> DEFINE ts == RowTimes(e, o)
           n == Len(ts)
<1>1. /\ Sorted(ts) /\ n \in Nat \ {0}
      /\ \A t : Holds(ts, t) <=> t \in Times(e, o)
  BY CounterIs
<1>2. \A t : t \in Times(e, o) <=> t \in 1..Len(samples[e]) /\ o \in samples[e][t].top
  BY DEF Times, EnvInv
<1>3. DOMAIN samples[e] = 1..Len(samples[e]) /\ Len(samples[e]) \in Nat
  BY DEF EnvInv
<1> HIDE DEF ts
<1>4. \A k \in 1..n : ts[k] \in 1..Len(samples[e]) /\ o \in samples[e][ts[k]].top
  <2>1. \A k \in 1..n : Holds(ts, ts[k])
    BY DEF Holds
  <2> QED BY <1>1, <1>2, <2>1
<1>5. ASSUME NEW i \in 1..n, NEW j \in 1..n, Happens(samples[e], o, what, ts[i], ts[j])
      PROVE  Between(e, o, what)
  <2>1. PICK m \in (ts[i] + 1)..ts[j] : o \in samples[e][m].since[what]
    BY <1>5 DEF Happens
  <2>2. ts[i] \in 1..Len(samples[e]) /\ ts[j] \in 1..Len(samples[e])
    BY <1>4
  <2>3. m \in 1..Len(samples[e]) /\ ts[i] < m /\ m <= ts[j]
    BY <1>3, <2>2
  <2> QED BY <1>3, <1>4, <2>1, <2>2, <2>3 DEF Between
<1>6. ASSUME Between(e, o, what) PROVE Happens(samples[e], o, what, ts[1], ts[n])
  <2>1. PICK i, j, k \in 1..Len(samples[e]) :
          /\ o \in samples[e][i].top /\ o \in samples[e][k].top
          /\ i < j /\ j <= k
          /\ o \in samples[e][j].since[what]
    BY <1>3, <1>6 DEF Between
  <2>2. PICK x \in 1..n : ts[x] = i
    BY <1>1, <1>2, <2>1 DEF Holds
  <2>3. PICK y \in 1..n : ts[y] = k
    BY <1>1, <1>2, <2>1 DEF Holds
  <2>4. 1 \in 1..n /\ n \in 1..n /\ 1 <= x /\ y <= n
    BY <1>1
  <2>5. ts[1] <= ts[x] /\ ts[y] <= ts[n]
    BY <1>1, <2>4 DEF Sorted
  <2>6. ts[1] \in Nat /\ ts[n] \in Nat
    BY <1>3, <1>4, <2>4
  <2>7. j \in (ts[1] + 1)..ts[n]
    BY <1>3, <2>1, <2>2, <2>3, <2>5, <2>6
  <2> QED BY <2>1, <2>7 DEF Happens
<1>7. 1 \in 1..n /\ n \in 1..n
  BY <1>1
<1>8. Between(e, o, what) <=> Happens(samples[e], o, what, ts[1], ts[n])
  BY <1>5, <1>6, <1>7
<1> QED BY <1>5, <1>8 DEF ts

\* Both stores, when the counter was not started anew; and ClickHouse always.
LEMMA ScansAre ==
  ASSUME ScanInv, NEW e \in Env, NEW o \in Seen(e)
  PROVE  /\ ~ Between(e, o, "renewed") =>
              /\ spread(Counter(e, o)) = increase(Counter(e, o))
              /\ increase(Counter(e, o)) = 0 <=> ~ Between(e, o, "scanned")
         /\ ~ Between(e, o, "scanned") => increase(Counter(e, o)) = 0
<1> DEFINE s == samples[e]
           ts == RowTimes(e, o)
           v == Counter(e, o)
           n == Len(v)
<1>0. EnvInv /\ Later(s)
  BY DEF ScanInv
<1>1. /\ ts \in Seq(Nat) /\ Sorted(ts) /\ n \in Nat \ {0} /\ v \in Seq(Nat) /\ Len(ts) = n
      /\ \A t : Holds(ts, t) <=> t \in Times(e, o)
      /\ \A k \in 1..n : v[k] = s[ts[k]].catalog[o].idx_scan
  BY <1>0, CounterIs
<1>2. \A what : /\ Between(e, o, what) <=> Happens(s, o, what, ts[1], ts[n])
                /\ \A i, j \in 1..n : Happens(s, o, what, ts[i], ts[j]) => Between(e, o, what)
  BY <1>0, <1>1, BetweenIs
<1> HIDE DEF ts, v
<1>3. ASSUME NEW k \in 1..n
      PROVE  /\ ts[k] \in 1..Len(s) /\ o \in DOMAIN s[ts[k]].catalog
             /\ v[k] = s[ts[k]].catalog[o].idx_scan /\ v[k] \in Nat
  <2>1. Holds(ts, ts[k])
    BY <1>1 DEF Holds
  <2>2. ts[k] \in DOMAIN s /\ o \in s[ts[k]].top
    BY <1>1, <2>1 DEF Times
  <2>3. DOMAIN s = 1..Len(s)
    BY <1>0 DEF EnvInv
  <2> DEFINE t == ts[k]
  <2>4. t \in DOMAIN s /\ o \in s[t].top
    BY <2>2
  <2> HIDE DEF t
  <2>5. s[t].catalog \in Catalogs /\ s[t].top \in Tops(s[t].catalog)
    BY <1>0, <2>4, SampleOf
  <2>6. o \in DOMAIN s[t].catalog
    BY <2>4, <2>5, TopsCut
  <2>7. s[t].catalog[o].idx_scan \in Nat
    BY <2>5, <2>6, ScanNat
  <2> QED BY <1>1, <2>2, <2>3, <2>6, <2>7 DEF t
<1>4. ASSUME NEW i \in 1..n, NEW j \in 1..n, i <= j
      PROVE  Traced(v[i], s[ts[j]].catalog, o,
               Happens(s, o, "renewed", ts[i], ts[j]), Happens(s, o, "scanned", ts[i], ts[j]))
  <2>1. ts[i] <= ts[j]
    BY <1>1, <1>4 DEF Sorted
  <2> QED BY <1>0, <1>3, <2>1 DEF Later
<1>5. \A i, j \in 1..n : i <= j =>
        /\ ~ Happens(s, o, "renewed", ts[i], ts[j]) =>
             v[i] <= v[j] /\ (Happens(s, o, "scanned", ts[i], ts[j]) <=> v[i] < v[j])
        /\ ~ Happens(s, o, "scanned", ts[i], ts[j]) => v[j] = 0 \/ v[j] = v[i]
  BY <1>3, <1>4 DEF Traced
<1>6. 1 \in 1..n /\ n \in 1..n /\ 1 <= n /\ n # 0
  BY <1>1
<1>7. ASSUME ~ Between(e, o, "renewed")
      PROVE  /\ spread(v) = increase(v)
             /\ increase(v) = 0 <=> ~ Between(e, o, "scanned")
  <2>1. \A i, j \in 1..n : i <= j => v[i] <= v[j]
    BY <1>2, <1>5, <1>7
  <2>2. increase(v) = v[n] - v[1] /\ spread(v) = v[n] - v[1]
    BY <1>1, <1>6, <2>1, IncreaseRising
  <2>3. Happens(s, o, "scanned", ts[1], ts[n]) <=> v[1] < v[n]
    BY <1>2, <1>5, <1>6, <1>7
  <2>4. v[1] \in Nat /\ v[n] \in Nat /\ v[1] <= v[n]
    BY <1>3, <1>6, <2>1
  <2>5. v[n] - v[1] = 0 <=> ~ (v[1] < v[n])
    BY <2>4
  <2> QED BY <1>2, <2>2, <2>3, <2>5
<1>8. ASSUME ~ Between(e, o, "scanned") PROVE increase(v) = 0
  <2>1. \A i \in 2..n : i \in 1..n /\ i - 1 \in 1..n /\ i - 1 <= i
    BY <1>1
  <2>2. \A i \in 2..n : v[i] = 0 \/ v[i] = v[i - 1]
    BY <1>2, <1>5, <1>8, <2>1
  <2> QED BY <1>1, <2>2, IncreaseOfNothing
<1> QED BY <1>7, <1>8 DEF v

\* An index that both boards list as unused was not scanned, one that was not
\* scanned is listed, and the shares of the two boards are the same.
THEOREM UnusedNotScanned == Spec => []UnusedWasNotScanned
<1>1. ScanInv => UnusedWasNotScanned
  <2> SUFFICES ASSUME ScanInv, NEW e \in Env
               PROVE  /\ \A o \in Seen(e) :
                           LET unused == ~ Between(e, o, "scanned") /\ LastRow(e, o).is_unique = 0
                           IN /\ ~ Between(e, o, "renewed") =>
                                   /\ o \in Unused(e, influx_scans(e)) <=> unused
                                   /\ o \in Unused(e, ch_scans(e)) <=> unused
                              /\ unused => o \in Unused(e, ch_scans(e))
                      /\ (\A o \in Seen(e) : ~ Between(e, o, "renewed")) =>
                           Share(influx_scans(e)) = Share(ch_scans(e))
    BY DEF UnusedWasNotScanned
  <2>1. \A o \in Seen(e) : /\ influx_scans(e)[o] = spread(Counter(e, o))
                           /\ ch_scans(e)[o] = increase(Counter(e, o))
    BY DEF influx_scans, ch_scans
  <2>2. ASSUME NEW o \in Seen(e)
        PROVE  /\ o \in Unused(e, influx_scans(e))
                    <=> spread(Counter(e, o)) = 0 /\ LastRow(e, o).is_unique = 0
               /\ o \in Unused(e, ch_scans(e))
                    <=> increase(Counter(e, o)) = 0 /\ LastRow(e, o).is_unique = 0
    BY <2>1 DEF Unused
  <2>3. ASSUME \A o \in Seen(e) : ~ Between(e, o, "renewed")
        PROVE  influx_scans(e) = ch_scans(e)
    <3>1. \A o \in Seen(e) : spread(Counter(e, o)) = increase(Counter(e, o))
      BY <2>3, ScansAre
    <3> QED BY <3>1 DEF influx_scans, ch_scans
  <2>4. ASSUME NEW o \in Seen(e)
        PROVE  LET unused == ~ Between(e, o, "scanned") /\ LastRow(e, o).is_unique = 0
               IN /\ ~ Between(e, o, "renewed") =>
                       /\ o \in Unused(e, influx_scans(e)) <=> unused
                       /\ o \in Unused(e, ch_scans(e)) <=> unused
                  /\ unused => o \in Unused(e, ch_scans(e))
    BY <2>2, ScansAre
  <2> QED BY <2>3, <2>4
<1> QED BY <1>1, ScanInvariant, PTL
=============================================================================
