---------------------------- MODULE FoldLemmas ----------------------------
(***************************************************************************)
(* What the folds of the community modules compute: sums over finite sets  *)
(* and over the positions of a sequence, and FlattenSeq.                   *)
(*                                                                         *)
(* Induction is stated for sets, so that no operator is a parameter.       *)
(***************************************************************************)
EXTENDS Integers, Sequences, SequencesExt, FiniteSetTheorems, SequenceTheorems,
        WellFoundedInduction, TLAPS

\* Induction over Nat, for a set.
LEMMA NatInd ==
  ASSUME NEW B, 0 \in B, \A n \in Nat : n \in B => n + 1 \in B
  PROVE  Nat \subseteq B
<1> SUFFICES ASSUME NEW m \in Nat, m \notin B PROVE FALSE
  OBVIOUS
<1> DEFINE R == OpToRel(<, Nat)
           T == Nat \ B
<1>1. T \subseteq Nat /\ T # {} /\ IsWellFoundedOn(R, Nat)
  BY NatLessThanWellFounded
<1>2. PICK x \in T : \A y \in T : ~ (<<y, x>> \in R)
  BY <1>1, WFMin
<1>3. \A y \in T : ~ (y < x)
  BY <1>1, <1>2 DEF OpToRel
<1>4. x \in Nat /\ x # 0
  OBVIOUS
<1>5. x - 1 \in Nat /\ x - 1 < x /\ (x - 1) + 1 = x
  BY <1>4
<1>6. x - 1 \in B
  BY <1>3, <1>5
<1> QED BY <1>4, <1>5, <1>6

\* One element less.
LEMMA CardinalityLess ==
  ASSUME NEW T, IsFiniteSet(T), NEW n \in Nat, Cardinality(T) = n + 1
  PROVE  /\ T # {}
         /\ \A x \in T : Cardinality(T \ {x}) = n
<1>1. \A m \in Nat : m = n + 1 => m # 0 /\ m - 1 = n
  OBVIOUS
<1>2. Cardinality(T) \in Nat
  BY FS_CardinalityType
<1>3. Cardinality(T) # 0 /\ Cardinality(T) - 1 = n
  BY <1>1, <1>2
<1>4. T # {}
  BY <1>3, FS_EmptySet
<1>5. \A x \in T : Cardinality(T \ {x}) = Cardinality(T) - 1
  BY FS_RemoveElement
<1> QED BY <1>3, <1>4, <1>5

\* Induction over the subsets of a finite set, for a set.
LEMMA SetInd ==
  ASSUME NEW S, IsFiniteSet(S), NEW B, {} \in B,
         \A T \in SUBSET S, x \in S : T \in B /\ x \notin T => T \cup {x} \in B
  PROVE  S \in B
<1> DEFINE A == {n \in Nat : \A T \in SUBSET S : Cardinality(T) = n => T \in B}
<1>1. 0 \in A
  <2>1. \A T \in SUBSET S : Cardinality(T) = 0 => T = {}
    BY FS_EmptySet, FS_Subset
  <2> QED BY <2>1
<1>2. ASSUME NEW n \in Nat, n \in A PROVE n + 1 \in A
  <2> SUFFICES ASSUME NEW T \in SUBSET S, Cardinality(T) = n + 1 PROVE T \in B
    OBVIOUS
  <2>1. IsFiniteSet(T)
    BY FS_Subset
  <2>2. T # {}
    BY <2>1, CardinalityLess
  <2>3. PICK x \in T : TRUE
    BY <2>2
  <2>4. Cardinality(T \ {x}) = n
    BY <2>1, CardinalityLess
  <2>5. T \ {x} \in B
    BY <1>2, <2>4
  <2>6. T = (T \ {x}) \cup {x}
    BY <2>3
  <2> QED BY <2>3, <2>5, <2>6
<1>3. Nat \subseteq A
  <2> HIDE DEF A
  <2> QED BY <1>1, <1>2, NatInd
<1>4. Cardinality(S) \in Nat
  BY FS_CardinalityType
<1> QED BY <1>3, <1>4

\* A function defined by recursion on 0..N.
Recursive(h, V, base, N, G) ==
  h \in [0..N -> V] /\ h[0] = base /\ \A i \in 1..N : h[i] = G[i][h[i - 1]]

\* There is such a function.
LEMMA Recursion ==
  ASSUME NEW V, NEW base \in V, NEW N \in Nat, NEW G \in [1..N -> [V -> V]]
  PROVE  \E h : Recursive(h, V, base, N, G)
<1> DEFINE B == {n \in Nat : n <= N => \E h \in [0..n -> V] :
                   h[0] = base /\ \A i \in 1..n : h[i] = G[i][h[i - 1]]}
<1>1. 0 \in B
  <2> DEFINE h == [i \in 0..0 |-> base]
  <2>1. h \in [0..0 -> V] /\ h[0] = base /\ 1..0 = {}
    OBVIOUS
  <2> QED BY <2>1
<1>2. ASSUME NEW n \in Nat, n \in B PROVE n + 1 \in B
  <2> SUFFICES ASSUME n + 1 <= N
               PROVE  \E h \in [0..(n + 1) -> V] :
                        h[0] = base /\ \A i \in 1..(n + 1) : h[i] = G[i][h[i - 1]]
    OBVIOUS
  <2>1. PICK h \in [0..n -> V] : h[0] = base /\ \A i \in 1..n : h[i] = G[i][h[i - 1]]
    BY <1>2
  <2>2. n + 1 \in 1..N /\ h[n] \in V
    OBVIOUS
  <2> DEFINE k == [i \in 0..(n + 1) |-> IF i <= n THEN h[i] ELSE G[n + 1][h[n]]]
  <2>3. G[n + 1][h[n]] \in V
    BY <2>2
  <2>4. k \in [0..(n + 1) -> V] /\ k[0] = base
    BY <2>1, <2>3
  <2>5. ASSUME NEW i \in 1..(n + 1) PROVE k[i] = G[i][k[i - 1]]
    <3>1. i - 1 \in 0..n /\ k[i - 1] = h[i - 1]
      OBVIOUS
    <3>2. CASE i <= n
      BY <2>1, <3>1, <3>2
    <3>3. CASE ~ (i <= n)
      <4>1. i = n + 1 /\ i - 1 = n
        BY <3>3
      <4>2. k[i] = G[n + 1][h[n]]
        BY <3>3
      <4>3. k[i - 1] = h[n]
        BY <3>1, <4>1
      <4> QED BY <4>1, <4>2, <4>3
    <3> QED BY <3>2, <3>3
  <2> QED BY <2>4, <2>5
<1>3. Nat \subseteq B
  <2> HIDE DEF B
  <2> QED BY <1>1, <1>2, NatInd
<1> QED BY <1>3 DEF Recursive

-----------------------------------------------------------------------------
(* Sums over finite sets                                                   *)

Chosen(s) == CHOOSE x \in s : TRUE

\* The function that SumFunctionOnSet evaluates, on the subsets of S.
Folding(f, S, h) ==
  h = [s \in SUBSET S |-> IF s = {} THEN 0 ELSE f[Chosen(s)] + h[s \ {Chosen(s)}]]

LEMMA FoldingIs ==
  ASSUME NEW f, NEW S, IsFiniteSet(S)
  PROVE  \E h : Folding(f, S, h)
<1> DEFINE Small(n) == {s \in SUBSET S : Cardinality(s) <= n}
           Part(n, h) == h = [s \in Small(n) |-> IF s = {} THEN 0 ELSE f[Chosen(s)] + h[s \ {Chosen(s)}]]
           B == {n \in Nat : \E h : Part(n, h)}
<1>0. \A s \in SUBSET S : IsFiniteSet(s) /\ Cardinality(s) \in Nat
  BY FS_Subset, FS_CardinalityType
<1>1. 0 \in B
  <2>1. \A s \in Small(0) : s = {}
    BY <1>0, FS_EmptySet
  <2>2. Part(0, [s \in Small(0) |-> 0])
    BY <2>1
  <2> QED BY <2>2
<1>2. ASSUME NEW n \in Nat, n \in B PROVE n + 1 \in B
  <2>1. PICK h : Part(n, h)
    BY <1>2
  <2> DEFINE k == [s \in Small(n + 1) |-> IF s = {} THEN 0 ELSE f[Chosen(s)] + h[s \ {Chosen(s)}]]
  <2>2. ASSUME NEW s \in Small(n + 1), s # {} PROVE k[s \ {Chosen(s)}] = h[s \ {Chosen(s)}]
    <3>1. Chosen(s) \in s
      BY <2>2 DEF Chosen
    <3>2. Cardinality(s \ {Chosen(s)}) = Cardinality(s) - 1
      BY <1>0, <3>1, FS_RemoveElement
    <3>3. s \ {Chosen(s)} \in Small(n)
      BY <1>0, <3>2
    <3>4. s \ {Chosen(s)} \in Small(n + 1)
      BY <1>0, <3>3
    <3> DEFINE r == s \ {Chosen(s)}
    <3>5. k[r] = IF r = {} THEN 0 ELSE f[Chosen(r)] + h[r \ {Chosen(r)}]
      BY <3>4
    <3>6. h[r] = IF r = {} THEN 0 ELSE f[Chosen(r)] + h[r \ {Chosen(r)}]
      BY <2>1, <3>3
    <3> QED BY <3>5, <3>6
  <2>3. Part(n + 1, k)
    BY <2>2
  <2>4. \E j : Part(n + 1, j)
    <3> HIDE DEF k, Part
    <3> QED BY <2>3
  <2> HIDE DEF Part
  <2> QED BY <2>4
<1>3. Nat \subseteq B
  <2> HIDE DEF B
  <2> QED BY <1>1, <1>2, NatInd
<1>4. PICK h : Part(Cardinality(S), h)
  BY <1>0, <1>3
<1>5. Small(Cardinality(S)) = SUBSET S
  BY FS_Subset
<1> QED BY <1>4, <1>5 DEF Folding

LEMMA SumIsFolding ==
  ASSUME NEW f, NEW S, IsFiniteSet(S)
  PROVE  \E h : Folding(f, S, h) /\ SumFunctionOnSet(f, S) = h[S]
<1> DEFINE h == CHOOSE h : h = [s \in SUBSET S |->
                  IF s = {} THEN 0
                  ELSE f[CHOOSE x \in s : TRUE] + h[s \ {CHOOSE x \in s : TRUE}]]
<1>1. \E k : k = [s \in SUBSET S |->
             IF s = {} THEN 0 ELSE f[CHOOSE x \in s : TRUE] + k[s \ {CHOOSE x \in s : TRUE}]]
  <2>1. PICK k : Folding(f, S, k)
    BY FoldingIs
  <2>2. k = [s \in SUBSET S |->
             IF s = {} THEN 0 ELSE f[CHOOSE x \in s : TRUE] + k[s \ {CHOOSE x \in s : TRUE}]]
    BY <2>1 DEF Folding, Chosen
  <2> QED BY <2>2
<1>2. h = [s \in SUBSET S |->
             IF s = {} THEN 0 ELSE f[CHOOSE x \in s : TRUE] + h[s \ {CHOOSE x \in s : TRUE}]]
  BY <1>1
<1>3. SumFunctionOnSet(f, S) = h[S]
  BY DEF SumFunctionOnSet, FoldFunctionOnSet, MapThenFoldSet
<1> HIDE DEF h
<1>4. Folding(f, S, h)
  BY <1>2 DEF Folding, Chosen
<1> QED BY <1>3, <1>4

\* It is the same function on the sets that two of them know.
LEMMA FoldingUnique ==
  ASSUME NEW f, NEW S, IsFiniteSet(S), NEW T \in SUBSET S,
         NEW h, Folding(f, S, h), NEW k, Folding(f, T, k)
  PROVE  k[T] = h[T]
<1> DEFINE B == {n \in Nat : \A s \in SUBSET T : Cardinality(s) = n => k[s] = h[s]}
<1>0. \A s \in SUBSET T : IsFiniteSet(s) /\ Cardinality(s) \in Nat /\ s \in SUBSET S
  BY FS_Subset, FS_CardinalityType
<1>1. 0 \in B
  <2>1. \A s \in SUBSET T : Cardinality(s) = 0 => s = {}
    BY <1>0, FS_EmptySet
  <2>2. k[{}] = 0 /\ h[{}] = 0
    BY DEF Folding
  <2> QED BY <2>1, <2>2
<1>2. ASSUME NEW n \in Nat, n \in B PROVE n + 1 \in B
  <2> SUFFICES ASSUME NEW s \in SUBSET T, Cardinality(s) = n + 1 PROVE k[s] = h[s]
    OBVIOUS
  <2>1. s # {}
    BY <1>0, CardinalityLess
  <2>2. Chosen(s) \in s
    BY <2>1 DEF Chosen
  <2>3. Cardinality(s \ {Chosen(s)}) = n
    BY <1>0, <2>2, CardinalityLess
  <2>4. k[s \ {Chosen(s)}] = h[s \ {Chosen(s)}]
    BY <1>2, <2>3
  <2>5. k[s] = f[Chosen(s)] + k[s \ {Chosen(s)}]
    BY <2>1 DEF Folding
  <2>6. h[s] = f[Chosen(s)] + h[s \ {Chosen(s)}]
    BY <1>0, <2>1 DEF Folding
  <2> QED BY <2>4, <2>5, <2>6
<1>3. Nat \subseteq B
  <2> HIDE DEF B
  <2> QED BY <1>1, <1>2, NatInd
<1> QED BY <1>0, <1>3

\* Nothing adds up to 0.
LEMMA SumEmpty == ASSUME NEW f PROVE SumFunctionOnSet(f, {}) = 0
<1>1. PICK h : Folding(f, {}, h) /\ SumFunctionOnSet(f, {}) = h[{}]
  BY SumIsFolding, FS_EmptySet
<1>2. h[{}] = 0
  BY <1>1 DEF Folding
<1> QED BY <1>1, <1>2

\* The first element a sum takes.
LEMMA SumAny ==
  ASSUME NEW f, NEW S, IsFiniteSet(S), S # {}
  PROVE  SumFunctionOnSet(f, S) = f[Chosen(S)] + SumFunctionOnSet(f, S \ {Chosen(S)})
<1>1. PICK h : Folding(f, S, h) /\ SumFunctionOnSet(f, S) = h[S]
  BY SumIsFolding
<1>2. IsFiniteSet(S \ {Chosen(S)})
  BY FS_Subset
<1>3. PICK k : Folding(f, S \ {Chosen(S)}, k) /\ SumFunctionOnSet(f, S \ {Chosen(S)}) = k[S \ {Chosen(S)}]
  BY <1>2, SumIsFolding
<1>4. k[S \ {Chosen(S)}] = h[S \ {Chosen(S)}]
  BY <1>1, <1>3, FoldingUnique
<1>5. h[S] = f[Chosen(S)] + h[S \ {Chosen(S)}]
  BY <1>1 DEF Folding
<1> QED BY <1>1, <1>3, <1>4, <1>5

\* A sum of integers is one.
LEMMA SumInt ==
  ASSUME NEW S, IsFiniteSet(S), NEW f, \A x \in S : f[x] \in Int
  PROVE  SumFunctionOnSet(f, S) \in Int
<1> DEFINE B == {n \in Nat : \A T \in SUBSET S :
                   Cardinality(T) = n => SumFunctionOnSet(f, T) \in Int}
<1>0. \A T \in SUBSET S : IsFiniteSet(T) /\ Cardinality(T) \in Nat
  BY FS_Subset, FS_CardinalityType
<1>1. 0 \in B
  <2>1. \A T \in SUBSET S : Cardinality(T) = 0 => T = {}
    BY <1>0, FS_EmptySet
  <2> QED BY <2>1, SumEmpty
<1>2. ASSUME NEW n \in Nat, n \in B PROVE n + 1 \in B
  <2> SUFFICES ASSUME NEW T \in SUBSET S, Cardinality(T) = n + 1
               PROVE  SumFunctionOnSet(f, T) \in Int
    OBVIOUS
  <2>1. T # {}
    BY <1>0, CardinalityLess
  <2>2. Chosen(T) \in T
    BY <2>1 DEF Chosen
  <2>3. Cardinality(T \ {Chosen(T)}) = n /\ T \ {Chosen(T)} \in SUBSET S
    BY <1>0, <2>2, CardinalityLess
  <2>4. SumFunctionOnSet(f, T \ {Chosen(T)}) \in Int
    BY <1>2, <2>3
  <2>5. SumFunctionOnSet(f, T) = f[Chosen(T)] + SumFunctionOnSet(f, T \ {Chosen(T)})
    BY <1>0, <2>1, SumAny
  <2> QED BY <2>2, <2>4, <2>5
<1>3. Nat \subseteq B
  <2> HIDE DEF B
  <2> QED BY <1>1, <1>2, NatInd
<1> QED BY <1>0, <1>3

\* A sum takes its elements in any order.
LEMMA SumRemove ==
  ASSUME NEW S, IsFiniteSet(S), NEW f, \A x \in S : f[x] \in Int, NEW y \in S
  PROVE  SumFunctionOnSet(f, S) = f[y] + SumFunctionOnSet(f, S \ {y})
<1> DEFINE B == {n \in Nat : \A T \in SUBSET S : Cardinality(T) = n =>
                   \A x \in T : SumFunctionOnSet(f, T) = f[x] + SumFunctionOnSet(f, T \ {x})}
<1>0. \A T \in SUBSET S : IsFiniteSet(T) /\ Cardinality(T) \in Nat
                            /\ SumFunctionOnSet(f, T) \in Int
  BY FS_Subset, FS_CardinalityType, SumInt
<1>1. 0 \in B
  <2>1. \A T \in SUBSET S : Cardinality(T) = 0 => T = {}
    BY <1>0, FS_EmptySet
  <2> QED BY <2>1
<1>2. ASSUME NEW n \in Nat, n \in B PROVE n + 1 \in B
  <2> SUFFICES ASSUME NEW T \in SUBSET S, Cardinality(T) = n + 1, NEW x \in T
               PROVE  SumFunctionOnSet(f, T) = f[x] + SumFunctionOnSet(f, T \ {x})
    OBVIOUS
  <2>1. PICK c \in T : SumFunctionOnSet(f, T) = f[c] + SumFunctionOnSet(f, T \ {c})
    <3>1. T # {}
      OBVIOUS
    <3>2. Chosen(T) \in T
      BY <3>1 DEF Chosen
    <3> QED BY <1>0, <3>1, <3>2, SumAny
  <2>2. CASE x = c
    BY <2>1, <2>2
  <2>3. CASE x # c
    <3> DEFINE r == SumFunctionOnSet(f, (T \ {c}) \ {x})
    <3>1. Cardinality(T \ {c}) = n /\ Cardinality(T \ {x}) = n
      BY <1>0, CardinalityLess
    <3>2. T \ {c} \in SUBSET S /\ T \ {x} \in SUBSET S /\ (T \ {c}) \ {x} \in SUBSET S
      OBVIOUS
    <3>3. SumFunctionOnSet(f, T \ {c}) = f[x] + r
      BY <1>2, <2>3, <3>1, <3>2
    <3>4. SumFunctionOnSet(f, T \ {x}) = f[c] + SumFunctionOnSet(f, (T \ {x}) \ {c})
      BY <1>2, <2>3, <3>1, <3>2
    <3>5. (T \ {x}) \ {c} = (T \ {c}) \ {x}
      OBVIOUS
    <3>6. r \in Int /\ f[x] \in Int /\ f[c] \in Int
      BY <1>0, <3>2
    <3> HIDE DEF r
    <3>7. SumFunctionOnSet(f, T \ {x}) = f[c] + r
      BY <3>4, <3>5 DEF r
    <3> QED BY <2>1, <3>3, <3>6, <3>7
  <2> QED BY <2>2, <2>3
<1>3. Nat \subseteq B
  <2> HIDE DEF B
  <2> QED BY <1>1, <1>2, NatInd
<1> QED BY <1>0, <1>3

\* One element more.
LEMMA SumAdd ==
  ASSUME NEW S, IsFiniteSet(S), NEW f, NEW y, y \notin S, \A x \in S \cup {y} : f[x] \in Int
  PROVE  SumFunctionOnSet(f, S \cup {y}) = f[y] + SumFunctionOnSet(f, S)
<1>1. IsFiniteSet(S \cup {y}) /\ (S \cup {y}) \ {y} = S
  BY FS_AddElement
<1> QED BY <1>1, SumRemove

\* Sums of smaller terms are smaller.
LEMMA SumLeq ==
  ASSUME NEW S, IsFiniteSet(S), NEW f, NEW g,
         \A x \in S : f[x] \in Int /\ g[x] \in Int /\ f[x] <= g[x]
  PROVE  SumFunctionOnSet(f, S) <= SumFunctionOnSet(g, S)
<1> DEFINE B == {T \in SUBSET S : SumFunctionOnSet(f, T) <= SumFunctionOnSet(g, T)}
<1>1. {} \in B
  BY SumEmpty
<1>2. ASSUME NEW T \in SUBSET S, NEW x \in S, T \in B, x \notin T PROVE T \cup {x} \in B
  <2>1. IsFiniteSet(T)
    BY FS_Subset
  <2>2. /\ SumFunctionOnSet(f, T \cup {x}) = f[x] + SumFunctionOnSet(f, T)
        /\ SumFunctionOnSet(g, T \cup {x}) = g[x] + SumFunctionOnSet(g, T)
    BY <1>2, <2>1, SumAdd
  <2>3. SumFunctionOnSet(f, T) \in Int /\ SumFunctionOnSet(g, T) \in Int
    BY <2>1, SumInt
  <2> QED BY <1>2, <2>2, <2>3
<1>3. S \in B
  <2> HIDE DEF B
  <2> QED BY <1>1, <1>2, SetInd
<1> QED BY <1>3

\* The sum of differences is the difference of the sums.
LEMMA SumMinus ==
  ASSUME NEW S, IsFiniteSet(S), NEW f, NEW g, NEW h,
         \A x \in S : f[x] \in Int /\ g[x] \in Int /\ h[x] = f[x] - g[x]
  PROVE  SumFunctionOnSet(h, S) = SumFunctionOnSet(f, S) - SumFunctionOnSet(g, S)
<1> DEFINE B == {T \in SUBSET S : SumFunctionOnSet(h, T) = SumFunctionOnSet(f, T) - SumFunctionOnSet(g, T)}
<1>0. \A x \in S : h[x] \in Int
  OBVIOUS
<1>1. {} \in B
  BY SumEmpty
<1>2. ASSUME NEW T \in SUBSET S, NEW x \in S, T \in B, x \notin T PROVE T \cup {x} \in B
  <2>1. IsFiniteSet(T)
    BY FS_Subset
  <2>2. /\ SumFunctionOnSet(f, T \cup {x}) = f[x] + SumFunctionOnSet(f, T)
        /\ SumFunctionOnSet(g, T \cup {x}) = g[x] + SumFunctionOnSet(g, T)
    BY <1>2, <2>1, SumAdd
  <2>3. SumFunctionOnSet(h, T \cup {x}) = h[x] + SumFunctionOnSet(h, T)
    BY <1>0, <1>2, <2>1, SumAdd
  <2>4. SumFunctionOnSet(f, T) \in Int /\ SumFunctionOnSet(g, T) \in Int
    BY <2>1, SumInt
  <2> QED BY <1>2, <2>2, <2>3, <2>4
<1>3. S \in B
  <2> HIDE DEF B
  <2> QED BY <1>1, <1>2, SetInd
<1> QED BY <1>3

\* Terms that are 0 can be left out.
LEMMA SumZeroes ==
  ASSUME NEW S, IsFiniteSet(S), NEW T \in SUBSET S, NEW f, NEW g,
         \A x \in T : f[x] \in Int /\ g[x] = f[x],
         \A x \in S \ T : f[x] = 0
  PROVE  SumFunctionOnSet(f, S) = SumFunctionOnSet(g, T)
<1> DEFINE B == {U \in SUBSET S : SumFunctionOnSet(f, U) = SumFunctionOnSet(g, U \cap T)}
<1>0. \A x \in S : f[x] \in Int
  OBVIOUS
<1>1. {} \in B
  BY SumEmpty
<1>2. ASSUME NEW U \in SUBSET S, NEW x \in S, U \in B, x \notin U PROVE U \cup {x} \in B
  <2>1. IsFiniteSet(U) /\ IsFiniteSet(U \cap T)
    BY FS_Subset
  <2>2. SumFunctionOnSet(f, U \cup {x}) = f[x] + SumFunctionOnSet(f, U)
    BY <1>0, <1>2, <2>1, SumAdd
  <2>3. SumFunctionOnSet(f, U) \in Int
    BY <1>0, <2>1, SumInt
  <2>4. CASE x \in T
    <3>1. SumFunctionOnSet(g, (U \cap T) \cup {x}) = g[x] + SumFunctionOnSet(g, U \cap T)
      BY <1>0, <1>2, <2>1, <2>4, SumAdd
    <3>2. (U \cup {x}) \cap T = (U \cap T) \cup {x}
      BY <2>4
    <3> QED BY <1>2, <2>2, <2>4, <3>1, <3>2
  <2>5. CASE x \notin T
    <3>1. (U \cup {x}) \cap T = U \cap T /\ f[x] = 0
      BY <2>5
    <3>2. SumFunctionOnSet(f, U \cup {x}) = SumFunctionOnSet(f, U)
      BY <2>2, <2>3, <3>1
    <3> QED BY <1>2, <3>1, <3>2
  <2> QED BY <2>4, <2>5
<1>3. S \in B
  <2> HIDE DEF B
  <2> QED BY <1>1, <1>2, SetInd
<1>4. S \cap T = T
  OBVIOUS
<1> QED BY <1>3, <1>4

-----------------------------------------------------------------------------
(* Sums over the positions of a sequence                                   *)

\* Zeroes add up to 0.
LEMMA SumOfZeroes ==
  ASSUME NEW S, IsFiniteSet(S), NEW d, \A x \in S : d[x] = 0
  PROVE  SumFunctionOnSet(d, S) = 0
<1> DEFINE B == {T \in SUBSET S : SumFunctionOnSet(d, T) = 0}
<1>1. {} \in B
  BY SumEmpty
<1>2. ASSUME NEW T \in SUBSET S, NEW x \in S, T \in B, x \notin T PROVE T \cup {x} \in B
  <2>1. IsFiniteSet(T) /\ \A y \in T \cup {x} : d[y] \in Int
    BY FS_Subset
  <2>2. SumFunctionOnSet(d, T \cup {x}) = d[x] + SumFunctionOnSet(d, T)
    BY <1>2, <2>1, SumAdd
  <2> QED BY <1>2, <2>2
<1>3. S \in B
  <2> HIDE DEF B
  <2> QED BY <1>1, <1>2, SetInd
<1> QED BY <1>3

\* One position more.
LEMMA SumLast ==
  ASSUME NEW n \in Nat, NEW d, \A i \in 1..(n + 1) : d[i] \in Int
  PROVE  /\ SumFunctionOnSet(d, 1..(n + 1)) = d[n + 1] + SumFunctionOnSet(d, 1..n)
         /\ SumFunctionOnSet(d, 1..n) \in Int
<1>1. IsFiniteSet(1..n) /\ n + 1 \notin 1..n /\ 1..(n + 1) = (1..n) \cup {n + 1}
  BY FS_Interval
<1>2. SumFunctionOnSet(d, (1..n) \cup {n + 1}) = d[n + 1] + SumFunctionOnSet(d, 1..n)
  BY <1>1, SumAdd
<1>3. SumFunctionOnSet(d, 1..n) \in Int
  BY <1>1, SumInt
<1> QED BY <1>1, <1>2, <1>3

\* Steps as long as those of p add up to what p goes up.
LEMMA TelescopeExactly ==
  ASSUME NEW n \in Nat, n # 0, NEW d, NEW p,
         \A i \in 1..n : d[i] \in Int /\ p[i] \in Int,
         d[1] = 0, \A i \in 2..n : d[i] = p[i] - p[i - 1]
  PROVE  SumFunctionOnSet(d, 1..n) = p[n] - p[1]
<1> DEFINE B == {m \in Nat : m + 1 <= n => SumFunctionOnSet(d, 1..(m + 1)) = p[m + 1] - p[1]}
<1>1. 0 \in B
  <2>1. 1..1 = {} \cup {1} /\ 0 + 1 = 1 /\ d[1] \in Int /\ p[1] \in Int
    OBVIOUS
  <2>2. SumFunctionOnSet(d, {} \cup {1}) = d[1] + SumFunctionOnSet(d, {})
    BY <2>1, SumAdd, FS_EmptySet
  <2>3. SumFunctionOnSet(d, 1..(0 + 1)) = p[0 + 1] - p[1]
    BY <2>1, <2>2, SumEmpty
  <2> QED BY <2>3
<1>2. ASSUME NEW m \in Nat, m \in B PROVE m + 1 \in B
  <2> SUFFICES ASSUME (m + 1) + 1 <= n
               PROVE  SumFunctionOnSet(d, 1..((m + 1) + 1)) = p[(m + 1) + 1] - p[1]
    OBVIOUS
  <2>1. /\ SumFunctionOnSet(d, 1..((m + 1) + 1)) = d[(m + 1) + 1] + SumFunctionOnSet(d, 1..(m + 1))
        /\ SumFunctionOnSet(d, 1..(m + 1)) \in Int
    BY SumLast
  <2>2. SumFunctionOnSet(d, 1..(m + 1)) = p[m + 1] - p[1]
    BY <1>2
  <2>3. d[(m + 1) + 1] = p[(m + 1) + 1] - p[m + 1]
    <3>1. (m + 1) + 1 \in 2..n /\ ((m + 1) + 1) - 1 = m + 1
      OBVIOUS
    <3> QED BY <3>1
  <2>4. /\ d[(m + 1) + 1] \in Int /\ p[(m + 1) + 1] \in Int
        /\ p[m + 1] \in Int /\ p[1] \in Int
    OBVIOUS
  <2> QED BY <2>1, <2>2, <2>3, <2>4
<1>3. Nat \subseteq B
  <2> HIDE DEF B
  <2> QED BY <1>1, <1>2, NatInd
<1>4. n - 1 \in Nat /\ (n - 1) + 1 = n
  OBVIOUS
<1>5. n - 1 \in B
  <2> HIDE DEF B
  <2> QED BY <1>3, <1>4
<1> QED BY <1>4, <1>5

\* Steps no longer than those of p add up to no more.
LEMMA Telescope ==
  ASSUME NEW n \in Nat, n # 0, NEW d, NEW p,
         \A i \in 1..n : d[i] \in Int /\ p[i] \in Int,
         d[1] = 0, \A i \in 2..n : d[i] <= p[i] - p[i - 1]
  PROVE  SumFunctionOnSet(d, 1..n) <= p[n] - p[1]
<1> DEFINE q == [i \in 1..n |-> IF i = 1 THEN 0 ELSE p[i] - p[i - 1]]
<1>1. \A i \in 2..n : i \in 1..n /\ i - 1 \in 1..n /\ i # 1
  OBVIOUS
<1>2. 1 \in 1..n /\ \A i \in 1..n : i # 1 => i \in 2..n
  OBVIOUS
<1>3. \A i \in 1..n : q[i] \in Int
  BY <1>1, <1>2
<1>4. q[1] = 0 /\ \A i \in 2..n : q[i] = p[i] - p[i - 1]
  BY <1>1, <1>2
<1>5. \A i \in 1..n : d[i] <= q[i]
  BY <1>2, <1>4
<1> HIDE DEF q
<1>6. SumFunctionOnSet(q, 1..n) = p[n] - p[1]
  BY <1>3, <1>4, TelescopeExactly
<1>7. SumFunctionOnSet(d, 1..n) <= SumFunctionOnSet(q, 1..n)
  <2>1. IsFiniteSet(1..n)
    BY FS_Interval
  <2> QED BY <1>3, <1>5, <2>1, SumLeq
<1> QED BY <1>6, <1>7

-----------------------------------------------------------------------------
(* FlattenSeq                                                              *)

Concatenated(h, V, n, seqs) ==
  /\ h \in [0..n -> Seq(V)] /\ h[0] = <<>>
  /\ \A i \in 1..n : h[i] = h[i - 1] \o seqs[i]

\* Every list of sequences has its partial concatenations.
LEMMA ConcatenatedIs ==
  ASSUME NEW V, NEW n \in Nat, NEW seqs \in [1..n -> Seq(V)]
  PROVE  \E h : Concatenated(h, V, n, seqs)
<1> DEFINE G == [i \in 1..n |-> [s \in Seq(V) |-> s \o seqs[i]]]
<1>1. G \in [1..n -> [Seq(V) -> Seq(V)]] /\ <<>> \in Seq(V)
  BY ConcatProperties
<1>2. PICK h : Recursive(h, Seq(V), <<>>, n, G)
  <2> HIDE DEF G
  <2> QED BY <1>1, Recursion
<1>3. ASSUME NEW i \in 1..n PROVE h[i] = h[i - 1] \o seqs[i]
  <2>1. i - 1 \in 0..n
    OBVIOUS
  <2>2. h[i - 1] \in Seq(V)
    BY <1>2, <2>1 DEF Recursive
  <2>3. h[i] = G[i][h[i - 1]]
    <3> HIDE DEF G
    <3> QED BY <1>2 DEF Recursive
  <2> QED BY <2>2, <2>3
<1> QED BY <1>2, <1>3 DEF Recursive, Concatenated

\* FlattenSeq is the last of them.
LEMMA FlattenIs ==
  ASSUME NEW V, NEW n \in Nat, n # 0, NEW seqs \in [1..n -> Seq(V)]
  PROVE  \E k : /\ \A i \in 1..n : k[i] = IF i = 1 THEN seqs[i] ELSE k[i - 1] \o seqs[i]
                /\ FlattenSeq(seqs) = k[n]
<1>1. seqs \in Seq(Seq(V)) /\ Len(seqs) = n
  OBVIOUS
<1>2. \E f : f = [i \in 1..n |-> IF i = 1 THEN seqs[i] ELSE f[i - 1] \o seqs[i]]
  <2>1. PICK h : Concatenated(h, V, n, seqs)
    BY ConcatenatedIs
  <2>2. h[0] = <<>> /\ \A i \in 1..n : h[i] = h[i - 1] \o seqs[i]
    BY <2>1 DEF Concatenated
  <2>3. h[1] = seqs[1]
    <3>1. 1 \in 1..n /\ 1 - 1 = 0 /\ seqs[1] \in Seq(V)
      OBVIOUS
    <3>2. h[1] = <<>> \o seqs[1]
      BY <2>2, <3>1
    <3> QED BY <3>1, <3>2, ConcatEmptySeq
  <2> DEFINE f == [i \in 1..n |-> h[i]]
  <2>4. ASSUME NEW i \in 1..n PROVE f[i] = IF i = 1 THEN seqs[i] ELSE f[i - 1] \o seqs[i]
    <3>1. CASE i = 1
      BY <2>3, <3>1
    <3>2. CASE i # 1
      <4>1. i - 1 \in 1..n
        BY <3>2
      <4> QED BY <2>2, <3>2, <4>1
    <3> QED BY <3>1, <3>2
  <2>5. f = [i \in 1..n |-> IF i = 1 THEN seqs[i] ELSE f[i - 1] \o seqs[i]]
    BY <2>4
  <2> HIDE DEF f
  <2> QED BY <2>5
<1> DEFINE k == CHOOSE k : k = [i \in 1..n |-> IF i = 1 THEN seqs[i] ELSE k[i - 1] \o seqs[i]]
<1>3. k = [i \in 1..n |-> IF i = 1 THEN seqs[i] ELSE k[i - 1] \o seqs[i]]
  BY <1>2
<1>4. FlattenSeq(seqs) = k[n]
  BY <1>1 DEF FlattenSeq
<1> HIDE DEF k
<1> QED BY <1>3, <1>4

Sorted(s) == \A i, j \in 1..Len(s) : i <= j => s[i] <= s[j]
Holds(s, v) == \E i \in 1..Len(s) : s[i] = v

\* Blocks of equal numbers, one block after the other.
LEMMA FlattenSorted ==
  ASSUME NEW n \in Nat, NEW seqs \in [1..n -> Seq(Nat)], NEW key \in [1..n -> Nat],
         \A i, j \in 1..n : i <= j => key[i] <= key[j],
         \A i \in 1..n : \A j \in 1..Len(seqs[i]) : seqs[i][j] = key[i]
  PROVE  /\ FlattenSeq(seqs) \in Seq(Nat) /\ Sorted(FlattenSeq(seqs))
         /\ \A v : Holds(FlattenSeq(seqs), v) <=> \E i \in 1..n : seqs[i] # <<>> /\ key[i] = v
<1>1. CASE n = 0
  <2>1. seqs = <<>> /\ Len(seqs) = 0
    BY <1>1
  <2>2. FlattenSeq(seqs) = <<>>
    BY <2>1 DEF FlattenSeq
  <2>3. Len(<<>>) = 0 /\ <<>> \in Seq(Nat) /\ 1..0 = {} /\ 1..n = {}
    BY <1>1
  <2> QED BY <2>2, <2>3 DEF Sorted, Holds
<1>2. CASE n # 0
  <2>1. PICK k : /\ \A i \in 1..n : k[i] = IF i = 1 THEN seqs[i] ELSE k[i - 1] \o seqs[i]
                 /\ FlattenSeq(seqs) = k[n]
    BY <1>2, FlattenIs
  <2> DEFINE Good(m) == /\ k[m] \in Seq(Nat) /\ Sorted(k[m])
                        /\ \A v : Holds(k[m], v) <=> \E i \in 1..m : seqs[i] # <<>> /\ key[i] = v
             B == {m \in Nat : m + 1 <= n => Good(m + 1)}
  <2>0. \A i \in 1..n : /\ seqs[i] \in Seq(Nat) /\ Len(seqs[i]) \in Nat /\ key[i] \in Nat
                         /\ seqs[i] # <<>> <=> Len(seqs[i]) # 0
    BY EmptySeq, LenProperties
  <2>2. 0 \in B
    <3>1. k[1] = seqs[1] /\ 1 \in 1..n
      BY <1>2, <2>1
    <3>2. Sorted(seqs[1])
      BY <2>0, <3>1 DEF Sorted
    <3>3. \A v : Holds(seqs[1], v) <=> seqs[1] # <<>> /\ key[1] = v
      <4>1. \A i \in 1..Len(seqs[1]) : seqs[1][i] = key[1]
        BY <3>1
      <4>2. seqs[1] # <<>> => 1 \in 1..Len(seqs[1])
        BY <2>0, <3>1
      <4>3. seqs[1] = <<>> => 1..Len(seqs[1]) = {}
        BY <2>0, <3>1
      <4> QED BY <4>1, <4>2, <4>3 DEF Holds
    <3>4. 1..1 = {1}
      OBVIOUS
    <3> QED BY <2>0, <3>1, <3>2, <3>3, <3>4
  <2>3. ASSUME NEW m \in Nat, m \in B PROVE m + 1 \in B
    <3> SUFFICES ASSUME (m + 1) + 1 <= n PROVE Good((m + 1) + 1)
      OBVIOUS
    <3> DEFINE a == m + 1
               b == (m + 1) + 1
               s == k[a]
               t == seqs[b]
    <3>1. a \in 1..n /\ b \in 1..n /\ b # 1 /\ b - 1 = a /\ 1..b = (1..a) \cup {b}
      OBVIOUS
    <3>2. k[b] = s \o t
      BY <2>1, <3>1
    <3>3. Good(a)
      BY <2>3
    <3>4. s \in Seq(Nat) /\ t \in Seq(Nat) /\ Len(s) \in Nat /\ Len(t) \in Nat
      BY <2>0, <3>1, <3>3, LenProperties
    <3>5. \A i \in 1..Len(t) : t[i] = key[b]
      BY <3>1
    <3>6. \A i \in 1..Len(s) : s[i] \in Nat /\ s[i] <= key[b]
      <4>1. ASSUME NEW i \in 1..Len(s) PROVE s[i] \in Nat /\ s[i] <= key[b]
        <5>1. Holds(s, s[i])
          BY DEF Holds
        <5>2. PICK j \in 1..a : key[j] = s[i]
          BY <3>3, <5>1
        <5>3. j \in 1..n /\ j <= b
          BY <3>1, <5>2
        <5> QED BY <2>0, <3>1, <5>2, <5>3
      <4> QED BY <4>1
    <3>7. (t # <<>>) <=> Len(t) # 0
      BY <2>0, <3>1
    <3>8. \A v : Holds(s, v) <=> \E i \in 1..a : seqs[i] # <<>> /\ key[i] = v
      BY <3>3
    <3>9. Sorted(s)
      BY <3>3
    <3>10. key[b] \in Nat
      BY <2>0, <3>1
    <3> HIDE DEF a, b, s, t, Good
    <3>11. /\ s \o t \in Seq(Nat) /\ Len(s \o t) = Len(s) + Len(t)
           /\ \A i \in 1..(Len(s) + Len(t)) : (s \o t)[i] = IF i <= Len(s) THEN s[i] ELSE t[i - Len(s)]
      BY <3>4, ConcatProperties
    <3>12. \A i \in 1..(Len(s) + Len(t)) : i <= Len(s) => i \in 1..Len(s)
      BY <3>4
    <3>13. \A i \in 1..(Len(s) + Len(t)) : ~(i <= Len(s)) => i - Len(s) \in 1..Len(t) /\ (s \o t)[i] = key[b]
      <4>1. \A i \in 1..(Len(s) + Len(t)) : ~(i <= Len(s)) => i - Len(s) \in 1..Len(t)
        BY <3>4
      <4> QED BY <3>5, <3>11, <4>1
    <3>14. Sorted(s \o t)
      <4> SUFFICES ASSUME NEW i \in 1..(Len(s) + Len(t)), NEW j \in 1..(Len(s) + Len(t)), i <= j
                   PROVE  (s \o t)[i] <= (s \o t)[j]
        BY <3>11 DEF Sorted
      <4>1. CASE j <= Len(s)
        <5>1. i <= Len(s)
          BY <3>4, <4>1
        <5>2. i \in 1..Len(s) /\ j \in 1..Len(s)
          BY <3>12, <4>1, <5>1
        <5>3. s[i] <= s[j]
          BY <3>9, <5>2 DEF Sorted
        <5> QED BY <3>11, <4>1, <5>1, <5>3
      <4>2. CASE ~(j <= Len(s)) /\ i <= Len(s)
        BY <3>6, <3>11, <3>12, <3>13, <4>2
      <4>3. CASE ~(j <= Len(s)) /\ ~(i <= Len(s))
        BY <3>10, <3>13, <4>3
      <4> QED BY <4>1, <4>2, <4>3
    <3>15. ASSUME NEW v PROVE Holds(s \o t, v) <=> Holds(s, v) \/ (t # <<>> /\ key[b] = v)
      <4>1. ASSUME Holds(s \o t, v) PROVE Holds(s, v) \/ (t # <<>> /\ key[b] = v)
        <5>1. PICK i \in 1..(Len(s) + Len(t)) : (s \o t)[i] = v
          BY <3>11, <4>1 DEF Holds
        <5>2. CASE i <= Len(s)
          BY <3>11, <3>12, <5>1, <5>2 DEF Holds
        <5>3. CASE ~(i <= Len(s))
          <6>1. i - Len(s) \in 1..Len(t) /\ key[b] = v
            BY <3>13, <5>1, <5>3
          <6>2. Len(t) # 0
            BY <3>4, <6>1
          <6> QED BY <3>7, <6>1, <6>2
        <5> QED BY <5>2, <5>3
      <4>2. ASSUME Holds(s, v) PROVE Holds(s \o t, v)
        <5>1. PICK i \in 1..Len(s) : s[i] = v
          BY <4>2 DEF Holds
        <5>2. i \in 1..(Len(s) + Len(t)) /\ i <= Len(s)
          BY <3>4
        <5>3. (s \o t)[i] = v
          BY <3>11, <5>1, <5>2
        <5> QED BY <3>11, <5>2, <5>3 DEF Holds
      <4>3. ASSUME t # <<>>, key[b] = v PROVE Holds(s \o t, v)
        <5>1. Len(s) + Len(t) \in 1..(Len(s) + Len(t)) /\ ~(Len(s) + Len(t) <= Len(s))
          BY <3>4, <3>7, <4>3
        <5>2. (s \o t)[Len(s) + Len(t)] = v
          BY <3>13, <4>3, <5>1
        <5> QED BY <3>11, <5>1, <5>2 DEF Holds
      <4> QED BY <4>1, <4>2, <4>3
    <3>16. ASSUME NEW v
           PROVE  Holds(s \o t, v) <=> \E i \in 1..b : seqs[i] # <<>> /\ key[i] = v
      <4>1. 1..b = (1..a) \cup {b}
        BY <3>1
      <4>2. t = seqs[b]
        BY DEF t
      <4> QED BY <3>8, <3>15, <4>1, <4>2
    <3>17. Good(b)
      BY <3>2, <3>11, <3>14, <3>16 DEF Good
    <3> QED BY <3>17 DEF b
  <2>4. Nat \subseteq B
    <3> HIDE DEF B
    <3> QED BY <2>2, <2>3, NatInd
  <2>5. n - 1 \in Nat /\ (n - 1) + 1 = n
    BY <1>2
  <2>6. n - 1 \in B
    <3> HIDE DEF B
    <3> QED BY <2>4, <2>5
  <2> QED BY <2>1, <2>5, <2>6
<1> QED BY <1>1, <1>2

\* s has the values of g at the positions t.
Maps(g, s, t) == Len(s) = Len(t) /\ \A j \in 1..Len(t) : s[j] = g[t[j]]

\* Blocks of values, one block after the other.
LEMMA FlattenMapped ==
  ASSUME NEW n \in Nat, NEW V, NEW g,
         NEW keys \in [1..n -> Seq(Nat)], NEW seqs \in [1..n -> Seq(V)],
         \A i \in 1..n : Maps(g, seqs[i], keys[i])
  PROVE  FlattenSeq(seqs) \in Seq(V) /\ Maps(g, FlattenSeq(seqs), FlattenSeq(keys))
<1>1. CASE n = 0
  <2>1. seqs = <<>> /\ keys = <<>> /\ Len(seqs) = 0 /\ Len(keys) = 0
    BY <1>1
  <2>2. FlattenSeq(seqs) = <<>> /\ FlattenSeq(keys) = <<>>
    BY <2>1 DEF FlattenSeq
  <2>3. Len(<<>>) = 0 /\ <<>> \in Seq(V) /\ 1..0 = {}
    OBVIOUS
  <2> QED BY <2>2, <2>3 DEF Maps
<1>2. CASE n # 0
  <2>1. PICK k : /\ \A i \in 1..n : k[i] = IF i = 1 THEN seqs[i] ELSE k[i - 1] \o seqs[i]
                 /\ FlattenSeq(seqs) = k[n]
    BY <1>2, FlattenIs
  <2>2. PICK l : /\ \A i \in 1..n : l[i] = IF i = 1 THEN keys[i] ELSE l[i - 1] \o keys[i]
                 /\ FlattenSeq(keys) = l[n]
    BY <1>2, FlattenIs
  <2> DEFINE Same(s, t) == s \in Seq(V) /\ t \in Seq(Nat) /\ Maps(g, s, t)
             B == {m \in Nat : m + 1 <= n => Same(k[m + 1], l[m + 1])}
  <2>3. \A i \in 1..n : Same(seqs[i], keys[i])
    OBVIOUS
  <2>4. 0 \in B
    <3>1. k[1] = seqs[1] /\ l[1] = keys[1] /\ 1 \in 1..n
      BY <1>2, <2>1, <2>2
    <3> QED BY <2>3, <3>1
  <2>5. ASSUME NEW m \in Nat, m \in B PROVE m + 1 \in B
    <3> SUFFICES ASSUME (m + 1) + 1 <= n PROVE Same(k[(m + 1) + 1], l[(m + 1) + 1])
      OBVIOUS
    <3> DEFINE a == m + 1
               b == (m + 1) + 1
    <3>1. a \in 1..n /\ b \in 1..n /\ b # 1 /\ b - 1 = a
      OBVIOUS
    <3>2. k[b] = k[a] \o seqs[b] /\ l[b] = l[a] \o keys[b]
      BY <2>1, <2>2, <3>1
    <3>3. Same(k[a], l[a]) /\ Same(seqs[b], keys[b])
      BY <2>3, <2>5, <3>1
    <3> HIDE DEF a, b, Same
    <3>4. ASSUME NEW s, NEW t, NEW s2, NEW t2, Same(s, t), Same(s2, t2)
          PROVE  Same(s \o s2, t \o t2)
      <4>1. /\ s \in Seq(V) /\ t \in Seq(Nat) /\ s2 \in Seq(V) /\ t2 \in Seq(Nat)
            /\ Len(s) = Len(t) /\ Len(s2) = Len(t2)
            /\ \A j \in 1..Len(t) : s[j] = g[t[j]]
            /\ \A j \in 1..Len(t2) : s2[j] = g[t2[j]]
        BY <3>4 DEF Same, Maps
      <4>6. s \in Seq(V) /\ s2 \in Seq(V)
        BY <4>1
      <4>2. /\ s \o s2 \in Seq(V) /\ Len(s \o s2) = Len(s) + Len(s2)
            /\ \A i \in 1..(Len(s) + Len(s2)) : (s \o s2)[i] = IF i <= Len(s) THEN s[i] ELSE s2[i - Len(s)]
        BY <4>6, ConcatProperties
      <4>5. /\ t \o t2 \in Seq(Nat) /\ Len(t \o t2) = Len(t) + Len(t2)
            /\ \A i \in 1..(Len(t) + Len(t2)) : (t \o t2)[i] = IF i <= Len(t) THEN t[i] ELSE t2[i - Len(t)]
        BY <4>1, ConcatProperties
      <4>3. Len(t) \in Nat /\ Len(t2) \in Nat
        BY <4>1, LenProperties
      <4>4. ASSUME NEW i \in 1..(Len(t) + Len(t2)) PROVE (s \o s2)[i] = g[(t \o t2)[i]]
        <5>1. CASE i <= Len(t)
          <6>1. i \in 1..Len(t)
            BY <4>3, <5>1
          <6>2. (s \o s2)[i] = s[i] /\ (t \o t2)[i] = t[i]
            BY <4>1, <4>2, <4>5, <5>1
          <6> QED BY <4>1, <6>1, <6>2
        <5>2. CASE ~ (i <= Len(t))
          <6>1. i - Len(t) \in 1..Len(t2)
            BY <4>3, <5>2
          <6>2. (s \o s2)[i] = s2[i - Len(t)] /\ (t \o t2)[i] = t2[i - Len(t)]
            BY <4>1, <4>2, <4>5, <5>2
          <6> QED BY <4>1, <6>1, <6>2
        <5> QED BY <5>1, <5>2
      <4> QED BY <4>1, <4>2, <4>4, <4>5 DEF Same, Maps
    <3>5. Same(k[b], l[b])
      BY <3>2, <3>3, <3>4
    <3> QED BY <3>5 DEF b
  <2>6. Nat \subseteq B
    <3> HIDE DEF B
    <3> QED BY <2>4, <2>5, NatInd
  <2>7. n - 1 \in Nat /\ (n - 1) + 1 = n
    BY <1>2
  <2>8. n - 1 \in B
    <3> HIDE DEF B
    <3> QED BY <2>6, <2>7
  <2> QED BY <2>1, <2>2, <2>7, <2>8
<1> QED BY <1>1, <1>2

\* As long as all of its blocks together.
LEMMA FlattenLength ==
  ASSUME NEW n \in Nat, NEW V, NEW seqs \in [1..n -> Seq(V)],
         NEW lens, \A i \in 1..n : lens[i] = Len(seqs[i])
  PROVE  /\ FlattenSeq(seqs) \in Seq(V)
         /\ Len(FlattenSeq(seqs)) = SumFunctionOnSet(lens, 1..n)
<1>0. \A i \in 1..n : lens[i] \in Int
  BY LenProperties
<1>1. CASE n = 0
  <2>1. seqs = <<>> /\ Len(seqs) = 0
    BY <1>1
  <2>2. FlattenSeq(seqs) = <<>>
    BY <2>1 DEF FlattenSeq
  <2>3. Len(<<>>) = 0 /\ <<>> \in Seq(V) /\ 1..n = {}
    BY <1>1
  <2> QED BY <2>2, <2>3, SumEmpty
<1>2. CASE n # 0
  <2>1. PICK k : /\ \A i \in 1..n : k[i] = IF i = 1 THEN seqs[i] ELSE k[i - 1] \o seqs[i]
                 /\ FlattenSeq(seqs) = k[n]
    BY <1>2, FlattenIs
  <2> DEFINE Good(m) == k[m] \in Seq(V) /\ Len(k[m]) = SumFunctionOnSet(lens, 1..m)
             B == {m \in Nat : m + 1 <= n => Good(m + 1)}
  <2>2. 0 \in B
    <3>1. k[1] = seqs[1] /\ 1 \in 1..n
      BY <1>2, <2>1
    <3>2. SumFunctionOnSet(lens, 1..1) = lens[1] + 0
      <4>1. 1..1 = {} \cup {1} /\ 1 \notin {}
        OBVIOUS
      <4>2. \A x \in {} \cup {1} : lens[x] \in Int
        BY <1>0, <3>1
      <4>3. SumFunctionOnSet(lens, {} \cup {1}) = lens[1] + SumFunctionOnSet(lens, {})
        BY <4>2, SumAdd, FS_EmptySet
      <4> QED BY <4>1, <4>3, SumEmpty
    <3>3. lens[1] = Len(seqs[1]) /\ lens[1] \in Int
      BY <1>0, <3>1
    <3> QED BY <3>1, <3>2, <3>3
  <2>3. ASSUME NEW m \in Nat, m \in B PROVE m + 1 \in B
    <3> SUFFICES ASSUME (m + 1) + 1 <= n PROVE Good((m + 1) + 1)
      OBVIOUS
    <3> DEFINE a == m + 1
               b == a + 1
    <3>1. a \in Nat /\ a \in 1..n /\ b \in 1..n /\ b # 1 /\ b - 1 = a /\ \A i \in 1..b : i \in 1..n
      OBVIOUS
    <3>2. k[b] = k[a] \o seqs[b]
      BY <2>1, <3>1
    <3>3. Good(a)
      BY <2>3
    <3> HIDE DEF a
    <3>4. SumFunctionOnSet(lens, 1..b) = lens[b] + SumFunctionOnSet(lens, 1..a)
      <4>1. \A i \in 1..(a + 1) : lens[i] \in Int
        BY <1>0, <3>1
      <4> QED BY <3>1, <4>1, SumLast
    <3>5. seqs[b] \in Seq(V) /\ lens[b] = Len(seqs[b]) /\ k[a] \in Seq(V)
          /\ Len(k[a]) = SumFunctionOnSet(lens, 1..a)
      BY <3>1, <3>3
    <3>6. k[a] \o seqs[b] \in Seq(V) /\ Len(k[a] \o seqs[b]) = Len(k[a]) + Len(seqs[b])
      <4>1. k[a] \in Seq(V) /\ seqs[b] \in Seq(V)
        BY <3>5
      <4> QED BY <4>1, ConcatProperties
    <3>7. Len(k[a]) \in Nat /\ Len(seqs[b]) \in Nat
      BY <3>5, LenProperties
    <3>8. Len(k[b]) = SumFunctionOnSet(lens, 1..b)
      BY <3>2, <3>4, <3>5, <3>6, <3>7
    <3> QED BY <3>2, <3>6, <3>8 DEF a
  <2>4. Nat \subseteq B
    <3> HIDE DEF B
    <3> QED BY <2>2, <2>3, NatInd
  <2>5. n - 1 \in Nat /\ (n - 1) + 1 = n
    BY <1>2
  <2>6. n - 1 \in B
    <3> HIDE DEF B
    <3> QED BY <2>4, <2>5
  <2> QED BY <2>1, <2>5, <2>6
<1> QED BY <1>1, <1>2
=============================================================================
