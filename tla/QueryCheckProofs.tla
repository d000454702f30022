-------------------------- MODULE QueryCheckProofs --------------------------
(***************************************************************************)
(* Theorems of QueryCheck, as a part of Dashboards, for any boards that    *)
(* are askable and any answers of the servers: what exit code the check    *)
(* ends with, and what is put into its queries.                            *)
(***************************************************************************)
EXTENDS Dashboards, FoldLemmas, TLAPS

\* Queries of every board and pass, and of the boards and passes up to n.
Counts == [j \in DOMAIN Jobs |-> QueriesOf(Board[Jobs[j].uid])]
AskedUpTo(n) == SumFunctionOnSet(Counts, 1..n)

\* Queries of board b up to query a.
VariablesAsked(b, a) ==
  Cardinality({i \in DOMAIN b.vars : i < a /\ b.vars[i].type = "query"})
TargetsAsked(b, a) == IF a > Len(b.vars) + 1 THEN a - (Len(b.vars) + 1) ELSE 0
AskedOf(b, a) == IF a = 0 THEN 0 ELSE VariablesAsked(b, a) + TargetsAsked(b, a)

\* The variables of board b before query a.
Before(b, a) == {b.vars[k].name : k \in {i \in DOMAIN b.vars : i < a}}

\* Within a board: its file is loaded, and the variables before are selected.
AtBoard ==
  /\ job <= Len(Jobs) /\ loaded = Contents(Board[Uid])
  /\ at <= Len(loaded.vars) + Len(loaded.targets) + 1
  /\ setting.clickhouse => DOMAIN values = Before(loaded, at)

\* While the check runs, the queries asked are those of the boards and passes
\* before this one and those of this one up to the next.
AtQueryOf ==
  /\ job \in 1..Len(Jobs) + 1 /\ at \in Nat
  /\ at # 0 => AtBoard
  /\ asked = AskedUpTo(job - 1) + AskedOf(loaded, at)

\* Every query without an answer is counted, and one that the server failed.
Counted == failed \in BOOLEAN /\ missed = failed /\ (failed => outage)

CheckInv ==
  /\ exit \in {"idle", "running", "0", "1"}
  /\ Len(loaded.vars) \in Nat /\ Len(loaded.targets) \in Nat
  /\ exit = "idle" => job = 1 /\ at = 0 /\ asked = 0
  /\ exit # "idle" => setting \in Settings
  /\ exit \in {"idle", "running"} => Counted
  /\ exit = "running" => AtQueryOf
  /\ exit = "0" => asked = QueriesToAsk /\ ~missed
  /\ exit = "1" => outage

-----------------------------------------------------------------------------
(* Boards and their queries                                                *)

\* A board that can be asked: its variables, its targets and their numbers.
LEMMA BoardTyped ==
  ASSUME BoardsAskable, NEW uid \in Uids
  PROVE  LET b == Board[uid]
         IN /\ Len(b.vars) \in Nat /\ DOMAIN b.vars = 1..Len(b.vars)
            /\ Len(TargetsOf(b.panels)) \in Nat
            /\ DOMAIN TargetsOf(b.panels) = 1..Len(TargetsOf(b.panels))
            /\ Len(TargetsOf(b.panels)) = SumFunction([i \in DOMAIN b.panels |-> Len(b.panels[i].targets)])
<1> DEFINE vars_ == Board[uid].vars
           panels == Board[uid].panels
           n == Len(panels)
<1>1. /\ vars_ \in Seq(ToSet(vars_)) /\ panels \in Seq(ToSet(panels))
      /\ \A p \in ToSet(panels) : p.targets \in Seq(ToSet(p.targets))
  BY DEF BoardsAskable, IsSeq
<1> HIDE DEF vars_, panels
<1>2. Len(vars_) \in Nat /\ DOMAIN vars_ = 1..Len(vars_)
  BY <1>1, LenProperties
<1>3. n \in Nat /\ DOMAIN panels = 1..n
  BY <1>1, LenProperties
<1>4. \A i \in 1..n : panels[i] \in ToSet(panels)
  BY <1>3 DEF ToSet
<1>5. \A i \in 1..n : Len(panels[i].targets) \in Nat
  BY <1>1, <1>4, LenProperties
<1> DEFINE block(i) == [t \in 1..Len(panels[i].targets) |->
                         [from |-> panels[i].from, by |-> panels[i].by, filters |-> panels[i].targets[t]]]
           seqs == [i \in 1..n |-> block(i)]
           V == UNION {{block(i)[t] : t \in 1..Len(panels[i].targets)} : i \in 1..n}
           lens == [i \in 1..n |-> Len(panels[i].targets)]
<1>6. TargetsOf(panels) = FlattenSeq(seqs)
  BY DEF TargetsOf
<1>7. ASSUME NEW i \in 1..n PROVE block(i) \in Seq(V) /\ Len(block(i)) = Len(panels[i].targets)
  <2> DEFINE m == Len(panels[i].targets)
  <2>1. m \in Nat
    BY <1>5
  <2>2. \A t \in 1..m : block(i)[t] \in V
    OBVIOUS
  <2>3. block(i) = [t \in 1..m |-> block(i)[t]]
    OBVIOUS
  <2> HIDE DEF m, block, V
  <2>4. block(i) \in [1..m -> V]
    BY <2>2, <2>3
  <2>5. block(i) \in Seq(V) /\ Len(block(i)) = m
    BY <2>1, <2>4
  <2> QED BY <2>5 DEF m
<1> HIDE DEF block
<1>8. seqs \in [1..n -> Seq(V)] /\ \A i \in 1..n : lens[i] = Len(seqs[i])
  BY <1>7
<1>9. FlattenSeq(seqs) \in Seq(V) /\ Len(FlattenSeq(seqs)) = SumFunctionOnSet(lens, 1..n)
  <2> HIDE DEF seqs, V, lens, n
  <2> QED BY <1>3, <1>8, FlattenLength
<1>10. SumFunction(lens) = SumFunctionOnSet(lens, 1..n)
  BY DEF SumFunction
<1>11. lens = [i \in DOMAIN panels |-> Len(panels[i].targets)]
  BY <1>3
<1>12. /\ Len(TargetsOf(panels)) \in Nat
       /\ DOMAIN TargetsOf(panels) = 1..Len(TargetsOf(panels))
       /\ Len(TargetsOf(panels)) = SumFunction(lens)
  BY <1>6, <1>9, <1>10, LenProperties
<1> QED BY <1>2, <1>11, <1>12 DEF vars_, panels

\* The queries of a board.
LEMMA QueriesCounted ==
  ASSUME BoardsAskable, NEW uid \in Uids
  PROVE  LET b == Contents(Board[uid])
         IN /\ QueriesOf(Board[uid]) \in Nat
            /\ QueriesOf(Board[uid])
                 = Cardinality({i \in DOMAIN b.vars : b.vars[i].type = "query"}) + Len(b.targets)
            /\ Len(b.vars) \in Nat /\ DOMAIN b.vars = 1..Len(b.vars)
            /\ Len(b.targets) \in Nat /\ DOMAIN b.targets = 1..Len(b.targets)
<1> DEFINE c == Board[uid]
           Q == {i \in DOMAIN c.vars : c.vars[i].type = "query"}
           T == TargetsOf(c.panels)
<1>1. /\ Len(c.vars) \in Nat /\ DOMAIN c.vars = 1..Len(c.vars)
      /\ Len(T) \in Nat /\ DOMAIN T = 1..Len(T)
      /\ Len(T) = SumFunction([i \in DOMAIN c.panels |-> Len(c.panels[i].targets)])
  BY BoardTyped
<1>2. Cardinality(Q) \in Nat
  <2>1. IsFiniteSet(1..Len(c.vars))
    <3> HIDE DEF c
    <3> QED BY <1>1, FS_Interval
  <2>2. IsFiniteSet(Q)
    BY <1>1, <2>1, FS_Subset
  <2> QED BY <2>2, FS_CardinalityType
<1>3. QueriesOf(c) = Cardinality(Q) + Len(T)
  BY <1>1 DEF QueriesOf
<1>4. Contents(c).vars = c.vars /\ Contents(c).targets = T
  BY DEF Contents
<1> HIDE DEF c, T
<1>5. QueriesOf(c) \in Nat
  BY <1>1, <1>2, <1>3
<1> QED BY <1>1, <1>3, <1>4, <1>5 DEF c, T

\* Two passes over each of the boards.
LEMMA JobsTyped ==
  ASSUME BoardsAskable, setting \in Settings
  PROVE  /\ Len(Jobs) \in Nat /\ DOMAIN Jobs = 1..Len(Jobs)
         /\ \A j \in 1..Len(Jobs) :
              /\ Jobs[j].uid \in ToSet(Checked(setting)) /\ Jobs[j].uid \in Uids
              /\ Counts[j] \in Nat /\ Counts[j] = QueriesOf(Board[Jobs[j].uid])
         /\ Counts = [j \in 1..Len(Jobs) |-> QueriesOf(Board[Jobs[j].uid])]
<1> DEFINE files == Checked(setting)
<1>1. files \in Seq(Uids)
  BY DEF BoardsAskable
<1>2. Jobs = [i \in 1..2 * Len(files) |-> [uid |-> files[(i + 1) \div 2], pass |-> 2 - (i % 2)]]
  BY DEF Jobs
<1> HIDE DEF files
<1>3. Len(files) \in Nat /\ DOMAIN files = 1..Len(files)
  BY <1>1, LenProperties
<1>4. Len(Jobs) = 2 * Len(files) /\ DOMAIN Jobs = 1..Len(Jobs)
  BY <1>2, <1>3
<1>5. ASSUME NEW j \in 1..Len(Jobs) PROVE Jobs[j].uid \in ToSet(files) /\ Jobs[j].uid \in Uids
  <2>1. (j + 1) \div 2 \in 1..Len(files)
    BY <1>3, <1>4
  <2>2. Jobs[j].uid = files[(j + 1) \div 2]
    BY <1>2, <1>4
  <2> DEFINE k == (j + 1) \div 2
  <2> HIDE DEF k
  <2>3. k \in DOMAIN files
    BY <1>3, <2>1 DEF k
  <2>4. files[k] \in Uids /\ files[k] \in ToSet(files)
    BY <1>1, <2>3 DEF ToSet
  <2> QED BY <2>2, <2>4 DEF k
<1>6. Counts = [j \in 1..Len(Jobs) |-> QueriesOf(Board[Jobs[j].uid])]
  BY <1>4 DEF Counts
<1>7. ASSUME NEW j \in 1..Len(Jobs)
      PROVE  Counts[j] \in Nat /\ Counts[j] = QueriesOf(Board[Jobs[j].uid])
  <2>1. Counts[j] = QueriesOf(Board[Jobs[j].uid])
    BY <1>6
  <2> DEFINE u == Jobs[j].uid
  <2>2. u \in Uids
    BY <1>5
  <2> HIDE DEF u
  <2>3. QueriesOf(Board[u]) \in Nat
    BY <2>2, QueriesCounted
  <2> QED BY <2>1, <2>3 DEF u
<1>8. Len(Jobs) \in Nat
  BY <1>3, <1>4
<1> QED BY <1>4, <1>5, <1>6, <1>7, <1>8 DEF files
-----------------------------------------------------------------------------
(* The steps of a check                                                    *)

\* Nothing was asked before the first query of a board.
LEMMA AskedAtFirst ==
  ASSUME NEW b, Len(b.vars) \in Nat, DOMAIN b.vars = 1..Len(b.vars)
  PROVE  AskedOf(b, 1) = 0 /\ Before(b, 1) = {}
<1> DEFINE n == Len(b.vars)
<1>1. {i \in DOMAIN b.vars : i < 1} = {} /\ {i \in DOMAIN b.vars : i < 1 /\ b.vars[i].type = "query"} = {}
  <2>1. \A i \in 1..n : ~ (i < 1)
    OBVIOUS
  <2> QED BY <2>1
<1>2. VariablesAsked(b, 1) = 0
  BY <1>1, FS_EmptySet DEF VariablesAsked
<1>3. TargetsAsked(b, 1) = 0
  BY DEF TargetsAsked
<1>4. Before(b, 1) = {}
  BY <1>1 DEF Before
<1> QED BY <1>2, <1>3, <1>4 DEF AskedOf

\* One variable on.
LEMMA AskedAfterVariable ==
  ASSUME NEW b, Len(b.vars) \in Nat, DOMAIN b.vars = 1..Len(b.vars), NEW a \in 1..Len(b.vars)
  PROVE  /\ AskedOf(b, a) \in Nat
         /\ AskedOf(b, a + 1) = AskedOf(b, a) + (IF b.vars[a].type = "query" THEN 1 ELSE 0)
         /\ Before(b, a + 1) = Before(b, a) \cup {b.vars[a].name}
<1> DEFINE n == Len(b.vars)
           S == {i \in DOMAIN b.vars : i < a /\ b.vars[i].type = "query"}
           R == {i \in DOMAIN b.vars : i < a + 1 /\ b.vars[i].type = "query"}
<1>0. \A i \in 1..n : i < a + 1 <=> i < a \/ i = a
  OBVIOUS
<1>1. R = S \cup (IF b.vars[a].type = "query" THEN {a} ELSE {})
  BY <1>0
<1>2. IsFiniteSet(S) /\ Cardinality(S) \in Nat /\ a \notin S
  <2>1. IsFiniteSet(1..n)
    BY FS_Interval
  <2>2. S \in SUBSET (1..n) /\ a \notin S
    OBVIOUS
  <2> HIDE DEF S, n
  <2> QED BY <2>1, <2>2, FS_Subset, FS_CardinalityType
<1>3. Cardinality(R) = Cardinality(S) + (IF b.vars[a].type = "query" THEN 1 ELSE 0)
  <2> HIDE DEF S, R
  <2>1. CASE b.vars[a].type = "query"
    <3>1. R = S \cup {a}
      BY <1>1, <2>1
    <3>2. Cardinality(S \cup {a}) = Cardinality(S) + 1
      BY <1>2, FS_AddElement
    <3> QED BY <2>1, <3>1, <3>2
  <2>2. CASE b.vars[a].type # "query"
    BY <1>1, <1>2, <2>2
  <2> QED BY <2>1, <2>2
<1>4. TargetsAsked(b, a) = 0 /\ TargetsAsked(b, a + 1) = 0
  BY DEF TargetsAsked
<1>5. Before(b, a + 1) = Before(b, a) \cup {b.vars[a].name}
  <2>1. {i \in DOMAIN b.vars : i < a + 1} = {i \in DOMAIN b.vars : i < a} \cup {a}
    BY <1>0
  <2> QED BY <2>1 DEF Before
<1>6. AskedOf(b, a) = Cardinality(S) /\ AskedOf(b, a + 1) = Cardinality(R)
  <2>1. a # 0 /\ a + 1 # 0
    OBVIOUS
  <2>2. VariablesAsked(b, a) = Cardinality(S) /\ VariablesAsked(b, a + 1) = Cardinality(R)
    BY DEF VariablesAsked
  <2> HIDE DEF S, R
  <2>3. Cardinality(R) \in Nat
    BY <1>2, <1>3
  <2> QED BY <1>2, <1>4, <2>1, <2>2, <2>3 DEF AskedOf
<1> QED BY <1>2, <1>3, <1>5, <1>6

\* After the last variable.
LEMMA AskedOfTargets ==
  ASSUME NEW b, Len(b.vars) \in Nat, DOMAIN b.vars = 1..Len(b.vars),
         NEW a \in Nat, a > Len(b.vars)
  PROVE  /\ AskedOf(b, a) = Cardinality({i \in DOMAIN b.vars : b.vars[i].type = "query"})
                            + (a - (Len(b.vars) + 1))
         /\ AskedOf(b, a) \in Nat
         /\ AskedOf(b, a + 1) = AskedOf(b, a) + 1
         /\ Before(b, a) = {b.vars[k].name : k \in DOMAIN b.vars} /\ Before(b, a + 1) = Before(b, a)
<1> DEFINE n == Len(b.vars)
           Q == {i \in DOMAIN b.vars : b.vars[i].type = "query"}
<1>1. \A i \in DOMAIN b.vars : i < a /\ i < a + 1
  OBVIOUS
<1>2. VariablesAsked(b, a) = Cardinality(Q) /\ VariablesAsked(b, a + 1) = Cardinality(Q)
  <2>1. {i \in DOMAIN b.vars : i < a /\ b.vars[i].type = "query"} = Q
        /\ {i \in DOMAIN b.vars : i < a + 1 /\ b.vars[i].type = "query"} = Q
    BY <1>1
  <2> QED BY <2>1 DEF VariablesAsked
<1>3. Cardinality(Q) \in Nat
  <2>1. IsFiniteSet(1..n) /\ Q \in SUBSET (1..n)
    BY FS_Interval
  <2> HIDE DEF Q, n
  <2> QED BY <2>1, FS_Subset, FS_CardinalityType
<1>4. TargetsAsked(b, a) = a - (n + 1) /\ TargetsAsked(b, a + 1) = (a - (n + 1)) + 1
  <2>1. /\ TargetsAsked(b, a) = IF a > n + 1 THEN a - (n + 1) ELSE 0
        /\ TargetsAsked(b, a + 1) = IF a + 1 > n + 1 THEN (a + 1) - (n + 1) ELSE 0
    BY DEF TargetsAsked
  <2>2. n \in Nat /\ a > n
    OBVIOUS
  <2> HIDE DEF n
  <2>3. TargetsAsked(b, a) = a - (n + 1)
    BY <2>1, <2>2
  <2>4. a + 1 > n + 1 /\ (a + 1) - (n + 1) = (a - (n + 1)) + 1
    BY <2>2
  <2> QED BY <2>1, <2>3, <2>4
<1>5. a # 0 /\ a + 1 # 0 /\ a - (n + 1) \in Nat
  OBVIOUS
<1>6. {i \in DOMAIN b.vars : i < a} = DOMAIN b.vars /\ {i \in DOMAIN b.vars : i < a + 1} = DOMAIN b.vars
  BY <1>1
<1>7. /\ Before(b, a) = {b.vars[k].name : k \in DOMAIN b.vars}
      /\ Before(b, a + 1) = {b.vars[k].name : k \in DOMAIN b.vars}
  BY <1>6 DEF Before
<1> DEFINE q == Cardinality(Q)
           m == a - (n + 1)
<1>8. AskedOf(b, a) = q + m /\ AskedOf(b, a + 1) = q + (m + 1)
  BY <1>2, <1>4, <1>5 DEF AskedOf
<1>9. q \in Nat /\ m \in Nat
  BY <1>3, <1>5
<1>10. AskedOf(b, a + 1) = (q + m) + 1 /\ q + m \in Nat
  <2> HIDE DEF q, m
  <2> QED BY <1>8, <1>9
<1> HIDE DEF q, m
<1> QED BY <1>7, <1>8, <1>10 DEF q, m

\* The file that is loaded.
LEMMA LoadedBoard ==
  ASSUME BoardsAskable, setting \in Settings, job \in 1..Len(Jobs),
         loaded = Contents(Board[Uid])
  PROVE  /\ Uid \in Uids /\ Uid \in ToSet(Checked(setting))
         /\ Len(loaded.vars) \in Nat /\ DOMAIN loaded.vars = 1..Len(loaded.vars)
         /\ Len(loaded.targets) \in Nat /\ DOMAIN loaded.targets = 1..Len(loaded.targets)
         /\ loaded.vars = Board[Uid].vars /\ loaded.targets = TargetsOf(Board[Uid].panels)
         /\ Counts[job] = Cardinality({i \in DOMAIN loaded.vars : loaded.vars[i].type = "query"})
                          + Len(loaded.targets)
<1> DEFINE u == Uid
<1>1. u \in Uids /\ u \in ToSet(Checked(setting)) /\ Counts[job] = QueriesOf(Board[u])
  BY JobsTyped DEF Uid
<1>2. loaded = Contents(Board[u])
  OBVIOUS
<1> HIDE DEF u
<1>3. /\ QueriesOf(Board[u]) = Cardinality({i \in DOMAIN loaded.vars : loaded.vars[i].type = "query"})
                               + Len(loaded.targets)
      /\ Len(loaded.vars) \in Nat /\ DOMAIN loaded.vars = 1..Len(loaded.vars)
      /\ Len(loaded.targets) \in Nat /\ DOMAIN loaded.targets = 1..Len(loaded.targets)
  BY <1>1, <1>2, QueriesCounted
<1>4. loaded.vars = Board[u].vars /\ loaded.targets = TargetsOf(Board[u].panels)
  BY <1>2 DEF Contents
<1> QED BY <1>1, <1>3, <1>4 DEF u

\* Where a running check is.
LEMMA InBoard ==
  ASSUME BoardsAskable, CheckInv, exit = "running", at # 0
  PROVE  /\ setting \in Settings /\ job \in 1..Len(Jobs) /\ AtBoard /\ at \in Nat
         /\ Uid \in ToSet(Checked(setting))
         /\ Len(loaded.vars) \in Nat /\ DOMAIN loaded.vars = 1..Len(loaded.vars)
         /\ Len(loaded.targets) \in Nat /\ DOMAIN loaded.targets = 1..Len(loaded.targets)
         /\ loaded.vars = Board[Uid].vars /\ loaded.targets = TargetsOf(Board[Uid].panels)
<1>1. setting \in Settings /\ AtBoard /\ at \in Nat /\ job \in 1..Len(Jobs) + 1 /\ job <= Len(Jobs)
  BY DEF CheckInv, AtQueryOf, AtBoard
<1>2. Len(Jobs) \in Nat
  BY <1>1, JobsTyped
<1>3. job \in 1..Len(Jobs)
  BY <1>1, <1>2
<1>4. loaded = Contents(Board[Uid])
  BY <1>1 DEF AtBoard
<1> QED BY <1>1, <1>3, <1>4, LoadedBoard

\* No query is sent between two boards.
LEMMA QueryInBoard ==
  ASSUME CheckInv, AtQuery \/ AtVariable
  PROVE  at # 0
<1>1. Len(loaded.vars) \in Nat /\ Len(loaded.targets) \in Nat
  BY DEF CheckInv
<1>2. ~ (0 \in 1..Len(loaded.vars)) /\ ~ (0 - Len(loaded.vars) \in 1..Len(loaded.targets))
  BY <1>1
<1> QED BY <1>2 DEF AtQuery, AtVariable, AtTarget

\* A variable of the query sent was selected before.
LEMMA AllKnown ==
  ASSUME BoardsAskable, CheckInv, exit = "running", AtQuery, setting.clickhouse,
         NEW v \in QueryFilters
  PROVE  Known(v)
<1>1. /\ setting \in Settings /\ AtBoard /\ Uid \in ToSet(Checked(setting)) /\ at \in Nat /\ at # 0
      /\ Len(loaded.vars) \in Nat /\ DOMAIN loaded.vars = 1..Len(loaded.vars)
      /\ Len(loaded.targets) \in Nat /\ DOMAIN loaded.targets = 1..Len(loaded.targets)
      /\ loaded.vars = Board[Uid].vars /\ loaded.targets = TargetsOf(Board[Uid].panels)
  BY InBoard, QueryInBoard
<1>2. Answerable(Board[Uid])
  BY <1>1 DEF BoardsAskable
<1>3. DOMAIN values = Before(loaded, at)
  BY <1>1 DEF AtBoard
<1>4. CASE AtVariable
  <2>1. loaded.vars[at].type = "query"
    <3>1. ~ AtTarget
      BY <1>1, <1>4 DEF AtVariable, AtTarget
    <3> QED BY <3>1 DEF AtQuery, CurrentVariable
  <2>2. at \in 1..Len(loaded.vars) /\ v \in loaded.vars[at].refs
    BY <1>4 DEF AtVariable, QueryFilters, CurrentVariable
  <2>3. v \in NamesAbove(Board[Uid], at)
    BY <1>1, <1>2, <2>1, <2>2 DEF Answerable
  <2>4. PICK k \in 1..(at - 1) : v = loaded.vars[k].name
    BY <1>1, <2>3 DEF NamesAbove
  <2>5. k \in DOMAIN loaded.vars /\ k < at
    BY <1>1, <2>2
  <2> QED BY <1>3, <2>4, <2>5 DEF Known, Before
<1>5. CASE ~ AtVariable
  <2>1. AtTarget
    BY <1>5 DEF AtQuery
  <2> DEFINE t == at - Len(loaded.vars)
  <2>2. t \in DOMAIN loaded.targets /\ v \in loaded.targets[t].filters
    BY <1>1, <1>5, <2>1 DEF AtTarget, QueryFilters, CurrentTarget
  <2>3. at > Len(loaded.vars)
    BY <1>1, <2>1 DEF AtTarget
  <2> HIDE DEF t
  <2>4. loaded.targets[t] \in ToSet(TargetsOf(Board[Uid].panels))
    BY <1>1, <2>2 DEF ToSet
  <2>5. v \in NamesAbove(Board[Uid], Len(Board[Uid].vars) + 1)
    BY <1>2, <2>2, <2>4 DEF Answerable
  <2>6. PICK k \in 1..((Len(loaded.vars) + 1) - 1) : v = loaded.vars[k].name
    BY <1>1, <2>5 DEF NamesAbove
  <2>7. k \in DOMAIN loaded.vars /\ k < at
    BY <1>1, <2>3
  <2> QED BY <1>3, <2>6, <2>7 DEF Known, Before
<1> QED BY <1>4, <1>5

\* The server can answer the query sent.
LEMMA NoBadQuery ==
  ASSUME BoardsAskable, CheckInv, exit = "running", AtQuery
  PROVE  ~ BadQuery
<1> SUFFICES ASSUME setting.clickhouse,
                    \/ \E v \in QueryFilters : ~ Known(v)
                    \/ /\ AtTarget
                       /\ ~ (CurrentTarget.by \cup {ColumnOf(v) : v \in CurrentTarget.filters})
                              \subseteq Tags[CurrentTarget.from]
             PROVE  FALSE
  BY DEF BadQuery
<1>1. \A v \in QueryFilters : Known(v)
  BY AllKnown
<1>2. ASSUME AtTarget
      PROVE  (CurrentTarget.by \cup {ColumnOf(v) : v \in CurrentTarget.filters})
               \subseteq Tags[CurrentTarget.from]
  <2>1. /\ setting \in Settings /\ Uid \in ToSet(Checked(setting))
        /\ DOMAIN loaded.targets = 1..Len(loaded.targets)
        /\ loaded.targets = TargetsOf(Board[Uid].panels)
    BY InBoard, QueryInBoard
  <2>2. Answerable(Board[Uid])
    BY <2>1 DEF BoardsAskable
  <2>3. CurrentTarget \in ToSet(TargetsOf(Board[Uid].panels))
    BY <1>2, <2>1 DEF AtTarget, CurrentTarget, ToSet
  <2> QED BY <2>2, <2>3 DEF Answerable
<1> QED BY <1>1, <1>2

\* An answer, or an error, to a query that the server can answer.
LEMMA AskCounted ==
  ASSUME Counted, ~ BadQuery, NEW result, Ask(result)
  PROVE  Counted' /\ asked' = asked + 1
<1>1. /\ failed' = (failed \/ result = "error") /\ missed' = (missed \/ result = "error")
      /\ outage' = (outage \/ (result = "error" /\ ~ BadQuery))
  BY DEF Ask
<1>2. failed' \in BOOLEAN
  BY <1>1
<1>3. missed' = failed'
  BY <1>1 DEF Counted
<1>4. failed' => outage'
  BY <1>1 DEF Counted
<1> QED BY <1>2, <1>3, <1>4 DEF Ask, Counted

\* The boards and passes stay the same during a check.
LEMMA SameJobs ==
  ASSUME setting' = setting
  PROVE  Jobs' = Jobs /\ Counts' = Counts
<1>1. Jobs' = Jobs
  BY DEF Jobs
<1>2. Counts' = Counts
  BY <1>1 DEF Counts
<1> QED BY <1>1, <1>2

\* The first query of a board.
LEMMA BeginInv ==
  ASSUME BoardsAskable, CheckInv, AskEnvs \/ BeginBoard
  PROVE  CheckInv'
<1>1. /\ exit = "running" /\ at = 0 /\ at' = at + 1 /\ job <= Len(Jobs)
      /\ setting' = setting /\ job' = job /\ exit' = exit
      /\ loaded' = Contents(Board[Uid]) /\ asked' = asked /\ failed' = failed
      /\ missed' = missed /\ outage' = outage
      /\ setting.clickhouse => values' = <<>>
  BY DEF AskEnvs, BeginBoard, Running, Step, Load, NoneAsked, AtStart
<1>2. setting \in Settings /\ AtQueryOf /\ Counted
  BY <1>1 DEF CheckInv
<1>3. job \in 1..Len(Jobs) /\ Len(Jobs) \in Nat
  BY <1>1, <1>2, JobsTyped DEF AtQueryOf
<1>4. Jobs' = Jobs /\ Counts' = Counts
  BY <1>1, SameJobs
<1> DEFINE b == Contents(Board[Uid])
<1>5. /\ Len(b.vars) \in Nat /\ DOMAIN b.vars = 1..Len(b.vars)
      /\ Len(b.targets) \in Nat
  <2>1. Uid \in Uids
    BY <1>2, <1>3, JobsTyped DEF Uid
  <2> DEFINE u == Uid
  <2> HIDE DEF u
  <2>2. u \in Uids
    BY <2>1 DEF u
  <2>3. /\ Len(Contents(Board[u]).vars) \in Nat
        /\ DOMAIN Contents(Board[u]).vars = 1..Len(Contents(Board[u]).vars)
        /\ Len(Contents(Board[u]).targets) \in Nat
    BY <2>2, QueriesCounted
  <2> QED BY <2>3 DEF u
<1>6. Uid' = Uid
  BY <1>1, <1>4 DEF Uid
<1> HIDE DEF b
<1>7. AskedOf(b, 1) = 0 /\ Before(b, 1) = {}
  BY <1>5, AskedAtFirst
<1>8. at' = 1 /\ loaded' = b
  BY <1>1 DEF b
<1>9. AtBoard'
  <2>1. setting.clickhouse => DOMAIN values' = {}
    BY <1>1
  <2>2. 1 <= Len(b.vars) + Len(b.targets) + 1
    <3> DEFINE n == Len(b.vars)
               m == Len(b.targets)
    <3>1. n \in Nat /\ m \in Nat
      BY <1>5
    <3> HIDE DEF n, m
    <3>2. 1 <= n + m + 1
      BY <3>1
    <3> QED BY <3>2 DEF n, m
  <2>3. b = Contents(Board[Uid'])
    BY <1>6 DEF b
  <2> QED BY <1>1, <1>4, <1>7, <1>8, <2>1, <2>2, <2>3 DEF AtBoard
<1>10. AtQueryOf'
  <2>1. asked = AskedUpTo(job - 1) + 0
    BY <1>1, <1>2 DEF AtQueryOf, AskedOf
  <2>2. AskedUpTo(job - 1)' = AskedUpTo(job - 1)
    BY <1>1, <1>4 DEF AskedUpTo
  <2>3. AskedOf(loaded', at') = 0
    BY <1>7, <1>8
  <2>4. asked' = AskedUpTo(job - 1)' + AskedOf(loaded', at')
    BY <1>1, <2>1, <2>2, <2>3
  <2>5. job' \in 1..Len(Jobs') + 1 /\ at' \in Nat
    BY <1>1, <1>3, <1>4, <1>8
  <2> QED BY <1>9, <2>4, <2>5 DEF AtQueryOf
<1> QED BY <1>1, <1>2, <1>5, <1>8, <1>10 DEF CheckInv, Counted

\* A step to the next query of the board: what was asked and selected.
LEMMA OnwardInv ==
  ASSUME BoardsAskable, CheckInv, exit = "running", at # 0, AtVariable \/ AtTarget, Step,
         loaded' = loaded, Counted',
         asked' = asked + (IF AtQuery THEN 1 ELSE 0),
         setting.clickhouse =>
           DOMAIN values' = DOMAIN values \cup (IF AtVariable THEN {CurrentVariable.name} ELSE {})
  PROVE  CheckInv'
<1>1. /\ setting \in Settings /\ job \in 1..Len(Jobs) /\ AtBoard /\ at \in Nat
      /\ Len(loaded.vars) \in Nat /\ DOMAIN loaded.vars = 1..Len(loaded.vars)
      /\ Len(loaded.targets) \in Nat
  BY InBoard
<1>2. at' = at + 1 /\ setting' = setting /\ job' = job /\ exit' = exit
  BY DEF Step
<1>3. Jobs' = Jobs /\ Counts' = Counts /\ Uid' = Uid
  BY <1>2, SameJobs DEF Uid
<1> DEFINE b == loaded
           last == Len(b.vars) + Len(b.targets) + 1
<1>4. /\ AskedOf(b, at) \in Nat
      /\ AskedOf(b, at + 1) = AskedOf(b, at) + (IF AtQuery THEN 1 ELSE 0)
      /\ Before(b, at + 1) = Before(b, at) \cup (IF AtVariable THEN {CurrentVariable.name} ELSE {})
      /\ at + 1 <= last
  <2>1. CASE AtVariable
    <3>1. at \in 1..Len(b.vars)
      BY <2>1 DEF AtVariable
    <3>2. ~ AtTarget
      BY <1>1, <3>1 DEF AtTarget
    <3>3. AtQuery <=> b.vars[at].type = "query"
      BY <2>1, <3>2 DEF AtQuery, CurrentVariable
    <3>4. /\ AskedOf(b, at) \in Nat
          /\ AskedOf(b, at + 1) = AskedOf(b, at) + (IF b.vars[at].type = "query" THEN 1 ELSE 0)
          /\ Before(b, at + 1) = Before(b, at) \cup {b.vars[at].name}
      BY <1>1, <3>1, AskedAfterVariable
    <3>5. at + 1 <= last
      <4> DEFINE n == Len(b.vars)
                 m == Len(b.targets)
      <4>1. n \in Nat /\ m \in Nat /\ at \in 1..n /\ last = n + m + 1
        BY <1>1, <3>1
      <4> HIDE DEF n, m, last
      <4> QED BY <4>1
    <3> QED BY <2>1, <3>3, <3>4, <3>5 DEF CurrentVariable
  <2>2. CASE ~ AtVariable
    <3>1. AtTarget /\ AtQuery
      BY <2>2 DEF AtQuery
    <3>2. at > Len(b.vars) /\ at + 1 <= last
      <4> DEFINE n == Len(b.vars)
                 m == Len(b.targets)
      <4>1. n \in Nat /\ m \in Nat /\ at \in Nat /\ at - n \in 1..m /\ last = n + m + 1
        BY <1>1, <3>1 DEF AtTarget
      <4> HIDE DEF n, m, last
      <4>2. at > n /\ at + 1 <= last
        BY <4>1
      <4> QED BY <4>2 DEF n
    <3>3. /\ AskedOf(b, at) \in Nat /\ AskedOf(b, at + 1) = AskedOf(b, at) + 1
          /\ Before(b, at + 1) = Before(b, at)
      BY <1>1, <3>2, AskedOfTargets
    <3> QED BY <2>2, <3>1, <3>2, <3>3
  <2> QED BY <2>1, <2>2
<1> HIDE DEF b
<1>5. AtBoard'
  <2>1. setting.clickhouse => DOMAIN values' = Before(b, at + 1)
    BY <1>1, <1>4 DEF AtBoard, b
  <2>2. loaded' = b /\ b = Contents(Board[Uid]) /\ job <= Len(Jobs)
    BY <1>1 DEF AtBoard, b
  <2> QED BY <1>2, <1>3, <1>4, <2>1, <2>2 DEF AtBoard
<1>6. asked' = AskedUpTo(job - 1) + AskedOf(b, at + 1)
  <2> DEFINE q == IF AtQuery THEN 1 ELSE 0
             p == AskedUpTo(job - 1)
  <2>1. asked = p + AskedOf(b, at) /\ asked' = asked + q /\ AskedOf(b, at + 1) = AskedOf(b, at) + q
    BY <1>4 DEF CheckInv, AtQueryOf, b
  <2>2. p \in Int
    <3>1. \A i \in 1..(job - 1) : Counts[i] \in Int
      <4>1. \A i \in 1..(job - 1) : i \in 1..Len(Jobs)
        BY <1>1, JobsTyped
      <4> QED BY <1>1, <4>1, JobsTyped
    <3>2. IsFiniteSet(1..(job - 1))
      BY <1>1, FS_Interval
    <3> QED BY <3>1, <3>2, SumInt DEF AskedUpTo
  <2>3. q \in Nat
    OBVIOUS
  <2> HIDE DEF p, q
  <2>4. asked' = p + AskedOf(b, at + 1)
    BY <1>4, <2>1, <2>2, <2>3
  <2> QED BY <2>4 DEF p
<1>7. AtQueryOf'
  <2>1. AskedUpTo(job - 1)' = AskedUpTo(job - 1)
    BY <1>2, <1>3 DEF AskedUpTo
  <2>2. loaded' = b /\ at' = at + 1 /\ at' \in Nat /\ job' \in 1..Len(Jobs') + 1
    BY <1>1, <1>2, <1>3, JobsTyped DEF b
  <2>3. asked' = AskedUpTo(job - 1)' + AskedOf(loaded', at')
    BY <1>6, <2>1, <2>2
  <2> QED BY <1>5, <2>2, <2>3 DEF AtQueryOf
<1> QED BY <1>1, <1>2, <1>7 DEF CheckInv

\* The next board or pass.
LEMMA EndBoardInv ==
  ASSUME BoardsAskable, CheckInv, EndBoard
  PROVE  CheckInv'
<1>1. /\ exit = "running" /\ at # 0 /\ ~ AtVariable /\ ~ AtTarget
      /\ job' = job + 1 /\ at' = 0 /\ setting' = setting /\ loaded' = loaded /\ exit' = exit
      /\ asked' = asked /\ failed' = failed /\ missed' = missed /\ outage' = outage
  BY DEF EndBoard, Running, AtEnd, AtStart, NoneAsked
<1>2. /\ setting \in Settings /\ job \in 1..Len(Jobs) /\ AtBoard /\ at \in Nat
      /\ Len(loaded.vars) \in Nat /\ DOMAIN loaded.vars = 1..Len(loaded.vars)
      /\ Len(loaded.targets) \in Nat
  BY <1>1, InBoard
<1>3. Jobs' = Jobs /\ Counts' = Counts
  BY <1>1, SameJobs
<1>4. Len(Jobs) \in Nat /\ \A i \in 1..Len(Jobs) : Counts[i] \in Int
  BY <1>2, JobsTyped
<1> DEFINE n == Len(loaded.vars)
           m == Len(loaded.targets)
<1>5. at = n + m + 1 /\ at > n /\ at - (n + 1) = m
  <2>1. /\ n \in Nat /\ m \in Nat /\ at \in Nat /\ at # 0 /\ at <= n + m + 1
        /\ ~ (at \in 1..n) /\ ~ (at - n \in 1..m)
    BY <1>1, <1>2 DEF AtVariable, AtTarget, AtBoard
  <2> HIDE DEF n, m
  <2> QED BY <2>1
<1>6. AskedOf(loaded, at) = Counts[job] /\ Counts[job] \in Int
  <2> DEFINE q == Cardinality({i \in DOMAIN loaded.vars : loaded.vars[i].type = "query"})
  <2>1. AskedOf(loaded, at) = q + (at - (n + 1))
    <3>1. at > Len(loaded.vars)
      BY <1>5
    <3> QED BY <1>2, <3>1, AskedOfTargets
  <2>2. Counts[job] = q + m
    BY <1>2, LoadedBoard DEF AtBoard
  <2> QED BY <1>2, <1>4, <1>5, <2>1, <2>2
<1>7. AskedUpTo(job) = Counts[job] + AskedUpTo(job - 1) /\ AskedUpTo(job - 1) \in Int
  <2> DEFINE k == job - 1
  <2>1. k \in Nat /\ k + 1 = job
    BY <1>2
  <2>2. \A i \in 1..(k + 1) : Counts[i] \in Int
    BY <1>2, <1>4, <2>1
  <2> HIDE DEF k
  <2>3. SumFunctionOnSet(Counts, 1..(k + 1)) = Counts[k + 1] + SumFunctionOnSet(Counts, 1..k)
    BY <2>1, <2>2, SumLast
  <2>4. SumFunctionOnSet(Counts, 1..k) \in Int
    <3>1. \A i \in 1..k : Counts[i] \in Int
      BY <2>1, <2>2
    <3>2. IsFiniteSet(1..k)
      BY <2>1, FS_Interval
    <3> QED BY <3>1, <3>2, SumInt
  <2> QED BY <2>1, <2>3, <2>4 DEF AskedUpTo, k
<1>8. asked = AskedUpTo(job - 1) + AskedOf(loaded, at)
  BY <1>1 DEF CheckInv, AtQueryOf
<1>9. asked = AskedUpTo(job) + 0
  BY <1>6, <1>7, <1>8
<1>10. AtQueryOf'
  <2>1. job' - 1 = job /\ job' \in 1..(Len(Jobs) + 1)
    BY <1>1, <1>2, <1>4
  <2>2. AskedUpTo(job - 1)' = AskedUpTo(job)
    BY <1>3, <2>1 DEF AskedUpTo
  <2>3. AskedOf(loaded', at') = 0
    BY <1>1 DEF AskedOf
  <2>4. asked' = AskedUpTo(job - 1)' + AskedOf(loaded', at')
    BY <1>1, <1>9, <2>2, <2>3
  <2>5. job' \in 1..Len(Jobs') + 1 /\ at' \in Nat /\ at' = 0
    BY <1>1, <1>3, <2>1
  <2> QED BY <2>4, <2>5 DEF AtQueryOf
<1> QED BY <1>1, <1>2, <1>10 DEF CheckInv, Counted

\* The count of the queries is a number.
LEMMA AskedTyped ==
  ASSUME BoardsAskable, CheckInv, exit = "running", at # 0, AtVariable
  PROVE  asked \in Int
<1>1. /\ setting \in Settings /\ job \in 1..Len(Jobs) /\ at \in Nat
      /\ Len(loaded.vars) \in Nat /\ DOMAIN loaded.vars = 1..Len(loaded.vars)
  BY InBoard
<1>2. Len(Jobs) \in Nat /\ \A i \in 1..Len(Jobs) : Counts[i] \in Int
  BY <1>1, JobsTyped
<1>3. AskedUpTo(job - 1) \in Int
  <2>1. \A i \in 1..(job - 1) : Counts[i] \in Int
    BY <1>1, <1>2
  <2>2. IsFiniteSet(1..(job - 1))
    BY <1>1, FS_Interval
  <2> QED BY <2>1, <2>2, SumInt DEF AskedUpTo
<1>4. AskedOf(loaded, at) \in Nat
  <2>1. at \in 1..Len(loaded.vars)
    BY DEF AtVariable
  <2> DEFINE b == loaded
  <2>2. Len(b.vars) \in Nat /\ DOMAIN b.vars = 1..Len(b.vars) /\ at \in 1..Len(b.vars)
    BY <1>1, <2>1
  <2> HIDE DEF b
  <2>3. AskedOf(b, at) \in Nat
    BY <2>2, AskedAfterVariable
  <2> QED BY <2>3 DEF b
<1>5. asked = AskedUpTo(job - 1) + AskedOf(loaded, at)
  BY DEF CheckInv, AtQueryOf
<1> QED BY <1>3, <1>4, <1>5

\* A variable is passed or asked, a panel is asked.
LEMMA VariableInv ==
  ASSUME BoardsAskable, CheckInv, PassVariable \/ AskVariable \/ AskVariableCh
  PROVE  CheckInv'
<1>1. /\ exit = "running" /\ AtVariable /\ Step /\ loaded' = loaded
      /\ at # 0
  BY QueryInBoard DEF PassVariable, AskVariable, AskVariableCh, Running
<1>2. Counted
  BY <1>1 DEF CheckInv
<1>3. Counted' /\ asked' = asked + (IF AtQuery THEN 1 ELSE 0)
  <2>1. CASE PassVariable
    <3>1. /\ ~ AtQuery /\ asked' = asked /\ failed' = failed /\ missed' = missed
          /\ outage' = outage
      BY <2>1 DEF PassVariable, NoneAsked
    <3>2. asked \in Int
      BY <1>1, AskedTyped
    <3> QED BY <1>2, <3>1, <3>2 DEF Counted
  <2>2. CASE AskVariable \/ AskVariableCh
    <3>1. AtQuery /\ \E result \in Results : Ask(result)
      BY <2>2 DEF AskVariable, AskVariableCh
    <3>2. ~ BadQuery
      BY <1>1, <3>1, NoBadQuery
    <3> QED BY <1>2, <3>1, <3>2, AskCounted
  <2> QED BY <2>1, <2>2 DEF PassVariable
<1>4. setting.clickhouse =>
        DOMAIN values' = DOMAIN values \cup (IF AtVariable THEN {CurrentVariable.name} ELSE {})
  BY <1>1 DEF PassVariable, AskVariable, AskVariableCh, With
<1> QED BY <1>1, <1>3, <1>4, OnwardInv

\* A panel is asked.
LEMMA TargetInv ==
  ASSUME BoardsAskable, CheckInv, AskTarget
  PROVE  CheckInv'
<1>1. /\ exit = "running" /\ AtTarget /\ Step /\ loaded' = loaded /\ values' = values
      /\ AtQuery /\ at # 0
  BY QueryInBoard DEF AskTarget, Running, AtQuery
<1>2. Counted' /\ asked' = asked + 1
  <2>1. Counted
    BY <1>1 DEF CheckInv
  <2>2. ~ BadQuery
    BY <1>1, NoBadQuery
  <2> QED BY <2>1, <2>2, AskCounted DEF AskTarget
<1>3. ~ AtVariable
  <2> DEFINE n == Len(loaded.vars)
             m == Len(loaded.targets)
  <2>1. n \in Nat /\ m \in Nat /\ at - n \in 1..m /\ at \in Nat
    BY <1>1, InBoard DEF AtTarget
  <2> HIDE DEF n, m
  <2>2. ~ (at \in 1..n)
    BY <2>1
  <2> QED BY <2>2 DEF AtVariable, n
<1> QED BY <1>1, <1>2, <1>3, OnwardInv

\* The last board is done.
LEMMA FinishInv ==
  ASSUME BoardsAskable, CheckInv, Finish
  PROVE  CheckInv'
<1>1. /\ exit = "running" /\ job > Len(Jobs) /\ exit' = (IF failed THEN "1" ELSE "0")
      /\ setting' = setting /\ job' = job /\ at' = at /\ loaded' = loaded
      /\ asked' = asked /\ missed' = missed /\ outage' = outage
  BY DEF Finish
<1>2. setting \in Settings /\ AtQueryOf /\ Counted
  BY <1>1 DEF CheckInv
<1>3. Len(Jobs) \in Nat /\ DOMAIN Jobs = 1..Len(Jobs) /\ \A i \in 1..Len(Jobs) : Counts[i] \in Int
  BY <1>2, JobsTyped
<1>4. at = 0 /\ job = Len(Jobs) + 1
  <2> DEFINE n == Len(Jobs)
  <2>1. /\ n \in Nat /\ job > n /\ job \in 1..n + 1
        /\ at # 0 => job <= n
    BY <1>1, <1>2, <1>3 DEF AtQueryOf, AtBoard
  <2> HIDE DEF n
  <2>2. at = 0 /\ job = n + 1
    BY <2>1
  <2> QED BY <2>2 DEF n
<1>5. asked = QueriesToAsk
  <2> DEFINE n == Len(Jobs)
  <2>1. asked = AskedUpTo(job - 1) + 0
    BY <1>2, <1>4 DEF AtQueryOf, AskedOf
  <2>2. job - 1 = n
    BY <1>3, <1>4
  <2>3. AskedUpTo(n) = SumFunctionOnSet(Counts, DOMAIN Jobs) /\ DOMAIN Counts = DOMAIN Jobs
    BY <1>3 DEF AskedUpTo, Counts
  <2>4. QueriesToAsk = SumFunctionOnSet(Counts, DOMAIN Jobs)
    BY <2>3 DEF QueriesToAsk, SumFunction, Counts
  <2>5. AskedUpTo(n) \in Int
    <3>1. IsFiniteSet(1..n)
      BY <1>3, FS_Interval
    <3> QED BY <1>3, <3>1, SumInt DEF AskedUpTo
  <2> QED BY <2>1, <2>2, <2>3, <2>4, <2>5
<1>6. QueriesToAsk' = QueriesToAsk
  BY <1>1, SameJobs DEF QueriesToAsk
<1> QED BY <1>1, <1>2, <1>5, <1>6 DEF CheckInv, Counted

\* The check starts at the first pass over the first board.
LEMMA StartInv ==
  ASSUME BoardsAskable, CheckInv, StartCheck
  PROVE  CheckInv'
<1>1. /\ exit = "idle" /\ setting' \in Settings /\ exit' = "running" /\ job' = job /\ at' = at
      /\ loaded' = loaded /\ asked' = asked
      /\ failed' = failed /\ missed' = missed /\ outage' = outage
  BY DEF StartCheck
<1>2. job = 1 /\ at = 0 /\ asked = 0 /\ Counted
  BY <1>1 DEF CheckInv
<1>3. Len(Jobs') \in Nat
  <2>1. Checked(setting') \in Seq(Uids)
    BY <1>1 DEF BoardsAskable
  <2> DEFINE files == Checked(setting')
  <2> HIDE DEF files
  <2>2. Len(files) \in Nat
    BY <2>1, LenProperties DEF files
  <2>3. Jobs' = [i \in 1..2 * Len(files) |-> [uid |-> files[(i + 1) \div 2], pass |-> 2 - (i % 2)]]
    BY DEF Jobs, files
  <2> QED BY <2>2, <2>3
<1>4. AtQueryOf'
  <2>1. AskedUpTo(job - 1)' = 0
    <3>1. 1..(job' - 1) = {}
      BY <1>1, <1>2
    <3>2. AskedUpTo(job - 1)' = SumFunctionOnSet(Counts', {})
      BY <3>1 DEF AskedUpTo
    <3> QED BY <3>2, SumEmpty
  <2>2. AskedOf(loaded', at') = 0
    BY <1>1, <1>2 DEF AskedOf
  <2>3. asked' = AskedUpTo(job - 1)' + AskedOf(loaded', at')
    BY <1>1, <1>2, <2>1, <2>2
  <2>4. job' \in 1..Len(Jobs') + 1 /\ at' = 0
    BY <1>1, <1>2, <1>3
  <2> QED BY <2>3, <2>4 DEF AtQueryOf
<1> QED BY <1>1, <1>2, <1>4 DEF CheckInv, Counted

\* Grafana cannot be reached, or a step of the layout or of a user.
LEMMA OtherInv ==
  ASSUME CheckInv, Abort \/ UNCHANGED checkVars
  PROVE  CheckInv'
<1>1. CASE Abort
  <2>1. /\ exit = "running" /\ exit' = "1" /\ outage' = TRUE
        /\ setting' = setting /\ loaded' = loaded
    BY <1>1 DEF Abort, Running
  <2>2. setting \in Settings
    BY <2>1 DEF CheckInv
  <2> QED BY <2>1, <2>2 DEF CheckInv
<1>2. CASE UNCHANGED checkVars
  <2>1. /\ setting' = setting /\ job' = job /\ at' = at /\ loaded' = loaded /\ values' = values
        /\ failed' = failed /\ exit' = exit /\ asked' = asked /\ missed' = missed
        /\ outage' = outage
    BY <1>2 DEF checkVars
  <2>2. Jobs' = Jobs /\ Counts' = Counts
    BY <2>1, SameJobs
  <2>3. AtQueryOf' <=> AtQueryOf
    <3>1. AskedUpTo(job - 1)' = AskedUpTo(job - 1)
      BY <2>1, <2>2 DEF AskedUpTo
    <3>2. AskedOf(loaded, at)' = AskedOf(loaded, at)
      BY <2>1
    <3>3. Uid' = Uid
      BY <2>1, <2>2 DEF Uid
    <3>4. AtBoard' <=> AtBoard
      BY <2>1, <2>2, <3>3 DEF AtBoard
    <3> QED BY <2>1, <2>2, <3>1, <3>2, <3>4 DEF AtQueryOf
  <2>4. QueriesToAsk' = QueriesToAsk
    BY <2>2 DEF QueriesToAsk
  <2> QED BY <2>1, <2>3, <2>4 DEF CheckInv, Counted
<1> QED BY <1>1, <1>2

\* While a check runs, the count of its queries and of its errors follows the
\* boards, wherever the answers fail (check_queries.py, main).
THEOREM CheckInvariant == BoardsAskable => (Spec => []CheckInv)
<1>1. BoardsAskable => (Init => CheckInv)
  <2> SUFFICES ASSUME Init PROVE CheckInv
    OBVIOUS
  <2>1. /\ exit = "idle" /\ job = 1 /\ at = 0 /\ asked = 0
        /\ failed = FALSE /\ missed = FALSE /\ outage = FALSE
        /\ loaded = [vars |-> <<>>, targets |-> <<>>]
    BY DEF Init, CheckInit
  <2>2. Len(loaded.vars) = 0 /\ Len(loaded.targets) = 0
    BY <2>1
  <2> QED BY <2>1, <2>2 DEF CheckInv, Counted
<1>2. BoardsAskable => (CheckInv /\ [Next]_vars => CheckInv')
  <2> SUFFICES ASSUME BoardsAskable, CheckInv, [Next]_vars PROVE CheckInv'
    OBVIOUS
  <2>1. CASE Check
    <3>1. CASE StartCheck
      BY <3>1, StartInv
    <3>2. CASE AskEnvs \/ BeginBoard
      BY <3>2, BeginInv
    <3>3. CASE PassVariable \/ AskVariable \/ AskVariableCh
      BY <3>3, VariableInv
    <3>4. CASE AskTarget
      BY <3>4, TargetInv
    <3>5. CASE EndBoard
      BY <3>5, EndBoardInv
    <3>6. CASE Abort
      BY <3>6, OtherInv
    <3>7. CASE Finish
      BY <3>7, FinishInv
    <3> QED BY <2>1, <3>1, <3>2, <3>3, <3>4, <3>5, <3>6, <3>7 DEF Check, CheckNext
  <2>2. CASE ~ Check
    <3>1. UNCHANGED checkVars
      BY <2>2 DEF Next, Generate, Browse, vars
    <3> QED BY <3>1, OtherInv
  <2> QED BY <2>1, <2>2
<1>3. CASE BoardsAskable
  <2>1. Init => CheckInv
    BY <1>1, <1>3
  <2>2. CheckInv /\ [Next]_vars => CheckInv'
    BY <1>2, <1>3
  <2>3. Spec => []CheckInv
    BY <2>1, <2>2, PTL DEF Spec
  <2> QED BY <2>3
<1> QED BY <1>3

\* Exit code 0 means that every query was asked and answered, 1 that the
\* server failed: for any boards that ask only for what ClickHouse can answer.
THEOREM CheckVerdict == BoardsAskable => (Spec => []VerdictIsRight)
<1>1. CheckInv => VerdictIsRight
  BY DEF CheckInv, VerdictIsRight
<1> QED BY <1>1, CheckInvariant, PTL

-----------------------------------------------------------------------------
(* Substitution                                                            *)

\* The longest name that begins a name is that name itself.
LEMMA OwnName ==
  ASSUME PrefixesShorter, setting \in Settings, NEW v \in FixedNames
  PROVE  NamesIn(v) # {} /\ FirstReplaced(v) = v
<1> DEFINE Longest(k) == k \in NamesIn(v) /\ \A j \in NamesIn(v) : Len(j) <= Len(k)
<1>1. Names \subseteq NamesUsed /\ v \in Names /\ v \in NamesUsed
  BY DEF Names, NamesUsed, FixedNames
<1>2. v \in NamesIn(v)
  BY <1>1 DEF NamesIn, PrefixesShorter
<1>3. ASSUME NEW k \in NamesIn(v), k # v PROVE Len(k) < Len(v) /\ Len(k) \in Nat /\ Len(v) \in Nat
  <2>1. k \in NamesUsed /\ StartsWith(k, v)
    BY <1>1 DEF NamesIn
  <2> QED BY <1>1, <1>3, <2>1 DEF PrefixesShorter
<1>4. Longest(v)
  <2> SUFFICES ASSUME NEW j \in NamesIn(v) PROVE Len(j) <= Len(v)
    BY <1>2
  <2>1. CASE j = v
    BY <1>1, <2>1 DEF PrefixesShorter
  <2>2. CASE j # v
    BY <1>3, <2>2
  <2> QED BY <2>1, <2>2
<1>5. ASSUME NEW k, Longest(k) PROVE k = v
  <2> SUFFICES ASSUME k # v PROVE FALSE
    OBVIOUS
  <2>1. Len(v) <= Len(k)
    BY <1>2, <1>5
  <2>2. Len(k) < Len(v) /\ Len(k) \in Nat /\ Len(v) \in Nat
    BY <1>3, <1>5
  <2> DEFINE a == Len(v)
             b == Len(k)
  <2> HIDE DEF a, b
  <2>3. ~ (b < a /\ a <= b /\ a \in Nat /\ b \in Nat)
    OBVIOUS
  <2> QED BY <2>1, <2>2, <2>3 DEF a, b
<1>6. FirstReplaced(v) = CHOOSE k : Longest(k)
  BY DEF FirstReplaced
<1> HIDE DEF Longest
<1>7. FirstReplaced(v) = v
  BY <1>4, <1>5, <1>6
<1> QED BY <1>2, <1>7

\* The variables of a query to InfluxDB are among those that run() replaces.
LEMMA InfluxFilters ==
  ASSUME BoardsAskable, CheckInv, exit = "running", AtQuery, ~ setting.clickhouse
  PROVE  QueryFilters \subseteq FixedNames
<1>1. /\ setting \in Settings /\ Uid \in ToSet(Checked(setting))
      /\ DOMAIN loaded.vars = 1..Len(loaded.vars)
      /\ DOMAIN loaded.targets = 1..Len(loaded.targets)
      /\ loaded.vars = Board[Uid].vars /\ loaded.targets = TargetsOf(Board[Uid].panels)
      /\ Len(loaded.vars) \in Nat /\ Len(loaded.targets) \in Nat /\ at \in Nat
  BY InBoard, QueryInBoard
<1>2. Replaceable(Board[Uid])
  BY <1>1 DEF BoardsAskable
<1>3. CASE AtVariable
  <2>1. ~ AtTarget
    <3> DEFINE n == Len(loaded.vars)
               m == Len(loaded.targets)
    <3>1. n \in Nat /\ m \in Nat /\ at \in 1..n
      BY <1>1, <1>3 DEF AtVariable
    <3> HIDE DEF n, m
    <3>2. ~ (at - n \in 1..m)
      BY <3>1
    <3> QED BY <3>2 DEF AtTarget, n, m
  <2>2. CurrentVariable.type = "query"
    BY <2>1 DEF AtQuery
  <2>3. CurrentVariable \in ToSet(Board[Uid].vars)
    BY <1>1, <1>3 DEF AtVariable, CurrentVariable, ToSet
  <2> QED BY <1>2, <1>3, <2>2, <2>3 DEF Replaceable, QueryFilters
<1>4. CASE ~ AtVariable
  <2>1. AtTarget
    BY <1>4 DEF AtQuery
  <2>2. CurrentTarget \in ToSet(TargetsOf(Board[Uid].panels))
    BY <1>1, <2>1 DEF AtTarget, CurrentTarget, ToSet
  <2> QED BY <1>2, <1>4, <2>2 DEF Replaceable, QueryFilters
<1> QED BY <1>3, <1>4

\* No variable of a query is left unreplaced or gets the value of another one,
\* for any names of which a longer one is never the beginning of a shorter one.
THEOREM CheckOwnValues ==
  BoardsAskable /\ PrefixesShorter => (Spec => []ReplacedByItsOwnValue)
<1>1. BoardsAskable /\ PrefixesShorter => (CheckInv => ReplacedByItsOwnValue)
  <2> SUFFICES ASSUME BoardsAskable, PrefixesShorter, CheckInv, Running, AtQuery,
                      NEW v \in QueryFilters
               PROVE  Known(v) /\ (~setting.clickhouse => FirstReplaced(v) = v)
    BY DEF ReplacedByItsOwnValue
  <2>1. exit = "running" /\ setting \in Settings
    BY DEF Running, CheckInv
  <2>2. CASE setting.clickhouse
    BY <2>1, <2>2, AllKnown
  <2>3. CASE ~ setting.clickhouse
    <3>1. v \in FixedNames
      BY <2>1, <2>3, InfluxFilters
    <3>2. NamesIn(v) # {} /\ FirstReplaced(v) = v
      BY <2>1, <3>1, OwnName
    <3> QED BY <2>3, <3>2 DEF Known
  <2> QED BY <2>2, <2>3
<1>2. CASE BoardsAskable /\ PrefixesShorter
  <2>1. CheckInv => ReplacedByItsOwnValue
    BY <1>1, <1>2
  <2>2. Spec => []CheckInv
    BY <1>2, CheckInvariant
  <2>3. Spec => []ReplacedByItsOwnValue
    BY <2>1, <2>2, PTL
  <2> QED BY <2>3
<1> QED BY <1>2
=============================================================================
