---------------------- MODULE TelegrafEntrypointProofs ----------------------
(***************************************************************************)
(* Theorems of TelegrafEntrypoint for any environments, ids, templates and *)
(* static files.                                                           *)
(***************************************************************************)
EXTENDS TelegrafEntrypoint, SequenceTheorems, TLAPS

Files(i) == {FileName(setting.ids[i], t) : t \in Templates}

Typed ==
  /\ setting \in Settings
  /\ pc \in {"stopped", "rendering", "running", "died"}
  /\ next \in 1..(Len(setting.ids) + 1)
  /\ pc = "stopped" => next = 1
  /\ starts \in 0..MaxStarts

\* RENDER_DIR between two rounds of the loop: the static files and those of
\* the ids before `next`, all of them accepted, each rendered for one of them.
Progress ==
  pc \in {"rendering", "running"} =>
    /\ setting.given /\ setting.inputs
    /\ \A i \in 1..(next - 1) : Acceptable(i)
    /\ DOMAIN dir = Static \cup UNION {Files(i) : i \in 1..(next - 1)}
    /\ \A f \in DOMAIN dir \ Static :
         \E i \in 1..(next - 1) : f \in Files(i) /\ dir[f] = Rendered(setting.ids[i])

RunsAtTheEnd == pc = "running" => next = Len(setting.ids) + 1

EntrypointInv ==
  /\ Typed
  /\ DOMAIN dir \subseteq
       Static \cup {<<Lower[id], t>> : id \in DOMAIN Lower, t \in Templates}
  /\ Progress
  /\ RunsAtTheEnd

LEMMA IdsOf ==
  ASSUME Typed
  PROVE  /\ setting.ids \in Seq(DOMAIN Lower) /\ Len(setting.ids) \in Nat
         /\ \A i \in 1..Len(setting.ids) :
              setting.ids[i] \in DOMAIN Lower /\ setting.ids[i] \in Seq(STRING)
         /\ next \in Nat /\ next >= 1
<1>1. setting.ids \in Seq(DOMAIN Lower)
  BY SettingsAssumption DEF Typed
<1>2. Len(setting.ids) \in Nat
  BY <1>1, LenProperties
<1>3. \A i \in 1..Len(setting.ids) : setting.ids[i] \in DOMAIN Lower
  BY <1>1, ElementOfSeq
<1> QED BY <1>1, <1>2, <1>3, SettingsAssumption DEF Typed

LEMMA EntrypointInit == Init => EntrypointInv
<1> SUFFICES ASSUME Init PROVE EntrypointInv
  OBVIOUS
<1>1. setting.ids \in Seq(DOMAIN Lower)
  BY SettingsAssumption DEF Init
<1>2. Len(setting.ids) \in Nat
  BY <1>1, LenProperties
<1>3. Typed
  BY <1>2, SettingsAssumption DEF Init, Typed, FirstIndex
<1>4. DOMAIN dir = {}
  BY DEF Init, NoFiles
<1> QED BY <1>3, <1>4 DEF EntrypointInv, Progress, RunsAtTheEnd, Init

LEMMA BeginInv == EntrypointInv /\ Begin => EntrypointInv'
<1> SUFFICES ASSUME EntrypointInv, Begin PROVE EntrypointInv'
  OBVIOUS
<1>1. Typed'
  BY IdsOf, SettingsAssumption DEF EntrypointInv, Begin, Typed, FirstIndex
<1>2. CASE ~(setting.given /\ setting.inputs)
  BY <1>1, <1>2 DEF EntrypointInv, Begin, Progress, RunsAtTheEnd
<1>3. CASE setting.given /\ setting.inputs
  <2>1. DOMAIN dir' = Static /\ pc' = "rendering" /\ next' = 1 /\ setting' = setting
    BY <1>3 DEF Begin, FirstIndex
  <2>2. 1..(next' - 1) = {}
    BY <2>1
  <2>3. Progress'
    BY <1>3, <2>1, <2>2 DEF Progress
  <2> QED BY <1>1, <2>1, <2>3 DEF EntrypointInv, RunsAtTheEnd
<1> QED BY <1>2, <1>3

LEMMA RenderNextInv == EntrypointInv /\ RenderNext => EntrypointInv'
<1> SUFFICES ASSUME EntrypointInv, RenderNext PROVE EntrypointInv'
  OBVIOUS
<1>1. CASE ~Acceptable(next)
  BY <1>1 DEF EntrypointInv, RenderNext, Typed, Progress, RunsAtTheEnd
<1>2. CASE Acceptable(next)
  <2> DEFINE id == setting.ids[next]
  <2>1. /\ setting' = setting /\ pc' = "rendering" /\ pc = "rendering" /\ starts' = starts
        /\ next' = next + 1
        /\ next \in 1..Len(setting.ids)
        /\ dir' = [f \in DOMAIN dir \cup Files(next) |->
                     IF f \in Files(next) THEN Rendered(id) ELSE dir[f]]
    BY <1>2, IdsOf DEF RenderNext, EntrypointInv, Files
  <2>2. Typed'
    BY <2>1, IdsOf DEF EntrypointInv, Typed
  <2>3. Files(next) \subseteq {<<Lower[x], t>> : x \in DOMAIN Lower, t \in Templates}
    BY <2>1, IdsOf DEF Files, FileName, EntrypointInv
  <2>4. DOMAIN dir' \subseteq
          Static \cup {<<Lower[x], t>> : x \in DOMAIN Lower, t \in Templates}
    BY <2>1, <2>3 DEF EntrypointInv
  <2>5. 1..(next' - 1) = 1..(next - 1) \cup {next}
    BY <2>1, IdsOf DEF EntrypointInv
  <2>6. \A i : Files(i)' = Files(i) /\ (Acceptable(i) => Acceptable(i)')
    BY <2>1 DEF Files, Acceptable, Duplicate
  <2>7. setting.given /\ setting.inputs /\ \A i \in 1..(next - 1) : Acceptable(i)
    BY <2>1 DEF EntrypointInv, Progress
  <2>8. DOMAIN dir' = Static \cup UNION {Files(i)' : i \in 1..(next' - 1)}
    <3>1. DOMAIN dir' = Static \cup (UNION {Files(i) : i \in 1..(next - 1)}) \cup Files(next)
      BY <2>1 DEF EntrypointInv, Progress
    <3>2. UNION {Files(i)' : i \in 1..(next' - 1)} = (UNION {Files(i) : i \in 1..(next - 1)}) \cup Files(next)
      BY <2>5, <2>6
    <3> QED BY <3>1, <3>2
  <2>9. ASSUME NEW f \in DOMAIN dir' \ Static
        PROVE  \E i \in 1..(next' - 1) : f \in Files(i) /\ dir'[f] = Rendered(setting.ids[i])
    <3>1. CASE f \in Files(next)
      BY <2>1, <2>5, <3>1
    <3>2. CASE f \notin Files(next)
      <4>1. f \in DOMAIN dir \ Static /\ dir'[f] = dir[f]
        BY <2>1, <3>2
      <4>2. PICK i \in 1..(next - 1) : f \in Files(i) /\ dir[f] = Rendered(setting.ids[i])
        BY <2>1, <4>1 DEF EntrypointInv, Progress
      <4> QED BY <2>5, <4>1, <4>2
    <3> QED BY <3>1, <3>2
  <2>10. Progress'
    BY <1>2, <2>1, <2>5, <2>6, <2>7, <2>8, <2>9 DEF Progress
  <2> QED BY <2>1, <2>2, <2>4, <2>10 DEF EntrypointInv, RunsAtTheEnd
<1> QED BY <1>1, <1>2

LEMMA EntrypointNext == EntrypointInv /\ [Next]_vars => EntrypointInv'
<1> SUFFICES ASSUME EntrypointInv, [Next]_vars PROVE EntrypointInv'
  OBVIOUS
<1>1. CASE Exec
  <2>1. next = Len(setting.ids) + 1
    BY <1>1, IdsOf DEF Exec, EntrypointInv, Typed
  <2> QED BY <1>1, <2>1 DEF EntrypointInv, Exec, Typed, Progress, RunsAtTheEnd,
            Acceptable, Duplicate, Files
<1>2. CASE Ends
  <2>1. 1 \in 1..(Len(setting.ids) + 1)
    BY IdsOf DEF EntrypointInv
  <2>2. DOMAIN dir' \subseteq DOMAIN dir
    BY <1>2 DEF Ends, NoFiles
  <2> QED BY <1>2, <2>1, <2>2 DEF EntrypointInv, Ends, Typed, Progress, RunsAtTheEnd, FirstIndex
<1>3. CASE Reconfigure
  <2>1. setting'.ids \in Seq(DOMAIN Lower)
    BY <1>3, SettingsAssumption DEF Reconfigure
  <2>2. Len(setting'.ids) \in Nat
    BY <2>1, LenProperties
  <2> QED BY <1>3, <2>2 DEF EntrypointInv, Reconfigure, Typed, Progress, RunsAtTheEnd, FirstIndex
<1>4. CASE UNCHANGED vars
  BY <1>4 DEF vars, EntrypointInv, Typed, Progress, RunsAtTheEnd, Acceptable, Duplicate, Files
<1> QED BY <1>1, <1>2, <1>3, <1>4, BeginInv, RenderNextInv DEF Next

\* What holds between any two steps of the script, a kill and a restart at any
\* point included.
THEOREM EntrypointInvariant == Spec => []EntrypointInv
<1> QED BY EntrypointInit, EntrypointNext, PTL DEF Spec

\* The loop stays within PG_INSTANCES and the directory within its files.
THEOREM EntrypointTyped == Spec => []TypeOK
<1>1. EntrypointInv => TypeOK
  BY DEF EntrypointInv, Typed, TypeOK
<1> QED BY <1>1, EntrypointInvariant, PTL

\* Telegraf runs on an environment that the script has looked at to the end.
THEOREM EntrypointRunsOnGood == Spec => []RunsOnlyOnGoodSettings
<1>1. EntrypointInv => RunsOnlyOnGoodSettings
  <2> SUFFICES ASSUME EntrypointInv, pc = "running" PROVE RunsOnlyOnGoodSettings
    BY DEF RunsOnlyOnGoodSettings
  <2>1. setting.given /\ setting.inputs /\ \A i \in 1..Len(setting.ids) : Acceptable(i)
    BY IdsOf DEF EntrypointInv, Progress, RunsAtTheEnd
  <2>2. ASSUME NEW i \in 1..Len(setting.ids), NEW j \in 1..Len(setting.ids),
               setting.ids[i] = setting.ids[j]
        PROVE  i = j
    <3>1. ~ Duplicate(i) /\ ~ Duplicate(j)
      BY <2>1 DEF Acceptable
    <3>2. ~ (j < i) /\ ~ (i < j)
      BY <2>2, <3>1 DEF Duplicate
    <3> QED BY <3>2, IdsOf DEF EntrypointInv
  <2>3. \A id \in Ids :
          /\ id \in WellFormed
          /\ \A suffix \in Required : id \o suffix \in setting.set
          /\ {id \o <<"ENV">>, <<"PG", "ENV">>} \cap setting.set # {}
    BY <2>1 DEF Ids, Acceptable
  <2> QED BY <2>1, <2>2, <2>3 DEF RunsOnlyOnGoodSettings
<1> QED BY <1>1, EntrypointInvariant, PTL

\* The directory at the end of the loop.
LEMMA DirAtTheEnd ==
  ASSUME EntrypointInv, pc = "running"
  PROVE  /\ DOMAIN dir = Static \cup (UNION {Files(i) : i \in 1..Len(setting.ids)})
         /\ \A f \in DOMAIN dir \ Static : \E i \in 1..Len(setting.ids) :
              f \in Files(i) /\ dir[f] = Rendered(setting.ids[i])
<1>1. 1..(next - 1) = 1..Len(setting.ids)
  BY IdsOf DEF EntrypointInv, RunsAtTheEnd
<1>2. /\ DOMAIN dir = Static \cup (UNION {Files(i) : i \in 1..(next - 1)})
      /\ \A f \in DOMAIN dir \ Static : \E i \in 1..(next - 1) :
           f \in Files(i) /\ dir[f] = Rendered(setting.ids[i])
  BY DEF EntrypointInv, Progress
<1> HIDE DEF EntrypointInv
<1>3. {Files(i) : i \in 1..(next - 1)} = {Files(i) : i \in 1..Len(setting.ids)}
  BY <1>1
<1> QED BY <1>1, <1>2, <1>3

\* Nothing of an earlier environment is left for Telegraf to read.
THEOREM EntrypointNothingStale == Spec => []NothingStale
<1>1. EntrypointInv => NothingStale
  <2> SUFFICES ASSUME EntrypointInv, pc = "running"
               PROVE  DOMAIN dir = Static \cup {FileName(id, t) : id \in Ids, t \in Templates}
    BY DEF NothingStale
  <2>1. DOMAIN dir = Static \cup (UNION {Files(i) : i \in 1..Len(setting.ids)})
    BY DirAtTheEnd
  <2>2. (UNION {Files(i) : i \in 1..Len(setting.ids)})
          = {FileName(id, t) : id \in Ids, t \in Templates}
    <3>1. ASSUME NEW i \in 1..Len(setting.ids), NEW f \in Files(i)
          PROVE  f \in {FileName(id, t) : id \in Ids, t \in Templates}
      BY DEF Files, Ids
    <3>2. ASSUME NEW id \in Ids, NEW t \in Templates
          PROVE  \E i \in 1..Len(setting.ids) : FileName(id, t) \in Files(i)
      BY DEF Files, Ids
    <3> QED BY <3>1, <3>2
  <2> QED BY <2>1, <2>2
<1> QED BY <1>1, EntrypointInvariant, PTL

-----------------------------------------------------------------------------
(* The four sed expressions                                                *)

\* STRING, with the words of the script.
Word == STRING \cup {"PG", "APP", "DSN", "INSTANCE", "ENV"}

LEMMA Words ==
  /\ \A id \in Seq(STRING) : id \in Seq(Word)
  /\ "PG" \in Word /\ "APP" \in Word /\ "DSN" \in Word /\ "INSTANCE" \in Word /\ "ENV" \in Word
<1>1. STRING \subseteq Word
  BY DEF Word
<1> QED BY <1>1, SeqMonotonic DEF Word

\* A name ends with the last word of its suffix.
LEMMA EndsIn ==
  ASSUME NEW s \in Seq(Word), NEW t \in Seq(Word), t # <<>>
  PROVE  (s \o t)[Len(s \o t)] = t[Len(t)]
<1>1. Len(t) \in Nat \ {0} /\ Len(s) \in Nat
  BY EmptySeq, LenProperties
<1>2. Len(s \o t) = Len(s) + Len(t)
  BY ConcatProperties
<1>3. \A i \in 1..(Len(s) + Len(t)) : (s \o t)[i] = IF i <= Len(s) THEN s[i] ELSE t[i - Len(s)]
  BY ConcatProperties
<1> QED BY <1>1, <1>2, <1>3

\* A concatenation is what has the words of both.
LEMMA ConcatIs ==
  ASSUME NEW S, NEW s \in Seq(S), NEW t \in Seq(S), NEW u \in Seq(S),
         Len(u) = Len(s) + Len(t),
         \A i \in 1..Len(s) : u[i] = s[i],
         \A i \in 1..Len(t) : u[Len(s) + i] = t[i]
  PROVE  s \o t = u
<1>1. s \o t \in Seq(S) /\ Len(s \o t) = Len(u)
  BY ConcatProperties
<1>2. ASSUME NEW i \in 1..Len(u) PROVE (s \o t)[i] = u[i]
  <2>1. (s \o t)[i] = IF i <= Len(s) THEN s[i] ELSE t[i - Len(s)]
    BY ConcatProperties
  <2>2. Len(s) \in Nat /\ Len(t) \in Nat /\ i \in Nat
    BY LenProperties
  <2>3. CASE i <= Len(s)
    BY <2>1, <2>2, <2>3
  <2>4. CASE ~(i <= Len(s))
    <3>1. i - Len(s) \in 1..Len(t) /\ Len(s) + (i - Len(s)) = i
      BY <2>2, <2>4
    <3> QED BY <2>1, <2>4, <3>1
  <2> QED BY <2>3, <2>4
<1> QED BY <1>1, <1>2, SeqEqual

LEMMA ConcatPair ==
  ASSUME NEW S, NEW a \in S, NEW b \in S
  PROVE  <<a>> \o <<b>> = <<a, b>>
<1> DEFINE s == <<a>>
           t == <<b>>
           u == <<a, b>>
<1>1. /\ s \in Seq(S) /\ t \in Seq(S) /\ u \in Seq(S)
      /\ Len(s) = 1 /\ Len(t) = 1 /\ Len(u) = 2
      /\ u[1] = s[1] /\ u[2] = t[1]
  OBVIOUS
<1> HIDE DEF s, t, u
<1>2. Len(u) = Len(s) + Len(t)
  BY <1>1
<1>3. \A i \in 1..Len(s) : u[i] = s[i]
  BY <1>1
<1>4. \A i \in 1..Len(t) : u[Len(s) + i] = t[i]
  BY <1>1
<1>5. s \o t = u
  BY <1>1, <1>2, <1>3, <1>4, ConcatIs
<1> QED BY <1>5 DEF s, t, u

LEMMA ConcatTriple ==
  ASSUME NEW S, NEW a \in S, NEW b \in S, NEW c \in S
  PROVE  <<a>> \o <<b, c>> = <<a, b, c>>
<1> DEFINE s == <<a>>
           t == <<b, c>>
           u == <<a, b, c>>
<1>1. /\ s \in Seq(S) /\ t \in Seq(S) /\ u \in Seq(S)
      /\ Len(s) = 1 /\ Len(t) = 2 /\ Len(u) = 3
      /\ u[1] = s[1] /\ u[2] = t[1] /\ u[3] = t[2]
  OBVIOUS
<1> HIDE DEF s, t, u
<1>2. Len(u) = Len(s) + Len(t)
  BY <1>1
<1>3. \A i \in 1..Len(s) : u[i] = s[i]
  BY <1>1
<1>4. \A i \in 1..Len(t) : u[Len(s) + i] = t[i]
  BY <1>1
<1>5. s \o t = u
  BY <1>1, <1>2, <1>3, <1>4, ConcatIs
<1> QED BY <1>5 DEF s, t, u

LEMMA Names ==
  /\ <<"PG">> \o <<"DSN">> = <<"PG", "DSN">>
  /\ <<"PG">> \o <<"APP", "DSN">> = <<"PG", "APP", "DSN">>
  /\ <<"PG">> \o <<"INSTANCE">> = <<"PG", "INSTANCE">>
  /\ <<"PG">> \o <<"ENV">> = <<"PG", "ENV">>
<1>1. "PG" \in Word /\ "APP" \in Word /\ "DSN" \in Word /\ "INSTANCE" \in Word /\ "ENV" \in Word
  BY Words
<1>2. <<"PG">> \o <<"APP", "DSN">> = <<"PG", "APP", "DSN">>
  BY <1>1, ConcatTriple
<1>3. <<"PG">> \o <<"DSN">> = <<"PG", "DSN">>
  BY <1>1, ConcatPair
<1>4. <<"PG">> \o <<"INSTANCE">> = <<"PG", "INSTANCE">>
  BY <1>1, ConcatPair
<1>5. <<"PG">> \o <<"ENV">> = <<"PG", "ENV">>
  BY <1>1, ConcatPair
<1> QED BY <1>2, <1>3, <1>4, <1>5

\* What stands before the last of three words.
LEMMA Prefix ==
  ASSUME NEW S, NEW s \in Seq(S), NEW x \in S, NEW u \in Seq(S), s \o <<x>> = u, Len(u) = 3
  PROVE  s = <<u[1], u[2]>>
<1>1. <<x>> \in Seq(S) /\ Len(<<x>>) = 1
  OBVIOUS
<1>2. Len(s) \in Nat /\ Len(s) + 1 = 3
  <2>1. Len(u) = Len(s) + Len(<<x>>)
    BY <1>1, ConcatProperties
  <2> QED BY <1>1, <2>1, LenProperties
<1>3. \A n \in Nat : n + 1 = 3 => n = 2
  OBVIOUS
<1>4. Len(s) = 2
  BY <1>2, <1>3
<1>5. \A i \in 1..(Len(s) + Len(<<x>>)) : u[i] = IF i <= Len(s) THEN s[i] ELSE <<x>>[i - Len(s)]
  BY <1>1, ConcatProperties
<1>6. s[1] = u[1] /\ s[2] = u[2]
  BY <1>1, <1>4, <1>5
<1> QED BY <1>4, <1>6

LEMMA LastWords ==
  ASSUME NEW id \in Seq(Word)
  PROVE  /\ id \o <<"INSTANCE">> # <<"PG", "ENV">>
         /\ id \o <<"DSN">> # <<"PG", "INSTANCE">> /\ id \o <<"DSN">> # <<"PG", "ENV">>
         /\ id \o <<"APP", "DSN">> # <<"PG", "INSTANCE">>
         /\ id \o <<"APP", "DSN">> # <<"PG", "ENV">>
<1> DEFINE i == <<"PG", "INSTANCE">>
           e == <<"PG", "ENV">>
<1>1. i[Len(i)] = "INSTANCE" /\ e[Len(e)] = "ENV"
  OBVIOUS
<1>2. ASSUME NEW w \in Word PROVE (id \o <<w>>)[Len(id \o <<w>>)] = w
  BY EndsIn
<1>3. ASSUME NEW v \in Word, NEW w \in Word PROVE (id \o <<v, w>>)[Len(id \o <<v, w>>)] = w
  BY EndsIn
<1> HIDE DEF i, e
<1>4. /\ id \o <<"INSTANCE">> # e
      /\ id \o <<"DSN">> # i /\ id \o <<"DSN">> # e
      /\ id \o <<"APP", "DSN">> # i /\ id \o <<"APP", "DSN">> # e
  <2>1. /\ (id \o <<"INSTANCE">>)[Len(id \o <<"INSTANCE">>)] = "INSTANCE"
        /\ (id \o <<"DSN">>)[Len(id \o <<"DSN">>)] = "DSN"
        /\ (id \o <<"APP", "DSN">>)[Len(id \o <<"APP", "DSN">>)] = "DSN"
    BY <1>2, <1>3, Words
  <2> QED BY <1>1, <2>1
<1> QED BY <1>4 DEF i, e

\* The variable of an instance names its id.
LEMMA SameId ==
  ASSUME NEW a \in Seq(STRING), NEW b \in Seq(STRING),
         a \o <<"INSTANCE">> = b \o <<"INSTANCE">>
  PROVE  a = b
<1> DEFINE w == <<"INSTANCE">>
<1>1. a \in Seq(Word) /\ b \in Seq(Word) /\ w \in Seq(Word) /\ Len(w) = 1
  BY Words
<1>2. a \o w = b \o w
  OBVIOUS
<1> HIDE DEF w
<1>3. /\ Len(a) \in Nat /\ Len(b) \in Nat
      /\ Len(a \o w) = Len(a) + Len(w) /\ Len(b \o w) = Len(b) + Len(w)
  BY <1>1, ConcatProperties, LenProperties
<1>4. Len(a) = Len(b)
  BY <1>1, <1>2, <1>3
<1>5. ASSUME NEW i \in 1..Len(a) PROVE a[i] = b[i]
  <2>1. (a \o w)[i] = a[i]
    BY <1>1, <1>3, ConcatProperties
  <2>2. (b \o w)[i] = b[i]
    BY <1>1, <1>3, <1>4, ConcatProperties
  <2> QED BY <1>2, <2>1, <2>2
<1> QED BY <1>1, <1>4, <1>5, SeqEqual

\* A file asks for the instance name of the id it is rendered for.
LEMMA InstanceRenamed ==
  ASSUME NEW id \in Seq(STRING)
  PROVE  Rendered(id)[<<"INSTANCE">>] = id \o <<"INSTANCE">>
<1>1. /\ <<"PG", "INSTANCE">> # <<"PG", "DSN">>
      /\ <<"PG", "INSTANCE">> # <<"PG", "APP", "DSN">>
  OBVIOUS
<1>2. id \o <<"INSTANCE">> # <<"PG", "ENV">>
  BY LastWords, Words
<1>3. Substitute(id, <<"PG">> \o <<"INSTANCE">>) = id \o <<"INSTANCE">>
  BY <1>1, <1>2, Names DEF Substitute
<1> QED BY <1>3 DEF Rendered, Suffixes

\* Every expression leaves alone what the ones before it have written, unless
\* the id is PG_APP: its ${PG_DSN} becomes ${PG_APP_DSN}, which the second
\* expression takes for the variable of the template.
LEMMA AllRenamed ==
  ASSUME NEW id \in Seq(STRING), NEW suffix \in Suffixes,
         id # PgApp \/ suffix # <<"DSN">>
  PROVE  Rendered(id)[suffix] = id \o suffix
<1>1. id # PgApp => id \o <<"DSN">> # <<"PG", "APP", "DSN">>
  <2> SUFFICES ASSUME id # PgApp PROVE id \o <<"DSN">> # <<"PG", "APP", "DSN">>
    OBVIOUS
  <2> DEFINE u == <<"PG", "APP", "DSN">>
  <2>1. u \in Seq(Word) /\ Len(u) = 3 /\ <<u[1], u[2]>> = PgApp
    BY Words DEF PgApp
  <2> HIDE DEF u
  <2>2. id \o <<"DSN">> # u
    BY <2>1, Prefix, Words
  <2> QED BY <2>2 DEF u
<1>2. \A x \in {<<"DSN">>, <<"APP", "DSN">>} :
        id \o x # <<"PG", "INSTANCE">> /\ id \o x # <<"PG", "ENV">>
  BY LastWords, Words
<1>3. /\ <<"PG", "DSN">> # <<"PG", "APP", "DSN">>
      /\ <<"PG", "ENV">> # <<"PG", "DSN">>
      /\ <<"PG", "ENV">> # <<"PG", "APP", "DSN">>
      /\ <<"PG", "ENV">> # <<"PG", "INSTANCE">>
  OBVIOUS
<1>4. CASE suffix = <<"DSN">>
  <2>1. Substitute(id, <<"PG", "DSN">>) = id \o <<"DSN">>
    BY <1>1, <1>2, <1>4, Names DEF Substitute
  <2> QED BY <1>4, <2>1, Names DEF Rendered
<1>5. CASE suffix = <<"APP", "DSN">>
  <2>1. Substitute(id, <<"PG", "APP", "DSN">>) = id \o <<"APP", "DSN">>
    BY <1>2, <1>3, Names DEF Substitute
  <2> QED BY <1>5, <2>1, Names DEF Rendered
<1>6. CASE suffix = <<"INSTANCE">>
  BY <1>6, InstanceRenamed
<1>7. CASE suffix = <<"ENV">>
  <2>1. Substitute(id, <<"PG", "ENV">>) = id \o <<"ENV">>
    BY <1>3, Names DEF Substitute
  <2> QED BY <1>7, <2>1, Names DEF Rendered
<1> QED BY <1>4, <1>5, <1>6, <1>7 DEF Suffixes

\* The sed expressions name the variables of one id, and every one rightly but
\* the DSN of PG_APP, for any ids.
THEOREM EntrypointVariables == Spec => []VariablesRenamed
<1>1. EntrypointInv => VariablesRenamed
  <2> SUFFICES ASSUME EntrypointInv, pc \in {"rendering", "running"},
                      NEW f \in DOMAIN dir \ Static
               PROVE  \E id \in Ids : \A suffix \in Suffixes :
                        \/ dir[f][suffix] = id \o suffix
                        \/ id = PgApp /\ suffix = <<"DSN">>
    BY DEF VariablesRenamed
  <2>1. PICK i \in 1..(next - 1) : dir[f] = Rendered(setting.ids[i])
    BY DEF EntrypointInv, Progress
  <2>2. i \in 1..Len(setting.ids) /\ setting.ids[i] \in Seq(STRING)
    BY IdsOf DEF EntrypointInv, Typed
  <2>3. ASSUME NEW suffix \in Suffixes
        PROVE  \/ dir[f][suffix] = setting.ids[i] \o suffix
               \/ setting.ids[i] = PgApp /\ suffix = <<"DSN">>
    BY <2>1, <2>2, AllRenamed
  <2> QED BY <2>2, <2>3 DEF Ids
<1> QED BY <1>1, EntrypointInvariant, PTL

\* No two ids of one environment differ in case only, and no static file has
\* the name of a rendered one.
NamesApart ==
  /\ \A s \in Settings : \A i, j \in 1..Len(s.ids) :
       Lower[s.ids[i]] = Lower[s.ids[j]] => s.ids[i] = s.ids[j]
  /\ \A id \in DOMAIN Lower, t \in Templates : <<Lower[id], t>> \notin Static

\* No rendered file is written over by that of another id, when their names
\* differ.
THEOREM EntrypointEveryInstance == NamesApart => (Spec => []EveryInstanceRendered)
<1>1. NamesApart /\ EntrypointInv => EveryInstanceRendered
  <2> SUFFICES ASSUME NamesApart, EntrypointInv, pc = "running", NEW id \in Ids, NEW t \in Templates
               PROVE  \E f \in DOMAIN dir \ Static :
                        f[2] = t /\ dir[f][<<"INSTANCE">>] = id \o <<"INSTANCE">>
    BY DEF EveryInstanceRendered
  <2>1. PICK i \in 1..Len(setting.ids) : id = setting.ids[i]
    BY DEF Ids
  <2> DEFINE f == FileName(id, t)
  <2>2. f \in Files(i)
    BY <2>1 DEF Files
  <2>3. f \notin Static
    BY <2>1, IdsOf DEF EntrypointInv, NamesApart, FileName
  <2>4. f \in DOMAIN dir \ Static
    BY <2>2, <2>3, DirAtTheEnd
  <2>5. PICK j \in 1..Len(setting.ids) :
          f \in Files(j) /\ dir[f] = Rendered(setting.ids[j])
    BY <2>4, DirAtTheEnd
  <2>6. Lower[id] = Lower[setting.ids[j]]
    BY <2>5 DEF Files, FileName
  <2>7. id = setting.ids[j]
    BY <2>1, <2>6 DEF NamesApart, EntrypointInv, Typed
  <2>8. dir[f][<<"INSTANCE">>] = id \o <<"INSTANCE">>
    <3>1. id \in Seq(STRING)
      BY <2>1, IdsOf DEF EntrypointInv
    <3> QED BY <2>5, <2>7, <3>1, InstanceRenamed
  <2> QED BY <2>4, <2>8 DEF FileName
<1>2. CASE NamesApart
  <2>1. EntrypointInv => EveryInstanceRendered
    BY <1>1, <1>2
  <2>2. Spec => []EveryInstanceRendered
    BY <2>1, EntrypointInvariant, PTL
  <2> QED BY <2>2
<1> QED BY <1>2

NoPgApp == \A s \in Settings : \A i \in 1..Len(s.ids) : s.ids[i] # PgApp

\* The header of the script says what it does, for ids that differ in more than
\* case and are not PG_APP.
THEOREM EntrypointHeader == NamesApart /\ NoPgApp => (Spec => []AsTheHeaderSays)
<1>1. NoPgApp /\ EntrypointInv /\ EveryInstanceRendered /\ VariablesRenamed => AsTheHeaderSays
  <2> SUFFICES ASSUME NoPgApp, EntrypointInv, EveryInstanceRendered, VariablesRenamed,
                      pc = "running", NEW id \in Ids, NEW t \in Templates
               PROVE  \E f \in DOMAIN dir \ Static :
                        f[2] = t /\ \A suffix \in Suffixes : dir[f][suffix] = id \o suffix
    BY DEF AsTheHeaderSays
  <2>1. PICK f \in DOMAIN dir \ Static :
          f[2] = t /\ dir[f][<<"INSTANCE">>] = id \o <<"INSTANCE">>
    BY DEF EveryInstanceRendered
  <2>2. ASSUME NEW j \in Ids PROVE j \in Seq(STRING) /\ j # PgApp
    BY IdsOf DEF Ids, NoPgApp, EntrypointInv, Typed
  <2>3. PICK j \in Ids : \A suffix \in Suffixes : dir[f][suffix] = j \o suffix
    BY <2>2 DEF VariablesRenamed
  <2>4. j \o <<"INSTANCE">> = id \o <<"INSTANCE">>
    BY <2>1, <2>3 DEF Suffixes
  <2>5. j = id
    BY <2>2, <2>4, SameId
  <2> QED BY <2>1, <2>3, <2>5
<1>2. CASE NamesApart /\ NoPgApp
  <2>1. Spec => []EveryInstanceRendered
    BY <1>2, EntrypointEveryInstance
  <2>2. EntrypointInv /\ EveryInstanceRendered /\ VariablesRenamed => AsTheHeaderSays
    BY <1>1, <1>2
  <2>3. Spec => []AsTheHeaderSays
    BY <2>1, <2>2, EntrypointInvariant, EntrypointVariables, PTL
  <2> QED BY <2>3
<1> QED BY <1>2
=============================================================================
