----------------------------- MODULE QueryCheck -----------------------------
(***************************************************************************)
(* check_queries.py: every query of the generated boards is sent through   *)
(* Grafana and errors are counted.  pg-* boards: once per retention policy *)
(* with all variables .*; ch-* boards: once with All and once with the     *)
(* first option of every variable.                                         *)
(***************************************************************************)
EXTENDS BoardQueries

CONSTANT Settings    \* command lines: CLICKHOUSE, ONLY and OVERRIDES (CHECK_VARS)

ASSUME SettingsAssumption ==
  \A s \in Settings : \A n \in DOMAIN s.overrides : s.overrides[n] \in Nat

\* No option: CLICKHOUSE=0, ONLY="", no CHECK_VARS.
NoSetting == [clickhouse |-> FALSE, only |-> "", overrides |-> <<>>]

VARIABLES
  setting,   \* the one of this execution
  job, at,   \* board and pass being checked, and which query of it
  loaded,    \* the variables and the targets of that board
  envs,      \* env_values of the pass: the first and the last env
  values,    \* ch-*: selection of the variables so far
  failed,    \* whether an error was counted
  exit,      \* exit code, "running" or "idle" before
  asked,     \* history: number of queries of variables and panels sent
  missed,    \* history: a query got no answer or an error
  outage     \* history: the server failed to answer a correct query

checkVars ==
  <<setting, job, at, loaded, envs, values, failed, exit, asked, missed, outage>>

----------------------------------------------------------------------------
(* The boards checked and their queries.                                   *)

\* sorted(OUTPUT_DIR.glob(...)).  Boards are checked independently of each
\* other; they come in the order they are generated in.
Files(prefix) == SelectSeq(BOARDS, LAMBDA uid : StartsWith(prefix, uid))

\* ch-{ONLY}*.json or pg-{ONLY}*.json
Checked(s) == Files((IF s.clickhouse THEN "ch-" ELSE "pg-") \o s.only)

\* for path in ...: for rp in RETENTION_POLICIES / for mode in ("all", "first")
Jobs ==
  LET files == Checked(setting)
  IN [i \in 1..2 * Len(files) |-> [uid |-> files[(i + 1) \div 2], pass |-> 2 - (i % 2)]]

Uid == Jobs[job].uid
RetentionOfPass == RETENTION_POLICIES[Jobs[job].pass]
Mode == <<"all", "first">>[Jobs[job].pass]

TargetsOf(panels) ==
  FlattenSeq([i \in 1..Len(panels) |->
     LET p == panels[i]
     IN [t \in 1..Len(p.targets) |-> [from |-> p.from, by |-> p.by, filters |-> p.targets[t]]]])

\* json.loads(path.read_text()); a file is the same in both passes.
Contents(b) == [vars |-> b.vars, targets |-> TargetsOf(b.panels)]
Load == loaded' = Contents(Board[Uid])

AtStart == at = 0
AtVariable == at \in 1..Len(loaded.vars)
AtTarget == at - Len(loaded.vars) \in 1..Len(loaded.targets)
AtEnd == ~AtStart /\ ~AtVariable /\ ~AtTarget

CurrentVariable == loaded.vars[at]
CurrentTarget == loaded.targets[at - Len(loaded.vars)]

\* Textboxes and the custom variable rp have no query.
AtQuery == AtTarget \/ (AtVariable /\ CurrentVariable.type = "query")
QueryFilters == IF AtVariable THEN CurrentVariable.refs ELSE CurrentTarget.filters

----------------------------------------------------------------------------
(* Substitution.  run() replaces the names one after the other, the        *)
(* longest first, wherever they occur: $env also occurs in $env_a.         *)

VARS == {"env", "db_instance", "datname", "usename", "query_mask_md5", "query_md5",
         "queryid", "schemaname", "relname"}
Names == VARS \cup SIDE_VARS \cup KEEP_RP \cup DOMAIN setting.overrides

NamesIn(v) == {k \in Names : StartsWith(k, v)}

\* Mistake: the names are replaced in the order of VARS, $env before $env_a.
FirstReplacedUnsorted(v) == CHOOSE k \in NamesIn(v) : \A j \in NamesIn(v) : Len(j) >= Len(k)
\* The name whose replacement reaches the reference to v first.
FirstReplaced(v) == CHOOSE k \in NamesIn(v) : \A j \in NamesIn(v) : Len(j) <= Len(k)

InfluxValue(k) ==
  CASE k \in DOMAIN setting.overrides -> {setting.overrides[k]}
    [] k \in KEEP_RP \ DOMAIN setting.overrides -> {RetentionOfPass}
    [] k = "env_a" /\ k \notin DOMAIN setting.overrides -> {envs[1]}
    [] k = "env_b" /\ k \notin DOMAIN setting.overrides -> {envs[2]}
    [] OTHER -> All

\* interpolate(): a ch-* variable not selected yet counts as All in
\* $__conditionalAll and stays unreplaced everywhere else.
Known(v) == IF setting.clickhouse THEN v \in DOMAIN values ELSE NamesIn(v) # {}

Interpolated ==
  [v \in {w \in QueryFilters : Known(w)} |->
     IF setting.clickhouse THEN values[v] ELSE InfluxValue(FirstReplaced(v))]

----------------------------------------------------------------------------
(* Answers of the server.                                                  *)

\* ClickHouse rejects a query that names a column the table does not have.
BadQuery ==
  /\ setting.clickhouse
  /\ \/ \E v \in QueryFilters : ~Known(v)
     \/ /\ AtTarget
        /\ ~(CurrentTarget.by \cup {ColumnOf(v) : v \in CurrentTarget.filters})
               \subseteq Tags[CurrentTarget.from]

Results == IF BadQuery THEN {"error"} ELSE {"ok", "error"}

\* Mistake: failed = (status == "ERROR"), the last query decides.
AskForgetting(result) ==
  /\ asked' = asked + 1
  /\ failed' = (result = "error")
  /\ missed' = (missed \/ result = "error")
  /\ outage' = (outage \/ (result = "error" /\ ~BadQuery))

Ask(result) ==
  /\ asked' = asked + 1
  /\ failed' = (failed \/ result = "error")
  /\ missed' = (missed \/ result = "error")
  /\ outage' = (outage \/ (result = "error" /\ ~BadQuery))

NoneAsked == UNCHANGED <<asked, failed, missed, outage>>

----------------------------------------------------------------------------
CheckInit ==
  /\ facts \in Collections
  /\ setting = NoSetting
  /\ job = 1 /\ at = 0
  /\ loaded = [vars |-> <<>>, targets |-> <<>>]
  /\ envs = <<0, 0>>
  /\ values = <<>>
  /\ failed = FALSE /\ missed = FALSE /\ outage = FALSE
  /\ asked = 0
  /\ exit = "idle"

StartCheck ==
  /\ exit = "idle"
  /\ setting' \in Settings
  /\ exit' = "running"
  /\ UNCHANGED <<job, at, loaded, envs, values, failed, asked, missed, outage>>

Running == exit = "running" /\ job <= Len(Jobs)
Step == at' = at + 1 /\ UNCHANGED <<setting, job, exit>>

\* env_values = envs(rp): an error of this query is not counted, the envs are
\* then empty strings.
AskEnvs ==
  /\ Running /\ AtStart /\ ~setting.clickhouse
  /\ \E result \in {"ok", "error"} :
       LET found == {f.env : f \in {g \in facts : Retained(g, [rp |-> {RetentionOfPass}])}}
       IN envs' = IF result = "error" \/ found = {} THEN <<0, 0>>
                  ELSE <<Lowest(found), Highest(found)>>
  /\ Step
  /\ Load
  /\ NoneAsked
  /\ UNCHANGED values

\* values, textboxes = {}, {}
BeginBoard ==
  /\ Running /\ AtStart /\ setting.clickhouse
  /\ values' = <<>>
  /\ Step
  /\ Load
  /\ NoneAsked
  /\ UNCHANGED envs

\* A variable without a query: skipped, a textbox of a ch-* board gets .*.
PassVariable ==
  /\ Running /\ AtVariable /\ ~AtQuery
  /\ values' = IF setting.clickhouse THEN With(values, CurrentVariable.name, All) ELSE values
  /\ Step
  /\ NoneAsked
  /\ UNCHANGED <<loaded, envs>>

AskVariable ==
  /\ Running /\ AtVariable /\ AtQuery /\ ~setting.clickhouse
  /\ \E result \in Results : Ask(result)
  /\ Step
  /\ UNCHANGED <<loaded, envs, values>>

\* A later query sees the earlier selections.
Selected(v, first) ==
  IF v.name \in DOMAIN setting.overrides THEN {setting.overrides[v.name]}
  ELSE IF v.multi /\ Mode = "all" THEN All ELSE first

AskVariableCh ==
  /\ Running /\ AtVariable /\ AtQuery /\ setting.clickhouse
  /\ \E result \in Results :
       /\ Ask(result)
       /\ LET first == IF result = "error" THEN NoOption
                       ELSE FirstOptions(Uid, CurrentVariable, Interpolated, "short")
          IN values' = With(values, CurrentVariable.name, Selected(CurrentVariable, first))
  /\ Step
  /\ UNCHANGED <<loaded, envs>>

AskTarget ==
  /\ Running /\ AtTarget
  /\ \E result \in Results : Ask(result)
  /\ Step
  /\ UNCHANGED <<loaded, envs, values>>

\* Mistake: the next board continues where this one ended.
EndBoardInPlace ==
  /\ Running /\ AtEnd
  /\ job' = job + 1
  /\ envs' = <<0, 0>> /\ values' = <<>>
  /\ NoneAsked
  /\ UNCHANGED <<setting, at, loaded, exit>>

EndBoard ==
  /\ Running /\ AtEnd
  /\ job' = job + 1 /\ at' = 0
  /\ envs' = <<0, 0>> /\ values' = <<>>
  /\ NoneAsked
  /\ UNCHANGED <<setting, loaded, exit>>

\* Grafana cannot be reached: URLError is not caught, the program ends.
Abort ==
  /\ Running
  /\ AtQuery \/ (AtStart /\ ~setting.clickhouse)
  /\ exit' = "1"
  /\ missed' = TRUE /\ outage' = TRUE
  /\ UNCHANGED <<setting, job, at, loaded, envs, values, failed, asked>>

\* return 1 if failed else 0
Finish ==
  /\ exit = "running" /\ job > Len(Jobs)
  /\ exit' = IF failed THEN "1" ELSE "0"
  /\ UNCHANGED <<setting, job, at, loaded, envs, values, failed, asked, missed, outage>>

CheckNext ==
  /\ \/ StartCheck \/ AskEnvs \/ BeginBoard \/ PassVariable \/ AskVariable
     \/ AskVariableCh \/ AskTarget \/ EndBoard \/ Abort \/ Finish
  /\ UNCHANGED facts

----------------------------------------------------------------------------
(* Properties                                                              *)

CheckTypeOK ==
  /\ exit # "idle" => setting \in Settings
  /\ job \in 1..Len(Jobs) + 1
  /\ at \in Nat
  /\ job > Len(Jobs) => at = 0
  /\ envs \in Nat \X Nat
  /\ \A v \in DOMAIN values : values[v] \subseteq Nat
  /\ failed \in BOOLEAN /\ missed \in BOOLEAN /\ outage \in BOOLEAN
  /\ asked \in Nat
  /\ exit \in {"idle", "running", "0", "1"}

\* What the selection must ask: every query of every variable and panel of
\* every board with the prefix, in both passes.
QueriesOf(b) ==
  Cardinality({i \in DOMAIN b.vars : b.vars[i].type = "query"})
  + SumFunction([i \in DOMAIN b.panels |-> Len(b.panels[i].targets)])
QueriesToAsk == SumFunction([j \in DOMAIN Jobs |-> QueriesOf(Board[Jobs[j].uid])])

\* "Run every panel query of the generated dashboards ... and report errors":
\* exit code 0 means that no query was left out and that none of them failed,
\* however the answers and the errors follow each other.  And the boards only
\* ask for what the stores can answer: with a server that answers every
\* correct query, the exit code is not 1.
VerdictIsRight ==
  /\ exit = "0" => asked = QueriesToAsk /\ ~missed
  /\ exit = "1" => outage

\* The query sent has each of its variables replaced, by the value of that
\* variable: never by that of a variable whose name it begins with, and never
\* left for one further down the board.
ReplacedByItsOwnValue ==
  Running /\ AtQuery =>
    \A v \in QueryFilters : Known(v) /\ (~setting.clickhouse => FirstReplaced(v) = v)

\* The first options are chosen so that they exist together: as long as the
\* server answers and nothing is overridden, a query over all rows or over
\* both envs has rows in every pass, so EMPTY points at the query.
FirstValuesMatchRows ==
  LET recent == {f \in facts : f.age = 0}
  IN (/\ Running /\ AtTarget /\ ~outage
      /\ setting.clickhouse \/ envs # <<0, 0>>
      /\ DOMAIN setting.overrides = {}
      /\ recent # {}
      /\ Cardinality(QueryFilters \cap SIDE_VARS) # 1)
     => \E f \in recent : Matches(f, QueryFilters, Interpolated)

----------------------------------------------------------------------------
(* What the boards must be like for the verdict to be right: a fact about  *)
(* the boards generated, whatever their panels and variables.              *)

IsSeq(s) == s \in Seq(ToSet(s))

\* ClickHouse can answer: the query of a variable uses those above it, that of
\* a panel the variables of the board and columns of its measurement.
Answerable(b) ==
  /\ \A i \in 1..Len(b.vars) :
       b.vars[i].type = "query" => b.vars[i].refs \subseteq NamesAbove(b, i)
  /\ \A t \in ToSet(TargetsOf(b.panels)) :
       /\ t.filters \subseteq NamesAbove(b, Len(b.vars) + 1)
       /\ t.by \cup {ColumnOf(v) : v \in t.filters} \subseteq Tags[t.from]

\* run() has a value for every variable used, and InfluxQL asks for one env at
\* a time.
FixedNames == VARS \cup SIDE_VARS \cup KEEP_RP
Replaceable(b) ==
  /\ \A v \in ToSet(b.vars) : v.type = "query" => v.refs \subseteq FixedNames
  /\ \A t \in ToSet(TargetsOf(b.panels)) :
       t.filters \subseteq FixedNames /\ ~(SIDE_VARS \subseteq t.filters)

BoardsAskable ==
  /\ \A uid \in Uids :
       /\ IsSeq(Board[uid].vars) /\ IsSeq(Board[uid].panels)
       /\ \A p \in ToSet(Board[uid].panels) : IsSeq(p.targets)
  /\ \A s \in Settings \cup {NoSetting} :
       /\ Checked(s) \in Seq(Uids)
       /\ \A uid \in ToSet(Checked(s)) :
            /\ Clickhouse(uid) = s.clickhouse
            /\ IF s.clickhouse THEN Answerable(Board[uid]) ELSE Replaceable(Board[uid])

\* A name that another one begins with is shorter.
NamesUsed == FixedNames \cup UNION {DOMAIN s.overrides : s \in Settings}
PrefixesShorter ==
  \A v, k \in NamesUsed :
    /\ Len(k) \in Nat /\ StartsWith(k, k)
    /\ StartsWith(k, v) /\ k # v => Len(k) < Len(v)
=============================================================================
