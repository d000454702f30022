---------------------------- MODULE BoardQueries ----------------------------
(***************************************************************************)
(* What the queries of the boards return.  The monitoring collects facts:  *)
(* a fact has a value under every column, and each measurement has the     *)
(* facts under its own tags.  Values are numbers, in the order Grafana and *)
(* the servers sort them.  A selection is a set of values of a variable.   *)
(***************************************************************************)
EXTENDS CompareBoards, SequencesExt

CONSTANT Collections    \* the sets of facts the stores may hold
VARIABLE facts          \* the one they do

\* Columns of the measurements that tell series apart (the tags).
DB_TAGS == INST \cup {"datname"}
Tags ==
  [pg_activity_grouped |-> ACTIVITY,
   pg_locks_blocked    |-> DB_TAGS,
   pg_db_limits        |-> DB_TAGS,
   pg_role_limits      |-> INST \cup {"rolname"},
   pg_db_stat          |-> DB_TAGS,
   pg_settings_limits  |-> INST,
   pg_stmt_info        |-> INST,
   pg_stmt             |-> STMT_SERIES,
   pg_stmt_mask        |-> MASK_SERIES,
   pg_stmt_totals      |-> SERIES,
   pg_stmt_text        |-> STMT,
   pg_table_stat       |-> OBJ,
   pg_index_stat       |-> INDEX]

TagColumns == UNION {Tags[t] : t \in DOMAIN Tags}
FactRecord == [TagColumns \cup {"age"} -> Nat]

\* A fact of age 0 is within the default range, one of age 1 is older than
\* that range and than the retention of 7 days.
ASSUME CollectionsAssumption ==
  \A collected \in Collections :
    /\ IsFiniteSet(collected)
    /\ \A f \in collected : /\ f \in FactRecord /\ f.age \in {0, 1}
                            /\ \A c \in TagColumns : f[c] > 0

----------------------------------------------------------------------------
(* Filters.  `val` gives the selection of each variable.                   *)

\* The selection with a value for one more variable, or another one.
With(val, name, value) ==
  [n \in DOMAIN val \cup {name} |-> IF n = name THEN value ELSE val[n]]

All == {}           \* .* in InfluxQL, 1=1 in ClickHouse
NoOption == {0}     \* the empty string, which no row has

StartsWith(prefix, s) == Len(prefix) <= Len(s) /\ SubSeq(s, 1, Len(prefix)) = prefix
Clickhouse(uid) == StartsWith("ch-", uid)

SIDE_VARS == {"env_a", "env_b"}
ColumnOf(v) == IF v \in SIDE_VARS THEN "env" ELSE v
Selects(f, v, val) == val[v] = All \/ f[ColumnOf(v)] \in val[v]

\* A query that uses env_a and env_b asks for the rows of either env.
Matches(f, filters, val) ==
  /\ \A v \in filters \ (KEEP_RP \cup SIDE_VARS) : Selects(f, v, val)
  /\ filters \cap SIDE_VARS # {} => \E v \in filters \cap SIDE_VARS : Selects(f, v, val)

Retained(f, val) == f.age = 0 \/ "rp" \notin DOMAIN val \/ val.rp # {RETENTION_POLICIES[1]}
InRange(f, range) == f.age = 0 \/ range = "long"

----------------------------------------------------------------------------
(* Options of a variable.  SHOW TAG VALUES of InfluxDB has no time filter, *)
(* the SELECT of ClickHouse has one.                                       *)

OptionRows(uid, v, val, range) ==
  {f \in facts : /\ Retained(f, val)
                 /\ Clickhouse(uid) => InRange(f, range)
                 /\ Matches(f, v.refs, val)
                 /\ v.first = "shared" =>
                      \E g \in facts : /\ InRange(g, range)
                                       /\ g[v.col] = f[v.col]
                                       /\ Selects(g, "env_a", val)}

Options(uid, v, val, range) ==
  {f[v.col] : f \in OptionRows(uid, v, val, range)}

Lowest(S) == CHOOSE i \in S : \A j \in S : i <= j
Highest(S) == CHOOSE i \in S : \A j \in S : i >= j

NamesAbove(b, i) == {b.vars[k].name : k \in 1..i - 1}

\* The option at the top of the list.
FirstOption(uid, v, val, range) ==
  LET rows == OptionRows(uid, v, val, range)
      ids == {f[v.col] : f \in rows}
      envs(i) == {f.env : f \in {g \in rows : g[v.col] = i}}
  IN CASE v.first = "asc"    -> Lowest(ids)
       [] v.first = "desc"   -> Highest(ids)
       [] v.first = "shared" ->
            Lowest({i \in ids : \A j \in ids : Cardinality(envs(i)) >= Cardinality(envs(j))})

\* options[:1], interpolated as '' when there is none.
FirstOptions(uid, v, val, range) ==
  IF Options(uid, v, val, range) = {} THEN NoOption
  ELSE {FirstOption(uid, v, val, range)}

----------------------------------------------------------------------------
(* Rows of a panel.                                                        *)

Queried(p) == UNION {p.targets[i] : i \in 1..Len(p.targets)}
SideFilters(p, side) == (Queried(p) \ SIDE_VARS) \cup F_SIDE[side]

SameObject(p, f, g) == \A c \in p.by : f[c] = g[c]

Answer(p, val, range) ==
  LET at == {f \in facts : Retained(f, val) /\ (p.timed => InRange(f, range))}
      rows(filters) == {f \in at : Matches(f, filters, val)}
      a == rows(SideFilters(p, "a"))
      b == rows(SideFilters(p, "b"))
      also(f, S) == \E g \in S : SameObject(p, f, g)
  IN CASE p.scope = "all" -> rows(Queried(p))
       [] p.scope = "a" -> a
       [] p.scope = "b" -> b
       [] p.scope = "only_a" -> {f \in a : ~also(f, b)}
       [] p.scope = "only_b" -> {f \in b : ~also(f, a)}
       [] p.scope = "both" -> {f \in a \cup b : also(f, a) /\ also(f, b)}

\* The panels of a board that have a query.
QueryPanels(uid) == {p \in ToSet(Board[uid].panels) : p.targets # <<>>}
=============================================================================
