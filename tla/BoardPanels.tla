---------------------------- MODULE BoardPanels ----------------------------
(***************************************************************************)
(* What the builders of src/dashboards/builder put on a board: variables,  *)
(* panels with their size, and links.  Of a query only what decides which  *)
(* rows are shown is kept: the measurement, the variables its WHERE uses   *)
(* (one set per target) and the key columns of its rows (the tags it       *)
(* groups by, the labels of a series).  Titles, units, thresholds, colours *)
(* and the other columns are left out.                                     *)
(***************************************************************************)
EXTENDS Naturals, Sequences, TLC

----------------------------------------------------------------------------
(* Links.  `fields` sets variables of the board `to` from columns of the   *)
(* clicked row, `carry` from variables of this board.                      *)

Link(on, to, fields, carry) ==
  [on |-> on, to |-> to, fields |-> fields, carry |-> carry]

Same(names) == [n \in names |-> n]

\* Variables kept by self-filter links.
FILTER_VARS == {"env", "db_instance", "datname", "usename"}

\* URL part carried by every link: the retention policy, which ch-* boards lack.
KEEP_RP == {"rp"}

drill_url(on, to, keep, fields) == Link(on, to, Same(fields), Same(keep))

\* The given variables are set, the other FILTER_VARS carried as they are.
self_filter_url(on, to, keep, fields) ==
  Link(on, to, Same(fields), Same(keep \cup (FILTER_VARS \ fields)))

\* One link per column, each on its own cell.
field_filter_url(to, keep, columns) ==
  {self_filter_url(c, to, keep, {c}) : c \in columns}

\* A click on a series sets all the labels named.
series_filter_url(to, keep, on, labels) ==
  {self_filter_url(on, to, keep, labels)}

\* Variables carried by cell links between the compare boards.
KEEP_VARS == {"env_a", "env_b", "db_instance", "datname"}

cell_url(on, to, keep, fields) ==
  Link(on, to, Same(fields), Same(keep \cup (KEEP_VARS \ fields)))

\* Schema and table cells open the drill board of the row.
schema_links(to, keep) ==
  {cell_url("schemaname", to, keep, {"datname", "schemaname"}),
   cell_url("relname", to, keep, {"datname", "schemaname", "relname"})}

----------------------------------------------------------------------------
(* Panels, with the default sizes of the builders.  `scope` says which env *)
(* the rows are of: of the variable env ("all"), of one side of a compare  *)
(* board, of both sides or of one side only; `timed` whether the query has *)
(* a condition on the time.                                                *)

Panel(type, w, h, from, scope, targets, by, links) ==
  [type |-> type, w |-> w, h |-> h, from |-> from, scope |-> scope,
   targets |-> targets, by |-> by, links |-> links, inner |-> <<>>,
   timed |-> TRUE]

Row == Panel("row", 24, 1, "", "all", <<>>, {}, {})

\* A collapsed row with one text panel per runbook.
runbook_row(runbooks) ==
  [Row EXCEPT !.inner = [i \in 1..runbooks |-> [w |-> 24 \div runbooks, h |-> 14]]]

table_panel(w, h, from, targets, by, links) ==
  Panel("table", w, h, from, "all", targets, by, links)

timeseries_panel(from, target, by, links) ==
  Panel("timeseries", 12, 8, from, "all", <<target>>, by, links)

stat_panel(w, from, target) == Panel("stat", w, 4, from, "all", <<target>>, {}, {})

----------------------------------------------------------------------------
(* Variables, in board order.  `col` is the column of the options, `refs`  *)
(* the variables the query of the options uses, `first` which option a     *)
(* single-value variable takes by default; a multi-value one has All.      *)

Variable(name, type, col, refs, multi, first) ==
  [name |-> name, type |-> type, col |-> col, refs |-> refs, multi |-> multi,
   first |-> first]

Multi(name, refs) == Variable(name, "query", name, refs, TRUE, "asc")
Single(name, col, refs, first) == Variable(name, "query", col, refs, FALSE, first)

\* 7d (raw points) is selected by default, 200d has the 1h rollups.
RETENTION_POLICIES == <<7, 200>>
var_rp == Variable("rp", "custom", "rp", {}, FALSE, "asc")
var_textbox(name) == Variable(name, "textbox", name, {}, FALSE, "asc")

\* pg-* boards: every query reads from the retention policy $rp.
PgEnv == Multi("env", KEEP_RP)
PgInstance == Multi("db_instance", KEEP_RP \cup {"env"})
\* Mistake: the databases of all instances.
PgDatnameOfEnv == Multi("datname", KEEP_RP \cup {"env"})
PgDatname == Multi("datname", KEEP_RP \cup {"env", "db_instance"})
PgUsename == Multi("usename", KEEP_RP \cup {"env", "db_instance", "datname"})

\* ch-* boards.
ChEnv == Multi("env", {})
ChInstance == Multi("db_instance", {"env"})
\* Mistake: the databases of all instances.
ChDatnameOfEnv == Multi("datname", {"env"})
ChDatname == Multi("datname", {"env", "db_instance"})
ChUsename == Multi("usename", {"env", "db_instance", "datname"})

\* Compare boards: env_b is sorted descending, so that it differs by default.
influx_variables ==
  <<var_rp, Single("env_a", "env", KEEP_RP, "asc"),
    Single("env_b", "env", KEEP_RP, "desc"),
    Single("db_instance", "db_instance", KEEP_RP \cup {"env_a"}, "asc"),
    Multi("datname", KEEP_RP \cup {"env_a", "env_b", "db_instance"})>>

\* Mistake: the instances of env A in alphabetical order.
ch_variables_sorted ==
  <<Single("env_a", "env", {}, "asc"), Single("env_b", "env", {}, "desc"),
    Single("db_instance", "db_instance", {"env_a"}, "asc"),
    Multi("datname", {"env_a", "env_b", "db_instance"})>>
\* The instances of env A, those of both envs first.
ch_variables ==
  <<Single("env_a", "env", {}, "asc"), Single("env_b", "env", {}, "desc"),
    Single("db_instance", "db_instance", {"env_a", "env_b"}, "shared"),
    Multi("datname", {"env_a", "env_b", "db_instance"})>>

schema_variables(keep) ==
  <<Single("schemaname", "schemaname", keep \cup KEEP_VARS, "asc"),
    var_textbox("relname")>>

----------------------------------------------------------------------------
(* Boards.  A dropdown leads to every board that has its tag, with or      *)
(* without the variables.                                                  *)

Dropdown(tag, include_vars) == [tag |-> tag, vars |-> include_vars]

base_dashboard(tag, variables, panels) ==
  [tag |-> tag, dropdowns |-> {Dropdown(tag, TRUE)}, vars |-> variables,
   panels |-> panels]

\* A compare board also leads to the runbook boards, without the variables.
CompareBoard(tag, runbooks, variables, panels) ==
  [base_dashboard(tag, variables, panels) EXCEPT
     !.dropdowns = @ \cup {Dropdown(runbooks, FALSE)}]
=============================================================================
