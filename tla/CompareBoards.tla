--------------------------- MODULE CompareBoards ---------------------------
(***************************************************************************)
(* The eight env comparison boards (one instance in env A and in env B)    *)
(* and the list of all boards.                                             *)
(***************************************************************************)
EXTENDS RunbookBoards

SIDES == <<"a", "b">>
F_SIDE == [a |-> {"env_a"}, b |-> {"env_b"}]
F_PAIR == {"db_instance", "datname"}
F_SCOPE == {"schemaname", "relname"}
PAIR_OBJ == OBJ \ INST
PAIR_INDEX == INDEX \ INST
PAIR_MASK == {"datname", "query_mask_md5"}

Scoped(scope, panel) == [panel EXCEPT !.scope = scope]

\* Mistake: the env of the other side.
side_detail_links_swapped(side, to, keep) ==
  {Link("query_mask_md5", to, Same({"query_mask_md5"}),
        [v \in keep \cup INST |->
           IF v = "env" THEN IF side = "a" THEN "env_b" ELSE "env_a" ELSE v])}
\* query_mask_md5 opens the statement detail of the env of the side.
side_detail_links(side, to, keep) ==
  {Link("query_mask_md5", to, Same({"query_mask_md5"}),
        [v \in keep \cup INST |->
           IF v = "env" THEN IF side = "a" THEN "env_a" ELSE "env_b" ELSE v])}

----------------------------------------------------------------------------
(* pg-cmp-*: one query per env, combined by the transformations of Grafana *)

side_filters(side, extra) == src(F_SIDE[side] \cup F_PAIR \cup extra)
both_sides(extra) == <<side_filters("a", extra), side_filters("b", extra)>>

side_table(side, h, from, extra, by, links) ==
  Scoped(side, table_panel(12, h, from, <<side_filters(side, extra)>>, by, links))

side_by_side(h, from, extra, by, links) ==
  [i \in 1..2 |-> side_table(SIDES[i], h, from, extra, by, links)]

\* The query and the total of its env, joined.
influx_share(panel) == [panel EXCEPT !.targets = @ \o @]

share_pair(h, from, extra, by, links) ==
  [i \in 1..2 |-> influx_share(side_table(SIDES[i], h, from, extra, by, links))]

influx_delta(h, from, extra, by, links) ==
  Scoped("both", table_panel(24, h, from, both_sides(extra), by, links))

influx_only_in(side, h, from, extra, by, links) ==
  Scoped("only_" \o side, table_panel(12, h, from, both_sides(extra), by, links))

\* Only in A, only in B.
influx_only_in_each(h, from, extra, by, links) ==
  [i \in 1..2 |-> influx_only_in(SIDES[i], h, from, extra, by, links)]

influx_changed(h, from, extra, by, links) == influx_delta(h, from, extra, by, links)

pg_schema_links == schema_links("pg-cmp-schema", KEEP_RP)
pg_board(variables, panels) ==
  CompareBoard("pg-env-compare", "pg-runbooks", variables, panels)

compare_tables ==
  LET T(P(_,_,_,_,_), h) == P(h, "pg_table_stat", {}, PAIR_OBJ, pg_schema_links)
  IN pg_board(influx_variables,
       <<Row, T(influx_delta, 10)>> \o T(influx_only_in_each, 8)
       \o <<Row>> \o T(side_by_side, 12)
       \o <<Row>> \o T(share_pair, 10) \o T(share_pair, 10))

compare_indexes ==
  LET X(P(_,_,_,_,_), h) == P(h, "pg_index_stat", {}, PAIR_INDEX, pg_schema_links)
  IN pg_board(influx_variables,
       <<Row>> \o X(influx_only_in_each, 9) \o <<X(influx_changed, 7)>>
       \o <<Row>> \o X(share_pair, 10) \o X(side_by_side, 9)
       \o <<Row>> \o X(side_by_side, 10))

compare_statements ==
  LET detail(side) == side_detail_links(side, "pg-statement-detail", KEEP_RP)
      masks == [i \in 1..2 |-> influx_share(
                  side_table(SIDES[i], 12, "pg_stmt_mask", {}, PAIR_MASK, detail(SIDES[i])))]
      only == [i \in 1..2 |-> influx_only_in(
                  SIDES[i], 10, "pg_stmt_mask", {}, PAIR_MASK, detail(SIDES[i]))]
  IN pg_board(influx_variables,
       <<Row>> \o masks \o masks
       \o <<Row, influx_delta(12, "pg_stmt_mask", {}, PAIR_MASK, {})>> \o only)

compare_schema ==
  LET T(P(_,_,_,_,_), h) == P(h, "pg_table_stat", F_SCOPE, PAIR_OBJ, pg_schema_links)
      X(P(_,_,_,_,_), h) == P(h, "pg_index_stat", F_SCOPE, PAIR_INDEX, pg_schema_links)
  IN pg_board(influx_variables \o schema_variables(KEEP_RP),
       <<Row, T(influx_delta, 9)>>
       \o T(influx_only_in_each, 7) \o X(influx_only_in_each, 7) \o <<X(influx_changed, 6)>>
       \o <<Row>> \o T(side_by_side, 10) \o T(share_pair, 9)
       \o <<Row>> \o X(side_by_side, 10) \o X(share_pair, 9))

----------------------------------------------------------------------------
(* ch-cmp-*: one query over the rows of both envs                          *)

ch_pair(w, h, scope, from, extra, by, links) ==
  Scoped(scope, table_panel(w, h, from, <<F_SIDE["a"] \cup F_SIDE["b"] \cup F_PAIR \cup extra>>,
                            by, links))

ch_side_by_side(h, from, extra, by, links) ==
  [i \in 1..2 |-> Scoped(SIDES[i],
     table_panel(12, h, from, <<F_SIDE[SIDES[i]] \cup F_PAIR \cup extra>>, by, links))]

\* The share is a window sum of the same query.
ch_share_pair(h, from, extra, by, links) == ch_side_by_side(h, from, extra, by, links)

ch_only_in(side, h, from, extra, by, links) ==
  ch_pair(12, h, "only_" \o side, from, extra, by, links)

ch_only_in_each(h, from, extra, by, links) ==
  [i \in 1..2 |-> ch_only_in(SIDES[i], h, from, extra, by, links)]

ch_delta(h, from, extra, by, links) == ch_pair(24, h, "both", from, extra, by, links)
ch_changed(h, from, extra, by, links) == ch_pair(24, h, "both", from, extra, by, links)

ch_schema_links == schema_links("ch-cmp-schema", {})
ch_board(variables, panels) ==
  CompareBoard("ch-env-compare", "ch-runbooks", variables, panels)

ch_compare_tables ==
  LET T(P(_,_,_,_,_), h) == P(h, "pg_table_stat", {}, PAIR_OBJ, ch_schema_links)
  IN ch_board(ch_variables,
       <<Row, T(ch_delta, 10)>> \o T(ch_only_in_each, 8)
       \o <<Row>> \o T(ch_side_by_side, 12)
       \o <<Row>> \o T(ch_share_pair, 10) \o T(ch_share_pair, 10))

ch_compare_indexes ==
  LET X(P(_,_,_,_,_), h) == P(h, "pg_index_stat", {}, PAIR_INDEX, ch_schema_links)
  IN ch_board(ch_variables,
       <<Row>> \o X(ch_only_in_each, 9) \o <<X(ch_changed, 7)>>
       \o <<Row>> \o X(ch_share_pair, 10) \o X(ch_side_by_side, 9)
       \o <<Row>> \o X(ch_side_by_side, 10))

ch_compare_statements ==
  LET detail(side) == side_detail_links(side, "ch-statement-detail", {})
      masks == [i \in 1..2 |-> Scoped(SIDES[i],
                  table_panel(12, 12, "pg_stmt_mask", <<F_SIDE[SIDES[i]] \cup F_PAIR>>,
                              PAIR_MASK, detail(SIDES[i])))]
      only == [i \in 1..2 |-> ch_only_in(
                  SIDES[i], 10, "pg_stmt_mask", {}, PAIR_MASK, detail(SIDES[i]))]
  IN ch_board(ch_variables,
       <<Row>> \o masks \o masks
       \o <<Row, ch_delta(12, "pg_stmt_mask", {}, PAIR_MASK, {})>> \o only)

ch_compare_schema ==
  LET T(P(_,_,_,_,_), h) == P(h, "pg_table_stat", F_SCOPE, PAIR_OBJ, ch_schema_links)
      X(P(_,_,_,_,_), h) == P(h, "pg_index_stat", F_SCOPE, PAIR_INDEX, ch_schema_links)
  IN ch_board(ch_variables \o schema_variables({}),
       <<Row, T(ch_delta, 9)>>
       \o T(ch_only_in_each, 7) \o X(ch_only_in_each, 7) \o <<X(ch_changed, 6)>>
       \o <<Row>> \o T(ch_side_by_side, 10) \o T(ch_share_pair, 9)
       \o <<Row>> \o X(ch_side_by_side, 10) \o X(ch_share_pair, 9))

----------------------------------------------------------------------------
(* generate.py: every board, in the order written.                         *)

BOARDS ==
  <<"pg-overview", "pg-connections", "pg-statements", "pg-statement-detail", "pg-indexes",
    "ch-overview", "ch-connections", "ch-statements", "ch-statement-detail", "ch-indexes",
    "pg-cmp-tables", "ch-cmp-tables", "pg-cmp-indexes", "ch-cmp-indexes",
    "pg-cmp-statements", "ch-cmp-statements", "pg-cmp-schema", "ch-cmp-schema">>

Builds ==
  <<overview, connections, statements, statement_detail, indexes,
    ch_overview, ch_connections, ch_statements, ch_statement_detail, ch_indexes,
    compare_tables, ch_compare_tables, compare_indexes, ch_compare_indexes,
    compare_statements, ch_compare_statements, compare_schema, ch_compare_schema>>

Uids == {BOARDS[i] : i \in 1..Len(BOARDS)}
Board == [uid \in Uids |-> Builds[CHOOSE i \in 1..Len(BOARDS) : BOARDS[i] = uid]]
=============================================================================
