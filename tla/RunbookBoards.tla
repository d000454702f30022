--------------------------- MODULE RunbookBoards ---------------------------
(***************************************************************************)
(* The ten runbook boards: pg-* on InfluxDB and ch-* on ClickHouse, which  *)
(* are written separately (overview.py and ch_overview.py, ...) and must   *)
(* show the same.  One panel of the source is one panel here.              *)
(***************************************************************************)
EXTENDS BoardPanels

INST == {"env", "db_instance"}
DB == INST \cup {"datname"}
SERIES == DB \cup {"usename"}
OBJ == DB \cup {"schemaname", "relname"}
INDEX == OBJ \cup {"indexrelname"}
ACTIVITY == SERIES \cup {"application_name", "state", "wait_event_type"}
MASK == INST \cup {"query_mask_md5"}
STMT == MASK \cup {"query_md5", "queryid"}
MASK_SERIES == SERIES \cup {"query_mask_md5"}
STMT_SERIES == MASK_SERIES \cup {"query_md5", "queryid", "toplevel"}
STMT_BY == INST \cup {"usename", "queryid"}

\* FROM "$rp"."<measurement>" and the filters of a pg-* query.
src(filters) == KEEP_RP \cup filters

----------------------------------------------------------------------------
(* pg-*: InfluxDB                                                          *)

pg_variables == <<var_rp, PgEnv, PgInstance, PgDatname>>
pg_table(w, h, from, filters, by) == table_panel(w, h, from, <<src(filters)>>, by, {})
pg_series(from, filters, by) == timeseries_panel(from, src(filters), by, {})

overview ==
  base_dashboard("pg-runbooks", pg_variables,
    <<stat_panel(6, "pg_settings_limits", src(INST)),
      stat_panel(6, "pg_locks_blocked", src(DB)),
      stat_panel(6, "pg_db_stat", src(DB)),
      stat_panel(6, "pg_db_stat", src(DB)),
      table_panel(24, 9, "pg_db_stat", <<src(DB)>>, DB,
                  {drill_url("db_instance", "pg-connections", KEEP_RP, INST)}),
      pg_series("pg_db_stat", DB, DB),
      pg_series("pg_db_stat", DB, DB),
      pg_series("pg_db_stat", DB, DB),
      pg_series("pg_locks_blocked", DB, DB),
      table_panel(24, 7, "pg_settings_limits", <<src(INST)>>, INST,
                  {drill_url("db_instance", "pg-statements", KEEP_RP, INST),
                   drill_url("version", "pg-indexes", KEEP_RP, INST)}),
      runbook_row(1), runbook_row(1), runbook_row(1)>>)

connections ==
  base_dashboard("pg-runbooks", pg_variables,
    <<pg_table(24, 6, "pg_settings_limits", INST, INST),
      pg_table(12, 8, "pg_db_limits", DB, DB),
      pg_table(12, 8, "pg_role_limits", INST, INST \cup {"rolname"}),
      pg_series("pg_activity_grouped", DB, INST \cup {"state"}),
      pg_series("pg_db_limits", DB, DB),
      pg_table(24, 12, "pg_activity_grouped", DB, ACTIVITY),
      pg_table(12, 10, "pg_activity_grouped", DB,
               INST \cup {"application_name", "usename", "state"}),
      pg_table(12, 10, "pg_activity_grouped", DB, INST \cup {"usename"}),
      runbook_row(1), runbook_row(1), runbook_row(1)>>)

indexes ==
  base_dashboard("pg-runbooks", pg_variables,
    <<pg_table(24, 10, "pg_index_stat", DB, INDEX),
      pg_table(24, 10, "pg_index_stat", DB, INDEX),
      pg_table(24, 10, "pg_table_stat", DB, OBJ),
      pg_table(24, 10, "pg_table_stat", DB, OBJ),
      runbook_row(1), runbook_row(1)>>)

\* Mistake: the env and the instance are not set.
detail_url_of_keys(on, keys) == drill_url(on, "pg-statement-detail", KEEP_RP, keys)
\* This board narrowed to the keys of a row; a variable left out falls back to
\* its default.
detail_url(on, keys) ==
  drill_url(on, "pg-statement-detail", KEEP_RP, keys \cup INST)

detail_links == {detail_url("query_mask_md5", {"query_mask_md5"}),
                 detail_url("query_md5", {"query_mask_md5", "query_md5"}),
                 detail_url("queryid", {"query_mask_md5", "query_md5", "queryid"})}

statement_detail ==
  base_dashboard("pg-runbooks",
    <<var_rp, PgEnv, PgInstance, var_textbox("query_mask_md5"),
      var_textbox("query_md5"), var_textbox("queryid")>>,
    <<pg_table(24, 8, "pg_stmt_text", MASK, {"env", "query_mask_md5"}),
      pg_series("pg_stmt_mask", MASK, INST \cup {"usename"}),
      pg_series("pg_stmt_mask", MASK, INST \cup {"usename"}),
      pg_series("pg_stmt_mask", MASK, INST \cup {"usename"}),
      pg_series("pg_stmt_mask", MASK, INST \cup {"usename"}),
      pg_series("pg_stmt", STMT, STMT_BY),
      pg_series("pg_stmt", STMT, STMT_BY),
      table_panel(24, 10, "pg_stmt", <<src(STMT)>>, STMT_SERIES, detail_links),
      table_panel(24, 12, "pg_stmt_text", <<src(STMT)>>, STMT, detail_links),
      runbook_row(1)>>)

filter_links(columns) == field_filter_url("pg-statements", KEEP_RP, columns)

\* Two queries, merged on the tags: the increases and the last entries.
breakdown_table(tags) ==
  table_panel(24, 8, "pg_stmt_totals", <<src(SERIES), src(SERIES)>>, {"env"} \cup tags,
              filter_links({"env"} \cup tags))

rate_by(tag) ==
  timeseries_panel("pg_stmt_totals", src(SERIES), {"env", tag},
                   series_filter_url("pg-statements", KEEP_RP, tag, {"env", tag}))

\* query_md5 and queryid with their parents; the mask alone.
statements ==
  base_dashboard("pg-runbooks", Append(pg_variables, PgUsename),
    <<Row>>
    \o [i \in 1..6 |-> stat_panel(4, "pg_stmt_totals", src(SERIES))]
    \o <<breakdown_table({"datname"}),
         breakdown_table({"datname", "db_instance"}),
         breakdown_table({"datname", "usename"}),
         rate_by("datname"), rate_by("usename"),
         Row,
         rate_by("db_instance"), rate_by("db_instance"),
         table_panel(24, 14, "pg_stmt_mask", <<src(SERIES)>>, MASK_SERIES,
                     filter_links(SERIES) \cup
                     {detail_url("query_mask_md5", {"query_mask_md5"})}),
         table_panel(24, 12, "pg_stmt", <<src(SERIES)>>, STMT_SERIES,
                     filter_links(SERIES) \cup detail_links),
         pg_table(24, 6, "pg_stmt_info", INST, INST),
         runbook_row(1), runbook_row(1)>>)

----------------------------------------------------------------------------
(* ch-*: ClickHouse.  No retention policy, one query per panel.            *)

ch_base_variables == <<ChEnv, ChInstance, ChDatname>>
ch_table(w, h, from, filters, by) == table_panel(w, h, from, <<filters>>, by, {})
ch_series(from, filters, by) == timeseries_panel(from, filters, by, {})
db_rate == ch_series("pg_db_stat", DB, DB)

ch_overview ==
  base_dashboard("ch-runbooks", ch_base_variables,
    <<stat_panel(6, "pg_settings_limits", INST),
      stat_panel(6, "pg_locks_blocked", DB),
      stat_panel(6, "pg_db_stat", DB),
      stat_panel(6, "pg_db_stat", DB),
      table_panel(24, 9, "pg_db_stat", <<DB>>, DB,
                  {drill_url("db_instance", "ch-connections", {}, INST)}),
      db_rate, db_rate, db_rate,
      ch_series("pg_locks_blocked", DB, DB),
      table_panel(24, 7, "pg_settings_limits", <<INST>>, INST,
                  {drill_url("db_instance", "ch-statements", {}, INST),
                   drill_url("version", "ch-indexes", {}, INST)}),
      runbook_row(1), runbook_row(1), runbook_row(1)>>)

\* Mistake: the variable datname is left out.
peak_by_of_instance(tags) == ch_table(12, 10, "pg_activity_grouped", INST, tags)
peak_by(tags) == ch_table(12, 10, "pg_activity_grouped", DB, tags)

ch_connections ==
  base_dashboard("ch-runbooks", ch_base_variables,
    <<ch_table(24, 6, "pg_settings_limits", INST, INST),
      ch_table(12, 8, "pg_db_limits", DB, DB),
      ch_table(12, 8, "pg_role_limits", INST, INST \cup {"rolname"}),
      ch_series("pg_activity_grouped", DB, INST \cup {"state"}),
      ch_series("pg_db_limits", DB, DB),
      ch_table(24, 12, "pg_activity_grouped", DB, ACTIVITY),
      peak_by(INST \cup {"application_name", "usename", "state"}),
      peak_by(INST \cup {"usename"}),
      runbook_row(1), runbook_row(1), runbook_row(1)>>)

ch_indexes ==
  base_dashboard("ch-runbooks", ch_base_variables,
    <<ch_table(24, 10, "pg_index_stat", DB, INDEX),
      ch_table(24, 10, "pg_index_stat", DB, INDEX),
      ch_table(24, 10, "pg_table_stat", DB, OBJ),
      ch_table(24, 10, "pg_table_stat", DB, OBJ),
      runbook_row(1), runbook_row(1)>>)

ch_detail_url(on, keys) ==
  drill_url(on, "ch-statement-detail", {}, keys \cup INST)

ch_detail_links == {ch_detail_url("query_mask_md5", {"query_mask_md5"}),
                    ch_detail_url("query_md5", {"query_mask_md5", "query_md5"}),
                    ch_detail_url("queryid", {"query_mask_md5", "query_md5", "queryid"})}

\* The latest text, regardless of the time range (time_filter=False).
ch_text_table(h, filters, by, links) ==
  [table_panel(24, h, "pg_stmt_text", <<filters>>, by, links) EXCEPT !.timed = FALSE]

ch_statement_detail ==
  base_dashboard("ch-runbooks",
    <<ChEnv, ChInstance, var_textbox("query_mask_md5"),
      var_textbox("query_md5"), var_textbox("queryid")>>,
    <<ch_text_table(8, MASK, {"env", "query_mask_md5"}, {}),
      ch_series("pg_stmt_mask", MASK, INST \cup {"usename"}),
      ch_series("pg_stmt_mask", MASK, INST \cup {"usename"}),
      ch_series("pg_stmt_mask", MASK, INST \cup {"usename"}),
      ch_series("pg_stmt_mask", MASK, INST \cup {"usename"}),
      ch_series("pg_stmt", STMT, STMT_BY),
      ch_series("pg_stmt", STMT, STMT_BY),
      table_panel(24, 10, "pg_stmt", <<STMT>>, STMT_SERIES, ch_detail_links),
      ch_text_table(12, STMT, STMT, ch_detail_links),
      runbook_row(1)>>)

ch_filter_links(columns) == field_filter_url("ch-statements", {}, columns)

\* Mistake: rows are not split by env.
ch_breakdown_table_merged(tags) ==
  table_panel(24, 8, "pg_stmt_totals", <<SERIES>>, tags, ch_filter_links(tags))
ch_breakdown_table(tags) ==
  table_panel(24, 8, "pg_stmt_totals", <<SERIES>>, {"env"} \cup tags,
              ch_filter_links({"env"} \cup tags))

ch_rate_by(tag) ==
  timeseries_panel("pg_stmt_totals", SERIES, {"env", tag},
                   series_filter_url("ch-statements", {}, tag, {"env", tag}))

ch_statements ==
  base_dashboard("ch-runbooks", Append(ch_base_variables, ChUsename),
    <<Row>>
    \o [i \in 1..6 |-> stat_panel(4, "pg_stmt_totals", SERIES)]
    \o <<ch_breakdown_table({"datname"}),
         ch_breakdown_table({"datname", "db_instance"}),
         ch_breakdown_table({"datname", "usename"}),
         ch_rate_by("datname"), ch_rate_by("usename"),
         Row,
         ch_rate_by("db_instance"), ch_rate_by("db_instance"),
         table_panel(24, 14, "pg_stmt_mask", <<SERIES>>, MASK_SERIES,
                     ch_filter_links(SERIES) \cup
                     {ch_detail_url("query_mask_md5", {"query_mask_md5"})}),
         table_panel(24, 12, "pg_stmt", <<SERIES>>, STMT_SERIES,
                     ch_filter_links(SERIES) \cup ch_detail_links),
         ch_table(24, 6, "pg_stmt_info", INST, INST),
         runbook_row(1), runbook_row(1)>>)
=============================================================================
