------------------------ MODULE MCTelegrafEntrypoint ------------------------
(* Instances of TelegrafEntrypoint for TLC.                                *)
EXTENDS TelegrafEntrypoint

DB1    == <<"DB1">>
DB1APP == <<"DB1", "APP">>
PG     == <<"PG">>
pg_app == <<"pg", "app">>
Bad    == <<"1DB">>

AllIds == {DB1, DB1APP, PG, PgApp, pg_app, Bad}

\* No id although PG_INSTANCES is given, up to two ids, and two equal ids with
\* another between them.
IdSequences(S) ==
  {<<>>} \cup {<<a>> : a \in S} \cup {<<a, b>> : a \in S, b \in S}
    \cup {<<a, b, a>> : a \in S, b \in S}

Names(S) == {id \o suffix : id \in S, suffix \in Suffixes}

\* Everything is set, or one variable is not, or only the default env is.
SetNames(S) ==
  LET all == Names(S \cup {PG})
  IN {all} \cup {all \ {n} : n \in Names({DB1})}
       \cup {all \ {id \o <<"ENV">> : id \in S \ {PG}}}
       \cup {all \ {id \o <<"ENV">> : id \in S \cup {PG}}}

\* Ids whose files have names of their own; nothing, or no INPUTS_DIR.
SettingsDistinct ==
  LET S == {DB1, DB1APP, PG, PgApp, Bad}
  IN [given : {TRUE}, ids : IdSequences(S), inputs : {TRUE}, set : SetNames(S)]
       \cup [given : {FALSE}, ids : {<<>>}, inputs : {TRUE}, set : {Names(S)}]
       \cup [given : {TRUE}, ids : {<<DB1>>}, inputs : {FALSE}, set : {Names(S)}]

\* Two ids that differ in case only, one of them PG_APP.
SettingsHeader ==
  [given : {TRUE}, ids : {<<pg_app, PgApp>>}, inputs : {TRUE},
   set : {Names({pg_app, PgApp})}]

LowerOf ==
  [id \in AllIds |-> CASE id = DB1    -> "db1"
                       [] id = DB1APP -> "db1_app"
                       [] id = PG     -> "pg"
                       [] id \in {PgApp, pg_app} -> "pg_app"
                       [] id = Bad    -> "1db"]

WellFormedIds == AllIds \ {Bad}

TemplateFiles == {"cluster_activity.conf", "database_objects.conf"}
StaticFiles   == {<<"static", "output_clickhouse.conf">>}
=============================================================================
