---------------------------- MODULE MCDashboards ----------------------------
(* All boards of the repository over small collections of facts.           *)
EXTENDS Dashboards

Size(p) == [type |-> p.type, w |-> p.w, h |-> p.h, inner |-> p.inner]
Sizes(panels) == [k \in 1..Len(panels) |-> Size(panels[k])]
AllPanels == [n \in 1..Len(BOARDS) |-> Sizes(Builds[n].panels)]

\* A statement of a user in a database of an instance, also standing for the
\* role, the table and the index used.
Fact(env, inst, datname, usename, mask, md5, id, age) ==
  [c \in TagColumns \cup {"age"} |->
     CASE c = "env" -> env             [] c = "db_instance" -> inst
       [] c = "datname" -> datname     [] c = "usename" -> usename
       [] c = "query_mask_md5" -> mask [] c = "query_md5" -> md5
       [] c = "queryid" -> id          [] c = "age" -> age
       [] OTHER -> datname]

\* Two envs with one instance of the same name; two variants of one statement
\* on one instance; statements, a database, a user and an instance that are
\* gone.
Running2 == {Fact(1, 1, 2, 2, 1, 1, 1, 0), Fact(1, 1, 2, 2, 1, 4, 4, 0),
             Fact(1, 2, 1, 1, 1, 2, 2, 0), Fact(2, 2, 2, 1, 2, 3, 3, 0),
             Fact(2, 3, 3, 3, 2, 5, 5, 1), Fact(1, 2, 3, 1, 2, 2, 5, 1)}

\* One env only; everything is gone; nothing was collected yet.
OneEnv == {Fact(1, 1, 1, 1, 1, 1, 1, 0), Fact(1, 1, 2, 1, 1, 2, 2, 1)}
Gone == {Fact(1, 1, 1, 1, 1, 1, 1, 1)}
SmallCollections == {Running2, OneEnv, Gone, {}}

CommandLine(clickhouse, only, overrides) ==
  [clickhouse |-> clickhouse, only |-> only, overrides |-> overrides]

SmallSettings ==
  {CommandLine(ch, only, <<>>) : ch \in BOOLEAN, only \in {"", "cmp"}}
  \cup {CommandLine(ch, "", [env_a |-> 2, env_b |-> 1, db_instance |-> 2]) : ch \in BOOLEAN}

\* What the theorems about the check ask of the boards and names.
ASSUME BoardsAreAskable == BoardsAskable /\ PrefixesShorter
=============================================================================
