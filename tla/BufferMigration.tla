-------------------------- MODULE BufferMigration --------------------------
(***************************************************************************)
(* How a ClickHouse volume gets its Buffer tables: the schema script       *)
(* (init/01_schema.sql) and the migration script                           *)
(* (migrations/2026-10_buffer_tables.sh), both run by hand, killed and run *)
(* again, several at a time, while Telegraf keeps inserting.  Each         *)
(* statement is one step: no transaction holds two of them together.       *)
(*                                                                         *)
(* Table t has two names: T, which Telegraf and Grafana use, and T_data,   *)
(* the storage behind the Buffer.  A crash of the server, which loses the  *)
(* memory of a Buffer, is left to MetricPipeline.                          *)
(***************************************************************************)
EXTENDS Naturals

CONSTANTS
  LastTable,  \* the loop goes over the tables 1..LastTable
  Run,        \* the runs of the migration script that may overlap
  Row,        \* the rows Telegraf inserts
  MaxKills,   \* bound: runs of either script cut short
  SchemaOnOldVolume \* may the schema script run before the migration has?

ASSUME ConstantsAssumption ==
  /\ LastTable \in Nat \ {0}
  /\ MaxKills \in Nat
  /\ SchemaOnOldVolume \in BOOLEAN

VARIABLES
  main,    \* engine of T: "absent", "MergeTree" or "Buffer"
  data,    \* engine of T_data
  rows,    \* rows of T itself: its own storage, or the memory of the Buffer
  stored,  \* rows of T_data
  acked,   \* rows whose INSERT into T was accepted
  pc,      \* per run of the migration, its next statement
  at,      \* per run, its table
  schema,  \* next statement of the schema script
  schemaAt,\* its table
  kills

runVars == <<pc, at>>
schemaVars == <<schema, schemaAt>>
vars == <<main, data, rows, stored, acked, pc, at, schema, schemaAt, kills>>

Table == 1..LastTable
Engine == {"absent", "MergeTree", "Buffer"}
Active == {"engine", "exists", "rename", "create"}

\* Engines, rows and labels; a run never goes past the last table.
TypeOK ==
  /\ main \in [Table -> Engine]
  /\ data \in [Table -> Engine]
  /\ rows \in [Table -> SUBSET Row]
  /\ stored \in [Table -> SUBSET Row]
  /\ acked \in [Table -> SUBSET Row]
  /\ pc \in [Run -> Active \cup {"idle", "failed", "done"}]
  /\ at \in [Run -> Table]
  /\ schema \in {"idle", "data", "buffer"}
  /\ schemaAt \in Table
  /\ kills \in 0..MaxKills

\* A volume created before the Buffer tables, or an empty one.
Init ==
  /\ \/ main = [t \in Table |-> "MergeTree"]
     \/ main = [t \in Table |-> "absent"]
  /\ data = [t \in Table |-> "absent"]
  /\ rows = [t \in Table |-> {}]
  /\ stored = [t \in Table |-> {}]
  /\ acked = [t \in Table |-> {}]
  /\ pc = [r \in Run |-> "idle"]
  /\ at = [r \in Run |-> 1]
  /\ schema = "idle"
  /\ schemaAt = 1
  /\ kills = 0
-----------------------------------------------------------------------------
(* Telegraf, the background thread of the Buffer, the operator             *)

\* The INSERT fails, and is retried by Telegraf, while T does not exist.
Insert(t) ==
  /\ main[t] # "absent"
  /\ \E x \in Row :
       /\ \A u \in Table : x \notin acked[u]
       /\ rows' = [rows EXCEPT ![t] = @ \cup {x}]
       /\ acked' = [acked EXCEPT ![t] = @ \cup {x}]
  /\ UNCHANGED <<main, data, stored, kills>>
  /\ UNCHANGED runVars /\ UNCHANGED schemaVars

Flush(t) ==
  /\ main[t] = "Buffer"
  /\ rows[t] # {}
  /\ stored' = [stored EXCEPT ![t] = @ \cup rows[t]]
  /\ rows' = [rows EXCEPT ![t] = {}]
  /\ UNCHANGED <<main, data, acked, kills>>
  /\ UNCHANGED runVars /\ UNCHANGED schemaVars

\* A schema change starts with DROP TABLE T, which flushes the Buffer; the
\* next run of either script creates it again.
DropBuffer(t) ==
  /\ main[t] = "Buffer"
  /\ \A r \in Run : pc[r] \notin Active
  /\ schema = "idle"
  /\ main' = [main EXCEPT ![t] = "absent"]
  /\ stored' = [stored EXCEPT ![t] = @ \cup rows[t]]
  /\ rows' = [rows EXCEPT ![t] = {}]
  /\ pc' = [r \in Run |-> "idle"]
  /\ UNCHANGED <<data, acked, at, kills>>
  /\ UNCHANGED schemaVars

-----------------------------------------------------------------------------
(* 2026-10_buffer_tables.sh                                                *)

Goes(r, label) == pc' = [pc EXCEPT ![r] = label]

\* set -e: a failing statement ends the run.
Fails(r) == Goes(r, "failed") /\ UNCHANGED <<at, main, data, rows, stored>>

Start(r) ==
  /\ pc[r] \in {"idle", "failed"}
  /\ Goes(r, "engine")
  /\ at' = [at EXCEPT ![r] = 1]
  /\ UNCHANGED <<main, data, rows, stored, acked, kills>>
  /\ UNCHANGED schemaVars

ReadEngine(r) ==
  /\ pc[r] = "engine"
  /\ Goes(r, IF main[at[r]] \in {"absent", "Buffer"} THEN "create" ELSE "exists")
  /\ UNCHANGED <<main, data, rows, stored, acked, at, kills>>
  /\ UNCHANGED schemaVars

CheckData(r) ==
  /\ pc[r] = "exists"
  /\ \/ data[at[r]] = "absent" /\ Goes(r, "rename")
     \/ data[at[r]] # "absent" /\ Goes(r, "failed")
  /\ UNCHANGED <<main, data, rows, stored, acked, at, kills>>
  /\ UNCHANGED schemaVars

\* Mistake: the rename replaces an existing T_data.
RenameOver(r) ==
  LET t == at[r] IN
  /\ pc[r] = "rename"
  /\ \/ /\ main[t] = "absent"
        /\ Fails(r)
     \/ /\ main[t] # "absent"
        /\ data' = [data EXCEPT ![t] = main[t]]
        /\ stored' = [stored EXCEPT ![t] = rows[t]]
        /\ main' = [main EXCEPT ![t] = "absent"]
        /\ rows' = [rows EXCEPT ![t] = {}]
        /\ Goes(r, "create")
        /\ UNCHANGED at
  /\ UNCHANGED <<acked, kills>>
  /\ UNCHANGED schemaVars

\* RENAME TABLE fails when T is gone or T_data exists: both may have changed
\* since this run looked at them.
Rename(r) ==
  LET t == at[r] IN
  /\ pc[r] = "rename"
  /\ \/ /\ main[t] = "absent" \/ data[t] # "absent"
        /\ Fails(r)
     \/ /\ main[t] # "absent" /\ data[t] = "absent"
        /\ data' = [data EXCEPT ![t] = main[t]]
        /\ stored' = [stored EXCEPT ![t] = rows[t]]
        /\ main' = [main EXCEPT ![t] = "absent"]
        /\ rows' = [rows EXCEPT ![t] = {}]
        /\ Goes(r, "create")
        /\ UNCHANGED at
  /\ UNCHANGED <<acked, kills>>
  /\ UNCHANGED schemaVars

\* Mistake: the loop runs past its last table.
NextTableAlways(r) ==
  Goes(r, "engine") /\ at' = [at EXCEPT ![r] = @ + 1]

NextTable(r) ==
  \/ at[r] < LastTable /\ Goes(r, "engine") /\ at' = [at EXCEPT ![r] = @ + 1]
  \/ at[r] = LastTable /\ Goes(r, "done") /\ UNCHANGED at

CreateMissing(t) ==
  main' = [main EXCEPT ![t] = IF @ = "absent" THEN "Buffer" ELSE @]

\* Mistake: the script goes on after a failed CREATE.
CreateUnchecked(r) ==
  LET t == at[r] IN
  /\ pc[r] = "create"
  /\ \/ data[t] = "absent" /\ UNCHANGED main
     \/ data[t] # "absent" /\ CreateMissing(t)
  /\ NextTable(r)
  /\ UNCHANGED <<data, rows, stored, acked, kills>>
  /\ UNCHANGED schemaVars

\* Mistake: CREATE TABLE without IF NOT EXISTS.
CreateAlways(r) ==
  LET t == at[r] IN
  /\ pc[r] = "create"
  /\ \/ /\ data[t] = "absent" \/ main[t] # "absent"
        /\ Fails(r)
     \/ /\ data[t] # "absent" /\ main[t] = "absent"
        /\ CreateMissing(t)
        /\ NextTable(r)
        /\ UNCHANGED <<data, rows, stored>>
  /\ UNCHANGED <<acked, kills>>
  /\ UNCHANGED schemaVars

\* CREATE TABLE IF NOT EXISTS T AS T_data: T_data must exist.
Create(r) ==
  LET t == at[r] IN
  /\ pc[r] = "create"
  /\ \/ data[t] = "absent" /\ Fails(r)
     \/ /\ data[t] # "absent"
        /\ CreateMissing(t)
        /\ NextTable(r)
        /\ UNCHANGED <<data, rows, stored>>
  /\ UNCHANGED <<acked, kills>>
  /\ UNCHANGED schemaVars

Killed(r) ==
  /\ pc[r] \in Active
  /\ kills < MaxKills
  /\ kills' = kills + 1
  /\ Goes(r, "failed")
  /\ UNCHANGED <<main, data, rows, stored, acked, at>>
  /\ UNCHANGED schemaVars

-----------------------------------------------------------------------------
(* 01_schema.sql                                                           *)

SchemaStart ==
  /\ schema = "idle"
  /\ SchemaOnOldVolume \/ \A t \in Table : main[t] # "MergeTree"
  /\ \E t \in Table : main[t] = "absent" \/ data[t] = "absent"
  /\ schema' = "data"
  /\ schemaAt' = 1
  /\ UNCHANGED <<main, data, rows, stored, acked, kills>>
  /\ UNCHANGED runVars

\* CREATE TABLE IF NOT EXISTS T_data
SchemaData ==
  /\ schema = "data"
  /\ data' = [data EXCEPT ![schemaAt] = IF @ = "absent" THEN "MergeTree" ELSE @]
  /\ schema' = "buffer"
  /\ UNCHANGED <<main, rows, stored, acked, schemaAt, kills>>
  /\ UNCHANGED runVars

\* CREATE TABLE IF NOT EXISTS T AS T_data ENGINE = Buffer
SchemaBuffer ==
  /\ schema = "buffer"
  /\ CreateMissing(schemaAt)
  /\ \/ /\ schemaAt < LastTable
        /\ schema' = "data"
        /\ schemaAt' = schemaAt + 1
     \/ /\ schemaAt = LastTable
        /\ schema' = "idle"
        /\ UNCHANGED schemaAt
  /\ UNCHANGED <<data, rows, stored, acked, kills>>
  /\ UNCHANGED runVars

SchemaKilled ==
  /\ schema # "idle"
  /\ kills < MaxKills
  /\ kills' = kills + 1
  /\ schema' = "idle"
  /\ UNCHANGED <<main, data, rows, stored, acked, schemaAt>>
  /\ UNCHANGED runVars
-----------------------------------------------------------------------------
MigrationStep(r) == ReadEngine(r) \/ CheckData(r) \/ Rename(r) \/ Create(r)

Next ==
  \/ \E t \in Table : Insert(t) \/ Flush(t) \/ DropBuffer(t)
  \/ \E r \in Run : Start(r) \/ MigrationStep(r) \/ Killed(r)
  \/ SchemaStart \/ SchemaData \/ SchemaBuffer \/ SchemaKilled

Spec == Init /\ [][Next]_vars

\* The operator runs the scripts again until they have nothing left to do.
FairSpec ==
  /\ Spec
  /\ \A r \in Run : WF_vars(Start(r)) /\ WF_vars(MigrationStep(r))
  /\ WF_vars(SchemaStart) /\ WF_vars(SchemaData) /\ WF_vars(SchemaBuffer)
-----------------------------------------------------------------------------
(* What the scripts guarantee                                              *)

\* A Buffer always writes to a MergeTree table: no run, however late, turns a
\* Buffer of another run into the storage of its own.
BufferOverStorage ==
  \A t \in Table :
    /\ data[t] # "Buffer"
    /\ main[t] = "Buffer" => data[t] = "MergeTree"

\* What a SELECT on T reads; while T is absent, what it will read once T has
\* been created.
Visible(t) == IF main[t] = "MergeTree" THEN rows[t] ELSE rows[t] \cup stored[t]

\* No accepted row is lost or hidden by a migration, cut short or not.
RowsKept == \A t \in Table : acked[t] \subseteq Visible(t)

\* A run that reports "Buffer tables are up to date" tells the truth.
DoneMeansMigrated ==
  \A r \in Run : pc[r] = "done" => \A t \in Table : main[t] = "Buffer"

Migrated == \A t \in Table : main[t] = "Buffer"

\* "safe to re-run", "idempotent": run again after a kill, a lost race or a
\* DROP, the scripts end with every table a Buffer over its storage.
Completes == []<>Migrated
=============================================================================
