----------------------- MODULE BufferMigrationProofs -----------------------
(***************************************************************************)
(* Proofs about BufferMigration for any number of tables, any set of       *)
(* overlapping runs of the migration and any number of kills.              *)
(***************************************************************************)
EXTENDS BufferMigration, TLAPS

\* A run in progress has migrated every table before its own.  Nothing undoes
\* that: a Buffer is never renamed, and it is dropped between runs only.
PrefixMigrated ==
  \A r \in Run : pc[r] \in Active => \A t \in 1..(at[r] - 1) : main[t] = "Buffer"

\* A run about to create T has seen that T is no MergeTree table, and T never
\* becomes one.
CreatesBuffer ==
  \A r \in Run : pc[r] = "create" => main[at[r]] # "MergeTree"

\* The schema script creates T after T_data, which stays.
SchemaHasStorage == schema = "buffer" => data[schemaAt] = "MergeTree"

IInv == TypeOK /\ BufferOverStorage /\ RowsKept /\ DoneMeansMigrated
               /\ PrefixMigrated /\ CreatesBuffer /\ SchemaHasStorage

LEMMA InitEstablishes == Init => IInv
  BY ConstantsAssumption
  DEF Init, IInv, TypeOK, BufferOverStorage, RowsKept, DoneMeansMigrated,
      PrefixMigrated, CreatesBuffer, SchemaHasStorage, Visible, Table, Engine,
      Active

-----------------------------------------------------------------------------
(* The steps that change no table                                          *)

LEMMA BookkeepingStep ==
  ASSUME IInv,
         UNCHANGED <<main, data, rows, stored, acked>>,
         TypeOK',
         \A r \in Run :
           \/ pc'[r] \in {"idle", "failed"}
           \/ pc'[r] = pc[r] /\ at'[r] = at[r]
           \/ pc'[r] \in Active /\ at'[r] = 1
           \/ pc'[r] \in Active /\ pc[r] \in Active /\ at'[r] = at[r],
         \A r \in Run : pc'[r] = "create" =>
           \/ pc[r] = "create" /\ at'[r] = at[r]
           \/ main[at'[r]] # "MergeTree",
         \/ schema' # "buffer"
         \/ schema' = schema /\ schemaAt' = schemaAt
  PROVE  IInv'
<1>1. BufferOverStorage' /\ RowsKept'
  BY DEF IInv, BufferOverStorage, RowsKept, Visible
<1>2. DoneMeansMigrated'
  BY DEF IInv, DoneMeansMigrated, Active
<1>3. PrefixMigrated'
  <2> SUFFICES ASSUME NEW r \in Run, pc'[r] \in Active,
                      NEW t \in 1..(at'[r] - 1)
               PROVE  main'[t] = "Buffer"
    BY DEF PrefixMigrated
  <2>1. (pc[r] \in Active /\ at'[r] = at[r]) \/ at'[r] = 1
    BY DEF Active
  <2>2. CASE at'[r] = 1
    BY <2>2
  <2>3. CASE pc[r] \in Active /\ at'[r] = at[r]
    BY <2>3 DEF IInv, PrefixMigrated
  <2> QED BY <2>1, <2>2, <2>3
<1>4. CreatesBuffer' /\ SchemaHasStorage'
  BY DEF IInv, CreatesBuffer, SchemaHasStorage
<1> QED BY <1>1, <1>2, <1>3, <1>4 DEF IInv

LEMMA StartStep == ASSUME IInv, NEW r \in Run, Start(r) PROVE IInv'
<1>1. TypeOK'
  BY ConstantsAssumption DEF IInv, TypeOK, Start, Goes, schemaVars, Table, Active
<1> QED
  BY <1>1, BookkeepingStep
  DEF IInv, TypeOK, Start, Goes, schemaVars, Active

LEMMA ReadEngineStep == ASSUME IInv, NEW r \in Run, ReadEngine(r) PROVE IInv'
<1>1. TypeOK'
  BY DEF IInv, TypeOK, ReadEngine, Goes, schemaVars, Active
<1> QED
  BY <1>1, BookkeepingStep
  DEF IInv, TypeOK, ReadEngine, Goes, schemaVars, Active

LEMMA CheckDataStep == ASSUME IInv, NEW r \in Run, CheckData(r) PROVE IInv'
<1>1. TypeOK'
  BY DEF IInv, TypeOK, CheckData, Goes, schemaVars, Active
<1> QED
  BY <1>1, BookkeepingStep
  DEF IInv, TypeOK, CheckData, Goes, schemaVars, Active

LEMMA KilledStep == ASSUME IInv, NEW r \in Run, Killed(r) PROVE IInv'
<1>1. TypeOK'
  BY ConstantsAssumption
  DEF IInv, TypeOK, Killed, Goes, schemaVars, Active
<1> QED
  BY <1>1, BookkeepingStep
  DEF IInv, TypeOK, Killed, Goes, schemaVars, Active

LEMMA SchemaStartStep == ASSUME IInv, SchemaStart PROVE IInv'
<1>1. TypeOK'
  BY ConstantsAssumption
  DEF IInv, TypeOK, SchemaStart, runVars, Table
<1> QED
  BY <1>1, BookkeepingStep DEF IInv, TypeOK, SchemaStart, runVars, Active

LEMMA SchemaKilledStep == ASSUME IInv, SchemaKilled PROVE IInv'
<1>1. TypeOK'
  BY ConstantsAssumption DEF IInv, TypeOK, SchemaKilled, runVars
<1> QED
  BY <1>1, BookkeepingStep DEF IInv, TypeOK, SchemaKilled, runVars, Active

-----------------------------------------------------------------------------
(* The steps that change a table                                           *)

LEMMA InsertStep == ASSUME IInv, NEW t \in Table, Insert(t) PROVE IInv'
<1>1. TypeOK'
  BY DEF IInv, TypeOK, Insert, runVars, schemaVars
<1>2. RowsKept'
  BY DEF IInv, TypeOK, RowsKept, Visible, Insert
<1>3. /\ BufferOverStorage' /\ DoneMeansMigrated' /\ PrefixMigrated'
      /\ CreatesBuffer' /\ SchemaHasStorage'
  BY DEF IInv, BufferOverStorage, DoneMeansMigrated, PrefixMigrated,
         CreatesBuffer, SchemaHasStorage, Insert, runVars, schemaVars
<1> QED BY <1>1, <1>2, <1>3 DEF IInv

LEMMA FlushStep == ASSUME IInv, NEW t \in Table, Flush(t) PROVE IInv'
<1>1. TypeOK'
  BY DEF IInv, TypeOK, Flush, runVars, schemaVars
<1>2. RowsKept'
  BY DEF IInv, TypeOK, RowsKept, Visible, Flush
<1>3. /\ BufferOverStorage' /\ DoneMeansMigrated' /\ PrefixMigrated'
      /\ CreatesBuffer' /\ SchemaHasStorage'
  BY DEF IInv, BufferOverStorage, DoneMeansMigrated, PrefixMigrated,
         CreatesBuffer, SchemaHasStorage, Flush, runVars, schemaVars
<1> QED BY <1>1, <1>2, <1>3 DEF IInv

LEMMA DropBufferStep == ASSUME IInv, NEW t \in Table, DropBuffer(t) PROVE IInv'
<1>1. TypeOK'
  BY DEF IInv, TypeOK, DropBuffer, schemaVars, Engine
<1>2. RowsKept'
  BY DEF IInv, TypeOK, RowsKept, Visible, DropBuffer
<1>3. BufferOverStorage'
  BY DEF IInv, TypeOK, BufferOverStorage, DropBuffer
<1>4. /\ DoneMeansMigrated' /\ PrefixMigrated' /\ CreatesBuffer'
      /\ SchemaHasStorage'
  BY DEF DoneMeansMigrated, PrefixMigrated, CreatesBuffer, SchemaHasStorage,
         DropBuffer, schemaVars, Active
<1> QED BY <1>1, <1>2, <1>3, <1>4 DEF IInv

LEMMA RenameStep == ASSUME IInv, NEW r \in Run, Rename(r) PROVE IInv'
<1> DEFINE t == at[r]
<1>0. t \in Table
  BY DEF IInv, TypeOK
<1>1. CASE Fails(r)
  <2>1. TypeOK'
    BY <1>1 DEF IInv, TypeOK, Rename, Fails, Goes, schemaVars
  <2> QED
    BY <1>1, <2>1, BookkeepingStep
    DEF IInv, TypeOK, Rename, Fails, Goes, schemaVars, Active
<1>2. CASE ~Fails(r)
  \* A Buffer has a storage, so what is renamed is a MergeTree table.
  <2>1. /\ main[t] = "MergeTree"
        /\ data' = [data EXCEPT ![t] = main[t]]
        /\ stored' = [stored EXCEPT ![t] = rows[t]]
        /\ main' = [main EXCEPT ![t] = "absent"]
        /\ rows' = [rows EXCEPT ![t] = {}]
        /\ pc' = [pc EXCEPT ![r] = "create"]
        /\ UNCHANGED <<at, acked, kills, schema, schemaAt>>
        /\ pc[r] = "rename"
    BY <1>0, <1>2
    DEF Rename, IInv, TypeOK, BufferOverStorage, Engine, Goes, schemaVars
  <2>2. TypeOK'
    BY <1>0, <2>1 DEF IInv, TypeOK, Engine, Active
  <2>3. BufferOverStorage'
    BY <1>0, <2>1 DEF IInv, TypeOK, BufferOverStorage
  <2>4. RowsKept'
    <3> SUFFICES ASSUME NEW u \in Table
                 PROVE  acked'[u] \subseteq Visible(u)'
      BY DEF RowsKept
    <3>1. acked[u] \subseteq Visible(u)
      BY DEF IInv, RowsKept
    <3>2. CASE u = t
      BY <1>0, <2>1, <3>1, <3>2 DEF IInv, TypeOK, Visible
    <3>3. CASE u # t
      BY <1>0, <2>1, <3>1, <3>3 DEF IInv, TypeOK, Visible
    <3> QED BY <3>2, <3>3
  \* No other run has passed t: t is not a Buffer.
  <2>5. \A s \in Run : /\ pc[s] \in Active => t \notin 1..(at[s] - 1)
                       /\ pc[s] # "done"
    BY <1>0, <2>1 DEF IInv, PrefixMigrated, DoneMeansMigrated
  <2>6. DoneMeansMigrated' /\ PrefixMigrated'
    BY <2>1, <2>5 DEF IInv, TypeOK, DoneMeansMigrated, PrefixMigrated, Active
  <2>7. CreatesBuffer' /\ SchemaHasStorage'
    BY <1>0, <2>1 DEF IInv, TypeOK, CreatesBuffer, SchemaHasStorage
  <2> QED BY <2>2, <2>3, <2>4, <2>6, <2>7 DEF IInv
<1> QED BY <1>1, <1>2

\* CREATE TABLE IF NOT EXISTS hides no row and undoes no migration.
LEMMA CreateMissingKeeps ==
  ASSUME IInv, NEW t \in Table, CreateMissing(t), data'[t] = "MergeTree",
         \A u \in Table : data'[u] = data[u] \/ data'[u] = "MergeTree",
         UNCHANGED <<rows, stored, acked>>
  PROVE  /\ main' \in [Table -> Engine]
         /\ BufferOverStorage'
         /\ RowsKept'
         /\ \A u \in Table : main[u] = "Buffer" => main'[u] = "Buffer"
         /\ \A u \in Table : main[u] # "MergeTree" => main'[u] # "MergeTree"
         /\ main[t] # "MergeTree" => main'[t] = "Buffer"
<1>1. ASSUME NEW u \in Table
      PROVE  \/ main'[u] = main[u]
             \/ u = t /\ main[u] = "absent" /\ main'[u] = "Buffer"
  <2>1. DOMAIN main = Table
    BY DEF IInv, TypeOK
  <2>2. CASE u = t
    BY <2>1, <2>2 DEF CreateMissing
  <2>3. CASE u # t
    BY <2>1, <2>3 DEF CreateMissing
  <2> QED BY <2>2, <2>3
<1>2. main' \in [Table -> Engine]
  <2>1. (IF main[t] = "absent" THEN "Buffer" ELSE main[t]) \in Engine
    BY DEF IInv, TypeOK, Engine
  <2>2. DOMAIN main = Table
    BY DEF IInv, TypeOK
  <2> QED BY <2>1, <2>2 DEF CreateMissing, IInv, TypeOK
<1>3. main[t] # "MergeTree" => main'[t] = "Buffer"
  BY DEF CreateMissing, IInv, TypeOK, Engine
<1>4. BufferOverStorage'
  BY <1>1 DEF IInv, BufferOverStorage
<1>5. RowsKept'
  BY <1>1 DEF IInv, RowsKept, Visible
<1> QED BY <1>1, <1>2, <1>3, <1>4, <1>5

LEMMA CreateStep == ASSUME IInv, NEW r \in Run, Create(r) PROVE IInv'
<1> DEFINE t == at[r]
<1>0. t \in Table /\ t \in Nat /\ LastTable \in Nat
  BY ConstantsAssumption DEF IInv, TypeOK, Table
<1>1. CASE Fails(r)
  <2>1. TypeOK'
    BY <1>1 DEF IInv, TypeOK, Create, Fails, Goes, schemaVars
  <2> QED
    BY <1>1, <2>1, BookkeepingStep
    DEF IInv, TypeOK, Create, Fails, Goes, schemaVars, Active
<1>2. CASE ~Fails(r)
  <2>1. /\ pc[r] = "create"
        /\ data[t] = "MergeTree"
        /\ CreateMissing(t)
        /\ NextTable(r)
        /\ UNCHANGED <<data, rows, stored, acked, kills, schema, schemaAt>>
    BY <1>0, <1>2
    DEF Create, IInv, TypeOK, BufferOverStorage, Engine, schemaVars
  <2>2. /\ main' \in [Table -> Engine]
        /\ BufferOverStorage'
        /\ RowsKept'
        /\ \A u \in Table : main[u] = "Buffer" => main'[u] = "Buffer"
        /\ \A u \in Table : main[u] # "MergeTree" => main'[u] # "MergeTree"
        /\ main'[t] = "Buffer"
    BY <1>0, <2>1, CreateMissingKeeps DEF IInv, CreatesBuffer
  <2>3. \A u \in 1..t : main'[u] = "Buffer"
    BY <1>0, <2>1, <2>2 DEF IInv, PrefixMigrated, Active, Table
  <2>4. CASE at[r] < LastTable /\ Goes(r, "engine")
               /\ at' = [at EXCEPT ![r] = @ + 1]
    <3>1. TypeOK'
      BY <1>0, <2>1, <2>2, <2>4 DEF IInv, TypeOK, Goes, Active, Table
    <3>2. DoneMeansMigrated' /\ PrefixMigrated' /\ CreatesBuffer'
      BY <1>0, <2>1, <2>2, <2>3, <2>4
      DEF IInv, TypeOK, DoneMeansMigrated, PrefixMigrated, CreatesBuffer, Goes,
          Active, Table
    <3>3. SchemaHasStorage'
      BY <2>1 DEF IInv, SchemaHasStorage
    <3> QED BY <2>2, <3>1, <3>2, <3>3 DEF IInv
  <2>5. CASE at[r] = LastTable /\ Goes(r, "done") /\ UNCHANGED at
    <3>1. TypeOK'
      BY <2>1, <2>2, <2>5 DEF IInv, TypeOK, Goes, Active
    <3>2. \A u \in Table : main'[u] = "Buffer"
      BY <2>3, <2>5 DEF Table
    <3>3. DoneMeansMigrated' /\ PrefixMigrated' /\ CreatesBuffer'
      BY <1>0, <2>1, <2>5, <3>2
      DEF IInv, TypeOK, DoneMeansMigrated, PrefixMigrated, CreatesBuffer, Goes,
          Active, Table
    <3>4. SchemaHasStorage'
      BY <2>1 DEF IInv, SchemaHasStorage
    <3> QED BY <2>2, <3>1, <3>3, <3>4 DEF IInv
  <2> QED BY <2>1, <2>4, <2>5 DEF NextTable
<1> QED BY <1>1, <1>2

LEMMA SchemaDataStep == ASSUME IInv, SchemaData PROVE IInv'
<1>1. TypeOK'
  BY DEF IInv, TypeOK, SchemaData, runVars, Engine
<1>2. BufferOverStorage'
  BY DEF IInv, TypeOK, BufferOverStorage, SchemaData
<1>3. RowsKept'
  BY DEF IInv, RowsKept, Visible, SchemaData
<1>4. DoneMeansMigrated' /\ PrefixMigrated' /\ CreatesBuffer'
  BY DEF IInv, DoneMeansMigrated, PrefixMigrated, CreatesBuffer, SchemaData,
         runVars
<1>5. SchemaHasStorage'
  BY DEF IInv, TypeOK, BufferOverStorage, SchemaHasStorage, SchemaData, Engine
<1> QED BY <1>1, <1>2, <1>3, <1>4, <1>5 DEF IInv

LEMMA SchemaBufferStep == ASSUME IInv, SchemaBuffer PROVE IInv'
<1>1. /\ schemaAt \in Table
      /\ data[schemaAt] = "MergeTree"
      /\ CreateMissing(schemaAt)
      /\ UNCHANGED <<data, rows, stored, acked, kills, pc, at>>
  BY DEF IInv, TypeOK, SchemaHasStorage, SchemaBuffer, runVars
<1>2. /\ main' \in [Table -> Engine]
      /\ BufferOverStorage'
      /\ RowsKept'
      /\ \A u \in Table : main[u] = "Buffer" => main'[u] = "Buffer"
      /\ \A u \in Table : main[u] # "MergeTree" => main'[u] # "MergeTree"
  BY <1>1, CreateMissingKeeps
<1>3. TypeOK'
  BY <1>1, <1>2, ConstantsAssumption DEF IInv, TypeOK, SchemaBuffer, Table
<1>4. DoneMeansMigrated' /\ CreatesBuffer'
  BY <1>1, <1>2 DEF IInv, TypeOK, DoneMeansMigrated, CreatesBuffer
<1>5. PrefixMigrated'
  <2> SUFFICES ASSUME NEW r \in Run, pc'[r] \in Active,
                      NEW u \in 1..(at'[r] - 1)
               PROVE  main'[u] = "Buffer"
    BY DEF PrefixMigrated
  <2>1. u \in Table /\ main[u] = "Buffer"
    BY <1>1, ConstantsAssumption DEF IInv, TypeOK, PrefixMigrated, Table
  <2> QED BY <1>2, <2>1
<1>6. SchemaHasStorage'
  BY DEF SchemaHasStorage, SchemaBuffer
<1> QED BY <1>2, <1>3, <1>4, <1>5, <1>6 DEF IInv

LEMMA NextStep == IInv /\ [Next]_vars => IInv'
<1> SUFFICES ASSUME IInv, [Next]_vars PROVE IInv'
  OBVIOUS
<1>1. CASE UNCHANGED vars
  BY <1>1
  DEF vars, IInv, TypeOK, BufferOverStorage, RowsKept, Visible,
      DoneMeansMigrated, PrefixMigrated, CreatesBuffer, SchemaHasStorage
<1>2. CASE \E t \in Table : Insert(t) \/ Flush(t) \/ DropBuffer(t)
  BY <1>2, InsertStep, FlushStep, DropBufferStep
<1>3. CASE \E r \in Run : Start(r) \/ MigrationStep(r) \/ Killed(r)
  BY <1>3, StartStep, ReadEngineStep, CheckDataStep, RenameStep, CreateStep,
     KilledStep
  DEF MigrationStep
<1>4. CASE SchemaStart \/ SchemaData \/ SchemaBuffer \/ SchemaKilled
  BY <1>4, SchemaStartStep, SchemaDataStep, SchemaBufferStep, SchemaKilledStep
<1> QED BY <1>1, <1>2, <1>3, <1>4 DEF Next

\* IInv is an invariant of BufferMigration.
THEOREM Invariant == Spec => []IInv
<1>1. Init => IInv
  BY InitEstablishes
<1>2. IInv /\ [Next]_vars => IInv'
  BY NextStep
<1> QED BY <1>1, <1>2, PTL DEF Spec

-----------------------------------------------------------------------------
\* Types: every variable keeps the values the scripts give it.
THEOREM TypeCorrect == Spec => []TypeOK
<1>1. IInv => TypeOK
  BY DEF IInv
<1> QED BY <1>1, Invariant, PTL

\* A Buffer always has a MergeTree table behind it and is never the storage of
\* another: the RENAME of a late run (line 39 of the migration) cannot take a
\* table an earlier run has already replaced.
THEOREM BufferOverStorageAlways == Spec => []BufferOverStorage
<1>1. IInv => BufferOverStorage
  BY DEF IInv
<1> QED BY <1>1, Invariant, PTL

\* No accepted row is lost or hidden, whatever runs overlap or are killed
\* between two statements.
THEOREM RowsKeptAlways == Spec => []RowsKept
<1>1. IInv => RowsKept
  BY DEF IInv
<1> QED BY <1>1, Invariant, PTL

\* The final message of the migration (line 44) is true.
THEOREM DoneMeansMigratedAlways == Spec => []DoneMeansMigrated
<1>1. IInv => DoneMeansMigrated
  BY DEF IInv
<1> QED BY <1>1, Invariant, PTL
=============================================================================
