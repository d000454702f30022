# TLA+ specifications of pg-sql-query-performance

These modules model the parts of the PostgreSQL monitoring stack in which
something happens: metrics are collected, buffered, written twice, lost and
retried; a container renders its configuration; a database volume gets its
schema and a migration while it is written to; counters that drop are turned
into increases; 18 boards are generated, checked, and clicked through; the
indexes of two environments are compared from samples of the largest ones. Each
module is translated from the files named in `PROJECT.json` under "map". TLC
checks small instances, TLAPS proves the theorems of the seven `*Proofs` modules
for every value of the constants.

    tlc -config MCMetricPipeline.cfg MCMetricPipeline.tla
    tlapm MetricPipelineProofs.tla

## 1. The system

    pg_stat_statements, catalog views            (PostgreSQL, N instances)
            | SQL collectors sql/*.sql, every 15 s / 1 m / 10 m
    Telegraf (one agent, templates rendered per instance by entrypoint.sh)
            |-- outputs.influxdb --> InfluxDB 7d --CQ--> 200d --> pg-* boards
            '-- outputs.sql ------> Buffer tables --> MergeTree --> ch-* boards

### Inventory

| Component | State | Operations | Talks to | What is hard | What makes it correct |
|---|---|---|---|---|---|
| Telegraf agent: `telegraf.conf`, `output_clickhouse.conf` | per output a buffer of unwritten metrics, a batch in flight | gather, start a write, accept, reject, overflow, start, stop | PostgreSQL, both servers | partial batches, lost answers, overflow during an outage, one output holding up the other | no metric vanishes without a cause; overflow takes the oldest; InfluxDB does not depend on ClickHouse |
| ClickHouse Buffer tables: `01_schema.sql` | rows in memory, rows in the storage, the age of the memory | insert, flush at max_time, stop, crash | Telegraf, Grafana | what a crash loses, duplicates of a retry | a crash takes at most max_time of inserts; duplicates need a rejected batch |
| Telegraf entrypoint: `entrypoint.sh` | RENDER_DIR, the loop over PG_INSTANCES | check, render, substitute, exec | environment, Telegraf | dying in the middle, a directory that survives, names that collide | Telegraf runs only on good settings, with one file per instance and template |
| Schema and migration: `01_schema.sql`, `2026-10_buffer_tables.sh` | engines of T and T_data, rows | CREATE, RENAME, EXISTS, DROP | Telegraf, the operator | no transaction, overlapping and interrupted runs, re-runs | no accepted row is lost or hidden; success means migrated; the scripts complete when run again |
| Collectors of statements: `cluster_stmt*.sql` | none (read pg_stat_statements) | rank, cut to the top N, sum per mask, sum of all | PostgreSQL, Telegraf | entries evicted, reset, in and out of the top N | see the next row |
| Queries: `builder/clickhouse.py`, `builder/common.py`, the statements boards | none (read rows) | increase, rate_query, increase_query, spread | ClickHouse, InfluxDB | drops, missing, late and duplicated rows | never more work than was done; exact when nothing drops; both stores agree |
| ClickHouse users: `02_users.sh`, first start in `docker-compose.yml` | users, grants, health | ALTER, REVOKE, GRANT one after the other | Telegraf, Grafana | the healthcheck passes before the GRANT; an init cut short is not repeated | Telegraf and Grafana can work once they start |
| InfluxDB init and downsampling: `init.sh`, `pg_monitoring_downsample.sh` | retention policies, continuous queries, rollups | CREATE-or-ALTER, DROP + CREATE, backfill | InfluxDB, boards on 200d | late points, the gap between DROP and CREATE, re-runs | a rollup equals the aggregate of its hour for points at most 2 h late |
| Comparison boards: `builder/compare.py`, `compare_*.py`, `ch_compare_*.py` | none (read rows) | side_by_side, share, only_in, delta, changed, unused | both stores | objects missing on one side or cut by the top N, values of zero, counters that restart | an object is in exactly one panel; both stores agree; what a panel says is true of the catalogs |
| Board builder: `common.py`, `clickhouse.py`, `generate.py` | x, y, row height, the JSON of a board | layout, write, links, variables | Grafana | panels of different sizes, rows, links that keep some variables | no overlap, ids unique, links land on the row clicked |
| Board definitions: `overview.py` ... `ch_statement_detail.py` | none | build | Grafana, both stores | every board exists twice, variables are chained | filters and envs are respected everywhere, twins agree |
| Query checker: `check_queries.py` | selections of the pass, failures so far | envs, interpolate, run, exit | Grafana | names that begin with others, order of the variables, an error among hundreds of answers | exit code 0 means every query was answered |
| Load generator: Kotlin under `src/test/kotlin` | thread groups, pools, pacing | - | demo database | - | rates of the profile |
| Helm chart, PostgreSQL demo, Grafana provisioning, JSON boards | - | - | - | - | - |

The hazards of this code, each at its line with the properties that cover it,
are listed in `PROJECT.json` under "hazards".

## 2. Modules

| Module | Models |
|---|---|
| `MetricStore` | abstract: what the ClickHouse side promises |
| `MetricPipeline` | agent, both outputs, Buffer tables, restarts, crashes |
| `MCMetricPipeline`, `MCAbandoned`, `MCDataAge`, `MCMismatch` | its instances: safety, liveness, age of the data, head-of-line blocking |
| `MetricPipelineProofs` | theorems about `MetricPipeline` |
| `TelegrafEntrypoint`, `MCTelegrafEntrypoint`, `TelegrafEntrypointProofs` | entrypoint of the Telegraf container; theorems |
| `BufferMigration`, `MCBufferMigration` | schema and migration scripts |
| `BufferMigrationProofs` | theorems about `BufferMigration` |
| `StatementCounters`, `MCStatementCounters`, `StatementCountersProofs` | counters, samples, queries of the boards; theorems |
| `FoldLemmas` | lemmas on induction, on sums over a set and on flattened sequences, for the proofs |
| `BoardPanels` | what a board is made of: panels, targets, variables, links |
| `RunbookBoards` | the ten runbook boards, panel by panel |
| `CompareBoards` | the eight compare boards, and the list of all boards |
| `BoardQueries` | what the stores answer to a panel or a variable |
| `BoardLayout` | the generator and its layout |
| `QueryCheck`, `QueryCheckProofs` | `check_queries.py`; theorems |
| `BoardNavigation` | a user of the boards in Grafana |
| `Dashboards`, `MCDashboards`, `DashboardsProofs` | the composition: generate, then check or browse; theorems about the layout, the navigation and the whole |
| `EnvCompare`, `MCEnvCompare`, `EnvCompareProofs` | two catalogs, the collector, the comparison in both stores; theorems |

Operators whose comment starts with "Mistake:" are not used by any
specification. Each is a plausible bug of the operator after it; put in its
place, it violates the property `PROJECT.json` pairs it with ("mutants").

### MetricPipeline

A metric is a number: the order in which it was collected. The variables
`queue`, `batch`, `dropped` and `forgotten` are per output, as in Telegraf.
`Gather` puts a metric into both buffers and pushes out the oldest when
`metric_buffer_limit` is reached; `StartWrite` takes the oldest
`metric_batch_size` metrics and leaves them in the buffer.

- InfluxDB: one idempotent write per batch. `InfluxAccepts`, `InfluxRefuses`,
  `InfluxAnswerLost`.
- ClickHouse: one INSERT per metric (`InsertRow`), in order; the first error
  (`InsertRefused`: server down or an unknown column; `InsertAnswerLost`: stored,
  but the answer ran into a timeout) rejects the whole batch (`RejectBatch`),
  which is sent again from its start. `AcceptBatch` ends a complete one.
- Buffer table: `mem` and `data` count the copies of a row in the memory and in
  the MergeTree table, up to 2 ("more than once"). `Tick` and `FlushBuffer` are
  its clock; `ClickHouseStops` flushes, `ClickHouseCrashes` loses the memory.
- `AgentStops` loses both buffers; `AgentStarts` needs ClickHouse, because
  outputs.sql pings the server and the agent exits when that fails
  (DECISIONS.md D17d calls it the "cold-start restart loop").

Assumed of software that is not in the repository: Telegraf keeps a rejected
batch, drops the oldest metric of a full buffer and runs its outputs in
parallel; outputs.sql sends one INSERT per metric (`01_schema.sql:7`) and returns
its first error; a Buffer flush is one step for its readers. The first threshold
a Buffer table meets in this stack is max_time: 40000 metrics, the most Telegraf
can ever send at once, are fewer than min_rows = 100000. Every table has its own
Buffer; the model has one, as the properties speak of one metric at a time and a
common clock only makes flushes earlier for some rows.

`MetricStore` is what is left for a reader of the tables: rows become readable,
then durable, and a crash takes exactly the readable rows that are not durable.
`ImplementsStore` maps `gathered` to the collected metrics, `readable` to the
rows in memory or storage, `durable` to the rows in the storage.

### TelegrafEntrypoint

One action per part of the script: `Begin` (PG_INSTANCES not empty, INPUTS_DIR
exists, `rm -f`, static files), `RenderNext` (all checks of one id, then its files),
`Exec`. A setting has `given` (line 32 looks at the string) apart from `ids` (what
line 44 splits it into), as `PG_INSTANCES=","` is given and has no id. The name of a
variable is the sequence of its words, so that ids which are prefixes of one
another (`DB1`, `DB1_APP`) meet as they do in the shell; `Substitute` applies the
four sed expressions one after the other. `Ends` stops the container at any
point and either keeps RENDER_DIR (emptyDir of the Helm chart) or loses it (tmpfs
of docker-compose); `Reconfigure` edits the env file in between. `--render-only`
and `--test` are left out: they render and end.

### BufferMigration

Every statement of the two scripts is a step of its own, as ClickHouse has no
transaction around them; between any two of them Telegraf may insert, the Buffer
may flush, another run may go on, or the run may be killed. `ReadEngine`,
`CheckData`, `Rename` and `Create` are lines 33-41 of the migration: the first two
read, the last two act on what may have changed. RENAME fails when the source is
gone or the target exists; CREATE TABLE IF NOT EXISTS ... AS T_data fails when
T_data does not exist; `set -e` ends the run. `DropBuffer` is the schema change of
line 18, done between runs. `SchemaOnOldVolume` says whether the operator runs
the schema script on a volume that has not been migrated.
The fate of a Buffer's memory in a crash is left to `MetricPipeline`.

### StatementCounters

One counter stands for all the counters of an entry, and the number of a sample
for its time. `Execute`, `ExecuteAfterEviction` and `Reset` are PostgreSQL's;
`TakeSample` is what the three collectors read at one moment (top N entries, top N
masks by their sum over all entries, sum of all); `Deliver` puts the rows of a
sample into the store, in any order of samples, never, once or twice. The queries
are operators over the rows of one series: `increase` with both treatments of a
drop, `rateTotal` (the points of `rate_query` added up), `increaseInflux`
(`non_negative_difference(last())`), `spread`. `done` remembers the work that was
really done, and the properties compare.

Left out: the ranking by calls beside the one by time (both are the same cut, by
different counters), NULLs, mean and ratio columns, the extra interval InfluxQL
reads before the range. Within a sample all rows arrive together; the properties
speak of one series at a time, for which this makes no difference.

### The boards

`BoardPanels` has the constructors of `builder/common.py`, `clickhouse.py` and
`compare.py`: a panel is its type, size, measurement (`from`), grouping columns
(`by`), one set of filters per target, links, and `scope` (rows of all envs, of
side A, of side B, of both), and `timed`, which is FALSE for the two panels of
statement texts of `ch_statement_detail` (`time_filter=False`). A filter is the
name of the variable it uses. The text of a query, units and notes are left out. `RunbookBoards` and
`CompareBoards` then list every board as its `build()` does; `Board[uid]` is the
result of the generator, and `MCDashboards` takes the panels to lay out from it.

`BoardLayout` is `layout()` panel by panel (`PlacePanel`, `PlaceRow`) and board by
board (`WriteBoard`).

`BoardQueries` says what the stores hold: a *fact* is a row by its tags and its
age, 0 (within the short range) or 1. One fact is visible in every measurement:
the filters, keys and links of the boards are about tags only. `Matches`,
`Options` and `Answer` are the WHERE clauses of both stores. The queries of the
`pg-*` variables have no time filter, those of `ch-*` do; a panel filters by time
unless it is not `timed`; the retention policy
`7d` holds the recent facts, the long one all.

`QueryCheck` goes through the queries of the boards in the order of the program,
one action per query of the board in `loaded`, with an error possible at each. `Abort` is the exception
that is not caught. Substitution in `run()` replaces names by text, the longest
first: `FirstReplaced` is the name whose replacement reaches a reference first.
The order in which glob returns the files is the order of generation: boards are
checked independently. The envs known, the selections and the results are reset
where the program does.

`BoardNavigation` is Grafana as far as the boards depend on it, and is marked
external: a parameter of the URL is taken as it is, other variables get their
default (All, or the first option), a change refreshes the variables that
depend on it and drops values no longer offered. A link carries columns of the
row clicked (`fields`) and variables of the board (`carry`). After a dropdown the
variables are kept only if it says so.

A check and a user only read, so `Dashboards` lets one execution have either,
over one collection of facts that does not change meanwhile.

### EnvCompare

`catalog` is what PostgreSQL has: an index with its size, flags and scan counter
per env. It is created (valid or still being built), finished, dropped, grown,
used, its statistics reset. `TakeSample` is the collector: the TopN largest,
ties cut anyhow. `MoveRange` lets the oldest sample of an env leave the range.
The operators `influx_...` follow the Grafana transformations (two queries, merge,
filter by null, calculate), `ch_...` the SQL (both envs grouped by object, with
anyIf, whose default for a missing row is 0, and countIf). Tables go the same way, without flags.
`since` in a sample and its `catalog` are history for the properties: the boards
read `top` only.

## 3. Runs

| Run | Instance | Shows |
|---|---|---|
| `pipeline_safety` | 4 metrics, buffers and batches of 2, 2 faults, metric 2 always refused | `Accounted`, `FreshestKept`, `DuplicatesOnlyAfterReject`, `LossWindow`, `ImplementsStore` (822 k states) |
| `pipeline_liveness` | 3 metrics, buffers and batches of 2, 2 faults, metric 3 refused, ClickHouse abandoned or not | `CatchesUp`, `InfluxIndependent` (373 k states) |
| `entrypoint` | 5 ids, PG and PG_APP among them, all sequences of up to 2 ids and a, b, a, separators only, nothing, no INPUTS_DIR, variables missing, 2 starts | `RunsOnlyOnGoodSettings`, `EveryInstanceRendered`, `VariablesRenamed`, `NothingStale`, `StartEnds` (8 k states) |
| `migration` | 2 tables, 2 overlapping runs, 2 rows, 1 kill | `BufferOverStorage`, `RowsKept`, `DoneMeansMigrated`, `Completes` (46 k states) |
| `counters` | 3 statements, 2 masks, 2 entries, top 1, 2 units of work, 3 samples, buckets of 2 | `NeverOvercounts`, `ExactWithoutDrops`, `BucketsBelowIncrease`, `BoardsAgree`, `LateRowsOnlyRaise` (141 k states) |
| `boards` | all 18 boards, 4 collections of facts, 6 command lines of the check | `NoOverlap`, `VerdictIsRight`, `ReplacedByItsOwnValue`, `FirstValuesMatchRows`, `ClickLandsOnRow`, `ClickShowsExactly`, `PanelsRespectSelection`, `SelectionExists`, `FreshCompareHasBothSides`, `TwinsAgree` (49 k states) |
| `env_compare` | 2 envs, 3 names, top 2, sizes 0 and 1, 2 changes, 3 samples | `StoresCompareAlike`, `OnlyInIsMissingOrCut`, `ShortRangeIsExact`, `UnusedWasNotScanned` (182 k states) |
| `crash_age`, `mismatch_blocks`, `entrypoint_header`, `migration_after_schema`, `topn_below_breakdown` | see below | a sentence of the repository that the code does not keep |

### Where code and documentation disagree

1. `crash_age`. `01_schema.sql:11`: a crash loses "<= 60 s of data". True of the
   time since the INSERT (`LossWindow`, proved). After an outage the backlog of
   Telegraf, up to 40000 metrics, is inserted at once and sits in the memory
   together: a crash then loses data of many minutes, which Telegraf has already
   dropped from its buffer. `MCDataAge` adds the age since collection and an agent
   that is never late.
2. `mismatch_blocks`. `output_clickhouse.conf:3`: "an unknown column fails the
   whole insert of that table". The batch mixes all tables and is rejected as a
   whole; the refused metric stays the oldest of the buffer and leads every later
   batch, until metrics of the other tables are pushed out unwritten. `MCMismatch`
   has a prompt agent and servers that never fail, so that nothing else can fill
   the buffer.
3. `entrypoint_header`. `entrypoint.sh:3-5`: "For every id of PG_INSTANCES ... the
   input templates ... are rendered ... as <id>__<file>.conf, ${PG_DSN} / ...
   become ${<ID>_DSN} / ...". With the ids `pg_app,PG_APP` of the run it is wrong
   twice. Files are named after the lower-case id (line 68), duplicates are
   compared as they are (line 55): both are accepted and the first is not
   collected. And the second sed expression (line 72) rewrites the result of the
   first: the `${PG_DSN}` of `PG_APP` becomes `${PG_APP_DSN}`, then
   `${PG_APP_APP_DSN}`. `EntrypointHeader` proves that there is nothing else: the
   header is right for ids that differ in more than case and are not `PG_APP`.
4. `migration_after_schema`. `01_schema.sql:2`: "safe to re-run". On a volume from
   before the Buffer tables it leaves an empty T_data beside the old T, which the
   migration refuses from then on ("both ... exist, fix manually").
5. `topn_below_breakdown`. `statements.py:26`, `docs/metrics-catalog.md:42`:
   "totals are always <= Breakdown totals". After a reset or an eviction the
   statements table counts the new value (`ch_statements.py:128`), the Breakdown
   ignores the step (line 35).

Two smaller observations have no run. `PG_INSTANCES=","` passes line 32, has no id,
and Telegraf starts on the static files alone: `RunsOnlyOnGoodSettings` and
`StartEnds` say "every id", and there is none. And since outputs.sql pings
ClickHouse, an agent restarted while ClickHouse is down collects nothing for
InfluxDB either: `InfluxIndependent` speaks of collected metrics, `CatchesUp`
assumes that ClickHouse comes back, and the guard of `AgentStarts` is the reason.
No property covers this hazard.

Observations on the boards, also without a run:

- An env without any row in the range makes the two stores differ. Grafana's
  merge has no column for it, so "Only in A" is empty and the differences list
  every object of A (`compare.py:242`); the `ch-*` board lists them under "Only in
  A". `StoresCompareAlike` therefore asks for rows of both envs; that every object
  is shown exactly once holds in either case (`ObjectsOnce`, proved).
- The statement texts of `ch-statement-detail` ("Query mask", "Full text") have no
  time filter (`ch_statement_detail.py:50,120`, said in its line 46), those of
  `pg-statement-detail` have one. Of facts older than the range the twins differ in
  these two panels; `TwinsAgree` says that they differ in nothing else. Such an old
  row can be clicked: the board it leads to selects it and shows it in the text
  panels, and no other panel need have a row. `ClickLandsOnRow` and
  `SelectionExists` say so.
- The `7d` retention policy cuts a range that is longer than it; `TwinsAgree` asks
  for a policy that reaches as far back as the range.
- A used index can be listed as unused, in both stores, when its counter was
  started anew between two samples: 0, then scans, then a reset (or a drop and
  re-creation), then 0. Nothing in the rows tells the scans; `UnusedWasNotScanned`
  leaves these counters out.
- A statistics reset takes an unused index from the list of the `pg-*` board:
  `spread()` counts the drop as scans. The `ch-*` board keeps it.
  `UnusedWasNotScanned` says what does hold.
- An error of `envs()` in `check_queries.py:61` is printed nowhere and not
  counted; the pass goes on with empty envs and finds its panels EMPTY.
- The dropdown from the compare boards to the runbooks keeps no variables, and so
  not the retention policy either.

### Bounds, and why they are enough

- `Horizon`, `BufferLimit`, `BatchSize` (pipeline): with buffers of 2 and 4
  metrics the buffer overflows while a batch of the oldest is in flight, twice
  over; a batch of 2 is the smallest with a stored and a rejected part.
- `MaxFaults` = 2: a lost answer and then a crash, a stop during a retry, a crash
  after an agent restart. `MaxTime` = 1 tick separates "in this period" from
  "overdue", which is all `LossWindow` tells apart. The theorems have no bounds.
- Copies of a row are counted up to 2: no property tells 2 from 3.
- `MaxStarts` = 2: what a start can inherit, it inherits from the one before.
- `MaxKills` = 1 with two runs: a run that meets the rest of a killed one while
  another is active. Two tables: one done, one to do.
- `MaxWork` = 2, `MaxSamples` = 3, `MaxEntries` = 2, `Before` = 2: work, eviction,
  return and a sample after each; `Before` > 0 makes counters older than the
  range. Three samples in buckets of two give a bucket with two rows and one with
  a predecessor. More work or samples than this multiply the states (four samples
  leave the five minutes a run may take).

- The boards are not a small instance: all panels, variables and links of the
  repository. Only the data are small: `Running2` has two envs that share the name
  of an instance, two variants of one mask on one instance, and an instance, a
  database and a user that are gone from the short range (their statement texts
  are still shown and clicked); `OneEnv`, `Gone` and no facts at all are
  the cases where an option list is empty or nothing is recent. Two values of a
  column are enough to tell a filter from its absence. The checker runs over all
  boards, over `cmp` only, and with CHECK_VARS that swap the envs.
- `MaxChanges` = 2, `MaxSamples` = 3, `TopN` = 2 of 3 names: an object is cut while two
  others are larger, comes back after a change, and a counter has a row before
  and after a reset or a scan. Three changes or four samples take longer than the
  five minutes a run may have; the theorems have no bounds.

`CHECK_DEADLOCK FALSE` is set where a bound lets the model stop: everything
collected and stored, all starts used, all tables migrated and all rows inserted,
all work done and sampled. The programs themselves do not stop there, except
`check_queries.py`, which has exited.

### Fairness

- `InfluxFairness`: the flush timer of the agent, the answer (of either kind) to a
  write, `restart: unless-stopped` of InfluxDB (`docker-compose.yml:40`).
- `ClickHouseFairness` (`MCAbandoned`): the same for ClickHouse, its Buffer clock,
  and the restart of the agent. Only assumed when `abandoned` is FALSE, so that
  `InfluxIndependent` is checked without it.
- `TelegrafEntrypoint`: the script goes on; nothing forces the container to be
  stopped or restarted.
- `BufferMigration`: the operator runs a script again while it has something to
  do. Weak fairness of each statement; kills are bounded, inserts are not fair.
- `Dashboards` and `EnvCompare` assume none: nothing there has to happen.

## 4. Proofs

`MetricPipelineProofs` (for every `Horizon`, `BufferLimit`, `BatchSize`, `MaxTime`,
`Mismatched`, `MaxFaults` allowed by `ConstantsAssumption`):

- `TypeCorrect`: `TypeOK`, action by action.
- `Invariant`: `IInv` joins `Accounted` and `DuplicatesOnlyAfterReject` with what
  they need: `SentStored` (a row counted as sent is stored, or was before a crash:
  otherwise `AcceptBatch` could drop an unstored metric), `ResendKnown` (a stored
  metric that may be inserted again is in `sent` or in `retried`), `Ordered`
  (nothing is queued or stored before it is collected, so that a new metric is
  not a duplicate) and `RowsYoungerThanBuffer`, which with the type of `bufAge`
  gives `LossWindow`. `AccountedAlways`, `DuplicatesAlways` and `LossWindowAlways`
  follow.
- `FreshestKeptAlways`: by counting. The buffer is full when it gives up its oldest
  metric, so it holds `BufferLimit` metrics that are not older, all at most
  `collected`; the cardinality lemmas of `FiniteSetTheorems` turn this into
  `m + BufferLimit <= collected` after the step.
- `Refinement`: `Spec => ImplementsStore`. Every action is one of `Gather`,
  `Publish`, `Harden`, `Crash` of `MetricStore` or a stutter under the mapping.

`BufferMigrationProofs` (any number of tables, runs, rows, kills, and both values
of `SchemaOnOldVolume`): `Invariant` with `PrefixMigrated` (a run in progress has
left Buffers behind it), `CreatesBuffer` (a run about to create has seen that T is
no MergeTree table, and T never becomes one) and `SchemaHasStorage`. From it
`BufferOverStorageAlways`, `RowsKeptAlways`, `DoneMeansMigratedAlways`. The runs
check `SchemaOnOldVolume = FALSE` for these; the theorems cover TRUE as well, so
the refusal of `migration_after_schema` loses nothing.

`DashboardsProofs`, the layout (any list of boards that `PanelsAssumption` allows: up to 100
panels each, up to 99 in a row, panels of a row no higher than the step of 14, rows
one unit high): `LayoutInv` says that every panel placed ends above the line being
filled or on it and left of the cursor, which is what the next panel needs;
`NoOverlap` itself says nothing about the cursor and is not inductive. From it
`PanelsDoNotOverlap` and `PanelsInsideGrid`; `PanelIdsUnique` is arithmetic on `100 k + q`.
`MCDashboards` evaluates the assumption for the boards of the repository.
`BoardsAreLaidOut` shows that the composition implements the layout's own
specification (`Spec => LayoutSpec`): what the check and the users do is a stutter
for the generator, so these theorems hold of the whole.

`EnvCompareProofs` (any envs, finite set of objects, `TopN`, bounds): `EnvInv` types
the state and adds what `EnvTypeOK` does not say, that the rows of every sample in
the range are what ORDER BY and LIMIT leave of the catalog it was taken of
(`Samples`). `OnlyInExplained` follows by counting: an object of the catalog that is
not among the rows is behind TopN others at least as large. `StoresAlike` and
`ObjectsOnce` compare what the two chains of operators compute; for the latest row
of an object to be a row at all, `LargestOf` finds the largest of a set of positions
by well-foundedness. `ShortRange` follows from `EnvInv` too: the one sample of each env
is then its whole catalog.
`UnusedNotScanned` needs more, `ScanInv`: for any two samples, and for a sample and
the catalog now, what the counters of an index say of what happened to it in
between (`Traced`): if it was not dropped, built again or reset, the later counter
is never smaller, and larger exactly when the index was scanned; if it was not
scanned, the later counter is the same or 0. The property speaks of the rows on the
boards only and forgets the catalog, so it is not inductive. From `ScanInv` the
counters of an index that was not started anew never go down from row to row, so
that `increase` and `spread` are both the last minus the first (`IncreaseRising`, by
`TelescopeExactly`); those of an index that was not scanned are the same or 0, and
`increase` adds nothing (`IncreaseOfNothing`).

`TelegrafEntrypointProofs` (any settings whose ids are sequences of words, any
number of starts): `EntrypointInv` says that while the script renders, the ids
before `next` have passed every check, and RENDER_DIR holds the static files and
the files of just these ids, each rendered from one of them (`Progress`), and that
Telegraf runs only when no id is left. The properties say nothing of the loop in
the middle. From it `EntrypointTyped`, `EntrypointRunsOnGood`,
`EntrypointNothingStale` and `EntrypointVariables`: the result of one sed expression
matches a later one for the DSN of `PG_APP` only, and every other variable of every
id gets its name. Two theorems have a hypothesis about the settings,
without which they are false:

- `EntrypointEveryInstance` assumes `NamesApart`, that no two ids of one setting
  differ in case only, and that no rendered file has the name of a static one. The
  run `entrypoint` satisfies it.
- `EntrypointHeader` assumes `NamesApart` and `NoPgApp`, that no id is `PG_APP`; it
  puts the two theorems before it together. The run `entrypoint_header` shows that
  the header is not right without them.

`StatementCountersProofs` (any statements, masks, sizes of pg_stat_statements and
of the top N, length of a bucket and number of samples): `CountersInv` adds to the
type how a sample relates to the later ones (`SamplesInOrder`) and to the counters
now (`SamplesFollowed`): a counter never exceeds what was counted before plus the
work done since, one that went down counts no more than the work since, and while
nothing was cleared it is exactly what was counted before plus that work. The queries are
then proved about a series alone:

- `RowsBacked`: the increase over the rows that arrived is at most the work between
  the first and the last of them, whichever they are and however a drop is treated.
  It gives `CountersNeverOvercount` and, with equality, `CountersExact` and
  `CountersBoardsAgree`.
- `MoreRowsMore`: with a row more the increase is never smaller, as a step over two
  neighbours is at most the sum of the steps to and from a row in between. It gives
  `CountersLateRows` and, the rows at the ends of the buckets being some of all,
  `CountersBuckets`.

`QueryCheckProofs` (any boards and command lines, any answers of the servers):
`CheckInv` counts. While a check runs, the queries asked are all those of the boards
and passes before, and those of the loaded board before the next one; a query
without an answer is in `failed`; the variables selected are those before the next
query. `CheckVerdict` and `CheckOwnValues` follow. Their hypotheses are about the
boards and the names, not about the program, and `MCDashboards` evaluates them for
the 18 boards of the repository: `BoardsAskable` (every variable used in a query of
a `ch-*` board stands above it and every column is in its measurement; those of a
`pg-*` board are among the names that `run()` replaces), `PrefixesShorter` (a name
that begins another one is shorter).

`DashboardsProofs`, the rest (any collections of facts, any ranges and picks, any
number of clicks): what TLC checks over four collections is proved for all finite
ones. The boards stay those of the repository, but the proofs do not look at them.
They use rules, which `BoardNavigation` states (`VariableRule`, `Chained`,
`PanelRule`, `LinkRule`, `ClickRule`, `OldTextRule`, `RunbookRule`,
`DropdownRule`, `TwinRule`, `CompareRule`, together
`BoardsConsistent`) and TLC evaluates for all 18 boards as a part of `BoardsTypeOK`:
for these boards, and the command lines of the run, the hypothesis `Rules` is a fact. A rule
speaks of variables, filters, keys and links only, never of rows or of a selection:
a variable refers to variables above it only; for each one there is a variable above
it, itself with a value, whose query already filters by everything this one filters
by (`Covers`); a panel filters by every variable that its measurement has a column
for; a link sets or carries, for each variable of its target, something the row
clicked has.

- `NavigationInvariant`: `NavigationInv` is `PageTyped` (the selection has exactly the
  variables of the board, and one value where only one is possible) and `PageLive`:
  if any row can be found, then every variable has a value of a row that matches the
  variables *its own query* uses, or what is selected is a statement text older than
  the range that was clicked (`OldTextSelected`): its env, its instance, and All of
  the rest. `SelectionExists` asks for one row with all of the
  selection and is not inductive: after a pick in the middle of the chain the
  variables below are read again one by one, and each needs the rows of the one
  above. Opening a board, the refresh after a pick or a change of the range, a
  dropdown and a click each preserve it; for the two recursive definitions
  (`Selection`, `Reselected`) `SelectionFixed` and `ReselectedFixed` say what they
  compute: every variable has its value given the final values of the others.
- `SelectionFound`, `SelectionShown`, `TwinsShowTheSame`: from the invariant and the
  rules of the chain, of the panels and of the twins.
- `RowIsFound`, `ClickIsExact`: `ClickLanded` says for each variable of the new page
  that it is set from the row, carried, or has no filter at all.
- `BothSides`: an instance of both envs has the most envs there can be, so the first
  option in the order "most envs first" has as many; both being subsets of the two
  envs selected, they are equal.
- `BoardsTyped`: the types, of which the part of the check needs that the counts of
  queries fit the loaded board.
- `FirstValuesExist`: `CoherentInv` for the check. As long as nothing disturbs it
  (no outage, no overrides, a `ch-*` board), the values chosen so far are coherent:
  the first option of each variable was taken from rows that match the ones above.
  Of a `pg-*` board the argument is another: every variable of a query of all rows is
  replaced by `.*`, under its own name by `PrefixesShorter`.

The proof of `BoardsTyped` found a mistake in the model: a conjunct of `CheckTypeOK`
was read as the premise of an implication (`/\` binds tighter than `=>`), so that the
type of `at` was only claimed at the end of a check. It is two conjuncts now.
Assumptions added for the proofs: `CollectionsAssumption` says that the facts are
finitely many, `SettingsAssumption` that overrides are values.

`FoldLemmas` is what these proofs share. The library's induction takes a predicate
as a parameter, which the installed provers cannot instantiate; `NatInd` and `SetInd`
state it for a set (a set that holds 0 and is closed under successor is all of the
natural numbers), and a proof defines the set of the numbers it is about. From
them: a fold over a finite set is a sum that does not depend on the order
(`FoldingUnique`, `SumAdd`, `SumRemove`), sums of differences telescope, and
`FlattenSeq` of blocks is as long as all of them and sorted if they are.

Only model-checked:

- That the 18 boards follow the rules: they are data, and evaluating them is TLC's
  work. `MCDashboards` does it (`BoardsAreAskable`, `BoardsConsistent`).
- All liveness (`CatchesUp`, `InfluxIndependent`, `StartEnds`, `Completes`): fairness
  and ENABLED are beyond the prover.
- The five violations of section 3.

## 5. Not modelled

- Rows and points expire after their TTL or retention: no property is about it.
- Column types, codecs, sort keys; units, colours, notes and the text of the
  queries beyond their filters and keys: data.
- Of the comparison: shares when a total is 0, means, the order of the rows, an
  index dropped and created again under its name between two samples (its counter
  may come back to where it was, and no row tells).
- The first start of the stack (`02_users.sh`, healthchecks), the initialisation of
  InfluxDB and its downsampling: planned, see below.
- Helm templates, the demo database, Grafana provisioning, generated JSON boards,
  the JMeter plan: no state that interacts with the rest.

## 6. Plan

Done: the pipeline with its abstract store, the entrypoint, the migration, the
counters, the layout of the boards, the query checker, the navigation and the
comparison of envs, all with proofs of every safety property. Next, in this order:

1. `StackStart`: `02_users.sh` statement by statement, the healthcheck that logs in
   as the writer, `depends_on`, an initialisation cut short, composed with the
   agent's start. Abstract promise: a started Telegraf can write. One run (first
   start, one kill, restarts).
2. `Downsample`: hourly continuous query over two hours, DROP + CREATE on a live
   server, backfill in day chunks, late points. Reference: the aggregate of each
   hour. Properties: a closed hour equals its aggregate for points at most 2 h
   late, a re-run changes no complete hour, `last` and `max` survive overlapping
   backfills. One run.
3. Selection of `cluster_stmt_text.sql` against `cluster_stmt.sql` (a statement
   shown on a board has its text), within `StatementCounters`.
4. Proofs: the lemmas on `Oldest` and `Evicted` of the pipeline as a theory of bounded
   buffers.
5. The load generator's pacing and pools.
