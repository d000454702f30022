----------------------------- MODULE EnvCompare -----------------------------
(***************************************************************************)
(* What the env compare boards say about two envs.  Every env has its own  *)
(* catalog of indexes, which changes between samples; Telegraf samples the *)
(* largest TopN (sql/database_index_stat.sql, sql/database_table_stat.sql) *)
(* and writes them to both stores; a board reads the samples in the range. *)
(* The pg-* boards take one query per env and join them in Grafana (the    *)
(* transformations of builder/compare.py), the ch-* boards join in SQL.    *)
(*                                                                         *)
(* A table goes the same way as an index: it has a size, no flags.         *)
(***************************************************************************)
EXTENDS Integers, Sequences, FiniteSets, SequencesExt

CONSTANTS
  Env,        \* the envs that can be compared
  Object,     \* names: datname, schemaname, relname, indexrelname
  TopN,       \* LIMIT of the collector
  MaxSize,    \* bound: size of an index
  MaxChanges, \* bound: changes of the catalogs
  MaxSamples  \* bound: samples in the range, all envs

ASSUME EnvCompareAssumption ==
  /\ IsFiniteSet(Object)
  /\ TopN \in Nat \ {0} /\ MaxSize \in Nat
  /\ MaxChanges \in Nat /\ MaxSamples \in Nat

VARIABLES
  catalog,  \* the indexes of every env, with their counters
  pending,  \* what happened to them since the latest sample
  samples,  \* per env, the samples in the range, oldest first
  changes   \* changes so far

vars == <<catalog, pending, samples, changes>>

FLAGS == {"is_unique", "is_valid"}
Index == [size : 0..MaxSize, is_unique : {0, 1}, is_valid : {0, 1}, idx_scan : Nat]
IsCatalog(c) == DOMAIN c \subseteq Object /\ c \in [DOMAIN c -> Index]
Nothing == [scanned |-> {}, renewed |-> {}]
Happened == [scanned : SUBSET Object, renewed : SUBSET Object]

\* `catalog` and `since` of a sample are history: the boards see the rows of
\* `top` only, TopN at most of the indexes that exist.
IsSample(s) ==
  /\ DOMAIN s = {"catalog", "top", "since"}
  /\ IsCatalog(s.catalog)
  /\ s.top \subseteq DOMAIN s.catalog /\ Cardinality(s.top) <= TopN
  /\ s.since \in Happened

EnvTypeOK ==
  /\ DOMAIN catalog = Env /\ \A e \in Env : IsCatalog(catalog[e])
  /\ pending \in [Env -> Happened]
  /\ DOMAIN samples = Env
  /\ \A e \in Env : \A i \in 1..Len(samples[e]) : IsSample(samples[e][i])
  /\ changes \in Nat

\* The indexes of the first release, the same in all envs that have them.
Released == [size |-> 0, is_unique |-> 0, is_valid |-> 1, idx_scan |-> 0]

Init ==
  /\ catalog \in [Env -> {[o \in S |-> Released] : S \in SUBSET Object}]
  /\ pending = [e \in Env |-> Nothing]
  /\ samples = [e \in Env |-> <<>>]
  /\ changes = 0
-----------------------------------------------------------------------------
(* PostgreSQL                                                              *)

Change(e, indexes) ==
  /\ changes < MaxChanges
  /\ changes' = changes + 1
  /\ catalog' = [catalog EXCEPT ![e] = indexes]
  /\ UNCHANGED samples

\* CREATE INDEX [CONCURRENTLY]: an index not valid yet is being built, or its
\* build has failed.
CreateIndex(e, o) ==
  /\ o \notin DOMAIN catalog[e]
  /\ \E unique, valid \in {0, 1} :
       LET new == [size |-> 0, is_unique |-> unique, is_valid |-> valid, idx_scan |-> 0]
       IN Change(e, [x \in DOMAIN catalog[e] \cup {o} |->
                       IF x = o THEN new ELSE catalog[e][x]])
  /\ UNCHANGED pending

DropIndex(e, o) ==
  /\ o \in DOMAIN catalog[e]
  /\ Change(e, [x \in DOMAIN catalog[e] \ {o} |-> catalog[e][x]])
  /\ pending' = [pending EXCEPT ![e].renewed = @ \cup {o}]

FinishBuild(e, o) ==
  /\ o \in DOMAIN catalog[e] /\ catalog[e][o].is_valid = 0
  /\ Change(e, [catalog[e] EXCEPT ![o].is_valid = 1])
  /\ UNCHANGED pending

Grow(e, o) ==
  /\ o \in DOMAIN catalog[e] /\ catalog[e][o].size < MaxSize
  /\ Change(e, [catalog[e] EXCEPT ![o].size = @ + 1])
  /\ UNCHANGED pending

\* The planner leaves an index that is not valid alone.
UseIndex(e, o) ==
  /\ o \in DOMAIN catalog[e] /\ catalog[e][o].is_valid = 1
  /\ Change(e, [catalog[e] EXCEPT ![o].idx_scan = @ + 1])
  /\ pending' = [pending EXCEPT ![e].scanned = @ \cup {o}]

\* pg_stat_reset(), or a restart after a crash.
ResetStatistics(e) ==
  /\ Change(e, [o \in DOMAIN catalog[e] |-> [catalog[e][o] EXCEPT !.idx_scan = 0]])
  /\ pending' = [pending EXCEPT ![e].renewed = @ \cup DOMAIN catalog[e]]
-----------------------------------------------------------------------------
(* Telegraf and the range                                                  *)

\* Mistake: ORDER BY without DESC.
TopsAscending(indexes) ==
  {T \in SUBSET DOMAIN indexes :
     /\ Cardinality(T) = IF Cardinality(DOMAIN indexes) < TopN
                         THEN Cardinality(DOMAIN indexes) ELSE TopN
     /\ \A x \in T, y \in DOMAIN indexes \ T : indexes[x].size <= indexes[y].size}

\* ORDER BY size DESC LIMIT TopN, ties cut anyhow.
Tops(indexes) ==
  {T \in SUBSET DOMAIN indexes :
     /\ Cardinality(T) = IF Cardinality(DOMAIN indexes) < TopN
                         THEN Cardinality(DOMAIN indexes) ELSE TopN
     /\ \A x \in T, y \in DOMAIN indexes \ T : indexes[x].size >= indexes[y].size}

Bounded == FoldLeft(LAMBDA n, e : n + Len(samples[e]), 0, SetToSeq(Env)) < MaxSamples

TakeSample(e) ==
  /\ Bounded
  /\ \E T \in Tops(catalog[e]) :
       samples' = [samples EXCEPT ![e] =
                     Append(@, [catalog |-> catalog[e], top |-> T, since |-> pending[e]])]
  /\ pending' = [pending EXCEPT ![e] = Nothing]
  /\ UNCHANGED <<catalog, changes>>

\* The oldest sample falls out of the range, which ends now.
MoveRange(e) ==
  /\ samples[e] # <<>>
  /\ samples' = [samples EXCEPT ![e] = Tail(@)]
  /\ UNCHANGED <<catalog, pending, changes>>

Next ==
  \E e \in Env :
    \/ \E o \in Object : \/ CreateIndex(e, o) \/ DropIndex(e, o) \/ FinishBuild(e, o)
                         \/ Grow(e, o) \/ UseIndex(e, o)
    \/ ResetStatistics(e)
    \/ TakeSample(e)
    \/ MoveRange(e)

Spec == Init /\ [][Next]_vars
-----------------------------------------------------------------------------
(* Queries over the rows of one env                                        *)

Seen(e) == UNION {samples[e][i].top : i \in DOMAIN samples[e]}
Times(e, o) == {i \in DOMAIN samples[e] : o \in samples[e][i].top}

\* last(x), argMax(x, time)
LastRow(e, o) ==
  LET t == CHOOSE i \in Times(e, o) : \A j \in Times(e, o) : j <= i
  IN samples[e][t].catalog[o]

\* The values of a counter, oldest first.
Counter(e, o) ==
  FlattenSeq([i \in DOMAIN samples[e] |->
    IF o \in samples[e][i].top THEN <<samples[e][i].catalog[o].idx_scan>> ELSE <<>>])

spread(v) ==
  CHOOSE d \in {v[i] - v[j] : i, j \in DOMAIN v} : \A i, j \in DOMAIN v : v[i] - v[j] <= d

\* The increase of a counter; after a decrease, its new value.
increase(v) ==
  SumFunction([i \in DOMAIN v |->
    IF i = 1 THEN 0 ELSE IF v[i] < v[i - 1] THEN v[i] ELSE v[i] - v[i - 1]])

\* scans_in_range of the panels of one env
influx_scans(e) == [o \in Seen(e) |-> spread(Counter(e, o))]
ch_scans(e) == [o \in Seen(e) |-> increase(Counter(e, o))]

\* Mistake: the scans since the counter started.
UnusedSinceReset(e, scans) ==
  {o \in Seen(e) : LastRow(e, o).idx_scan = 0 /\ LastRow(e, o).is_unique = 0}

\* "Unused indexes"
Unused(e, scans) == {o \in Seen(e) : scans[o] = 0 /\ LastRow(e, o).is_unique = 0}

\* share_pct, as a fraction: a value and the total of the env
Share(scans) ==
  [o \in DOMAIN scans |->
     <<scans[o], FoldLeft(LAMBDA n, x : n + scans[x], 0, SetToSeq(DOMAIN scans))>>]
-----------------------------------------------------------------------------
(* pg-*: one row per object of A or B, the columns of an env without a row *)
(* for it null.  An env without any row has no columns at all, and a       *)
(* filter on a column that is not there matches no row.                    *)

IsNull(e, o) == Seen(e) # {} /\ o \notin Seen(e)

Merged(A, B) == Seen(A) \cup Seen(B)

FilterNull(objects, envs, keep) ==
  {o \in objects : keep <=> \E e \in envs : IsNull(e, o)}

influx_only_in(side, other) == FilterNull(Merged(side, other), {other}, TRUE)

influx_both(A, B) == FilterNull(Merged(A, B), {A, B}, FALSE)

influx_delta(A, B) == [o \in influx_both(A, B) |-> LastRow(B, o).size - LastRow(A, o).size]

\* Mistake: the rows where one flag is the same are excluded.
influx_changed_all(A, B) ==
  {o \in influx_both(A, B) : ~ \E flag \in FLAGS : LastRow(B, o)[flag] - LastRow(A, o)[flag] = 0}

influx_changed(A, B) ==
  {o \in influx_both(A, B) : ~ \A flag \in FLAGS : LastRow(B, o)[flag] - LastRow(A, o)[flag] = 0}
-----------------------------------------------------------------------------
(* ch-*: anyIf() is the column default for an env without a row.           *)

Default == [size |-> 0, is_unique |-> 0, is_valid |-> 0, idx_scan |-> 0]

pair_of(A, B) ==
  LET anyIf(e, o) == IF o \in Seen(e) THEN LastRow(e, o) ELSE Default
      countIf(e, o) == IF o \in Seen(e) THEN 1 ELSE 0
  IN [o \in Seen(A) \cup Seen(B) |->
        [a |-> anyIf(A, o), b |-> anyIf(B, o), n_a |-> countIf(A, o), n_b |-> countIf(B, o)]]

ch_only_in(side, other) ==
  LET pair == pair_of(side, other)
  IN {o \in DOMAIN pair : pair[o].n_a > 0 /\ pair[o].n_b = 0}

\* Mistake: an object is there when its value is.
ch_both_by_value(A, B) ==
  LET pair == pair_of(A, B)
  IN {o \in DOMAIN pair : pair[o].a.size > 0 /\ pair[o].b.size > 0}

ch_both(A, B) ==
  LET pair == pair_of(A, B)
  IN {o \in DOMAIN pair : pair[o].n_a > 0 /\ pair[o].n_b > 0}

ch_delta(A, B) ==
  [o \in ch_both(A, B) |-> pair_of(A, B)[o].b.size - pair_of(A, B)[o].a.size]

ch_changed(A, B) ==
  {o \in ch_both(A, B) : \E flag \in FLAGS : pair_of(A, B)[o].a[flag] # pair_of(A, B)[o].b[flag]}
-----------------------------------------------------------------------------
(* What the boards promise                                                 *)

\* Every object of the two envs is shown, and in one of the panels "Only in
\* A", "Only in B" and "differences" alone, whichever envs are picked: also
\* the same one twice, and one that has no rows.
EveryObjectOnce ==
  \A A, B \in Env :
    /\ Seen(A) \cup Seen(B) = influx_only_in(A, B) \cup influx_only_in(B, A) \cup influx_both(A, B)
    /\ Seen(A) \cup Seen(B) = ch_only_in(A, B) \cup ch_only_in(B, A) \cup ch_both(A, B)
    /\ A # B => /\ influx_only_in(A, B) \cap influx_only_in(B, A) = {}
                /\ ch_only_in(A, B) \cap ch_only_in(B, A) = {}
    /\ influx_both(A, B) \cap (influx_only_in(A, B) \cup influx_only_in(B, A)) = {}
    /\ ch_both(A, B) \cap (ch_only_in(A, B) \cup ch_only_in(B, A)) = {}

\* Grafana's transformations and the SQL of the ch-* boards compare alike,
\* objects of size zero and flags that are zero included, as long as both
\* envs have rows.
StoresCompareAlike ==
  \A A, B \in Env :
    Seen(A) # {} /\ Seen(B) # {} =>
      /\ influx_only_in(A, B) = ch_only_in(A, B)
      /\ influx_delta(A, B) = ch_delta(A, B)
      /\ influx_changed(A, B) = ch_changed(A, B)

\* "An object missing in one env may just be outside its top-N": it may be
\* nothing else.  In no sample of the range did the env have it among fewer
\* than TopN others of its size.
OnlyInIsMissingOrCut ==
  \A A, B \in Env : \A o \in ch_only_in(A, B) \cup influx_only_in(A, B) :
    \A i \in DOMAIN samples[B] :
      LET there == samples[B][i].catalog
      IN o \in DOMAIN there =>
           Cardinality({x \in DOMAIN there \ {o} : there[x].size >= there[o].size}) >= TopN

\* "Use a short range for composition checks": over one sample of each env
\* that misses nothing, the panels are the difference of the two catalogs.
ShortRangeIsExact ==
  \A A, B \in Env :
    Len(samples[A]) = 1 /\ Len(samples[B]) = 1 =>
      LET a == samples[A][1].catalog
          b == samples[B][1].catalog
          both == DOMAIN a \cap DOMAIN b
      IN /\ Cardinality(DOMAIN a) \in 1..TopN
         /\ Cardinality(DOMAIN b) \in 1..TopN
         => /\ influx_only_in(A, B) = DOMAIN a \ DOMAIN b
            /\ ch_only_in(A, B) = DOMAIN a \ DOMAIN b
            /\ influx_delta(A, B) = [o \in both |-> b[o].size - a[o].size]
            /\ ch_delta(A, B) = [o \in both |-> b[o].size - a[o].size]
            /\ \A o \in both :
                 LET differs == \E flag \in FLAGS : a[o][flag] # b[o][flag]
                 IN /\ o \in influx_changed(A, B) <=> differs
                    /\ o \in ch_changed(A, B) <=> differs

\* Whether something happened to an index between its first and its last row.
Between(e, o, what) ==
  \E i, j, k \in DOMAIN samples[e] :
    /\ o \in samples[e][i].top /\ o \in samples[e][k].top
    /\ i < j /\ j <= k
    /\ o \in samples[e][j].since[what]

\* An index that may be dropped: as long as its counter was not started anew,
\* both stores list an index as unused exactly when nobody scanned it between
\* its samples, and agree on the shares.  A statistics reset alone does not
\* take an unused index from the list of the ch-* board.
UnusedWasNotScanned ==
  \A e \in Env :
    /\ \A o \in Seen(e) :
         LET unused == ~ Between(e, o, "scanned") /\ LastRow(e, o).is_unique = 0
         IN /\ ~ Between(e, o, "renewed") =>
                 /\ o \in Unused(e, influx_scans(e)) <=> unused
                 /\ o \in Unused(e, ch_scans(e)) <=> unused
            /\ unused => o \in Unused(e, ch_scans(e))
    /\ (\A o \in Seen(e) : ~ Between(e, o, "renewed")) =>
         Share(influx_scans(e)) = Share(ch_scans(e))
=============================================================================
