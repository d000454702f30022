--------------------------- MODULE MetricPipeline ---------------------------
(***************************************************************************)
(* The dual write: one Telegraf agent collects metrics and every output    *)
(* keeps its own bounded buffer of unwritten metrics.  outputs.influxdb    *)
(* writes a batch with one idempotent HTTP request; outputs.sql writes the *)
(* same batch to ClickHouse with one INSERT per metric, in order, and      *)
(* rejects the whole batch at the first error.  An INSERT lands in the     *)
(* in-memory Buffer table in front of the MergeTree storage: a SELECT      *)
(* reads both, the memory is written to the storage max_time after its     *)
(* first row or on a normal stop, and is lost on a crash.                  *)
(*                                                                         *)
(* Metrics are numbered in the order they are collected.  A tick is the    *)
(* unit of Buffer's max_time.  Copies of a row are counted up to two       *)
(* ("stored more than once").                                              *)
(***************************************************************************)
EXTENDS Integers, FiniteSets

CONSTANTS
  Horizon,     \* bound: number of metrics ever collected
  BufferLimit, \* metric_buffer_limit, per output
  BatchSize,   \* metric_batch_size
  MaxTime,     \* max_time of the Buffer tables, in ticks
  Mismatched,  \* metrics with a column their table does not have
  MaxFaults    \* bound: stops, crashes and lost answers

ASSUME ConstantsAssumption ==
  /\ Horizon \in Nat
  /\ BufferLimit \in Nat \ {0}
  /\ BatchSize \in Nat \ {0}
  /\ MaxTime \in Nat \ {0}
  /\ Mismatched \subseteq 1..Horizon
  /\ MaxFaults \in Nat

VARIABLES
  agent,     \* the Telegraf process: "running" or "down"
  collected, \* the metrics collected so far are 1..collected
  queue,     \* per output, the unwritten metrics
  batch,     \* per output, the batch being written ({} between writes)
  sent,      \* metrics of the ClickHouse batch already inserted
  dropped,   \* per output, metrics pushed out of a full buffer
  forgotten, \* per output, metrics that were unwritten when the agent died
  up,        \* per output, whether its server answers
  influx,    \* points in InfluxDB: same series and time overwrite each other
  mem,       \* copies of a metric's row in the memory of the Buffer table
  data,      \* copies of a metric's row in the MergeTree table behind it
  age,       \* ticks since the latest row of a metric entered the memory
  bufAge,    \* ticks since the first row entered the memory
  lost,      \* metrics that were in the memory when the server crashed
  retried,   \* metrics whose row was stored and whose batch was rejected
  faults     \* faults so far

agentVars  == <<agent, collected, queue, batch, sent, dropped, forgotten>>
bufferVars == <<mem, data, age, bufAge, lost>>
vars == <<agent, collected, queue, batch, sent, dropped, forgotten, up,
          influx, mem, data, age, bufAge, lost, retried, faults>>

Metric == 1..Horizon
Output == {"influxdb", "clickhouse"}

Collected == 1..collected
InMemory  == {m \in Metric : mem[m] > 0}
Durable   == {m \in Metric : data[m] > 0}
Readable  == InMemory \cup Durable

\* Output buffers, batch and table copies are of known metrics; copies are
\* counted up to two and the Buffer table never overruns its max_time.
TypeOK ==
  /\ agent \in {"running", "down"}
  /\ collected \in 0..Horizon
  /\ queue \in [Output -> SUBSET Metric]
  /\ batch \in [Output -> SUBSET Metric]
  /\ sent \in SUBSET Metric
  /\ dropped \in [Output -> SUBSET Metric]
  /\ forgotten \in [Output -> SUBSET Metric]
  /\ up \in [Output -> BOOLEAN]
  /\ influx \in SUBSET Metric
  /\ mem \in [Metric -> 0..2]
  /\ data \in [Metric -> 0..2]
  /\ age \in [Metric -> Nat]
  /\ bufAge \in 0..MaxTime
  /\ lost \in SUBSET Metric
  /\ retried \in SUBSET Metric
  /\ faults \in 0..MaxFaults

Init ==
  /\ agent = "down"
  /\ collected = 0
  /\ queue = [o \in Output |-> {}]
  /\ batch = [o \in Output |-> {}]
  /\ sent = {}
  /\ dropped = [o \in Output |-> {}]
  /\ forgotten = [o \in Output |-> {}]
  /\ up = [o \in Output |-> TRUE]
  /\ influx = {}
  /\ mem = [m \in Metric |-> 0]
  /\ data = [m \in Metric |-> 0]
  /\ age = [m \in Metric |-> 0]
  /\ bufAge = 0
  /\ lost = {}
  /\ retried = {}
  /\ faults = 0

Fault == faults < MaxFaults /\ faults' = faults + 1
-----------------------------------------------------------------------------
(* The agent                                                               *)

\* The n oldest metrics of S.
Oldest(S, n) == {m \in S : Cardinality({x \in S : x < m}) < n}

\* Mistake: a buffer that gives up its newest metric.
EvictedNewest(q) ==
  IF Cardinality(q) < BufferLimit
    THEN {} ELSE {m \in q : \A x \in q : x <= m}

\* What a full buffer gives up to take one more metric.
Evicted(q) == IF Cardinality(q) < BufferLimit THEN {} ELSE Oldest(q, 1)

\* The agent logs in to ClickHouse before it runs (outputs.sql pings the
\* server and the agent exits when that fails); InfluxDB may be down.
AgentStarts ==
  /\ agent = "down"
  /\ up["clickhouse"]
  /\ agent' = "running"
  /\ UNCHANGED <<collected, queue, batch, sent, dropped, forgotten, up,
                 influx, retried, faults>>
  /\ UNCHANGED bufferVars

\* The buffers live in the process.
AgentStops ==
  /\ agent = "running"
  /\ Fault
  /\ agent' = "down"
  /\ forgotten' = [o \in Output |-> forgotten[o] \cup queue[o]]
  /\ queue' = [o \in Output |-> {}]
  /\ batch' = [o \in Output |-> {}]
  /\ sent' = {}
  /\ UNCHANGED <<collected, dropped, up, influx, retried>>
  /\ UNCHANGED bufferVars

\* A collected metric goes to the buffer of every output.
Gather ==
  /\ agent = "running"
  /\ collected < Horizon
  /\ collected' = collected + 1
  /\ queue' = [o \in Output |->
                 (queue[o] \ Evicted(queue[o])) \cup {collected + 1}]
  /\ dropped' = [o \in Output |-> dropped[o] \cup Evicted(queue[o])]
  /\ UNCHANGED <<agent, batch, sent, forgotten, up, influx, retried, faults>>
  /\ UNCHANGED bufferVars

\* Mistake: an output starts a write only when no other output is writing.
StartWriteAlone(o) ==
  /\ agent = "running"
  /\ \A p \in Output : batch[p] = {}
  /\ queue[o] # {}
  /\ batch' = [batch EXCEPT ![o] = Oldest(queue[o], BatchSize)]
  /\ UNCHANGED <<agent, collected, queue, sent, dropped, forgotten, up,
                 influx, retried, faults>>
  /\ UNCHANGED bufferVars

\* A flush takes a batch; the metrics stay in the buffer until the output
\* accepts them.
StartWrite(o) ==
  /\ agent = "running"
  /\ batch[o] = {}
  /\ queue[o] # {}
  /\ batch' = [batch EXCEPT ![o] = Oldest(queue[o], BatchSize)]
  /\ UNCHANGED <<agent, collected, queue, sent, dropped, forgotten, up,
                 influx, retried, faults>>
  /\ UNCHANGED bufferVars

-----------------------------------------------------------------------------
(* outputs.influxdb                                                        *)

InfluxAccepts ==
  /\ batch["influxdb"] # {}
  /\ up["influxdb"]
  /\ influx' = influx \cup batch["influxdb"]
  /\ queue' = [queue EXCEPT !["influxdb"] = @ \ batch["influxdb"]]
  /\ batch' = [batch EXCEPT !["influxdb"] = {}]
  /\ UNCHANGED <<agent, collected, sent, dropped, forgotten, up, retried,
                 faults>>
  /\ UNCHANGED bufferVars

InfluxRefuses ==
  /\ batch["influxdb"] # {}
  /\ ~up["influxdb"]
  /\ batch' = [batch EXCEPT !["influxdb"] = {}]
  /\ UNCHANGED <<agent, collected, queue, sent, dropped, forgotten, up,
                 influx, retried, faults>>
  /\ UNCHANGED bufferVars

\* The points are stored and the answer is lost: the batch will be retried.
InfluxAnswerLost ==
  /\ batch["influxdb"] # {}
  /\ up["influxdb"]
  /\ Fault
  /\ influx' = influx \cup batch["influxdb"]
  /\ batch' = [batch EXCEPT !["influxdb"] = {}]
  /\ UNCHANGED <<agent, collected, queue, sent, dropped, forgotten, up,
                 retried>>
  /\ UNCHANGED bufferVars

-----------------------------------------------------------------------------
(* outputs.sql                                                             *)

NextRow == Oldest(batch["clickhouse"] \ sent, 1)

\* Mistake: copies are not capped.
Uncapped(n) == n

Capped(n) == IF n > 2 THEN 2 ELSE n

\* Mistake: max_time is counted from the latest row.
StoreRowAndRestartClock(m) ==
  /\ mem' = [mem EXCEPT ![m] = Capped(@ + 1)]
  /\ age' = [age EXCEPT ![m] = 0]
  /\ bufAge' = 0
  /\ UNCHANGED <<data, lost>>

\* A row enters the memory of the Buffer table.
StoreRow(m) ==
  /\ mem' = [mem EXCEPT ![m] = Capped(@ + 1)]
  /\ age' = [age EXCEPT ![m] = 0]
  /\ bufAge' = IF InMemory = {} THEN 0 ELSE bufAge
  /\ UNCHANGED <<data, lost>>

InsertRow ==
  /\ up["clickhouse"]
  /\ \E m \in NextRow \ Mismatched :
       /\ StoreRow(m)
       /\ sent' = sent \cup {m}
  /\ UNCHANGED <<agent, collected, queue, batch, dropped, forgotten, up,
                 influx, retried, faults>>

\* Mistake: a rejected batch leaves the buffer.
RejectAndForget ==
  /\ batch' = [batch EXCEPT !["clickhouse"] = {}]
  /\ sent' = {}
  /\ queue' = [queue EXCEPT !["clickhouse"] = @ \ batch["clickhouse"]]
  /\ UNCHANGED <<agent, collected, dropped, forgotten, up, influx>>

\* The whole batch is rejected: it stays in the buffer, rows already stored
\* included.
RejectBatch ==
  /\ batch' = [batch EXCEPT !["clickhouse"] = {}]
  /\ sent' = {}
  /\ UNCHANGED <<agent, collected, queue, dropped, forgotten, up, influx>>

\* The server is down, or the table does not have a column of the metric.
InsertRefused ==
  /\ \E m \in NextRow : ~up["clickhouse"] \/ m \in Mismatched
  /\ retried' = retried \cup sent
  /\ RejectBatch
  /\ UNCHANGED faults
  /\ UNCHANGED bufferVars

\* The row is stored and the answer is lost.
InsertAnswerLost ==
  /\ up["clickhouse"]
  /\ Fault
  /\ \E m \in NextRow \ Mismatched :
       /\ StoreRow(m)
       /\ retried' = retried \cup sent \cup {m}
  /\ RejectBatch

\* Mistake: an accepted batch stays in the buffer.
AcceptAndKeep ==
  /\ batch["clickhouse"] # {}
  /\ sent = batch["clickhouse"]
  /\ batch' = [batch EXCEPT !["clickhouse"] = {}]
  /\ sent' = {}
  /\ UNCHANGED <<agent, collected, queue, dropped, forgotten, up, influx,
                 retried, faults>>
  /\ UNCHANGED bufferVars

\* Every metric of the batch was inserted: the batch leaves the buffer.
AcceptBatch ==
  /\ batch["clickhouse"] # {}
  /\ sent = batch["clickhouse"]
  /\ queue' = [queue EXCEPT !["clickhouse"] = @ \ batch["clickhouse"]]
  /\ batch' = [batch EXCEPT !["clickhouse"] = {}]
  /\ sent' = {}
  /\ UNCHANGED <<agent, collected, dropped, forgotten, up, influx, retried,
                 faults>>
  /\ UNCHANGED bufferVars

-----------------------------------------------------------------------------
(* The servers                                                             *)

\* Mistake: the storage is replaced by the memory.
MoveOverStorage ==
  /\ data' = mem
  /\ mem' = [m \in Metric |-> 0]
  /\ age' = [m \in Metric |-> 0]
  /\ bufAge' = 0
  /\ UNCHANGED lost

\* The memory goes to the MergeTree table, in one step for its readers.
MoveToStorage ==
  /\ data' = [m \in Metric |-> Capped(data[m] + mem[m])]
  /\ mem' = [m \in Metric |-> 0]
  /\ age' = [m \in Metric |-> 0]
  /\ bufAge' = 0
  /\ UNCHANGED lost

\* One tick of the clock of the Buffer table; max_time is not overrun.
Tick ==
  /\ InMemory # {}
  /\ bufAge < MaxTime
  /\ bufAge' = bufAge + 1
  /\ age' = [m \in Metric |-> IF mem[m] > 0 THEN age[m] + 1 ELSE 0]
  /\ UNCHANGED <<mem, data, lost, up, influx, retried, faults>>
  /\ UNCHANGED agentVars

\* Mistake: the background thread waits for more than max_time.
FlushBufferLate ==
  /\ InMemory # {}
  /\ bufAge > MaxTime
  /\ MoveToStorage
  /\ UNCHANGED <<up, influx, retried, faults>>
  /\ UNCHANGED agentVars

FlushBuffer ==
  /\ InMemory # {}
  /\ bufAge = MaxTime
  /\ MoveToStorage
  /\ UNCHANGED <<up, influx, retried, faults>>
  /\ UNCHANGED agentVars

ServerStarts(o) ==
  /\ ~up[o]
  /\ up' = [up EXCEPT ![o] = TRUE]
  /\ UNCHANGED <<influx, retried, faults>>
  /\ UNCHANGED bufferVars
  /\ UNCHANGED agentVars

InfluxStops ==
  /\ up["influxdb"]
  /\ Fault
  /\ up' = [up EXCEPT !["influxdb"] = FALSE]
  /\ UNCHANGED <<influx, retried>>
  /\ UNCHANGED bufferVars
  /\ UNCHANGED agentVars

\* A normal stop writes the memory to the storage.
ClickHouseStops ==
  /\ up["clickhouse"]
  /\ Fault
  /\ up' = [up EXCEPT !["clickhouse"] = FALSE]
  /\ MoveToStorage
  /\ UNCHANGED <<influx, retried>>
  /\ UNCHANGED agentVars

\* A crash loses it.
ClickHouseCrashes ==
  /\ up["clickhouse"]
  /\ Fault
  /\ up' = [up EXCEPT !["clickhouse"] = FALSE]
  /\ lost' = lost \cup InMemory
  /\ mem' = [m \in Metric |-> 0]
  /\ age' = [m \in Metric |-> 0]
  /\ bufAge' = 0
  /\ UNCHANGED <<data, influx, retried>>
  /\ UNCHANGED agentVars
-----------------------------------------------------------------------------
Next ==
  \/ AgentStarts
  \/ AgentStops
  \/ Gather
  \/ \E o \in Output : StartWrite(o)
  \/ InfluxAccepts
  \/ InfluxRefuses
  \/ InfluxAnswerLost
  \/ InsertRow
  \/ InsertRefused
  \/ InsertAnswerLost
  \/ AcceptBatch
  \/ Tick
  \/ FlushBuffer
  \/ \E o \in Output : ServerStarts(o)
  \/ InfluxStops
  \/ ClickHouseStops
  \/ ClickHouseCrashes

Spec == Init /\ [][Next]_vars

\* The agent's flush timer, the answers of a server that is up, and
\* restart: unless-stopped.  The fairness of the ClickHouse side is in
\* MCAbandoned, where it may be lacking.
InfluxFairness ==
  /\ WF_vars(StartWrite("influxdb"))
  /\ WF_vars(InfluxAccepts)
  /\ WF_vars(InfluxRefuses)
  /\ WF_vars(ServerStarts("influxdb"))
-----------------------------------------------------------------------------
(* What the pipeline guarantees                                            *)

\* No metric vanishes without a cause.  For every output, a collected metric
\* is still in the agent's buffer, or stored, or was pushed out of a full
\* buffer, or died with the agent, or (ClickHouse) died in the memory of the
\* Buffer table: a partly written batch never leaves the buffer early.
Accounted ==
  /\ Collected \subseteq queue["influxdb"] \cup influx
                          \cup dropped["influxdb"] \cup forgotten["influxdb"]
  /\ Collected \subseteq queue["clickhouse"] \cup Readable \cup lost
                          \cup dropped["clickhouse"] \cup forgotten["clickhouse"]

\* An outage costs old data, never new: a metric is pushed out of a buffer
\* only when BufferLimit newer ones have been collected, so an output that
\* comes back within metric_buffer_limit metrics has missed nothing.
FreshestKept ==
  \A o \in Output : \A m \in dropped[o] : m + BufferLimit <= collected

\* ClickHouse holds a metric twice only when a batch containing it was
\* rejected after its row had been stored.
DuplicatesOnlyAfterReject ==
  \A m \in Metric : mem[m] + data[m] > 1 => m \in retried

\* A crash can only lose rows inserted in the last MaxTime ticks, however
\* steadily new rows keep arriving.
LossWindow == \A m \in InMemory : age[m] <= MaxTime

\* The ClickHouse side implements the abstract store: a readable row stays
\* readable until a crash, which takes exactly the rows not yet in the
\* MergeTree table.
Store == INSTANCE MetricStore
           WITH gathered <- Collected, readable <- Readable, durable <- Durable
ImplementsStore == Store!Spec

\* Whatever ClickHouse does (down, crashing, refusing rows, not even
\* answering), every collected metric reaches InfluxDB unless InfluxDB's own
\* buffer overflowed or the agent died.
InfluxIndependent ==
  \A m \in Metric :
    m <= collected ~> m \in influx \cup dropped["influxdb"]
                                  \cup forgotten["influxdb"]
=============================================================================
