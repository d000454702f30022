------------------------------ MODULE MCDataAge ------------------------------
(***************************************************************************)
(* MetricPipeline with the age of the data: "old" counts the ticks since a *)
(* metric was collected.  The agent is prompt: while it runs and           *)
(* ClickHouse answers, time does not pass over a metric that has waited    *)
(* FlushInterval ticks for its write.                                      *)
(***************************************************************************)
EXTENDS MetricPipeline

CONSTANT FlushInterval \* flush_interval of the agent, in ticks

VARIABLE old

NoMismatch == {}

\* Older than anything the properties tell apart.
Ancient == MaxTime + FlushInterval + 1

Aged == [m \in Metric |-> IF m <= collected /\ old[m] < Ancient
                            THEN old[m] + 1 ELSE old[m]]

NoWriteDue ==
  \/ agent = "down"
  \/ ~up["clickhouse"]
  \/ \A m \in queue["clickhouse"] : old[m] < FlushInterval

AgeInit == Init /\ old = [m \in Metric |-> 0]

AgeNext ==
  \/ NoWriteDue /\ Tick /\ old' = Aged
  \/ NoWriteDue /\ InMemory = {} /\ old' = Aged /\ UNCHANGED vars
  \/ Next /\ bufAge' <= bufAge /\ UNCHANGED old

AgeSpec == AgeInit /\ [][AgeNext]_<<vars, old>>

\* "Rows still in the buffer are ... lost on a crash / kill -9 (<= 60 s of
\* data)": what a crash can take was collected at most one flush interval
\* plus one max_time ago.
CrashLosesRecentData ==
  \A m \in InMemory : old[m] <= MaxTime + FlushInterval
=============================================================================
