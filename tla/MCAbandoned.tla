----------------------------- MODULE MCAbandoned -----------------------------
(***************************************************************************)
(* MetricPipeline under both of its fairness assumptions: "abandoned" says *)
(* whether ClickHouse, its path in the agent and the restart of the agent  *)
(* may stop for good.  It is chosen at the start and never changes.        *)
(***************************************************************************)
EXTENDS MetricPipeline

VARIABLE abandoned

LastMismatched == {Horizon}

\* The flush timer of the agent, the answers of ClickHouse, the background
\* thread of the Buffer table and restart: unless-stopped.  The agent needs
\* ClickHouse to start.
ClickHouseFairness ==
  /\ WF_vars(~abandoned /\ StartWrite("clickhouse"))
  /\ WF_vars(~abandoned /\ InsertRow)
  /\ WF_vars(~abandoned /\ InsertRefused)
  /\ WF_vars(~abandoned /\ AcceptBatch)
  /\ WF_vars(~abandoned /\ Tick)
  /\ WF_vars(~abandoned /\ FlushBuffer)
  /\ WF_vars(~abandoned /\ ServerStarts("clickhouse"))
  /\ WF_vars(~abandoned /\ AgentStarts)

AbandonedSpec ==
  /\ Init /\ abandoned \in BOOLEAN
  /\ [][Next /\ UNCHANGED abandoned]_<<vars, abandoned>>
  /\ InfluxFairness
  /\ ClickHouseFairness

\* After the faults every collected metric reaches the MergeTree table unless
\* it was pushed out, died with the agent or was lost in a crash: ClickHouse
\* catches up after an outage.  A metric it refuses holds back the later
\* ones, never the earlier ones of the same batch.
CatchesUp ==
  \A m \in Metric :
    (\A r \in Mismatched : m < r) =>
      (~abandoned /\ m <= collected ~>
         \/ m \in Durable \cup lost
         \/ m \in dropped["clickhouse"] \cup forgotten["clickhouse"])
=============================================================================
