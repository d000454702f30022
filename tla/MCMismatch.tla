----------------------------- MODULE MCMismatch -----------------------------
(***************************************************************************)
(* MetricPipeline with a prompt agent and servers that never fail: at most *)
(* PerFlush metrics are collected between two flushes of the ClickHouse    *)
(* output, and a flush goes on until the buffer is empty or a batch is     *)
(* refused, so the buffer never overflows because the writer is slow.      *)
(***************************************************************************)
EXTENDS MetricPipeline

CONSTANT PerFlush

VARIABLE fresh \* metrics collected since the latest flush ended

FirstMismatched == {1}

PromptInit == Init /\ fresh = 0

PromptNext ==
  \/ /\ Gather
     /\ fresh < PerFlush
     /\ batch["clickhouse"] = {}
     /\ fresh' = fresh + 1
  \/ InsertRefused /\ fresh' = 0
  \/ AcceptBatch /\ fresh' = IF queue'["clickhouse"] = {} THEN 0 ELSE fresh
  \/ /\ AgentStarts \/ InsertRow \/ Tick \/ FlushBuffer \/ InfluxAccepts
       \/ \E o \in Output : StartWrite(o)
     /\ UNCHANGED fresh

PromptSpec == PromptInit /\ [][PromptNext]_<<vars, fresh>>

\* "An unknown column fails the whole insert of that table": a metric whose
\* own table has all its columns is not pushed out of the ClickHouse buffer
\* before it was stored.
OtherTablesUnaffected ==
  dropped["clickhouse"] \subseteq Mismatched \cup Readable
=============================================================================
