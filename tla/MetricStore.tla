---------------------------- MODULE MetricStore ----------------------------
(***************************************************************************)
(* What the ClickHouse side of the monitoring stack promises the boards,   *)
(* without Telegraf, batches, retries or buffers: a gathered metric may    *)
(* become readable, a readable row may become durable, a durable row is    *)
(* never lost, and a crash of the server takes back exactly the rows that  *)
(* were readable and not yet durable.                                      *)
(***************************************************************************)
CONSTANT Metric     \* everything Telegraf may ever gather

VARIABLES gathered, \* metrics collected so far
          readable, \* metrics a SELECT on the table returns
          durable   \* metrics that survive a crash of the server

vars == <<gathered, readable, durable>>

\* Only what was gathered is readable, only what is readable is durable.
TypeOK ==
  /\ gathered \subseteq Metric
  /\ readable \subseteq gathered
  /\ durable \subseteq readable

Init ==
  /\ gathered = {}
  /\ readable = {}
  /\ durable = {}

Gather(m) ==
  /\ m \notin gathered
  /\ gathered' = gathered \cup {m}
  /\ UNCHANGED <<readable, durable>>

Publish(m) ==
  /\ m \in gathered
  /\ readable' = readable \cup {m}
  /\ UNCHANGED <<gathered, durable>>

Harden ==
  /\ durable' = readable
  /\ UNCHANGED <<gathered, readable>>

Crash ==
  /\ readable' = durable
  /\ UNCHANGED <<gathered, durable>>

Next ==
  \/ \E m \in Metric : Gather(m) \/ Publish(m)
  \/ Harden
  \/ Crash

Spec == Init /\ [][Next]_vars
=============================================================================
