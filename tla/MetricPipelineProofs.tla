------------------------ MODULE MetricPipelineProofs ------------------------
(***************************************************************************)
(* Theorems about MetricPipeline, for every value of its constants.        *)
(***************************************************************************)
EXTENDS MetricPipeline, FiniteSetTheorems, TLAPS

LEMMA OldestType == \A S, n : Oldest(S, n) \subseteq S
BY DEF Oldest

LEMMA EvictedType == \A q : Evicted(q) \subseteq q
BY OldestType DEF Evicted

LEMMA NextRowType == NextRow \subseteq batch["clickhouse"] \ sent
BY OldestType DEF NextRow

LEMMA CappedType == \A n \in Nat : Capped(n) \in 0..2
BY DEF Capped

BufferType ==
  /\ mem \in [Metric -> 0..2]
  /\ data \in [Metric -> 0..2]
  /\ age \in [Metric -> Nat]
  /\ bufAge \in 0..MaxTime
  /\ lost \in SUBSET Metric

LEMMA StoreRowType ==
  ASSUME BufferType, NEW m \in Metric, StoreRow(m)
  PROVE  BufferType'
<1>1. mem[m] + 1 \in Nat
  BY DEF BufferType
<1>2. Capped(mem[m] + 1) \in 0..2
  BY <1>1, CappedType
<1>3. bufAge' \in 0..MaxTime
  BY ConstantsAssumption DEF BufferType, StoreRow
<1>4. QED
  BY <1>2, <1>3 DEF BufferType, StoreRow

LEMMA MoveToStorageType ==
  ASSUME BufferType, MoveToStorage
  PROVE  BufferType'
<1>1. ASSUME NEW m \in Metric
      PROVE  Capped(data[m] + mem[m]) \in 0..2
  <2>1. data[m] + mem[m] \in Nat
    BY DEF BufferType
  <2>2. QED
    BY <2>1, CappedType
<1>2. data' \in [Metric -> 0..2]
  BY <1>1 DEF MoveToStorage
<1>3. QED
  BY <1>2, ConstantsAssumption DEF BufferType, MoveToStorage

(* Every reachable state has the types of TypeOK.                          *)
THEOREM TypeCorrect == Spec => []TypeOK
<1>1. Init => TypeOK
  BY ConstantsAssumption DEF Init, TypeOK, Metric, Output
<1>2. TypeOK /\ [Next]_vars => TypeOK'
  <2> SUFFICES ASSUME TypeOK, [Next]_vars
               PROVE  TypeOK'
    OBVIOUS
  <2> USE ConstantsAssumption DEF TypeOK, Output, agentVars, bufferVars
  <2>1. CASE AgentStarts
    BY <2>1 DEF AgentStarts
  <2>2. CASE AgentStops
    BY <2>2 DEF AgentStops, Fault
  <2>3. CASE Gather
    <3>1. collected + 1 \in Metric /\ collected' \in 0..Horizon
      BY <2>3 DEF Gather, Metric
    <3>2. \A o \in Output : Evicted(queue[o]) \in SUBSET Metric
      BY EvictedType
    <3>3. queue' \in [Output -> SUBSET Metric]
      BY <2>3, <3>1 DEF Gather
    <3>4. dropped' \in [Output -> SUBSET Metric]
      BY <2>3, <3>2 DEF Gather
    <3>5. QED
      BY <2>3, <3>1, <3>3, <3>4 DEF Gather
  <2>4. ASSUME NEW o \in Output, StartWrite(o)
        PROVE  TypeOK'
    BY <2>4, OldestType DEF StartWrite
  <2>5. CASE InfluxAccepts
    BY <2>5 DEF InfluxAccepts
  <2>6. CASE InfluxRefuses
    BY <2>6 DEF InfluxRefuses
  <2>7. CASE InfluxAnswerLost
    BY <2>7 DEF InfluxAnswerLost, Fault
  <2>8. CASE InsertRow
    <3> PICK m \in NextRow \ Mismatched : StoreRow(m) /\ sent' = sent \cup {m}
      BY <2>8 DEF InsertRow
    <3>1. m \in Metric
      BY NextRowType
    <3>2. BufferType'
      BY <3>1, StoreRowType DEF BufferType
    <3>3. QED
      BY <2>8, <3>1, <3>2 DEF InsertRow, BufferType
  <2>9. CASE InsertRefused
    BY <2>9 DEF InsertRefused, RejectBatch
  <2>10. CASE InsertAnswerLost
    <3> PICK m \in NextRow \ Mismatched :
               /\ StoreRow(m)
               /\ retried' = retried \cup sent \cup {m}
      BY <2>10 DEF InsertAnswerLost
    <3>1. m \in Metric
      BY NextRowType
    <3>2. BufferType'
      BY <3>1, StoreRowType DEF BufferType
    <3>3. QED
      BY <2>10, <3>1, <3>2 DEF InsertAnswerLost, RejectBatch, Fault, BufferType
  <2>11. CASE AcceptBatch
    BY <2>11 DEF AcceptBatch
  <2>12. CASE Tick
    BY <2>12 DEF Tick, InMemory
  <2>13. CASE FlushBuffer
    BY <2>13, MoveToStorageType DEF FlushBuffer, BufferType
  <2>14. ASSUME NEW o \in Output, ServerStarts(o)
         PROVE  TypeOK'
    BY <2>14 DEF ServerStarts
  <2>15. CASE InfluxStops
    BY <2>15 DEF InfluxStops, Fault
  <2>16. CASE ClickHouseStops
    BY <2>16, MoveToStorageType DEF ClickHouseStops, Fault, BufferType
  <2>17. CASE ClickHouseCrashes
    BY <2>17 DEF ClickHouseCrashes, Fault, InMemory
  <2>18. CASE UNCHANGED vars
    BY <2>18 DEF vars
  <2>19. QED
    BY <2>1, <2>2, <2>3, <2>4, <2>5, <2>6, <2>7, <2>8, <2>9, <2>10, <2>11,
       <2>12, <2>13, <2>14, <2>15, <2>16, <2>17, <2>18 DEF Next
<1>3. QED
  BY <1>1, <1>2, PTL DEF Spec
-----------------------------------------------------------------------------
(***************************************************************************)
(* The inductive invariant.  Accounted needs that a row counted as sent is *)
(* stored (or was, before a crash); DuplicatesOnlyAfterReject needs that a *)
(* stored metric that may be inserted again is known to be sent or         *)
(* retried, which for a new metric holds because nothing is stored before  *)
(* it is collected; LossWindow needs that no row is older than the buffer. *)
(***************************************************************************)
Ordered ==
  /\ \A o \in Output : queue[o] \cup batch[o] \cup dropped[o] \subseteq Collected
  /\ Readable \subseteq Collected

SentStored ==
  /\ sent \subseteq batch["clickhouse"]
  /\ sent \subseteq Readable \cup lost

RowsYoungerThanBuffer == \A m \in InMemory : age[m] <= bufAge

ResendKnown ==
  (queue["clickhouse"] \cup batch["clickhouse"]) \cap Readable
    \subseteq sent \cup retried

IInv ==
  /\ TypeOK
  /\ Ordered
  /\ SentStored
  /\ Accounted
  /\ RowsYoungerThanBuffer
  /\ ResendKnown
  /\ DuplicatesOnlyAfterReject

\* What the three ways to change the Buffer table do to its readers.
LEMMA StoreRowEffect ==
  ASSUME BufferType, NEW m \in Metric, StoreRow(m)
  PROVE  /\ InMemory' = InMemory \cup {m}
         /\ Durable' = Durable
         /\ Readable' = Readable \cup {m}
         /\ lost' = lost
         /\ data' = data
         /\ \A x \in Metric \ {m} : mem'[x] = mem[x] /\ age'[x] = age[x]
         /\ age'[m] = 0
         /\ bufAge' = IF InMemory = {} THEN 0 ELSE bufAge
<1>1. mem'[m] > 0
  BY DEF BufferType, StoreRow, Capped
<1>2. \A x \in Metric \ {m} : mem'[x] = mem[x] /\ age'[x] = age[x]
  BY DEF BufferType, StoreRow
<1>3. InMemory' = InMemory \cup {m}
  BY <1>1, <1>2 DEF InMemory
<1>4. Durable' = Durable
  BY DEF Durable, StoreRow
<1>5. QED
  BY <1>2, <1>3, <1>4 DEF Readable, StoreRow, BufferType

LEMMA MoveToStorageEffect ==
  ASSUME BufferType, MoveToStorage
  PROVE  /\ InMemory' = {}
         /\ Durable' = Readable
         /\ Readable' = Readable
         /\ lost' = lost
         /\ \A m \in Metric : mem'[m] + data'[m] > 1 => mem[m] + data[m] > 1
<1>1. InMemory' = {}
  BY DEF InMemory, MoveToStorage
<1>2. \A m \in Metric : data'[m] = Capped(data[m] + mem[m])
  BY DEF MoveToStorage
<1>3. \A m \in Metric : data'[m] > 0 <=> data[m] > 0 \/ mem[m] > 0
  BY <1>2 DEF BufferType, Capped
<1>4. Durable' = Readable
  BY <1>3 DEF Durable, Readable, InMemory
<1>5. \A m \in Metric : mem'[m] + data'[m] > 1 => mem[m] + data[m] > 1
  BY <1>2 DEF BufferType, MoveToStorage, Capped
<1>6. QED
  BY <1>1, <1>4, <1>5 DEF Readable, MoveToStorage

LEMMA UnchangedBuffer ==
  ASSUME UNCHANGED bufferVars
  PROVE  /\ InMemory' = InMemory
         /\ Durable' = Durable
         /\ Readable' = Readable
         /\ mem' = mem /\ data' = data /\ age' = age /\ bufAge' = bufAge
         /\ lost' = lost
BY DEF bufferVars, InMemory, Durable, Readable

LEMMA InitInvariant == Init => IInv
<1> SUFFICES ASSUME Init PROVE IInv
  OBVIOUS
<1>1. TypeOK
  BY ConstantsAssumption DEF Init, TypeOK, Metric, Output
<1>2. Collected = {} /\ Readable = {} /\ InMemory = {}
  BY DEF Init, Collected, Readable, InMemory, Durable
<1>3. Ordered /\ SentStored /\ Accounted /\ RowsYoungerThanBuffer /\ ResendKnown
  BY <1>2 DEF Init, Ordered, SentStored, Accounted, RowsYoungerThanBuffer,
              ResendKnown, Output
<1>4. DuplicatesOnlyAfterReject
  BY DEF Init, DuplicatesOnlyAfterReject
<1>5. QED
  BY <1>1, <1>3, <1>4 DEF IInv

LEMMA StepInvariant == IInv /\ TypeOK' /\ [Next]_vars => IInv'
<1> SUFFICES ASSUME IInv, TypeOK', [Next]_vars
             PROVE  IInv'
  OBVIOUS
<1> USE DEF IInv
<1>t. BufferType
  BY DEF TypeOK, BufferType
\* Actions that touch neither the Buffer table nor the buffers of the agent.
<1>0. ASSUME UNCHANGED <<collected, queue, batch, sent, dropped, forgotten,
                         influx, retried>>,
             UNCHANGED bufferVars
      PROVE  IInv'
  BY <1>0, UnchangedBuffer
     DEF Ordered, SentStored, Accounted, RowsYoungerThanBuffer, ResendKnown,
         DuplicatesOnlyAfterReject, Collected
<1>1. CASE AgentStarts
  BY <1>0, <1>1 DEF AgentStarts
<1>2. CASE AgentStops
  <2>1. /\ \A o \in Output : queue'[o] = {} /\ batch'[o] = {}
        /\ sent' = {} /\ UNCHANGED <<collected, dropped>>
    BY <1>2 DEF AgentStops
  <2>2. Ordered' /\ SentStored' /\ ResendKnown'
    BY <1>2, <2>1, UnchangedBuffer DEF AgentStops, Ordered, SentStored,
                                       ResendKnown, Collected, Output
  <2>3. Accounted'
    BY <1>2, UnchangedBuffer DEF AgentStops, Accounted, Collected, Output
  <2>4. RowsYoungerThanBuffer' /\ DuplicatesOnlyAfterReject'
    BY <1>2, UnchangedBuffer
       DEF AgentStops, RowsYoungerThanBuffer, DuplicatesOnlyAfterReject
  <2>5. QED
    BY <2>2, <2>3, <2>4
<1>3. CASE Gather
  <2>1. Collected' = Collected \cup {collected + 1}
    BY <1>3 DEF Gather, Collected, TypeOK
  <2>2. collected + 1 \notin Collected
    BY DEF Collected, TypeOK
  <2>3. Ordered'
    BY <1>3, <2>1, UnchangedBuffer, EvictedType DEF Gather, Ordered, TypeOK
  <2>4. Accounted'
    BY <1>3, <2>1, UnchangedBuffer, EvictedType
       DEF Gather, Accounted, Output, TypeOK
  <2>5. ResendKnown'
    BY <1>3, <2>2, UnchangedBuffer, EvictedType
       DEF Gather, ResendKnown, Ordered, Output, TypeOK
  <2>6. SentStored' /\ RowsYoungerThanBuffer' /\ DuplicatesOnlyAfterReject'
    BY <1>3, UnchangedBuffer
       DEF Gather, SentStored, RowsYoungerThanBuffer, DuplicatesOnlyAfterReject
  <2>7. QED
    BY <2>3, <2>4, <2>5, <2>6
<1>4. ASSUME NEW o \in Output, StartWrite(o)
      PROVE  IInv'
  <2>1. Oldest(queue[o], BatchSize) \subseteq queue[o]
    BY OldestType
  <2>2. batch["clickhouse"] \subseteq batch'["clickhouse"]
    BY <1>4 DEF StartWrite, TypeOK, Output
  <2>3. Ordered'
    BY <1>4, <2>1, UnchangedBuffer DEF StartWrite, Ordered, TypeOK, Collected
  <2>4. SentStored'
    BY <1>4, <2>2, UnchangedBuffer DEF StartWrite, SentStored
  <2>5. ResendKnown'
    BY <1>4, <2>1, UnchangedBuffer DEF StartWrite, ResendKnown, TypeOK, Output
  <2>6. Accounted' /\ RowsYoungerThanBuffer' /\ DuplicatesOnlyAfterReject'
    BY <1>4, UnchangedBuffer
       DEF StartWrite, Accounted, RowsYoungerThanBuffer,
           DuplicatesOnlyAfterReject, Collected
  <2>7. QED
    BY <2>3, <2>4, <2>5, <2>6
<1>5. CASE InfluxAccepts
  <2>1. Ordered'
    BY <1>5, UnchangedBuffer DEF InfluxAccepts, Ordered, TypeOK, Collected
  <2>2. Accounted'
    BY <1>5, UnchangedBuffer
       DEF InfluxAccepts, Accounted, TypeOK, Collected, Output
  <2>3. SentStored' /\ ResendKnown'
    BY <1>5, UnchangedBuffer
       DEF InfluxAccepts, SentStored, ResendKnown, TypeOK, Output
  <2>4. RowsYoungerThanBuffer' /\ DuplicatesOnlyAfterReject'
    BY <1>5, UnchangedBuffer
       DEF InfluxAccepts, RowsYoungerThanBuffer, DuplicatesOnlyAfterReject
  <2>5. QED
    BY <2>1, <2>2, <2>3, <2>4
<1>6. CASE InfluxRefuses \/ InfluxAnswerLost
  <2>1. /\ batch' = [batch EXCEPT !["influxdb"] = {}]
        /\ influx \subseteq influx'
        /\ UNCHANGED <<collected, queue, sent, dropped, forgotten, retried>>
        /\ UNCHANGED bufferVars
    BY <1>6 DEF InfluxRefuses, InfluxAnswerLost
  <2>2. Ordered'
    BY <2>1, UnchangedBuffer DEF Ordered, TypeOK, Collected
  <2>3. Accounted'
    BY <2>1, UnchangedBuffer DEF Accounted, TypeOK, Collected, Output
  <2>4. SentStored' /\ ResendKnown'
    BY <2>1, UnchangedBuffer DEF SentStored, ResendKnown, TypeOK, Output
  <2>5. RowsYoungerThanBuffer' /\ DuplicatesOnlyAfterReject'
    BY <2>1, UnchangedBuffer
       DEF RowsYoungerThanBuffer, DuplicatesOnlyAfterReject
  <2>6. QED
    BY <2>2, <2>3, <2>4, <2>5
<1>7. ASSUME NEW m \in NextRow \ Mismatched, StoreRow(m),
             sent' = sent \cup {m} \/ (sent' = {} /\ retried' = retried \cup sent \cup {m}),
             retried \subseteq retried',
             batch' = batch \/ (batch' = [batch EXCEPT !["clickhouse"] = {}] /\ sent' = {}),
             UNCHANGED <<collected, queue, dropped, forgotten, influx>>
      PROVE  IInv'
  <2>1. m \in Metric /\ m \in batch["clickhouse"] /\ m \notin sent
    BY <1>7, NextRowType DEF TypeOK, Output
  <2>2. Ordered'
    <3>1. m \in Collected
      BY <2>1 DEF Ordered, Output
    <3>2. \A o \in Output : batch'[o] \subseteq batch[o]
      BY <1>7 DEF TypeOK
    <3>3. QED
      BY <1>7, <2>1, <3>1, <3>2, <1>t, StoreRowEffect DEF Ordered, Collected
  <2>3. SentStored'
    BY <1>7, <2>1, <1>t, StoreRowEffect DEF SentStored
  <2>4. Accounted'
    BY <1>7, <2>1, <1>t, StoreRowEffect DEF Accounted, Collected
  <2>5. RowsYoungerThanBuffer'
    BY <1>7, <2>1, <1>t, StoreRowEffect DEF RowsYoungerThanBuffer, TypeOK, InMemory
  <2>6. ResendKnown'
    BY <1>7, <2>1, <1>t, StoreRowEffect DEF ResendKnown, TypeOK, Output
  <2>7. DuplicatesOnlyAfterReject'
    <3>1. mem'[m] + data'[m] > 1 => m \in Readable
      BY <1>7, <2>1, <1>t, StoreRowEffect
         DEF Readable, InMemory, Durable, StoreRow, Capped, BufferType
    <3>2. m \in Readable => m \in retried
      BY <2>1 DEF ResendKnown
    <3>3. QED
      BY <1>7, <2>1, <3>1, <3>2, <1>t, StoreRowEffect
         DEF DuplicatesOnlyAfterReject
  <2>8. QED
    BY <2>2, <2>3, <2>4, <2>5, <2>6, <2>7
<1>8. CASE InsertRow
  BY <1>7, <1>8 DEF InsertRow
<1>9. CASE InsertAnswerLost
  BY <1>7, <1>9 DEF InsertAnswerLost, RejectBatch
<1>10. CASE InsertRefused
  <2>1. Ordered'
    BY <1>10, UnchangedBuffer
       DEF InsertRefused, RejectBatch, Ordered, TypeOK, Collected
  <2>2. SentStored' /\ ResendKnown'
    BY <1>10, UnchangedBuffer
       DEF InsertRefused, RejectBatch, SentStored, ResendKnown, TypeOK, Output
  <2>3. Accounted' /\ RowsYoungerThanBuffer' /\ DuplicatesOnlyAfterReject'
    BY <1>10, UnchangedBuffer
       DEF InsertRefused, RejectBatch, Accounted, RowsYoungerThanBuffer,
           DuplicatesOnlyAfterReject, Collected
  <2>4. QED
    BY <2>1, <2>2, <2>3
<1>11. CASE AcceptBatch
  <2>1. Ordered'
    BY <1>11, UnchangedBuffer DEF AcceptBatch, Ordered, TypeOK, Collected
  <2>2. SentStored' /\ ResendKnown'
    BY <1>11, UnchangedBuffer
       DEF AcceptBatch, SentStored, ResendKnown, TypeOK, Output
  <2>3. Accounted'
    BY <1>11, UnchangedBuffer
       DEF AcceptBatch, Accounted, SentStored, Collected, TypeOK, Output
  <2>4. RowsYoungerThanBuffer' /\ DuplicatesOnlyAfterReject'
    BY <1>11, UnchangedBuffer
       DEF AcceptBatch, RowsYoungerThanBuffer, DuplicatesOnlyAfterReject
  <2>5. QED
    BY <2>1, <2>2, <2>3, <2>4
<1>12. CASE Tick
  <2>1. InMemory' = InMemory /\ Readable' = Readable
    BY <1>12 DEF Tick, InMemory, Readable, Durable
  <2>2. RowsYoungerThanBuffer'
    BY <1>12, <2>1 DEF Tick, RowsYoungerThanBuffer, InMemory, TypeOK
  <2>3. QED
    BY <1>12, <2>1, <2>2
       DEF Tick, agentVars, Ordered, SentStored, Accounted, ResendKnown,
           DuplicatesOnlyAfterReject, Collected
<1>13. ASSUME MoveToStorage, UNCHANGED <<influx, retried>>, UNCHANGED agentVars
       PROVE  IInv'
  <2>1. Ordered' /\ SentStored' /\ Accounted' /\ ResendKnown'
    BY <1>13, <1>t, MoveToStorageEffect
       DEF agentVars, Ordered, SentStored, Accounted, ResendKnown, Collected
  <2>2. RowsYoungerThanBuffer'
    BY <1>13, <1>t, MoveToStorageEffect DEF RowsYoungerThanBuffer
  <2>3. DuplicatesOnlyAfterReject'
    BY <1>13, <1>t, MoveToStorageEffect DEF DuplicatesOnlyAfterReject
  <2>4. QED
    BY <2>1, <2>2, <2>3
<1>14. CASE FlushBuffer
  BY <1>13, <1>14 DEF FlushBuffer
<1>15. CASE ClickHouseStops
  BY <1>13, <1>15 DEF ClickHouseStops
<1>16. CASE ClickHouseCrashes
  <2>1. InMemory' = {} /\ Readable' = Durable
    BY <1>16 DEF ClickHouseCrashes, InMemory, Readable, Durable
  <2>2. Readable \subseteq Readable' \cup lost' /\ lost \subseteq lost'
        /\ Readable' \subseteq Readable
    BY <1>16, <2>1 DEF ClickHouseCrashes, Readable
  <2>3. Ordered' /\ SentStored' /\ Accounted' /\ ResendKnown'
    BY <1>16, <2>2 DEF ClickHouseCrashes, agentVars, Ordered, SentStored,
                       Accounted, ResendKnown, Collected
  <2>4. RowsYoungerThanBuffer'
    BY <2>1 DEF RowsYoungerThanBuffer
  <2>5. DuplicatesOnlyAfterReject'
    BY <1>16 DEF ClickHouseCrashes, DuplicatesOnlyAfterReject, TypeOK
  <2>6. QED
    BY <2>3, <2>4, <2>5
<1>17. CASE (\E o \in Output : ServerStarts(o)) \/ InfluxStops
  BY <1>0, <1>17 DEF ServerStarts, InfluxStops, agentVars
<1>18. CASE UNCHANGED vars
  BY <1>0, <1>18 DEF vars, bufferVars
<1>19. QED
  BY <1>1, <1>2, <1>3, <1>4, <1>5, <1>6, <1>8, <1>9, <1>10, <1>11, <1>12,
     <1>14, <1>15, <1>16, <1>17, <1>18 DEF Next

(* The inductive invariant holds in every reachable state.                 *)
THEOREM Invariant == Spec => []IInv
  BY InitInvariant, StepInvariant, TypeCorrect, PTL DEF Spec

\* Every collected metric is accounted for, with any number of faults and any
\* size of the buffers.
THEOREM AccountedAlways == Spec => []Accounted
  BY Invariant, PTL DEF IInv

(* ClickHouse holds a metric twice only after a rejected batch.            *)
THEOREM DuplicatesAlways == Spec => []DuplicatesOnlyAfterReject
  BY Invariant, PTL DEF IInv

(* A crash takes only rows inserted within the last max_time.              *)
THEOREM LossWindowAlways == Spec => []LossWindow
<1>1. IInv => LossWindow
  BY ConstantsAssumption
     DEF IInv, RowsYoungerThanBuffer, LossWindow, TypeOK, InMemory
<1>2. QED
  BY <1>1, Invariant, PTL
-----------------------------------------------------------------------------
(* What is pushed out of a full buffer                                     *)

LEMMA EvictedIsOldest ==
  ASSUME NEW q, q \subseteq Collected, collected \in Nat, NEW m \in Evicted(q)
  PROVE  m + BufferLimit <= collected + 1
<1>1. IsFiniteSet(q) /\ m \in q /\ Cardinality(q) >= BufferLimit
  <2>1. IsFiniteSet(Collected)
    BY FS_Interval DEF Collected
  <2>2. IsFiniteSet(q) /\ Cardinality(q) \in Nat
    BY <2>1, FS_Subset, FS_CardinalityType
  <2>3. ~(Cardinality(q) < BufferLimit)
    BY DEF Evicted
  <2>4. QED
    BY <2>2, <2>3, EvictedType, ConstantsAssumption
<1>2. {x \in q : x < m} = {}
  <2> DEFINE Smaller == {x \in q : x < m}
  <2>1. Cardinality(Smaller) < 1
    BY <1>1 DEF Evicted, Oldest
  <2>2. IsFiniteSet(Smaller)
    BY <1>1, FS_Subset
  <2>3. Cardinality(Smaller) = 0
    BY <2>1, <2>2, FS_CardinalityType
  <2>4. QED
    BY <2>2, <2>3, FS_EmptySet
<1>3. m \in Nat /\ m <= collected
  BY <1>1 DEF Collected
<1>4. q \subseteq m..collected
  BY <1>2, <1>3 DEF Collected
<1>5. Cardinality(q) <= collected - m + 1
  <2>1. /\ IsFiniteSet(m..collected)
        /\ Cardinality(m..collected) = collected - m + 1
    BY <1>3, FS_Interval
  <2>2. QED
    BY <1>4, <2>1, FS_Subset
<1>6. Cardinality(q) \in Nat
  BY <1>1, FS_CardinalityType
<1>7. QED
  BY <1>1, <1>3, <1>5, <1>6, ConstantsAssumption

(* An output that misses fewer than BufferLimit metrics loses none.        *)
THEOREM FreshestKeptAlways == Spec => []FreshestKept
<1>1. Init => FreshestKept
  BY DEF Init, FreshestKept
<1>2. IInv /\ FreshestKept /\ [Next]_vars => FreshestKept'
  <2> SUFFICES ASSUME IInv, FreshestKept, [Next]_vars
               PROVE  FreshestKept'
    OBVIOUS
  <2>1. CASE Gather
    <3> SUFFICES ASSUME NEW o \in Output, NEW m \in dropped'[o]
                 PROVE  m + BufferLimit <= collected'
      BY DEF FreshestKept
    <3>1. collected \in Nat /\ collected' = collected + 1
      BY <2>1 DEF Gather, IInv, TypeOK
    <3>2. m \in dropped[o] \/ m \in Evicted(queue[o])
      BY <2>1 DEF Gather
    <3>3. CASE m \in dropped[o]
      <4>1. m \in Nat /\ m + BufferLimit <= collected
        BY <3>3 DEF FreshestKept, IInv, TypeOK, Metric
      <4>2. QED
        BY <3>1, <4>1, ConstantsAssumption
    <3>4. CASE m \in Evicted(queue[o])
      <4>1. queue[o] \subseteq Collected
        BY DEF IInv, Ordered
      <4>2. QED
        BY <3>1, <3>4, <4>1, EvictedIsOldest
    <3>5. QED
      BY <3>2, <3>3, <3>4
  <2>2. CASE ~Gather
    <3>1. UNCHANGED <<collected, dropped>>
      BY <2>2 DEF Next, vars, agentVars, AgentStarts, AgentStops, StartWrite,
             InfluxAccepts, InfluxRefuses, InfluxAnswerLost, InsertRow,
             InsertRefused, InsertAnswerLost, RejectBatch, AcceptBatch, Tick,
             FlushBuffer, ServerStarts, InfluxStops, ClickHouseStops,
             ClickHouseCrashes
    <3>2. QED
      BY <3>1 DEF FreshestKept
  <2>3. QED
    BY <2>1, <2>2
<1>3. QED
  BY <1>1, <1>2, Invariant, PTL DEF Spec
-----------------------------------------------------------------------------
(* The pipeline implements the abstract store.                             *)

LEMMA StoreInit == Init => Store!Init
BY DEF Init, Store!Init, Collected, Readable, InMemory, Durable

LEMMA StoreStep == IInv /\ TypeOK' /\ [Next]_vars => [Store!Next]_(Store!vars)
<1> SUFFICES ASSUME IInv, TypeOK', [Next]_vars
             PROVE  [Store!Next]_(Store!vars)
  OBVIOUS
<1> USE DEF Store!vars
<1>t. BufferType
  BY DEF IInv, TypeOK, BufferType
<1>1. CASE Gather
  <2>1. collected + 1 \in Metric \ Collected
    BY <1>1 DEF Gather, Metric, Collected, IInv, TypeOK
  <2>2. Collected' = Collected \cup {collected + 1}
    BY <1>1 DEF Gather, Collected, IInv, TypeOK
  <2>3. Store!Gather(collected + 1)
    BY <1>1, <2>1, <2>2, UnchangedBuffer DEF Gather, Store!Gather
  <2>4. QED
    BY <2>1, <2>3 DEF Store!Next
<1>2. ASSUME NEW m \in NextRow \ Mismatched, StoreRow(m), UNCHANGED collected
      PROVE  Store!Next
  <2>1. m \in Metric /\ m \in Collected
    BY NextRowType DEF IInv, TypeOK, Ordered, Output
  <2>2. Store!Publish(m)
    BY <1>2, <1>t, <2>1, StoreRowEffect DEF Store!Publish, Collected
  <2>3. QED
    BY <2>1, <2>2 DEF Store!Next
<1>3. CASE InsertRow
  BY <1>2, <1>3 DEF InsertRow
<1>4. CASE InsertAnswerLost
  BY <1>2, <1>4 DEF InsertAnswerLost, RejectBatch
<1>5. ASSUME MoveToStorage, UNCHANGED collected
      PROVE  Store!Next
  BY <1>5, <1>t, MoveToStorageEffect DEF Store!Next, Store!Harden, Collected
<1>6. CASE FlushBuffer
  BY <1>5, <1>6 DEF FlushBuffer, agentVars
<1>7. CASE ClickHouseStops
  BY <1>5, <1>7 DEF ClickHouseStops, agentVars
<1>8. CASE ClickHouseCrashes
  <2>1. Readable' = Durable /\ Durable' = Durable /\ Collected' = Collected
    BY <1>8 DEF ClickHouseCrashes, agentVars, InMemory, Readable, Durable,
                Collected
  <2>2. QED
    BY <2>1 DEF Store!Next, Store!Crash
<1>9. ASSUME UNCHANGED collected, UNCHANGED <<mem, data>>
      PROVE  UNCHANGED Store!vars
  BY <1>9 DEF Collected, Readable, InMemory, Durable
<1>10. CASE \/ AgentStarts \/ AgentStops \/ \E o \in Output : StartWrite(o)
            \/ InfluxAccepts \/ InfluxRefuses \/ InfluxAnswerLost
            \/ InsertRefused \/ AcceptBatch \/ Tick
            \/ \E o \in Output : ServerStarts(o)
            \/ InfluxStops \/ UNCHANGED vars
  BY <1>9, <1>10
     DEF vars, agentVars, bufferVars, AgentStarts, AgentStops, StartWrite,
         InfluxAccepts, InfluxRefuses, InfluxAnswerLost, InsertRefused,
         RejectBatch, AcceptBatch, Tick, ServerStarts, InfluxStops
<1>11. QED
  BY <1>1, <1>3, <1>4, <1>6, <1>7, <1>8, <1>10 DEF Next

(* A readable row stays readable until a crash, a durable one for ever.    *)
THEOREM Refinement == Spec => ImplementsStore
<1>1. Init => Store!Init
  BY StoreInit
<1>2. IInv /\ TypeOK' /\ [Next]_vars => [Store!Next]_(Store!vars)
  BY StoreStep
<1>3. QED
  BY <1>1, <1>2, Invariant, TypeCorrect, PTL
     DEF Spec, ImplementsStore, Store!Spec
=============================================================================
