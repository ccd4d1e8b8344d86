------------------------ MODULE StreamPipelineProofs ------------------------
(***************************************************************************)
(* Proofs about StreamPipeline for every set of messages and every value   *)
(* of the bounds. The invariant is built in layers: types, what the worker *)
(* holds, the delivery order, the history sets, the ingested payloads, the *)
(* notifications and the rows; each layer is inductive given the previous  *)
(* ones.                                                                   *)
(***************************************************************************)
EXTENDS StreamPipeline, TLAPS

\* Steps of process_stream_message: an entry is being processed.
Busy == {"store", "alert", "markAlert", "instant", "markInterest", "ack"}

\* The worker has a current entry exactly while it processes one.
Cursor == cur # 0 <=> pc \in Busy

-----------------------------------------------------------------------------
(* Types *)

LEMMA InitType == Init => TypeOK
  BY PipelineAssumption
     DEF Init, TypeOK, EntryId, Source, NoGroup, Step, Verdict, RowType

\* XADD keeps the Redis types, and only adds the next id.
LEMMA XAddType ==
  ASSUME TypeOK, NEW p \in Message \X Source, XAdd(p)
  PROVE  /\ last' = last + 1 /\ last' \in EntryId
         /\ entry' = [entry EXCEPT ![last + 1] = p]
         /\ entry' \in [EntryId -> (Message \X Source) \cup {NoEntry}]
         /\ stream' \subseteq stream \cup {last + 1}
         /\ UNCHANGED <<group, pel>>
<1>1. last' = last + 1 /\ last' \in EntryId
  BY PipelineAssumption DEF XAdd, TypeOK, EntryId
<1>2. entry' = [entry EXCEPT ![last + 1] = p]
  BY DEF XAdd
<1>3. entry' \in [EntryId -> (Message \X Source) \cup {NoEntry}]
  BY <1>1, <1>2 DEF TypeOK
<1>4. stream' \subseteq stream \cup {last + 1}
  BY DEF XAdd
<1>. QED
  BY <1>1, <1>2, <1>3, <1>4 DEF XAdd

\* An ingestion step adds one payload and touches nothing but the stream.
LEMMA IngestType ==
  ASSUME TypeOK, NEW p \in Message \X Source,
         ingested' = ingested \cup {p},
         XAdd(p) \/ UNCHANGED redis,
         UNCHANGED <<gate, worker, rows, history, bounds>>
  PROVE  TypeOK'
<1>1. CASE XAdd(p)
  <2>1. /\ last' = last + 1 /\ last' \in EntryId
        /\ entry' \in [EntryId -> (Message \X Source) \cup {NoEntry}]
        /\ stream' \subseteq stream \cup {last + 1}
        /\ UNCHANGED <<group, pel>>
    BY <1>1, XAddType
  <2>2. last \in Nat /\ last' \in 0..MaxEntry
    BY <2>1, PipelineAssumption DEF TypeOK, EntryId
  <2>. QED
    BY <2>1, <2>2, PipelineAssumption
       DEF TypeOK, EntryId, NoGroup, worker, rows, history, bounds
<1>2. CASE UNCHANGED redis
  BY <1>2 DEF TypeOK, redis, worker, rows, history, bounds
<1>. QED
  BY <1>1, <1>2

LEMMA NextType == TypeOK /\ Cursor /\ [Next]_vars => TypeOK'
<1>. SUFFICES ASSUME TypeOK, Cursor, [Next]_vars PROVE TypeOK'
  OBVIOUS
<1>. USE PipelineAssumption
<1>1. CASE StartProcess
  BY <1>1 DEF StartProcess, EnsureGroup, TypeOK, NoGroup, Step, rows, history, bounds
<1>2. CASE StartWorker
  BY <1>2 DEF StartWorker, EnsureGroup, TypeOK, NoGroup, Step, rows, history, bounds
<1>3. CASE WaitReady
  BY <1>3 DEF WaitReady, TypeOK, Step, redis, rows, history, bounds
<1>4. CASE ReadBatch
  <2>1. CASE Undelivered = {}
    BY <1>4, <2>1 DEF ReadBatch, TypeOK, Step, redis, rows, history, bounds
  <2>2. ASSUME NEW upto \in Undelivered, NEW taken \in SUBSET Undelivered,
               group' = upto, pel' = pel \cup taken, batch' = taken,
               pc' = "next", UNCHANGED <<entry, last, stream>>
        PROVE  TypeOK'
    <3>1. upto \in 0..last /\ taken \subseteq 1..last
      BY <2>2 DEF Undelivered, TypeOK
    <3>2. UNCHANGED <<ingested, gate, cur, verdict, rows, history, bounds>>
      BY <1>4 DEF ReadBatch
    <3>. QED
      BY <2>2, <3>1, <3>2 DEF TypeOK, Step, rows, history, bounds
  <2>3. CASE Undelivered # {}
    <3>1. PICK upto \in Undelivered :
            LET taken == {e \in Undelivered : e <= upto}
            IN  /\ group' = upto
                /\ pel' = pel \cup taken
                /\ batch' = taken
                /\ pc' = "next"
                /\ UNCHANGED <<entry, last, stream>>
      BY <1>4, <2>3 DEF ReadBatch
    <3>. QED
      BY <2>2, <3>1
  <2>. QED
    BY <2>1, <2>3
<1>5. CASE LoopRaises
  BY <1>5 DEF LoopRaises, TypeOK, Step, redis, rows, history
<1>6. CASE BeginEntry
  <2>1. PICK e \in batch : /\ cur' = e
                           /\ batch' = batch \ {e}
                           /\ begun' = begun \cup {e}
    BY <1>6 DEF BeginEntry
  <2>2. pc' \in Step /\ verdict' \in Verdict
    BY <1>6 DEF BeginEntry, Step, Verdict
  <2>3. UNCHANGED <<redis, ingested, gate, rows, finished, failed, sent, bounds>>
    BY <1>6 DEF BeginEntry
  <2>. QED
    BY <2>1, <2>2, <2>3 DEF TypeOK, redis, rows, bounds
<1>7. CASE StoreRow
  BY <1>7 DEF StoreRow, AfterStore, SemanticType, TypeOK, Step, Verdict, RowType,
              redis, history, bounds
<1>8. CASE DeliverAlert
  BY <1>8 DEF DeliverAlert, Notify, TypeOK, EntryId, Step, redis, rows, bounds
<1>9. CASE MarkAlert
  BY <1>9 DEF MarkAlert, AfterAlert, TypeOK, Step, redis, history, bounds
<1>10. CASE DeliverInterest
  BY <1>10 DEF DeliverInterest, Notify, TypeOK, EntryId, Step, redis, rows, bounds
<1>11. CASE MarkInterest
  BY <1>11 DEF MarkInterest, TypeOK, Step, redis, history, bounds
<1>12. CASE Acknowledge
  BY <1>12 DEF Acknowledge, TypeOK, Cursor, Busy, Step, Verdict, rows, bounds
<1>13. CASE EntryFails
  BY <1>13 DEF EntryFails, TypeOK, Step, Verdict, redis, rows, bounds
<1>14. CASE EndBatch
  BY <1>14 DEF EndBatch, TypeOK, Step, redis, rows, history, bounds
<1>15. ASSUME NEW m \in Message, IngestEvent(m) PROVE TypeOK'
  BY <1>15, IngestType DEF IngestEvent, Source
<1>16. ASSUME NEW m \in DirectMessage, IngestPolled(m) PROVE TypeOK'
  BY <1>16, IngestType DEF IngestPolled, Source
<1>17. CASE CloseGate
  BY <1>17 DEF CloseGate, TypeOK, redis, worker, rows, history, bounds
<1>18. CASE OpenGate
  BY <1>18 DEF OpenGate, TypeOK, Step, redis, rows, history, bounds
<1>19. CASE DeleteStream
  BY <1>19 DEF DeleteStream, TypeOK, worker, rows, history
<1>20. CASE Crash
  BY <1>20 DEF Crash, TypeOK, Step, Verdict, redis, rows, history
<1>21. ASSUME NEW m \in Message, RemoveRow(m) PROVE TypeOK'
  BY <1>21 DEF RemoveRow, TypeOK, RowType, redis, worker, history
<1>22. CASE UNCHANGED vars
  BY <1>22 DEF vars, redis, worker, rows, history, bounds, TypeOK
<1>. QED
  BY <1>1, <1>2, <1>3, <1>4, <1>5, <1>6, <1>7, <1>8, <1>9, <1>10, <1>11, <1>12,
     <1>13, <1>14, <1>15, <1>16, <1>17, <1>18, <1>19, <1>20, <1>21, <1>22
     DEF Next, ProcessLoop, ProcessEntry, Environment

LEMMA NextCursor == TypeOK /\ Cursor /\ [Next]_vars => Cursor'
<1>. SUFFICES ASSUME TypeOK, Cursor, [Next]_vars PROVE Cursor'
  OBVIOUS
<1>. USE DEF Cursor, Busy
<1>1. CASE BeginEntry
  BY <1>1 DEF BeginEntry, TypeOK
<1>2. CASE StartProcess \/ StartWorker \/ WaitReady \/ LoopRaises \/ EndBatch
  BY <1>2 DEF StartProcess, StartWorker, WaitReady, LoopRaises, EndBatch
<1>3. CASE ReadBatch
  BY <1>3 DEF ReadBatch
<1>4. CASE StoreRow
  BY <1>4 DEF StoreRow, AfterStore
<1>5. CASE DeliverAlert \/ DeliverInterest
  BY <1>5 DEF DeliverAlert, DeliverInterest, Notify
<1>6. CASE MarkAlert \/ MarkInterest
  BY <1>6 DEF MarkAlert, MarkInterest, AfterAlert
<1>7. CASE Acknowledge \/ EntryFails
  BY <1>7 DEF Acknowledge, EntryFails
<1>8. CASE OpenGate
  BY <1>8 DEF OpenGate
<1>9. CASE Crash
  BY <1>9 DEF Crash
<1>10. CASE UNCHANGED worker
  BY <1>10 DEF worker
<1>11. Next => \/ ProcessLoop \/ OpenGate \/ Crash \/ UNCHANGED worker
  BY DEF Next, Environment, IngestEvent, IngestPolled, CloseGate, DeleteStream, RemoveRow
<1>. QED
  BY <1>1, <1>2, <1>3, <1>4, <1>5, <1>6, <1>7, <1>8, <1>9, <1>10, <1>11
     DEF ProcessLoop, ProcessEntry, vars, worker

LEMMA InitCursor == Init => Cursor
  BY DEF Init, Cursor, Busy

TypeInv == TypeOK /\ Cursor

\* Type correctness of the message path.
THEOREM TypeCorrect == Spec => []TypeOK
<1>1. Init => TypeInv
  BY InitType, InitCursor DEF TypeInv
<1>2. TypeInv /\ [Next]_vars => TypeInv'
  BY NextType, NextCursor DEF TypeInv
<1>3. TypeInv => TypeOK
  BY DEF TypeInv
<1>. QED
  BY <1>1, <1>2, <1>3, PTL DEF Spec
-----------------------------------------------------------------------------
(* What the worker holds, and the order of deliveries *)

\* The group never falls behind what was handed out: that is what keeps a
\* re-created group, positioned at "$", from delivering anything again.
Delivery ==
    /\ pc \notin Busy \cup {"next"} => batch = {}
    /\ cur # 0 => cur \in begun /\ cur \notin finished \cup failed
    /\ finished \cup failed \subseteq begun
    /\ finished \cap failed = {}
    /\ \A e \in begun, f \in batch : e < f
    /\ group # NoGroup => \A e \in begun \cup batch \cup pel : e <= group

LEMMA InitDelivery == Init => Delivery
  BY DEF Init, Delivery, NoGroup

LEMMA NextDelivery == TypeInv /\ Delivery /\ [Next]_vars => Delivery'
<1>. SUFFICES ASSUME TypeOK, Cursor, Delivery, [Next]_vars PROVE Delivery'
  BY DEF TypeInv
<1>. USE DEF Delivery, Busy
<1>1. CASE StartProcess
  BY <1>1 DEF StartProcess, EnsureGroup, TypeOK, history
<1>2. CASE StartWorker
  BY <1>2 DEF StartWorker, EnsureGroup, TypeOK, history
<1>3. CASE WaitReady \/ LoopRaises \/ EndBatch
  BY <1>3 DEF WaitReady, LoopRaises, EndBatch, redis, history
<1>4. CASE ReadBatch
  <2>1. CASE Undelivered = {}
    BY <1>4, <2>1 DEF ReadBatch, redis, history
  <2>2. CASE Undelivered # {}
    <3>1. PICK upto \in Undelivered :
            LET taken == {e \in Undelivered : e <= upto}
            IN  /\ group' = upto
                /\ pel' = pel \cup taken
                /\ batch' = taken
                /\ pc' = "next"
      BY <1>4, <2>2 DEF ReadBatch
    <3>2. UNCHANGED <<cur, begun, finished, failed>> /\ group # NoGroup
      BY <1>4 DEF ReadBatch, history
    <3>3. upto \in Int /\ group \in Int /\ group < upto
      BY <3>1 DEF Undelivered, TypeOK, NoGroup
    <3>4. \A e \in Undelivered : e \in Int /\ group < e
      BY DEF Undelivered, TypeOK
    <3>5. \A e \in begun \cup pel : e \in Int /\ e <= group
      BY <3>2 DEF TypeOK
    <3>6. \A e \in begun, f \in batch' : e < f
      BY <3>1, <3>3, <3>4, <3>5
    <3>7. \A e \in begun \cup batch' \cup pel' : e <= group'
      BY <3>1, <3>3, <3>4, <3>5
    <3>. QED
      BY <1>4, <3>1, <3>2, <3>6, <3>7 DEF ReadBatch
  <2>. QED
    BY <2>1, <2>2
<1>5. CASE BeginEntry
  <2>1. PICK e \in batch : /\ \A f \in batch : e <= f
                           /\ cur' = e
                           /\ batch' = batch \ {e}
                           /\ begun' = begun \cup {e}
    BY <1>5 DEF BeginEntry
  <2>2. UNCHANGED <<group, pel, finished, failed>> /\ pc' \in Busy
    BY <1>5 DEF BeginEntry, redis
  <2>3. e \notin begun
    BY <2>1 DEF TypeOK
  <2>4. \A f \in begun', g \in batch' : f < g
    BY <2>1 DEF TypeOK
  <2>. QED
    BY <2>1, <2>2, <2>3, <2>4
<1>6. CASE StoreRow \/ DeliverAlert \/ MarkAlert \/ DeliverInterest \/ MarkInterest
  <2>1. pc' \in Busy
    BY <1>6 DEF StoreRow, AfterStore, DeliverAlert, Notify, MarkAlert, AfterAlert,
                DeliverInterest, MarkInterest
  <2>2. UNCHANGED <<group, pel, batch, cur, begun, finished, failed>>
    BY <1>6 DEF StoreRow, DeliverAlert, Notify, MarkAlert, DeliverInterest,
                MarkInterest, redis, history
  <2>. QED
    BY <2>1, <2>2
<1>7. CASE Acknowledge
  BY <1>7 DEF Acknowledge, Cursor
<1>8. CASE EntryFails
  BY <1>8 DEF EntryFails, redis
<1>9. ASSUME NEW p \in Message \X Source, XAdd(p) \/ UNCHANGED redis,
             UNCHANGED <<worker, history>>
      PROVE  Delivery'
  BY <1>9 DEF XAdd, redis, worker, history
<1>10. CASE OpenGate
  BY <1>10 DEF OpenGate, redis, history
<1>11. CASE DeleteStream
  BY <1>11 DEF DeleteStream, worker, history
<1>12. CASE Crash
  BY <1>12 DEF Crash, redis, history
<1>13. CASE UNCHANGED <<redis, worker, history>>
  BY <1>13 DEF redis, worker, history
<1>14. ASSUME NEW m \in Message, IngestEvent(m) PROVE Delivery'
  BY <1>9, <1>14 DEF IngestEvent, Source
<1>15. ASSUME NEW m \in DirectMessage, IngestPolled(m) PROVE Delivery'
  BY <1>9, <1>15, PipelineAssumption DEF IngestPolled, Source
<1>16. CASE CloseGate
  BY <1>13, <1>16 DEF CloseGate
<1>17. ASSUME NEW m \in Message, RemoveRow(m) PROVE Delivery'
  BY <1>13, <1>17 DEF RemoveRow
<1>18. CASE UNCHANGED vars
  BY <1>13, <1>18 DEF vars
<1>. QED
  BY <1>1, <1>2, <1>3, <1>4, <1>5, <1>6, <1>7, <1>8, <1>10, <1>11, <1>12, <1>14,
     <1>15, <1>16, <1>17, <1>18 DEF Next, ProcessLoop, ProcessEntry, Environment

\* What the group has still to deliver was never handed out before.
LEMMA DeliveredBehind ==
  ASSUME TypeOK, Delivery
  PROVE  Undelivered \cap (begun \cup batch \cup pel) = {}
<1>1. SUFFICES ASSUME NEW e \in Undelivered, e \in begun \cup batch \cup pel
               PROVE  FALSE
  OBVIOUS
<1>2. e \in stream /\ group # NoGroup /\ e > group
  BY <1>1 DEF Undelivered
<1>3. e <= group
  BY <1>1, <1>2 DEF Delivery
<1>4. e \in Int /\ group \in Int
  BY <1>2 DEF TypeOK, NoGroup
<1>. QED
  BY <1>2, <1>3, <1>4

-----------------------------------------------------------------------------
(* The pending list *)

LEMMA InitPending == Init => UnfinishedStaysPending
  BY DEF Init, UnfinishedStaysPending

LEMMA NextPending ==
  TypeInv /\ Delivery /\ UnfinishedStaysPending /\ [Next]_vars
    => UnfinishedStaysPending'
<1>. SUFFICES ASSUME TypeOK, Cursor, Delivery, UnfinishedStaysPending, [Next]_vars
              PROVE  UnfinishedStaysPending'
  BY DEF TypeInv
<1>. USE DEF UnfinishedStaysPending
<1>1. CASE ReadBatch
  <2>1. CASE Undelivered = {}
    BY <1>1, <2>1 DEF ReadBatch, redis, history, bounds
  <2>2. CASE Undelivered # {}
    <3>1. PICK taken \in SUBSET Undelivered :
            pel' = pel \cup taken /\ batch' = taken
      BY <1>1, <2>2 DEF ReadBatch
    <3>2. UNCHANGED <<begun, finished, failed, deletions>>
      BY <1>1 DEF ReadBatch, history, bounds
    <3>3. Undelivered \cap begun = {}
      BY DeliveredBehind
    <3>4. finished \subseteq begun
      BY DEF Delivery
    <3>. QED
      BY <3>1, <3>2, <3>3, <3>4
  <2>. QED
    BY <2>1, <2>2
<1>2. CASE BeginEntry
  BY <1>2 DEF BeginEntry, redis, bounds
<1>3. CASE Acknowledge
  BY <1>3 DEF Acknowledge, Cursor, Busy, Delivery, bounds
<1>4. CASE EntryFails
  BY <1>4 DEF EntryFails, Delivery, redis, bounds
<1>5. CASE DeleteStream
  BY <1>5 DEF DeleteStream, TypeOK, worker, history
<1>6. CASE Crash
  BY <1>6 DEF Crash, redis, history
<1>7. CASE UNCHANGED <<pel, batch, begun, finished, failed, deletions>>
  BY <1>7
<1>8. CASE StartProcess \/ StartWorker \/ WaitReady \/ LoopRaises \/ EndBatch
  BY <1>7, <1>8 DEF StartProcess, StartWorker, WaitReady, LoopRaises, EndBatch,
                    redis, history, bounds
<1>9. CASE StoreRow \/ DeliverAlert \/ MarkAlert \/ DeliverInterest \/ MarkInterest
  BY <1>7, <1>9 DEF StoreRow, DeliverAlert, Notify, MarkAlert, DeliverInterest,
                    MarkInterest, redis, history, bounds
<1>10. CASE OpenGate \/ CloseGate
  BY <1>7, <1>10 DEF OpenGate, CloseGate, redis, worker, history, bounds
<1>11. ASSUME NEW m, IngestEvent(m) \/ IngestPolled(m)
       PROVE  UnfinishedStaysPending'
  BY <1>7, <1>11 DEF IngestEvent, IngestPolled, XAdd, redis, worker, history, bounds
<1>12. ASSUME NEW m, RemoveRow(m) PROVE UnfinishedStaysPending'
  BY <1>7, <1>12 DEF RemoveRow, redis, worker, history
<1>13. CASE UNCHANGED vars
  BY <1>7, <1>13 DEF vars, redis, worker, history, bounds
<1>. QED
  BY <1>1, <1>2, <1>3, <1>4, <1>5, <1>6, <1>8, <1>9, <1>10, <1>11, <1>12, <1>13
     DEF Next, ProcessLoop, ProcessEntry, Environment

-----------------------------------------------------------------------------
(* Payloads and notifications *)

\* Two entries never carry the same message from the same source.
Payloads ==
    /\ \A e \in 1..last : entry[e] \in ingested
    /\ \A e, f \in 1..last : entry[e] = entry[f] => e = f

LEMMA InitPayloads == Init => Payloads
  BY DEF Init, Payloads

LEMMA NextPayloads == TypeInv /\ Payloads /\ [Next]_vars => Payloads'
<1>. SUFFICES ASSUME TypeOK, Payloads, [Next]_vars PROVE Payloads'
  BY DEF TypeInv
<1>1. CASE UNCHANGED <<entry, last, ingested>>
  BY <1>1 DEF Payloads
<1>2. ASSUME NEW p \in Message \X Source, p \notin ingested,
             ingested' = ingested \cup {p}, XAdd(p) \/ UNCHANGED redis
      PROVE  Payloads'
  <2>1. CASE XAdd(p)
    <3>1. /\ last' = last + 1 /\ last' \in EntryId /\ last \in Nat
          /\ entry' = [entry EXCEPT ![last + 1] = p]
      BY <2>1, XAddType DEF TypeOK
    <3>2. \A e \in 1..last' : \/ e \in 1..last /\ entry'[e] = entry[e]
                              \/ e = last + 1 /\ entry'[e] = p
      BY <3>1 DEF TypeOK, EntryId
    <3>3. \A e \in 1..last : entry[e] \in ingested /\ entry[e] # p
      BY <1>2 DEF Payloads
    <3>. QED
      BY <1>2, <3>2, <3>3 DEF Payloads
  <2>2. CASE UNCHANGED redis
    BY <1>2, <2>2 DEF Payloads, redis
  <2>. QED
    BY <1>2, <2>1, <2>2
<1>3. ASSUME NEW m \in Message, IngestEvent(m) PROVE Payloads'
  BY <1>2, <1>3 DEF IngestEvent, Source
<1>4. ASSUME NEW m \in DirectMessage, IngestPolled(m) PROVE Payloads'
  BY <1>2, <1>4, PipelineAssumption DEF IngestPolled, Source
<1>5. ProcessLoop => UNCHANGED <<entry, last, ingested>>
  BY DEF ProcessLoop, StartProcess, StartWorker, WaitReady, ReadBatch, LoopRaises,
         EndBatch, ProcessEntry, BeginEntry, StoreRow, DeliverAlert, Notify,
         MarkAlert, DeliverInterest, MarkInterest, Acknowledge, EntryFails, redis
<1>6. CloseGate \/ OpenGate \/ DeleteStream \/ Crash
        => UNCHANGED <<entry, last, ingested>>
  BY DEF CloseGate, OpenGate, DeleteStream, Crash, redis
<1>7. ASSUME NEW m, RemoveRow(m) PROVE UNCHANGED <<entry, last, ingested>>
  BY <1>7 DEF RemoveRow, redis
<1>8. CASE UNCHANGED vars
  BY <1>1, <1>8 DEF vars, redis
<1>. QED
  BY <1>1, <1>3, <1>4, <1>5, <1>6, <1>7, <1>8 DEF Next, Environment

\* An entry is notified at most once, and only after it was started.
Notices ==
    /\ \A e \in EntryId : sent[e] \in {0, 1} /\ (sent[e] = 1 => e \in begun)
    /\ pc \in {"store", "alert", "instant"} => sent[cur] = 0

LEMMA InitNotices == Init => Notices
  BY DEF Init, Notices

LEMMA NextNotices ==
  TypeInv /\ Delivery /\ Notices /\ [Next]_vars => Notices'
<1>. SUFFICES ASSUME TypeOK, Cursor, Delivery, Notices, [Next]_vars PROVE Notices'
  BY DEF TypeInv
<1>. USE DEF Notices
<1>1. CASE DeliverAlert \/ DeliverInterest
  <2>1. /\ cur \in begun /\ sent[cur] = 0
        /\ pc' \in {"markAlert", "markInterest"} /\ UNCHANGED begun
        /\ sent' = [sent EXCEPT ![cur] = @ + 1] \/ UNCHANGED sent
    BY <1>1 DEF DeliverAlert, DeliverInterest, Notify, Cursor, Busy, Delivery, TypeOK
  <2>. QED
    BY <2>1 DEF TypeOK
<1>2. CASE BeginEntry
  <2>1. PICK e \in batch : cur' = e /\ begun' = begun \cup {e}
    BY <1>2 DEF BeginEntry
  <2>2. e \in EntryId /\ e \notin begun
    BY PipelineAssumption DEF Delivery, TypeOK, EntryId
  <2>. QED
    BY <1>2, <2>1, <2>2 DEF BeginEntry
<1>3. CASE StoreRow
  BY <1>3 DEF StoreRow, history
<1>4. CASE UNCHANGED <<sent, begun>> /\ pc' \notin {"store", "alert", "instant"}
  BY <1>4
<1>5. CASE \/ StartProcess \/ StartWorker \/ WaitReady \/ ReadBatch \/ LoopRaises
           \/ EndBatch \/ MarkAlert \/ MarkInterest \/ Acknowledge \/ EntryFails
           \/ Crash
  BY <1>4, <1>5 DEF StartProcess, StartWorker, WaitReady, ReadBatch, LoopRaises,
       EndBatch, MarkAlert, AfterAlert, MarkInterest, Acknowledge, EntryFails,
       Crash, history
<1>6. CASE UNCHANGED <<pc, cur, sent, begun>>
  BY <1>6
<1>7. CASE OpenGate
  BY <1>7 DEF OpenGate, history
<1>8. ASSUME NEW m, IngestEvent(m) \/ IngestPolled(m) \/ RemoveRow(m)
      PROVE  Notices'
  BY <1>6, <1>8 DEF IngestEvent, IngestPolled, RemoveRow, worker, history
<1>9. CASE CloseGate \/ DeleteStream
  BY <1>6, <1>9 DEF CloseGate, DeleteStream, worker, history
<1>10. CASE UNCHANGED vars
  BY <1>6, <1>10 DEF vars, worker, history
<1>. QED
  BY <1>1, <1>2, <1>3, <1>5, <1>7, <1>8, <1>9, <1>10
     DEF Next, ProcessLoop, ProcessEntry, Environment

-----------------------------------------------------------------------------
(* Rows *)

\* AlertRowsFlagged and InterestRowsFlagged, leaving the entry "but" out of
\* the started and unfinished ones.
AlertSettled(but) ==
    \A m \in Message :
        (ShouldAlert(rowType[m]) /\ m \notin alertFlag)
            => \E e \in begun \ (finished \cup {but}) : MessageOf(e) = m

FeedSettled(but) ==
    \A m \in Message :
        (ShouldFeed(rowType[m]) /\ m \notin interestFlag)
            => \E e \in begun \ (finished \cup {but}) : MessageOf(e) = m

\* Once the alerts mark lies behind, the current entry is not needed to excuse
\* an unflagged row; at the acknowledgement neither feed needs it. Between the
\* upsert and the acknowledgement only the retention thread touches the row.
Rows ==
    /\ AlertSettled(0) /\ FeedSettled(0)
    /\ pc \in {"instant", "markInterest", "ack"} => AlertSettled(cur)
    /\ pc = "ack" => FeedSettled(cur)
    /\ pc \in {"alert", "markAlert", "instant", "markInterest"}
          => rowType[MessageOf(cur)] \in {"absent", SemanticType(verdict)}

LEMMA InitRows == Init => Rows
  BY DEF Init, Rows, AlertSettled, FeedSettled, ShouldAlert, ShouldFeed

\* The message of a started entry is a message, and stays its message.
LEMMA BegunMessage ==
  ASSUME TypeOK, Payloads, NEW e \in begun
  PROVE  MessageOf(e) \in Message
<1>1. entry[e] \in Message \X Source
  BY DEF TypeOK, Payloads
<1>. QED
  BY <1>1 DEF MessageOf

LEMMA NextRows ==
  TypeInv /\ Delivery /\ Payloads /\ Rows /\ [Next]_vars => Rows'
<1>. SUFFICES ASSUME TypeOK, Cursor, Delivery, Payloads, Rows, [Next]_vars
              PROVE  Rows'
  BY DEF TypeInv
<1>. USE DEF AlertSettled, FeedSettled, ShouldAlert, ShouldFeed
<1>0. 0 \notin begun
  BY DEF TypeOK
<1>1. CASE BeginEntry
  <2>1. PICK e \in batch : cur' = e /\ begun' = begun \cup {e}
    BY <1>1 DEF BeginEntry
  <2>2. e \notin begun
    BY DEF Delivery, TypeOK
  <2>3. UNCHANGED <<entry, rows, finished>> /\ pc' \in {"store", "ack"}
    BY <1>1 DEF BeginEntry, redis
  <2>. QED
    BY <1>0, <2>1, <2>2, <2>3 DEF Rows, MessageOf, rows
<1>2. CASE StoreRow
  <2>1. cur \in begun \ finished /\ MessageOf(cur) \in Message
    BY <1>2, BegunMessage DEF StoreRow, Delivery, Cursor, Busy
  <2>2. UNCHANGED <<entry, cur, verdict, begun, finished, alertFlag, interestFlag>>
    BY <1>2 DEF StoreRow, redis, history
  <2>3. rowType' = [rowType EXCEPT ![MessageOf(cur)] = SemanticType(verdict)]
    BY <1>2 DEF StoreRow
  <2>4. pc' = AfterStore(verdict) /\ verdict \in Verdict
    BY <1>2 DEF StoreRow, TypeOK
  <2>5. AlertSettled(0)' /\ FeedSettled(0)'
    BY <1>0, <2>1, <2>2, <2>3 DEF Rows, MessageOf, TypeOK
  <2>6. CASE ~ShouldAlert(verdict)
    <3>1. AlertSettled(cur)'
      BY <2>1, <2>2, <2>3, <2>6 DEF Rows, MessageOf, TypeOK, SemanticType
    <3>2. ~ShouldFeed(verdict) => FeedSettled(cur)'
      BY <2>1, <2>2, <2>3 DEF Rows, MessageOf, TypeOK, SemanticType
    <3>3. pc' = "ack" => ~ShouldFeed(verdict)
      BY <2>4, <2>6 DEF AfterStore, Verdict
    <3>4. rowType'[MessageOf(cur)] = SemanticType(verdict)
      BY <2>1, <2>3 DEF TypeOK
    <3>. QED
      BY <2>2, <2>5, <3>1, <3>2, <3>3, <3>4 DEF Rows, MessageOf
  <2>7. CASE ShouldAlert(verdict)
    <3>1. pc' = "alert"
      BY <2>4, <2>7 DEF AfterStore
    <3>2. rowType'[MessageOf(cur)] = SemanticType(verdict)
      BY <2>1, <2>3 DEF TypeOK
    <3>. QED
      BY <2>2, <2>5, <3>1, <3>2 DEF Rows, MessageOf
  <2>. QED
    BY <2>6, <2>7
<1>3. CASE DeliverAlert \/ DeliverInterest
  <2>1. UNCHANGED <<entry, cur, verdict, begun, finished, rows>>
    BY <1>3 DEF DeliverAlert, DeliverInterest, Notify, redis
  <2>2. \/ pc = "alert" /\ pc' = "markAlert"
        \/ pc = "instant" /\ pc' = "markInterest"
    BY <1>3 DEF DeliverAlert, DeliverInterest, Notify
  <2>. QED
    BY <2>1, <2>2 DEF Rows, MessageOf, rows
<1>4. CASE MarkAlert
  <2>1. cur \in begun \ finished /\ MessageOf(cur) \in Message
    BY <1>4, BegunMessage DEF MarkAlert, Delivery, Cursor, Busy
  <2>2. UNCHANGED <<entry, cur, verdict, begun, finished, rowType, interestFlag>>
    BY <1>4 DEF MarkAlert, redis, history
  <2>3. alertFlag' = alertFlag \cup {m \in Message : m = MessageOf(cur) /\ Stored(m)}
    BY <1>4 DEF MarkAlert
  <2>4. AlertSettled(cur)' /\ AlertSettled(0)'
    BY <1>0, <2>1, <2>2, <2>3 DEF Rows, MessageOf, Stored
  <2>5. rowType[MessageOf(cur)] \in {"absent", SemanticType(verdict)}
    BY <1>4 DEF MarkAlert, Rows
  <2>6. ~ShouldFeed(verdict) => FeedSettled(cur)'
    BY <2>1, <2>2, <2>5 DEF Rows, MessageOf, SemanticType
  <2>7. \/ pc' = "ack" /\ ~ShouldFeed(verdict)
        \/ pc' = "markInterest"
    BY <1>4 DEF MarkAlert, AfterAlert
  <2>8. FeedSettled(0)'
    BY <2>2 DEF Rows, MessageOf
  <2>. QED
    BY <2>2, <2>4, <2>5, <2>6, <2>7, <2>8 DEF Rows, MessageOf
<1>5. CASE MarkInterest
  <2>1. cur \in begun \ finished /\ MessageOf(cur) \in Message
    BY <1>5, BegunMessage DEF MarkInterest, Delivery, Cursor, Busy
  <2>2. UNCHANGED <<entry, cur, verdict, begun, finished, rowType, alertFlag>>
    BY <1>5 DEF MarkInterest, redis, history
  <2>3. interestFlag' = interestFlag
           \cup {m \in Message : m = MessageOf(cur) /\ Stored(m)}
    BY <1>5 DEF MarkInterest
  <2>4. FeedSettled(cur)' /\ FeedSettled(0)'
    BY <1>0, <2>1, <2>2, <2>3 DEF Rows, MessageOf, Stored
  <2>5. AlertSettled(cur)' /\ AlertSettled(0)' /\ pc' = "ack"
    BY <1>5, <2>2 DEF MarkInterest, Rows, MessageOf
  <2>. QED
    BY <2>2, <2>4, <2>5 DEF Rows, MessageOf
<1>6. CASE Acknowledge
  <2>1. finished' = finished \cup {cur} /\ pc' = "next"
    BY <1>6 DEF Acknowledge
  <2>2. UNCHANGED <<entry, begun, rows>>
    BY <1>6 DEF Acknowledge
  <2>3. AlertSettled(cur) /\ FeedSettled(cur)
    BY <1>6 DEF Acknowledge, Rows
  <2>. QED
    BY <1>0, <2>1, <2>2, <2>3 DEF Rows, MessageOf, rows
<1>7. CASE /\ pc' \notin {"alert", "markAlert", "instant", "markInterest", "ack"}
           /\ UNCHANGED <<entry, begun, finished, rows>>
  BY <1>7 DEF Rows, MessageOf, rows
<1>8. CASE UNCHANGED <<entry, begun, finished, rows, cur, verdict, pc>>
  BY <1>8 DEF Rows, MessageOf, rows
<1>9. CASE \/ StartProcess \/ StartWorker \/ WaitReady \/ ReadBatch \/ LoopRaises
           \/ EndBatch \/ EntryFails \/ Crash
  BY <1>7, <1>9 DEF StartProcess, StartWorker, WaitReady, ReadBatch, LoopRaises,
                    EndBatch, EntryFails, Crash, redis, history
<1>10. CASE OpenGate
  BY <1>7, <1>8, <1>10 DEF OpenGate, redis, history
<1>11. CASE CloseGate \/ DeleteStream
  BY <1>8, <1>11 DEF CloseGate, DeleteStream, redis, worker, history
<1>12. ASSUME NEW p \in Message \X Source, XAdd(p) \/ UNCHANGED redis,
              UNCHANGED <<worker, rows, history>>
       PROVE  Rows'
  <2>1. \A e \in begun : entry'[e] = entry[e]
    <3>1. CASE XAdd(p)
      <4>1. last' \in EntryId /\ last' = last + 1
        BY <3>1, XAddType
      <4>2. \A e \in begun : e \in EntryId /\ e # last + 1
        BY <4>1, PipelineAssumption DEF TypeOK, EntryId
      <4>. QED
        BY <3>1, <4>2, XAddType DEF TypeOK
    <3>2. CASE UNCHANGED redis
      BY <3>2 DEF redis
    <3>. QED
      BY <1>12, <3>1, <3>2
  <2>2. UNCHANGED <<pc, cur, verdict, rows, begun, finished>>
    BY <1>12 DEF worker, history
  <2>3. pc \in Busy => cur \in begun
    BY DEF Cursor, Delivery
  <2>. QED
    BY <2>1, <2>2, <2>3 DEF Rows, MessageOf, Busy, rows
<1>13. ASSUME NEW m \in Message, IngestEvent(m) PROVE Rows'
  BY <1>12, <1>13 DEF IngestEvent, Source
<1>14. ASSUME NEW m \in DirectMessage, IngestPolled(m) PROVE Rows'
  BY <1>12, <1>14, PipelineAssumption DEF IngestPolled, Source
<1>15. ASSUME NEW m \in Message, RemoveRow(m) PROVE Rows'
  <2>1. UNCHANGED <<entry, begun, finished, cur, verdict, pc>>
    BY <1>15 DEF RemoveRow, redis, worker, history
  <2>2. /\ rowType' = [rowType EXCEPT ![m] = "absent"]
        /\ alertFlag' = alertFlag \ {m}
        /\ interestFlag' = interestFlag \ {m}
    BY <1>15 DEF RemoveRow
  <2>3. AlertSettled(0)' /\ FeedSettled(0)'
    BY <2>1, <2>2 DEF Rows, MessageOf, TypeOK
  <2>4. /\ AlertSettled(cur) => AlertSettled(cur)'
        /\ FeedSettled(cur) => FeedSettled(cur)'
    BY <2>1, <2>2 DEF MessageOf, TypeOK
  <2>5. pc \in Busy => MessageOf(cur) \in Message
    BY BegunMessage DEF Cursor, Delivery
  <2>. QED
    BY <2>1, <2>2, <2>3, <2>4, <2>5 DEF Rows, MessageOf, TypeOK, Busy
<1>16. CASE UNCHANGED vars
  BY <1>8, <1>16 DEF vars, redis, worker, history
<1>. QED
  BY <1>1, <1>2, <1>3, <1>4, <1>5, <1>6, <1>9, <1>10, <1>11, <1>13, <1>14, <1>15,
     <1>16 DEF Next, ProcessLoop, ProcessEntry, Environment

-----------------------------------------------------------------------------
(* The inductive invariant, and the properties that follow from it *)

IInv ==
    /\ TypeInv
    /\ Delivery
    /\ UnfinishedStaysPending
    /\ Payloads
    /\ Notices
    /\ Rows

LEMMA InitIInv == Init => IInv
  BY InitType, InitCursor, InitDelivery, InitPending, InitPayloads, InitNotices,
     InitRows DEF IInv, TypeInv

LEMMA NextIInv == IInv /\ [Next]_vars => IInv'
<1>. SUFFICES ASSUME IInv, [Next]_vars PROVE IInv'
  OBVIOUS
<1>1. TypeInv'
  BY NextType, NextCursor DEF IInv, TypeInv
<1>2. Delivery'
  BY NextDelivery DEF IInv
<1>3. UnfinishedStaysPending'
  BY NextPending DEF IInv
<1>4. Payloads' /\ Notices'
  BY NextPayloads, NextNotices DEF IInv
<1>5. Rows'
  BY NextRows DEF IInv
<1>. QED
  BY <1>1, <1>2, <1>3, <1>4, <1>5 DEF IInv

LEMMA IInvAlways == Spec => []IInv
  BY InitIInv, NextIInv, PTL DEF Spec

\* No message notifies the user twice for one source: a notified entry was
\* started, hence handed out, and payloads of entries are distinct.
THEOREM NotifiedOnce == Spec => []NotifiedOncePerSource
<1>1. IInv => NotifiedOncePerSource
  <2>. SUFFICES ASSUME IInv, NEW e \in EntryId, NEW f \in EntryId,
                       sent[e] > 0, sent[f] > 0, entry[e] = entry[f]
                PROVE  e = f /\ sent[e] = 1
    BY DEF NotifiedOncePerSource
  <2>1. sent[e] = 1 /\ sent[f] = 1 /\ {e, f} \subseteq begun
    BY DEF IInv, Notices
  <2>2. e \in 1..last /\ f \in 1..last
    BY <2>1 DEF IInv, TypeInv, TypeOK
  <2>. QED
    BY <2>1, <2>2 DEF IInv, Payloads
<1>. QED
  BY <1>1, IInvAlways, PTL

\* An acknowledged entry leaves no half-written row in the alerts feed ...
THEOREM AlertRowsSettled == Spec => []AlertRowsFlagged
<1>1. IInv => AlertRowsFlagged
  BY DEF IInv, Rows, AlertSettled, AlertRowsFlagged
<1>. QED
  BY <1>1, IInvAlways, PTL

\* ... nor in the interest feed.
THEOREM InterestRowsSettled == Spec => []InterestRowsFlagged
<1>1. IInv => InterestRowsFlagged
  BY DEF IInv, Rows, FeedSettled, InterestRowsFlagged
<1>. QED
  BY <1>1, IInvAlways, PTL

\* Taken and unfinished entries stay in the pending list until the stream is
\* deleted.
THEOREM PendingKept == Spec => []UnfinishedStaysPending
<1>1. IInv => UnfinishedStaysPending
  BY DEF IInv
<1>. QED
  BY <1>1, IInvAlways, PTL

\* Entries are started in increasing order of their ids, across crashes and
\* re-created groups.
THEOREM InStreamOrder == Spec => BegunInStreamOrder
<1>1. IInv /\ [Next]_vars
        => [cur' \notin {0, cur} => \A e \in begun : e < cur']_vars
  <2>. SUFFICES ASSUME IInv, Next, cur' \notin {0, cur}
                PROVE  \A e \in begun : e < cur'
    OBVIOUS
  <2>1. BeginEntry
    BY DEF Next, ProcessLoop, StartProcess, StartWorker, WaitReady, ReadBatch,
           LoopRaises, EndBatch, ProcessEntry, StoreRow, DeliverAlert, Notify,
           MarkAlert, DeliverInterest, MarkInterest, Acknowledge, EntryFails,
           Environment, IngestEvent, IngestPolled, CloseGate, OpenGate,
           DeleteStream, RemoveRow, Crash, worker
  <2>2. cur' \in batch
    BY <2>1 DEF BeginEntry
  <2>. QED
    BY <2>2 DEF IInv, Delivery
<1>. QED
  BY <1>1, IInvAlways, PTL DEF Spec, BegunInStreamOrder

-----------------------------------------------------------------------------
(* The pipeline implements the at-most-once log *)

PhaseMap == [e \in EntryId |-> Phase(e)]

\* The sets Phase distinguishes do not overlap, so the order of its tests does
\* not matter.
LEMMA PhasesDisjoint ==
  ASSUME IInv
  PROVE  /\ finished \subseteq 1..last
         /\ Held \subseteq (1..last) \ finished
         /\ Undelivered \subseteq (1..last) \ (finished \cup Held)
         /\ cur \notin batch
<1>1. /\ Held \subseteq 1..last /\ finished \subseteq 1..last
      /\ Undelivered \subseteq 1..last /\ group \in Int /\ last \in Nat
  <2>1. TypeOK
    BY DEF IInv, TypeInv
  <2>2. group \in Int /\ last \in Nat /\ cur \in 0..last
    BY <2>1 DEF TypeOK, NoGroup
  <2>3. Held \subseteq 1..last
    BY <2>1, <2>2 DEF TypeOK, Held
  <2>4. Undelivered \subseteq 1..last /\ finished \subseteq 1..last
    BY <2>1 DEF TypeOK, Undelivered
  <2>. QED
    BY <2>2, <2>3, <2>4
<1>2. \A e \in begun, f \in batch : e < f
  BY DEF IInv, Delivery
<1>3. finished \subseteq begun
  BY DEF IInv, Delivery
<1>4. cur # 0 => cur \in begun \ finished
  BY DEF IInv, Delivery
<1>5. batch \cap begun = {}
  BY <1>1, <1>2 DEF Held
<1>6. 0 \notin batch
  BY <1>1 DEF Held
<1>7. Held \cap finished = {}
  BY <1>3, <1>4, <1>5 DEF Held
<1>8. \A e \in Undelivered : e > group /\ group # NoGroup
  BY DEF Undelivered
<1>9. group # NoGroup => \A e \in finished \cup Held : e <= group
  BY <1>3, <1>4 DEF Held, IInv, Delivery
<1>10. Undelivered \cap (finished \cup Held) = {}
  BY <1>1, <1>8, <1>9
<1>. QED
  BY <1>1, <1>4, <1>5, <1>6, <1>7, <1>10

\* A step that changes none of the sets Phase looks at is a stutter.
LEMMA SamePhases ==
  ASSUME UNCHANGED <<last, finished, Held, Undelivered, sent>>
  PROVE  UNCHANGED <<PhaseMap, sent>>
  BY DEF PhaseMap, Phase

\* A step that changes only the phases of the ids in S, all of them from p to
\* q, is a Move of the log.
LEMMA MoveStep ==
  ASSUME NEW S \in SUBSET EntryId, NEW q,
         \A e \in EntryId : (Phase(e))' = IF e \in S THEN q ELSE Phase(e)
  PROVE  PhaseMap' = [e \in EntryId |-> IF e \in S THEN q ELSE PhaseMap[e]]
  BY DEF PhaseMap, EntryId

LEMMA TakeStep ==
  ASSUME NEW S \in SUBSET EntryId, S # {}, \A e \in S : Phase(e) = "waiting",
         \A e \in EntryId : (Phase(e))' = IF e \in S THEN "held" ELSE Phase(e),
         UNCHANGED sent
  PROVE  Log!Next
<1>1. S \in SUBSET Log!In("waiting") /\ S # {} /\ Log!Move(S, "held")
  BY MoveStep DEF Log!In, Log!Move, PhaseMap
<1>. QED
  BY <1>1 DEF Log!Next, Log!Take

LEMMA LoseStep ==
  ASSUME NEW S \in SUBSET EntryId, S # {},
         \A e \in S : Phase(e) \in {"waiting", "held"},
         \A e \in EntryId : (Phase(e))' = IF e \in S THEN "lost" ELSE Phase(e),
         UNCHANGED sent
  PROVE  Log!Next
<1>1. /\ S \in SUBSET (Log!In("waiting") \cup Log!In("held")) /\ S # {}
      /\ Log!Move(S, "lost")
  BY MoveStep DEF Log!In, Log!Move, PhaseMap
<1>. QED
  BY <1>1 DEF Log!Next, Log!Lose

LEMMA FinishStep ==
  ASSUME NEW c \in EntryId, Phase(c) = "held",
         \A e \in EntryId : (Phase(e))' = IF e \in {c} THEN "done" ELSE Phase(e),
         UNCHANGED sent
  PROVE  Log!Next
<1>1. Log!Finish(c)
  BY MoveStep DEF Log!Finish, Log!Move, PhaseMap
<1>. QED
  BY <1>1 DEF Log!Next

LEMMA NotifyStep ==
  ASSUME NEW c \in EntryId, Phase(c) = "held", sent[c] = 0,
         sent' = [sent EXCEPT ![c] = 1], UNCHANGED PhaseMap
  PROVE  Log!Next
<1>1. Log!Notify(c)
  BY DEF Log!Notify, PhaseMap
<1>. QED
  BY <1>1 DEF Log!Next

LEMMA AppendStep ==
  ASSUME NEW c \in EntryId, Phase(c) = "absent",
         NEW D \in SUBSET EntryId,
         \A e \in D : e = c \/ Phase(e) = "waiting",
         \A e \in EntryId : (Phase(e))' = IF e \in D THEN "lost"
                                          ELSE IF e = c THEN "waiting"
                                          ELSE Phase(e),
         UNCHANGED sent
  PROVE  Log!Next
<1>1. D \in SUBSET (Log!In("waiting") \cup {c})
  BY DEF Log!In
<1>2. PhaseMap' = [e \in EntryId |-> IF e \in D THEN "lost"
                                     ELSE IF e = c THEN "waiting"
                                     ELSE PhaseMap[e]]
  BY DEF PhaseMap, EntryId
<1>3. Log!Append(c)
  BY <1>1, <1>2 DEF Log!Append, PhaseMap
<1>. QED
  BY <1>3 DEF Log!Next

\* XADD: the new id is waiting or lost, and the trimmed ids are lost.
LEMMA XAddRefines ==
  ASSUME IInv, NEW p \in Message \X Source, XAdd(p), UNCHANGED <<worker, history>>
  PROVE  Log!Next
<1>. DEFINE new == last + 1
            D == (Undelivered \cup {new}) \ Undelivered'
<1>1. TypeOK
  BY DEF IInv, TypeInv
<1>2. /\ last' = new /\ new \in EntryId /\ stream' \subseteq stream \cup {new}
      /\ group' = group
  BY <1>1, XAddType
<1>3. UNCHANGED <<finished, Held, sent>>
  BY DEF worker, history, Held
<1>4. Undelivered' \subseteq Undelivered \cup {new}
  BY <1>2 DEF Undelivered
<1>5. new \notin Undelivered /\ new \notin Held /\ new \notin finished
  BY <1>1, PhasesDisjoint DEF TypeOK
<1>6. D \in SUBSET EntryId
  BY <1>1, <1>2, PipelineAssumption, PhasesDisjoint DEF TypeOK, EntryId
<1>7. Phase(new) = "absent"
  BY <1>1 DEF Phase, TypeOK
<1>8. \A e \in D : e = new \/ Phase(e) = "waiting"
  BY <1>1, PhasesDisjoint DEF Phase, TypeOK
<1>9. \A e \in EntryId : (Phase(e))' = IF e \in D THEN "lost"
                                       ELSE IF e = new THEN "waiting"
                                       ELSE Phase(e)
  <2>. SUFFICES ASSUME NEW e \in EntryId
                PROVE  (Phase(e))' = IF e \in D THEN "lost"
                                     ELSE IF e = new THEN "waiting"
                                     ELSE Phase(e)
    OBVIOUS
  <2>1. CASE e = new
    BY <1>1, <1>2, <1>3, <1>4, <1>5, <2>1 DEF Phase, TypeOK
  <2>2. CASE e # new
    <3>1. e > last' <=> e > last
      BY <1>1, <1>2, <2>2, PipelineAssumption DEF TypeOK, EntryId
    <3>2. e \in Undelivered' <=> e \in Undelivered /\ e \notin D
      BY <1>4, <2>2
    <3>3. e \in Undelivered => e \notin finished \cup Held /\ ~(e > last)
      BY <1>1, PhasesDisjoint DEF TypeOK
    <3>. QED
      BY <1>3, <2>2, <3>1, <3>2, <3>3 DEF Phase
  <2>. QED
    BY <2>1, <2>2
<1>. HIDE DEF D, new
<1>. QED
  BY <1>2, <1>3, <1>6, <1>7, <1>8, <1>9, AppendStep

LEMMA InitRefines == Init => Log!Init
<1>1. Init => \A e \in EntryId : Phase(e) = "absent"
  BY DEF Init, Phase, EntryId
<1>. QED
  BY <1>1 DEF Init, Log!Init

\* Every step of the pipeline is a step of the log or changes nothing there.
LEMMA NextRefines ==
  ASSUME IInv, [Next]_vars
  PROVE  Log!Next \/ UNCHANGED <<PhaseMap, sent>>
<1>. DEFINE Goal == Log!Next \/ UNCHANGED <<PhaseMap, sent>>
<1>0. /\ TypeOK /\ Cursor /\ Delivery /\ Notices
      /\ Held \subseteq EntryId /\ Undelivered \subseteq EntryId
      /\ last \in Int /\ \A e \in 1..last : ~(e > last)
  <2>1. TypeOK /\ Cursor /\ Delivery /\ Notices
    BY DEF IInv, TypeInv
  <2>2. 1..last \subseteq EntryId /\ last \in Int
    BY <2>1, PipelineAssumption DEF TypeOK, EntryId
  <2>. QED
    BY <2>1, <2>2, PhasesDisjoint
<1>1. ASSUME UNCHANGED <<last, finished, batch, cur, stream, group, sent>>
      PROVE  Goal
  BY <1>1, SamePhases DEF Held, Undelivered
<1>2. CASE StartProcess \/ StartWorker
  <2>1. UNCHANGED <<last, finished, Held, sent>>
    BY <1>2 DEF StartProcess, StartWorker, Held, history
  <2>2. stream' = stream /\ group' = IF group = NoGroup THEN last ELSE group
    BY <1>2 DEF StartProcess, StartWorker, EnsureGroup
  <2>3. UNCHANGED Undelivered
    BY <1>0, <2>2 DEF Undelivered, TypeOK
  <2>. QED
    BY <2>1, <2>3, SamePhases
<1>3. CASE ReadBatch
  <2>1. CASE Undelivered = {}
    BY <1>1, <1>3, <2>1 DEF ReadBatch, redis, history
  <2>2. CASE Undelivered # {}
    <3>1. PICK upto \in Undelivered :
            /\ group' = upto
            /\ batch' = {e \in Undelivered : e <= upto}
            /\ UNCHANGED <<last, stream>>
      BY <1>3, <2>2 DEF ReadBatch
    <3>2. UNCHANGED <<cur, finished, sent>> /\ Held = {} /\ group # NoGroup
      BY <1>0, <1>3 DEF ReadBatch, Cursor, Busy, Delivery, Held, history
    <3>. DEFINE S == batch'
    <3>3. /\ S \subseteq Undelivered /\ upto \in S
          /\ Held' = S
      BY <1>0, <3>1, <3>2 DEF Held, Undelivered, TypeOK, EntryId
    <3>4. Undelivered' = Undelivered \ S
      <4>1. upto \in Int /\ upto # NoGroup /\ group \in Int /\ upto > group
        BY <1>0 DEF Undelivered, TypeOK, EntryId, NoGroup
      <4>2. stream \subseteq Int
        BY <1>0 DEF TypeOK
      <4>3. Undelivered' = {e \in stream : e > upto}
        BY <3>1, <4>1 DEF Undelivered
      <4>4. Undelivered = {e \in stream : e > group}
        BY <3>2 DEF Undelivered
      <4>5. \A e \in stream : e > upto <=> e > group /\ ~(e <= upto)
        BY <4>1, <4>2
      <4>. QED
        BY <3>1, <4>3, <4>4, <4>5
    <3>5. \A e \in S : Phase(e) = "waiting"
      BY <1>0, <3>3, PhasesDisjoint DEF Phase
    <3>6. \A e \in EntryId : (Phase(e))' = IF e \in S THEN "held" ELSE Phase(e)
      BY <1>0, <3>1, <3>2, <3>3, <3>4, PhasesDisjoint DEF Phase
    <3>. HIDE DEF S
    <3>. QED
      BY <1>0, <3>2, <3>3, <3>5, <3>6, TakeStep
  <2>. QED
    BY <2>1, <2>2
<1>4. CASE BeginEntry
  <2>1. PICK e \in batch : cur' = e /\ batch' = batch \ {e}
    BY <1>4 DEF BeginEntry
  <2>2. cur = 0 /\ e # 0
    BY <1>0, <1>4, <2>1 DEF BeginEntry, Cursor, Busy, TypeOK
  <2>3. UNCHANGED <<last, finished, stream, group, sent>>
    BY <1>4 DEF BeginEntry, redis
  <2>4. UNCHANGED <<Held, Undelivered>>
    BY <2>1, <2>2, <2>3 DEF Held, Undelivered
  <2>. QED
    BY <2>3, <2>4, SamePhases
<1>5. CASE DeliverAlert \/ DeliverInterest
  <2>1. /\ UNCHANGED <<last, finished, batch, cur, stream, group>>
        /\ sent' = [sent EXCEPT ![cur] = @ + 1] \/ UNCHANGED sent
        /\ pc \in {"alert", "instant"}
    BY <1>5 DEF DeliverAlert, DeliverInterest, Notify, redis
  <2>2. cur # 0 /\ sent[cur] = 0
    BY <1>0, <2>1 DEF Cursor, Busy, Notices
  <2>3. cur \in EntryId /\ Phase(cur) = "held"
    <3>1. cur \in Held
      BY <2>2 DEF Held
    <3>. QED
      BY <1>0, <3>1, PhasesDisjoint DEF Phase
  <2>4. CASE sent' = [sent EXCEPT ![cur] = 1]
    <3>1. UNCHANGED PhaseMap
      BY <2>1 DEF PhaseMap, Phase, Held, Undelivered
    <3>. QED
      BY <2>2, <2>3, <2>4, <3>1, NotifyStep
  <2>5. CASE UNCHANGED sent
    BY <1>1, <2>1, <2>5
  <2>. QED
    BY <1>0, <2>1, <2>2, <2>3, <2>4, <2>5 DEF TypeOK
<1>6. CASE Acknowledge
  <2>1. /\ finished' = finished \cup {cur} /\ cur' = 0
        /\ UNCHANGED <<last, batch, stream, group, sent>>
    BY <1>6 DEF Acknowledge
  <2>2. cur # 0 /\ cur \in Held
    BY <1>0, <1>6 DEF Acknowledge, Cursor, Busy, Held
  <2>3. Held' = Held \ {cur} /\ UNCHANGED Undelivered
    BY <2>1, <2>2, PhasesDisjoint DEF Held, Undelivered
  <2>4. cur \in EntryId /\ Phase(cur) = "held"
    BY <1>0, <2>2, PhasesDisjoint DEF Phase
  <2>5. \A e \in EntryId : (Phase(e))' = IF e \in {cur} THEN "done" ELSE Phase(e)
    BY <1>0, <2>1, <2>2, <2>3, PhasesDisjoint DEF Phase
  <2>. QED
    BY <2>1, <2>4, <2>5, FinishStep
<1>7. CASE EntryFails
  <2>1. cur # 0 /\ cur' = 0 /\ UNCHANGED <<last, finished, batch, stream, group, sent>>
    BY <1>7 DEF EntryFails, redis
  <2>2. cur \in Held /\ Held' = Held \ {cur} /\ UNCHANGED Undelivered
    BY <2>1, PhasesDisjoint DEF Held, Undelivered
  <2>3. cur \in EntryId /\ Phase(cur) = "held"
    BY <1>0, <2>2, PhasesDisjoint DEF Phase
  <2>4. \A e \in EntryId : (Phase(e))' = IF e \in {cur} THEN "lost" ELSE Phase(e)
    BY <1>0, <2>1, <2>2, PhasesDisjoint DEF Phase
  <2>5. {cur} \in SUBSET EntryId /\ {cur} # {} /\ \A e \in {cur} : Phase(e) = "held"
    BY <2>3
  <2>. QED
    BY <2>1, <2>4, <2>5, LoseStep
<1>8. CASE Crash
  <2>1. batch' = {} /\ cur' = 0 /\ UNCHANGED <<last, finished, stream, group, sent>>
    BY <1>8 DEF Crash, redis, history
  <2>2. Held' = {} /\ UNCHANGED Undelivered
    BY <2>1 DEF Held, Undelivered
  <2>3. \A e \in Held : Phase(e) = "held"
    BY <1>0, PhasesDisjoint DEF Phase
  <2>4. \A e \in EntryId : (Phase(e))' = IF e \in Held THEN "lost" ELSE Phase(e)
    BY <1>0, <2>1, <2>2, PhasesDisjoint DEF Phase
  <2>5. CASE Held = {}
    BY <2>1, <2>2, <2>5, SamePhases
  <2>6. CASE Held # {}
    <3>. HIDE DEF Goal
    <3>. QED
      BY <1>0, <2>1, <2>3, <2>4, <2>6, LoseStep DEF Goal
  <2>. QED
    BY <2>5, <2>6
<1>9. CASE DeleteStream
  <2>1. stream' = {} /\ UNCHANGED <<last, finished, Held, sent>>
    BY <1>9 DEF DeleteStream, worker, history, Held
  <2>2. Undelivered' = {}
    BY <2>1 DEF Undelivered
  <2>3. \A e \in Undelivered : Phase(e) = "waiting"
    BY <1>0, PhasesDisjoint DEF Phase
  <2>4. \A e \in EntryId :
           (Phase(e))' = IF e \in Undelivered THEN "lost" ELSE Phase(e)
    BY <1>0, <2>1, <2>2, PhasesDisjoint DEF Phase
  <2>5. CASE Undelivered = {}
    BY <2>1, <2>2, <2>5, SamePhases
  <2>6. CASE Undelivered # {}
    BY <1>0, <2>1, <2>3, <2>4, <2>6, LoseStep
  <2>. QED
    BY <2>5, <2>6
<1>10. ASSUME NEW p \in Message \X Source, XAdd(p) \/ UNCHANGED redis,
              UNCHANGED <<worker, history>>
       PROVE  Goal
  <2>1. CASE XAdd(p)
    BY <1>10, <2>1, XAddRefines
  <2>2. CASE UNCHANGED redis
    BY <1>1, <1>10, <2>2 DEF redis, worker, history
  <2>. QED
    BY <1>10, <2>1, <2>2
<1>11. ASSUME NEW m \in Message, IngestEvent(m) PROVE Goal
  BY <1>10, <1>11 DEF IngestEvent, Source
<1>12. ASSUME NEW m \in DirectMessage, IngestPolled(m) PROVE Goal
  BY <1>10, <1>12, PipelineAssumption DEF IngestPolled, Source
<1>13. CASE \/ WaitReady \/ LoopRaises \/ EndBatch \/ StoreRow \/ MarkAlert
            \/ MarkInterest \/ OpenGate
  BY <1>1, <1>13 DEF WaitReady, LoopRaises, EndBatch, StoreRow, MarkAlert,
                     MarkInterest, OpenGate, redis, history
<1>14. ASSUME NEW m, RemoveRow(m) PROVE Goal
  BY <1>1, <1>14 DEF RemoveRow, redis, worker, history
<1>15. CASE CloseGate \/ UNCHANGED vars
  BY <1>1, <1>15 DEF CloseGate, vars, redis, worker, history
<1>. QED
  BY <1>2, <1>3, <1>4, <1>5, <1>6, <1>7, <1>8, <1>9, <1>11, <1>12, <1>13, <1>14,
     <1>15 DEF Next, ProcessLoop, ProcessEntry, Environment

\* The stream, the consumer group and the worker implement the at-most-once
\* log, for every number of messages, entries, crashes and deletions.
THEOREM PipelineImplementsLog == Spec => ImplementsLog
<1>1. Init => Log!Init
  BY InitRefines
<1>2. IInv /\ [Next]_vars => [Log!Next]_(Log!vars)
  BY NextRefines DEF Log!vars, PhaseMap
<1>. QED
  BY <1>1, <1>2, IInvAlways, PTL DEF Spec, ImplementsLog, Log!Spec

\* A step of the log leaves what has ended as it is.
LEMMA LogStep ==
  ASSUME TypeOK, Log!Next, NEW e \in EntryId, PhaseMap[e] \in {"done", "lost"}
  PROVE  PhaseMap'[e] = PhaseMap[e] /\ sent'[e] = sent[e]
<1>1. ASSUME NEW f \in EntryId, Log!Append(f)
      PROVE  PhaseMap'[e] = PhaseMap[e] /\ sent'[e] = sent[e]
  BY <1>1 DEF Log!Append, Log!In, PhaseMap
<1>2. ASSUME NEW f \in EntryId, Log!Notify(f)
      PROVE  PhaseMap'[e] = PhaseMap[e] /\ sent'[e] = sent[e]
  <2>1. e # f
    BY <1>2 DEF Log!Notify, PhaseMap
  <2>. QED
    BY <1>2, <2>1 DEF Log!Notify, PhaseMap, TypeOK
<1>3. ASSUME NEW f \in EntryId, Log!Finish(f)
      PROVE  PhaseMap'[e] = PhaseMap[e] /\ sent'[e] = sent[e]
  BY <1>3 DEF Log!Finish, Log!Move, PhaseMap
<1>4. CASE Log!Take \/ Log!Lose
  BY <1>4 DEF Log!Take, Log!Lose, Log!Move, Log!In, PhaseMap
<1>. QED
  BY <1>1, <1>2, <1>3, <1>4 DEF Log!Next

\* What the pipeline finished, abandoned, lost in a crash, trimmed or deleted
\* stays so, and the user is never notified of it again: what it is worth to
\* implement the log.
THEOREM EntriesEndForGood == Spec => Log!EndsForGood
<1>1. IInv /\ [Next]_vars
        => [\A e \in EntryId : PhaseMap[e] \in {"done", "lost"} =>
               PhaseMap'[e] = PhaseMap[e] /\ sent'[e] = sent[e]]_<<PhaseMap, sent>>
  BY NextRefines, LogStep DEF IInv, TypeInv
<1>. QED
  BY <1>1, IInvAlways, PTL DEF Spec, Log!EndsForGood, Log!vars, PhaseMap

=============================================================================
