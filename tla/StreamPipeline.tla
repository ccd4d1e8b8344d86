--------------------------- MODULE StreamPipeline ---------------------------
(***************************************************************************)
(* The message path of TG Sentinel: Telegram events and polled direct      *)
(* messages are XADDed to one Redis stream, a single consumer              *)
(* (worker.process_loop) reads the stream through a consumer group, and    *)
(* every entry is evaluated, stored, notified, flagged and acknowledged,   *)
(* in that order, by process_stream_message.                               *)
(*                                                                         *)
(* Every await and every write to Redis, SQLite or Telegram is a step of   *)
(* its own, so that the retention thread, a log-out that deletes the       *)
(* stream, a re-login that closes the handshake gate, a failing call and   *)
(* a crash of the process can happen between any two of them.              *)
(***************************************************************************)
EXTENDS Integers, FiniteSets

CONSTANTS
    Message,        \* Telegram messages, the (chat_id, msg_id) pairs
    DirectMessage,  \* those of monitored private chats: the poller sees them too
    NoEntry,        \* "no entry with this id yet"
    Outcome,        \* evaluation outcomes the configured profiles can give
    MaxEntry,       \* bound: XADDs in a behaviour
    StreamMaxLen,   \* maxlen of XADD, 100000 in the code
    BatchSize,      \* count of XREADGROUP, 50 in the code
    MaxCrash,       \* bound: crashes of the sentinel process
    MaxReadFault,   \* bound: Redis errors that end process_loop
    MaxDelete,      \* bound: deletions of the stream key
    MaxRemove       \* bound: rows removed by the retention thread

\* Outcome of the two evaluators for one message. "instant" is an interest
\* match whose profile has a schedule of type NONE and a delivery mode.
Verdict == {"none", "alert", "interest", "instant", "both"}

ASSUME PipelineAssumption ==
    /\ DirectMessage \subseteq Message
    /\ Outcome \subseteq Verdict
    /\ MaxEntry \in Nat /\ StreamMaxLen \in Nat /\ BatchSize \in Nat \ {0}
    /\ MaxCrash \in Nat /\ MaxReadFault \in Nat
    /\ MaxDelete \in Nat /\ MaxRemove \in Nat
    /\ NoEntry \notin Message \X {"event", "poll"}

VARIABLES
    \* Redis: the stream and its consumer group
    entry,          \* entry id -> <<message, source>>, the payload of the XADD
    last,           \* the last id generated for the stream
    stream,         \* ids present in the stream key
    group,          \* last-delivered-id of the group, NoGroup when there is none
    pel,            \* pending entries list: delivered and not acknowledged
    \* ingestion
    ingested,       \* <<message, source>> pairs a source has seen
    \* the sentinel process
    gate,           \* handshake_gate
    pc,             \* where process_loop stands
    batch,          \* ids of resp still to process
    cur,            \* id being processed, 0 when none
    verdict,        \* evaluation of cur
    \* SQLite
    rowType,        \* message -> semantic_type of its row, "absent" without a row
    alertFlag,      \* rows with flagged_for_alerts_feed = 1
    interestFlag,   \* rows with flagged_for_interest_feed = 1
    \* history
    begun,          \* ids process_loop has started to process
    finished,       \* ids whose xack call returned
    failed,         \* ids whose processing raised: "do not ack; will be retried"
    sent,           \* id -> notifications Telegram accepted for it
    crashes, readFaults, deletions, removals

redis   == <<entry, last, stream, group, pel>>
worker  == <<pc, batch, cur, verdict>>
rows    == <<rowType, alertFlag, interestFlag>>
history == <<begun, finished, failed, sent>>
bounds  == <<crashes, readFaults, deletions, removals>>
vars    == <<redis, ingested, gate, worker, rows, history, bounds>>

EntryId == 1..MaxEntry
Source  == {"event", "poll"}
NoGroup == -1

RowType == {"absent", "none", "alert", "interest", "both"}
Step    == {"down", "starting", "top", "waiting", "read", "next", "store",
            "alert", "markAlert", "instant", "markInterest", "ack", "dead"}

ShouldAlert(v)  == v \in {"alert", "both"}
ShouldFeed(v)   == v \in {"interest", "instant", "both"}
\* Mutant of SemanticType: the delivery mode leaks into the row.
RawSemanticType(v) == v
SemanticType(v) == IF v = "instant" THEN "interest" ELSE v

MessageOf(e) == entry[e][1]
Stored(m)    == rowType[m] # "absent"
\* Mutant of Undelivered: the group also hands out what is pending.
UndeliveredOrPending == {e \in stream : group # NoGroup /\ (e > group \/ e \in pel)}
Undelivered  == {e \in stream : group # NoGroup /\ e > group}
Held         == batch \cup (IF cur = 0 THEN {} ELSE {cur})
ProcessUp    == pc # "down"

\* The worker shares one event loop with the event handler, the poller and the
\* relogin coordinator: they only run while it awaits, which it does not do
\* between an acknowledgement and the next entry of the batch.
Awaiting     == pc \notin {"down", "next", "ack"}

Init ==
    /\ entry = [e \in EntryId |-> NoEntry]
    /\ last = 0
    /\ stream = {}
    /\ group = NoGroup
    /\ pel = {}
    /\ ingested = {}
    /\ gate = TRUE
    /\ pc = "down"
    /\ batch = {}
    /\ cur = 0
    /\ verdict = "none"
    /\ rowType = [m \in Message |-> "absent"]
    /\ alertFlag = {}
    /\ interestFlag = {}
    /\ begun = {}
    /\ finished = {}
    /\ failed = {}
    /\ sent = [e \in EntryId |-> 0]
    /\ crashes = 0
    /\ readFaults = 0
    /\ deletions = 0
    /\ removals = 0

-----------------------------------------------------------------------------
(* Ingestion *)

\* XADD stream MAXLEN ~ StreamMaxLen: append, then possibly trim the oldest
\* entries, never below StreamMaxLen.
XAdd(payload) ==
    /\ last < MaxEntry
    /\ last' = last + 1
    /\ entry' = [entry EXCEPT ![last + 1] = payload]
    /\ \E from \in 1..(last + 1) :
          LET kept == {e \in stream \cup {last + 1} : e >= from}
          IN  /\ from = 1 \/ Cardinality(kept) >= StreamMaxLen
              /\ stream' = kept
    /\ UNCHANGED <<group, pel>>

\* A NewMessage update reaches the handler once; it is dropped when a filter
\* rejects it, the payload cannot be built or XADD raises.
IngestEvent(m) ==
    /\ Awaiting
    /\ <<m, "event">> \notin ingested
    /\ ingested' = ingested \cup {<<m, "event">>}
    /\ XAdd(<<m, "event">>) \/ UNCHANGED redis
    /\ UNCHANGED <<gate, worker, rows, history, bounds>>

\* Mutant of IngestPolled: _last_seen is not advanced.
IngestPolledAgain(m) ==
    /\ Awaiting
    /\ ingested' = ingested \cup {<<m, "poll">>}
    /\ XAdd(<<m, "poll">>) \/ UNCHANGED redis
    /\ UNCHANGED <<gate, worker, rows, history, bounds>>

\* The poller ingests a direct message newer than _last_seen, and advances
\* _last_seen whether or not XADD worked. The copy is not compared with the
\* one the event handler ingests.
IngestPolled(m) ==
    /\ Awaiting
    /\ <<m, "poll">> \notin ingested
    /\ ingested' = ingested \cup {<<m, "poll">>}
    /\ XAdd(<<m, "poll">>) \/ UNCHANGED redis
    /\ UNCHANGED <<gate, worker, rows, history, bounds>>

-----------------------------------------------------------------------------
(* Starting the process and the worker *)

\* XGROUP CREATE stream group id="$" MKSTREAM; BUSYGROUP is ignored.
EnsureGroup == group' = IF group = NoGroup THEN last ELSE group

\* main() creates the group before anything reads or writes the stream, with
\* the handshake gate open.
StartProcess ==
    /\ pc = "down"
    /\ EnsureGroup
    /\ gate' = TRUE
    /\ pc' = "starting"
    /\ UNCHANGED <<entry, last, stream, pel, ingested, batch, cur, verdict,
                   rows, history, bounds>>

\* process_loop repeats the creation before it enters its loop.
StartWorker ==
    /\ pc = "starting"
    /\ EnsureGroup
    /\ pc' = "top"
    /\ UNCHANGED <<entry, last, stream, pel, ingested, gate, batch, cur,
                   verdict, rows, history, bounds>>

-----------------------------------------------------------------------------
(* process_loop *)

\* _wait_ready: asyncio.Event.wait returns at once when the event is set.
WaitReady ==
    /\ pc = "top"
    /\ pc' = IF gate THEN "read" ELSE "waiting"
    /\ UNCHANGED <<redis, ingested, gate, batch, cur, verdict, rows, history,
                   bounds>>

\* XREADGROUP ... ">" COUNT BatchSize: the oldest undelivered entries move to
\* the pending list. Nothing to read: back to the top of the loop.
ReadBatch ==
    /\ pc = "read"
    /\ group # NoGroup
    /\ IF Undelivered = {}
       THEN /\ pc' = "top"
            /\ UNCHANGED <<redis, batch>>
       ELSE \E upto \in Undelivered :
              LET taken == {e \in Undelivered : e <= upto}
              IN  /\ Cardinality(taken) <= BatchSize
                  /\ taken = Undelivered \/ Cardinality(taken) = BatchSize
                  /\ group' = upto
                  /\ pel' = pel \cup taken
                  /\ batch' = taken
                  /\ pc' = "next"
                  /\ UNCHANGED <<entry, last, stream>>
    /\ UNCHANGED <<ingested, gate, cur, verdict, rows, history, bounds>>

\* XREADGROUP stands outside the try block, and the worker's XGROUP CREATE
\* re-raises: NOGROUP, or a connection error, ends process_loop for good, while
\* gather(return_exceptions=True) keeps the rest of the process running.
LoopRaises ==
    /\ \/ pc = "read" /\ group = NoGroup /\ UNCHANGED readFaults
       \/ /\ pc \in {"starting", "read"}
          /\ readFaults < MaxReadFault
          /\ readFaults' = readFaults + 1
    /\ pc' = "dead"
    /\ UNCHANGED <<redis, ingested, gate, batch, cur, verdict, rows, history,
                   crashes, deletions, removals>>

\* The for loop takes the next entry. process_stream_message returns early
\* (no rule, no profile, excluded sender) or evaluates the message.
BeginEntry ==
    /\ pc = "next"
    /\ \E e \in batch :
          /\ \A f \in batch : e <= f
          /\ cur' = e
          /\ batch' = batch \ {e}
          /\ begun' = begun \cup {e}
    /\ \/ pc' = "ack" /\ verdict' = "none"
       \/ pc' = "store" /\ verdict' \in Outcome
    /\ UNCHANGED <<redis, ingested, gate, rows, finished, failed, sent, bounds>>

EndBatch ==
    /\ pc = "next"
    /\ batch = {}
    /\ pc' = "top"
    /\ UNCHANGED <<redis, ingested, gate, batch, cur, verdict, rows, history,
                   bounds>>

\* Mutant of AfterStore: an alert that is also an interest is only an interest.
AfterStoreInterestFirst(v) ==
    IF v = "instant" THEN "instant"
    ELSE IF ShouldFeed(v) THEN "markInterest"
    ELSE IF ShouldAlert(v) THEN "alert"
    ELSE "ack"

AfterStore(v) ==
    IF ShouldAlert(v) THEN "alert"
    ELSE IF v = "instant" THEN "instant"
    ELSE IF v = "interest" THEN "markInterest"
    ELSE "ack"

\* Mutant of AfterAlert: an alert never reaches the interest mark.
AfterAlertDone(v) == "ack"

AfterAlert(v) == IF ShouldFeed(v) THEN "markInterest" ELSE "ack"

\* upsert_message: a new row has both flags 0, an existing row keeps its
\* flags and takes the new semantic_type.
StoreRow ==
    /\ pc = "store"
    /\ rowType' = [rowType EXCEPT ![MessageOf(cur)] = SemanticType(verdict)]
    /\ pc' = AfterStore(verdict)
    /\ UNCHANGED <<redis, ingested, gate, batch, cur, verdict, alertFlag,
                   interestFlag, history, bounds>>

\* orchestrate_delivery: a failed, skipped or digest-only delivery is logged
\* and processing goes on.
Notify(next) ==
    /\ \/ sent' = [sent EXCEPT ![cur] = @ + 1]
       \/ UNCHANGED sent
    /\ pc' = next
    /\ UNCHANGED <<redis, ingested, gate, batch, cur, verdict, rows, begun,
                   finished, failed, bounds>>

\* Mutant of DeliverAlert: a delivery that looks failed is tried again.
DeliverAlertRetried == pc = "alert" /\ (Notify("markAlert") \/ Notify("alert"))

DeliverAlert    == pc = "alert" /\ Notify("markAlert")
DeliverInterest == pc = "instant" /\ Notify("markInterest")

\* UPDATE ... WHERE chat_id = :c AND msg_id = :m touches no row when the
\* retention thread has removed it.
MarkAlert ==
    /\ pc = "markAlert"
    /\ alertFlag' = alertFlag \cup {m \in Message : m = MessageOf(cur) /\ Stored(m)}
    /\ pc' = AfterAlert(verdict)
    /\ UNCHANGED <<redis, ingested, gate, batch, cur, verdict, rowType,
                   interestFlag, history, bounds>>

MarkInterest ==
    /\ pc = "markInterest"
    /\ interestFlag' = interestFlag
                         \cup {m \in Message : m = MessageOf(cur) /\ Stored(m)}
    /\ pc' = "ack"
    /\ UNCHANGED <<redis, ingested, gate, batch, cur, verdict, rowType,
                   alertFlag, history, bounds>>

\* XACK; it answers 0 without an error when the stream has been deleted.
Acknowledge ==
    /\ pc = "ack"
    /\ pel' = pel \ {cur}
    /\ finished' = finished \cup {cur}
    /\ cur' = 0
    /\ verdict' = "none"
    /\ pc' = "next"
    /\ UNCHANGED <<entry, last, stream, group, ingested, gate, batch, rows,
                   begun, failed, sent, bounds>>

\* Mutant of EntryFails: the entry is acknowledged in a "finally".
EntryFailsAcknowledged ==
    /\ cur # 0
    /\ failed' = failed \cup {cur}
    /\ pel' = pel \ {cur}
    /\ cur' = 0
    /\ verdict' = "none"
    /\ pc' = "next"
    /\ UNCHANGED <<entry, last, stream, group, ingested, gate, batch, rows,
                   begun, finished, sent, bounds>>

\* Mutant of EntryFails: a failing XACK sends the entry back to its marks.
EntryFailsRepeating ==
    /\ cur # 0
    /\ failed' = failed \cup {cur}
    /\ IF pc = "ack" /\ ShouldFeed(verdict)
       THEN pc' = "markInterest" /\ UNCHANGED <<cur, verdict>>
       ELSE pc' = "next" /\ cur' = 0 /\ verdict' = "none"
    /\ UNCHANGED <<redis, ingested, gate, batch, rows, begun, finished, sent,
                   bounds>>

\* Any call outside the delivery may raise (malformed payload, locked
\* database, Redis error): the except clause counts the error and leaves the
\* entry pending.
EntryFails ==
    /\ cur # 0
    /\ failed' = failed \cup {cur}
    /\ cur' = 0
    /\ verdict' = "none"
    /\ pc' = "next"
    /\ UNCHANGED <<redis, ingested, gate, batch, rows, begun, finished, sent,
                   bounds>>

-----------------------------------------------------------------------------
(* The rest of the system *)

\* The relogin coordinator detaches the worker by clearing the gate.
CloseGate ==
    /\ Awaiting
    /\ gate
    /\ gate' = FALSE
    /\ UNCHANGED <<redis, ingested, worker, rows, history, bounds>>

\* Mutant of OpenGate: the flag is set and nobody is woken.
OpenGateSilently ==
    /\ Awaiting
    /\ ~gate
    /\ gate' = TRUE
    /\ UNCHANGED <<redis, ingested, worker, rows, history, bounds>>

\* Setting the event wakes a waiting worker for good, even if the gate is
\* cleared again before the worker runs.
OpenGate ==
    /\ Awaiting
    /\ ~gate
    /\ gate' = TRUE
    /\ pc' = IF pc = "waiting" THEN "read" ELSE pc
    /\ UNCHANGED <<redis, ingested, batch, cur, verdict, rows, history, bounds>>

\* handle_logout and the UI's clean-up endpoint delete the stream key; the
\* consumer group and its pending list go with it.
DeleteStream ==
    /\ deletions < MaxDelete
    /\ deletions' = deletions + 1
    /\ stream' = {}
    /\ group' = NoGroup
    /\ pel' = {}
    /\ UNCHANGED <<entry, last, ingested, gate, worker, rows, history, crashes,
                   readFaults, removals>>

\* cleanup_old_messages, in a thread, removes a row by age or by count.
RemoveRow(m) ==
    /\ ProcessUp
    /\ removals < MaxRemove
    /\ Stored(m)
    /\ removals' = removals + 1
    /\ rowType' = [rowType EXCEPT ![m] = "absent"]
    /\ alertFlag' = alertFlag \ {m}
    /\ interestFlag' = interestFlag \ {m}
    /\ UNCHANGED <<redis, ingested, gate, worker, history, crashes, readFaults,
                   deletions>>

\* The process dies: what it held in memory is gone, Redis and SQLite stay.
Crash ==
    /\ ProcessUp
    /\ crashes < MaxCrash
    /\ crashes' = crashes + 1
    /\ pc' = "down"
    /\ batch' = {}
    /\ cur' = 0
    /\ verdict' = "none"
    /\ UNCHANGED <<redis, ingested, gate, rows, history, readFaults, deletions,
                   removals>>

-----------------------------------------------------------------------------
ProcessEntry ==
    \/ BeginEntry \/ StoreRow \/ DeliverAlert \/ MarkAlert
    \/ DeliverInterest \/ MarkInterest \/ Acknowledge \/ EntryFails

ProcessLoop ==
    \/ StartProcess \/ StartWorker \/ WaitReady \/ ReadBatch \/ LoopRaises
    \/ ProcessEntry \/ EndBatch

Environment ==
    \/ \E m \in Message : IngestEvent(m)
    \/ \E m \in DirectMessage : IngestPolled(m)
    \/ CloseGate \/ OpenGate \/ DeleteStream \/ Crash
    \/ \E m \in Message : RemoveRow(m)

Next == ProcessLoop \/ Environment

Spec == Init /\ [][Next]_vars

\* The event loop keeps scheduling process_loop, Docker restarts the process
\* ("restart: unless-stopped"), and the relogin coordinator re-opens the gate
\* on success, on cancellation and at its deadline.
Fairness == WF_vars(ProcessLoop) /\ WF_vars(OpenGate)

FairSpec == Spec /\ Fairness

-----------------------------------------------------------------------------
(* The abstract log the pipeline implements *)

Phase(e) ==
    IF e > last THEN "absent"
    ELSE IF e \in finished THEN "done"
    ELSE IF e \in Held THEN "held"
    ELSE IF e \in Undelivered THEN "waiting"
    ELSE "lost"

Log == INSTANCE AtMostOnceLog
           WITH Entry <- EntryId,
                phase <- [e \in EntryId |-> Phase(e)],
                notices <- sent

\* The stream, the group, the worker and its crashes together implement the
\* at-most-once log: an entry is held once, notified at most once while it is
\* held, and one that is acknowledged, abandoned, trimmed or deleted is never
\* taken again.
ImplementsLog == Log!Spec

-----------------------------------------------------------------------------
(* Properties *)

\* Every variable stays in its type (process_loop's locals, the row columns
\* and the Redis structures it touches).
TypeOK ==
    /\ entry \in [EntryId -> (Message \X Source) \cup {NoEntry}]
    /\ last \in 0..MaxEntry
    /\ stream \subseteq 1..last
    /\ group \in {NoGroup} \cup (0..last)
    /\ pel \subseteq 1..last
    /\ ingested \subseteq Message \X Source
    /\ gate \in BOOLEAN
    /\ pc \in Step
    /\ batch \subseteq 1..last
    /\ cur \in 0..last
    /\ verdict \in Verdict
    /\ rowType \in [Message -> RowType]
    /\ alertFlag \subseteq Message
    /\ interestFlag \subseteq Message
    /\ begun \subseteq 1..last
    /\ finished \subseteq 1..last
    /\ failed \subseteq 1..last
    /\ sent \in [EntryId -> Nat]
    /\ crashes \in Nat /\ readFaults \in Nat
    /\ deletions \in Nat /\ removals \in Nat

\* The consumer starts entries in stream order and never starts one twice,
\* whatever crashes, restarts, log-outs and group re-creations at "$" happen
\* in between (worker.process_loop and both XGROUP CREATE calls).
BegunInStreamOrder ==
    [][cur' \notin {0, cur} => \A e \in begun : e < cur']_vars

\* One Telegram message notifies the user at most once per ingestion source:
\* at most once for a channel message, at most twice for a direct message
\* (notifications happen before the acknowledgement, so only the absence of
\* redelivery stops a repeat).
NotifiedOncePerSource ==
    \A e, f \in EntryId :
        (sent[e] > 0 /\ sent[f] > 0 /\ entry[e] = entry[f])
            => (e = f /\ sent[e] = 1)

\* A row whose semantic_type says alert carries the alerts-feed flag, unless
\* some entry of that message was started and never acknowledged: an
\* acknowledged entry never leaves a half-written row.
AlertRowsFlagged ==
    \A m \in Message :
        (ShouldAlert(rowType[m]) /\ m \notin alertFlag)
            => \E e \in begun \ finished : MessageOf(e) = m

\* The same for the interest feed.
InterestRowsFlagged ==
    \A m \in Message :
        (ShouldFeed(rowType[m]) /\ m \notin interestFlag)
            => \E e \in begun \ finished : MessageOf(e) = m

\* Unless somebody deletes the stream, everything the worker took and did not
\* finish is still in the pending list, where XPENDING shows it, and nothing
\* it finished is.
UnfinishedStaysPending ==
    /\ deletions = 0 => (begun \cup batch) \ finished \subseteq pel
    /\ finished \cap (pel \cup failed) = {}

\* An entry the group has not delivered is eventually taken, unless it is
\* deleted or trimmed, or process_loop has ended.
UndeliveredEventuallyTaken ==
    \A e \in EntryId :
        (e \in Undelivered) ~> (e \notin Undelivered \/ pc = "dead")

\* The worker never hangs on an entry: it is acknowledged, abandoned, or the
\* process is gone.
EntrySettles == \A e \in EntryId : (cur = e) ~> (cur # e)

=============================================================================
