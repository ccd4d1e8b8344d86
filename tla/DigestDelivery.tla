--------------------------- MODULE DigestDelivery ---------------------------
(***************************************************************************)
(* What a digest run collects, sends and marks: _process_digest_schedule   *)
(* with DigestCollector, run by the digest loop (one schedule at a time)   *)
(* and by the manual trigger of the API on the same event loop, over the   *)
(* rows the message path writes and the retention thread removes. When a   *)
(* schedule is due is DigestTimeline's subject. One manual run is in       *)
(* flight at a time: two only repeat rows to the user who asked twice.     *)
(***************************************************************************)
EXTENDS Integers, FiniteSets

CONSTANTS
    Message,        \* the (chat_id, msg_id) keys of rows
    AlertToo,       \* those also flagged for the alerts feed, when stored
    Slot,           \* schedules some profile has, "hourly", "daily", ...
    Matching,       \* schedule -> messages its profiles match above min_score
    Sending,        \* schedules whose aggregated mode is "digest" or "both"
    ManualSends,    \* NOTIFICATION_CHANNEL is set: a manual digest has a target
    Window,         \* schedule -> age a message may have (hours, abstracted)
    TopN,           \* messages in a digest: aggregated top_n, 5 for a manual one
    MaxMessages,    \* retention by count, 200 by default
    Retention,      \* retention by age of plain rows, 30 days by default
    KeepFlagged,    \* retention by age of flagged rows, twice as long
    MaxInsert,      \* bound: insertions of a row per message
    MaxManual,      \* bound: manual triggers
    MaxCrash,       \* bound: crashes
    MaxFault        \* bound: sends, and markings in the database, that fail

ASSUME DeliveryAssumption ==
    /\ AlertToo \subseteq Message
    /\ Matching \in [Slot -> SUBSET Message] /\ Sending \subseteq Slot
    /\ ManualSends \in BOOLEAN /\ Window \in [Slot -> Nat]
    /\ TopN \in Nat \ {0} /\ MaxMessages \in Nat
    /\ Retention \in Nat /\ KeepFlagged \in Nat /\ Retention <= KeepFlagged
    /\ MaxInsert \in Nat /\ MaxManual \in Nat /\ MaxCrash \in Nat
    /\ MaxFault \in Nat

Runner == {"loop", "manual"}
Manual == "manual"      \* the "schedule" of a manual run
ASSUME ManualIsNoSlot == Manual \notin Slot

VARIABLES
    \* the messages table
    present,        \* keys with a row
    flagged,        \* flagged_for_interest_feed = 1
    processed,      \* digest_processed = 1
    age,            \* time since created_at
    \* the runs in flight
    pc,             \* runner -> "idle", "send" or "mark"
    slot,           \* runner -> the schedule it processes, Manual for none
    collected,      \* runner -> collector.messages
    chosen,         \* runner -> get_top_messages(top_n)
    \* history
    inserted,       \* message -> insertions of its row
    digested,       \* message -> scheduled digests that brought it
    unmarked,       \* message -> scheduled runs that collected and did not mark it
    triggers, crashes, faults

rows    == <<present, flagged, processed, age>>
runs    == <<pc, slot, collected, chosen>>
history == <<inserted, digested, unmarked>>
bounds  == <<triggers, crashes, faults>>
vars    == <<rows, runs, history, bounds>>

MaxAge == KeepFlagged

\* A run does not await between the end of a send and the marking, and so
\* shuts the event loop's other tasks out; the retention thread and a crash
\* are not.
Awaiting == \A r \in Runner : pc[r] # "mark"

Init ==
    /\ present = {}
    /\ flagged = {}
    /\ processed = {}
    /\ age = [m \in Message |-> 0]
    /\ pc = [r \in Runner |-> "idle"]
    /\ slot = [r \in Runner |-> Manual]
    /\ collected = [r \in Runner |-> {}]
    /\ chosen = [r \in Runner |-> {}]
    /\ inserted = [m \in Message |-> 0]
    /\ digested = [m \in Message |-> 0]
    /\ unmarked = [m \in Message |-> 0]
    /\ triggers = 0
    /\ crashes = 0
    /\ faults = 0

-----------------------------------------------------------------------------
(* The message path and the retention thread *)

\* upsert_message: a new row has its flags 0; on a conflict the flags,
\* digest_processed and created_at stay.
UpsertMessage(m) ==
    /\ Awaiting
    /\ IF m \in present
       THEN UNCHANGED <<present, age, inserted>>
       ELSE /\ inserted[m] < MaxInsert
            /\ inserted' = [inserted EXCEPT ![m] = @ + 1]
            /\ present' = present \cup {m}
            /\ age' = [age EXCEPT ![m] = 0]
    /\ UNCHANGED <<flagged, processed, runs, digested, unmarked, bounds>>

\* Mutant of MarkForInterestFeed: a removed row keeps a flag.
MarkGoneForFeed(m) ==
    /\ Awaiting
    /\ flagged' = flagged \cup {m}
    /\ UNCHANGED <<present, processed, age, runs, history, bounds>>

MarkForInterestFeed(m) ==
    /\ Awaiting
    /\ m \in present
    /\ flagged' = flagged \cup {m}
    /\ UNCHANGED <<present, processed, age, runs, history, bounds>>

Elapse ==
    /\ \E m \in present : age[m] < MaxAge
    /\ age' = [m \in Message |-> IF m \in present /\ age[m] < MaxAge
                                 THEN age[m] + 1 ELSE age[m]]
    /\ UNCHANGED <<present, flagged, processed, runs, history, bounds>>

Flags(m) == (IF m \in flagged THEN 1 ELSE 0) + (IF m \in AlertToo THEN 1 ELSE 0)

\* ORDER BY flags DESC, created_at DESC
KeptBefore(m, n) ==
    Flags(m) > Flags(n) \/ (Flags(m) = Flags(n) /\ age[m] < age[n])

\* cleanup_old_messages: by age first, then by count.
CleanUp ==
    LET young == {m \in present :
                    age[m] < IF Flags(m) > 0 THEN KeepFlagged ELSE Retention}
    IN  \E kept \in SUBSET young :
          /\ kept # present
          /\ IF Cardinality(young) <= MaxMessages THEN kept = young
             ELSE /\ Cardinality(kept) = MaxMessages
                  /\ \A m \in kept, n \in young \ kept : ~KeptBefore(n, m)
          /\ present' = kept
          /\ flagged' = flagged \cap kept
          /\ processed' = processed \cap kept
          /\ UNCHANGED <<age, runs, history, bounds>>

-----------------------------------------------------------------------------
(* A run *)

\* Mutant of Eligible: digest_processed is not looked at.
EligibleAgain(s) == {m \in flagged \cap Matching[s] : age[m] <= Window[s]}

\* The rows collect_for_profiles selects for a scheduled run.
Eligible(s) ==
    {m \in (flagged \ processed) \cap Matching[s] : age[m] <= Window[s]}

\* Any TopN of what was collected: scores are abstracted.
Top(S) ==
    {T \in SUBSET S : IF Cardinality(S) <= TopN THEN T = S
                      ELSE Cardinality(T) = TopN}

StartRun(r, s, found) ==
    /\ pc[r] = "idle"
    /\ Awaiting
    /\ found # {}
    /\ pc' = [pc EXCEPT ![r] = "send"]
    /\ slot' = [slot EXCEPT ![r] = s]
    /\ collected' = [collected EXCEPT ![r] = found]
    /\ \E top \in Top(found) : chosen' = [chosen EXCEPT ![r] = top]
    /\ UNCHANGED <<rows, history>>

\* Mutant of RunSchedule: it waits for more than one digest can bring.
RunScheduleFull(s) ==
    /\ Cardinality(Eligible(s)) > TopN
    /\ StartRun("loop", s, Eligible(s))
    /\ UNCHANGED bounds

\* A schedule is due: collect in its window, above its score, not processed.
\* With nothing to send the run returns at once.
RunSchedule(s) == StartRun("loop", s, Eligible(s)) /\ UNCHANGED bounds

\* POST /api/digests/trigger: every flagged row of the matching profiles,
\* whatever its age, its score and its digest_processed.
TriggerManually ==
    /\ triggers < MaxManual
    /\ triggers' = triggers + 1
    /\ StartRun("manual", Manual, flagged)
    /\ UNCHANGED <<crashes, faults>>

Sends(r) == IF slot[r] = Manual THEN ManualSends ELSE slot[r] \in Sending

\* _send_digest: mode "none" or "dm" returns at once; a failing send_message is
\* logged, after the chunks already accepted, and the run goes on.
SendDigest(r) ==
    /\ pc[r] = "send"
    /\ Awaiting
    /\ \E brought \in SUBSET chosen[r] :
          /\ ~Sends(r) => brought = {}
          /\ IF Sends(r) /\ brought # chosen[r]
             THEN faults < MaxFault /\ faults' = faults + 1
             ELSE UNCHANGED faults
          /\ digested' = [m \in Message |->
                            IF r = "loop" /\ m \in brought
                            THEN digested[m] + 1 ELSE digested[m]]
    /\ pc' = [pc EXCEPT ![r] = "mark"]
    /\ UNCHANGED <<rows, slot, collected, chosen, inserted, unmarked, triggers,
                   crashes>>

EndRun(r) ==
    /\ pc' = [pc EXCEPT ![r] = "idle"]
    /\ collected' = [collected EXCEPT ![r] = {}]
    /\ chosen' = [chosen EXCEPT ![r] = {}]
    /\ slot' = [slot EXCEPT ![r] = Manual]

Forget(r) ==
    unmarked' = [m \in Message |->
                    IF r = "loop" /\ m \in collected[r]
                    THEN unmarked[m] + 1 ELSE unmarked[m]]

\* mark_as_processed: all that was collected, sent or not; an UPDATE touches
\* the rows that still exist.
MarkAsProcessed(r) ==
    /\ pc[r] = "mark"
    /\ processed' = processed \cup (collected[r] \cap present)
    /\ EndRun(r)
    /\ UNCHANGED <<present, flagged, age, history, bounds>>

\* The UPDATE raises (database is locked): the run raises, the loop does not
\* mark the schedule and comes back to it.
MarkingRaises(r) ==
    /\ pc[r] = "mark"
    /\ faults < MaxFault
    /\ faults' = faults + 1
    /\ Forget(r)
    /\ EndRun(r)
    /\ UNCHANGED <<rows, inserted, digested, triggers, crashes>>

\* The process dies with its runs.
Crash ==
    /\ crashes < MaxCrash
    /\ crashes' = crashes + 1
    /\ Forget("loop")
    /\ pc' = [r \in Runner |-> "idle"]
    /\ collected' = [r \in Runner |-> {}]
    /\ chosen' = [r \in Runner |-> {}]
    /\ slot' = [r \in Runner |-> Manual]
    /\ UNCHANGED <<rows, inserted, digested, triggers, faults>>

-----------------------------------------------------------------------------
FinishRun(r) == SendDigest(r) \/ MarkAsProcessed(r) \/ MarkingRaises(r)

Next ==
    \/ \E m \in Message : UpsertMessage(m) \/ MarkForInterestFeed(m)
    \/ Elapse \/ CleanUp
    \/ \E s \in Slot : RunSchedule(s)
    \/ TriggerManually
    \/ \E r \in Runner : FinishRun(r)
    \/ Crash

Spec == Init /\ [][Next]_vars

\* The event loop finishes every run it has begun, and every schedule comes
\* due again (DigestTimeline, OnTime), in turn with the others.
Fairness ==
    /\ \A r \in Runner : WF_vars(FinishRun(r))
    /\ \A s \in Slot : SF_vars(RunSchedule(s))

FairSpec == Spec /\ Fairness

-----------------------------------------------------------------------------
(* Properties *)

\* The rows, the collectors and the counters stay in their types.
TypeOK ==
    /\ present \subseteq Message
    /\ flagged \subseteq present
    /\ processed \subseteq present
    /\ age \in [Message -> 0..MaxAge]
    /\ pc \in [Runner -> {"idle", "send", "mark"}]
    /\ slot \in [Runner -> Slot \cup {Manual}]
    /\ collected \in [Runner -> SUBSET Message]
    /\ chosen \in [Runner -> SUBSET Message]
    /\ inserted \in [Message -> Nat]
    /\ digested \in [Message -> Nat]
    /\ unmarked \in [Message -> Nat]
    /\ triggers \in Nat /\ crashes \in Nat /\ faults \in Nat

\* A scheduled digest brings a message once for each time its row was created
\* and each time the marking of a run was lost, and never otherwise: not for
\* two schedules, not after a manual digest, not after a second upsert
\* (digest_processed in collect_for_profiles, mark_as_processed, upsert_message).
DigestedOncePerRow ==
    \A m \in Message : digested[m] <= inserted[m] + unmarked[m]

Undigested(m, s) == m \in Eligible(s)

\* A flagged message that a schedule collects does not stay undigested in its
\* window for ever: it is marked, ages out or is removed.
UndigestedSettles ==
    \A m \in Message, s \in Slot : Undigested(m, s) ~> ~Undigested(m, s)

=============================================================================
