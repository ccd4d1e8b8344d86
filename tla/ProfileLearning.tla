--------------------------- MODULE ProfileLearning ---------------------------
(***************************************************************************)
(* What the user's thumbs up and down do to one interest profile: the      *)
(* counters of feedback_aggregator.py, the profile file and the sample     *)
(* rows that profile_tuner.py keeps, the recomputation queue of            *)
(* feedback_processor.py and the vectors of semantic.py. The API answers   *)
(* each request in a thread of its own (threaded=True), which the model    *)
(* stops between any two reads or writes of what the threads share.        *)
(*                                                                         *)
(* Scores and thresholds are hundredths. Other profiles of the file differ *)
(* from this one in nothing; a request for one of them matters here only   *)
(* because it writes the whole file back.                                  *)
(***************************************************************************)
EXTENDS Integers, Sequences, FiniteSets

CONSTANTS
    Thread,             \* API threads
    Text, NoText,       \* texts of messages; a message without one
    Score,              \* semantic scores of the messages voted on
    Threshold,          \* thresholds the user sets in the editor
    BorderlineNeeded,   \* BORDERLINE_FP_THRESHOLD
    SamplesNeeded,      \* SEVERE_FP_THRESHOLD and STRONG_TP_THRESHOLD
    RaiseBy,            \* the delta of a recommendation
    MaxDrift,           \* MAX_THRESHOLD_DRIFT
    MaxThreshold,       \* MAX_THRESHOLD_INTEREST
    MaxSamples,         \* max_feedback_samples of the profile
    MaxRequests,        \* bound: requests to the API
    MaxCrashes,         \* bound: crashes of the process
    MaxFaults           \* bound: failing writes

ASSUME LearningAssumption ==
    /\ IsFiniteSet(Thread) /\ Thread # {}
    /\ NoText \notin Text
    /\ Score \subseteq Nat /\ Threshold \subseteq 0 .. MaxThreshold
    /\ Threshold # {}
    /\ {BorderlineNeeded, SamplesNeeded, RaiseBy} \subseteq Nat \ {0}
    /\ {MaxDrift, MaxThreshold, MaxSamples} \subseteq Nat
    /\ {MaxRequests, MaxCrashes, MaxFaults} \subseteq Nat

Category == {"negative", "positive"}
Runner   == {"automatic", "manual"}     \* of process_batch

VARIABLES
    \* files, database and Redis
    file,       \* the profile in profiles_interest.yml
    rows,       \* category -> texts whose row says 'pending', oldest first
    saved,      \* the profile is in the queue kept in Redis
    \* memory of the process
    up,         \* the process runs
    counts,     \* what the aggregator has counted for the profile
    drift,      \* cumulative_threshold_delta
    queued,     \* the profile is in profiles_pending
    vectors,    \* the profile has vectors in _profile_vectors
    \* threads
    pc,         \* thread -> what it does next
    snap,       \* thread -> the profile as it last loaded it
    job,        \* thread -> the vote or the category in hand
    \* runs of process_batch
    batch,      \* runner -> what it does next
    inHand,     \* runner -> the profile is among profiles_to_process
    \* history and bounds
    owed,       \* the profile was changed after its vectors were last dropped
    disturbed,  \* requests overlapped, or one was cut short, or the editor saved
    requests, crashes, faults

stored  == <<file, rows, saved>>
memory  == <<counts, drift, queued, vectors>>
threads == <<pc, snap, job>>
batches == <<batch, inHand>>
history == <<owed, disturbed>>
bounds  == <<requests, crashes, faults>>
vars    == <<stored, up, memory, threads, batches, history, bounds>>

NoSamples == [c \in Category |-> <<>>]
NoCounts  == [borderline |-> 0, severe |-> 0, strong |-> 0]
NoJob     == [label |-> "none", score |-> 0, text |-> NoText, category |-> "none", count |-> 0]

Profile(threshold) ==
    [threshold |-> threshold, pending |-> NoSamples, feedback |-> NoSamples]
NoProfile == Profile(0)

\* Profile p with these samples of category c
WithSamples(p, c, pending, feedback) ==
    [p EXCEPT !.pending = [p.pending EXCEPT ![c] = pending],
              !.feedback = [p.feedback EXCEPT ![c] = feedback]]

Init ==
    /\ file \in {Profile(h) : h \in Threshold}
    /\ rows = NoSamples /\ saved = FALSE
    /\ up = TRUE /\ counts = NoCounts /\ drift = 0 /\ queued = FALSE
    /\ vectors = TRUE
    /\ pc = [t \in Thread |-> "idle"]
    /\ snap = [t \in Thread |-> NoProfile]
    /\ job = [t \in Thread |-> NoJob]
    /\ batch = [r \in Runner |-> "idle"]
    /\ inHand = [r \in Runner |-> FALSE]
    /\ owed = FALSE /\ disturbed = FALSE
    /\ requests = 0 /\ crashes = 0 /\ faults = 0

-----------------------------------------------------------------------------
\* Threads of the API

At(t, step)   == up /\ pc[t] = step
Goto(t, step) == pc' = [pc EXCEPT ![t] = step]
Load(t)       == snap' = [snap EXCEPT ![t] = file]
Forget(t)     == snap' = [snap EXCEPT ![t] = NoProfile]

Leave(t) ==
    /\ Goto(t, "idle")
    /\ Forget(t)
    /\ job' = [job EXCEPT ![t] = NoJob]

\* A request arrives, alone or while another is being answered.
Begin(t) ==
    /\ At(t, "idle") /\ requests < MaxRequests
    /\ requests' = requests + 1
    /\ disturbed' = (disturbed \/ \E u \in Thread \ {t} : pc[u] # "idle")
    /\ UNCHANGED <<crashes, faults>>

\* A write raises; the code logs it.
WriteFails ==
    /\ faults < MaxFaults
    /\ faults' = faults + 1
    /\ UNCHANGED <<requests, crashes>>

\* record_feedback: what a vote on a score says about a threshold
Count(c, label, score, threshold) ==
    CASE label = "down" /\ score >= threshold + 20 -> [c EXCEPT !.severe = @ + 1]
      [] label = "down" /\ score \in threshold .. threshold + 19 -> [c EXCEPT !.borderline = @ + 1]
      [] label = "up" /\ score >= threshold + 15 -> [c EXCEPT !.strong = @ + 1]
      [] OTHER -> c

\* Mutant: the drift after the raise is not tested.
RecommendationUncapped(c) ==
    CASE drift >= MaxDrift -> "none"
      [] drift < MaxDrift /\ c.severe >= SamplesNeeded -> "negative"
      [] drift < MaxDrift /\ c.severe < SamplesNeeded /\ c.strong >= SamplesNeeded -> "positive"
      [] OTHER -> IF c.borderline >= BorderlineNeeded THEN "raise" ELSE "none"

\* _evaluate_action
Recommendation(c) ==
    CASE drift >= MaxDrift -> "none"
      [] drift < MaxDrift /\ c.severe >= SamplesNeeded -> "negative"
      [] drift < MaxDrift /\ c.severe < SamplesNeeded /\ c.strong >= SamplesNeeded -> "positive"
      [] OTHER -> IF c.borderline >= BorderlineNeeded /\ drift + RaiseBy <= MaxDrift
                  THEN "raise" ELSE "none"

\* The vote is stored and the threshold of the profile is read.
Vote(t) ==
    /\ Begin(t)
    /\ \E label \in {"up", "down"}, score \in Score, text \in Text \cup {NoText} :
        /\ job' = [job EXCEPT ![t] = [NoJob EXCEPT !.label = label, !.score = score, !.text = text]]
    /\ Load(t)
    /\ Goto(t, "record")
    /\ UNCHANGED <<stored, up, memory, batches, owed>>

\* record_feedback, under the aggregator's lock. A recommended sample needs
\* the text of the message voted on.
RecordFeedback(t) ==
    /\ At(t, "record")
    /\ counts' = Count(counts, job[t].label, job[t].score, snap[t].threshold)
    /\ LET action == Recommendation(counts') IN
        \/ /\ action = "none" \/ (action \in Category /\ job[t].text = NoText)
           /\ Leave(t)
        \/ /\ action = "raise"
           /\ Goto(t, "raise") /\ Forget(t)
           /\ job' = [job EXCEPT ![t] = NoJob]
        \/ /\ action \in Category /\ job[t].text # NoText
           /\ Goto(t, "check") /\ Forget(t)
           /\ job' = [job EXCEPT ![t] = [NoJob EXCEPT !.category = action, !.text = job[t].text]]
    /\ UNCHANGED <<stored, up, drift, queued, vectors, batches, history, bounds>>

\* Mutant: the threshold is not clamped.
RaisedUnclamped(threshold) == threshold + RaiseBy

\* apply_threshold_adjustment
Raised(threshold) ==
    IF threshold + RaiseBy <= MaxThreshold THEN threshold + RaiseBy ELSE MaxThreshold

LoadForRaise(t) ==
    /\ At(t, "raise")
    /\ IF Raised(file.threshold) = file.threshold
       THEN Leave(t)
       ELSE Load(t) /\ Goto(t, "saveRaise") /\ UNCHANGED job
    /\ UNCHANGED <<stored, up, memory, batches, history, bounds>>

SaveRaise(t) ==
    /\ At(t, "saveRaise")
    /\ \/ /\ file' = [snap[t] EXCEPT !.threshold = Raised(@)]
          /\ owed' = TRUE
          /\ Goto(t, "reset")
          /\ Forget(t)
          /\ UNCHANGED <<job, bounds>>
       \/ WriteFails /\ Leave(t) /\ UNCHANGED <<file, owed>>
    /\ UNCHANGED <<rows, saved, up, memory, batches, disturbed>>

\* add_to_pending_samples: a look for the text among the pending rows, the
\* insertion of a row, and the load and the save of the profile
CheckDuplicate(t) ==
    /\ At(t, "check")
    /\ IF \E i \in DOMAIN rows[job[t].category] : rows[job[t].category][i] = job[t].text
       THEN Leave(t)
       ELSE Goto(t, "add") /\ UNCHANGED <<snap, job>>
    /\ UNCHANGED <<stored, up, memory, batches, history, bounds>>

RecordAddition(t) ==
    /\ At(t, "add")
    /\ \/ /\ rows' = [rows EXCEPT ![job[t].category] = Append(@, job[t].text)]
          /\ UNCHANGED bounds
       \/ WriteFails /\ UNCHANGED rows
    /\ Goto(t, "load")
    /\ UNCHANGED <<file, saved, up, memory, snap, job, batches, history>>

LoadForSample(t) ==
    /\ At(t, "load")
    /\ Load(t)
    /\ Goto(t, "saveSample")
    /\ UNCHANGED <<stored, up, memory, job, batches, history, bounds>>

SaveSample(t) ==
    /\ At(t, "saveSample")
    /\ \/ /\ LET c == job[t].category
                 p == snap[t] IN
             file' = WithSamples(p, c, Append(p.pending[c], job[t].text), p.feedback[c])
          /\ Goto(t, "reset")
          /\ Forget(t)
          /\ UNCHANGED <<job, bounds>>
       \/ WriteFails /\ Leave(t) /\ UNCHANGED file
    /\ UNCHANGED <<rows, saved, up, memory, batches, history>>

\* reset_stats; only a raise is followed by schedule_recompute.
ResetStats(t) ==
    /\ At(t, "reset")
    /\ \/ /\ job[t].category = "none"
          /\ counts' = [counts EXCEPT !.borderline = 0]
          /\ drift' = drift + RaiseBy
          /\ Goto(t, "schedule")
          /\ UNCHANGED <<snap, job>>
       \/ /\ job[t].category = "negative"
          /\ counts' = [counts EXCEPT !.severe = 0]
          /\ Leave(t) /\ UNCHANGED drift
       \/ /\ job[t].category = "positive"
          /\ counts' = [counts EXCEPT !.strong = 0]
          /\ Leave(t) /\ UNCHANGED drift
    /\ UNCHANGED <<stored, up, queued, vectors, batches, history, bounds>>

\* Mutant: the room left is not looked at.
CommittableAll(p, c) == Len(p.pending[c])

\* commit_pending_samples: as many of the oldest samples as there is room for.
\* With no sample or no room nothing happens.
Committable(p, c) ==
    LET room == MaxSamples - Len(p.feedback[c]) IN
    IF room <= 0 THEN 0 ELSE IF Len(p.pending[c]) <= room THEN Len(p.pending[c]) ELSE room

Commit(t) ==
    /\ Begin(t)
    /\ \E c \in Category :
        /\ Committable(file, c) > 0
        /\ job' = [job EXCEPT ![t] = [NoJob EXCEPT !.category = c, !.count = Committable(file, c)]]
    /\ Load(t)
    /\ Goto(t, "saveCommit")
    /\ UNCHANGED <<stored, up, memory, batches, owed>>

SaveCommit(t) ==
    /\ At(t, "saveCommit")
    /\ \/ /\ LET c == job[t].category
                 n == job[t].count
                 p == snap[t] IN
             file' = WithSamples(p, c, SubSeq(p.pending[c], n + 1, Len(p.pending[c])),
                                       p.feedback[c] \o SubSeq(p.pending[c], 1, n))
          /\ owed' = TRUE
          /\ Goto(t, "markCommitted")
          /\ Forget(t)
          /\ UNCHANGED <<job, bounds>>
       \/ WriteFails /\ Leave(t) /\ UNCHANGED <<file, owed>>
    /\ UNCHANGED <<rows, saved, up, memory, batches, disturbed>>

\* Mutant: every pending row is marked committed.
MarkAllCommitted(t) ==
    /\ At(t, "markCommitted")
    /\ \/ rows' = [rows EXCEPT ![job[t].category] = <<>>] /\ UNCHANGED bounds
       \/ WriteFails /\ UNCHANGED rows
    /\ Goto(t, "schedule")
    /\ UNCHANGED <<file, saved, up, memory, snap, job, batches, history>>

\* _update_sample_status with a limit: the oldest rows
MarkCommitted(t) ==
    /\ At(t, "markCommitted")
    /\ \/ /\ LET s == rows[job[t].category] IN
             rows' = [rows EXCEPT ![job[t].category] = SubSeq(s, job[t].count + 1, Len(s))]
          /\ UNCHANGED bounds
       \/ WriteFails /\ UNCHANGED rows
    /\ Goto(t, "schedule")
    /\ UNCHANGED <<file, saved, up, memory, snap, job, batches, history>>

\* rollback_pending_samples
Rollback(t) ==
    /\ Begin(t)
    /\ \E c \in Category :
        /\ Len(file.pending[c]) > 0
        /\ job' = [job EXCEPT ![t] = [NoJob EXCEPT !.category = c]]
    /\ Load(t)
    /\ Goto(t, "saveRollback")
    /\ UNCHANGED <<stored, up, memory, batches, owed>>

SaveRollback(t) ==
    /\ At(t, "saveRollback")
    /\ \/ /\ LET c == job[t].category
                 p == snap[t] IN
             file' = WithSamples(p, c, <<>>, p.feedback[c])
          /\ Goto(t, "markRolledBack")
          /\ Forget(t)
          /\ UNCHANGED <<job, bounds>>
       \/ WriteFails /\ Leave(t) /\ UNCHANGED file
    /\ UNCHANGED <<rows, saved, up, memory, batches, history>>

MarkRolledBack(t) ==
    /\ At(t, "markRolledBack")
    /\ \/ rows' = [rows EXCEPT ![job[t].category] = <<>>] /\ UNCHANGED bounds
       \/ WriteFails /\ UNCHANGED rows
    /\ Leave(t)
    /\ UNCHANGED <<file, saved, up, memory, batches, history>>

\* Mutant: the queue is not written to Redis.
ScheduleInMemory(t) ==
    /\ At(t, "schedule")
    /\ queued' = TRUE
    /\ Leave(t)
    /\ UNCHANGED <<stored, up, counts, drift, vectors, batches, history, bounds>>

\* schedule_recompute: the queue under its lock, then its copy in Redis
ScheduleRecompute(t) ==
    /\ At(t, "schedule")
    /\ queued' = TRUE
    /\ Goto(t, "persist")
    /\ UNCHANGED <<stored, up, counts, drift, vectors, snap, job, batches, history, bounds>>

SaveState(t) ==
    /\ At(t, "persist")
    /\ \/ saved' = queued /\ UNCHANGED bounds
       \/ WriteFails /\ UNCHANGED saved
    /\ Leave(t)
    /\ UNCHANGED <<file, rows, up, memory, batches, history>>

\* A request for another profile: toggle_profile, delete_profile or the
\* interface's upsert read all profiles and write all of them back.
Toggle(t) ==
    /\ Begin(t)
    /\ Load(t)
    /\ Goto(t, "saveToggle")
    /\ UNCHANGED <<stored, up, memory, job, batches, owed>>

SaveToggle(t) ==
    /\ At(t, "saveToggle")
    /\ file' = snap[t]
    /\ Leave(t)
    /\ UNCHANGED <<rows, saved, up, memory, batches, history, bounds>>

\* upsert_interest_profile: the editor's form has no field for samples learnt
\* from feedback, and its profile replaces the one in the file.
Upsert(t) ==
    /\ At(t, "idle") /\ requests < MaxRequests
    /\ requests' = requests + 1
    /\ file' \in {Profile(h) : h \in Threshold}
    /\ disturbed' = TRUE
    /\ UNCHANGED <<rows, saved, up, memory, threads, batches, owed, crashes, faults>>

Continue(t) ==
    \/ RecordFeedback(t)
    \/ LoadForRaise(t) \/ SaveRaise(t) \/ ResetStats(t)
    \/ CheckDuplicate(t) \/ RecordAddition(t) \/ LoadForSample(t) \/ SaveSample(t)
    \/ SaveCommit(t) \/ MarkCommitted(t)
    \/ SaveRollback(t) \/ MarkRolledBack(t)
    \/ ScheduleRecompute(t) \/ SaveState(t)
    \/ SaveToggle(t)

Request(t) == Vote(t) \/ Commit(t) \/ Rollback(t) \/ Toggle(t) \/ Upsert(t)

-----------------------------------------------------------------------------
\* process_batch, from the periodic task and from the API

AtBatch(r, step)   == up /\ batch[r] = step
GotoBatch(r, step) == batch' = [batch EXCEPT ![r] = step]

\* The periodic task looks whether anything is queued, a request does not.
TakeBatch(r) ==
    /\ AtBatch(r, "idle")
    /\ r = "automatic" => queued
    /\ inHand' = [inHand EXCEPT ![r] = queued]
    /\ queued' = FALSE
    /\ GotoBatch(r, "persist")
    /\ UNCHANGED <<stored, up, counts, drift, vectors, threads, history, bounds>>

\* Mutant: the queue is emptied once more after it was written.
SaveAndEmpty(r) ==
    /\ AtBatch(r, "persist")
    /\ \/ saved' = queued /\ UNCHANGED bounds
       \/ WriteFails /\ UNCHANGED saved
    /\ queued' = FALSE
    /\ GotoBatch(r, IF inHand[r] THEN "clear" ELSE "idle")
    /\ UNCHANGED <<file, rows, up, counts, drift, vectors, threads, inHand, history>>

SaveBatch(r) ==
    /\ AtBatch(r, "persist")
    /\ \/ saved' = queued /\ UNCHANGED bounds
       \/ WriteFails /\ UNCHANGED saved
    /\ GotoBatch(r, IF inHand[r] THEN "clear" ELSE "idle")
    /\ UNCHANGED <<file, rows, up, memory, threads, inHand, history>>

\* clear_profile_cache
ClearCache(r) ==
    /\ AtBatch(r, "clear")
    /\ vectors' = FALSE
    /\ owed' = FALSE
    /\ inHand' = [inHand EXCEPT ![r] = FALSE]
    /\ GotoBatch(r, "idle")
    /\ UNCHANGED <<stored, up, counts, drift, queued, threads, disturbed, bounds>>

-----------------------------------------------------------------------------
\* The rest of the process

\* _decay_all_profiles forgets votes of more than seven days.
Decay ==
    /\ up
    /\ \E b \in 0 .. counts.borderline, e \in 0 .. counts.severe, g \in 0 .. counts.strong :
        counts' = [borderline |-> b, severe |-> e, strong |-> g]
    /\ UNCHANGED <<stored, up, drift, queued, vectors, threads, batches, history, bounds>>

\* process_loop raised and begins again, or a similarity test of the profile
Reload ==
    /\ up
    /\ vectors' = TRUE
    /\ UNCHANGED <<stored, up, counts, drift, queued, threads, batches, history, bounds>>

Crash ==
    /\ up /\ crashes < MaxCrashes
    /\ up' = FALSE
    /\ crashes' = crashes + 1
    /\ counts' = NoCounts /\ drift' = 0 /\ queued' = FALSE
    /\ vectors' = FALSE
    /\ pc' = [t \in Thread |-> "idle"]
    /\ snap' = [t \in Thread |-> NoProfile]
    /\ job' = [t \in Thread |-> NoJob]
    /\ batch' = [r \in Runner |-> "idle"]
    /\ inHand' = [r \in Runner |-> FALSE]
    /\ owed' = FALSE
    /\ disturbed' = (disturbed \/ \E t \in Thread : pc[t] # "idle")
    /\ UNCHANGED <<stored, requests, faults>>

\* _load_state_from_redis, and load_profile_embeddings when process_loop begins
StartProcess ==
    /\ ~up
    /\ up' = TRUE
    /\ queued' = saved /\ vectors' = TRUE
    /\ UNCHANGED <<stored, counts, drift, threads, batches, history, bounds>>

ProcessBatch(r) == TakeBatch(r) \/ SaveBatch(r) \/ ClearCache(r)

Next ==
    \/ \E t \in Thread : Request(t) \/ Continue(t)
    \/ \E r \in Runner : ProcessBatch(r)
    \/ Decay \/ Reload \/ Crash \/ StartProcess

\* Threads run, the periodic task wakes every ten minutes, and Docker restarts
\* the process. Requests need not come.
Fairness ==
    /\ \A t \in Thread : WF_vars(Continue(t))
    /\ \A r \in Runner : WF_vars(SaveBatch(r) \/ ClearCache(r))
    /\ WF_vars(TakeBatch("automatic"))
    /\ WF_vars(StartProcess)

Spec     == Init /\ [][Next]_vars
FairSpec == Spec /\ Fairness

-----------------------------------------------------------------------------
\* Properties

Step == {"idle", "record", "raise", "saveRaise", "reset", "check", "add", "load",
         "saveSample", "saveCommit", "markCommitted", "saveRollback",
         "markRolledBack", "schedule", "persist", "saveToggle"}

ProfileType ==
    [threshold : 0 .. MaxThreshold, pending : [Category -> Seq(Text)], feedback : [Category -> Seq(Text)]]

JobType ==
    [label : {"none", "up", "down"}, score : Nat, text : Text \cup {NoText},
     category : Category \cup {"none"}, count : Nat]

\* The type invariant of the profile, its rows and what is held in memory.
TypeOK ==
    /\ file \in ProfileType
    /\ rows \in [Category -> Seq(Text)]
    /\ counts \in [borderline : Nat, severe : Nat, strong : Nat]
    /\ drift \in Nat
    /\ saved \in BOOLEAN /\ up \in BOOLEAN /\ queued \in BOOLEAN
    /\ vectors \in BOOLEAN /\ owed \in BOOLEAN /\ disturbed \in BOOLEAN
    /\ pc \in [Thread -> Step]
    /\ snap \in [Thread -> ProfileType]
    /\ job \in [Thread -> JobType]
    /\ batch \in [Runner -> {"idle", "persist", "clear"}]
    /\ inHand \in [Runner -> BOOLEAN]
    /\ requests \in 0 .. MaxRequests /\ crashes \in 0 .. MaxCrashes /\ faults \in 0 .. MaxFaults

\* A thread has saved a change and not yet scheduled the recomputation.
Scheduling(t) ==
    \/ pc[t] \in {"markCommitted", "schedule"}
    \/ pc[t] = "reset" /\ job[t].category = "none"

\* A profile changed by learning whose old vectors are still in use is queued,
\* about to be queued, or in the hand of a batch that is about to drop them:
\* whatever requests, periodic batches, triggered batches and crashes do
\* between the save of the file and schedule_recompute.
RecomputeIsComing ==
    owed => \/ queued
            \/ \E t \in Thread : Scheduling(t)
            \/ \E r \in Runner : inHand[r]

\* The queue in Redis, which a restart reads, is the queue in memory whenever
\* nobody is about to write it: schedule_recompute and process_batch change the
\* one under a lock and write the other after it, in any interleaving.
QueueSurvives ==
    (up /\ faults = 0) =>
        \/ saved = queued
        \/ \E t \in Thread : pc[t] = "persist"
        \/ \E r \in Runner : batch[r] = "persist"

\* The threads that have been recommended a raise and not counted it yet
Raising == {t \in Thread :
    \/ pc[t] \in {"raise", "saveRaise"}
    \/ pc[t] = "reset" /\ job[t].category = "none"}

\* The cap on the drift is tested when a raise is recommended and the drift is
\* counted when it is done: between two threads that is too late, but the
\* drift exceeds the cap by no more than a raise for each further thread, and
\* not at all when one request is answered at a time.
DriftBounded ==
    drift + RaiseBy * Cardinality(Raising) <= MaxDrift + RaiseBy * (Cardinality(Thread) - 1)

\* No category ever holds more committed samples than max_feedback_samples,
\* though each commit counts them in a profile loaded earlier.
SamplesCapped == \A c \in Category : Len(file.feedback[c]) <= MaxSamples

\* What the user is asked to review (the rows) is what a commit would move (the
\* samples in the file), in the same order: after any sequence of votes,
\* commits that take only a part, rollbacks and duplicates, provided that no
\* two requests overlapped, none was cut short by a crash, no write failed and
\* the editor has not replaced the profile.
ReviewedIsCommitted ==
    (~disturbed /\ faults = 0 /\ \A t \in Thread : pc[t] = "idle") => rows = file.pending

=============================================================================
