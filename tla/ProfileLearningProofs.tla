----------------------- MODULE ProfileLearningProofs -----------------------
(***************************************************************************)
(* What feedback does to a profile, for any number of threads, texts,      *)
(* thresholds and caps: a change is never left without a recomputation to  *)
(* come, the queue in Redis is not left behind, and the caps on samples    *)
(* and on drift hold as far as they can.                                   *)
(***************************************************************************)
EXTENDS ProfileLearning, FiniteSetTheorems, TLAPS

\* A thread that adds a sample has a text and a category for it; one that
\* commits has room for what it takes.
JobFits(t) ==
    /\ pc[t] \in {"check", "add", "load", "saveSample"} =>
           job[t].text \in Text /\ job[t].category \in Category
    /\ pc[t] \in {"saveCommit", "markCommitted", "saveRollback", "markRolledBack"} =>
           job[t].category \in Category
    /\ pc[t] = "saveCommit" => job[t].count = Committable(snap[t], job[t].category)

JobsFit == \A t \in Thread : JobFits(t)

LEMMA Constants ==
    /\ BorderlineNeeded \in Nat /\ SamplesNeeded \in Nat /\ RaiseBy \in Nat
    /\ MaxDrift \in Nat /\ MaxThreshold \in Nat /\ MaxSamples \in Nat
    /\ MaxRequests \in Nat /\ MaxCrashes \in Nat /\ MaxFaults \in Nat
    BY LearningAssumption

LEMMA InitType == Init => TypeOK /\ JobsFit
<1> SUFFICES ASSUME Init PROVE TypeOK /\ JobsFit
    OBVIOUS
<1> USE LearningAssumption, Constants
<1>1. NoSamples \in [Category -> Seq(Text)]
    BY DEF NoSamples
<1>2. \A h \in 0 .. MaxThreshold : Profile(h) \in ProfileType
    BY <1>1 DEF Profile, ProfileType
<1>3. NoProfile \in ProfileType /\ NoJob \in JobType
    BY <1>2 DEF NoProfile, NoJob, JobType
<1>4. file \in ProfileType
    BY <1>2 DEF Init
<1>5. TypeOK
  <2>1. pc \in [Thread -> Step] /\ snap \in [Thread -> ProfileType] /\ job \in [Thread -> JobType]
      BY <1>3 DEF Init, Step
  <2>2. batch \in [Runner -> {"idle", "persist", "clear"}] /\ inHand \in [Runner -> BOOLEAN]
      BY DEF Init
  <2>3. requests \in 0 .. MaxRequests /\ crashes \in 0 .. MaxCrashes /\ faults \in 0 .. MaxFaults
      BY DEF Init
  <2>4. counts \in [borderline : Nat, severe : Nat, strong : Nat] /\ drift \in Nat
      BY DEF Init, NoCounts
  <2> QED BY <1>1, <1>4, <2>1, <2>2, <2>3, <2>4 DEF Init, TypeOK
<1>6. JobsFit
    BY DEF Init, JobsFit, JobFits
<1> QED BY <1>5, <1>6

\* The parts of a step that keep what threads hold of the right type
LEMMA LeaveType ==
    ASSUME TypeOK, JobsFit, NEW t \in Thread, Leave(t)
    PROVE  /\ pc' \in [Thread -> Step] /\ snap' \in [Thread -> ProfileType]
           /\ job' \in [Thread -> JobType] /\ JobsFit'
<1> USE LearningAssumption, Constants
<1>1. NoSamples \in [Category -> Seq(Text)]
    BY DEF NoSamples
<1>2. NoProfile \in ProfileType /\ NoJob \in JobType
    BY <1>1 DEF NoProfile, Profile, ProfileType, NoJob, JobType
<1> QED
    BY <1>2 DEF Leave, Goto, Forget, TypeOK, JobsFit, JobFits, Step

LEMMA GotoType ==
    ASSUME TypeOK, NEW t \in Thread, NEW s \in Step, Goto(t, s)
    PROVE  pc' \in [Thread -> Step]
    BY DEF Goto, TypeOK

LEMMA SnapType ==
    ASSUME TypeOK, NEW t \in Thread, Load(t) \/ Forget(t)
    PROVE  snap' \in [Thread -> ProfileType]
<1>1. NoProfile \in ProfileType
    BY LearningAssumption, Constants DEF NoProfile, Profile, NoSamples, ProfileType
<1> QED BY <1>1 DEF Load, Forget, TypeOK

LEMMA BoundsType ==
    ASSUME TypeOK, WriteFails \/ UNCHANGED bounds
    PROVE  /\ requests' \in 0 .. MaxRequests /\ crashes' \in 0 .. MaxCrashes
           /\ faults' \in 0 .. MaxFaults
    BY LearningAssumption, Constants DEF WriteFails, bounds, TypeOK

LEMMA RaisedType == \A h \in 0 .. MaxThreshold : Raised(h) \in 0 .. MaxThreshold
    BY Constants DEF Raised

LEMMA WithThresholdType ==
    ASSUME NEW p \in ProfileType, NEW h \in 0 .. MaxThreshold
    PROVE  [p EXCEPT !.threshold = h] \in ProfileType
    BY DEF ProfileType

LEMMA WithSamplesType ==
    ASSUME NEW p \in ProfileType, NEW c \in Category, NEW s \in Seq(Text), NEW u \in Seq(Text)
    PROVE  WithSamples(p, c, s, u) \in ProfileType
<1> DEFINE pending  == [p.pending EXCEPT ![c] = s]
           feedback == [p.feedback EXCEPT ![c] = u]
<1>1. p.pending \in [Category -> Seq(Text)] /\ p.feedback \in [Category -> Seq(Text)]
    BY DEF ProfileType
<1>2. pending \in [Category -> Seq(Text)] /\ feedback \in [Category -> Seq(Text)]
    BY <1>1
<1> HIDE DEF pending, feedback
<1>3. [p EXCEPT !.pending = pending, !.feedback = feedback] \in ProfileType
    BY <1>2 DEF ProfileType
<1> QED BY <1>3 DEF WithSamples, pending, feedback

LEMMA SampleLists ==
    ASSUME NEW p \in ProfileType, NEW c \in Category
    PROVE  p.pending[c] \in Seq(Text) /\ p.feedback[c] \in Seq(Text)
    BY DEF ProfileType

LEMMA SubSeqType ==
    ASSUME NEW s \in Seq(Text), NEW m \in Nat \ {0}, NEW n \in Nat, n <= Len(s)
    PROVE  SubSeq(s, m, n) \in Seq(Text)
    BY SMTT(20)

\* JobFits is about one thread at a time.
LEMMA OtherJobsFit ==
    ASSUME JobsFit, NEW t \in Thread, JobFits(t)',
           \A u \in Thread \ {t} : pc'[u] = pc[u] /\ snap'[u] = snap[u] /\ job'[u] = job[u]
    PROVE  JobsFit'
    BY DEF JobsFit, JobFits

LEMMA CommittableBounds ==
    ASSUME NEW p \in ProfileType, NEW c \in Category
    PROVE  /\ Committable(p, c) \in Nat
           /\ Committable(p, c) <= Len(p.pending[c])
           /\ Len(p.feedback[c]) <= MaxSamples =>
                  Len(p.feedback[c]) + Committable(p, c) <= MaxSamples
<1> DEFINE a == Len(p.pending[c])
           b == Len(p.feedback[c])
<1>1. a \in Nat /\ b \in Nat
    BY SampleLists
<1>2. Committable(p, c) = IF MaxSamples - b <= 0 THEN 0
                          ELSE IF a <= MaxSamples - b THEN a ELSE MaxSamples - b
    BY DEF Committable
<1> HIDE DEF a, b
<1>3. /\ Committable(p, c) \in Nat /\ Committable(p, c) <= a
      /\ b <= MaxSamples => b + Committable(p, c) <= MaxSamples
    BY <1>1, <1>2, Constants
<1> QED BY <1>3 DEF a, b

\* A request begins.
LEMMA BeginType ==
    ASSUME TypeOK, NEW t \in Thread, Begin(t)
    PROVE  /\ requests' \in 0 .. MaxRequests /\ crashes' \in 0 .. MaxCrashes
           /\ faults' \in 0 .. MaxFaults /\ disturbed' \in BOOLEAN
    BY Constants DEF Begin, TypeOK

LEMMA VoteType ==
    ASSUME TypeOK, JobsFit, NEW t \in Thread, Vote(t)
    PROVE  TypeOK' /\ JobsFit'
<1>1. PICK label \in {"up", "down"}, score \in Score, text \in Text \cup {NoText} :
          job' = [job EXCEPT ![t] = [NoJob EXCEPT !.label = label, !.score = score, !.text = text]]
    BY DEF Vote
<1>2. job' \in [Thread -> JobType]
    BY <1>1, LearningAssumption DEF TypeOK, JobType, NoJob
<1>3. snap' \in [Thread -> ProfileType] /\ pc' \in [Thread -> Step]
    BY SnapType, GotoType DEF Vote, Step
<1>4. TypeOK'
    BY <1>2, <1>3, BeginType DEF Vote, TypeOK, stored, memory, batches
<1>5. JobsFit'
  <2>1. JobFits(t)'
      BY DEF Vote, Goto, JobFits, TypeOK
  <2>2. \A u \in Thread \ {t} : pc'[u] = pc[u] /\ snap'[u] = snap[u] /\ job'[u] = job[u]
      BY <1>1 DEF Vote, Goto, Load, TypeOK
  <2> QED BY <2>1, <2>2, OtherJobsFit
<1> QED BY <1>4, <1>5

LEMMA RecordType ==
    ASSUME TypeOK, JobsFit, NEW t \in Thread, RecordFeedback(t)
    PROVE  TypeOK' /\ JobsFit'
<1> DEFINE action == Recommendation(counts')
<1>1. counts' \in [borderline : Nat, severe : Nat, strong : Nat]
  <2>1. Count(counts, job[t].label, job[t].score, snap[t].threshold)
            \in {counts, [counts EXCEPT !.severe = @ + 1], [counts EXCEPT !.borderline = @ + 1],
                 [counts EXCEPT !.strong = @ + 1]}
      BY DEF Count
  <2> QED BY <2>1 DEF RecordFeedback, TypeOK
<1>2. /\ pc' \in [Thread -> Step] /\ snap' \in [Thread -> ProfileType]
      /\ job' \in [Thread -> JobType] /\ JobsFit'
  <2>1. CASE Leave(t)
      BY <2>1, LeaveType
  <2>2. CASE Goto(t, "raise") /\ Forget(t) /\ job' = [job EXCEPT ![t] = NoJob]
    <3>1. job' \in [Thread -> JobType]
        BY <2>2, LearningAssumption DEF TypeOK, JobType, NoJob
    <3>2. snap' \in [Thread -> ProfileType] /\ pc' \in [Thread -> Step]
        BY <2>2, SnapType, GotoType DEF Step
    <3>3. JobsFit'
        BY <2>2 DEF Goto, Forget, JobsFit, JobFits, TypeOK
    <3> QED BY <3>1, <3>2, <3>3
  <2>3. CASE /\ action \in Category /\ job[t].text # NoText
             /\ Goto(t, "check") /\ Forget(t)
             /\ job' = [job EXCEPT ![t] = [NoJob EXCEPT !.category = action, !.text = job[t].text]]
    <3> HIDE DEF action
    <3>1. job[t].text \in Text
        BY <2>3 DEF TypeOK, JobType
    <3>2. job' \in [Thread -> JobType]
        BY <2>3, <3>1 DEF TypeOK, JobType, NoJob
    <3>3. snap' \in [Thread -> ProfileType] /\ pc' \in [Thread -> Step]
        BY <2>3, SnapType, GotoType DEF Step
    <3>4. JobFits(t)'
        BY <2>3, <3>1 DEF Goto, JobFits, TypeOK, NoJob
    <3>5. \A u \in Thread \ {t} : pc'[u] = pc[u] /\ snap'[u] = snap[u] /\ job'[u] = job[u]
        BY <2>3 DEF Goto, Forget, TypeOK
    <3> QED BY <3>2, <3>3, <3>4, <3>5, OtherJobsFit
  <2> QED BY <2>1, <2>2, <2>3 DEF RecordFeedback
<1> QED
    BY <1>1, <1>2 DEF RecordFeedback, TypeOK, stored, batches, history, bounds

\* A request that begins by loading the profile, with its job.
LEMMA LoadingType ==
    ASSUME TypeOK, JobsFit, NEW t \in Thread, Begin(t), Load(t),
           NEW s \in Step, Goto(t, s), job' \in [Thread -> JobType], JobFits(t)',
           \A u \in Thread \ {t} : job'[u] = job[u],
           UNCHANGED <<stored, up, memory, batches, owed>>
    PROVE  TypeOK' /\ JobsFit'
<1>1. snap' \in [Thread -> ProfileType] /\ pc' \in [Thread -> Step]
    BY SnapType, GotoType
<1>2. TypeOK'
    BY <1>1, BeginType DEF TypeOK, stored, memory, batches
<1>3. \A u \in Thread \ {t} : pc'[u] = pc[u] /\ snap'[u] = snap[u] /\ job'[u] = job[u]
    BY DEF Goto, Load, TypeOK
<1> QED BY <1>2, <1>3, OtherJobsFit

LEMMA CommitType ==
    ASSUME TypeOK, JobsFit, NEW t \in Thread, Commit(t)
    PROVE  TypeOK' /\ JobsFit'
<1>1. PICK c \in Category :
          job' = [job EXCEPT ![t] = [NoJob EXCEPT !.category = c, !.count = Committable(file, c)]]
    BY DEF Commit
<1>2. Committable(file, c) \in Nat
    BY CommittableBounds DEF TypeOK
<1>3. [NoJob EXCEPT !.category = c, !.count = Committable(file, c)] \in JobType
    BY <1>2, LearningAssumption DEF NoJob, JobType
<1>4. job' \in [Thread -> JobType] /\ \A u \in Thread \ {t} : job'[u] = job[u]
    BY <1>1, <1>3 DEF TypeOK
<1>5. job'[t].category = c /\ job'[t].count = Committable(file, c)
    BY <1>1 DEF TypeOK, NoJob
<1>6. pc'[t] = "saveCommit" /\ snap'[t] = file
    BY DEF Commit, Goto, Load, TypeOK
<1>7. JobFits(t)'
  <2>1. Committable(snap'[t], job'[t].category) = Committable(file, c)
      BY <1>5, <1>6
  <2> QED BY <1>5, <1>6, <2>1 DEF JobFits, Committable
<1>8. Begin(t) /\ Load(t) /\ Goto(t, "saveCommit") /\ UNCHANGED <<stored, up, memory, batches, owed>>
    BY DEF Commit
<1> QED BY <1>4, <1>7, <1>8, LoadingType DEF Step

LEMMA RollbackType ==
    ASSUME TypeOK, JobsFit, NEW t \in Thread, Rollback(t)
    PROVE  TypeOK' /\ JobsFit'
<1>1. PICK c \in Category : job' = [job EXCEPT ![t] = [NoJob EXCEPT !.category = c]]
    BY DEF Rollback
<1>2. [NoJob EXCEPT !.category = c] \in JobType
    BY LearningAssumption DEF NoJob, JobType
<1>3. job' \in [Thread -> JobType] /\ \A u \in Thread \ {t} : job'[u] = job[u]
    BY <1>1, <1>2 DEF TypeOK
<1>4. JobFits(t)'
    BY <1>1 DEF Rollback, Goto, JobFits, TypeOK, NoJob
<1>5. Begin(t) /\ Load(t) /\ Goto(t, "saveRollback") /\ UNCHANGED <<stored, up, memory, batches, owed>>
    BY DEF Rollback
<1> QED BY <1>3, <1>4, <1>5, LoadingType DEF Step

LEMMA ToggleType ==
    ASSUME TypeOK, JobsFit, NEW t \in Thread, Toggle(t)
    PROVE  TypeOK' /\ JobsFit'
<1>1. job' \in [Thread -> JobType] /\ \A u \in Thread \ {t} : job'[u] = job[u]
    BY DEF Toggle, TypeOK
<1>2. JobFits(t)'
    BY DEF Toggle, Goto, JobFits, TypeOK
<1>3. Begin(t) /\ Load(t) /\ Goto(t, "saveToggle") /\ UNCHANGED <<stored, up, memory, batches, owed>>
    BY DEF Toggle
<1> QED BY <1>1, <1>2, <1>3, LoadingType DEF Step

LEMMA UpsertType ==
    ASSUME TypeOK, JobsFit, NEW t \in Thread, Upsert(t)
    PROVE  TypeOK' /\ JobsFit'
<1>1. file' \in ProfileType
  <2>1. PICK h \in Threshold : file' = Profile(h)
      BY DEF Upsert
  <2>2. NoSamples \in [Category -> Seq(Text)] /\ h \in 0 .. MaxThreshold
      BY LearningAssumption DEF NoSamples
  <2> QED BY <2>1, <2>2 DEF Profile, ProfileType
<1>2. requests' \in 0 .. MaxRequests
    BY Constants DEF Upsert, TypeOK
<1>3. TypeOK'
    BY <1>1, <1>2 DEF Upsert, TypeOK, memory, threads, batches
<1>4. JobsFit'
    BY DEF Upsert, threads, JobsFit, JobFits
<1> QED BY <1>3, <1>4

\* What threads hold, as NextType needs it
ThreadsFit == /\ pc \in [Thread -> Step] /\ snap \in [Thread -> ProfileType]
              /\ job \in [Thread -> JobType] /\ JobsFit

LEMMA LeaveFits ==
    ASSUME TypeOK, JobsFit, NEW t \in Thread, Leave(t)
    PROVE  ThreadsFit'
    BY LeaveType DEF ThreadsFit

\* A thread goes on with the job it has.
LEMMA GoOnFits ==
    ASSUME TypeOK, JobsFit, NEW t \in Thread, NEW s \in Step \ {"saveCommit"},
           Goto(t, s), UNCHANGED job, Load(t) \/ Forget(t) \/ UNCHANGED snap,
           s \in {"check", "add", "load", "saveSample"} =>
               job[t].text \in Text /\ job[t].category \in Category,
           s \in {"markCommitted", "saveRollback", "markRolledBack"} => job[t].category \in Category
    PROVE  ThreadsFit'
<1>1. snap' \in [Thread -> ProfileType] /\ pc' \in [Thread -> Step] /\ job' \in [Thread -> JobType]
    BY SnapType, GotoType DEF TypeOK
<1>2. JobFits(t)'
    BY DEF Goto, JobFits, TypeOK
<1>3. \A u \in Thread \ {t} : pc'[u] = pc[u] /\ snap'[u] = snap[u] /\ job'[u] = job[u]
    BY DEF Goto, Load, Forget, TypeOK
<1> QED BY <1>1, <1>2, <1>3, OtherJobsFit DEF ThreadsFit

LEMMA RaiseSteps ==
    ASSUME TypeOK, JobsFit, NEW t \in Thread,
           LoadForRaise(t) \/ SaveRaise(t) \/ ResetStats(t)
    PROVE  TypeOK' /\ JobsFit'
<1>1. CASE LoadForRaise(t)
  <2>1. ThreadsFit'
      BY <1>1, LeaveFits, GoOnFits DEF LoadForRaise, Step
  <2> QED BY <1>1, <2>1 DEF LoadForRaise, ThreadsFit, TypeOK, stored, memory, batches, history, bounds
<1>2. CASE SaveRaise(t)
  <2>1. ThreadsFit'
      BY <1>2, LeaveFits, GoOnFits DEF SaveRaise, Step
  <2>2. snap[t] \in ProfileType /\ Raised(snap[t].threshold) \in 0 .. MaxThreshold
      BY RaisedType DEF TypeOK, ProfileType
  <2>3. [snap[t] EXCEPT !.threshold = Raised(snap[t].threshold)] \in ProfileType
      BY <2>2, WithThresholdType
  <2>4. file' \in ProfileType /\ owed' \in BOOLEAN /\ (WriteFails \/ UNCHANGED bounds)
      BY <1>2, <2>3 DEF SaveRaise, TypeOK
  <2> QED
      BY <1>2, <2>1, <2>4, BoundsType DEF SaveRaise, ThreadsFit, TypeOK, memory, batches
<1>3. CASE ResetStats(t)
  <2>1. ThreadsFit'
      BY <1>3, LeaveFits, GoOnFits DEF ResetStats, Step
  <2>2. counts' \in [borderline : Nat, severe : Nat, strong : Nat] /\ drift' \in Nat
    <3>1. counts \in [borderline : Nat, severe : Nat, strong : Nat] /\ drift \in Nat /\ RaiseBy \in Nat
        BY Constants DEF TypeOK
    <3>2. CASE counts' = [counts EXCEPT !.borderline = 0] /\ drift' = drift + RaiseBy
        BY <3>1, <3>2
    <3>3. CASE counts' = [counts EXCEPT !.severe = 0] /\ UNCHANGED drift
        BY <3>1, <3>3
    <3>4. CASE counts' = [counts EXCEPT !.strong = 0] /\ UNCHANGED drift
        BY <3>1, <3>4
    <3> QED BY <1>3, <3>2, <3>3, <3>4 DEF ResetStats
  <2> QED BY <1>3, <2>1, <2>2 DEF ResetStats, ThreadsFit, TypeOK, stored, batches, history, bounds
<1> QED BY <1>1, <1>2, <1>3

LEMMA SampleSteps ==
    ASSUME TypeOK, JobsFit, NEW t \in Thread,
           CheckDuplicate(t) \/ RecordAddition(t) \/ LoadForSample(t) \/ SaveSample(t)
    PROVE  TypeOK' /\ JobsFit'
<1>1. job[t].text \in Text /\ job[t].category \in Category
    BY DEF CheckDuplicate, RecordAddition, LoadForSample, SaveSample, At, JobsFit, JobFits
<1>2. CASE CheckDuplicate(t)
  <2>1. ThreadsFit'
      BY <1>1, <1>2, LeaveFits, GoOnFits DEF CheckDuplicate, Step
  <2> QED BY <1>2, <2>1 DEF CheckDuplicate, ThreadsFit, TypeOK, stored, memory, batches, history, bounds
<1>3. CASE RecordAddition(t)
  <2>1. ThreadsFit'
      BY <1>1, <1>3, GoOnFits DEF RecordAddition, Step
  <2>2. rows' \in [Category -> Seq(Text)] /\ (WriteFails \/ UNCHANGED bounds)
    <3>1. rows \in [Category -> Seq(Text)] /\ rows[job[t].category] \in Seq(Text)
        BY <1>1 DEF TypeOK
    <3>2. Append(rows[job[t].category], job[t].text) \in Seq(Text)
        BY <1>1, <3>1
    <3>3. [rows EXCEPT ![job[t].category] = Append(rows[job[t].category], job[t].text)] \in [Category -> Seq(Text)]
        BY <3>1, <3>2
    <3> QED BY <1>3, <3>1, <3>3 DEF RecordAddition
  <2> QED
      BY <1>3, <2>1, <2>2, BoundsType DEF RecordAddition, ThreadsFit, TypeOK, memory, batches, history
<1>4. CASE LoadForSample(t)
  <2>1. ThreadsFit'
      BY <1>1, <1>4, GoOnFits DEF LoadForSample, Step
  <2> QED BY <1>4, <2>1 DEF LoadForSample, ThreadsFit, TypeOK, stored, memory, batches, history, bounds
<1>5. CASE SaveSample(t)
  <2>1. ThreadsFit'
      BY <1>1, <1>5, LeaveFits, GoOnFits DEF SaveSample, Step
  <2>2. snap[t] \in ProfileType
      BY DEF TypeOK
  <2>3. /\ Append(snap[t].pending[job[t].category], job[t].text) \in Seq(Text)
        /\ snap[t].feedback[job[t].category] \in Seq(Text)
      BY <1>1, <2>2, SampleLists
  <2>4. WithSamples(snap[t], job[t].category,
            Append(snap[t].pending[job[t].category], job[t].text),
            snap[t].feedback[job[t].category]) \in ProfileType
      BY <1>1, <2>2, <2>3, WithSamplesType
  <2>5. file' \in ProfileType /\ (WriteFails \/ UNCHANGED bounds)
      BY <1>5, <2>4 DEF SaveSample, TypeOK
  <2> QED
      BY <1>5, <2>1, <2>5, BoundsType DEF SaveSample, ThreadsFit, TypeOK, memory, batches, history
<1> QED BY <1>2, <1>3, <1>4, <1>5

LEMMA CommitSteps ==
    ASSUME TypeOK, JobsFit, NEW t \in Thread, SaveCommit(t) \/ MarkCommitted(t)
    PROVE  TypeOK' /\ JobsFit'
<1>1. job[t].category \in Category
    BY DEF SaveCommit, MarkCommitted, At, JobsFit, JobFits
<1>2. snap[t] \in ProfileType /\ job[t] \in JobType
    BY DEF TypeOK
<1> DEFINE c == job[t].category
           n == job[t].count
           p == snap[t].pending[c]
           f == snap[t].feedback[c]
<1>3. n \in Nat /\ p \in Seq(Text) /\ f \in Seq(Text)
    BY <1>1, <1>2, SampleLists DEF JobType
<1>4. CASE SaveCommit(t)
  <2>1. ThreadsFit'
      BY <1>1, <1>4, LeaveFits, GoOnFits DEF SaveCommit, Step
  <2>2. n <= Len(p)
      BY <1>1, <1>2, <1>4, CommittableBounds DEF SaveCommit, At, JobsFit, JobFits
  <2>3. SubSeq(p, n + 1, Len(p)) \in Seq(Text) /\ SubSeq(p, 1, n) \in Seq(Text)
      BY <1>3, <2>2, SubSeqType
  <2>4. f \o SubSeq(p, 1, n) \in Seq(Text)
      BY <1>3, <2>3
  <2>5. WithSamples(snap[t], c, SubSeq(p, n + 1, Len(p)), f \o SubSeq(p, 1, n)) \in ProfileType
      BY <1>1, <1>2, <2>3, <2>4, WithSamplesType
  <2>6. file' \in ProfileType /\ owed' \in BOOLEAN /\ (WriteFails \/ UNCHANGED bounds)
      BY <1>4, <2>5 DEF SaveCommit, TypeOK
  <2> QED
      BY <1>4, <2>1, <2>6, BoundsType DEF SaveCommit, ThreadsFit, TypeOK, memory, batches
<1>5. CASE MarkCommitted(t)
  <2>1. ThreadsFit'
      BY <1>5, GoOnFits DEF MarkCommitted, Step
  <2>2. rows[c] \in Seq(Text)
      BY <1>1 DEF TypeOK
  <2>3. SubSeq(rows[c], n + 1, Len(rows[c])) \in Seq(Text)
      BY <1>3, <2>2, SubSeqType
  <2>4. rows' \in [Category -> Seq(Text)] /\ (WriteFails \/ UNCHANGED bounds)
      BY <1>5, <2>3 DEF MarkCommitted, TypeOK
  <2> QED
      BY <1>5, <2>1, <2>4, BoundsType DEF MarkCommitted, ThreadsFit, TypeOK, memory, batches, history
<1> QED BY <1>4, <1>5

LEMMA RollbackSteps ==
    ASSUME TypeOK, JobsFit, NEW t \in Thread, SaveRollback(t) \/ MarkRolledBack(t)
    PROVE  TypeOK' /\ JobsFit'
<1>1. job[t].category \in Category /\ snap[t] \in ProfileType
    BY DEF SaveRollback, MarkRolledBack, At, JobsFit, JobFits, TypeOK
<1>2. CASE SaveRollback(t)
  <2>1. ThreadsFit'
      BY <1>1, <1>2, LeaveFits, GoOnFits DEF SaveRollback, Step
  <2>2. WithSamples(snap[t], job[t].category, <<>>, snap[t].feedback[job[t].category]) \in ProfileType
    <3>1. <<>> \in Seq(Text) /\ snap[t].feedback[job[t].category] \in Seq(Text)
        BY <1>1, SampleLists
    <3> QED BY <1>1, <3>1, WithSamplesType
  <2>3. file' \in ProfileType /\ (WriteFails \/ UNCHANGED bounds)
      BY <1>2, <2>2 DEF SaveRollback, TypeOK
  <2> QED
      BY <1>2, <2>1, <2>3, BoundsType DEF SaveRollback, ThreadsFit, TypeOK, memory, batches, history
<1>3. CASE MarkRolledBack(t)
  <2>1. ThreadsFit'
      BY <1>3, LeaveFits DEF MarkRolledBack
  <2>2. rows' \in [Category -> Seq(Text)] /\ (WriteFails \/ UNCHANGED bounds)
    <3>1. rows \in [Category -> Seq(Text)] /\ <<>> \in Seq(Text)
        BY DEF TypeOK
    <3>2. [rows EXCEPT ![job[t].category] = <<>>] \in [Category -> Seq(Text)]
        BY <1>1, <3>1
    <3> QED BY <1>3, <3>1, <3>2 DEF MarkRolledBack
  <2> QED
      BY <1>3, <2>1, <2>2, BoundsType DEF MarkRolledBack, ThreadsFit, TypeOK, memory, batches, history
<1> QED BY <1>2, <1>3

LEMMA LastSteps ==
    ASSUME TypeOK, JobsFit, NEW t \in Thread,
           ScheduleRecompute(t) \/ SaveState(t) \/ SaveToggle(t)
    PROVE  TypeOK' /\ JobsFit'
<1>1. CASE ScheduleRecompute(t)
  <2>1. ThreadsFit'
      BY <1>1, GoOnFits DEF ScheduleRecompute, Step
  <2> QED BY <1>1, <2>1 DEF ScheduleRecompute, ThreadsFit, TypeOK, stored, batches, history, bounds
<1>2. CASE SaveState(t)
  <2>1. ThreadsFit' /\ saved' \in BOOLEAN /\ (WriteFails \/ UNCHANGED bounds)
      BY <1>2, LeaveFits DEF SaveState, TypeOK
  <2> QED BY <1>2, <2>1, BoundsType DEF SaveState, ThreadsFit, TypeOK, memory, batches, history
<1>3. CASE SaveToggle(t)
  <2>1. ThreadsFit' /\ file' \in ProfileType
      BY <1>3, LeaveFits DEF SaveToggle, TypeOK
  <2> QED BY <1>3, <2>1 DEF SaveToggle, ThreadsFit, TypeOK, memory, batches, history, bounds
<1> QED BY <1>1, <1>2, <1>3

LEMMA ProcessSteps ==
    ASSUME TypeOK, JobsFit,
           \/ \E r \in Runner : ProcessBatch(r)
           \/ Decay \/ Reload \/ Crash \/ StartProcess
    PROVE  TypeOK' /\ JobsFit'
<1>1. ASSUME NEW r \in Runner, TakeBatch(r) PROVE TypeOK' /\ JobsFit'
    BY <1>1 DEF TakeBatch, GotoBatch, TypeOK, JobsFit, JobFits, stored, threads, history, bounds
<1>2. ASSUME NEW r \in Runner, SaveBatch(r) PROVE TypeOK' /\ JobsFit'
  <2>1. saved' \in BOOLEAN /\ (WriteFails \/ UNCHANGED bounds)
      BY <1>2 DEF SaveBatch, TypeOK
  <2> QED
      BY <1>2, <2>1, BoundsType DEF SaveBatch, GotoBatch, TypeOK, JobsFit, JobFits, memory, threads, history
<1>3. ASSUME NEW r \in Runner, ClearCache(r) PROVE TypeOK' /\ JobsFit'
    BY <1>3 DEF ClearCache, GotoBatch, TypeOK, JobsFit, JobFits, stored, threads, bounds
<1>4. CASE Decay
  <2>1. counts' \in [borderline : Nat, severe : Nat, strong : Nat]
      BY <1>4 DEF Decay, TypeOK
  <2> QED BY <1>4, <2>1 DEF Decay, TypeOK, JobsFit, JobFits, stored, threads, batches, history, bounds
<1>5. CASE Reload
    BY <1>5 DEF Reload, TypeOK, JobsFit, JobFits, stored, threads, batches, history, bounds
<1>6. CASE Crash
  <2>1. NoSamples \in [Category -> Seq(Text)]
      BY DEF NoSamples
  <2>2. NoProfile \in ProfileType /\ NoJob \in JobType
      BY <2>1, Constants DEF NoProfile, Profile, ProfileType, NoJob, JobType
  <2>3. /\ pc' \in [Thread -> Step] /\ snap' \in [Thread -> ProfileType]
        /\ job' \in [Thread -> JobType]
      BY <1>6, <2>2 DEF Crash, Step
  <2>4. /\ batch' \in [Runner -> {"idle", "persist", "clear"}] /\ inHand' \in [Runner -> BOOLEAN]
        /\ counts' \in [borderline : Nat, severe : Nat, strong : Nat] /\ drift' \in Nat
      BY <1>6 DEF Crash, NoCounts
  <2>5. crashes' \in 0 .. MaxCrashes /\ disturbed' \in BOOLEAN
      BY <1>6, Constants DEF Crash, TypeOK
  <2>6. TypeOK'
      BY <1>6, <2>3, <2>4, <2>5 DEF Crash, TypeOK, stored
  <2>7. JobsFit'
      BY <1>6 DEF Crash, JobsFit, JobFits
  <2> QED BY <2>6, <2>7
<1>7. CASE StartProcess
    BY <1>7 DEF StartProcess, TypeOK, JobsFit, JobFits, stored, threads, batches, history, bounds
<1> QED BY <1>1, <1>2, <1>3, <1>4, <1>5, <1>6, <1>7 DEF ProcessBatch

LEMMA NextType == TypeOK /\ JobsFit /\ [Next]_vars => TypeOK' /\ JobsFit'
<1> SUFFICES ASSUME TypeOK, JobsFit, [Next]_vars PROVE TypeOK' /\ JobsFit'
    OBVIOUS
<1>1. ASSUME NEW t \in Thread, Request(t) PROVE TypeOK' /\ JobsFit'
    BY <1>1, VoteType, CommitType, RollbackType, ToggleType, UpsertType DEF Request
<1>2. ASSUME NEW t \in Thread, Continue(t) PROVE TypeOK' /\ JobsFit'
    BY <1>2, RecordType, RaiseSteps, SampleSteps, CommitSteps, RollbackSteps, LastSteps DEF Continue
<1>3. CASE UNCHANGED vars
    BY <1>3 DEF vars, stored, memory, threads, batches, history, bounds, TypeOK, JobsFit, JobFits
<1> QED BY <1>1, <1>2, <1>3, ProcessSteps DEF Next

\* The state of the learning is of the declared types: thresholds never leave
\* 0 .. MaxThreshold, and the samples of every profile loaded or saved are texts.
THEOREM TypeCorrect == Spec => []TypeOK
<1>1. TypeOK /\ JobsFit /\ [Next]_vars => (TypeOK /\ JobsFit)'
    BY NextType
<1> QED BY InitType, <1>1, PTL DEF Spec

-----------------------------------------------------------------------------
\* The recomputation queue

\* A thread that raises the threshold has no category in hand, and a batch
\* that holds the profile is under way.
RaisesFit  == \A t \in Thread : pc[t] \in {"raise", "saveRaise"} => job[t].category = "none"
BatchesFit == \A r \in Runner : inHand[r] => batch[r] # "idle"

\* A crash drops the vectors, so nothing is owed while the process is down.
DownFits == ~up => ~owed

LEMMA RaisesFitStep ==
    ASSUME TypeOK, RaisesFit, [Next]_vars
    PROVE  RaisesFit'
<1>1. ASSUME NEW t \in Thread, Request(t) PROVE RaisesFit'
    BY <1>1 DEF Request, Vote, Commit, Rollback, Toggle, Upsert, Goto, RaisesFit, TypeOK, threads
<1>2. ASSUME NEW t \in Thread, RecordFeedback(t) PROVE RaisesFit'
    BY <1>2 DEF RecordFeedback, Leave, Goto, RaisesFit, TypeOK, NoJob
<1>3. ASSUME NEW t \in Thread, LoadForRaise(t) \/ SaveRaise(t) \/ ResetStats(t) PROVE RaisesFit'
    BY <1>3 DEF LoadForRaise, SaveRaise, ResetStats, At, Leave, Goto, RaisesFit, TypeOK, NoJob
<1>4. ASSUME NEW t \in Thread,
             CheckDuplicate(t) \/ RecordAddition(t) \/ LoadForSample(t) \/ SaveSample(t)
      PROVE  RaisesFit'
    BY <1>4 DEF CheckDuplicate, RecordAddition, LoadForSample, SaveSample, Leave, Goto,
                RaisesFit, TypeOK, NoJob
<1>5. ASSUME NEW t \in Thread,
             SaveCommit(t) \/ MarkCommitted(t) \/ SaveRollback(t) \/ MarkRolledBack(t)
      PROVE  RaisesFit'
    BY <1>5 DEF SaveCommit, MarkCommitted, SaveRollback, MarkRolledBack, Leave, Goto,
                RaisesFit, TypeOK, NoJob
<1>6. ASSUME NEW t \in Thread, ScheduleRecompute(t) \/ SaveState(t) \/ SaveToggle(t)
      PROVE  RaisesFit'
    BY <1>6 DEF ScheduleRecompute, SaveState, SaveToggle, Leave, Goto, RaisesFit, TypeOK, NoJob
<1>7. ASSUME NEW r \in Runner, ProcessBatch(r) PROVE RaisesFit'
    BY <1>7 DEF ProcessBatch, TakeBatch, SaveBatch, ClearCache, RaisesFit, threads
<1>8. CASE Decay \/ Reload \/ Crash \/ StartProcess \/ UNCHANGED vars
    BY <1>8 DEF Decay, Reload, Crash, StartProcess, RaisesFit, threads, vars
<1> QED BY <1>1, <1>2, <1>3, <1>4, <1>5, <1>6, <1>7, <1>8 DEF Next, Continue

LEMMA BatchesFitStep ==
    ASSUME TypeOK, BatchesFit, [Next]_vars
    PROVE  BatchesFit'
<1>1. ASSUME NEW t \in Thread, Request(t) \/ Continue(t) PROVE UNCHANGED batches
    BY <1>1 DEF Request, Vote, Commit, Rollback, Toggle, Upsert, Continue, RecordFeedback,
                LoadForRaise, SaveRaise, ResetStats, CheckDuplicate, RecordAddition,
                LoadForSample, SaveSample, SaveCommit, MarkCommitted, SaveRollback,
                MarkRolledBack, ScheduleRecompute, SaveState, SaveToggle
<1>2. ASSUME NEW r \in Runner, ProcessBatch(r) PROVE BatchesFit'
    BY <1>2 DEF ProcessBatch, TakeBatch, SaveBatch, ClearCache, AtBatch, GotoBatch, BatchesFit, TypeOK
<1>3. CASE Decay \/ Reload \/ Crash \/ StartProcess \/ UNCHANGED vars
    BY <1>3 DEF Decay, Reload, Crash, StartProcess, BatchesFit, batches, vars
<1> QED BY <1>1, <1>2, <1>3 DEF Next, BatchesFit, batches

LEMMA DownFitsStep ==
    ASSUME TypeOK, DownFits, [Next]_vars
    PROVE  DownFits'
<1>1. ASSUME NEW t \in Thread, Request(t) \/ Continue(t) PROVE up /\ up' = up
    BY <1>1 DEF Request, Vote, Commit, Rollback, Toggle, Upsert, Begin, At, Continue,
                RecordFeedback, LoadForRaise, SaveRaise, ResetStats, CheckDuplicate,
                RecordAddition, LoadForSample, SaveSample, SaveCommit, MarkCommitted,
                SaveRollback, MarkRolledBack, ScheduleRecompute, SaveState, SaveToggle
<1>2. ASSUME NEW r \in Runner, ProcessBatch(r) PROVE up /\ up' = up
    BY <1>2 DEF ProcessBatch, TakeBatch, SaveBatch, ClearCache, AtBatch
<1>3. CASE Decay \/ Reload \/ Crash \/ StartProcess \/ UNCHANGED vars
    BY <1>3 DEF Decay, Reload, Crash, StartProcess, DownFits, history, vars
<1> QED BY <1>1, <1>2, <1>3 DEF Next, DownFits

LEMMA RecomputeStep ==
    ASSUME TypeOK, RaisesFit, BatchesFit, DownFits, RecomputeIsComing, [Next]_vars
    PROVE  RecomputeIsComing'
<1> USE DEF RecomputeIsComing, Scheduling
<1>1. ASSUME NEW t \in Thread, Request(t) PROVE RecomputeIsComing'
    BY <1>1 DEF Request, Vote, Commit, Rollback, Toggle, Upsert, Begin, At, Goto, TypeOK,
                memory, threads, batches
<1>2. ASSUME NEW t \in Thread, RecordFeedback(t) PROVE RecomputeIsComing'
    BY <1>2 DEF RecordFeedback, At, Leave, Goto, TypeOK, batches, history
<1>3. ASSUME NEW t \in Thread, LoadForRaise(t) PROVE RecomputeIsComing'
    BY <1>3 DEF LoadForRaise, At, Leave, Goto, TypeOK, memory, batches, history
<1>4. ASSUME NEW t \in Thread, SaveRaise(t) PROVE RecomputeIsComing'
  <2>1. job[t].category = "none"
      BY <1>4 DEF SaveRaise, At, RaisesFit
  <2>2. CASE pc'[t] = "reset" /\ job' = job
      BY <2>1, <2>2
  <2>3. CASE WriteFails /\ Leave(t) /\ UNCHANGED <<file, owed>>
      BY <1>4, <2>3 DEF SaveRaise, At, Leave, Goto, TypeOK, memory, batches
  <2> QED BY <1>4, <2>2, <2>3 DEF SaveRaise, Goto, TypeOK
<1>5. ASSUME NEW t \in Thread, ResetStats(t) PROVE RecomputeIsComing'
  <2>1. CASE pc'[t] = "schedule"
      BY <2>1
  <2>2. CASE job[t].category # "none" /\ Leave(t)
      BY <1>5, <2>2 DEF ResetStats, At, Leave, Goto, TypeOK, batches, history
  <2> QED BY <1>5, <2>1, <2>2 DEF ResetStats, Goto, TypeOK
<1>6. ASSUME NEW t \in Thread,
             CheckDuplicate(t) \/ RecordAddition(t) \/ LoadForSample(t) \/ SaveSample(t)
      PROVE  RecomputeIsComing'
    BY <1>6 DEF CheckDuplicate, RecordAddition, LoadForSample, SaveSample, At, Leave, Goto,
                TypeOK, memory, batches, history
<1>7. ASSUME NEW t \in Thread, SaveCommit(t) PROVE RecomputeIsComing'
  <2>1. CASE pc'[t] = "markCommitted"
      BY <2>1
  <2>2. CASE WriteFails /\ Leave(t) /\ UNCHANGED <<file, owed>>
      BY <1>7, <2>2 DEF SaveCommit, At, Leave, Goto, TypeOK, memory, batches
  <2> QED BY <1>7, <2>1, <2>2 DEF SaveCommit, Goto, TypeOK
<1>8. ASSUME NEW t \in Thread, MarkCommitted(t) PROVE RecomputeIsComing'
  <2>1. pc'[t] = "schedule"
      BY <1>8 DEF MarkCommitted, Goto, TypeOK
  <2> QED BY <2>1
<1>9. ASSUME NEW t \in Thread,
             SaveRollback(t) \/ MarkRolledBack(t) \/ SaveState(t) \/ SaveToggle(t)
      PROVE  RecomputeIsComing'
    BY <1>9 DEF SaveRollback, MarkRolledBack, SaveState, SaveToggle, At, Leave, Goto, TypeOK,
                memory, batches, history
<1>10. ASSUME NEW t \in Thread, ScheduleRecompute(t) PROVE RecomputeIsComing'
    BY <1>10 DEF ScheduleRecompute
<1>11. ASSUME NEW r \in Runner, TakeBatch(r) PROVE RecomputeIsComing'
    BY <1>11 DEF TakeBatch, AtBatch, BatchesFit, TypeOK, threads, history
<1>12. ASSUME NEW r \in Runner, SaveBatch(r) PROVE RecomputeIsComing'
    BY <1>12 DEF SaveBatch, memory, threads, history
<1>13. ASSUME NEW r \in Runner, ClearCache(r) PROVE RecomputeIsComing'
    BY <1>13 DEF ClearCache
<1>14. CASE Decay \/ Reload \/ UNCHANGED vars
    BY <1>14 DEF Decay, Reload, threads, batches, history, memory, vars
<1>15. CASE Crash
    BY <1>15 DEF Crash
<1>16. CASE StartProcess
    BY <1>16 DEF StartProcess, DownFits, history
<1> QED
    BY <1>1, <1>2, <1>3, <1>4, <1>5, <1>6, <1>7, <1>8, <1>9, <1>10, <1>11, <1>12, <1>13, <1>14, <1>15, <1>16
       DEF Next, Continue, ProcessBatch

\* A change that learning has made to a profile is never forgotten while the
\* process runs: its vectors are dropped, or a thread or a batch is about to
\* see to it, or it is queued.
THEOREM ChangesAreScheduled == Spec => []RecomputeIsComing
<1> DEFINE IInv == /\ TypeOK /\ JobsFit /\ RaisesFit /\ BatchesFit /\ DownFits
                   /\ RecomputeIsComing
<1>1. Init => IInv
    BY InitType DEF Init, RaisesFit, BatchesFit, DownFits, RecomputeIsComing
<1>2. IInv /\ [Next]_vars => IInv'
    BY NextType, RaisesFitStep, BatchesFitStep, DownFitsStep, RecomputeStep
<1>3. IInv => RecomputeIsComing
    OBVIOUS
<1> QED BY <1>1, <1>2, <1>3, PTL DEF Spec

LEMMA QueueStep ==
    ASSUME TypeOK, QueueSurvives, [Next]_vars
    PROVE  QueueSurvives'
<1> USE DEF QueueSurvives
<1>1. WriteFails => faults' # 0
    BY Constants DEF WriteFails, TypeOK
<1>2. ASSUME NEW t \in Thread, Request(t) PROVE QueueSurvives'
    BY <1>2 DEF Request, Vote, Commit, Rollback, Toggle, Upsert, Begin, At, Goto, TypeOK,
                stored, memory, threads, batches
<1>3. ASSUME NEW t \in Thread, RecordFeedback(t) \/ LoadForRaise(t) \/ ResetStats(t)
      PROVE  QueueSurvives'
    BY <1>3 DEF RecordFeedback, LoadForRaise, ResetStats, At, Leave, Goto, TypeOK,
                stored, memory, batches, bounds
<1>4. ASSUME NEW t \in Thread, SaveRaise(t) \/ SaveSample(t) \/ SaveCommit(t) \/ SaveRollback(t)
      PROVE  QueueSurvives'
    BY <1>1, <1>4 DEF SaveRaise, SaveSample, SaveCommit, SaveRollback, At, Leave, Goto, TypeOK,
                memory, batches, bounds
<1>5. ASSUME NEW t \in Thread, CheckDuplicate(t) \/ LoadForSample(t) \/ SaveToggle(t)
      PROVE  QueueSurvives'
    BY <1>5 DEF CheckDuplicate, LoadForSample, SaveToggle, At, Leave, Goto, TypeOK,
                stored, memory, batches, bounds
<1>6. ASSUME NEW t \in Thread, RecordAddition(t) \/ MarkCommitted(t) \/ MarkRolledBack(t)
      PROVE  QueueSurvives'
    BY <1>1, <1>6 DEF RecordAddition, MarkCommitted, MarkRolledBack, At, Leave, Goto, TypeOK,
                memory, batches, bounds
<1>7. ASSUME NEW t \in Thread, ScheduleRecompute(t) PROVE QueueSurvives'
  <2>1. pc'[t] = "persist"
      BY <1>7 DEF ScheduleRecompute, Goto, TypeOK
  <2> QED BY <2>1
<1>8. ASSUME NEW t \in Thread, SaveState(t) PROVE QueueSurvives'
    BY <1>1, <1>8 DEF SaveState, memory
<1>9. ASSUME NEW r \in Runner, TakeBatch(r) PROVE QueueSurvives'
  <2>1. batch'[r] = "persist"
      BY <1>9 DEF TakeBatch, GotoBatch, TypeOK
  <2> QED BY <2>1
<1>10. ASSUME NEW r \in Runner, SaveBatch(r) PROVE QueueSurvives'
    BY <1>1, <1>10 DEF SaveBatch, memory
<1>11. ASSUME NEW r \in Runner, ClearCache(r) PROVE QueueSurvives'
    BY <1>11 DEF ClearCache, AtBatch, GotoBatch, TypeOK, stored, threads, bounds
<1>12. CASE Decay \/ Reload \/ UNCHANGED vars
    BY <1>12 DEF Decay, Reload, stored, threads, batches, bounds, memory, vars
<1>13. CASE Crash
    BY <1>13 DEF Crash
<1>14. CASE StartProcess
    BY <1>14 DEF StartProcess, stored
<1> QED
    BY <1>2, <1>3, <1>4, <1>5, <1>6, <1>7, <1>8, <1>9, <1>10, <1>11, <1>12, <1>13, <1>14
       DEF Next, Continue, ProcessBatch

\* While no write has failed, the queue a restart would read is the queue in
\* memory, or somebody is about to write it.
THEOREM QueueIsKept == Spec => []QueueSurvives
<1> DEFINE IInv == TypeOK /\ JobsFit /\ QueueSurvives
<1>1. Init => IInv
    BY InitType DEF Init, QueueSurvives
<1>2. IInv /\ [Next]_vars => IInv'
    BY NextType, QueueStep
<1>3. IInv => QueueSurvives
    OBVIOUS
<1> QED BY <1>1, <1>2, <1>3, PTL DEF Spec

-----------------------------------------------------------------------------
\* The caps

\* Every profile that a thread has loaded respects the cap on samples.
Capped(p)  == \A c \in Category : Len(p.feedback[c]) <= MaxSamples
SnapCapped == \A t \in Thread : Capped(snap[t])

LEMMA NewProfileCapped ==
    \A h \in 0 .. MaxThreshold : Profile(h) \in ProfileType /\ Capped(Profile(h))
<1>1. NoSamples \in [Category -> Seq(Text)] /\ \A c \in Category : NoSamples[c] = <<>>
    BY DEF NoSamples
<1>2. Len(<<>>) = 0
    OBVIOUS
<1> QED BY <1>1, <1>2, Constants DEF Profile, ProfileType, Capped

LEMMA NoProfileCapped == NoProfile \in ProfileType /\ Capped(NoProfile)
    BY NewProfileCapped, Constants DEF NoProfile

\* Other samples of one category leave the other category as it was.
LEMMA WithSamplesCapped ==
    ASSUME NEW p \in ProfileType, Capped(p), NEW c \in Category,
           NEW s \in Seq(Text), NEW u \in Seq(Text), Len(u) <= MaxSamples
    PROVE  Capped(WithSamples(p, c, s, u))
<1>1. p.feedback \in [Category -> Seq(Text)] /\ p.pending \in [Category -> Seq(Text)]
    BY DEF ProfileType
<1>2. WithSamples(p, c, s, u).feedback = [p.feedback EXCEPT ![c] = u]
  <2> DEFINE pending  == [p.pending EXCEPT ![c] = s]
             feedback == [p.feedback EXCEPT ![c] = u]
  <2>1. WithSamples(p, c, s, u) = [p EXCEPT !.pending = pending, !.feedback = feedback]
      BY DEF WithSamples
  <2> HIDE DEF pending, feedback
  <2>2. WithSamples(p, c, s, u).feedback = feedback
      BY <2>1 DEF ProfileType
  <2> QED BY <2>2 DEF feedback
<1> QED BY <1>1, <1>2 DEF Capped

\* What threads do to the profiles they hold
LEMMA HeldCapped ==
    ASSUME TypeOK, Capped(file), SnapCapped, NEW t \in Thread,
           Load(t) \/ Forget(t) \/ UNCHANGED snap
    PROVE  SnapCapped'
    BY NoProfileCapped DEF Load, Forget, SnapCapped, Capped, TypeOK

LEMMA CappedStep ==
    ASSUME TypeOK, JobsFit, Capped(file), SnapCapped, [Next]_vars
    PROVE  Capped(file)' /\ SnapCapped'
<1>1. ASSUME file' = file, SnapCapped' PROVE Capped(file)' /\ SnapCapped'
    BY <1>1 DEF Capped
<1>2. ASSUME NEW t \in Thread, Vote(t) \/ Commit(t) \/ Rollback(t) \/ Toggle(t)
      PROVE  Capped(file)' /\ SnapCapped'
    BY <1>1, <1>2, HeldCapped DEF Vote, Commit, Rollback, Toggle, stored
<1>3. ASSUME NEW t \in Thread, Upsert(t) PROVE Capped(file)' /\ SnapCapped'
  <2>1. PICK h \in Threshold : file' = Profile(h)
      BY <1>3 DEF Upsert
  <2>2. Capped(Profile(h))
      BY NewProfileCapped, LearningAssumption
  <2> QED BY <1>3, <2>1, <2>2 DEF Upsert, threads, SnapCapped, Capped
<1>4. ASSUME NEW t \in Thread,
             \/ RecordFeedback(t) \/ LoadForRaise(t) \/ ResetStats(t) \/ CheckDuplicate(t)
             \/ RecordAddition(t) \/ LoadForSample(t) \/ MarkCommitted(t) \/ MarkRolledBack(t)
             \/ ScheduleRecompute(t) \/ SaveState(t)
      PROVE  Capped(file)' /\ SnapCapped'
    BY <1>1, <1>4, HeldCapped
       DEF RecordFeedback, LoadForRaise, ResetStats, CheckDuplicate, RecordAddition, LoadForSample,
           MarkCommitted, MarkRolledBack, ScheduleRecompute, SaveState, Leave, stored
<1>5. ASSUME NEW t \in Thread, SaveRaise(t) PROVE Capped(file)' /\ SnapCapped'
  <2> DEFINE raised == [snap[t] EXCEPT !.threshold = Raised(snap[t].threshold)]
  <2>1. SnapCapped'
      BY <1>5, HeldCapped DEF SaveRaise, Leave
  <2>2. raised.feedback = snap[t].feedback
      BY DEF TypeOK, ProfileType
  <2>3. Capped(raised)
      BY <2>2 DEF SnapCapped, Capped
  <2>4. file' = raised \/ file' = file
      BY <1>5 DEF SaveRaise
  <2> QED BY <2>1, <2>3, <2>4 DEF Capped
<1>6. ASSUME NEW t \in Thread, SaveSample(t) PROVE Capped(file)' /\ SnapCapped'
  <2> DEFINE c == job[t].category
             s == Append(snap[t].pending[c], job[t].text)
  <2>1. c \in Category /\ job[t].text \in Text /\ snap[t] \in ProfileType /\ Capped(snap[t])
      BY <1>6 DEF SaveSample, At, JobsFit, JobFits, SnapCapped, TypeOK
  <2>2. /\ snap[t].pending[c] \in Seq(Text) /\ snap[t].feedback[c] \in Seq(Text)
        /\ Len(snap[t].feedback[c]) <= MaxSamples
      BY <2>1, SampleLists DEF Capped
  <2>3. s \in Seq(Text)
      BY <2>1, <2>2
  <2>4. Capped(WithSamples(snap[t], c, s, snap[t].feedback[c]))
      BY <2>1, <2>2, <2>3, WithSamplesCapped
  <2>5. SnapCapped'
      BY <1>6, HeldCapped DEF SaveSample, Leave
  <2>6. file' = WithSamples(snap[t], c, s, snap[t].feedback[c]) \/ file' = file
      BY <1>6 DEF SaveSample
  <2> QED BY <2>4, <2>5, <2>6 DEF Capped
<1>7. ASSUME NEW t \in Thread, SaveCommit(t) PROVE Capped(file)' /\ SnapCapped'
  <2> DEFINE c == job[t].category
             n == job[t].count
             pending  == snap[t].pending[c]
             feedback == snap[t].feedback[c]
             moved == feedback \o SubSeq(pending, 1, n)
             left  == SubSeq(pending, n + 1, Len(pending))
  <2>1. c \in Category /\ n = Committable(snap[t], c) /\ snap[t] \in ProfileType /\ Capped(snap[t])
      BY <1>7 DEF SaveCommit, At, JobsFit, JobFits, SnapCapped, TypeOK
  <2>2. pending \in Seq(Text) /\ feedback \in Seq(Text) /\ Len(feedback) <= MaxSamples
      BY <2>1, SampleLists DEF Capped
  <2>3. n \in Nat /\ n <= Len(pending) /\ Len(feedback) + n <= MaxSamples
      BY <2>1, <2>2, CommittableBounds
  <2>4. SubSeq(pending, 1, n) \in Seq(Text) /\ left \in Seq(Text)
      BY <2>2, <2>3, SubSeqType
  <2>5. Len(SubSeq(pending, 1, n)) = n
      BY <2>2, <2>3
  <2> HIDE DEF c, n, pending, feedback, left
  <2>6. moved \in Seq(Text) /\ Len(moved) <= MaxSamples
      BY <2>2, <2>3, <2>4, <2>5, Constants
  <2> HIDE DEF moved
  <2>7. Capped(WithSamples(snap[t], c, left, moved))
      BY <2>1, <2>4, <2>6, WithSamplesCapped
  <2>8. SnapCapped'
      BY <1>7, HeldCapped DEF SaveCommit, Leave
  <2>9. file' = WithSamples(snap[t], c, left, moved) \/ file' = file
      BY <1>7 DEF SaveCommit, c, n, pending, feedback, left, moved
  <2> QED BY <2>7, <2>8, <2>9 DEF Capped
<1>8. ASSUME NEW t \in Thread, SaveRollback(t) PROVE Capped(file)' /\ SnapCapped'
  <2> DEFINE c == job[t].category
  <2>1. c \in Category /\ snap[t] \in ProfileType /\ Capped(snap[t]) /\ <<>> \in Seq(Text)
      BY <1>8 DEF SaveRollback, At, JobsFit, JobFits, SnapCapped, TypeOK
  <2>2. snap[t].feedback[c] \in Seq(Text) /\ Len(snap[t].feedback[c]) <= MaxSamples
      BY <2>1, SampleLists DEF Capped
  <2>3. Capped(WithSamples(snap[t], c, <<>>, snap[t].feedback[c]))
      BY <2>1, <2>2, WithSamplesCapped
  <2>4. SnapCapped'
      BY <1>8, HeldCapped DEF SaveRollback, Leave
  <2>5. file' = WithSamples(snap[t], c, <<>>, snap[t].feedback[c]) \/ file' = file
      BY <1>8 DEF SaveRollback
  <2> QED BY <2>3, <2>4, <2>5 DEF Capped
<1>9. ASSUME NEW t \in Thread, SaveToggle(t) PROVE Capped(file)' /\ SnapCapped'
  <2>1. SnapCapped' /\ file' = snap[t]
      BY <1>9, HeldCapped DEF SaveToggle, Leave
  <2> QED BY <2>1 DEF SnapCapped, Capped
<1>10. ASSUME NEW r \in Runner, ProcessBatch(r) PROVE Capped(file)' /\ SnapCapped'
    BY <1>10 DEF ProcessBatch, TakeBatch, SaveBatch, ClearCache, stored, threads, SnapCapped, Capped
<1>11. CASE Decay \/ Reload \/ StartProcess \/ UNCHANGED vars
    BY <1>11 DEF Decay, Reload, StartProcess, stored, threads, vars, SnapCapped, Capped
<1>12. CASE Crash
    BY <1>12, NoProfileCapped DEF Crash, stored, SnapCapped, Capped
<1> QED
    BY <1>2, <1>3, <1>4, <1>5, <1>6, <1>7, <1>8, <1>9, <1>10, <1>11, <1>12
       DEF Next, Request, Continue

\* Commits never leave more than max_feedback_samples in a category, whatever
\* the threads that write the file had loaded before.
THEOREM CommitsAreCapped == Spec => []SamplesCapped
<1> DEFINE IInv == TypeOK /\ JobsFit /\ Capped(file) /\ SnapCapped
<1>1. Init => IInv
    BY InitType, NewProfileCapped, NoProfileCapped, LearningAssumption DEF Init, SnapCapped
<1>2. IInv /\ [Next]_vars => IInv'
    BY NextType, CappedStep
<1>3. IInv => SamplesCapped
    BY DEF Capped, SamplesCapped
<1> QED BY <1>1, <1>2, <1>3, PTL DEF Spec

LEMMA RaisingFinite ==
    /\ Cardinality(Thread) \in Nat
    /\ IsFiniteSet(Raising) /\ Cardinality(Raising) \in Nat
<1>1. Raising \in SUBSET Thread
    BY DEF Raising
<1> QED BY <1>1, LearningAssumption, FS_Subset, FS_CardinalityType

\* More raises at work cost at least as much drift.
LEMMA RaisesCost ==
    ASSUME NEW k \in Nat, NEW n \in Nat, k <= n
    PROVE  /\ RaiseBy * k \in Nat /\ RaiseBy * n \in Nat
           /\ RaiseBy * k <= RaiseBy * n
           /\ RaiseBy * (k + 1) = RaiseBy * k + RaiseBy
<1>1. RaiseBy \in Nat
    BY Constants
<1>2. n - k \in Nat /\ RaiseBy * (n - k) \in Nat
    BY <1>1
<1>3. RaiseBy * n = RaiseBy * k + RaiseBy * (n - k)
    BY <1>1, <1>2
<1> QED BY <1>1, <1>2, <1>3

\* A step that begins no raise and counts none keeps the bound.
LEMMA NoNewRaise ==
    ASSUME TypeOK, DriftBounded, Raising' \subseteq Raising, drift' = drift
    PROVE  DriftBounded'
<1> DEFINE k == Cardinality(Raising')
           n == Cardinality(Raising)
<1>1. k \in Nat /\ n \in Nat /\ k <= n
  <2>1. Raising' \in SUBSET Raising
      OBVIOUS
  <2> QED BY <2>1, RaisingFinite, FS_Subset, FS_CardinalityType
<1>2. drift \in Nat /\ Cardinality(Thread) \in Nat
    BY RaisingFinite DEF TypeOK
<1> HIDE DEF k, n
<1>3. RaiseBy * k <= RaiseBy * n /\ RaiseBy * k \in Nat /\ RaiseBy * n \in Nat
    BY <1>1, RaisesCost
<1>4. MaxDrift + RaiseBy * (Cardinality(Thread) - 1) \in Int
    BY <1>2, Constants
<1>5. drift + RaiseBy * n <= MaxDrift + RaiseBy * (Cardinality(Thread) - 1)
    BY DEF DriftBounded, n
<1>6. drift + RaiseBy * k <= MaxDrift + RaiseBy * (Cardinality(Thread) - 1)
    BY <1>2, <1>3, <1>4, <1>5
<1> QED BY <1>6 DEF DriftBounded, k

\* A raise is recommended only while there is room for it.
LEMMA RaiseRecommended ==
    ASSUME TypeOK, NEW t \in Thread, RecordFeedback(t), t \in Raising'
    PROVE  drift + RaiseBy <= MaxDrift /\ drift' = drift /\ Raising' \subseteq Raising \cup {t}
<1>1. Recommendation(counts') = "raise"
    BY DEF RecordFeedback, Raising, At, Leave, Goto, TypeOK, Category
<1>2. drift + RaiseBy <= MaxDrift
    BY <1>1 DEF Recommendation
<1> QED BY <1>2 DEF RecordFeedback, Raising, At, Leave, Goto, TypeOK

LEMMA DriftStep ==
    ASSUME TypeOK, JobsFit, RaisesFit, DriftBounded, [Next]_vars
    PROVE  DriftBounded'
<1>1. ASSUME NEW t \in Thread, Request(t) PROVE DriftBounded'
  <2>1. Raising' \subseteq Raising /\ drift' = drift
      BY <1>1 DEF Request, Vote, Commit, Rollback, Toggle, Upsert, Goto, Raising, TypeOK,
                  memory, threads
  <2> QED BY <2>1, NoNewRaise
<1>2. ASSUME NEW t \in Thread, RecordFeedback(t) PROVE DriftBounded'
  <2>1. CASE t \notin Raising'
    <3>1. Raising' \subseteq Raising /\ drift' = drift
        BY <1>2, <2>1 DEF RecordFeedback, Raising, Leave, Goto, TypeOK
    <3> QED BY <3>1, NoNewRaise
  <2>2. CASE t \in Raising'
    <3> DEFINE k == Cardinality(Raising')
               m == Cardinality(Thread)
    <3>1. drift + RaiseBy <= MaxDrift /\ drift' = drift
        BY <1>2, <2>2, RaiseRecommended
    <3>2. k \in Nat /\ m \in Nat /\ k <= m
      <4>1. Raising' \in SUBSET Thread
          BY DEF Raising
      <4> QED BY <4>1, LearningAssumption, FS_Subset, FS_CardinalityType
    <3>3. drift \in Nat /\ MaxDrift \in Nat /\ RaiseBy \in Nat
        BY Constants DEF TypeOK
    <3> HIDE DEF k, m
    <3>4. RaiseBy * k <= RaiseBy * m /\ RaiseBy * k \in Nat /\ RaiseBy * m \in Nat
        BY <3>2, RaisesCost
    <3>5. RaiseBy * (m - 1) = RaiseBy * m - RaiseBy
        BY <3>2, <3>3
    <3>6. drift + RaiseBy * k <= MaxDrift + RaiseBy * (m - 1)
        BY <3>1, <3>3, <3>4, <3>5
    <3> QED BY <3>1, <3>6 DEF DriftBounded, k, m
  <2> QED BY <2>1, <2>2
<1>3. ASSUME NEW t \in Thread, LoadForRaise(t) \/ SaveRaise(t) PROVE DriftBounded'
  <2>1. Raising' \subseteq Raising /\ drift' = drift
      BY <1>3 DEF LoadForRaise, SaveRaise, At, Leave, Goto, Raising, TypeOK, memory
  <2> QED BY <2>1, NoNewRaise
<1>4. ASSUME NEW t \in Thread, ResetStats(t) PROVE DriftBounded'
  <2>1. CASE job[t].category # "none"
    <3>1. Raising' \subseteq Raising /\ drift' = drift
        BY <1>4, <2>1 DEF ResetStats, At, Leave, Goto, Raising, TypeOK
    <3> QED BY <3>1, NoNewRaise
  <2>2. CASE job[t].category = "none"
    <3> DEFINE k == Cardinality(Raising')
               m == Cardinality(Thread)
    <3>1. t \in Raising /\ Raising' = Raising \ {t} /\ drift' = drift + RaiseBy
        BY <1>4, <2>2 DEF ResetStats, At, Goto, Raising, TypeOK, Category
    <3>2. k \in Nat /\ m \in Nat /\ Cardinality(Raising) = k + 1
      <4>1. IsFiniteSet(Raising) /\ Cardinality(Raising) \in Nat /\ m \in Nat
          BY RaisingFinite
      <4>2. /\ IsFiniteSet(Raising \ {t})
            /\ Cardinality(Raising \ {t}) = Cardinality(Raising) - 1
          BY <3>1, <4>1, FS_RemoveElement
      <4>3. Cardinality(Raising \ {t}) \in Nat
          BY <4>2, FS_CardinalityType
      <4> QED BY <3>1, <4>1, <4>2, <4>3
    <3>3. drift \in Nat /\ MaxDrift \in Nat /\ RaiseBy \in Nat
        BY Constants DEF TypeOK
    <3>4. drift + RaiseBy * Cardinality(Raising) <= MaxDrift + RaiseBy * (m - 1)
        BY DEF DriftBounded
    <3> HIDE DEF k, m
    <3>5. RaiseBy * (k + 1) = RaiseBy * k + RaiseBy /\ RaiseBy * k \in Nat
        BY <3>2, RaisesCost
    <3>6. RaiseBy * (m - 1) \in Int
        BY <3>2, <3>3
    <3>7. drift' + RaiseBy * k <= MaxDrift + RaiseBy * (m - 1)
        BY <3>1, <3>2, <3>3, <3>4, <3>5, <3>6
    <3> QED BY <3>7 DEF DriftBounded, k, m
  <2> QED BY <2>1, <2>2
<1>5. ASSUME NEW t \in Thread,
             CheckDuplicate(t) \/ RecordAddition(t) \/ LoadForSample(t) \/ SaveSample(t)
      PROVE  DriftBounded'
  <2>1. Raising' \subseteq Raising /\ drift' = drift
    <3>1. CASE CheckDuplicate(t) \/ RecordAddition(t) \/ LoadForSample(t)
        BY <3>1 DEF CheckDuplicate, RecordAddition, LoadForSample, At, Leave, Goto, Raising,
                    TypeOK, memory
    <3>2. CASE SaveSample(t)
      <4>1. job[t].category # "none"
          BY <3>2 DEF SaveSample, At, JobsFit, JobFits, Category
      <4> QED BY <3>2, <4>1 DEF SaveSample, At, Leave, Goto, Raising, TypeOK, memory
    <3> QED BY <1>5, <3>1, <3>2
  <2> QED BY <2>1, NoNewRaise
<1>6. ASSUME NEW t \in Thread,
             \/ SaveCommit(t) \/ MarkCommitted(t) \/ SaveRollback(t) \/ MarkRolledBack(t)
             \/ ScheduleRecompute(t) \/ SaveState(t) \/ SaveToggle(t)
      PROVE  DriftBounded'
  <2>1. Raising' \subseteq Raising /\ drift' = drift
      BY <1>6 DEF SaveCommit, MarkCommitted, SaveRollback, MarkRolledBack, ScheduleRecompute,
                  SaveState, SaveToggle, At, Leave, Goto, Raising, TypeOK, memory
  <2> QED BY <2>1, NoNewRaise
<1>7. ASSUME NEW r \in Runner, ProcessBatch(r) PROVE DriftBounded'
  <2>1. Raising' \subseteq Raising /\ drift' = drift
      BY <1>7 DEF ProcessBatch, TakeBatch, SaveBatch, ClearCache, Raising, memory, threads
  <2> QED BY <2>1, NoNewRaise
<1>8. CASE Decay \/ Reload \/ StartProcess \/ UNCHANGED vars
  <2>1. Raising' \subseteq Raising /\ drift' = drift
      BY <1>8 DEF Decay, Reload, StartProcess, Raising, memory, threads, vars
  <2> QED BY <2>1, NoNewRaise
<1>9. CASE Crash
  <2>1. Raising' = {} /\ drift' = 0
      BY <1>9 DEF Crash, Raising
  <2>2. Cardinality(Raising') = 0
      BY <2>1, FS_EmptySet
  <2>3. MaxDrift + RaiseBy * (Cardinality(Thread) - 1) >= 0
    <3>1. Cardinality(Thread) - 1 \in Nat
        BY LearningAssumption, FS_EmptySet, FS_CardinalityType
    <3>2. RaiseBy * (Cardinality(Thread) - 1) \in Nat
        BY <3>1, Constants
    <3> QED BY <3>2, Constants
  <2> QED BY <2>1, <2>2, <2>3, Constants DEF DriftBounded
<1> QED
    BY <1>1, <1>2, <1>3, <1>4, <1>5, <1>6, <1>7, <1>8, <1>9 DEF Next, Continue

\* The drift of the threshold exceeds the cap by at most one raise for every
\* thread but one, so that it keeps to the cap where requests come one by one.
THEOREM DriftIsBounded == Spec => []DriftBounded
<1> DEFINE IInv == TypeOK /\ JobsFit /\ RaisesFit /\ DriftBounded
<1>1. Init => IInv
  <2> SUFFICES ASSUME Init PROVE IInv
      OBVIOUS
  <2>1. Raising = {} /\ drift = 0
      BY DEF Init, Raising
  <2>2. Cardinality(Raising) = 0
      BY <2>1, FS_EmptySet
  <2>3. Cardinality(Thread) - 1 \in Nat
      BY LearningAssumption, FS_EmptySet, FS_CardinalityType
  <2>4. RaiseBy * (Cardinality(Thread) - 1) \in Nat
      BY <2>3, Constants
  <2>5. DriftBounded
      BY <2>1, <2>2, <2>4, Constants DEF DriftBounded
  <2>6. RaisesFit
      BY DEF Init, RaisesFit
  <2> QED BY <2>5, <2>6, InitType
<1>2. IInv /\ [Next]_vars => IInv'
    BY NextType, RaisesFitStep, DriftStep
<1>3. IInv => DriftBounded
    OBVIOUS
<1> QED BY <1>1, <1>2, <1>3, PTL DEF Spec

-----------------------------------------------------------------------------
\* The rows and the file in step: while requests are answered one at a time
\* and every write succeeds, the rows differ from the samples of the file only
\* by what the one request in progress has still to write, and what it loaded
\* is what the file still holds.

OthersIdle(t) == \A u \in Thread \ {t} : pc[u] = "idle"

RowsFollow(t) ==
    LET c == job[t].category IN
    /\ pc[t] \in {"saveRaise", "saveSample", "saveCommit", "saveRollback", "saveToggle"} =>
           snap[t] = file
    /\ pc[t] \in {"load", "saveSample"} =>
           rows = [file.pending EXCEPT ![c] = Append(@, job[t].text)]
    /\ pc[t] = "markCommitted" =>
           file.pending = [rows EXCEPT ![c] = SubSeq(@, job[t].count + 1, Len(@))]
    /\ pc[t] = "markRolledBack" => file.pending = [rows EXCEPT ![c] = <<>>]
    /\ pc[t] \notin {"load", "saveSample", "markCommitted", "markRolledBack"} =>
           rows = file.pending

InStep == (~disturbed /\ faults = 0) => \E t \in Thread : OthersIdle(t) /\ RowsFollow(t)

\* What WithSamples makes of the lists of pending samples
LEMMA WithSamplesPending ==
    ASSUME NEW p \in ProfileType, NEW c \in Category, NEW s, NEW u
    PROVE  WithSamples(p, c, s, u).pending = [p.pending EXCEPT ![c] = s]
<1> DEFINE pending  == [p.pending EXCEPT ![c] = s]
           feedback == [p.feedback EXCEPT ![c] = u]
<1> HIDE DEF pending, feedback
<1>1. [p EXCEPT !.pending = pending, !.feedback = feedback].pending = pending
    BY DEF ProfileType
<1> QED BY <1>1 DEF WithSamples, pending, feedback

\* Nothing that made the comparison moot is forgotten.
LEMMA QuietBefore ==
    ASSUME TypeOK, Next, ~disturbed', faults' = 0
    PROVE  ~disturbed /\ faults = 0
<1>1. WriteFails => FALSE
    BY DEF WriteFails, TypeOK
<1>2. ASSUME NEW t \in Thread, Request(t)
      PROVE  ~disturbed /\ faults = 0
    BY <1>2 DEF Request, Vote, Commit, Rollback, Toggle, Upsert, Begin, TypeOK
<1>3. ASSUME NEW t \in Thread, Continue(t)
      PROVE  ~disturbed /\ faults = 0
    BY <1>1, <1>3 DEF Continue, RecordFeedback, LoadForRaise, SaveRaise, ResetStats, CheckDuplicate,
        RecordAddition, LoadForSample, SaveSample, SaveCommit, MarkCommitted, SaveRollback,
        MarkRolledBack, ScheduleRecompute, SaveState, SaveToggle, history, bounds
<1>4. ASSUME NEW r \in Runner, ProcessBatch(r)
      PROVE  ~disturbed /\ faults = 0
    BY <1>1, <1>4 DEF ProcessBatch, TakeBatch, SaveBatch, ClearCache, history, bounds
<1>5. CASE Decay \/ Reload \/ Crash \/ StartProcess
    BY <1>5 DEF Decay, Reload, Crash, StartProcess, history, bounds, TypeOK
<1> QED BY <1>2, <1>3, <1>4, <1>5 DEF Next

\* A request begins only where every thread is idle, and with what it loads.
LEMMA BeginsInStep ==
    ASSUME TypeOK, InStep, ~disturbed, faults = 0, ~disturbed',
           NEW t \in Thread, Begin(t), Load(t), UNCHANGED stored,
           NEW s \in {"record", "saveCommit", "saveRollback", "saveToggle"}, Goto(t, s)
    PROVE  InStep'
<1>1. \A u \in Thread : pc[u] = "idle"
    BY DEF Begin, At, TypeOK
<1>2. rows = file.pending
    BY <1>1 DEF InStep, RowsFollow
<1>3. pc'[t] = s /\ snap'[t] = file /\ file' = file /\ rows' = rows
    BY DEF Goto, Load, stored, TypeOK
<1>4. OthersIdle(t)'
    BY <1>1 DEF Goto, OthersIdle, TypeOK
<1>5. RowsFollow(t)'
    BY <1>2, <1>3 DEF RowsFollow
<1> QED BY <1>4, <1>5 DEF InStep

\* The one thread that is not idle takes its request a step further.
LEMMA ContinuesInStep ==
    ASSUME TypeOK, JobsFit, InStep, ~disturbed, faults = 0, faults' = 0,
           NEW t \in Thread, Continue(t)
    PROVE  InStep'
<1>1. ~WriteFails
    BY DEF WriteFails
<1>2. pc[t] # "idle"
    BY DEF Continue, At, RecordFeedback, LoadForRaise, SaveRaise, ResetStats, CheckDuplicate,
        RecordAddition, LoadForSample, SaveSample, SaveCommit, MarkCommitted, SaveRollback,
        MarkRolledBack, ScheduleRecompute, SaveState, SaveToggle
<1>3. OthersIdle(t) /\ RowsFollow(t)
    BY <1>2 DEF InStep, OthersIdle
<1>4. OthersIdle(t)'
  <2>1. \E s : Goto(t, s)
      BY DEF Continue, Leave, RecordFeedback, LoadForRaise, SaveRaise, ResetStats, CheckDuplicate,
          RecordAddition, LoadForSample, SaveSample, SaveCommit, MarkCommitted, SaveRollback,
          MarkRolledBack, ScheduleRecompute, SaveState, SaveToggle
  <2> QED BY <1>3, <2>1 DEF Goto, OthersIdle, TypeOK
<1>5. snap[t] \in ProfileType /\ file \in ProfileType /\ job[t] \in JobType
    BY DEF TypeOK
<1> SUFFICES RowsFollow(t)'
    BY <1>4 DEF InStep
<1> DEFINE c == job[t].category
<1>6. CASE RecordFeedback(t) \/ LoadForRaise(t) \/ ResetStats(t) \/ CheckDuplicate(t)
  <2>1. rows' = file'.pending
      BY <1>3, <1>6 DEF RowsFollow, At, RecordFeedback, LoadForRaise, ResetStats, CheckDuplicate, stored
  <2>2. /\ pc'[t] \in {"idle", "raise", "check", "saveRaise", "schedule", "add"}
        /\ pc'[t] = "saveRaise" => snap'[t] = file'
      BY <1>6 DEF RecordFeedback, LoadForRaise, ResetStats, CheckDuplicate, Leave, Goto, Load,
          stored, TypeOK
  <2> QED BY <2>1, <2>2 DEF RowsFollow
<1>7. CASE SaveRaise(t)
  <2>1. snap[t] = file /\ rows = file.pending
      BY <1>3, <1>7 DEF RowsFollow, SaveRaise, At
  <2>2. file'.pending = file.pending /\ rows' = rows /\ pc'[t] = "reset"
      BY <1>1, <1>5, <1>7, <2>1 DEF SaveRaise, Goto, ProfileType, TypeOK
  <2> QED BY <2>1, <2>2 DEF RowsFollow
<1>8. CASE RecordAddition(t)
  <2>1. rows = file.pending
      BY <1>3, <1>8 DEF RowsFollow, RecordAddition, At
  <2>2. /\ rows' = [rows EXCEPT ![c] = Append(@, job[t].text)]
        /\ file' = file /\ job' = job /\ pc'[t] = "load"
      BY <1>1, <1>8 DEF RecordAddition, Goto, TypeOK
  <2> QED BY <2>1, <2>2 DEF RowsFollow
<1>9. CASE LoadForSample(t)
  <2>1. /\ pc'[t] = "saveSample" /\ snap'[t] = file
        /\ file' = file /\ rows' = rows /\ job' = job
      BY <1>9 DEF LoadForSample, Load, Goto, stored, TypeOK
  <2>2. rows = [file.pending EXCEPT ![c] = Append(@, job[t].text)]
      BY <1>3, <1>9 DEF RowsFollow, LoadForSample, At
  <2> QED BY <2>1, <2>2 DEF RowsFollow
<1>10. CASE SaveSample(t)
  <2>1. snap[t] = file /\ rows = [file.pending EXCEPT ![c] = Append(@, job[t].text)]
      BY <1>3, <1>10 DEF RowsFollow, SaveSample, At
  <2>2. c \in Category
      BY <1>10 DEF SaveSample, At, JobsFit, JobFits
  <2> DEFINE more == Append(file.pending[c], job[t].text)
  <2>3. /\ file' = WithSamples(file, c, more, file.feedback[c])
        /\ rows' = rows /\ pc'[t] = "reset"
      BY <1>1, <1>10, <2>1 DEF SaveSample, Goto, TypeOK
  <2>4. file'.pending = [file.pending EXCEPT ![c] = more]
    <3> HIDE DEF more
    <3> QED BY <1>5, <2>2, <2>3, WithSamplesPending
  <2>5. file'.pending = rows'
      BY <2>1, <2>3, <2>4
  <2> QED BY <2>3, <2>5 DEF RowsFollow
<1>11. CASE SaveCommit(t)
  <2>1. snap[t] = file /\ rows = file.pending
      BY <1>3, <1>11 DEF RowsFollow, SaveCommit, At
  <2>2. c \in Category
      BY <1>11 DEF SaveCommit, At, JobsFit, JobFits
  <2> DEFINE left == SubSeq(file.pending[c], job[t].count + 1, Len(file.pending[c]))
             kept == file.feedback[c] \o SubSeq(file.pending[c], 1, job[t].count)
  <2>3. /\ file' = WithSamples(file, c, left, kept)
        /\ rows' = rows /\ job' = job /\ pc'[t] = "markCommitted"
      BY <1>1, <1>11, <2>1 DEF SaveCommit, Goto, TypeOK
  <2>4. file'.pending = [file.pending EXCEPT ![c] = left]
    <3> HIDE DEF left, kept
    <3> QED BY <1>5, <2>2, <2>3, WithSamplesPending
  <2>5. file'.pending = [rows' EXCEPT ![c] = SubSeq(@, job[t].count + 1, Len(@))]
      BY <2>1, <2>2, <2>3, <2>4
  <2> QED BY <2>3, <2>5 DEF RowsFollow
<1>12. CASE MarkCommitted(t)
  <2>1. file.pending = [rows EXCEPT ![c] = SubSeq(@, job[t].count + 1, Len(@))]
      BY <1>3, <1>12 DEF RowsFollow, MarkCommitted, At
  <2>2. /\ rows' = [rows EXCEPT ![c] = SubSeq(rows[c], job[t].count + 1, Len(rows[c]))]
        /\ file' = file /\ pc'[t] = "schedule"
      BY <1>1, <1>12 DEF MarkCommitted, Goto, TypeOK
  <2> QED BY <2>1, <2>2 DEF RowsFollow
<1>13. CASE SaveRollback(t)
  <2>1. snap[t] = file /\ rows = file.pending
      BY <1>3, <1>13 DEF RowsFollow, SaveRollback, At
  <2>2. c \in Category
      BY <1>13 DEF SaveRollback, At, JobsFit, JobFits
  <2>3. /\ file' = WithSamples(file, c, <<>>, file.feedback[c])
        /\ rows' = rows /\ job' = job /\ pc'[t] = "markRolledBack"
      BY <1>1, <1>13, <2>1 DEF SaveRollback, Goto, TypeOK
  <2>4. file'.pending = [file.pending EXCEPT ![c] = <<>>]
      BY <1>5, <2>2, <2>3, WithSamplesPending
  <2> QED BY <2>1, <2>3, <2>4 DEF RowsFollow
<1>14. CASE MarkRolledBack(t)
  <2>1. file.pending = [rows EXCEPT ![c] = <<>>]
      BY <1>3, <1>14 DEF RowsFollow, MarkRolledBack, At
  <2>2. rows' = [rows EXCEPT ![c] = <<>>] /\ file' = file /\ pc'[t] = "idle"
      BY <1>1, <1>14 DEF MarkRolledBack, Leave, Goto, TypeOK
  <2> QED BY <2>1, <2>2 DEF RowsFollow
<1>15. CASE ScheduleRecompute(t) \/ SaveState(t)
  <2>1. rows' = rows /\ file' = file /\ rows = file.pending
      BY <1>3, <1>15 DEF RowsFollow, At, ScheduleRecompute, SaveState, stored
  <2>2. pc'[t] \in {"persist", "idle"}
      BY <1>15 DEF ScheduleRecompute, SaveState, Leave, Goto, TypeOK
  <2> QED BY <2>1, <2>2 DEF RowsFollow
<1>16. CASE SaveToggle(t)
  <2>1. rows = file.pending /\ rows' = rows /\ file' = file
      BY <1>3, <1>16 DEF RowsFollow, At, SaveToggle
  <2>2. pc'[t] = "idle"
      BY <1>16 DEF SaveToggle, Leave, Goto, TypeOK
  <2> QED BY <2>1, <2>2 DEF RowsFollow
<1> QED
    BY <1>6, <1>7, <1>8, <1>9, <1>10, <1>11, <1>12, <1>13, <1>14, <1>15, <1>16 DEF Continue

LEMMA InStepStep == TypeOK /\ JobsFit /\ InStep /\ [Next]_vars => InStep'
<1> SUFFICES ASSUME TypeOK, JobsFit, InStep, [Next]_vars, ~disturbed', faults' = 0
             PROVE  InStep'
    BY DEF InStep
<1>1. CASE UNCHANGED vars
    BY <1>1 DEF vars, stored, threads, history, bounds, InStep, OthersIdle, RowsFollow
<1> SUFFICES ASSUME Next PROVE InStep'
    BY <1>1
<1>2. ~disturbed /\ faults = 0
    BY QuietBefore
<1>3. ASSUME NEW t \in Thread, Request(t)
      PROVE  InStep'
  <2>1. CASE Vote(t)
      BY <1>2, <2>1, BeginsInStep DEF Vote
  <2>2. CASE Commit(t)
      BY <1>2, <2>2, BeginsInStep DEF Commit
  <2>3. CASE Rollback(t)
      BY <1>2, <2>3, BeginsInStep DEF Rollback
  <2>4. CASE Toggle(t)
      BY <1>2, <2>4, BeginsInStep DEF Toggle
  <2>5. CASE Upsert(t)
      BY <2>5 DEF Upsert
  <2> QED BY <1>3, <2>1, <2>2, <2>3, <2>4, <2>5 DEF Request
<1>4. ASSUME NEW t \in Thread, Continue(t)
      PROVE  InStep'
    BY <1>2, <1>4, ContinuesInStep
<1>5. ASSUME UNCHANGED <<file, rows>>, UNCHANGED threads
      PROVE  InStep'
    BY <1>2, <1>5 DEF threads, InStep, OthersIdle, RowsFollow
<1>6. ASSUME NEW r \in Runner, ProcessBatch(r)
      PROVE  InStep'
    BY <1>5, <1>6 DEF ProcessBatch, TakeBatch, SaveBatch, ClearCache, stored
<1>7. CASE Decay \/ Reload \/ StartProcess
    BY <1>5, <1>7 DEF Decay, Reload, StartProcess, stored
<1>8. CASE Crash
  <2>1. (\A t \in Thread : pc[t] = "idle") /\ file' = file /\ rows' = rows
      BY <1>8 DEF Crash, stored, TypeOK
  <2>2. rows = file.pending
      BY <1>2, <2>1 DEF InStep, RowsFollow
  <2>3. \A t \in Thread : pc'[t] = "idle"
      BY <1>8 DEF Crash
  <2>4. \A t \in Thread : OthersIdle(t)' /\ RowsFollow(t)'
      BY <2>1, <2>2, <2>3 DEF OthersIdle, RowsFollow
  <2> QED BY <2>4, LearningAssumption DEF InStep
<1> QED BY <1>3, <1>4, <1>6, <1>7, <1>8 DEF Next

\* What the user reviews is what a commit moves, whatever votes, partial
\* commits and rollbacks came before, and however many texts and however much room there
\* are.
THEOREM ReviewIsOfTheFile == Spec => []ReviewedIsCommitted
<1> DEFINE IInv == TypeOK /\ JobsFit /\ InStep
<1>1. Init => IInv
  <2> SUFFICES ASSUME Init PROVE InStep
      BY InitType
  <2>1. rows = file.pending /\ \A t \in Thread : pc[t] = "idle"
      BY DEF Init, Profile
  <2>2. \A t \in Thread : OthersIdle(t) /\ RowsFollow(t)
      BY <2>1 DEF OthersIdle, RowsFollow
  <2> QED BY <2>2, LearningAssumption DEF InStep
<1>2. IInv /\ [Next]_vars => IInv'
    BY NextType, InStepStep
<1>3. IInv => ReviewedIsCommitted
    BY DEF InStep, RowsFollow, ReviewedIsCommitted
<1> QED BY <1>1, <1>2, <1>3, PTL DEF Spec

=============================================================================
