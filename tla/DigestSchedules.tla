-------------------------- MODULE DigestSchedules --------------------------
(***************************************************************************)
(* Which digest schedules a configuration asks for, and at which hour and  *)
(* day: the part of digest_scheduler.py that reads channels, users and     *)
(* profiles. Several of them may ask for a schedule at different hours; it *)
(* runs once, at the hour most of them ask for.                            *)
(*                                                                         *)
(* The digests of overrides, between the two levels, are left out: read    *)
(* from the file, overrides are dictionaries without the attribute that    *)
(* is looked for.                                                          *)
(***************************************************************************)
EXTENDS Integers, Sequences, FiniteSets

LOCAL INSTANCE SequencesExt

CONSTANTS
    EntityDigests,  \* the digests of the channels, then of the users
    ProfileDigests  \* those of the global profiles

Schedule == {"hourly", "every_4h", "every_6h", "every_12h", "daily", "weekly"}

\* The place get_due_schedules lists each of them at.
ScheduleOrder == [hourly |-> 1, every_4h |-> 2, every_6h |-> 3, every_12h |-> 4,
                  daily |-> 5, weekly |-> 6]

\* A digest has up to three settings of schedules, none if there is no digest.
Times(s) == IF s = "weekly" THEN (0..6) \X (0..23) ELSE 0..23

IsDigest(digest) ==
    /\ Len(digest) <= 3
    /\ \A i \in DOMAIN digest :
          /\ digest[i].schedule \in Schedule /\ digest[i].enabled \in BOOLEAN
          /\ digest[i].at \in Times(digest[i].schedule)

WellFormed(level) == \A i \in DOMAIN level : IsDigest(level[i])

ASSUME DigestsAssumption == WellFormed(EntityDigests) /\ WellFormed(ProfileDigests)

Default(s) == IF s = "weekly" THEN <<0, 8>> ELSE 8

\* What a level asks for, whether it has the schedule enabled or not.
AskedTimes(level, s) ==
    LET asking == SelectSeq(FlattenSeq(level), LAMBDA c : c.schedule = s)
    IN  [i \in DOMAIN asking |-> asking[i].at]

\* Counter(times).most_common(1): of those asked for most often, the first.
Consensus(times) ==
    LET Votes(i) == Cardinality({j \in DOMAIN times : times[j] = times[i]})
        First(i) == /\ \A j \in DOMAIN times : Votes(j) <= Votes(i)
                    /\ \A j \in 1..(i - 1) : Votes(j) < Votes(i)
    IN  times[CHOOSE i \in DOMAIN times : First(i)]

\* Channels and users go before profiles.
TimeOf(s) ==
    LET levels == <<AskedTimes(EntityDigests, s), AskedTimes(ProfileDigests, s)>>
    IN  IF levels[1] # <<>> THEN Consensus(levels[1])
        ELSE IF levels[2] # <<>> THEN Consensus(levels[2])
        ELSE Default(s)

DailyHour  == TimeOf("daily")
WeeklyDay  == TimeOf("weekly")[1]
WeeklyHour == TimeOf("weekly")[2]

\* Only those that have it enabled get a digest of the schedule.
Enables(digest, s) == \E i \in DOMAIN digest : digest[i].schedule = s /\ digest[i].enabled

Discovered(s) ==
    {<<"profile", i>> : i \in {j \in DOMAIN ProfileDigests : Enables(ProfileDigests[j], s)}}
    \cup {<<"entity", i>> : i \in {j \in DOMAIN EntityDigests : Enables(EntityDigests[j], s)}}

=============================================================================
