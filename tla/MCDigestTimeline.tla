-------------------------- MODULE MCDigestTimeline --------------------------
(***************************************************************************)
(* Constants for model-checking DigestTimeline.                            *)
(***************************************************************************)
EXTENDS DigestTimeline

\* Clock values a deployment may start at: off the hour before one that
\* every_4h waits for, and on the hour.
MCStart == {3 * SlotsPerHour + 1, 6 * SlotsPerHour}
\* Monday before and after the configured hour, and a Wednesday evening.
MCMonday == {0, 10, 68}

Every(s, at) == [schedule |-> s, enabled |-> TRUE, at |-> at]
Not(s, at)   == [schedule |-> s, enabled |-> FALSE, at |-> at]

\* One profile with both schedules; a channel asks for one of them as well.
MCProfiles == << <<Every("hourly", 8), Every("every_4h", 8)>>, <<>> >>
MCEntities == << <<Every("hourly", 8)>>, <<Not("every_6h", 8)>> >>

\* Two channels of three agree on the hour, one of which has the schedule
\* disabled, and the profile that has the weekly digest is not asked.
MCDailyProfiles == << <<Every("daily", 20), Every("weekly", <<3, 5>>)>> >>
MCDailyEntities == << <<Every("daily", 20)>>, <<Every("daily", 8), Not("weekly", <<0, 8>>)>>,
                      <<Not("daily", 8)>> >>

=============================================================================
