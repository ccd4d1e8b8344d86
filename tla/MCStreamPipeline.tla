-------------------------- MODULE MCStreamPipeline --------------------------
(***************************************************************************)
(* Small instances of StreamPipeline: one channel message and one direct   *)
(* message, so that the stream can hold the two copies of the latter next  *)
(* to the former.                                                          *)
(***************************************************************************)
EXTENDS StreamPipeline

CONSTANTS channelMsg, directMsg

MCMessage == {channelMsg, directMsg}
MCDirectMessage == {directMsg}
AllOutcomes == Verdict
=============================================================================
