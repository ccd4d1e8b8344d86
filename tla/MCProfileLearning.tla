-------------------------- MODULE MCProfileLearning --------------------------
(***************************************************************************)
(* Instances of ProfileLearning for TLC: a threshold of 42, and messages   *)
(* that score just above it and far above it. Threads are alike, and so    *)
(* are texts.                                                              *)
(***************************************************************************)
EXTENDS ProfileLearning, TLC

MCScore     == {50, 70}
MCThreshold == {42}
MCSymmetry  == Permutations(Thread) \cup Permutations(Text)
=============================================================================
