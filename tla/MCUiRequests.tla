---------------------------- MODULE MCUiRequests ----------------------------
(***************************************************************************)
(* Constants for model-checking UiRequests.                                *)
(***************************************************************************)
EXTENDS UiRequests, TLC

CONSTANTS t1, t2, t3

MCThread   == {t1, t2, t3}
MCSymmetry == Permutations(MCThread)
MCStamp    == {0}

Asked == {asked[t] : t \in Thread} \ {"nothing"}
Mixed == Asked \cap Login # {} /\ ~(Asked \subseteq Login)

\* In one behaviour either a crash, or a switch of the account, or a test
\* request that is not deleted, or threads that log in beside others.
MCOneMishap ==
    crashes + switches + Cardinality({t \in Thread : kept[t] > 0})
        + (IF Mixed THEN 1 ELSE 0) <= 1

\* Threads that want neither a log-in nor a test message want the same.
MCFewKinds == Cardinality(Asked \ (Login \cup {"test"})) <= 1

=============================================================================
