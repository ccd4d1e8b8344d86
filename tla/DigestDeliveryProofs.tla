------------------------ MODULE DigestDeliveryProofs ------------------------
(***************************************************************************)
(* A scheduled digest brings a message once per creation of its row and    *)
(* per lost marking, for any messages, schedules, windows and limits.      *)
(***************************************************************************)
EXTENDS DigestDelivery, TLAPS

\* The row of m may still be collected, or has been and is not yet sent.
Collectable(m) ==
    \/ m \in present \ processed
    \/ pc["loop"] = "send" /\ m \in collected["loop"]

\* The row of m has been sent, and its marking is still to come.
AwaitsMark(m) == pc["loop"] = "mark" /\ m \in collected["loop"]

ChosenAmongCollected == \A r \in Runner : chosen[r] \subseteq collected[r]

\* What makes DigestedOncePerRow inductive: before a row is sent again there
\* is one creation or one lost marking that no digest has used up.
OneInHand ==
    \A m \in Message :
        (Collectable(m) /\ ~AwaitsMark(m)) => digested[m] < inserted[m] + unmarked[m]

IInv == TypeOK /\ ChosenAmongCollected /\ DigestedOncePerRow /\ OneInHand

LEMMA InitIInv == Init => IInv
<1> SUFFICES ASSUME Init PROVE IInv
    OBVIOUS
<1> USE DeliveryAssumption DEF Init, Runner, Manual
<1>1. TypeOK
    BY DEF TypeOK, MaxAge
<1>2. ChosenAmongCollected /\ DigestedOncePerRow /\ OneInHand
    BY DEF ChosenAmongCollected, DigestedOncePerRow, OneInHand, Collectable,
           AwaitsMark
<1> QED BY <1>1, <1>2 DEF IInv

\* Type correctness, one step per action (every write to the messages table
\* and to a run's locals).
LEMMA NextType == TypeOK /\ [Next]_vars => TypeOK'
<1> SUFFICES ASSUME TypeOK, [Next]_vars PROVE TypeOK'
    OBVIOUS
<1> USE DeliveryAssumption DEF TypeOK, MaxAge, rows, runs, history, bounds, vars
<1>1. ASSUME NEW m \in Message, UpsertMessage(m) PROVE TypeOK'
    BY <1>1 DEF UpsertMessage
<1>2. ASSUME NEW m \in Message, MarkForInterestFeed(m) PROVE TypeOK'
    BY <1>2 DEF MarkForInterestFeed
<1>3. CASE Elapse
    BY <1>3 DEF Elapse
<1>4. CASE CleanUp
  <2> DEFINE young == {m \in present :
                         age[m] < IF Flags(m) > 0 THEN KeepFlagged ELSE Retention}
  <2>1. PICK kept \in SUBSET young :
            /\ present' = kept
            /\ flagged' = flagged \cap kept
            /\ processed' = processed \cap kept
            /\ UNCHANGED <<age, runs, history, bounds>>
      BY <1>4 DEF CleanUp
  <2>2. kept \subseteq present
      BY <2>1
  <2> HIDE DEF young
  <2> QED BY <2>1, <2>2
<1>5. ASSUME NEW r \in Runner, NEW s \in Slot \cup {Manual},
             NEW found \in SUBSET Message, StartRun(r, s, found)
      PROVE pc' \in [Runner -> {"idle", "send", "mark"}]
            /\ slot' \in [Runner -> Slot \cup {Manual}]
            /\ collected' \in [Runner -> SUBSET Message]
            /\ chosen' \in [Runner -> SUBSET Message]
            /\ UNCHANGED <<rows, history>>
  <2>1. PICK top \in Top(found) : chosen' = [chosen EXCEPT ![r] = top]
      BY <1>5 DEF StartRun
  <2>2. top \subseteq Message
      BY DEF Top
  <2> QED BY <1>5, <2>1, <2>2 DEF StartRun
<1>6. ASSUME NEW s \in Slot, RunSchedule(s) PROVE TypeOK'
  <2>1. Eligible(s) \in SUBSET Message
      BY DEF Eligible
  <2>2. StartRun("loop", s, Eligible(s)) /\ UNCHANGED bounds
      BY <1>6 DEF RunSchedule
  <2> QED BY <2>1, <2>2, <1>5 DEF Runner
<1>7. CASE TriggerManually
  <2>1. StartRun("manual", Manual, flagged)
      BY <1>7 DEF TriggerManually
  <2>2. triggers' \in Nat /\ UNCHANGED <<crashes, faults>>
      BY <1>7 DEF TriggerManually
  <2>3. flagged \in SUBSET Message
      OBVIOUS
  <2> QED BY <2>1, <2>2, <2>3, <1>5 DEF Runner
<1>8. ASSUME NEW r \in Runner, SendDigest(r) PROVE TypeOK'
    BY <1>8 DEF SendDigest, Runner
<1>9. ASSUME NEW r \in Runner, MarkAsProcessed(r) PROVE TypeOK'
    BY <1>9 DEF MarkAsProcessed, EndRun, Runner
<1>10. ASSUME NEW r \in Runner, MarkingRaises(r) PROVE TypeOK'
    BY <1>10 DEF MarkingRaises, EndRun, Forget, Runner
<1>11. CASE Crash
    BY <1>11 DEF Crash, Forget, Runner
<1>12. CASE UNCHANGED vars
    BY <1>12
<1> QED BY <1>1, <1>2, <1>3, <1>4, <1>6, <1>7, <1>8, <1>9, <1>10, <1>11, <1>12
        DEF Next, FinishRun

\* collect_for_profiles and get_top_messages: what a new run holds.
LEMMA StartRunEffect ==
    ASSUME TypeOK, NEW r \in Runner, NEW s, NEW found \in SUBSET Message,
           StartRun(r, s, found)
    PROVE  /\ pc[r] = "idle"
           /\ pc' = [pc EXCEPT ![r] = "send"]
           /\ collected' = [collected EXCEPT ![r] = found]
           /\ \E top \in SUBSET found : chosen' = [chosen EXCEPT ![r] = top]
           /\ UNCHANGED <<rows, history>>
BY DEF StartRun, Top

LEMMA NextChosen ==
    TypeOK /\ ChosenAmongCollected /\ [Next]_vars => ChosenAmongCollected'
<1> SUFFICES ASSUME TypeOK, ChosenAmongCollected, [Next]_vars
             PROVE  ChosenAmongCollected'
    OBVIOUS
<1> USE DEF ChosenAmongCollected, Runner, runs, vars
<1>1. /\ collected \in [Runner -> SUBSET Message]
      /\ chosen \in [Runner -> SUBSET Message]
    BY DEF TypeOK
<1>2. ASSUME UNCHANGED <<collected, chosen>> PROVE ChosenAmongCollected'
    BY <1>2
<1>3. ASSUME NEW m \in Message, UpsertMessage(m) \/ MarkForInterestFeed(m)
      PROVE  ChosenAmongCollected'
    BY <1>2, <1>3 DEF UpsertMessage, MarkForInterestFeed
<1>4. CASE Elapse \/ CleanUp
    BY <1>2, <1>4 DEF Elapse, CleanUp
<1>5. ASSUME NEW r \in Runner, NEW s, NEW found \in SUBSET Message,
             StartRun(r, s, found)
      PROVE  ChosenAmongCollected'
    BY <1>1, <1>5, StartRunEffect
<1>6. ASSUME NEW s \in Slot, RunSchedule(s) PROVE ChosenAmongCollected'
  <2>1. Eligible(s) \in SUBSET Message
      BY DEF Eligible, TypeOK
  <2> QED BY <2>1, <1>5, <1>6 DEF RunSchedule
<1>7. CASE TriggerManually
  <2>1. flagged \in SUBSET Message
      BY DEF TypeOK
  <2> QED BY <2>1, <1>5, <1>7 DEF TriggerManually
<1>8. ASSUME NEW r \in Runner, SendDigest(r) PROVE ChosenAmongCollected'
    BY <1>2, <1>8 DEF SendDigest
<1>9. ASSUME NEW r \in Runner, MarkAsProcessed(r) \/ MarkingRaises(r)
      PROVE  ChosenAmongCollected'
    BY <1>1, <1>9 DEF MarkAsProcessed, MarkingRaises, EndRun
<1>10. CASE Crash
    BY <1>10 DEF Crash
<1>11. CASE UNCHANGED vars
    BY <1>2, <1>11
<1> QED BY <1>3, <1>4, <1>6, <1>7, <1>8, <1>9, <1>10, <1>11 DEF Next, FinishRun

\* The two counting invariants, one step per action.
LEMMA NextCounts == IInv /\ [Next]_vars => DigestedOncePerRow' /\ OneInHand'
<1> SUFFICES ASSUME IInv, [Next]_vars, NEW m \in Message
             PROVE  /\ (digested[m] <= inserted[m] + unmarked[m])'
                    /\ ((Collectable(m) /\ ~AwaitsMark(m))
                         => digested[m] < inserted[m] + unmarked[m])'
    BY DEF DigestedOncePerRow, OneInHand
<1> DEFINE Bound == digested[m] <= inserted[m] + unmarked[m]
           Spare == (Collectable(m) /\ ~AwaitsMark(m))
                       => digested[m] < inserted[m] + unmarked[m]
<1>1. /\ digested \in [Message -> Nat] /\ inserted \in [Message -> Nat]
      /\ unmarked \in [Message -> Nat] /\ pc \in [Runner -> {"idle", "send", "mark"}]
      /\ collected \in [Runner -> SUBSET Message]
      /\ flagged \subseteq present
    BY DEF IInv, TypeOK
<1>2. Bound /\ Spare
    BY DEF IInv, DigestedOncePerRow, OneInHand
<1>3. ChosenAmongCollected
    BY DEF IInv
<1> USE DEF Collectable, AwaitsMark, Runner
<1>4. ASSUME NEW n \in Message, UpsertMessage(n) PROVE Bound' /\ Spare'
  <2>1. UNCHANGED <<processed, pc, collected, digested, unmarked>>
      BY <1>4 DEF UpsertMessage, runs
  <2>2. CASE n \in present
      BY <1>1, <1>2, <1>4, <2>1, <2>2 DEF UpsertMessage
  <2>3. CASE n \notin present
    <3>1. /\ inserted' = [inserted EXCEPT ![n] = @ + 1]
          /\ present' = present \cup {n}
        BY <1>4, <2>3 DEF UpsertMessage
    <3>2. CASE m = n
        BY <1>1, <1>2, <2>1, <3>1, <3>2
    <3>3. CASE m # n
        BY <1>1, <1>2, <2>1, <3>1, <3>3
    <3> QED BY <3>2, <3>3
  <2> QED BY <2>2, <2>3
<1>5. ASSUME NEW n \in Message, MarkForInterestFeed(n) PROVE Bound' /\ Spare'
    BY <1>2, <1>5 DEF MarkForInterestFeed, runs, history
<1>6. CASE Elapse
    BY <1>2, <1>6 DEF Elapse, runs, history
<1>7. CASE CleanUp
  <2>1. PICK kept \in SUBSET present :
            /\ present' = kept
            /\ processed' = processed \cap kept
            /\ UNCHANGED <<age, runs, history, bounds>>
      BY <1>7 DEF CleanUp
  <2> QED BY <1>2, <2>1 DEF runs, history
<1>8. ASSUME NEW s, NEW found \in SUBSET (flagged \ processed),
             StartRun("loop", s, found)
      PROVE  Bound' /\ Spare'
  <2>1. found \in SUBSET Message /\ found \subseteq present \ processed
      BY <1>1, <1>8 DEF IInv, TypeOK
  <2>2. /\ pc["loop"] = "idle"
        /\ pc' = [pc EXCEPT !["loop"] = "send"]
        /\ collected' = [collected EXCEPT !["loop"] = found]
        /\ UNCHANGED <<rows, history>>
      BY <1>8, <2>1, StartRunEffect DEF IInv
  <2> QED BY <1>1, <1>2, <2>1, <2>2 DEF rows, history
<1>9. ASSUME NEW s \in Slot, RunSchedule(s) PROVE Bound' /\ Spare'
  <2>1. Eligible(s) \in SUBSET (flagged \ processed)
      BY DEF Eligible
  <2> QED BY <2>1, <1>8, <1>9 DEF RunSchedule
<1>10. CASE TriggerManually
  <2>1. flagged \in SUBSET Message
      BY DEF IInv, TypeOK
  <2>2. StartRun("manual", Manual, flagged)
      BY <1>10 DEF TriggerManually
  <2>3. /\ pc' = [pc EXCEPT !["manual"] = "send"]
        /\ collected' = [collected EXCEPT !["manual"] = flagged]
        /\ UNCHANGED <<rows, history>>
      BY <2>1, <2>2, StartRunEffect DEF IInv
  <2> QED BY <1>1, <1>2, <2>3 DEF rows, history
<1>11. ASSUME NEW r \in Runner, SendDigest(r) PROVE Bound' /\ Spare'
  <2>1. PICK brought \in SUBSET chosen[r] :
            digested' = [n \in Message |-> IF r = "loop" /\ n \in brought
                                           THEN digested[n] + 1 ELSE digested[n]]
      BY <1>11 DEF SendDigest
  <2>2. /\ pc[r] = "send" /\ pc' = [pc EXCEPT ![r] = "mark"]
        /\ UNCHANGED <<present, processed, collected, inserted, unmarked>>
      BY <1>11 DEF SendDigest, rows
  <2>3. brought \subseteq collected[r]
      BY <1>3, <2>1 DEF ChosenAmongCollected
  <2>4. CASE r = "loop" /\ m \in brought
      BY <1>1, <1>2, <2>1, <2>2, <2>3, <2>4
  <2>5. CASE ~(r = "loop" /\ m \in brought)
      BY <1>1, <1>2, <2>1, <2>2, <2>5
  <2> QED BY <2>4, <2>5
<1>12. ASSUME NEW r \in Runner, MarkAsProcessed(r) PROVE Bound' /\ Spare'
  <2>1. /\ pc[r] = "mark" /\ pc' = [pc EXCEPT ![r] = "idle"]
        /\ collected' = [collected EXCEPT ![r] = {}]
        /\ processed' = processed \cup (collected[r] \cap present)
        /\ UNCHANGED <<present, history>>
      BY <1>12 DEF MarkAsProcessed, EndRun
  <2> QED BY <1>1, <1>2, <2>1 DEF history
<1>13. ASSUME NEW r \in Runner, MarkingRaises(r) PROVE Bound' /\ Spare'
  <2>1. /\ pc[r] = "mark" /\ pc' = [pc EXCEPT ![r] = "idle"]
        /\ collected' = [collected EXCEPT ![r] = {}]
        /\ UNCHANGED <<rows, inserted, digested>>
        /\ unmarked'[m] = IF r = "loop" /\ m \in collected[r]
                          THEN unmarked[m] + 1 ELSE unmarked[m]
      BY <1>13 DEF MarkingRaises, EndRun, Forget
  <2> QED BY <1>1, <1>2, <2>1 DEF rows
<1>14. CASE Crash
  <2>1. /\ pc' = [r \in Runner |-> "idle"]
        /\ UNCHANGED <<rows, inserted, digested>>
        /\ unmarked'[m] = IF m \in collected["loop"]
                          THEN unmarked[m] + 1 ELSE unmarked[m]
      BY <1>14 DEF Crash, Forget
  <2> QED BY <1>1, <1>2, <2>1 DEF rows
<1>15. CASE UNCHANGED vars
    BY <1>2, <1>15 DEF vars, rows, runs, history
<1> QED BY <1>4, <1>5, <1>6, <1>7, <1>9, <1>10, <1>11, <1>12, <1>13, <1>14, <1>15
        DEF Next, FinishRun

LEMMA Inductive == Spec => []IInv
<1>1. IInv /\ [Next]_vars => IInv'
    BY NextType, NextChosen, NextCounts DEF IInv
<1> QED BY <1>1, InitIInv, PTL DEF Spec

\* The types of the messages table and of the runs hold throughout.
THEOREM TypeCorrect == Spec => []TypeOK
<1>1. IInv => TypeOK
    BY DEF IInv
<1> QED BY <1>1, Inductive, PTL

\* No scheduled digest repeats a message whose row was marked, whatever the
\* schedules, the manual digests, the retention thread and crashes do.
THEOREM DigestedOnce == Spec => []DigestedOncePerRow
<1>1. IInv => DigestedOncePerRow
    BY DEF IInv
<1> QED BY <1>1, Inductive, PTL

=============================================================================
