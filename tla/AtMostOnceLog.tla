--------------------------- MODULE AtMostOnceLog ---------------------------
(***************************************************************************)
(* What the message path promises, without saying how: entries are         *)
(* appended, taken by the one consumer, notified while they are held and   *)
(* then done; an entry that leaves this path is lost and never comes back. *)
(* It is an at-most-once log: nothing returns from "lost" to "waiting".    *)
(***************************************************************************)
EXTENDS Naturals

CONSTANT Entry

VARIABLES
    phase,      \* where each entry stands
    notices     \* how often the user was notified of it

vars == <<phase, notices>>

Phase == {"absent", "waiting", "held", "done", "lost"}

In(p) == {e \in Entry : phase[e] = p}

\* The entries of S move to phase p, the others stay.
Move(S, p) == phase' = [e \in Entry |-> IF e \in S THEN p ELSE phase[e]]

Init ==
    /\ phase = [e \in Entry |-> "absent"]
    /\ notices = [e \in Entry |-> 0]

\* Appending may push the oldest waiting entries, or the new one, out.
Append(e) ==
    /\ phase[e] = "absent"
    /\ \E dropped \in SUBSET (In("waiting") \cup {e}) :
          phase' = [f \in Entry |-> IF f \in dropped THEN "lost"
                                    ELSE IF f = e THEN "waiting"
                                    ELSE phase[f]]
    /\ UNCHANGED notices

Take ==
    /\ \E S \in SUBSET In("waiting") : S # {} /\ Move(S, "held")
    /\ UNCHANGED notices

Notify(e) ==
    /\ phase[e] = "held"
    /\ notices[e] = 0
    /\ notices' = [notices EXCEPT ![e] = 1]
    /\ UNCHANGED phase

Finish(e) ==
    /\ phase[e] = "held"
    /\ Move({e}, "done")
    /\ UNCHANGED notices

Lose ==
    /\ \E S \in SUBSET (In("waiting") \cup In("held")) :
          S # {} /\ Move(S, "lost")
    /\ UNCHANGED notices

Next ==
    \/ \E e \in Entry : Append(e) \/ Notify(e) \/ Finish(e)
    \/ Take
    \/ Lose

Spec == Init /\ [][Next]_vars

\* A finished or lost entry stays so, and is never notified again.
EndsForGood ==
    [][\A e \in Entry : phase[e] \in {"done", "lost"} =>
          phase'[e] = phase[e] /\ notices'[e] = notices[e]]_vars

=============================================================================
