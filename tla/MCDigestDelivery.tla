-------------------------- MODULE MCDigestDelivery --------------------------
(***************************************************************************)
(* Constants for model-checking DigestDelivery: two schedules, one message *)
(* that both match and one that only the slower one does.                  *)
(***************************************************************************)
EXTENDS DigestDelivery

CONSTANTS a, b

MCMessage  == {a, b}
MCMatching == [s \in {"hourly", "daily"} |-> IF s = "hourly" THEN {a} ELSE {a, b}]
MCWindow   == [s \in {"hourly", "daily"} |-> IF s = "hourly" THEN 0 ELSE 1]

=============================================================================
