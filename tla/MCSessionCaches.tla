-------------------------- MODULE MCSessionCaches --------------------------
(***************************************************************************)
(* Instances of SessionCaches: two accounts.                               *)
(***************************************************************************)
EXTENDS SessionCaches

CONSTANTS alice, bob

MCUser == {alice, bob}
=============================================================================
