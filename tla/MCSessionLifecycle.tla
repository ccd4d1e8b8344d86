------------------------- MODULE MCSessionLifecycle -------------------------
(***************************************************************************)
(* Instances of SessionLifecycle: two accounts, model values without       *)
(* names of their own in the code.                                         *)
(***************************************************************************)
EXTENDS SessionLifecycle

CONSTANTS alice, bob

MCUser == {alice, bob}
=============================================================================
