-------------------------- MODULE MCDesiredVowifi --------------------------
(* One request of the user, two recoveries, the removal of a card. *)
EXTENDS DesiredVowifi
=============================================================================
