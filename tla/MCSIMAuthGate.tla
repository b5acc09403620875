--------------------------- MODULE MCSIMAuthGate ---------------------------
(* Small instance of SIMAuthGate for TLC. *)
EXTENDS SIMAuthGate, TLC

CONSTANTS w1, w2, w3
=============================================================================
