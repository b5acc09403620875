---------------------------- MODULE MCMbimManager ----------------------------
(* A small instance of MbimManager: a caller of any kind, two recoveries that  *)
(* may overlap, and the reconnection.                                          *)
EXTENDS MbimManager

CONSTANTS u1, r1, r2, rc
=============================================================================
