---------------------------- MODULE MCMbimDevice ----------------------------
(* A small instance of MbimDevice: the goroutine that opens the endpoint and *)
(* two that send commands.                                                   *)
EXTENDS MbimDevice

CONSTANTS opener, c1, c2
AllCallers == {opener, c1, c2}
=============================================================================
