---------------------------- MODULE MCAtManager ----------------------------
(* A small instance of AtManager: a message arrives in a storage that need    *)
(* not be the one in use, one lies beside it, and one has its index in the    *)
(* other storage; a caller polls and another has something urgent.            *)
EXTENDS AtManager, TLC

CONSTANTS r1, m1, m2, p1, u1

MCPlace == r1 :> <<"SM", 1>> @@ m1 :> <<"SM", 2>> @@ m2 :> <<"ME", 1>>
=============================================================================
