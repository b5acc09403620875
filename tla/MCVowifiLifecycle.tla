------------------------- MODULE MCVowifiLifecycle -------------------------
(* Small instances of VowifiLifecycle: three calls of the kinds a .cfg names. *)
EXTENDS VowifiLifecycle, TLC

\* Any permutation of the calls: each of them may be of any kind.
CallSymmetry == Permutations(Calls)
=============================================================================
