-------------------------- MODULE MCEsimOperations --------------------------
(* Small instances of EsimOperations for TLC: what two calls ask for; the reloader
   is the third goroutine. *)
EXTENDS EsimOperations, TLC

CONSTANTS c1, c2, p1, p2

Do(kind, p) == [kind |-> kind, profile |-> p]

Beside(x, others) == { c1 :> x @@ c2 :> y : y \in others }

\* Each write beside loads, and beside what lists or leaves notifications.
Mixes ==
  Beside(Do("switch", p2), {Do("read", p1), Do("list", p1)})
  \union Beside(Do("disable", p1), {Do("refresh", p1)})
  \union Beside(Do("delete", p1), {Do("profiles", p1)})
  \union Beside(Do("rename", p1), {Do("read", p1), Do("switch", p2)})
  \union Beside(Do("download", p2), {Do("resend", p1)})
=============================================================================
