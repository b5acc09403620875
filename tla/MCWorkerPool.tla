---------------------------- MODULE MCWorkerPool ----------------------------
(* Small instances of WorkerPool for TLC: what three goroutines do. *)
EXTENDS WorkerPool, TLC

CONSTANTS g1, g2, g3

Three(x, y, z) == g1 :> x @@ g2 :> y @@ g3 :> z

Mixes ==
  { Three("exhausted", "at", "remove"), Three("suspect", "rebuild", "idle"),
    Three("suspect", "manual", "idle"), Three("exhausted", "exhausted", "idle"),
    Three("remove", "add", "rebuild"), Three("remove", "add", "at") }
=============================================================================
