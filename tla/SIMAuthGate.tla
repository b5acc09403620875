---------------------------- MODULE SIMAuthGate ----------------------------
(***************************************************************************)
(* The SIM authentication gate of the APDU arbiter: after a profile switch *)
(* InvalidateSIMAuthReady closes the gate, and goroutines that want to     *)
(* restore VoWiFi wait in WaitSIMAuthReady until a probe of the card has   *)
(* succeeded.  One waiter probes, the others sleep on its channel.         *)
(*                                                                         *)
(* A channel is named after the waiter that made it: a waiter makes a new  *)
(* one only when the one it made before is closed and forgotten.           *)
(***************************************************************************)
EXTENDS Integers, FiniteSets

CONSTANTS
  Waiters,        \* the WaitSIMAuthReady calls, each made once
  MaxGeneration,  \* bound on the number of invalidations
  NoChannel       \* simAuthReady.waitC = nil

ASSUME GateAssumption == NoChannel \notin Waiters /\ MaxGeneration \in Nat

VARIABLES
  generation, ready, probing, waitC,  \* simAuthReadyState
  waiter,    \* where each waiter is: start, parked, probing, ok or failed
  channel,   \* the channel a parked waiter sleeps on
  seen,      \* the generation a probing waiter read before its probe
  verified   \* history: the generations in which a successful probe began

gate == <<generation, ready, probing, waitC>>
gateVars == <<gate, waiter, channel, seen, verified>>

GateInit ==
  /\ generation = 0 /\ ready = FALSE /\ probing = FALSE /\ waitC = NoChannel
  /\ waiter = [w \in Waiters |-> "start"]
  /\ channel = [w \in Waiters |-> NoChannel]
  /\ seen = [w \in Waiters |-> 0]
  /\ verified = {}

\* InvalidateSIMAuthReady, at a switch or when the QMI logical channels are dropped.
Invalidate ==
  /\ generation < MaxGeneration
  /\ generation' = generation + 1
  /\ ready' = FALSE
  /\ UNCHANGED <<probing, waitC, waiter, channel, seen, verified>>

\* The gate is open.
Pass(w) ==
  /\ waiter[w] = "start" /\ ready
  /\ waiter' = [waiter EXCEPT ![w] = "ok"]
  /\ UNCHANGED <<gate, channel, seen, verified>>

\* Somebody else probes: sleep on its channel.
Park(w) ==
  /\ waiter[w] = "start" /\ ~ready /\ probing
  /\ LET c == IF waitC = NoChannel THEN w ELSE waitC IN
       /\ waitC' = c
       /\ channel' = [channel EXCEPT ![w] = c]
  /\ waiter' = [waiter EXCEPT ![w] = "parked"]
  /\ UNCHANGED <<generation, ready, probing, seen, verified>>

\* Mutant: the probe starts although another one is running.
BeginProbeAnyway(w) ==
  /\ waiter[w] = "start" /\ ~ready
  /\ seen' = [seen EXCEPT ![w] = generation]
  /\ probing' = TRUE /\ waitC' = w
  /\ waiter' = [waiter EXCEPT ![w] = "probing"]
  /\ UNCHANGED <<generation, ready, channel, verified>>

\* Become the prober; the probe itself runs without the mutex.
BeginProbe(w) ==
  /\ waiter[w] = "start" /\ ~ready /\ ~probing
  /\ seen' = [seen EXCEPT ![w] = generation]
  /\ probing' = TRUE /\ waitC' = w
  /\ waiter' = [waiter EXCEPT ![w] = "probing"]
  /\ UNCHANGED <<generation, ready, channel, verified>>

\* close(waitC): its sleepers loop back to the head of WaitSIMAuthReady.
Closed(c, f) ==
  [x \in Waiters |-> IF f[x] = "parked" /\ channel[x] = c THEN "start" ELSE f[x]]

\* Mutant: a probe that an invalidation overtook still opens the gate.
EndProbeUnchecked(w, succeeded) ==
  LET result == IF succeeded THEN "ok" ELSE "failed"
  IN
  /\ waiter[w] = "probing"
  /\ ready' = succeeded
  /\ waiter' = Closed(waitC, [waiter EXCEPT ![w] = result])
  /\ waitC' = NoChannel /\ probing' = FALSE
  /\ verified' = IF succeeded THEN verified \cup {seen[w]} ELSE verified
  /\ UNCHANGED <<generation, channel, seen>>

\* Mutant: only a probe that was not overtaken closes its channel.
EndProbeForgetsSleepers(w, succeeded) ==
  LET stale == generation # seen[w]
      result == IF ~succeeded THEN "failed" ELSE IF stale THEN "start" ELSE "ok"
      after == [waiter EXCEPT ![w] = result]
  IN
  /\ waiter[w] = "probing"
  /\ ready' = IF stale THEN ready ELSE succeeded
  /\ waiter' = IF stale THEN after ELSE Closed(waitC, after)
  /\ waitC' = NoChannel /\ probing' = FALSE
  /\ verified' = IF succeeded THEN verified \cup {seen[w]} ELSE verified
  /\ UNCHANGED <<generation, channel, seen>>

\* The probe returns: its result counts only for the generation it began in, its
\* sleepers are woken in any case, and a successful but stale prober starts over.
EndProbe(w, succeeded) ==
  LET stale == generation # seen[w]
      result == IF ~succeeded THEN "failed" ELSE IF stale THEN "start" ELSE "ok"
      after == [waiter EXCEPT ![w] = result]
  IN
  /\ waiter[w] = "probing"
  /\ ready' = IF stale THEN ready ELSE succeeded
  /\ waiter' = IF waitC = w THEN Closed(w, after) ELSE after
  /\ waitC' = IF waitC = w THEN NoChannel ELSE waitC
  /\ probing' = FALSE
  /\ verified' = IF succeeded THEN verified \cup {seen[w]} ELSE verified
  /\ UNCHANGED <<generation, channel, seen>>

\* ctx ends, noticed at the head of the loop or while asleep.
Timeout(w) ==
  /\ waiter[w] \in {"start", "parked"}
  /\ waiter' = [waiter EXCEPT ![w] = "failed"]
  /\ UNCHANGED <<gate, channel, seen, verified>>

WaiterStep(w) ==
  \/ Pass(w) \/ Park(w) \/ BeginProbe(w)
  \/ EndProbe(w, TRUE) \/ EndProbe(w, FALSE)

GateNext == Invalidate \/ \E w \in Waiters : WaiterStep(w) \/ Timeout(w)

GateSpec == GateInit /\ [][GateNext]_gateVars

\* A waiter that is not asleep keeps running and probes return; nobody needs a
\* deadline to get out.
GateFairSpec == GateSpec /\ \A w \in Waiters : WF_gateVars(WaiterStep(w))

-----------------------------------------------------------------------------
WaiterStates == {"start", "parked", "probing", "ok", "failed"}

\* Type correctness of the gate and of the goroutines at it; the probing flag is
\* up exactly while the owner of the channel probes.
GateTypeOK ==
  /\ generation \in Nat /\ ready \in BOOLEAN /\ probing \in BOOLEAN
  /\ waitC \in Waiters \cup {NoChannel}
  /\ waiter \in [Waiters -> WaiterStates]
  /\ channel \in [Waiters -> Waiters \cup {NoChannel}]
  /\ seen \in [Waiters -> Nat]
  /\ verified \subseteq Nat

\* One probe at a time: the card is not probed by two restores at once, and the
\* probing flag and the channel belong to the one that does.
SingleProbe ==
  /\ probing <=> waitC # NoChannel
  /\ \A w \in Waiters : waiter[w] = "probing" <=> waitC = w

\* An open gate stands for the present card: some probe that began after the last
\* invalidation has succeeded.
OpenMeansVerified == ready => generation \in verified

\* A sleeper always has somebody who will wake it.
SleepersHaveAProber ==
  \A w \in Waiters : waiter[w] = "parked" => waiter[channel[w]] = "probing"

\* What the mutex of the gate keeps true at every moment.
GateConsistent == GateTypeOK /\ SingleProbe /\ OpenMeansVerified /\ SleepersHaveAProber

\* Nobody passes on the strength of a probe that an invalidation has overtaken.
PassesVerified ==
  [][\A w \in Waiters : waiter[w] # "ok" /\ waiter'[w] = "ok" => generation \in verified']_gateVars

\* Every waiter gets an answer, with or without a deadline.
Answered == \A w \in Waiters : <>(waiter[w] \in {"ok", "failed"})
=============================================================================
