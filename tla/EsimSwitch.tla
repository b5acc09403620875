----------------------------- MODULE EsimSwitch -----------------------------
(***************************************************************************)
(* The eSIM profile switch of one device: SwitchProfile and DisableProfile *)
(* of the eSIM manager, the pool's switching mark with its token, snapshot *)
(* and two-minute watchdog, the asynchronous post-switch recovery, and the *)
(* SIM identity of the worker, which the recoveries, their delayed retries *)
(* and live refreshes asked for by the API write concurrently.             *)
(*                                                                         *)
(* Each call of the manager is a member of Switches; its token is named by *)
(* the call, so "the token is still current" is current = s.  The mark,    *)
(* the context and the token of the pool are set and deleted together      *)
(* under switchMu: current stands for the three.                           *)
(***************************************************************************)
CONSTANTS
  Switches,     \* calls of SwitchProfile and DisableProfile, each made once
  Profiles,     \* ICCIDs of the profiles on the eUICC
  NoSwitch,     \* no switch in progress
  NoProfile,    \* an empty ICCID: no target, or a live read that gave nothing
  Targets,      \* what the calls may ask for; NoProfile for DisableProfile
  Configs       \* devices: RadioCycle, VoWiFiEnabled, flight mode set by the user

Iccids == Profiles \cup {NoProfile}

ASSUME EsimAssumption ==
  /\ NoSwitch \notin Switches
  /\ NoProfile \notin Profiles
  /\ Targets \subseteq [Switches -> Iccids]
  /\ Configs \subseteq [radioCycle : BOOLEAN, vowifiEnabled : BOOLEAN, flightMode : BOOLEAN]

Radios == {"online", "lowpower", "rfoff"}
Actors == Switches \X {"finalize", "retry"}

\* The goroutine of the call up to the APDU, then that of its recovery.
Stages ==
  {"idle", "locked", "captured", "begun", "cleared", "apdu", "failing", "failed",
   "hook", "resolved", "core", "converge", "radio", "online", "refresh",
   "runtime", "gate", "restore", "data", "ended", "closing", "done"}

VARIABLES
  target,    \* the ICCID each call enables
  config,    \* the device's settings
  stage,     \* where each call is
  opMu,      \* holder of the manager's operation lock
  current,   \* switchingDevices, switchContexts, switchTokens of the device
  flight,    \* FlightModeBefore, as captured by each call
  fresh,     \* calls whose IdentityGeneration is that of the identity
  poll,      \* identity polls: of the recovery, and of the retry it schedules
  seen,      \* the ICCID with which a poll ended
  live,      \* the ICCID a RefreshIdentityLive has read, NoProfile: none in flight
  identity,  \* worker.state.Identity
  card,      \* external: the ICCID the card answers with
  enabled,   \* external: the profile the eUICC was told to enable
  radio      \* the operating mode of the modem

polls == <<poll, seen>>
modem == <<card, enabled>>
vars == <<target, config, stage, opMu, current, flight, fresh, polls, live, identity, modem, radio>>

Init ==
  /\ target \in Targets /\ config \in Configs
  /\ stage = [s \in Switches |-> "idle"]
  /\ opMu = NoSwitch /\ current = NoSwitch
  /\ flight = [s \in Switches |-> FALSE]
  /\ fresh = {}
  /\ poll = [a \in Actors |-> "idle"]
  /\ seen = [a \in Actors |-> NoProfile]
  /\ live = NoProfile
  /\ card \in Profiles /\ enabled = card
  /\ identity = [iccid |-> card, phase |-> "ready", target |-> NoProfile]
  /\ radio = IF config.flightMode THEN "rfoff" ELSE "online"

Go(s, from, to) == stage[s] = from /\ stage' = [stage EXCEPT ![s] = to]

-----------------------------------------------------------------------------
(* The identity of the worker, under cacheMu. *)

Transition(t) == [iccid |-> NoProfile, phase |-> "transitioning", target |-> t]

\* EnsureSIMIdentityTransition keeps a transition to the same target.
KeptTransition(t) == identity.phase # "ready" /\ identity.target = t
Ensured(t) == IF KeptTransition(t) THEN identity ELSE Transition(t)
StillFresh(t) == IF KeptTransition(t) THEN fresh ELSE {}

Degraded(id) == [id EXCEPT !.phase = "degraded"]

Ready(id, i) == [id EXCEPT !.iccid = i, !.phase = "ready", !.target = NoProfile]

ConvergenceMatches(s) ==
  /\ s \in fresh
  /\ identity.phase # "ready"
  /\ identity.target = target[s]

-----------------------------------------------------------------------------
(* The switch itself, under the operation lock. *)

Lock(s) ==
  /\ opMu = NoSwitch /\ opMu' = s
  /\ Go(s, "idle", "locked")
  /\ UNCHANGED <<target, config, current, flight, fresh, polls, live, identity, modem, radio>>

\* A bad ICCID or AID, no such eUICC or no LPA channel: nothing was begun.
Reject(s) ==
  /\ Go(s, "locked", "done")
  /\ opMu' = NoSwitch
  /\ UNCHANGED <<target, config, current, flight, fresh, polls, live, identity, modem, radio>>

\* captureESIMSwitchContext reads the worker and the modem before switchMu.
Capture(s) ==
  /\ Go(s, "locked", "captured")
  /\ flight' = [flight EXCEPT ![s] = radio # "online"]
  /\ UNCHANGED <<target, config, opMu, current, fresh, polls, live, identity, modem, radio>>

Begin(s) ==
  /\ Go(s, "captured", "begun")
  /\ current' = s
  /\ UNCHANGED <<target, config, opMu, flight, fresh, polls, live, identity, modem, radio>>

ClearIdentity(s) ==
  /\ Go(s, "begun", "cleared")
  /\ identity' = Transition(target[s]) /\ fresh' = {}
  /\ UNCHANGED <<target, config, opMu, current, flight, polls, live, modem, radio>>

\* After SwitchBegin (which VowifiLifecycle models) the radio is released.
ReleaseRadio(s) ==
  /\ Go(s, "cleared", "apdu")
  /\ radio' = IF config.radioCycle THEN "lowpower" ELSE radio
  /\ UNCHANGED <<target, config, opMu, current, flight, fresh, polls, live, identity, modem>>

\* The command was accepted, or answered by the expected card reset; the
\* recovery goes on in a goroutine of its own.
Accept(s) ==
  /\ Go(s, "apdu", "hook")
  /\ enabled' = target[s]
  /\ opMu' = NoSwitch
  /\ UNCHANGED <<target, config, current, flight, fresh, polls, live, identity, card, radio>>

\* The barrier was not granted or the command failed, perhaps after it took effect.
Refuse(s) ==
  /\ Go(s, "apdu", "failing")
  /\ enabled' \in {enabled, target[s]}
  /\ opMu' = NoSwitch
  /\ UNCHANGED <<target, config, current, flight, fresh, polls, live, identity, card, radio>>

\* Mutants: a token is not compared before the pool's entries are deleted.
ClearUnchecked(s) == current' = NoSwitch

ClearIfToken(s) == current' = IF current = s THEN NoSwitch ELSE current

FinishFailed(s) ==
  /\ Go(s, "failing", IF current = s THEN "failed" ELSE "done")
  /\ ClearIfToken(s)
  /\ UNCHANGED <<target, config, opMu, flight, fresh, polls, live, identity, modem, radio>>

\* restoreRadioDataForSwitchSnapshot; the data connection is left out.
RestoreRadio(s, cycled) ==
  radio' = IF flight[s] THEN "rfoff" ELSE IF cycled THEN radio ELSE "online"

RestoreFailed(s) ==
  /\ Go(s, "failed", "done")
  /\ RestoreRadio(s, FALSE)
  /\ UNCHANGED <<target, config, opMu, current, flight, fresh, polls, live, identity, modem>>

\* Mutant: the watchdog only deletes the entries of a call that is done.
WatchdogOfDone(s) ==
  /\ current = s /\ stage[s] = "done"
  /\ current' = NoSwitch
  /\ UNCHANGED <<target, config, stage, opMu, flight, fresh, polls, live, identity, modem, radio>>

\* The two-minute goroutine of beginESIMSwitch; it finds its own context, or does nothing.
Watchdog(s) ==
  /\ current = s
  /\ current' = NoSwitch
  /\ UNCHANGED <<target, config, stage, opMu, flight, fresh, polls, live, identity, modem, radio>>

-----------------------------------------------------------------------------
(* The recovery: handleESIMSwitchAfter. *)

\* A stage of s that ends with switchTokenStillCurrent; a recovery that has been
\* superseded, or timed out by the watchdog, returns at once.
GoIfCurrent(s, from, to) == Go(s, from, IF current = s THEN to ELSE "done")

Resolve(s) ==
  /\ GoIfCurrent(s, "hook", "resolved")
  /\ UNCHANGED <<target, config, opMu, current, flight, fresh, polls, live, identity, modem, radio>>

EnsureTransition(s) ==
  /\ Go(s, "resolved", "core")
  /\ identity' = Ensured(target[s])
  /\ fresh' = StillFresh(target[s]) \cup {s}
  /\ UNCHANGED <<target, config, opMu, current, flight, polls, live, modem, radio>>

CoreReady(s) ==
  /\ GoIfCurrent(s, "core", "converge")
  /\ UNCHANGED <<target, config, opMu, current, flight, fresh, polls, live, identity, modem, radio>>

\* runPostSwitchConvergence saw the target, or without a target any identity.
Converge(s) ==
  /\ Go(s, "converge", "radio")
  /\ card # NoProfile /\ target[s] \in {NoProfile, card}
  /\ UNCHANGED <<target, config, opMu, current, flight, fresh, polls, live, identity, modem, radio>>

\* It gave up: a retry is scheduled, and VoWiFi is not restored.
ConvergeDegraded(s) ==
  /\ Go(s, "converge", "data")
  /\ poll' = [poll EXCEPT ![<<s, "retry">>] = "delay"]
  /\ UNCHANGED <<target, config, opMu, current, flight, fresh, seen, live, identity, modem, radio>>

RadioOnline(s) ==
  /\ Go(s, "radio", "online")
  /\ radio' = IF config.radioCycle THEN "online" ELSE radio
  /\ UNCHANGED <<target, config, opMu, current, flight, fresh, polls, live, identity, modem>>

\* Only the RadioCycle path looks at the token here.
StartRefresh(s) ==
  LET goesOn == current = s \/ ~config.radioCycle IN
  /\ Go(s, "online", IF goesOn THEN "refresh" ELSE "done")
  /\ poll' = IF goesOn THEN [poll EXCEPT ![<<s, "finalize">>] = "ensure"] ELSE poll
  /\ UNCHANGED <<target, config, opMu, current, flight, fresh, seen, live, identity, modem, radio>>

RefreshDone(s) ==
  /\ poll[<<s, "finalize">>] \in {"ok", "degraded"}
  /\ GoIfCurrent(s, "refresh", "runtime")
  /\ UNCHANGED <<target, config, opMu, current, flight, fresh, polls, live, identity, modem, radio>>

\* Mutant: the error of the identity refresh is not looked at.
RuntimeRestoredAnyway(s) ==
  /\ GoIfCurrent(s, "runtime", "gate")
  /\ poll' = [poll EXCEPT ![<<s, "retry">>] = "delay"]
  /\ UNCHANGED <<target, config, opMu, current, flight, fresh, seen, live, identity, modem, radio>>

\* After the runtime refresh: retries are scheduled either way, and after an
\* identity error VoWiFi is not restored.
RuntimeRestored(s) ==
  /\ Go(s, "runtime", IF current # s THEN "done"
                      ELSE IF poll[<<s, "finalize">>] = "ok" THEN "gate" ELSE "data")
  /\ poll' = IF current = s THEN [poll EXCEPT ![<<s, "retry">>] = "delay"] ELSE poll
  /\ UNCHANGED <<target, config, opMu, current, flight, fresh, seen, live, identity, modem, radio>>

\* waitPostSwitchSIMAuthReady, which SIMAuthGate models, lets VoWiFi be restored or not.
SIMAuthReady(s) ==
  /\ \/ config.vowifiEnabled /\ GoIfCurrent(s, "gate", "restore")
     \/ GoIfCurrent(s, "gate", "data")
  /\ UNCHANGED <<target, config, opMu, current, flight, fresh, polls, live, identity, modem, radio>>

\* SwitchEnd restores VoWiFi, or fails and the radio and data are restored instead.
Restore(s) ==
  /\ Go(s, "restore", "ended") \/ Go(s, "restore", "data")
  /\ UNCHANGED <<target, config, opMu, current, flight, fresh, polls, live, identity, modem, radio>>

RestoreData(s) ==
  /\ Go(s, "data", "closing")
  /\ RestoreRadio(s, config.radioCycle)
  /\ UNCHANGED <<target, config, opMu, current, flight, fresh, polls, live, identity, modem>>

\* The deferred clearESIMSwitchIfToken.
Close(s) ==
  /\ Go(s, "ended", "done") \/ Go(s, "closing", "done")
  /\ ClearIfToken(s)
  /\ UNCHANGED <<target, config, opMu, flight, fresh, polls, live, identity, modem, radio>>

-----------------------------------------------------------------------------
(* Readers of the SIM identity. *)

PollStep(a, from, to) == poll[a] = from /\ poll' = [poll EXCEPT ![a] = to]

\* A delayed retry looks at the generation and the target once, then polls.
RetryCheck(s) ==
  /\ PollStep(<<s, "retry">>, "delay", IF ConvergenceMatches(s) THEN "ensure" ELSE "idle")
  /\ UNCHANGED <<target, config, stage, opMu, current, flight, fresh, seen, live, identity, modem, radio>>

\* refreshPostSwitchIdentityWithPolling, from its EnsureSIMIdentityTransition
PollEnsure(a) ==
  /\ PollStep(a, "ensure", "read")
  /\ identity' = Ensured(target[a[1]])
  /\ fresh' = StillFresh(target[a[1]])
  /\ UNCHANGED <<target, config, stage, opMu, current, flight, seen, live, modem, radio>>

\* over the reads, of which the last one counts (a match, or the deadline),
PollRead(a) ==
  /\ PollStep(a, "read", "write")
  /\ \E i \in {card, NoProfile} : seen' = [seen EXCEPT ![a] = i]
  /\ UNCHANGED <<target, config, stage, opMu, current, flight, fresh, live, identity, modem, radio>>

\* With a target, any other reading leaves the identity alone; without one, an
\* empty reading may be written first, and makes a ready identity with an IMSI.
Unconfirmed(a) ==
  IF target[a[1]] # NoProfile THEN {Degraded(identity)}
  ELSE {Degraded([identity EXCEPT !.iccid = i]) : i \in {identity.iccid, NoProfile}}
       \cup {Degraded(Ready(identity, i)) : i \in {identity.iccid, NoProfile}}

Confirmed(a) == seen[a] # NoProfile /\ target[a[1]] \in {NoProfile, seen[a]}

\* The recovery keeps what it confirmed; a retry has nobody to report to.
PollResult(a) ==
  CASE a[2] = "retry" -> "idle"
    [] Confirmed(a)   -> "ok"
    [] OTHER          -> "degraded"

\* to the write of what was read, whatever transition is under way by then.
PollWrite(a) ==
  /\ PollStep(a, "write", PollResult(a))
  /\ identity' \in IF Confirmed(a) THEN {Ready(identity, seen[a])} ELSE Unconfirmed(a)
  /\ seen' = IF PollResult(a) = "ok" THEN seen ELSE [seen EXCEPT ![a] = NoProfile]
  /\ UNCHANGED <<target, config, stage, opMu, current, flight, fresh, live, modem, radio>>

\* refreshIdentityLive, for the API and other callers: read, then write.  A read
\* without an ICCID, which no transition to a target accepts, is left out.
LiveRead ==
  /\ live = NoProfile /\ live' = card
  /\ UNCHANGED <<target, config, stage, opMu, current, flight, fresh, polls, identity, modem, radio>>

\* Mutant: an unfinished transition does not hold the write back.
LiveWriteUnguarded ==
  /\ live # NoProfile /\ live' = NoProfile
  /\ identity' = Ready(identity, live)
  /\ UNCHANGED <<target, config, stage, opMu, current, flight, fresh, polls, modem, radio>>

LiveWrite ==
  /\ live # NoProfile /\ live' = NoProfile
  /\ identity' = IF identity.phase = "ready" \/ identity.target \in {NoProfile, live}
                 THEN Ready(identity, live) ELSE identity
  /\ UNCHANGED <<target, config, stage, opMu, current, flight, fresh, polls, modem, radio>>

\* The card takes its time to answer with the enabled profile.
CardSettles ==
  /\ card # enabled /\ card' = enabled
  /\ UNCHANGED <<target, config, stage, opMu, current, flight, fresh, polls, live, identity, enabled, radio>>

-----------------------------------------------------------------------------

SwitchStep(s) ==
  Lock(s) \/ Reject(s) \/ Capture(s) \/ Begin(s) \/ ClearIdentity(s) \/ ReleaseRadio(s)
  \/ Accept(s) \/ Refuse(s) \/ FinishFailed(s) \/ RestoreFailed(s)

RecoveryStep(s) ==
  Resolve(s) \/ EnsureTransition(s) \/ CoreReady(s) \/ Converge(s) \/ ConvergeDegraded(s)
  \/ RadioOnline(s) \/ StartRefresh(s) \/ RefreshDone(s) \/ RuntimeRestored(s)
  \/ SIMAuthReady(s) \/ Restore(s) \/ RestoreData(s) \/ Close(s)

PollActorStep(a) == PollEnsure(a) \/ PollRead(a) \/ PollWrite(a)

Next ==
  \/ \E s \in Switches : SwitchStep(s) \/ RecoveryStep(s) \/ Watchdog(s) \/ RetryCheck(s)
  \/ \E a \in Actors : PollActorStep(a)
  \/ LiveRead \/ LiveWrite \/ CardSettles

Spec == Init /\ [][Next]_vars

\* Only the timers are sure to run: the calls of the modem have no deadline here.
FairSpec == Spec /\ \A s \in Switches : WF_vars(Watchdog(s))

-----------------------------------------------------------------------------
(* Properties. *)

\* Every variable keeps to its type.
TypeOK ==
  /\ target \in Targets /\ config \in Configs
  /\ stage \in [Switches -> Stages]
  /\ {opMu, current} \subseteq Switches \cup {NoSwitch}
  /\ flight \in [Switches -> BOOLEAN] /\ fresh \subseteq Switches
  /\ poll \in [Actors -> {"idle", "delay", "ensure", "read", "write", "ok", "degraded"}]
  /\ seen \in [Actors -> Iccids]
  /\ live \in Iccids /\ card \in Iccids /\ enabled \in Iccids
  /\ identity \in [iccid : Iccids, phase : {"ready", "transitioning", "degraded"},
                   target : Iccids]
  /\ identity.phase = "ready" => identity.target = NoProfile
  /\ radio \in Radios

\* From beginESIMSwitch until its entries are deleted by its own last step.
Marked(s) == stage[s] \notin {"idle", "locked", "captured", "failed", "done"}

\* The switching mark is never that of a switch that has finished.
MarkHasOwner == current # NoSwitch => Marked(current)

\* A switch loses the mark by a step of its own, to its watchdog (which moves no
\* call) or to a switch that begins: never to the end of a superseded one.
MarkKept ==
  [][\A s \in Switches : current = s /\ current' # s
       => stage'[s] # stage[s] \/ stage' = stage \/ current' \in Switches]_vars

\* VoWiFi comes back only after the card answered with the profile asked for.
RestoredMeansVerified ==
  \A s \in Switches :
    stage[s] = "ended" /\ target[s] # NoProfile => seen[<<s, "finalize">>] = target[s]

\* What is true of the marks and the identity at every moment.
Consistent == TypeOK /\ MarkHasOwner /\ RestoredMeansVerified

\* A poll or a recovery for another target is at work.
OtherTarget(t) ==
  \E a \in Actors :
    target[a[1]] # t /\ (poll[a] \in {"ensure", "read", "write"} \/ stage[a[1]] = "resolved")

\* A transition to a known target ends at that target, not at the old profile,
\* unless a reader of an earlier switch is still at work.
TransitionEndsAtTarget ==
  [][identity.phase # "ready" /\ identity.target # NoProfile
     /\ identity'.phase = "ready" /\ ~OtherTarget(identity.target)
     => identity'.iccid = identity.target]_vars

\* No switch holds the device for ever, even one whose APDU never returns.
MarkReleased == \A s \in Switches : current = s ~> current # s
=============================================================================
