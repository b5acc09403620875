-------------------------- MODULE VowifiLifecycle --------------------------
(***************************************************************************)
(* The life of one device's VoWiFi tunnel (internal/vowifihost).           *)
(*                                                                         *)
(* Three pieces of state meet here.  The runtime store keeps a slot for    *)
(* the device: the running instance, a "starting" flag, and an epoch that  *)
(* every invalidation raises so that a start it overtakes can be told from *)
(* a fresh one.  The lifecycle controller runs most commands one at a time *)
(* under runMu; a switch of the card and a restart preempt instead: they   *)
(* skip runMu and cancel the context of the run bound last.  The teardowns *)
(* of a lost or removed worker go to the store directly.  Every call is a  *)
(* process here, every critical section of the store and of the controller *)
(* a step, so calls interleave as goroutines do.                           *)
(*                                                                         *)
(* The slots and the controllers of two devices share nothing, so one      *)
(* device is the whole story.  A device without a slot reads like one with *)
(* an empty slot; deleting the slot is resetting it to EmptySlot.          *)
(***************************************************************************)
EXTENDS Integers, FiniteSets

CONSTANTS
    Calls,   \* the calls made on the device, each of them once
    Kinds,   \* the kinds of call an instance of the model considers
    MaxPreempting,  \* bound: restarts and switches made
    None

AllKinds == {"enable", "disable", "restart", "recover", "retry",
             "switchBegin", "switchEnd", "reconnect", "remove"}

ASSUME KindsAssumption == Kinds \subseteq AllKinds
ASSUME NoneAssumption == None \notin Calls \cup AllKinds
ASSUME MaxPreemptingAssumption == MaxPreempting \in Nat

VARIABLES
    slot,        \* the device's runtimeSlot
    live,        \* tunnels up, each named by the call that started it
    runMu,       \* the call that holds deviceLifecycle.runMu, or None
    generation,  \* deviceLifecycle.generation
    runCancel,   \* whose context deviceLifecycle.runCancel cancels, or None
    cancelled,   \* the calls whose run context is cancelled
    call,        \* per call: where it stands and what it holds
    switch,      \* how far the card switch of the device is
    sms,         \* the worker's smsMode: "modem" (QMI, MBIM or AT) or "vowifi"
    retries,     \* the generations APDU-busy recovers are scheduled for
    overtaken    \* history: the calls whose start an invalidation overtook

controlVars == <<runMu, generation, runCancel, cancelled>>
worldVars == <<switch, sms, retries>>
storeVars == <<slot, live, overtaken>>
vars == <<slot, live, runMu, generation, runCancel, cancelled, call,
          switch, sms, retries, overtaken>>

-----------------------------------------------------------------------------
(* The store *)

EmptySlot == [inst |-> None, starting |-> FALSE, epoch |-> 0,
              state |-> FALSE, err |-> FALSE]

\* A call between BeginStart and the fate of its start.
StartPhase == {"prepare", "before", "connect", "claim", "error", "fail"}

\* Invalidate: the epoch moves on, and the slot forgets any start under way.
Invalidate ==
    /\ slot' = [slot EXCEPT !.epoch = @ + 1, !.starting = FALSE,
                            !.state = FALSE, !.err = FALSE]
    /\ overtaken' = overtaken \cup {c \in Calls : call[c].pc \in StartPhase}
    /\ UNCHANGED live

\* RecordStartupState: kept only while no instance runs.
RecordStartupState ==
    slot' = [slot EXCEPT !.state = @ \/ slot.inst = None]

\* ClearStartupState: a slot with nothing left in it is deleted, epoch and all.
ClearStartupState ==
    slot' = IF ~slot.state THEN slot
            ELSE IF slot.inst = None /\ ~slot.starting /\ ~slot.err
                 THEN EmptySlot
                 ELSE [slot EXCEPT !.state = FALSE]

-----------------------------------------------------------------------------
(* Calls *)

\* The calls that go through LifecycleController.Submit, and how.
Preempting == {"restart", "switchBegin"}
Direct == {"reconnect", "remove"}

Idle == [pc |-> "idle", kind |-> None, gen |-> 0, epoch |-> 0, target |-> None]

Goto(c, l) == call' = [call EXCEPT ![c].pc = l]

At(c, l) == call[c].pc = l

Switching == switch # "none"

Init ==
    /\ slot = EmptySlot
    /\ live = {}
    /\ runMu = None
    /\ generation = 0
    /\ runCancel = None
    /\ cancelled = {}
    /\ call = [c \in Calls |-> Idle]
    /\ switch = "none"
    /\ sms = "modem"
    /\ retries = {}
    /\ overtaken = {}

\* EnableVoWiFi and the recovers: nothing is touched before Submit.  The pool
\* refuses an enable while the card is being switched.
IssueQuiet(c, k) ==
    /\ k \in {"enable", "recover"}
    /\ k = "enable" => ~Switching
    /\ call' = [call EXCEPT ![c].pc = "submit", ![c].kind = k]
    /\ UNCHANGED <<storeVars, controlVars, worldVars>>

\* A recover that a start failing on a busy card left behind keeps that
\* start's generation; it is not submitted while an instance runs.
IssueRetry(c, k) ==
    /\ k = "retry"
    /\ slot.inst = None
    /\ \E g \in retries :
           call' = [call EXCEPT ![c].pc = "submit", ![c].kind = k, ![c].gen = g]
    /\ UNCHANGED <<storeVars, controlVars, worldVars>>

\* Disable and Restart invalidate the runtime before they queue, and so do
\* the teardowns that never queue.
IssueInvalidating(c, k) ==
    /\ k \in {"disable", "restart"} \cup Direct
    /\ k = "disable" => ~Switching
    /\ Invalidate
    /\ call' = [call EXCEPT ![c].pc = IF k \in Direct THEN "stop" ELSE "submit",
                            ![c].kind = k]
    /\ UNCHANGED <<controlVars, worldVars>>

\* handleESIMSwitchBefore marks the device, then submits SwitchBegin; the
\* finalisation submits SwitchEnd with the mark still set.
IssueSwitch(c, k) ==
    /\ \/ k = "switchBegin" /\ switch = "none" /\ switch' = "begun"
       \/ k = "switchEnd" /\ switch = "quiet" /\ switch' = "restoring"
    /\ call' = [call EXCEPT ![c].pc = "submit", ![c].kind = k]
    /\ UNCHANGED <<storeVars, controlVars, sms, retries>>

Issue(c) ==
    /\ At(c, "idle")
    /\ \E k \in Kinds :
           /\ k \in Preempting =>
                  Cardinality({d \in Calls : call[d].kind \in Preempting}) < MaxPreempting
           /\ \/ IssueQuiet(c, k)
              \/ IssueRetry(c, k)
              \/ IssueInvalidating(c, k)
              \/ IssueSwitch(c, k)

\* A switch that fails, or that has no VoWiFi to restore, drops the mark.
AbandonSwitch ==
    /\ switch = "quiet"
    /\ switch' = "none"
    /\ UNCHANGED <<storeVars, controlVars, call, sms, retries>>

-----------------------------------------------------------------------------
(* The controller *)

\* commandGenerationStale
Stale(c) == call[c].gen # 0 /\ generation # 0 /\ call[c].gen # generation

\* Mutant: a recover is never stale.
AdmitStale(c) ==
    /\ At(c, "submit")
    /\ call[c].kind \notin Preempting
    /\ runMu = None
    /\ IF call[c].kind = "enable" /\ slot.inst # None
       THEN Goto(c, "done") /\ UNCHANGED runMu
       ELSE Goto(c, "number") /\ runMu' = c
    /\ UNCHANGED <<storeVars, generation, runCancel, cancelled, worldVars>>

\* Submit under runMu: a stale recover and an enable of a running instance
\* return at once (the unlock is the last thing they do).
Admit(c) ==
    /\ At(c, "submit")
    /\ call[c].kind \notin Preempting
    /\ runMu = None
    /\ IF Stale(c) \/ (call[c].kind = "enable" /\ slot.inst # None)
       THEN Goto(c, "done") /\ UNCHANGED runMu
       ELSE Goto(c, "number") /\ runMu' = c
    /\ UNCHANGED <<storeVars, generation, runCancel, cancelled, worldVars>>

\* submitPreempting: no runMu.
Preempt(c) ==
    /\ At(c, "submit")
    /\ call[c].kind \in Preempting
    /\ Goto(c, "number")
    /\ UNCHANGED <<storeVars, controlVars, worldVars>>

\* nextGeneration, unless the command carries one.
Number(c) ==
    /\ At(c, "number")
    /\ LET next == IF call[c].kind \in Preempting THEN "cancel" ELSE "bind"
       IN  IF call[c].gen # 0
           THEN Goto(c, next) /\ UNCHANGED generation
           ELSE /\ generation' = generation + 1
                /\ call' = [call EXCEPT ![c].pc = next, ![c].gen = generation + 1]
    /\ UNCHANGED <<storeVars, runMu, runCancel, cancelled, worldVars>>

\* Mutant: a preempting command cancels nobody.
CancelNobody(c) ==
    /\ At(c, "cancel")
    /\ Goto(c, "bind")
    /\ UNCHANGED <<storeVars, controlVars, worldVars>>

\* cancelActiveRun: only the run bound last can be cancelled.
CancelActiveRun(c) ==
    /\ At(c, "cancel")
    /\ cancelled' = cancelled \cup ({runCancel} \ {None})
    /\ Goto(c, "bind")
    /\ UNCHANGED <<storeVars, runMu, generation, runCancel, worldVars>>

\* bindRunContext, and the first step of runLifecycleCommand.
FirstStep(k) ==
    CASE k = "enable" -> "check"
      [] k = "switchEnd" -> "begin"
      [] k = "disable" -> "stop"
      [] k \in Preempting -> "invalidate"
      [] OTHER -> "probe"   \* recover and retry

BindRunContext(c) ==
    /\ At(c, "bind")
    /\ runCancel' = c
    /\ Goto(c, FirstStep(call[c].kind))
    /\ UNCHANGED <<storeVars, runMu, generation, cancelled, worldVars>>

\* Mutant: runMu is not released when the command ran.
FinishKeepsLock(c) ==
    /\ At(c, "finish")
    /\ runCancel' = IF runCancel = c THEN None ELSE runCancel
    /\ switch' = CASE call[c].kind = "switchBegin" -> "quiet"
                   [] call[c].kind = "switchEnd" -> "none"
                   [] OTHER -> switch
    /\ Goto(c, "done")
    /\ UNCHANGED <<storeVars, runMu, generation, cancelled, sms, retries>>

\* The deferred clearRun and unlock, and what the caller does on return: the
\* mark of the switch advances with SwitchBegin and goes with SwitchEnd.
Finish(c) ==
    /\ At(c, "finish")
    /\ runCancel' = IF runCancel = c THEN None ELSE runCancel
    /\ runMu' = IF runMu = c THEN None ELSE runMu
    /\ switch' = CASE call[c].kind = "switchBegin" -> "quiet"
                   [] call[c].kind = "switchEnd" -> "none"
                   [] OTHER -> switch
    /\ Goto(c, "done")
    /\ UNCHANGED <<storeVars, generation, cancelled, sms, retries>>

-----------------------------------------------------------------------------
(* Teardown *)

\* recoverRuntime leaves a running or starting runtime alone.
Probe(c) ==
    /\ At(c, "probe")
    /\ Goto(c, IF slot.inst # None \/ slot.starting THEN "finish" ELSE "invalidate")
    /\ UNCHANGED <<storeVars, controlVars, worldVars>>

InvalidateRuntime(c) ==
    /\ At(c, "invalidate")
    /\ Invalidate
    /\ Goto(c, "stop")
    /\ UNCHANGED <<controlVars, worldVars>>

\* Where a teardown returns to.
AfterTeardown(k) == IF k \in {"restart", "recover", "retry"} THEN "wait" ELSE "finish"

\* disableRuntime restores the SMS mode even when there was nothing to stop,
\* the removal of a worker never does.
AfterStop(k, stopped) ==
    IF k \in {"disable", "restart"} \/ (stopped /\ k # "remove")
    THEN "sms" ELSE AfterTeardown(k)

\* StopInstanceForTeardown: read the instance, stop it, delete that instance.  The code
\* deletes it also if its Stop returns an error; here Stop brings the tunnel down.
ReadInstance(c) ==
    /\ At(c, "stop")
    /\ IF slot.inst = None
       THEN Goto(c, AfterStop(call[c].kind, FALSE))
       ELSE call' = [call EXCEPT ![c].pc = "halt", ![c].target = slot.inst]
    /\ UNCHANGED <<storeVars, controlVars, worldVars>>

StopInstance(c) ==
    /\ At(c, "halt")
    /\ live' = live \ {call[c].target}
    /\ Goto(c, "delete")
    /\ UNCHANGED <<slot, overtaken, controlVars, worldVars>>

\* Mutant: whatever instance is there is deleted.
DeleteAnyInstance(c) ==
    /\ At(c, "delete")
    /\ slot' = [EmptySlot EXCEPT !.epoch = slot.epoch]
    /\ call' = [call EXCEPT ![c].pc = AfterStop(call[c].kind, TRUE), ![c].target = None]
    /\ UNCHANGED <<live, overtaken, controlVars, worldVars>>

\* DeleteInstance, with the reset of a slot whose epoch never moved.
DeleteInstance(c) ==
    /\ At(c, "delete")
    /\ slot' = IF slot.inst # call[c].target THEN slot
               ELSE [EmptySlot EXCEPT !.epoch = slot.epoch]
    /\ call' = [call EXCEPT ![c].pc = AfterStop(call[c].kind, TRUE), ![c].target = None]
    /\ UNCHANGED <<live, overtaken, controlVars, worldVars>>

RestoreSMSMode(c) ==
    /\ At(c, "sms")
    /\ sms' = "modem"
    /\ Goto(c, AfterTeardown(call[c].kind))
    /\ UNCHANGED <<storeVars, controlVars, switch, retries>>

-----------------------------------------------------------------------------
(* Start *)

\* WaitQMICoreReady and WaitWorkerReady: ready, or timed out.
WaitReady(c) ==
    /\ At(c, "wait")
    /\ \E l \in {"check", "finish"} : Goto(c, l)
    /\ UNCHANGED <<storeVars, controlVars, worldVars>>

\* enableRuntime refuses to start while the card is being switched.
CheckSwitching(c) ==
    /\ At(c, "check")
    /\ Goto(c, IF Switching THEN "finish" ELSE "begin")
    /\ UNCHANGED <<storeVars, controlVars, worldVars>>

BeginStart(c) ==
    /\ At(c, "begin")
    /\ IF slot.inst # None \/ slot.starting
       THEN Goto(c, "finish") /\ UNCHANGED slot
       ELSE /\ slot' = [slot EXCEPT !.starting = TRUE, !.err = FALSE]
            /\ call' = [call EXCEPT ![c].pc = "prepare", ![c].epoch = slot.epoch]
    /\ UNCHANGED <<live, overtaken, controlVars, worldVars>>

\* PrepareStart: its last act is to record the startup state.
PrepareStart(c) ==
    /\ At(c, "prepare")
    /\ \/ RecordStartupState /\ Goto(c, "before")
       \/ Goto(c, "fail") /\ UNCHANGED slot
    /\ UNCHANGED <<live, overtaken, controlVars, worldVars>>

\* The ShouldRun callback handed to the runtime.
ShouldRun(c) == c \notin cancelled /\ slot.epoch = call[c].epoch

\* The runtime consults ShouldRun before it connects, and calls BeforeStart,
\* which records the startup state and may fail on the proxy it probes.
BeforeStart(c) ==
    /\ At(c, "before")
    /\ \/ ShouldRun(c) /\ Goto(c, "connect") /\ RecordStartupState
       \/ Goto(c, "error") /\ (RecordStartupState \/ UNCHANGED slot)
    /\ UNCHANGED <<live, overtaken, controlVars, worldVars>>

\* The runtime brings the tunnel up, or fails; an invalidation or a
\* cancellation that arrives meanwhile may come too late for it.
Connect(c) ==
    /\ At(c, "connect")
    /\ \/ live' = live \cup {c} /\ Goto(c, "claim")
       \/ Goto(c, "error") /\ UNCHANGED live
    /\ UNCHANGED <<slot, overtaken, controlVars, worldVars>>

\* The observer of an instance that is not the slot's records its state.
Observe(c) ==
    /\ c \in live
    /\ slot.inst # c
    /\ RecordStartupState
    /\ UNCHANGED <<live, overtaken, controlVars, call, worldVars>>

\* Mutant: a start claims any empty slot.
ClaimAnyEpoch(c) ==
    /\ At(c, "claim")
    /\ IF slot.inst = None
       THEN /\ slot' = [EmptySlot EXCEPT !.inst = c, !.epoch = slot.epoch]
            /\ Goto(c, "started")
       ELSE Goto(c, "stale") /\ UNCHANGED slot
    /\ UNCHANGED <<live, overtaken, controlVars, worldVars>>

\* ClaimStarted: for the epoch the start began in, in an empty slot.
ClaimStarted(c) ==
    /\ At(c, "claim")
    /\ IF slot.epoch = call[c].epoch /\ slot.inst = None
       THEN /\ slot' = [EmptySlot EXCEPT !.inst = c, !.epoch = slot.epoch]
            /\ Goto(c, "started")
       ELSE Goto(c, "stale") /\ UNCHANGED slot
    /\ UNCHANGED <<live, overtaken, controlVars, worldVars>>

\* A start that was overtaken stops the tunnel it built ...
StopStale(c) ==
    /\ At(c, "stale")
    /\ live' = live \ {c}
    /\ Goto(c, "clear")
    /\ UNCHANGED <<slot, overtaken, controlVars, worldVars>>

\* ... and clears the startup state, as a start that made it does.
ClearAfterStart(c) ==
    /\ At(c, "clear") \/ At(c, "started")
    /\ ClearStartupState
    /\ Goto(c, IF At(c, "clear") THEN "finish" ELSE "mark")
    /\ UNCHANGED <<live, overtaken, controlVars, worldVars>>

MarkRuntimeStarted(c) ==
    /\ At(c, "mark")
    /\ sms' = "vowifi"
    /\ Goto(c, "finish")
    /\ UNCHANGED <<storeVars, controlVars, switch, retries>>

\* HandleStartupError: a busy card schedules recovers under this start's
\* generation; the startup state is cleared in any case.
HandleStartupError(c) ==
    /\ At(c, "error")
    /\ \E busy \in BOOLEAN :
           retries' = IF busy THEN retries \cup {call[c].gen} ELSE retries
    /\ ClearStartupState
    /\ Goto(c, "fail")
    /\ UNCHANGED <<live, overtaken, controlVars, switch, sms>>

\* The deferred FailStart: only for the epoch the start began in.
FailStart(c) ==
    /\ At(c, "fail")
    /\ slot' = IF slot.epoch # call[c].epoch THEN slot
               ELSE [slot EXCEPT !.starting = FALSE, !.state = TRUE, !.err = TRUE]
    /\ Goto(c, "finish")
    /\ UNCHANGED <<live, overtaken, controlVars, worldVars>>

-----------------------------------------------------------------------------

Step(c) ==
    \/ Admit(c) \/ Preempt(c) \/ Number(c) \/ CancelActiveRun(c)
    \/ BindRunContext(c) \/ Finish(c)
    \/ Probe(c) \/ InvalidateRuntime(c) \/ ReadInstance(c) \/ StopInstance(c)
    \/ DeleteInstance(c) \/ RestoreSMSMode(c)
    \/ WaitReady(c) \/ CheckSwitching(c) \/ BeginStart(c) \/ PrepareStart(c)
    \/ BeforeStart(c) \/ Connect(c) \/ ClaimStarted(c) \/ StopStale(c)
    \/ ClearAfterStart(c) \/ MarkRuntimeStarted(c) \/ HandleStartupError(c)
    \/ FailStart(c)

Next ==
    \/ \E c \in Calls : Issue(c) \/ Step(c) \/ Observe(c)
    \/ AbandonSwitch

Spec == Init /\ [][Next]_vars

-----------------------------------------------------------------------------
(* Properties *)

Labels == StartPhase \cup
    {"idle", "submit", "number", "cancel", "bind", "probe", "invalidate", "stop",
     "halt", "delete", "sms", "wait", "check", "begin", "started", "mark",
     "stale", "clear", "finish", "done"}

Slots == [inst : Calls \cup {None}, starting : BOOLEAN, epoch : Nat,
          state : BOOLEAN, err : BOOLEAN]

CallStates == [pc : Labels, kind : AllKinds \cup {None}, gen : Nat, epoch : Nat,
               target : Calls \cup {None}]

\* Types; epochs and generations only ever count up from zero.
TypeOK ==
    /\ slot \in Slots
    /\ live \subseteq Calls
    /\ runMu \in Calls \cup {None}
    /\ generation \in Nat
    /\ runCancel \in Calls \cup {None}
    /\ cancelled \subseteq Calls
    /\ call \in [Calls -> CallStates]
    /\ switch \in {"none", "begun", "quiet", "restoring"}
    /\ sms \in {"modem", "vowifi"}
    /\ retries \subseteq Nat
    /\ overtaken \subseteq Calls

\* No tunnel leaks and no slot keeps a dead one, however the teardowns and
\* the starts interleave: a tunnel that is up is the slot's, or is still in
\* the hands of the start that built it; and when the slot's tunnel is down,
\* a teardown that stopped it is about to delete it.
TunnelsAccounted ==
    /\ \A i \in live : slot.inst = i \/ call[i].pc \in {"claim", "stale"}
    /\ slot.inst \notin live \cup {None} =>
           \E c \in Calls : At(c, "delete") /\ call[c].target = slot.inst

\* The device is never stuck "starting": while the flag is up, some start
\* of the slot's epoch is under way and will lower it.
StartingHasOwner ==
    slot.starting =>
        \E c \in Calls : call[c].pc \in StartPhase /\ call[c].epoch = slot.epoch

\* What must be true of the store at every moment, whoever runs.
Consistent == TypeOK /\ TunnelsAccounted /\ StartingHasOwner

\* What makes the two inductive: an instance that has reached the slot, or a
\* teardown's hands, is of a call past its claim; a teardown deletes only what
\* it stopped; a start claims only what it built; and a slot with an instance
\* is not starting.
PastClaim == {"started", "mark", "finish", "done"}

HandsClean ==
    /\ slot.inst # None => call[slot.inst].pc \in PastClaim /\ ~slot.starting
    /\ \A c \in Calls :
           /\ call[c].target # None => call[call[c].target].pc \in PastClaim
           /\ At(c, "delete") => call[c].target \notin live
           /\ At(c, "claim") => c \in live

\* Restarts and switches run beside the other commands, outside runMu.  What
\* that costs the next two properties, which leave these cases out, the README
\* tells: a restart may bring an epoch back, and SwitchBegin can cancel only
\* the run bound last, so that two preempting commands can hide a third run.
Preemptions == {c \in Calls : call[c].kind \in Preempting}
Restarted == \E c \in Preemptions : call[c].kind = "restart"

\* Without a restart, the instance a start brings into the slot is of a start
\* that no invalidation has overtaken since it began (ClaimStarted drops the
\* stale result, however a switch, a disable or a removal came between).
ClaimsFresh ==
    [][/\ ~Restarted
       /\ slot'.inst \notin {None, slot.inst}
       => slot'.inst \notin overtaken]_vars

\* A switch that is the only preempting command keeps the device quiet: from
\* the return of SwitchBegin until it is over or its restore begins, there is
\* no VoWiFi instance, although a start may have passed its check before.
QuietDuringSwitch ==
    switch = "quiet" /\ (\A b, c \in Preemptions : b = c) => slot.inst = None

\* A recover scheduled by a start that failed on a busy card does not start
\* the runtime again once a Disable submitted after that start has returned.
DisableOutlastsRetries ==
    [][\A c, d \in Calls :
           /\ call[c].kind = "retry" /\ At(c, "begin") /\ call'[c].pc = "prepare"
           /\ call[d].kind = "disable" /\ At(d, "done")
           => call[d].gen < call[c].gen]_vars

\* No call is under way.
AtRest == \A c \in Calls : At(c, "idle") \/ At(c, "done")

\* With no call under way the SMS mode tells where messages arrive: over
\* VoWiFi exactly while an instance runs, through the modem otherwise.
SMSModeFollowsRuntime == AtRest => (sms = "vowifi" <=> slot.inst # None)

\* Every call returns, again and again: no start, teardown or queue for runMu
\* hangs another.
Returns == []<>AtRest
=============================================================================
