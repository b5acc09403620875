----------------------- MODULE VowifiLifecycleProofs -----------------------
(***************************************************************************)
(* Proofs about VowifiLifecycle, for every set of calls, every choice of   *)
(* kinds and every number of preempting commands, and about DesiredVowifi, *)
(* which makes those calls, for every set of recoveries and every bound.   *)
(***************************************************************************)
EXTENDS DesiredVowifi, TLAPS, FiniteSetTheorems

\* TypeOK but for the store and the calls.
ControlOK ==
    /\ runMu \in Calls \cup {None}
    /\ generation \in Nat
    /\ runCancel \in Calls \cup {None}
    /\ cancelled \subseteq Calls
    /\ switch \in {"none", "begun", "quiet", "restoring"}
    /\ sms \in {"modem", "vowifi"}
    /\ retries \subseteq Nat

\* The safety part of the invariant, and the whole of it.
Safe == TunnelsAccounted /\ StartingHasOwner /\ HandsClean

Inv == TypeOK /\ Safe

\* Call c goes to label l and keeps its epoch and its target; the rest stand
\* still.
Moved(c, l) ==
    /\ call' \in [Calls -> CallStates]
    /\ call'[c].pc = l
    /\ call'[c].epoch = call[c].epoch
    /\ call'[c].target = call[c].target
    /\ \A d \in Calls \ {c} : call'[d] = call[d]

\* What Goto does to the table of calls.
LEMMA GotoMoves ==
  ASSUME TypeOK, NEW c \in Calls, NEW l \in Labels, Goto(c, l)
  PROVE  Moved(c, l)
<1>1. call \in [Calls -> CallStates]
  BY DEF TypeOK
<1>2. [call[c] EXCEPT !.pc = l] \in CallStates
  BY <1>1 DEF CallStates
<1>3. call' = [call EXCEPT ![c] = [call[c] EXCEPT !.pc = l]]
  BY DEF Goto
<1>4. call' \in [Calls -> CallStates] /\ call'[c] = [call[c] EXCEPT !.pc = l]
  BY <1>1, <1>2, <1>3
<1>5. \A d \in Calls \ {c} : call'[d] = call[d]
  BY <1>1, <1>3
<1>6. call[c] \in CallStates
  BY <1>1
<1>7. /\ [call[c] EXCEPT !.pc = l].pc = l
      /\ [call[c] EXCEPT !.pc = l].epoch = call[c].epoch
      /\ [call[c] EXCEPT !.pc = l].target = call[c].target
  BY <1>6 DEF CallStates
<1>8. QED
  BY <1>4, <1>5, <1>7 DEF Moved

\* A step keeps the safety invariant when it leaves the slot's instance and
\* the tunnels alone, puts up no starting flag, keeps the epoch of a flag that
\* stays up, and takes its call neither past nor before a claim.
LEMMA Bystander ==
  ASSUME TypeOK, Safe, NEW c \in Calls,
         slot' \in Slots,
         slot'.inst = slot.inst,
         slot'.starting => slot.starting /\ slot'.epoch = slot.epoch,
         live' = live,
         call' \in [Calls -> CallStates],
         \A d \in Calls \ {c} : call'[d] = call[d],
         call'[c].epoch = call[c].epoch,
         call'[c].target \in {call[c].target, slot.inst, None},
         call[c].pc \notin {"delete", "claim", "stale"},
         call'[c].pc \notin {"delete", "claim"},
         call[c].pc \in PastClaim => call'[c].pc \in PastClaim,
         call[c].pc \in StartPhase =>
             \/ call'[c].pc \in StartPhase
             \/ ~slot'.starting
             \/ call[c].epoch # slot.epoch
  PROVE  Safe'
<1>1. \A d \in Calls : call[d].pc \in PastClaim => call'[d].pc \in PastClaim
  OBVIOUS
<1>2. TunnelsAccounted'
  <2>1. ASSUME NEW i \in live' PROVE slot'.inst = i \/ call'[i].pc \in {"claim", "stale"}
    <3>1. i \in Calls /\ (slot.inst = i \/ call[i].pc \in {"claim", "stale"})
      BY <2>1 DEF TypeOK, Safe, TunnelsAccounted
    <3>2. QED
      BY <3>1
  <2>2. ASSUME slot'.inst \notin live' \cup {None}
        PROVE  \E d \in Calls : call'[d].pc = "delete" /\ call'[d].target = slot'.inst
    <3>1. PICK d \in Calls : call[d].pc = "delete" /\ call[d].target = slot.inst
      BY <2>2 DEF Safe, TunnelsAccounted, At
    <3>2. d # c
      BY <3>1
    <3>3. QED
      BY <3>1, <3>2
  <2>3. QED
    BY <2>1, <2>2 DEF TunnelsAccounted, At
<1>3. StartingHasOwner'
  <2>1. ASSUME slot'.starting
        PROVE  \E d \in Calls : call'[d].pc \in StartPhase /\ call'[d].epoch = slot'.epoch
    <3>1. PICK d \in Calls : call[d].pc \in StartPhase /\ call[d].epoch = slot.epoch
      BY <2>1 DEF Safe, StartingHasOwner
    <3>2. CASE d = c
      BY <2>1, <3>1, <3>2
    <3>3. CASE d # c
      BY <2>1, <3>1, <3>3
    <3>4. QED
      BY <3>2, <3>3
  <2>2. QED
    BY <2>1 DEF StartingHasOwner
<1>4. HandsClean'
  <2>1. slot'.inst # None => call'[slot'.inst].pc \in PastClaim /\ ~slot'.starting
    <3>1. ASSUME slot'.inst # None
          PROVE  call'[slot'.inst].pc \in PastClaim /\ ~slot'.starting
      <4>1. slot.inst \in Calls /\ call[slot.inst].pc \in PastClaim /\ ~slot.starting
        BY <3>1 DEF TypeOK, Slots, Safe, HandsClean
      <4>2. QED
        BY <1>1, <4>1
    <3>2. QED
      BY <3>1
  <2>2. ASSUME NEW d \in Calls, call'[d].target # None
        PROVE  call'[call'[d].target].pc \in PastClaim
    <3>1. CASE d # c \/ call'[d].target = call[d].target
      <4>1. call[d].target = call'[d].target
        BY <3>1
      <4>2. call[d].target \in Calls
        BY <2>2, <4>1 DEF TypeOK, CallStates
      <4>3. call[call[d].target].pc \in PastClaim
        BY <2>2, <4>1 DEF Safe, HandsClean
      <4>4. QED
        BY <1>1, <4>1, <4>2, <4>3
    <3>2. CASE d = c /\ call'[d].target = slot.inst
      <4>1. slot.inst \in Calls /\ call[slot.inst].pc \in PastClaim
        BY <2>2, <3>2 DEF TypeOK, Slots, Safe, HandsClean
      <4>2. QED
        BY <1>1, <3>2, <4>1
    <3>3. QED
      BY <2>2, <3>1, <3>2
  <2>3. ASSUME NEW d \in Calls
        PROVE  /\ call'[d].pc = "delete" => call'[d].target \notin live'
               /\ call'[d].pc = "claim" => d \in live'
    <3>1. CASE d = c
      BY <3>1
    <3>2. CASE d # c
      <4>1. call'[d] = call[d]
        BY <3>2
      <4>2. QED
        BY <4>1 DEF Safe, HandsClean, At
    <3>3. QED
      BY <3>1, <3>2
  <2>4. QED
    BY <2>1, <2>2, <2>3 DEF HandsClean, At
<1>5. QED
  BY <1>2, <1>3, <1>4 DEF Safe

-----------------------------------------------------------------------------
(* The store *)

\* RecordStartupState touches the state alone.
LEMMA RecordSlot ==
  ASSUME TypeOK, RecordStartupState
  PROVE  /\ slot' \in Slots /\ slot'.inst = slot.inst
         /\ slot'.starting = slot.starting /\ slot'.epoch = slot.epoch
  BY DEF TypeOK, Slots, RecordStartupState

\* ClearStartupState puts no flag up, and resets the epoch of none that is.
LEMMA ClearSlot ==
  ASSUME TypeOK, ClearStartupState
  PROVE  /\ slot' \in Slots /\ slot'.inst = slot.inst
         /\ slot'.starting => slot.starting /\ slot'.epoch = slot.epoch
<1>1. CASE slot.state /\ slot.inst = None /\ ~slot.starting /\ ~slot.err
  <2>1. slot' = EmptySlot
    BY <1>1 DEF ClearStartupState
  <2>2. QED
    BY <1>1, <2>1 DEF EmptySlot, Slots
<1>2. CASE ~(slot.state /\ slot.inst = None /\ ~slot.starting /\ ~slot.err)
  <2>1. slot' = slot \/ slot' = [slot EXCEPT !.state = FALSE]
    BY <1>2, Zenon DEF ClearStartupState
  <2>2. QED
    BY <2>1 DEF TypeOK, Slots
<1>3. QED
  BY <1>1, <1>2

\* Invalidate lowers the flag.
LEMMA InvalidateSlot ==
  ASSUME TypeOK, Invalidate
  PROVE  /\ slot' \in Slots /\ slot'.inst = slot.inst /\ ~slot'.starting
         /\ live' = live /\ overtaken' \subseteq Calls
<1>1. slot \in Slots /\ slot.epoch \in Nat
  BY DEF TypeOK, Slots
<1>2. slot.epoch + 1 \in Nat
  BY <1>1
<1>3. slot' = [slot EXCEPT !.epoch = slot.epoch + 1, !.starting = FALSE,
                           !.state = FALSE, !.err = FALSE]
  BY DEF Invalidate
<1>4. slot' \in Slots /\ slot'.inst = slot.inst /\ ~slot'.starting
  <2> HIDE DEF Invalidate, TypeOK
  <2>1. QED
    BY <1>1, <1>2, <1>3 DEF Slots
<1>5. live' = live /\ overtaken' \subseteq Calls
  BY DEF TypeOK, Invalidate
<1>6. QED
  BY <1>4, <1>5

-----------------------------------------------------------------------------
(* Steps *)

\* The invariant from its parts.
LEMMA Parts ==
  ASSUME slot' \in Slots, live' \subseteq Calls, overtaken' \subseteq Calls,
         call' \in [Calls -> CallStates], ControlOK', Safe'
  PROVE  Inv'
  BY DEF Inv, TypeOK, ControlOK

\* A step that moves one call by Goto and is a Bystander keeps the invariant.
LEMMA QuietStep ==
  ASSUME Inv, NEW c \in Calls, NEW l \in Labels, Goto(c, l),
         slot' \in Slots,
         slot'.inst = slot.inst,
         slot'.starting => slot.starting /\ slot'.epoch = slot.epoch,
         live' = live, overtaken' \subseteq Calls, ControlOK',
         call[c].pc \notin {"delete", "claim", "stale"},
         l \notin {"delete", "claim"},
         call[c].pc \in PastClaim => l \in PastClaim,
         call[c].pc \in StartPhase =>
             l \in StartPhase \/ ~slot'.starting \/ call[c].epoch # slot.epoch
  PROVE  Inv'
<1>1. Moved(c, l)
  BY GotoMoves DEF Inv
<1>2. Safe'
  BY <1>1, Bystander DEF Inv, Moved
<1>3. QED
  BY <1>1, <1>2, Parts DEF Moved, Inv, TypeOK

\* What is left alone stays of its type.
LEMMA StoreKept ==
  ASSUME Inv, UNCHANGED storeVars
  PROVE  /\ slot' \in Slots /\ slot'.inst = slot.inst
         /\ slot'.starting = slot.starting /\ slot'.epoch = slot.epoch
         /\ live' = live /\ overtaken' \subseteq Calls
  BY DEF Inv, TypeOK, storeVars

\* Control and world stay typed when they are left alone.
LEMMA ControlKept ==
  ASSUME Inv, UNCHANGED <<controlVars, worldVars>>
  PROVE  ControlOK'
  BY DEF Inv, TypeOK, ControlOK, controlVars, worldVars

\* A call enters runMu, or returns at once.
LEMMA AdmitStep ==
  ASSUME Inv, NEW c \in Calls, Admit(c)
  PROVE  Inv'
<1>1. ControlOK'
  BY DEF Inv, TypeOK, ControlOK, controlVars, worldVars, storeVars, Admit
<1>2. /\ slot' \in Slots /\ slot'.inst = slot.inst
      /\ slot'.starting => slot.starting /\ slot'.epoch = slot.epoch
      /\ live' = live /\ overtaken' \subseteq Calls
  BY StoreKept DEF Admit
<1>3. CASE Goto(c, "done")
  BY <1>1, <1>2, <1>3, QuietStep DEF Admit, At, Labels, StartPhase, PastClaim
<1>4. CASE Goto(c, "number")
  BY <1>1, <1>2, <1>4, QuietStep DEF Admit, At, Labels, StartPhase, PastClaim
<1>5. QED
  BY <1>3, <1>4 DEF Admit

\* A preempting call goes on without runMu.
LEMMA PreemptStep ==
  ASSUME Inv, NEW c \in Calls, Preempt(c)
  PROVE  Inv'
<1>1. ControlOK'
  BY ControlKept DEF Preempt
<1>2. /\ slot' \in Slots /\ slot'.inst = slot.inst
      /\ slot'.starting => slot.starting /\ slot'.epoch = slot.epoch
      /\ live' = live /\ overtaken' \subseteq Calls
  BY StoreKept DEF Preempt
<1>3. CASE Goto(c, "number")
  BY <1>1, <1>2, <1>3, QuietStep DEF Preempt, At, Labels, StartPhase, PastClaim
<1>4. QED
  BY <1>3 DEF Preempt

\* Cancelling a context leaves the store alone.
LEMMA CancelActiveRunStep ==
  ASSUME Inv, NEW c \in Calls, CancelActiveRun(c)
  PROVE  Inv'
<1>1. ControlOK'
  BY DEF Inv, TypeOK, ControlOK, controlVars, worldVars, storeVars, CancelActiveRun
<1>2. /\ slot' \in Slots /\ slot'.inst = slot.inst
      /\ slot'.starting => slot.starting /\ slot'.epoch = slot.epoch
      /\ live' = live /\ overtaken' \subseteq Calls
  BY StoreKept DEF CancelActiveRun
<1>3. CASE Goto(c, "bind")
  BY <1>1, <1>2, <1>3, QuietStep DEF CancelActiveRun, At, Labels, StartPhase, PastClaim
<1>4. QED
  BY <1>3 DEF CancelActiveRun

\* A command returns.
LEMMA FinishStep ==
  ASSUME Inv, NEW c \in Calls, Finish(c)
  PROVE  Inv'
<1>1. ControlOK'
  BY DEF Inv, TypeOK, ControlOK, controlVars, worldVars, storeVars, Finish
<1>2. /\ slot' \in Slots /\ slot'.inst = slot.inst
      /\ slot'.starting => slot.starting /\ slot'.epoch = slot.epoch
      /\ live' = live /\ overtaken' \subseteq Calls
  BY StoreKept DEF Finish
<1>3. CASE Goto(c, "done")
  BY <1>1, <1>2, <1>3, QuietStep DEF Finish, At, Labels, StartPhase, PastClaim
<1>4. QED
  BY <1>3 DEF Finish

\* A recover looks at the slot.
LEMMA ProbeStep ==
  ASSUME Inv, NEW c \in Calls, Probe(c)
  PROVE  Inv'
<1>1. ControlOK'
  BY ControlKept DEF Probe
<1>2. /\ slot' \in Slots /\ slot'.inst = slot.inst
      /\ slot'.starting => slot.starting /\ slot'.epoch = slot.epoch
      /\ live' = live /\ overtaken' \subseteq Calls
  BY StoreKept DEF Probe
<1>3. CASE Goto(c, "finish")
  BY <1>1, <1>2, <1>3, QuietStep DEF Probe, At, Labels, StartPhase, PastClaim
<1>4. CASE Goto(c, "invalidate")
  BY <1>1, <1>2, <1>4, QuietStep DEF Probe, At, Labels, StartPhase, PastClaim
<1>5. QED
  BY <1>3, <1>4 DEF Probe

\* A teardown restores the SMS mode.
LEMMA RestoreSMSModeStep ==
  ASSUME Inv, NEW c \in Calls, RestoreSMSMode(c)
  PROVE  Inv'
<1>1. ControlOK'
  BY DEF Inv, TypeOK, ControlOK, controlVars, worldVars, storeVars, RestoreSMSMode
<1>2. /\ slot' \in Slots /\ slot'.inst = slot.inst
      /\ slot'.starting => slot.starting /\ slot'.epoch = slot.epoch
      /\ live' = live /\ overtaken' \subseteq Calls
  BY StoreKept DEF RestoreSMSMode
<1>3. CASE Goto(c, "wait")
  BY <1>1, <1>2, <1>3, QuietStep DEF RestoreSMSMode, At, Labels, StartPhase, PastClaim
<1>4. CASE Goto(c, "finish")
  BY <1>1, <1>2, <1>4, QuietStep DEF RestoreSMSMode, At, Labels, StartPhase, PastClaim
<1>5. QED
  BY <1>3, <1>4 DEF RestoreSMSMode, AfterTeardown

\* A start waits for the device.
LEMMA WaitReadyStep ==
  ASSUME Inv, NEW c \in Calls, WaitReady(c)
  PROVE  Inv'
<1>1. ControlOK'
  BY ControlKept DEF WaitReady
<1>2. /\ slot' \in Slots /\ slot'.inst = slot.inst
      /\ slot'.starting => slot.starting /\ slot'.epoch = slot.epoch
      /\ live' = live /\ overtaken' \subseteq Calls
  BY StoreKept DEF WaitReady
<1>3. CASE Goto(c, "check")
  BY <1>1, <1>2, <1>3, QuietStep DEF WaitReady, At, Labels, StartPhase, PastClaim
<1>4. CASE Goto(c, "finish")
  BY <1>1, <1>2, <1>4, QuietStep DEF WaitReady, At, Labels, StartPhase, PastClaim
<1>5. QED
  BY <1>3, <1>4 DEF WaitReady

\* A start looks at the switch mark.
LEMMA CheckSwitchingStep ==
  ASSUME Inv, NEW c \in Calls, CheckSwitching(c)
  PROVE  Inv'
<1>1. ControlOK'
  BY ControlKept DEF CheckSwitching
<1>2. /\ slot' \in Slots /\ slot'.inst = slot.inst
      /\ slot'.starting => slot.starting /\ slot'.epoch = slot.epoch
      /\ live' = live /\ overtaken' \subseteq Calls
  BY StoreKept DEF CheckSwitching
<1>3. CASE Goto(c, "finish")
  BY <1>1, <1>2, <1>3, QuietStep DEF CheckSwitching, At, Labels, StartPhase, PastClaim
<1>4. CASE Goto(c, "begin")
  BY <1>1, <1>2, <1>4, QuietStep DEF CheckSwitching, At, Labels, StartPhase, PastClaim
<1>5. QED
  BY <1>3, <1>4 DEF CheckSwitching

\* A started runtime takes over the SMS mode.
LEMMA MarkRuntimeStartedStep ==
  ASSUME Inv, NEW c \in Calls, MarkRuntimeStarted(c)
  PROVE  Inv'
<1>1. ControlOK'
  BY DEF Inv, TypeOK, ControlOK, controlVars, worldVars, storeVars, MarkRuntimeStarted
<1>2. /\ slot' \in Slots /\ slot'.inst = slot.inst
      /\ slot'.starting => slot.starting /\ slot'.epoch = slot.epoch
      /\ live' = live /\ overtaken' \subseteq Calls
  BY StoreKept DEF MarkRuntimeStarted
<1>3. CASE Goto(c, "finish")
  BY <1>1, <1>2, <1>3, QuietStep DEF MarkRuntimeStarted, At, Labels, StartPhase, PastClaim
<1>4. QED
  BY <1>3 DEF MarkRuntimeStarted

\* A command's context is bound and the command begins.
LEMMA BindRunContextStep ==
  ASSUME Inv, NEW c \in Calls, BindRunContext(c)
  PROVE  Inv'
<1>1. ControlOK'
  BY DEF Inv, TypeOK, ControlOK, controlVars, worldVars, storeVars, BindRunContext
<1>2. /\ slot' \in Slots /\ slot'.inst = slot.inst
      /\ slot'.starting => slot.starting /\ slot'.epoch = slot.epoch
      /\ live' = live /\ overtaken' \subseteq Calls
  BY StoreKept DEF BindRunContext
<1> DEFINE l == FirstStep(call[c].kind)
<1>3. Goto(c, l) /\ call[c].pc = "bind"
  BY DEF BindRunContext, At
<1>4. l \in {"check", "begin", "stop", "invalidate", "probe"}
  BY DEF FirstStep
<1> HIDE DEF l
<1>5. QED
  BY <1>1, <1>2, <1>3, <1>4, QuietStep DEF Labels, StartPhase, PastClaim

\* PrepareStart records the startup state, or fails.
LEMMA PrepareStartStep ==
  ASSUME Inv, NEW c \in Calls, PrepareStart(c)
  PROVE  Inv'
<1>1. ControlOK'
  BY ControlKept DEF PrepareStart
<1>2. /\ slot' \in Slots /\ slot'.inst = slot.inst
      /\ slot'.starting => slot.starting /\ slot'.epoch = slot.epoch
      /\ live' = live /\ overtaken' \subseteq Calls
  BY RecordSlot, ClearSlot DEF Inv, TypeOK, storeVars, PrepareStart
<1>3. CASE Goto(c, "before")
  BY <1>1, <1>2, <1>3, QuietStep DEF PrepareStart, At, Labels, StartPhase, PastClaim
<1>4. CASE Goto(c, "fail")
  BY <1>1, <1>2, <1>4, QuietStep DEF PrepareStart, At, Labels, StartPhase, PastClaim
<1>5. QED
  BY <1>3, <1>4 DEF PrepareStart

\* The runtime's BeforeStart records it again.
LEMMA BeforeStartStep ==
  ASSUME Inv, NEW c \in Calls, BeforeStart(c)
  PROVE  Inv'
<1>1. ControlOK'
  BY ControlKept DEF BeforeStart
<1>2. /\ slot' \in Slots /\ slot'.inst = slot.inst
      /\ slot'.starting => slot.starting /\ slot'.epoch = slot.epoch
      /\ live' = live /\ overtaken' \subseteq Calls
  BY RecordSlot, ClearSlot DEF Inv, TypeOK, storeVars, BeforeStart
<1>3. CASE Goto(c, "connect")
  BY <1>1, <1>2, <1>3, QuietStep DEF BeforeStart, At, Labels, StartPhase, PastClaim
<1>4. CASE Goto(c, "error")
  BY <1>1, <1>2, <1>4, QuietStep DEF BeforeStart, At, Labels, StartPhase, PastClaim
<1>5. QED
  BY <1>3, <1>4 DEF BeforeStart

\* A start that failed clears it.
LEMMA HandleStartupErrorStep ==
  ASSUME Inv, NEW c \in Calls, HandleStartupError(c)
  PROVE  Inv'
<1>1. ControlOK'
  BY DEF Inv, TypeOK, ControlOK, controlVars, worldVars, storeVars, HandleStartupError, CallStates
<1>2. /\ slot' \in Slots /\ slot'.inst = slot.inst
      /\ slot'.starting => slot.starting /\ slot'.epoch = slot.epoch
      /\ live' = live /\ overtaken' \subseteq Calls
  BY RecordSlot, ClearSlot DEF Inv, TypeOK, storeVars, HandleStartupError
<1>3. CASE Goto(c, "fail")
  BY <1>1, <1>2, <1>3, QuietStep DEF HandleStartupError, At, Labels, StartPhase, PastClaim
<1>4. QED
  BY <1>3 DEF HandleStartupError

\* An invalidation lowers the flag.
LEMMA InvalidateRuntimeStep ==
  ASSUME Inv, NEW c \in Calls, InvalidateRuntime(c)
  PROVE  Inv'
<1>1. ControlOK'
  BY ControlKept DEF InvalidateRuntime
<1>2. /\ slot' \in Slots /\ slot'.inst = slot.inst
      /\ slot'.starting => slot.starting /\ slot'.epoch = slot.epoch
      /\ live' = live /\ overtaken' \subseteq Calls
  BY InvalidateSlot DEF Inv, TypeOK, storeVars, InvalidateRuntime
<1>3. CASE Goto(c, "stop")
  BY <1>1, <1>2, <1>3, QuietStep DEF InvalidateRuntime, At, Labels, StartPhase, PastClaim
<1>4. QED
  BY <1>3 DEF InvalidateRuntime

\* A start clears the startup state when it is over.
LEMMA ClearAfterStartStep ==
  ASSUME Inv, NEW c \in Calls, ClearAfterStart(c)
  PROVE  Inv'
<1>1. ControlOK'
  BY ControlKept DEF ClearAfterStart
<1>2. /\ slot' \in Slots /\ slot'.inst = slot.inst
      /\ slot'.starting => slot.starting /\ slot'.epoch = slot.epoch
      /\ live' = live /\ overtaken' \subseteq Calls
  BY ClearSlot DEF Inv, TypeOK, ClearAfterStart
<1>3. CASE call[c].pc = "clear" /\ Goto(c, "finish")
  BY <1>1, <1>2, <1>3, QuietStep DEF Labels, StartPhase, PastClaim
<1>4. CASE call[c].pc = "started" /\ Goto(c, "mark")
  BY <1>1, <1>2, <1>4, QuietStep DEF Labels, StartPhase, PastClaim
<1>5. QED
  BY <1>3, <1>4 DEF ClearAfterStart, At

\* A failed start lowers the flag if its epoch is still the slot's.
LEMMA FailStartStep ==
  ASSUME Inv, NEW c \in Calls, FailStart(c)
  PROVE  Inv'
<1>1. ControlOK'
  BY ControlKept DEF FailStart
<1>2. Goto(c, "finish") /\ call[c].pc = "fail" /\ live' = live /\ overtaken' \subseteq Calls
  BY DEF FailStart, At, Inv, TypeOK
<1>3. CASE slot.epoch # call[c].epoch
  <2>1. slot' = slot
    BY <1>3 DEF FailStart
  <2>2. QED
    BY <1>1, <1>2, <1>3, <2>1, QuietStep DEF Inv, TypeOK, Labels, StartPhase, PastClaim
<1>4. CASE slot.epoch = call[c].epoch
  <2>1. slot' = [slot EXCEPT !.starting = FALSE, !.state = TRUE, !.err = TRUE]
    BY <1>4 DEF FailStart
  <2>2. slot' \in Slots /\ slot'.inst = slot.inst /\ ~slot'.starting
    BY <2>1 DEF Inv, TypeOK, Slots
  <2>3. QED
    BY <1>1, <1>2, <2>2, QuietStep DEF Labels, StartPhase, PastClaim
<1>5. QED
  BY <1>3, <1>4

\* A command gets its generation.
LEMMA NumberStep ==
  ASSUME Inv, NEW c \in Calls, Number(c)
  PROVE  Inv'
<1> DEFINE l == IF call[c].kind \in Preempting THEN "cancel" ELSE "bind"
<1>1. l \in {"cancel", "bind"} /\ call[c].pc = "number"
  BY DEF Number, At
<1>2. /\ slot' \in Slots /\ slot'.inst = slot.inst
      /\ slot'.starting => slot.starting /\ slot'.epoch = slot.epoch
      /\ live' = live /\ overtaken' \subseteq Calls
  BY StoreKept DEF Number
<1>3. \/ Goto(c, l) /\ UNCHANGED generation
      \/ /\ generation' = generation + 1
         /\ call' = [call EXCEPT ![c].pc = l, ![c].gen = generation + 1]
  BY DEF Number
<1>4. generation \in Nat /\ generation + 1 \in Nat
  BY DEF Inv, TypeOK
<1>5. ControlOK'
  <2>1. generation' \in Nat
    BY <1>3, <1>4
  <2>2. QED
    BY <2>1 DEF Inv, TypeOK, ControlOK, worldVars, Number
<1> HIDE DEF l
<1>6. CASE Goto(c, l)
  BY <1>1, <1>2, <1>5, <1>6, QuietStep DEF Labels, StartPhase, PastClaim
<1>7. CASE call' = [call EXCEPT ![c].pc = l, ![c].gen = generation + 1]
  <2>1. call \in [Calls -> CallStates] /\ call[c] \in CallStates
    BY DEF Inv, TypeOK
  <2>2. l \in Labels
    BY <1>1 DEF Labels
  <2> DEFINE r == [call[c] EXCEPT !.pc = l, !.gen = generation + 1]
  <2>3. call' = [call EXCEPT ![c] = r]
    BY <1>7
  <2>4. r \in CallStates /\ r.pc = l /\ r.epoch = call[c].epoch /\ r.target = call[c].target
    BY <1>4, <2>1, <2>2 DEF CallStates
  <2> HIDE DEF r
  <2>5. call' \in [Calls -> CallStates] /\ call'[c] = r /\ \A d \in Calls \ {c} : call'[d] = call[d]
    BY <2>1, <2>3, <2>4
  <2>6. Safe'
    BY <1>1, <1>2, <2>4, <2>5, Bystander DEF Inv, StartPhase, PastClaim
  <2>7. QED
    BY <1>2, <1>5, <2>5, <2>6, Parts DEF Inv, TypeOK
<1>8. QED
  BY <1>3, <1>6, <1>7

\* A teardown reads the instance it will stop, or finds none.
LEMMA ReadInstanceStep ==
  ASSUME Inv, NEW c \in Calls, ReadInstance(c)
  PROVE  Inv'
<1>1. ControlOK'
  BY ControlKept DEF ReadInstance
<1>2. /\ slot' \in Slots /\ slot'.inst = slot.inst
      /\ slot'.starting => slot.starting /\ slot'.epoch = slot.epoch
      /\ live' = live /\ overtaken' \subseteq Calls
  BY StoreKept DEF ReadInstance
<1>3. call[c].pc = "stop"
  BY DEF ReadInstance, At
<1>4. CASE slot.inst = None
  <2> DEFINE l == AfterStop(call[c].kind, FALSE)
  <2>1. Goto(c, l)
    BY <1>4 DEF ReadInstance
  <2>2. l \in {"sms", "wait", "finish"}
    BY DEF AfterStop, AfterTeardown
  <2> HIDE DEF l
  <2>3. QED
    BY <1>1, <1>2, <1>3, <2>1, <2>2, QuietStep DEF Labels, StartPhase, PastClaim
<1>5. CASE slot.inst # None
  <2>1. call \in [Calls -> CallStates] /\ call[c] \in CallStates /\ slot.inst \in Calls
    BY <1>5 DEF Inv, TypeOK, Slots
  <2> DEFINE r == [call[c] EXCEPT !.pc = "halt", !.target = slot.inst]
  <2>2. call' = [call EXCEPT ![c] = r]
    BY <1>5 DEF ReadInstance
  <2>3. r \in CallStates /\ r.pc = "halt" /\ r.epoch = call[c].epoch /\ r.target = slot.inst
    BY <2>1 DEF CallStates, Labels
  <2> HIDE DEF r
  <2>4. call' \in [Calls -> CallStates] /\ call'[c] = r /\ \A d \in Calls \ {c} : call'[d] = call[d]
    BY <2>1, <2>2, <2>3
  <2>5. Safe'
    BY <1>2, <1>3, <2>3, <2>4, Bystander DEF Inv, StartPhase, PastClaim
  <2>6. QED
    BY <1>1, <1>2, <2>4, <2>5, Parts DEF Inv, TypeOK
<1>6. QED
  BY <1>4, <1>5

\* A call is made: whatever its kind, it starts with no target and no start.
LEMMA IssueStep ==
  ASSUME Inv, NEW c \in Calls, Issue(c)
  PROVE  Inv'
<1>1. PICK k \in Kinds : IssueQuiet(c, k) \/ IssueRetry(c, k) \/ IssueInvalidating(c, k)
                            \/ IssueSwitch(c, k)
  BY DEF Issue
<1>2. k \in AllKinds /\ call[c].pc = "idle"
  BY <1>1, KindsAssumption DEF Issue, At
<1>3. ControlOK'
  <2>1. CASE IssueQuiet(c, k)
    BY <2>1, ControlKept DEF IssueQuiet
  <2>2. CASE IssueRetry(c, k)
    BY <2>2, ControlKept DEF IssueRetry
  <2>3. CASE IssueInvalidating(c, k)
    BY <2>3, ControlKept DEF IssueInvalidating
  <2>4. CASE IssueSwitch(c, k)
    BY <2>4 DEF Inv, TypeOK, ControlOK, controlVars, IssueSwitch
  <2>5. QED
    BY <1>1, <2>1, <2>2, <2>3, <2>4
<1>4. /\ slot' \in Slots /\ slot'.inst = slot.inst
      /\ slot'.starting => slot.starting /\ slot'.epoch = slot.epoch
      /\ live' = live /\ overtaken' \subseteq Calls
  <2>1. CASE Invalidate
    BY <2>1, InvalidateSlot DEF Inv
  <2>2. CASE UNCHANGED storeVars
    BY <2>2, StoreKept
  <2>3. QED
    BY <1>1, <2>1, <2>2 DEF IssueQuiet, IssueRetry, IssueInvalidating, IssueSwitch
<1>5. PICK r \in CallStates :
          /\ r.pc \in {"submit", "stop"}
          /\ r.epoch = call[c].epoch /\ r.target = call[c].target
          /\ call' = [call EXCEPT ![c] = r]
  <2>1. call \in [Calls -> CallStates] /\ call[c] \in CallStates
    BY DEF Inv, TypeOK
  <2>2. ASSUME NEW l \in {"submit", "stop"},
               call' = [call EXCEPT ![c].pc = l, ![c].kind = k]
        PROVE  \E r \in CallStates :
                  /\ r.pc \in {"submit", "stop"}
                  /\ r.epoch = call[c].epoch /\ r.target = call[c].target
                  /\ call' = [call EXCEPT ![c] = r]
    <3> DEFINE r == [call[c] EXCEPT !.pc = l, !.kind = k]
    <3>1. call' = [call EXCEPT ![c] = r]
      BY <2>2
    <3>2. r \in CallStates /\ r.pc = l /\ r.epoch = call[c].epoch /\ r.target = call[c].target
      BY <1>2, <2>1 DEF CallStates, Labels
    <3> HIDE DEF r
    <3>3. QED
      BY <3>1, <3>2
  <2>3. ASSUME NEW g \in Nat,
               call' = [call EXCEPT ![c].pc = "submit", ![c].kind = k, ![c].gen = g]
        PROVE  \E r \in CallStates :
                  /\ r.pc \in {"submit", "stop"}
                  /\ r.epoch = call[c].epoch /\ r.target = call[c].target
                  /\ call' = [call EXCEPT ![c] = r]
    <3> DEFINE r == [call[c] EXCEPT !.pc = "submit", !.kind = k, !.gen = g]
    <3>1. call' = [call EXCEPT ![c] = r]
      BY <2>3
    <3>2. r \in CallStates /\ r.pc = "submit" /\ r.epoch = call[c].epoch
          /\ r.target = call[c].target
      BY <1>2, <2>1 DEF CallStates, Labels
    <3> HIDE DEF r
    <3>3. QED
      BY <3>1, <3>2
  <2>4. CASE IssueQuiet(c, k)
    BY <2>2, <2>4 DEF IssueQuiet
  <2>5. CASE IssueRetry(c, k)
    <3>1. retries \subseteq Nat
      BY DEF Inv, TypeOK
    <3>2. PICK g \in retries :
              call' = [call EXCEPT ![c].pc = "submit", ![c].kind = k, ![c].gen = g]
      BY <2>5 DEF IssueRetry
    <3>3. QED
      BY <2>3, <3>1, <3>2
  <2>6. CASE IssueInvalidating(c, k)
    <3>1. CASE k \in Direct
      <4>1. call' = [call EXCEPT ![c].pc = "stop", ![c].kind = k]
        BY <2>6, <3>1 DEF IssueInvalidating
      <4>2. QED
        BY <2>2, <4>1
    <3>2. CASE k \notin Direct
      <4>1. call' = [call EXCEPT ![c].pc = "submit", ![c].kind = k]
        BY <2>6, <3>2 DEF IssueInvalidating
      <4>2. QED
        BY <2>2, <4>1
    <3>3. QED
      BY <3>1, <3>2
  <2>7. CASE IssueSwitch(c, k)
    BY <2>2, <2>7 DEF IssueSwitch
  <2>8. QED
    BY <1>1, <2>4, <2>5, <2>6, <2>7
<1>6. call \in [Calls -> CallStates]
  BY DEF Inv, TypeOK
<1>7. call' \in [Calls -> CallStates] /\ call'[c] = r /\ \A d \in Calls \ {c} : call'[d] = call[d]
  BY <1>5, <1>6
<1>8. Safe'
  BY <1>2, <1>4, <1>5, <1>7, Bystander DEF Inv, StartPhase, PastClaim
<1>9. QED
  BY <1>3, <1>4, <1>7, <1>8, Parts DEF Inv, TypeOK

\* An observer records the startup state of a tunnel that is not the slot's.
LEMMA ObserveStep ==
  ASSUME Inv, NEW c \in Calls, Observe(c)
  PROVE  Inv'
<1>1. ControlOK'
  BY ControlKept DEF Observe
<1>2. /\ slot' \in Slots /\ slot'.inst = slot.inst
      /\ slot'.starting = slot.starting /\ slot'.epoch = slot.epoch
  BY RecordSlot DEF Observe, Inv
<1>3. live' = live /\ call' = call /\ overtaken' = overtaken
  BY DEF Observe
<1>4. Safe'
  BY <1>2, <1>3 DEF Inv, Safe, TunnelsAccounted, StartingHasOwner, HandsClean, At
<1>5. QED
  BY <1>1, <1>2, <1>3, <1>4, Parts DEF Inv, TypeOK

\* A switch is given up.
LEMMA AbandonSwitchStep ==
  ASSUME Inv, AbandonSwitch
  PROVE  Inv'
<1>1. ControlOK'
  BY DEF Inv, TypeOK, ControlOK, controlVars, AbandonSwitch
<1>2. slot' = slot /\ live' = live /\ call' = call /\ overtaken' = overtaken
  BY DEF AbandonSwitch, storeVars
<1>3. Safe'
  BY <1>2 DEF Inv, Safe, TunnelsAccounted, StartingHasOwner, HandsClean, At
<1>4. QED
  BY <1>1, <1>2, <1>3, Parts DEF Inv, TypeOK

\* A start raises the flag, and is from then on its owner.
LEMMA BeginStartStep ==
  ASSUME Inv, NEW c \in Calls, BeginStart(c)
  PROVE  Inv'
<1>1. ControlOK' /\ live' = live /\ overtaken' \subseteq Calls /\ call[c].pc = "begin"
  BY ControlKept DEF BeginStart, At, Inv, TypeOK
<1>2. CASE Goto(c, "finish") /\ UNCHANGED slot
  BY <1>1, <1>2, QuietStep DEF Inv, TypeOK, Labels, StartPhase, PastClaim
<1>3. CASE /\ slot.inst = None
           /\ slot' = [slot EXCEPT !.starting = TRUE, !.err = FALSE]
           /\ call' = [call EXCEPT ![c].pc = "prepare", ![c].epoch = slot.epoch]
  <2>1. slot' \in Slots /\ slot'.inst = None /\ slot'.epoch = slot.epoch /\ slot.epoch \in Nat
    BY <1>3 DEF Inv, TypeOK, Slots
  <2>2. call \in [Calls -> CallStates] /\ call[c] \in CallStates
    BY DEF Inv, TypeOK
  <2> DEFINE r == [call[c] EXCEPT !.pc = "prepare", !.epoch = slot.epoch]
  <2>3. call' = [call EXCEPT ![c] = r]
    BY <1>3
  <2>4. r \in CallStates /\ r.pc = "prepare" /\ r.epoch = slot.epoch /\ r.target = call[c].target
    BY <2>1, <2>2 DEF CallStates, Labels, StartPhase
  <2> HIDE DEF r
  <2>5. call' \in [Calls -> CallStates] /\ call'[c] = r /\ \A d \in Calls \ {c} : call'[d] = call[d]
    BY <2>2, <2>3, <2>4
  <2>6. TunnelsAccounted'
    BY <1>1, <1>3, <2>1, <2>4, <2>5 DEF Inv, TypeOK, Safe, TunnelsAccounted, At
  <2>7. StartingHasOwner'
    BY <2>1, <2>4, <2>5 DEF StartingHasOwner, StartPhase
  <2>8. HandsClean'
    <3>1. ASSUME NEW d \in Calls, call'[d].target # None
          PROVE  call'[call'[d].target].pc \in PastClaim
      <4>1. call'[d].target = call[d].target
        BY <2>4, <2>5
      <4>2. call[d].target \in Calls /\ call[call[d].target].pc \in PastClaim
        BY <2>2, <3>1, <4>1 DEF CallStates, Inv, Safe, HandsClean
      <4>3. call[d].target # c
        BY <1>1, <4>2 DEF PastClaim
      <4>4. QED
        BY <2>5, <4>1, <4>2, <4>3
    <3>2. ASSUME NEW d \in Calls
          PROVE  /\ call'[d].pc = "delete" => call'[d].target \notin live'
                 /\ call'[d].pc = "claim" => d \in live'
      BY <1>1, <2>4, <2>5 DEF Inv, Safe, HandsClean, At
    <3>3. QED
      BY <2>1, <3>1, <3>2 DEF HandsClean, At
  <2>9. QED
    BY <1>1, <2>1, <2>5, <2>6, <2>7, <2>8, Parts DEF Inv, TypeOK, Safe
<1>4. QED
  BY <1>2, <1>3 DEF BeginStart

\* A tunnel comes up in the hands of its start: nobody else knows it yet.
LEMMA ConnectStep ==
  ASSUME Inv, NEW c \in Calls, Connect(c)
  PROVE  Inv'
<1>1. ControlOK' /\ slot' = slot /\ overtaken' \subseteq Calls /\ call[c].pc = "connect"
  BY ControlKept DEF Connect, At, Inv, TypeOK
<1>2. CASE live' = live /\ Goto(c, "error")
  BY <1>1, <1>2, QuietStep DEF Inv, TypeOK, Labels, StartPhase, PastClaim
<1>3. CASE live' = live \cup {c} /\ Goto(c, "claim")
  <2>1. Moved(c, "claim")
    BY <1>3, GotoMoves DEF Inv, Labels, StartPhase
  <2>2. \A d \in Calls : call[d].pc \in PastClaim => d # c /\ call'[d].pc \in PastClaim
    BY <1>1, <2>1 DEF Moved, PastClaim
  <2>3. slot.inst # c
    BY <1>1, NoneAssumption DEF Inv, Safe, HandsClean, PastClaim
  <2>4. \A d \in Calls : call[d].target # c
    BY <1>1, NoneAssumption DEF Inv, Safe, HandsClean, PastClaim
  <2>5. TunnelsAccounted'
    <3>1. ASSUME NEW i \in live' PROVE slot.inst = i \/ call'[i].pc \in {"claim", "stale"}
      <4>1. CASE i = c
        BY <2>1, <4>1 DEF Moved
      <4>2. CASE i # c
        BY <1>3, <2>1, <4>2 DEF Inv, Safe, TunnelsAccounted, Moved, TypeOK
      <4>3. QED
        BY <4>1, <4>2
    <3>2. ASSUME slot.inst \notin live' \cup {None}
          PROVE  \E d \in Calls : call'[d].pc = "delete" /\ call'[d].target = slot.inst
      <4>1. PICK d \in Calls : call[d].pc = "delete" /\ call[d].target = slot.inst
        BY <1>3, <3>2 DEF Inv, Safe, TunnelsAccounted, At
      <4>2. QED
        BY <1>1, <2>1, <4>1 DEF Moved
    <3>3. QED
      BY <1>1, <3>1, <3>2 DEF TunnelsAccounted, At
  <2>6. StartingHasOwner'
    <3>1. ASSUME slot.starting
          PROVE  \E d \in Calls : call'[d].pc \in StartPhase /\ call'[d].epoch = slot.epoch
      <4>1. PICK d \in Calls : call[d].pc \in StartPhase /\ call[d].epoch = slot.epoch
        BY <3>1 DEF Inv, Safe, StartingHasOwner
      <4>2. call'[d].pc \in StartPhase /\ call'[d].epoch = slot.epoch
        BY <2>1, <4>1 DEF Moved, StartPhase
      <4>3. QED
        BY <4>2
    <3>2. QED
      BY <1>1, <3>1 DEF StartingHasOwner
  <2>7. HandsClean'
    <3>1. slot.inst # None => call'[slot.inst].pc \in PastClaim /\ ~slot.starting
      BY <2>2 DEF Inv, Safe, HandsClean, TypeOK, Slots
    <3>2. ASSUME NEW d \in Calls, call'[d].target # None
          PROVE  call'[call'[d].target].pc \in PastClaim
      <4>1. call'[d].target = call[d].target
        BY <2>1 DEF Moved
      <4>2. call[d].target \in Calls /\ call[call[d].target].pc \in PastClaim
        BY <3>2, <4>1 DEF CallStates, Inv, Safe, HandsClean, TypeOK
      <4>3. QED
        BY <2>2, <4>1, <4>2
    <3>3. ASSUME NEW d \in Calls
          PROVE  /\ call'[d].pc = "delete" => call'[d].target \notin live'
                 /\ call'[d].pc = "claim" => d \in live'
      <4>1. CASE d = c
        BY <1>3, <2>1, <4>1 DEF Moved
      <4>2. CASE d # c
        <5>1. call'[d] = call[d]
          BY <2>1, <4>2 DEF Moved
        <5>2. QED
          BY <1>3, <2>4, <5>1 DEF Inv, Safe, HandsClean, At
      <4>3. QED
        BY <4>1, <4>2
    <3>4. QED
      BY <1>1, <3>1, <3>2, <3>3 DEF HandsClean, At
  <2>8. live' \subseteq Calls
    BY <1>3 DEF Inv, TypeOK
  <2>9. QED
    BY <1>1, <2>1, <2>5, <2>6, <2>7, <2>8, Parts DEF Inv, TypeOK, Safe, Moved
<1>4. QED
  BY <1>2, <1>3 DEF Connect

\* A start puts its tunnel in the empty slot of its epoch, or finds it stale.
LEMMA ClaimStartedStep ==
  ASSUME Inv, NEW c \in Calls, ClaimStarted(c)
  PROVE  Inv'
<1>1. ControlOK' /\ live' = live /\ overtaken' \subseteq Calls /\ call[c].pc = "claim"
  BY ControlKept DEF ClaimStarted, At, Inv, TypeOK
<1>2. \/ /\ slot.epoch = call[c].epoch /\ slot.inst = None
         /\ slot' = [EmptySlot EXCEPT !.inst = c, !.epoch = slot.epoch]
         /\ Goto(c, "started")
      \/ /\ slot.epoch # call[c].epoch \/ slot.inst # None
         /\ Goto(c, "stale") /\ slot' = slot
  BY DEF ClaimStarted
<1>3. PICK l \in {"started", "stale"} : Goto(c, l)
  BY <1>2
<1>4. Moved(c, l)
  BY <1>3, GotoMoves DEF Inv, Labels
<1>5. \A d \in Calls : call[d].pc \in PastClaim => d # c /\ call'[d].pc \in PastClaim
  BY <1>1, <1>4 DEF Moved, PastClaim
<1>6. \A d \in Calls : call[d].pc \notin {"claim"} => call'[d] = call[d]
  BY <1>1, <1>4 DEF Moved
<1>7. /\ \A d \in Calls : call'[d].target # None => call'[call'[d].target].pc \in PastClaim
      /\ \A d \in Calls : /\ call'[d].pc = "delete" => call'[d].target \notin live'
                          /\ call'[d].pc = "claim" => d \in live'
  <2>1. ASSUME NEW d \in Calls, call'[d].target # None
        PROVE  call'[call'[d].target].pc \in PastClaim
    <3>1. call'[d].target = call[d].target
      BY <1>4 DEF Moved
    <3>2. call[d].target \in Calls /\ call[call[d].target].pc \in PastClaim
      BY <2>1, <3>1 DEF CallStates, Inv, Safe, HandsClean, TypeOK
    <3>3. QED
      BY <1>5, <3>1, <3>2
  <2>2. ASSUME NEW d \in Calls
        PROVE  /\ call'[d].pc = "delete" => call'[d].target \notin live'
               /\ call'[d].pc = "claim" => d \in live'
    <3>1. CASE d = c
      BY <1>3, <1>4, <3>1 DEF Moved
    <3>2. CASE d # c
      <4>1. call'[d] = call[d]
        BY <1>4, <3>2 DEF Moved
      <4>2. QED
        BY <1>1, <4>1 DEF Inv, Safe, HandsClean, At
    <3>3. QED
      BY <3>1, <3>2
  <2>3. QED
    BY <2>1, <2>2
<1>8. CASE /\ slot.epoch = call[c].epoch /\ slot.inst = None
           /\ slot' = [EmptySlot EXCEPT !.inst = c, !.epoch = slot.epoch]
           /\ Goto(c, "started")
  <2>1. slot' \in Slots /\ slot'.inst = c /\ ~slot'.starting
    BY <1>8 DEF EmptySlot, Slots, Inv, TypeOK
  <2>2. call'[c].pc = "started"
    BY <1>8, GotoMoves DEF Inv, Labels, Moved
  <2>3. c \in live
    BY <1>1 DEF Inv, Safe, HandsClean, At
  <2>4. TunnelsAccounted'
    <3>1. ASSUME NEW i \in live' PROVE slot'.inst = i \/ call'[i].pc \in {"claim", "stale"}
      <4>1. CASE i = c
        BY <2>1, <4>1
      <4>2. CASE i # c
        <5>1. i \in Calls /\ call[i].pc \in {"claim", "stale"}
          BY <1>1, <1>8, NoneAssumption DEF Inv, Safe, TunnelsAccounted, TypeOK
        <5>2. QED
          BY <1>4, <4>2, <5>1 DEF Moved
      <4>3. QED
        BY <4>1, <4>2
    <3>2. slot'.inst \in live'
      BY <1>1, <2>1, <2>3
    <3>3. QED
      BY <3>1, <3>2 DEF TunnelsAccounted
  <2>5. StartingHasOwner'
    BY <2>1 DEF StartingHasOwner
  <2>6. HandsClean'
    BY <1>7, <2>1, <2>2 DEF HandsClean, At, PastClaim
  <2>7. QED
    BY <1>1, <1>4, <2>1, <2>4, <2>5, <2>6, Parts DEF Inv, TypeOK, Safe, Moved
<1>9. CASE /\ slot.epoch # call[c].epoch \/ slot.inst # None
           /\ Goto(c, "stale") /\ slot' = slot
  <2>1. call'[c].pc = "stale"
    BY <1>9, GotoMoves DEF Inv, Labels, Moved
  <2>2. TunnelsAccounted'
    <3>1. ASSUME NEW i \in live' PROVE slot'.inst = i \/ call'[i].pc \in {"claim", "stale"}
      BY <1>1, <1>4, <1>9, <2>1 DEF Inv, Safe, TunnelsAccounted, TypeOK, Moved
    <3>2. ASSUME slot'.inst \notin live' \cup {None}
          PROVE  \E d \in Calls : call'[d].pc = "delete" /\ call'[d].target = slot'.inst
      <4>1. PICK d \in Calls : call[d].pc = "delete" /\ call[d].target = slot.inst
        BY <1>1, <1>9, <3>2 DEF Inv, Safe, TunnelsAccounted, At
      <4>2. QED
        BY <1>6, <1>9, <4>1
    <3>3. QED
      BY <3>1, <3>2 DEF TunnelsAccounted, At
  <2>3. StartingHasOwner'
    <3>1. ASSUME slot.starting
          PROVE  \E d \in Calls : call'[d].pc \in StartPhase /\ call'[d].epoch = slot.epoch
      <4>1. PICK d \in Calls : call[d].pc \in StartPhase /\ call[d].epoch = slot.epoch
        BY <3>1 DEF Inv, Safe, StartingHasOwner
      <4>2. slot.inst = None
        BY <3>1 DEF Inv, Safe, HandsClean
      <4>3. d # c
        BY <1>9, <4>1, <4>2
      <4>4. QED
        BY <1>4, <4>1, <4>3 DEF Moved
    <3>2. QED
      BY <1>9, <3>1 DEF StartingHasOwner
  <2>4. HandsClean'
    <3>1. slot.inst # None => call'[slot.inst].pc \in PastClaim /\ ~slot.starting
      BY <1>5 DEF Inv, Safe, HandsClean, TypeOK, Slots
    <3>2. QED
      BY <1>7, <1>9, <3>1 DEF HandsClean, At
  <2>5. QED
    BY <1>1, <1>4, <1>9, <2>2, <2>3, <2>4, Parts DEF Inv, TypeOK, Safe, Moved
<1>10. QED
  BY <1>2, <1>8, <1>9

\* A start that was overtaken stops its own tunnel, which is in no slot.
LEMMA StopStaleStep ==
  ASSUME Inv, NEW c \in Calls, StopStale(c)
  PROVE  Inv'
<1>1. /\ ControlOK' /\ slot' = slot /\ live' = live \ {c} /\ overtaken' \subseteq Calls
      /\ call[c].pc = "stale"
  BY ControlKept DEF StopStale, At, Inv, TypeOK
<1>2. Moved(c, "clear")
  BY GotoMoves DEF StopStale, Inv, Labels
<1>3. \A d \in Calls : call[d].pc \in PastClaim => d # c /\ call'[d].pc \in PastClaim
  BY <1>1, <1>2 DEF Moved, PastClaim
<1>4. TunnelsAccounted'
  <2>1. ASSUME NEW i \in live' PROVE slot.inst = i \/ call'[i].pc \in {"claim", "stale"}
    BY <1>1, <1>2 DEF Inv, Safe, TunnelsAccounted, TypeOK, Moved
  <2>2. ASSUME slot.inst \notin live' \cup {None}
        PROVE  \E d \in Calls : call'[d].pc = "delete" /\ call'[d].target = slot.inst
    <3>1. slot.inst # c
      BY <1>3, <2>2 DEF Inv, Safe, HandsClean
    <3>2. PICK d \in Calls : call[d].pc = "delete" /\ call[d].target = slot.inst
      BY <1>1, <2>2, <3>1 DEF Inv, Safe, TunnelsAccounted, At
    <3>3. QED
      BY <1>1, <1>2, <3>2 DEF Moved
  <2>3. QED
    BY <1>1, <2>1, <2>2 DEF TunnelsAccounted, At
<1>5. StartingHasOwner'
  <2>1. \A d \in Calls : call[d].pc \in StartPhase => call'[d] = call[d]
    BY <1>1, <1>2 DEF Moved, StartPhase
  <2>2. QED
    BY <1>1, <2>1 DEF Inv, Safe, StartingHasOwner
<1>6. HandsClean'
  <2>1. slot.inst # None => call'[slot.inst].pc \in PastClaim /\ ~slot.starting
    BY <1>3 DEF Inv, Safe, HandsClean, TypeOK, Slots
  <2>2. ASSUME NEW d \in Calls, call'[d].target # None
        PROVE  call'[call'[d].target].pc \in PastClaim
    <3>1. call'[d].target = call[d].target
      BY <1>2 DEF Moved
    <3>2. call[d].target \in Calls /\ call[call[d].target].pc \in PastClaim
      BY <2>2, <3>1 DEF CallStates, Inv, Safe, HandsClean, TypeOK
    <3>3. QED
      BY <1>3, <3>1, <3>2
  <2>3. ASSUME NEW d \in Calls
        PROVE  /\ call'[d].pc = "delete" => call'[d].target \notin live'
               /\ call'[d].pc = "claim" => d \in live'
    BY <1>1, <1>2 DEF Inv, Safe, HandsClean, At, Moved
  <2>4. QED
    BY <1>1, <2>1, <2>2, <2>3 DEF HandsClean, At
<1>7. live' \subseteq Calls
  BY <1>1 DEF Inv, TypeOK
<1>8. QED
  BY <1>1, <1>2, <1>4, <1>5, <1>6, <1>7, Parts DEF Inv, TypeOK, Safe, Moved

\* A teardown stops the tunnel it read, which no start is about to claim, and
\* stands ready to delete it.
LEMMA StopInstanceStep ==
  ASSUME Inv, NEW c \in Calls, StopInstance(c)
  PROVE  Inv'
<1> DEFINE t == call[c].target
<1>1. /\ ControlOK' /\ slot' = slot /\ live' = live \ {t} /\ overtaken' \subseteq Calls
      /\ call[c].pc = "halt"
  BY ControlKept DEF StopInstance, At, Inv, TypeOK
<1>2. Moved(c, "delete")
  BY GotoMoves DEF StopInstance, Inv, Labels
<1>3. \A d \in Calls : call[d].pc \in PastClaim => d # c /\ call'[d].pc \in PastClaim
  BY <1>1, <1>2 DEF Moved, PastClaim
<1>4. \A d \in Calls : call[d].pc = "claim" => d # t
  BY NoneAssumption DEF Inv, Safe, HandsClean, PastClaim
<1>5. TunnelsAccounted'
  <2>1. ASSUME NEW i \in live' PROVE slot.inst = i \/ call'[i].pc \in {"claim", "stale"}
    BY <1>1, <1>2 DEF Inv, Safe, TunnelsAccounted, TypeOK, Moved
  <2>2. ASSUME slot.inst \notin live' \cup {None}
        PROVE  \E d \in Calls : call'[d].pc = "delete" /\ call'[d].target = slot.inst
    <3>1. CASE slot.inst = t
      BY <1>2, <3>1 DEF Moved
    <3>2. CASE slot.inst # t
      <4>1. PICK d \in Calls : call[d].pc = "delete" /\ call[d].target = slot.inst
        BY <1>1, <2>2, <3>2 DEF Inv, Safe, TunnelsAccounted, At
      <4>2. QED
        BY <1>1, <1>2, <4>1 DEF Moved
    <3>3. QED
      BY <3>1, <3>2
  <2>3. QED
    BY <1>1, <2>1, <2>2 DEF TunnelsAccounted, At
<1>6. StartingHasOwner'
  <2>1. \A d \in Calls : call[d].pc \in StartPhase => call'[d] = call[d]
    BY <1>1, <1>2 DEF Moved, StartPhase
  <2>2. QED
    BY <1>1, <2>1 DEF Inv, Safe, StartingHasOwner
<1>7. HandsClean'
  <2>1. slot.inst # None => call'[slot.inst].pc \in PastClaim /\ ~slot.starting
    BY <1>3 DEF Inv, Safe, HandsClean, TypeOK, Slots
  <2>2. ASSUME NEW d \in Calls, call'[d].target # None
        PROVE  call'[call'[d].target].pc \in PastClaim
    <3>1. call'[d].target = call[d].target
      BY <1>2 DEF Moved
    <3>2. call[d].target \in Calls /\ call[call[d].target].pc \in PastClaim
      BY <2>2, <3>1 DEF CallStates, Inv, Safe, HandsClean, TypeOK
    <3>3. QED
      BY <1>3, <3>1, <3>2
  <2>3. ASSUME NEW d \in Calls
        PROVE  /\ call'[d].pc = "delete" => call'[d].target \notin live'
               /\ call'[d].pc = "claim" => d \in live'
    <3>1. CASE d = c
      BY <1>1, <1>2, <3>1 DEF Moved
    <3>2. CASE d # c
      <4>1. call'[d] = call[d]
        BY <1>2, <3>2 DEF Moved
      <4>2. QED
        BY <1>1, <1>4, <4>1 DEF Inv, Safe, HandsClean, At
    <3>3. QED
      BY <3>1, <3>2
  <2>4. QED
    BY <1>1, <2>1, <2>2, <2>3 DEF HandsClean, At
<1>8. live' \subseteq Calls
  BY <1>1 DEF Inv, TypeOK
<1>9. QED
  BY <1>1, <1>2, <1>5, <1>6, <1>7, <1>8, Parts DEF Inv, TypeOK, Safe, Moved

\* A teardown deletes the instance it stopped, if the slot still has it.
LEMMA DeleteInstanceStep ==
  ASSUME Inv, NEW c \in Calls, DeleteInstance(c)
  PROVE  Inv'
<1> DEFINE l == AfterStop(call[c].kind, TRUE)
           r == [call[c] EXCEPT !.pc = l, !.target = None]
<1>1. ControlOK' /\ live' = live /\ overtaken' \subseteq Calls /\ call[c].pc = "delete"
  BY ControlKept DEF DeleteInstance, At, Inv, TypeOK
<1>2. l \in {"sms", "wait", "finish"}
  BY DEF AfterStop, AfterTeardown
<1>3. call' = [call EXCEPT ![c] = r]
  BY DEF DeleteInstance
<1> HIDE DEF l
<1>4. call \in [Calls -> CallStates] /\ call[c] \in CallStates
  BY DEF Inv, TypeOK
<1>5. r \in CallStates /\ r.pc = l /\ r.target = None
  BY <1>2, <1>4 DEF CallStates, Labels
<1> HIDE DEF r
<1>6. call' \in [Calls -> CallStates] /\ call'[c] = r /\ \A d \in Calls \ {c} : call'[d] = call[d]
  BY <1>3, <1>4, <1>5
<1>7. call[c].target \notin live
  BY <1>1 DEF Inv, Safe, HandsClean, At
<1>8. \/ slot' = slot /\ slot.inst # call[c].target
      \/ slot' = [EmptySlot EXCEPT !.epoch = slot.epoch] /\ slot.inst = call[c].target
  BY DEF DeleteInstance
<1>9. \A d \in Calls : call[d].pc \in PastClaim => call'[d].pc \in PastClaim
  BY <1>1, <1>6 DEF PastClaim
<1>10. /\ slot' \in Slots
       /\ slot'.inst \in {slot.inst, None}
       /\ slot'.starting => slot' = slot
  BY <1>8 DEF EmptySlot, Slots, Inv, TypeOK
<1>11. TunnelsAccounted'
  <2>1. ASSUME NEW i \in live' PROVE slot'.inst = i \/ call'[i].pc \in {"claim", "stale"}
    BY <1>1, <1>6, <1>7, <1>8 DEF Inv, Safe, TunnelsAccounted, TypeOK
  <2>2. ASSUME slot'.inst \notin live' \cup {None}
        PROVE  \E d \in Calls : call'[d].pc = "delete" /\ call'[d].target = slot'.inst
    <3>1. slot' = slot /\ slot.inst # call[c].target
      BY <1>8, <2>2 DEF EmptySlot
    <3>2. PICK d \in Calls : call[d].pc = "delete" /\ call[d].target = slot.inst
      BY <1>1, <2>2, <3>1 DEF Inv, Safe, TunnelsAccounted, At
    <3>3. QED
      BY <1>6, <3>1, <3>2
  <2>3. QED
    BY <2>1, <2>2 DEF TunnelsAccounted, At
<1>12. StartingHasOwner'
  <2>1. \A d \in Calls : call[d].pc \in StartPhase => call'[d] = call[d]
    BY <1>1, <1>6 DEF StartPhase
  <2>2. QED
    BY <1>10, <2>1 DEF Inv, Safe, StartingHasOwner
<1>13. HandsClean'
  <2>1. slot'.inst # None => call'[slot'.inst].pc \in PastClaim /\ ~slot'.starting
    BY <1>9, <1>10 DEF Inv, Safe, HandsClean, TypeOK, Slots
  <2>2. ASSUME NEW d \in Calls, call'[d].target # None
        PROVE  call'[call'[d].target].pc \in PastClaim
    <3>1. call'[d].target = call[d].target
      BY <1>5, <1>6, <2>2
    <3>2. call[d].target \in Calls /\ call[call[d].target].pc \in PastClaim
      BY <2>2, <3>1 DEF CallStates, Inv, Safe, HandsClean, TypeOK
    <3>3. QED
      BY <1>9, <3>1, <3>2
  <2>3. ASSUME NEW d \in Calls
        PROVE  /\ call'[d].pc = "delete" => call'[d].target \notin live'
               /\ call'[d].pc = "claim" => d \in live'
    <3>1. CASE d = c
      BY <1>2, <1>5, <1>6, <3>1
    <3>2. CASE d # c
      BY <1>1, <1>6, <3>2 DEF Inv, Safe, HandsClean, At
    <3>3. QED
      BY <3>1, <3>2
  <2>4. QED
    BY <2>1, <2>2, <2>3 DEF HandsClean, At
<1>14. QED
  BY <1>1, <1>6, <1>10, <1>11, <1>12, <1>13, Parts DEF Inv, TypeOK, Safe

-----------------------------------------------------------------------------
(* The theorems *)

\* Every step of a call keeps the invariant.
LEMMA StepKeepsInv ==
  ASSUME Inv, NEW c \in Calls, Step(c)
  PROVE  Inv'
BY AdmitStep, PreemptStep, NumberStep, CancelActiveRunStep, BindRunContextStep,
   FinishStep, ProbeStep, InvalidateRuntimeStep, ReadInstanceStep, StopInstanceStep,
   DeleteInstanceStep, RestoreSMSModeStep, WaitReadyStep, CheckSwitchingStep,
   BeginStartStep, PrepareStartStep, BeforeStartStep, ConnectStep, ClaimStartedStep,
   StopStaleStep, ClearAfterStartStep, MarkRuntimeStartedStep, HandleStartupErrorStep,
   FailStartStep, Zenon DEF Step

\* The empty slot, with every call idle, satisfies it.
LEMMA InitInv ==
  ASSUME Init
  PROVE  Inv
<1>1. TypeOK
  BY DEF Init, TypeOK, EmptySlot, Slots, Idle, CallStates, Labels, AllKinds
<1>2. \A c \in Calls : call[c].pc = "idle" /\ call[c].target = None
  BY DEF Init, Idle
<1>3. Safe
  BY <1>2 DEF Init, EmptySlot, Safe, TunnelsAccounted, StartingHasOwner, HandsClean, At
<1>4. QED
  BY <1>1, <1>3 DEF Inv

\* The invariant holds: it is true of the empty slot, and every step of every
\* call, of an observer and of the switch keeps it.
THEOREM InvAlways == Spec => []Inv
<1>1. Init => Inv
  BY InitInv
<1>2. Inv /\ [Next]_vars => Inv'
  <2> SUFFICES ASSUME Inv, [Next]_vars PROVE Inv'
    OBVIOUS
  <2>1. CASE \E c \in Calls : Issue(c) \/ Step(c) \/ Observe(c)
    BY <2>1, IssueStep, StepKeepsInv, ObserveStep
  <2>2. CASE AbandonSwitch
    BY <2>2, AbandonSwitchStep
  <2>3. CASE UNCHANGED vars
    <3>1. TypeOK'
      BY <2>3 DEF Inv, TypeOK, vars
    <3>2. Safe'
      BY <2>3 DEF Inv, Safe, TunnelsAccounted, StartingHasOwner, HandsClean, At, vars
    <3>3. QED
      BY <3>1, <3>2 DEF Inv
  <2>4. QED
    BY <2>1, <2>2, <2>3 DEF Next
<1>3. QED
  BY <1>1, <1>2, PTL DEF Spec

\* Epochs and generations stay counters, and every call stays in its states.
THEOREM TypeCorrect == Spec => []TypeOK
<1>1. Inv => TypeOK
  BY DEF Inv
<1>2. QED
  BY <1>1, InvAlways, PTL

\* No tunnel leaks and no slot keeps a dead one: store.go's compare-and-delete
\* and its claim hold together whatever the teardowns outside runMu do.
THEOREM TunnelsNeverLeak == Spec => []TunnelsAccounted
<1>1. Inv => TunnelsAccounted
  BY DEF Inv, Safe
<1>2. QED
  BY <1>1, InvAlways, PTL

\* The starting flag never outlives the start that raised it (FailStart and
\* Invalidate between them always lower it).
THEOREM StartingAlwaysOwned == Spec => []StartingHasOwner
<1>1. Inv => StartingHasOwner
  BY DEF Inv, Safe
<1>2. QED
  BY <1>1, InvAlways, PTL

\* The three together: what a caller of the store may rely on at every moment.
THEOREM StoreConsistent == Spec => []Consistent
<1>1. Inv => Consistent
  BY DEF Inv, Safe, Consistent
<1>2. QED
  BY <1>1, InvAlways, PTL
-----------------------------------------------------------------------------
(* The quiet of a switch.                                                  *)

\* The labels of a start, from its check of the switch mark to its end, and the kinds
\* of call that may be there.
StartLabels == StartPhase \cup {"begin", "started", "mark", "stale", "clear"}
Starters == {"enable", "restart", "recover", "retry", "switchEnd"}

\* The labels of a call whose context is not bound yet.
Unbound == {"idle", "submit", "number", "cancel", "bind"}

\* The calls that run under runMu.
Serial(c) == call[c].kind \in AllKinds \ (Preempting \cup Direct)

\* Which calls are where.
Routes ==
    \A c \in Calls :
        /\ At(c, "idle") <=> call[c].kind = None
        /\ call[c].kind \in Direct => call[c].pc \notin Unbound
        /\ call[c].pc \in StartLabels \cup {"probe", "wait", "check"} => call[c].kind \in Starters

\* One call at a time under runMu, and it is the run bound last unless a preempting
\* one has come.
Queue ==
    \A c \in Calls :
        /\ Serial(c) /\ call[c].pc \notin {"idle", "submit", "done"} => runMu = c
        /\ Serial(c) /\ call[c].pc \notin Unbound \cup {"done"} =>
               runCancel = c \/ \E b \in Preemptions : call[b].pc \notin Unbound

\* Without a restart, one start at a time: the epoch of the slot is never behind that of
\* the start, and is past it once an invalidation has overtaken the start.
Building == {"prepare", "before", "connect", "claim"}

Fresh ==
    \A c \in Calls :
        /\ c \in overtaken => call[c].pc \in (StartLabels \ {"begin"}) \cup {"finish", "done"}
        /\ ~Restarted /\ call[c].pc \in Building =>
               /\ call[c].epoch <= slot.epoch
               /\ c \in overtaken => call[c].epoch < slot.epoch

Single == \A b, c \in Preemptions : b = c

\* The mark of the one switch.
Marked ==
    Single =>
        /\ switch # "none" => \E b \in Calls : call[b].kind = "switchBegin"
        /\ \A b \in Calls : call[b].kind = "switchBegin" =>
               (~At(b, "done") <=> switch = "begun")
        /\ \A e \in Calls : call[e].kind = "switchEnd" =>
               /\ switch \in {"restoring", "none"}
               /\ \E b \in Calls : call[b].kind = "switchBegin"

\* How SwitchBegin silences the device: it cancels the start under way, then sees to
\* it that no result of that start is claimed, then stops what runs.
Hushed ==
    Single /\ switch \in {"begun", "quiet"} =>
        \A b \in Calls : call[b].kind = "switchBegin" =>
            /\ call[b].pc \notin {"submit", "number", "cancel"} =>
                   \A c \in Calls : call[c].pc \in StartLabels => c \in cancelled
            /\ call[b].pc \notin Unbound \cup {"invalidate"} =>
                   \A c \in Calls : call[c].pc \in {"connect", "claim"} =>
                       call[c].epoch # slot.epoch
            /\ call[b].pc \in {"halt", "delete"} => slot.inst \in {None, call[b].target}
            /\ call[b].pc \in {"sms", "finish", "done"} => slot.inst = None

Silence == Routes /\ Queue /\ Fresh /\ Marked /\ Hushed

Quiet == Inv /\ Silence

\* One call goes to a label and stays of its kind.
Pass(c, l) ==
    /\ call'[c].pc = l /\ call'[c].kind = call[c].kind
    /\ \A d \in Calls \ {c} : call'[d] = call[d]

\* A step to a label leaves the epoch and the target of its call.
LEMMA GotoPasses ==
  ASSUME TypeOK, NEW c \in Calls, NEW l \in Labels, Goto(c, l)
  PROVE  Pass(c, l) /\ call'[c].epoch = call[c].epoch /\ call'[c].target = call[c].target
BY DEF TypeOK, Goto, Pass, CallStates

\* A call that passes changes nothing of who is preempting.
LEMMA KindsKept ==
  ASSUME NEW c \in Calls, NEW l, Pass(c, l)
  PROVE  /\ \A d \in Calls : call'[d].kind = call[d].kind /\ (Serial(d)' <=> Serial(d))
         /\ Preemptions' = Preemptions /\ (Single' <=> Single) /\ (Restarted' <=> Restarted)
<1>1. \A d \in Calls : call'[d].kind = call[d].kind
  BY DEF Pass
<1>2. Preemptions' = Preemptions
  BY <1>1 DEF Preemptions
<1>3. Preemptions \subseteq Calls
  BY DEF Preemptions
<1>4. \A d \in Calls : Serial(d)' <=> Serial(d)
  BY <1>1 DEF Serial
<1>5. Single' <=> Single
  BY <1>2 DEF Single
<1>6. Restarted' <=> Restarted
  BY <1>1, <1>2, <1>3 DEF Restarted
<1>7. QED
  BY <1>1, <1>2, <1>4, <1>5, <1>6

\* A switch that is alone excludes a restart.
LEMMA LoneSwitch ==
  ASSUME Single, NEW b \in Calls, call[b].kind = "switchBegin"
  PROVE  ~Restarted
BY DEF Single, Restarted, Preemptions, Preempting

\* Without a restart there is one start at a time.
LEMMA OneStarter ==
  ASSUME Quiet, ~Restarted, NEW c \in Calls, NEW d \in Calls,
         call[c].pc \in StartLabels, call[d].pc \in StartLabels
  PROVE  c = d
<1>1. ASSUME NEW e \in Calls, call[e].pc \in StartLabels PROVE runMu = e
  <2>1. call[e].kind \in Starters
    BY <1>1 DEF Quiet, Silence, Routes
  <2>2. call[e].kind # "restart"
    BY DEF Restarted, Preemptions, Preempting
  <2>3. Serial(e)
    BY <2>1, <2>2 DEF Serial, Starters, AllKinds, Preempting, Direct
  <2>4. call[e].pc \notin {"idle", "submit", "done"}
    BY <1>1 DEF StartLabels, StartPhase
  <2>5. QED
    BY <2>3, <2>4 DEF Quiet, Silence, Queue
<1>2. QED
  BY <1>1

\* A call that stays on its route.
LEMMA RoutesKept ==
  ASSUME Quiet, NEW c \in Calls, NEW l, Pass(c, l),
         call[c].pc # "idle", l # "idle",
         call[c].kind \in Direct => l \notin Unbound,
         l \in StartLabels \cup {"probe", "wait", "check"} => call[c].kind \in Starters
  PROVE  Routes'
<1>1. SUFFICES ASSUME NEW d \in Calls
               PROVE  /\ call'[d].pc = "idle" <=> call'[d].kind = None
                      /\ call'[d].kind \in Direct => call'[d].pc \notin Unbound
                      /\ call'[d].pc \in StartLabels \cup {"probe", "wait", "check"} =>
                             call'[d].kind \in Starters
  BY DEF Routes, At
<1>2. CASE d = c
  BY <1>2 DEF Pass, Quiet, Silence, Routes, At
<1>3. CASE d # c
  BY <1>3 DEF Pass, Quiet, Silence, Routes, At
<1>4. QED
  BY <1>2, <1>3

\* A call that neither takes runMu nor gives it back, nor binds its context.
LEMMA QueueKept ==
  ASSUME Quiet, NEW c \in Calls, NEW l, Pass(c, l),
         UNCHANGED <<runMu, runCancel>>,
         call[c].pc \notin {"idle", "done"}, call[c].pc = "submit" => ~Serial(c),
         (l \in Unbound) <=> (call[c].pc \in Unbound)
  PROVE  Queue'
<1>1. /\ \A d \in Calls : Serial(d)' <=> Serial(d)
      /\ Preemptions' = Preemptions
  BY KindsKept
<1>2. \A b \in Preemptions : call[b].pc \notin Unbound => call'[b].pc \notin Unbound
  BY DEF Pass, Preemptions
<1>3. ASSUME NEW d \in Calls, Serial(d), call'[d].pc \notin {"idle", "submit", "done"}
      PROVE  runMu = d
  BY <1>3 DEF Pass, Quiet, Silence, Queue
<1>4. ASSUME NEW d \in Calls, Serial(d), call'[d].pc \notin Unbound \cup {"done"}
      PROVE  runCancel = d \/ \E b \in Preemptions : call[b].pc \notin Unbound
  BY <1>4 DEF Pass, Quiet, Silence, Queue
<1>5. QED
  BY <1>1, <1>2, <1>3, <1>4 DEF Queue

\* A call may enter Building in the epoch of the slot, and the epoch may only fall when
\* nobody is there.
LEMMA FreshKept ==
  ASSUME Quiet, NEW c \in Calls, NEW l, Pass(c, l), overtaken' = overtaken,
         \/ slot'.epoch = slot.epoch
         \/ ~Restarted => \A d \in Calls : call'[d].pc \notin Building,
         call[c].pc \in (StartLabels \ {"begin"}) \cup {"finish", "done"} =>
             l \in (StartLabels \ {"begin"}) \cup {"finish", "done"},
         l \in Building =>
             \/ call[c].pc \in Building /\ call'[c].epoch = call[c].epoch
             \/ call[c].pc = "begin" /\ call'[c].epoch = slot.epoch /\ slot.epoch \in Nat
  PROVE  Fresh'
<1>1. Restarted' <=> Restarted
  BY KindsKept
<1>2. ASSUME NEW d \in Calls, d \in overtaken
      PROVE  call'[d].pc \in (StartLabels \ {"begin"}) \cup {"finish", "done"}
  BY <1>2 DEF Pass, Quiet, Silence, Fresh
<1>3. ASSUME NEW d \in Calls, ~Restarted, call'[d].pc \in Building
      PROVE  /\ call'[d].epoch <= slot'.epoch
             /\ d \in overtaken => call'[d].epoch < slot'.epoch
  <2>1. slot'.epoch = slot.epoch
    BY <1>3
  <2>2. CASE call[d].pc \in Building /\ call'[d].epoch = call[d].epoch
    BY <1>3, <2>1, <2>2 DEF Quiet, Silence, Fresh
  <2>3. CASE d = c /\ call[c].pc = "begin" /\ call'[c].epoch = slot.epoch /\ slot.epoch \in Nat
    <3>1. c \notin overtaken
      BY <2>3 DEF Quiet, Silence, Fresh, StartLabels
    <3>2. QED
      BY <2>1, <2>3, <3>1
  <2>4. QED
    BY <1>3, <2>2, <2>3 DEF Pass
<1>4. QED
  BY <1>1, <1>2, <1>3 DEF Fresh

\* A call that does not end, while the mark of the switch stays.
LEMMA MarkedKept ==
  ASSUME Quiet, NEW c \in Calls, NEW l, Pass(c, l), switch' = switch,
         call[c].pc # "done", l # "done"
  PROVE  Marked'
<1>1. (\A d \in Calls : call'[d].kind = call[d].kind) /\ (Single' <=> Single)
  BY KindsKept
<1>2. \A d \in Calls : call'[d].pc = "done" <=> call[d].pc = "done"
  BY DEF Pass
<1>3. QED
  BY <1>1, <1>2 DEF Quiet, Silence, Marked, At

\* What a step owes to the switch that silences the device.
LEMMA HushedKept ==
  ASSUME Quiet, NEW c \in Calls, NEW l, Pass(c, l), switch' = switch,
         cancelled \subseteq cancelled',
         \/ slot'.inst \in {slot.inst, None}
         \/ call[c].pc = "claim" /\ call[c].epoch = slot.epoch,
         \/ slot'.epoch = slot.epoch
         \/ ~Restarted => \A d \in Calls : call'[d].pc \notin Building,
         Single /\ l \in StartLabels => call[c].pc \in StartLabels \/ switch \notin {"begun", "quiet"},
         l \in {"connect", "claim"} =>
             \/ call[c].pc = "connect" /\ call'[c].epoch = call[c].epoch
             \/ call[c].pc \in StartLabels /\ c \notin cancelled,
         call[c].kind = "switchBegin" /\ Hushed /\ Single /\ switch \in {"begun", "quiet"} =>
             /\ l \notin {"submit", "number", "cancel"} =>
                    \/ call[c].pc \notin {"submit", "number", "cancel"}
                    \/ \A d \in Calls : call[d].pc \in StartLabels => d \in cancelled'
             /\ l \notin Unbound \cup {"invalidate"} => call[c].pc \notin Unbound \cup {"invalidate"}
             /\ l \in {"halt", "delete"} => slot'.inst \in {None, call'[c].target}
             /\ l \in {"sms", "finish", "done"} => slot'.inst = None
  PROVE  Hushed'
<1>1. (\A d \in Calls : call'[d].kind = call[d].kind) /\ (Single' <=> Single)
  BY KindsKept
<1>2. SUFFICES ASSUME Single, switch \in {"begun", "quiet"}, NEW b \in Calls,
                      call[b].kind = "switchBegin"
               PROVE  /\ call'[b].pc \notin {"submit", "number", "cancel"} =>
                             \A d \in Calls : call'[d].pc \in StartLabels => d \in cancelled'
                      /\ call'[b].pc \notin Unbound \cup {"invalidate"} =>
                             \A d \in Calls : call'[d].pc \in {"connect", "claim"} =>
                                 call'[d].epoch # slot'.epoch
                      /\ call'[b].pc \in {"halt", "delete"} => slot'.inst \in {None, call'[b].target}
                      /\ call'[b].pc \in {"sms", "finish", "done"} => slot'.inst = None
  BY <1>1 DEF Hushed
<1>3. ~Restarted
  BY <1>2, LoneSwitch
<1>4. \A d \in Calls : call'[d].pc \in StartLabels => call[d].pc \in StartLabels
  BY <1>2 DEF Pass
<1>5. /\ call[b].pc \notin {"submit", "number", "cancel"} =>
            \A d \in Calls : call[d].pc \in StartLabels => d \in cancelled
      /\ call[b].pc \notin Unbound \cup {"invalidate"} =>
            \A d \in Calls : call[d].pc \in {"connect", "claim"} => call[d].epoch # slot.epoch
      /\ call[b].pc \in {"halt", "delete"} => slot.inst \in {None, call[b].target}
      /\ call[b].pc \in {"sms", "finish", "done"} => slot.inst = None
  BY <1>2 DEF Quiet, Silence, Hushed
<1>6. call'[b].pc \notin {"submit", "number", "cancel"} =>
          \A d \in Calls : call'[d].pc \in StartLabels => d \in cancelled'
  <2>1. CASE b = c
    BY <1>2, <1>4, <1>5, <2>1 DEF Pass, Quiet, Silence
  <2>2. CASE b # c
    BY <1>4, <1>5, <2>2 DEF Pass
  <2>3. QED
    BY <2>1, <2>2
<1>7. call'[b].pc \notin Unbound \cup {"invalidate"} =>
          call[b].pc \notin Unbound \cup {"invalidate"}
  BY <1>2 DEF Pass, Quiet, Silence
<1>8. ASSUME call'[b].pc \notin Unbound \cup {"invalidate"},
             NEW d \in Calls, call'[d].pc \in {"connect", "claim"}
      PROVE  call'[d].epoch # slot'.epoch
  <2>1. call[b].pc \notin Unbound \cup {"invalidate", "submit", "number", "cancel"}
    BY <1>7, <1>8 DEF Unbound
  <2>2. slot'.epoch = slot.epoch
    BY <1>3, <1>8 DEF Building
  <2>3. CASE d # c
    BY <1>5, <1>8, <2>1, <2>2, <2>3 DEF Pass
  <2>4. CASE d = c
    <3>1. ~(call[c].pc \in StartLabels /\ c \notin cancelled)
      BY <1>5, <2>1
    <3>2. call[c].pc = "connect" /\ call'[c].epoch = call[c].epoch
      BY <1>8, <2>4, <3>1 DEF Pass
    <3>3. QED
      BY <1>5, <2>1, <2>2, <2>4, <3>2
  <2>5. QED
    BY <2>3, <2>4
<1>9. ASSUME b # c, call[b].pc \in {"halt", "delete", "sms", "finish", "done"}
      PROVE  slot'.inst \in {slot.inst, None}
  <2>1. call[b].pc \notin Unbound \cup {"invalidate"}
    BY <1>9 DEF Unbound
  <2>2. QED
    BY <1>5, <2>1
<1>10. /\ call'[b].pc \in {"halt", "delete"} => slot'.inst \in {None, call'[b].target}
       /\ call'[b].pc \in {"sms", "finish", "done"} => slot'.inst = None
  <2>1. CASE b = c
    BY <1>2, <2>1 DEF Pass, Quiet, Silence
  <2>2. CASE b # c
    BY <1>5, <1>9, <2>2 DEF Pass
  <2>3. QED
    BY <2>1, <2>2
<1>11. QED
  BY <1>6, <1>8, <1>10

\* Nobody moves.
LEMMA NobodyMoves ==
  ASSUME Quiet, slot'.inst = slot.inst, slot'.epoch = slot.epoch,
         UNCHANGED <<call, runMu, runCancel, cancelled, switch, overtaken>>
  PROVE  Silence'
<1>1. Preemptions' = Preemptions /\ (Single' <=> Single) /\ (Restarted' <=> Restarted)
  BY DEF Single, Restarted, Preemptions
<1>2. Routes'
  BY DEF Quiet, Silence, Routes, At
<1>3. Queue'
  BY <1>1 DEF Quiet, Silence, Queue, Serial
<1>4. Fresh'
  BY <1>1 DEF Quiet, Silence, Fresh
<1>5. Marked'
  BY <1>1 DEF Quiet, Silence, Marked, At
<1>6. Hushed'
  BY <1>1 DEF Quiet, Silence, Hushed
<1>7. QED
  BY <1>2, <1>3, <1>4, <1>5, <1>6 DEF Silence

\* The step of a call that starts, or is about to.
LEMMA StartPasses ==
  ASSUME Quiet, NEW c \in Calls, NEW l, Pass(c, l),
         UNCHANGED <<runMu, runCancel, cancelled, switch, overtaken>>,
         call[c].pc \in StartLabels \cup {"probe", "wait", "check"},
         l \notin Unbound \cup {"done"},
         \/ slot'.inst \in {slot.inst, None}
         \/ call[c].pc = "claim" /\ call[c].epoch = slot.epoch,
         \/ slot'.epoch = slot.epoch
         \/ ~Restarted => \A d \in Calls : call'[d].pc \notin Building,
         l \in StartLabels => call[c].pc \in StartLabels \/ switch = "none",
         call[c].pc \in StartLabels \ {"begin"} => l \in (StartLabels \ {"begin"}) \cup {"finish"},
         l \in Building =>
             \/ call[c].pc \in Building /\ call'[c].epoch = call[c].epoch
             \/ call[c].pc = "begin" /\ call'[c].epoch = slot.epoch,
         l \in {"connect", "claim"} =>
             \/ call[c].pc = "connect" /\ call'[c].epoch = call[c].epoch
             \/ call[c].pc \in StartLabels /\ c \notin cancelled
  PROVE  Silence'
<1>1. /\ call[c].kind \in Starters /\ slot.epoch \in Nat
      /\ call[c].pc \notin Unbound \cup {"done"}
      /\ call[c].pc \notin {"finish"}
  BY DEF Quiet, Silence, Routes, Inv, TypeOK, Slots, StartLabels, StartPhase, Unbound
<1>2. call[c].kind \notin Direct \cup {"switchBegin"}
  BY <1>1 DEF Starters, Direct
<1>3. /\ call[c].pc \notin {"idle", "submit", "done"} /\ l \notin {"idle", "done"}
      /\ (l \in Unbound) <=> (call[c].pc \in Unbound)
  BY <1>1 DEF Unbound
<1>4. Routes'
  BY <1>1, <1>2, <1>3, RoutesKept
<1>5. Queue'
  BY <1>3, QueueKept
<1>6. Fresh'
  BY <1>1, <1>3, FreshKept
<1>7. Marked'
  BY <1>3, MarkedKept
<1>8. Hushed'
  BY <1>2, HushedKept
<1>9. QED
  BY <1>4, <1>5, <1>6, <1>7, <1>8 DEF Silence

\* The step of a call that tears the runtime down.
LEMMA TeardownPasses ==
  ASSUME Quiet, NEW c \in Calls, NEW l, Pass(c, l),
         UNCHANGED <<runMu, runCancel, cancelled, switch, overtaken>>,
         call[c].pc \in {"stop", "halt", "delete", "sms"},
         l \in {"halt", "delete", "sms", "wait", "finish"},
         slot'.inst \in {slot.inst, None}, slot'.epoch = slot.epoch,
         l = "wait" => call[c].kind \in Starters,
         call[c].kind = "switchBegin" /\ Hushed /\ Single /\ switch \in {"begun", "quiet"} =>
             /\ l \in {"halt", "delete"} => slot'.inst \in {None, call'[c].target}
             /\ l \in {"sms", "finish"} => slot'.inst = None
  PROVE  Silence'
<1>1. /\ call[c].pc \notin Unbound \cup {"done", "invalidate"} /\ call[c].pc \notin StartLabels \cup {"finish"}
      /\ l \notin Unbound \cup {"done", "invalidate"} /\ l \notin StartLabels \cup {"probe", "check"}
      /\ call[c].pc \notin {"idle", "submit", "done", "number", "cancel"}
      /\ l \notin {"idle", "submit", "done", "connect", "claim"} \cup Building
  BY DEF Unbound, StartLabels, StartPhase, Building
<1>2. Routes'
  BY <1>1, RoutesKept
<1>3. Queue'
  BY <1>1, QueueKept
<1>4. Fresh'
  BY <1>1, FreshKept
<1>5. Marked'
  BY <1>1, MarkedKept
<1>6. Hushed'
  BY <1>1, HushedKept
<1>7. QED
  BY <1>2, <1>3, <1>4, <1>5, <1>6 DEF Silence

-----------------------------------------------------------------------------
(* A start.                                                                *)

\* A probe moves its call only.
LEMMA ProbeSilent ==
  ASSUME Quiet, NEW c \in Calls, Probe(c)
  PROVE  Silence'
<1>1. /\ call[c].pc = "probe" /\ slot' = slot
      /\ UNCHANGED <<runMu, runCancel, cancelled, switch, overtaken>>
  BY DEF Probe, At, storeVars, controlVars, worldVars
<1>2. PICK l \in {"finish", "invalidate"} : Pass(c, l)
  BY GotoPasses DEF Probe, Quiet, Inv, Labels
<1>3. QED
  BY <1>1, <1>2, StartPasses DEF StartLabels, StartPhase, Unbound, Building

\* Waiting for the modem moves its call only.
LEMMA WaitReadySilent ==
  ASSUME Quiet, NEW c \in Calls, WaitReady(c)
  PROVE  Silence'
<1>1. /\ call[c].pc = "wait" /\ slot' = slot
      /\ UNCHANGED <<runMu, runCancel, cancelled, switch, overtaken>>
  BY DEF WaitReady, At, storeVars, controlVars, worldVars
<1>2. PICK l \in {"finish", "check"} : Pass(c, l)
  BY GotoPasses DEF WaitReady, Quiet, Inv, Labels
<1>3. QED
  BY <1>1, <1>2, StartPasses DEF StartLabels, StartPhase, Unbound, Building

\* A start that finds a switch under way goes no further; another is not cancelled for it.
LEMMA CheckSwitchingSilent ==
  ASSUME Quiet, NEW c \in Calls, CheckSwitching(c)
  PROVE  Silence'
<1>1. /\ call[c].pc = "check" /\ slot' = slot
      /\ UNCHANGED <<runMu, runCancel, cancelled, switch, overtaken>>
  BY DEF CheckSwitching, At, storeVars, controlVars, worldVars
<1>2. PICK l \in {"finish", "begin"} : Pass(c, l) /\ (l = "begin" => switch = "none")
  BY GotoPasses DEF CheckSwitching, Switching, Quiet, Inv, Labels
<1>3. QED
  BY <1>1, <1>2, StartPasses DEF StartLabels, StartPhase, Unbound, Building

\* A start begins in the epoch of the slot.
LEMMA BeginStartSilent ==
  ASSUME Quiet, NEW c \in Calls, BeginStart(c)
  PROVE  Silence'
<1>1. /\ call[c].pc = "begin"
      /\ UNCHANGED <<runMu, runCancel, cancelled, switch, overtaken>>
  BY DEF BeginStart, At, controlVars, worldVars
<1>2. CASE slot.inst # None \/ slot.starting
  <2>1. slot' = slot /\ Pass(c, "finish")
    BY <1>2, GotoPasses DEF BeginStart, Quiet, Inv, Labels
  <2>2. QED
    BY <1>1, <2>1, StartPasses DEF StartLabels, StartPhase, Unbound, Building
<1>3. CASE ~(slot.inst # None \/ slot.starting)
  <2>1. /\ slot' = [slot EXCEPT !.starting = TRUE, !.err = FALSE]
        /\ call' = [call EXCEPT ![c].pc = "prepare", ![c].epoch = slot.epoch]
    BY <1>3 DEF BeginStart
  <2>2. slot'.inst = slot.inst /\ slot'.epoch = slot.epoch
    BY <2>1 DEF Quiet, Inv, TypeOK, Slots
  <2>3. Pass(c, "prepare") /\ call'[c].epoch = slot.epoch
    BY <2>1 DEF Pass, Quiet, Inv, TypeOK, CallStates
  <2>4. QED
    BY <1>1, <2>2, <2>3, StartPasses DEF StartLabels, StartPhase, Unbound, Building
<1>4. QED
  BY <1>2, <1>3

\* Preparing a start changes neither instance nor epoch.
LEMMA PrepareStartSilent ==
  ASSUME Quiet, NEW c \in Calls, PrepareStart(c)
  PROVE  Silence'
<1>1. /\ call[c].pc = "prepare" /\ slot'.inst = slot.inst /\ slot'.epoch = slot.epoch
      /\ UNCHANGED <<runMu, runCancel, cancelled, switch, overtaken>>
  BY RecordSlot DEF PrepareStart, At, controlVars, worldVars, Quiet, Inv
<1>2. PICK l \in {"before", "fail"} : Pass(c, l) /\ call'[c].epoch = call[c].epoch
  BY GotoPasses DEF PrepareStart, Quiet, Inv, Labels, StartPhase
<1>3. QED
  BY <1>1, <1>2, StartPasses DEF StartLabels, StartPhase, Unbound, Building

\* The tunnel of a start whose context is cancelled is not brought up.
LEMMA BeforeStartSilent ==
  ASSUME Quiet, NEW c \in Calls, BeforeStart(c)
  PROVE  Silence'
<1>1. /\ call[c].pc = "before" /\ slot'.inst = slot.inst /\ slot'.epoch = slot.epoch
      /\ UNCHANGED <<runMu, runCancel, cancelled, switch, overtaken>>
  BY RecordSlot DEF BeforeStart, At, controlVars, worldVars, Quiet, Inv
<1>2. PICK l \in {"connect", "error"} : /\ Pass(c, l) /\ call'[c].epoch = call[c].epoch
                                        /\ l = "connect" => c \notin cancelled
  BY GotoPasses DEF BeforeStart, ShouldRun, Quiet, Inv, Labels, StartPhase
<1>3. QED
  BY <1>1, <1>2, StartPasses DEF StartLabels, StartPhase, Unbound, Building

\* A connect that comes up late still has the epoch of its start.
LEMMA ConnectSilent ==
  ASSUME Quiet, NEW c \in Calls, Connect(c)
  PROVE  Silence'
<1>1. /\ call[c].pc = "connect" /\ slot' = slot
      /\ UNCHANGED <<runMu, runCancel, cancelled, switch, overtaken>>
  BY DEF Connect, At, controlVars, worldVars
<1>2. PICK l \in {"claim", "error"} : Pass(c, l) /\ call'[c].epoch = call[c].epoch
  BY GotoPasses DEF Connect, Quiet, Inv, Labels, StartPhase
<1>3. QED
  BY <1>1, <1>2, StartPasses DEF StartLabels, StartPhase, Unbound, Building

\* A start claims the slot only if the epoch is its own, which the invalidation of a switch
\* has made impossible.
LEMMA ClaimStartedSilent ==
  ASSUME Quiet, NEW c \in Calls, ClaimStarted(c)
  PROVE  Silence'
<1>1. call[c].pc = "claim" /\ UNCHANGED <<runMu, runCancel, cancelled, switch, overtaken>>
  BY DEF ClaimStarted, At, controlVars, worldVars
<1>2. CASE slot.epoch = call[c].epoch /\ slot.inst = None
  <2>1. slot' = [EmptySlot EXCEPT !.inst = c, !.epoch = slot.epoch] /\ Pass(c, "started")
    BY <1>2, GotoPasses DEF ClaimStarted, Quiet, Inv, Labels
  <2>2. slot'.epoch = slot.epoch
    BY <2>1 DEF EmptySlot
  <2>3. QED
    BY <1>1, <1>2, <2>1, <2>2, StartPasses DEF StartLabels, StartPhase, Unbound, Building
<1>3. CASE ~(slot.epoch = call[c].epoch /\ slot.inst = None)
  <2>1. slot' = slot /\ Pass(c, "stale")
    BY <1>3, GotoPasses DEF ClaimStarted, Quiet, Inv, Labels
  <2>2. QED
    BY <1>1, <2>1, StartPasses DEF StartLabels, StartPhase, Unbound, Building
<1>4. QED
  BY <1>2, <1>3

\* Stopping a stale runtime leaves the slot.
LEMMA StopStaleSilent ==
  ASSUME Quiet, NEW c \in Calls, StopStale(c)
  PROVE  Silence'
<1>1. /\ call[c].pc = "stale" /\ slot' = slot
      /\ UNCHANGED <<runMu, runCancel, cancelled, switch, overtaken>>
  BY DEF StopStale, At, controlVars, worldVars
<1>2. Pass(c, "clear")
  BY GotoPasses DEF StopStale, Quiet, Inv, Labels
<1>3. QED
  BY <1>1, <1>2, StartPasses DEF StartLabels, StartPhase, Unbound, Building

\* A slot that is deleted takes its epoch with it: the only start is past its claim.
LEMMA ClearLeavesNone ==
  ASSUME Quiet, NEW c \in Calls, call[c].pc \in StartLabels, NEW l, Pass(c, l), l \notin Building,
         ~Restarted
  PROVE  \A d \in Calls : call'[d].pc \notin Building
<1>1. SUFFICES ASSUME NEW d \in Calls, call'[d].pc \in Building PROVE FALSE
  OBVIOUS
<1>2. d # c /\ call[d].pc \in StartLabels
  BY <1>1 DEF Pass, Building, StartLabels, StartPhase
<1>3. QED
  BY <1>2, OneStarter

\* What follows a claim leaves the instance.
LEMMA ClearAfterStartSilent ==
  ASSUME Quiet, NEW c \in Calls, ClearAfterStart(c)
  PROVE  Silence'
<1>1. /\ call[c].pc \in {"clear", "started"} /\ slot'.inst = slot.inst
      /\ UNCHANGED <<runMu, runCancel, cancelled, switch, overtaken>>
  BY ClearSlot DEF ClearAfterStart, At, controlVars, worldVars, Quiet, Inv
<1>2. PICK l \in {"finish", "mark"} : Pass(c, l)
  BY GotoPasses DEF ClearAfterStart, Quiet, Inv, Labels
<1>3. ~Restarted => \A d \in Calls : call'[d].pc \notin Building
  BY <1>1, <1>2, ClearLeavesNone DEF StartLabels, StartPhase, Building
<1>4. QED
  BY <1>1, <1>2, <1>3, StartPasses DEF StartLabels, StartPhase, Unbound, Building

\* Marking the worker leaves the slot.
LEMMA MarkRuntimeStartedSilent ==
  ASSUME Quiet, NEW c \in Calls, MarkRuntimeStarted(c)
  PROVE  Silence'
<1>1. /\ call[c].pc = "mark" /\ slot' = slot
      /\ UNCHANGED <<runMu, runCancel, cancelled, switch, overtaken>>
  BY DEF MarkRuntimeStarted, At, storeVars, controlVars
<1>2. Pass(c, "finish")
  BY GotoPasses DEF MarkRuntimeStarted, Quiet, Inv, Labels
<1>3. QED
  BY <1>1, <1>2, StartPasses DEF StartLabels, StartPhase, Unbound, Building

\* An error leaves the instance.
LEMMA HandleStartupErrorSilent ==
  ASSUME Quiet, NEW c \in Calls, HandleStartupError(c)
  PROVE  Silence'
<1>1. /\ call[c].pc = "error" /\ slot'.inst = slot.inst
      /\ UNCHANGED <<runMu, runCancel, cancelled, switch, overtaken>>
  BY ClearSlot DEF HandleStartupError, At, controlVars, Quiet, Inv
<1>2. Pass(c, "fail")
  BY GotoPasses DEF HandleStartupError, Quiet, Inv, Labels, StartPhase
<1>3. ~Restarted => \A d \in Calls : call'[d].pc \notin Building
  BY <1>1, <1>2, ClearLeavesNone DEF StartLabels, StartPhase, Building
<1>4. QED
  BY <1>1, <1>2, <1>3, StartPasses DEF StartLabels, StartPhase, Unbound, Building

\* A start that fails leaves instance and epoch.
LEMMA FailStartSilent ==
  ASSUME Quiet, NEW c \in Calls, FailStart(c)
  PROVE  Silence'
<1>1. /\ call[c].pc = "fail" /\ slot'.inst = slot.inst /\ slot'.epoch = slot.epoch
      /\ UNCHANGED <<runMu, runCancel, cancelled, switch, overtaken>>
  BY DEF FailStart, At, controlVars, worldVars, Quiet, Inv, TypeOK, Slots
<1>2. Pass(c, "finish")
  BY GotoPasses DEF FailStart, Quiet, Inv, Labels
<1>3. QED
  BY <1>1, <1>2, StartPasses DEF StartLabels, StartPhase, Unbound, Building

-----------------------------------------------------------------------------
(* A teardown.                                                             *)

\* What SwitchBegin knows of the slot while it tears the runtime down.
LEMMA ReadInstanceSilent ==
  ASSUME Quiet, NEW c \in Calls, ReadInstance(c)
  PROVE  Silence'
<1>1. /\ call[c].pc = "stop" /\ slot' = slot
      /\ UNCHANGED <<runMu, runCancel, cancelled, switch, overtaken>>
  BY DEF ReadInstance, At, storeVars, controlVars, worldVars
<1>2. CASE slot.inst = None
  <2>1. PICK l \in {"sms", "wait", "finish"} : /\ Goto(c, l)
                                               /\ l = "wait" => call[c].kind \in Starters
    BY <1>2 DEF ReadInstance, AfterStop, AfterTeardown, Starters
  <2>2. Pass(c, l)
    BY <2>1, GotoPasses DEF Quiet, Inv, Labels
  <2>3. QED
    BY <1>1, <1>2, <2>1, <2>2, TeardownPasses
<1>3. CASE slot.inst # None
  <2>1. call' = [call EXCEPT ![c].pc = "halt", ![c].target = slot.inst]
    BY <1>3 DEF ReadInstance
  <2>2. Pass(c, "halt") /\ call'[c].target = slot.inst
    BY <2>1 DEF Pass, Quiet, Inv, TypeOK, CallStates
  <2>3. QED
    BY <1>1, <2>2, TeardownPasses
<1>4. QED
  BY <1>2, <1>3

\* A teardown stops its target and leaves the slot to the deletion.
LEMMA StopInstanceSilent ==
  ASSUME Quiet, NEW c \in Calls, StopInstance(c)
  PROVE  Silence'
<1>1. /\ call[c].pc = "halt" /\ slot' = slot
      /\ UNCHANGED <<runMu, runCancel, cancelled, switch, overtaken>>
  BY DEF StopInstance, At, controlVars, worldVars
<1>2. Pass(c, "delete") /\ call'[c].target = call[c].target
  BY GotoPasses DEF StopInstance, Quiet, Inv, Labels
<1>3. call[c].kind = "switchBegin" /\ Hushed /\ Single /\ switch \in {"begun", "quiet"} =>
          slot.inst \in {None, call[c].target}
  BY <1>1 DEF Hushed
<1>4. QED
  BY <1>1, <1>2, <1>3, TeardownPasses

\* A teardown empties the slot of what it stopped, or finds it empty.
LEMMA DeleteInstanceSilent ==
  ASSUME Quiet, NEW c \in Calls, DeleteInstance(c)
  PROVE  Silence'
<1>1. /\ call[c].pc = "delete"
      /\ UNCHANGED <<runMu, runCancel, cancelled, switch, overtaken>>
  BY DEF DeleteInstance, At, controlVars, worldVars
<1>2. PICK l \in {"sms", "wait", "finish"} :
        /\ call' = [call EXCEPT ![c].pc = l, ![c].target = None]
        /\ l = "wait" => call[c].kind \in Starters
  BY DEF DeleteInstance, AfterStop, AfterTeardown, Starters
<1>3. Pass(c, l)
  BY <1>2 DEF Pass, Quiet, Inv, TypeOK, CallStates
<1>4. slot' = IF slot.inst # call[c].target THEN slot ELSE [EmptySlot EXCEPT !.epoch = slot.epoch]
  BY DEF DeleteInstance
<1>5. /\ slot'.inst \in {slot.inst, None} /\ slot'.epoch = slot.epoch
      /\ slot.inst \in {None, call[c].target} => slot'.inst = None
  BY <1>4 DEF EmptySlot
<1>6. call[c].kind = "switchBegin" /\ Hushed /\ Single /\ switch \in {"begun", "quiet"} =>
          slot.inst \in {None, call[c].target}
  BY <1>1 DEF Hushed
<1>7. QED
  BY <1>1, <1>2, <1>3, <1>5, <1>6, TeardownPasses

\* Restoring the SMS mode leaves the slot.
LEMMA RestoreSMSModeSilent ==
  ASSUME Quiet, NEW c \in Calls, RestoreSMSMode(c)
  PROVE  Silence'
<1>1. /\ call[c].pc = "sms" /\ slot' = slot
      /\ UNCHANGED <<runMu, runCancel, cancelled, switch, overtaken>>
  BY DEF RestoreSMSMode, At, storeVars, controlVars
<1>2. PICK l \in {"wait", "finish"} : Goto(c, l) /\ (l = "wait" => call[c].kind \in Starters)
  BY DEF RestoreSMSMode, AfterTeardown, Starters
<1>3. Pass(c, l)
  BY <1>2, GotoPasses DEF Quiet, Inv, Labels
<1>4. call[c].kind = "switchBegin" /\ Hushed /\ Single /\ switch \in {"begun", "quiet"} =>
          slot.inst = None
  BY <1>1 DEF Hushed
<1>5. QED
  BY <1>1, <1>2, <1>3, <1>4, TeardownPasses

\* An invalidation: the epoch is past that of every start.
LEMMA InvalidationSilent ==
  ASSUME Quiet, Invalidate, Restarted => Restarted',
         \A d \in Calls : call'[d].pc \in StartLabels => call'[d] = call[d],
         \A d \in Calls : call[d].pc \in (StartLabels \ {"begin"}) \cup {"finish", "done"} =>
             call'[d].pc = call[d].pc
  PROVE  /\ Fresh'
         /\ \A d \in Calls : ~Restarted /\ call'[d].pc \in Building => call'[d].epoch # slot'.epoch
<1>1. /\ slot'.epoch = slot.epoch + 1 /\ slot.epoch \in Nat
      /\ overtaken' = overtaken \cup {d \in Calls : call[d].pc \in StartPhase}
  BY DEF Invalidate, Quiet, Inv, TypeOK, Slots
<1>2. ASSUME NEW d \in Calls, d \in overtaken'
      PROVE  call'[d].pc \in (StartLabels \ {"begin"}) \cup {"finish", "done"}
  <2>1. call[d].pc \in (StartLabels \ {"begin"}) \cup {"finish", "done"}
    BY <1>1, <1>2 DEF Quiet, Silence, Fresh, StartLabels, StartPhase
  <2>2. QED
    BY <2>1
<1>3. ASSUME NEW d \in Calls, ~Restarted, call'[d].pc \in Building
      PROVE  call'[d].epoch < slot'.epoch /\ call'[d].epoch \in Nat
  <2>1. call'[d] = call[d] /\ call[d].pc \in Building
    BY <1>3 DEF Building, StartLabels, StartPhase
  <2>2. call[d].epoch \in Nat /\ call[d].epoch <= slot.epoch
    BY <1>3, <2>1 DEF Quiet, Silence, Fresh, Inv, TypeOK, CallStates
  <2>3. QED
    BY <1>1, <2>1, <2>2
<1>4. \A d \in Calls : ~Restarted /\ call'[d].pc \in Building =>
        call'[d].epoch < slot'.epoch /\ call'[d].epoch <= slot'.epoch /\ call'[d].epoch # slot'.epoch
  BY <1>1, <1>3
<1>5. QED
  BY <1>2, <1>4 DEF Fresh

\* An invalidation passes the epoch of every start under way.
LEMMA InvalidateRuntimeSilent ==
  ASSUME Quiet, NEW c \in Calls, InvalidateRuntime(c)
  PROVE  Silence'
<1>1. /\ call[c].pc = "invalidate" /\ Invalidate /\ slot'.inst = slot.inst
      /\ UNCHANGED <<runMu, runCancel, cancelled, switch>>
  BY InvalidateSlot DEF InvalidateRuntime, At, controlVars, worldVars, Quiet, Inv
<1>2. Pass(c, "stop")
  BY GotoPasses DEF InvalidateRuntime, Quiet, Inv, Labels
<1>3. /\ call[c].pc \notin Unbound \cup StartLabels \cup {"finish", "done"}
      /\ "stop" \notin Unbound \cup StartLabels \cup {"probe", "wait", "check"}
  BY <1>1 DEF Unbound, StartLabels, StartPhase
<1>4. Routes'
  BY <1>1, <1>2, <1>3, RoutesKept
<1>5. Queue'
  BY <1>1, <1>2, <1>3, QueueKept
<1>6. Marked'
  BY <1>1, <1>2, MarkedKept
<1>7. /\ \A d \in Calls : call'[d].kind = call[d].kind
      /\ (Single' <=> Single) /\ (Restarted' <=> Restarted)
  BY <1>2, KindsKept
<1>8. /\ \A d \in Calls : call'[d].pc \in StartLabels => call'[d] = call[d]
      /\ \A d \in Calls : call[d].pc \in (StartLabels \ {"begin"}) \cup {"finish", "done"} =>
             call'[d].pc = call[d].pc
  BY <1>2, <1>3 DEF Pass
<1>9. Fresh' /\ \A d \in Calls : ~Restarted /\ call'[d].pc \in Building => call'[d].epoch # slot'.epoch
  BY <1>1, <1>7, <1>8, InvalidationSilent
<1>10. Hushed'
  <2>1. SUFFICES ASSUME Single, switch \in {"begun", "quiet"}, NEW b \in Calls,
                        call[b].kind = "switchBegin"
                 PROVE  /\ call'[b].pc \notin {"submit", "number", "cancel"} =>
                               \A d \in Calls : call'[d].pc \in StartLabels => d \in cancelled
                        /\ \A d \in Calls : call'[d].pc \in {"connect", "claim"} =>
                               call'[d].epoch # slot'.epoch
                        /\ call'[b].pc \in {"halt", "delete"} => slot.inst \in {None, call'[b].target}
                        /\ call'[b].pc \in {"sms", "finish", "done"} => slot.inst = None
    BY <1>1, <1>7 DEF Hushed
  <2>2. \A d \in Calls : call'[d].pc \in {"connect", "claim"} => call'[d].epoch # slot'.epoch
    BY <1>9, <2>1, LoneSwitch DEF Building
  <2>3. /\ call[b].pc \notin {"submit", "number", "cancel"} =>
              \A d \in Calls : call[d].pc \in StartLabels => d \in cancelled
        /\ call[b].pc \in {"halt", "delete"} => slot.inst \in {None, call[b].target}
        /\ call[b].pc \in {"sms", "finish", "done"} => slot.inst = None
    BY <2>1 DEF Quiet, Silence, Hushed
  <2>4. \A d \in Calls : call'[d].pc \in StartLabels => call[d].pc \in StartLabels
    BY <1>8
  <2>5. QED
    BY <1>1, <1>2, <2>2, <2>3, <2>4 DEF Pass
<1>11. QED
  BY <1>4, <1>5, <1>6, <1>9, <1>10 DEF Silence

-----------------------------------------------------------------------------
(* The controller.                                                         *)

\* Nobody is under runMu when a call is admitted.
LEMMA AdmitSilent ==
  ASSUME Quiet, NEW c \in Calls, Admit(c)
  PROVE  Silence'
<1>1. /\ call[c].pc = "submit" /\ call[c].kind \notin Preempting /\ runMu = None /\ slot' = slot
      /\ UNCHANGED <<runCancel, cancelled, switch, overtaken>>
  BY DEF Admit, At, storeVars, worldVars
<1>2. PICK l \in {"done", "number"} : /\ Pass(c, l)
                                      /\ l = "number" => runMu' = c
                                      /\ l = "done" => runMu' = runMu
  BY GotoPasses DEF Admit, Quiet, Inv, Labels
<1>3. /\ call[c].kind # "switchBegin" /\ call[c].kind \notin Direct
      /\ call[c].pc \notin StartLabels \cup {"finish", "done"}
      /\ l \notin StartLabels \cup {"probe", "wait", "check"} \cup Building
      /\ l \notin {"connect", "claim"}
  BY <1>1 DEF Quiet, Silence, Routes, Preempting, Unbound, StartLabels, StartPhase, Building
<1>4. Routes'
  BY <1>1, <1>2, <1>3, RoutesKept
<1>5. Queue'
  <2>1. /\ \A d \in Calls : Serial(d)' <=> Serial(d)
        /\ Preemptions' = Preemptions
    BY <1>2, KindsKept
  <2>2. \A d \in Calls : Serial(d) => call[d].pc \in {"idle", "submit", "done"}
    BY <1>1, NoneAssumption DEF Quiet, Silence, Queue
  <2>3. \A d \in Calls : Serial(d) /\ d # c => call'[d].pc \in {"idle", "submit", "done"}
    BY <1>2, <2>2 DEF Pass
  <2>4. call'[c].pc = l
    BY <1>2 DEF Pass
  <2>5. QED
    BY <1>2, <2>1, <2>3, <2>4 DEF Queue, Unbound
<1>6. Fresh'
  BY <1>1, <1>2, <1>3, FreshKept
<1>7. Marked'
  <2>1. (\A d \in Calls : call'[d].kind = call[d].kind) /\ (Single' <=> Single)
    BY <1>2, KindsKept
  <2>2. \A d \in Calls : d # c => call'[d].pc = call[d].pc
    BY <1>2 DEF Pass
  <2>3. QED
    BY <1>1, <1>3, <2>1, <2>2 DEF Quiet, Silence, Marked, At
<1>8. Hushed'
  BY <1>1, <1>2, <1>3, HushedKept
<1>9. QED
  BY <1>4, <1>5, <1>6, <1>7, <1>8 DEF Silence

\* A preempting command skips the queue; as the only one it is the switch.
LEMMA PreemptSilent ==
  ASSUME Quiet, NEW c \in Calls, Preempt(c)
  PROVE  Silence'
<1>1. /\ call[c].pc = "submit" /\ call[c].kind \in Preempting /\ slot' = slot
      /\ UNCHANGED <<runMu, runCancel, cancelled, switch, overtaken>>
  BY DEF Preempt, At, storeVars, controlVars, worldVars
<1>2. Pass(c, "number")
  BY GotoPasses DEF Preempt, Quiet, Inv, Labels
<1>3. /\ call[c].kind \notin Direct /\ ~Serial(c)
      /\ call[c].pc \in Unbound /\ "number" \in Unbound
      /\ call[c].pc \notin StartLabels \cup {"finish", "done"}
      /\ "number" \notin StartLabels \cup {"probe", "wait", "check"} \cup Building
  BY <1>1 DEF Preempting, Direct, Serial, Unbound, StartLabels, StartPhase, Building
<1>4. Routes'
  BY <1>1, <1>2, <1>3, RoutesKept
<1>5. Queue'
  BY <1>1, <1>2, <1>3, QueueKept
<1>6. Fresh'
  BY <1>1, <1>2, <1>3, FreshKept
<1>7. Marked'
  BY <1>1, <1>2, MarkedKept
<1>8. Hushed'
  BY <1>1, <1>2, <1>3, HushedKept
<1>9. QED
  BY <1>4, <1>5, <1>6, <1>7, <1>8 DEF Silence

\* Numbering a command leaves the slot.
LEMMA NumberSilent ==
  ASSUME Quiet, NEW c \in Calls, Number(c)
  PROVE  Silence'
<1>1. /\ call[c].pc = "number" /\ slot' = slot
      /\ UNCHANGED <<runMu, runCancel, cancelled, switch, overtaken>>
  BY DEF Number, At, storeVars, worldVars
<1>2. PICK l \in {"cancel", "bind"} : Pass(c, l) /\ (call[c].kind \in Preempting => l = "cancel")
  <2> DEFINE next == IF call[c].kind \in Preempting THEN "cancel" ELSE "bind"
  <2>1. next \in {"cancel", "bind"} /\ (call[c].kind \in Preempting => next = "cancel")
    OBVIOUS
  <2>2. Goto(c, next) \/ call' = [call EXCEPT ![c].pc = next, ![c].gen = generation + 1]
    BY DEF Number
  <2> HIDE DEF next
  <2>3. CASE Goto(c, next)
    BY <2>1, <2>3, GotoPasses DEF Quiet, Inv, Labels
  <2>4. CASE call' = [call EXCEPT ![c].pc = next, ![c].gen = generation + 1]
    <3>1. Pass(c, next)
      BY <2>4 DEF Pass, Quiet, Inv, TypeOK, CallStates
    <3>2. QED
      BY <2>1, <3>1
  <2>5. QED
    BY <2>2, <2>3, <2>4
<1>3. /\ call[c].kind \notin Direct /\ (call[c].kind = "switchBegin" => l = "cancel")
      /\ call[c].pc \in Unbound /\ l \in Unbound
      /\ call[c].pc \notin StartLabels \cup {"finish", "done"}
      /\ l \notin StartLabels \cup {"probe", "wait", "check"} \cup Building
  BY <1>1, <1>2 DEF Preempting, Quiet, Silence, Routes, Unbound, StartLabels, StartPhase, Building
<1>4. Routes'
  BY <1>1, <1>2, <1>3, RoutesKept
<1>5. Queue'
  BY <1>1, <1>2, <1>3, QueueKept
<1>6. Fresh'
  BY <1>1, <1>2, <1>3, FreshKept
<1>7. Marked'
  BY <1>1, <1>2, MarkedKept
<1>8. Hushed'
  BY <1>1, <1>2, <1>3, HushedKept
<1>9. QED
  BY <1>4, <1>5, <1>6, <1>7, <1>8 DEF Silence

\* The run bound last is the start under way, unless a preempting call came before: a
\* switch that is alone cancels it.
LEMMA CancelActiveRunSilent ==
  ASSUME Quiet, NEW c \in Calls, CancelActiveRun(c)
  PROVE  Silence'
<1>1. /\ call[c].pc = "cancel" /\ slot' = slot /\ cancelled' = cancelled \cup ({runCancel} \ {None})
      /\ UNCHANGED <<runMu, runCancel, switch, overtaken>>
  BY DEF CancelActiveRun, At, storeVars, worldVars
<1>2. Pass(c, "bind")
  BY GotoPasses DEF CancelActiveRun, Quiet, Inv, Labels
<1>3. /\ call[c].kind \notin Direct
      /\ call[c].pc \in Unbound /\ "bind" \in Unbound
      /\ call[c].pc \notin StartLabels \cup {"finish", "done"}
      /\ "bind" \notin StartLabels \cup {"probe", "wait", "check"} \cup Building
  BY <1>1 DEF Quiet, Silence, Routes, Unbound, StartLabels, StartPhase, Building
<1>4. Routes'
  BY <1>1, <1>2, <1>3, RoutesKept
<1>5. Queue'
  BY <1>1, <1>2, <1>3, QueueKept
<1>6. Fresh'
  BY <1>1, <1>2, <1>3, FreshKept
<1>7. Marked'
  BY <1>1, <1>2, MarkedKept
<1>8. ASSUME call[c].kind = "switchBegin", Single, NEW d \in Calls, call[d].pc \in StartLabels
      PROVE  d \in cancelled'
  <2>1. call[d].kind \in Starters \ {"restart"}
    BY <1>8, LoneSwitch DEF Quiet, Silence, Routes, Restarted, Preemptions, Preempting
  <2>2. Serial(d)
    BY <2>1 DEF Serial, Starters, AllKinds, Preempting, Direct
  <2>3. call[d].pc \notin Unbound \cup {"done"}
    BY <1>8 DEF StartLabels, StartPhase, Unbound
  <2>4. \A b \in Preemptions : call[b].pc \in Unbound
    BY <1>3, <1>8 DEF Single, Preemptions, Preempting
  <2>5. runCancel = d
    BY <2>2, <2>3, <2>4 DEF Quiet, Silence, Queue
  <2>6. QED
    BY <1>1, <2>5, NoneAssumption
<1>9. Hushed'
  BY <1>1, <1>2, <1>3, <1>8, HushedKept
<1>10. QED
  BY <1>4, <1>5, <1>6, <1>7, <1>9 DEF Silence

\* The context bound last is of the command that has runMu, or of a preempting one.
LEMMA BindRunContextSilent ==
  ASSUME Quiet, NEW c \in Calls, BindRunContext(c)
  PROVE  Silence'
<1>1. /\ call[c].pc = "bind" /\ slot' = slot /\ runCancel' = c
      /\ UNCHANGED <<runMu, cancelled, switch, overtaken>>
  BY DEF BindRunContext, At, storeVars, worldVars
<1>2. call[c].kind \in AllKinds \ Direct
  BY <1>1 DEF Quiet, Silence, Routes, Unbound, At, Inv, TypeOK, CallStates
<1>3. PICK l \in {"check", "begin", "stop", "invalidate", "probe"} :
        /\ Goto(c, l)
        /\ l \in {"check", "begin", "probe"} => call[c].kind \in Starters
        /\ l = "begin" => call[c].kind = "switchEnd"
        /\ call[c].kind = "switchBegin" => l = "invalidate"
  <2>1. Goto(c, FirstStep(call[c].kind))
    BY DEF BindRunContext
  <2> DEFINE k == call[c].kind
  <2>2. k \in AllKinds \ Direct
    BY <1>2
  <2> HIDE DEF k
  <2>3. /\ FirstStep(k) \in {"check", "begin", "stop", "invalidate", "probe"}
        /\ FirstStep(k) \in {"check", "begin", "probe"} => k \in Starters
        /\ FirstStep(k) = "begin" => k = "switchEnd"
        /\ k = "switchBegin" => FirstStep(k) = "invalidate"
    BY <2>2 DEF FirstStep, AllKinds, Direct, Preempting, Starters
  <2>4. QED
    BY <2>1, <2>3 DEF k
<1>4. Pass(c, l)
  BY <1>3, GotoPasses DEF Quiet, Inv, Labels
<1>5. /\ l \notin Unbound \cup {"done", "finish"} /\ call[c].pc \in Unbound
      /\ call[c].pc \notin StartLabels \cup {"finish", "done"}
      /\ l \notin (StartLabels \ {"begin"}) \cup Building
  BY <1>1, <1>3 DEF Unbound, StartLabels, StartPhase, Building
<1>6. Routes'
  <2>1. l \in StartLabels \cup {"probe", "wait", "check"} => call[c].kind \in Starters
    BY <1>3, <1>5
  <2>2. QED
    BY <1>1, <1>2, <1>4, <1>5, <2>1, RoutesKept DEF Unbound
<1>7. Queue'
  <2>1. /\ \A d \in Calls : Serial(d)' <=> Serial(d)
        /\ Preemptions' = Preemptions
    BY <1>4, KindsKept
  <2>2. ASSUME NEW d \in Calls, Serial(d), call'[d].pc \notin {"idle", "submit", "done"}
        PROVE  runMu = d
    BY <1>1, <1>4, <2>2 DEF Pass, Quiet, Silence, Queue
  <2>3. ASSUME NEW d \in Calls, d # c, Serial(d), call'[d].pc \notin Unbound \cup {"done"}
        PROVE  c \in Preemptions
    <3>1. runMu = d
      BY <2>2, <2>3 DEF Unbound
    <3>2. ~Serial(c)
      BY <1>1, <2>3, <3>1 DEF Quiet, Silence, Queue
    <3>3. QED
      BY <1>2, <3>2 DEF Serial, Preemptions
  <2>4. call'[c].pc \notin Unbound
    BY <1>4, <1>5 DEF Pass
  <2>5. QED
    BY <1>1, <2>1, <2>2, <2>3, <2>4 DEF Queue
<1>8. Fresh'
  BY <1>1, <1>4, <1>5, FreshKept
<1>9. Marked'
  BY <1>1, <1>4, <1>5, MarkedKept
<1>10. Hushed'
  <2>1. Single /\ l \in StartLabels => switch \notin {"begun", "quiet"}
    BY <1>3, <1>5 DEF Quiet, Silence, Marked
  <2>2. call[c].pc \notin {"submit", "number", "cancel"} /\ l \notin {"connect", "claim"}
    BY <1>1, <1>3
  <2>3. QED
    BY <1>1, <1>3, <1>4, <2>1, <2>2, HushedKept
<1>11. QED
  BY <1>6, <1>7, <1>8, <1>9, <1>10 DEF Silence

\* The mark of the switch advances with the call that returns.
LEMMA FinishSilent ==
  ASSUME Quiet, NEW c \in Calls, Finish(c)
  PROVE  Silence'
<1>1. /\ call[c].pc = "finish" /\ slot' = slot
      /\ runCancel' = IF runCancel = c THEN None ELSE runCancel
      /\ runMu' = IF runMu = c THEN None ELSE runMu
      /\ UNCHANGED <<cancelled, overtaken>>
  BY DEF Finish, At, storeVars
<1>2. /\ call[c].kind = "switchBegin" => switch' = "quiet"
      /\ call[c].kind = "switchEnd" => switch' = "none"
      /\ call[c].kind \notin {"switchBegin", "switchEnd"} => switch' = switch
  BY DEF Finish
<1>3. Pass(c, "done")
  BY GotoPasses DEF Finish, Quiet, Inv, Labels
<1>4. /\ \A d \in Calls : call'[d].kind = call[d].kind /\ (Serial(d)' <=> Serial(d))
      /\ Preemptions' = Preemptions /\ (Single' <=> Single)
  BY <1>3, KindsKept
<1>5. /\ call[c].pc \notin Unbound \cup {"invalidate"} /\ "done" \notin Unbound
      /\ "done" \notin StartLabels \cup {"probe", "wait", "check"} \cup Building
  BY <1>1 DEF Unbound, StartLabels, StartPhase, Building
<1>6. Routes'
  BY <1>1, <1>3, <1>5, RoutesKept DEF Unbound
<1>7. Queue'
  <2>1. \A d \in Calls : d # c => call'[d] = call[d]
    BY <1>3 DEF Pass
  <2>2. call'[c].pc = "done"
    BY <1>3 DEF Pass
  <2>3. \A b \in Preemptions : call[b].pc \notin Unbound => call'[b].pc \notin Unbound
    BY <1>5, <2>1, <2>2 DEF Preemptions
  <2>4. QED
    BY <1>1, <1>4, <2>1, <2>2, <2>3 DEF Quiet, Silence, Queue
<1>8. Fresh'
  BY <1>1, <1>3, <1>5, FreshKept
<1>9. \A d \in Calls : d # c => call'[d].pc = call[d].pc
  BY <1>3 DEF Pass
<1>10. call'[c].pc = "done"
  BY <1>3 DEF Pass
<1>11. Single /\ call[c].kind = "switchBegin" => switch = "begun"
  BY <1>1 DEF Quiet, Silence, Marked, At
<1>12. ASSUME NEW b \in Calls, call[b].kind = "switchBegin", call[c].kind = "switchBegin", Single
       PROVE  b = c
  BY <1>12 DEF Single, Preemptions, Preempting
<1>13. Marked'
  <2>1. SUFFICES ASSUME Single
                 PROVE  /\ switch' # "none" => \E b \in Calls : call[b].kind = "switchBegin"
                        /\ \A b \in Calls : call[b].kind = "switchBegin" =>
                               (call'[b].pc # "done" <=> switch' = "begun")
                        /\ \A e \in Calls : call[e].kind = "switchEnd" =>
                               /\ switch' \in {"restoring", "none"}
                               /\ \E b \in Calls : call[b].kind = "switchBegin"
    BY <1>4 DEF Marked, At
  <2>2. /\ switch # "none" => \E b \in Calls : call[b].kind = "switchBegin"
        /\ \A b \in Calls : call[b].kind = "switchBegin" =>
               (call[b].pc # "done" <=> switch = "begun")
        /\ \A e \in Calls : call[e].kind = "switchEnd" =>
               /\ switch \in {"restoring", "none"}
               /\ \E b \in Calls : call[b].kind = "switchBegin"
    BY <2>1 DEF Quiet, Silence, Marked, At
  <2>3. CASE call[c].kind = "switchBegin"
    BY <1>2, <1>10, <1>11, <1>12, <2>1, <2>2, <2>3
  <2>4. CASE call[c].kind = "switchEnd"
    BY <1>2, <1>9, <2>2, <2>4
  <2>5. CASE call[c].kind \notin {"switchBegin", "switchEnd"}
    BY <1>2, <1>9, <2>2, <2>5
  <2>6. QED
    BY <2>3, <2>4, <2>5
<1>14. Hushed'
  <2>1. SUFFICES ASSUME Single, switch' \in {"begun", "quiet"}, NEW b \in Calls,
                        call[b].kind = "switchBegin"
                 PROVE  /\ call'[b].pc \notin {"submit", "number", "cancel"} =>
                               \A d \in Calls : call'[d].pc \in StartLabels => d \in cancelled
                        /\ call'[b].pc \notin Unbound \cup {"invalidate"} =>
                               \A d \in Calls : call'[d].pc \in {"connect", "claim"} =>
                                   call'[d].epoch # slot.epoch
                        /\ call'[b].pc \in {"halt", "delete"} => slot.inst \in {None, call'[b].target}
                        /\ call'[b].pc \in {"sms", "finish", "done"} => slot.inst = None
    BY <1>1, <1>4 DEF Hushed
  <2>2. switch \in {"begun", "quiet"}
    BY <1>2, <1>11, <2>1
  <2>3. /\ call[b].pc \notin {"submit", "number", "cancel"} =>
              \A d \in Calls : call[d].pc \in StartLabels => d \in cancelled
        /\ call[b].pc \notin Unbound \cup {"invalidate"} =>
              \A d \in Calls : call[d].pc \in {"connect", "claim"} => call[d].epoch # slot.epoch
        /\ call[b].pc \in {"halt", "delete"} => slot.inst \in {None, call[b].target}
        /\ call[b].pc \in {"sms", "finish", "done"} => slot.inst = None
    BY <2>1, <2>2 DEF Quiet, Silence, Hushed
  <2>4. \A d \in Calls : call'[d].pc \in StartLabels \cup {"connect", "claim"} => call'[d] = call[d]
    BY <1>3, <1>5 DEF Pass, Building
  <2>5. CASE b = c
    BY <1>1, <1>5, <1>10, <2>3, <2>4, <2>5
  <2>6. CASE b # c
    <3>1. call'[b] = call[b]
      BY <1>3, <2>6 DEF Pass
    <3>2. QED
      BY <2>3, <2>4, <3>1
  <2>7. QED
    BY <2>5, <2>6
<1>15. QED
  BY <1>6, <1>7, <1>8, <1>13, <1>14 DEF Silence

\* A switch that is abandoned drops its mark.
LEMMA AbandonSwitchSilent ==
  ASSUME Quiet, AbandonSwitch
  PROVE  Silence'
<1>1. /\ switch = "quiet" /\ switch' = "none" /\ slot' = slot
      /\ UNCHANGED <<call, runMu, runCancel, cancelled, overtaken>>
  BY DEF AbandonSwitch, storeVars, controlVars
<1>2. Preemptions' = Preemptions /\ (Single' <=> Single) /\ (Restarted' <=> Restarted)
  BY <1>1 DEF Single, Restarted, Preemptions
<1>3. Routes'
  BY <1>1 DEF Quiet, Silence, Routes, At
<1>4. Queue'
  BY <1>1, <1>2 DEF Quiet, Silence, Queue, Serial
<1>5. Fresh'
  BY <1>1, <1>2 DEF Quiet, Silence, Fresh
<1>6. Marked'
  BY <1>1, <1>2 DEF Quiet, Silence, Marked, At
<1>7. Hushed'
  BY <1>1 DEF Hushed
<1>8. QED
  BY <1>3, <1>4, <1>5, <1>6, <1>7 DEF Silence

-----------------------------------------------------------------------------
(* A call that is made.                                                    *)

\* Call c is made: it is of kind k from now on.
Made(c, k) ==
    /\ call'[c].pc \in {"submit", "stop"} /\ call'[c].kind = k
    /\ call'[c].pc = "stop" <=> k \in Direct
    /\ \A d \in Calls \ {c} : call'[d] = call[d]

\* A call that is made may add to the preempting ones and takes none away.
LEMMA MadeKinds ==
  ASSUME Quiet, NEW c \in Calls, NEW k \in AllKinds, At(c, "idle"), Made(c, k)
  PROVE  /\ call[c].kind = None /\ c \notin Preemptions
         /\ Preemptions \subseteq Preemptions'
         /\ Single' => Single
         /\ Restarted => Restarted'
         /\ \A d \in Calls \ {c} : Serial(d)' <=> Serial(d)
<1>1. call[c].kind = None /\ None \notin AllKinds
  BY NoneAssumption DEF Quiet, Silence, Routes
<1>2. c \notin Preemptions
  BY <1>1 DEF Preemptions, Preempting, AllKinds
<1>3. \A b \in Preemptions : b \in Preemptions' /\ call'[b] = call[b]
  BY <1>2 DEF Made, Preemptions
<1>4. Single' => Single
  BY <1>3 DEF Single
<1>5. Restarted => Restarted'
  BY <1>3 DEF Restarted
<1>6. \A d \in Calls \ {c} : Serial(d)' <=> Serial(d)
  BY DEF Made, Serial
<1>7. QED
  BY <1>1, <1>2, <1>3, <1>4, <1>5, <1>6

\* A call that is made is at the beginning of its route.
LEMMA MadeKept ==
  ASSUME Quiet, NEW c \in Calls, NEW k \in AllKinds, At(c, "idle"), Made(c, k),
         UNCHANGED <<runMu, runCancel>>
  PROVE  Routes' /\ Queue'
<1>1. /\ Preemptions \subseteq Preemptions' /\ c \notin Preemptions
      /\ \A d \in Calls \ {c} : Serial(d)' <=> Serial(d)
  BY MadeKinds
<1>2. "stop" \notin Unbound /\ "submit" \in Unbound
      /\ "stop" \notin StartLabels /\ "submit" \notin StartLabels
  BY DEF Unbound, StartLabels, StartPhase
<1>3. k # None
  BY NoneAssumption
<1>4. Routes'
  <2>1. SUFFICES ASSUME NEW d \in Calls
                 PROVE  /\ call'[d].pc = "idle" <=> call'[d].kind = None
                        /\ call'[d].kind \in Direct => call'[d].pc \notin Unbound
                        /\ call'[d].pc \in StartLabels \cup {"probe", "wait", "check"} =>
                               call'[d].kind \in Starters
    BY DEF Routes, At
  <2>2. CASE d = c
    BY <1>2, <1>3, <2>2 DEF Made
  <2>3. CASE d # c
    BY <2>3 DEF Made, Quiet, Silence, Routes, At
  <2>4. QED
    BY <2>2, <2>3
<1>5. Queue'
  <2>1. Serial(c)' => call'[c].pc = "submit"
    BY DEF Serial, Made
  <2>2. \A b \in Preemptions : b \in Preemptions' /\ (call[b].pc \notin Unbound => call'[b].pc \notin Unbound)
    BY <1>1 DEF Made, Preemptions
  <2>3. \A d \in Calls \ {c} : call'[d] = call[d]
    BY DEF Made
  <2>4. ASSUME NEW d \in Calls, Serial(d)', call'[d].pc \notin {"idle", "submit", "done"}
        PROVE  runMu = d
    BY <1>1, <2>1, <2>3, <2>4 DEF Quiet, Silence, Queue
  <2>5. ASSUME NEW d \in Calls, Serial(d)', call'[d].pc \notin Unbound \cup {"done"}
        PROVE  runCancel = d \/ \E b \in Preemptions' : call'[b].pc \notin Unbound
    <3>1. d # c
      BY <1>2, <2>1, <2>5
    <3>2. Serial(d) /\ call[d].pc \notin Unbound \cup {"done"}
      BY <1>1, <2>3, <2>5, <3>1
    <3>3. QED
      BY <2>2, <3>2 DEF Quiet, Silence, Queue
  <2>6. QED
    BY <2>4, <2>5 DEF Queue
<1>6. QED
  BY <1>4, <1>5

\* A call that is no switch: the store is left alone, or invalidated.
LEMMA MadePlain ==
  ASSUME Quiet, NEW c \in Calls, NEW k \in AllKinds \ {"switchBegin", "switchEnd"},
         At(c, "idle"), Made(c, k),
         UNCHANGED <<runMu, runCancel, cancelled, switch>>,
         (slot' = slot /\ overtaken' = overtaken) \/ Invalidate
  PROVE  Silence'
<1>1. /\ call[c].kind = None /\ (Single' => Single) /\ (Restarted => Restarted')
      /\ None \notin AllKinds
  BY MadeKinds, NoneAssumption
<1>2. Routes' /\ Queue'
  BY MadeKept
<1>3. /\ \A d \in Calls : call'[d].pc \in StartLabels => call'[d] = call[d]
      /\ \A d \in Calls : call[d].pc \in (StartLabels \ {"begin"}) \cup {"finish", "done"} =>
             d # c /\ call'[d] = call[d]
  BY DEF Made, StartLabels, StartPhase, At
<1>4. \A d \in Calls : call'[d].kind \in {"switchBegin", "switchEnd"} \/ call[d].kind \in {"switchBegin", "switchEnd"}
                         => d # c /\ call'[d] = call[d]
  BY <1>1 DEF Made, AllKinds
<1>5. slot'.inst = slot.inst
  BY InvalidateSlot DEF Quiet, Inv
<1>6. Fresh' /\ \A d \in Calls : ~Restarted /\ call'[d].pc \in {"connect", "claim"} =>
                   call'[d].epoch # slot'.epoch \/ (slot' = slot /\ call'[d] = call[d])
  <2>1. CASE slot' = slot /\ overtaken' = overtaken
    <3>1. \A d \in Calls : call'[d].pc \in Building => call'[d] = call[d]
      BY <1>3 DEF Building, StartLabels, StartPhase
    <3>2. Fresh'
      BY <1>1, <1>3, <2>1, <3>1 DEF Quiet, Silence, Fresh
    <3>3. QED
      BY <2>1, <3>1, <3>2 DEF Building
  <2>2. CASE Invalidate
    BY <1>1, <1>3, <2>2, InvalidationSilent DEF Building
  <2>3. QED
    BY <2>1, <2>2
<1>7. Marked'
  BY <1>1, <1>4 DEF Quiet, Silence, Marked, At
<1>8. Hushed'
  <2>1. SUFFICES ASSUME Single, switch \in {"begun", "quiet"}, NEW b \in Calls,
                        call'[b].kind = "switchBegin"
                 PROVE  /\ call'[b].pc \notin {"submit", "number", "cancel"} =>
                               \A d \in Calls : call'[d].pc \in StartLabels => d \in cancelled
                        /\ call'[b].pc \notin Unbound \cup {"invalidate"} =>
                               \A d \in Calls : call'[d].pc \in {"connect", "claim"} =>
                                   call'[d].epoch # slot'.epoch
                        /\ call'[b].pc \in {"halt", "delete"} => slot.inst \in {None, call'[b].target}
                        /\ call'[b].pc \in {"sms", "finish", "done"} => slot.inst = None
    BY <1>1, <1>5 DEF Hushed
  <2>2. call'[b] = call[b] /\ call[b].kind = "switchBegin" /\ ~Restarted
    BY <1>4, <2>1, LoneSwitch
  <2>3. /\ call[b].pc \notin {"submit", "number", "cancel"} =>
              \A d \in Calls : call[d].pc \in StartLabels => d \in cancelled
        /\ call[b].pc \notin Unbound \cup {"invalidate"} =>
              \A d \in Calls : call[d].pc \in {"connect", "claim"} => call[d].epoch # slot.epoch
        /\ call[b].pc \in {"halt", "delete"} => slot.inst \in {None, call[b].target}
        /\ call[b].pc \in {"sms", "finish", "done"} => slot.inst = None
    BY <2>1, <2>2 DEF Quiet, Silence, Hushed
  <2>4. QED
    BY <1>3, <1>6, <2>2, <2>3
<1>9. QED
  BY <1>2, <1>6, <1>7, <1>8 DEF Silence

\* A switch that begins, or is being restored.
LEMMA MadeSwitch ==
  ASSUME Quiet, NEW c \in Calls, NEW k \in AllKinds, At(c, "idle"), Made(c, k),
         UNCHANGED <<runMu, runCancel, cancelled, overtaken>>, slot' = slot,
         \/ k = "switchBegin" /\ switch = "none" /\ switch' = "begun"
         \/ k = "switchEnd" /\ switch = "quiet" /\ switch' = "restoring"
  PROVE  Silence'
<1>1. /\ call[c].kind = None /\ (Single' => Single) /\ (Restarted => Restarted')
      /\ None \notin AllKinds /\ Preemptions \subseteq Preemptions' /\ c \notin Preemptions
  BY MadeKinds, NoneAssumption
<1>2. Routes' /\ Queue'
  BY MadeKept
<1>3. /\ call'[c].pc = "submit" /\ call'[c].kind = k
      /\ \A d \in Calls : d # c => call'[d] = call[d]
  BY DEF Made, Direct
<1>4. Fresh'
  <2>1. c \notin overtaken
    BY DEF Quiet, Silence, Fresh, At, StartLabels, StartPhase
  <2>2. \A d \in Calls : call'[d].pc \in Building => call'[d] = call[d]
    BY <1>3 DEF Building
  <2>3. QED
    BY <1>1, <1>3, <2>1, <2>2 DEF Quiet, Silence, Fresh
<1>5. CASE k = "switchBegin" /\ switch = "none" /\ switch' = "begun"
  <2>1. ASSUME Single', NEW b \in Calls, call'[b].kind = "switchBegin" PROVE b = c
    BY <1>3, <1>5, <2>1 DEF Single, Preemptions, Preempting
  <2>2. ASSUME Single', NEW b \in Calls, call[b].kind = "switchBegin" PROVE FALSE
    <3>1. b # c
      BY <1>1, <2>2 DEF AllKinds
    <3>2. QED
      BY <1>3, <2>1, <2>2, <3>1
  <2>3. ASSUME Single', NEW e \in Calls, call'[e].kind = "switchEnd" PROVE FALSE
    <3>1. call[e].kind = "switchEnd"
      BY <1>3, <1>5, <2>3
    <3>2. QED
      BY <1>1, <2>2, <2>3, <3>1 DEF Quiet, Silence, Marked
  <2>4. Marked'
    BY <1>3, <1>5, <2>1, <2>3 DEF Marked, At
  <2>5. Hushed'
    <3>1. "submit" \in Unbound
      BY DEF Unbound
    <3>2. QED
      BY <1>3, <2>1, <3>1 DEF Hushed
  <2>6. QED
    BY <1>2, <1>4, <2>4, <2>5 DEF Silence
<1>6. CASE k = "switchEnd" /\ switch = "quiet" /\ switch' = "restoring"
  <2>1. \A b \in Calls : call'[b].kind = "switchBegin" <=> call[b].kind = "switchBegin"
    BY <1>1, <1>3, <1>6 DEF AllKinds
  <2>2. \A b \in Calls : call[b].kind = "switchBegin" => b # c
    BY <1>1 DEF AllKinds
  <2>3. Marked'
    BY <1>1, <1>3, <1>6, <2>1, <2>2 DEF Quiet, Silence, Marked, At
  <2>4. Hushed'
    BY <1>6 DEF Hushed
  <2>5. QED
    BY <1>2, <1>4, <2>3, <2>4 DEF Silence
<1>7. QED
  BY <1>5, <1>6

\* A call that begins, SwitchBegin and SwitchEnd included.
LEMMA IssueSilent ==
  ASSUME Quiet, NEW c \in Calls, Issue(c)
  PROVE  Silence'
<1>1. PICK k \in Kinds : \/ IssueQuiet(c, k)
                         \/ IssueRetry(c, k)
                         \/ IssueInvalidating(c, k)
                         \/ IssueSwitch(c, k)
  BY DEF Issue
<1>2. At(c, "idle") /\ k \in AllKinds
  BY KindsAssumption DEF Issue
<1>3. CASE IssueQuiet(c, k)
  <2>1. /\ k \in {"enable", "recover"} /\ call' = [call EXCEPT ![c].pc = "submit", ![c].kind = k]
        /\ slot' = slot /\ UNCHANGED <<runMu, runCancel, cancelled, switch, overtaken>>
    BY <1>3 DEF IssueQuiet, storeVars, controlVars, worldVars
  <2>2. Made(c, k)
    BY <2>1 DEF Made, Direct, Quiet, Inv, TypeOK, CallStates
  <2>3. QED
    BY <1>2, <2>1, <2>2, MadePlain
<1>4. CASE IssueRetry(c, k)
  <2>1. PICK g \in retries :
          call' = [call EXCEPT ![c].pc = "submit", ![c].kind = k, ![c].gen = g]
    BY <1>4 DEF IssueRetry
  <2>2. k = "retry" /\ slot' = slot /\ UNCHANGED <<runMu, runCancel, cancelled, switch, overtaken>>
    BY <1>4 DEF IssueRetry, storeVars, controlVars, worldVars
  <2>3. Made(c, k)
    BY <2>1, <2>2 DEF Made, Direct, Quiet, Inv, TypeOK, CallStates
  <2>4. QED
    BY <1>2, <2>2, <2>3, MadePlain
<1>5. CASE IssueInvalidating(c, k)
  <2>1. /\ k \in {"disable", "restart"} \cup Direct /\ Invalidate
        /\ call' = [call EXCEPT ![c].pc = IF k \in Direct THEN "stop" ELSE "submit", ![c].kind = k]
        /\ UNCHANGED <<runMu, runCancel, cancelled, switch>>
    BY <1>5 DEF IssueInvalidating, controlVars, worldVars
  <2>2. Made(c, k)
    BY <2>1 DEF Made, Quiet, Inv, TypeOK, CallStates
  <2>3. k \notin {"switchBegin", "switchEnd"}
    BY <2>1 DEF Direct
  <2>4. QED
    BY <1>2, <2>1, <2>2, <2>3, MadePlain
<1>6. CASE IssueSwitch(c, k)
  <2>1. /\ \/ k = "switchBegin" /\ switch = "none" /\ switch' = "begun"
           \/ k = "switchEnd" /\ switch = "quiet" /\ switch' = "restoring"
        /\ call' = [call EXCEPT ![c].pc = "submit", ![c].kind = k]
        /\ slot' = slot /\ UNCHANGED <<runMu, runCancel, cancelled, overtaken>>
    BY <1>6 DEF IssueSwitch, storeVars, controlVars
  <2>2. Made(c, k)
    BY <2>1 DEF Made, Direct, Quiet, Inv, TypeOK, CallStates
  <2>3. QED
    BY <1>2, <2>1, <2>2, MadeSwitch
<1>7. QED
  BY <1>1, <1>3, <1>4, <1>5, <1>6

-----------------------------------------------------------------------------
\* A state that is reported leaves instance and epoch.
LEMMA ObserveSilent ==
  ASSUME Quiet, NEW c \in Calls, Observe(c)
  PROVE  Silence'
<1>1. /\ slot'.inst = slot.inst /\ slot'.epoch = slot.epoch
      /\ UNCHANGED <<call, runMu, runCancel, cancelled, switch, overtaken>>
  BY RecordSlot DEF Observe, controlVars, worldVars, Quiet, Inv
<1>2. QED
  BY <1>1, NobodyMoves

\* Every step of a call keeps the silence.
LEMMA StepSilent ==
  ASSUME Quiet, NEW c \in Calls, Step(c)
  PROVE  Silence'
BY AdmitSilent, PreemptSilent, NumberSilent, CancelActiveRunSilent, BindRunContextSilent,
   FinishSilent, ProbeSilent, InvalidateRuntimeSilent, ReadInstanceSilent, StopInstanceSilent,
   DeleteInstanceSilent, RestoreSMSModeSilent, WaitReadySilent, CheckSwitchingSilent,
   BeginStartSilent, PrepareStartSilent, BeforeStartSilent, ConnectSilent, ClaimStartedSilent,
   StopStaleSilent, ClearAfterStartSilent, MarkRuntimeStartedSilent, HandleStartupErrorSilent,
   FailStartSilent, Zenon DEF Step

\* The second invariant holds in every reachable state.
LEMMA QuietAlways == Spec => []Quiet
<1>1. Init => Silence
  <2> SUFFICES ASSUME Init PROVE Silence
    OBVIOUS
  <2>1. /\ \A c \in Calls : call[c].pc = "idle" /\ call[c].kind = None
        /\ switch = "none" /\ overtaken = {}
    BY DEF Init, Idle
  <2>2. /\ "idle" \in Unbound /\ "idle" \notin StartLabels /\ "idle" \notin Building
        /\ None \notin AllKinds /\ None \notin Direct
        /\ None \notin {"switchBegin", "switchEnd"}
    BY NoneAssumption DEF Unbound, StartLabels, StartPhase, Building, Direct, AllKinds
  <2>3. Routes
    BY <2>1, <2>2 DEF Routes, At
  <2>4. Queue
    BY <2>1 DEF Queue, Unbound
  <2>5. Fresh
    BY <2>1, <2>2 DEF Fresh
  <2>6. Marked
    BY <2>1, <2>2 DEF Marked
  <2>7. Hushed
    BY <2>1 DEF Hushed
  <2>8. QED
    BY <2>3, <2>4, <2>5, <2>6, <2>7 DEF Silence
<1>2. Quiet /\ [Next]_vars => Silence'
  <2> SUFFICES ASSUME Quiet, [Next]_vars PROVE Silence'
    OBVIOUS
  <2>1. CASE \E c \in Calls : Issue(c) \/ Step(c) \/ Observe(c)
    BY <2>1, IssueSilent, StepSilent, ObserveSilent
  <2>2. CASE AbandonSwitch
    BY <2>2, AbandonSwitchSilent
  <2>3. CASE UNCHANGED vars
    BY <2>3, NobodyMoves DEF vars
  <2>4. QED
    BY <2>1, <2>2, <2>3 DEF Next
<1>3. Inv /\ Silence <=> Quiet
  BY DEF Quiet
<1>4. QED
  BY <1>1, <1>2, <1>3, InvAlways, PTL DEF Spec

\* A switch that is the only preempting command keeps the device quiet until it is over or
\* its restore begins: what SwitchBegin cancels, what the epoch drops and what the
\* teardown stops leave no start out (lifecycle.go, store.go).
THEOREM SwitchKeepsQuiet == Spec => []QuietDuringSwitch
<1>1. Quiet => QuietDuringSwitch
  <2> SUFFICES ASSUME Quiet, switch = "quiet", \A b, c \in Preemptions : b = c
               PROVE  slot.inst = None
    BY DEF QuietDuringSwitch
  <2>1. Single
    BY DEF Single
  <2>2. PICK b \in Calls : call[b].kind = "switchBegin"
    BY <2>1 DEF Quiet, Silence, Marked
  <2>3. call[b].pc = "done"
    BY <2>1, <2>2 DEF Quiet, Silence, Marked, At
  <2>4. QED
    BY <2>1, <2>2, <2>3 DEF Quiet, Silence, Hushed
<1>2. QED
  BY <1>1, QuietAlways, PTL

\* Only a claim brings another instance into the slot.
LEMMA OnlyClaimsFill ==
  ASSUME Inv, [Next]_vars, slot'.inst \notin {None, slot.inst}
  PROVE  \E c \in Calls : /\ ClaimStarted(c) /\ slot'.inst = c
                          /\ slot.epoch = call[c].epoch
<1>1. slot' # slot /\ ~RecordStartupState /\ ~ClearStartupState /\ ~Invalidate
  BY RecordSlot, ClearSlot, InvalidateSlot DEF Inv
<1>2. ~AbandonSwitch /\ ~UNCHANGED vars
  BY <1>1 DEF AbandonSwitch, storeVars, vars
<1>3. PICK c \in Calls : Issue(c) \/ Step(c) \/ Observe(c)
  BY <1>2 DEF Next
<1>4. ~Issue(c)
  BY <1>1 DEF Issue, IssueQuiet, IssueRetry, IssueInvalidating, IssueSwitch, storeVars
<1>5. ~Observe(c)
  BY <1>1 DEF Observe
<1>6. /\ ~Admit(c) /\ ~Preempt(c) /\ ~Number(c) /\ ~CancelActiveRun(c) /\ ~BindRunContext(c)
      /\ ~Finish(c) /\ ~Probe(c) /\ ~ReadInstance(c) /\ ~RestoreSMSMode(c) /\ ~WaitReady(c)
      /\ ~CheckSwitching(c) /\ ~MarkRuntimeStarted(c)
  BY <1>1 DEF Admit, Preempt, Number, CancelActiveRun, BindRunContext, Finish, Probe, ReadInstance,
              RestoreSMSMode, WaitReady, CheckSwitching, MarkRuntimeStarted, storeVars
<1>7. /\ ~InvalidateRuntime(c) /\ ~StopInstance(c) /\ ~PrepareStart(c) /\ ~BeforeStart(c)
      /\ ~Connect(c) /\ ~StopStale(c) /\ ~ClearAfterStart(c) /\ ~HandleStartupError(c)
  BY <1>1 DEF InvalidateRuntime, StopInstance, PrepareStart, BeforeStart, Connect, StopStale,
              ClearAfterStart, HandleStartupError
<1>8. ~DeleteInstance(c)
  BY <1>1 DEF DeleteInstance, EmptySlot
<1>9. ~BeginStart(c) /\ ~FailStart(c)
  BY <1>1 DEF BeginStart, FailStart, Inv, TypeOK, Slots
<1>10. ClaimStarted(c)
  BY <1>3, <1>4, <1>5, <1>6, <1>7, <1>8, <1>9 DEF Step
<1>11. QED
  BY <1>1, <1>10 DEF ClaimStarted, EmptySlot

\* Without a restart, an instance that comes into the slot is of a start that no
\* invalidation has overtaken: the epoch of the slot tells the two apart, although a slot
\* that is deleted counts from zero again (store.go).
THEOREM ClaimsAreFresh == Spec => ClaimsFresh
<1>1. Quiet /\ [Next]_vars =>
        [/\ ~Restarted
         /\ slot'.inst \notin {None, slot.inst}
         => slot'.inst \notin overtaken]_vars
  <2> SUFFICES ASSUME Quiet, [Next]_vars, ~Restarted, slot'.inst \notin {None, slot.inst}
               PROVE  slot'.inst \notin overtaken
    OBVIOUS
  <2>1. PICK c \in Calls : ClaimStarted(c) /\ slot'.inst = c /\ slot.epoch = call[c].epoch
    BY OnlyClaimsFill DEF Quiet
  <2>2. call[c].pc \in Building /\ slot.epoch \in Nat
    BY <2>1 DEF ClaimStarted, At, Building, Quiet, Inv, TypeOK, Slots
  <2>3. c \in overtaken => call[c].epoch < slot.epoch
    BY <2>2 DEF Quiet, Silence, Fresh
  <2>4. QED
    BY <2>1, <2>2, <2>3
<1>2. QED
  BY <1>1, QuietAlways, PTL DEF ClaimsFresh, Spec

-----------------------------------------------------------------------------
(* VoWiFi as the policy wants it: DesiredVowifi.                           *)

\* The labels of a call that is not in the hands of the controller, and those of a disable.
OutOfLine == {"idle", "submit", "done"}
DisableLabels == OutOfLine \cup {"number", "bind", "stop", "halt", "delete", "sms", "finish"}

\* Nothing preempts, so one call at a time is in line, under runMu.
InLine ==
    \A c \in Calls :
        /\ call[c].kind \in {None, "enable", "disable", "recover", "retry"}
        /\ call[c].pc \notin OutOfLine => runMu = c

\* The SMS mode follows the slot, except while the call in line is about to set it.
Modes ==
    /\ slot.inst # None /\ sms = "modem" => call[slot.inst].pc \in {"started", "mark"}
    /\ slot.inst = None /\ sms = "vowifi" => \E c \in Calls : At(c, "sms")
    /\ \A c \in Calls :
           /\ At(c, "sms") => slot.inst = None
           /\ call[c].pc \in {"started", "mark"} => slot.inst = c
           /\ call[c].pc \in {"halt", "delete"} =>
                  slot.inst # None /\ slot.inst = call[c].target

\* The call in line has the last generation, and the number of a Disable is its own: no retry
\* and no start is made under it.
Numbers ==
    /\ retries \subseteq 1..generation
    /\ \A c \in Calls :
           /\ call[c].gen <= generation
           /\ At(c, "number") => call[c].gen \in {0, generation}
           /\ call[c].pc \notin OutOfLine \cup {"number"} =>
                  call[c].gen = generation /\ generation > 0
           /\ call[c].kind = "disable" =>
                  /\ call[c].pc \in DisableLabels
                  /\ call[c].gen # 0 =>
                         /\ call[c].gen \notin retries
                         /\ \A d \in Calls : call[d].kind # "disable" => call[d].gen # call[c].gen

InOrder == InLine /\ Modes /\ Numbers

\* Who is in line is alone there.
LEMMA Solo ==
  ASSUME TypeOK, InLine, NEW c \in Calls, call[c].pc \notin OutOfLine
  PROVE  runMu = c /\ \A d \in Calls \ {c} : call[d].pc \in OutOfLine
BY DEF InLine

\* A call moves to a label and keeps its kind and its number.
Goes(c, l) ==
    /\ call'[c].pc = l /\ call'[c].kind = call[c].kind /\ call'[c].gen = call[c].gen
    /\ \A d \in Calls \ {c} : call'[d] = call[d]

\* Goto does no more.
LEMMA GotoGoes ==
  ASSUME TypeOK, NEW c \in Calls, NEW l \in Labels, Goto(c, l)
  PROVE  Goes(c, l) /\ call'[c].target = call[c].target
BY DEF TypeOK, Goto, Goes, CallStates

\* A step in line that leaves the generation keeps the line and the numbers.
LEMMA StaysInLine ==
  ASSUME TypeOK, InOrder, NEW c \in Calls, NEW l \in Labels, Goes(c, l),
         UNCHANGED <<runMu, generation>>, retries' \subseteq retries \cup {call[c].gen},
         call[c].kind = "disable" => l \in DisableLabels /\ retries' = retries,
         call[c].pc \notin OutOfLine \cup {"number"}, l \notin OutOfLine \cup {"number"}
  PROVE  InLine' /\ Numbers'
<1> USE DEF OutOfLine
<1>1. /\ call'[c].pc = l /\ call'[c].kind = call[c].kind /\ call'[c].gen = call[c].gen
      /\ \A d \in Calls \ {c} : call'[d] = call[d]
  BY DEF Goes
<1>2. runMu = c /\ \A d \in Calls \ {c} : call[d].pc \in OutOfLine
  BY Solo DEF InOrder
<1>3. InLine'
  BY <1>1, <1>2 DEF InOrder, InLine
<1>4. call[c].gen \in Nat /\ generation \in Nat
  BY DEF TypeOK, CallStates
<1>5. Numbers'
  <2>1. call[c].gen = generation /\ generation > 0
    BY DEF InOrder, Numbers
  <2>2. retries' \subseteq 1..generation
    BY <1>4, <2>1 DEF InOrder, Numbers
  <2>3. ASSUME NEW d \in Calls
        PROVE  /\ call'[d].kind = "disable" => call'[d].pc \in DisableLabels
               /\ call'[d].gen <= generation
               /\ At(d, "number")' => call'[d].gen \in {0, generation}
               /\ call'[d].pc \notin OutOfLine \cup {"number"} => call'[d].gen = generation
    <3>1. CASE d = c
      BY <1>1, <2>1, <3>1, <1>4 DEF At
    <3>2. CASE d # c
      BY <1>1, <3>2 DEF InOrder, Numbers, At
    <3>3. QED
      BY <3>1, <3>2
  <2>4. ASSUME NEW d \in Calls, call'[d].kind = "disable", call'[d].gen # 0
        PROVE  /\ call'[d].gen \notin retries'
               /\ \A e \in Calls : call'[e].kind # "disable" => call'[e].gen # call'[d].gen
    <3>1. \A e \in Calls : call'[e].kind = call[e].kind /\ call'[e].gen = call[e].gen
      BY <1>1
    <3>2. /\ call[d].gen \notin retries
          /\ \A e \in Calls : call[e].kind # "disable" => call[e].gen # call[d].gen
      BY <2>4, <3>1 DEF InOrder, Numbers
    <3>3. call[d].gen \notin retries'
      BY <2>4, <3>1, <3>2
    <3>4. QED
      BY <3>1, <3>2, <3>3
  <2>5. QED
    BY <2>1, <2>2, <2>3, <2>4 DEF Numbers
<1>6. QED
  BY <1>3, <1>5

\* Such a step keeps the order when it leaves the slot's instance and the SMS mode too.
LEMMA StaysInOrder ==
  ASSUME TypeOK, InOrder, NEW c \in Calls, NEW l \in Labels, Goes(c, l),
         UNCHANGED <<runMu, generation, sms>>, slot'.inst = slot.inst,
         retries' \subseteq retries \cup {call[c].gen},
         call[c].kind = "disable" => l \in DisableLabels /\ retries' = retries,
         call[c].pc \notin OutOfLine \cup {"number", "sms"}, l \notin OutOfLine \cup {"number"},
         call[c].pc \in {"started", "mark"} => l \in {"started", "mark"},
         l = "sms" => slot.inst = None, l \in {"started", "mark"} => slot.inst = c,
         l \in {"halt", "delete"} => slot.inst # None /\ slot.inst = call'[c].target
  PROVE  InOrder'
<1> USE DEF OutOfLine
<1>1. /\ call'[c].pc = l
      /\ \A d \in Calls \ {c} : call'[d] = call[d]
  BY DEF Goes
<1>2. runMu = c /\ \A d \in Calls \ {c} : call[d].pc \in OutOfLine
  BY Solo DEF InOrder
<1>3. slot.inst \in Calls \cup {None}
  BY DEF TypeOK, Slots
<1>4. Modes'
  BY <1>1, <1>2, <1>3 DEF InOrder, Modes, At
<1>5. InLine' /\ Numbers'
  BY StaysInLine
<1>6. QED
  BY <1>4, <1>5 DEF InOrder

\* The steps in line that touch neither the slot's instance nor the SMS mode.
LEMMA PlainInOrder ==
  ASSUME Inv, InOrder, NEW c \in Calls,
         \/ BindRunContext(c) \/ Probe(c) \/ InvalidateRuntime(c) \/ ReadInstance(c)
         \/ StopInstance(c) \/ WaitReady(c)
  PROVE  InOrder'
<1> USE DEF OutOfLine, DisableLabels
<1>1. TypeOK /\ call[c].kind \in {None, "enable", "disable", "recover", "retry"}
      /\ (call[c].kind = "disable" => call[c].pc \in DisableLabels)
  BY DEF Inv, InOrder, InLine, Numbers
<1>2. CASE BindRunContext(c)
  <2>1. FirstStep(call[c].kind) \in {"check", "stop", "probe"}
        /\ (call[c].kind = "disable" => FirstStep(call[c].kind) = "stop")
    BY <1>1, NoneAssumption DEF FirstStep, Preempting, AllKinds
  <2>2. /\ At(c, "bind") /\ Goto(c, FirstStep(call[c].kind))
        /\ UNCHANGED <<runMu, generation, sms, retries>> /\ slot' = slot
    BY <1>2 DEF BindRunContext, storeVars, worldVars
  <2> DEFINE l == FirstStep(call[c].kind)
  <2>3. l \in Labels
    BY <2>1 DEF Labels
  <2> HIDE DEF l
  <2>4. Goes(c, l)
    BY <1>1, <2>2, <2>3, GotoGoes DEF l
  <2>5. l \in {"check", "stop", "probe"} /\ (call[c].kind = "disable" => l = "stop")
    BY <2>1 DEF l
  <2>6. call[c].pc = "bind"
    BY <2>2 DEF At
  <2>7. QED
    BY <1>1, <2>2, <2>3, <2>4, <2>5, <2>6, StaysInOrder
<1>3. CASE Probe(c)
  <2>1. PICK l \in {"finish", "invalidate"} : Goto(c, l)
    BY <1>3 DEF Probe
  <2>2. call[c].pc = "probe" /\ slot' = slot /\ UNCHANGED <<runMu, generation, sms, retries>>
    BY <1>3 DEF Probe, At, storeVars, controlVars, worldVars
  <2>3. l \in Labels
    BY DEF Labels
  <2>4. Goes(c, l)
    BY <1>1, <2>1, <2>3, GotoGoes
  <2>5. QED
    BY <1>1, <2>2, <2>3, <2>4, StaysInOrder
<1>4. CASE InvalidateRuntime(c)
  <2>1. call[c].pc = "invalidate" /\ Goto(c, "stop") /\ UNCHANGED <<runMu, generation, sms, retries>>
    BY <1>4 DEF InvalidateRuntime, At, controlVars, worldVars
  <2>2. slot'.inst = slot.inst
    BY <1>1, <1>4, InvalidateSlot DEF InvalidateRuntime
  <2>3. "stop" \in Labels
    BY DEF Labels
  <2>4. Goes(c, "stop")
    BY <1>1, <2>1, <2>3, GotoGoes
  <2>5. QED
    BY <1>1, <2>1, <2>2, <2>3, <2>4, StaysInOrder
<1>5. CASE ReadInstance(c)
  <2>1. call[c].pc = "stop" /\ slot' = slot /\ UNCHANGED <<runMu, generation, sms, retries>>
    BY <1>5 DEF ReadInstance, At, storeVars, controlVars, worldVars
  <2>2. CASE slot.inst = None
    <3>1. PICK l : l = AfterStop(call[c].kind, FALSE) /\ Goto(c, l)
      BY <1>5, <2>2 DEF ReadInstance
    <3>2. l \in {"sms", "wait", "finish"} /\ (call[c].kind = "disable" => l = "sms")
      BY <1>1, <3>1 DEF AfterStop, AfterTeardown
    <3>3. l \in Labels
      BY <3>2 DEF Labels
    <3>4. Goes(c, l)
      BY <1>1, <3>1, <3>3, GotoGoes
    <3>5. QED
      BY <1>1, <2>1, <2>2, <3>2, <3>3, <3>4, StaysInOrder
  <2>3. CASE slot.inst # None
    <3>1. call' = [call EXCEPT ![c].pc = "halt", ![c].target = slot.inst]
      BY <1>5, <2>3 DEF ReadInstance
    <3>2. Goes(c, "halt") /\ call'[c].target = slot.inst
      BY <1>1, <3>1 DEF Goes, TypeOK, CallStates
    <3>3. "halt" \in Labels
      BY DEF Labels
    <3>4. QED
      BY <1>1, <2>1, <2>3, <3>2, <3>3, StaysInOrder
  <2>4. QED
    BY <2>2, <2>3
<1>6. CASE StopInstance(c)
  <2>1. /\ call[c].pc = "halt" /\ Goto(c, "delete") /\ slot' = slot
        /\ UNCHANGED <<runMu, generation, sms, retries>>
    BY <1>6 DEF StopInstance, At, controlVars, worldVars
  <2>2. "delete" \in Labels
    BY DEF Labels
  <2>3. Goes(c, "delete") /\ call'[c].target = call[c].target
    BY <1>1, <2>1, <2>2, GotoGoes
  <2>4. slot.inst # None /\ slot.inst = call[c].target
    BY <2>1 DEF InOrder, Modes
  <2>5. QED
    BY <1>1, <2>1, <2>2, <2>3, <2>4, StaysInOrder
<1>7. CASE WaitReady(c)
  <2>1. PICK l \in {"check", "finish"} : Goto(c, l)
    BY <1>7 DEF WaitReady
  <2>2. call[c].pc = "wait" /\ slot' = slot /\ UNCHANGED <<runMu, generation, sms, retries>>
    BY <1>7 DEF WaitReady, At, storeVars, controlVars, worldVars
  <2>3. l \in Labels
    BY DEF Labels
  <2>4. Goes(c, l)
    BY <1>1, <2>1, <2>3, GotoGoes
  <2>5. QED
    BY <1>1, <2>2, <2>3, <2>4, StaysInOrder
<1>8. QED
  BY <1>2, <1>3, <1>4, <1>5, <1>6, <1>7

\* The steps of a start before its claim, and after it but for the SMS mode.
LEMMA StartInOrder ==
  ASSUME Inv, InOrder, NEW c \in Calls,
         \/ CheckSwitching(c) \/ BeginStart(c) \/ PrepareStart(c) \/ BeforeStart(c) \/ Connect(c)
         \/ StopStale(c) \/ ClearAfterStart(c) \/ HandleStartupError(c) \/ FailStart(c)
  PROVE  InOrder'
<1> USE DEF OutOfLine, DisableLabels
<1>1. TypeOK /\ (call[c].kind = "disable" => call[c].pc \in DisableLabels)
  BY DEF Inv, InOrder, Numbers
<1>2. CASE BeginStart(c)
  <2>1. call[c].pc = "begin" /\ UNCHANGED <<runMu, generation, sms, retries>>
    BY <1>2 DEF BeginStart, At, controlVars, worldVars
  <2>2. CASE slot.inst # None \/ slot.starting
    <3>1. Goto(c, "finish") /\ slot' = slot /\ "finish" \in Labels
      BY <1>2, <2>2 DEF BeginStart, Labels
    <3>2. Goes(c, "finish")
      BY <1>1, <3>1, GotoGoes
    <3>3. QED
      BY <1>1, <2>1, <3>1, <3>2, StaysInOrder
  <2>3. CASE ~(slot.inst # None \/ slot.starting)
    <3>1. /\ slot' = [slot EXCEPT !.starting = TRUE, !.err = FALSE]
          /\ call' = [call EXCEPT ![c].pc = "prepare", ![c].epoch = slot.epoch]
          /\ "prepare" \in Labels
      BY <1>2, <2>3 DEF BeginStart, Labels, StartPhase
    <3>2. Goes(c, "prepare")
      BY <1>1, <3>1 DEF Goes, TypeOK, CallStates
    <3>3. slot'.inst = slot.inst
      BY <1>1, <3>1 DEF TypeOK, Slots
    <3>4. QED
      BY <1>1, <2>1, <3>1, <3>2, <3>3, StaysInOrder
  <2>4. QED
    BY <2>2, <2>3
<1>3. ASSUME ~BeginStart(c)
      PROVE  InOrder'
  <2>1. PICK l \in {"begin", "finish", "before", "fail", "connect", "error", "claim", "clear", "mark"} :
          /\ Goto(c, l)
          /\ l = "mark" => call[c].pc = "started"
    BY <1>3 DEF CheckSwitching, PrepareStart, BeforeStart, Connect, StopStale, ClearAfterStart,
                HandleStartupError, FailStart, At
  <2>2. call[c].pc \in {"check", "prepare", "before", "connect", "stale", "clear", "started", "error", "fail"}
    BY <1>3 DEF CheckSwitching, PrepareStart, BeforeStart, Connect, StopStale, ClearAfterStart,
                HandleStartupError, FailStart, At
  <2>3. call[c].pc = "started" => l = "mark"
    <3>1. ASSUME call[c].pc = "started" PROVE ClearAfterStart(c) /\ ~At(c, "clear")
      BY <1>3, <3>1 DEF CheckSwitching, PrepareStart, BeforeStart, Connect, StopStale,
                        HandleStartupError, FailStart, At
    <3>2. ASSUME call[c].pc = "started" PROVE Goto(c, "mark")
      BY <3>1, <3>2 DEF ClearAfterStart
    <3>3. l \in Labels /\ "mark" \in Labels
      BY DEF Labels, StartPhase
    <3>4. call'[c].pc = l
      BY <1>1, <2>1, <3>3, GotoGoes DEF Goes
    <3>5. ASSUME call[c].pc = "started" PROVE call'[c].pc = "mark"
      BY <1>1, <3>2, <3>3, <3>5, GotoGoes DEF Goes
    <3>6. QED
      BY <3>4, <3>5
  <2>4. UNCHANGED <<runMu, generation, sms>> /\ retries' \subseteq retries \cup {call[c].gen}
    <3>1. CASE HandleStartupError(c)
      BY <3>1 DEF HandleStartupError, controlVars
    <3>2. CASE ~HandleStartupError(c)
      BY <1>3, <3>2 DEF CheckSwitching, PrepareStart, BeforeStart, Connect, StopStale,
                        ClearAfterStart, FailStart, controlVars, worldVars
    <3>3. QED
      BY <3>1, <3>2
  <2>5. slot'.inst = slot.inst
    <3>1. CASE PrepareStart(c) \/ BeforeStart(c)
      BY <1>1, <3>1, RecordSlot DEF PrepareStart, BeforeStart
    <3>2. CASE ClearAfterStart(c) \/ HandleStartupError(c)
      BY <1>1, <3>2, ClearSlot DEF ClearAfterStart, HandleStartupError
    <3>3. CASE FailStart(c)
      BY <1>1, <3>3 DEF FailStart, TypeOK, Slots
    <3>4. CASE CheckSwitching(c) \/ Connect(c) \/ StopStale(c)
      BY <3>4 DEF CheckSwitching, Connect, StopStale, storeVars
    <3>5. QED
      BY <1>3, <3>1, <3>2, <3>3, <3>4
  <2>6. l \in Labels
    BY DEF Labels, StartPhase
  <2>7. Goes(c, l)
    BY <1>1, <2>1, <2>6, GotoGoes
  <2>8. l \in {"started", "mark"} => slot.inst = c
    BY <2>1 DEF InOrder, Modes
  <2>9. QED
    BY <1>1, <2>2, <2>3, <2>4, <2>5, <2>6, <2>7, <2>8, StaysInOrder
<1>4. QED
  BY <1>2, <1>3

\* Only one call enters the line at a time, and under the last number.
LEMMA AdmitInOrder ==
  ASSUME Inv, InOrder, NEW c \in Calls, Admit(c) \/ Preempt(c)
  PROVE  InOrder'
<1> USE DEF OutOfLine, DisableLabels
<1>1. TypeOK /\ call[c].gen \in Nat /\ generation \in Nat /\ call[c].gen <= generation
  BY DEF Inv, InOrder, Numbers, TypeOK, CallStates
<1>2. Admit(c)
  BY NoneAssumption DEF Preempt, InOrder, InLine, Preempting, AllKinds
<1>3. PICK l \in {"done", "number"} :
        /\ Goto(c, l)
        /\ l = "number" => runMu' = c /\ ~Stale(c)
        /\ l = "done" => runMu' = runMu
  BY <1>2 DEF Admit
<1>4. /\ call[c].pc = "submit" /\ runMu = None /\ l \in Labels
      /\ UNCHANGED <<slot, generation, sms, retries>>
  BY <1>2 DEF Admit, At, Labels, storeVars, worldVars
<1>5. /\ call'[c].pc = l /\ call'[c].kind = call[c].kind /\ call'[c].gen = call[c].gen
      /\ \A d \in Calls \ {c} : call'[d] = call[d]
  BY <1>1, <1>3, <1>4, GotoGoes DEF Goes
<1>6. \A d \in Calls : call[d].pc \in OutOfLine
  BY <1>4, NoneAssumption DEF InOrder, InLine
<1>7. InLine'
  BY <1>3, <1>5, <1>6 DEF InOrder, InLine
<1>8. Modes'
  <2>1. slot.inst \in Calls \cup {None}
    BY <1>1 DEF TypeOK, Slots
  <2>2. QED
    BY <1>4, <1>5, <1>6, <2>1 DEF InOrder, Modes, At
<1>9. Numbers'
  <2>1. l = "number" => call[c].gen \in {0, generation}
    BY <1>1, <1>3 DEF Stale
  <2>2. \A d \in Calls : call'[d].kind = call[d].kind /\ call'[d].gen = call[d].gen
    BY <1>5
  <2>3. ASSUME NEW d \in Calls
        PROVE  /\ call'[d].kind = "disable" => call'[d].pc \in DisableLabels
               /\ At(d, "number")' => call'[d].gen \in {0, generation'}
               /\ call'[d].pc \notin OutOfLine \cup {"number"} => FALSE
    BY <1>4, <1>5, <1>6, <2>1 DEF At, InOrder, Numbers
  <2>4. QED
    BY <1>4, <2>2, <2>3 DEF InOrder, Numbers
<1>10. QED
  BY <1>7, <1>8, <1>9 DEF InOrder

\* A call takes the next number, unless it is a retry, which has the last one.
LEMMA NumberInOrder ==
  ASSUME Inv, InOrder, NEW c \in Calls, Number(c)
  PROVE  InOrder'
<1> USE DEF OutOfLine, DisableLabels
<1>1. /\ TypeOK /\ call[c].gen \in Nat /\ generation \in Nat /\ call[c].gen \in {0, generation}
      /\ \A d \in Calls : call[d].gen \in Nat /\ call[d].gen <= generation
      /\ retries \subseteq 1..generation
  BY DEF Inv, InOrder, Numbers, TypeOK, CallStates, Number
<1>2. call[c].pc = "number" /\ UNCHANGED <<slot, runMu, sms, retries>>
  BY DEF Number, At, storeVars, worldVars
<1>3. call[c].kind \notin Preempting
  BY NoneAssumption DEF InOrder, InLine, Preempting, AllKinds
<1>4. runMu = c /\ \A d \in Calls \ {c} : call[d].pc \in OutOfLine
  BY <1>1, <1>2, Solo DEF InOrder
<1>5. PICK g \in Nat :
        /\ call'[c].pc = "bind" /\ call'[c].kind = call[c].kind /\ call'[c].gen = g
        /\ \A d \in Calls \ {c} : call'[d] = call[d]
        /\ generation' = g /\ g > 0
        /\ \/ g = call[c].gen /\ g = generation
           \/ g = generation + 1
  <2>1. CASE call[c].gen # 0
    <3>1. Goto(c, "bind") /\ generation' = generation /\ "bind" \in Labels
      BY <1>3, <2>1 DEF Number, Labels
    <3>2. Goes(c, "bind")
      BY <1>1, <3>1, GotoGoes
    <3>3. QED
      BY <1>1, <2>1, <3>1, <3>2 DEF Goes
  <2>2. CASE call[c].gen = 0
    <3>1. /\ generation' = generation + 1
          /\ call' = [call EXCEPT ![c].pc = "bind", ![c].gen = generation + 1]
      BY <1>3, <2>2 DEF Number
    <3>2. /\ call'[c].pc = "bind" /\ call'[c].kind = call[c].kind /\ call'[c].gen = generation + 1
          /\ \A d \in Calls \ {c} : call'[d] = call[d]
      BY <1>1, <3>1 DEF TypeOK, CallStates
    <3>3. generation + 1 \in Nat /\ generation + 1 > 0
      BY <1>1
    <3>4. QED
      BY <3>1, <3>2, <3>3
  <2>3. QED
    BY <2>1, <2>2
<1>6. InLine'
  BY <1>2, <1>4, <1>5 DEF InOrder, InLine
<1>7. Modes'
  <2>1. slot.inst \in Calls \cup {None}
    BY <1>1 DEF TypeOK, Slots
  <2>2. QED
    BY <1>2, <1>4, <1>5, <2>1 DEF InOrder, Modes, At
<1>8. Numbers'
  <2>1. retries' \subseteq 1..generation' /\ \A d \in Calls : call'[d].gen <= generation'
    BY <1>1, <1>2, <1>5
  <2>2. ASSUME NEW d \in Calls
        PROVE  /\ call'[d].kind = "disable" => call'[d].pc \in DisableLabels
               /\ At(d, "number")' => FALSE
               /\ call'[d].pc \notin OutOfLine \cup {"number"} =>
                    call'[d].gen = generation' /\ generation' > 0
    <3>1. CASE d = c
      BY <1>5, <3>1 DEF At
    <3>2. CASE d # c
      BY <1>4, <1>5, <3>2 DEF At, InOrder, Numbers
    <3>3. QED
      BY <3>1, <3>2
  <2>3. ASSUME NEW d \in Calls, call'[d].kind = "disable", call'[d].gen # 0
        PROVE  call'[d].gen \notin retries'
    <3>1. CASE d = c /\ g = generation + 1
      BY <1>1, <1>2, <1>5, <3>1
    <3>2. CASE call'[d].gen = call[d].gen
      BY <1>2, <1>5, <2>3, <3>2 DEF InOrder, Numbers
    <3>3. QED
      BY <1>5, <3>1, <3>2
  <2>4. ASSUME NEW d \in Calls, call'[d].kind = "disable", call'[d].gen # 0,
               NEW e \in Calls, call'[e].kind # "disable"
        PROVE  call'[e].gen # call'[d].gen
    <3>1. call[d].kind = "disable" /\ call[e].kind # "disable" /\ d # e
      BY <1>5, <2>4
    <3>2. CASE c \in {d, e} /\ g = generation + 1
      BY <1>1, <1>5, <3>1, <3>2
    <3>3. CASE call'[d].gen = call[d].gen /\ call'[e].gen = call[e].gen
      BY <2>4, <3>1, <3>3 DEF InOrder, Numbers
    <3>4. QED
      BY <1>5, <3>2, <3>3
  <2>5. QED
    BY <2>1, <2>2, <2>3, <2>4 DEF Numbers
<1>9. QED
  BY <1>6, <1>7, <1>8 DEF InOrder

\* A call returns, and leaves the line.
LEMMA FinishInOrder ==
  ASSUME Inv, InOrder, NEW c \in Calls, Finish(c)
  PROVE  InOrder'
<1> USE DEF OutOfLine, DisableLabels
<1>1. TypeOK /\ "done" \in Labels /\ Goto(c, "done") /\ call[c].pc = "finish"
      /\ UNCHANGED <<slot, generation, sms, retries>>
  BY DEF Inv, Finish, Labels, At, storeVars
<1>2. /\ call'[c].pc = "done" /\ call'[c].kind = call[c].kind /\ call'[c].gen = call[c].gen
      /\ \A d \in Calls \ {c} : call'[d] = call[d]
  BY <1>1, GotoGoes DEF Goes
<1>3. \A d \in Calls : call'[d].pc \in OutOfLine
  BY <1>1, <1>2, Solo DEF InOrder
<1>4. \A d \in Calls : call'[d].kind = call[d].kind /\ call'[d].gen = call[d].gen
  BY <1>2
<1>5. InLine'
  BY <1>3, <1>4 DEF InOrder, InLine
<1>6. slot.inst \in Calls \cup {None}
  BY <1>1 DEF TypeOK, Slots
<1>7. Modes'
  BY <1>1, <1>2, <1>3, <1>6 DEF InOrder, Modes, At
<1>8. ASSUME NEW d \in Calls
      PROVE  /\ call'[d].pc \in DisableLabels
             /\ call'[d].gen <= generation'
             /\ call'[d].pc # "number"
             /\ call'[d].pc \notin OutOfLine \cup {"number"} => FALSE
  BY <1>1, <1>3, <1>4 DEF InOrder, Numbers
<1>9. Numbers'
  BY <1>1, <1>4, <1>8 DEF InOrder, Numbers, At
<1>10. QED
  BY <1>5, <1>7, <1>9 DEF InOrder

\* A teardown deletes the instance it stopped, and goes on to the SMS mode.
LEMMA DeleteInOrder ==
  ASSUME Inv, InOrder, NEW c \in Calls, DeleteInstance(c)
  PROVE  InOrder'
<1> USE DEF OutOfLine, DisableLabels
<1>1. TypeOK /\ call[c].pc = "delete" /\ "sms" \in Labels
      /\ UNCHANGED <<runMu, generation, sms, retries>>
  BY DEF Inv, DeleteInstance, Labels, At, controlVars, worldVars
<1>2. AfterStop(call[c].kind, TRUE) = "sms"
  BY NoneAssumption DEF InOrder, InLine, AfterStop, AllKinds
<1>3. call' = [call EXCEPT ![c].pc = "sms", ![c].target = None]
  BY <1>2 DEF DeleteInstance
<1>4. Goes(c, "sms")
  BY <1>1, <1>3 DEF Goes, TypeOK, CallStates
<1>5. InLine' /\ Numbers'
  BY <1>1, <1>4, StaysInLine
<1>6. slot'.inst = None
  BY <1>1 DEF InOrder, Modes, DeleteInstance, EmptySlot
<1>7. Modes'
  <2>1. call'[c].pc = "sms" /\ \A d \in Calls \ {c} : call'[d].pc \in OutOfLine
    BY <1>1, <1>4, Solo DEF InOrder, Goes
  <2>2. QED
    BY <1>6, <2>1 DEF Modes, At
<1>8. QED
  BY <1>5, <1>7 DEF InOrder

\* The SMS mode is the modem's again, and there is no instance.
LEMMA RestoreInOrder ==
  ASSUME Inv, InOrder, NEW c \in Calls, RestoreSMSMode(c)
  PROVE  InOrder'
<1> USE DEF OutOfLine, DisableLabels
<1>1. TypeOK /\ call[c].pc = "sms" /\ sms' = "modem"
      /\ UNCHANGED <<slot, runMu, generation, retries>>
  BY DEF Inv, RestoreSMSMode, At, storeVars, controlVars
<1>2. PICK l \in Labels : /\ Goto(c, l) /\ l \in {"wait", "finish"}
                          /\ call[c].kind = "disable" => l = "finish"
  BY DEF RestoreSMSMode, AfterTeardown, Labels
<1>3. Goes(c, l)
  BY <1>1, <1>2, GotoGoes
<1>4. InLine' /\ Numbers'
  BY <1>1, <1>2, <1>3, StaysInLine
<1>5. Modes'
  <2>1. call'[c].pc = l /\ \A d \in Calls \ {c} : call'[d].pc \in OutOfLine
    BY <1>1, <1>3, Solo DEF InOrder, Goes
  <2>2. slot.inst = None
    BY <1>1 DEF InOrder, Modes, At
  <2>3. QED
    BY <1>1, <1>2, <2>1, <2>2 DEF Modes, At
<1>6. QED
  BY <1>4, <1>5 DEF InOrder

\* A start claims the empty slot, and has the SMS mode to set.
LEMMA ClaimInOrder ==
  ASSUME Inv, InOrder, NEW c \in Calls, ClaimStarted(c)
  PROVE  InOrder'
<1> USE DEF OutOfLine, DisableLabels
<1>1. TypeOK /\ call[c].pc = "claim" /\ call[c].kind # "disable"
      /\ UNCHANGED <<runMu, generation, sms, retries>>
  BY DEF Inv, ClaimStarted, At, controlVars, worldVars, InOrder, Numbers
<1>2. CASE slot.epoch = call[c].epoch /\ slot.inst = None
  <2>1. Goto(c, "started") /\ slot'.inst = c /\ "started" \in Labels
    BY <1>2 DEF ClaimStarted, EmptySlot, Labels
  <2>2. Goes(c, "started")
    BY <1>1, <2>1, GotoGoes
  <2>3. InLine' /\ Numbers'
    BY <1>1, <2>1, <2>2, StaysInLine
  <2>4. call'[c].pc = "started" /\ \A d \in Calls \ {c} : call'[d].pc \in OutOfLine
    BY <1>1, <2>2, Solo DEF InOrder, Goes
  <2>5. Modes'
    BY <2>1, <2>4, NoneAssumption DEF Modes, At
  <2>6. QED
    BY <2>3, <2>5 DEF InOrder
<1>3. CASE ~(slot.epoch = call[c].epoch /\ slot.inst = None)
  <2>1. Goto(c, "stale") /\ slot' = slot /\ "stale" \in Labels
    BY <1>3 DEF ClaimStarted, Labels
  <2>2. Goes(c, "stale")
    BY <1>1, <2>1, GotoGoes
  <2>3. QED
    BY <1>1, <2>1, <2>2, StaysInOrder
<1>4. QED
  BY <1>2, <1>3

\* A start that made it sets the SMS mode to its instance.
LEMMA MarkInOrder ==
  ASSUME Inv, InOrder, NEW c \in Calls, MarkRuntimeStarted(c)
  PROVE  InOrder'
<1> USE DEF OutOfLine, DisableLabels
<1>1. TypeOK /\ call[c].pc = "mark" /\ call[c].kind # "disable" /\ sms' = "vowifi"
      /\ UNCHANGED <<slot, runMu, generation, retries>>
      /\ Goto(c, "finish") /\ "finish" \in Labels
  BY DEF Inv, MarkRuntimeStarted, At, storeVars, controlVars, InOrder, Numbers, Labels
<1>2. Goes(c, "finish")
  BY <1>1, GotoGoes
<1>3. InLine' /\ Numbers'
  BY <1>1, <1>2, StaysInLine
<1>4. call'[c].pc = "finish" /\ \A d \in Calls \ {c} : call'[d].pc \in OutOfLine
  BY <1>1, <1>2, Solo DEF InOrder, Goes
<1>5. slot.inst = c
  BY <1>1 DEF InOrder, Modes
<1>6. Modes'
  BY <1>1, <1>4, <1>5, NoneAssumption DEF Modes, At
<1>7. QED
  BY <1>3, <1>6 DEF InOrder

\* Nobody preempts, so nobody cancels.
LEMMA CancelInOrder ==
  ASSUME Inv, InOrder, NEW c \in Calls, CancelActiveRun(c)
  PROVE  InOrder'
<1> USE DEF OutOfLine, DisableLabels
<1>1. TypeOK /\ call[c].pc = "cancel" /\ call[c].kind # "disable"
      /\ UNCHANGED <<slot, runMu, generation, sms, retries>>
      /\ Goto(c, "bind") /\ "bind" \in Labels
  BY DEF Inv, CancelActiveRun, At, storeVars, worldVars, InOrder, Numbers, Labels
<1>2. Goes(c, "bind")
  BY <1>1, GotoGoes
<1>3. QED
  BY <1>1, <1>2, StaysInOrder

\* Every step of a call keeps the order.
LEMMA StepInOrder ==
  ASSUME Inv, InOrder, NEW c \in Calls, Step(c)
  PROVE  InOrder'
BY AdmitInOrder, NumberInOrder, CancelInOrder, FinishInOrder, PlainInOrder, DeleteInOrder,
   RestoreInOrder, StartInOrder, ClaimInOrder, MarkInOrder DEF Step

-----------------------------------------------------------------------------
(* The record, the user and the card. *)

\* The types of what the policy's side keeps.
DesiredTypes ==
    /\ policy \in BOOLEAN /\ sim \in BOOLEAN
    /\ desired \in [inFlight : BOOLEAN, waiting : BOOLEAN]
    /\ inHand \subseteq Recoveries /\ failed \subseteq Calls
    /\ failures \in 0..MaxFailures /\ cardEvents \in 0..MaxCardEvents
    /\ {chosen, simTimer, confirming, cleared, slipped, unheard} \subseteq BOOLEAN

\* RecordTruthful, with the recoveries in hand spelled out.
Filed ==
    /\ desired.inFlight => inHand # {}
    /\ ~cleared => /\ inHand = {} \/ \E c \in Recoveries : inHand = {c}
                   /\ inHand # {} => desired.inFlight

DesiredInv == Inv /\ InOrder /\ DesiredTypes /\ Filed

\* A call that is over takes another command, or forgets the one it had.
LEMMA Renewed ==
  ASSUME Inv, InOrder, NEW c \in Calls, NEW r \in CallStates,
         call[c].pc \in {"idle", "done"},
         call' = [call EXCEPT ![c] = r],
         r.target = None, r.pc \in {"submit", "done"},
         r.kind \in {None, "enable", "disable", "recover", "retry"},
         r.gen = 0 \/ (r.kind = "retry" /\ r.gen \in retries),
         r.pc = "done" \/ (slot.inst # c /\ \A d \in Calls : call[d].target # c),
         slot' \in Slots, slot'.inst = slot.inst, ~slot'.starting \/ slot' = slot,
         live' = live, overtaken' \subseteq Calls, cancelled' \subseteq cancelled,
         UNCHANGED <<runMu, generation, runCancel, switch, sms>>, retries' \subseteq retries
  PROVE  Inv' /\ InOrder'
<1>1. /\ TypeOK /\ call' \in [Calls -> CallStates] /\ call'[c] = r
      /\ \A d \in Calls \ {c} : call'[d] = call[d]
      /\ slot.inst \in Calls \cup {None} /\ generation \in Nat
  BY DEF Inv, TypeOK, Slots
<1>2. \A d \in Calls : call[d].target \in Calls \cup {None}
  BY <1>1 DEF TypeOK, CallStates
<1>3. ControlOK'
  BY <1>1 DEF TypeOK, ControlOK
<1>4. TunnelsAccounted'
  <2>1. ASSUME NEW i \in live PROVE slot'.inst = i \/ call'[i].pc \in {"claim", "stale"}
    <3>1. slot.inst = i \/ call[i].pc \in {"claim", "stale"}
      BY DEF Inv, Safe, TunnelsAccounted
    <3>2. i \in Calls
      BY <1>1 DEF TypeOK
    <3>3. QED
      BY <1>1, <3>1, <3>2
  <2>2. ASSUME slot.inst \notin live \cup {None}
        PROVE  \E d \in Calls : At(d, "delete")' /\ call'[d].target = slot.inst
    <3>1. PICK d \in Calls : At(d, "delete") /\ call[d].target = slot.inst
      BY <2>2 DEF Inv, Safe, TunnelsAccounted
    <3>2. d # c
      BY <3>1 DEF At
    <3>3. QED
      BY <1>1, <3>1, <3>2 DEF At
  <2>3. QED
    BY <2>1, <2>2 DEF TunnelsAccounted
<1>5. StartingHasOwner'
  <2>1. ASSUME slot'.starting
        PROVE  \E d \in Calls : call'[d].pc \in StartPhase /\ call'[d].epoch = slot'.epoch
    <3>1. PICK d \in Calls : call[d].pc \in StartPhase /\ call[d].epoch = slot.epoch
      BY <2>1 DEF Inv, Safe, StartingHasOwner
    <3>2. d # c
      BY <3>1 DEF StartPhase
    <3>3. QED
      BY <1>1, <2>1, <3>1, <3>2
  <2>2. QED
    BY <2>1 DEF StartingHasOwner
<1>6. HandsClean'
  <2>1. slot'.inst # None => call'[slot'.inst].pc \in PastClaim /\ ~slot'.starting
    BY <1>1, NoneAssumption DEF Inv, Safe, HandsClean, PastClaim
  <2>2. ASSUME NEW d \in Calls, call'[d].target # None
        PROVE  call'[call'[d].target].pc \in PastClaim
    <3>1. d # c /\ call'[d].target = call[d].target
      BY <1>1, <2>2
    <3>2. call[call[d].target].pc \in PastClaim /\ call[d].target \in Calls
      BY <1>2, <2>2, <3>1 DEF Inv, Safe, HandsClean
    <3>3. QED
      BY <1>1, <3>1, <3>2 DEF PastClaim
  <2>3. ASSUME NEW d \in Calls
        PROVE  /\ At(d, "delete")' => call'[d].target \notin live'
               /\ At(d, "claim")' => d \in live'
    BY <1>1 DEF At, Inv, Safe, HandsClean
  <2>4. QED
    BY <2>1, <2>2, <2>3 DEF HandsClean
<1>7. Inv'
  <2>1. live' \subseteq Calls
    BY <1>1 DEF TypeOK
  <2>2. QED
    BY <2>1, <1>1, <1>3, <1>4, <1>5, <1>6, Parts DEF Safe
<1>8. InLine'
  BY <1>1 DEF InOrder, InLine, OutOfLine
<1>9. Modes'
  <2>1. ASSUME slot'.inst # None, sms' = "modem" PROVE call'[slot'.inst].pc \in {"started", "mark"}
    BY <1>1, <2>1 DEF InOrder, Modes
  <2>2. ASSUME slot'.inst = None, sms' = "vowifi" PROVE \E d \in Calls : At(d, "sms")'
    <3>1. PICK d \in Calls : At(d, "sms")
      BY <2>2 DEF InOrder, Modes
    <3>2. QED
      BY <1>1, <3>1 DEF At
  <2>3. ASSUME NEW d \in Calls
        PROVE  /\ At(d, "sms")' => slot'.inst = None
               /\ call'[d].pc \in {"started", "mark"} => slot'.inst = d
               /\ call'[d].pc \in {"halt", "delete"} =>
                      slot'.inst # None /\ slot'.inst = call'[d].target
    BY <1>1 DEF At, InOrder, Modes
  <2>4. QED
    BY <2>1, <2>2, <2>3 DEF Modes
<1>10. Numbers'
  <2>1. retries \subseteq 1..generation /\ r.gen <= generation
    <3>1. retries \subseteq 1..generation
      BY DEF InOrder, Numbers
    <3>2. ASSUME r.gen = 0 PROVE r.gen <= generation
      BY <1>1, <3>2
    <3>3. ASSUME r.gen \in retries PROVE r.gen <= generation
      <4>1. \A g \in 1..generation : g <= generation
        BY <1>1
      <4>2. r.gen \in 1..generation
        BY <3>1, <3>3
      <4>3. QED
        BY <4>1, <4>2, Zenon
    <3>4. QED
      BY <3>1, <3>2, <3>3
  <2>2. ASSUME NEW d \in Calls
        PROVE  /\ call'[d].gen <= generation
               /\ At(d, "number")' => call'[d].gen \in {0, generation}
               /\ call'[d].pc \notin OutOfLine \cup {"number"} =>
                      call'[d].gen = generation /\ generation > 0
               /\ call'[d].kind = "disable" => call'[d].pc \in DisableLabels
    <3>1. CASE d = c
      BY <1>1, <2>1, <3>1 DEF At, OutOfLine, DisableLabels
    <3>2. CASE d # c
      BY <1>1, <3>2 DEF At, InOrder, Numbers
    <3>3. QED
      BY <3>1, <3>2
  <2>3. ASSUME NEW d \in Calls, call'[d].kind = "disable", call'[d].gen # 0
        PROVE  /\ call'[d].gen \notin retries'
               /\ \A e \in Calls : call'[e].kind # "disable" => call'[e].gen # call'[d].gen
    <3>1. d # c
      BY <1>1, <2>3
    <3>2. call'[d] = call[d]
      BY <1>1, <3>1
    <3>3. /\ call[d].gen \notin retries
          /\ \A e \in Calls : call[e].kind # "disable" => call[e].gen # call[d].gen
      BY <2>3, <3>2 DEF InOrder, Numbers
    <3>4. call'[d].gen # r.gen
      BY <2>3, <3>2, <3>3
    <3>5. QED
      BY <1>1, <3>2, <3>3, <3>4
  <2>4. QED
    BY <2>1, <2>2, <2>3 DEF Numbers
<1>11. QED
  BY <1>7, <1>8, <1>9, <1>10 DEF InOrder

\* Launch is such a renewal, beside a store that is left alone or invalidated.
LEMMA LaunchKeeps ==
  ASSUME Inv, InOrder, NEW c \in Calls, NEW k \in {"enable", "disable", "recover", "retry"},
         NEW g, Launch(c, k, g), g = 0 \/ (k = "retry" /\ g \in retries),
         UNCHANGED storeVars \/ Invalidate, retries' \subseteq retries
  PROVE  Inv' /\ InOrder'
<1> DEFINE r == [Idle EXCEPT !.pc = "submit", !.kind = k, !.gen = g]
<1>1. g \in Nat /\ TypeOK
  <2>1. TypeOK /\ retries \subseteq Nat
    BY DEF Inv, TypeOK
  <2>2. ASSUME g \in retries PROVE g \in Nat
    BY <2>1, <2>2
  <2>3. QED
    BY <2>1, <2>2
<1>2. /\ r \in CallStates /\ r.target = None /\ r.pc = "submit" /\ r.kind = k /\ r.gen = g
  BY <1>1 DEF Idle, CallStates, Labels, AllKinds
<1>3. call' = [call EXCEPT ![c] = r]
  BY DEF Launch
<1> HIDE DEF r
<1>4. /\ call[c].pc \in {"idle", "done"} /\ slot.inst # c /\ \A d \in Calls : call[d].target # c
      /\ UNCHANGED <<runMu, generation, runCancel, switch, sms>> /\ cancelled' \subseteq cancelled
  BY DEF Launch, Free, At
<1>5. /\ slot' \in Slots /\ slot'.inst = slot.inst
      /\ ~slot'.starting \/ slot' = slot
      /\ live' = live /\ overtaken' \subseteq Calls
  <2>1. CASE UNCHANGED storeVars
    BY <1>1, <2>1 DEF TypeOK, storeVars
  <2>2. CASE Invalidate
    BY <1>1, <2>2, InvalidateSlot
  <2>3. QED
    BY <2>1, <2>2
<1>6. QED
  BY <1>2, <1>3, <1>4, <1>5, Renewed

\* A step that leaves the host alone.
LEMMA HostKept ==
  ASSUME Inv, InOrder, UNCHANGED vars
  PROVE  Inv' /\ InOrder'
<1>1. TypeOK' /\ Safe'
  BY DEF Inv, TypeOK, Safe, TunnelsAccounted, StartingHasOwner, HandsClean, At, vars
<1>2. InOrder'
  BY DEF InOrder, InLine, Modes, Numbers, At, vars
<1>3. QED
  BY <1>1, <1>2 DEF Inv

\* An observer touches the startup state alone.
LEMMA ObserveInOrder ==
  ASSUME Inv, InOrder, NEW c \in Calls, Observe(c)
  PROVE  Inv' /\ InOrder'
<1>1. Inv'
  BY ObserveStep
<1>2. slot'.inst = slot.inst /\ UNCHANGED <<call, runMu, generation, sms, retries>>
  BY RecordSlot DEF Observe, Inv, controlVars, worldVars
<1>3. InOrder'
  BY <1>2 DEF InOrder, InLine, Modes, Numbers, At
<1>4. QED
  BY <1>1, <1>3

\* A record that is not touched, with the same recoveries in hand, stays truthful.
LEMMA FiledKept ==
  ASSUME Filed, desired'.inFlight = desired.inFlight, UNCHANGED <<inHand, cleared>>
  PROVE  Filed'
  BY DEF Filed

\* Clear leaves nothing in flight, and says whether a recovery was in hand.
LEMMA ClearFiles ==
  ASSUME DesiredTypes, Clear(inHand')
  PROVE  Filed' /\ desired' \in [inFlight : BOOLEAN, waiting : BOOLEAN] /\ cleared' \in BOOLEAN
<1>1. desired' = NoRecord /\ cleared' = (inHand' # {})
  BY DEF Clear
<1>2. cleared' \in BOOLEAN
  BY <1>1, Zenon
<1>3. Filed' /\ desired' \in [inFlight : BOOLEAN, waiting : BOOLEAN]
  BY <1>1 DEF Filed, NoRecord
<1>4. QED
  BY <1>2, <1>3

\* A step of a call changes neither the record nor the card.
LEMMA HostStepKeeps ==
  ASSUME DesiredInv, NEW c \in Calls, HostStep(c)
  PROVE  DesiredInv'
<1>1. Inv' /\ InOrder'
  BY StepKeepsInv, StepInOrder DEF DesiredInv, HostStep
<1>2. UNCHANGED <<policy, sim, desired, inHand, cardEvents, chosen, simTimer, confirming,
                  cleared, slipped, unheard>>
  BY DEF HostStep, cardVars, recordVars
<1>3. Filed'
  BY <1>2, FiledKept DEF DesiredInv
<1>4. failures' \in 0..MaxFailures
  <2>1. failures \in 0..MaxFailures /\ MaxFailures \in Nat
    BY BoundsAssumption DEF DesiredInv, DesiredTypes
  <2>2. failures' = failures \/ (failures < MaxFailures /\ failures' = failures + 1)
    BY DEF HostStep
  <2>3. QED
    BY <2>1, <2>2
<1>5. failed' \subseteq Calls
  <2>1. failed \subseteq Calls
    BY DEF DesiredInv, DesiredTypes
  <2>2. failed' = failed \cup {c} \/ failed' = failed
    BY DEF HostStep
  <2>3. QED
    BY <2>1, <2>2
<1>6. DesiredTypes'
  BY <1>2, <1>4, <1>5 DEF DesiredInv, DesiredTypes
<1>7. QED
  BY <1>1, <1>3, <1>6 DEF DesiredInv

\* The result of a recovery is filed, and the call forgets the command.
LEMMA OnResultKeeps ==
  ASSUME DesiredInv, NEW c \in Calls, OnResult(c)
  PROVE  DesiredInv'
<1> DEFINE r == [Idle EXCEPT !.pc = "done"]
<1>1. /\ r \in CallStates /\ r.target = None /\ r.pc = "done" /\ r.kind = None /\ r.gen = 0
  BY DEF Idle, CallStates, Labels
<1>2. call' = [call EXCEPT ![c] = r]
  BY DEF OnResult
<1> HIDE DEF r
<1>3. /\ call[c].pc = "done" /\ overtaken' \subseteq overtaken
      /\ UNCHANGED <<slot, live, runMu, generation, runCancel, cancelled, switch, sms, retries>>
  BY DEF OnResult, At, controlVars, worldVars
<1>4. /\ slot' \in Slots /\ overtaken' \subseteq Calls
  BY <1>3 DEF DesiredInv, Inv, TypeOK
<1>5. Inv' /\ InOrder'
  BY <1>1, <1>2, <1>3, <1>4, Renewed DEF DesiredInv
<1>6. /\ c \in inHand /\ inHand' = inHand \ {c} /\ failed' = failed \ {c}
      /\ UNCHANGED <<policy, sim, cardEvents, chosen, simTimer, confirming, failures,
                     slipped, unheard>>
  BY DEF OnResult, cardVars
<1>7. Filed' /\ desired' \in [inFlight : BOOLEAN, waiting : BOOLEAN] /\ cleared' \in BOOLEAN
  <2>1. CASE c \in failed
    <3>1. /\ desired' = [inFlight |-> FALSE, waiting |-> TRUE]
          /\ cleared' = (cleared /\ inHand' # {})
      BY <2>1 DEF OnResult, MarkFailed
    <3>2. cleared' \in BOOLEAN
      BY <3>1, Zenon
    <3>3. ~cleared => inHand' = {}
      BY <1>6 DEF DesiredInv, Filed
    <3>4. ~cleared' => inHand' = {}
      BY <3>1, <3>3, Zenon
    <3>5. Filed'
      BY <3>1, <3>4 DEF Filed
    <3>6. QED
      BY <3>1, <3>2, <3>5
  <2>2. CASE c \notin failed
    BY <2>2, ClearFiles DEF OnResult, DesiredInv
  <2>3. QED
    BY <2>1, <2>2
<1>8. DesiredTypes'
  BY <1>6, <1>7 DEF DesiredInv, DesiredTypes
<1>9. QED
  BY <1>5, <1>7, <1>8 DEF DesiredInv

\* A device is picked, or its record cleared: the host is left alone.
LEMMA PickKeeps ==
  ASSUME DesiredInv, Reconcile \/ ResolveAndApplyPolicy
  PROVE  DesiredInv'
<1>1. UNCHANGED vars /\ PickIfAllowed
      /\ UNCHANGED <<policy, sim, cardEvents, simTimer, confirming, inHand, failed, failures,
                     slipped, unheard>>
  BY DEF Reconcile, ResolveAndApplyPolicy, cardVars
<1>2. Inv' /\ InOrder'
  BY <1>1, HostKept DEF DesiredInv
<1>3. CASE policy
  <2>1. chosen' = TRUE /\ UNCHANGED <<desired, cleared>>
    BY <1>1, <1>3 DEF PickIfAllowed
  <2>2. Filed'
    BY <1>1, <2>1, FiledKept DEF DesiredInv
  <2>3. DesiredTypes'
    BY <1>1, <2>1 DEF DesiredInv, DesiredTypes
  <2>4. QED
    BY <1>2, <2>2, <2>3 DEF DesiredInv
<1>4. CASE ~policy
  <2>1. Clear(inHand') /\ chosen' = chosen
    BY <1>1, <1>4 DEF PickIfAllowed
  <2>2. Filed' /\ desired' \in [inFlight : BOOLEAN, waiting : BOOLEAN] /\ cleared' \in BOOLEAN
    BY <2>1, ClearFiles DEF DesiredInv
  <2>3. DesiredTypes'
    BY <1>1, <2>1, <2>2 DEF DesiredInv, DesiredTypes
  <2>4. QED
    BY <1>2, <2>2, <2>3 DEF DesiredInv
<1>5. QED
  BY <1>3, <1>4

\* The backoff passes, and leaves 'in flight' as it was.
LEMMA BackoffKeeps ==
  ASSUME DesiredInv, BackoffElapses
  PROVE  DesiredInv'
<1>1. /\ UNCHANGED vars /\ desired' = [desired EXCEPT !.waiting = FALSE]
      /\ UNCHANGED <<policy, sim, cardEvents, simTimer, confirming, inHand, failed, failures,
                     slipped, unheard, cleared, chosen>>
  BY DEF BackoffElapses, cardVars
<1>2. Inv' /\ InOrder'
  BY <1>1, HostKept DEF DesiredInv
<1>3. desired' \in [inFlight : BOOLEAN, waiting : BOOLEAN] /\ desired'.inFlight = desired.inFlight
  BY <1>1 DEF DesiredInv, DesiredTypes
<1>4. Filed'
  BY <1>1, <1>3, FiledKept DEF DesiredInv
<1>5. DesiredTypes'
  BY <1>1, <1>3 DEF DesiredInv, DesiredTypes
<1>6. QED
  BY <1>2, <1>4, <1>5 DEF DesiredInv

\* A recovery that is counted among the failures keeps to their bound.
LEMMA SparedCounts ==
  ASSUME DesiredTypes, Spare, CountSpared
  PROVE  failures' \in 0..MaxFailures
<1>1. failures \in 0..MaxFailures /\ MaxFailures \in Nat
  BY BoundsAssumption DEF DesiredTypes
<1>2. failures' = failures \/ (failures < MaxFailures /\ failures' = failures + 1)
  BY DEF Spare, CountSpared
<1>3. QED
  BY <1>1, <1>2

\* A recovery begins only with nothing in flight, so that it is the only one in hand.
LEMMA ScheduleKeeps ==
  ASSUME DesiredInv, ScheduleDesiredRecover
  PROVE  DesiredInv'
<1>1. /\ chosen' = FALSE
      /\ UNCHANGED <<policy, sim, cardEvents, simTimer, confirming, failed, slipped, unheard,
                     cleared>>
  BY DEF ScheduleDesiredRecover, cardVars
<1>2. CASE Recoverable /\ ~desired.inFlight /\ ~desired.waiting
  <2>1. BeginRecovery
    BY <1>2 DEF ScheduleDesiredRecover
  <2>2. PICK c \in Recoveries : Launch(c, "recover", 0) /\ inHand' = inHand \cup {c}
    BY <2>1 DEF BeginRecovery
  <2>3. c \in Calls /\ UNCHANGED storeVars /\ retries' = retries
    BY <2>1, RolesAssumption DEF BeginRecovery
  <2>4. Inv' /\ InOrder'
    BY <2>2, <2>3, LaunchKeeps DEF DesiredInv
  <2>5. desired' = [desired EXCEPT !.inFlight = TRUE]
    BY <2>1 DEF BeginRecovery
  <2>6. desired' \in [inFlight : BOOLEAN, waiting : BOOLEAN] /\ desired'.inFlight
    BY <2>5 DEF DesiredInv, DesiredTypes
  <2>7. ~cleared => inHand = {}
    BY <1>2 DEF DesiredInv, Filed
  <2>8. Filed'
    BY <1>1, <2>2, <2>6, <2>7 DEF Filed
  <2>9. failures' \in 0..MaxFailures
    BY <2>1, SparedCounts DEF BeginRecovery, DesiredInv
  <2>10. DesiredTypes'
    BY <1>1, <2>2, <2>6, <2>9 DEF DesiredInv, DesiredTypes
  <2>11. QED
    BY <2>4, <2>8, <2>10 DEF DesiredInv
<1>3. CASE ~(Recoverable /\ ~desired.inFlight /\ ~desired.waiting)
  <2>1. UNCHANGED <<vars, desired, inHand, failures>>
    BY <1>3 DEF ScheduleDesiredRecover
  <2>2. Inv' /\ InOrder'
    BY <2>1, HostKept DEF DesiredInv
  <2>3. Filed'
    BY <1>1, <2>1, FiledKept DEF DesiredInv
  <2>4. DesiredTypes'
    BY <1>1, <2>1 DEF DesiredInv, DesiredTypes
  <2>5. QED
    BY <2>2, <2>3, <2>4 DEF DesiredInv
<1>4. QED
  BY <1>2, <1>3

\* A retry carries a number that a failed start left, and takes it with it.
LEMMA RetryKeeps ==
  ASSUME DesiredInv, RetryBusyCard
  PROVE  DesiredInv'
<1>1. PICK c \in Recoveries, g \in retries : Launch(c, "retry", g) /\ retries' = retries \ {g}
  BY DEF RetryBusyCard
<1>2. c \in Calls /\ UNCHANGED storeVars
      /\ UNCHANGED <<policy, sim, cardEvents, simTimer, confirming, desired, inHand, failed,
                     slipped, unheard, cleared, chosen>>
  BY RolesAssumption DEF RetryBusyCard, cardVars, recordVars
<1>3. Inv' /\ InOrder'
  BY <1>1, <1>2, LaunchKeeps DEF DesiredInv
<1>4. Filed'
  BY <1>2, FiledKept DEF DesiredInv
<1>5. failures' \in 0..MaxFailures
  BY SparedCounts DEF RetryBusyCard, DesiredInv
<1>6. DesiredTypes'
  BY <1>2, <1>5 DEF DesiredInv, DesiredTypes
<1>7. QED
  BY <1>3, <1>4, <1>6 DEF DesiredInv

\* The user's requests are calls like the others.
LEMMA UserKeeps ==
  ASSUME DesiredInv, NEW c \in User, UserEnable(c) \/ UserDisable(c)
  PROVE  DesiredInv'
<1>1. c \in Calls
  BY DEF User
<1>2. UNCHANGED <<sim, cardEvents, simTimer, confirming, desired, inHand, failed,
                  failures, unheard, cleared, chosen, retries>>
  BY DEF UserEnable, UserDisable, cardVars, recordVars
<1>3. Inv' /\ InOrder'
  <2>1. CASE UserEnable(c)
    BY <1>1, <1>2, <2>1, LaunchKeeps DEF UserEnable, DesiredInv
  <2>2. CASE UserDisable(c)
    BY <1>1, <1>2, <2>2, LaunchKeeps DEF UserDisable, DesiredInv
  <2>3. QED
    BY <2>1, <2>2
<1>4. Filed'
  BY <1>2, FiledKept DEF DesiredInv
<1>5. policy' \in BOOLEAN /\ slipped' \in BOOLEAN
  <2>1. slipped \in BOOLEAN
    BY DEF DesiredInv, DesiredTypes
  <2>2. \/ slipped' = slipped
        \/ slipped' = (slipped \/ chosen
                       \/ \E d \in Calls : At(d, "submit") /\ call[d].kind # "disable")
    BY DEF UserEnable, UserDisable
  <2>3. slipped' \in BOOLEAN
    BY <2>1, <2>2, Zenon
  <2>4. QED
    BY <2>3 DEF UserEnable, UserDisable
<1>6. DesiredTypes'
  BY <1>2, <1>5 DEF DesiredInv, DesiredTypes
<1>7. QED
  BY <1>3, <1>4, <1>6 DEF DesiredInv

\* The card is pulled or put back, and a removal confirmed or not.
LEMMA CardKeeps ==
  ASSUME DesiredInv, CardEvent \/ ConfirmRemoval
  PROVE  DesiredInv'
<1>1. UNCHANGED vars
      /\ UNCHANGED <<policy, desired, inHand, failed, failures, slipped, cleared, chosen>>
  BY DEF CardEvent, ConfirmRemoval, recordVars
<1>2. Inv' /\ InOrder'
  BY <1>1, HostKept DEF DesiredInv
<1>3. Filed'
  BY <1>1, FiledKept DEF DesiredInv
<1>4. /\ sim \in BOOLEAN /\ simTimer \in BOOLEAN /\ confirming \in BOOLEAN /\ unheard \in BOOLEAN
      /\ cardEvents \in 0..MaxCardEvents /\ MaxCardEvents \in Nat
  BY BoundsAssumption DEF DesiredInv, DesiredTypes
<1>5. cardEvents' \in 0..MaxCardEvents
  BY <1>4 DEF CardEvent, ConfirmRemoval
<1>6. sim' \in BOOLEAN
  BY <1>4, Zenon DEF CardEvent, ConfirmRemoval
<1>7. simTimer' \in BOOLEAN
  BY <1>4, Zenon DEF CardEvent, ConfirmRemoval
<1>8. confirming' \in BOOLEAN /\ unheard' \in BOOLEAN
  BY <1>4, Zenon DEF CardEvent, ConfirmRemoval
<1>9. DesiredTypes'
  BY <1>1, <1>5, <1>6, <1>7, <1>8 DEF DesiredInv, DesiredTypes
<1>10. QED
  BY <1>2, <1>3, <1>9 DEF DesiredInv

\* A removed card clears the record, and stops a runtime that is active.
LEMMA StopAfterRemovalKeeps ==
  ASSUME DesiredInv, StopAfterRemoval
  PROVE  DesiredInv'
<1>1. /\ confirming' = FALSE /\ Clear(inHand')
      /\ UNCHANGED <<policy, sim, simTimer, cardEvents, inHand, chosen, failed, failures, slipped>>
  BY DEF StopAfterRemoval
<1>2. Inv' /\ InOrder' /\ unheard' \in BOOLEAN
  <2>1. unheard \in BOOLEAN
    BY DEF DesiredInv, DesiredTypes
  <2>2. CASE slot.inst = None
    <3>1. /\ UNCHANGED vars
          /\ unheard' = (unheard \/ \E c \in Calls : call[c].pc \in {"connect", "claim"})
      BY <2>2 DEF StopAfterRemoval
    <3>2. unheard' \in BOOLEAN
      BY <3>1, Zenon
    <3>3. QED
      BY <3>1, <3>2, HostKept DEF DesiredInv
  <2>3. CASE slot.inst # None
    <3>1. Launch(Remover, "disable", 0) /\ Invalidate /\ UNCHANGED <<retries, unheard>>
      BY <2>3 DEF StopAfterRemoval
    <3>2. Remover \in Calls
      BY RolesAssumption
    <3>3. QED
      BY <2>1, <3>1, <3>2, LaunchKeeps DEF DesiredInv
  <2>4. QED
    BY <2>2, <2>3
<1>3. Filed' /\ desired' \in [inFlight : BOOLEAN, waiting : BOOLEAN] /\ cleared' \in BOOLEAN
  BY <1>1, ClearFiles DEF DesiredInv
<1>4. DesiredTypes'
  BY <1>1, <1>2, <1>3 DEF DesiredInv, DesiredTypes
<1>5. QED
  BY <1>2, <1>3, <1>4 DEF DesiredInv

\* The whole of it holds whatever the policy, the user and the card do.
LEMMA DesiredAlways == DesiredSpec => []DesiredInv
<1>1. DesiredInit => DesiredInv
  <2> SUFFICES ASSUME DesiredInit PROVE DesiredInv
    OBVIOUS
  <2>1. Inv
    BY InitInv DEF DesiredInit
  <2>2. \A c \in Calls : call[c] = Idle
    BY DEF DesiredInit, Init
  <2>3. InOrder
    BY <2>2 DEF DesiredInit, Init, EmptySlot, Idle, At, InOrder, InLine, Modes, Numbers, OutOfLine,
                DisableLabels
  <2>4. Filed
    BY DEF DesiredInit, NoRecord, Filed
  <2>5. failures \in 0..MaxFailures /\ cardEvents \in 0..MaxCardEvents
    BY BoundsAssumption DEF DesiredInit
  <2>6. desired \in [inFlight : BOOLEAN, waiting : BOOLEAN]
    BY DEF DesiredInit, NoRecord
  <2>7. {chosen, simTimer, confirming, cleared, slipped, unheard} \subseteq BOOLEAN
    BY DEF DesiredInit
  <2>8. DesiredTypes
    BY <2>5, <2>6, <2>7 DEF DesiredInit, DesiredTypes
  <2>9. QED
    BY <2>1, <2>3, <2>4, <2>8 DEF DesiredInv
<1>2. DesiredInv /\ [DesiredNext]_allVars => DesiredInv'
  <2> SUFFICES ASSUME DesiredInv, [DesiredNext]_allVars PROVE DesiredInv'
    OBVIOUS
  <2>1. CASE \E c \in Calls : HostStep(c) \/ OnResult(c)
    BY <2>1, HostStepKeeps, OnResultKeeps
  <2>2. CASE \E c \in Calls : Observe(c) /\ UNCHANGED desiredVars
    <3>1. Inv' /\ InOrder'
      BY <2>2, ObserveInOrder DEF DesiredInv
    <3>2. Filed' /\ DesiredTypes'
      BY <2>2 DEF DesiredInv, Filed, DesiredTypes, desiredVars, cardVars, recordVars
    <3>3. QED
      BY <3>1, <3>2 DEF DesiredInv
  <2>3. CASE \E c \in User : UserEnable(c) \/ UserDisable(c)
    BY <2>3, UserKeeps
  <2>4. CASE Reconcile \/ ScheduleDesiredRecover \/ BackoffElapses
             \/ ResolveAndApplyPolicy \/ RetryBusyCard
    BY <2>4, PickKeeps, ScheduleKeeps, BackoffKeeps, RetryKeeps
  <2>5. CASE CardEvent \/ ConfirmRemoval \/ StopAfterRemoval
    BY <2>5, CardKeeps, StopAfterRemovalKeeps
  <2>6. CASE UNCHANGED allVars
    <3>1. Inv' /\ InOrder'
      BY <2>6, HostKept DEF DesiredInv, allVars
    <3>2. Filed' /\ DesiredTypes'
      BY <2>6 DEF DesiredInv, Filed, DesiredTypes, allVars, desiredVars, cardVars, recordVars
    <3>3. QED
      BY <3>1, <3>2 DEF DesiredInv
  <2>7. QED
    BY <2>1, <2>2, <2>3, <2>4, <2>5, <2>6, Zenon DEF DesiredNext
<1>3. QED
  BY <1>1, <1>2, PTL DEF DesiredSpec

\* pool_vowifi_reconcile.go and recover_state.go over the controller's calls, made again and
\* again: the record is in flight only while a result is due, no tunnel leaks, no start is
\* stuck, and at rest the SMS mode is where messages arrive.
THEOREM DesiredStoreConsistent == DesiredSpec => []DesiredConsistent
<1>1. DesiredInv => DesiredConsistent
  <2> SUFFICES ASSUME DesiredInv PROVE DesiredConsistent
    OBVIOUS
  <2>1. DesiredTypeOK
    BY DEF DesiredInv, DesiredTypes, DesiredTypeOK, Inv
  <2>2. ~cleared => Cardinality(inHand) <= 1
    <3>1. ASSUME inHand = {} PROVE Cardinality(inHand) <= 1
      BY <3>1, FS_EmptySet
    <3>2. ASSUME NEW c \in Recoveries, inHand = {c} PROVE Cardinality(inHand) <= 1
      BY <3>2, FS_Singleton
    <3>3. QED
      BY <3>1, <3>2 DEF DesiredInv, Filed
  <2>3. RecordTruthful
    BY <2>2 DEF DesiredInv, Filed, RecordTruthful
  <2>4. SMSModeFollowsRuntime
    <3> SUFFICES ASSUME AtRest PROVE sms = "vowifi" <=> slot.inst # None
      BY DEF SMSModeFollowsRuntime
    <3>1. \A c \in Calls : call[c].pc \in {"idle", "done"}
      BY DEF AtRest, At
    <3>2. slot.inst \in Calls \cup {None} /\ sms \in {"modem", "vowifi"}
      BY DEF DesiredInv, Inv, TypeOK, Slots
    <3>3. QED
      BY <3>1, <3>2 DEF DesiredInv, InOrder, Modes, At
  <2>5. QED
    BY <2>1, <2>3, <2>4 DEF DesiredInv, Inv, Safe, DesiredConsistent
<1>2. QED
  BY <1>1, DesiredAlways, PTL

\* commandGenerationStale: a retry that has begun under runMu has the last number, and
\* every Disable has another one, so that none with a later number has returned.
THEOREM DisablesOutlast == DesiredSpec => DisableOutlastsRetries
<1>1. DesiredInv =>
        \A c, d \in Calls :
            /\ call[c].kind = "retry" /\ At(c, "begin") /\ call'[c].pc = "prepare"
            /\ call[d].kind = "disable" /\ At(d, "done")
            => call[d].gen < call[c].gen
  <2> SUFFICES ASSUME DesiredInv, NEW c \in Calls, NEW d \in Calls,
                      call[c].kind = "retry", At(c, "begin"), call[d].kind = "disable"
               PROVE  call[d].gen < call[c].gen
    OBVIOUS
  <2>1. call[c].gen \in Nat /\ call[d].gen \in Nat /\ generation \in Nat
    BY DEF DesiredInv, Inv, TypeOK, CallStates
  <2>2. call[c].gen = generation /\ generation > 0 /\ call[d].gen <= generation
    BY DEF DesiredInv, InOrder, Numbers, At, OutOfLine
  <2>3. call[d].gen # 0 => call[c].gen # call[d].gen
    BY DEF DesiredInv, InOrder, Numbers
  <2>4. QED
    BY <2>1, <2>2, <2>3
<1>2. QED
  BY <1>1, DesiredAlways, PTL DEF DisableOutlastsRetries
=============================================================================
