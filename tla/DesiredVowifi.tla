--------------------------- MODULE DesiredVowifi ---------------------------
(***************************************************************************)
(* Keeping VoWiFi as the card's policy wants it                            *)
(* (internal/device/pool_vowifi_reconcile.go, vowifihost/recover_state.go).*)
(*                                                                         *)
(* A loop, events of the modem and every application of the policy look    *)
(* for a device that wants VoWiFi and has none.  They schedule a recovery: *)
(* a goroutine that calls Recover of the lifecycle controller and files    *)
(* the result in the backoff record of the device.  Beside them the user   *)
(* switches VoWiFi on and off, and the card is pulled or put back, which a *)
(* debounced confirmation turns into a Disable.                            *)
(* All of them act on the runtime through VowifiLifecycle, whose calls     *)
(* this module makes: every recovery, retry, Enable and Disable is a call  *)
(* there and runs its steps, so it queues, is overtaken and fails as there.*)
(*                                                                         *)
(* Left out: the country (a blocked one is never picked), the rebuilding   *)
(* of the worker, and the burst of events that one wake-up stands for.     *)
(***************************************************************************)
EXTENDS VowifiLifecycle

CONSTANTS
    Recoveries,   \* the calls that carry recoveries and retries, used again
    Remover,      \* the call that carries the Disable of a removed card
    MaxFailures,  \* bound: steps of a start that fail although they could succeed
    MaxCardEvents \* bound: times the card is pulled or put back

ASSUME RolesAssumption == Recoveries \subseteq Calls /\ Remover \in Calls \ Recoveries
ASSUME BoundsAssumption == MaxFailures \in Nat /\ MaxCardEvents \in Nat

VARIABLES
    policy,      \* the stored policy of the card wants VoWiFi
    sim,         \* the card is in the slot
    desired,     \* the desiredRecoverState: in flight, and nextAt ahead
    chosen,      \* the device is picked and not yet scheduled
    simTimer,    \* the timer of simEventTimers runs
    confirming,  \* a confirmation has read that the card is out
    inHand,      \* recoveries whose result has not been filed
    failed,      \* calls that return an error
    failures, cardEvents,    \* counted for the bounds
    cleared,     \* history: the record was cleared under a recovery in hand
    slipped,     \* history: a user's Disable found a start that had yet to queue
    unheard      \* history: a removal was confirmed in vain

cardVars == <<sim, simTimer, confirming, cardEvents, unheard>>
recordVars == <<desired, inHand, cleared>>
desiredVars == <<policy, cardVars, recordVars, chosen, failed, failures, slipped>>
allVars == <<vars, desiredVars>>

\* A device nobody has recovered yet, or whose record was cleared.
NoRecord == [inFlight |-> FALSE, waiting |-> FALSE]

DesiredInit ==
    /\ Init
    /\ policy \in BOOLEAN
    /\ sim \in BOOLEAN
    /\ desired = NoRecord
    /\ chosen = FALSE /\ simTimer = FALSE /\ confirming = FALSE
    /\ inHand = {} /\ failed = {}
    /\ failures = 0 /\ cardEvents = 0
    /\ cleared = FALSE /\ slipped = FALSE /\ unheard = FALSE

-----------------------------------------------------------------------------
(* Calls *)

\* A recovery that is over and has left no tunnel behind can be another one.
Free(c) ==
    /\ At(c, "idle") \/ At(c, "done")
    /\ c \notin inHand
    /\ slot.inst # c /\ c \notin live
    /\ \A d \in Calls : call[d].target # c

\* No call of an earlier use is told from this one.
Launch(c, k, g) ==
    /\ Free(c)
    /\ call' = [call EXCEPT ![c] = [Idle EXCEPT !.pc = "submit", !.kind = k, !.gen = g]]
    /\ cancelled' = cancelled \ {c}
    /\ UNCHANGED <<runMu, generation, runCancel, switch, sms>>

\* Where a start gives up, and where it must: a card that is out answers no
\* challenge, and a start that was invalidated is told so.
GivesUp(c) ==
    \/ At(c, "wait") /\ call'[c].pc = "finish"
    \/ call[c].pc \in {"prepare", "before", "connect"} /\ call'[c].pc \in {"fail", "error"}

Hopeless(c) == ~sim \/ (call[c].pc \in {"before", "connect"} /\ ~ShouldRun(c))

\* The errors enableRuntime and enableWhenReady return.
ReturnsError(c) ==
    \/ GivesUp(c)
    \/ At(c, "check") /\ call'[c].pc = "finish"
    \/ At(c, "begin") /\ call'[c].pc = "finish" /\ slot.inst = None

\* A step of a call.  Bounds: a start with a chance fails MaxFailures times,
\* and only such a start finds the card busy.
HostStep(c) ==
    /\ Step(c)
    /\ At(c, "before") /\ ~sim => call'[c].pc = "error"
    /\ ~sim \/ ~ShouldRun(c) => retries' = retries
    /\ IF GivesUp(c) /\ ~Hopeless(c)
       THEN failures < MaxFailures /\ failures' = failures + 1
       ELSE UNCHANGED failures
    /\ failed' = IF c \in inHand /\ ReturnsError(c) THEN failed \cup {c} ELSE failed
    /\ UNCHANGED <<policy, cardVars, recordVars, chosen, slipped>>

-----------------------------------------------------------------------------
(* The record of the device *)

\* Mutant: a failed recovery stays in flight.
MarkFailedInFlight == desired' = [desired EXCEPT !.waiting = TRUE]

\* MarkFailed: the next attempt has to wait; how long grows with the attempts.
MarkFailed == desired' = [inFlight |-> FALSE, waiting |-> TRUE]

\* Clear forgets the backoff, and that a recovery is in flight.
Clear(hands) ==
    /\ desired' = NoRecord
    /\ cleared' = (hands # {})

\* nextAt passes.
BackoffElapses ==
    /\ desired.waiting
    /\ desired' = [desired EXCEPT !.waiting = FALSE]
    /\ UNCHANGED <<vars, policy, cardVars, inHand, cleared, chosen, failed, failures, slipped>>

\* OnResult, called by the goroutine of the recovery when Recover returned.
OnResult(c) ==
    /\ c \in inHand
    /\ At(c, "done")
    /\ inHand' = inHand \ {c}
    /\ IF c \in failed
       THEN MarkFailed /\ cleared' = (cleared /\ inHand' # {})
       ELSE Clear(inHand')
    /\ failed' = failed \ {c}
    /\ call' = [call EXCEPT ![c] = [Idle EXCEPT !.pc = "done"]]
    /\ overtaken' = overtaken \ {c}
    /\ UNCHANGED <<slot, live, controlVars, worldVars, policy, cardVars, chosen,
                   failures, slipped>>

-----------------------------------------------------------------------------
(* Looking for a device to recover *)

\* Mutant: a device whose last start has left a state counts as active.
RecoverableUnlessRecorded == slot.inst = None /\ ~slot.starting /\ ~slot.state

\* DesiredRecoverable
Recoverable == slot.inst = None /\ ~slot.starting

\* currentCardPolicyAllowsVoWiFi, and what it leaves behind.
PickIfAllowed ==
    IF policy
    THEN chosen' = TRUE /\ UNCHANGED <<desired, cleared>>
    ELSE Clear(inHand) /\ UNCHANGED chosen

\* The ticker of the loop, the first look after the start of the pool and
\* the wake-up by an event of the modem, at any moment.  The identity that is
\* asked for is cached and outlives the card.
Reconcile ==
    /\ ~chosen
    /\ Recoverable
    /\ ~Switching
    /\ PickIfAllowed
    /\ UNCHANGED <<vars, policy, cardVars, inHand, failed, failures, slipped>>

\* resolveAndApplyPolicy, after a Disable, a change of the configuration, or
\* when the identity becomes known: the policy alone decides.
ResolveAndApplyPolicy ==
    /\ ~chosen
    /\ PickIfAllowed
    /\ UNCHANGED <<vars, policy, cardVars, inHand, failed, failures, slipped>>

\* Bound: with the card out a recovery is a failure that could be spared.
Spare == sim \/ failures < MaxFailures

CountSpared == failures' = IF sim THEN failures ELSE failures + 1

\* Begin, and the goroutine it admits.
BeginRecovery ==
    /\ Spare
    /\ \E c \in Recoveries : Free(c)
    /\ LET c == CHOOSE d \in Recoveries : Free(d)
       IN  Launch(c, "recover", 0) /\ inHand' = inHand \cup {c}
    /\ desired' = [desired EXCEPT !.inFlight = TRUE]
    /\ CountSpared
    /\ UNCHANGED <<storeVars, retries>>

\* ScheduleDesiredRecover: looks at the runtime once more, not at the policy.
ScheduleDesiredRecover ==
    /\ chosen
    /\ chosen' = FALSE
    /\ IF Recoverable /\ ~desired.inFlight /\ ~desired.waiting
       THEN BeginRecovery
       ELSE UNCHANGED <<vars, desired, inHand, failures>>
    /\ UNCHANGED <<policy, cardVars, cleared, failed, slipped>>

\* A retry that a start on a busy card left behind; one of its three timers.
RetryBusyCard ==
    /\ slot.inst = None
    /\ Spare
    /\ \E c \in Recoveries : Free(c)
    /\ LET c == CHOOSE d \in Recoveries : Free(d)
       IN  \E g \in retries : Launch(c, "retry", g) /\ retries' = retries \ {g}
    /\ CountSpared
    /\ UNCHANGED <<storeVars, policy, cardVars, recordVars, chosen, failed, slipped>>

-----------------------------------------------------------------------------
(* The user *)

User == Calls \ (Recoveries \cup {Remover})

\* handleDeviceVoWiFiPatch stores the policy, then calls the pool.
UserEnable(c) ==
    /\ At(c, "idle")
    /\ policy' = TRUE
    /\ Launch(c, "enable", 0)
    /\ UNCHANGED <<storeVars, retries, cardVars, recordVars, chosen, failed, failures, slipped>>

UserDisable(c) ==
    /\ At(c, "idle")
    /\ policy' = FALSE
    /\ Launch(c, "disable", 0)
    /\ Invalidate
    /\ slipped' = (slipped \/ chosen
                   \/ \E d \in Calls : At(d, "submit") /\ call[d].kind # "disable")
    /\ UNCHANGED <<retries, cardVars, recordVars, chosen, failed, failures>>

-----------------------------------------------------------------------------
(* The card *)

\* The modem indicates the change, which sets the timer of a confirmation, or
\* sets it back; an indication that a card is ready leaves it.
CardEvent ==
    /\ cardEvents < MaxCardEvents
    /\ cardEvents' = cardEvents + 1
    /\ sim' = ~sim
    /\ simTimer' = TRUE \/ (sim' /\ UNCHANGED simTimer)
    /\ UNCHANGED <<vars, policy, recordVars, confirming, unheard, chosen, failed,
                   failures, slipped>>

\* confirmSIMRemovedAndStopVoWiFi: nothing follows from a switch in progress
\* or from a card that cannot be asked.
ConfirmRemoval ==
    /\ simTimer /\ ~confirming
    /\ simTimer' = FALSE
    /\ \/ confirming' = ~sim /\ ~Switching /\ UNCHANGED unheard
       \/ UNCHANGED confirming /\ unheard' = TRUE
    /\ UNCHANGED <<vars, policy, sim, cardEvents, recordVars, chosen, failed,
                   failures, slipped>>

\* Mutant: an answer that the card is out only clears the record.
ClearOnly ==
    /\ confirming
    /\ confirming' = FALSE
    /\ Clear(inHand)
    /\ UNCHANGED <<vars, policy, sim, simTimer, cardEvents, inHand, chosen,
                   failed, failures, slipped, unheard>>

\* Only a runtime that is active is stopped: a start that is connecting, or
\* whose tunnel waits to be claimed, is not noticed.
StopAfterRemoval ==
    /\ confirming
    /\ confirming' = FALSE
    /\ Clear(inHand)
    /\ IF slot.inst = None
       THEN /\ unheard' = (unheard \/ \E c \in Calls : call[c].pc \in {"connect", "claim"})
            /\ UNCHANGED vars
       ELSE Launch(Remover, "disable", 0) /\ Invalidate /\ UNCHANGED <<retries, unheard>>
    /\ UNCHANGED <<policy, sim, simTimer, cardEvents, inHand, chosen, failed, failures,
                   slipped>>

-----------------------------------------------------------------------------

DesiredNext ==
    \/ \E c \in Calls : HostStep(c) \/ OnResult(c)
    \/ \E c \in Calls : Observe(c) /\ UNCHANGED desiredVars
    \/ \E c \in User : UserEnable(c) \/ UserDisable(c)
    \/ Reconcile \/ ScheduleDesiredRecover \/ BackoffElapses
    \/ ResolveAndApplyPolicy \/ RetryBusyCard
    \/ CardEvent \/ ConfirmRemoval \/ StopAfterRemoval

\* Every goroutine with something to do is scheduled, every timer fires, and
\* the ticker of the loop never stops.  Nothing obliges the user, the card,
\* an application of the policy or a retry.
DesiredSpec ==
    /\ DesiredInit /\ [][DesiredNext]_allVars
    /\ \A c \in Calls : WF_allVars(HostStep(c) \/ OnResult(c))
    /\ WF_allVars(Reconcile \/ ScheduleDesiredRecover)
    /\ WF_allVars(BackoffElapses)
    /\ WF_allVars(ConfirmRemoval \/ StopAfterRemoval)

-----------------------------------------------------------------------------
(* Properties *)

DesiredTypeOK ==
    /\ TypeOK
    /\ policy \in BOOLEAN /\ sim \in BOOLEAN
    /\ desired \in [inFlight : BOOLEAN, waiting : BOOLEAN]
    /\ inHand \subseteq Recoveries /\ failed \subseteq Calls
    /\ failures \in 0..MaxFailures /\ cardEvents \in 0..MaxCardEvents
    /\ {chosen, simTimer, confirming, cleared, slipped, unheard} \subseteq BOOLEAN

\* A device is never given up: its record says "in flight" only while some
\* recovery is going to file a result, whatever was cleared or filed late by
\* another in between.  And it is not recovered twice at once, unless the
\* record was cleared under a recovery in hand.
RecordTruthful ==
    /\ desired.inFlight => inHand # {}
    /\ ~cleared => Cardinality(inHand) <= 1 /\ (inHand # {} => desired.inFlight)

\* The record is truthful, and the store of the runtime is what
\* VowifiLifecycle promises although its calls are made again and again; with
\* every call back, messages arrive where the SMS mode says.
DesiredConsistent ==
    DesiredTypeOK /\ RecordTruthful /\ TunnelsAccounted /\ StartingHasOwner
    /\ SMSModeFollowsRuntime

\* VoWiFi comes up and stays up on a device whose policy wants it and whose
\* card stays in, however its starts were interrupted before and whatever
\* backoff they left behind.
DesiredReached == <>[](policy /\ sim) => <>[](slot.inst # None)

\* VoWiFi goes down and stays down once the card is out for good or the user
\* has switched it off for good.  Two holes of the code are excepted: a
\* removal whose confirmation failed or met a start about to finish, and a
\* start that was picked, or waited for runMu, while the user switched off.
StopsWhenUnwanted ==
    /\ <>[]~sim => <>[](slot.inst = None) \/ <>unheard
    /\ <>[]~policy => <>[](slot.inst = None) \/ <>slipped
=============================================================================
