---------------------------- MODULE MbimManager ----------------------------
(***************************************************************************)
(* The manager of one MBIM modem (internal/mbim: manager.go, dataconn.go,  *)
(* healthprobe.go, recovery.go): the control endpoint it opens and closes, *)
(* the loop that probes it, recoveries that reopen it, the data session    *)
(* that callers connect, disconnect and rotate, and the reconnection after *)
(* the network has dropped it.                                             *)
(*                                                                         *)
(* A command to the modem is answered, or not, as MbimDevice says.         *)
(***************************************************************************)
EXTENDS Integers, FiniteSets

CONSTANTS
  Users, Recoveries, Reconnector, \* goroutines
  Attempts,                       \* healthMaxReopenAttempts
  Threshold,                      \* healthRecoverFailureThreshold
  Tries,                          \* of a reconnection
  MaxCalls,                       \* bounds: calls of the users,
  MaxDeaf, MaxDrops               \* times the modem falls silent, drops the session

Kinds == {"connect", "disconnect", "rotate", "close"}
Procs == Users \cup Recoveries \cup {Reconnector}

ASSUME ProcsAssumption ==
  Users \cap Recoveries = {} /\ Reconnector \notin Users \cup Recoveries
ASSUME NumbersAssumption ==
  /\ {Attempts, Threshold, Tries} \subseteq Nat \ {0}
  /\ {MaxCalls, MaxDeaf, MaxDrops} \subseteq Nat

VARIABLES
  calls,                    \* made by the users
  dev,                      \* Manager.dev is set: an endpoint is open, its probe loop runs
  desired, connected,       \* Manager.desiredConnection, connected
  failures, late,           \* healthFailures; a probe of a closed endpoint is under way
  place, cont,              \* where a goroutine is, and where its call returns to
  dataMu, reopened,         \* its holder, which has reopened the endpoint
  missed,                   \* history: since the session was activated a reconnection found its
                            \* gate taken, or a Connect failed,
  unheard,                  \* history: or its deactivation was not indicated
  gate, want, attempt,      \* recoveryGate; of a recovery: wantData, and the attempt
  told,                     \* history: a recovery was exhausted, or an owner or a Connect lost the
                            \* endpoint
  wish,                     \* history: data was desired when a recovery began
  crossed,                  \* history: recoveries during which another one closed the endpoint
  reconnectGate, tries,     \* reconnectGate; attempts of the reconnection
  indications, spawned,     \* deactivations to be handled; reconnections to begin
  modem, session,           \* the modem answers; it has a data session
  deafs, drops

dataVars     == <<desired, connected>>
healthVars   == <<failures, late>>
lockVars     == <<dataMu, reopened, missed>>
recoveryVars == <<gate, want, attempt, wish, crossed>>
lossVars     == <<reconnectGate, tries, indications, spawned, unheard>>
sessionVars  == <<modem, session, deafs, drops>>
managerVars  == <<calls, dev, dataVars, healthVars, place, cont, lockVars,
                  recoveryVars, told, lossVars, sessionVars>>

Go(p, s) == place' = [place EXCEPT ![p] = s]
Call(p, s, ok, failed) ==
  Go(p, s) /\ cont' = [cont EXCEPT ![p] = [ok |-> ok, failed |-> failed]]

Nowhere == [ok |-> "idle", failed |-> "idle"]
Rest(p) == Go(p, "idle") /\ cont' = [cont EXCEPT ![p] = Nowhere]

Lock(p) == dataMu = {} /\ dataMu' = {p} /\ UNCHANGED <<reopened, missed>>

\* The lock is released and the call returns.
Finish(p, r) ==
  /\ dataMu' = {} /\ reopened' = FALSE
  /\ missed' = (missed \/ r = "failed")
  /\ Go(p, cont[p][r])

\* After Open and Connect.
ManagerInit ==
  /\ calls = 0 /\ dev = TRUE
  /\ desired = TRUE /\ connected = TRUE /\ session = TRUE
  /\ failures = 0 /\ late = FALSE
  /\ place = [p \in Procs |-> "idle"]
  /\ cont = [p \in Procs |-> Nowhere]
  /\ dataMu = {} /\ reopened = FALSE /\ missed = FALSE
  /\ gate = FALSE /\ want = [r \in Recoveries |-> FALSE]
  /\ attempt = [r \in Recoveries |-> 0] /\ wish = [r \in Recoveries |-> FALSE]
  /\ crossed = {} /\ told = FALSE
  /\ reconnectGate = FALSE /\ tries = 0 /\ indications = 0 /\ spawned = 0 /\ unheard = FALSE
  /\ modem = "ok" /\ deafs = 0 /\ drops = 0

-----------------------------------------------------------------------------
(* Open.                                                                   *)

\* openWithTransport: a new endpoint, monitor and probe loop, health from nothing.
Opened ==
  /\ dev' = TRUE /\ failures' = 0 /\ UNCHANGED late
  /\ told' = FALSE

\* The endpoint is closed, its monitor and probe loop are stopped; a probe may
\* be under way. The session is not managed any more.
Shut ==
  /\ dev' = FALSE /\ indications' = 0 /\ connected' = FALSE
  /\ late' \in (IF dev THEN {late, TRUE} ELSE {late})

CanOpen == modem = "ok"

-----------------------------------------------------------------------------
(* Connect, with dataMu held (connectLocked).                              *)

LockConnect(p) ==
  /\ place[p] = "connect" /\ Lock(p) /\ Go(p, "register")
  /\ UNCHANGED <<calls, dev, dataVars, healthVars, cont, recoveryVars,
                 told, lossVars, sessionVars>>

\* ensureRegistered, after which the connection is desired.
Register(p) ==
  /\ place[p] = "register"
  /\ \/ /\ dev /\ modem = "ok" /\ desired' = TRUE
        /\ Go(p, "activate") /\ UNCHANGED lockVars
     \/ Finish(p, "failed") /\ UNCHANGED desired
  /\ UNCHANGED <<calls, dev, connected, healthVars, cont, recoveryVars,
                 told, lossVars, sessionVars>>

\* activateDataSessionWithRetry and recoverStaleDataSession: a session the modem
\* still has is ended first; a modem that does not answer has the endpoint reopened.
Activate(p) ==
  /\ place[p] = "activate"
  /\ \/ /\ modem = "ok" /\ session /\ session' = FALSE
        /\ UNCHANGED <<place, lockVars, unheard>>
     \/ /\ modem = "ok" /\ ~session /\ session' = TRUE /\ Go(p, "configure")
        /\ missed' = FALSE /\ unheard' = FALSE /\ UNCHANGED <<dataMu, reopened>>
     \/ /\ modem = "deaf" /\ ~reopened /\ Go(p, "reopen")
        /\ UNCHANGED <<session, lockVars, unheard>>
     \/ /\ IF modem = "ok" THEN ~session ELSE reopened
        /\ Finish(p, "failed") /\ UNCHANGED <<session, unheard>>
  /\ UNCHANGED <<calls, dev, dataVars, healthVars, cont, recoveryVars, told,
                 reconnectGate, tries, indications, spawned, modem, deafs, drops>>

\* reopenControlPlaneForDataConnect: the endpoint is closed, the wish stays.
Reopen(p) ==
  /\ place[p] = "reopen" /\ Go(p, "reopening")
  /\ Shut
  /\ gate' = FALSE /\ reopened' = TRUE
  /\ UNCHANGED <<calls, desired, failures, cont, dataMu, missed, want, attempt,
                 wish, crossed, told, reconnectGate, tries, spawned, unheard, sessionVars>>

ReopenEnds(p) ==
  /\ place[p] = "reopening"
  /\ \/ CanOpen /\ Opened /\ Go(p, "register") /\ UNCHANGED lockVars
     \/ /\ modem = "deaf" /\ Finish(p, "failed")
        /\ told' = (told \/ p \notin Recoveries)
        /\ UNCHANGED <<dev, healthVars>>
  /\ UNCHANGED <<calls, dataVars, cont, recoveryVars, lossVars, sessionVars>>

\* QueryIPConfiguration and applyIPConfig; the session is undone if they cannot
\* be applied, and left if they cannot be asked for.
Configure(p) ==
  /\ place[p] = "configure"
  /\ \/ modem = "ok" /\ Go(p, "commit") /\ UNCHANGED <<session, lockVars>>
     \/ modem = "ok" /\ session' = FALSE /\ Finish(p, "failed")
     \/ Finish(p, "failed") /\ UNCHANGED session
  /\ UNCHANGED <<calls, dev, dataVars, healthVars, cont, recoveryVars,
                 told, lossVars, modem, deafs, drops>>

Commit(p) ==
  /\ place[p] = "commit" /\ connected' = TRUE /\ Finish(p, "ok")
  /\ UNCHANGED <<calls, dev, desired, healthVars, cont, recoveryVars,
                 told, lossVars, sessionVars>>

Connecting(p) ==
  LockConnect(p) \/ Register(p) \/ Activate(p) \/ Reopen(p) \/ ReopenEnds(p)
  \/ Configure(p) \/ Commit(p)

-----------------------------------------------------------------------------
(* Disconnect, RotateIP and Close.                                         *)

NobodyWishes == wish' = [r \in Recoveries |-> FALSE]

\* Disconnect and RotateIP: the session is not desired any more.
LockDisconnect(p) ==
  /\ place[p] \in {"disconnect", "rotate"} /\ Lock(p)
  /\ desired' = FALSE /\ NobodyWishes
  /\ Go(p, CASE connected -> IF place[p] = "rotate" THEN "rotating" ELSE "disconnecting"
             [] ~connected -> IF place[p] = "rotate" THEN "register" ELSE "unlock")
  /\ UNCHANGED <<calls, dev, connected, healthVars, cont, gate, want, attempt,
                 crossed, told, lossVars, sessionVars>>

\* disconnectLocked: the modem may not answer; RotateIP connects if it did.
Disconnected(p) ==
  /\ place[p] \in {"disconnecting", "rotating"}
  /\ connected' = FALSE
  /\ session' = (session /\ modem = "deaf")
  /\ IF place[p] = "rotating" /\ modem = "ok"
       THEN Go(p, "register") /\ UNCHANGED lockVars
       ELSE Finish(p, IF modem = "ok" THEN "ok" ELSE "failed")
  /\ UNCHANGED <<calls, dev, desired, healthVars, cont, recoveryVars,
                 told, lossVars, modem, deafs, drops>>

\* Close: nothing is desired, and the gate of the recoveries is open.  Nobody wishes
\* for the session any more when it is the Close of a caller; that of a recovery
\* crosses the others.
LockClose(p) ==
  /\ place[p] = "close" /\ Lock(p)
  /\ Shut
  /\ desired' = FALSE /\ gate' = FALSE
  /\ IF p \in Recoveries
       THEN /\ crossed' = crossed \cup {r \in Recoveries \ {p} : place[r] # "idle"}
            /\ UNCHANGED wish
       ELSE NobodyWishes /\ UNCHANGED crossed
  /\ told' = (told \/ p \in Users)
  /\ Go(p, IF connected THEN "teardown" ELSE "unlock")
  /\ UNCHANGED <<calls, failures, cont, want, attempt,
                 reconnectGate, tries, spawned, unheard, sessionVars>>

\* The session is ended if the modem answers; the call is done either way.
Unlock(p) ==
  /\ place[p] \in {"teardown", "unlock"} /\ Finish(p, "ok")
  /\ session' = (session /\ ~(place[p] = "teardown" /\ modem = "ok"))
  /\ UNCHANGED <<calls, dev, dataVars, healthVars, cont, recoveryVars,
                 told, lossVars, modem, deafs, drops>>

\* A caller calls; RotateIP asks first whether there is a connection.
Begin(u) ==
  /\ place[u] = "idle" /\ calls < MaxCalls /\ calls' = calls + 1
  /\ \E k \in Kinds : (k = "rotate" => connected) /\ Go(u, k)
  /\ UNCHANGED <<dev, dataVars, healthVars, cont, lockVars,
                 recoveryVars, told, lossVars, sessionVars>>

-----------------------------------------------------------------------------
(* The probe loops.                                                        *)

NoMoreOf(r) ==
  /\ attempt' = [attempt EXCEPT ![r] = 0] /\ wish' = [wish EXCEPT ![r] = FALSE]
  /\ crossed' = crossed \ {r}

\* triggerReopen: a recovery, unless one holds the gate.
TriggerReopen ==
  IF gate THEN UNCHANGED <<gate, place, attempt, wish>>
  ELSE LET idle == {q \in Recoveries : place[q] = "idle"}
           r    == CHOOSE q \in idle : TRUE
       IN /\ idle # {} /\ gate' = TRUE /\ Go(r, "begin")
          /\ attempt' = [attempt EXCEPT ![r] = 1]
          /\ wish' = [wish EXCEPT ![r] = desired]

ProbeAnswered ==
  /\ modem = "ok" /\ failures' = 0
  /\ UNCHANGED <<gate, place, attempt, wish>>

\* Mutant: the failure is reported, and nothing else.
ProbeReported ==
  /\ failures' = IF failures < Threshold THEN failures + 1 ELSE failures
  /\ UNCHANGED <<gate, place, attempt, wish>>

\* healthState is recovering once Threshold probes in a row have failed, and only
\* that transition has the endpoint reopened.
ProbeFailed ==
  \/ /\ failures + 1 < Threshold /\ failures' = failures + 1
     /\ UNCHANGED <<gate, place, attempt, wish>>
  \/ failures + 1 = Threshold /\ failures' = Threshold /\ TriggerReopen
  \/ /\ failures = Threshold
     /\ UNCHANGED <<failures, gate, place, attempt, wish>>

\* runHealthProbe; a probe whose endpoint is closed fails, and counts all the same.
Probe ==
  /\ \/ dev /\ ProbeAnswered /\ UNCHANGED late
     \/ dev /\ modem = "deaf" /\ ProbeFailed /\ UNCHANGED late
     \/ late /\ ProbeFailed /\ late' = FALSE
  /\ UNCHANGED <<calls, dev, dataVars, cont, lockVars, want, crossed, told,
                 lossVars, sessionVars>>

-----------------------------------------------------------------------------
(* runRecovery and doReopen.                                               *)

\* Mutant: the wish is read when Close has cleared it.
ReadLate(r) == want' = [want EXCEPT ![r] = FALSE]

ReadDesired(r) == want' = [want EXCEPT ![r] = desired]

\* The first attempt, or the next one after a pause: only the first has the
\* chance to restore the session.
BeginAttempt(r) ==
  /\ \/ place[r] = "begin" /\ UNCHANGED <<attempt, wish>>
     \/ /\ place[r] = "failed" /\ attempt[r] < Attempts
        /\ attempt' = [attempt EXCEPT ![r] = @ + 1]
        /\ wish' = [wish EXCEPT ![r] = FALSE]
  /\ ReadDesired(r)
  /\ Call(r, "close", "open", "open")
  /\ UNCHANGED <<calls, dev, dataVars, healthVars, lockVars, gate, crossed, told,
                 lossVars, sessionVars>>

OpenEnds(r) ==
  /\ place[r] = "open"
  /\ \/ /\ CanOpen /\ Opened
        /\ IF want[r] THEN Call(r, "connect", "verify", "failed")
                      ELSE Go(r, "verify") /\ UNCHANGED cont
     \/ /\ modem = "deaf" /\ Go(r, "failed")
        /\ UNCHANGED <<dev, healthVars, told, cont>>
  /\ want' = [want EXCEPT ![r] = FALSE]
  /\ UNCHANGED <<calls, dataVars, lockVars, gate, attempt, wish, crossed,
                 lossVars, sessionVars>>

OpenGate == gate' = FALSE

\* verifyControlPlane.
Verify(r) ==
  /\ place[r] = "verify"
  /\ IF dev /\ modem = "ok"
       THEN Rest(r) /\ OpenGate /\ NoMoreOf(r)
       ELSE Go(r, "failed") /\ UNCHANGED <<gate, attempt, wish, crossed, cont>>
  /\ UNCHANGED <<calls, dev, dataVars, healthVars, lockVars, want,
                 told, lossVars, sessionVars>>

\* Mutant: nobody is told.
TellNobody == UNCHANGED told

\* dispatchRecoveryExhausted.
TellExhausted == told' = TRUE

GiveUp(r) ==
  /\ place[r] = "failed" /\ attempt[r] = Attempts
  /\ TellExhausted /\ OpenGate /\ Rest(r) /\ NoMoreOf(r)
  /\ UNCHANGED <<calls, dev, dataVars, healthVars, lockVars, want,
                 lossVars, sessionVars>>

Recovering(r) == BeginAttempt(r) \/ OpenEnds(r) \/ Verify(r) \/ GiveUp(r)

-----------------------------------------------------------------------------
(* A session the network drops.                                            *)

\* The monitor hears of it, if there is one: an endpoint without the subscription, a
\* full queue of the transport or a deaf modem has it unheard.
Drop ==
  /\ session /\ drops < MaxDrops
  /\ session' = FALSE /\ drops' = drops + 1
  /\ \/ dev /\ indications' = indications + 1 /\ UNCHANGED unheard
     \/ unheard' = TRUE /\ UNCHANGED indications
  /\ UNCHANGED <<calls, dev, dataVars, healthVars, place, cont, lockVars,
                 recoveryVars, told, reconnectGate, tries, spawned, modem, deafs>>

\* Mutant: nobody takes note of the loss.
LoseSilently == UNCHANGED <<connected, spawned>>

Lose == connected' = FALSE /\ spawned' = IF desired THEN spawned + 1 ELSE spawned

HandleConnectIndication ==
  /\ indications > 0 /\ indications' = indications - 1
  /\ Lose
  /\ UNCHANGED <<calls, dev, desired, healthVars, place, cont, lockVars,
                 recoveryVars, told, reconnectGate, tries, unheard, sessionVars>>

\* reconnectWithBackoff: one at a time; another is dropped.
Reconnect ==
  /\ spawned > 0 /\ spawned' = spawned - 1
  /\ IF reconnectGate
       THEN missed' = TRUE /\ UNCHANGED <<reconnectGate, place, tries>>
       ELSE /\ reconnectGate' = TRUE /\ Go(Reconnector, "try") /\ tries' = 0
            /\ UNCHANGED missed
  /\ UNCHANGED <<calls, dev, dataVars, healthVars, cont, dataMu, reopened,
                 recoveryVars, told, indications, unheard, sessionVars>>

Try ==
  /\ place[Reconnector] = "try"
  /\ IF desired /\ tries < Tries
       THEN Call(Reconnector, "connect", "release", "try") /\ tries' = tries + 1
       ELSE Go(Reconnector, "release") /\ UNCHANGED <<cont, tries>>
  /\ UNCHANGED <<calls, dev, dataVars, healthVars, lockVars, recoveryVars,
                 told, reconnectGate, indications, spawned, unheard, sessionVars>>

Release ==
  /\ place[Reconnector] = "release" /\ Rest(Reconnector)
  /\ reconnectGate' = FALSE /\ tries' = 0
  /\ UNCHANGED <<calls, dev, dataVars, healthVars, lockVars, recoveryVars,
                 told, indications, spawned, unheard, sessionVars>>

Reconnecting == Try \/ Release

-----------------------------------------------------------------------------
(* The modem.                                                              *)

Deafen ==
  /\ modem = "ok" /\ deafs < MaxDeaf
  /\ modem' = "deaf" /\ deafs' = deafs + 1
  /\ UNCHANGED <<calls, dev, dataVars, healthVars, place, cont, lockVars,
                 recoveryVars, told, lossVars, session, drops>>

Hears ==
  /\ modem = "deaf" /\ modem' = "ok"
  /\ UNCHANGED <<calls, dev, dataVars, healthVars, place, cont, lockVars,
                 recoveryVars, told, lossVars, session, deafs, drops>>

-----------------------------------------------------------------------------
Running(p) ==
  \/ Connecting(p) \/ LockDisconnect(p) \/ Disconnected(p) \/ LockClose(p) \/ Unlock(p)
  \/ p \in Recoveries /\ Recovering(p)
  \/ p = Reconnector /\ Reconnecting

ManagerNext ==
  \/ \E u \in Users : Begin(u)
  \/ \E p \in Procs : Running(p)
  \/ Probe
  \/ HandleConnectIndication \/ Reconnect
  \/ Drop \/ Deafen \/ Hears

\* Goroutines run, deadlines pass and tickers tick; the modem owes nothing.
ManagerFairness ==
  /\ \A p \in Procs : WF_managerVars(Running(p))
  /\ WF_managerVars(Probe)

ManagerSpec == ManagerInit /\ [][ManagerNext]_managerVars /\ ManagerFairness

-----------------------------------------------------------------------------
Places == {"idle", "connect", "register", "activate", "reopen", "reopening", "configure",
           "commit", "disconnect", "rotate", "disconnecting", "rotating", "unlock",
           "close", "teardown", "begin", "open", "verify", "failed", "try", "release"}
Holding == {"register", "activate", "reopen", "reopening", "configure", "commit",
            "disconnecting", "rotating", "unlock", "teardown"}

\* The state has its types, and dataMu is held by whoever is in a locked part
\* (manager.go:28-80).
ManagerTypeOK ==
  /\ calls \in 0..MaxCalls
  /\ dev \in BOOLEAN
  /\ desired \in BOOLEAN /\ connected \in BOOLEAN
  /\ failures \in 0..Threshold /\ late \in BOOLEAN
  /\ place \in [Procs -> Places] /\ cont \in [Procs -> [ok : Places, failed : Places]]
  /\ gate \in BOOLEAN /\ want \in [Recoveries -> BOOLEAN]
  /\ attempt \in [Recoveries -> 0..Attempts] /\ wish \in [Recoveries -> BOOLEAN]
  /\ crossed \subseteq Recoveries
  /\ reconnectGate \in BOOLEAN /\ tries \in 0..Tries
  /\ dataMu = {p \in Procs : place[p] \in Holding} /\ Cardinality(dataMu) <= 1
  /\ reopened \in BOOLEAN
  /\ modem \in {"ok", "deaf"} /\ session \in BOOLEAN
  /\ indications \in 0..MaxDrops /\ spawned \in 0..MaxDrops
  /\ deafs \in 0..MaxDeaf /\ drops \in 0..MaxDrops
  /\ told \in BOOLEAN /\ missed \in BOOLEAN /\ unheard \in BOOLEAN

Quiet == \A p \in Procs : place[p] = "idle"

\* A data session is never believed up without a control endpoint to manage it
\* (dataconn.go:135-139, manager.go:250-262).
ConnectedHasDevice == connected => dev

\* An endpoint that is lost is not lost silently: its owner closed it, or was
\* told that the recovery is exhausted, unless a Connect, of a caller or of the
\* reconnection, closed it and could not open it again (recovery.go:56-91,
\* dataconn.go:206-229).
LossReported == Quiet /\ ~dev => told

\* A session believed up that the modem does not have is known to be lost, unless,
\* since it was activated, its deactivation was not indicated, or the drop was handled
\* while a reconnection held the gate, or a Connect has failed.  Nothing asks the modem
\* (dataconn.go:68-141, 355-390; manager.go:184-186; pkg/mbim/device.go:190-200).
Looked == indications > 0 \/ spawned > 0 \/ reconnectGate \/ dataMu # {}
DropNoticed == connected /\ ~session => Looked \/ missed \/ unheard

\* What is true of the manager at every moment.
ManagerConsistent == ManagerTypeOK /\ ConnectedHasDevice /\ LossReported /\ DropNoticed

\* An open endpoint that falls silent and stays so does not stay open, or its owner is
\* told: the probes lead to a recovery.  It does not hold of one whose health is
\* recovering already: the failure that would have started a recovery has been counted
\* (healthprobe.go:82-135).
DeafNoticed ==
  dev /\ modem = "deaf" /\ failures < Threshold ~> ~dev \/ modem = "ok" \/ told

\* A recovery whose first attempt succeeds has restored the data session that was
\* desired when it was triggered, although the reopening forgets the wish, unless
\* a caller disconnected or closed meanwhile, or another recovery, which the gate does
\* not keep out, closed the endpoint meanwhile (recovery.go:93-110, manager.go:258-262).
DataRestored ==
  [][\A r \in Recoveries :
       place[r] = "verify" /\ place'[r] = "idle" /\ wish[r] /\ r \notin crossed
         => desired]_managerVars
=============================================================================
