----------------------------- MODULE WorkerPool -----------------------------
(***************************************************************************)
(* The worker of one device (internal/device: pool.go, pool_bootstrap.go,  *)
(* pool_reboot_recovery.go, transport_recovery_controller.go,              *)
(* qmi_transport_error.go, pool_health_ip.go, lifecycle.go): goroutines    *)
(* that start it, remove it, rebuild it and recover it, with the rebuilding *)
(* mark and its attempts, the watchdog of a start, the recovery mark and   *)
(* the active transport event.                                             *)
(*                                                                         *)
(* A worker is named by the attempt that made it.                          *)
(***************************************************************************)
EXTENDS Integers, FiniteSets

CONSTANTS
  Procs,       \* goroutines
  Programs,    \* what they do: a set of functions from Procs to Kinds
  MaxAttempts, \* bound: starts of the device
  Rounds,      \* scans of a recovery (len(opts.delays))
  Cap          \* rebuildMaxInWindow

Kinds == {"idle", "add", "remove", "rebuild", "suspect", "exhausted", "manual", "at"}

ASSUME ProgramAssumption == Programs \subseteq [Procs -> Kinds]
ASSUME BoundAssumption ==
  MaxAttempts \in Nat \ {0} /\ Rounds \in Nat \ {0} /\ Cap \in Nat \ {0}

None == 0
Attempts == 1..MaxAttempts

VARIABLES
  program, backend,
  workers,     \* p.workers[id], or None
  running,     \* workers that hold the modem open
  rebuilding,  \* p.rebuilding[id]
  attempt,     \* p.rebuildAttempt[id]
  generation,  \* p.workerGenerations[id]
  genOf,       \* Worker.generation
  current, active, budget, \* TransportRecoveryController
  recovering,  \* p.modemRebootRecovering[id]
  grace,       \* lifecycle: recovering, deadline not reached
  stage, cont, \* where a goroutine is, and where its call returns to
  token,       \* attempt of AddWorkerFromConfig
  victim, marked, \* RemoveWorker: the worker, and whether the mark is its own
  noticed,     \* generation a transport event was raised for
  round,
  released,    \* history: attempts whose mark was taken away while they ran
  torn         \* history: workers removed before their start returned

poolVars    == <<workers, rebuilding, attempt, generation, genOf>>
controlVars == <<current, active, budget>>
callVars    == <<token, victim, marked>>
recoverVars == <<recovering, noticed, round>>
historyVars == <<released, torn>>
rest        == <<program, backend>>
vars == <<poolVars, controlVars, callVars, recoverVars, historyVars, rest,
          running, grace, stage, cont>>

Go(p, s) == stage' = [stage EXCEPT ![p] = s]
Return(p) == Go(p, cont[p])
Call(p, s, return) == Go(p, s) /\ cont' = [cont EXCEPT ![p] = return]

StartStages == {"boot", "assigned", "published", "register", "core", "started"}
Starting(p) == stage[p] \in StartStages

Init ==
  /\ program \in Programs /\ backend \in {"qmi", "mbim"}
  /\ workers = 1 /\ running = {1} /\ rebuilding = FALSE
  /\ attempt = 1 /\ generation = 1 /\ genOf = [a \in Attempts |-> IF a = 1 THEN 1 ELSE 0]
  /\ current = 1 /\ active = FALSE /\ budget = 0
  /\ recovering = FALSE /\ grace = FALSE
  /\ stage = [p \in Procs |-> "new"] /\ cont = [p \in Procs |-> "done"]
  /\ token = [p \in Procs |-> None] /\ victim = [p \in Procs |-> None]
  /\ marked = [p \in Procs |-> FALSE]
  /\ noticed = [p \in Procs |-> 0] /\ round = [p \in Procs |-> 0]
  /\ released = {} /\ torn = {}

-----------------------------------------------------------------------------
(* AddWorkerFromConfig.                                                    *)

\* The mark is gone; the starts that are still going on lose its protection.
Unprotected == released' = released \union {token[q] : q \in {r \in Procs : Starting(r)}}

BeginRebuildAttempt(p) ==
  /\ stage[p] = "add"
  /\ IF workers # None \/ rebuilding
       THEN Return(p) /\ UNCHANGED <<rebuilding, attempt, token, grace>>
       ELSE /\ attempt < MaxAttempts
            /\ rebuilding' = TRUE /\ attempt' = attempt + 1
            /\ token' = [token EXCEPT ![p] = attempt + 1]
            /\ grace' = (grace \/ backend = "qmi")
            /\ Go(p, "boot")
  /\ UNCHANGED <<workers, generation, genOf, controlVars, victim, marked, recoverVars,
                 historyVars, rest, running, cont>>

\* endRebuildAttemptIfCurrent
EndRebuildAttempt(p) ==
  rebuilding' = (rebuilding /\ attempt # token[p])

\* The probes fail, or the worker is there: an MBIM modem is open by then.
Boot(p) ==
  /\ stage[p] = "boot"
  /\ \/ Return(p) /\ EndRebuildAttempt(p) /\ UNCHANGED <<generation, genOf, running>>
     \/ /\ generation' = generation + 1
        /\ genOf' = [genOf EXCEPT ![token[p]] = generation + 1]
        /\ running' = IF backend = "mbim" THEN running \union {token[p]} ELSE running
        /\ Go(p, "assigned") /\ UNCHANGED rebuilding
  /\ UNCHANGED <<workers, attempt, controlVars, callVars, recoverVars, historyVars, rest,
                 grace, cont>>

\* SetWorkerGeneration: another generation empties the window of rebuilds.
SetWorkerGeneration(p) ==
  /\ stage[p] = "assigned"
  /\ current' = genOf[token[p]]
  /\ budget' = IF current = genOf[token[p]] THEN budget ELSE 0
  /\ Go(p, "published")
  /\ UNCHANGED <<poolVars, active, callVars, recoverVars, historyVars, rest, running,
                 grace, cont>>

\* A failure of what follows closes what the start has opened.
FailStart(p) ==
  /\ stage[p] = "published"
  /\ running' = running \ {token[p]}
  /\ EndRebuildAttempt(p) /\ Return(p)
  /\ UNCHANGED <<workers, attempt, generation, genOf, controlVars, callVars, recoverVars,
                 historyVars, rest, grace, cont>>

\* A start that a newer one has overtaken gives up; it leaves an MBIM modem open.
CheckAttempt(p) ==
  /\ stage[p] = "published"
  /\ IF attempt = token[p]
       THEN Go(p, "register") /\ UNCHANGED <<running, rebuilding>>
       ELSE /\ running' = IF backend = "mbim" THEN running ELSE running \ {token[p]}
            /\ EndRebuildAttempt(p) /\ Return(p)
  /\ UNCHANGED <<workers, attempt, generation, genOf, controlVars, callVars, recoverVars,
                 historyVars, rest, grace, cont>>

\* Mutant: a second worker takes the place of the first.
RegisterAnyway(p) ==
  /\ stage[p] = "register" /\ backend = "qmi"
  /\ workers' = token[p] /\ Go(p, "core")
  /\ UNCHANGED <<rebuilding, attempt, generation, genOf, controlVars, callVars, recoverVars,
                 historyVars, rest, running, grace, cont>>

\* registerWorkerStarting refuses a second worker; the other backends overwrite it.
RegisterStarting(p) ==
  /\ stage[p] = "register" /\ backend = "qmi"
  /\ IF workers # None
       THEN EndRebuildAttempt(p) /\ Return(p) /\ UNCHANGED workers
       ELSE workers' = token[p] /\ Go(p, "core") /\ UNCHANGED rebuilding
  /\ UNCHANGED <<attempt, generation, genOf, controlVars, callVars, recoverVars,
                 historyVars, rest, running, grace, cont>>

Register(p) ==
  /\ stage[p] = "register" /\ backend = "mbim"
  /\ workers' = token[p] /\ Go(p, "started")
  /\ UNCHANGED <<rebuilding, attempt, generation, genOf, controlVars, callVars, recoverVars,
                 historyVars, rest, running, grace, cont>>

StartCore(p) ==
  /\ stage[p] = "core"
  /\ \/ running' = running \union {token[p]} /\ Go(p, "started")
        /\ UNCHANGED <<workers, rebuilding>>
     \/ /\ workers' = IF workers = token[p] THEN None ELSE workers
        /\ running' = running \ {token[p]}
        /\ EndRebuildAttempt(p) /\ Return(p)
  /\ UNCHANGED <<attempt, generation, genOf, controlVars, callVars, recoverVars,
                 historyVars, rest, grace, cont>>

Started(p) ==
  /\ stage[p] = "started"
  /\ EndRebuildAttempt(p) /\ Return(p)
  /\ UNCHANGED <<workers, attempt, generation, genOf, controlVars, callVars, recoverVars,
                 historyVars, rest, running, grace, cont>>

\* Mutant: the watchdog only logs.
WatchdogOnlyLogs(p) ==
  /\ Starting(p) /\ attempt = token[p] /\ token[p] \notin released
  /\ released' = released \union {token[p]}
  /\ UNCHANGED <<poolVars, controlVars, callVars, recoverVars, torn, rest, running, grace,
                 stage, cont>>

\* startBootstrapWatchdog: the mark of a start that does not return.
Watchdog(p) ==
  /\ Starting(p) /\ attempt = token[p] /\ token[p] \notin released
  /\ rebuilding' = FALSE /\ Unprotected
  /\ UNCHANGED <<workers, attempt, generation, genOf, controlVars, callVars, recoverVars,
                 torn, rest, running, grace, stage, cont>>

-----------------------------------------------------------------------------
(* RemoveWorker and RebuildWorker.                                         *)

Unregister(p) ==
  /\ stage[p] = "remove"
  /\ IF workers # None
       THEN /\ workers' = None /\ rebuilding' = TRUE
            /\ marked' = [marked EXCEPT ![p] = ~rebuilding]
            /\ victim' = [victim EXCEPT ![p] = workers]
            /\ torn' = IF \E q \in Procs : Starting(q) /\ token[q] = workers
                         THEN torn \union {workers} ELSE torn
            /\ Go(p, "stop")
       ELSE /\ IF rebuilding THEN Go(p, "settle") ELSE Return(p)
            /\ UNCHANGED <<workers, rebuilding, marked, victim, torn>>
  /\ UNCHANGED <<attempt, generation, genOf, controlVars, token, recoverVars, released,
                 rest, running, grace, cont>>

\* waitWorkerInitSettled
Settle(p) ==
  /\ stage[p] = "settle"
  /\ \/ (workers # None \/ ~rebuilding) /\ Go(p, "remove")
     \/ Return(p)
  /\ UNCHANGED <<poolVars, controlVars, callVars, recoverVars, historyVars, rest, running,
                 grace, cont>>

StopWorker(p) ==
  /\ stage[p] = "stop"
  /\ running' = running \ {victim[p]}
  /\ Go(p, "unmark")
  /\ UNCHANGED <<poolVars, controlVars, callVars, recoverVars, historyVars, rest, grace,
                 cont>>

Unmark(p) ==
  /\ stage[p] = "unmark"
  /\ IF marked[p] THEN rebuilding' = FALSE /\ Unprotected
                  ELSE UNCHANGED <<rebuilding, released>>
  /\ Return(p)
  /\ UNCHANGED <<workers, attempt, generation, genOf, controlVars, callVars, recoverVars,
                 torn, rest, running, grace, cont>>

\* RebuildWorker takes the mark, and gives it back before the start.
Rebuild(p) ==
  /\ program[p] = "rebuild" /\ stage[p] = "new"
  /\ rebuilding' = TRUE
  /\ Call(p, "remove", "handover")
  /\ UNCHANGED <<workers, attempt, generation, genOf, controlVars, callVars, recoverVars,
                 historyVars, rest, running, grace>>

HandOver(p) ==
  /\ stage[p] = "handover"
  /\ rebuilding' = FALSE /\ Unprotected
  /\ Call(p, "add", "done") \/ Call(p, "done", "done")
  /\ UNCHANGED <<workers, attempt, generation, genOf, controlVars, callVars, recoverVars,
                 torn, rest, running, grace>>

-----------------------------------------------------------------------------
(* What begins them.                                                       *)

\* runHealthCheck: a configured device without a worker, or the API.
FastStart(p) ==
  /\ program[p] = "add" /\ stage[p] = "new"
  /\ workers = None /\ ~rebuilding /\ ~recovering
  /\ Call(p, "add", "done")
  /\ UNCHANGED <<poolVars, controlVars, callVars, recoverVars, historyVars, rest, running,
                 grace>>

Delete(p) ==
  /\ program[p] = "remove" /\ stage[p] = "new"
  /\ Call(p, "remove", "done")
  /\ UNCHANGED <<poolVars, controlVars, callVars, recoverVars, historyVars, rest, running,
                 grace>>

\* The health check finds a worker that does not answer, outside of its grace.
Suspect(p) ==
  /\ program[p] = "suspect" /\ stage[p] = "new"
  /\ workers # None /\ ~grace
  /\ grace' = TRUE
  /\ noticed' = [noticed EXCEPT ![p] = genOf[workers]] /\ Go(p, "observe")
  /\ UNCHANGED <<poolVars, controlVars, callVars, recovering, round, historyVars, rest,
                 running, cont>>

\* maybeScheduleTransportRebuild: the transport has given up; AllowRebuild counts.
Exhausted(p) ==
  /\ program[p] = "exhausted" /\ stage[p] = "new"
  /\ workers # None
  /\ IF budget < Cap
       THEN /\ budget' = budget + 1
            /\ noticed' = [noticed EXCEPT ![p] = genOf[workers]] /\ Go(p, "check")
       ELSE Go(p, "done") /\ UNCHANGED <<budget, noticed>>
  /\ UNCHANGED <<poolVars, current, active, callVars, recovering, round, historyVars, rest,
                 running, grace, cont>>

\* handleTransportRecoveryExhausted: a worker that was replaced is left alone.
HandleExhausted(p) ==
  /\ stage[p] = "check"
  /\ IF workers # None /\ genOf[workers] = noticed[p] THEN Go(p, "observe") ELSE Go(p, "done")
  /\ UNCHANGED <<poolVars, controlVars, callVars, recoverVars, historyVars, rest, running,
                 grace, cont>>

Observe(p) ==
  /\ stage[p] = "observe"
  /\ IF noticed[p] # current \/ active
       THEN Go(p, "done") /\ UNCHANGED active
       ELSE Go(p, "begin") /\ active' = TRUE
  /\ UNCHANGED <<poolVars, current, budget, callVars, recoverVars, historyVars, rest,
                 running, grace, cont>>

\* ScheduleModemRebootRecovery and scheduleATDisconnectRecovery have no event.
ScheduleRecovery(p) ==
  /\ program[p] \in {"manual", "at"} /\ stage[p] = "new"
  /\ Go(p, "begin")
  /\ UNCHANGED <<poolVars, controlVars, callVars, recoverVars, historyVars, rest, running,
                 grace, cont>>

-----------------------------------------------------------------------------
(* runModemRebootRecovery.                                                 *)

\* One recovery at a time: another one clears the active event and goes.
BeginRecovery(p) ==
  /\ stage[p] = "begin"
  /\ IF recovering
       THEN /\ active' = (active /\ program[p] \in {"manual", "at"})
            /\ Go(p, "done") /\ UNCHANGED <<recovering, grace, cont>>
       ELSE /\ recovering' = TRUE /\ grace' = TRUE
            /\ IF program[p] = "at" THEN Go(p, "scan") /\ UNCHANGED cont
                                    ELSE Call(p, "remove", "scan")
            /\ UNCHANGED active
  /\ UNCHANGED <<poolVars, current, budget, callVars, noticed, round, historyVars, rest,
                 running>>

\* rescanAndReconnect: a matched device is started, replaced or left; one that is
\* offline loses its worker.
Rescan(p) ==
  /\ stage[p] = "scan" /\ round[p] < Rounds
  /\ round' = [round EXCEPT ![p] = @ + 1]
  /\ \/ Go(p, "scan") /\ UNCHANGED cont
     \/ workers = None /\ Call(p, "add", "judge")
     \/ workers # None /\ (Call(p, "judge", "judge") \/ Call(p, "remove", "readd")
                           \/ Call(p, "remove", "judge"))
  /\ UNCHANGED <<poolVars, controlVars, callVars, recovering, noticed, historyVars, rest,
                 running, grace>>

ReAdd(p) ==
  /\ stage[p] = "readd"
  /\ Call(p, "add", "judge")
  /\ UNCHANGED <<poolVars, controlVars, callVars, recoverVars, historyVars, rest, running,
                 grace>>

\* The identity of the recovered worker: read, or its transport is down again, or
\* only the control plane is back.
Judge(p) ==
  /\ stage[p] = "judge"
  /\ \/ Go(p, "scan") /\ UNCHANGED cont
     \/ workers # None /\ Call(p, "remove", "scan")
     \/ workers # None /\ Go(p, "finish") /\ UNCHANGED cont
  /\ UNCHANGED <<poolVars, controlVars, callVars, recoverVars, historyVars, rest, running,
                 grace>>

Exhaust(p) ==
  /\ stage[p] = "scan" /\ round[p] = Rounds
  /\ Go(p, "finish")
  /\ UNCHANGED <<poolVars, controlVars, callVars, recoverVars, historyVars, rest, running,
                 grace, cont>>

FinishRecovery(p) ==
  /\ stage[p] = "finish"
  /\ recovering' = FALSE /\ Go(p, "forget")
  /\ UNCHANGED <<poolVars, controlVars, callVars, noticed, round, historyVars, rest,
                 running, grace, cont>>

\* Finish deletes the active event, whoever observed it.
Finish(p) ==
  /\ stage[p] = "forget"
  /\ active' = FALSE /\ Go(p, "done")
  /\ UNCHANGED <<poolVars, current, budget, callVars, recoverVars, historyVars, rest,
                 running, grace, cont>>

\* FinishOnline, or the deadline of the lifecycle.
GraceEnds ==
  /\ grace /\ grace' = FALSE
  /\ UNCHANGED <<poolVars, controlVars, callVars, recoverVars, historyVars, rest, running,
                 stage, cont>>

StartStep(p) ==
  BeginRebuildAttempt(p) \/ SetWorkerGeneration(p) \/ FailStart(p) \/ CheckAttempt(p)
  \/ RegisterStarting(p) \/ Register(p) \/ Started(p)
RemoveStep(p) == Unregister(p) \/ Settle(p) \/ StopWorker(p) \/ Unmark(p)
                 \/ Rebuild(p) \/ HandOver(p)
RecoveryStep(p) ==
  HandleExhausted(p) \/ Observe(p) \/ BeginRecovery(p) \/ Rescan(p) \/ ReAdd(p)
  \/ Judge(p) \/ Exhaust(p) \/ FinishRecovery(p) \/ Finish(p)
Trigger(p) == FastStart(p) \/ Delete(p) \/ Suspect(p) \/ Exhausted(p) \/ ScheduleRecovery(p)

Step(p) == StartStep(p) \/ RemoveStep(p) \/ RecoveryStep(p)
\* What asks the modem, and may hang.
Hanging(p) == Boot(p) \/ StartCore(p)

Next ==
  \/ \E p \in Procs : Step(p) \/ Hanging(p) \/ Trigger(p) \/ Watchdog(p)
  \/ GraceEnds

Spec == Init /\ [][Next]_vars

\* Goroutines and timers run; no probe of the modem is sure to return.
FairSpec == Spec /\ \A p \in Procs : WF_vars(Step(p)) /\ WF_vars(Watchdog(p))

-----------------------------------------------------------------------------
Stages == StartStages \union
  {"new", "add", "remove", "settle", "stop", "unmark", "handover", "check", "observe",
   "begin", "scan", "readd", "judge", "finish", "forget", "done"}
Recovering(p) == \/ stage[p] \in {"scan", "readd", "judge", "finish"}
                 \/ cont[p] \in {"scan", "readd", "judge"} /\ stage[p] \notin {"forget", "done"}

(* The recovery mark is that of the one recovery at work, and every field has its
   type. *)
TypeOK ==
  /\ program \in Programs /\ backend \in {"qmi", "mbim"}
  /\ workers \in Attempts \union {None} /\ running \subseteq Attempts
  /\ rebuilding \in BOOLEAN /\ attempt \in Attempts
  /\ generation \in Nat /\ genOf \in [Attempts -> Nat]
  /\ current \in Nat /\ active \in BOOLEAN /\ budget \in 0..Cap
  /\ grace \in BOOLEAN
  /\ stage \in [Procs -> Stages] /\ cont \in [Procs -> Stages]
  /\ token \in [Procs -> 0..attempt] /\ victim \in [Procs -> 0..attempt]
  /\ marked \in [Procs -> BOOLEAN] /\ noticed \in [Procs -> Nat]
  /\ round \in [Procs -> 0..Rounds]
  /\ released \subseteq Attempts /\ torn \subseteq Attempts
  /\ recovering \in BOOLEAN
  /\ recovering = \E p \in Procs : Recovering(p)
  /\ \A p, q \in Procs : Recovering(p) /\ Recovering(q) => p = q

(* A device is started by one goroutine at a time, under the mark of its attempt,
   unless the mark was taken away from a start that went on: by its watchdog, or by
   a rebuild or removal that such a start overlaps. *)
StartProtected ==
  /\ \A p \in Procs : Starting(p) /\ token[p] \notin released =>
       rebuilding /\ attempt = token[p]
  /\ \A p, q \in Procs :
       Starting(p) /\ Starting(q) /\ {token[p], token[q]} \intersect released = {} => p = q

(* No worker is forgotten with the modem open: it is registered, or a goroutine that
   starts or removes it still holds it.  The two exceptions are those of the code: a
   worker removed while its core was being started, and an MBIM start that went on
   without its mark. *)
NoOrphan ==
  \A w \in running :
    \/ w = workers
    \/ \E p \in Procs : Starting(p) /\ token[p] = w
    \/ \E p \in Procs : stage[p] = "stop" /\ victim[p] = w
    \/ w \in torn
    \/ backend = "mbim" /\ released # {}

(* The controller refuses an event for its generation only if it is not that of the
   registered worker: as long as no start lost its mark, the worker that is
   registered is heard. *)
WorkerHeard ==
  workers # None /\ released = {} =>
    \/ current = genOf[workers]
    \/ \E p \in Procs : Starting(p)

\* What is true of the pool's maps, the workers and the controller at every moment.
Consistent == TypeOK /\ StartProtected /\ NoOrphan /\ WorkerHeard

(* The slot of the device is freed and its recovery ends with its event forgotten,
   even when a start hangs: only a recovery that hangs in its own start keeps the
   recovery mark. *)
MarksReleased ==
  /\ rebuilding ~> ~rebuilding
  /\ (recovering \/ active) ~>
       (~recovering /\ ~active) \/ \E p \in Procs : Recovering(p) /\ Starting(p)
=============================================================================
