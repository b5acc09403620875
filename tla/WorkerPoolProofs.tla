-------------------------- MODULE WorkerPoolProofs --------------------------
(***************************************************************************)
(* Proofs about WorkerPool, for every set of goroutines, every mix of what *)
(* they do and every bound: the device is started by one goroutine at a    *)
(* time, no worker is forgotten, and the one that is registered is heard.  *)
(***************************************************************************)
EXTENDS WorkerPool, TLAPS

\* No attempt is known that has not begun.
Types ==
  /\ program \in Programs /\ backend \in {"qmi", "mbim"}
  /\ attempt \in Attempts /\ workers \in 0..attempt /\ running \subseteq 1..attempt
  /\ rebuilding \in BOOLEAN
  /\ generation \in Nat /\ genOf \in [Attempts -> Nat]
  /\ current \in Nat /\ active \in BOOLEAN /\ budget \in 0..Cap
  /\ grace \in BOOLEAN
  /\ stage \in [Procs -> Stages] /\ cont \in [Procs -> Stages]
  /\ token \in [Procs -> 0..attempt] /\ victim \in [Procs -> 0..attempt]
  /\ marked \in [Procs -> BOOLEAN] /\ noticed \in [Procs -> Nat]
  /\ round \in [Procs -> 0..Rounds]
  /\ released \subseteq 1..attempt /\ torn \subseteq 1..attempt
  /\ recovering \in BOOLEAN

\* Where a call returns to, and the one recovery at work.
OneRecovery ==
  /\ \A p \in Procs :
       /\ cont[p] \in {"done", "scan", "readd", "judge", "handover"}
       /\ stage[p] \in {"new", "check", "observe", "begin"} => cont[p] = "done"
       /\ stage[p] = "handover" => cont[p] = "handover"
  /\ recovering = \E p \in Procs : Recovering(p)
  /\ \A p, q \in Procs : Recovering(p) /\ Recovering(q) => p = q

\* A start that has not registered its worker yet.
Early == {"boot", "assigned", "published", "register"}

\* MBIM only: a start went on without its mark.
Unmarked == backend = "mbim" /\ released # {}

\* Every start has an attempt of its own, and has the mark if it is not released.
Starts ==
  /\ \A p \in Procs : Starting(p) => token[p] # None
  /\ \A p, q \in Procs : Starting(p) /\ Starting(q) /\ token[p] = token[q] => p = q
  /\ \A p \in Procs : Starting(p) /\ token[p] \notin released => rebuilding /\ attempt = token[p]

\* What a start has done so far: it opens the modem late on QMI and early on MBIM, and what
\* it has registered stays until somebody removes it.
Progress ==
  /\ \A p \in Procs : stage[p] \in Early => workers # token[p]
  /\ \A p \in Procs :
       stage[p] = "boot" \/ (backend = "qmi" /\ stage[p] \in Early \cup {"core"})
         => token[p] \notin running
  /\ \A p \in Procs :
       stage[p] \in {"core", "started"} => workers = token[p] \/ token[p] \in torn \/ Unmarked

\* As long as no start lost its mark, the registered worker is that of the start at work,
\* and the controller has been told of it.
Told ==
  released = {} =>
    \A p \in Procs :
      /\ Starting(p) => workers \in {None, token[p]}
      /\ stage[p] \in {"published", "register", "core", "started"} => current = genOf[token[p]]

Held == Starts /\ Progress /\ Told /\ NoOrphan /\ WorkerHeard

Inv == Types /\ OneRecovery /\ Held

-----------------------------------------------------------------------------
\* What the bounds say of attempts.
LEMMA Constants ==
  /\ MaxAttempts \in Nat /\ 1 \in Attempts /\ Rounds \in Nat /\ Cap \in Nat
  /\ \A a \in Attempts : a \in Nat /\ a > 0
  /\ \A a \in Attempts : 0..a \subseteq Attempts \cup {None} /\ 1..a \subseteq Attempts
BY BoundAssumption DEF Attempts, None

\* The first worker runs, and nobody does anything.
LEMMA InvInit == Init => Inv
<1> SUFFICES ASSUME Init PROVE Inv
  OBVIOUS
<1>1. /\ stage = [p \in Procs |-> "new"] /\ cont = [p \in Procs |-> "done"]
      /\ token = [p \in Procs |-> 0] /\ victim = [p \in Procs |-> 0]
      /\ workers = 1 /\ running = {1} /\ attempt = 1 /\ current = 1 /\ released = {} /\ torn = {}
      /\ recovering = FALSE /\ genOf = [a \in Attempts |-> IF a = 1 THEN 1 ELSE 0]
  BY DEF Init, None
<1>2. Types
  <2>1. stage \in [Procs -> Stages] /\ cont \in [Procs -> Stages]
    BY <1>1 DEF Stages
  <2>2. genOf \in [Attempts -> Nat] /\ genOf[1] = 1
    BY <1>1, Constants
  <2>3. round \in [Procs -> 0..Rounds] /\ budget \in 0..Cap
    BY Constants DEF Init
  <2>4. /\ token \in [Procs -> 0..1] /\ victim \in [Procs -> 0..1]
        /\ marked \in [Procs -> BOOLEAN] /\ noticed \in [Procs -> Nat]
    BY <1>1 DEF Init, None
  <2>5. /\ program \in Programs /\ backend \in {"qmi", "mbim"} /\ rebuilding \in BOOLEAN
        /\ generation \in Nat /\ current \in Nat /\ active \in BOOLEAN /\ grace \in BOOLEAN
    BY DEF Init
  <2>6. workers \in 0..attempt /\ running \subseteq 1..attempt /\ attempt \in Attempts
    BY <1>1, Constants
  <2>7. QED
    BY <1>1, <2>1, <2>2, <2>3, <2>4, <2>5, <2>6 DEF Types
<1>3. OneRecovery
  BY <1>1 DEF OneRecovery, Recovering
<1>4. \A p \in Procs : ~Starting(p) /\ stage[p] = "new"
  BY <1>1 DEF Starting, StartStages
<1>5. Starts /\ Progress /\ Told
  BY <1>4 DEF Starts, Progress, Told, Early
<1>6. NoOrphan /\ WorkerHeard
  BY <1>1, Constants DEF NoOrphan, WorkerHeard
<1>7. QED
  BY <1>2, <1>3, <1>5, <1>6 DEF Inv, Held

-----------------------------------------------------------------------------
(* Where a goroutine is.                                                   *)

\* A goroutine at s whose call returns to c is at work on a recovery.
At(s, c) == \/ s \in {"scan", "readd", "judge", "finish"}
            \/ c \in {"scan", "readd", "judge"} /\ s \notin {"forget", "done"}

Returns == {"done", "scan", "readd", "judge", "handover"}

\* A goroutine goes from a step to another: the others stay, and so does the recovery.
LEMMA OneRecoveryKept ==
  ASSUME Inv, NEW p \in Procs, NEW s \in Stages, NEW c \in Returns,
         stage' = [stage EXCEPT ![p] = s], cont' = [cont EXCEPT ![p] = c],
         s \in {"new", "check", "observe", "begin"} => c = "done",
         s = "handover" => c = "handover",
         recovering' = recovering, At(s, c) <=> At(stage[p], cont[p])
  PROVE  OneRecovery' /\ stage' \in [Procs -> Stages] /\ cont' \in [Procs -> Stages]
<1>1. c \in Stages
  BY DEF Returns, Stages
<1>2. /\ stage' \in [Procs -> Stages] /\ cont' \in [Procs -> Stages]
      /\ stage'[p] = s /\ cont'[p] = c
      /\ \A q \in Procs : q # p => stage'[q] = stage[q] /\ cont'[q] = cont[q]
  BY <1>1 DEF Inv, Types
<1>3. \A q \in Procs : Recovering(q)' <=> Recovering(q)
  BY <1>2 DEF Recovering, At
<1>4. QED
  BY <1>2, <1>3 DEF Inv, OneRecovery, Returns

\* A goroutine that goes to a stage which is not a call.
LEMMA GoKept ==
  ASSUME Inv, NEW p \in Procs, NEW s \in Stages,
         stage' = [stage EXCEPT ![p] = s], cont' = cont,
         s \in {"new", "check", "observe", "begin"} => cont[p] = "done",
         s = "handover" => cont[p] = "handover",
         recovering' = recovering, At(s, cont[p]) <=> At(stage[p], cont[p])
  PROVE  OneRecovery' /\ stage' \in [Procs -> Stages] /\ cont' \in [Procs -> Stages]
<1>1. cont' = [cont EXCEPT ![p] = cont[p]] /\ cont[p] \in Returns
  BY DEF Inv, Types, OneRecovery, Returns
<1>2. QED
  BY <1>1, OneRecoveryKept

Busy == StartStages \cup {"add", "remove", "settle", "stop", "unmark"}

\* A goroutine that returns to whoever called.
LEMMA ReturnKept ==
  ASSUME Inv, NEW p \in Procs, stage[p] \in Busy, Return(p), cont' = cont,
         recovering' = recovering
  PROVE  /\ OneRecovery' /\ stage' \in [Procs -> Stages] /\ cont' \in [Procs -> Stages]
         /\ stage'[p] \in Returns /\ \A q \in Procs : q # p => stage'[q] = stage[q]
<1>1. cont[p] \in Returns /\ cont[p] \in Stages /\ stage' = [stage EXCEPT ![p] = cont[p]]
  BY DEF Inv, Types, OneRecovery, Returns, Return, Go
<1>2. At(cont[p], cont[p]) <=> At(stage[p], cont[p])
  BY <1>1 DEF At, Returns, Busy, StartStages
<1>3. OneRecovery' /\ stage' \in [Procs -> Stages] /\ cont' \in [Procs -> Stages]
  BY <1>1, <1>2, GoKept DEF Returns
<1>4. QED
  BY <1>1, <1>3 DEF Inv, Types

\* A goroutine that neither starts nor stops a worker goes on to what is no start.
LEMMA HeldElsewhere ==
  ASSUME Inv, NEW p \in Procs, NEW s \in Stages,
         stage' = [stage EXCEPT ![p] = s],
         stage[p] \notin StartStages \cup {"stop"}, s \notin StartStages,
         rebuilding => rebuilding',
         UNCHANGED <<backend, workers, running, attempt, genOf, current, token, victim,
                     historyVars>>
  PROVE  Held'
<1>1. /\ stage'[p] = s /\ \A q \in Procs : q # p => stage'[q] = stage[q]
      /\ released' = released /\ torn' = torn
  BY DEF Inv, Types, historyVars
<1>2. \A q \in Procs : /\ Starting(q)' <=> Starting(q)
                       /\ Starting(q)' => stage'[q] = stage[q]
                       /\ stage[q] = "stop" => stage'[q] = "stop"
  BY <1>1 DEF Starting
<1>3. \A q \in Procs : stage'[q] \in Early \cup {"core", "started"} => stage'[q] = stage[q]
  BY <1>1 DEF Early, StartStages
<1>4. Starts'
  BY <1>1, <1>2 DEF Inv, Held, Starts, StartProtected
<1>5. Progress'
  BY <1>1, <1>3 DEF Inv, Held, Progress, Unmarked, Early
<1>6. Told'
  BY <1>1, <1>2, <1>3 DEF Inv, Held, Told, Early
<1>7. NoOrphan'
  BY <1>1, <1>2 DEF Inv, Held, NoOrphan
<1>8. WorkerHeard'
  BY <1>1, <1>2 DEF Inv, Held, WorkerHeard
<1>9. QED
  BY <1>4, <1>5, <1>6, <1>7, <1>8 DEF Held

-----------------------------------------------------------------------------
(* The steps of a start.                                                   *)

\* A start goes on to its next step, with nothing registered yet.
LEMMA HeldStarting ==
  ASSUME Inv, NEW p \in Procs, NEW s \in {"assigned", "published", "register"},
         stage' = [stage EXCEPT ![p] = s], stage[p] \in Early,
         UNCHANGED <<backend, rebuilding, attempt, token, victim, historyVars>>,
         UNCHANGED <<workers, running, genOf, current>>,
         s = "published" => current = genOf[token[p]],
         s = "register" => stage[p] \in {"published", "register"}
  PROVE  Held'
<1>1. /\ stage'[p] = s /\ \A q \in Procs : q # p => stage'[q] = stage[q]
      /\ released' = released /\ torn' = torn
  BY DEF Inv, Types, historyVars
<1>2. \A q \in Procs : /\ Starting(q)' <=> Starting(q)
                       /\ stage[q] = "stop" => stage'[q] = "stop"
  BY <1>1 DEF Starting, StartStages, Early
<1>3. Starts'
  BY <1>1, <1>2 DEF Inv, Held, Starts
<1>4. Progress'
  BY <1>1 DEF Inv, Held, Progress, Unmarked, Early
<1>5. Told'
  BY <1>1, <1>2 DEF Inv, Held, Told, Early
<1>6. NoOrphan'
  BY <1>1, <1>2 DEF Inv, Held, NoOrphan
<1>7. WorkerHeard'
  BY <1>1, <1>2 DEF Inv, Held, WorkerHeard
<1>8. QED
  BY <1>3, <1>4, <1>5, <1>6, <1>7 DEF Held

\* A start ends: the mark goes with it, and what it leaves open is registered, or was
\* removed by somebody else, or is an MBIM modem whose start went on without its mark.
LEMMA HeldStartEnds ==
  ASSUME Inv, NEW p \in Procs, Starting(p),
         stage'[p] \notin StartStages, \A q \in Procs : q # p => stage'[q] = stage[q],
         EndRebuildAttempt(p),
         running' \in {running, running \ {token[p]}},
         workers' \in {workers, IF workers = token[p] THEN None ELSE workers},
         token[p] \in running' => workers' = token[p] \/ token[p] \in torn \/ Unmarked,
         released = {} /\ workers' # None => current = genOf[workers'],
         UNCHANGED <<backend, attempt, genOf, current, token, victim, historyVars>>
  PROVE  Held'
<1>1. /\ released' = released /\ torn' = torn
      /\ workers' = workers \/ (workers = token[p] /\ workers' = None)
      /\ running' \subseteq running /\ \A w \in running \ running' : w = token[p]
  BY DEF historyVars
<1>2. \A q \in Procs : Starting(q)' <=> q # p /\ Starting(q)
  BY DEF Starting
<1>3. \A q \in Procs : q # p /\ Starting(q) => token[q] # token[p]
  BY DEF Inv, Held, Starts
<1>4. Starts'
  <2>1. \A q \in Procs : Starting(q)' /\ token[q] \notin released => rebuilding' /\ attempt = token[q]
    BY <1>2, <1>3 DEF EndRebuildAttempt, Inv, Held, Starts
  <2>2. QED
    BY <1>1, <1>2, <2>1 DEF Inv, Held, Starts
<1>5. \A q \in Procs : stage'[q] \in StartStages => q # p /\ stage'[q] = stage[q] /\ Starting(q)
  BY DEF Starting
<1>6. Progress'
  <2>1. SUFFICES ASSUME NEW q \in Procs, stage'[q] \in StartStages
                 PROVE  /\ stage[q] \in Early => workers' # token[q]
                        /\ stage[q] = "boot" \/ (backend = "qmi" /\ stage[q] \in Early \cup {"core"})
                             => token[q] \notin running'
                        /\ stage[q] \in {"core", "started"} =>
                             workers' = token[q] \/ token[q] \in torn \/ Unmarked
    BY <1>1, <1>5 DEF Progress, Unmarked, Early, StartStages
  <2>2. /\ stage[q] \in Early => workers # token[q]
        /\ stage[q] = "boot" \/ (backend = "qmi" /\ stage[q] \in Early \cup {"core"})
             => token[q] \notin running
        /\ stage[q] \in {"core", "started"} =>
             workers = token[q] \/ token[q] \in torn \/ Unmarked
    BY DEF Inv, Held, Progress
  <2>3. token[q] # token[p] /\ token[q] # None
    BY <1>3, <1>5, <2>1 DEF Inv, Held, Starts
  <2>4. QED
    BY <1>1, <2>2, <2>3
<1>7. released = {} => ~\E q \in Procs : Starting(q)'
  BY <1>2 DEF Inv, Held, Starts
<1>8. Told'
  BY <1>1, <1>5, <1>7 DEF Told, Starting, StartStages
<1>9. NoOrphan'
  <2>1. SUFFICES ASSUME NEW w \in running'
                 PROVE  \/ w = workers'
                        \/ \E q \in Procs : Starting(q)' /\ token[q] = w
                        \/ \E q \in Procs : stage'[q] = "stop" /\ victim[q] = w
                        \/ w \in torn
                        \/ backend = "mbim" /\ released # {}
    BY <1>1 DEF NoOrphan
  <2>2. CASE w = token[p]
    BY <2>1, <2>2 DEF Unmarked
  <2>3. CASE w # token[p]
    <3>1. \/ w = workers
          \/ \E q \in Procs : Starting(q) /\ token[q] = w
          \/ \E q \in Procs : stage[q] = "stop" /\ victim[q] = w
          \/ w \in torn
          \/ backend = "mbim" /\ released # {}
      BY <1>1, <2>1 DEF Inv, Held, NoOrphan
    <3>2. stage[p] # "stop"
      BY DEF Starting, StartStages
    <3>3. QED
      BY <1>1, <1>2, <2>3, <3>1, <3>2
  <2>4. QED
    BY <2>2, <2>3
<1>10. WorkerHeard'
  BY <1>1 DEF WorkerHeard
<1>11. QED
  BY <1>4, <1>6, <1>8, <1>9, <1>10 DEF Held

\* The types of what a step of a start does.
LEMMA EndTyped ==
  ASSUME Inv, NEW p \in Procs, Starting(p), EndRebuildAttempt(p)
  PROVE  rebuilding' \in BOOLEAN /\ token[p] \in 1..attempt /\ token[p] \in Attempts
BY Constants DEF EndRebuildAttempt, Inv, Types, Held, Starts, None

\* A start takes the mark under a number nobody had.
LEMMA InvBeginRebuildAttempt ==
  ASSUME Inv, NEW p \in Procs, BeginRebuildAttempt(p)
  PROVE  Inv'
<1>1. /\ stage[p] = "add" /\ recovering' = recovering /\ cont' = cont
      /\ UNCHANGED <<workers, generation, genOf, current, active, budget, victim, marked, noticed,
                     round, released, torn, program, backend, running>>
  BY DEF BeginRebuildAttempt, recoverVars, controlVars, historyVars, rest
<1>2. CASE workers # None \/ rebuilding
  <2>1. Return(p) /\ UNCHANGED <<rebuilding, attempt, token, grace>>
    BY <1>2 DEF BeginRebuildAttempt
  <2>2. OneRecovery' /\ stage' \in [Procs -> Stages] /\ cont' \in [Procs -> Stages]
    BY <1>1, <2>1, ReturnKept DEF Busy
  <2>3. Types'
    BY <1>1, <2>1, <2>2 DEF Inv, Types
  <2>4. cont[p] \in Stages /\ cont[p] \notin StartStages /\ stage' = [stage EXCEPT ![p] = cont[p]]
    BY <2>1 DEF Return, Go, Inv, Types, OneRecovery, StartStages
  <2>5. Held'
    BY <1>1, <2>1, <2>4, HeldElsewhere DEF StartStages, historyVars
  <2>6. QED
    BY <2>2, <2>3, <2>5 DEF Inv
<1>3. CASE ~(workers # None \/ rebuilding)
  <2>1. /\ workers = None /\ rebuilding = FALSE
        /\ attempt < MaxAttempts /\ rebuilding' = TRUE /\ attempt' = attempt + 1
        /\ token' = [token EXCEPT ![p] = attempt + 1]
        /\ grace' = (grace \/ backend = "qmi")
        /\ stage' = [stage EXCEPT ![p] = "boot"]
    BY <1>3 DEF BeginRebuildAttempt, Go, Inv, Types
  <2>2. OneRecovery' /\ stage' \in [Procs -> Stages] /\ cont' \in [Procs -> Stages]
    <3>1. "boot" \in Stages /\ (At("boot", cont[p]) <=> At(stage[p], cont[p]))
      BY <1>1 DEF At, Stages, StartStages
    <3>2. QED
      BY <1>1, <2>1, <3>1, GoKept
  <2>3. attempt \in Nat /\ attempt' \in Attempts /\ attempt' \in Nat /\ attempt < attempt'
    BY <2>1, Constants DEF Inv, Types, Attempts
  <2>4. /\ token'[p] = attempt' /\ \A q \in Procs : q # p => token'[q] = token[q]
        /\ token' \in [Procs -> 0..attempt'] /\ victim' \in [Procs -> 0..attempt']
    <3>1. token \in [Procs -> 0..attempt] /\ victim \in [Procs -> 0..attempt]
      BY DEF Inv, Types
    <3>2. 0..attempt \subseteq 0..attempt' /\ attempt' \in 0..attempt'
      BY <2>3
    <3>3. QED
      BY <1>1, <2>1, <3>1, <3>2
  <2>5. Types'
    <3>1. /\ workers' \in 0..attempt' /\ running' \subseteq 1..attempt'
          /\ released' \subseteq 1..attempt' /\ torn' \subseteq 1..attempt'
      BY <1>1, <2>1, <2>3 DEF Inv, Types, None
    <3>2. QED
      BY <1>1, <2>1, <2>2, <2>3, <2>4, <3>1 DEF Inv, Types
  <2>6. /\ stage'[p] = "boot" /\ \A q \in Procs : q # p => stage'[q] = stage[q]
        /\ \A q \in Procs : Starting(q)' <=> q = p \/ Starting(q)
        /\ ~Starting(p)
    BY <1>1, <2>1 DEF Inv, Types, Starting, StartStages
  <2>7. /\ attempt' # None /\ attempt' \notin running /\ attempt' \notin released
        /\ \A q \in Procs : token[q] # attempt'
    BY <2>3 DEF Inv, Types, None
  <2>8. \A q \in Procs : Starting(q) => token[q] \in released
    BY <2>1 DEF Inv, Held, Starts
  <2>9. Starts'
    BY <1>1, <2>1, <2>4, <2>6, <2>7, <2>8 DEF Inv, Held, Starts
  <2>10. Progress'
    <3>1. SUFFICES ASSUME NEW q \in Procs
                   PROVE  /\ stage'[q] \in Early => workers # token'[q]
                          /\ stage'[q] = "boot" \/ (backend = "qmi" /\ stage'[q] \in Early \cup {"core"})
                               => token'[q] \notin running
                          /\ stage'[q] \in {"core", "started"} =>
                               workers = token'[q] \/ token'[q] \in torn \/ Unmarked
      BY <1>1 DEF Progress, Unmarked, Early
    <3>2. CASE q = p
      BY <2>1, <2>4, <2>6, <2>7, <3>2
    <3>3. CASE q # p
      BY <2>4, <2>6, <3>3 DEF Inv, Held, Progress
    <3>4. QED
      BY <3>2, <3>3
  <2>11. Told'
    BY <1>1, <2>1, <2>6, <2>8 DEF Told, Starting, StartStages
  <2>12. NoOrphan'
    <3>1. \A w \in running :
            \/ \E q \in Procs : q # p /\ Starting(q) /\ token[q] = w
            \/ \E q \in Procs : q # p /\ stage[q] = "stop" /\ victim[q] = w
            \/ w \in torn
            \/ backend = "mbim" /\ released # {}
      BY <1>1, <2>1, <2>6 DEF Inv, Held, NoOrphan, Types, None
    <3>2. QED
      BY <1>1, <2>4, <2>6, <3>1 DEF NoOrphan
  <2>13. WorkerHeard'
    BY <1>1, <2>1 DEF WorkerHeard
  <2>14. QED
    BY <2>2, <2>5, <2>9, <2>10, <2>11, <2>12, <2>13 DEF Inv, Held
<1>4. QED
  BY <1>2, <1>3

\* A start that ends gives up only its own mark.
LEMMA InvStartEnds ==
  ASSUME Inv, NEW p \in Procs, Starting(p), Return(p), EndRebuildAttempt(p),
         running' \in {running, running \ {token[p]}},
         workers' \in {workers, IF workers = token[p] THEN None ELSE workers},
         token[p] \in running' => workers' = token[p] \/ token[p] \in torn \/ Unmarked,
         released = {} /\ workers' # None => current = genOf[workers'],
         UNCHANGED <<attempt, generation, genOf, controlVars, callVars, recoverVars,
                     historyVars, rest, grace, cont>>
  PROVE  Inv'
<1>1. /\ OneRecovery' /\ stage' \in [Procs -> Stages] /\ cont' \in [Procs -> Stages]
      /\ stage'[p] \in Returns /\ \A q \in Procs : q # p => stage'[q] = stage[q]
  BY ReturnKept DEF Busy, Starting, recoverVars
<1>2. Types'
  <2>1. rebuilding' \in BOOLEAN /\ running' \subseteq 1..attempt /\ workers' \in 0..attempt
    BY EndTyped, Constants DEF Inv, Types, None
  <2>2. QED
    BY <1>1, <2>1 DEF Inv, Types, controlVars, callVars, recoverVars, historyVars, rest
<1>3. stage'[p] \notin StartStages
  BY <1>1 DEF Returns, StartStages
<1>4. UNCHANGED <<backend, attempt, genOf, current, token, victim, historyVars>>
  BY DEF controlVars, callVars, rest
<1>5. Held'
  BY <1>1, <1>3, <1>4, HeldStartEnds
<1>6. QED
  BY <1>1, <1>2, <1>5 DEF Inv

\* Nothing is registered for a start that fails early; as long as no start lost its mark,
\* nothing is registered at all.
LEMMA EarlyUnregistered ==
  ASSUME Inv, NEW p \in Procs, stage[p] \in Early
  PROVE  Starting(p) /\ workers # token[p] /\ (released = {} => workers = None)
BY DEF Inv, Held, Progress, Told, Starting, StartStages, Early

\* A modem that has booted: an MBIM worker opens it here, in the hands of its start.
LEMMA InvBoot ==
  ASSUME Inv, NEW p \in Procs, Boot(p)
  PROVE  Inv'
<1>1. /\ stage[p] = "boot" /\ Starting(p) /\ token[p] \in 1..attempt /\ token[p] \in Attempts
      /\ token[p] \notin running
      /\ UNCHANGED <<workers, attempt, current, active, budget, token, victim, marked, recovering,
                     noticed, round, released, torn, program, backend, grace, cont>>
  BY Constants DEF Boot, controlVars, callVars, recoverVars, historyVars, rest, Starting,
                   StartStages, Inv, Types, Held, Starts, Progress, None
<1>2. CASE Return(p) /\ EndRebuildAttempt(p) /\ UNCHANGED <<generation, genOf, running>>
  BY <1>1, <1>2, EarlyUnregistered, InvStartEnds
     DEF Boot, Early, controlVars, callVars, recoverVars, historyVars, rest
<1>3. CASE ~(Return(p) /\ EndRebuildAttempt(p) /\ UNCHANGED <<generation, genOf, running>>)
  <2>1. /\ generation' = generation + 1 /\ rebuilding' = rebuilding
        /\ genOf' = [genOf EXCEPT ![token[p]] = generation + 1]
        /\ running' = IF backend = "mbim" THEN running \union {token[p]} ELSE running
        /\ stage' = [stage EXCEPT ![p] = "assigned"]
    BY <1>3 DEF Boot, Go
  <2>2. OneRecovery' /\ stage' \in [Procs -> Stages] /\ cont' \in [Procs -> Stages]
    <3>1. "assigned" \in Stages /\ (At("assigned", cont[p]) <=> At(stage[p], cont[p]))
      BY <1>1 DEF At, Stages, StartStages
    <3>2. QED
      BY <1>1, <2>1, <3>1, GoKept
  <2>3. /\ generation' \in Nat /\ genOf' \in [Attempts -> Nat] /\ running' \subseteq 1..attempt
        /\ \A a \in Attempts : a # token[p] => genOf'[a] = genOf[a]
    <3>1. generation \in Nat /\ genOf \in [Attempts -> Nat] /\ running \subseteq 1..attempt
      BY DEF Inv, Types
    <3>2. generation' \in Nat /\ generation + 1 \in Nat
      BY <2>1, <3>1
    <3>3. /\ genOf' \in [Attempts -> Nat]
          /\ \A a \in Attempts : a # token[p] => genOf'[a] = genOf[a]
      BY <2>1, <3>1, <3>2
    <3>4. running' \subseteq 1..attempt
      BY <1>1, <2>1, <3>1
    <3>5. QED
      BY <3>2, <3>3, <3>4
  <2>4. Types'
    BY <1>1, <2>1, <2>2, <2>3 DEF Inv, Types
  <2>5. /\ stage'[p] = "assigned" /\ \A q \in Procs : q # p => stage'[q] = stage[q]
        /\ \A q \in Procs : Starting(q)' <=> Starting(q)
        /\ \A q \in Procs : q # p /\ Starting(q) => token[q] # token[p]
    BY <1>1, <2>1 DEF Inv, Types, Starting, StartStages, Held, Starts
  <2>6. Starts'
    BY <1>1, <2>1, <2>5 DEF Inv, Held, Starts
  <2>7. Progress'
    <3>1. SUFFICES ASSUME NEW q \in Procs, stage'[q] \in StartStages
                   PROVE  /\ stage'[q] \in Early => workers # token[q]
                          /\ stage'[q] = "boot" \/ (backend = "qmi" /\ stage'[q] \in Early \cup {"core"})
                               => token[q] \notin running'
                          /\ stage'[q] \in {"core", "started"} =>
                               workers = token[q] \/ token[q] \in torn \/ Unmarked
      BY <1>1 DEF Progress, Unmarked, Early, StartStages
    <3>2. CASE q = p
      BY <1>1, <2>1, <2>5, <3>2 DEF Inv, Held, Progress, Early
    <3>3. CASE q # p
      <4>1. token[q] # token[p] /\ stage'[q] = stage[q]
        BY <2>5, <3>1, <3>3 DEF Starting
      <4>2. QED
        BY <2>1, <4>1 DEF Inv, Held, Progress
    <3>4. QED
      BY <3>2, <3>3
  <2>8. Told'
    <3>1. SUFFICES ASSUME released = {}, NEW q \in Procs, Starting(q)
                   PROVE  /\ workers \in {None, token[q]}
                          /\ stage'[q] \in {"published", "register", "core", "started"} =>
                               current = genOf'[token[q]]
      BY <1>1, <2>5 DEF Told, Starting, StartStages
    <3>2. q = p
      BY <1>1, <3>1 DEF Inv, Held, Starts
    <3>3. QED
      BY <1>1, <2>5, <3>1, <3>2 DEF Inv, Held, Told
  <2>9. NoOrphan'
    <3>1. \A q \in Procs : stage[q] = "stop" => stage'[q] = "stop"
      BY <1>1, <2>5
    <3>2. SUFFICES ASSUME NEW w \in running'
                   PROVE  \/ w = workers
                          \/ \E q \in Procs : Starting(q) /\ token[q] = w
                          \/ \E q \in Procs : stage[q] = "stop" /\ victim[q] = w
                          \/ w \in torn
                          \/ backend = "mbim" /\ released # {}
      BY <1>1, <2>5, <3>1 DEF NoOrphan
    <3>3. CASE w = token[p]
      BY <1>1, <3>3
    <3>4. CASE w # token[p]
      BY <2>1, <3>2, <3>4 DEF Inv, Held, NoOrphan
    <3>5. QED
      BY <3>3, <3>4
  <2>10. WorkerHeard'
    BY <1>1, <2>5 DEF WorkerHeard
  <2>11. QED
    BY <2>2, <2>4, <2>6, <2>7, <2>8, <2>9, <2>10 DEF Inv, Held
<1>4. QED
  BY <1>2, <1>3

\* The controller learns the generation of the worker before it is registered.
LEMMA InvSetWorkerGeneration ==
  ASSUME Inv, NEW p \in Procs, SetWorkerGeneration(p)
  PROVE  Inv'
<1>1. /\ stage[p] = "assigned" /\ Starting(p) /\ token[p] \in Attempts
      /\ current' = genOf[token[p]]
      /\ budget' = IF current = genOf[token[p]] THEN budget ELSE 0
      /\ stage' = [stage EXCEPT ![p] = "published"]
      /\ UNCHANGED <<workers, rebuilding, attempt, generation, genOf, active, token, victim, marked,
                     recovering, noticed, round, released, torn, program, backend, running, grace,
                     cont>>
  BY Constants DEF SetWorkerGeneration, Go, poolVars, callVars, recoverVars, historyVars, rest,
                   Starting, StartStages, Inv, Types, Held, Starts, None
<1>2. OneRecovery' /\ stage' \in [Procs -> Stages] /\ cont' \in [Procs -> Stages]
  <2>1. "published" \in Stages /\ (At("published", cont[p]) <=> At(stage[p], cont[p]))
    BY <1>1 DEF At, Stages, StartStages
  <2>2. QED
    BY <1>1, <2>1, GoKept
<1>3. Types'
  <2>1. current' \in Nat /\ budget' \in 0..Cap
    BY <1>1, Constants DEF Inv, Types
  <2>2. QED
    BY <1>1, <1>2, <2>1 DEF Inv, Types
<1>4. /\ stage'[p] = "published" /\ \A q \in Procs : q # p => stage'[q] = stage[q]
      /\ \A q \in Procs : Starting(q)' <=> Starting(q)
  BY <1>1 DEF Inv, Types, Starting, StartStages
<1>5. Starts'
  BY <1>1, <1>4 DEF Inv, Held, Starts
<1>6. Progress'
  BY <1>1, <1>4 DEF Inv, Held, Progress, Early, Unmarked
<1>7. Told'
  <2>1. SUFFICES ASSUME released = {}, NEW q \in Procs, Starting(q)
                 PROVE  /\ workers \in {None, token[q]}
                        /\ stage'[q] \in {"published", "register", "core", "started"} =>
                             current' = genOf[token[q]]
    BY <1>1, <1>4 DEF Told, Starting, StartStages
  <2>2. q = p
    BY <1>1, <2>1 DEF Inv, Held, Starts
  <2>3. QED
    BY <1>1, <2>1, <2>2 DEF Inv, Held, Told
<1>8. NoOrphan'
  BY <1>1, <1>4 DEF Inv, Held, NoOrphan
<1>9. WorkerHeard'
  BY <1>1, <1>4 DEF WorkerHeard
<1>10. QED
  BY <1>2, <1>3, <1>5, <1>6, <1>7, <1>8, <1>9 DEF Inv, Held

\* A start that fails before it registers.
LEMMA InvFailStart ==
  ASSUME Inv, NEW p \in Procs, FailStart(p)
  PROVE  Inv'
<1>1. stage[p] \in Early /\ UNCHANGED workers
  BY DEF FailStart, Early
<1>2. QED
  BY <1>1, EarlyUnregistered, InvStartEnds DEF FailStart

\* A start that a newer one has overtaken stops before it registers; an MBIM worker it leaves
\* open is released.
LEMMA InvCheckAttempt ==
  ASSUME Inv, NEW p \in Procs, CheckAttempt(p)
  PROVE  Inv'
<1>1. stage[p] = "published" /\ Starting(p) /\ stage[p] \in Early
  BY DEF CheckAttempt, Starting, StartStages, Early
<1>2. CASE attempt = token[p]
  <2>1. /\ stage' = [stage EXCEPT ![p] = "register"]
        /\ UNCHANGED <<running, rebuilding, workers, attempt, generation, genOf, controlVars, callVars,
                       recoverVars, historyVars, rest, grace, cont>>
    BY <1>2 DEF CheckAttempt, Go
  <2>2. OneRecovery' /\ stage' \in [Procs -> Stages] /\ cont' \in [Procs -> Stages]
    <3>1. "register" \in Stages /\ (At("register", cont[p]) <=> At(stage[p], cont[p]))
      BY <1>1 DEF At, Stages, StartStages
    <3>2. QED
      BY <1>1, <2>1, <3>1, GoKept DEF recoverVars
  <2>3. Types'
    BY <2>1, <2>2 DEF Inv, Types, controlVars, callVars, recoverVars, historyVars, rest
  <2>4. Held'
    BY <1>1, <2>1, HeldStarting DEF controlVars, callVars, rest
  <2>5. QED
    BY <2>2, <2>3, <2>4 DEF Inv
<1>3. CASE attempt # token[p]
  <2>1. /\ running' = IF backend = "mbim" THEN running ELSE running \ {token[p]}
        /\ EndRebuildAttempt(p) /\ Return(p)
        /\ UNCHANGED <<workers, attempt, generation, genOf, controlVars, callVars, recoverVars,
                       historyVars, rest, grace, cont>>
    BY <1>3 DEF CheckAttempt
  <2>2. released # {}
    BY <1>1, <1>3 DEF Inv, Held, Starts
  <2>3. token[p] \in running' => Unmarked
    BY <2>1, <2>2 DEF Unmarked, Inv, Types
  <2>4. running' \in {running, running \ {token[p]}}
    BY <2>1
  <2>5. QED
    BY <1>1, <2>1, <2>2, <2>3, <2>4, InvStartEnds
<1>4. QED
  BY <1>2, <1>3

\* A worker is registered: on QMI where there was none, on MBIM in place of what was there.
LEMMA InvRegistered ==
  ASSUME Inv, NEW p \in Procs, stage[p] = "register",
         backend = "qmi" => workers = None, workers' = token[p],
         NEW s \in {"core", "started"}, stage' = [stage EXCEPT ![p] = s],
         UNCHANGED <<rebuilding, attempt, generation, genOf, controlVars, callVars, recoverVars,
                     historyVars, rest, running, grace, cont>>
  PROVE  Inv'
<1>1. /\ Starting(p) /\ token[p] \in 1..attempt /\ token[p] \in Attempts
      /\ UNCHANGED <<token, victim, marked, released, torn, program, backend, current, active, budget,
                     recovering, noticed, round>>
  BY Constants DEF Starting, StartStages, Inv, Types, Held, Starts, None, controlVars, callVars,
                   recoverVars, historyVars, rest
<1>2. OneRecovery' /\ stage' \in [Procs -> Stages] /\ cont' \in [Procs -> Stages]
  <2>1. s \in Stages /\ (At(s, cont[p]) <=> At(stage[p], cont[p]))
    BY DEF At, Stages, StartStages
  <2>2. QED
    BY <1>1, <2>1, GoKept
<1>3. Types'
  BY <1>1, <1>2 DEF Inv, Types
<1>4. /\ stage'[p] = s /\ \A q \in Procs : q # p => stage'[q] = stage[q]
      /\ \A q \in Procs : Starting(q)' <=> Starting(q)
      /\ \A q \in Procs : q # p /\ Starting(q) => token[q] # token[p]
  BY <1>1 DEF Inv, Types, Starting, StartStages, Held, Starts
<1>5. Starts'
  BY <1>1, <1>4 DEF Inv, Held, Starts
<1>6. released = {} => \A q \in Procs : Starting(q) => q = p
  BY <1>1 DEF Inv, Held, Starts
<1>7. Progress'
  <2>1. SUFFICES ASSUME NEW q \in Procs, stage'[q] \in StartStages
                 PROVE  /\ stage'[q] \in Early => workers' # token[q]
                        /\ stage'[q] = "boot" \/ (backend = "qmi" /\ stage'[q] \in Early \cup {"core"})
                             => token[q] \notin running
                        /\ stage'[q] \in {"core", "started"} =>
                             workers' = token[q] \/ token[q] \in torn \/ Unmarked
    BY <1>1 DEF Progress, Unmarked, Early, StartStages
  <2>2. CASE q = p
    BY <1>1, <1>4, <2>2 DEF Inv, Held, Progress, Early
  <2>3. CASE q # p
    <3>1. token[q] # token[p] /\ stage'[q] = stage[q] /\ Starting(q) /\ token[q] # None
      BY <1>4, <2>1, <2>3 DEF Starting, Inv, Held, Starts
    <3>2. backend = "mbim" => Unmarked
      BY <1>1, <1>6, <2>3, <3>1 DEF Unmarked
    <3>3. backend = "qmi" \/ backend = "mbim"
      BY DEF Inv, Types
    <3>4. QED
      BY <3>1, <3>2, <3>3 DEF Inv, Held, Progress
  <2>4. QED
    BY <2>2, <2>3
<1>8. Told'
  <2>1. SUFFICES ASSUME released = {}, NEW q \in Procs, Starting(q)
                 PROVE  /\ workers' \in {None, token[q]}
                        /\ stage'[q] \in {"published", "register", "core", "started"} =>
                             current = genOf[token[q]]
    BY <1>1, <1>4 DEF Told, Starting, StartStages
  <2>2. q = p
    BY <1>6, <2>1
  <2>3. QED
    BY <1>1, <2>1, <2>2 DEF Inv, Held, Told
<1>9. NoOrphan'
  <2>1. SUFFICES ASSUME NEW w \in running
                 PROVE  \/ w = workers'
                        \/ \E q \in Procs : Starting(q) /\ token[q] = w
                        \/ \E q \in Procs : stage[q] = "stop" /\ victim[q] = w
                        \/ w \in torn
                        \/ backend = "mbim" /\ released # {}
    BY <1>1, <1>4 DEF NoOrphan
  <2>2. CASE w = workers
    <3>1. w # None
      BY DEF Inv, Types, None
    <3>2. backend = "mbim"
      BY <2>2, <3>1 DEF Inv, Types
    <3>3. released = {} => w = token[p]
      BY <1>1, <2>2, <3>1 DEF Inv, Held, Told
    <3>4. QED
      BY <3>2, <3>3
  <2>3. CASE w # workers
    BY <2>1, <2>3 DEF Inv, Held, NoOrphan
  <2>4. QED
    BY <2>2, <2>3
<1>10. WorkerHeard'
  BY <1>1, <1>4 DEF WorkerHeard
<1>11. QED
  BY <1>2, <1>3, <1>5, <1>7, <1>8, <1>9, <1>10 DEF Inv, Held

\* A QMI start registers a worker that has not opened the modem.
LEMMA InvRegisterStarting ==
  ASSUME Inv, NEW p \in Procs, RegisterStarting(p)
  PROVE  Inv'
<1>1. stage[p] = "register" /\ stage[p] \in Early /\ backend = "qmi" /\ token[p] \notin running
  BY DEF RegisterStarting, Early, Inv, Held, Progress
<1>2. CASE workers # None
  <2>1. EndRebuildAttempt(p) /\ Return(p) /\ UNCHANGED <<workers, running>>
    BY <1>2 DEF RegisterStarting
  <2>2. QED
    BY <1>1, <2>1, EarlyUnregistered, InvStartEnds DEF RegisterStarting
<1>3. CASE workers = None
  <2>1. workers' = token[p] /\ stage' = [stage EXCEPT ![p] = "core"] /\ UNCHANGED rebuilding
    BY <1>3 DEF RegisterStarting, Go
  <2>2. QED
    BY <1>1, <1>3, <2>1, InvRegistered DEF RegisterStarting
<1>4. QED
  BY <1>2, <1>3

\* An MBIM start registers a worker that has.
LEMMA InvRegister ==
  ASSUME Inv, NEW p \in Procs, Register(p)
  PROVE  Inv'
<1>1. /\ stage[p] = "register" /\ backend = "mbim" /\ workers' = token[p]
      /\ stage' = [stage EXCEPT ![p] = "started"]
  BY DEF Register, Go
<1>2. QED
  BY <1>1, InvRegistered DEF Register

\* A registered QMI worker opens the modem, or its start fails and withdraws it.
LEMMA InvStartCore ==
  ASSUME Inv, NEW p \in Procs, StartCore(p)
  PROVE  Inv'
<1>1. /\ stage[p] = "core" /\ Starting(p) /\ token[p] \in 1..attempt /\ token[p] \in Attempts
      /\ UNCHANGED <<attempt, generation, genOf, current, active, budget, token, victim, marked,
                     recovering, noticed, round, released, torn, program, backend, grace, cont>>
  BY Constants DEF StartCore, controlVars, callVars, recoverVars, historyVars, rest, Starting,
                   StartStages, Inv, Types, Held, Starts, None
<1>2. CASE running' = running \union {token[p]} /\ Go(p, "started") /\ UNCHANGED <<workers, rebuilding>>
  <2>1. /\ stage' = [stage EXCEPT ![p] = "started"] /\ UNCHANGED <<workers, rebuilding>>
        /\ running' = running \union {token[p]}
    BY <1>2 DEF Go
  <2>2. OneRecovery' /\ stage' \in [Procs -> Stages] /\ cont' \in [Procs -> Stages]
    <3>1. "started" \in Stages /\ (At("started", cont[p]) <=> At(stage[p], cont[p]))
      BY <1>1 DEF At, Stages, StartStages
    <3>2. QED
      BY <1>1, <2>1, <3>1, GoKept
  <2>3. Types'
    BY <1>1, <2>1, <2>2 DEF Inv, Types
  <2>4. /\ stage'[p] = "started" /\ \A q \in Procs : q # p => stage'[q] = stage[q]
        /\ \A q \in Procs : Starting(q)' <=> Starting(q)
        /\ \A q \in Procs : q # p /\ Starting(q) => token[q] # token[p]
    BY <1>1, <2>1 DEF Inv, Types, Starting, StartStages, Held, Starts
  <2>5. Starts'
    BY <1>1, <2>1, <2>4 DEF Inv, Held, Starts
  <2>6. Progress'
    <3>1. SUFFICES ASSUME NEW q \in Procs, stage'[q] \in StartStages
                   PROVE  /\ stage'[q] \in Early => workers # token[q]
                          /\ stage'[q] = "boot" \/ (backend = "qmi" /\ stage'[q] \in Early \cup {"core"})
                               => token[q] \notin running'
                          /\ stage'[q] \in {"core", "started"} =>
                               workers = token[q] \/ token[q] \in torn \/ Unmarked
      BY <1>1, <2>1 DEF Progress, Unmarked, Early, StartStages
    <3>2. CASE q = p
      BY <1>1, <2>4, <3>2 DEF Inv, Held, Progress, Early
    <3>3. CASE q # p
      <4>1. token[q] # token[p] /\ stage'[q] = stage[q]
        BY <2>4, <3>1, <3>3 DEF Starting
      <4>2. QED
        BY <2>1, <4>1 DEF Inv, Held, Progress
    <3>4. QED
      BY <3>2, <3>3
  <2>7. Told'
    BY <1>1, <2>1, <2>4 DEF Inv, Held, Told
  <2>8. NoOrphan'
    <3>1. \A q \in Procs : stage[q] = "stop" => stage'[q] = "stop"
      BY <1>1, <2>4
    <3>2. SUFFICES ASSUME NEW w \in running'
                   PROVE  \/ w = workers
                          \/ \E q \in Procs : Starting(q) /\ token[q] = w
                          \/ \E q \in Procs : stage[q] = "stop" /\ victim[q] = w
                          \/ w \in torn
                          \/ backend = "mbim" /\ released # {}
      BY <1>1, <2>1, <2>4, <3>1 DEF NoOrphan
    <3>3. CASE w = token[p]
      BY <1>1, <3>3
    <3>4. CASE w # token[p]
      BY <2>1, <3>2, <3>4 DEF Inv, Held, NoOrphan
    <3>5. QED
      BY <3>3, <3>4
  <2>9. WorkerHeard'
    BY <1>1, <2>1, <2>4 DEF Inv, Held, WorkerHeard
  <2>10. QED
    BY <2>2, <2>3, <2>5, <2>6, <2>7, <2>8, <2>9 DEF Inv, Held
<1>3. CASE /\ workers' = IF workers = token[p] THEN None ELSE workers
           /\ running' = running \ {token[p]}
           /\ EndRebuildAttempt(p) /\ Return(p)
  <2>1. released = {} => workers \in {None, token[p]}
    BY <1>1 DEF Inv, Held, Told
  <2>2. released = {} /\ workers' # None => current = genOf[workers']
    BY <1>3, <2>1
  <2>3. token[p] \notin running'
    BY <1>3
  <2>4. QED
    BY <1>1, <1>3, <2>2, <2>3, InvStartEnds DEF StartCore
<1>4. QED
  BY <1>2, <1>3 DEF StartCore

\* A start that succeeds.
LEMMA InvStarted ==
  ASSUME Inv, NEW p \in Procs, Started(p)
  PROVE  Inv'
<1>1. stage[p] = "started" /\ Starting(p) /\ UNCHANGED <<workers, running>>
  BY DEF Started, Starting, StartStages
<1>2. workers = token[p] \/ token[p] \in torn \/ Unmarked
  BY <1>1 DEF Inv, Held, Progress
<1>3. released = {} => workers \in {None, token[p]} /\ current = genOf[token[p]]
  BY <1>1 DEF Inv, Held, Told
<1>4. QED
  BY <1>1, <1>2, <1>3, InvStartEnds DEF Started

-----------------------------------------------------------------------------
(* The steps that take a mark away, and those of a removal.                *)

\* The mark is gone from every start that goes on.
LEMMA HeldUnprotected ==
  ASSUME Inv, Unprotected, NEW p \in Procs,
         \A q \in Procs : Starting(q)' <=> Starting(q),
         \A q \in Procs : Starting(q) \/ stage[q] = "stop" => stage'[q] = stage[q],
         UNCHANGED <<backend, workers, running, attempt, genOf, current, token, victim, torn>>
  PROVE  /\ released' \subseteq 1..attempt
         /\ Held'
<1>1. /\ released' = released \cup {token[q] : q \in {r \in Procs : Starting(r)}}
      /\ released \subseteq released' /\ \A q \in Procs : Starting(q) => token[q] \in released'
      /\ released' = {} => released = {} /\ ~\E q \in Procs : Starting(q)
  BY DEF Unprotected
<1>2. \A q \in Procs : Starting(q) => token[q] \in 1..attempt
  BY DEF Inv, Types, Held, Starts, None
<1>3. released' \subseteq 1..attempt
  BY <1>1, <1>2 DEF Inv, Types
<1>4. Starts'
  BY <1>1 DEF Inv, Held, Starts
<1>5. \A q \in Procs : stage'[q] \in StartStages => stage'[q] = stage[q]
  BY DEF Starting
<1>6. Unmarked => Unmarked'
  BY <1>1 DEF Unmarked
<1>7. Progress'
  BY <1>5, <1>6 DEF Inv, Held, Progress, Early, StartStages
<1>8. Told'
  BY <1>1, <1>5 DEF Told, Starting, StartStages
<1>9. NoOrphan'
  <2>1. \A q \in Procs : stage[q] = "stop" => stage'[q] = "stop"
    OBVIOUS
  <2>2. QED
    BY <1>1, <2>1 DEF Inv, Held, NoOrphan
<1>10. WorkerHeard'
  BY <1>1 DEF Inv, Held, WorkerHeard
<1>11. QED
  BY <1>3, <1>4, <1>7, <1>8, <1>9, <1>10 DEF Held

\* The watchdog takes the mark from a start, which is released from then on.
LEMMA InvWatchdog ==
  ASSUME Inv, NEW p \in Procs, Watchdog(p)
  PROVE  Inv'
<1>1. /\ Unprotected /\ rebuilding' = FALSE /\ stage' = stage /\ cont' = cont
      /\ UNCHANGED <<workers, attempt, generation, genOf, current, active, budget, token, victim, marked,
                     recovering, noticed, round, torn, program, backend, running, grace>>
  BY DEF Watchdog, controlVars, callVars, recoverVars, rest
<1>2. Held' /\ released' \subseteq 1..attempt
  BY <1>1, HeldUnprotected DEF Starting
<1>3. Types'
  BY <1>1, <1>2 DEF Inv, Types
<1>4. OneRecovery'
  BY <1>1 DEF Inv, OneRecovery, Recovering
<1>5. QED
  BY <1>2, <1>3, <1>4 DEF Inv

\* A removal takes the worker out of the map and into its own hands.
LEMMA InvUnregister ==
  ASSUME Inv, NEW p \in Procs, Unregister(p)
  PROVE  Inv'
<1>1. /\ stage[p] = "remove" /\ ~Starting(p)
      /\ UNCHANGED <<attempt, generation, genOf, current, active, budget, token, recovering, noticed,
                     round, released, program, backend, running, grace, cont>>
  BY DEF Unregister, controlVars, recoverVars, rest, Starting, StartStages
<1>2. CASE workers # None
  <2>1. /\ workers' = None /\ rebuilding' = TRUE
        /\ marked' = [marked EXCEPT ![p] = ~rebuilding]
        /\ victim' = [victim EXCEPT ![p] = workers]
        /\ torn' = IF \E q \in Procs : Starting(q) /\ token[q] = workers
                     THEN torn \union {workers} ELSE torn
        /\ stage' = [stage EXCEPT ![p] = "stop"]
    BY <1>2 DEF Unregister, Go
  <2>2. OneRecovery' /\ stage' \in [Procs -> Stages] /\ cont' \in [Procs -> Stages]
    <3>1. "stop" \in Stages /\ (At("stop", cont[p]) <=> At(stage[p], cont[p]))
      BY <1>1 DEF At, Stages
    <3>2. QED
      BY <1>1, <2>1, <3>1, GoKept
  <2>3. /\ victim' \in [Procs -> 0..attempt] /\ marked' \in [Procs -> BOOLEAN]
        /\ torn' \subseteq 1..attempt /\ torn \subseteq torn' /\ workers' \in 0..attempt
    <3>1. workers \in 1..attempt /\ 0 \in 0..attempt
      BY <1>2, Constants DEF Inv, Types, None
    <3>2. QED
      BY <2>1, <3>1 DEF Inv, Types, None
  <2>4. Types'
    BY <1>1, <2>1, <2>2, <2>3 DEF Inv, Types
  <2>5. /\ stage'[p] = "stop" /\ \A q \in Procs : q # p => stage'[q] = stage[q]
        /\ \A q \in Procs : Starting(q)' <=> Starting(q)
        /\ victim'[p] = workers /\ \A q \in Procs : q # p => victim'[q] = victim[q]
    BY <1>1, <2>1 DEF Inv, Types, Starting, StartStages
  <2>6. Starts'
    BY <1>1, <2>1, <2>5 DEF Inv, Held, Starts
  <2>7. Progress'
    <3>1. SUFFICES ASSUME NEW q \in Procs, stage'[q] \in StartStages
                   PROVE  /\ None # token[q]
                          /\ stage'[q] = "boot" \/ (backend = "qmi" /\ stage'[q] \in Early \cup {"core"})
                               => token[q] \notin running
                          /\ stage'[q] \in {"core", "started"} =>
                               token[q] \in torn' \/ Unmarked
      BY <1>1, <2>1 DEF Progress, Unmarked, Early, StartStages
    <3>2. stage'[q] = stage[q] /\ Starting(q) /\ token[q] # None
      BY <2>5, <3>1 DEF Starting, StartStages, Inv, Held, Starts
    <3>3. workers = token[q] => token[q] \in torn'
      BY <2>1, <3>2
    <3>4. QED
      BY <2>3, <3>2, <3>3 DEF Inv, Held, Progress
  <2>8. Told'
    <3>1. \A q \in Procs : stage'[q] \in StartStages => stage'[q] = stage[q]
      BY <2>5 DEF StartStages
    <3>2. QED
      BY <1>1, <2>1, <2>5, <3>1 DEF Inv, Held, Told, StartStages
  <2>9. NoOrphan'
    <3>1. SUFFICES ASSUME NEW w \in running
                   PROVE  \/ \E q \in Procs : Starting(q) /\ token[q] = w
                          \/ \E q \in Procs : stage'[q] = "stop" /\ victim'[q] = w
                          \/ w \in torn
                          \/ backend = "mbim" /\ released # {}
      BY <1>1, <2>3, <2>5 DEF NoOrphan
    <3>2. CASE w = workers
      BY <2>5, <3>2
    <3>3. CASE w # workers
      BY <1>1, <2>5, <3>1, <3>3 DEF Inv, Held, NoOrphan
    <3>4. QED
      BY <3>2, <3>3
  <2>10. WorkerHeard'
    BY <2>1 DEF WorkerHeard
  <2>11. QED
    BY <2>2, <2>4, <2>6, <2>7, <2>8, <2>9, <2>10 DEF Inv, Held
<1>3. CASE workers = None /\ rebuilding
  <2>1. stage' = [stage EXCEPT ![p] = "settle"] /\ UNCHANGED <<workers, rebuilding, marked, victim, torn>>
    BY <1>3 DEF Unregister, Go
  <2>2. OneRecovery' /\ stage' \in [Procs -> Stages] /\ cont' \in [Procs -> Stages]
    <3>1. "settle" \in Stages /\ (At("settle", cont[p]) <=> At(stage[p], cont[p]))
      BY <1>1 DEF At, Stages
    <3>2. QED
      BY <1>1, <2>1, <3>1, GoKept
  <2>3. Types'
    BY <1>1, <2>1, <2>2 DEF Inv, Types
  <2>4. Held'
    <3>1. "settle" \in Stages /\ "settle" \notin StartStages
      BY DEF Stages, StartStages
    <3>2. QED
      BY <1>1, <2>1, <3>1, HeldElsewhere DEF StartStages, historyVars
  <2>5. QED
    BY <2>2, <2>3, <2>4 DEF Inv
<1>4. CASE workers = None /\ ~rebuilding
  <2>1. Return(p) /\ UNCHANGED <<workers, rebuilding, marked, victim, torn>>
    BY <1>4 DEF Unregister
  <2>2. OneRecovery' /\ stage' \in [Procs -> Stages] /\ cont' \in [Procs -> Stages]
    BY <1>1, <2>1, ReturnKept DEF Busy
  <2>3. Types'
    BY <1>1, <2>1, <2>2 DEF Inv, Types
  <2>4. cont[p] \in Stages /\ cont[p] \notin StartStages /\ stage' = [stage EXCEPT ![p] = cont[p]]
    BY <2>1 DEF Return, Go, Inv, Types, OneRecovery, StartStages
  <2>5. Held'
    BY <1>1, <2>1, <2>4, HeldElsewhere DEF StartStages, historyVars
  <2>6. QED
    BY <2>2, <2>3, <2>5 DEF Inv
<1>5. QED
  BY <1>2, <1>3, <1>4

\* A removal that waits for the start under way, whose worker it will remove.
LEMMA InvSettle ==
  ASSUME Inv, NEW p \in Procs, Settle(p)
  PROVE  Inv'
<1>1. /\ stage[p] = "settle"
      /\ UNCHANGED <<workers, rebuilding, attempt, generation, genOf, current, active, budget, token,
                     victim, marked, recovering, noticed, round, released, torn, program, backend,
                     running, grace, cont>>
  BY DEF Settle, poolVars, controlVars, callVars, recoverVars, historyVars, rest
<1>2. PICK s \in Stages : /\ s \notin StartStages /\ stage' = [stage EXCEPT ![p] = s]
                          /\ s = "remove" \/ Return(p)
  <2>1. "remove" \in Stages /\ "remove" \notin StartStages
    BY DEF Stages, StartStages
  <2>2. cont[p] \in Stages /\ cont[p] \notin StartStages
    BY DEF Inv, Types, OneRecovery, StartStages
  <2>3. QED
    BY <2>1, <2>2 DEF Settle, Go, Return
<1>3. OneRecovery' /\ stage' \in [Procs -> Stages] /\ cont' \in [Procs -> Stages]
  <2>1. CASE s = "remove"
    <3>1. At("remove", cont[p]) <=> At(stage[p], cont[p])
      BY <1>1 DEF At
    <3>2. QED
      BY <1>1, <1>2, <2>1, <3>1, GoKept
  <2>2. CASE Return(p)
    BY <1>1, <2>2, ReturnKept DEF Busy
  <2>3. QED
    BY <1>2, <2>1, <2>2
<1>4. Types'
  BY <1>1, <1>3 DEF Inv, Types
<1>5. Held'
  BY <1>1, <1>2, HeldElsewhere DEF StartStages, historyVars
<1>6. QED
  BY <1>3, <1>4, <1>5 DEF Inv

\* The worker that was removed is closed.
LEMMA InvStopWorker ==
  ASSUME Inv, NEW p \in Procs, StopWorker(p)
  PROVE  Inv'
<1>1. /\ stage[p] = "stop" /\ running' = running \ {victim[p]}
      /\ stage' = [stage EXCEPT ![p] = "unmark"]
      /\ UNCHANGED <<workers, rebuilding, attempt, generation, genOf, current, active, budget, token,
                     victim, marked, recovering, noticed, round, released, torn, program, backend,
                     grace, cont>>
  BY DEF StopWorker, Go, poolVars, controlVars, callVars, recoverVars, historyVars, rest
<1>2. OneRecovery' /\ stage' \in [Procs -> Stages] /\ cont' \in [Procs -> Stages]
  <2>1. "unmark" \in Stages /\ (At("unmark", cont[p]) <=> At(stage[p], cont[p]))
    BY <1>1 DEF At, Stages
  <2>2. QED
    BY <1>1, <2>1, GoKept
<1>3. Types'
  BY <1>1, <1>2 DEF Inv, Types
<1>4. /\ stage'[p] = "unmark" /\ \A q \in Procs : q # p => stage'[q] = stage[q]
      /\ \A q \in Procs : Starting(q)' <=> Starting(q)
      /\ \A q \in Procs : stage'[q] \in StartStages => stage'[q] = stage[q]
  BY <1>1 DEF Inv, Types, Starting, StartStages
<1>5. Starts'
  BY <1>1, <1>4 DEF Inv, Held, Starts
<1>6. Progress'
  BY <1>1, <1>4 DEF Inv, Held, Progress, Unmarked, Early, StartStages
<1>7. Told'
  BY <1>1, <1>4 DEF Inv, Held, Told, StartStages
<1>8. NoOrphan'
  BY <1>1, <1>4 DEF Inv, Held, NoOrphan
<1>9. WorkerHeard'
  BY <1>1, <1>4 DEF Inv, Held, WorkerHeard
<1>10. QED
  BY <1>2, <1>3, <1>5, <1>6, <1>7, <1>8, <1>9 DEF Inv, Held

\* A removal that lifts a mark releases every start that had it.
LEMMA InvUnmark ==
  ASSUME Inv, NEW p \in Procs, Unmark(p)
  PROVE  Inv'
<1>1. /\ stage[p] = "unmark" /\ Return(p)
      /\ \/ rebuilding' = FALSE /\ Unprotected
         \/ rebuilding' = rebuilding /\ released' = released
      /\ UNCHANGED <<workers, attempt, generation, genOf, current, active, budget, token, victim,
                     marked, recovering, noticed, round, torn, program, backend, running, grace, cont>>
  BY DEF Unmark, controlVars, callVars, recoverVars, rest
<1>2. /\ OneRecovery' /\ stage' \in [Procs -> Stages] /\ cont' \in [Procs -> Stages]
      /\ stage'[p] \in Returns /\ \A q \in Procs : q # p => stage'[q] = stage[q]
  BY <1>1, ReturnKept DEF Busy
<1>3. cont[p] \in Stages /\ cont[p] \notin StartStages /\ stage' = [stage EXCEPT ![p] = cont[p]]
  BY <1>1 DEF Return, Go, Inv, Types, OneRecovery, StartStages
<1>4. /\ \A q \in Procs : Starting(q)' <=> Starting(q)
      /\ \A q \in Procs : Starting(q) \/ stage[q] = "stop" => stage'[q] = stage[q]
  BY <1>1, <1>2 DEF Starting, StartStages, Returns
<1>5. Held' /\ released' \subseteq 1..attempt /\ rebuilding' \in BOOLEAN
  <2>1. CASE rebuilding' = FALSE /\ Unprotected
    BY <1>1, <1>4, <2>1, HeldUnprotected
  <2>2. CASE rebuilding' = rebuilding /\ released' = released
    <3>1. Held'
      BY <1>1, <1>3, <2>2, HeldElsewhere DEF StartStages, historyVars
    <3>2. QED
      BY <2>2, <3>1 DEF Inv, Types
  <2>3. QED
    BY <1>1, <2>1, <2>2
<1>6. Types'
  BY <1>1, <1>2, <1>5 DEF Inv, Types
<1>7. QED
  BY <1>2, <1>5, <1>6 DEF Inv

\* A rebuild lifts its mark and calls the start that comes after, or nothing.
LEMMA InvHandOver ==
  ASSUME Inv, NEW p \in Procs, HandOver(p)
  PROVE  Inv'
<1>1. /\ stage[p] = "handover" /\ rebuilding' = FALSE /\ Unprotected
      /\ \/ stage' = [stage EXCEPT ![p] = "add"] /\ cont' = [cont EXCEPT ![p] = "done"]
         \/ stage' = [stage EXCEPT ![p] = "done"] /\ cont' = [cont EXCEPT ![p] = "done"]
      /\ UNCHANGED <<workers, attempt, generation, genOf, current, active, budget, token, victim,
                     marked, recovering, noticed, round, torn, program, backend, running, grace>>
  BY DEF HandOver, Call, Go, controlVars, callVars, recoverVars, rest
<1>2. PICK s \in {"add", "done"} : /\ stage' = [stage EXCEPT ![p] = s]
                                   /\ cont' = [cont EXCEPT ![p] = "done"]
  BY <1>1
<1>3. OneRecovery' /\ stage' \in [Procs -> Stages] /\ cont' \in [Procs -> Stages]
  <2>1. cont[p] = "handover"
    BY <1>1 DEF Inv, OneRecovery
  <2>2. s \in Stages /\ "done" \in Returns /\ (At(s, "done") <=> At(stage[p], cont[p]))
    BY <1>1, <2>1 DEF At, Stages, Returns
  <2>3. QED
    BY <1>1, <1>2, <2>2, OneRecoveryKept
<1>4. /\ \A q \in Procs : Starting(q)' <=> Starting(q)
      /\ \A q \in Procs : Starting(q) \/ stage[q] = "stop" => stage'[q] = stage[q]
  BY <1>1, <1>2 DEF Inv, Types, Starting, StartStages
<1>5. Held' /\ released' \subseteq 1..attempt
  BY <1>1, <1>4, HeldUnprotected
<1>6. Types'
  BY <1>1, <1>3, <1>5 DEF Inv, Types
<1>7. QED
  BY <1>3, <1>5, <1>6 DEF Inv

-----------------------------------------------------------------------------
(* The steps that leave the workers alone.                                 *)

\* Stages outside starts and stops, where only the control of recoveries changes.
LEMMA InvControl ==
  ASSUME Inv, NEW p \in Procs, NEW s \in Stages \ StartStages,
         stage[p] \notin StartStages \cup {"stop"},
         stage' = [stage EXCEPT ![p] = s],
         OneRecovery', cont' \in [Procs -> Stages], recovering' \in BOOLEAN,
         rebuilding' \in BOOLEAN, rebuilding => rebuilding',
         active' \in BOOLEAN, budget' \in 0..Cap, grace' \in BOOLEAN,
         noticed' \in [Procs -> Nat], round' \in [Procs -> 0..Rounds],
         UNCHANGED <<workers, attempt, generation, genOf, current, callVars, historyVars, rest, running>>
  PROVE  Inv'
<1>1. stage' \in [Procs -> Stages]
  BY DEF Inv, Types
<1>2. Types'
  BY <1>1 DEF Inv, Types, callVars, historyVars, rest
<1>3. Held'
  BY HeldElsewhere DEF callVars, rest
<1>4. QED
  BY <1>2, <1>3 DEF Inv

\* The same for a step that changes neither the counters nor the recovery.
LEMMA InvGo ==
  ASSUME Inv, NEW p \in Procs, NEW s \in Stages \ StartStages,
         stage[p] \notin StartStages \cup {"stop"},
         stage' = [stage EXCEPT ![p] = s], OneRecovery', cont' \in [Procs -> Stages],
         rebuilding' \in BOOLEAN, rebuilding => rebuilding',
         UNCHANGED <<workers, attempt, generation, genOf, controlVars, callVars, recoverVars,
                     historyVars, rest, running, grace>>
  PROVE  Inv'
<1>1. /\ active' \in BOOLEAN /\ budget' \in 0..Cap /\ grace' \in BOOLEAN /\ recovering' \in BOOLEAN
      /\ noticed' \in [Procs -> Nat] /\ round' \in [Procs -> 0..Rounds] /\ current' = current
  BY DEF Inv, Types, controlVars, recoverVars
<1>2. QED
  BY <1>1, InvControl

\* A rebuild marks the device and removes its worker.
LEMMA InvRebuild ==
  ASSUME Inv, NEW p \in Procs, Rebuild(p)
  PROVE  Inv'
<1>1. /\ stage[p] = "new" /\ stage' = [stage EXCEPT ![p] = "remove"] /\ rebuilding' = TRUE
      /\ cont' = [cont EXCEPT ![p] = "handover"] /\ recovering' = recovering /\ cont[p] = "done"
  BY DEF Rebuild, Call, Go, recoverVars, Inv, OneRecovery
<1>2. /\ "remove" \in Stages /\ "remove" \notin StartStages /\ "handover" \in Returns
      /\ At("remove", "handover") <=> At(stage[p], cont[p])
  BY <1>1 DEF At, Stages, StartStages, Returns
<1>3. OneRecovery' /\ cont' \in [Procs -> Stages]
  BY <1>1, <1>2, OneRecoveryKept
<1>4. QED
  BY <1>1, <1>2, <1>3, InvGo DEF Rebuild, StartStages

\* A start on its own.
LEMMA InvFastStart ==
  ASSUME Inv, NEW p \in Procs, FastStart(p)
  PROVE  Inv'
<1>1. /\ stage[p] = "new" /\ stage' = [stage EXCEPT ![p] = "add"]
      /\ cont' = [cont EXCEPT ![p] = "done"] /\ recovering' = recovering /\ cont[p] = "done"
      /\ rebuilding' = rebuilding /\ rebuilding' \in BOOLEAN
  BY DEF FastStart, Call, Go, recoverVars, poolVars, Inv, Types, OneRecovery
<1>2. /\ "add" \in Stages /\ "add" \notin StartStages /\ "done" \in Returns
      /\ At("add", "done") <=> At(stage[p], cont[p])
  BY <1>1 DEF At, Stages, StartStages, Returns
<1>3. OneRecovery' /\ cont' \in [Procs -> Stages]
  BY <1>1, <1>2, OneRecoveryKept
<1>4. QED
  BY <1>1, <1>2, <1>3, InvGo DEF FastStart, StartStages, poolVars

\* A removal on its own.
LEMMA InvDelete ==
  ASSUME Inv, NEW p \in Procs, Delete(p)
  PROVE  Inv'
<1>1. /\ stage[p] = "new" /\ stage' = [stage EXCEPT ![p] = "remove"]
      /\ cont' = [cont EXCEPT ![p] = "done"] /\ recovering' = recovering /\ cont[p] = "done"
      /\ rebuilding' = rebuilding /\ rebuilding' \in BOOLEAN
  BY DEF Delete, Call, Go, recoverVars, poolVars, Inv, Types, OneRecovery
<1>2. /\ "remove" \in Stages /\ "remove" \notin StartStages /\ "done" \in Returns
      /\ At("remove", "done") <=> At(stage[p], cont[p])
  BY <1>1 DEF At, Stages, StartStages, Returns
<1>3. OneRecovery' /\ cont' \in [Procs -> Stages]
  BY <1>1, <1>2, OneRecoveryKept
<1>4. UNCHANGED <<workers, attempt, generation, genOf, controlVars, callVars, recoverVars,
                  historyVars, rest, running, grace>>
  BY DEF Delete, poolVars
<1>5. "remove" \in Stages \ StartStages /\ stage[p] \notin StartStages \cup {"stop"}
  BY <1>1, <1>2 DEF StartStages
<1>6. QED
  BY <1>1, <1>3, <1>4, <1>5, InvGo

\* A goroutine that is not at work on a recovery goes on, or is done.
LEMMA InvTriggered ==
  ASSUME Inv, NEW p \in Procs, stage[p] \in {"new", "check", "observe", "begin"},
         NEW s \in {"check", "observe", "begin", "done"},
         stage' = [stage EXCEPT ![p] = s],
         active' \in BOOLEAN, budget' \in 0..Cap, grace' \in BOOLEAN, noticed' \in [Procs -> Nat],
         UNCHANGED <<poolVars, current, callVars, recovering, round, historyVars, rest, running, cont>>
  PROVE  Inv'
<1>1. /\ s \in Stages \ StartStages /\ stage[p] \notin StartStages \cup {"stop"}
      /\ cont[p] = "done" /\ (At(s, cont[p]) <=> At(stage[p], cont[p]))
  BY DEF At, Stages, StartStages, Inv, OneRecovery
<1>2. OneRecovery' /\ cont' \in [Procs -> Stages]
  BY <1>1, GoKept
<1>3. /\ rebuilding' = rebuilding /\ rebuilding' \in BOOLEAN /\ recovering' \in BOOLEAN
      /\ round' \in [Procs -> 0..Rounds]
  BY DEF poolVars, Inv, Types
<1>4. UNCHANGED <<workers, attempt, generation, genOf, current, callVars, historyVars, rest, running>>
  BY DEF poolVars, controlVars, recoverVars
<1>5. QED
  BY <1>1, <1>2, <1>3, <1>4, InvControl

\* The generation a goroutine has noticed is a number.
LEMMA GenTyped ==
  ASSUME Inv, NEW p \in Procs, workers # None
  PROVE  [noticed EXCEPT ![p] = genOf[workers]] \in [Procs -> Nat]
BY Constants DEF Inv, Types, None

\* The health check suspects a reboot.
LEMMA InvSuspect ==
  ASSUME Inv, NEW p \in Procs, Suspect(p)
  PROVE  Inv'
<1>1. /\ stage[p] = "new" /\ stage' = [stage EXCEPT ![p] = "observe"]
      /\ grace' \in BOOLEAN /\ noticed' \in [Procs -> Nat]
      /\ active' \in BOOLEAN /\ budget' \in 0..Cap
  BY GenTyped DEF Suspect, Go, controlVars, Inv, Types
<1>2. QED
  BY <1>1, InvTriggered DEF Suspect, controlVars

\* A transport reports that it is exhausted.
LEMMA InvExhausted ==
  ASSUME Inv, NEW p \in Procs, Exhausted(p)
  PROVE  Inv'
<1>1. /\ stage[p] = "new" /\ active' \in BOOLEAN /\ grace' \in BOOLEAN
      /\ UNCHANGED <<poolVars, current, callVars, recovering, round, historyVars, rest, running, cont>>
  BY DEF Exhausted, Inv, Types
<1>2. CASE budget < Cap
  <2>1. /\ stage' = [stage EXCEPT ![p] = "check"] /\ noticed' \in [Procs -> Nat]
        /\ budget' = budget + 1
    BY <1>2, GenTyped DEF Exhausted, Go
  <2>2. budget' \in 0..Cap
    BY <1>2, <2>1, Constants DEF Inv, Types
  <2>3. QED
    BY <1>1, <2>1, <2>2, InvTriggered
<1>3. CASE ~(budget < Cap)
  <2>1. /\ stage' = [stage EXCEPT ![p] = "done"] /\ noticed' \in [Procs -> Nat]
        /\ budget' \in 0..Cap
    BY <1>3 DEF Exhausted, Go, Inv, Types
  <2>2. QED
    BY <1>1, <2>1, InvTriggered
<1>4. QED
  BY <1>2, <1>3

\* A worker that was replaced is left alone.
LEMMA InvHandleExhausted ==
  ASSUME Inv, NEW p \in Procs, HandleExhausted(p)
  PROVE  Inv'
<1>1. /\ stage[p] = "check" /\ active' \in BOOLEAN /\ grace' \in BOOLEAN
      /\ noticed' \in [Procs -> Nat] /\ budget' \in 0..Cap
  BY DEF HandleExhausted, controlVars, recoverVars, Inv, Types
<1>2. PICK s \in {"observe", "done"} : stage' = [stage EXCEPT ![p] = s]
  BY DEF HandleExhausted, Go
<1>3. QED
  BY <1>1, <1>2, InvTriggered DEF HandleExhausted, controlVars, recoverVars

\* The controller records the event as the active one, or drops it.
LEMMA InvObserve ==
  ASSUME Inv, NEW p \in Procs, Observe(p)
  PROVE  Inv'
<1>1. /\ stage[p] = "observe" /\ active' \in BOOLEAN /\ grace' \in BOOLEAN
      /\ noticed' \in [Procs -> Nat] /\ budget' \in 0..Cap
  BY DEF Observe, recoverVars, Inv, Types
<1>2. PICK s \in {"begin", "done"} : stage' = [stage EXCEPT ![p] = s]
  BY DEF Observe, Go
<1>3. QED
  BY <1>1, <1>2, InvTriggered DEF Observe, recoverVars

\* A recovery that is asked for by hand or by a lost port.
LEMMA InvScheduleRecovery ==
  ASSUME Inv, NEW p \in Procs, ScheduleRecovery(p)
  PROVE  Inv'
<1>1. /\ stage[p] = "new" /\ active' \in BOOLEAN /\ grace' \in BOOLEAN
      /\ noticed' \in [Procs -> Nat] /\ budget' \in 0..Cap
      /\ stage' = [stage EXCEPT ![p] = "begin"]
  BY DEF ScheduleRecovery, Go, controlVars, recoverVars, Inv, Types
<1>2. QED
  BY <1>1, InvTriggered DEF ScheduleRecovery, controlVars, recoverVars

\* The recovery mark is free, so nobody recovers, and now one does.
LEMMA InvBeginRecovery ==
  ASSUME Inv, NEW p \in Procs, BeginRecovery(p)
  PROVE  Inv'
<1>1. /\ stage[p] = "begin" /\ cont[p] = "done"
      /\ UNCHANGED <<poolVars, current, budget, callVars, noticed, round, historyVars, rest, running>>
  BY DEF BeginRecovery, Inv, OneRecovery
<1>2. CASE recovering
  <2>1. /\ active' = (active /\ program[p] \in {"manual", "at"})
        /\ stage' = [stage EXCEPT ![p] = "done"] /\ UNCHANGED <<recovering, grace, cont>>
    BY <1>2 DEF BeginRecovery, Go
  <2>2. /\ active' \in BOOLEAN /\ grace' \in BOOLEAN /\ noticed' \in [Procs -> Nat]
        /\ budget' \in 0..Cap
    BY <1>1, <2>1 DEF Inv, Types
  <2>3. QED
    BY <1>1, <2>1, <2>2, InvTriggered
<1>3. CASE ~recovering
  <2>1. PICK s \in {"scan", "remove"}, c \in {"done", "scan"} :
          /\ stage' = [stage EXCEPT ![p] = s] /\ cont' = [cont EXCEPT ![p] = c]
          /\ At(s, c)
    <3>1. CASE program[p] = "at"
      <4>1. stage' = [stage EXCEPT ![p] = "scan"] /\ cont' = cont
        BY <1>3, <3>1 DEF BeginRecovery, Go
      <4>2. cont = [cont EXCEPT ![p] = "done"]
        BY <1>1 DEF Inv, Types
      <4>3. QED
        BY <4>1, <4>2 DEF At
    <3>2. CASE program[p] # "at"
      <4>1. stage' = [stage EXCEPT ![p] = "remove"] /\ cont' = [cont EXCEPT ![p] = "scan"]
        BY <1>3, <3>2 DEF BeginRecovery, Call, Go
      <4>2. QED
        BY <4>1 DEF At
    <3>3. QED
      BY <3>1, <3>2
  <2>2. recovering' = TRUE /\ grace' = TRUE /\ active' = active
    BY <1>3 DEF BeginRecovery
  <2>3. /\ s \in Stages \ StartStages /\ c \in Stages /\ stage[p] \notin StartStages \cup {"stop"}
    BY <1>1 DEF Stages, StartStages
  <2>4. /\ cont' \in [Procs -> Stages] /\ stage'[p] = s /\ cont'[p] = c
        /\ \A q \in Procs : q # p => stage'[q] = stage[q] /\ cont'[q] = cont[q]
    BY <2>1, <2>3 DEF Inv, Types
  <2>5. OneRecovery'
    <3>1. \A q \in Procs : ~Recovering(q)
      BY <1>3 DEF Inv, OneRecovery
    <3>2. Recovering(p)' /\ \A q \in Procs : q # p => ~Recovering(q)'
      BY <2>1, <2>4, <3>1 DEF Recovering, At
    <3>3. \A q \in Procs :
            /\ cont'[q] \in {"done", "scan", "readd", "judge", "handover"}
            /\ stage'[q] \in {"new", "check", "observe", "begin"} => cont'[q] = "done"
            /\ stage'[q] = "handover" => cont'[q] = "handover"
      BY <2>4 DEF Inv, OneRecovery
    <3>4. QED
      BY <2>2, <3>2, <3>3 DEF OneRecovery
  <2>6. /\ active' \in BOOLEAN /\ grace' \in BOOLEAN /\ noticed' \in [Procs -> Nat]
        /\ budget' \in 0..Cap /\ round' \in [Procs -> 0..Rounds] /\ recovering' \in BOOLEAN
        /\ rebuilding' = rebuilding /\ rebuilding' \in BOOLEAN
    BY <1>1, <2>2 DEF Inv, Types, poolVars
  <2>7. UNCHANGED <<workers, attempt, generation, genOf, current, callVars, historyVars, rest, running>>
    BY <1>1 DEF poolVars, controlVars, recoverVars
  <2>8. QED
    BY <1>1, <2>1, <2>3, <2>4, <2>5, <2>6, <2>7, InvControl
<1>4. QED
  BY <1>2, <1>3

\* A recovery that goes on.
LEMMA InvRecovers ==
  ASSUME Inv, NEW p \in Procs, stage[p] \in {"scan", "readd", "judge"},
         NEW s \in {"scan", "add", "judge", "remove", "finish"}, NEW c \in Returns,
         At(s, c), stage' = [stage EXCEPT ![p] = s], cont' = [cont EXCEPT ![p] = c],
         round' \in [Procs -> 0..Rounds],
         UNCHANGED <<poolVars, controlVars, callVars, recovering, noticed, historyVars, rest, running,
                     grace>>
  PROVE  Inv'
<1>1. /\ s \in Stages \ StartStages /\ stage[p] \notin StartStages \cup {"stop"}
      /\ At(s, c) <=> At(stage[p], cont[p])
  BY DEF At, Stages, StartStages
<1>2. OneRecovery' /\ cont' \in [Procs -> Stages]
  BY <1>1, OneRecoveryKept
<1>3. /\ active' \in BOOLEAN /\ grace' \in BOOLEAN /\ noticed' \in [Procs -> Nat]
      /\ budget' \in 0..Cap /\ recovering' \in BOOLEAN /\ current' = current
      /\ rebuilding' = rebuilding /\ rebuilding' \in BOOLEAN
  BY DEF Inv, Types, poolVars, controlVars
<1>4. UNCHANGED <<workers, attempt, generation, genOf, current, callVars, historyVars, rest, running>>
  BY DEF poolVars, controlVars, recoverVars
<1>5. QED
  BY <1>1, <1>2, <1>3, <1>4, InvControl

\* The place a goroutine returns to stays.
LEMMA ContKept ==
  ASSUME Inv, NEW p \in Procs
  PROVE  cont[p] \in Returns /\ cont = [cont EXCEPT ![p] = cont[p]]
BY DEF Inv, Types, OneRecovery, Returns

\* A recovery looks for the device.
LEMMA InvRescan ==
  ASSUME Inv, NEW p \in Procs, Rescan(p)
  PROVE  Inv'
<1>1. /\ stage[p] = "scan" /\ round' = [round EXCEPT ![p] = round[p] + 1] /\ round[p] < Rounds
      /\ UNCHANGED <<poolVars, controlVars, callVars, recovering, noticed, historyVars, rest, running,
                     grace>>
  BY DEF Rescan, Inv, Types
<1>2. round' \in [Procs -> 0..Rounds]
  <2>1. round[p] + 1 \in 0..Rounds
    BY <1>1, Constants DEF Inv, Types
  <2>2. QED
    BY <1>1, <2>1 DEF Inv, Types
<1>3. PICK s \in {"scan", "add", "judge", "remove"}, c \in Returns :
        At(s, c) /\ stage' = [stage EXCEPT ![p] = s] /\ cont' = [cont EXCEPT ![p] = c]
  <2>1. CASE Go(p, "scan") /\ UNCHANGED cont
    BY <2>1, ContKept DEF Go, At
  <2>2. CASE Call(p, "add", "judge") \/ Call(p, "judge", "judge") \/ Call(p, "remove", "readd")
             \/ Call(p, "remove", "judge")
    BY <2>2 DEF Call, Go, At, Returns
  <2>3. QED
    BY <2>1, <2>2 DEF Rescan
<1>4. QED
  BY <1>1, <1>2, <1>3, InvRecovers

\* A recovery calls a start.
LEMMA InvReAdd ==
  ASSUME Inv, NEW p \in Procs, ReAdd(p)
  PROVE  Inv'
<1>1. /\ stage[p] = "readd" /\ stage' = [stage EXCEPT ![p] = "add"]
      /\ cont' = [cont EXCEPT ![p] = "judge"] /\ At("add", "judge") /\ "judge" \in Returns
      /\ round' \in [Procs -> 0..Rounds]
  BY DEF ReAdd, Call, Go, recoverVars, Inv, Types, At, Returns
<1>2. QED
  BY <1>1, InvRecovers DEF ReAdd, recoverVars

\* A recovery judges the start it made.
LEMMA InvJudge ==
  ASSUME Inv, NEW p \in Procs, Judge(p)
  PROVE  Inv'
<1>1. PICK s \in {"scan", "remove", "finish"}, c \in Returns :
        At(s, c) /\ stage' = [stage EXCEPT ![p] = s] /\ cont' = [cont EXCEPT ![p] = c]
  <2>1. CASE (Go(p, "scan") \/ Go(p, "finish")) /\ UNCHANGED cont
    BY <2>1, ContKept DEF Go, At
  <2>2. CASE Call(p, "remove", "scan")
    BY <2>2 DEF Call, Go, At, Returns
  <2>3. QED
    BY <2>1, <2>2 DEF Judge
<1>2. stage[p] = "judge" /\ round' \in [Procs -> 0..Rounds]
  BY DEF Judge, recoverVars, Inv, Types
<1>3. UNCHANGED <<poolVars, controlVars, callVars, recovering, noticed, historyVars, rest, running,
                  grace>>
  BY DEF Judge, recoverVars
<1>4. QED
  BY <1>1, <1>2, <1>3, InvRecovers

\* A recovery gives up.
LEMMA InvExhaust ==
  ASSUME Inv, NEW p \in Procs, Exhaust(p)
  PROVE  Inv'
<1>1. /\ stage[p] = "scan" /\ stage' = [stage EXCEPT ![p] = "finish"]
      /\ round' \in [Procs -> 0..Rounds] /\ At("finish", cont[p])
      /\ cont' = [cont EXCEPT ![p] = cont[p]] /\ cont[p] \in Returns
  BY ContKept DEF Exhaust, Go, recoverVars, Inv, Types, At
<1>2. QED
  BY <1>1, InvRecovers DEF Exhaust, recoverVars

\* The one recovery at work ends, so that none is.
LEMMA InvFinishRecovery ==
  ASSUME Inv, NEW p \in Procs, FinishRecovery(p)
  PROVE  Inv'
<1>1. /\ stage[p] = "finish" /\ recovering' = FALSE /\ stage' = [stage EXCEPT ![p] = "forget"]
      /\ UNCHANGED <<poolVars, controlVars, callVars, noticed, round, historyVars, rest,
                     running, grace, cont>>
  BY DEF FinishRecovery, Go
<1>2. /\ "forget" \in Stages \ StartStages /\ stage[p] \notin StartStages \cup {"stop"}
  BY <1>1 DEF Stages, StartStages
<1>3. stage'[p] = "forget" /\ \A q \in Procs : q # p => stage'[q] = stage[q]
  BY <1>1 DEF Inv, Types
<1>4. OneRecovery'
  <2>1. Recovering(p)
    BY <1>1 DEF Recovering
  <2>2. \A q \in Procs : q # p => ~Recovering(q)
    BY <2>1 DEF Inv, OneRecovery
  <2>3. \A q \in Procs : ~Recovering(q)'
    BY <1>1, <1>3, <2>2 DEF Recovering
  <2>4. QED
    BY <1>1, <1>3, <2>3 DEF Inv, OneRecovery
<1>5. /\ active' \in BOOLEAN /\ grace' \in BOOLEAN /\ noticed' \in [Procs -> Nat]
      /\ budget' \in 0..Cap /\ recovering' \in BOOLEAN /\ current' = current
      /\ rebuilding' = rebuilding /\ rebuilding' \in BOOLEAN /\ round' \in [Procs -> 0..Rounds]
      /\ cont' \in [Procs -> Stages]
  BY <1>1 DEF Inv, Types, poolVars, controlVars
<1>6. UNCHANGED <<workers, attempt, generation, genOf, current, callVars, historyVars, rest, running>>
  BY <1>1 DEF poolVars, controlVars, recoverVars
<1>7. QED
  BY <1>1, <1>2, <1>4, <1>5, <1>6, InvControl

\* A recovery forgets the active event.
LEMMA InvFinish ==
  ASSUME Inv, NEW p \in Procs, Finish(p)
  PROVE  Inv'
<1>1. /\ stage[p] = "forget" /\ active' = FALSE /\ stage' = [stage EXCEPT ![p] = "done"]
      /\ UNCHANGED <<poolVars, current, budget, callVars, recoverVars, historyVars, rest,
                     running, grace, cont>>
  BY DEF Finish, Go
<1>2. /\ "done" \in Stages \ StartStages /\ stage[p] \notin StartStages \cup {"stop"}
      /\ At("done", cont[p]) <=> At(stage[p], cont[p])
  BY <1>1 DEF Stages, StartStages, At
<1>3. OneRecovery' /\ cont' \in [Procs -> Stages]
  BY <1>1, <1>2, GoKept DEF recoverVars
<1>4. /\ active' \in BOOLEAN /\ grace' \in BOOLEAN /\ noticed' \in [Procs -> Nat]
      /\ budget' \in 0..Cap /\ recovering' \in BOOLEAN
      /\ rebuilding' = rebuilding /\ rebuilding' \in BOOLEAN /\ round' \in [Procs -> 0..Rounds]
  BY <1>1 DEF Inv, Types, poolVars, recoverVars
<1>5. UNCHANGED <<workers, attempt, generation, genOf, current, callVars, historyVars, rest, running>>
  BY <1>1 DEF poolVars, controlVars, recoverVars
<1>6. QED
  BY <1>1, <1>2, <1>3, <1>4, <1>5, InvControl

\* A step that touches none of the variables of the invariant but the grace.
LEMMA InvUntouched ==
  ASSUME Inv, grace' \in BOOLEAN,
         UNCHANGED <<poolVars, controlVars, callVars, recoverVars, historyVars, rest, running, stage,
                     cont>>
  PROVE  Inv'
<1>1. UNCHANGED <<workers, rebuilding, attempt, generation, genOf, current, active, budget, token,
                  victim, marked, recovering, noticed, round, released, torn, program, backend,
                  running, stage, cont>>
  BY DEF poolVars, controlVars, callVars, recoverVars, historyVars, rest
<1>2. Types' /\ OneRecovery'
  BY <1>1 DEF Inv, Types, OneRecovery, Recovering
<1>3. Held'
  BY <1>1 DEF Inv, Held, Starts, Progress, Told, NoOrphan, WorkerHeard, Starting, Unmarked, Early
<1>4. QED
  BY <1>2, <1>3 DEF Inv

-----------------------------------------------------------------------------
\* Every step keeps the invariant.
LEMMA InvNext ==
  ASSUME Inv, [Next]_vars
  PROVE  Inv'
<1>1. CASE \E p \in Procs : Step(p) \/ Hanging(p) \/ Trigger(p) \/ Watchdog(p)
  <2>1. PICK p \in Procs : Step(p) \/ Hanging(p) \/ Trigger(p) \/ Watchdog(p)
    BY <1>1
  <2>2. CASE StartStep(p)
    BY <2>2, InvBeginRebuildAttempt, InvSetWorkerGeneration, InvFailStart, InvCheckAttempt,
       InvRegisterStarting, InvRegister, InvStarted DEF StartStep
  <2>3. CASE RemoveStep(p)
    BY <2>3, InvUnregister, InvSettle, InvStopWorker, InvUnmark, InvRebuild, InvHandOver
       DEF RemoveStep
  <2>4. CASE RecoveryStep(p)
    BY <2>4, InvHandleExhausted, InvObserve, InvBeginRecovery, InvRescan, InvReAdd, InvJudge,
       InvExhaust, InvFinishRecovery, InvFinish DEF RecoveryStep
  <2>5. CASE Hanging(p)
    BY <2>5, InvBoot, InvStartCore DEF Hanging
  <2>6. CASE Trigger(p)
    BY <2>6, InvFastStart, InvDelete, InvSuspect, InvExhausted, InvScheduleRecovery DEF Trigger
  <2>7. CASE Watchdog(p)
    BY <2>7, InvWatchdog
  <2>8. QED
    BY <2>1, <2>2, <2>3, <2>4, <2>5, <2>6, <2>7 DEF Step
<1>2. CASE GraceEnds
  BY <1>2, InvUntouched DEF GraceEnds
<1>3. CASE UNCHANGED vars
  <2>1. grace' \in BOOLEAN
    BY <1>3 DEF vars, Inv, Types
  <2>2. QED
    BY <1>3, <2>1, InvUntouched DEF vars
<1>4. QED
  BY <1>1, <1>2, <1>3 DEF Next

\* The invariant holds in every reachable state.
LEMMA InvAlways == Spec => []Inv
<1>1. Inv /\ [Next]_vars => Inv'
  BY InvNext
<1>2. QED
  BY InvInit, <1>1, PTL DEF Spec

\* A device is started by one goroutine at a time under the mark of its attempt, no worker
\* is forgotten with the modem open, the registered one is heard, and the recovery mark is
\* that of the one recovery at work (pool.go, pool_bootstrap.go,
\* pool_reboot_recovery.go, transport_recovery_controller.go).
THEOREM SpecConsistent == Spec => []Consistent
<1>1. Inv => TypeOK
  BY Constants DEF Inv, Types, OneRecovery, TypeOK, None
<1>2. Inv => StartProtected
  BY DEF Inv, Held, Starts, StartProtected
<1>3. Inv => Consistent
  BY <1>1, <1>2 DEF Inv, Held, Consistent
<1>4. QED
  BY InvAlways, <1>3, PTL

=============================================================================
