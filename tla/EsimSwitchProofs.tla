-------------------------- MODULE EsimSwitchProofs --------------------------
(***************************************************************************)
(* Theorems about EsimSwitch, for any number of switches and profiles.     *)
(***************************************************************************)
EXTENDS EsimSwitch, TLAPS

Poll(s) == <<s, "finalize">>

\* A recovery that is let on to the restore of VoWiFi has confirmed the identity,
\* and a confirmed identity is what the card answered.
Verified ==
  \A s \in Switches :
    /\ stage[s] \in {"gate", "restore", "ended"} => poll[Poll(s)] = "ok"
    /\ poll[Poll(s)] = "ok" => Confirmed(Poll(s))

Inv == TypeOK /\ MarkHasOwner /\ Verified

-----------------------------------------------------------------------------
(* Type correctness. *)

\* What a worker has as its identity.
IsIdentity(id) ==
  /\ id \in [iccid : Iccids, phase : {"ready", "transitioning", "degraded"}, target : Iccids]
  /\ id.phase = "ready" => id.target = NoProfile

\* What is written to the identity is an identity.
LEMMA IdentityTypes ==
  ASSUME IsIdentity(identity), NEW t \in Iccids, NEW i \in Iccids
  PROVE  /\ IsIdentity(Transition(t))
         /\ IsIdentity(Ensured(t))
         /\ IsIdentity(Ready(identity, i))
         /\ IsIdentity(Degraded(identity))
         /\ IsIdentity(Degraded([identity EXCEPT !.iccid = i]))
         /\ IsIdentity(Degraded(Ready(identity, i)))
BY DEF IsIdentity, Transition, Ensured, Ready, Degraded, Iccids

\* A switch starts typed.
LEMMA TypeInit == Init => TypeOK
BY EsimAssumption DEF Init, TypeOK, Iccids, Radios, Stages, Actors

\* The targets are ICCIDs.
LEMMA TargetTyped ==
  ASSUME TypeOK, NEW s \in Switches
  PROVE  target[s] \in Iccids
BY EsimAssumption DEF TypeOK

\* A call only moves between stages.
LEMMA StageTyped ==
  ASSUME TypeOK, NEW s \in Switches, NEW from, NEW to \in Stages, Go(s, from, to)
  PROVE  stage' \in [Switches -> Stages]
BY DEF TypeOK, Go

\* Steps of the switch and of its watchdog keep the types.
LEMMA TypeSwitchStep ==
  ASSUME TypeOK, NEW s \in Switches, SwitchStep(s) \/ Watchdog(s)
  PROVE  TypeOK'
<1>1. target[s] \in Iccids
  BY TargetTyped
<1>2. CASE Lock(s) \/ Reject(s)
  BY <1>2 DEF Lock, Reject, Go, TypeOK, Stages, polls, modem
<1>3. CASE Begin(s)
  BY <1>3 DEF Begin, Go, TypeOK, Stages, polls, modem
<1>3a. CASE Capture(s)
  <2>1. (radio # "online") \in BOOLEAN
    OBVIOUS
  <2>2. flight' \in [Switches -> BOOLEAN]
    BY <1>3a, <2>1, Zenon DEF Capture, TypeOK
  <2>3. stage' \in [Switches -> Stages]
    BY <1>3a, StageTyped DEF Capture, Stages
  <2>4. QED
    BY <1>3a, <2>2, <2>3 DEF Capture, TypeOK, polls, modem
<1>4. CASE ClearIdentity(s)
  BY <1>1, <1>4, IdentityTypes DEF IsIdentity, ClearIdentity, Go, TypeOK, Stages, polls, modem
<1>5. CASE ReleaseRadio(s)
  BY <1>5 DEF ReleaseRadio, Go, TypeOK, Stages, Radios, polls, modem
<1>6. CASE Accept(s) \/ Refuse(s)
  BY <1>1, <1>6 DEF Accept, Refuse, Go, TypeOK, Stages, polls
<1>7. CASE FinishFailed(s)
  BY <1>7 DEF FinishFailed, ClearIfToken, Go, TypeOK, Stages, polls, modem
<1>8. CASE RestoreFailed(s)
  BY <1>8 DEF RestoreFailed, RestoreRadio, Go, TypeOK, Stages, Radios, polls, modem
<1>9. CASE Watchdog(s)
  BY <1>9 DEF Watchdog, TypeOK, polls, modem
<1>10. QED
  BY <1>2, <1>3, <1>4, <1>5, <1>6, <1>7, <1>8, <1>9, <1>3a DEF SwitchStep

\* Steps of the recovery keep the types.
LEMMA TypeRecoveryStep ==
  ASSUME TypeOK, NEW s \in Switches, RecoveryStep(s)
  PROVE  TypeOK'
<1>1. target[s] \in Iccids
  BY TargetTyped
<1>2. CASE Resolve(s) \/ CoreReady(s) \/ Converge(s) \/ RefreshDone(s)
  BY <1>2 DEF Resolve, CoreReady, Converge, RefreshDone, GoIfCurrent, Go, TypeOK, Stages, polls, modem
<1>3. CASE EnsureTransition(s)
  BY <1>1, <1>3, IdentityTypes
     DEF IsIdentity, EnsureTransition, StillFresh, Go, TypeOK, Stages, polls, modem
<1>4. CASE ConvergeDegraded(s) \/ StartRefresh(s) \/ RuntimeRestored(s)
  BY <1>4 DEF ConvergeDegraded, StartRefresh, RuntimeRestored, Go, TypeOK, Stages, Actors, modem
<1>5. CASE RadioOnline(s)
  BY <1>5 DEF RadioOnline, Go, TypeOK, Stages, Radios, polls, modem
<1>6. CASE SIMAuthReady(s) \/ Restore(s)
  BY <1>6 DEF SIMAuthReady, Restore, GoIfCurrent, Go, TypeOK, Stages, polls, modem
<1>7. CASE RestoreData(s)
  BY <1>7 DEF RestoreData, RestoreRadio, Go, TypeOK, Stages, Radios, polls, modem
<1>8. CASE Close(s)
  BY <1>8 DEF Close, ClearIfToken, Go, TypeOK, Stages, polls, modem
<1>9. QED
  BY <1>2, <1>3, <1>4, <1>5, <1>6, <1>7, <1>8 DEF RecoveryStep

\* Readers of the identity keep the types.
LEMMA TypeReaderStep ==
  ASSUME TypeOK,
         \/ \E s \in Switches : RetryCheck(s)
         \/ \E a \in Actors : PollActorStep(a)
         \/ LiveRead \/ LiveWrite \/ CardSettles
  PROVE  TypeOK'
<1>1. ASSUME NEW s \in Switches, RetryCheck(s) PROVE TypeOK'
  BY <1>1 DEF RetryCheck, PollStep, TypeOK, Actors, modem
<1>2. ASSUME NEW a \in Actors, PollEnsure(a) PROVE TypeOK'
  <2>1. a[1] \in Switches /\ target[a[1]] \in Iccids
    BY TargetTyped DEF Actors
  <2>2. QED
    BY <1>2, <2>1, IdentityTypes DEF IsIdentity, PollEnsure, PollStep, StillFresh, TypeOK, modem
<1>3. ASSUME NEW a \in Actors, PollRead(a) PROVE TypeOK'
  BY <1>3 DEF PollRead, PollStep, TypeOK, Iccids, modem
<1>4. ASSUME NEW a \in Actors, PollWrite(a) PROVE TypeOK'
  <2>1. {seen[a], identity.iccid, NoProfile} \subseteq Iccids
    BY DEF TypeOK, Iccids
  <2>2. identity' \in {Ready(identity, seen[a])} \cup Unconfirmed(a)
    BY <1>4 DEF PollWrite
  <2>3. \/ identity' = Ready(identity, seen[a])
        \/ identity' = Degraded(identity)
        \/ \E i \in {identity.iccid, NoProfile} :
             identity' = Degraded([identity EXCEPT !.iccid = i]) \/ identity' = Degraded(Ready(identity, i))
    BY <2>2 DEF Unconfirmed
  <2>4. IsIdentity(identity')
    <3>1. IsIdentity(identity)
      BY DEF IsIdentity, TypeOK
    <3>2. CASE identity' = Ready(identity, seen[a]) \/ identity' = Degraded(identity)
      BY <2>1, <3>1, <3>2, IdentityTypes
    <3>3. ASSUME NEW i \in {identity.iccid, NoProfile},
                 \/ identity' = Degraded([identity EXCEPT !.iccid = i])
                 \/ identity' = Degraded(Ready(identity, i))
          PROVE  IsIdentity(identity')
      <4>1. i \in Iccids
        BY <2>1
      <4>2. /\ IsIdentity(Degraded([identity EXCEPT !.iccid = i]))
            /\ IsIdentity(Degraded(Ready(identity, i)))
        BY <3>1, <4>1, IdentityTypes
      <4>3. QED
        BY <3>3, <4>2
    <3>4. QED
      BY <2>3, <3>2, <3>3
  <2>5. /\ poll' \in [Actors -> {"idle", "delay", "ensure", "read", "write", "ok", "degraded"}]
        /\ seen' \in [Actors -> Iccids]
    BY <1>4, <2>1 DEF PollWrite, PollStep, PollResult, TypeOK
  <2>6. QED
    BY <1>4, <2>4, <2>5 DEF PollWrite, IsIdentity, TypeOK, modem
<1>5. CASE LiveRead \/ CardSettles
  BY <1>5 DEF LiveRead, CardSettles, TypeOK, polls, modem
<1>6. CASE LiveWrite
  <2>1. live \in Iccids /\ NoProfile \in Iccids
    BY DEF TypeOK, Iccids
  <2>2. QED
    BY <1>6, <2>1, IdentityTypes DEF IsIdentity, LiveWrite, TypeOK, polls, modem
<1>7. QED
  BY <1>1, <1>2, <1>3, <1>4, <1>5, <1>6 DEF PollActorStep

\* Every step keeps the types.
LEMMA TypeStep == TypeOK /\ [Next]_vars => TypeOK'
<1> SUFFICES ASSUME TypeOK, [Next]_vars PROVE TypeOK'
  OBVIOUS
<1>1. CASE UNCHANGED vars
  BY <1>1 DEF TypeOK, vars, polls, modem
<1>2. ASSUME NEW s \in Switches, SwitchStep(s) \/ RecoveryStep(s) \/ Watchdog(s) PROVE TypeOK'
  BY <1>2, TypeSwitchStep, TypeRecoveryStep
<1>3. QED
  BY <1>1, <1>2, TypeReaderStep DEF Next

-----------------------------------------------------------------------------
(* The owner of the mark. *)

\* A call that moves within the marked stages, or that does not hold the mark,
\* leaves it with its owner.
LEMMA OwnerMoves ==
  ASSUME TypeOK, MarkHasOwner, NEW s \in Switches, NEW to,
         stage' = [stage EXCEPT ![s] = to], current' = current,
         current = s => to \notin {"idle", "locked", "captured", "failed", "done"}
  PROVE  MarkHasOwner'
BY DEF TypeOK, MarkHasOwner, Marked

\* A call that lets go of the mark, if it is its own, may go anywhere.
LEMMA OwnerLeaves ==
  ASSUME TypeOK, MarkHasOwner, NEW s \in Switches, NEW to,
         stage' = [stage EXCEPT ![s] = to], ClearIfToken(s)
  PROVE  MarkHasOwner'
BY EsimAssumption DEF TypeOK, MarkHasOwner, Marked, ClearIfToken

\* A step of a call leaves the mark with an owner.
LEMMA OwnerStep ==
  ASSUME TypeOK, MarkHasOwner, NEW s \in Switches,
         SwitchStep(s) \/ RecoveryStep(s) \/ Watchdog(s)
  PROVE  MarkHasOwner'
<1>1. CASE Lock(s) \/ Reject(s) \/ Capture(s) \/ RestoreFailed(s)
  <2>1. current # s
    BY <1>1, EsimAssumption
       DEF Lock, Reject, Capture, RestoreFailed, Go, MarkHasOwner, Marked
  <2>2. QED
    BY <1>1, <2>1, OwnerMoves DEF Lock, Reject, Capture, RestoreFailed, Go
<1>2. CASE Begin(s)
  BY <1>2 DEF Begin, Go, TypeOK, MarkHasOwner, Marked
<1>3. CASE ClearIdentity(s) \/ ReleaseRadio(s) \/ Accept(s) \/ Refuse(s)
  BY <1>3, OwnerMoves DEF ClearIdentity, ReleaseRadio, Accept, Refuse, Go
<1>4. CASE FinishFailed(s) \/ Close(s)
  BY <1>4, OwnerLeaves DEF FinishFailed, Close, Go
<1>5. CASE Watchdog(s)
  BY <1>5, EsimAssumption DEF Watchdog, MarkHasOwner
<1>6. CASE EnsureTransition(s) \/ Converge(s) \/ ConvergeDegraded(s) \/ RadioOnline(s)
           \/ Restore(s) \/ RestoreData(s)
  BY <1>6, OwnerMoves
     DEF EnsureTransition, Converge, ConvergeDegraded, RadioOnline, Restore, RestoreData, Go
<1>7. CASE Resolve(s) \/ CoreReady(s) \/ StartRefresh(s) \/ RefreshDone(s)
           \/ RuntimeRestored(s) \/ SIMAuthReady(s)
  BY <1>7, OwnerMoves
     DEF Resolve, CoreReady, StartRefresh, RefreshDone, RuntimeRestored, SIMAuthReady,
         GoIfCurrent, Go
<1>8. QED
  BY <1>1, <1>2, <1>3, <1>4, <1>5, <1>6, <1>7 DEF SwitchStep, RecoveryStep

\* Every step leaves the mark with an owner: the readers do not touch it.
LEMMA OwnerNext == TypeOK /\ MarkHasOwner /\ [Next]_vars => MarkHasOwner'
<1> SUFFICES ASSUME TypeOK, MarkHasOwner, [Next]_vars PROVE MarkHasOwner'
  OBVIOUS
<1>1. CASE UNCHANGED <<stage, current>>
  BY <1>1 DEF MarkHasOwner, Marked
<1>2. ASSUME NEW s \in Switches, SwitchStep(s) \/ RecoveryStep(s) \/ Watchdog(s)
      PROVE  MarkHasOwner'
  BY <1>2, OwnerStep
<1>3. ASSUME NEW s \in Switches, RetryCheck(s) PROVE UNCHANGED <<stage, current>>
  BY <1>3 DEF RetryCheck
<1>4. ASSUME NEW a \in Actors, PollActorStep(a) PROVE UNCHANGED <<stage, current>>
  BY <1>4 DEF PollActorStep, PollEnsure, PollRead, PollWrite
<1>5. ASSUME LiveRead \/ LiveWrite \/ CardSettles \/ UNCHANGED vars
      PROVE  UNCHANGED <<stage, current>>
  BY <1>5 DEF LiveRead, LiveWrite, CardSettles, vars
<1>6. QED
  BY <1>1, <1>2, <1>3, <1>4, <1>5 DEF Next

-----------------------------------------------------------------------------
(* The confirmed identity. *)

\* A call that moves without its poll stays verified, unless it moves into the
\* stages that need a confirmed identity from outside them.
LEMMA VerifiedMoves ==
  ASSUME TypeOK, Verified, NEW s \in Switches, NEW to,
         stage' = [stage EXCEPT ![s] = to], UNCHANGED <<poll, seen, target>>,
         to \in {"gate", "restore", "ended"} => stage[s] \in {"gate", "restore"}
  PROVE  Verified'
BY DEF TypeOK, Verified, Confirmed, Poll

\* A call whose stage is unchanged or not one of those, and whose own poll does
\* not end, stays verified.
LEMMA VerifiedRetries ==
  ASSUME TypeOK, Verified, NEW s \in Switches, NEW to, NEW a \in Actors, NEW p,
         stage' = [stage EXCEPT ![s] = to], poll' = [poll EXCEPT ![a] = p],
         UNCHANGED <<seen, target>>, a[1] = s,
         a[2] = "retry" \/ p # "ok",
         \/ to \notin {"gate", "restore", "ended"}
         \/ a[2] = "retry" /\ poll[Poll(s)] = "ok"
  PROVE  Verified'
<1> SUFFICES ASSUME NEW t \in Switches
             PROVE  /\ stage'[t] \in {"gate", "restore", "ended"} => poll'[Poll(t)] = "ok"
                    /\ poll'[Poll(t)] = "ok" => Confirmed(Poll(t))'
  BY DEF Verified
<1>1. Confirmed(Poll(t))' <=> Confirmed(Poll(t))
  BY DEF Confirmed
<1>2. Poll(t) \in Actors /\ Poll(t)[1] = t /\ Poll(t)[2] = "finalize"
  BY DEF Poll, Actors
<1>3. poll'[Poll(t)] = IF Poll(t) = a THEN p ELSE poll[Poll(t)]
  BY <1>2 DEF TypeOK
<1>4. stage'[t] = IF t = s THEN to ELSE stage[t]
  BY DEF TypeOK
<1>5. QED
  BY <1>1, <1>2, <1>3, <1>4 DEF Verified

\* A step of a call keeps the calls verified.
LEMMA VerifiedStep ==
  ASSUME TypeOK, Verified, NEW s \in Switches,
         SwitchStep(s) \/ RecoveryStep(s) \/ Watchdog(s)
  PROVE  Verified'
<1>1. CASE Watchdog(s)
  BY <1>1 DEF Watchdog, Verified, Confirmed, polls
<1>2. CASE SwitchStep(s)
  BY <1>2, VerifiedMoves
     DEF SwitchStep, Lock, Reject, Capture, Begin, ClearIdentity, ReleaseRadio, Accept,
         Refuse, FinishFailed, RestoreFailed, Go, polls
<1>3. CASE Resolve(s) \/ EnsureTransition(s) \/ CoreReady(s) \/ Converge(s) \/ RadioOnline(s)
           \/ RefreshDone(s) \/ RestoreData(s) \/ Close(s)
  BY <1>3, VerifiedMoves
     DEF Resolve, EnsureTransition, CoreReady, Converge, RadioOnline, RefreshDone,
         RestoreData, Close, GoIfCurrent, Go, polls
<1>4. CASE SIMAuthReady(s) \/ Restore(s)
  BY <1>4, VerifiedMoves DEF SIMAuthReady, Restore, GoIfCurrent, Go, polls
<1>5. CASE ConvergeDegraded(s)
  <2>1. <<s, "retry">> \in Actors
    BY DEF Actors
  <2>2. QED
    BY <1>5, <2>1, VerifiedRetries DEF ConvergeDegraded, Go
<1>6. CASE StartRefresh(s)
  <2>1. CASE current = s \/ ~config.radioCycle
    <3>1. <<s, "finalize">> \in Actors
      BY DEF Actors
    <3>2. stage' = [stage EXCEPT ![s] = "refresh"]
          /\ poll' = [poll EXCEPT ![<<s, "finalize">>] = "ensure"]
          /\ UNCHANGED <<seen, target>>
      BY <1>6, <2>1 DEF StartRefresh, Go
    <3>3. QED
      BY <3>1, <3>2, VerifiedRetries
  <2>2. CASE ~(current = s \/ ~config.radioCycle)
    <3>1. stage' = [stage EXCEPT ![s] = "done"] /\ UNCHANGED <<poll, seen, target>>
      BY <1>6, <2>2 DEF StartRefresh, Go
    <3>2. QED
      BY <3>1, VerifiedMoves
  <2>3. QED
    BY <2>1, <2>2
<1>7. CASE RuntimeRestored(s)
  <2>1. CASE current # s
    <3>1. stage' = [stage EXCEPT ![s] = "done"] /\ UNCHANGED <<poll, seen, target>>
      BY <1>7, <2>1 DEF RuntimeRestored, Go
    <3>2. QED
      BY <3>1, VerifiedMoves
  <2>2. CASE current = s
    <3> DEFINE to == IF poll[Poll(s)] = "ok" THEN "gate" ELSE "data"
    <3>1. <<s, "retry">> \in Actors
      BY DEF Actors
    <3>2. /\ stage' = [stage EXCEPT ![s] = to]
          /\ poll' = [poll EXCEPT ![<<s, "retry">>] = "delay"]
          /\ UNCHANGED <<seen, target>>
      BY <1>7, <2>2 DEF RuntimeRestored, Go, Poll
    <3>3. to \notin {"gate", "restore", "ended"} \/ poll[Poll(s)] = "ok"
      OBVIOUS
    <3> HIDE DEF to
    <3>4. QED
      BY <3>1, <3>2, <3>3, VerifiedRetries
  <2>3. QED
    BY <2>1, <2>2
<1>8. QED
  BY <1>1, <1>2, <1>3, <1>4, <1>5, <1>6, <1>7 DEF RecoveryStep

\* A poll that goes on, or ends with a reading that confirms the target, keeps the
\* calls verified.
LEMMA VerifiedPoll ==
  ASSUME TypeOK, Verified, NEW a \in Actors, NEW p, NEW i,
         poll[a] # "ok", poll' = [poll EXCEPT ![a] = p],
         seen' = [seen EXCEPT ![a] = i], UNCHANGED <<stage, target>>,
         p = "ok" => i = seen[a] /\ Confirmed(a)
  PROVE  Verified'
<1> SUFFICES ASSUME NEW s \in Switches
             PROVE  /\ stage'[s] \in {"gate", "restore", "ended"} => poll'[Poll(s)] = "ok"
                    /\ poll'[Poll(s)] = "ok" => Confirmed(Poll(s))'
  BY DEF Verified
<1>1. Poll(s) \in Actors
  BY DEF Poll, Actors
<1>2. poll'[Poll(s)] = IF Poll(s) = a THEN p ELSE poll[Poll(s)]
  BY <1>1 DEF TypeOK
<1>3. seen'[Poll(s)] = IF Poll(s) = a THEN i ELSE seen[Poll(s)]
  BY <1>1 DEF TypeOK
<1>4. CASE Poll(s) # a
  BY <1>2, <1>3, <1>4 DEF Verified, Confirmed
<1>5. CASE Poll(s) = a
  BY <1>2, <1>3, <1>5 DEF Verified, Confirmed
<1>6. QED
  BY <1>4, <1>5

\* A step of a reader keeps the calls verified: the poll of a recovery ends well
\* only with a reading that confirms the target.
LEMMA VerifiedReader ==
  ASSUME TypeOK, Verified,
         \/ \E s \in Switches : RetryCheck(s)
         \/ \E a \in Actors : PollActorStep(a)
         \/ LiveRead \/ LiveWrite \/ CardSettles
  PROVE  Verified'
<1>1. ASSUME NEW s \in Switches, RetryCheck(s) PROVE Verified'
  <2> DEFINE p == IF ConvergenceMatches(s) THEN "ensure" ELSE "idle"
  <2>1. /\ poll[<<s, "retry">>] # "ok" /\ poll' = [poll EXCEPT ![<<s, "retry">>] = p]
        /\ UNCHANGED <<stage, target>> /\ seen' = seen
    BY <1>1 DEF RetryCheck, PollStep
  <2>2. <<s, "retry">> \in Actors
    BY DEF Actors
  <2>3. seen' = [seen EXCEPT ![<<s, "retry">>] = seen[<<s, "retry">>]]
    BY <2>1, <2>2 DEF TypeOK
  <2>4. p # "ok"
    OBVIOUS
  <2> HIDE DEF p
  <2>5. QED
    BY <2>1, <2>2, <2>3, <2>4, VerifiedPoll
<1>2. ASSUME NEW a \in Actors, PollEnsure(a) PROVE Verified'
  <2>1. seen' = [seen EXCEPT ![a] = seen[a]]
    BY <1>2 DEF PollEnsure, TypeOK
  <2>2. QED
    BY <1>2, <2>1, VerifiedPoll DEF PollEnsure, PollStep
<1>3. ASSUME NEW a \in Actors, PollRead(a) PROVE Verified'
  BY <1>3, VerifiedPoll DEF PollRead, PollStep
<1>4. ASSUME NEW a \in Actors, PollWrite(a) PROVE Verified'
  <2> DEFINE i == IF PollResult(a) = "ok" THEN seen[a] ELSE NoProfile
  <2>1. /\ poll[a] # "ok" /\ poll' = [poll EXCEPT ![a] = PollResult(a)]
        /\ UNCHANGED <<stage, target>>
    BY <1>4 DEF PollWrite, PollStep
  <2>2. seen' = [seen EXCEPT ![a] = i]
    BY <1>4 DEF PollWrite, TypeOK
  <2>3. PollResult(a) = "ok" => i = seen[a] /\ Confirmed(a)
    BY DEF PollResult
  <2> HIDE DEF i
  <2>4. QED
    BY <2>1, <2>2, <2>3, VerifiedPoll
<1>5. ASSUME LiveRead \/ LiveWrite \/ CardSettles PROVE Verified'
  BY <1>5 DEF LiveRead, LiveWrite, CardSettles, Verified, Confirmed, polls
<1>6. QED
  BY <1>1, <1>2, <1>3, <1>4, <1>5 DEF PollActorStep

\* Every step keeps the calls verified.
LEMMA VerifiedNext == TypeOK /\ Verified /\ [Next]_vars => Verified'
<1> SUFFICES ASSUME TypeOK, Verified, [Next]_vars PROVE Verified'
  OBVIOUS
<1>1. CASE UNCHANGED vars
  BY <1>1 DEF vars, polls, Verified, Confirmed
<1>2. ASSUME NEW s \in Switches, SwitchStep(s) \/ RecoveryStep(s) \/ Watchdog(s)
      PROVE  Verified'
  BY <1>2, VerifiedStep
<1>3. QED
  BY <1>1, <1>2, VerifiedReader DEF Next

-----------------------------------------------------------------------------
(* Theorems. *)

\* The invariant holds at the start.
LEMMA InvInit == Init => Inv
<1> SUFFICES ASSUME Init PROVE Inv
  OBVIOUS
<1>1. MarkHasOwner
  BY DEF Init, MarkHasOwner
<1>2. Verified
  BY DEF Init, Verified, Actors, Poll
<1>3. QED
  BY <1>1, <1>2, TypeInit DEF Inv

\* Every step preserves the invariant.
LEMMA InvNext == Inv /\ [Next]_vars => Inv'
BY TypeStep, OwnerNext, VerifiedNext DEF Inv

\* The inductive invariant of the switch: types, the owner of the mark, and what
\* the recoveries have confirmed.
THEOREM Invariant == Spec => []Inv
BY InvInit, InvNext, PTL DEF Spec

\* Every variable keeps to its type.
THEOREM Typed == Spec => []TypeOK
<1>1. Inv => TypeOK
  BY DEF Inv
<1>2. QED
  BY <1>1, Invariant, PTL

\* The switching mark of clearESIMSwitchIfToken and its watchdog always belongs to
\* a switch that is still going on.
THEOREM MarkOwned == Spec => []MarkHasOwner
<1>1. Inv => MarkHasOwner
  BY DEF Inv
<1>2. QED
  BY <1>1, Invariant, PTL

\* handleESIMSwitchAfter restores VoWiFi only after the card confirmed the target.
THEOREM RestoreVerified == Spec => []RestoredMeansVerified
<1>1. Inv => RestoredMeansVerified
  BY DEF Inv, Verified, RestoredMeansVerified, Confirmed, Poll
<1>2. QED
  BY <1>1, Invariant, PTL

\* The marks and the identity are right in every reachable state.
THEOREM SwitchConsistent == Spec => []Consistent
<1>1. TypeOK /\ MarkHasOwner /\ RestoredMeansVerified => Consistent
  BY DEF Consistent
<1>2. QED
  BY <1>1, Typed, MarkOwned, RestoreVerified, PTL

\* A step that takes the mark from a call is one of those MarkKept allows.
LEMMA MarkStep ==
  ASSUME TypeOK, [Next]_vars, NEW s \in Switches, current = s, current' # s
  PROVE  stage'[s] # stage[s] \/ stage' = stage \/ current' \in Switches
<1>1. ASSUME NEW t \in Switches, Begin(t) PROVE current' \in Switches
  BY <1>1 DEF Begin
<1>2. ASSUME NEW t \in Switches, Watchdog(t) PROVE stage' = stage
  BY <1>2 DEF Watchdog
<1>3. ASSUME NEW t \in Switches, FinishFailed(t) \/ Close(t) PROVE stage'[s] # stage[s]
  <2>1. t = s
    BY <1>3 DEF FinishFailed, Close, ClearIfToken
  <2>2. QED
    BY <1>3, <2>1 DEF FinishFailed, Close, Go, TypeOK
<1>4. ASSUME NEW t \in Switches, SwitchStep(t), ~Begin(t), ~FinishFailed(t)
      PROVE  FALSE
  BY <1>4 DEF SwitchStep, Lock, Reject, Capture, ClearIdentity, ReleaseRadio, Accept,
              Refuse, RestoreFailed
<1>5. ASSUME NEW t \in Switches, RecoveryStep(t), ~Close(t) PROVE FALSE
  BY <1>5 DEF RecoveryStep, Resolve, EnsureTransition, CoreReady, Converge,
              ConvergeDegraded, RadioOnline, StartRefresh, RefreshDone, RuntimeRestored,
              SIMAuthReady, Restore, RestoreData
<1>6. ASSUME \/ \E t \in Switches : RetryCheck(t)
             \/ \E a \in Actors : PollActorStep(a)
             \/ LiveRead \/ LiveWrite \/ CardSettles \/ UNCHANGED vars
      PROVE  FALSE
  BY <1>6 DEF RetryCheck, PollActorStep, PollEnsure, PollRead, PollWrite, LiveRead,
              LiveWrite, CardSettles, vars
<1>7. QED
  BY <1>1, <1>2, <1>3, <1>4, <1>5, <1>6 DEF Next

\* The end of a superseded switch never takes the mark of its successor.
THEOREM MarkIsKept == Spec => MarkKept
<1>1. TypeOK /\ [Next]_vars
      => [\A s \in Switches : current = s /\ current' # s
            => stage'[s] # stage[s] \/ stage' = stage \/ current' \in Switches]_vars
  BY MarkStep
<1>2. QED
  BY <1>1, Typed, PTL DEF Spec, MarkKept

\* A poll that makes the identity ready was for the target, and has read it.
LEMMA PollEndsAtTarget ==
  ASSUME TypeOK, NEW a \in Actors, PollWrite(a), identity.target # NoProfile,
         identity'.phase = "ready", ~OtherTarget(identity.target)
  PROVE  identity'.iccid = identity.target
<1>1. poll[a] = "write" /\ target[a[1]] = identity.target
  BY DEF PollWrite, PollStep, OtherTarget
<1>2. identity \in [iccid : Iccids, phase : {"ready", "transitioning", "degraded"},
                    target : Iccids]
  BY DEF TypeOK
<1>3. CASE Confirmed(a)
  <2>1. seen[a] = identity.target
    BY <1>1, <1>3 DEF Confirmed
  <2>2. identity' = Ready(identity, seen[a])
    BY <1>3 DEF PollWrite
  <2>3. QED
    BY <1>2, <2>1, <2>2 DEF Ready
<1>4. CASE ~Confirmed(a)
  <2>1. identity' = Degraded(identity)
    BY <1>1, <1>4 DEF PollWrite, Unconfirmed
  <2>2. identity'.phase = "degraded"
    BY <1>2, <2>1 DEF Degraded
  <2>3. QED
    BY <2>2
<1>5. QED
  BY <1>3, <1>4

\* Nothing else ends a transition to a known target but a live read of that target.
LEMMA TransitionStep ==
  ASSUME TypeOK, [Next]_vars, identity.phase # "ready", identity.target # NoProfile,
         identity'.phase = "ready", ~OtherTarget(identity.target)
  PROVE  identity'.iccid = identity.target
<1>1. identity \in [iccid : Iccids, phase : {"ready", "transitioning", "degraded"},
                    target : Iccids]
  BY DEF TypeOK
<1>2. ASSUME NEW t, identity' = Ensured(t) \/ identity' = Transition(t) PROVE FALSE
  <2>1. CASE identity' = identity
    BY <2>1
  <2>2. CASE identity' = Transition(t)
    BY <2>2 DEF Transition
  <2>3. QED
    BY <1>2, <2>1, <2>2 DEF Ensured
<1>3. ASSUME NEW s \in Switches, SwitchStep(s) PROVE FALSE
  <2>1. CASE ClearIdentity(s)
    BY <1>2, <2>1 DEF ClearIdentity
  <2>2. CASE ~ClearIdentity(s)
    BY <1>3, <2>2 DEF SwitchStep, Lock, Reject, Capture, Begin, ReleaseRadio, Accept, Refuse,
                      FinishFailed, RestoreFailed
  <2>3. QED
    BY <2>1, <2>2
<1>4. ASSUME NEW s \in Switches, RecoveryStep(s) PROVE FALSE
  <2>1. CASE EnsureTransition(s)
    BY <1>2, <2>1 DEF EnsureTransition
  <2>2. CASE ~EnsureTransition(s)
    BY <1>4, <2>2 DEF RecoveryStep, Resolve, CoreReady, Converge, ConvergeDegraded, RadioOnline,
                      StartRefresh, RefreshDone, RuntimeRestored, SIMAuthReady, Restore,
                      RestoreData, Close
  <2>3. QED
    BY <2>1, <2>2
<1>5. ASSUME NEW a \in Actors, PollActorStep(a) PROVE identity'.iccid = identity.target
  <2>1. CASE PollEnsure(a)
    BY <1>2, <2>1 DEF PollEnsure
  <2>2. CASE PollRead(a)
    BY <2>2 DEF PollRead
  <2>3. CASE PollWrite(a)
    BY <2>3, PollEndsAtTarget
  <2>4. QED
    BY <1>5, <2>1, <2>2, <2>3 DEF PollActorStep
<1>6. CASE LiveWrite
  <2>1. identity.target = live /\ identity' = Ready(identity, live)
    BY <1>6 DEF LiveWrite
  <2>2. QED
    BY <1>1, <2>1 DEF Ready
<1>7. CASE \/ \E s \in Switches : Watchdog(s) \/ RetryCheck(s)
           \/ LiveRead \/ CardSettles \/ UNCHANGED vars
  BY <1>7 DEF Watchdog, RetryCheck, LiveRead, CardSettles, vars
<1>8. QED
  BY <1>3, <1>4, <1>5, <1>6, <1>7 DEF Next

\* refreshPostSwitchIdentityWithPolling and refreshIdentityLive: whoever ends a transition to a
\* known target, while no reader for another target is at work, leaves that target behind.
THEOREM TransitionsEnd == Spec => TransitionEndsAtTarget
<1>1. TypeOK /\ [Next]_vars
      => [identity.phase # "ready" /\ identity.target # NoProfile
          /\ identity'.phase = "ready" /\ ~OtherTarget(identity.target)
          => identity'.iccid = identity.target]_vars
  BY TransitionStep
<1>2. QED
  BY <1>1, Typed, PTL DEF Spec, TransitionEndsAtTarget
=============================================================================
