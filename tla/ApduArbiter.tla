---------------------------- MODULE ApduArbiter ----------------------------
(***************************************************************************)
(* The per-device APDU arbiter of internal/apduarbiter.  Goroutines call   *)
(* AcquireSession, AcquireOneShot, AcquireTransport or BeginBarrier; a     *)
(* call appends a ticket to one queue and then re-evaluates, each time the *)
(* notification channel is closed, whether its own ticket may be granted.  *)
(*                                                                         *)
(* One element of Requests is one such call together with the Lease or the *)
(* Barrier it returns: its identity is the ticket id drawn from a.seq, so  *)
(* an element is used once.  Every critical section under a.mu is one      *)
(* action.  Wall-clock time is abstracted to two facts that may become     *)
(* true at any moment: a queued ticket is older than                       *)
(* transportPriorityAging (aged), and a lease timer reaches its deadline.  *)
(***************************************************************************)
EXTENDS Integers, Sequences, FiniteSets, SequencesExt

CONSTANTS
  Requests,         \* the acquire calls, each made at most once
  Idlers,           \* the WaitIdle calls, each made at most once
  Calls,            \* the arguments a call may be made with: a set of Call records
  Mixes,            \* which calls are made together: functions from Requests to Calls
  MaxSessions,      \* Options.MaxSessions
  MaxQMITransports, \* Options.MaxQMITransports
  NoRequest         \* activeOneshot = nil

Classes == {"EUICCWrite", "EUICCRead", "USIMAKA", "SMSC", "SwitchBarrier", "Recovery"}
LeaseTypes == {"session", "oneshot", "transport", "barrier"}
Scopes == {"exclusive", "qmi_channel"}
NoClass == ""

\* The arguments of an acquire call before normalisation.
Call == [leaseType : LeaseTypes, mode : {"QMI", "MBIM", "AT"}, class : Classes \cup {NoClass},
         channel : Nat, scope : Scopes, blocked : SUBSET (Classes \cup {NoClass})]

ASSUME ArbiterAssumption ==
  /\ Calls \subseteq Call
  /\ Mixes \subseteq [Requests -> Calls]
  /\ IsFiniteSet(Requests)
  /\ NoRequest \notin Requests
  /\ MaxSessions \in Nat \ {0}
  /\ MaxQMITransports \in Nat \ {0}

VARIABLES
  args,             \* the arguments each call is made with; never changes
  queue,            \* a.queue, the ids of the waiting tickets in arrival order
  aged,             \* tickets enqueued at least transportPriorityAging ago
  activeSessions, activeOneshot, activeTransports, activeBarriers,
  call,             \* where the goroutine of each request is
  idler,            \* where the goroutine of each WaitIdle call is
  armed,            \* leases whose watchdog timer is running
  firing,           \* leases with a timer callback started but not yet in a.mu
  lapsed            \* leases whose expiresAt has passed

active == <<activeSessions, activeOneshot, activeTransports, activeBarriers>>
watchdog == <<armed, firing, lapsed>>
vars == <<args, queue, aged, active, call, idler, watchdog>>

-----------------------------------------------------------------------------
(* Normalisation of the arguments: the ticket the arbiter works with. *)

NormalizeClass(class, leaseType) ==
  IF class # NoClass THEN class
  ELSE IF leaseType = "oneshot" THEN "USIMAKA" ELSE "EUICCWrite"

NormalizeTransportScope(c) ==
  IF /\ c.leaseType = "transport" /\ c.scope = "qmi_channel"
     /\ c.mode = "QMI" /\ c.channel > 0
  THEN "qmi_channel" ELSE "exclusive"

\* BeginBarrier labels an unclassed barrier and defaults the blocked classes.
BarrierClass(c) == IF c.class = NoClass THEN "SwitchBarrier" ELSE c.class

BlockedClasses(c) ==
  IF c.blocked = {} THEN {"USIMAKA", "SMSC"}
  ELSE {NormalizeClass(k, "oneshot") : k \in c.blocked}

LeaseType(r) == args[r].leaseType
IsBarrier(r) == LeaseType(r) = "barrier"
IsTransport(r) == LeaseType(r) = "transport"
Class(r) == IF IsBarrier(r) THEN BarrierClass(args[r])
            ELSE NormalizeClass(args[r].class, LeaseType(r))
Scope(r) == NormalizeTransportScope(args[r])
Channel(r) == args[r].channel

-----------------------------------------------------------------------------
(* Predicates over the locked state. *)

ActiveLeases ==
  activeSessions \cup activeTransports \cup ({activeOneshot} \ {NoRequest})

IsIdle ==
  /\ activeOneshot = NoRequest
  /\ activeTransports = {} /\ activeSessions = {} /\ activeBarriers = {}
  /\ queue = <<>>

QMITransports == {t \in activeTransports : Scope(t) = "qmi_channel"}
ActiveExclusive == activeTransports # QMITransports
QMIWindowFull == Cardinality(QMITransports) >= MaxQMITransports

BlockedByActiveBarrier(r) ==
  \E b \in activeBarriers : Class(r) \in BlockedClasses(args[b])

Position(q, r) == CHOOSE i \in DOMAIN q : q[i] = r

PendingBarrierAhead(q, r) ==
  \E i \in DOMAIN q :
    /\ i < Position(q, r)
    /\ IsBarrier(q[i])
    /\ Class(r) \in BlockedClasses(args[q[i]])

CanAcquireTransportNow(r) ==
  IF Scope(r) = "exclusive" THEN activeTransports = {}
  ELSE /\ ~ActiveExclusive
       /\ ~QMIWindowFull
       /\ \A t \in QMITransports : Channel(t) # Channel(r)

\* A transport that must wait either lets later tickets pass or gates them.
WaitGatesQueue(r) ==
  Scope(r) = "exclusive" \/ ActiveExclusive \/ QMIWindowFull

\* Mutant: the scan skips a queued barrier instead of stopping at it.
ScanPassesBarrier(r) ==
  \/ ~IsTransport(r) /\ ~IsBarrier(r)
  \/ /\ IsTransport(r)
     /\ ~BlockedByActiveBarrier(r)
     /\ ~CanAcquireTransportNow(r)
     /\ WaitGatesQueue(r)

\* selectedTransportLocked scans the queue from its head; the scan stops at a
\* ticket that is no transport and at a waiting transport that gates the rest.
StopsScan(r) ==
  \/ ~IsTransport(r)
  \/ /\ ~BlockedByActiveBarrier(r)
     /\ ~CanAcquireTransportNow(r)
     /\ WaitGatesQueue(r)

Eligible(q) ==
  {i \in DOMAIN q :
     /\ \A j \in 1..i : ~StopsScan(q[j])
     /\ ~BlockedByActiveBarrier(q[i])
     /\ CanAcquireTransportNow(q[i])}

First(indices, i) == i \in indices /\ \A j \in indices : i <= j

\* Aged tickets that are not AKA come first, then AKA, then the oldest.
SelectedTransport(q, r) ==
  LET eligible == Eligible(q)
      aka      == {i \in eligible : Class(q[i]) = "USIMAKA"}
      old      == {i \in eligible \ aka : q[i] \in aged}
      chosen   == IF old # {} THEN old ELSE IF aka # {} THEN aka ELSE eligible
  IN  \E i \in DOMAIN q : First(chosen, i) /\ q[i] = r

HeadIs(q, r) == q # <<>> /\ Head(q) = r

CanAcquireLease(q, r) ==
  /\ ~IsBarrier(r)
  /\ ~BlockedByActiveBarrier(r)
  /\ ~PendingBarrierAhead(q, r)
  /\ activeOneshot = NoRequest
  /\ CASE LeaseType(r) = "session" ->
            /\ HeadIs(q, r) /\ activeTransports = {}
            /\ Cardinality(activeSessions) < MaxSessions
       [] LeaseType(r) = "oneshot" ->
            HeadIs(q, r) /\ activeTransports = {} /\ activeSessions = {}
       [] OTHER ->
            activeSessions = {} /\ SelectedTransport(q, r)

\* Mutant: a barrier only waits for the transports.
CanAcquireBarrierEarly(q, r) ==
  /\ IsBarrier(r)
  /\ activeTransports = {}
  /\ \E i \in DOMAIN q : First({j \in DOMAIN q : IsBarrier(q[j])}, i) /\ q[i] = r

\* selectedBarrierLocked: the first barrier of the queue, wherever it stands.
CanAcquireBarrier(q, r) ==
  /\ IsBarrier(r)
  /\ ActiveLeases = {}
  /\ \E i \in DOMAIN q : First({j \in DOMAIN q : IsBarrier(q[j])}, i) /\ q[i] = r

CanAcquire(q, r) == CanAcquireLease(q, r) \/ CanAcquireBarrier(q, r)

-----------------------------------------------------------------------------
(* signalLocked closes notifyC: every goroutine parked on it is woken. *)

WakeAll(f) == [x \in DOMAIN f |-> IF f[x] = "parked" THEN "woken" ELSE f[x]]

Signal(c) == call' = WakeAll(c) /\ idler' = WakeAll(idler)

RemoveTicket(q, r) == RemoveAt(q, Position(q, r))

Activate(r) ==
  /\ activeSessions' = activeSessions \cup (IF LeaseType(r) = "session" THEN {r} ELSE {})
  /\ activeOneshot' = IF LeaseType(r) = "oneshot" THEN r ELSE activeOneshot
  /\ activeTransports' = activeTransports \cup (IF IsTransport(r) THEN {r} ELSE {})

\* The granted ticket leaves q, is made active with a running watchdog (leases
\* only), and everybody else re-evaluates.
Grant(q, r) ==
  /\ queue' = RemoveTicket(q, r)
  /\ Activate(r)
  /\ activeBarriers' = activeBarriers \cup (IF IsBarrier(r) THEN {r} ELSE {})
  /\ armed' = IF IsBarrier(r) THEN armed ELSE armed \cup {r}
  /\ Signal([call EXCEPT ![r] = "holding"])
  /\ UNCHANGED <<args, aged, firing, lapsed>>

\* A call enters a.mu, appends its ticket, signals, and evaluates it at once.
Enqueue(r) ==
  /\ call[r] = "new"
  /\ LET q == Append(queue, r) IN
       \/ CanAcquire(q, r) /\ Grant(q, r)
       \/ /\ ~CanAcquire(q, r)
          /\ queue' = q
          /\ call' = [WakeAll(call) EXCEPT ![r] = "parked"]
          /\ idler' = WakeAll(idler)
          /\ UNCHANGED <<args, aged, active, watchdog>>

\* A woken call re-evaluates its ticket; when refused it parks on the new channel.
Recheck(r) ==
  /\ call[r] = "woken"
  /\ \/ CanAcquire(queue, r) /\ Grant(queue, r)
     \/ /\ ~CanAcquire(queue, r)
        /\ call' = [call EXCEPT ![r] = "parked"]
        /\ UNCHANGED <<args, queue, aged, active, idler, watchdog>>

CancelSilently(r) ==
  /\ call[r] \in {"parked", "woken"}
  /\ queue' = RemoveTicket(queue, r)
  /\ call' = [call EXCEPT ![r] = "busy"]
  /\ UNCHANGED <<args, idler, aged, active, watchdog>>

\* ctx.Done() while waiting: the ticket is withdrawn and ErrAPDUBusy returned.
Cancel(r) ==
  /\ call[r] \in {"parked", "woken"}
  /\ queue' = RemoveTicket(queue, r)
  /\ Signal([call EXCEPT ![r] = "busy"])
  /\ UNCHANGED <<args, aged, active, watchdog>>

Deactivate(r) ==
  /\ activeSessions' = activeSessions \ {r}
  /\ activeOneshot' = IF activeOneshot = r THEN NoRequest ELSE activeOneshot
  /\ activeTransports' = activeTransports \ {r}
  /\ armed' = armed \ {r}

\* Mutant: Lease.Release does not signal.
ReleaseSilently(r) ==
  /\ call[r] = "holding" /\ ~IsBarrier(r)
  /\ Deactivate(r)
  /\ call' = [call EXCEPT ![r] = "released"]
  /\ UNCHANGED <<args, queue, aged, idler, activeBarriers, firing, lapsed>>

\* Lease.Release, once per lease: a no-op when the watchdog was first.
Release(r) ==
  /\ call[r] = "holding" /\ ~IsBarrier(r)
  /\ \/ /\ r \in ActiveLeases
        /\ Deactivate(r)
        /\ Signal([call EXCEPT ![r] = "released"])
     \/ /\ r \notin ActiveLeases
        /\ call' = [call EXCEPT ![r] = "released"]
        /\ UNCHANGED <<activeSessions, activeOneshot, activeTransports, armed, idler>>
  /\ UNCHANGED <<args, queue, aged, activeBarriers, firing, lapsed>>

\* Mutant: Barrier.Release does not signal.
ReleaseBarrierSilently(r) ==
  /\ call[r] = "holding" /\ IsBarrier(r)
  /\ activeBarriers' = activeBarriers \ {r}
  /\ call' = [call EXCEPT ![r] = "released"]
  /\ UNCHANGED <<args, queue, aged, idler, activeSessions, activeOneshot, activeTransports,
                 watchdog>>

\* Barrier.Release.
ReleaseBarrier(r) ==
  /\ call[r] = "holding" /\ IsBarrier(r)
  /\ activeBarriers' = activeBarriers \ {r}
  /\ Signal([call EXCEPT ![r] = "released"])
  /\ UNCHANGED <<args, queue, aged, activeSessions, activeOneshot, activeTransports, watchdog>>

\* Lease.Touch on an active lease moves expiresAt and resets the timer, whether
\* or not its callback is already on its way; on any other lease it is a no-op.
Touch(r) ==
  /\ call[r] = "holding" /\ r \in ActiveLeases
  /\ lapsed' = lapsed \ {r}
  /\ armed' = armed \cup {r}
  /\ UNCHANGED <<args, queue, aged, active, call, idler, firing>>

\* MaxLeaseHold elapses without a Touch: the runtime starts the callback.
TimerElapses(r) ==
  /\ r \in armed
  /\ armed' = armed \ {r}
  /\ firing' = firing \cup {r}
  /\ lapsed' = lapsed \cup {r}
  /\ UNCHANGED <<args, queue, aged, active, call, idler>>

\* Mutant: the callback does not look at expiresAt again.
ReleaseUnchecked(r) ==
  /\ r \in firing
  /\ firing' = firing \ {r}
  /\ \/ /\ r \notin ActiveLeases
        /\ UNCHANGED <<activeSessions, activeOneshot, activeTransports, call, idler, armed>>
     \/ /\ r \in ActiveLeases
        /\ Deactivate(r)
        /\ Signal(call)
  /\ UNCHANGED <<args, queue, aged, activeBarriers, lapsed>>

\* The callback gets a.mu: it finds the lease gone, extended or expired.
ReleaseExpired(r) ==
  /\ r \in firing
  /\ firing' = firing \ {r}
  /\ \/ /\ r \notin ActiveLeases
        /\ UNCHANGED <<activeSessions, activeOneshot, activeTransports, call, idler, armed>>
     \/ /\ r \in ActiveLeases /\ r \notin lapsed
        /\ armed' = armed \cup {r}
        /\ UNCHANGED <<activeSessions, activeOneshot, activeTransports, call, idler>>
     \/ /\ r \in ActiveLeases /\ r \in lapsed
        /\ Deactivate(r)
        /\ Signal(call)
  /\ UNCHANGED <<args, queue, aged, activeBarriers, lapsed>>

\* transportPriorityAging passes since the ticket was enqueued.  The timestamp
\* is taken before a.mu, so tickets may age in another order than they queue.
Age(r) ==
  /\ call[r] \in {"parked", "woken"} /\ IsTransport(r) /\ r \notin aged
  /\ aged' = aged \cup {r}
  /\ UNCHANGED <<args, queue, active, call, idler, watchdog>>

\* WaitIdle: check, then wait for the channel read in the same critical section.
CheckIdle(w) ==
  /\ idler[w] \in {"new", "woken"}
  /\ idler' = [idler EXCEPT ![w] = IF IsIdle THEN "idle" ELSE "parked"]
  /\ UNCHANGED <<args, queue, aged, active, call, watchdog>>

IdleTimeout(w) ==
  /\ idler[w] \in {"parked", "woken"}
  /\ idler' = [idler EXCEPT ![w] = "busy"]
  /\ UNCHANGED <<args, queue, aged, active, call, watchdog>>

-----------------------------------------------------------------------------
Init ==
  /\ args \in Mixes
  /\ queue = <<>> /\ aged = {}
  /\ activeSessions = {} /\ activeOneshot = NoRequest
  /\ activeTransports = {} /\ activeBarriers = {}
  /\ call = [r \in Requests |-> "new"]
  /\ idler = [w \in Idlers |-> "new"]
  /\ armed = {} /\ firing = {} /\ lapsed = {}

\* The steps that the goroutines of the calls and the lease timers take.
CallStep(r) ==
  \/ Enqueue(r) \/ Recheck(r) \/ Cancel(r)
  \/ Release(r) \/ ReleaseBarrier(r) \/ Touch(r)

TimerStep(r) == TimerElapses(r) \/ ReleaseExpired(r) \/ Age(r)

Next ==
  \/ \E r \in Requests : CallStep(r) \/ TimerStep(r)
  \/ \E w \in Idlers : CheckIdle(w) \/ IdleTimeout(w)

Spec == Init /\ [][Next]_vars

\* A runnable goroutine eventually runs, a holder eventually releases what it
\* holds (every caller defers Release), a lapsed timer eventually gets the
\* mutex.  No fairness on Enqueue, Cancel, Touch or the passage of time: a
\* caller need not call, and need not have a deadline.
Fairness ==
  \A r \in Requests :
    /\ WF_vars(Recheck(r))
    /\ WF_vars(Release(r)) /\ WF_vars(ReleaseBarrier(r))
    /\ WF_vars(ReleaseExpired(r))

FairSpec == Spec /\ Fairness

-----------------------------------------------------------------------------
CallStates == {"new", "parked", "woken", "holding", "released", "busy"}
IdlerStates == {"new", "parked", "woken", "idle", "busy"}
Queued(r) == call[r] \in {"parked", "woken"}

OfType(type) == {r \in Requests : LeaseType(r) = type}
Leases == {r \in Requests : ~IsBarrier(r)}

\* Type correctness of the arbiter's state and of the goroutines around it; each
\* active list holds leases of its own type only (addActiveLocked).
TypeOK ==
  /\ args \in [Requests -> Calls]
  /\ queue \in Seq(Requests)
  /\ aged \subseteq OfType("transport")
  /\ activeSessions \subseteq OfType("session")
  /\ activeOneshot \in OfType("oneshot") \cup {NoRequest}
  /\ activeTransports \subseteq OfType("transport")
  /\ activeBarriers \subseteq OfType("barrier")
  /\ call \in [Requests -> CallStates]
  /\ idler \in [Idlers -> IdlerStates]
  /\ armed \subseteq Leases /\ firing \subseteq Leases /\ lapsed \subseteq Leases

\* The card is shared the way the lease types promise: at most one kind of lease
\* is active, a one-shot and an exclusive transport are alone, sessions stay
\* within MaxSessions, QMI-channel transports within their window and on
\* distinct channels (canAcquireLeaseLocked, canAcquireTransportNowLocked).
CardSharing ==
  /\ activeSessions # {} => activeOneshot = NoRequest /\ activeTransports = {}
  /\ activeOneshot # NoRequest => activeTransports = {}
  /\ Cardinality(activeSessions) <= MaxSessions
  /\ \A t \in activeTransports : Scope(t) = "exclusive" => activeTransports = {t}
  /\ Cardinality(QMITransports) <= MaxQMITransports
  /\ \A s, t \in QMITransports : s # t => Channel(s) # Channel(t)

\* While a barrier is active no lease of a class it blocks is active: such a
\* lease was neither granted under the barrier nor left over from before it.
BarrierExcludes ==
  \A b \in activeBarriers, l \in ActiveLeases :
    Class(l) \notin BlockedClasses(args[b])

\* A ticket is queued exactly while its call waits, and once; what is active is
\* held by a call that has not released it yet.
QueueMatchesCalls ==
  /\ \A r \in Requests : Queued(r) <=> \E i \in DOMAIN queue : queue[i] = r
  /\ \A i, j \in DOMAIN queue : queue[i] = queue[j] => i = j
  /\ \A r \in ActiveLeases \cup activeBarriers : call[r] = "holding"

\* No lost wake-up: as long as no queued ticket has aged, a call parked on
\* notifyC has nothing to be woken for, its ticket may not be granted.
NoLostWakeup ==
  (\A r \in Requests : Queued(r) => r \notin aged)
    => \A r \in Requests : call[r] = "parked" => ~CanAcquire(queue, r)

\* WaitIdle never sleeps through idleness.
IdleWaiterWoken == \A w \in Idlers : idler[w] = "parked" => ~IsIdle

\* The bookkeeping of the arbiter: types, the queue and the active lists agree
\* with the calls, and idleness reaches the callers of WaitIdle.
Consistent == TypeOK /\ QueueMatchesCalls /\ IdleWaiterWoken

\* Leases share the card as their types promise, and keep out of the barriers.
SharedSafely == CardSharing /\ BarrierExcludes

\* r waits, and s stands behind it or has only just called.
Ahead(r, s) == \E i \in DOMAIN queue : queue[i] = r /\ \A j \in 1..i : queue[j] # s
Granted(r) == call[r] # "holding" /\ call'[r] = "holding"

\* Nothing overtakes a queued barrier: a switch cannot be starved by traffic.
BarrierNotOvertaken ==
  [][\A b, r \in Requests : IsBarrier(b) /\ Ahead(b, r) => ~Granted(r)]_vars

\* A waiting exclusive transport that no barrier blocks gates the transports
\* behind it while others are on the card, so QMI channels cannot starve it.
ExclusiveGatesQueue ==
  [][\A e, r \in Requests :
       /\ IsTransport(e) /\ Scope(e) = "exclusive" /\ Ahead(e, r)
       /\ ~BlockedByActiveBarrier(e) /\ activeTransports # {}
       => ~Granted(r)]_vars

\* Between exclusive transports of one class the queue is FIFO, except that a
\* ticket past the aging threshold may pass one that is not.
FifoWithinClass ==
  [][\A e, r \in Requests :
       /\ IsTransport(e) /\ IsTransport(r) /\ Ahead(e, r) /\ Class(e) = Class(r)
       /\ Scope(e) = "exclusive" /\ Scope(r) = "exclusive"
       /\ Granted(r)
       => r \in aged /\ e \notin aged]_vars

\* Scanned out of order though it is, the queue starves neither a switch nor an
\* exclusive transport, and is first come, first served within a class.
QueueOrder == BarrierNotOvertaken /\ ExclusiveGatesQueue /\ FifoWithinClass

\* The watchdog takes a lease back only when its deadline has passed: a Touch
\* that succeeded while the timer callback was waiting for a.mu still counts.
TouchedLeaseSurvives ==
  [][\A r \in ActiveLeases : r \notin ActiveLeases' => call'[r] = "released" \/ r \in lapsed]_vars

\* Every wait ends, by a grant or by its own deadline, or some waiting ticket
\* passes the aging threshold first.
ServedUnlessAged ==
  \A r \in Requests :
    Queued(r) ~> (~Queued(r) \/ \E s \in Requests : Queued(s) /\ s \in aged)
=============================================================================
