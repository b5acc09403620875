--------------------------- MODULE ArbiterProofs ---------------------------
(***************************************************************************)
(* Proofs about ApduArbiter, for every set of calls and every limit, and   *)
(* about SIMAuthGate, for every set of waiters and every bound.            *)
(*                                                                         *)
(* Type correctness of the arbiter is not inductive without                *)
(* QueueMatchesCalls: removing a ticket yields a queue of calls only when  *)
(* the ticket is in the queue. The two are proved together; the other      *)
(* invariants are proved on top.                                           *)
(***************************************************************************)
EXTENDS ApduArbiter, SIMAuthGate, TLAPS, SequenceTheorems, FiniteSetTheorems

TicketQueue(q) ==
  /\ q \in Seq(Requests)
  /\ \A i, j \in DOMAIN q : q[i] = q[j] => i = j

InQueue(q, r) == \E i \in DOMAIN q : q[i] = r

\* removeTicketLocked takes out exactly the ticket it is given.
LEMMA RemoveTicketLemma ==
  ASSUME NEW q, NEW r, TicketQueue(q), InQueue(q, r)
  PROVE  /\ TicketQueue(RemoveTicket(q, r))
         /\ \A x : InQueue(RemoveTicket(q, r), x) <=> InQueue(q, x) /\ x # r
<1> DEFINE p == Position(q, r)
           a == SubSeq(q, 1, p - 1)
           b == SubSeq(q, p + 1, Len(q))
           t == RemoveTicket(q, r)
<1>1. /\ q \in Seq(Requests) /\ Len(q) \in Nat /\ DOMAIN q = 1..Len(q)
      /\ \A i \in 1..Len(q) : q[i] \in Requests
  BY LenProperties, ElementOfSeq DEF TicketQueue
<1>2. p \in 1..Len(q) /\ q[p] = r
  BY <1>1 DEF Position, InQueue
<1> HIDE DEF p
<1>3. /\ a \in Seq(Requests) /\ Len(a) = p - 1
      /\ \A i \in 1..(p - 1) : a[i] = q[i]
  <2>1. p - 1 \in Int /\ \A i \in 1..(p - 1) : q[i] \in Requests
    BY <1>1, <1>2
  <2>2. QED
    BY <1>1, <1>2, <2>1, SubSeqProperties
<1>4. /\ b \in Seq(Requests) /\ Len(b) = Len(q) - p
      /\ \A i \in 1..(Len(q) - p) : b[i] = q[p + i]
  <2>1. p + 1 \in Int /\ \A i \in (p + 1)..Len(q) : q[i] \in Requests
    BY <1>1, <1>2
  <2>2. /\ b \in Seq(Requests)
        /\ Len(b) = IF p + 1 <= Len(q) THEN Len(q) - (p + 1) + 1 ELSE 0
        /\ \A i \in 1..(Len(q) - (p + 1) + 1) : b[i] = q[(p + 1) + i - 1]
    BY <1>1, <2>1, SubSeqProperties
  <2> HIDE DEF b
  <2>3. Len(b) = Len(q) - p
    <3>1. CASE p = Len(q)
      BY <1>1, <2>2, <3>1
    <3>2. CASE p # Len(q)
      <4>1. p + 1 <= Len(q) /\ Len(q) - (p + 1) + 1 = Len(q) - p
        <5>1. \A m, n \in Int : m \in 1..n /\ m # n => m + 1 <= n /\ n - (m + 1) + 1 = n - m
          OBVIOUS
        <5>2. p \in Int /\ Len(q) \in Int
          BY <1>1, <1>2
        <5>3. p \in 1..Len(q) /\ p # Len(q)
          BY <1>2, <3>2
        <5>4. QED
          BY <5>1, <5>2, <5>3
      <4>2. QED
        BY <2>2, <4>1
    <3>3. QED
      BY <3>1, <3>2
  <2>4. ASSUME NEW i \in 1..(Len(q) - p) PROVE b[i] = q[p + i]
    <3>1. i \in 1..(Len(q) - (p + 1) + 1) /\ (p + 1) + i - 1 = p + i
      BY <1>1, <1>2
    <3>2. QED
      BY <2>2, <3>1
  <2>5. QED
    BY <2>2, <2>3, <2>4
<1>5. t = a \o b
  BY DEF RemoveTicket, RemoveAt, p
<1> HIDE DEF a, b, t
<1>6. /\ t \in Seq(Requests) /\ Len(t) = Len(q) - 1 /\ DOMAIN t = 1..(Len(q) - 1)
      /\ \A i \in 1..(Len(q) - 1) : t[i] = IF i < p THEN q[i] ELSE q[i + 1]
  <2>1. /\ t \in Seq(Requests) /\ Len(t) = Len(a) + Len(b)
        /\ \A i \in 1..(Len(a) + Len(b)) :
             t[i] = IF i <= Len(a) THEN a[i] ELSE b[i - Len(a)]
    BY <1>3, <1>4, <1>5, ConcatProperties
  <2>2. DOMAIN t = 1..Len(t)
    BY <2>1, LenProperties
  <2>3. Len(t) = Len(q) - 1
    BY <1>1, <1>2, <1>3, <1>4, <2>1
  <2>4. ASSUME NEW i \in 1..(Len(q) - 1)
        PROVE  t[i] = IF i < p THEN q[i] ELSE q[i + 1]
    <3>1. CASE i < p
      <4>1. i \in 1..(p - 1) /\ i \in 1..(Len(a) + Len(b)) /\ i <= Len(a)
        BY <1>1, <1>2, <1>3, <1>4, <3>1
      <4>2. QED
        BY <1>3, <2>1, <3>1, <4>1
    <3>2. CASE i >= p
      <4>1. t[i] = b[i - (p - 1)]
        <5>1. i \in 1..(Len(a) + Len(b)) /\ ~(i <= Len(a))
          BY <1>1, <1>2, <1>3, <1>4, <3>2
        <5>2. QED
          BY <1>3, <2>1, <5>1
      <4>2. i - (p - 1) \in 1..(Len(q) - p) /\ p + (i - (p - 1)) = i + 1
        BY <1>1, <1>2, <3>2
      <4>3. QED
        BY <1>4, <3>2, <4>1, <4>2, <1>1, <1>2
    <3>3. QED
      BY <1>1, <1>2, <3>1, <3>2
  <2>5. QED
    BY <2>1, <2>2, <2>3, <2>4
<1> DEFINE from(i) == IF i < p THEN i ELSE i + 1
<1>7. \A i \in 1..(Len(q) - 1) : from(i) \in 1..Len(q) /\ from(i) # p /\ t[i] = q[from(i)]
  BY <1>1, <1>2, <1>6
<1>8. \A i, j \in 1..(Len(q) - 1) : from(i) = from(j) => i = j
  BY <1>1, <1>2
<1>9. \A k \in 1..Len(q) : k # p => \E i \in 1..(Len(q) - 1) : from(i) = k
  <2>1. ASSUME NEW k \in 1..Len(q), k # p PROVE \E i \in 1..(Len(q) - 1) : from(i) = k
    <3>1. CASE k < p
      BY <1>1, <1>2, <3>1
    <3>2. CASE k > p
      <4>1. k - 1 \in 1..(Len(q) - 1) /\ from(k - 1) = k
        BY <1>1, <1>2, <3>2
      <4>2. QED
        BY <4>1
    <3>3. QED
      BY <1>1, <1>2, <2>1, <3>1, <3>2
  <2>2. QED
    BY <2>1
<1> HIDE DEF from
<1>10. \A i, j \in 1..Len(q) : q[i] = q[j] => i = j
  BY <1>1 DEF TicketQueue
<1>11. TicketQueue(t)
  <2>1. ASSUME NEW i \in 1..(Len(q) - 1), NEW j \in 1..(Len(q) - 1), t[i] = t[j]
        PROVE  i = j
    BY <1>7, <1>8, <1>10, <2>1
  <2>2. QED
    BY <1>6, <2>1 DEF TicketQueue
<1>12. \A x : InQueue(t, x) <=> InQueue(q, x) /\ x # r
  <2>1. ASSUME NEW x, InQueue(t, x) PROVE InQueue(q, x) /\ x # r
    <3>1. PICK i \in 1..(Len(q) - 1) : t[i] = x
      BY <1>6, <2>1 DEF InQueue
    <3>2. QED
      BY <1>1, <1>2, <1>7, <1>10, <3>1 DEF InQueue
  <2>2. ASSUME NEW x, InQueue(q, x), x # r PROVE InQueue(t, x)
    <3>1. PICK k \in 1..Len(q) : q[k] = x
      BY <1>1, <2>2 DEF InQueue
    <3>2. PICK i \in 1..(Len(q) - 1) : from(i) = k
      BY <1>2, <1>9, <2>2, <3>1
    <3>3. QED
      BY <1>6, <1>7, <3>1, <3>2 DEF InQueue
  <2>3. QED
    BY <2>1, <2>2
<1>13. QED
  BY <1>11, <1>12 DEF t

\* A new ticket goes to the end of the queue.
LEMMA AppendTicketLemma ==
  ASSUME NEW q, NEW r \in Requests, TicketQueue(q), ~InQueue(q, r)
  PROVE  /\ TicketQueue(Append(q, r))
         /\ \A x : InQueue(Append(q, r), x) <=> InQueue(q, x) \/ x = r
<1> DEFINE t == Append(q, r)
<1>1. q \in Seq(Requests) /\ Len(q) \in Nat /\ DOMAIN q = 1..Len(q)
  BY LenProperties DEF TicketQueue
<1>2. /\ t \in Seq(Requests) /\ DOMAIN t = 1..(Len(q) + 1)
      /\ \A i \in 1..Len(q) : t[i] = q[i]
      /\ t[Len(q) + 1] = r
  BY <1>1, AppendProperties, LenProperties
<1> HIDE DEF t
<1>3. TicketQueue(t)
  BY <1>1, <1>2 DEF TicketQueue, InQueue
<1>4. \A x : InQueue(t, x) <=> InQueue(q, x) \/ x = r
  BY <1>1, <1>2 DEF InQueue
<1>5. QED
  BY <1>3, <1>4 DEF t

-----------------------------------------------------------------------------
(* What signalLocked does to the goroutines, and what keeps the arguments. *)

\* Closing notifyC turns every parked call into a woken one and changes no other.
LEMMA WakeCalls ==
  ASSUME NEW c \in [Requests -> CallStates]
  PROVE  /\ WakeAll(c) \in [Requests -> CallStates]
         /\ \A x \in Requests :
              /\ WakeAll(c)[x] \in {"parked", "woken"} <=> c[x] \in {"parked", "woken"}
              /\ WakeAll(c)[x] = "holding" <=> c[x] = "holding"
              /\ WakeAll(c)[x] # "parked"
BY DEF WakeAll, CallStates

\* Closing notifyC leaves no WaitIdle caller asleep.
LEMMA WakeIdlers ==
  ASSUME NEW f \in [Idlers -> IdlerStates]
  PROVE  /\ WakeAll(f) \in [Idlers -> IdlerStates]
         /\ \A w \in Idlers : WakeAll(f)[w] # "parked"
BY DEF WakeAll, IdlerStates

\* A ticket keeps its lease type, for its arguments never change.
LEMMA TypesKept ==
  ASSUME args' = args
  PROVE  /\ Leases' = Leases
         /\ \A type : OfType(type)' = OfType(type)
BY DEF Leases, OfType, IsBarrier, LeaseType

\* The four active lists hold leases of four different types.
LEMMA ActiveByType ==
  ASSUME TypeOK
  PROVE  /\ activeSessions \cap activeTransports = {}
         /\ ActiveLeases \subseteq Leases
         /\ activeBarriers \cap ActiveLeases = {}
         /\ activeOneshot \notin activeSessions \cup activeTransports \cup activeBarriers
BY ArbiterAssumption DEF TypeOK, OfType, Leases, ActiveLeases, IsBarrier

\* A grant takes the ticket of a waiting or a new call out of the queue.
LEMMA GrantStep ==
  ASSUME TypeOK, QueueMatchesCalls, NEW q, NEW r \in Requests,
         TicketQueue(q), call[r] \in {"new", "woken"},
         \A x \in Requests : InQueue(q, x) <=> Queued(x) \/ x = r,
         Grant(q, r), args[r].leaseType \in LeaseTypes
  PROVE  TypeOK' /\ QueueMatchesCalls'
<1> DEFINE c == [call EXCEPT ![r] = "holding"]
<1>1. c \in [Requests -> CallStates]
  BY DEF TypeOK, CallStates
<1>2. /\ call' \in [Requests -> CallStates]
      /\ idler' \in [Idlers -> IdlerStates]
      /\ \A x \in Requests :
           /\ Queued(x)' <=> Queued(x) /\ x # r
           /\ call'[x] = "holding" <=> call[x] = "holding" \/ x = r
  <2>1. call' = WakeAll(c) /\ idler' = WakeAll(idler)
    BY DEF Grant, Signal
  <2>2. \A x \in Requests : c[x] = IF x = r THEN "holding" ELSE call[x]
    BY DEF TypeOK
  <2> HIDE DEF c
  <2>3. QED
    BY <1>1, <2>1, <2>2, WakeCalls, WakeIdlers DEF TypeOK, Queued
<1>3. /\ TicketQueue(queue')
      /\ \A x \in Requests : InQueue(queue', x) <=> Queued(x)'
  <2>1. InQueue(q, r) /\ queue' = RemoveTicket(q, r)
    BY DEF Grant
  <2>2. QED
    BY <1>2, <2>1, RemoveTicketLemma
<1>4. args' = args
  BY DEF Grant
<1>5. /\ activeSessions' \subseteq OfType("session")
      /\ activeOneshot' \in OfType("oneshot") \cup {NoRequest}
      /\ activeTransports' \subseteq OfType("transport")
      /\ activeBarriers' \subseteq OfType("barrier")
  BY DEF Grant, Activate, TypeOK, OfType, IsBarrier, IsTransport, LeaseType
<1>6. /\ armed' \subseteq Leases /\ firing' \subseteq Leases /\ lapsed' \subseteq Leases
      /\ aged' \subseteq OfType("transport")
  BY DEF Grant, TypeOK, Leases
<1>7. TypeOK'
  BY <1>2, <1>3, <1>4, <1>5, <1>6, TypesKept DEF TypeOK, TicketQueue
<1>8. \A x \in (ActiveLeases \cup activeBarriers)' : call'[x] = "holding"
  <2>1. (ActiveLeases \cup activeBarriers)' \subseteq ActiveLeases \cup activeBarriers \cup {r}
    BY DEF Grant, Activate, ActiveLeases
  <2>2. ActiveLeases \cup activeBarriers \subseteq Requests
    BY ActiveByType DEF TypeOK, OfType, Leases
  <2>3. QED
    BY <1>2, <2>1, <2>2 DEF QueueMatchesCalls
<1>9. QED
  BY <1>3, <1>7, <1>8 DEF QueueMatchesCalls, TicketQueue, InQueue

-----------------------------------------------------------------------------
(* Type correctness and the bookkeeping of the queue. *)

Inv == TypeOK /\ QueueMatchesCalls

\* The arguments of a call are a Call record.
LEMMA ArgumentsTyped ==
  ASSUME TypeOK, NEW r \in Requests
  PROVE  args[r] \in Call /\ args[r].leaseType \in LeaseTypes
BY ArbiterAssumption DEF TypeOK, Call

\* The queue holds each waiting call exactly once.
LEMMA QueueOfCalls ==
  ASSUME Inv
  PROVE  /\ TicketQueue(queue)
         /\ \A x \in Requests : InQueue(queue, x) <=> Queued(x)
BY DEF Inv, TypeOK, QueueMatchesCalls, TicketQueue, InQueue

\* The queue with the ticket of a new call at its end.
LEMMA QueueWithNew ==
  ASSUME Inv, NEW r \in Requests, call[r] = "new"
  PROVE  /\ TicketQueue(Append(queue, r))
         /\ \A x \in Requests : InQueue(Append(queue, r), x) <=> Queued(x) \/ x = r
<1>1. ~Queued(r)
  BY DEF Queued
<1>2. QED
  BY <1>1, QueueOfCalls, AppendTicketLemma

\* The arbiter starts typed and with an empty queue.
LEMMA InvInit == Init => Inv
BY ArbiterAssumption
   DEF Init, Inv, TypeOK, QueueMatchesCalls, ActiveLeases, Queued, CallStates, IdlerStates

\* Steps that leave the queue, the calls and what is active alone.
LEMMA InvQuietStep ==
  ASSUME Inv, UNCHANGED <<args, queue, active, call>>,
         idler' \in [Idlers -> IdlerStates], aged' \subseteq OfType("transport"),
         armed' \subseteq Leases, firing' \subseteq Leases, lapsed' \subseteq Leases
  PROVE  Inv'
BY TypesKept
   DEF Inv, TypeOK, QueueMatchesCalls, ActiveLeases, Queued, active

\* A call that enqueues is granted at once or waits with its ticket queued.
LEMMA InvEnqueue ==
  ASSUME Inv, NEW r \in Requests, Enqueue(r)
  PROVE  Inv'
<1> DEFINE q == Append(queue, r)
<1>1. call[r] = "new"
  BY DEF Enqueue
<1>2. CASE Grant(q, r)
  BY <1>1, <1>2, QueueWithNew, GrantStep, ArgumentsTyped DEF Inv
<1>3. CASE ~Grant(q, r)
  <2>1. /\ queue' = q
        /\ call' = [WakeAll(call) EXCEPT ![r] = "parked"]
        /\ idler' = WakeAll(idler)
        /\ UNCHANGED <<args, aged, active, watchdog>>
    BY <1>3 DEF Enqueue
  <2>2. WakeAll(call) \in [Requests -> CallStates]
    BY WakeCalls DEF Inv, TypeOK
  <2>3. /\ call' \in [Requests -> CallStates]
        /\ \A x \in Requests :
             /\ Queued(x)' <=> Queued(x) \/ x = r
             /\ call[x] = "holding" => call'[x] = "holding"
    BY <1>1, <2>1, <2>2, WakeCalls DEF Inv, TypeOK, CallStates, Queued
  <2>4. idler' \in [Idlers -> IdlerStates]
    BY <2>1, WakeIdlers DEF Inv, TypeOK
  <2>5. TicketQueue(queue') /\ \A x \in Requests : InQueue(queue', x) <=> Queued(x)'
    BY <1>1, <2>1, <2>3, QueueWithNew
  <2>6. TypeOK'
    BY <2>1, <2>3, <2>4, <2>5, TypesKept DEF Inv, TypeOK, TicketQueue, active, watchdog
  <2>7. \A x \in (ActiveLeases \cup activeBarriers)' : call'[x] = "holding"
    BY <2>1, <2>3, ActiveByType
       DEF Inv, TypeOK, QueueMatchesCalls, ActiveLeases, active, OfType, Leases
  <2>8. QED
    BY <2>5, <2>6, <2>7 DEF Inv, QueueMatchesCalls, TicketQueue, InQueue
<1>4. QED
  BY <1>2, <1>3

\* A woken call is granted or parks again with its ticket still queued.
LEMMA InvRecheck ==
  ASSUME Inv, NEW r \in Requests, Recheck(r)
  PROVE  Inv'
<1>1. call[r] = "woken" /\ Queued(r)
  BY DEF Recheck, Queued
<1>2. CASE Grant(queue, r)
  BY <1>1, <1>2, QueueOfCalls, GrantStep, ArgumentsTyped DEF Inv
<1>3. CASE ~Grant(queue, r)
  <2>1. /\ call' = [call EXCEPT ![r] = "parked"]
        /\ UNCHANGED <<args, queue, aged, active, idler, watchdog>>
    BY <1>3 DEF Recheck
  <2>2. /\ call' \in [Requests -> CallStates]
        /\ \A x \in Requests :
             /\ Queued(x)' <=> Queued(x)
             /\ call[x] = "holding" <=> call'[x] = "holding"
    BY <1>1, <2>1 DEF Inv, TypeOK, CallStates, Queued
  <2>3. TypeOK'
    BY <2>1, <2>2, TypesKept DEF Inv, TypeOK, active, watchdog
  <2>4. QED
    BY <2>1, <2>2, <2>3, ActiveByType
       DEF Inv, TypeOK, QueueMatchesCalls, ActiveLeases, active, OfType, Leases
<1>4. QED
  BY <1>2, <1>3

\* A call that gives up takes its ticket with it.
LEMMA InvCancel ==
  ASSUME Inv, NEW r \in Requests, Cancel(r)
  PROVE  Inv'
<1> DEFINE c == [call EXCEPT ![r] = "busy"]
<1>1. /\ Queued(r)
      /\ queue' = RemoveTicket(queue, r)
      /\ call' = WakeAll(c) /\ idler' = WakeAll(idler)
      /\ UNCHANGED <<args, aged, active, watchdog>>
  BY DEF Cancel, Queued, Signal
<1>2. c \in [Requests -> CallStates] /\ \A x \in Requests : c[x] = IF x = r THEN "busy" ELSE call[x]
  BY DEF Inv, TypeOK, CallStates
<1> HIDE DEF c
<1>3. /\ call' \in [Requests -> CallStates]
      /\ idler' \in [Idlers -> IdlerStates]
      /\ \A x \in Requests :
           /\ Queued(x)' <=> Queued(x) /\ x # r
           /\ call[x] = "holding" => call'[x] = "holding"
  BY <1>1, <1>2, WakeCalls, WakeIdlers DEF Inv, TypeOK, Queued
<1>4. TicketQueue(queue') /\ \A x \in Requests : InQueue(queue', x) <=> Queued(x)'
  BY <1>1, <1>3, QueueOfCalls, RemoveTicketLemma
<1>5. TypeOK'
  BY <1>1, <1>3, <1>4, TypesKept DEF Inv, TypeOK, TicketQueue, active, watchdog
<1>6. \A x \in (ActiveLeases \cup activeBarriers)' : call'[x] = "holding"
  BY <1>1, <1>3, ActiveByType
     DEF Inv, TypeOK, QueueMatchesCalls, ActiveLeases, active, OfType, Leases
<1>7. QED
  BY <1>4, <1>5, <1>6 DEF Inv, QueueMatchesCalls, TicketQueue, InQueue

\* Steps that leave the queue alone and make nothing active.
LEMMA InvShrinkStep ==
  ASSUME Inv, UNCHANGED <<args, queue, aged>>,
         activeSessions' \subseteq activeSessions, activeTransports' \subseteq activeTransports,
         activeBarriers' \subseteq activeBarriers,
         activeOneshot' \in {activeOneshot, NoRequest},
         call' \in [Requests -> CallStates], idler' \in [Idlers -> IdlerStates],
         \A x \in Requests : Queued(x)' <=> Queued(x),
         \A x \in (ActiveLeases \cup activeBarriers)' : call[x] = "holding" => call'[x] = "holding",
         armed' \subseteq Leases, firing' \subseteq Leases, lapsed' \subseteq Leases
  PROVE  Inv'
<1>1. TypeOK'
  BY TypesKept DEF Inv, TypeOK
<1>2. (ActiveLeases \cup activeBarriers)' \subseteq ActiveLeases \cup activeBarriers
  BY DEF ActiveLeases
<1>3. QED
  BY <1>1, <1>2 DEF Inv, QueueMatchesCalls

\* Lease.Release takes the lease out of the active lists.
LEMMA InvRelease ==
  ASSUME Inv, NEW r \in Requests, Release(r)
  PROVE  Inv'
<1> DEFINE c == [call EXCEPT ![r] = "released"]
<1>1. /\ call[r] = "holding" /\ r \in Leases
      /\ c \in [Requests -> CallStates]
      /\ \A x \in Requests : c[x] = IF x = r THEN "released" ELSE call[x]
  BY DEF Release, Leases, Inv, TypeOK, CallStates
<1>2. UNCHANGED <<args, queue, aged, activeBarriers, firing, lapsed>>
  BY DEF Release
<1>3. CASE r \in ActiveLeases
  <2>1. /\ activeSessions' = activeSessions \ {r} /\ activeTransports' = activeTransports \ {r}
        /\ activeOneshot' = IF activeOneshot = r THEN NoRequest ELSE activeOneshot
        /\ armed' = armed \ {r}
        /\ call' = WakeAll(c) /\ idler' = WakeAll(idler)
    BY <1>3 DEF Release, Deactivate, Signal
  <2> HIDE DEF c
  <2>2. /\ call' \in [Requests -> CallStates] /\ idler' \in [Idlers -> IdlerStates]
        /\ \A x \in Requests :
             /\ Queued(x)' <=> Queued(x)
             /\ x # r /\ call[x] = "holding" => call'[x] = "holding"
    BY <1>1, <2>1, WakeCalls, WakeIdlers DEF Inv, TypeOK, Queued
  <2>3. r \notin (ActiveLeases \cup activeBarriers)'
    BY <1>2, <1>3, <2>1, ActiveByType, ArbiterAssumption DEF Inv, ActiveLeases
  <2>4. (ActiveLeases \cup activeBarriers)' \subseteq Requests
    BY <1>2, <2>1, ActiveByType DEF Inv, TypeOK, OfType, ActiveLeases, Leases
  <2>5. QED
    BY <1>2, <2>1, <2>2, <2>3, <2>4, InvShrinkStep DEF Inv, TypeOK
<1>4. CASE r \notin ActiveLeases
  <2>1. /\ UNCHANGED <<activeSessions, activeOneshot, activeTransports, armed, idler>>
        /\ call' = c
    BY <1>4 DEF Release
  <2> HIDE DEF c
  <2>2. \A x \in Requests : Queued(x)' <=> Queued(x)
    BY <1>1, <2>1 DEF Queued
  <2>3. (ActiveLeases \cup activeBarriers)' = ActiveLeases \cup activeBarriers
    BY <1>2, <2>1 DEF ActiveLeases
  <2>4. r \notin ActiveLeases \cup activeBarriers /\ ActiveLeases \cup activeBarriers \subseteq Requests
    BY <1>1, <1>4, ActiveByType DEF Inv, TypeOK, OfType, Leases, IsBarrier
  <2>5. \A x \in (ActiveLeases \cup activeBarriers)' : call[x] = "holding" => call'[x] = "holding"
    BY <1>1, <2>1, <2>3, <2>4
  <2>6. QED
    BY <1>1, <1>2, <2>1, <2>2, <2>5, InvShrinkStep DEF Inv, TypeOK
<1>5. QED
  BY <1>3, <1>4

\* Barrier.Release takes the barrier out of the active list.
LEMMA InvReleaseBarrier ==
  ASSUME Inv, NEW r \in Requests, ReleaseBarrier(r)
  PROVE  Inv'
<1> DEFINE c == [call EXCEPT ![r] = "released"]
<1>1. /\ call[r] = "holding" /\ r \notin Leases
      /\ c \in [Requests -> CallStates]
      /\ \A x \in Requests : c[x] = IF x = r THEN "released" ELSE call[x]
      /\ activeBarriers' = activeBarriers \ {r}
      /\ call' = WakeAll(c) /\ idler' = WakeAll(idler)
      /\ UNCHANGED <<args, queue, aged, activeSessions, activeOneshot, activeTransports, watchdog>>
  BY DEF ReleaseBarrier, Leases, Inv, TypeOK, CallStates, Signal
<1> HIDE DEF c
<1>2. /\ call' \in [Requests -> CallStates] /\ idler' \in [Idlers -> IdlerStates]
      /\ \A x \in Requests :
           /\ Queued(x)' <=> Queued(x)
           /\ x # r /\ call[x] = "holding" => call'[x] = "holding"
  BY <1>1, WakeCalls, WakeIdlers DEF Inv, TypeOK, Queued
<1>3. /\ r \notin (ActiveLeases \cup activeBarriers)'
      /\ (ActiveLeases \cup activeBarriers)' \subseteq Requests
  BY <1>1, ActiveByType DEF Inv, TypeOK, OfType, ActiveLeases, Leases
<1>4. QED
  BY <1>1, <1>2, <1>3, InvShrinkStep DEF Inv, TypeOK, watchdog

\* The watchdog callback takes out an expired lease or nothing.
LEMMA InvReleaseExpired ==
  ASSUME Inv, NEW r \in Requests, ReleaseExpired(r)
  PROVE  Inv'
<1>1. /\ r \in Leases /\ firing' \subseteq Leases
      /\ UNCHANGED <<args, queue, aged, activeBarriers, lapsed>>
  BY DEF ReleaseExpired, Inv, TypeOK
<1>2. CASE UNCHANGED <<activeSessions, activeOneshot, activeTransports, call, idler>>
  <2>1. armed' \subseteq Leases
    BY <1>1 DEF ReleaseExpired, Deactivate, Inv, TypeOK
  <2>2. QED
    BY <1>1, <1>2, <2>1, InvQuietStep DEF Inv, TypeOK, active
<1>3. CASE Deactivate(r) /\ Signal(call)
  <2>1. /\ call' \in [Requests -> CallStates] /\ idler' \in [Idlers -> IdlerStates]
        /\ \A x \in Requests :
             /\ Queued(x)' <=> Queued(x)
             /\ call[x] = "holding" => call'[x] = "holding"
    BY <1>3, WakeCalls, WakeIdlers DEF Signal, Inv, TypeOK, Queued
  <2>2. (ActiveLeases \cup activeBarriers)' \subseteq Requests
    BY <1>1, <1>3, ActiveByType DEF Deactivate, Inv, TypeOK, OfType, ActiveLeases, Leases
  <2>3. QED
    BY <1>1, <1>3, <2>1, <2>2, InvShrinkStep DEF Deactivate, Inv, TypeOK
<1>4. QED
  BY <1>2, <1>3 DEF ReleaseExpired

\* Every step keeps types and bookkeeping.
LEMMA InvNext == Inv /\ [Next]_vars => Inv'
<1> SUFFICES ASSUME Inv, [Next]_vars PROVE Inv'
  OBVIOUS
<1>1. CASE UNCHANGED vars
  <2>1. UNCHANGED <<args, queue, aged, active, call, idler, armed, firing, lapsed>>
    BY <1>1 DEF vars, watchdog
  <2>2. QED
    BY <2>1, InvQuietStep DEF Inv, TypeOK
<1>2. ASSUME NEW r \in Requests, CallStep(r) PROVE Inv'
  <2>1. CASE Enqueue(r)         BY <2>1, InvEnqueue
  <2>2. CASE Recheck(r)         BY <2>2, InvRecheck
  <2>3. CASE Cancel(r)          BY <2>3, InvCancel
  <2>4. CASE Release(r)         BY <2>4, InvRelease
  <2>5. CASE ReleaseBarrier(r)  BY <2>5, InvReleaseBarrier
  <2>6. CASE Touch(r)
    <3>1. r \in Leases
      BY <2>6, ActiveByType DEF Touch, Inv
    <3>2. QED
      BY <2>6, <3>1, InvQuietStep DEF Touch, Inv, TypeOK
  <2>7. QED
    BY <1>2, <2>1, <2>2, <2>3, <2>4, <2>5, <2>6 DEF CallStep
<1>3. ASSUME NEW r \in Requests, TimerStep(r) PROVE Inv'
  <2>1. CASE TimerElapses(r)    BY <2>1, InvQuietStep DEF TimerElapses, Inv, TypeOK
  <2>2. CASE ReleaseExpired(r)  BY <2>2, InvReleaseExpired
  <2>3. CASE Age(r)
    <3>1. aged' \subseteq OfType("transport")
      BY <2>3 DEF Age, Inv, TypeOK, IsTransport, OfType
    <3>2. QED
      BY <2>3, <3>1, InvQuietStep DEF Age, Inv, TypeOK, watchdog
  <2>4. QED
    BY <1>3, <2>1, <2>2, <2>3 DEF TimerStep
<1>4. ASSUME NEW w \in Idlers, CheckIdle(w) \/ IdleTimeout(w) PROVE Inv'
  <2>1. idler' \in [Idlers -> IdlerStates] /\ UNCHANGED <<args, queue, aged, active, call, watchdog>>
    BY <1>4 DEF CheckIdle, IdleTimeout, Inv, TypeOK, IdlerStates
  <2>2. QED
    BY <2>1, InvQuietStep DEF Inv, TypeOK, watchdog
<1>5. QED
  BY <1>1, <1>2, <1>3, <1>4 DEF Next

\* Types and queue bookkeeping hold in every reachable state.
THEOREM InvAlways == Spec => []Inv
BY InvInit, InvNext, PTL DEF Spec

\* The state always has its type, and each active list only its own lease type.
THEOREM TypeCorrect == Spec => []TypeOK
BY InvAlways, PTL DEF Inv

\* A ticket is queued exactly while its call waits, and everything active is held
\* (acquire, BeginBarrier, release, releaseExpired).
THEOREM QueueBookkeeping == Spec => []QueueMatchesCalls
BY InvAlways, PTL DEF Inv

-----------------------------------------------------------------------------
(* Who may hold the card together.  A step either leaves the active sets as   *)
(* they are or smaller, or is a grant, whose guard is CanAcquire.             *)

Sharing == CardSharing /\ BarrierExcludes

ShrinksActive ==
  /\ args' = args
  /\ activeSessions' \subseteq activeSessions /\ activeTransports' \subseteq activeTransports
  /\ activeBarriers' \subseteq activeBarriers /\ activeOneshot' \in {activeOneshot, NoRequest}

GrantsTo(q, r) == call[r] # "holding" /\ CanAcquire(q, r) /\ Grant(q, r)

\* A step grants one ticket or makes nothing new active.
LEMMA StepKinds ==
  ASSUME [Next]_vars
  PROVE  \/ ShrinksActive
         \/ \E r \in Requests : \E q \in {queue, Append(queue, r)} : GrantsTo(q, r)
<1>1. CASE UNCHANGED vars
  BY <1>1 DEF vars, active, ShrinksActive
<1>2. ASSUME NEW r \in Requests, Enqueue(r) \/ Recheck(r)
      PROVE  ShrinksActive \/ \E q \in {queue, Append(queue, r)} : GrantsTo(q, r)
  BY <1>2 DEF Enqueue, Recheck, ShrinksActive, GrantsTo, active
<1>3. ASSUME NEW r \in Requests,
             \/ Cancel(r) \/ Release(r) \/ ReleaseBarrier(r) \/ Touch(r) \/ TimerStep(r)
      PROVE  ShrinksActive
  BY <1>3 DEF Cancel, Release, ReleaseBarrier, Touch, TimerStep, TimerElapses, ReleaseExpired,
              Age, Deactivate, ShrinksActive, active
<1>4. ASSUME NEW w \in Idlers, CheckIdle(w) \/ IdleTimeout(w) PROVE ShrinksActive
  BY <1>4 DEF CheckIdle, IdleTimeout, ShrinksActive, active
<1>5. QED
  BY <1>1, <1>2, <1>3, <1>4 DEF Next, CallStep

\* The active lists are finite.
LEMMA FiniteActive ==
  ASSUME TypeOK
  PROVE  /\ IsFiniteSet(activeSessions) /\ IsFiniteSet(activeTransports)
         /\ IsFiniteSet(QMITransports)
<1>1. /\ activeSessions \in SUBSET Requests /\ activeTransports \in SUBSET Requests
      /\ QMITransports \in SUBSET Requests
  BY DEF TypeOK, OfType, QMITransports
<1>2. QED
  BY <1>1, ArbiterAssumption, FS_Subset

\* Taking leases away disturbs no sharing rule.
LEMMA SharingShrinks ==
  ASSUME TypeOK, Sharing, ShrinksActive
  PROVE  Sharing'
<1>1. /\ QMITransports' \subseteq QMITransports /\ ActiveLeases' \subseteq ActiveLeases
      /\ \A x : /\ Scope(x)' = Scope(x) /\ Channel(x)' = Channel(x)
                /\ Class(x)' = Class(x)
  BY DEF ShrinksActive, QMITransports, ActiveLeases, Scope, Channel, Class, IsBarrier, LeaseType
<1>2. /\ Cardinality(activeSessions') <= Cardinality(activeSessions)
      /\ Cardinality(QMITransports') <= Cardinality(QMITransports)
      /\ Cardinality(activeSessions) \in Nat /\ Cardinality(QMITransports) \in Nat
      /\ Cardinality(activeSessions') \in Nat /\ Cardinality(QMITransports') \in Nat
  <2>1. activeSessions' \in SUBSET activeSessions /\ QMITransports' \in SUBSET QMITransports
    BY <1>1 DEF ShrinksActive
  <2>2. QED
    BY <2>1, FiniteActive, FS_Subset, FS_CardinalityType
<1>3. CardSharing'
  <2>1. /\ activeSessions' # {} => activeOneshot' = NoRequest /\ activeTransports' = {}
        /\ activeOneshot' # NoRequest => activeTransports' = {}
        /\ \A t \in activeTransports' : Scope(t)' = "exclusive" => activeTransports' = {t}
    BY <1>1 DEF Sharing, CardSharing, ShrinksActive
  <2>2. \A s, t \in QMITransports' : s # t => Channel(s)' # Channel(t)'
    BY <1>1 DEF Sharing, CardSharing
  <2>3. /\ Cardinality(activeSessions') <= MaxSessions
        /\ Cardinality(QMITransports') <= MaxQMITransports
    BY <1>2, ArbiterAssumption DEF Sharing, CardSharing
  <2>4. QED
    BY <2>1, <2>2, <2>3 DEF CardSharing
<1>4. BarrierExcludes'
  BY <1>1 DEF Sharing, BarrierExcludes, ShrinksActive
<1>5. QED
  BY <1>3, <1>4 DEF Sharing

\* A transport is exclusive or of a QMI channel.
LEMMA ScopeOfTransport ==
  ASSUME NEW r
  PROVE  Scope(r) \in Scopes
BY DEF Scope, NormalizeTransportScope, Scopes

\* A new transport, alone when it or an active one is exclusive.
LEMMA TransportAdmission ==
  ASSUME TypeOK, CardSharing, NEW r \in OfType("transport"), r \notin activeTransports,
         CanAcquireTransportNow(r), args' = args,
         activeTransports' = activeTransports \cup {r}
  PROVE  /\ \A t \in activeTransports' : Scope(t)' = "exclusive" => activeTransports' = {t}
         /\ Cardinality(QMITransports') <= MaxQMITransports
         /\ \A s, t \in QMITransports' : s # t => Channel(s)' # Channel(t)'
<1>1. \A x : Scope(x)' = Scope(x) /\ Channel(x)' = Channel(x)
  BY DEF Scope, Channel
<1>2. CASE Scope(r) = "exclusive"
  <2>1. activeTransports = {} /\ activeTransports' = {r}
    BY <1>2 DEF CanAcquireTransportNow
  <2>2. QMITransports' = {}
    BY <1>1, <1>2, <2>1 DEF QMITransports
  <2>3. QED
    BY <2>1, <2>2, FS_EmptySet, ArbiterAssumption
<1>3. CASE Scope(r) = "qmi_channel"
  <2>1. /\ ~ActiveExclusive /\ ~QMIWindowFull
        /\ \A t \in QMITransports : Channel(t) # Channel(r)
    BY <1>3 DEF CanAcquireTransportNow
  <2>2. QMITransports' = QMITransports \cup {r} /\ r \notin QMITransports
    BY <1>1, <1>3 DEF QMITransports
  <2>3. \A t \in activeTransports' : Scope(t)' # "exclusive"
    BY <1>1, <1>3, <2>1 DEF ActiveExclusive, QMITransports
  <2>4. Cardinality(QMITransports') <= MaxQMITransports
    <3>1. /\ Cardinality(QMITransports') = Cardinality(QMITransports) + 1
          /\ Cardinality(QMITransports) \in Nat
      BY <2>2, FiniteActive, FS_AddElement, FS_CardinalityType
    <3>2. QED
      BY <2>1, <3>1, ArbiterAssumption DEF QMIWindowFull
  <2>5. \A s, t \in QMITransports' : s # t => Channel(s)' # Channel(t)'
    BY <1>1, <2>1, <2>2 DEF CardSharing
  <2>6. QED
    BY <2>3, <2>4, <2>5
<1>4. QED
  BY <1>2, <1>3, ScopeOfTransport DEF Scopes

\* The transport that is selected may run now.
LEMMA SelectedMayRun ==
  ASSUME NEW q, NEW r, SelectedTransport(q, r)
  PROVE  \E i \in DOMAIN q : q[i] = r /\ i \in Eligible(q)
BY DEF SelectedTransport, First

\* A granted lease fits beside the active ones and below the active barriers.
LEMMA SharingLeaseGrant ==
  ASSUME Inv, Sharing, NEW r \in Requests, NEW q, call[r] # "holding",
         CanAcquireLease(q, r), Grant(q, r)
  PROVE  Sharing'
<1>1. /\ ~IsBarrier(r) /\ ~BlockedByActiveBarrier(r) /\ activeOneshot = NoRequest
      /\ args' = args /\ activeBarriers' = activeBarriers
      /\ LeaseType(r) \in {"session", "oneshot", "transport"}
      /\ r \notin ActiveLeases
  <2>1. LeaseType(r) \in LeaseTypes
    BY ArgumentsTyped DEF Inv, LeaseType
  <2>2. QED
    BY <2>1 DEF CanAcquireLease, Grant, IsBarrier, LeaseTypes, Inv, QueueMatchesCalls
<1>2. ActiveLeases' \subseteq ActiveLeases \cup {r}
  BY DEF Grant, Activate, ActiveLeases
<1>3. \A x : Class(x)' = Class(x) /\ Scope(x)' = Scope(x) /\ Channel(x)' = Channel(x)
  BY <1>1 DEF Class, IsBarrier, LeaseType, Scope, Channel
<1>4. BarrierExcludes'
  BY <1>1, <1>2, <1>3 DEF Sharing, BarrierExcludes, BlockedByActiveBarrier
<1>5. CardSharing'
  <2>1. CASE LeaseType(r) = "session"
    <3>1. /\ activeTransports = {} /\ Cardinality(activeSessions) < MaxSessions
          /\ activeSessions' = activeSessions \cup {r}
          /\ activeOneshot' = NoRequest /\ activeTransports' = {}
      BY <1>1, <2>1 DEF CanAcquireLease, Grant, Activate, IsTransport
    <3>2. QMITransports' = {}
      BY <3>1 DEF QMITransports
    <3>3. Cardinality(activeSessions') <= MaxSessions
      <4>1. /\ Cardinality(activeSessions') <= Cardinality(activeSessions) + 1
            /\ Cardinality(activeSessions) \in Nat /\ Cardinality(activeSessions') \in Nat
        <5>1. IsFiniteSet(activeSessions) /\ IsFiniteSet(activeSessions')
          BY <3>1, FiniteActive, FS_AddElement DEF Inv
        <5>2. Cardinality(activeSessions) \in Nat /\ Cardinality(activeSessions') \in Nat
          BY <5>1, FS_CardinalityType
        <5>3. Cardinality(activeSessions') =
                IF r \in activeSessions THEN Cardinality(activeSessions)
                ELSE Cardinality(activeSessions) + 1
          BY <3>1, <5>1, FS_AddElement
        <5>4. QED
          BY <5>2, <5>3
      <4>2. QED
        BY <3>1, <4>1, ArbiterAssumption
    <3>4. QED
      BY <3>1, <3>2, <3>3, FS_EmptySet, ArbiterAssumption DEF CardSharing
  <2>2. CASE LeaseType(r) = "oneshot"
    <3>1. activeSessions' = {} /\ activeTransports' = {}
      BY <1>1, <2>2 DEF CanAcquireLease, Grant, Activate, IsTransport
    <3>2. QMITransports' = {}
      BY <3>1 DEF QMITransports
    <3>3. QED
      BY <3>1, <3>2, FS_EmptySet, ArbiterAssumption DEF CardSharing
  <2>3. CASE LeaseType(r) = "transport"
    <3>1. /\ activeSessions = {} /\ SelectedTransport(q, r)
          /\ activeSessions' = {} /\ activeOneshot' = NoRequest
          /\ activeTransports' = activeTransports \cup {r}
      BY <1>1, <2>3 DEF CanAcquireLease, Grant, Activate, IsTransport
    <3>2. CanAcquireTransportNow(r)
      BY <3>1, SelectedMayRun DEF Eligible
    <3>3. r \in OfType("transport") /\ r \notin activeTransports
      BY <1>1, <2>3 DEF OfType, ActiveLeases
    <3>4. /\ \A t \in activeTransports' : Scope(t)' = "exclusive" => activeTransports' = {t}
          /\ Cardinality(QMITransports') <= MaxQMITransports
          /\ \A s, t \in QMITransports' : s # t => Channel(s)' # Channel(t)'
      BY <1>1, <3>1, <3>2, <3>3, TransportAdmission DEF Inv, Sharing
    <3>5. QED
      BY <3>1, <3>4, FS_EmptySet, ArbiterAssumption DEF CardSharing
  <2>4. QED
    BY <1>1, <2>1, <2>2, <2>3
<1>6. QED
  BY <1>4, <1>5 DEF Sharing

\* A barrier is granted only on a card without leases.
LEMMA SharingBarrierGrant ==
  ASSUME Inv, Sharing, NEW r \in Requests, NEW q, CanAcquireBarrier(q, r), Grant(q, r)
  PROVE  Sharing'
<1>1. /\ activeSessions = {} /\ activeTransports = {} /\ activeOneshot = NoRequest
      /\ LeaseType(r) = "barrier"
  BY DEF CanAcquireBarrier, ActiveLeases, IsBarrier
<1>2. activeSessions' = {} /\ activeTransports' = {} /\ activeOneshot' = NoRequest
  BY <1>1 DEF Grant, Activate, IsTransport
<1>3. ActiveLeases' = {} /\ QMITransports' = {}
  BY <1>2 DEF ActiveLeases, QMITransports
<1>4. QED
  BY <1>2, <1>3, FS_EmptySet, ArbiterAssumption DEF Sharing, CardSharing, BarrierExcludes

\* The idle card is shared correctly.
LEMMA SharingInit == Init => Sharing
<1> SUFFICES ASSUME Init PROVE Sharing
  OBVIOUS
<1>1. QMITransports = {} /\ ActiveLeases = {}
  BY DEF Init, QMITransports, ActiveLeases
<1>2. QED
  BY <1>1, FS_EmptySet, ArbiterAssumption DEF Init, Sharing, CardSharing, BarrierExcludes

\* Every step keeps the sharing rules.
LEMMA SharingNext == Inv /\ Sharing /\ [Next]_vars => Sharing'
<1> SUFFICES ASSUME Inv, Sharing, [Next]_vars PROVE Sharing'
  OBVIOUS
<1>1. CASE ShrinksActive
  BY <1>1, SharingShrinks DEF Inv
<1>2. ASSUME NEW r \in Requests, NEW q, GrantsTo(q, r) PROVE Sharing'
  BY <1>2, SharingLeaseGrant, SharingBarrierGrant DEF GrantsTo, CanAcquire
<1>3. QED
  BY <1>1, <1>2, StepKinds

\* The lease types share the card the way they promise, and no lease of a class
\* an active barrier blocks is active (canAcquireLeaseLocked,
\* canAcquireBarrierLocked, canAcquireTransportNowLocked).
THEOREM CardSharedSafely == Spec => []SharedSafely
<1>1. Sharing => SharedSafely
  BY DEF Sharing, SharedSafely
<1>2. QED
  BY <1>1, InvAlways, SharingInit, SharingNext, PTL DEF Spec

-----------------------------------------------------------------------------
(* Wake-ups.  Whether a ticket may be granted depends on the locked state and *)
(* on which queued tickets have aged; every action that changes the locked    *)
(* state signals, and ageing is excluded by the premise of NoLostWakeup.      *)

\* WaitIdle never sleeps through idleness.
LEMMA IdleWaiterInit == Init => IdleWaiterWoken
BY DEF Init, IdleWaiterWoken

\* Whatever makes the arbiter idle wakes the WaitIdle callers.
LEMMA IdleWaiterNext == Inv /\ IdleWaiterWoken /\ [Next]_vars => IdleWaiterWoken'
<1> SUFFICES ASSUME Inv, IdleWaiterWoken, [Next]_vars PROVE IdleWaiterWoken'
  OBVIOUS
<1>1. ASSUME idler' = WakeAll(idler) PROVE IdleWaiterWoken'
  BY <1>1, WakeIdlers DEF Inv, TypeOK, IdleWaiterWoken
<1>2. ASSUME UNCHANGED <<queue, active>>, UNCHANGED idler PROVE IdleWaiterWoken'
  BY <1>2 DEF IdleWaiterWoken, IsIdle, active
<1>3. ASSUME NEW w \in Idlers, CheckIdle(w) \/ IdleTimeout(w) PROVE IdleWaiterWoken'
  BY <1>3 DEF CheckIdle, IdleTimeout, IdleWaiterWoken, IsIdle, active, Inv, TypeOK
<1>4. ASSUME NEW r \in Requests, CallStep(r) \/ TimerStep(r) PROVE IdleWaiterWoken'
  <2>1. \/ idler' = WakeAll(idler)
        \/ UNCHANGED <<queue, active>> /\ UNCHANGED idler
    BY <1>4 DEF CallStep, TimerStep, Enqueue, Recheck, Cancel, Release, ReleaseBarrier, Touch,
                TimerElapses, ReleaseExpired, Age, Grant, Signal, active
  <2>2. QED
    BY <1>1, <1>2, <2>1
<1>5. QED
  BY <1>2, <1>3, <1>4 DEF Next, vars

\* WaitIdle never sleeps through idleness (WaitIdle, signalLocked).
THEOREM IdleWaitersWoken == Spec => []IdleWaiterWoken
BY InvAlways, IdleWaiterInit, IdleWaiterNext, PTL DEF Spec

\* The bookkeeping of the arbiter is right in every reachable state (acquire,
\* BeginBarrier, WaitIdle and every release keep it).
THEOREM BookkeepingCorrect == Spec => []Consistent
<1>1. TypeOK /\ QueueMatchesCalls /\ IdleWaiterWoken => Consistent
  BY DEF Consistent
<1>2. QED
  BY <1>1, TypeCorrect, QueueBookkeeping, IdleWaitersWoken, PTL

\* A Touch that came before the watchdog callback got the mutex keeps the lease.
THEOREM TouchBeatsWatchdog == Spec => TouchedLeaseSurvives
<1> DEFINE Kept ==
      \A r \in ActiveLeases : r \notin ActiveLeases' => call'[r] = "released" \/ r \in lapsed
<1>1. Inv /\ [Next]_vars => Kept
  <2> SUFFICES ASSUME Inv, [Next]_vars, NEW x \in ActiveLeases, x \notin ActiveLeases'
               PROVE  call'[x] = "released" \/ x \in lapsed
    OBVIOUS
  <2> DEFINE Goal == call'[x] = "released" \/ x \in lapsed
  <2>1. x \in Requests
    BY ActiveByType DEF Inv, Leases
  <2>2. ~UNCHANGED <<activeSessions, activeOneshot, activeTransports>>
    BY DEF ActiveLeases
  <2>3. ASSUME NEW r \in Requests, NEW q, GrantsTo(q, r) PROVE Goal
    <3>1. ActiveLeases \subseteq ActiveLeases'
      BY <2>3 DEF GrantsTo, Grant, Activate, CanAcquire, CanAcquireLease, CanAcquireBarrier,
                  IsBarrier, ActiveLeases
    <3>2. QED
      BY <3>1
  <2>4. ASSUME NEW r, Deactivate(r) PROVE x = r
    BY <2>4 DEF Deactivate, ActiveLeases
  <2>5. ASSUME NEW r \in Requests, Release(r) PROVE Goal
    <3>1. x = r
      BY <2>2, <2>4, <2>5 DEF Release
    <3>2. [call EXCEPT ![r] = "released"] \in [Requests -> CallStates]
      BY DEF Inv, TypeOK, CallStates
    <3>3. call'[r] = "released"
      BY <2>1, <2>5, <3>2 DEF Release, Signal, WakeAll, Inv, TypeOK
    <3>4. QED
      BY <3>1, <3>3
  <2>6. ASSUME NEW r \in Requests, TimerStep(r) PROVE Goal
    BY <2>2, <2>4, <2>6 DEF TimerStep, TimerElapses, ReleaseExpired, Age, active
  <2>7. ASSUME NEW r \in Requests, Enqueue(r) \/ Recheck(r) PROVE Goal
    BY <2>2, <2>3, <2>7 DEF Enqueue, Recheck, GrantsTo, active
  <2>8. ASSUME NEW r \in Requests, Cancel(r) \/ ReleaseBarrier(r) \/ Touch(r) PROVE Goal
    BY <2>2, <2>8 DEF Cancel, ReleaseBarrier, Touch, active
  <2>9. ASSUME NEW w \in Idlers, CheckIdle(w) \/ IdleTimeout(w) PROVE Goal
    BY <2>2, <2>9 DEF CheckIdle, IdleTimeout, active
  <2>10. QED
    BY <2>2, <2>5, <2>6, <2>7, <2>8, <2>9 DEF Next, CallStep, vars, active
<1>2. QED
  BY <1>1, InvAlways, PTL DEF Spec, TouchedLeaseSurvives

\* Whether a ticket may be granted depends on the locked state and on aged only.
LEMMA GuardsOfQueue ==
  ASSUME UNCHANGED <<args, aged, active>>, NEW r, NEW q, queue' = q
  PROVE  CanAcquire(queue, r)' <=> CanAcquire(q, r)
<1>1. /\ args' = args /\ queue' = q /\ aged' = aged
      /\ activeSessions' = activeSessions /\ activeOneshot' = activeOneshot
      /\ activeTransports' = activeTransports /\ activeBarriers' = activeBarriers
  BY DEF active
<1>2. \A x : /\ LeaseType(x)' = LeaseType(x) /\ IsBarrier(x)' = IsBarrier(x)
             /\ IsTransport(x)' = IsTransport(x)
             /\ Scope(x)' = Scope(x) /\ Channel(x)' = Channel(x)
  BY <1>1 DEF LeaseType, IsBarrier, IsTransport, Scope, Channel
<1>3. \A x : Class(x)' = Class(x)
  BY <1>1, <1>2 DEF Class
<1>4. \A x : BlockedByActiveBarrier(x)' = BlockedByActiveBarrier(x)
  BY <1>1, <1>3 DEF BlockedByActiveBarrier
<1>5. QMITransports' = QMITransports
  BY <1>1, <1>2 DEF QMITransports
<1>6. ActiveExclusive' = ActiveExclusive /\ QMIWindowFull' = QMIWindowFull
  BY <1>1, <1>5 DEF ActiveExclusive, QMIWindowFull
<1>7. \A x : CanAcquireTransportNow(x)' = CanAcquireTransportNow(x)
  BY <1>1, <1>2, <1>5, <1>6 DEF CanAcquireTransportNow
<1>8. \A x : WaitGatesQueue(x)' = WaitGatesQueue(x)
  BY <1>2, <1>6 DEF WaitGatesQueue
<1>9. \A x : StopsScan(x)' = StopsScan(x)
  BY <1>2, <1>4, <1>7, <1>8 DEF StopsScan
<1>10. Eligible(queue)' = Eligible(q)
  BY <1>1, <1>4, <1>7, <1>9 DEF Eligible
<1>11. SelectedTransport(queue, r)' = SelectedTransport(q, r)
  BY <1>1, <1>3, <1>10 DEF SelectedTransport
<1>12. PendingBarrierAhead(queue, r)' = PendingBarrierAhead(q, r)
  BY <1>1, <1>2, <1>3 DEF PendingBarrierAhead
<1>13. CanAcquireLease(queue, r)' = CanAcquireLease(q, r)
  BY <1>1, <1>2, <1>4, <1>11, <1>12 DEF CanAcquireLease, HeadIs
<1>14. CanAcquireBarrier(queue, r)' = CanAcquireBarrier(q, r)
  BY <1>1, <1>2 DEF CanAcquireBarrier, ActiveLeases
<1>15. QED
  BY <1>13, <1>14 DEF CanAcquire

\* A step that leaves the locked state alone enables no ticket.
LEMMA GuardsKept ==
  ASSUME UNCHANGED <<args, queue, aged, active>>, NEW r
  PROVE  CanAcquire(queue, r)' <=> CanAcquire(queue, r)
BY GuardsOfQueue

\* Nobody is parked at the start.
LEMMA WakeupInit == Init => NoLostWakeup
BY DEF Init, NoLostWakeup

\* Every step that could enable a parked ticket wakes it.
LEMMA WakeupNext == Inv /\ NoLostWakeup /\ [Next]_vars => NoLostWakeup'
<1> SUFFICES ASSUME Inv, NoLostWakeup, [Next]_vars PROVE NoLostWakeup'
  OBVIOUS
<1>1. ASSUME NEW c \in [Requests -> CallStates], call' = WakeAll(c) PROVE NoLostWakeup'
  BY <1>1, WakeCalls DEF NoLostWakeup
\* The locked state stays, and whoever is parked afterwards was parked before.
<1>2. ASSUME UNCHANGED <<args, queue, aged, active>>,
             \A x \in Requests : /\ Queued(x)' <=> Queued(x)
                                 /\ call'[x] = "parked" => call[x] = "parked"
      PROVE  NoLostWakeup'
  <2>1. \A x \in Requests : CanAcquire(queue, x)' <=> CanAcquire(queue, x)
    BY <1>2, GuardsKept
  <2>2. aged' = aged /\ \A x \in Requests : Queued(x) => Queued(x)'
    BY <1>2
  <2>3. SUFFICES ASSUME \A x \in Requests : Queued(x)' => x \notin aged',
                        NEW y \in Requests, call'[y] = "parked"
                 PROVE  ~CanAcquire(queue, y)'
    BY DEF NoLostWakeup
  <2>4. \A x \in Requests : Queued(x) => x \notin aged
    BY <2>2, <2>3
  <2>5. ~CanAcquire(queue, y)
    BY <1>2, <2>3, <2>4 DEF NoLostWakeup
  <2>6. QED
    BY <2>1, <2>5
<1>3. ASSUME UNCHANGED <<args, queue, aged, active>>, UNCHANGED call PROVE NoLostWakeup'
  BY <1>2, <1>3 DEF Queued
<1>4. ASSUME NEW r \in Requests, Enqueue(r) PROVE NoLostWakeup'
  <2>1. CASE Grant(Append(queue, r), r)
    BY <1>1, <2>1 DEF Grant, Signal, Inv, TypeOK, CallStates
  <2>2. CASE ~Grant(Append(queue, r), r)
    <3>1. /\ ~CanAcquire(Append(queue, r), r) /\ queue' = Append(queue, r)
          /\ call' = [WakeAll(call) EXCEPT ![r] = "parked"]
          /\ UNCHANGED <<args, aged, active>>
      BY <1>4, <2>2 DEF Enqueue
    <3>2. \A x \in Requests : call'[x] = "parked" => x = r
      BY <3>1, WakeCalls DEF Inv, TypeOK
    <3>3. ~CanAcquire(queue, r)'
      BY <3>1, GuardsOfQueue
    <3>4. QED
      BY <3>2, <3>3 DEF NoLostWakeup
  <2>3. QED
    BY <2>1, <2>2
<1>5. ASSUME NEW r \in Requests, Recheck(r) PROVE NoLostWakeup'
  <2>1. CASE Grant(queue, r)
    BY <1>1, <2>1 DEF Grant, Signal, Inv, TypeOK, CallStates
  <2>2. CASE ~Grant(queue, r)
    <3>1. /\ ~CanAcquire(queue, r) /\ call' = [call EXCEPT ![r] = "parked"]
          /\ Queued(r) /\ UNCHANGED <<args, queue, aged, active>>
      BY <1>5, <2>2 DEF Recheck, Queued
    <3>2. \A x \in Requests : /\ Queued(x)' <=> Queued(x)
                              /\ call'[x] = "parked" => x = r \/ call[x] = "parked"
      BY <3>1 DEF Inv, TypeOK, Queued
    <3>3. \A x \in Requests : CanAcquire(queue, x)' <=> CanAcquire(queue, x)
      BY <3>1, GuardsKept
    <3>4. SUFFICES ASSUME \A x \in Requests : Queued(x)' => x \notin aged',
                          NEW y \in Requests, call'[y] = "parked"
                   PROVE  ~CanAcquire(queue, y)'
      BY DEF NoLostWakeup
    <3>5. aged' = aged /\ \A x \in Requests : Queued(x) => x \notin aged
      BY <3>1, <3>2, <3>4
    <3>6. ~CanAcquire(queue, y)
      BY <3>1, <3>2, <3>4, <3>5 DEF NoLostWakeup
    <3>7. QED
      BY <3>3, <3>6
  <2>3. QED
    BY <2>1, <2>2
<1>6. ASSUME NEW r \in Requests, Cancel(r) \/ ReleaseBarrier(r) PROVE NoLostWakeup'
  BY <1>1, <1>6 DEF Cancel, ReleaseBarrier, Signal, Inv, TypeOK, CallStates
<1>7. ASSUME NEW r \in Requests, Release(r) PROVE NoLostWakeup'
  <2>1. CASE r \in ActiveLeases
    BY <1>1, <1>7, <2>1 DEF Release, Signal, Inv, TypeOK, CallStates
  <2>2. CASE r \notin ActiveLeases
    <3>1. /\ call[r] = "holding" /\ call' = [call EXCEPT ![r] = "released"]
          /\ UNCHANGED <<args, queue, aged, active>>
      BY <1>7, <2>2 DEF Release, active
    <3>2. QED
      BY <1>2, <3>1 DEF Inv, TypeOK, Queued
  <2>3. QED
    BY <2>1, <2>2
<1>8. ASSUME NEW r \in Requests, ReleaseExpired(r) PROVE NoLostWakeup'
  BY <1>1, <1>3, <1>8 DEF ReleaseExpired, Signal, active, Inv, TypeOK
<1>9. ASSUME NEW r \in Requests, Age(r) PROVE NoLostWakeup'
  BY <1>9 DEF Age, NoLostWakeup, Queued
<1>10. ASSUME NEW r \in Requests, Touch(r) \/ TimerElapses(r) PROVE NoLostWakeup'
  BY <1>3, <1>10 DEF Touch, TimerElapses
<1>11. ASSUME NEW w \in Idlers, CheckIdle(w) \/ IdleTimeout(w) PROVE NoLostWakeup'
  BY <1>3, <1>11 DEF CheckIdle, IdleTimeout
<1>12. CASE UNCHANGED vars
  BY <1>3, <1>12 DEF vars
<1>13. QED
  BY <1>4, <1>5, <1>6, <1>7, <1>8, <1>9, <1>10, <1>11, <1>12 DEF Next, CallStep, TimerStep

\* As long as no waiting ticket has crossed the aging threshold, every parked call
\* has re-evaluated the state it is parked on (signalLocked).
THEOREM NoWakeupLost == Spec => []NoLostWakeup
BY InvAlways, WakeupInit, WakeupNext, PTL DEF Spec

-----------------------------------------------------------------------------
(* Order of grants. *)

\* No ticket behind a barrier satisfies the guard of a grant.
LEMMA BarrierBlocksGrant ==
  ASSUME NEW q, TicketQueue(q), NEW b \in Requests, NEW r \in Requests, IsBarrier(b),
         NEW i \in DOMAIN q, q[i] = b, \A k \in 1..i : q[k] # r
  PROVE  ~CanAcquire(q, r)
<1>1. DOMAIN q = 1..Len(q) /\ Len(q) \in Nat /\ \A k \in DOMAIN q : q[k] = r => k > i
  BY LenProperties DEF TicketQueue
<1>2. ~HeadIs(q, r)
  <2>1. Head(q) = q[1] /\ 1 \in 1..i
    BY <1>1
  <2>2. QED
    BY <2>1 DEF HeadIs
<1>3. ~SelectedTransport(q, r)
  <2>1. ~IsTransport(b)
    BY DEF IsBarrier, IsTransport
  <2>2. StopsScan(q[i])
    BY <2>1 DEF StopsScan
  <2>3. \A k \in Eligible(q) : q[k] # r
    BY <1>1, <2>2 DEF Eligible
  <2>4. QED
    BY <1>1, <2>3, SelectedMayRun
<1>4. ~CanAcquireBarrier(q, r)
  BY <1>1 DEF CanAcquireBarrier, First
<1>5. QED
  BY <1>2, <1>3, <1>4 DEF CanAcquire, CanAcquireLease

\* The queue as a call may find it: with its own ticket, new or old.
QueueFor(q, r) == q \in {queue, Append(queue, r)} /\ TicketQueue(q)

\* A call is granted from a queue that it waits in or has just joined, and may be.
LEMMA GrantedMayAcquire ==
  ASSUME Inv, [Next]_vars, NEW r \in Requests, Granted(r)
  PROVE  \E q : QueueFor(q, r) /\ CanAcquire(q, r)
<1> USE DEF QueueFor
<1> SUFFICES ASSUME \A q \in {queue, Append(queue, r)} : ~(TicketQueue(q) /\ CanAcquire(q, r))
             PROVE  FALSE
  OBVIOUS
<1>1. call[r] # "holding" /\ TicketQueue(queue) /\ ~CanAcquire(queue, r)
  BY QueueOfCalls DEF Granted
<1>2. ASSUME NEW c \in [Requests -> CallStates], c[r] # "holding", call' = WakeAll(c)
      PROVE  FALSE
  BY <1>2, WakeCalls DEF Granted
<1>3. ASSUME NEW x \in Requests, Enqueue(x) PROVE FALSE
  <2>1. CASE CanAcquire(Append(queue, x), x) /\ Grant(Append(queue, x), x)
    <3>1. x # r
      BY <1>3, <2>1, QueueWithNew DEF Enqueue
    <3>2. QED
      BY <1>1, <1>2, <2>1, <3>1 DEF Grant, Signal, Inv, TypeOK, CallStates
  <2>2. CASE call' = [WakeAll(call) EXCEPT ![x] = "parked"]
    BY <1>1, <2>2, WakeCalls DEF Granted, Inv, TypeOK
  <2>3. QED
    BY <1>3, <2>1, <2>2 DEF Enqueue
<1>4. ASSUME NEW x \in Requests, Recheck(x) PROVE FALSE
  <2>1. CASE CanAcquire(queue, x) /\ Grant(queue, x)
    <3>1. x # r
      BY <1>1, <2>1
    <3>2. QED
      BY <1>1, <1>2, <2>1, <3>1 DEF Grant, Signal, Inv, TypeOK, CallStates
  <2>2. CASE call' = [call EXCEPT ![x] = "parked"]
    BY <2>2 DEF Granted, Inv, TypeOK
  <2>3. QED
    BY <1>4, <2>1, <2>2 DEF Recheck
<1>5. ASSUME NEW x \in Requests, Cancel(x) PROVE FALSE
  BY <1>1, <1>2, <1>5 DEF Cancel, Signal, Inv, TypeOK, CallStates
<1>6. ASSUME NEW x \in Requests, Release(x) \/ ReleaseBarrier(x) \/ ReleaseExpired(x) PROVE FALSE
  BY <1>1, <1>2, <1>6
     DEF Release, ReleaseBarrier, ReleaseExpired, Signal, Granted, Inv, TypeOK, CallStates
<1>7. call' # call
  BY DEF Granted
<1>8. QED
  BY <1>3, <1>4, <1>5, <1>6, <1>7
     DEF Next, CallStep, TimerStep, Touch, TimerElapses, Age, CheckIdle, IdleTimeout, vars

\* Who is ahead of a call in the queue is so when the call has joined it.
LEMMA StillAhead ==
  ASSUME Inv, NEW e \in Requests, NEW r \in Requests, Ahead(e, r),
         NEW q, QueueFor(q, r)
  PROVE  TicketQueue(q) /\ \E i \in DOMAIN q : q[i] = e /\ \A k \in 1..i : q[k] # r
<1> USE DEF QueueFor
<1>1. PICK i \in DOMAIN queue : queue[i] = e /\ \A j \in 1..i : queue[j] # r
  BY DEF Ahead
<1>2. i \in DOMAIN q /\ i \in 1..Len(queue) /\ \A j \in 1..i : q[j] = queue[j]
  BY <1>1, QueueOfCalls, LenProperties, AppendProperties DEF TicketQueue
<1>3. q[i] = e /\ \A k \in 1..i : q[k] # r
  BY <1>1, <1>2
<1>4. QED
  BY <1>2, <1>3

\* Nothing overtakes a queued barrier, so traffic cannot starve a profile switch
\* (selectedTransportLocked, selectedBarrierLocked).
THEOREM BarrierGoesFirst == Spec => BarrierNotOvertaken
<1> DEFINE Kept == \A b, r \in Requests : IsBarrier(b) /\ Ahead(b, r) => ~Granted(r)
<1>1. Inv /\ [Next]_vars => Kept
  <2> SUFFICES ASSUME Inv, [Next]_vars, NEW b \in Requests, NEW r \in Requests,
                      IsBarrier(b), Ahead(b, r), Granted(r)
               PROVE  FALSE
    OBVIOUS
  <2>1. PICK q : QueueFor(q, r) /\ CanAcquire(q, r)
    BY GrantedMayAcquire
  <2>2. TicketQueue(q) /\ \E i \in DOMAIN q : q[i] = b /\ \A k \in 1..i : q[k] # r
    BY <2>1, StillAhead
  <2>3. QED
    BY <2>1, <2>2, BarrierBlocksGrant
<1>2. QED
  BY <1>1, InvAlways, PTL DEF Spec, BarrierNotOvertaken

\* The transport scan does not pass a waiting exclusive transport, and whoever must be at the
\* head of the queue, or needs an idle card, does not pass it either.
LEMMA ExclusiveBlocksGrant ==
  ASSUME NEW q, TicketQueue(q), NEW e \in Requests, NEW r \in Requests,
         IsTransport(e), Scope(e) = "exclusive", ~BlockedByActiveBarrier(e),
         activeTransports # {}, NEW i \in DOMAIN q, q[i] = e, \A k \in 1..i : q[k] # r
  PROVE  ~CanAcquire(q, r)
<1>1. DOMAIN q = 1..Len(q) /\ Len(q) \in Nat /\ \A k \in DOMAIN q : q[k] = r => k > i
  BY LenProperties DEF TicketQueue
<1>2. ~HeadIs(q, r)
  <2>1. Head(q) = q[1] /\ 1 \in 1..i
    BY <1>1
  <2>2. QED
    BY <2>1 DEF HeadIs
<1>3. ~SelectedTransport(q, r)
  <2>1. StopsScan(q[i])
    BY DEF StopsScan, CanAcquireTransportNow, WaitGatesQueue
  <2>2. \A k \in Eligible(q) : q[k] # r
    BY <1>1, <2>1 DEF Eligible
  <2>3. QED
    BY <2>2, SelectedMayRun
<1>4. ~CanAcquireBarrier(q, r)
  BY DEF CanAcquireBarrier, ActiveLeases
<1>5. QED
  BY <1>2, <1>3, <1>4 DEF CanAcquire, CanAcquireLease

\* QMI channels do not starve a transport that wants the card for itself: what stands behind
\* it is not granted while others are on the card (selectedTransportLocked).
THEOREM ExclusiveGates == Spec => ExclusiveGatesQueue
<1> DEFINE Kept == \A e, r \in Requests :
                     /\ IsTransport(e) /\ Scope(e) = "exclusive" /\ Ahead(e, r)
                     /\ ~BlockedByActiveBarrier(e) /\ activeTransports # {}
                     => ~Granted(r)
<1>1. Inv /\ [Next]_vars => Kept
  <2> SUFFICES ASSUME Inv, [Next]_vars, NEW e \in Requests, NEW r \in Requests,
                      IsTransport(e), Scope(e) = "exclusive", Ahead(e, r),
                      ~BlockedByActiveBarrier(e), activeTransports # {}, Granted(r)
               PROVE  FALSE
    OBVIOUS
  <2>1. PICK q : QueueFor(q, r) /\ CanAcquire(q, r)
    BY GrantedMayAcquire
  <2>2. TicketQueue(q) /\ \E i \in DOMAIN q : q[i] = e /\ \A k \in 1..i : q[k] # r
    BY <2>1, StillAhead
  <2>3. QED
    BY <2>1, <2>2, ExclusiveBlocksGrant
<1>2. QED
  BY <1>1, InvAlways, PTL DEF Spec, ExclusiveGatesQueue

\* Where an exclusive transport is eligible, so is each of its class before it; the choice then
\* falls on the later one only for its age.
LEMMA ChosenOverEarlier ==
  ASSUME NEW q, TicketQueue(q), NEW e, NEW r, Class(e) = Class(r),
         Scope(e) = "exclusive", Scope(r) = "exclusive",
         NEW i \in DOMAIN q, q[i] = e, \A k \in 1..i : q[k] # r, SelectedTransport(q, r)
  PROVE  r \in aged /\ e \notin aged
<1> DEFINE eligible == Eligible(q)
           aka == {k \in eligible : Class(q[k]) = "USIMAKA"}
           old == {k \in eligible \ aka : q[k] \in aged}
           chosen == IF old # {} THEN old ELSE IF aka # {} THEN aka ELSE eligible
<1>1. PICK j \in DOMAIN q : First(chosen, j) /\ q[j] = r
  BY DEF SelectedTransport
<1>2. j \in eligible /\ i < j /\ i \in Nat /\ j \in Nat
  <2>1. DOMAIN q = 1..Len(q) /\ Len(q) \in Nat /\ \A k \in DOMAIN q : q[k] = r => k > i
    BY LenProperties DEF TicketQueue
  <2>2. QED
    BY <1>1, <2>1 DEF First
<1>3. i \in eligible
  <2>1. \A k \in 1..i : k \in 1..j /\ ~StopsScan(q[k])
    BY <1>2 DEF Eligible
  <2>2. activeTransports = {} /\ ~BlockedByActiveBarrier(r)
    BY <1>1, <1>2 DEF Eligible, CanAcquireTransportNow
  <2>3. ~BlockedByActiveBarrier(e) /\ CanAcquireTransportNow(e)
    BY <2>2 DEF BlockedByActiveBarrier, CanAcquireTransportNow
  <2>4. QED
    BY <2>1, <2>3 DEF Eligible
<1>4. i \notin chosen
  BY <1>1, <1>2 DEF First
<1>5. i \in aka <=> j \in aka
  BY <1>1, <1>2, <1>3
<1>6. old # {}
  BY <1>1, <1>2, <1>3, <1>4, <1>5 DEF First
<1>7. QED
  BY <1>1, <1>3, <1>4, <1>5, <1>6 DEF First

\* Exclusive transports of one class are granted in the order of their calls, but for age
\* (selectedTransportLocked).
THEOREM FirstComeFirstServed == Spec => FifoWithinClass
<1> DEFINE Kept == \A e, r \in Requests :
                     /\ IsTransport(e) /\ IsTransport(r) /\ Ahead(e, r) /\ Class(e) = Class(r)
                     /\ Scope(e) = "exclusive" /\ Scope(r) = "exclusive"
                     /\ Granted(r)
                     => r \in aged /\ e \notin aged
<1>1. Inv /\ [Next]_vars => Kept
  <2> SUFFICES ASSUME Inv, [Next]_vars, NEW e \in Requests, NEW r \in Requests,
                      IsTransport(r), Ahead(e, r), Class(e) = Class(r),
                      Scope(e) = "exclusive", Scope(r) = "exclusive", Granted(r)
               PROVE  r \in aged /\ e \notin aged
    OBVIOUS
  <2>1. PICK q : QueueFor(q, r) /\ CanAcquire(q, r)
    BY GrantedMayAcquire
  <2>2. TicketQueue(q) /\ \E i \in DOMAIN q : q[i] = e /\ \A k \in 1..i : q[k] # r
    BY <2>1, StillAhead
  <2>3. SelectedTransport(q, r)
    BY <2>1 DEF CanAcquire, CanAcquireLease, CanAcquireBarrier, IsTransport, IsBarrier
  <2>4. QED
    BY <2>1, <2>2, <2>3, ChosenOverEarlier
<1>2. QED
  BY <1>1, InvAlways, PTL DEF Spec, FifoWithinClass

\* The order of grants: the queue starves neither a switch nor an exclusive transport, and
\* serves each class in the order of the calls.
THEOREM GrantsInOrder == Spec => QueueOrder
BY BarrierGoesFirst, ExclusiveGates, FirstComeFirstServed DEF QueueOrder

-----------------------------------------------------------------------------
(* The gate.                                                               *)

\* A parked waiter sleeps on the channel of a waiter, so that the channel can be
\* looked up; with that the three invariants are inductive together.
GateInv ==
  /\ GateTypeOK
  /\ SingleProbe
  /\ \A w \in Waiters : waiter[w] = "parked" => channel[w] \in Waiters
  /\ SleepersHaveAProber
  /\ OpenMeansVerified

\* The gate starts closed, with nobody at it.
LEMMA GateInvInit == GateInit => GateInv
<1> SUFFICES ASSUME GateInit PROVE GateInv
  OBVIOUS
<1>1. GateTypeOK
  BY DEF GateInit, GateTypeOK, WaiterStates
<1>2. SingleProbe
  BY GateAssumption DEF GateInit, SingleProbe
<1>3. QED
  BY <1>1, <1>2 DEF GateInit, GateInv, SleepersHaveAProber, OpenMeansVerified

\* A waiter that parks has a prober to wake it.
LEMMA GatePark ==
  ASSUME GateInv, NEW w \in Waiters, Park(w)
  PROVE  GateInv'
<1>1. waitC \in Waiters /\ waiter[waitC] = "probing" /\ waitC # w
  BY DEF Park, GateInv, GateTypeOK, SingleProbe
<1>2. /\ waitC' = waitC
      /\ channel' = [channel EXCEPT ![w] = waitC]
      /\ waiter' = [waiter EXCEPT ![w] = "parked"]
      /\ UNCHANGED <<generation, ready, probing, seen, verified>>
  BY <1>1, GateAssumption DEF Park
<1>3. GateTypeOK'
  BY <1>1, <1>2 DEF GateInv, GateTypeOK, WaiterStates
<1>4. SingleProbe'
  BY <1>1, <1>2 DEF Park, GateInv, GateTypeOK, SingleProbe
<1>5. \A x \in Waiters : waiter'[x] = "parked" =>
        channel'[x] \in Waiters /\ waiter'[channel'[x]] = "probing"
  <2>1. ASSUME NEW x \in Waiters, waiter'[x] = "parked"
        PROVE  channel'[x] \in Waiters /\ waiter'[channel'[x]] = "probing"
    <3>1. CASE x = w
      <4>1. channel'[x] = waitC
        BY <1>2, <3>1 DEF GateInv, GateTypeOK
      <4>2. QED
        BY <1>1, <1>2, <4>1 DEF GateInv, GateTypeOK
    <3>2. CASE x # w
      <4>1. waiter[x] = "parked" /\ channel'[x] = channel[x]
        BY <1>2, <2>1, <3>2 DEF GateInv, GateTypeOK
      <4>2. channel[x] \in Waiters /\ waiter[channel[x]] = "probing" /\ channel[x] # w
        BY <4>1 DEF Park, GateInv, SleepersHaveAProber
      <4>3. QED
        BY <1>2, <4>1, <4>2 DEF GateInv, GateTypeOK
    <3>3. QED
      BY <3>1, <3>2
  <2>2. QED
    BY <2>1
<1>6. QED
  BY <1>2, <1>3, <1>4, <1>5 DEF GateInv, SleepersHaveAProber, OpenMeansVerified

\* A waiter that begins to probe is the only one.
LEMMA GateBeginProbe ==
  ASSUME GateInv, NEW w \in Waiters, BeginProbe(w)
  PROVE  GateInv'
<1>1. /\ waiter[w] = "start" /\ ~ready /\ waitC = NoChannel
      /\ \A x \in Waiters : waiter[x] # "probing"
  BY GateAssumption DEF BeginProbe, GateInv, SingleProbe
<1>2. \A x \in Waiters : waiter[x] # "parked"
  BY <1>1 DEF GateInv, SleepersHaveAProber
<1>3. GateTypeOK'
  BY DEF BeginProbe, GateInv, GateTypeOK, WaiterStates
<1>4. QED
  BY <1>1, <1>2, <1>3, GateAssumption
     DEF BeginProbe, GateInv, GateTypeOK, SingleProbe, SleepersHaveAProber, OpenMeansVerified

\* A probe that returns wakes its sleepers and opens the gate only for its generation.
LEMMA GateEndProbe ==
  ASSUME GateInv, NEW w \in Waiters, NEW succeeded \in BOOLEAN, EndProbe(w, succeeded)
  PROVE  /\ GateInv'
         /\ waiter'[w] = "ok" => generation \in verified'
         /\ \A x \in Waiters : x # w /\ waiter'[x] = "ok" => waiter[x] = "ok"
<1> DEFINE stale == generation # seen[w]
           result == IF ~succeeded THEN "failed" ELSE IF stale THEN "start" ELSE "ok"
           after == [waiter EXCEPT ![w] = result]
<1>1. /\ waitC = w /\ waiter[w] = "probing"
      /\ \A x \in Waiters : waiter[x] = "probing" => x = w
  BY DEF EndProbe, GateInv, SingleProbe
<1>2. /\ ready' = IF stale THEN ready ELSE succeeded
      /\ waiter' = Closed(w, after)
      /\ waitC' = NoChannel /\ probing' = FALSE
      /\ verified' = IF succeeded THEN verified \cup {seen[w]} ELSE verified
      /\ UNCHANGED <<generation, channel, seen>>
  BY <1>1 DEF EndProbe
<1>3. result \in {"failed", "start", "ok"} /\ (result = "ok" => succeeded /\ ~stale)
  OBVIOUS
<1> HIDE DEF result
<1>4. /\ waiter' \in [Waiters -> WaiterStates]
      /\ waiter'[w] = result
      /\ \A x \in Waiters : /\ waiter'[x] # "parked" /\ waiter'[x] # "probing"
                            /\ x # w /\ waiter'[x] = "ok" => waiter[x] = "ok"
  <2>1. \A x \in Waiters : after[x] = IF x = w THEN result ELSE waiter[x]
    BY DEF GateInv, GateTypeOK
  <2>2. \A x \in Waiters : waiter[x] = "parked" => channel[x] = w
    BY <1>1 DEF GateInv, SleepersHaveAProber
  <2> HIDE DEF after
  <2>3. \A x \in Waiters :
          waiter'[x] = IF after[x] = "parked" /\ channel[x] = w THEN "start" ELSE after[x]
    BY <1>2 DEF Closed
  <2>4. waiter' = [x \in Waiters |-> waiter'[x]]
    BY <1>2 DEF Closed
  <2>5. QED
    BY <1>1, <1>3, <2>1, <2>2, <2>3, <2>4 DEF GateInv, GateTypeOK, WaiterStates
<1>5. GateTypeOK'
  BY <1>2, <1>4 DEF GateInv, GateTypeOK
<1>6. ready' => generation' \in verified'
  BY <1>2 DEF GateInv, OpenMeansVerified, GateTypeOK
<1>7. SingleProbe'
  BY <1>2, <1>4, GateAssumption DEF SingleProbe
<1>8. waiter'[w] = "ok" => generation \in verified'
  BY <1>2, <1>3, <1>4
<1>9. QED
  BY <1>4, <1>5, <1>6, <1>7, <1>8 DEF GateInv, SleepersHaveAProber, OpenMeansVerified

\* Every step keeps the invariant of the gate.
LEMMA GateInvNext ==
  ASSUME GateInv, [GateNext]_gateVars
  PROVE  /\ GateInv'
         /\ \A w \in Waiters : waiter[w] # "ok" /\ waiter'[w] = "ok" => generation \in verified'
<1> DEFINE Goal ==
      /\ GateInv'
      /\ \A w \in Waiters : waiter[w] # "ok" /\ waiter'[w] = "ok" => generation \in verified'
<1>1. CASE UNCHANGED gateVars
  BY <1>1 DEF gateVars, gate, GateInv, GateTypeOK, SingleProbe, SleepersHaveAProber, OpenMeansVerified
<1>2. CASE Invalidate
  <2>1. GateTypeOK'
    <3>1. generation' \in Nat
      BY <1>2 DEF Invalidate, GateInv, GateTypeOK
    <3>2. /\ ready' \in BOOLEAN /\ probing' \in BOOLEAN
          /\ waitC' \in Waiters \cup {NoChannel}
          /\ waiter' \in [Waiters -> WaiterStates]
          /\ channel' \in [Waiters -> Waiters \cup {NoChannel}]
          /\ seen' \in [Waiters -> Nat] /\ verified' \subseteq Nat
      BY <1>2, Zenon DEF Invalidate, GateInv, GateTypeOK
    <3>3. QED
      BY <3>1, <3>2 DEF GateTypeOK
  <2>2. QED
    BY <1>2, <2>1 DEF Invalidate, GateInv, SingleProbe, SleepersHaveAProber, OpenMeansVerified
<1>3. ASSUME NEW w \in Waiters, Pass(w) PROVE Goal
  <2>1. GateTypeOK'
    BY <1>3 DEF Pass, gate, GateInv, GateTypeOK, WaiterStates
  <2>2. QED
    BY <1>3, <2>1, GateAssumption
       DEF Pass, gate, GateInv, GateTypeOK, SingleProbe, SleepersHaveAProber, OpenMeansVerified
<1>4. ASSUME NEW w \in Waiters, Park(w) PROVE Goal
  <2>1. waiter' = [waiter EXCEPT ![w] = "parked"]
    BY <1>4 DEF Park
  <2>2. \A x \in Waiters : waiter'[x] = "ok" => waiter[x] = "ok"
    BY <2>1 DEF GateInv, GateTypeOK
  <2>3. QED
    BY <1>4, <2>2, GatePark
<1>5. ASSUME NEW w \in Waiters, BeginProbe(w) PROVE Goal
  BY <1>5, GateBeginProbe DEF BeginProbe, GateInv, GateTypeOK
<1>6. ASSUME NEW w \in Waiters, NEW s \in BOOLEAN, EndProbe(w, s) PROVE Goal
  BY <1>6, GateEndProbe
<1>7. ASSUME NEW w \in Waiters, Timeout(w) PROVE Goal
  <2>1. GateTypeOK'
    BY <1>7 DEF Timeout, gate, GateInv, GateTypeOK, WaiterStates
  <2>2. QED
    BY <1>7, <2>1, GateAssumption
       DEF Timeout, gate, GateInv, GateTypeOK, SingleProbe, SleepersHaveAProber, OpenMeansVerified
<1>8. QED
  BY <1>1, <1>2, <1>3, <1>4, <1>5, <1>6, <1>7 DEF GateNext, WaiterStep

\* The type invariant, the exclusion of concurrent probes, the meaning of an open
\* gate and the waker of every sleeper (WaitSIMAuthReady, InvalidateSIMAuthReady).
THEOREM GateInvariant == GateSpec => []GateConsistent
<1>1. GateInv => GateConsistent
  BY DEF GateInv, GateConsistent
<1>2. GateInv /\ [GateNext]_gateVars => GateInv'
  BY GateInvNext
<1>3. QED
  BY GateInvInit, <1>1, <1>2, PTL DEF GateSpec

\* Nobody is admitted by a probe that an invalidation has overtaken.
THEOREM GateAdmitsVerified == GateSpec => PassesVerified
<1> DEFINE Step ==
      \A w \in Waiters : waiter[w] # "ok" /\ waiter'[w] = "ok" => generation \in verified'
<1>1. GateInv /\ [GateNext]_gateVars => GateInv' /\ Step
  BY GateInvNext
<1>2. QED
  BY GateInvInit, <1>1, PTL DEF GateSpec, PassesVerified
=============================================================================
