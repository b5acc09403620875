----------------------------- MODULE MbimDevice -----------------------------
(***************************************************************************)
(* An opened MBIM control endpoint (pkg/mbim: device.go, fragment.go,      *)
(* transport.go, snapshot.go): concurrent commands multiplexed over one    *)
(* transport by transaction identifier, their fragments, the read loop     *)
(* that reassembles answers and indications, deadlines, a link that dies,  *)
(* and Close.                                                              *)
(*                                                                         *)
(* A message is known by its source: an answer by its transaction, the     *)
(* k-th indication by MaxTx + k.  Indications travel under transaction 0.  *)
(***************************************************************************)
EXTENDS Integers, FiniteSets, Sequences

CONSTANTS
  Callers, Opener,  \* goroutines that send commands; the one that opens
  MaxTx,            \* bound: transactions
  Sizes,            \* how many fragments a command or an indication may need
  MaxFragments,     \* bound: fragments of a message
  MaxIndications,   \* bound: indications
  Capacity,         \* of Device.indications
  MaxFaults         \* bound: messages unreadable, malformed or repeated

ASSUME CallersAssumption == Opener \in Callers
ASSUME BoundsAssumption ==
  /\ MaxTx \in Nat \ {0} /\ MaxFragments \in Nat \ {0}
  /\ Sizes \subseteq 1..MaxFragments
  /\ {MaxIndications, Capacity, MaxFaults} \subseteq Nat

Txs == 1..MaxTx
Channels == 0..MaxTx           \* transactions, and 0 for the indications
Sources == 0..(MaxTx + MaxIndications)
None == 0

VARIABLES
  stage, tx, size, sent,  \* a caller: where it is, its transaction, its fragments
  use,                    \* what a caller is sending
  nextTx, pending, box,   \* Device.nextTx; Device.pending; its channels
  call,                   \* what each transaction has returned
  writer,                 \* holder of Device.writeMu
  collector,              \* Device.collector
  queue,                  \* Device.indications
  loop,                   \* the read loop
  ready, closed, link,    \* the endpoint is open; Device.closed; the transport
  partial, carried,       \* the modem: the command it assembles; those carried out
  reply,                  \* the message it is sending on each channel
  raised,                 \* indications so far
  lost, odd               \* messages unreadable; malformed or sent twice

callerVars == <<stage, tx, size, sent, use>>
deviceVars == <<nextTx, pending, box, call, writer>>
readVars   == <<collector, queue, loop>>
linkVars   == <<ready, closed, link>>
modemVars  == <<partial, carried, reply, raised, lost, odd>>
vars == <<callerVars, deviceVars, readVars, linkVars, modemVars>>

Empty   == [next |-> 0, total |-> 0, parts |-> {}, bad |-> FALSE]
Silent  == [next |-> 0, total |-> 0, from |-> None, bad |-> FALSE]
Nothing == [tx |-> None, next |-> 0]

Init ==
  /\ stage = [c \in Callers |-> "idle"] /\ tx = [c \in Callers |-> None]
  /\ size = [c \in Callers |-> 1] /\ sent = [c \in Callers |-> 0]
  /\ \E first \in {"config", "open"} : \* needsProxyConfig
       use = [c \in Callers |-> IF c = Opener THEN first ELSE "command"]
  /\ nextTx = 0 /\ pending = {} /\ writer = {}
  /\ box = [t \in Txs |-> "none"] /\ call = [t \in Txs |-> "unused"]
  /\ collector = [t \in Channels |-> Empty] /\ queue = <<>> /\ loop = "running"
  /\ ready = FALSE /\ closed = FALSE /\ link = "up"
  /\ partial = Nothing /\ carried = {} /\ reply = [t \in Channels |-> Silent]
  /\ raised = 0 /\ lost = 0 /\ odd = 0

-----------------------------------------------------------------------------
(* Callers: Command, and OPEN.                                             *)

\* allocTx and registerPending.
Issue(c) ==
  /\ stage[c] = "idle" /\ (c = Opener \/ ready) /\ nextTx < MaxTx
  /\ nextTx' = nextTx + 1
  /\ tx' = [tx EXCEPT ![c] = nextTx + 1]
  /\ pending' = pending \cup {nextTx + 1}
  /\ call' = [call EXCEPT ![nextTx + 1] = "issued"]
  /\ \E n \in IF use[c] = "command" THEN Sizes ELSE {1} :
       size' = [size EXCEPT ![c] = n]
  /\ sent' = [sent EXCEPT ![c] = 0]
  /\ stage' = [stage EXCEPT ![c] = "write"]
  /\ UNCHANGED <<use, box, writer, readVars, linkVars, modemVars>>

\* A caller comes back with an outcome; the opener goes on, or has opened.
Return(c, outcome) ==
  /\ call' = [call EXCEPT ![tx[c]] = outcome]
  /\ IF c = Opener /\ outcome = "answer" /\ use[c] = "config"
       THEN stage' = [stage EXCEPT ![c] = "idle"] /\ use' = [use EXCEPT ![c] = "open"]
       ELSE stage' = [stage EXCEPT ![c] = IF outcome = "answer" THEN "done" ELSE "failed"]
            /\ UNCHANGED use
  /\ ready' = (ready \/ (use[c] = "open" /\ outcome = "answer"))
  /\ size' = [size EXCEPT ![c] = 1] /\ sent' = [sent EXCEPT ![c] = 0]
  /\ UNCHANGED tx

\* writeMu: the fragments of a command go out together.
CanWrite(c) == writer \subseteq {c}
\* Mutant: nobody takes writeMu between two fragments.
HoldNothing(c) == writer' = {}

HoldWriter(c) == writer' = {c}

\* The modem assembles a command from fragments that follow each other.
Assembled(t, n) ==
  IF n = 0 THEN [tx |-> t, next |-> 1]
  ELSE IF partial = [tx |-> t, next |-> n] THEN [tx |-> t, next |-> n + 1]
  ELSE Nothing

Faulty == lost + odd < MaxFaults

\* One fragment reaches the modem, which carries the command out with the last.
Hear(t, n, total, answers) ==
  LET now == Assembled(t, n)
  IN IF now = [tx |-> t, next |-> total]
       THEN /\ partial' = Nothing
            /\ carried' = carried \cup {t}
            /\ \E k \in answers, bad \in BOOLEAN :
                 /\ bad => Faulty
                 /\ odd' = IF bad THEN odd + 1 ELSE odd
                 /\ reply' = [reply EXCEPT ![t] =
                                [next |-> 0, total |-> k, from |-> t, bad |-> bad]]
       ELSE partial' = now /\ UNCHANGED <<carried, reply, odd>>

LastFragment(c) == sent[c] + 1 = size[c]

Write(c) ==
  /\ stage[c] = "write" /\ CanWrite(c) /\ link # "closed"
  /\ \/ Hear(tx[c], sent[c], size[c], IF use[c] = "command" THEN 1..MaxFragments ELSE {1})
     \/ link = "dead" /\ UNCHANGED <<partial, carried, reply, odd>>
  /\ sent' = [sent EXCEPT ![c] = @ + 1]
  /\ IF LastFragment(c)
       THEN stage' = [stage EXCEPT ![c] = "wait"] /\ writer' = {}
       ELSE HoldWriter(c) /\ UNCHANGED stage
  /\ UNCHANGED <<tx, size, use, nextTx, pending, box, call, readVars, linkVars,
                 raised, lost>>

WriteFails(c) ==
  /\ stage[c] = "write" /\ CanWrite(c) /\ link # "up"
  /\ pending' = pending \ {tx[c]} /\ writer' = {}
  /\ Return(c, "error")
  /\ UNCHANGED <<nextTx, box, readVars, closed, link, modemVars>>

Take(c) ==
  /\ stage[c] = "wait" /\ box[tx[c]] # "none"
  /\ Return(c, box[tx[c]])
  /\ UNCHANGED <<nextTx, pending, box, writer, readVars, closed, link, modemVars>>

\* The context is done; the answer may be there as well.
Timeout(c) ==
  /\ stage[c] = "wait"
  /\ pending' = pending \ {tx[c]}
  /\ Return(c, "timeout")
  /\ UNCHANGED <<nextTx, box, writer, readVars, closed, link, modemVars>>

-----------------------------------------------------------------------------
(* The read loop.                                                          *)

\* Mutant: an out-of-order fragment is appended.
AddAnyOrder(c, m) ==
  IF c.next = 0
    THEN [next |-> 1, total |-> m.total, parts |-> {<<m.from, m.n>>}, bad |-> m.bad]
    ELSE [c EXCEPT !.next = @ + 1, !.parts = @ \cup {<<m.from, m.n>>}]

\* collector.add: the collector after a message, or itself if it is refused.
Add(c, m) ==
  IF c.next = 0
    THEN IF m.n = 0
           THEN [next |-> 1, total |-> m.total, parts |-> {<<m.from, m.n>>}, bad |-> m.bad]
           ELSE c
    ELSE IF m.n = c.next
           THEN [c EXCEPT !.next = @ + 1, !.parts = @ \cup {<<m.from, m.n>>}]
           ELSE c

Refused(c, m) == Add(c, m) = c
Complete(c) == c.next >= c.total
Whole(c, source) == c.parts = {source} \X (0..(c.total - 1))

\* commandCollector: one collector for each transaction identifier.
CollectorOf(t) == t

\* deliver and deliverError: whoever takes a transaction out of pending answers it.
Deliver(t, outcome) ==
  IF t \in pending
    THEN IF box[t] = "none"
           THEN /\ box' = [box EXCEPT ![t] = outcome] /\ pending' = pending \ {t}
                /\ UNCHANGED loop
           ELSE loop' = "blocked" /\ UNCHANGED <<box, pending>>
    ELSE UNCHANGED <<box, pending, loop>>

\* The Device gives the monitor what there is room for.
Offer(item) ==
  queue' = IF Len(queue) < Capacity THEN Append(queue, item) ELSE queue

ReadOpenDone(m) ==
  /\ Deliver(m.tx, IF m.bad THEN "error" ELSE "answer")
  /\ UNCHANGED <<collector, queue>>

ReadFragment(m) ==
  LET k == CollectorOf(m.tx)
      c == Add(collector[k], m)
  IN IF Refused(collector[k], m) \/ ~Complete(c)
       THEN /\ collector' = [collector EXCEPT ![k] = c]
            /\ UNCHANGED <<box, pending, loop, queue>>
       ELSE /\ collector' = [collector EXCEPT ![k] = Empty]
            /\ IF m.tx = 0
                 THEN /\ IF c.bad THEN UNCHANGED queue
                         ELSE Offer([from |-> m.from, whole |-> Whole(c, m.from)])
                      /\ UNCHANGED <<box, pending, loop>>
                 ELSE /\ Deliver(m.tx, IF c.bad THEN "error"
                                       ELSE IF Whole(c, m.tx) THEN "answer" ELSE "garbled")
                      /\ UNCHANGED queue

IsOpenDone(t) == \E c \in Callers : use[c] = "open" /\ tx[c] = t

Read(m) == IF IsOpenDone(m.tx) THEN ReadOpenDone(m) ELSE ReadFragment(m)

\* failPending: everyone that waits is told, once.
FailPending ==
  /\ box' = [t \in Txs |-> IF t \in pending THEN "error" ELSE box[t]]
  /\ pending' = {}
  /\ collector' = [t \in Channels |-> Empty]

LoopEnds ==
  /\ loop = "running" /\ link # "up"
  /\ FailPending
  /\ loop' = IF link = "closed" THEN "ended" ELSE "lost"
  /\ UNCHANGED <<callerVars, nextTx, call, writer, queue, linkVars, modemVars>>

\* Monitor.Run, until Stop (Manager.Close stops it before it closes the device).
Consume ==
  /\ queue # <<>> /\ ~closed
  /\ queue' = Tail(queue)
  /\ UNCHANGED <<callerVars, deviceVars, collector, loop, linkVars, modemVars>>

-----------------------------------------------------------------------------
(* The modem and the link.                                                 *)

Message(t) == [tx |-> t, n |-> reply[t].next, total |-> reply[t].total,
               from |-> reply[t].from, bad |-> reply[t].bad]
Sending(t) == reply[t].next < reply[t].total

\* The next fragment of an answer or an indication is read, or is unreadable.
Send(t) ==
  /\ link = "up" /\ loop = "running" /\ Sending(t)
  /\ reply' = [reply EXCEPT ![t].next = @ + 1]
  /\ \/ Read(Message(t)) /\ UNCHANGED lost
     \/ /\ Faulty /\ lost' = lost + 1
        /\ UNCHANGED <<box, pending, loop, collector, queue>>
  /\ UNCHANGED <<callerVars, nextTx, call, writer, linkVars, partial, carried,
                 raised, odd>>

\* The modem sends a fragment of an answer twice.
Repeat(t) ==
  /\ link = "up" /\ loop = "running" /\ Faulty
  /\ t \in carried /\ reply[t].next > 0
  /\ odd' = odd + 1
  /\ Read([Message(t) EXCEPT !.n = @ - 1])
  /\ UNCHANGED <<callerVars, nextTx, call, writer, linkVars, partial, carried,
                 reply, raised, lost>>

Raise ==
  /\ ready /\ link = "up" /\ ~Sending(0) /\ raised < MaxIndications
  /\ raised' = raised + 1
  /\ \E k \in Sizes :
       reply' = [reply EXCEPT ![0] =
                   [next |-> 0, total |-> k, from |-> MaxTx + raised + 1, bad |-> FALSE]]
  /\ UNCHANGED <<callerVars, deviceVars, readVars, linkVars, partial, carried, lost, odd>>

LinkDies ==
  /\ link = "up" /\ link' = "dead"
  /\ UNCHANGED <<callerVars, deviceVars, readVars, ready, closed, modemVars>>

\* Close: by its owner once it is open, or because it would not open.
Close ==
  /\ ~closed /\ (ready \/ stage[Opener] = "failed")
  /\ closed' = TRUE /\ nextTx' = nextTx + 1
  /\ UNCHANGED <<callerVars, pending, box, call, writer, readVars, ready, link, modemVars>>

\* It waits for writeMu, says CLOSE and closes the transport.
CloseTransport ==
  /\ closed /\ link # "closed" /\ writer = {}
  /\ link' = "closed"
  /\ UNCHANGED <<callerVars, deviceVars, readVars, ready, closed, modemVars>>

-----------------------------------------------------------------------------
Caller(c) == Issue(c) \/ Write(c) \/ WriteFails(c) \/ Take(c) \/ Timeout(c)

Next ==
  \/ \E c \in Callers : Caller(c)
  \/ \E t \in Channels : Send(t)
  \/ \E t \in Txs : Repeat(t)
  \/ Raise \/ Consume \/ LoopEnds \/ LinkDies \/ Close \/ CloseTransport

\* Goroutines run and deadlines pass; nobody owes an answer, a call or a Close.
Fairness ==
  /\ \A c \in Callers : WF_vars(Write(c) \/ WriteFails(c)) /\ WF_vars(Take(c) \/ Timeout(c))
  /\ WF_vars(LoopEnds) /\ WF_vars(CloseTransport)

Spec == Init /\ [][Next]_vars /\ Fairness

-----------------------------------------------------------------------------
Pieces == [next : 0..MaxFragments, total : 0..MaxFragments, bad : BOOLEAN,
           parts : SUBSET (Sources \X (0..MaxFragments))]

CallerTypes ==
  /\ stage \in [Callers -> {"idle", "write", "wait", "done", "failed"}]
  /\ tx \in [Callers -> 0..MaxTx]
  /\ size \in [Callers -> 1..MaxFragments] /\ sent \in [Callers -> 0..MaxFragments]
  /\ use \in [Callers -> {"config", "open", "command"}]

DeviceTypes ==
  /\ nextTx \in 0..(MaxTx + 1) /\ pending \subseteq Txs
  /\ box \in [Txs -> {"none", "answer", "error", "garbled"}]
  /\ call \in [Txs -> {"unused", "issued", "answer", "error", "garbled", "timeout"}]
  /\ writer \subseteq Callers /\ Cardinality(writer) <= 1
  /\ ready \in BOOLEAN /\ closed \in BOOLEAN

ReadTypes ==
  /\ collector \in [Channels -> Pieces]
  /\ queue \in Seq([from : Sources, whole : BOOLEAN]) /\ Len(queue) <= Capacity
  /\ loop \in {"running", "blocked", "lost", "ended"}
  /\ link \in {"up", "dead", "closed"}

ModemTypes ==
  /\ partial \in [tx : 0..MaxTx, next : 0..MaxFragments] /\ carried \subseteq Txs
  /\ reply \in [Channels -> [next : 0..MaxFragments, total : 0..MaxFragments,
                             from : Sources, bad : BOOLEAN]]
  /\ raised \in 0..MaxIndications
  /\ lost \in Nat /\ odd \in Nat /\ lost + odd <= MaxFaults

\* The state has its types (device.go:10-22).
TypeOK == CallerTypes /\ DeviceTypes /\ ReadTypes /\ ModemTypes

\* Whatever is lost, repeated or late, each transaction comes back once, with
\* its own whole answer, an error, or at its deadline (device.go:106-135).
Rpc == INSTANCE MbimRpc WITH Txs <- Txs, call <- call, carried <- carried
ImplementsRpc == Rpc!Spec

\* The read loop never waits for a caller that has gone: its send to a channel
\* of capacity one always finds room (device.go:225-254).
ReaderNeverBlocks == loop # "blocked"

\* The fragments of a command reach the modem next to each other, so one that
\* was written in full is carried out (device.go:115-123).
CommandsWhole ==
  \A c \in Callers : stage[c] = "wait" /\ link = "up" => tx[c] \in carried

\* A caller that waits is still known to the read loop or has its answer; only
\* after a link that died unclosed can it wait for a loop that has ended, and
\* then until its deadline (device.go:125-134, 245-254).
Deaf(c) == stage[c] = "wait" /\ box[tx[c]] = "none"
NobodyDeaf ==
  \A c \in Callers : Deaf(c) => tx[c] \in pending /\ loop # "ended"

\* As long as nothing of the modem's was unreadable, an indication the monitor
\* gets is one message, whatever answers came between its fragments
\* (device.go:184-211).
IndicationsWhole ==
  lost = 0 => \A i \in 1..Len(queue) : queue[i].whole

\* What is true of the reader, the writers, the waiting callers and the monitor of
\* a device at every moment.
Consistent == TypeOK /\ ReaderNeverBlocks /\ CommandsWhole /\ NobodyDeaf /\ IndicationsWhole
=============================================================================
