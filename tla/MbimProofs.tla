------------------------------ MODULE MbimProofs ------------------------------
(***************************************************************************)
(* Proofs about the two layers under an MBIM modem, for every set of       *)
(* goroutines and every bound.                                             *)
(*                                                                         *)
(* MbimDevice, the endpoint: what is Consistent stays so, and it           *)
(* implements the safety part of MbimRpc. MbimManager, above it: what is   *)
(* ManagerConsistent stays so, and a recovery restores the session.        *)
(***************************************************************************)
EXTENDS MbimDevice, MbimManager, FiniteSetTheorems, TLAPS

\* A caller that has a transaction under way.
Busy(c) == stage[c] \in {"write", "wait"}

\* Transactions are counted up and never given to two callers.
Numbering ==
  /\ ~closed => nextTx <= MaxTx
  /\ \A c \in Callers : tx[c] <= nextTx
  /\ \A c, d \in Callers : tx[c] = tx[d] /\ tx[c] # None => c = d
  /\ \A t \in Txs : t > nextTx => call[t] = "unused" /\ box[t] = "none" /\ t \notin pending
  /\ \A t \in carried : call[t] # "unused"

\* A caller's transaction is open while it is busy, and the read loop knows of it until
\* its channel is filled, with an answer only if the command was carried out.
Answering ==
  /\ \A c \in Callers : Busy(c) =>
       /\ tx[c] \in Txs /\ call[tx[c]] = "issued"
       /\ tx[c] \in pending \/ box[tx[c]] # "none"
  /\ \A t \in pending : box[t] = "none"
  /\ \A t \in Txs : box[t] # "garbled" /\ (box[t] = "answer" => t \in carried)
  /\ ReaderNeverBlocks
  /\ loop = "ended" => link = "closed"
  /\ NobodyDeaf

\* One caller at most is between two fragments, and the modem has what it wrote.
Writing ==
  /\ \A c \in Callers : stage[c] = "write" =>
       /\ sent[c] < size[c] /\ tx[c] \notin carried
       /\ sent[c] # 0 => /\ writer = {c}
                         /\ link = "up" => partial = [tx |-> tx[c], next |-> sent[c]]
  /\ \A c \in writer : writer = {c} /\ stage[c] = "write" /\ sent[c] # 0
  /\ CommandsWhole

\* What is collected of the answer to a transaction is a prefix of it.
Answers ==
  /\ \A t \in Channels : /\ reply[t].next <= reply[t].total
                         /\ collector[t].next # 0 => collector[t].next < collector[t].total
  /\ \A t \in Txs :
       /\ reply[t].total # 0 => t \in carried /\ reply[t].from = t
       /\ collector[t].next # 0 => /\ collector[t].total = reply[t].total
                                   /\ collector[t].parts = {t} \X (0..(collector[t].next - 1))

\* What is collected of an indication is what has been sent of it, as long as nothing is
\* lost and the read loop runs; its channel is not taken for that of an OPEN.
Gathered ==
  \/ collector[0].next = 0 /\ reply[0].next \in {0, reply[0].total}
  \/ /\ collector[0].next = reply[0].next /\ collector[0].total = reply[0].total
     /\ collector[0].parts = {reply[0].from} \X (0..(reply[0].next - 1))

Indicating ==
  /\ ready => stage[Opener] = "done" /\ tx[Opener] # None
  /\ \A c \in Callers : use[c] = "open" => c = Opener
  /\ reply[0].total # 0 => ready
  /\ lost = 0 /\ loop = "running" => Gathered
  /\ IndicationsWhole

Inv == TypeOK /\ Numbering /\ Answering /\ Writing /\ Answers /\ Indicating

-----------------------------------------------------------------------------
\* The bounds are numbers.
LEMMA Bounds ==
  /\ MaxTx \in Nat /\ MaxTx >= 1 /\ MaxFragments \in Nat /\ MaxFragments >= 1
  /\ MaxIndications \in Nat /\ Capacity \in Nat /\ MaxFaults \in Nat
  /\ \A n \in Sizes : n \in 1..MaxFragments
BY BoundsAssumption

\* A set of at most one writer.
LEMMA LoneWriter ==
  ASSUME NEW c \in Callers
  PROVE  Cardinality({}) <= 1 /\ Cardinality({c}) <= 1
BY FS_EmptySet, FS_Singleton

\* The endpoint starts with nothing sent, collected or promised.
LEMMA InvInit == Init => Inv
<1> SUFFICES ASSUME Init PROVE Inv
  OBVIOUS
<1>1. TypeOK
  <2>1. CallerTypes
    <3>1. use \in [Callers -> {"config", "open", "command"}]
      BY DEF Init
    <3>2. /\ stage = [c \in Callers |-> "idle"] /\ tx = [c \in Callers |-> 0]
          /\ size = [c \in Callers |-> 1] /\ sent = [c \in Callers |-> 0]
      BY DEF Init, None
    <3>3. QED
      BY <3>1, <3>2, Bounds DEF CallerTypes
  <2>2. DeviceTypes
    <3>1. /\ nextTx = 0 /\ pending = {} /\ writer = {} /\ ready = FALSE /\ closed = FALSE
          /\ box = [t \in Txs |-> "none"] /\ call = [t \in Txs |-> "unused"]
      BY DEF Init
    <3>2. Cardinality(writer) <= 1
      BY <3>1, LoneWriter, CallersAssumption
    <3>3. /\ box \in [Txs -> {"none", "answer", "error", "garbled"}]
          /\ call \in [Txs -> {"unused", "issued", "answer", "error", "garbled", "timeout"}]
      BY <3>1
    <3>4. nextTx \in 0..(MaxTx + 1)
      BY <3>1, Bounds
    <3>5. pending \subseteq Txs /\ writer \subseteq Callers /\ ready \in BOOLEAN /\ closed \in BOOLEAN
      BY <3>1
    <3>6. QED
      BY <3>2, <3>3, <3>4, <3>5 DEF DeviceTypes
  <2>3. ReadTypes
    <3>1. Empty \in Pieces
      BY Bounds DEF Empty, Pieces
    <3>2. QED
      BY <3>1, Bounds DEF Init, ReadTypes
  <2>4. ModemTypes
    <3>1. Silent \in [next : 0..MaxFragments, total : 0..MaxFragments, from : Sources, bad : BOOLEAN]
      BY Bounds DEF Silent, Sources, None
    <3>2. QED
      BY <3>1, Bounds DEF Init, ModemTypes, Nothing, None
  <2>5. QED
    BY <2>1, <2>2, <2>3, <2>4 DEF TypeOK
<1>2. Numbering /\ Answering /\ Writing
  BY Bounds DEF Init, Numbering, Answering, Writing, Busy, ReaderNeverBlocks, NobodyDeaf, Deaf,
         CommandsWhole, Txs, None
<1>3. Answers /\ Indicating
  BY Bounds DEF Init, Answers, Indicating, Gathered, IndicationsWhole, Empty, Silent,
                Channels, Txs
<1>4. QED
  BY <1>1, <1>2, <1>3 DEF Inv

\* Nothing happens.
LEMMA InvStutter == Inv /\ UNCHANGED vars => Inv'
<1> SUFFICES ASSUME Inv, UNCHANGED vars PROVE Inv'
  OBVIOUS
<1> USE DEF vars, callerVars, deviceVars, readVars, linkVars, modemVars
<1>1. TypeOK'
  BY DEF Inv, TypeOK, CallerTypes, DeviceTypes, ReadTypes, ModemTypes
<1>2. Numbering' /\ Answering'
  BY DEF Inv, Numbering, Answering, Busy, ReaderNeverBlocks, NobodyDeaf, Deaf
<1>3. Writing' /\ Answers'
  BY DEF Inv, Writing, CommandsWhole, Answers
<1>4. Indicating'
  BY DEF Inv, Indicating, Gathered, IndicationsWhole
<1>5. QED
  BY <1>1, <1>2, <1>3, <1>4 DEF Inv

\* A transaction nobody has had is given to a caller.
LEMMA InvIssue ==
  ASSUME Inv, NEW c \in Callers, Issue(c)
  PROVE  Inv'
<1> DEFINE t == nextTx + 1
<1>0. /\ nextTx \in 0..(MaxTx - 1) /\ nextTx' = t /\ stage[c] = "idle"
      /\ tx' = [tx EXCEPT ![c] = t] /\ pending' = pending \cup {t}
      /\ call' = [call EXCEPT ![t] = "issued"]
      /\ sent' = [sent EXCEPT ![c] = 0] /\ stage' = [stage EXCEPT ![c] = "write"]
      /\ UNCHANGED <<use, box, writer, collector, queue, loop, ready, closed, link,
                     partial, carried, reply, raised, lost, odd>>
  BY Bounds DEF Issue, Inv, TypeOK, DeviceTypes, readVars, linkVars, modemVars
<1>1. CallerTypes'
  <2>1. PICK n \in IF use[c] = "command" THEN Sizes ELSE {1} : size' = [size EXCEPT ![c] = n]
    BY DEF Issue
  <2>2. QED
    BY <1>0, <2>1, Bounds DEF Inv, TypeOK, CallerTypes
<1>2. DeviceTypes'
  BY <1>0, Bounds DEF Inv, TypeOK, DeviceTypes, Txs
<1>3. ReadTypes' /\ ModemTypes'
  BY <1>0 DEF Inv, TypeOK, ReadTypes, ModemTypes
<1>4. Numbering'
  BY <1>0, Bounds DEF Inv, TypeOK, CallerTypes, DeviceTypes, Numbering, Txs, None
<1>5. Answering'
  BY <1>0, Bounds DEF Inv, TypeOK, CallerTypes, DeviceTypes, Numbering, Answering, Busy,
                      ReaderNeverBlocks, NobodyDeaf, Deaf, Txs
<1>6. Writing'
  BY <1>0, Bounds DEF Issue, Inv, TypeOK, CallerTypes, DeviceTypes, Numbering, Writing,
                      CommandsWhole, Txs
<1>7. Answers'
  BY <1>0 DEF Inv, Answers
<1>8. Indicating'
  BY <1>0, Bounds DEF Inv, TypeOK, CallerTypes, Indicating, Gathered, IndicationsWhole, None
<1>9. QED
  BY <1>1, <1>2, <1>3, <1>4, <1>5, <1>6, <1>7, <1>8 DEF Inv, TypeOK

\* A caller that comes back leaves nothing of its transaction with the read loop.
LEMMA InvReturn ==
  ASSUME Inv, NEW c \in Callers, Busy(c),
         NEW outcome \in {"answer", "error", "timeout"}, Return(c, outcome),
         pending' = pending \ {tx[c]}, writer' = writer \ {c},
         UNCHANGED <<nextTx, box, collector, queue, loop, closed, link, partial, carried,
                     reply, raised, lost, odd>>
  PROVE  Inv'
<1>1. /\ call' = [call EXCEPT ![tx[c]] = outcome]
      /\ size' = [size EXCEPT ![c] = 1] /\ sent' = [sent EXCEPT ![c] = 0] /\ tx' = tx
      /\ ready' = (ready \/ (use[c] = "open" /\ outcome = "answer"))
  BY DEF Return
<1>2. PICK s \in {"idle", "done", "failed"} : stage' = [stage EXCEPT ![c] = s]
  BY DEF Return
<1>3. /\ use' \in [Callers -> {"config", "open", "command"}]
      /\ \A d \in Callers : use'[d] = "open" => d = Opener
      /\ use[c] = "open" => use' = use
      /\ use[c] = "open" /\ outcome = "answer" => stage'[c] = "done"
  <2>1. CASE c = Opener /\ outcome = "answer" /\ use[c] = "config"
    BY <2>1 DEF Return, Inv, TypeOK, CallerTypes, Indicating
  <2>2. CASE ~(c = Opener /\ outcome = "answer" /\ use[c] = "config")
    <3>1. /\ stage' = [stage EXCEPT ![c] = IF outcome = "answer" THEN "done" ELSE "failed"]
          /\ use' = use
      BY <2>2 DEF Return
    <3>2. QED
      BY <3>1 DEF Inv, TypeOK, CallerTypes, Indicating
  <2>3. QED
    BY <2>1, <2>2
<1>4. tx[c] \in Txs
  BY DEF Inv, Answering
<1>5. CallerTypes'
  <2>1. /\ stage' \in [Callers -> {"idle", "write", "wait", "done", "failed"}]
        /\ tx' \in [Callers -> 0..MaxTx]
    BY <1>1, <1>2 DEF Inv, TypeOK, CallerTypes
  <2>2. size' \in [Callers -> 1..MaxFragments] /\ sent' \in [Callers -> 0..MaxFragments]
    BY <1>1, Bounds DEF Inv, TypeOK, CallerTypes
  <2>3. QED
    BY <1>3, <2>1, <2>2 DEF CallerTypes
<1>6. DeviceTypes'
  <2>1. Cardinality(writer') <= 1
    BY LoneWriter DEF Inv, TypeOK, DeviceTypes, Writing
  <2>2. QED
    BY <1>1, <2>1, <1>4 DEF Inv, TypeOK, DeviceTypes
<1>7. ReadTypes' /\ ModemTypes'
  BY DEF Inv, TypeOK, ReadTypes, ModemTypes
<1>8. Numbering'
  BY <1>1, <1>4, Bounds DEF Inv, TypeOK, DeviceTypes, CallerTypes, Numbering, Txs
<1>9. Answering'
  <2>1. \A d \in Callers : Busy(d)' => d # c /\ Busy(d) /\ tx[d] # tx[c]
    BY <1>1, <1>2, <1>4 DEF Inv, TypeOK, CallerTypes, Numbering, Busy, None, Txs
  <2>2. \A d \in Callers : Busy(d)' =>
          /\ tx'[d] \in Txs /\ call'[tx'[d]] = "issued"
          /\ tx'[d] \in pending' \/ box'[tx'[d]] # "none"
    BY <1>1, <1>4, <2>1 DEF Inv, TypeOK, DeviceTypes, Answering
  <2>3. NobodyDeaf'
    BY <1>1, <1>2, <2>1 DEF Inv, TypeOK, CallerTypes, Answering, NobodyDeaf, Deaf, Busy
  <2>4. QED
    BY <2>2, <2>3 DEF Inv, Answering, ReaderNeverBlocks
<1>10. Writing'
  BY <1>1, <1>2 DEF Inv, TypeOK, CallerTypes, Writing, CommandsWhole
<1>11. Answers'
  BY DEF Inv, Answers
<1>12. Indicating'
  <2>1. ready' => stage'[Opener] = "done" /\ tx'[Opener] # None
    <3>1. CASE ready
      BY <1>1, <1>2, <3>1, CallersAssumption DEF Inv, TypeOK, CallerTypes, Indicating, Busy
    <3>2. CASE use[c] = "open" /\ outcome = "answer"
      BY <1>1, <1>3, <1>4, <3>2 DEF Inv, Indicating, Txs, None
    <3>3. QED
      BY <1>1, <3>1, <3>2
  <2>2. (reply[0].total # 0 => ready)'
    BY <1>1 DEF Inv, Indicating
  <2>3. QED
    BY <1>3, <2>1, <2>2 DEF Inv, Indicating, Gathered, IndicationsWhole
<1>13. QED
  BY <1>5, <1>6, <1>7, <1>8, <1>9, <1>10, <1>11, <1>12 DEF Inv, TypeOK

\* A write fails, an answer is taken, or the time is up.
LEMMA InvWriteFails ==
  ASSUME Inv, NEW c \in Callers, WriteFails(c)
  PROVE  Inv'
<1>1. Busy(c) /\ writer' = writer \ {c}
  BY DEF WriteFails, CanWrite, Busy
<1>2. QED
  BY <1>1, InvReturn DEF WriteFails, readVars, modemVars

\* A caller that takes its outcome ends its transaction.
LEMMA InvTake ==
  ASSUME Inv, NEW c \in Callers, Take(c)
  PROVE  Inv'
<1>1. Busy(c) /\ tx[c] \in Txs /\ box[tx[c]] \in {"answer", "error"}
  BY DEF Take, Busy, Inv, TypeOK, DeviceTypes, Answering
<1>2. writer' = writer \ {c} /\ pending' = pending \ {tx[c]}
  BY <1>1 DEF Take, Inv, Answering, Writing
<1>3. QED
  BY <1>1, <1>2, InvReturn DEF Take, readVars, modemVars

\* A caller whose deadline passes ends its transaction and lets the writer go.
LEMMA InvTimeout ==
  ASSUME Inv, NEW c \in Callers, Timeout(c)
  PROVE  Inv'
<1>1. Busy(c) /\ writer' = writer \ {c}
  BY DEF Timeout, Busy, Inv, Writing
<1>2. QED
  BY <1>1, InvReturn DEF Timeout, readVars, modemVars

\* What the modem makes of a fragment: with the last one of a command that it has heard in
\* full it carries it out, and as long as the link is up it has heard all of them.
LEMMA Heard ==
  ASSUME Inv, NEW c \in Callers, Write(c)
  PROVE  /\ stage[c] = "write" /\ writer \subseteq {c} /\ tx[c] \in Txs \ carried
         /\ sent[c] \in 0..(size[c] - 1)
         /\ \/ /\ LastFragment(c) /\ partial' = Nothing
               /\ carried' = carried \cup {tx[c]}
               /\ \E k \in 1..MaxFragments, bad \in BOOLEAN :
                    reply' = [reply EXCEPT ![tx[c]] =
                                [next |-> 0, total |-> k, from |-> tx[c], bad |-> bad]]
               /\ odd' \in Nat /\ lost + odd' <= MaxFaults
            \/ /\ UNCHANGED <<carried, reply, odd>>
               /\ partial' \in [tx : 0..MaxTx, next : 0..MaxFragments]
               /\ link = "up" => /\ ~LastFragment(c)
                                 /\ partial' = [tx |-> tx[c], next |-> sent[c] + 1]
<1> DEFINE t == tx[c]
           n == sent[c]
           answers == IF use[c] = "command" THEN 1..MaxFragments ELSE {1}
<1>1. /\ stage[c] = "write" /\ writer \subseteq {c} /\ t \in Txs \ carried
      /\ n \in 0..(size[c] - 1) /\ size[c] \in 1..MaxFragments
      /\ n # 0 /\ link = "up" => partial = [tx |-> t, next |-> n]
  BY DEF Write, CanWrite, Inv, TypeOK, CallerTypes, Answering, Busy, Writing
<1>2. /\ Assembled(t, n) \in {[tx |-> t, next |-> n + 1], Nothing}
      /\ link = "up" => Assembled(t, n) = [tx |-> t, next |-> n + 1]
  BY <1>1 DEF Assembled
<1>3. /\ [tx |-> t, next |-> n + 1] \in [tx : 0..MaxTx, next : 0..MaxFragments]
      /\ Nothing \in [tx : 0..MaxTx, next : 0..MaxFragments]
  BY <1>1, Bounds DEF Nothing, None, Txs
<1>4. CASE Hear(t, n, size[c], answers)
  <2>1. CASE Assembled(t, n) = [tx |-> t, next |-> size[c]]
    <3>1. size[c] = n + 1
      <4>1. Nothing # [tx |-> t, next |-> size[c]]
        BY <1>1 DEF Nothing, None, Txs
      <4>2. [tx |-> t, next |-> n + 1] = [tx |-> t, next |-> size[c]]
        BY <1>2, <2>1, <4>1
      <4>3. QED
        BY <4>2
    <3>2. /\ partial' = Nothing /\ carried' = carried \cup {t}
          /\ \E k \in answers, bad \in BOOLEAN :
               /\ bad => Faulty
               /\ odd' = IF bad THEN odd + 1 ELSE odd
               /\ reply' = [reply EXCEPT ![t] =
                              [next |-> 0, total |-> k, from |-> t, bad |-> bad]]
      BY <1>4, <2>1 DEF Hear
    <3>3. odd' \in Nat /\ lost + odd' <= MaxFaults
      BY <3>2, Bounds DEF Faulty, Inv, TypeOK, ModemTypes
    <3>4. answers \subseteq 1..MaxFragments
      BY Bounds
    <3>5. QED
      BY <1>1, <3>1, <3>2, <3>3, <3>4 DEF LastFragment
  <2>2. CASE Assembled(t, n) # [tx |-> t, next |-> size[c]]
    <3>1. partial' = Assembled(t, n) /\ UNCHANGED <<carried, reply, odd>>
      BY <1>4, <2>2 DEF Hear
    <3>2. link = "up" => n + 1 # size[c]
      BY <1>2, <2>2
    <3>3. QED
      BY <1>1, <1>2, <1>3, <3>1, <3>2 DEF LastFragment
  <2>3. QED
    BY <2>1, <2>2
<1>5. CASE link = "dead" /\ UNCHANGED <<partial, carried, reply, odd>>
  BY <1>1, <1>5 DEF Inv, TypeOK, ModemTypes
<1>6. QED
  BY <1>4, <1>5 DEF Write

\* A fragment is written: the lock is kept until the last one.
LEMMA InvWrite ==
  ASSUME Inv, NEW c \in Callers, Write(c)
  PROVE  Inv'
<1> DEFINE t == tx[c]
           Carries == /\ LastFragment(c) /\ partial' = Nothing
                      /\ carried' = carried \cup {t}
                      /\ \E k \in 1..MaxFragments, bad \in BOOLEAN :
                           reply' = [reply EXCEPT ![t] =
                                       [next |-> 0, total |-> k, from |-> t, bad |-> bad]]
                      /\ odd' \in Nat /\ lost + odd' <= MaxFaults
           Receives == /\ UNCHANGED <<carried, reply, odd>>
                       /\ partial' \in [tx : 0..MaxTx, next : 0..MaxFragments]
                       /\ link = "up" => /\ ~LastFragment(c)
                                         /\ partial' = [tx |-> t, next |-> sent[c] + 1]
<1>1. /\ stage[c] = "write" /\ writer \subseteq {c} /\ t \in Txs \ carried
      /\ sent[c] \in 0..(size[c] - 1)
  BY Heard
<1>2. Carries \/ Receives
  BY Heard
<1>3. /\ sent' = [sent EXCEPT ![c] = @ + 1]
      /\ IF LastFragment(c)
           THEN stage' = [stage EXCEPT ![c] = "wait"] /\ writer' = {}
           ELSE stage' = stage /\ writer' = {c}
      /\ UNCHANGED <<tx, size, use, nextTx, pending, box, call, collector, queue, loop, ready,
                     closed, link, raised, lost>>
  BY DEF Write, HoldWriter, readVars, linkVars
<1>4. carried' \in {carried, carried \cup {t}}
  BY <1>2
<1>5. CallerTypes'
  BY <1>1, <1>3, Bounds DEF Inv, TypeOK, CallerTypes
<1>6. DeviceTypes'
  <2>1. Cardinality(writer') <= 1
    BY <1>3, LoneWriter
  <2>2. writer' \subseteq Callers
    BY <1>3
  <2>3. QED
    BY <1>3, <2>1, <2>2 DEF Inv, TypeOK, DeviceTypes
<1>7. ReadTypes'
  BY <1>3 DEF Inv, TypeOK, ReadTypes
<1>8. ModemTypes'
  <2>1. CASE Carries
    <3>1. PICK k \in 1..MaxFragments, bad \in BOOLEAN :
            reply' = [reply EXCEPT ![t] = [next |-> 0, total |-> k, from |-> t, bad |-> bad]]
      BY <2>1
    <3>2. [next |-> 0, total |-> k, from |-> t, bad |-> bad] \in
            [next : 0..MaxFragments, total : 0..MaxFragments, from : Sources, bad : BOOLEAN]
      BY <1>1, Bounds DEF Sources, Txs
    <3>3. reply' \in [Channels -> [next : 0..MaxFragments, total : 0..MaxFragments,
                                   from : Sources, bad : BOOLEAN]]
      BY <3>1, <3>2 DEF Inv, TypeOK, ModemTypes
    <3>4. partial' \in [tx : 0..MaxTx, next : 0..MaxFragments]
      BY <2>1, Bounds DEF Nothing, None
    <3>5. QED
      BY <1>1, <1>3, <2>1, <3>3, <3>4 DEF Inv, TypeOK, ModemTypes
  <2>2. CASE Receives
    BY <1>3, <2>2 DEF Inv, TypeOK, ModemTypes
  <2>3. QED
    BY <1>2, <2>1, <2>2
<1>9. Numbering'
  BY <1>1, <1>3, <1>4 DEF Inv, Numbering, Answering, Busy
<1>10. Answering'
  <2>1. \A d \in Callers : Busy(d)' => Busy(d)
    BY <1>1, <1>3 DEF Inv, TypeOK, CallerTypes, Busy
  <2>2. NobodyDeaf'
    <3>1. tx[c] \in pending \/ box[tx[c]] # "none"
      BY <1>1 DEF Inv, Answering, Busy
    <3>2. loop # "ended"
      BY DEF Write, Inv, Answering
    <3>3. QED
      BY <1>3, <3>1, <3>2 DEF Inv, TypeOK, CallerTypes, Answering, NobodyDeaf, Deaf
  <2>3. QED
    BY <1>3, <1>4, <2>1, <2>2 DEF Inv, Answering, ReaderNeverBlocks
<1>11. Writing'
  <2>1. \A d \in Callers \ {c} : stage'[d] = stage[d] /\ sent'[d] = sent[d] /\ tx[d] # t
    BY <1>1, <1>3 DEF Inv, TypeOK, CallerTypes, Numbering, Txs, None
  <2>2. \A d \in Callers \ {c} : stage[d] = "write" => sent[d] = 0
    BY <1>1 DEF Inv, Writing
  <2>3. sent'[c] = sent[c] + 1
    BY <1>3 DEF Inv, TypeOK, CallerTypes
  <2>4. CASE LastFragment(c)
    <3>1. stage'[c] = "wait" /\ writer' = {} /\ (link = "up" => t \in carried')
      BY <1>2, <1>3, <2>4 DEF Inv, TypeOK, CallerTypes
    <3>2. QED
      BY <1>3, <1>4, <2>1, <2>2, <3>1 DEF Inv, Writing, CommandsWhole
  <2>5. CASE ~LastFragment(c)
    <3>1. /\ stage'[c] = "write" /\ writer' = {c} /\ carried' = carried
          /\ link = "up" => partial' = [tx |-> t, next |-> sent[c] + 1]
      BY <1>1, <1>2, <1>3, <2>5
    <3>2. sent'[c] < size[c] /\ sent'[c] # 0
      BY <1>1, <2>3, <2>5 DEF LastFragment, Inv, TypeOK, CallerTypes
    <3>3. QED
      BY <1>1, <1>3, <2>1, <2>2, <2>3, <3>1, <3>2 DEF Inv, Writing, CommandsWhole
  <2>6. QED
    BY <2>4, <2>5
<1>12. Answers' /\ reply'[0] = reply[0]
  <2>1. CASE Carries
    <3>1. PICK k \in 1..MaxFragments, bad \in BOOLEAN :
            reply' = [reply EXCEPT ![t] = [next |-> 0, total |-> k, from |-> t, bad |-> bad]]
      BY <2>1
    <3>2. reply[t].total = 0 /\ collector[t].next = 0
      <4>1. t \in Channels /\ collector[t].next \in 0..MaxFragments
        BY <1>1 DEF Inv, TypeOK, ReadTypes, Pieces, Txs, Channels
      <4>2. reply[t].total = 0
        BY <1>1 DEF Inv, Answers
      <4>3. collector[t].next # 0 => collector[t].next < reply[t].total
        BY <1>1, <4>1 DEF Inv, Answers
      <4>4. QED
        BY <4>1, <4>2, <4>3
    <3>3. /\ reply'[t] = [next |-> 0, total |-> k, from |-> t, bad |-> bad]
          /\ \A u \in Channels : u # t => reply'[u] = reply[u]
      BY <1>1, <3>1 DEF Inv, TypeOK, ModemTypes, Txs, Channels
    <3>4. Answers'
      <4>1. \A u \in Channels :
              /\ reply'[u].next <= reply'[u].total
              /\ collector[u].next # 0 => collector[u].next < collector[u].total
        BY <3>3 DEF Inv, Answers
      <4>2. \A u \in Txs : u = t \/ (u \in Channels /\ reply'[u] = reply[u])
        BY <3>3 DEF Txs, Channels
      <4>3. \A u \in Txs : reply'[u].total # 0 => u \in carried' /\ reply'[u].from = u
        BY <2>1, <3>3, <4>2 DEF Inv, Answers
      <4>4. \A u \in Txs : collector[u].next # 0 =>
              /\ collector[u].total = reply'[u].total
              /\ collector[u].parts = {u} \X (0..(collector[u].next - 1))
        BY <3>2, <4>2 DEF Inv, Answers
      <4>5. QED
        BY <1>3, <4>1, <4>3, <4>4 DEF Answers
    <3>5. QED
      BY <1>1, <3>3, <3>4, Bounds DEF Txs, Channels
  <2>2. CASE Receives
    BY <1>3, <2>2 DEF Inv, Answers
  <2>3. QED
    BY <1>2, <2>1, <2>2
<1>13. Indicating'
  <2>1. ready' => stage'[Opener] = "done" /\ tx'[Opener] # None
    BY <1>1, <1>3, CallersAssumption DEF Inv, TypeOK, CallerTypes, Indicating
  <2>2. QED
    BY <1>3, <1>12, <2>1 DEF Inv, Indicating, Gathered, IndicationsWhole
<1>14. QED
  BY <1>5, <1>6, <1>7, <1>8, <1>9, <1>10, <1>11, <1>12, <1>13 DEF Inv, TypeOK

-----------------------------------------------------------------------------
(* What the read loop does with a fragment.                                *)

\* What a fragment is: one of those of the message on channel t.
Fragment(t, n) == [tx |-> t, n |-> n, total |-> reply[t].total, from |-> reply[t].from,
                   bad |-> reply[t].bad]

\* A collector takes a fragment or refuses it; it never holds more than it was told.
LEMMA Added ==
  ASSUME Inv, NEW t \in Channels, NEW n \in 0..(reply[t].total - 1),
         NEW c \in Pieces, c.next # 0 => c.next < c.total
  PROVE  LET d == Add(c, Fragment(t, n))
         IN  d \in Pieces /\ (d = c \/ d.next \in 1..d.total)
<1> DEFINE m == Fragment(t, n)
<1>1. /\ reply[t] \in [next : 0..MaxFragments, total : 0..MaxFragments,
                       from : Sources, bad : BOOLEAN]
  BY DEF Inv, TypeOK, ModemTypes
<1>2. /\ m.n = n /\ m.n \in 0..MaxFragments /\ m.total = reply[t].total
      /\ m.total \in 1..MaxFragments /\ m.from \in Sources /\ m.bad \in BOOLEAN
  BY <1>1, Bounds DEF Fragment
<1> HIDE DEF m
<1>3. CASE Add(c, m) = c
  BY <1>3 DEF m
<1>4. CASE Add(c, m) = [next |-> 1, total |-> m.total, parts |-> {<<m.from, m.n>>}, bad |-> m.bad]
  BY <1>2, <1>4, Bounds DEF Pieces, m
<1>5. CASE c.next # 0 /\ Add(c, m) = [c EXCEPT !.next = @ + 1, !.parts = @ \cup {<<m.from, m.n>>}]
  <2>1. /\ c.next \in 0..MaxFragments /\ c.total \in 0..MaxFragments /\ c.bad \in BOOLEAN
        /\ c.parts \in SUBSET (Sources \X (0..MaxFragments))
        /\ c = [next |-> c.next, total |-> c.total, parts |-> c.parts, bad |-> c.bad]
    BY DEF Pieces
  <2>2. c.next + 1 \in 1..c.total /\ c.next + 1 \in 0..MaxFragments
    BY <1>5, <2>1, Bounds
  <2>3. c.parts \cup {<<m.from, m.n>>} \in SUBSET (Sources \X (0..MaxFragments))
    BY <1>2, <2>1
  <2>4. Add(c, m) = [next |-> c.next + 1, total |-> c.total,
                     parts |-> c.parts \cup {<<m.from, m.n>>}, bad |-> c.bad]
    BY <1>5, <2>1
  <2>5. QED
    BY <2>1, <2>2, <2>3, <2>4 DEF Pieces, m
<1>6. QED
  BY <1>3, <1>4, <1>5 DEF Add

\* A collector that holds a prefix of a message holds a longer one when it takes the next
\* fragment, and takes no other.
Prefix(c, t) == c.total = reply[t].total /\ c.parts = {reply[t].from} \X (0..(c.next - 1))

\* A collector grows by the fragment that comes next, and ignores any other.
LEMMA AddedToPrefix ==
  ASSUME Inv, NEW t \in Channels, NEW n \in 0..(reply[t].total - 1),
         NEW c \in Pieces, c.next # 0 => Prefix(c, t)
  PROVE  LET d == Add(c, Fragment(t, n))
         IN  IF n = c.next THEN d.next = n + 1 /\ Prefix(d, t) ELSE d = c
<1> DEFINE m == Fragment(t, n)
<1>1. m.n = n /\ m.total = reply[t].total /\ m.from = reply[t].from
  BY DEF Fragment
<1> HIDE DEF m
<1>2. c.next \in Nat
  BY Bounds DEF Pieces
<1>3. CASE n # c.next
  BY <1>1, <1>3 DEF Add, m
<1>4. CASE n = c.next /\ c.next = 0
  <2>1. Add(c, m) = [next |-> 1, total |-> m.total, parts |-> {<<m.from, m.n>>}, bad |-> m.bad]
    BY <1>1, <1>4 DEF Add
  <2>2. {<<m.from, m.n>>} = {reply[t].from} \X (0..0)
    BY <1>1, <1>4
  <2>3. QED
    BY <1>1, <1>4, <2>1, <2>2 DEF Prefix, m
<1>5. CASE n = c.next /\ c.next # 0
  <2>1. c = [next |-> c.next, total |-> c.total, parts |-> c.parts, bad |-> c.bad]
    BY DEF Pieces
  <2>2. Add(c, m) = [next |-> c.next + 1, total |-> c.total,
                     parts |-> c.parts \cup {<<m.from, m.n>>}, bad |-> c.bad]
    BY <1>1, <1>5, <2>1 DEF Add
  <2>3. c.parts \cup {<<m.from, m.n>>} = {reply[t].from} \X (0..n)
    BY <1>1, <1>2, <1>5 DEF Prefix
  <2>4. QED
    BY <1>2, <1>5, <2>2, <2>3 DEF Prefix, m
<1>6. QED
  BY <1>3, <1>4, <1>5

\* The read loop hands a transaction its outcome once.
Handed(t, outcome) ==
  /\ t \in pending /\ t \in Txs
  /\ box' = [box EXCEPT ![t] = outcome] /\ pending' = pending \ {t} /\ loop' = loop

\* A delivery finds the transaction pending or does nothing.
LEMMA Delivered ==
  ASSUME Inv, NEW t, NEW outcome, Deliver(t, outcome)
  PROVE  UNCHANGED <<box, pending, loop>> \/ Handed(t, outcome)
BY DEF Deliver, Handed, Inv, TypeOK, DeviceTypes, Answering

\* What a fragment of a message does to the device.
LEMMA ReadKeeps ==
  ASSUME Inv, NEW t \in Channels, NEW n \in 0..(reply[t].total - 1), Read(Fragment(t, n))
  PROVE  /\ \/ UNCHANGED <<box, pending, loop>>
            \/ t \in carried /\ \E outcome \in {"answer", "error"} : Handed(t, outcome)
         /\ collector' \in [Channels -> Pieces]
         /\ queue' \in Seq([from : Sources, whole : BOOLEAN]) /\ Len(queue') <= Capacity
         /\ \A u \in Channels : collector'[u].next # 0 => collector'[u].next < collector'[u].total
         /\ \A u \in Txs : collector'[u].next # 0 =>
              /\ collector'[u].total = reply[u].total
              /\ collector'[u].parts = {u} \X (0..(collector'[u].next - 1))
         /\ t # 0 => queue' = queue /\ collector'[0] = collector[0]
<1> DEFINE m == Fragment(t, n)
           d == Add(collector[t], m)
<1>1. /\ m.tx = t /\ m.total = reply[t].total /\ m.from = reply[t].from
  BY DEF Fragment
<1>2. /\ reply[t] \in [next : 0..MaxFragments, total : 0..MaxFragments,
                       from : Sources, bad : BOOLEAN]
      /\ collector[t] \in Pieces /\ 0 \in Channels
  BY Bounds DEF Inv, TypeOK, ModemTypes, ReadTypes, Channels
<1>3. t \in Txs => t \in carried /\ reply[t].from = t
  BY <1>2 DEF Inv, Answers
<1>4. t \in pending => t \in Txs /\ t \in carried
  BY <1>3 DEF Inv, TypeOK, DeviceTypes
<1> HIDE DEF m
<1>5. CASE ReadOpenDone(m)
  <2>1. /\ \/ UNCHANGED <<box, pending, loop>>
           \/ t \in carried /\ \E outcome \in {"answer", "error"} : Handed(t, outcome)
        /\ UNCHANGED <<collector, queue>>
    <3>1. PICK outcome \in {"answer", "error"} : Deliver(t, outcome)
      BY <1>1, <1>5 DEF ReadOpenDone
    <3>2. QED
      BY <1>4, <1>5, <3>1, Delivered DEF ReadOpenDone, Handed
  <2>2. QED
    BY <2>1 DEF Inv, TypeOK, ReadTypes, Answers
<1>6. CASE ReadFragment(m)
  <2>1. d \in Pieces /\ (d = collector[t] \/ d.next \in 1..d.total)
    <3>1. collector[t].next # 0 => collector[t].next < collector[t].total
      BY DEF Inv, Answers
    <3>2. LET f == Add(collector[t], Fragment(t, n))
          IN  f \in Pieces /\ (f = collector[t] \/ f.next \in 1..f.total)
      BY <1>2, <3>1, Added
    <3>3. QED
      BY <3>2 DEF m
  <2>2. t \in Txs /\ d.next # 0 => Prefix(d, t)
    <3>1. t \in Txs /\ collector[t].next # 0 => Prefix(collector[t], t)
      BY <1>2, <1>3 DEF Inv, Answers, Prefix
    <3>2. QED
      <4>1. ASSUME t \in Txs PROVE LET f == Add(collector[t], Fragment(t, n))
            IN  IF n = collector[t].next THEN f.next = n + 1 /\ Prefix(f, t) ELSE f = collector[t]
        BY <1>2, <3>1, <4>1, AddedToPrefix
      <4>2. QED
        BY <3>1, <4>1 DEF m
  <2>3. Empty \in Pieces /\ Empty.next = 0
    BY Bounds DEF Empty, Pieces
  <2>4. PICK e \in {d, Empty} : /\ collector' = [collector EXCEPT ![t] = e]
                                /\ e.next # 0 => e.next < e.total
    <3>1. CASE Refused(collector[t], m)
      <4>1. d = collector[t] /\ collector' = [collector EXCEPT ![t] = d]
        BY <1>1, <1>6, <3>1 DEF ReadFragment, CollectorOf, Refused
      <4>2. QED
        BY <4>1 DEF Inv, Answers
    <3>2. CASE ~Refused(collector[t], m) /\ ~Complete(d)
      <4>1. collector' = [collector EXCEPT ![t] = d]
        BY <1>1, <1>6, <3>2 DEF ReadFragment, CollectorOf
      <4>2. d.next < d.total
        BY <2>1, <3>2, Bounds DEF Complete, Pieces
      <4>3. QED
        BY <4>1, <4>2
    <3>3. CASE ~Refused(collector[t], m) /\ Complete(d)
      BY <1>1, <1>6, <2>3, <3>3 DEF ReadFragment, CollectorOf
    <3>4. QED
      BY <3>1, <3>2, <3>3
  <2>5. e \in Pieces /\ (t \in Txs /\ e.next # 0 => Prefix(e, t))
    <3>1. CASE e = d
      BY <2>1, <2>2, <3>1
    <3>2. CASE e = Empty
      BY <2>3, <3>2
    <3>3. QED
      BY <3>1, <3>2
  <2>6. /\ collector' \in [Channels -> Pieces] /\ collector'[t] = e
        /\ \A u \in Channels : u # t => collector'[u] = collector[u]
    <3>1. collector \in [Channels -> Pieces]
      BY DEF Inv, TypeOK, ReadTypes
    <3>2. collector' = [collector EXCEPT ![t] = e] /\ e \in Pieces
      BY <2>4, <2>5
    <3>3. QED
      BY ONLY <3>1, <3>2, t \in Channels
  <2>7. \A u \in Channels : collector'[u].next # 0 => collector'[u].next < collector'[u].total
    <3>1. \A u \in Channels : collector[u].next # 0 => collector[u].next < collector[u].total
      BY DEF Inv, Answers
    <3>2. QED
      BY <2>4, <2>6, <3>1
  <2>8. \A u \in Txs : collector'[u].next # 0 =>
              /\ collector'[u].total = reply[u].total
              /\ collector'[u].parts = {u} \X (0..(collector'[u].next - 1))
    <3>1. SUFFICES ASSUME NEW u \in Txs, collector'[u].next # 0
                   PROVE  /\ collector'[u].total = reply[u].total
                          /\ collector'[u].parts = {u} \X (0..(collector'[u].next - 1))
      OBVIOUS
    <3>2. CASE u = t
      BY <1>3, <2>5, <2>6, <3>1, <3>2 DEF Prefix
    <3>3. CASE u # t
      <4>1. collector'[u] = collector[u]
        BY <2>6, <3>3 DEF Txs, Channels
      <4>2. QED
        BY <3>1, <4>1 DEF Inv, Answers
    <3>4. QED
      BY <3>2, <3>3
  <2>9. \/ UNCHANGED <<box, pending, loop>>
        \/ t \in carried /\ \E outcome \in {"answer", "error"} : Handed(t, outcome)
    <3>1. CASE Refused(collector[t], m) \/ ~Complete(d) \/ t = 0
      BY <1>1, <1>6, <3>1 DEF ReadFragment, CollectorOf
    <3>2. CASE ~Refused(collector[t], m) /\ Complete(d) /\ t # 0
      <4>1. t \in Txs
        BY <3>2 DEF Txs, Channels
      <4>2. d.next = d.total /\ d.next # 0
        BY <2>1, <3>2, Bounds DEF Complete, Refused, Pieces
      <4>3. Whole(d, t)
        BY <1>3, <2>2, <4>1, <4>2 DEF Whole, Prefix
      <4>4. PICK outcome \in {"answer", "error"} : Deliver(t, outcome)
        BY <1>1, <1>6, <3>2, <4>3 DEF ReadFragment, CollectorOf
      <4>5. QED
        BY <1>4, <4>4, Delivered DEF Handed
    <3>3. QED
      BY <3>1, <3>2
  <2>10. queue' \in Seq([from : Sources, whole : BOOLEAN]) /\ Len(queue') <= Capacity
    <3>1. queue \in Seq([from : Sources, whole : BOOLEAN]) /\ Len(queue) <= Capacity
      BY DEF Inv, TypeOK, ReadTypes
    <3>2. CASE queue' = queue
      BY <3>1, <3>2
    <3>3. CASE Offer([from |-> m.from, whole |-> Whole(d, m.from)])
      <4>1. [from |-> m.from, whole |-> Whole(d, m.from)] \in [from : Sources, whole : BOOLEAN]
        BY <1>1, <1>2 DEF Whole
      <4>2. CASE Len(queue) < Capacity
        <5>1. queue' = Append(queue, [from |-> m.from, whole |-> Whole(d, m.from)])
          BY <3>3, <4>2 DEF Offer
        <5>2. QED
          BY <3>1, <4>1, <4>2, <5>1, Bounds
      <4>3. CASE ~(Len(queue) < Capacity)
        BY <3>1, <3>3, <4>3 DEF Offer
      <4>4. QED
        BY <4>2, <4>3
    <3>4. QED
      BY <1>1, <1>6, <3>2, <3>3 DEF ReadFragment, CollectorOf
  <2>11. t # 0 => queue' = queue /\ collector'[0] = collector[0]
    BY <1>1, <1>2, <1>6, <2>6 DEF ReadFragment, CollectorOf
  <2>12. QED
    BY <2>6, <2>7, <2>8, <2>9, <2>10, <2>11
<1>7. QED
  BY <1>5, <1>6 DEF Read, m

\* An indication is collected as it is sent, and given to the monitor whole.
LEMMA ReadIndication ==
  ASSUME Inv, lost = 0, loop = "running", Sending(0), Read(Fragment(0, reply[0].next))
  PROVE  /\ IndicationsWhole'
         /\ \/ collector'[0].next = 0 /\ reply[0].next + 1 = reply[0].total
            \/ collector'[0].next = reply[0].next + 1 /\ Prefix(collector'[0], 0)
<1> DEFINE n == reply[0].next
           m == Fragment(0, n)
           c == collector[0]
           d == Add(c, m)
<1>1. /\ reply[0] \in [next : 0..MaxFragments, total : 0..MaxFragments,
                       from : Sources, bad : BOOLEAN]
      /\ collector \in [Channels -> Pieces] /\ 0 \in Channels /\ c \in Pieces
  BY Bounds DEF Inv, TypeOK, ModemTypes, ReadTypes, Channels
<1>2. n \in 0..(reply[0].total - 1) /\ reply[0].total # 0
  BY <1>1, Bounds DEF Sending
<1>3. m.tx = 0 /\ m.from = reply[0].from
  BY DEF Fragment
<1>4. n = c.next /\ (c.next # 0 => Prefix(c, 0))
  BY <1>1, <1>2, Bounds DEF Inv, Indicating, Gathered, Prefix
<1>5. d.next = n + 1 /\ Prefix(d, 0)
  <2>1. LET f == Add(c, Fragment(0, n))
        IN  IF n = c.next THEN f.next = n + 1 /\ Prefix(f, 0) ELSE f = c
    BY <1>1, <1>2, <1>4, AddedToPrefix
  <2>2. QED
    BY <1>4, <2>1
<1>6. ~Refused(c, m)
  BY <1>2, <1>4, <1>5 DEF Refused
<1>7. ~IsOpenDone(0)
  BY <1>2 DEF IsOpenDone, Inv, Indicating, None
<1> HIDE DEF m
<1>8. ReadFragment(m)
  BY <1>3, <1>7 DEF Read, m
<1>9. CASE Complete(d)
  <2>1. d.next = d.total /\ d.total = reply[0].total
    BY <1>1, <1>2, <1>5, <1>9 DEF Complete, Prefix
  <2>2. Whole(d, m.from)
    BY <1>3, <1>5, <2>1 DEF Whole, Prefix
  <2>3. collector' = [collector EXCEPT ![0] = Empty]
    BY <1>3, <1>6, <1>8, <1>9 DEF ReadFragment, CollectorOf
  <2>4. collector'[0].next = 0 /\ n + 1 = reply[0].total
    BY <1>1, <1>5, <2>1, <2>3 DEF Empty
  <2>5. queue' \in {queue, Append(queue, [from |-> m.from, whole |-> TRUE])}
    <3>1. Whole(d, m.from) = TRUE
      BY <2>2 DEF Whole
    <3>2. queue' = queue \/ Offer([from |-> m.from, whole |-> Whole(d, m.from)])
      BY <1>3, <1>6, <1>8, <1>9 DEF ReadFragment, CollectorOf
    <3>3. QED
      BY <3>1, <3>2 DEF Offer
  <2>6. IndicationsWhole'
    <3>1. queue \in Seq([from : Sources, whole : BOOLEAN]) /\ \A i \in 1..Len(queue) : queue[i].whole
      BY DEF Inv, TypeOK, ReadTypes, Indicating, IndicationsWhole
    <3>2. \A i \in 1..Len(queue') : queue'[i].whole
      BY <2>5, <3>1
    <3>3. QED
      BY <3>2 DEF IndicationsWhole
  <2>7. QED
    BY <2>4, <2>6
<1>10. CASE ~Complete(d)
  <2>1. collector' = [collector EXCEPT ![0] = d] /\ queue' = queue
    BY <1>3, <1>8, <1>10 DEF ReadFragment, CollectorOf
  <2>2. collector'[0].next = n + 1 /\ Prefix(collector'[0], 0)
    BY <1>1, <1>5, <2>1
  <2>3. \A i \in 1..Len(queue') : queue'[i].whole
    BY <2>1 DEF Inv, Indicating, IndicationsWhole
  <2>4. QED
    BY <2>2, <2>3 DEF IndicationsWhole
<1>11. QED
  BY <1>9, <1>10

\* A transaction that is handed its outcome stays known to its caller.
LEMMA InvHanded ==
  ASSUME Inv, NEW t \in carried, NEW outcome \in {"answer", "error"}, Handed(t, outcome),
         UNCHANGED <<stage, tx, nextTx, call, writer, closed, ready, link, carried>>
  PROVE  DeviceTypes' /\ Numbering' /\ Answering'
<1>1. /\ t \in pending /\ t \in Txs
      /\ box' = [box EXCEPT ![t] = outcome] /\ pending' = pending \ {t} /\ loop' = loop
  BY DEF Handed
<1>2. DeviceTypes'
  BY <1>1 DEF Inv, TypeOK, DeviceTypes
<1>3. /\ box'[t] = outcome /\ outcome # "none" /\ outcome # "garbled"
      /\ \A u \in Txs : u # t => box'[u] = box[u]
  BY <1>1 DEF Inv, TypeOK, DeviceTypes
<1>4. Numbering'
  BY <1>1, <1>3 DEF Inv, Numbering
<1>5. \A c \in Callers : Busy(c)' =>
        /\ tx'[c] \in Txs /\ call'[tx'[c]] = "issued"
        /\ tx'[c] \in pending' \/ box'[tx'[c]] # "none"
  BY <1>1, <1>3 DEF Inv, Answering, Busy
<1>6. NobodyDeaf'
  <2>1. \A c \in Callers : stage[c] = "wait" => tx[c] \in Txs
    BY DEF Inv, Answering, Busy
  <2>2. QED
    BY <1>1, <1>3, <2>1 DEF Inv, Answering, NobodyDeaf, Deaf
<1>7. (\A u \in pending : box[u] = "none")'
  BY <1>1, <1>3 DEF Inv, TypeOK, DeviceTypes, Answering
<1>8. (\A u \in Txs : box[u] # "garbled" /\ (box[u] = "answer" => u \in carried))'
  BY <1>1, <1>3 DEF Inv, Answering
<1>9. QED
  BY <1>1, <1>2, <1>4, <1>5, <1>6, <1>7, <1>8 DEF Inv, Answering, ReaderNeverBlocks

\* What touches neither callers nor answers keeps the three parts about them.
LEMMA InvNotHanded ==
  ASSUME Inv,
         UNCHANGED <<stage, tx, nextTx, call, writer, closed, ready, link, carried,
                     box, pending, loop>>
  PROVE  DeviceTypes' /\ Numbering' /\ Answering'
BY DEF Inv, TypeOK, DeviceTypes, Numbering, Answering, Busy, ReaderNeverBlocks, NobodyDeaf,
       Deaf

\* A message of the modem is read or lost.
LEMMA InvSend ==
  ASSUME Inv, NEW t \in Channels, Send(t)
  PROVE  Inv'
<1> DEFINE n == reply[t].next
<1>1. /\ reply[t] \in [next : 0..MaxFragments, total : 0..MaxFragments,
                       from : Sources, bad : BOOLEAN]
      /\ n \in 0..(reply[t].total - 1) /\ Sending(t) /\ loop = "running"
  BY Bounds DEF Send, Sending, Inv, TypeOK, ModemTypes
<1>2. /\ reply' = [reply EXCEPT ![t].next = @ + 1]
      /\ UNCHANGED <<stage, tx, size, sent, use, nextTx, call, writer, ready, closed, link,
                     partial, carried, raised, odd>>
  BY DEF Send, callerVars, linkVars
<1>3. /\ reply' \in [Channels -> [next : 0..MaxFragments, total : 0..MaxFragments,
                                  from : Sources, bad : BOOLEAN]]
      /\ reply'[t].next = n + 1 /\ n + 1 <= reply[t].total
      /\ reply'[t].total = reply[t].total /\ reply'[t].from = reply[t].from
      /\ \A u \in Channels : u # t => reply'[u] = reply[u]
  <2>1. /\ reply \in [Channels -> [next : 0..MaxFragments, total : 0..MaxFragments,
                                   from : Sources, bad : BOOLEAN]]
        /\ n + 1 \in 0..MaxFragments /\ n + 1 <= reply[t].total
    BY <1>1, Bounds DEF Inv, TypeOK, ModemTypes
  <2>2. [reply[t] EXCEPT !.next = n + 1] \in
          [next : 0..MaxFragments, total : 0..MaxFragments, from : Sources, bad : BOOLEAN]
    BY <1>1, <2>1
  <2>3. reply' = [reply EXCEPT ![t] = [reply[t] EXCEPT !.next = n + 1]]
    BY <1>2, <2>1
  <2>4. QED
    BY <1>1, <2>1, <2>2, <2>3
<1> DEFINE Reads == Read(Fragment(t, n)) /\ lost' = lost
           Loses == /\ lost' = lost + 1 /\ lost + odd < MaxFaults
                    /\ UNCHANGED <<box, pending, loop, collector, queue>>
<1>4. Reads \/ Loses
  BY DEF Send, Message, Fragment, Faulty
<1>5. CallerTypes'
  BY <1>2 DEF Inv, TypeOK, CallerTypes
<1>6. ModemTypes'
  BY <1>2, <1>3, <1>4, Bounds DEF Inv, TypeOK, ModemTypes
<1>7. Writing'
  BY <1>2 DEF Inv, Writing, CommandsWhole
<1>8. CASE Reads
  <2>1. /\ \/ UNCHANGED <<box, pending, loop>>
           \/ t \in carried /\ \E outcome \in {"answer", "error"} : Handed(t, outcome)
        /\ collector' \in [Channels -> Pieces]
        /\ queue' \in Seq([from : Sources, whole : BOOLEAN]) /\ Len(queue') <= Capacity
        /\ \A u \in Channels : collector'[u].next # 0 => collector'[u].next < collector'[u].total
        /\ \A u \in Txs : collector'[u].next # 0 =>
             /\ collector'[u].total = reply[u].total
             /\ collector'[u].parts = {u} \X (0..(collector'[u].next - 1))
        /\ t # 0 => queue' = queue /\ collector'[0] = collector[0]
    BY <1>1, <1>8, ReadKeeps
  <2>2. DeviceTypes' /\ Numbering' /\ Answering'
    BY <1>2, <2>1, InvHanded, InvNotHanded
  <2>3. loop' = "running"
    BY <1>1, <2>1 DEF Handed
  <2>4. ReadTypes'
    BY <1>2, <2>1, <2>3 DEF Inv, TypeOK, ReadTypes
  <2>5. Answers'
    <3>1. \A u \in Channels : /\ reply'[u].next <= reply'[u].total
                              /\ reply'[u].total = reply[u].total /\ reply'[u].from = reply[u].from
      BY <1>3 DEF Inv, Answers
    <3>2. \A u \in Txs : u \in Channels
      BY DEF Txs, Channels
    <3>3. \A u \in Txs : reply'[u].total # 0 => u \in carried' /\ reply'[u].from = u
      BY <1>2, <3>1, <3>2 DEF Inv, Answers
    <3>4. QED
      BY <2>1, <3>1, <3>2, <3>3 DEF Answers
  <2>6. (lost = 0 => Gathered /\ IndicationsWhole)'
    <3>1. SUFFICES ASSUME lost = 0 PROVE Gathered' /\ IndicationsWhole'
      BY <1>8
    <3>2. CASE t = 0
      <4>1. /\ IndicationsWhole'
            /\ \/ collector'[0].next = 0 /\ reply[0].next + 1 = reply[0].total
               \/ collector'[0].next = reply[0].next + 1 /\ Prefix(collector'[0], 0)
        BY <1>1, <1>8, <3>1, <3>2, ReadIndication
      <4>2. Gathered'
        BY <1>1, <1>3, <3>2, <4>1 DEF Gathered, Prefix
      <4>3. QED
        BY <4>1, <4>2
    <3>3. CASE t # 0
      <4>1. queue' = queue /\ collector'[0] = collector[0] /\ reply'[0] = reply[0]
        BY <1>3, <2>1, <3>3, Bounds DEF Channels
      <4>2. QED
        BY <1>1, <3>1, <4>1 DEF Inv, Indicating, Gathered, IndicationsWhole
    <3>4. QED
      BY <3>2, <3>3
  <2>7. Indicating'
    <3>1. 0 \in Channels /\ (t = 0 \/ t # 0)
      BY Bounds DEF Channels
    <3>2. \A u \in Channels : u # t => reply'[u] = reply[u]
      BY <1>3
    <3>3. reply'[0].total = reply[0].total
      <4>1. CASE t = 0
        BY <1>3, <4>1
      <4>2. CASE t # 0
        BY <3>1, <3>2, <4>2
      <4>3. QED
        BY <4>1, <4>2
    <3>4. QED
      BY <1>2, <2>6, <3>3 DEF Inv, Indicating, IndicationsWhole
  <2>8. QED
    BY <1>5, <1>6, <1>7, <2>2, <2>4, <2>5, <2>7 DEF Inv, TypeOK
<1>9. CASE Loses
  <2>1. DeviceTypes' /\ Numbering' /\ Answering'
    BY <1>2, <1>9, InvNotHanded
  <2>2. ReadTypes'
    BY <1>2, <1>9 DEF Inv, TypeOK, ReadTypes
  <2>3. Answers'
    <3>1. \A u \in Channels : /\ reply'[u].next <= reply'[u].total
                              /\ reply'[u].total = reply[u].total /\ reply'[u].from = reply[u].from
      BY <1>3 DEF Inv, Answers
    <3>2. \A u \in Txs : u \in Channels
      BY DEF Txs, Channels
    <3>3. \A u \in Txs : reply'[u].total # 0 => u \in carried' /\ reply'[u].from = u
      BY <1>2, <3>1, <3>2 DEF Inv, Answers
    <3>4. collector' = collector
      BY <1>9
    <3>5. \A u \in Channels :
            /\ reply'[u].next <= reply'[u].total
            /\ collector'[u].next # 0 => collector'[u].next < collector'[u].total
      BY <3>1, <3>4 DEF Inv, Answers
    <3>6. \A u \in Txs :
            /\ reply'[u].total # 0 => u \in carried' /\ reply'[u].from = u
            /\ collector'[u].next # 0 =>
                 /\ collector'[u].total = reply'[u].total
                 /\ collector'[u].parts = {u} \X (0..(collector'[u].next - 1))
      BY <3>1, <3>2, <3>3, <3>4 DEF Inv, Answers
    <3>7. QED
      BY <3>5, <3>6 DEF Answers
  <2>4. Indicating'
    <3>1. reply'[0].total = reply[0].total /\ lost' # 0
      <4>1. 0 \in Channels /\ lost \in Nat
        BY Bounds DEF Channels, Inv, TypeOK, ModemTypes
      <4>2. QED
        BY <1>3, <1>9, <4>1
    <3>2. QED
      BY <1>2, <3>1 DEF Inv, Indicating, IndicationsWhole
  <2>5. QED
    BY <1>5, <1>6, <1>7, <2>1, <2>2, <2>3, <2>4 DEF Inv, TypeOK
<1>10. QED
  BY <1>4, <1>8, <1>9

\* A fragment of an answer is read again.
LEMMA InvRepeat ==
  ASSUME Inv, NEW t \in Txs, Repeat(t)
  PROVE  Inv'
<1> DEFINE n == reply[t].next - 1
<1>1. /\ t \in Channels /\ t # 0
      /\ reply[t] \in [next : 0..MaxFragments, total : 0..MaxFragments,
                       from : Sources, bad : BOOLEAN]
  BY Bounds DEF Inv, TypeOK, ModemTypes, Txs, Channels
<1>2. n \in 0..(reply[t].total - 1) /\ loop = "running" /\ Read(Fragment(t, n))
  <2>1. [Message(t) EXCEPT !.n = @ - 1] = Fragment(t, n)
    BY DEF Message, Fragment
  <2>2. n \in 0..(reply[t].total - 1)
    BY <1>1, Bounds DEF Repeat, Inv, Answers
  <2>3. QED
    BY <2>1, <2>2 DEF Repeat
<1>3. /\ odd' = odd + 1 /\ lost + odd < MaxFaults
      /\ UNCHANGED <<stage, tx, size, sent, use, nextTx, call, writer, ready, closed, link,
                     partial, carried, reply, raised, lost>>
  BY DEF Repeat, Faulty, callerVars, linkVars
<1>4. /\ \/ UNCHANGED <<box, pending, loop>>
         \/ t \in carried /\ \E outcome \in {"answer", "error"} : Handed(t, outcome)
      /\ collector' \in [Channels -> Pieces]
      /\ queue' \in Seq([from : Sources, whole : BOOLEAN]) /\ Len(queue') <= Capacity
      /\ \A u \in Channels : collector'[u].next # 0 => collector'[u].next < collector'[u].total
      /\ \A u \in Txs : collector'[u].next # 0 =>
           /\ collector'[u].total = reply[u].total
           /\ collector'[u].parts = {u} \X (0..(collector'[u].next - 1))
      /\ queue' = queue /\ collector'[0] = collector[0]
  BY <1>1, <1>2, ReadKeeps
<1>5. DeviceTypes' /\ Numbering' /\ Answering'
  BY <1>3, <1>4, InvHanded, InvNotHanded
<1>6. loop' = "running"
  BY <1>2, <1>4 DEF Handed
<1>7. CallerTypes' /\ ReadTypes'
  BY <1>3, <1>4, <1>6 DEF Inv, TypeOK, CallerTypes, ReadTypes
<1>8. ModemTypes'
  BY <1>3, Bounds DEF Inv, TypeOK, ModemTypes
<1>9. Writing'
  BY <1>3 DEF Inv, Writing, CommandsWhole
<1>10. Answers'
  BY <1>3, <1>4 DEF Inv, Answers
<1>11. Indicating'
  BY <1>2, <1>3, <1>4 DEF Inv, Indicating, Gathered, IndicationsWhole
<1>12. QED
  BY <1>5, <1>7, <1>8, <1>9, <1>10, <1>11 DEF Inv, TypeOK

\* The modem begins an indication when the last one is out.
LEMMA InvRaise ==
  ASSUME Inv, Raise
  PROVE  Inv'
<1>1. /\ ready /\ link = "up" /\ ~Sending(0)
      /\ raised < MaxIndications /\ raised' = raised + 1
      /\ UNCHANGED <<stage, tx, size, sent, use, nextTx, pending, box, call, writer, collector,
                     queue, loop, ready, closed, link, partial, carried, lost, odd>>
  BY DEF Raise, callerVars, deviceVars, readVars, linkVars
<1>2. PICK k \in Sizes :
        reply' = [reply EXCEPT ![0] =
                    [next |-> 0, total |-> k, from |-> MaxTx + raised + 1, bad |-> FALSE]]
  BY DEF Raise
<1>3. /\ reply' \in [Channels -> [next : 0..MaxFragments, total : 0..MaxFragments,
                                  from : Sources, bad : BOOLEAN]]
      /\ reply'[0] = [next |-> 0, total |-> k, from |-> MaxTx + raised + 1, bad |-> FALSE]
      /\ \A u \in Channels : u # 0 => reply'[u] = reply[u]
      /\ 0 \in Channels /\ \A u \in Txs : u \in Channels /\ u # 0
  <2>1. /\ reply \in [Channels -> [next : 0..MaxFragments, total : 0..MaxFragments,
                                   from : Sources, bad : BOOLEAN]]
        /\ k \in 0..MaxFragments /\ MaxTx + raised + 1 \in Sources
        /\ 0 \in Channels /\ \A u \in Txs : u \in Channels /\ u # 0
    BY <1>1, Bounds DEF Inv, TypeOK, ModemTypes, Sources, Channels, Txs
  <2>2. [next |-> 0, total |-> k, from |-> MaxTx + raised + 1, bad |-> FALSE] \in
          [next : 0..MaxFragments, total : 0..MaxFragments, from : Sources, bad : BOOLEAN]
    BY <2>1, Bounds
  <2>3. QED
    BY <1>2, <2>1, <2>2
<1>4. CallerTypes' /\ DeviceTypes' /\ ReadTypes'
  BY <1>1 DEF Inv, TypeOK, CallerTypes, DeviceTypes, ReadTypes
<1>5. ModemTypes'
  BY <1>1, <1>3, Bounds DEF Inv, TypeOK, ModemTypes
<1>6. Numbering' /\ Answering'
  BY <1>1 DEF Inv, Numbering, Answering, Busy, ReaderNeverBlocks, NobodyDeaf, Deaf
<1>7. Writing'
  BY <1>1 DEF Inv, Writing, CommandsWhole
<1>8. Answers'
  <2>1. reply'[0].next <= reply'[0].total
    BY <1>3, Bounds
  <2>2. QED
    BY <1>1, <1>3, <2>1 DEF Inv, Answers
<1>9. Indicating'
  <2>1. lost = 0 /\ loop = "running" => collector[0].next = 0
    <3>1. /\ collector[0] \in Pieces /\ reply[0].next \in 0..MaxFragments
          /\ reply[0].total \in 0..MaxFragments /\ ~(reply[0].next < reply[0].total)
      BY <1>1, <1>3 DEF Inv, TypeOK, ReadTypes, ModemTypes, Sending
    <3>2. collector[0].next # 0 => collector[0].next < collector[0].total
      BY <1>3 DEF Inv, Answers
    <3>3. QED
      BY <3>1, <3>2 DEF Inv, Indicating, Gathered
  <2>2. Gathered' \/ ~(lost = 0 /\ loop = "running")
    BY <1>1, <1>3, <2>1 DEF Gathered
  <2>3. QED
    BY <1>1, <2>2 DEF Inv, Indicating, IndicationsWhole
<1>10. QED
  BY <1>4, <1>5, <1>6, <1>7, <1>8, <1>9 DEF Inv, TypeOK

\* The monitor takes an indication.
LEMMA InvConsume ==
  ASSUME Inv, Consume
  PROVE  Inv'
<1>1. /\ queue # <<>> /\ queue' = Tail(queue)
      /\ UNCHANGED <<stage, tx, size, sent, use, nextTx, pending, box, call, writer, collector,
                     loop, ready, closed, link, partial, carried, reply, raised, lost, odd>>
  BY DEF Consume, callerVars, deviceVars, linkVars, modemVars
<1>2. queue \in Seq([from : Sources, whole : BOOLEAN]) /\ Len(queue) <= Capacity
  BY DEF Inv, TypeOK, ReadTypes
<1>3. /\ queue' \in Seq([from : Sources, whole : BOOLEAN]) /\ Len(queue') <= Capacity
      /\ \A i \in 1..Len(queue') : i + 1 \in 1..Len(queue) /\ queue'[i] = queue[i + 1]
  BY <1>1, <1>2, Bounds
<1>4. CallerTypes' /\ DeviceTypes' /\ ReadTypes' /\ ModemTypes'
  BY <1>1, <1>3 DEF Inv, TypeOK, CallerTypes, DeviceTypes, ReadTypes, ModemTypes
<1>5. Numbering' /\ Answering'
  BY <1>1 DEF Inv, Numbering, Answering, Busy, ReaderNeverBlocks, NobodyDeaf, Deaf
<1>6. Writing' /\ Answers'
  BY <1>1 DEF Inv, Writing, CommandsWhole, Answers
<1>7. Indicating'
  BY <1>1, <1>3 DEF Inv, Indicating, Gathered, IndicationsWhole
<1>8. QED
  BY <1>4, <1>5, <1>6, <1>7 DEF Inv, TypeOK

\* Everyone that waits is told, and nobody else.
LEMMA InvLoopEnds ==
  ASSUME Inv, LoopEnds
  PROVE  Inv'
<1>1. /\ loop = "running" /\ link # "up"
      /\ box' = [t \in Txs |-> IF t \in pending THEN "error" ELSE box[t]]
      /\ pending' = {} /\ collector' = [t \in Channels |-> Empty]
      /\ loop' = IF link = "closed" THEN "ended" ELSE "lost"
      /\ UNCHANGED <<stage, tx, size, sent, use, nextTx, call, writer, queue, ready, closed,
                     link, partial, carried, reply, raised, lost, odd>>
  BY DEF LoopEnds, FailPending, callerVars, linkVars, modemVars
<1>2. CallerTypes' /\ DeviceTypes' /\ ModemTypes'
  BY <1>1 DEF Inv, TypeOK, CallerTypes, DeviceTypes, ModemTypes
<1>3. ReadTypes'
  <2>1. Empty \in Pieces
    BY Bounds DEF Empty, Pieces
  <2>2. QED
    BY <1>1, <2>1 DEF Inv, TypeOK, ReadTypes
<1>4. Numbering'
  BY <1>1 DEF Inv, Numbering
<1>5. Answering'
  <2>1. \A t \in Txs : box'[t] = IF t \in pending THEN "error" ELSE box[t]
    BY <1>1
  <2>2. \A c \in Callers : Busy(c) => tx[c] \in Txs /\ box'[tx[c]] # "none"
    BY <2>1 DEF Inv, Answering
  <2>3. QED
    BY <1>1, <2>1, <2>2
       DEF Inv, Answering, Busy, ReaderNeverBlocks, NobodyDeaf, Deaf
<1>6. Writing'
  BY <1>1 DEF Inv, Writing, CommandsWhole
<1>7. Answers'
  BY <1>1 DEF Inv, Answers, Empty, Txs, Channels
<1>8. Indicating'
  BY <1>1 DEF Inv, Indicating, IndicationsWhole
<1>9. QED
  BY <1>2, <1>3, <1>4, <1>5, <1>6, <1>7, <1>8 DEF Inv, TypeOK

\* The link goes down for good, by itself or because it is closed.
LEMMA InvLinkDown ==
  ASSUME Inv, LinkDies \/ CloseTransport
  PROVE  Inv'
<1>1. /\ link' \in {"dead", "closed"} /\ (link = "closed" => link' = "closed")
      /\ UNCHANGED <<callerVars, deviceVars, readVars, ready, closed, modemVars>>
  BY DEF LinkDies, CloseTransport
<1> USE DEF callerVars, deviceVars, readVars, modemVars
<1>2. CallerTypes' /\ DeviceTypes' /\ ReadTypes' /\ ModemTypes'
  BY <1>1 DEF Inv, TypeOK, CallerTypes, DeviceTypes, ReadTypes, ModemTypes
<1>3. Numbering' /\ Answering'
  BY <1>1 DEF Inv, Numbering, Answering, Busy, ReaderNeverBlocks, NobodyDeaf, Deaf
<1>4. Writing' /\ Answers'
  BY <1>1 DEF Inv, Writing, CommandsWhole, Answers
<1>5. Indicating'
  BY <1>1 DEF Inv, Indicating, Gathered, IndicationsWhole
<1>6. QED
  BY <1>2, <1>3, <1>4, <1>5 DEF Inv, TypeOK

\* Close uses up a transaction identifier that nobody waits for.
LEMMA InvClose ==
  ASSUME Inv, Close
  PROVE  Inv'
<1>1. /\ ~closed /\ closed' = TRUE /\ nextTx' = nextTx + 1
      /\ UNCHANGED <<stage, tx, size, sent, use, pending, box, call, writer, collector, queue,
                     loop, ready, link, partial, carried, reply, raised, lost, odd>>
  BY DEF Close, callerVars, readVars, modemVars
<1>2. CallerTypes' /\ ReadTypes' /\ ModemTypes'
  BY <1>1 DEF Inv, TypeOK, CallerTypes, ReadTypes, ModemTypes
<1>3. DeviceTypes'
  BY <1>1, Bounds DEF Inv, TypeOK, DeviceTypes, Numbering
<1>4. Numbering'
  BY <1>1, Bounds DEF Inv, TypeOK, CallerTypes, DeviceTypes, Numbering, Txs
<1>5. Answering' /\ Writing' /\ Answers'
  BY <1>1 DEF Inv, Answering, Busy, ReaderNeverBlocks, NobodyDeaf, Deaf, Writing,
              CommandsWhole, Answers
<1>6. Indicating'
  BY <1>1 DEF Inv, Indicating, Gathered, IndicationsWhole
<1>7. QED
  BY <1>2, <1>3, <1>4, <1>5, <1>6 DEF Inv, TypeOK

\* Every step keeps the invariant.
LEMMA InvNext == Inv /\ [Next]_vars => Inv'
<1> SUFFICES ASSUME Inv, [Next]_vars PROVE Inv'
  OBVIOUS
<1>1. CASE \E c \in Callers : Caller(c)
  BY <1>1, InvIssue, InvWrite, InvWriteFails, InvTake, InvTimeout DEF Caller
<1>2. CASE (\E t \in Channels : Send(t)) \/ (\E t \in Txs : Repeat(t))
  BY <1>2, InvSend, InvRepeat
<1>3. CASE Raise \/ Consume \/ LoopEnds \/ LinkDies \/ Close \/ CloseTransport
  BY <1>3, InvRaise, InvConsume, InvLoopEnds, InvLinkDown, InvClose
<1>4. CASE UNCHANGED vars
  BY <1>4, InvStutter
<1>5. QED
  BY <1>1, <1>2, <1>3, <1>4 DEF Next

\* The invariant holds in every reachable state.
LEMMA InvAlways == Spec => []Inv
BY InvInit, InvNext, PTL DEF Spec

-----------------------------------------------------------------------------
\* The reader, the writers, the waiting callers and the monitor of a device agree at every
\* moment: the read loop never blocks on a caller that has gone, a command written in full
\* over a live link is carried out, a waiting caller is known or answered, and what the
\* monitor gets is whole (device.go:106-135, 184-254).
THEOREM SpecConsistent == Spec => []Consistent
<1>1. Inv => Consistent
  BY DEF Inv, Answering, Writing, Indicating, Consistent
<1>2. QED
  BY <1>1, InvAlways, PTL

\* Whatever is lost, late or repeated and however the callers interleave, a transaction is
\* issued once and comes back once, with an answer only to a command that was carried out:
\* the safety part of MbimRpc (device.go:106-135, 225-254).
LEMMA RpcInit == Init => Rpc!Init
BY DEF Init, Rpc!Init

\* A caller that returns is a Return of MbimRpc: an answer is of a command carried out.
LEMMA RpcReturn ==
  ASSUME Inv, NEW c \in Callers, Busy(c), NEW outcome \in {"answer", "error", "timeout"},
         outcome = "answer" => tx[c] \in carried,
         Return(c, outcome), carried' = carried
  PROVE  Rpc!Next
<1>1. /\ tx[c] \in Txs /\ call[tx[c]] = "issued" /\ call' = [call EXCEPT ![tx[c]] = outcome]
  BY DEF Return, Inv, Answering
<1>2. Rpc!Return(tx[c], outcome) /\ outcome \in Rpc!Outcomes
  BY <1>1 DEF Rpc!Return, Rpc!Outcomes
<1>3. QED
  BY <1>1, <1>2 DEF Rpc!Next

\* Every step of the endpoint is one of MbimRpc, or leaves its variables alone.
LEMMA RpcNext == Inv /\ [Next]_vars => [Rpc!Next]_(Rpc!vars)
<1> SUFFICES ASSUME Inv, [Next]_vars PROVE Rpc!Next \/ UNCHANGED <<call, carried>>
  BY DEF Rpc!vars
<1>1. CASE \E c \in Callers : Issue(c)
  <2>1. PICK c \in Callers : Issue(c)
    BY <1>1
  <2>2. /\ nextTx + 1 \in Txs /\ call[nextTx + 1] = "unused"
        /\ call' = [call EXCEPT ![nextTx + 1] = "issued"] /\ carried' = carried
    BY <2>1, Bounds DEF Issue, Inv, TypeOK, DeviceTypes, Numbering, Txs, modemVars
  <2>3. QED
    BY <2>2 DEF Rpc!Next, Rpc!Issue
<1>2. CASE \E c \in Callers : Write(c)
  <2>1. PICK c \in Callers : Write(c)
    BY <1>2
  <2>2. /\ tx[c] \in Txs \ carried /\ call[tx[c]] = "issued" /\ call' = call
        /\ carried' \in {carried, carried \cup {tx[c]}}
    BY <2>1, Heard DEF Write, Inv, Answering, Busy
  <2>3. QED
    BY <2>2 DEF Rpc!Next, Rpc!Carry
<1>3. CASE \E c \in Callers : WriteFails(c) \/ Take(c) \/ Timeout(c)
  <2>1. PICK c \in Callers : WriteFails(c) \/ Take(c) \/ Timeout(c)
    BY <1>3
  <2>2. carried' = carried
    BY <2>1 DEF WriteFails, Take, Timeout, modemVars
  <2>3. CASE WriteFails(c) \/ Timeout(c)
    BY <2>2, <2>3, RpcReturn DEF WriteFails, Timeout, Busy
  <2>4. CASE Take(c)
    <3>1. Busy(c) /\ tx[c] \in Txs /\ box[tx[c]] \in {"answer", "error"}
      BY <2>4 DEF Take, Busy, Inv, TypeOK, DeviceTypes, Answering
    <3>2. box[tx[c]] = "answer" => tx[c] \in carried
      BY <3>1 DEF Inv, Answering
    <3>3. QED
      BY <2>2, <2>4, <3>1, <3>2, RpcReturn DEF Take
  <2>5. QED
    BY <2>1, <2>3, <2>4
<1>4. CASE (\E t \in Channels : Send(t)) \/ (\E t \in Txs : Repeat(t))
  BY <1>4 DEF Send, Repeat
<1>5. CASE Raise \/ Consume \/ LoopEnds \/ LinkDies \/ Close \/ CloseTransport \/ UNCHANGED vars
  BY <1>5 DEF Raise, Consume, LoopEnds, LinkDies, Close, CloseTransport, vars, deviceVars,
              modemVars
<1>6. QED
  BY <1>1, <1>2, <1>3, <1>4, <1>5 DEF Next, Caller

\* The endpoint does only what MbimRpc allows: a transaction is issued once, carried out at
\* most once and returned once, with an answer only if it was carried out (device.go: Command,
\* readLoop, failPending).
THEOREM SpecImplementsRpc == Spec => Rpc!Safety
<1>1. Inv /\ [Next]_vars => [Rpc!Next]_(Rpc!vars)
  BY RpcNext
<1>2. QED
  BY <1>1, RpcInit, InvAlways, PTL DEF Spec, Rpc!Safety
-----------------------------------------------------------------------------
(* The manager above the endpoint: MbimManager. *)

\* Where the calls return to that recoveries and the reconnection make.
Both      == [ok |-> "open", failed |-> "open"]
Restoring == [ok |-> "verify", failed |-> "failed"]
Again     == [ok |-> "release", failed |-> "try"]

\* A Connect before and after it has a session, and the labels of those that make one.
Early == {"register", "activate", "reopen", "reopening"}
Late  == {"configure", "commit"}
UserPlaces ==
  {"idle", "connect", "disconnect", "rotate", "close", "disconnecting", "rotating",
   "unlock", "teardown"} \cup Early \cup Late
RecoveryPlaces ==
  {"idle", "begin", "close", "teardown", "unlock", "open", "connect", "verify", "failed"}
  \cup Early \cup Late
ReconnectorPlaces == {"idle", "try", "connect", "release"} \cup Early \cup Late

\* ManagerTypeOK but for the lock, which Held has.
Types ==
  /\ calls \in 0..MaxCalls /\ dev \in BOOLEAN /\ desired \in BOOLEAN /\ connected \in BOOLEAN
  /\ failures \in 0..Threshold /\ late \in BOOLEAN
  /\ place \in [Procs -> Places] /\ cont \in [Procs -> [ok : Places, failed : Places]]
  /\ gate \in BOOLEAN /\ want \in [Recoveries -> BOOLEAN]
  /\ attempt \in [Recoveries -> 0..Attempts] /\ wish \in [Recoveries -> BOOLEAN]
  /\ crossed \subseteq Recoveries
  /\ reconnectGate \in BOOLEAN /\ tries \in 0..Tries /\ reopened \in BOOLEAN
  /\ modem \in {"ok", "deaf"} /\ session \in BOOLEAN
  /\ indications \in Nat /\ spawned \in Nat /\ indications + spawned <= drops
  /\ deafs \in 0..MaxDeaf /\ drops \in 0..MaxDrops
  /\ told \in BOOLEAN /\ missed \in BOOLEAN /\ unheard \in BOOLEAN

\* dataMu has one holder, which is in a locked part.
Held ==
  /\ dataMu = {p \in Procs : place[p] \in Holding}
  /\ \A p, q \in dataMu : p = q

\* Each goroutine keeps to its labels, and its call returns to where it was made.
Ways ==
  /\ \A u \in Users : cont[u] = Nowhere /\ place[u] \in UserPlaces
  /\ \A r \in Recoveries :
       /\ place[r] \in RecoveryPlaces
       /\ place[r] \in {"close", "teardown", "unlock"} => cont[r] = Both
       /\ place[r] \in {"connect"} \cup Early \cup Late => cont[r] = Restoring
  /\ place[Reconnector] \in ReconnectorPlaces
  /\ place[Reconnector] \in {"connect"} \cup Early \cup Late => cont[Reconnector] = Again
  /\ reconnectGate <=> place[Reconnector] # "idle"

\* A Connect works on an open endpoint, or reopens it, and leaves the session desired; one
\* that is up and not desired is being ended.
Managed ==
  /\ connected => dev
  /\ \A p \in Procs :
       /\ place[p] \in {"activate"} \cup Late => dev
       /\ place[p] \in {"activate", "reopen", "reopening"} \cup Late => desired
  /\ connected /\ ~desired => \E p \in Procs : place[p] \in {"disconnecting", "rotating"}
  /\ \A p \in Procs : place[p] = "teardown" => ~connected

\* A lost endpoint that nobody was told of is being opened again.
Lost ==
  ~dev /\ ~told =>
    \E p \in Procs : place[p] = "reopening" \/ (p \in Recoveries /\ place[p] # "idle")

\* The reconnection is about to connect.
Turned == place[Reconnector] = "connect" \/ (place[Reconnector] = "try" /\ tries = 0)

\* A session that is up, or is about to be, and that the modem does not have, was noticed:
\* an indication or a reconnection will deal with it, or a Connect or a Disconnect does,
\* or it is one of those named by missed and unheard.
Noticed ==
  \/ indications > 0 \/ spawned > 0 \/ missed \/ unheard \/ Turned
  \/ \E p \in Procs : place[p] \in Early \cup {"disconnecting", "rotating"}
Tended == ~session /\ (connected \/ \E p \in Procs : place[p] \in Late) => Noticed

\* The wish of a recovery that no other crossed is the desired connection, or has been
\* read before its Close cleared that.
Wishes ==
  \A r \in Recoveries \ crossed : wish[r] =>
    /\ place[r] \in {"begin", "verify"} => desired
    /\ place[r] \in {"close", "teardown", "unlock", "open"} => want[r]

ManagerInv == Types /\ Held /\ Ways /\ Managed /\ Lost /\ Tended /\ Wishes

\* A goroutine moves, and no other does.
Moves(p, s) == place' \in [Procs -> Places] /\ place' = [place EXCEPT ![p] = s]

\* The goroutines are apart.
LEMMA Apart ==
  Users \cap Recoveries = {} /\ Reconnector \notin Users \cup Recoveries
  /\ Procs = Users \cup Recoveries \cup {Reconnector}
BY ProcsAssumption DEF Procs

\* Go moves one goroutine.
LEMMA GoMoves ==
  ASSUME Types, NEW p \in Procs, NEW s \in Places, Go(p, s)
  PROVE  Moves(p, s)
BY DEF Types, Go, Moves

\* Where each kind of goroutine goes on after a call.
Ends(p, r, s) ==
  /\ p \in Users => s = "idle"
  /\ p \in Recoveries => s = IF place[p] \in {"teardown", "unlock"} THEN "open"
                             ELSE IF r = "ok" THEN "verify" ELSE "failed"
  /\ p = Reconnector => s = IF r = "ok" THEN "release" ELSE "try"

\* A call that ends releases the lock and returns to where it was made.
LEMMA FinishMoves ==
  ASSUME Types, Ways, NEW p \in Procs, NEW r \in {"ok", "failed"}, place[p] \in Holding,
         Finish(p, r)
  PROVE  /\ \E s \in Places : Moves(p, s) /\ Ends(p, r, s)
         /\ dataMu' = {} /\ reopened' = FALSE /\ missed' = (missed \/ r = "failed")
<1>1. cont[p][r] \in Places
  BY DEF Types
<1>2. Moves(p, cont[p][r])
  BY <1>1, GoMoves DEF Finish
<1>3. Ends(p, r, cont[p][r])
  BY Apart DEF Ends, Ways, Nowhere, Both, Restoring, Again, Holding, RecoveryPlaces,
               ReconnectorPlaces, Early, Late
<1>4. QED
  BY <1>1, <1>2, <1>3 DEF Finish

\* The lock is free when its holder has left the locked part.
LEMMA HeldFreed ==
  ASSUME Types, Held, NEW p \in Procs, NEW s \in Places, Moves(p, s), place[p] \in Holding,
         s \notin Holding, dataMu' = {}
  PROVE  Held'
<1>1. \A q \in Procs : place'[q] \notin Holding
  BY DEF Held, Moves, Types
<1>2. QED
  BY <1>1 DEF Held

\* It stays with a holder that goes on, and with nobody else's step.
LEMMA HeldKept ==
  ASSUME Types, Held, NEW p \in Procs, NEW s \in Places, Moves(p, s),
         place[p] \in Holding <=> s \in Holding, dataMu' = dataMu
  PROVE  Held'
<1>1. \A q \in Procs : place'[q] \in Holding <=> place[q] \in Holding
  BY DEF Moves, Types
<1>2. QED
  BY <1>1 DEF Held

\* It is taken when it was free.
LEMMA HeldTaken ==
  ASSUME Types, Held, NEW p \in Procs, NEW s \in Places, Moves(p, s), s \in Holding, Lock(p)
  PROVE  Held'
<1>1. \A q \in Procs : place'[q] \in Holding <=> q = p
  BY DEF Held, Moves, Types, Lock
<1>2. dataMu' = {p}
  BY DEF Lock
<1>3. QED
  BY <1>1, <1>2 DEF Held

\* A Connect takes the lock.
LEMMA LockConnectKeeps ==
  ASSUME ManagerInv, NEW p \in Procs, LockConnect(p)
  PROVE  ManagerInv'
<1> USE DEF ManagerInv, dataVars, healthVars, recoveryVars, lossVars, sessionVars
<1>1. Moves(p, "register") /\ place[p] = "connect" /\ "register" \in Places
  BY GoMoves DEF LockConnect, Places
<1>2. Types'
  BY <1>1 DEF LockConnect, Lock, Types, Moves
<1>3. Held'
  BY <1>1, HeldTaken DEF LockConnect, Holding
<1>4. Ways'
  BY <1>1 DEF LockConnect, Moves, Types, Ways, UserPlaces, RecoveryPlaces, ReconnectorPlaces,
              Early, Late
<1>5. Managed'
  BY <1>1 DEF LockConnect, Moves, Types, Managed, Late
<1>6. Lost'
  BY <1>1 DEF LockConnect, Moves, Types, Lost
<1>7. Tended'
  BY <1>1 DEF LockConnect, Lock, Moves, Types, Tended, Noticed, Turned, Early, Late
<1>8. Wishes'
  BY <1>1 DEF LockConnect, Moves, Types, Wishes
<1>9. QED
  BY <1>2, <1>3, <1>4, <1>5, <1>6, <1>7, <1>8

\* A Connect that fails leaves its mark, and a lost endpoint to a recovery or to its owner.
LEMMA FailedKeeps ==
  ASSUME ManagerInv, NEW p \in Procs, place[p] \in Early \cup Late, Finish(p, "failed"),
         UNCHANGED <<calls, dev, dataVars, healthVars, cont, recoveryVars, lossVars, modem, deafs, drops>>,
         session' \in {session, FALSE}, told' \in BOOLEAN, told => told',
         place[p] = "reopening" => told' \/ p \in Recoveries
  PROVE  ManagerInv'
<1> USE DEF ManagerInv, dataVars, healthVars, recoveryVars, lossVars
<1>1. place[p] \in Holding /\ place[p] \notin {"teardown", "unlock", "disconnecting", "rotating"}
  BY DEF Holding, Early, Late
<1>2. PICK s \in Places : Moves(p, s) /\ Ends(p, "failed", s)
  BY <1>1, FinishMoves
<1>3. s \in {"idle", "failed", "try"} /\ (p \in Users => s = "idle")
      /\ (p \in Recoveries => s = "failed") /\ (p = Reconnector => s = "try")
  BY <1>1, <1>2, Apart DEF Ends
<1>4. dataMu' = {} /\ reopened' = FALSE /\ missed' = TRUE
  BY <1>1, FinishMoves
<1>5. Types'
  BY <1>2, <1>4 DEF Types, Moves
<1>6. Held'
  BY <1>1, <1>2, <1>3, <1>4, HeldFreed DEF Holding
<1>7. Ways'
  BY <1>1, <1>2, <1>3, Apart DEF Moves, Types, Ways, UserPlaces, RecoveryPlaces,
                                 ReconnectorPlaces, Early, Late
<1>8. Managed'
  BY <1>1, <1>2, <1>3 DEF Moves, Types, Managed, Late
<1>9. Lost'
  BY <1>2, <1>3, Apart DEF Moves, Types, Lost
<1>10. Tended'
  BY <1>4 DEF Tended, Noticed
<1>11. Wishes'
  BY <1>2, <1>3 DEF Moves, Types, Wishes
<1>12. QED
  BY <1>5, <1>6, <1>7, <1>8, <1>9, <1>10, <1>11

\* A registered Connect desires its session.
LEMMA RegisterKeeps ==
  ASSUME ManagerInv, NEW p \in Procs, Register(p)
  PROVE  ManagerInv'
<1> USE DEF ManagerInv, dataVars, healthVars, recoveryVars, lossVars, lockVars, sessionVars
<1>1. CASE Finish(p, "failed") /\ UNCHANGED desired
  BY <1>1, FailedKeeps DEF Register, Early, Types
<1>2. CASE /\ dev /\ modem = "ok" /\ desired' = TRUE
           /\ Go(p, "activate") /\ UNCHANGED lockVars
  <2>1. Moves(p, "activate") /\ place[p] = "register" /\ "activate" \in Places
    BY <1>2, GoMoves DEF Register, Places
  <2>2. Types'
    BY <1>2, <2>1 DEF Register, Types, Moves
  <2>3. Held'
    BY <1>2, <2>1, HeldKept DEF Holding
  <2>4. Ways'
    BY <2>1 DEF Register, Moves, Types, Ways, UserPlaces, RecoveryPlaces, ReconnectorPlaces,
                Early, Late
  <2>5. Managed'
    BY <1>2, <2>1 DEF Register, Moves, Types, Managed, Late
  <2>6. Lost'
    BY <1>2, <2>1 DEF Register, Moves, Types, Lost
  <2>7. Tended'
    BY <1>2, <2>1 DEF Register, Moves, Types, Tended, Noticed, Turned, Early, Late
  <2>8. Wishes'
    BY <1>2, <2>1 DEF Register, Moves, Types, Wishes
  <2>9. QED
    BY <2>2, <2>3, <2>4, <2>5, <2>6, <2>7, <2>8
<1>3. QED
  BY <1>1, <1>2 DEF Register

\* A session the modem still has is ended, then one is made; a silent modem has the endpoint
\* reopened.
LEMMA ActivateKeeps ==
  ASSUME ManagerInv, NEW p \in Procs, Activate(p)
  PROVE  ManagerInv'
<1> USE DEF ManagerInv, dataVars, healthVars, recoveryVars, lossVars, lockVars
<1>1. CASE /\ IF modem = "ok" THEN ~session ELSE reopened
           /\ Finish(p, "failed")
           /\ UNCHANGED <<session, unheard>>
  BY <1>1, FailedKeeps DEF Activate, Early, Types
<1>2. CASE modem = "ok" /\ session /\ session' = FALSE /\ UNCHANGED <<place, lockVars, unheard>>
  <2>1. place[p] = "activate"
    BY DEF Activate
  <2>2. Types' /\ Held'
    <3>1. crossed' \subseteq Recoveries
      BY DEF Activate, Types
    <3>2. QED
      BY <1>2, <3>1 DEF Activate, Types, Held
  <2>3. Ways' /\ Managed' /\ Lost' /\ Wishes'
    BY <1>2 DEF Activate, Ways, Managed, Lost, Wishes
  <2>4. Tended'
    BY <1>2, <2>1 DEF Activate, Tended, Noticed, Turned, Early
  <2>5. QED
    BY <2>2, <2>3, <2>4
<1>3. CASE /\ modem = "ok" /\ ~session /\ session' = TRUE /\ Go(p, "configure")
           /\ missed' = FALSE /\ unheard' = FALSE /\ UNCHANGED <<dataMu, reopened>>
  <2>1. Moves(p, "configure") /\ place[p] = "activate" /\ "configure" \in Places
    BY <1>3, GoMoves DEF Activate, Places
  <2>2. Types'
    BY <1>3, <2>1 DEF Activate, Types, Moves
  <2>3. Held'
    BY <1>3, <2>1, HeldKept DEF Holding
  <2>4. Ways'
    BY <2>1 DEF Activate, Moves, Types, Ways, UserPlaces, RecoveryPlaces, ReconnectorPlaces,
                Early, Late
  <2>5. Managed'
    BY <1>3, <2>1 DEF Activate, Moves, Types, Managed, Late
  <2>6. Lost'
    BY <1>3, <2>1 DEF Activate, Moves, Types, Lost
  <2>7. Tended'
    BY <1>3 DEF Tended
  <2>8. Wishes'
    BY <1>3, <2>1 DEF Activate, Moves, Types, Wishes
  <2>9. QED
    BY <2>2, <2>3, <2>4, <2>5, <2>6, <2>7, <2>8
<1>4. CASE /\ modem = "deaf" /\ ~reopened /\ Go(p, "reopen")
           /\ UNCHANGED <<session, lockVars, unheard>>
  <2>1. Moves(p, "reopen") /\ place[p] = "activate" /\ "reopen" \in Places
    BY <1>4, GoMoves DEF Activate, Places
  <2>2. Types'
    BY <1>4, <2>1 DEF Activate, Types, Moves
  <2>3. Held'
    BY <1>4, <2>1, HeldKept DEF Holding
  <2>4. Ways'
    BY <2>1 DEF Activate, Moves, Types, Ways, UserPlaces, RecoveryPlaces, ReconnectorPlaces,
                Early, Late
  <2>5. Managed'
    BY <1>4, <2>1 DEF Activate, Moves, Types, Managed, Late
  <2>6. Lost'
    BY <1>4, <2>1 DEF Activate, Moves, Types, Lost
  <2>7. Tended'
    BY <1>4, <2>1 DEF Activate, Moves, Types, Tended, Noticed, Turned, Early, Late
  <2>8. Wishes'
    BY <1>4, <2>1 DEF Activate, Moves, Types, Wishes
  <2>9. QED
    BY <2>2, <2>3, <2>4, <2>5, <2>6, <2>7, <2>8
<1>5. QED
  BY <1>1, <1>2, <1>3, <1>4 DEF Activate, Types

\* Whoever holds the lock holds it alone.
LEMMA AloneInside ==
  ASSUME Held, NEW p \in Procs, place[p] \in Holding
  PROVE  \A q \in Procs : place[q] \in Holding => q = p
BY DEF Held

\* The endpoint is closed and will be opened again, and the wish stays.
LEMMA ReopenKeeps ==
  ASSUME ManagerInv, NEW p \in Procs, Reopen(p)
  PROVE  ManagerInv'
<1> USE DEF ManagerInv, lossVars, sessionVars
<1>1. Moves(p, "reopening") /\ place[p] = "reopen" /\ "reopening" \in Places
  BY GoMoves DEF Reopen, Places
<1>2. \A q \in Procs : place[q] \in Holding => q = p
  BY <1>1, AloneInside DEF Holding
<1>3. late' \in BOOLEAN /\ dev' = FALSE /\ connected' = FALSE /\ indications' = 0
  BY DEF Reopen, Shut, Types
<1>4. Types'
  <2>1. indications' \in Nat /\ spawned' \in Nat /\ indications' + spawned' <= drops'
    BY <1>3 DEF Reopen, Types
  <2>2. QED
    BY <1>1, <1>3, <2>1 DEF Reopen, Types, Moves
<1>5. Held'
  BY <1>1, HeldKept DEF Reopen, Holding
<1>6. Ways'
  BY <1>1 DEF Reopen, Moves, Types, Ways, UserPlaces, RecoveryPlaces, ReconnectorPlaces,
              Early, Late
<1>7. Managed'
  BY <1>1, <1>2, <1>3 DEF Reopen, Moves, Types, Managed, Late, Holding
<1>8. Lost'
  BY <1>1 DEF Moves, Types, Lost
<1>9. Tended'
  BY <1>1, <1>2, <1>3 DEF Reopen, Moves, Types, Tended, Noticed, Turned, Early, Late, Holding
<1>10. Wishes'
  BY <1>1 DEF Reopen, Moves, Types, Wishes
<1>11. QED
  BY <1>4, <1>5, <1>6, <1>7, <1>8, <1>9, <1>10

\* It is open again, or lost with the Connect.
LEMMA ReopenEndsKeeps ==
  ASSUME ManagerInv, NEW p \in Procs, ReopenEnds(p)
  PROVE  ManagerInv'
<1> USE DEF ManagerInv, dataVars, healthVars, recoveryVars, lossVars, lockVars, sessionVars
<1>1. CASE /\ modem = "deaf" /\ Finish(p, "failed")
           /\ told' = (told \/ p \notin Recoveries)
           /\ UNCHANGED <<dev, healthVars>>
  <2>1. told' \in BOOLEAN
    BY <1>1, Zenon DEF Types
  <2>2. (told => told') /\ (told' \/ p \in Recoveries)
    BY <1>1, Zenon
  <2>3. QED
    BY <1>1, <2>1, <2>2, FailedKeeps DEF ReopenEnds, Early
<1>2. CASE CanOpen /\ Opened /\ Go(p, "register") /\ UNCHANGED lockVars
  <2>1. Moves(p, "register") /\ place[p] = "reopening" /\ "register" \in Places
    BY <1>2, GoMoves DEF ReopenEnds, Places
  <2>2. dev' = TRUE /\ failures' = 0 /\ late' = late /\ told' = FALSE
    BY <1>2 DEF Opened
  <2>3. Types'
    <3>1. failures' \in 0..Threshold
      BY <2>2, NumbersAssumption
    <3>2. QED
      BY <1>2, <2>1, <2>2, <3>1 DEF ReopenEnds, Types, Moves
  <2>4. Held'
    BY <1>2, <2>1, HeldKept DEF Holding
  <2>5. Ways'
    BY <2>1 DEF ReopenEnds, Moves, Types, Ways, UserPlaces, RecoveryPlaces, ReconnectorPlaces,
                Early, Late
  <2>6. Managed'
    BY <2>1, <2>2 DEF ReopenEnds, Moves, Types, Managed, Late
  <2>7. Lost'
    BY <2>2 DEF Lost
  <2>8. Tended'
    BY <1>2, <2>1 DEF ReopenEnds, Moves, Types, Tended, Noticed, Turned, Early, Late
  <2>9. Wishes'
    BY <2>1 DEF ReopenEnds, Moves, Types, Wishes
  <2>10. QED
    BY <2>3, <2>4, <2>5, <2>6, <2>7, <2>8, <2>9
<1>3. QED
  BY <1>1, <1>2 DEF ReopenEnds

\* The session is made.
LEMMA ConfigureKeeps ==
  ASSUME ManagerInv, NEW p \in Procs, Configure(p)
  PROVE  ManagerInv'
<1> USE DEF ManagerInv, dataVars, healthVars, recoveryVars, lossVars, lockVars
<1>1. CASE Finish(p, "failed") /\ session' \in {session, FALSE}
  BY <1>1, FailedKeeps DEF Configure, Early, Late, Types
<1>2. CASE modem = "ok" /\ Go(p, "commit") /\ UNCHANGED <<session, lockVars>>
  <2>1. Moves(p, "commit") /\ place[p] = "configure" /\ "commit" \in Places
    BY <1>2, GoMoves DEF Configure, Places
  <2>2. Types'
    BY <1>2, <2>1 DEF Configure, Types, Moves
  <2>3. Held'
    BY <1>2, <2>1, HeldKept DEF Holding
  <2>4. Ways'
    BY <2>1 DEF Configure, Moves, Types, Ways, UserPlaces, RecoveryPlaces, ReconnectorPlaces,
                Early, Late
  <2>5. Managed'
    BY <1>2, <2>1 DEF Configure, Moves, Types, Managed, Late
  <2>6. Lost'
    BY <1>2, <2>1 DEF Configure, Moves, Types, Lost
  <2>7. Tended'
    BY <1>2, <2>1 DEF Configure, Moves, Types, Tended, Noticed, Turned, Early, Late
  <2>8. Wishes'
    BY <1>2, <2>1 DEF Configure, Moves, Types, Wishes
  <2>9. QED
    BY <2>2, <2>3, <2>4, <2>5, <2>6, <2>7, <2>8
<1>3. QED
  BY <1>1, <1>2 DEF Configure

\* It is believed up: on an open endpoint, and a drop of it since is being dealt with.
LEMMA CommitKeeps ==
  ASSUME ManagerInv, NEW p \in Procs, Commit(p)
  PROVE  ManagerInv'
<1> USE DEF ManagerInv, dataVars, healthVars, recoveryVars, lossVars, sessionVars
<1>1. place[p] = "commit" /\ place[p] \in Holding /\ Finish(p, "ok") /\ connected' = TRUE
  BY DEF Commit, Holding
<1>2. PICK s \in Places : Moves(p, s) /\ Ends(p, "ok", s)
  BY <1>1, FinishMoves
<1>3. s \in {"idle", "verify", "release"} /\ (p \in Users => s = "idle")
      /\ (p \in Recoveries => s = "verify") /\ (p = Reconnector => s = "release")
  BY <1>1, <1>2, Apart DEF Ends
<1>4. dataMu' = {} /\ reopened' = FALSE /\ missed' = missed
  BY <1>1, FinishMoves, Zenon DEF Types
<1>5. \A q \in Procs : place[q] \in Holding => q = p
  BY <1>1, AloneInside
<1>6. dev /\ desired
  BY <1>1 DEF Managed, Late
<1>7. Types'
  BY <1>1, <1>2, <1>4 DEF Commit, Types, Moves
<1>8. Held'
  BY <1>1, <1>2, <1>3, <1>4, HeldFreed DEF Holding
<1>9. Ways'
  BY <1>1, <1>2, <1>3, Apart DEF Commit, Moves, Types, Ways, UserPlaces, RecoveryPlaces,
                                 ReconnectorPlaces, Early, Late
<1>10. Managed'
  BY <1>1, <1>2, <1>3, <1>5, <1>6 DEF Holding, Commit, Moves, Types, Managed, Late
<1>11. Lost'
  BY <1>6 DEF Commit, Lost
<1>12. Tended'
  <2>1. ~session => indications > 0 \/ spawned > 0 \/ missed \/ unheard \/ Turned
    BY <1>1, <1>5 DEF Tended, Noticed, Early, Late, Holding
  <2>2. Turned => Turned'
    BY <1>1, <1>2 DEF Commit, Turned, Moves, Types
  <2>3. QED
    BY <1>4, <2>1, <2>2 DEF Commit, Tended, Noticed
<1>13. Wishes'
  BY <1>2, <1>3, <1>6 DEF Commit, Moves, Types, Wishes
<1>14. QED
  BY <1>7, <1>8, <1>9, <1>10, <1>11, <1>12, <1>13

\* Whoever finds the lock free finds nobody in a locked part.
LEMMA NobodyInside ==
  ASSUME Held, NEW p \in Procs, Lock(p)
  PROVE  \A q \in Procs : place[q] \notin Holding
BY DEF Held, Lock

\* Only callers disconnect and rotate, and the reconnection closes nothing.
LEMMA WhoCalls ==
  ASSUME Ways, NEW p \in Procs
  PROVE  /\ place[p] \in {"disconnect", "rotate", "disconnecting", "rotating"} => p \in Users
         /\ place[p] \in {"close", "teardown", "unlock"} => p # Reconnector
BY Apart DEF Ways, RecoveryPlaces, ReconnectorPlaces, Early, Late

\* The session is not desired any more, and a wish for it is void.
LEMMA LockDisconnectKeeps ==
  ASSUME ManagerInv, NEW p \in Procs, LockDisconnect(p)
  PROVE  ManagerInv'
<1> USE DEF ManagerInv, healthVars, lossVars, sessionVars
<1>1. PICK s \in {"rotating", "disconnecting", "register", "unlock"} :
        /\ Go(p, s) /\ (connected => s \in {"rotating", "disconnecting"})
        /\ (~connected => s \in {"register", "unlock"})
  BY DEF LockDisconnect, Types
<1>2. s \in Places /\ s \in Holding /\ place[p] \in {"disconnect", "rotate"}
  BY DEF Places, Holding, LockDisconnect
<1>3. Moves(p, s)
  BY <1>1, <1>2, GoMoves
<1>4. p \in Users /\ p \notin Recoveries /\ p # Reconnector
  BY <1>2, WhoCalls, Apart
<1>5. \A q \in Procs : place[q] \notin Holding
  BY NobodyInside DEF LockDisconnect
<1>6. desired' = FALSE /\ wish' = [r \in Recoveries |-> FALSE]
  BY DEF LockDisconnect, NobodyWishes
<1>7. Types'
  <2>1. crossed' \subseteq Recoveries /\ wish' \in [Recoveries -> BOOLEAN]
    BY <1>6 DEF LockDisconnect, Types
  <2>2. QED
    BY <1>3, <1>6, <2>1 DEF LockDisconnect, Lock, Types, Moves
<1>8. Held'
  BY <1>2, <1>3, HeldTaken DEF LockDisconnect
<1>9. Ways'
  BY <1>1, <1>3, <1>4, Apart DEF LockDisconnect, Moves, Types, Ways, UserPlaces,
                                 RecoveryPlaces, ReconnectorPlaces, Early, Late
<1>10. Managed'
  BY <1>1, <1>3, <1>5, <1>6 DEF LockDisconnect, Moves, Types, Managed, Late, Holding
<1>11. Lost'
  BY <1>3, <1>4, <1>5 DEF LockDisconnect, Moves, Types, Lost, Holding
<1>12. Tended'
  BY <1>1, <1>3, <1>4, <1>5 DEF LockDisconnect, Lock, Moves, Types, Tended, Noticed, Turned, Early,
                                Late, Holding
<1>13. Wishes'
  BY <1>6 DEF Wishes
<1>14. QED
  BY <1>7, <1>8, <1>9, <1>10, <1>11, <1>12, <1>13

\* The session is not believed up any more; a rotation goes on to connect.
LEMMA DisconnectedKeeps ==
  ASSUME ManagerInv, NEW p \in Procs, Disconnected(p)
  PROVE  ManagerInv'
<1> USE DEF ManagerInv, dataVars, healthVars, recoveryVars, lossVars, lockVars
<1>1. place[p] \in {"disconnecting", "rotating"} /\ place[p] \in Holding
  BY DEF Disconnected, Holding
<1>2. p \in Users /\ p \notin Recoveries /\ p # Reconnector
  BY <1>1, WhoCalls, Apart
<1>3. \A q \in Procs : place[q] \in Holding => q = p
  BY <1>1, AloneInside
<1>4. session' \in BOOLEAN
  BY Zenon DEF Disconnected
<1>5. \/ Go(p, "register") /\ UNCHANGED lockVars
      \/ Finish(p, "ok") \/ Finish(p, "failed")
  BY DEF Disconnected
<1>6. \E s \in {"register", "idle"} :
        /\ Moves(p, s) /\ missed' \in BOOLEAN /\ (missed => missed') /\ reopened' \in BOOLEAN
        /\ (s = "register" => dataMu' = dataMu) /\ (s = "idle" => dataMu' = {})
  <2>1. CASE Go(p, "register") /\ UNCHANGED lockVars
    BY <2>1, GoMoves DEF Places, Types
  <2>2. ASSUME NEW e \in {"ok", "failed"}, Finish(p, e)
        PROVE  /\ Moves(p, "idle") /\ missed' \in BOOLEAN /\ (missed => missed')
               /\ reopened' \in BOOLEAN /\ dataMu' = {}
    <3>1. Moves(p, "idle")
      BY <1>1, <1>2, <2>2, FinishMoves DEF Ends
    <3>2. missed' = (missed \/ e = "failed") /\ reopened' = FALSE /\ dataMu' = {}
      BY <2>2 DEF Finish
    <3>3. missed' \in BOOLEAN /\ (missed => missed')
      BY <3>2, Zenon
    <3>4. QED
      BY <3>1, <3>2, <3>3
  <2>3. QED
    BY <1>5, <2>1, <2>2
<1>7. PICK s \in {"register", "idle"} :
        /\ Moves(p, s) /\ missed' \in BOOLEAN /\ (missed => missed') /\ reopened' \in BOOLEAN
        /\ (s = "register" => dataMu' = dataMu) /\ (s = "idle" => dataMu' = {})
  BY <1>6
<1>8. s \in Places
  BY DEF Places
<1>9. Types'
  BY <1>4, <1>7 DEF Disconnected, Types, Moves
<1>10. Held'
  BY <1>1, <1>7, <1>8, HeldKept, HeldFreed DEF Holding
<1>11. Ways'
  BY <1>2, <1>7, Apart DEF Disconnected, Moves, Types, Ways, UserPlaces, RecoveryPlaces,
                           ReconnectorPlaces, Early, Late
<1>12. Managed'
  BY <1>7 DEF Disconnected, Moves, Types, Managed, Late
<1>13. Lost'
  BY <1>1, <1>2, <1>7 DEF Disconnected, Moves, Types, Lost
<1>14. Tended'
  <2>1. \A q \in Procs : place'[q] \notin Late
    BY <1>3, <1>7 DEF Moves, Types, Late, Holding
  <2>2. place'[Reconnector] = place[Reconnector]
    BY <1>2, <1>7 DEF Moves, Types
  <2>3. QED
    BY <1>7, <2>1, <2>2 DEF Disconnected, Tended
<1>15. Wishes'
  BY <1>7 DEF Disconnected, Moves, Types, Wishes
<1>16. QED
  BY <1>9, <1>10, <1>11, <1>12, <1>13, <1>14, <1>15

\* The endpoint is closed: its owner knows, or the recovery that closes it opens it again.
LEMMA LockCloseKeeps ==
  ASSUME ManagerInv, NEW p \in Procs, LockClose(p)
  PROVE  ManagerInv'
<1> USE DEF ManagerInv, sessionVars
<1>1. PICK s \in {"teardown", "unlock"} : Go(p, s)
  BY DEF LockClose
<1>2. s \in Places /\ s \in Holding /\ place[p] = "close"
  BY DEF Places, Holding, LockClose
<1>3. Moves(p, s)
  BY <1>1, <1>2, GoMoves
<1>4. p # Reconnector /\ (p \in Users \/ p \in Recoveries)
  BY <1>2, WhoCalls, Apart
<1>5. \A q \in Procs : place[q] \notin Holding
  BY NobodyInside DEF LockClose
<1>6. late' \in BOOLEAN /\ dev' = FALSE /\ connected' = FALSE /\ indications' = 0 /\ desired' = FALSE
  BY DEF LockClose, Shut, Types
<1>7. /\ wish' \in [Recoveries -> BOOLEAN] /\ crossed' \subseteq Recoveries
      /\ \A r \in Recoveries \ crossed' :
           wish'[r] => r \notin crossed /\ wish[r] /\ (r = p \/ place[r] = "idle")
  <2>1. CASE p \in Recoveries
    BY <2>1 DEF LockClose, Types
  <2>2. CASE p \notin Recoveries
    BY <2>2 DEF LockClose, NobodyWishes, Types
  <2>3. QED
    BY <2>1, <2>2
<1>8. told' \in BOOLEAN /\ (told => told') /\ (p \in Users => told')
  BY Zenon DEF LockClose
<1>9. Types'
  <2>1. indications' \in Nat /\ spawned' \in Nat /\ indications' + spawned' <= drops'
    BY <1>6 DEF LockClose, Types
  <2>2. QED
    BY <1>3, <1>6, <1>7, <1>8, <2>1 DEF LockClose, Lock, Types, Moves
<1>10. Held'
  BY <1>2, <1>3, HeldTaken DEF LockClose
<1>11. Ways'
  BY <1>2, <1>3, <1>4, Apart DEF LockClose, Moves, Types, Ways, UserPlaces, RecoveryPlaces,
                                 ReconnectorPlaces, Early, Late
<1>12. Managed'
  BY <1>3, <1>5, <1>6 DEF Moves, Types, Managed, Late, Holding
<1>13. Lost'
  BY <1>3, <1>4, <1>8 DEF Moves, Types, Lost
<1>14. Tended'
  BY <1>3, <1>4, <1>5, <1>6 DEF LockClose, Lock, Moves, Types, Tended, Late, Holding
<1>15. Wishes'
  BY <1>2, <1>3, <1>7 DEF LockClose, Moves, Types, Wishes
<1>16. QED
  BY <1>9, <1>10, <1>11, <1>12, <1>13, <1>14, <1>15

\* A call is done, and the session of one that closes may be ended.
LEMMA UnlockKeeps ==
  ASSUME ManagerInv, NEW p \in Procs, Unlock(p)
  PROVE  ManagerInv'
<1> USE DEF ManagerInv, dataVars, healthVars, recoveryVars, lossVars
<1>1. place[p] \in {"teardown", "unlock"} /\ place[p] \in Holding /\ Finish(p, "ok")
  BY DEF Unlock, Holding
<1>2. PICK s \in Places : Moves(p, s) /\ Ends(p, "ok", s)
  BY <1>1, FinishMoves
<1>3. /\ s \in {"idle", "open"} /\ p # Reconnector
      /\ (p \in Users => s = "idle") /\ (p \in Recoveries => s = "open")
  BY <1>1, <1>2, WhoCalls, Apart DEF Ends
<1>4. dataMu' = {} /\ reopened' = FALSE /\ missed' = missed
  BY <1>1, FinishMoves, Zenon DEF Types
<1>5. \A q \in Procs : place[q] \in Holding => q = p
  BY <1>1, AloneInside
<1>6. session' \in BOOLEAN /\ (place[p] # "teardown" => session' = session)
  <2>1. session' \in BOOLEAN
    BY Zenon DEF Unlock
  <2>2. QED
    BY <2>1 DEF Unlock, Types
<1>7. Types'
  BY <1>2, <1>4, <1>6 DEF Unlock, Types, Moves
<1>8. Held'
  BY <1>1, <1>2, <1>3, <1>4, HeldFreed DEF Holding
<1>9. Ways'
  BY <1>1, <1>2, <1>3, Apart DEF Unlock, Moves, Types, Ways, UserPlaces, RecoveryPlaces,
                                 ReconnectorPlaces, Early, Late
<1>10. Managed'
  BY <1>1, <1>2, <1>3 DEF Unlock, Moves, Types, Managed, Late
<1>11. Lost'
  BY <1>1, <1>2, <1>3, Apart DEF Unlock, Moves, Types, Lost
<1>12. Tended'
  <2>1. \A q \in Procs : place'[q] \notin Late
    BY <1>2, <1>3, <1>5 DEF Moves, Types, Late, Holding
  <2>2. place'[Reconnector] = place[Reconnector]
    BY <1>2, <1>3 DEF Moves, Types
  <2>3. connected => place[p] # "teardown"
    BY DEF Managed
  <2>4. ~session /\ connected =>
          indications > 0 \/ spawned > 0 \/ missed \/ unheard \/ Turned
    BY <1>1, <1>5 DEF Tended, Noticed, Early, Holding
  <2>5. QED
    BY <1>4, <1>6, <2>1, <2>2, <2>3, <2>4 DEF Unlock, Tended, Noticed, Turned
<1>13. Wishes'
  BY <1>1, <1>2, <1>3 DEF Unlock, Moves, Types, Wishes
<1>14. QED
  BY <1>7, <1>8, <1>9, <1>10, <1>11, <1>12, <1>13

\* A caller calls.
LEMMA BeginKeeps ==
  ASSUME ManagerInv, NEW u \in Users, Begin(u)
  PROVE  ManagerInv'
<1> USE DEF ManagerInv, dataVars, healthVars, recoveryVars, lossVars, lockVars, sessionVars
<1>1. PICK k \in Kinds : Go(u, k)
  BY DEF Begin
<1>2. u \in Procs /\ k \in Places /\ k \notin Holding /\ place[u] = "idle"
  BY Apart DEF Kinds, Places, Holding, Begin
<1>3. Moves(u, k)
  BY <1>1, <1>2, GoMoves
<1>4. u \notin Recoveries /\ u # Reconnector
  BY Apart
<1>5. Types'
  <2>1. calls' \in 0..MaxCalls
    BY NumbersAssumption DEF Begin, Types
  <2>2. QED
    BY <1>3, <2>1 DEF Begin, Types, Moves
<1>6. Held'
  BY <1>2, <1>3, HeldKept DEF Begin, Holding
<1>7. Ways'
  BY <1>2, <1>3, <1>4, Apart DEF Begin, Kinds, Moves, Types, Ways, UserPlaces, RecoveryPlaces,
                                 ReconnectorPlaces, Early, Late
<1>8. Managed'
  BY <1>2, <1>3 DEF Begin, Kinds, Moves, Types, Managed, Late
<1>9. Lost'
  BY <1>2, <1>3, <1>4 DEF Begin, Moves, Types, Lost
<1>10. Tended'
  BY <1>2, <1>3, <1>4 DEF Begin, Kinds, Moves, Types, Tended, Noticed, Turned, Early, Late
<1>11. Wishes'
  BY <1>3, <1>4 DEF Begin, Moves, Types, Wishes
<1>12. QED
  BY <1>5, <1>6, <1>7, <1>8, <1>9, <1>10, <1>11

\* A probe that has an endpoint reopened begins one idle recovery, with the wish of the moment.
LEMMA TriggerMoves ==
  ASSUME Types, TriggerReopen
  PROVE  \/ UNCHANGED <<gate, place, attempt, wish>>
         \/ /\ gate' = TRUE
            /\ \E r \in Recoveries :
                 /\ place[r] = "idle" /\ Moves(r, "begin")
                 /\ attempt' = [attempt EXCEPT ![r] = 1]
                 /\ wish' = [wish EXCEPT ![r] = desired]
<1> DEFINE idle == {q \in Recoveries : place[q] = "idle"}
           chosen == CHOOSE q \in idle : TRUE
<1>1. SUFFICES ASSUME ~gate
               PROVE  /\ gate' = TRUE
                      /\ \E r \in Recoveries :
                           /\ place[r] = "idle" /\ Moves(r, "begin")
                           /\ attempt' = [attempt EXCEPT ![r] = 1]
                           /\ wish' = [wish EXCEPT ![r] = desired]
  BY DEF TriggerReopen
<1>2. idle # {} /\ gate' = TRUE /\ Go(chosen, "begin")
      /\ attempt' = [attempt EXCEPT ![chosen] = 1] /\ wish' = [wish EXCEPT ![chosen] = desired]
  BY <1>1 DEF TriggerReopen
<1>3. chosen \in Recoveries /\ place[chosen] = "idle"
  BY <1>2
<1> HIDE DEF chosen, idle
<1>4. Moves(chosen, "begin")
  BY <1>2, <1>3, GoMoves DEF Procs, Places
<1>5. QED
  BY <1>2, <1>3, <1>4

\* A probe counts a failure or none, and may begin a recovery.
LEMMA ProbeSteps ==
  ASSUME Types, Probe
  PROVE  /\ failures' \in 0..Threshold /\ late' \in BOOLEAN
         /\ \/ UNCHANGED <<gate, place, attempt, wish>>
            \/ /\ gate' = TRUE
               /\ \E r \in Recoveries :
                    /\ place[r] = "idle" /\ Moves(r, "begin")
                    /\ attempt' = [attempt EXCEPT ![r] = 1]
                    /\ wish' = [wish EXCEPT ![r] = desired]
<1>1. late' \in BOOLEAN
  BY DEF Probe, Types
<1>2. failures' \in 0..Threshold
  BY NumbersAssumption DEF Probe, ProbeAnswered, ProbeFailed, Types
<1>3. UNCHANGED <<gate, place, attempt, wish>> \/ TriggerReopen
  BY DEF Probe, ProbeAnswered, ProbeFailed
<1>4. QED
  BY <1>1, <1>2, <1>3, TriggerMoves

\* A probe changes nothing that a session rests on.
LEMMA ProbeKeeps ==
  ASSUME ManagerInv, Probe
  PROVE  ManagerInv'
<1> USE DEF ManagerInv, dataVars, lossVars, lockVars, sessionVars
<1>1. failures' \in 0..Threshold /\ late' \in BOOLEAN
  BY ProbeSteps
<1>2. UNCHANGED <<calls, dev, dataVars, cont, lockVars, want, crossed, told, lossVars,
                  sessionVars>>
  BY DEF Probe
<1>3. CASE UNCHANGED <<gate, place, attempt, wish>>
  <2>1. Types' /\ Held' /\ Ways' /\ Wishes'
    BY <1>1, <1>2, <1>3 DEF Types, Held, Ways, Wishes
  <2>2. Managed' /\ Lost' /\ Tended'
    BY <1>2, <1>3 DEF Managed, Lost, Tended, Noticed, Turned
  <2>3. QED
    BY <2>1, <2>2
<1>4. ASSUME NEW r \in Recoveries, place[r] = "idle", Moves(r, "begin"), gate' = TRUE,
             attempt' = [attempt EXCEPT ![r] = 1], wish' = [wish EXCEPT ![r] = desired]
      PROVE  ManagerInv'
  <2>1. r \in Procs /\ r \notin Users /\ r # Reconnector /\ "begin" \in Places
    BY Apart DEF Places
  <2>2. Types'
    <3>1. attempt' \in [Recoveries -> 0..Attempts]
      BY <1>4, NumbersAssumption DEF Types
    <3>2. wish' \in [Recoveries -> BOOLEAN]
      BY <1>4 DEF Types
    <3>3. QED
      BY <1>1, <1>2, <1>4, <3>1, <3>2 DEF Types, Moves
  <2>3. Held'
    BY <1>2, <1>4, <2>1, HeldKept DEF Holding
  <2>4. Ways'
    BY <1>2, <1>4, <2>1 DEF Moves, Types, Ways, UserPlaces, RecoveryPlaces, ReconnectorPlaces,
                            Early, Late
  <2>5. Managed'
    BY <1>2, <1>4, <2>1 DEF Moves, Types, Managed, Late
  <2>6. Lost'
    BY <1>2, <1>4, <2>1 DEF Moves, Types, Lost
  <2>7. Tended'
    BY <1>2, <1>4, <2>1 DEF Moves, Types, Tended, Noticed, Turned, Early, Late
  <2>8. Wishes'
    BY <1>2, <1>4, <2>1 DEF Moves, Types, Wishes
  <2>9. QED
    BY <2>2, <2>3, <2>4, <2>5, <2>6, <2>7, <2>8
<1>5. QED
  BY <1>3, <1>4, ProbeSteps

\* A recovery goes from one of its own labels to another, without the lock.
LEMMA RecoveryMoves ==
  ASSUME ManagerInv, NEW r \in Recoveries, NEW s \in {"idle", "connect", "close", "verify", "failed"},
         Moves(r, s), place[r] \in {"begin", "open", "verify", "failed"},
         UNCHANGED <<calls, connected, desired, reopened, dataMu, missed, lossVars, sessionVars>>,
         dev' \in BOOLEAN, dev => dev', failures' \in 0..Threshold, late' \in BOOLEAN,
         told' \in BOOLEAN, told /\ ~dev' => told', s = "idle" => dev' \/ told',
         gate' \in BOOLEAN, want' \in [Recoveries -> BOOLEAN],
         attempt' \in [Recoveries -> 0..Attempts], wish' \in [Recoveries -> BOOLEAN],
         crossed' \subseteq Recoveries,
         cont' \in [Procs -> [ok : Places, failed : Places]],
         \A p \in Procs \ {r} : cont'[p] = cont[p],
         s = "close" => cont'[r] = Both, s = "connect" => cont'[r] = Restoring
  PROVE  Types' /\ Held' /\ Ways' /\ Managed' /\ Lost' /\ Tended'
<1> USE DEF ManagerInv, lossVars, sessionVars
<1>1. r \in Procs /\ r \notin Users /\ r # Reconnector /\ s \in Places /\ s \notin Holding
      /\ place[r] \notin Holding /\ Reconnector \in Procs /\ Users \subseteq Procs
  BY Apart DEF Places, Holding
<1>2. Types'
  BY DEF Types, Moves
<1>3. Held'
  BY <1>1, HeldKept
<1>4. Ways'
  <2>1. \A u \in Users : cont'[u] = Nowhere /\ place'[u] \in UserPlaces
    BY <1>1 DEF Moves, Types, Ways
  <2>2. \A q \in Recoveries :
          /\ place'[q] \in RecoveryPlaces
          /\ place'[q] \in {"close", "teardown", "unlock"} => cont'[q] = Both
          /\ place'[q] \in {"connect"} \cup Early \cup Late => cont'[q] = Restoring
    BY <1>1, Apart DEF Moves, Types, Ways, RecoveryPlaces, Early, Late
  <2>3. /\ place'[Reconnector] \in ReconnectorPlaces
        /\ place'[Reconnector] \in {"connect"} \cup Early \cup Late => cont'[Reconnector] = Again
        /\ reconnectGate' <=> place'[Reconnector] # "idle"
    BY <1>1 DEF Moves, Types, Ways
  <2>4. QED
    BY <2>1, <2>2, <2>3 DEF Ways
<1>5. Managed'
  BY <1>1 DEF Moves, Types, Managed, Late
<1>6. Lost'
  BY <1>1 DEF Moves, Types, Lost
<1>7. Tended'
  BY <1>1 DEF Moves, Types, Tended, Noticed, Turned, Early, Late
<1>8. QED
  BY <1>2, <1>3, <1>4, <1>5, <1>6, <1>7

\* An attempt reads the wish before it closes the endpoint.
LEMMA BeginAttemptKeeps ==
  ASSUME ManagerInv, NEW r \in Recoveries, BeginAttempt(r)
  PROVE  ManagerInv'
<1> USE DEF ManagerInv, dataVars, healthVars, lockVars, lossVars, sessionVars
<1>1. r \in Procs /\ "close" \in Places /\ Both \in [ok : Places, failed : Places]
  BY Apart DEF Places, Both
<1>2. Moves(r, "close") /\ place[r] \in {"begin", "failed"}
  BY <1>1, GoMoves DEF BeginAttempt, Call
<1>3. cont' = [cont EXCEPT ![r] = Both]
  BY DEF BeginAttempt, Call, Both
<1>4. want' = [want EXCEPT ![r] = desired] /\ want' \in [Recoveries -> BOOLEAN]
  BY DEF BeginAttempt, ReadDesired, Types
<1>5. attempt' \in [Recoveries -> 0..Attempts]
  BY NumbersAssumption DEF BeginAttempt, Types
<1>6. /\ wish' \in [Recoveries -> BOOLEAN]
      /\ \/ wish' = wish /\ place[r] = "begin"
         \/ wish' = [wish EXCEPT ![r] = FALSE]
  BY DEF BeginAttempt, Types
<1>7. Types' /\ Held' /\ Ways' /\ Managed' /\ Lost' /\ Tended'
  <2>1. cont' \in [Procs -> [ok : Places, failed : Places]]
    BY <1>1, <1>3 DEF Types
  <2>2. UNCHANGED <<calls, connected, desired, reopened, dataMu, missed, lossVars, sessionVars>>
        /\ crossed' \subseteq Recoveries
    BY DEF BeginAttempt, Types
  <2>3. /\ dev' \in BOOLEAN /\ (dev => dev') /\ failures' \in 0..Threshold /\ late' \in BOOLEAN
        /\ told' \in BOOLEAN /\ (told /\ ~dev' => told') /\ gate' \in BOOLEAN
    BY DEF BeginAttempt, Types
  <2>4. \A p \in Procs \ {r} : cont'[p] = cont[p]
    BY <1>3 DEF Types
  <2>5. cont'[r] = Both
    BY <1>1, <1>3 DEF Types
  <2>6. QED
    BY <1>2, <1>4, <1>5, <1>6, <2>1, <2>2, <2>3, <2>4, <2>5, RecoveryMoves
<1>8. Wishes'
  <2>1. ASSUME NEW q \in Recoveries \ crossed', wish'[q], q # r
        PROVE  /\ place'[q] \in {"begin", "verify"} => desired'
               /\ place'[q] \in {"close", "teardown", "unlock", "open"} => want'[q]
    <3>1. q \notin crossed /\ wish[q] /\ place'[q] = place[q] /\ want'[q] = want[q]
          /\ desired' = desired
      BY <1>2, <1>4, <1>6, <2>1, Apart DEF BeginAttempt, Moves, Types
    <3>2. QED
      BY <3>1 DEF Wishes
  <2>2. ASSUME r \notin crossed', wish'[r]
        PROVE  place'[r] = "close" /\ want'[r]
    <3>1. r \notin crossed /\ wish[r] /\ place[r] = "begin"
      BY <1>6, <2>2 DEF BeginAttempt, Types
    <3>2. desired
      BY <3>1 DEF Wishes
    <3>3. QED
      BY <1>1, <1>2, <1>4, <3>2 DEF Moves, Types
  <2>3. QED
    BY <2>1, <2>2 DEF Wishes
<1>9. QED
  BY <1>7, <1>8

\* An endpoint that opens goes on to the session if that was wanted.
LEMMA OpenEndsKeeps ==
  ASSUME ManagerInv, NEW r \in Recoveries, OpenEnds(r)
  PROVE  ManagerInv'
<1> USE DEF ManagerInv, dataVars, healthVars, lockVars, lossVars, sessionVars
<1>1. r \in Procs /\ {"connect", "verify", "failed"} \subseteq Places
      /\ Restoring \in [ok : Places, failed : Places] /\ place[r] = "open"
  BY Apart DEF Places, Restoring, OpenEnds
<1>2. PICK s \in {"connect", "verify", "failed"} :
        /\ Moves(r, s) /\ (s = "verify" => ~want[r])
        /\ IF s = "connect" THEN cont' = [cont EXCEPT ![r] = Restoring] ELSE cont' = cont
  BY <1>1, GoMoves DEF OpenEnds, Call, Restoring
<1>3. want' = [want EXCEPT ![r] = FALSE] /\ want' \in [Recoveries -> BOOLEAN]
  BY DEF OpenEnds, Types
<1>4. Types' /\ Held' /\ Ways' /\ Managed' /\ Lost' /\ Tended'
  <2>1. cont' \in [Procs -> [ok : Places, failed : Places]]
    BY <1>1, <1>2 DEF Types
  <2>2. UNCHANGED <<calls, connected, desired, reopened, dataMu, missed, lossVars, sessionVars>>
        /\ crossed' \subseteq Recoveries
    BY DEF OpenEnds, Types
  <2>3. failures' \in 0..Threshold
    BY NumbersAssumption DEF OpenEnds, Opened, Types
  <2>4. /\ dev' \in BOOLEAN /\ (dev => dev') /\ late' \in BOOLEAN
        /\ told' \in BOOLEAN /\ (told /\ ~dev' => told') /\ gate' \in BOOLEAN
    BY DEF OpenEnds, Opened, Types
  <2>5. attempt' \in [Recoveries -> 0..Attempts] /\ wish' \in [Recoveries -> BOOLEAN]
    BY DEF OpenEnds, Types
  <2>6. \A p \in Procs \ {r} : cont'[p] = cont[p]
    BY <1>2 DEF Types
  <2>7. s = "connect" => cont'[r] = Restoring
    BY <1>1, <1>2 DEF Types
  <2>8. QED
    BY <1>1, <1>2, <1>3, <2>1, <2>2, <2>3, <2>4, <2>5, <2>6, <2>7, RecoveryMoves
<1>5. Wishes'
  BY <1>1, <1>2, <1>3 DEF OpenEnds, Moves, Types, Wishes
<1>6. QED
  BY <1>4, <1>5

\* A recovery that is done with rests, with the gate open behind it.
LEMMA RestKeeps ==
  ASSUME ManagerInv, NEW r \in Recoveries, Rest(r), OpenGate, NoMoreOf(r),
         place[r] \in {"verify", "failed"}, dev \/ told', told' \in BOOLEAN, told => told',
         UNCHANGED <<calls, dev, dataVars, healthVars, lockVars, want, lossVars, sessionVars>>
  PROVE  ManagerInv'
<1> USE DEF ManagerInv, dataVars, healthVars, lockVars, lossVars, sessionVars
<1>1. r \in Procs /\ "idle" \in Places /\ Nowhere \in [ok : Places, failed : Places]
  BY Apart DEF Places, Nowhere
<1>2. Moves(r, "idle") /\ cont' = [cont EXCEPT ![r] = Nowhere]
  BY <1>1, GoMoves DEF Rest
<1>3. attempt' \in [Recoveries -> 0..Attempts]
  BY NumbersAssumption DEF NoMoreOf, Types
<1>4. /\ wish' = [wish EXCEPT ![r] = FALSE] /\ wish' \in [Recoveries -> BOOLEAN]
      /\ crossed' = crossed \ {r} /\ crossed' \subseteq Recoveries
  BY DEF NoMoreOf, Types
<1>5. Types' /\ Held' /\ Ways' /\ Managed' /\ Lost' /\ Tended'
  <2>1. cont' \in [Procs -> [ok : Places, failed : Places]]
    BY <1>1, <1>2 DEF Types
  <2>2. dev' \in BOOLEAN /\ (dev => dev') /\ failures' \in 0..Threshold /\ late' \in BOOLEAN
    BY DEF Types
  <2>3. gate' \in BOOLEAN /\ want' \in [Recoveries -> BOOLEAN]
    BY DEF OpenGate, Types
  <2>4. \A p \in Procs \ {r} : cont'[p] = cont[p]
    BY <1>2 DEF Types
  <2>5. (told /\ ~dev' => told') /\ (dev' \/ told')
    OBVIOUS
  <2>6. UNCHANGED <<calls, connected, desired, reopened, dataMu, missed, lossVars, sessionVars>>
    OBVIOUS
  <2>7. QED
    BY <1>2, <1>3, <1>4, <2>1, <2>2, <2>3, <2>4, <2>5, <2>6, RecoveryMoves
<1>6. Wishes'
  BY <1>2, <1>4 DEF Moves, Types, Wishes
<1>7. QED
  BY <1>5, <1>6

\* The verification ends a recovery, or fails its attempt.
LEMMA VerifyKeeps ==
  ASSUME ManagerInv, NEW r \in Recoveries, Verify(r)
  PROVE  ManagerInv'
<1> USE DEF ManagerInv, dataVars, healthVars, lockVars, lossVars, sessionVars
<1>1. CASE dev /\ modem = "ok"
  BY <1>1, RestKeeps DEF Verify, Types
<1>2. CASE ~(dev /\ modem = "ok")
  <2>1. Go(r, "failed") /\ UNCHANGED <<gate, attempt, wish, crossed, cont>> /\ place[r] = "verify"
    BY <1>2 DEF Verify
  <2>2. Moves(r, "failed")
    BY <2>1, Apart, GoMoves DEF Places
  <2>3. UNCHANGED <<calls, dev, dataVars, healthVars, lockVars, want, told, lossVars, sessionVars>>
    BY DEF Verify
  <2>4. Types' /\ Held' /\ Ways' /\ Managed' /\ Lost' /\ Tended'
    <3>1. UNCHANGED <<calls, connected, desired, reopened, dataMu, missed, lossVars, sessionVars>>
      BY <2>3
    <3>2. /\ dev' \in BOOLEAN /\ (dev => dev') /\ failures' \in 0..Threshold /\ late' \in BOOLEAN
          /\ told' \in BOOLEAN /\ (told /\ ~dev' => told') /\ gate' \in BOOLEAN
          /\ want' \in [Recoveries -> BOOLEAN] /\ wish' \in [Recoveries -> BOOLEAN]
          /\ crossed' \subseteq Recoveries /\ attempt' \in [Recoveries -> 0..Attempts]
          /\ cont' \in [Procs -> [ok : Places, failed : Places]]
      BY <2>1, <2>3 DEF Types
    <3>3. \A p \in Procs \ {r} : cont'[p] = cont[p]
      BY <2>1
    <3>4. QED
      BY <2>1, <2>2, <3>1, <3>2, <3>3, RecoveryMoves
  <2>5. Wishes'
    BY <2>1, <2>2, <2>3 DEF Moves, Types, Wishes
  <2>6. QED
    BY <2>4, <2>5
<1>3. QED
  BY <1>1, <1>2

\* A recovery that gives up tells the owner.
LEMMA GiveUpKeeps ==
  ASSUME ManagerInv, NEW r \in Recoveries, GiveUp(r)
  PROVE  ManagerInv'
BY RestKeeps DEF GiveUp, TellExhausted, ManagerInv

\* The network drops the session; an open endpoint hears of it, or does not.
LEMMA DropKeeps ==
  ASSUME ManagerInv, Drop
  PROVE  ManagerInv'
<1> USE DEF ManagerInv, dataVars, healthVars, lockVars, recoveryVars
<1>1. Types'
  <2>1. indications' \in Nat /\ spawned' \in Nat /\ indications' + spawned' <= drops'
        /\ drops' \in 0..MaxDrops
    BY NumbersAssumption DEF Drop, Types
  <2>2. crossed' \subseteq Recoveries /\ unheard' \in BOOLEAN
    BY DEF Drop, Types
  <2>3. QED
    BY <2>1, <2>2 DEF Drop, Types
<1>2. Held' /\ Ways' /\ Managed' /\ Lost' /\ Wishes'
  BY DEF Drop, Held, Ways, Managed, Lost, Wishes
<1>3. Tended'
  <2>1. indications' > 0 \/ unheard'
    BY DEF Drop, Types
  <2>2. QED
    BY <2>1 DEF Tended, Noticed
<1>4. QED
  BY <1>1, <1>2, <1>3

\* The loss is known, and a session that is desired will be connected again.
LEMMA LoseKeeps ==
  ASSUME ManagerInv, HandleConnectIndication
  PROVE  ManagerInv'
<1> USE DEF ManagerInv, healthVars, lockVars, recoveryVars, sessionVars
<1>1. Types'
  <2>1. indications' \in Nat /\ spawned' \in Nat /\ indications' + spawned' <= drops'
    BY DEF HandleConnectIndication, Lose, Types
  <2>2. crossed' \subseteq Recoveries
    BY DEF HandleConnectIndication, Types
  <2>3. QED
    BY <2>1, <2>2 DEF HandleConnectIndication, Lose, Types
<1>2. Held' /\ Ways' /\ Managed' /\ Lost' /\ Wishes'
  BY DEF HandleConnectIndication, Lose, Held, Ways, Managed, Lost, Wishes
<1>3. Tended'
  <2>1. desired => spawned' > 0
    BY DEF HandleConnectIndication, Lose, Types
  <2>2. (\E p \in Procs : place'[p] \in Late) => desired
    BY DEF HandleConnectIndication, Managed
  <2>3. QED
    BY <2>1, <2>2 DEF HandleConnectIndication, Lose, Tended, Noticed
<1>4. QED
  BY <1>1, <1>2, <1>3

\* A reconnection takes the gate, or has missed its turn.
LEMMA ReconnectKeeps ==
  ASSUME ManagerInv, Reconnect
  PROVE  ManagerInv'
<1> USE DEF ManagerInv, dataVars, healthVars, recoveryVars, sessionVars
<1>1. indications' \in Nat /\ spawned' \in Nat /\ indications' + spawned' <= drops'
  BY DEF Reconnect, Types
<1>2. CASE missed' = TRUE /\ UNCHANGED <<reconnectGate, place, tries>>
  <2>1. Types'
    BY <1>1, <1>2 DEF Reconnect, Types
  <2>2. Held' /\ Ways' /\ Managed' /\ Lost' /\ Wishes'
    BY <1>2 DEF Reconnect, Held, Ways, Managed, Lost, Wishes
  <2>3. Tended'
    BY <1>2 DEF Tended, Noticed
  <2>4. QED
    BY <2>1, <2>2, <2>3
<1>3. CASE /\ ~reconnectGate /\ reconnectGate' = TRUE /\ Go(Reconnector, "try") /\ tries' = 0
           /\ UNCHANGED missed
  <2>1. Reconnector \in Procs /\ Reconnector \notin Users /\ Reconnector \notin Recoveries
        /\ "try" \in Places
    BY Apart DEF Places
  <2>2. Moves(Reconnector, "try") /\ place[Reconnector] = "idle"
    BY <1>3, <2>1, GoMoves DEF Ways
  <2>3. Types'
    <3>1. tries' \in 0..Tries
      BY <1>3, NumbersAssumption
    <3>2. QED
      BY <1>1, <1>3, <2>2, <3>1 DEF Reconnect, Types, Moves
  <2>4. Held'
    BY <2>1, <2>2, HeldKept DEF Reconnect, Holding
  <2>5. Ways'
    BY <1>3, <2>1, <2>2, Apart DEF Reconnect, Moves, Types, Ways, UserPlaces, RecoveryPlaces,
                                   ReconnectorPlaces, Early, Late
  <2>6. Managed'
    BY <2>1, <2>2 DEF Reconnect, Moves, Types, Managed, Late
  <2>7. Lost'
    BY <2>1, <2>2 DEF Reconnect, Moves, Types, Lost
  <2>8. Tended'
    BY <1>3, <2>1, <2>2 DEF Moves, Types, Tended, Noticed, Turned
  <2>9. Wishes'
    BY <2>1, <2>2 DEF Reconnect, Moves, Types, Wishes
  <2>10. QED
    BY <2>3, <2>4, <2>5, <2>6, <2>7, <2>8, <2>9
<1>4. QED
  BY <1>2, <1>3 DEF Reconnect

\* The reconnection tries while the session is desired; one it does not try for is not to
\* be had, or was tried for and missed.
LEMMA TryKeeps ==
  ASSUME ManagerInv, Try
  PROVE  ManagerInv'
<1> USE DEF ManagerInv, dataVars, healthVars, lockVars, recoveryVars, sessionVars
<1>1. Reconnector \in Procs /\ Reconnector \notin Users /\ Reconnector \notin Recoveries
      /\ {"connect", "release"} \subseteq Places /\ Again \in [ok : Places, failed : Places]
      /\ place[Reconnector] = "try"
  BY Apart DEF Places, Again, Try
<1>2. CASE desired /\ tries < Tries
  <2>1. Moves(Reconnector, "connect") /\ cont' = [cont EXCEPT ![Reconnector] = Again]
    BY <1>1, <1>2, GoMoves DEF Try, Call, Again
  <2>2. Types'
    <3>1. cont' \in [Procs -> [ok : Places, failed : Places]]
      BY <1>1, <2>1 DEF Types
    <3>2. tries' \in 0..Tries
      BY <1>2, NumbersAssumption DEF Try, Types
    <3>3. QED
      BY <2>1, <3>1, <3>2 DEF Try, Types, Moves
  <2>3. Held'
    BY <1>1, <2>1, HeldKept DEF Try, Holding
  <2>4. Ways'
    BY <1>1, <2>1, Apart DEF Try, Moves, Types, Ways, UserPlaces, RecoveryPlaces,
                             ReconnectorPlaces, Early, Late
  <2>5. Managed'
    BY <1>1, <2>1 DEF Try, Moves, Types, Managed, Late
  <2>6. Lost'
    BY <1>1, <2>1 DEF Try, Moves, Types, Lost
  <2>7. Tended'
    BY <1>1, <2>1 DEF Moves, Types, Tended, Noticed, Turned
  <2>8. Wishes'
    BY <1>1, <2>1 DEF Try, Moves, Types, Wishes
  <2>9. QED
    BY <2>2, <2>3, <2>4, <2>5, <2>6, <2>7, <2>8
<1>3. CASE ~(desired /\ tries < Tries)
  <2>1. Moves(Reconnector, "release") /\ UNCHANGED <<cont, tries>>
    BY <1>1, <1>3, GoMoves DEF Try
  <2>2. Types'
    BY <2>1 DEF Try, Types, Moves
  <2>3. Held'
    BY <1>1, <2>1, HeldKept DEF Try, Holding
  <2>4. Ways'
    BY <1>1, <2>1, Apart DEF Try, Moves, Types, Ways, UserPlaces, RecoveryPlaces,
                             ReconnectorPlaces, Early, Late
  <2>5. Managed'
    BY <1>1, <2>1 DEF Try, Moves, Types, Managed, Late
  <2>6. Lost'
    BY <1>1, <2>1 DEF Try, Moves, Types, Lost
  <2>7. Tended'
    <3>1. CASE desired
      <4>1. ~Turned
        BY <1>1, <1>3, <3>1, NumbersAssumption DEF Turned
      <4>2. \A p \in Procs : place[p] \in Early \cup {"disconnecting", "rotating"}
                              => place'[p] = place[p]
        BY <1>1, <2>1 DEF Moves, Types, Early
      <4>3. \A p \in Procs : place'[p] \in Late => place[p] \in Late
        BY <1>1, <2>1 DEF Moves, Types, Late
      <4>4. QED
        BY <4>1, <4>2, <4>3 DEF Try, lossVars, Tended, Noticed
    <3>2. CASE ~desired
      <4>1. \A p \in Procs : place'[p] \notin Late
        BY <1>1, <2>1, <3>2 DEF Managed, Moves, Types, Late
      <4>2. connected => \E p \in Procs : place'[p] \in {"disconnecting", "rotating"}
        BY <1>1, <2>1, <3>2 DEF Moves, Types, Managed
      <4>3. QED
        BY <4>1, <4>2 DEF Try, Tended, Noticed
    <3>3. QED
      BY <3>1, <3>2
  <2>8. Wishes'
    BY <1>1, <2>1 DEF Try, Moves, Types, Wishes
  <2>9. QED
    BY <2>2, <2>3, <2>4, <2>5, <2>6, <2>7, <2>8
<1>4. QED
  BY <1>2, <1>3

\* The next loss may have its reconnection.
LEMMA ReleaseKeeps ==
  ASSUME ManagerInv, Release
  PROVE  ManagerInv'
<1> USE DEF ManagerInv, dataVars, healthVars, lockVars, recoveryVars, sessionVars
<1>1. Reconnector \in Procs /\ Reconnector \notin Users /\ Reconnector \notin Recoveries
      /\ "idle" \in Places /\ Nowhere \in [ok : Places, failed : Places]
      /\ place[Reconnector] = "release"
  BY Apart DEF Places, Nowhere, Release
<1>2. Moves(Reconnector, "idle") /\ cont' = [cont EXCEPT ![Reconnector] = Nowhere]
  BY <1>1, GoMoves DEF Release, Rest
<1>3. Types'
  <2>1. cont' \in [Procs -> [ok : Places, failed : Places]]
    BY <1>1, <1>2 DEF Types
  <2>2. tries' \in 0..Tries
    BY NumbersAssumption DEF Release
  <2>3. crossed' \subseteq Recoveries
    BY DEF Release, Types
  <2>4. QED
    BY <1>2, <2>1, <2>2, <2>3 DEF Release, Types, Moves
<1>4. Held'
  BY <1>1, <1>2, HeldKept DEF Release, Holding
<1>5. Ways'
  BY <1>1, <1>2, Apart DEF Release, Moves, Types, Ways, UserPlaces, RecoveryPlaces,
                           ReconnectorPlaces, Early, Late
<1>6. Managed'
  BY <1>1, <1>2 DEF Release, Moves, Types, Managed, Late
<1>7. Lost'
  BY <1>1, <1>2 DEF Release, Moves, Types, Lost
<1>8. Tended'
  BY <1>1, <1>2 DEF Release, Moves, Types, Tended, Noticed, Turned, Early, Late
<1>9. Wishes'
  BY <1>1, <1>2 DEF Release, Moves, Types, Wishes
<1>10. QED
  BY <1>3, <1>4, <1>5, <1>6, <1>7, <1>8, <1>9

\* What the modem does leaves the manager as it is.
LEMMA ModemKeeps ==
  ASSUME ManagerInv, Deafen \/ Hears
  PROVE  ManagerInv'
<1> USE DEF ManagerInv, dataVars, healthVars, lockVars, recoveryVars, lossVars
<1>1. UNCHANGED <<calls, dev, dataVars, healthVars, place, cont, lockVars, recoveryVars, told,
                  lossVars, session, drops>>
  BY DEF Deafen, Hears
<1>2. Types'
  <2>1. modem' \in {"ok", "deaf"} /\ deafs' \in 0..MaxDeaf
    BY NumbersAssumption DEF Deafen, Hears, Types
  <2>2. QED
    BY <1>1, <2>1 DEF Types
<1>3. Held' /\ Ways' /\ Managed' /\ Lost' /\ Tended' /\ Wishes'
  BY <1>1 DEF Held, Ways, Managed, Lost, Tended, Noticed, Turned, Wishes
<1>4. QED
  BY <1>2, <1>3

\* The invariant holds after Open and Connect.
LEMMA ManagerInitInv == ManagerInit => ManagerInv
<1> SUFFICES ASSUME ManagerInit PROVE ManagerInv
  OBVIOUS
<1> USE DEF ManagerInit
<1>1. Types
  <2>1. calls \in 0..MaxCalls /\ failures \in 0..Threshold /\ tries \in 0..Tries
        /\ deafs \in 0..MaxDeaf /\ drops \in 0..MaxDrops
    BY NumbersAssumption
  <2>2. attempt \in [Recoveries -> 0..Attempts]
    BY NumbersAssumption
  <2>3. place \in [Procs -> Places] /\ cont \in [Procs -> [ok : Places, failed : Places]]
    BY DEF Places, Nowhere
  <2>4. want \in [Recoveries -> BOOLEAN] /\ wish \in [Recoveries -> BOOLEAN]
    OBVIOUS
  <2>5. indications \in Nat /\ spawned \in Nat /\ indications + spawned <= drops
    OBVIOUS
  <2>6. QED
    BY <2>1, <2>2, <2>3, <2>4, <2>5 DEF Types
<1>2. Held
  BY DEF Held, Holding
<1>3. Ways
  BY Apart DEF Ways, UserPlaces, RecoveryPlaces, ReconnectorPlaces, Early, Late
<1>4. Managed /\ Lost /\ Wishes
  BY Apart DEF Managed, Lost, Wishes, Late
<1>5. Tended
  BY Apart DEF Tended, Late
<1>6. QED
  BY <1>1, <1>2, <1>3, <1>4, <1>5 DEF ManagerInv

\* Every step keeps it, and so does a step that changes nothing.
LEMMA ManagerStepInv == ManagerInv /\ [ManagerNext]_managerVars => ManagerInv'
<1> SUFFICES ASSUME ManagerInv, [ManagerNext]_managerVars PROVE ManagerInv'
  OBVIOUS
<1>1. CASE UNCHANGED managerVars
  BY <1>1 DEF managerVars, dataVars, healthVars, lockVars, recoveryVars, lossVars, sessionVars,
              ManagerInv, Types, Held, Ways, Managed, Lost, Tended, Noticed, Turned, Wishes
<1>2. ASSUME NEW u \in Users, Begin(u) PROVE ManagerInv'
  BY <1>2, BeginKeeps
<1>3. ASSUME NEW p \in Procs, Running(p) PROVE ManagerInv'
  <2>1. CASE Connecting(p)
    BY <2>1, LockConnectKeeps, RegisterKeeps, ActivateKeeps, ReopenKeeps, ReopenEndsKeeps,
       ConfigureKeeps, CommitKeeps DEF Connecting
  <2>2. CASE LockDisconnect(p) \/ Disconnected(p) \/ LockClose(p) \/ Unlock(p)
    BY <2>2, LockDisconnectKeeps, DisconnectedKeeps, LockCloseKeeps, UnlockKeeps
  <2>3. CASE p \in Recoveries /\ Recovering(p)
    BY <2>3, BeginAttemptKeeps, OpenEndsKeeps, VerifyKeeps, GiveUpKeeps DEF Recovering
  <2>4. CASE p = Reconnector /\ Reconnecting
    BY <2>4, TryKeeps, ReleaseKeeps DEF Reconnecting
  <2>5. QED
    BY <1>3, <2>1, <2>2, <2>3, <2>4 DEF Running
<1>4. QED
  BY <1>1, <1>2, <1>3, ProbeKeeps, LoseKeeps, ReconnectKeeps, DropKeeps, ModemKeeps
     DEF ManagerNext

\* The invariant is one of the specification.
LEMMA ManagerAlways == ManagerSpec => []ManagerInv
BY ManagerInitInv, ManagerStepInv, PTL DEF ManagerSpec

\* The lock's one holder, as a cardinality.
LEMMA OneHolder ==
  ASSUME Held
  PROVE  Cardinality(dataMu) <= 1
<1>1. CASE dataMu = {}
  BY <1>1, FS_EmptySet
<1>2. CASE dataMu # {}
  <2>1. PICK p \in dataMu : TRUE
    BY <1>2
  <2>2. dataMu = {p}
    BY <2>1 DEF Held
  <2>3. Cardinality({p}) = 1
    BY FS_Singleton
  <2>4. QED
    BY <2>2, <2>3
<1>3. QED
  BY <1>1, <1>2

\* The manager is always consistent: its lock has one holder, a session believed up has an
\* endpoint, a lost endpoint was reported and a dropped session is known to be lost, with
\* the exceptions that LossReported and DropNoticed name
\* (ManagerConsistent: manager.go:28-80, 250-262, recovery.go:56-91, dataconn.go:68-141).
THEOREM SpecManaged == ManagerSpec => []ManagerConsistent
<1>1. ManagerInv => ManagerConsistent
  <2> SUFFICES ASSUME ManagerInv PROVE ManagerConsistent
    OBVIOUS
  <2> USE DEF ManagerInv
  <2>1. ManagerTypeOK
    <3>1. indications \in 0..MaxDrops /\ spawned \in 0..MaxDrops
      BY NumbersAssumption DEF Types
    <3>2. dataMu = {p \in Procs : place[p] \in Holding} /\ Cardinality(dataMu) <= 1
      BY OneHolder DEF Held
    <3>3. QED
      BY <3>1, <3>2 DEF Types, ManagerTypeOK
  <2>2. ConnectedHasDevice
    BY DEF Managed, ConnectedHasDevice
  <2>3. LossReported
    BY DEF Lost, LossReported, Quiet
  <2>4. DropNoticed
    <3>1. \A p \in Procs : place[p] \in Early \cup {"disconnecting", "rotating"} => dataMu # {}
      BY DEF Held, Early, Holding
    <3>2. Turned => reconnectGate
      BY DEF Ways, Turned
    <3>3. QED
      BY <3>1, <3>2 DEF Tended, Noticed, DropNoticed, Looked
  <2>5. QED
    BY <2>1, <2>2, <2>3, <2>4 DEF ManagerConsistent
<1>2. QED
  BY <1>1, ManagerAlways, PTL

\* A recovery that is done with its first attempt has restored the session that was desired
\* when it was triggered, unless another recovery or a caller has closed the endpoint
\* meanwhile (DataRestored: recovery.go:93-110, manager.go:258-262).
THEOREM WishesRestored == ManagerSpec => DataRestored
<1>1. ManagerInv /\ [ManagerNext]_managerVars
        => [\A r \in Recoveries :
              place[r] = "verify" /\ place'[r] = "idle" /\ wish[r] /\ r \notin crossed
                => desired]_managerVars
  BY DEF ManagerInv, Wishes
<1>2. QED
  BY <1>1, ManagerAlways, PTL DEF ManagerSpec, DataRestored
=============================================================================
