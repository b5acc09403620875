------------------------------ MODULE SmsInbox ------------------------------
(***************************************************************************)
(* How a message gets from the modem to the database and to the notifier:  *)
(* pool_sms.go for a QMI modem, pool_sms_mbim.go for an MBIM one, and the  *)
(* reassembler of pkg/smscodec.  Two goroutines empty the modem: the       *)
(* handler of indications, and a poll once a minute.  Neither knows of the *)
(* other; each reads, hands on, and then deletes by index.                 *)
(*                                                                         *)
(* The modem is modelled by what the code asks of it.  A place is a slot   *)
(* of one of its two storages, or Raw: a message that never was stored.    *)
(* The network sends that again until it is acknowledged; one that needs   *)
(* no acknowledgement is nowhere but in the process.  Reading tags a       *)
(* message as read on some modems.  A message comes in one part or more,   *)
(* each with its own place; the references of two long messages differ.    *)
(***************************************************************************)
EXTENDS Naturals, FiniteSets, Sequences, SequencesExt

CONSTANTS
  Messages,     \* what is sent to us
  Parts, Of,    \* the PDUs, and the message each belongs to
  Indexes,      \* slots of a storage
  MaxArrivals,  \* bound: parts that arrive
  MaxFaults,    \* bound: failed calls, lost indications, expired fragments, restarts
  Handler, Poll, Raw, None

ASSUME InboxAssumption ==
  /\ Of \in [Parts -> Messages] /\ Handler # Poll /\ Raw \notin (0..1) \X Indexes
  /\ None \notin Parts \cup ((0..1) \X Indexes) \cup {Raw} \cup [part : Parts, read : BOOLEAN]
  /\ MaxFaults \in Nat

VARIABLES
  mode,        \* smsMode: "qmi" or "mbim"
  tagsRead,    \* whether this modem tags what it has sent as read
  inbox,       \* place |-> the part it holds and its tag
  indicated,   \* places of indications that wait for the handler
  taker,       \* the two goroutines
  cache,       \* Reassembler.cache: the parts of incomplete messages
  arrived,     \* parts that have reached the modem
  passed,      \* those of them that came raw and need no acknowledgement
  handedOn,    \* how often processSMS ran for a message, up to 2
  forfeited,   \* messages a part of which the code may lose, see NothingDropped
  repeatable,  \* messages that may be handed on again
  faults

vars == <<mode, tagsRead, inbox, indicated, taker, cache, arrived, passed, handedOn,
          forfeited, repeatable, faults>>

Takers == {Handler, Poll}
Places == {<<s, i>> : s \in 0..1, i \in Indexes} \cup {Raw}
Stored == Places \ {Raw}
PartsOf(m) == {p \in Parts : Of[p] = m}
PartAt(x) == inbox[x].part
Occupied == {x \in Stored : inbox[x] # None}
Alternate(x) == <<1 - x[1], x[2]>>

Idle == [pc |-> "idle", lists |-> <<>>, todo |-> {}, residue |-> {}, at |-> None, hand |-> None]

\* Mutant: the poll asks the first storage only.
FirstStorageOnly == << <<0, FALSE>>, <<0, TRUE>> >>

\* What CheckAllSMSQMI asks for, in this order.
Listings == << <<0, FALSE>>, <<0, TRUE>>, <<1, FALSE>>, <<1, TRUE>> >>

Fault == faults < MaxFaults /\ faults' = faults + 1
NoFault == UNCHANGED faults

Init ==
  /\ mode \in {"qmi", "mbim"} /\ tagsRead \in (IF mode = "qmi" THEN BOOLEAN ELSE {FALSE})
  /\ inbox = [x \in Places |-> None] /\ indicated = <<>>
  /\ taker = [t \in Takers |-> Idle] /\ cache = {}
  /\ arrived = {} /\ passed = {} /\ handedOn = [m \in Messages |-> 0]
  /\ forfeited = {} /\ repeatable = {} /\ faults = 0

-----------------------------------------------------------------------------
(* The modem.                                                              *)

\* Somebody is about to delete whatever place x holds.
Doomed(x) ==
  \E t \in Takers : x \in taker[t].residue \/ (taker[t].hand # None /\ taker[t].at = x)

\* A part arrives.  A deletion by index that is on its way will hit it instead of the
\* one it was meant for.
Arrive(p, x) ==
  /\ p \notin arrived /\ Cardinality(arrived) < MaxArrivals /\ inbox[x] = None
  /\ mode = "mbim" => x # Raw /\ x[1] = 0
  /\ arrived' = arrived \cup {p}
  /\ passed' \in {passed} \cup (IF x = Raw THEN {passed \cup {p}} ELSE {})
  /\ inbox' = [inbox EXCEPT ![x] = [part |-> p, read |-> FALSE]]
  /\ forfeited' = IF Doomed(x) THEN forfeited \cup {Of[p]} ELSE forfeited
  /\ \/ indicated' = Append(indicated, x) /\ NoFault
     \/ x # Raw /\ indicated' = indicated /\ Fault
  /\ UNCHANGED <<mode, tagsRead, taker, cache, handedOn, repeatable>>

\* A raw message that needs no acknowledgement is on its way to processSMS, or with it.
Passing == inbox[Raw] # None /\ PartAt(Raw) \in passed

\* The network sends an unacknowledged message again.
SendAgain ==
  /\ inbox[Raw] # None /\ ~Passing /\ Raw \notin ToSet(indicated)
  /\ taker[Handler].at # Raw /\ Raw \notin taker[Handler].todo
  /\ indicated' = Append(indicated, Raw)
  /\ UNCHANGED <<mode, tagsRead, inbox, taker, cache, arrived, passed, handedOn,
                 forfeited, repeatable, faults>>

-----------------------------------------------------------------------------
(* The two goroutines.  A step is one call of the modem, or one of         *)
(* processSMS.                                                             *)

Step(t, pc, r) ==
  /\ taker[t].pc = pc
  /\ taker' = [taker EXCEPT ![t] = r]
  /\ UNCHANGED <<mode, tagsRead, arrived, passed>>

\* The next message of the loop, or the end of it.
Onward(r) ==
  IF r.todo = {} /\ r.residue = {} THEN Idle
  ELSE [r EXCEPT !.pc = "loop", !.lists = <<>>, !.at = None, !.hand = None]

\* handleNewSMSQMI, handleNewSMSRawQMI or handleNewSMSMBIM is called.
TakeIndication ==
  /\ indicated # <<>> /\ indicated' = Tail(indicated)
  /\ Step(Handler, "idle",
          IF mode = "qmi" THEN [Idle EXCEPT !.pc = "loop", !.todo = {Head(indicated)}]
                          ELSE [Idle EXCEPT !.pc = "list"])
  /\ UNCHANGED <<inbox, cache, handedOn, forfeited, repeatable, faults>>

\* The ticker of the worker.
PollStarts ==
  /\ Step(Poll, "idle",
          [Idle EXCEPT !.pc = "list", !.lists = IF mode = "qmi" THEN Listings ELSE <<>>])
  /\ UNCHANGED <<inbox, indicated, cache, handedOn, forfeited, repeatable, faults>>

\* CheckAllSMSQMI asks for one list.  What is unread will be handled, what is read is
\* thought to be a leftover and will be deleted.  When the unread ones of a storage
\* cannot be listed its read ones are not asked for.
ListQMI ==
  LET r == taker[Poll]
      storage == Head(r.lists)[1]
      read == Head(r.lists)[2]
      found == {x \in Occupied : x[1] = storage /\ inbox[x].read = read} \ (r.todo \cup r.residue)
      After(rest, todo, residue) ==
        LET s == [r EXCEPT !.lists = rest, !.todo = todo, !.residue = residue]
        IN  IF rest = <<>> THEN Onward(s) ELSE s
  IN  /\ mode = "qmi"
      /\ \/ /\ NoFault
            /\ Step(Poll, "list", After(Tail(r.lists),
                                        IF read THEN r.todo ELSE r.todo \cup found,
                                        IF read THEN r.residue \cup found ELSE r.residue))
         \/ /\ Fault
            /\ Step(Poll, "list", After(IF read THEN Tail(r.lists) ELSE Tail(Tail(r.lists)),
                                        r.todo, r.residue))
      /\ UNCHANGED <<inbox, indicated, cache, handedOn, forfeited, repeatable>>

\* drainMBIMInbox lists everything.
ListMBIM(t) ==
  /\ mode = "mbim"
  /\ \/ NoFault /\ Step(t, "list", Onward([taker[t] EXCEPT !.todo = Occupied]))
     \/ Fault /\ Step(t, "list", Idle)
  /\ UNCHANGED <<inbox, indicated, cache, handedOn, forfeited, repeatable>>

\* The modem sends what place x holds, and tags it.
ReadAt(t, pc, x, r) ==
  /\ inbox[x] # None
  /\ Step(t, pc, [r EXCEPT !.pc = "process", !.hand = PartAt(x)])
  /\ inbox' = [inbox EXCEPT ![x].read = tagsRead]
  /\ repeatable' = IF \E u \in Takers : taker[u].hand = PartAt(x)
                   THEN repeatable \cup {Of[PartAt(x)]} ELSE repeatable
  /\ NoFault /\ UNCHANGED forfeited

\* The answer is lost, or cannot be decoded.  What was tagged is then a leftover to the
\* next poll.
AnswerLost(t, pc, x, r) ==
  /\ inbox[x] # None /\ Fault
  /\ Step(t, pc, r)
  /\ inbox' = [inbox EXCEPT ![x].read = @ \/ tagsRead]
  /\ forfeited' = IF tagsRead THEN forfeited \cup {Of[PartAt(x)]} ELSE forfeited
  /\ UNCHANGED repeatable

NothingThere(t, pc, x, r) ==
  /\ inbox[x] = None
  /\ Step(t, pc, r)
  /\ UNCHANGED <<inbox, forfeited, repeatable, faults>>

\* Mutant: what could not be read is deleted all the same.
DeleteUnread(r, x) ==
  IF inbox[x] = None THEN {Onward([r EXCEPT !.todo = @ \ {x}])}
  ELSE {[r EXCEPT !.todo = @ \ {x}, !.pc = "delete", !.at = x, !.hand = PartAt(x)]}

\* What a failed read leads to: on QMI the same index of the other storage is tried; a
\* drain of an MBIM inbox goes on with the next message, or ends with its deadline.
AfterFailedRead(r, x) ==
  LET rest == [r EXCEPT !.todo = @ \ {x}] IN
  IF mode = "qmi" THEN {[rest EXCEPT !.pc = "fallback", !.at = Alternate(x)]}
  ELSE {Onward(rest), Idle}

\* One turn of the loop: ReadSMS.
Read(t) ==
  \E x \in taker[t].todo \ {Raw} :
    LET r == taker[t] IN
    /\ mode = "qmi" => \A y \in r.todo : x[1] <= y[1]
    /\ \/ ReadAt(t, "loop", x, [r EXCEPT !.todo = @ \ {x}, !.at = x])
       \/ \E s \in AfterFailedRead(r, x) :
            AnswerLost(t, "loop", x, s) \/ NothingThere(t, "loop", x, s)
    /\ UNCHANGED <<indicated, cache, handedOn>>

\* Mutant: the storage it was found in is forgotten.
FallbackForgets(t) ==
  LET r == taker[t] IN
  /\ r.pc = "fallback"
  /\ \/ ReadAt(t, "fallback", r.at, [r EXCEPT !.at = Alternate(@)])
     \/ AnswerLost(t, "fallback", r.at, Onward(r))
     \/ NothingThere(t, "fallback", r.at, Onward(r))
  /\ UNCHANGED <<indicated, cache, handedOn>>

\* readIncomingSMSQMI looks for the index in the other storage.
Fallback(t) ==
  LET r == taker[t] IN
  /\ r.pc = "fallback"
  /\ \/ ReadAt(t, "fallback", r.at, r)
     \/ AnswerLost(t, "fallback", r.at, Onward(r))
     \/ NothingThere(t, "fallback", r.at, Onward(r))
  /\ UNCHANGED <<indicated, cache, handedOn>>

\* A raw indication brings the message with it.  One that cannot be decoded is
\* acknowledged without having been handed on.
ReadRaw(t) ==
  /\ Raw \in taker[t].todo /\ inbox[Raw] # None
  /\ LET r == [taker[t] EXCEPT !.todo = @ \ {Raw}, !.at = Raw] IN
     \/ ReadAt(t, "loop", Raw, r)
     \/ /\ Fault /\ Step(t, "loop", [r EXCEPT !.pc = "delete", !.hand = PartAt(Raw)])
        /\ forfeited' = forfeited \cup {Of[PartAt(Raw)]}
        /\ UNCHANGED <<inbox, repeatable>>
  /\ UNCHANGED <<indicated, cache, handedOn>>

\* Reassembler.Add: the parts kept once p is there.  A part that is there already is
\* ignored.
Completes(p) == p \notin cache /\ PartsOf(Of[p]) \subseteq cache \cup {p}
AddTo(p) == IF Completes(p) THEN cache \ PartsOf(Of[p]) ELSE cache \cup {p}

\* processDecodedSMSQMI and processSMS: the whole message is saved, and goes to the
\* notifier even if the database does not take it.
Process(t) ==
  LET p == taker[t].hand
      m == Of[p]
  IN  /\ Step(t, "process", [taker[t] EXCEPT !.pc = "delete"])
      /\ cache' = AddTo(p)
      /\ handedOn' = IF Completes(p) THEN [handedOn EXCEPT ![m] = IF @ = 2 THEN 2 ELSE @ + 1]
                     ELSE handedOn
      /\ UNCHANGED <<inbox, indicated, forfeited, repeatable, faults>>

\* WMSDeleteMessage, DeleteSMS or AckRawSMS, of the place that was read; a message that
\* needs no acknowledgement is done with, and there is no call that could fail.
Delete(t) ==
  LET r == taker[t] IN
  /\ Step(t, "delete", Onward(r))
  /\ \/ inbox' = [inbox EXCEPT ![r.at] = None] /\ NoFault /\ UNCHANGED repeatable
     \/ /\ ~(r.at = Raw /\ Passing) /\ Fault
        /\ UNCHANGED inbox /\ repeatable' = repeatable \cup {Of[r.hand]}
  /\ UNCHANGED <<indicated, cache, handedOn, forfeited>>

\* The poll deletes the leftovers once the unread ones are handled.
DeleteResidual(t) ==
  \E x \in taker[t].residue :
    LET r == taker[t] IN
    /\ r.todo = {} /\ Step(t, "loop", Onward([r EXCEPT !.residue = @ \ {x}]))
    /\ \/ inbox' = [inbox EXCEPT ![x] = None] /\ NoFault
       \/ UNCHANGED inbox /\ Fault
    /\ UNCHANGED <<indicated, cache, handedOn, forfeited, repeatable>>

GoOn(t) ==
  \/ t = Handler /\ TakeIndication
  \/ t = Poll /\ (PollStarts \/ ListQMI)
  \/ ListMBIM(t) \/ Read(t) \/ Fallback(t) \/ ReadRaw(t)
  \/ Process(t) \/ Delete(t) \/ DeleteResidual(t)

-----------------------------------------------------------------------------
\* Reassembler.Cleanup: 30 minutes went by without the missing part.
Expire(m) ==
  /\ cache \cap PartsOf(m) # {} /\ Fault
  /\ cache' = cache \ PartsOf(m) /\ forfeited' = forfeited \cup {m}
  /\ UNCHANGED <<mode, tagsRead, inbox, indicated, taker, arrived, passed, handedOn,
                 repeatable>>

\* The part a goroutine has read but not handed on is no longer in the modem.
LostFromHand(t) ==
  LET r == taker[t] IN
  r.pc = "process" /\ (inbox[r.at] = None \/ PartAt(r.at) # r.hand)

\* The raw message that needs no acknowledgement and has not been processed.
Unprocessed ==
  {p \in passed : Passing /\ PartAt(Raw) = p
                 /\ ~(taker[Handler].pc = "delete" /\ taker[Handler].hand = p)}

\* The process ends and starts again.  The parts of incomplete messages are gone, and so
\* is a raw message that needs no acknowledgement; what was tagged as read but not yet
\* handed on is a leftover now, and a part in hand may have been deleted as one by the poll.
Crash ==
  /\ Fault
  /\ taker' = [t \in Takers |-> Idle] /\ cache' = {} /\ indicated' = <<>>
  /\ inbox' = IF Passing THEN [inbox EXCEPT ![Raw] = None] ELSE inbox
  /\ forfeited' = forfeited \cup {Of[p] : p \in cache}
                            \cup {Of[PartAt(x)] : x \in {y \in Occupied : inbox[y].read}}
                            \cup {Of[taker[t].hand] : t \in {u \in Takers : LostFromHand(u)}}
                            \cup {Of[p] : p \in Unprocessed}
  /\ repeatable' = repeatable \cup {Of[taker[t].hand] : t \in {u \in Takers : taker[u].hand # None}}
  /\ UNCHANGED <<mode, tagsRead, arrived, passed, handedOn>>

Next ==
  \/ \E p \in Parts, x \in Places : Arrive(p, x)
  \/ SendAgain
  \/ \E t \in Takers : GoOn(t)
  \/ \E m \in Messages : Expire(m)
  \/ Crash

\* Both goroutines go on, the ticker ticks, and the network insists.
Fairness == (\A t \in Takers : WF_vars(GoOn(t))) /\ WF_vars(SendAgain)
Spec == Init /\ [][Next]_vars /\ Fairness

-----------------------------------------------------------------------------
Arrived(m) == PartsOf(m) \subseteq arrived
HandedOn(m) == handedOn[m] > 0

Work == [pc : {"idle", "list", "loop", "fallback", "process", "delete"},
         lists : Seq((0..1) \X BOOLEAN),
         todo : SUBSET Places, residue : SUBSET Stored,
         at : Places \cup {None}, hand : arrived \cup {None}]

TypeOK ==
  /\ mode \in {"qmi", "mbim"} /\ tagsRead \in BOOLEAN /\ (mode = "mbim" => ~tagsRead)
  /\ inbox \in [Places -> [part : arrived, read : BOOLEAN] \cup {None}]
  /\ indicated \in Seq(Places) /\ cache \subseteq arrived
  /\ taker \in [Takers -> Work]
  /\ \A t \in Takers :
       LET r == taker[t] IN
       /\ r.todo \cap r.residue = {}
       /\ r.hand # None <=> r.pc \in {"process", "delete"}
       /\ r.at # None <=> r.pc \in {"fallback", "process", "delete"}
       /\ r.pc = "idle" <=> r = Idle
  /\ arrived \subseteq Parts /\ passed \subseteq arrived /\ handedOn \in [Messages -> 0..2]
  /\ forfeited \subseteq Messages /\ repeatable \subseteq Messages
  /\ faults \in 0..MaxFaults

\* A message reaches the database and the notifier once, unless its deletion or its
\* acknowledgement failed, the process ended in between, or the handler and the poll
\* had it in hand together: they do not know of each other (pool_sms.go, handleNewSMSQMI
\* and CheckAllSMSQMI; pool_sms_mbim.go, drainMBIMInbox).
HandedOnce == \A m \in Messages \ repeatable : handedOn[m] <= 1

Consistent == TypeOK /\ HandedOnce

\* A part that has arrived is in the modem, in the hand of a goroutine, or kept by the
\* reassembler, until its message is handed on.  What the code may lose is named
\* by forfeited: parts that hit a place about to be deleted, an answer lost after the
\* modem tagged the message, a raw message that does not decode, fragments that expire
\* or are in memory when the process ends, as is a raw message that needs no
\* acknowledgement, and what it had read and the modem tagged or no longer holds.
NothingDropped ==
  \A p \in arrived :
    \/ Of[p] \in forfeited \/ HandedOn(Of[p]) \/ p \in cache
    \/ \E x \in Places : inbox[x] # None /\ PartAt(x) = p
    \/ \E t \in Takers : taker[t].pc = "process" /\ taker[t].hand = p

\* With its indication lost, a call of the modem failed or the process restarted, a
\* message that is complete is handed on in the end, unless it is forfeited.
EventuallyHandedOn ==
  \A m \in Messages : Arrived(m) ~> (HandedOn(m) \/ m \in forfeited)

=============================================================================
