----------------------------- MODULE SmsProofs -----------------------------
(***************************************************************************)
(* Proofs about how a message leaves the modem, for all constants.         *)
(* SmsInbox: no part is dropped that is not forfeited, and no message is   *)
(* handed on twice that is not repeatable.  AtManager: one caller has the  *)
(* line, a loss is reported once, and no message is deleted unread.        *)
(***************************************************************************)
EXTENDS SmsInbox, AtManager, SequenceTheorems, TLAPS

\* How a goroutine goes about its work: it lists what there is to list, the unread ones of a
\* storage before the read ones, and only the handler deals with raw messages.
Course ==
  \A t \in Takers :
    LET r == taker[t] IN
    /\ r.pc = "list" => IF mode = "qmi" THEN r.lists # <<>> ELSE r.residue = {}
    /\ \A i \in 1..Len(r.lists) : r.lists[i][2] \/ i < Len(r.lists)
    /\ t = Poll => Raw \notin r.todo /\ r.at # Raw
    /\ r.pc = "fallback" => r.at \in Stored

Holds(x, p) == inbox[x] # None /\ PartAt(x) = p
Carries(t, p) == taker[t].hand # None /\ taker[t].hand = p

\* A part is in one place at most, a goroutine that has it in hand took it from there, and
\* two that have the same part in hand may hand it on twice.
Apart ==
  /\ \A x, y \in Places : \A p \in Parts : Holds(x, p) /\ Holds(y, p) => x = y
  /\ \A t \in Takers, x \in Places, p \in Parts : Carries(t, p) /\ Holds(x, p) => x = taker[t].at
  /\ \A p \in Parts : Carries(Handler, p) /\ Carries(Poll, p) => Of[p] \in repeatable

\* Deleting a part loses nothing: it has been handed on or kept, somebody is about to do so,
\* or it is forfeited.
InProcess(p) == \E t \in Takers : taker[t].pc = "process" /\ taker[t].hand = p
Safe(p) == Of[p] \in forfeited \/ HandedOn(Of[p]) \/ p \in cache \/ InProcess(p)

Kept ==
  /\ \A x \in Stored : inbox[x] # None /\ inbox[x].read => Safe(PartAt(x))
  /\ \A t \in Takers : \A x \in taker[t].residue : inbox[x] # None => Safe(PartAt(x))
  /\ \A t \in Takers : taker[t].hand # None =>
       \A p \in Parts : Holds(taker[t].at, p) => p = taker[t].hand \/ Of[p] \in forfeited
  /\ \A t \in Takers : taker[t].pc = "delete" => Safe(taker[t].hand)
  /\ NothingDropped

\* A part that has been processed will not be processed again: it is no longer in the
\* modem, or whoever processed it is about to delete it.
Gone(p) ==
  /\ p \in arrived /\ ~InProcess(p)
  /\ \A x \in Places : Holds(x, p) =>
       \E t \in Takers : taker[t].pc = "delete" /\ taker[t].hand = p /\ taker[t].at = x

Once ==
  /\ \A p \in Parts : Of[p] \notin repeatable /\ (p \in cache \/ HandedOn(Of[p])) => Gone(p)
  /\ HandedOnce

Inv == TypeOK /\ Course /\ Apart /\ Kept /\ Once

-----------------------------------------------------------------------------
\* What the constants are, and that a storage has an alternate.
LEMMA Constants ==
  /\ Handler # Poll /\ Raw \notin Stored /\ Stored \subseteq Places /\ Raw \in Places
  /\ None \notin Places /\ Handler \in Takers /\ Poll \in Takers
  /\ \A x \in Places : x = Raw \/ x \in Stored
  /\ \A p \in Parts : p # None /\ Of[p] \in Messages
  /\ \A p \in Parts, b \in BOOLEAN : [part |-> p, read |-> b] # None
  /\ MaxFaults \in Nat
BY InboxAssumption DEF Places, Stored, Takers

\* The other storage has the same indexes.
LEMMA AlternateStored ==
  ASSUME NEW x \in Stored
  PROVE  Alternate(x) \in Stored
<1>1. PICK s \in 0..1, i \in Indexes : x = <<s, i>>
  BY DEF Stored, Places
<1>2. Alternate(x) = <<1 - s, i>> /\ 1 - s \in 0..1
  BY <1>1 DEF Alternate
<1>3. <<1 - s, i>> \in Places
  BY <1>2 DEF Places
<1>4. <<1 - s, i>> # Raw
  BY <1>2, InboxAssumption
<1>5. QED
  BY <1>2, <1>3, <1>4 DEF Stored

\* The lists are asked for in pairs.
LEMMA ListingsPaired ==
  /\ Listings \in Seq((0..1) \X BOOLEAN) /\ Listings # <<>>
  /\ \A i \in 1..Len(Listings) : Listings[i][2] \/ i < Len(Listings)
<1> DEFINE S == (0..1) \X BOOLEAN
<1>1. /\ 0 \in 0..1 /\ 1 \in 0..1 /\ TRUE \in BOOLEAN /\ FALSE \in BOOLEAN
      /\ \A s \in 0..1, b \in BOOLEAN : <<s, b>> \in S
  OBVIOUS
<1>2. /\ <<0, FALSE>> \in S /\ <<0, TRUE>> \in S
      /\ <<1, FALSE>> \in S /\ <<1, TRUE>> \in S
  <2> HIDE DEF S
  <2>1. QED
    BY <1>1
<1>3. Len(Listings) = 4 /\ Listings[4] = <<1, TRUE>> /\ Listings # <<>>
  BY DEF Listings
<1>4. Listings \in Seq(S)
  <2> HIDE DEF S
  <2>1. QED
    BY <1>2 DEF Listings
<1>5. Listings[4][2]
  BY <1>3
<1>6. \A i \in 1..Len(Listings) : i = 4 \/ i < Len(Listings)
  BY <1>3
<1>7. QED
  BY <1>3, <1>4, <1>5, <1>6

\* An idle goroutine has nothing in its record.
LEMMA IdleWork ==
  /\ Idle \in Work /\ Idle.pc = "idle" /\ Idle.lists = <<>> /\ Idle.todo = {}
  /\ Idle.residue = {} /\ Idle.at = None /\ Idle.hand = None
BY DEF Idle, Work

\* The types, taken apart.
LEMMA Typed ==
  ASSUME Inv
  PROVE  /\ arrived \subseteq Parts /\ cache \subseteq arrived /\ passed \subseteq arrived
         /\ \A t \in Takers :
              LET r == taker[t] IN
              /\ r \in Work /\ r.pc \in {"idle", "list", "loop", "fallback", "process", "delete"}
              /\ r.todo \subseteq Places /\ r.residue \subseteq Stored
              /\ r.at \in Places \cup {None} /\ r.hand \in arrived \cup {None}
              /\ r.hand # None <=> r.pc \in {"process", "delete"}
              /\ r.at # None <=> r.pc \in {"fallback", "process", "delete"}
         /\ \A x \in Places : inbox[x] # None =>
              /\ PartAt(x) \in arrived /\ inbox[x].read \in BOOLEAN
              /\ inbox[x] = [part |-> PartAt(x), read |-> inbox[x].read]
         /\ \A p \in arrived : p # None /\ Of[p] \in Messages
<1>1. arrived \subseteq Parts /\ cache \subseteq arrived /\ passed \subseteq arrived
  BY DEF Inv, TypeOK
<1>2. \A t \in Takers :
        LET r == taker[t] IN
        /\ r \in Work /\ r.pc \in {"idle", "list", "loop", "fallback", "process", "delete"}
        /\ r.todo \subseteq Places /\ r.residue \subseteq Stored
        /\ r.at \in Places \cup {None} /\ r.hand \in arrived \cup {None}
        /\ r.hand # None <=> r.pc \in {"process", "delete"}
        /\ r.at # None <=> r.pc \in {"fallback", "process", "delete"}
  <2>1. \A t \in Takers : taker[t] \in Work
    BY DEF Inv, TypeOK
  <2>2. \A r \in Work :
          /\ r.pc \in {"idle", "list", "loop", "fallback", "process", "delete"}
          /\ r.todo \subseteq Places /\ r.residue \subseteq Stored
          /\ r.at \in Places \cup {None} /\ r.hand \in arrived \cup {None}
    BY DEF Work
  <2>3. QED
    BY <2>1, <2>2 DEF Inv, TypeOK
<1>3. \A x \in Places : inbox[x] # None =>
        /\ PartAt(x) \in arrived /\ inbox[x].read \in BOOLEAN
        /\ inbox[x] = [part |-> PartAt(x), read |-> inbox[x].read]
  BY DEF Inv, TypeOK, PartAt
<1>4. QED
  BY <1>1, <1>2, <1>3, Constants

\* The inbox is empty and nobody is at it.
LEMMA InvInit == Init => Inv
<1> SUFFICES ASSUME Init PROVE Inv
  OBVIOUS
<1>1. TypeOK
  <2>1. /\ inbox = [x \in Places |-> None] /\ indicated = <<>>
        /\ taker = [t \in Takers |-> Idle] /\ cache = {} /\ arrived = {}
        /\ passed = {}
        /\ handedOn = [m \in Messages |-> 0] /\ forfeited = {} /\ repeatable = {} /\ faults = 0
        /\ mode \in {"qmi", "mbim"} /\ tagsRead \in BOOLEAN /\ (mode = "mbim" => ~tagsRead)
    BY DEF Init
  <2>2. taker \in [Takers -> Work]
    BY <2>1, IdleWork
  <2>3. \A t \in Takers : taker[t] = Idle
    BY <2>1
  <2>4. inbox \in [Places -> [part : arrived, read : BOOLEAN] \cup {None}]
    BY <2>1
  <2>5. handedOn \in [Messages -> 0..2] /\ faults \in 0..MaxFaults /\ indicated \in Seq(Places)
    BY <2>1, Constants
  <2>6. QED
    BY <2>1, <2>2, <2>3, <2>4, <2>5, IdleWork DEF TypeOK
<1>2. Course
  BY IdleWork, Constants DEF Init, Course
<1>3. Apart
  BY IdleWork, Constants DEF Init, Apart, Holds, Carries
<1>4. Kept
  BY IdleWork, Constants DEF Init, Kept, NothingDropped, Holds
<1>5. Once
  BY IdleWork, Constants DEF Init, Once, HandedOnce, HandedOn
<1>6. QED
  BY <1>1, <1>2, <1>3, <1>4, <1>5 DEF Inv

-----------------------------------------------------------------------------
(* Steps after which a goroutine has nothing in hand.                      *)

\* What such a goroutine may be at.
Quiet(t, s) ==
  /\ s \in Work /\ s.pc \in {"idle", "list", "loop", "fallback"} /\ s.hand = None
  /\ s.at # None <=> s.pc = "fallback"
  /\ s.pc = "idle" <=> s = Idle
  /\ s.todo \cap s.residue = {}
  /\ s.pc = "list" => IF mode = "qmi" THEN s.lists # <<>> ELSE s.residue = {}
  /\ \A i \in 1..Len(s.lists) : s.lists[i][2] \/ i < Len(s.lists)
  /\ t = Poll => Raw \notin s.todo /\ s.at # Raw
  /\ s.pc = "fallback" => s.at \in Stored
  /\ \A x \in s.residue : inbox[x] # None => Safe(PartAt(x))

\* Places are tagged, or what is safe is deleted from them.
Retagged ==
  \A x \in Places :
    /\ inbox[x] = None => inbox'[x] = None
    /\ inbox[x] # None /\ inbox'[x] = None => Safe(PartAt(x))
    /\ inbox'[x] # None => /\ inbox'[x].part = inbox[x].part
                           /\ inbox'[x].read => inbox[x].read \/ Of[PartAt(x)] \in forfeited'

\* A goroutine that has no part to process may put down what it has, while tags of messages
\* that are safe may change.
LEMMA InvPutDown ==
  ASSUME Inv, NEW t \in Takers, NEW s, taker[t].pc # "process", Quiet(t, s),
         taker' = [taker EXCEPT ![t] = s], Retagged,
         inbox' \in [Places -> [part : arrived, read : BOOLEAN] \cup {None}],
         forfeited \subseteq forfeited', forfeited' \subseteq Messages,
         faults' \in 0..MaxFaults, indicated' \in Seq(Places),
         repeatable \subseteq repeatable', repeatable' \subseteq Messages,
         \A q \in Parts : Carries(t, q) /\ Holds(taker[t].at, q) /\ inbox'[taker[t].at] # None
           => Of[q] \in repeatable',
         UNCHANGED <<mode, tagsRead, cache, arrived, passed, handedOn>>
  PROVE  Inv'
<1>1. /\ taker'[t] = s /\ \A u \in Takers : u # t => taker'[u] = taker[u]
      /\ taker' \in [Takers -> Work] /\ Work' = Work /\ Places' = Places /\ Stored' = Stored
  BY DEF Inv, TypeOK, Quiet, Work, Places, Stored
<1>2. taker[t].pc # "process" /\ s.pc \notin {"process", "delete"}
  BY Typed DEF Quiet
<1>3. TypeOK'
  <2>1. \A u \in Takers :
          LET r == taker'[u] IN
          /\ r.todo \cap r.residue = {}
          /\ r.hand # None <=> r.pc \in {"process", "delete"}
          /\ r.at # None <=> r.pc \in {"fallback", "process", "delete"}
          /\ r.pc = "idle" <=> r = Idle
    BY <1>1 DEF Quiet, Inv, TypeOK
  <2>2. QED
    BY <1>1, <2>1 DEF Inv, TypeOK
<1>4. Course'
  BY <1>1 DEF Quiet, Inv, Course, Stored, Places
<1>5. \A x \in Places : \A p : Holds(x, p)' => Holds(x, p)
  BY DEF Retagged, Holds, PartAt
<1>6. \A u \in Takers : \A p : Carries(u, p)' => Carries(u, p) /\ taker'[u] = taker[u]
  BY <1>1 DEF Quiet, Carries
<1>7. Apart'
  <2>1. \A x, y \in Places : \A p \in Parts : Holds(x, p)' /\ Holds(y, p)' => x = y
    BY <1>5 DEF Inv, Apart
  <2>2. \A u \in Takers, x \in Places, p \in Parts :
          Carries(u, p)' /\ Holds(x, p)' => x = taker'[u].at
    BY <1>5, <1>6 DEF Inv, Apart
  <2>3. \A p \in Parts : Carries(Handler, p)' /\ Carries(Poll, p)' => Of[p] \in repeatable'
    BY <1>6, Constants DEF Inv, Apart
  <2>4. QED
    BY <2>1, <2>2, <2>3 DEF Apart
<1>8. \A p : InProcess(p)' <=> InProcess(p)
  BY <1>1, <1>2 DEF InProcess, Takers
<1>9. \A p : Safe(p) => Safe(p)'
  BY <1>8 DEF Safe, HandedOn
<1>10. Kept'
  <2>1. \A x \in Stored : inbox'[x] # None /\ inbox'[x].read => Safe(PartAt(x))'
    BY <1>9, Constants DEF Retagged, PartAt, Inv, Kept, Safe
  <2>2. \A u \in Takers : \A x \in taker'[u].residue : inbox'[x] # None => Safe(PartAt(x))'
    <3>1. SUFFICES ASSUME NEW u \in Takers, NEW x \in taker'[u].residue, inbox'[x] # None
                   PROVE  Safe(PartAt(x))'
      OBVIOUS
    <3>2. x \in Places
      BY <1>1, Constants DEF Work
    <3>3. inbox[x] # None /\ PartAt(x)' = PartAt(x)
      BY <3>1, <3>2 DEF Retagged, PartAt
    <3>4. Safe(PartAt(x))
      BY <1>1, <3>1, <3>3 DEF Quiet, Inv, Kept
    <3>5. QED
      BY <1>9, <3>3, <3>4
  <2>3. \A u \in Takers : taker'[u].hand # None =>
          \A p \in Parts : Holds(taker[u].at, p)' => p = taker'[u].hand \/ Of[p] \in forfeited'
    <3>1. SUFFICES ASSUME NEW u \in Takers, taker'[u].hand # None, NEW p \in Parts,
                          Holds(taker[u].at, p)'
                   PROVE  p = taker'[u].hand \/ Of[p] \in forfeited'
      OBVIOUS
    <3>2. taker'[u] = taker[u]
      BY <1>1, <3>1 DEF Quiet
    <3>3. taker[u].at \in Places
      BY <3>1, <3>2, Typed
    <3>4. QED
      BY <1>5, <3>1, <3>2, <3>3 DEF Inv, Kept
  <2>4. \A u \in Takers : taker'[u].pc = "delete" => Safe(taker[u].hand)'
    BY <1>1, <1>2, <1>9 DEF Inv, Kept
  <2>5. NothingDropped'
    <3>1. SUFFICES ASSUME NEW p \in arrived
                   PROVE  Safe(p)' \/ \E x \in Places : Holds(x, p)'
      BY DEF NothingDropped, Safe, InProcess, Holds, Places
    <3>2. CASE Safe(p)
      BY <1>9, <3>2
    <3>3. CASE ~Safe(p)
      <4>1. PICK x \in Places : Holds(x, p)
        BY <3>3 DEF Inv, Kept, NothingDropped, Safe, InProcess, Holds
      <4>2. Holds(x, p)'
        BY <3>3, <4>1 DEF Retagged, Holds, PartAt
      <4>3. QED
        BY <4>2
    <3>4. QED
      BY <3>2, <3>3
  <2>6. QED
    BY <2>1, <2>2, <2>3, <2>4, <2>5 DEF Kept, Stored, Places
<1>11. \A p \in Parts : Gone(p) /\ Of[p] \notin repeatable' => Gone(p)'
  <2>1. SUFFICES ASSUME NEW p \in Parts, Gone(p), Of[p] \notin repeatable' PROVE Gone(p)'
    OBVIOUS
  <2>2. p \in arrived' /\ ~InProcess(p)'
    BY <1>8, <2>1 DEF Gone
  <2>3. \A x \in Places : Holds(x, p)' =>
          \E u \in Takers : taker'[u].pc = "delete" /\ taker'[u].hand = p /\ taker'[u].at = x
    <3>1. SUFFICES ASSUME NEW x \in Places, Holds(x, p)'
                   PROVE  \E u \in Takers : /\ taker'[u].pc = "delete"
                                            /\ taker'[u].hand = p /\ taker'[u].at = x
      OBVIOUS
    <3>2. Holds(x, p) /\ inbox'[x] # None
      BY <1>5, <3>1 DEF Holds
    <3>3. PICK u \in Takers : taker[u].pc = "delete" /\ taker[u].hand = p /\ taker[u].at = x
      BY <2>1, <3>2 DEF Gone
    <3>4. u # t
      BY <2>1, <3>2, <3>3, Constants DEF Carries
    <3>5. QED
      BY <1>1, <3>3, <3>4
  <2>4. QED
    BY <2>2, <2>3 DEF Gone, Places
<1>12. Once'
  BY <1>11 DEF Inv, Once, HandedOnce, HandedOn
<1>13. QED
  BY <1>3, <1>4, <1>7, <1>10, <1>12 DEF Inv

\* The same of a goroutine that has nothing in hand.
LEMMA InvQuiet ==
  ASSUME Inv, NEW t \in Takers, NEW s, taker[t].hand = None, Quiet(t, s),
         taker' = [taker EXCEPT ![t] = s], Retagged,
         inbox' \in [Places -> [part : arrived, read : BOOLEAN] \cup {None}],
         forfeited \subseteq forfeited', forfeited' \subseteq Messages,
         faults' \in 0..MaxFaults, indicated' \in Seq(Places),
         UNCHANGED <<mode, tagsRead, cache, arrived, passed, handedOn, repeatable>>
  PROVE  Inv'
<1>1. taker[t].pc # "process" /\ \A q : ~Carries(t, q)
  BY Typed DEF Carries
<1>2. repeatable \subseteq repeatable' /\ repeatable' \subseteq Messages
  BY DEF Inv, TypeOK
<1>3. QED
  BY <1>1, <1>2, InvPutDown

\* A goroutine that goes on with nothing in hand, field by field.
LEMMA RecordQuiet ==
  ASSUME NEW t \in Takers, NEW pc \in {"list", "loop", "fallback"},
         NEW l \in Seq((0..1) \X BOOLEAN), NEW todo \in SUBSET Places,
         NEW residue \in SUBSET Stored, NEW at \in Stored \cup {None},
         at # None <=> pc = "fallback",
         todo \cap residue = {},
         pc = "list" => IF mode = "qmi" THEN l # <<>> ELSE residue = {},
         \A i \in 1..Len(l) : l[i][2] \/ i < Len(l),
         t = Poll => Raw \notin todo,
         \A x \in residue : inbox[x] # None => Safe(PartAt(x))
  PROVE  Quiet(t, [pc |-> pc, lists |-> l, todo |-> todo, residue |-> residue,
                   at |-> at, hand |-> None])
<1> DEFINE s == [pc |-> pc, lists |-> l, todo |-> todo, residue |-> residue,
                 at |-> at, hand |-> None]
<1>1. /\ s.pc = pc /\ s.lists = l /\ s.todo = todo /\ s.residue = residue /\ s.at = at
      /\ s.hand = None
  OBVIOUS
<1>2. s \in Work
  BY Constants DEF Work
<1>3. s # Idle
  BY <1>1, IdleWork
<1> HIDE DEF s
<1>4. Quiet(t, s)
  BY <1>1, <1>2, <1>3, Constants DEF Quiet
<1>5. QED
  BY <1>4 DEF s

\* What a goroutine does next, with what is left of its work.
LEMMA OnwardQuiet ==
  ASSUME Inv, NEW t \in Takers, NEW r \in Work, r.todo \cap r.residue = {},
         t = Poll => Raw \notin r.todo,
         \A x \in r.residue : inbox[x] # None => Safe(PartAt(x))
  PROVE  Quiet(t, Onward(r))
<1>1. r = [pc |-> r.pc, lists |-> r.lists, todo |-> r.todo, residue |-> r.residue,
           at |-> r.at, hand |-> r.hand]
      /\ r.todo \subseteq Places /\ r.residue \subseteq Stored
  BY DEF Work
<1>2. CASE r.todo = {} /\ r.residue = {}
  BY <1>2, IdleWork, Constants DEF Onward, Quiet
<1>3. CASE ~(r.todo = {} /\ r.residue = {})
  <2>1. Onward(r) = [pc |-> "loop", lists |-> <<>>, todo |-> r.todo, residue |-> r.residue,
                     at |-> None, hand |-> None]
    BY <1>1, <1>3 DEF Onward
  <2>2. <<>> \in Seq((0..1) \X BOOLEAN) /\ \A i \in 1..Len(<<>>) : <<>>[i][2] \/ i < Len(<<>>)
    OBVIOUS
  <2>3. Quiet(t, [pc |-> "loop", lists |-> <<>>, todo |-> r.todo, residue |-> r.residue,
                  at |-> None, hand |-> None])
    BY <1>1, <2>2, RecordQuiet
  <2>4. QED
    BY <2>1, <2>3
<1>4. QED
  BY <1>2, <1>3

\* Going idle takes up nothing new.
LEMMA IdleQuiet ==
  ASSUME NEW t \in Takers
  PROVE  Quiet(t, Idle)
BY IdleWork, Constants DEF Quiet

\* What a goroutine with nothing in hand is at, from the invariant.
LEMMA AtWork ==
  ASSUME Inv, NEW t \in Takers
  PROVE  LET r == taker[t] IN
         /\ r \in Work /\ r.todo \cap r.residue = {}
         /\ t = Poll => Raw \notin r.todo
         /\ \A x \in r.residue : inbox[x] # None => Safe(PartAt(x))
         /\ r.pc \in {"idle", "list", "loop", "fallback"} => r.hand = None
         /\ r.pc \in {"idle", "list", "loop"} => r.at = None
         /\ r = [pc |-> r.pc, lists |-> r.lists, todo |-> r.todo, residue |-> r.residue,
                 at |-> r.at, hand |-> r.hand]
<1>1. taker[t] \in Work
  BY Typed
<1>2. \A r \in Work : r = [pc |-> r.pc, lists |-> r.lists, todo |-> r.todo,
                           residue |-> r.residue, at |-> r.at, hand |-> r.hand]
  BY DEF Work
<1>3. QED
  BY <1>1, <1>2, Typed DEF Inv, TypeOK, Course, Kept

\* An inbox that does not change is not retagged.
LEMMA InboxKept ==
  ASSUME Inv, UNCHANGED <<inbox, arrived>>
  PROVE  Retagged /\ inbox' \in [Places -> [part : arrived, read : BOOLEAN] \cup {None}]
BY DEF Inv, TypeOK, Retagged

\* Only the queue of indications changes.
LEMMA InvIndicated ==
  ASSUME Inv, indicated' \in Seq(Places),
         UNCHANGED <<mode, tagsRead, inbox, taker, cache, arrived, passed, handedOn, forfeited,
                     repeatable, faults>>
  PROVE  Inv'
<1>1. TypeOK'
  BY DEF Inv, TypeOK, Work
<1>2. Course' /\ Apart'
  BY DEF Inv, Course, Apart, Holds, Carries, PartAt
<1>3. Kept' /\ Once'
  BY DEF Inv, Kept, Once, Safe, InProcess, Gone, NothingDropped, HandedOnce, HandedOn, Holds,
         PartAt
<1>4. QED
  BY <1>1, <1>2, <1>3 DEF Inv

\* Stuttering keeps the invariant.
LEMMA InvStutter == Inv /\ UNCHANGED vars => Inv'
BY InvIndicated DEF vars, Inv, TypeOK

\* An indication that is repeated changes nothing but the queue of indications.
LEMMA InvSendAgain ==
  ASSUME Inv, SendAgain
  PROVE  Inv'
<1>1. indicated' \in Seq(Places)
  BY Constants DEF SendAgain, Inv, TypeOK
<1>2. QED
  BY <1>1, InvIndicated DEF SendAgain

\* An indication starts the handler, the ticker starts the poll.
LEMMA InvTakeIndication ==
  ASSUME Inv, TakeIndication
  PROVE  Inv'
<1> DEFINE s == IF mode = "qmi" THEN [Idle EXCEPT !.pc = "loop", !.todo = {Head(indicated)}]
                ELSE [Idle EXCEPT !.pc = "list"]
<1>1. /\ indicated # <<>> /\ indicated' = Tail(indicated) /\ taker[Handler].pc = "idle"
      /\ taker' = [taker EXCEPT ![Handler] = s]
      /\ UNCHANGED <<mode, tagsRead, inbox, cache, arrived, passed, handedOn, forfeited, repeatable,
                     faults>>
  BY DEF TakeIndication, Step
<1>2. Head(indicated) \in Places /\ indicated' \in Seq(Places)
  BY <1>1 DEF Inv, TypeOK
<1>3. <<>> \in Seq((0..1) \X BOOLEAN) /\ \A i \in 1..Len(<<>>) : <<>>[i][2] \/ i < Len(<<>>)
  OBVIOUS
<1>4. Quiet(Handler, s)
  <2>1. CASE mode = "qmi"
    <3>1. s = [pc |-> "loop", lists |-> <<>>, todo |-> {Head(indicated)}, residue |-> {},
               at |-> None, hand |-> None]
      BY <2>1 DEF Idle
    <3>2. /\ {Head(indicated)} \in SUBSET Places /\ {} \in SUBSET Stored
          /\ {Head(indicated)} \cap {} = {}
      BY <1>2
    <3>3. Quiet(Handler, [pc |-> "loop", lists |-> <<>>, todo |-> {Head(indicated)},
                          residue |-> {}, at |-> None, hand |-> None])
      BY <1>3, <3>2, Constants, RecordQuiet
    <3>4. QED
      BY <3>1, <3>3
  <2>2. CASE mode # "qmi"
    <3>1. s = [pc |-> "list", lists |-> <<>>, todo |-> {}, residue |-> {},
               at |-> None, hand |-> None]
      BY <2>2 DEF Idle
    <3>2. {} \in SUBSET Places /\ {} \in SUBSET Stored
      OBVIOUS
    <3>3. Quiet(Handler, [pc |-> "list", lists |-> <<>>, todo |-> {}, residue |-> {},
                          at |-> None, hand |-> None])
      BY <1>3, <2>2, <3>2, Constants, RecordQuiet
    <3>4. QED
      BY <3>1, <3>3
  <2>3. QED
    BY <2>1, <2>2
<1>5. taker[Handler].hand = None /\ forfeited' \subseteq Messages /\ faults' \in 0..MaxFaults
  BY <1>1, AtWork, Constants DEF Inv, TypeOK
<1> HIDE DEF s
<1>6. QED
  BY <1>1, <1>2, <1>4, <1>5, InboxKept, InvQuiet, Constants

\* The poll begins with its lists, which pair unread with read.
LEMMA InvPollStarts ==
  ASSUME Inv, PollStarts
  PROVE  Inv'
<1>1. PICK l : /\ l = (IF mode = "qmi" THEN Listings ELSE <<>>)
               /\ taker' = [taker EXCEPT ![Poll] = [Idle EXCEPT !.pc = "list", !.lists = l]]
  BY DEF PollStarts, Step
<1>2. /\ taker[Poll].pc = "idle"
      /\ UNCHANGED <<mode, tagsRead, inbox, indicated, cache, arrived, passed, handedOn, forfeited,
                     repeatable, faults>>
  BY DEF PollStarts, Step
<1>3. /\ l \in Seq((0..1) \X BOOLEAN) /\ (mode = "qmi" => l # <<>>)
      /\ \A i \in 1..Len(l) : l[i][2] \/ i < Len(l)
  <2>1. CASE mode = "qmi"
    BY <1>1, <2>1, ListingsPaired
  <2>2. CASE mode # "qmi"
    <3>1. l = <<>> /\ Len(<<>>) = 0 /\ <<>> \in Seq((0..1) \X BOOLEAN)
      BY <1>1, <2>2
    <3>2. QED
      BY <2>2, <3>1
  <2>3. QED
    BY <2>1, <2>2
<1> DEFINE s == [Idle EXCEPT !.pc = "list", !.lists = l]
<1>4. /\ s \in Work /\ s.pc = "list" /\ s.lists = l /\ s.todo = {} /\ s.residue = {}
      /\ s.at = None /\ s.hand = None
  BY <1>3, IdleWork DEF Work
<1>5. Quiet(Poll, s)
  <2>1. s # Idle
    BY <1>4, IdleWork
  <2> HIDE DEF s
  <2>2. QED
    BY <1>3, <1>4, <2>1, Constants DEF Quiet
<1>6. /\ taker[Poll].hand = None /\ forfeited' \subseteq Messages /\ faults' \in 0..MaxFaults
      /\ indicated' \in Seq(Places)
  BY <1>2, AtWork, Constants DEF Inv, TypeOK
<1>7. taker' = [taker EXCEPT ![Poll] = s]
  BY <1>1
<1> HIDE DEF s
<1>8. QED
  BY <1>2, <1>7, <1>5, <1>6, InboxKept, InvQuiet, Constants

\* The poll after one more list.
LEMMA ListedQuiet ==
  ASSUME Inv, mode = "qmi", taker[Poll].pc = "list",
         NEW rest \in Seq((0..1) \X BOOLEAN),
         \A i \in 1..Len(rest) : rest[i][2] \/ i < Len(rest),
         NEW todo \in SUBSET Stored, NEW residue \in SUBSET Stored, todo \cap residue = {},
         \A x \in residue : inbox[x] # None => Safe(PartAt(x)),
         NEW s, s = [taker[Poll] EXCEPT !.lists = rest, !.todo = todo, !.residue = residue]
  PROVE  Quiet(Poll, IF rest = <<>> THEN Onward(s) ELSE s)
<1>1. taker[Poll] \in Work /\ taker[Poll].at = None /\ taker[Poll].hand = None
  BY Constants, AtWork
<1>2. /\ s \in Work /\ s.pc = "list" /\ s.lists = rest /\ s.todo = todo /\ s.residue = residue
      /\ s.at = None /\ s.hand = None
  BY <1>1, Constants DEF Work
<1>3. Raw \notin todo
  BY Constants
<1>4. Quiet(Poll, Onward(s))
  BY <1>2, <1>3, OnwardQuiet, Constants
<1>5. CASE rest # <<>>
  <2>1. s # Idle
    BY <1>2, IdleWork
  <2>2. Quiet(Poll, s)
    BY <1>2, <1>3, <1>5, <2>1, Constants DEF Quiet
  <2>3. QED
    BY <1>5, <2>2
<1>6. QED
  BY <1>4, <1>5

\* A sequence of at least one element is not empty.
LEMMA NotEmpty ==
  ASSUME NEW k, NEW n \in Nat, 1 < n, Len(k) = n - 1
  PROVE  k # <<>>
OBVIOUS

\* A list taken of a QMI modem: what it finds read is safe already.
LEMMA InvListQMI ==
  ASSUME Inv, ListQMI
  PROVE  Inv'
<1> DEFINE r == taker[Poll]
           kind == Head(r.lists)[1]
           read == Head(r.lists)[2]
           found == {x \in Occupied : x[1] = kind /\ inbox[x].read = read}
                      \ (r.todo \cup r.residue)
           Listed(rest, todo, residue) ==
             LET s == [r EXCEPT !.lists = rest, !.todo = todo, !.residue = residue]
             IN  IF rest = <<>> THEN Onward(s) ELSE s
           todo1 == IF read THEN r.todo ELSE r.todo \cup found
           residue1 == IF read THEN r.residue \cup found ELSE r.residue
           rest2 == IF read THEN Tail(r.lists) ELSE Tail(Tail(r.lists))
<1>1. /\ mode = "qmi" /\ r.pc = "list"
      /\ \/ taker' = [taker EXCEPT ![Poll] = Listed(Tail(r.lists), todo1, residue1)]
         \/ taker' = [taker EXCEPT ![Poll] = Listed(rest2, r.todo, r.residue)]
      /\ UNCHANGED <<mode, tagsRead, arrived, passed, inbox, indicated, cache, handedOn, forfeited,
                     repeatable>>
  BY DEF ListQMI, Step
<1>2. faults' \in 0..MaxFaults
  BY Constants DEF ListQMI, NoFault, Fault, Inv, TypeOK
<1>3. /\ r \in Work /\ r.todo \cap r.residue = {} /\ Raw \notin r.todo
      /\ \A x \in r.residue : inbox[x] # None => Safe(PartAt(x))
      /\ r.todo \subseteq Places /\ r.residue \subseteq Stored /\ r.hand = None
  BY <1>1, AtWork, Typed, Constants
<1>4. r.todo \in SUBSET Stored
  BY <1>3, Constants
<1>5. /\ r.lists \in Seq((0..1) \X BOOLEAN) /\ r.lists # <<>>
      /\ \A i \in 1..Len(r.lists) : r.lists[i][2] \/ i < Len(r.lists)
  <2>1. r.lists \in Seq((0..1) \X BOOLEAN)
    BY <1>3 DEF Work
  <2>2. QED
    BY <1>1, <2>1, Constants DEF Inv, Course
<1>6. \A l \in Seq((0..1) \X BOOLEAN) :
        l # <<>> /\ (\A i \in 1..Len(l) : l[i][2] \/ i < Len(l)) =>
          /\ Tail(l) \in Seq((0..1) \X BOOLEAN)
          /\ \A i \in 1..Len(Tail(l)) : Tail(l)[i][2] \/ i < Len(Tail(l))
          /\ ~Head(l)[2] => Tail(l) # <<>>
  <2>1. SUFFICES ASSUME NEW l \in Seq((0..1) \X BOOLEAN), l # <<>>,
                        \A i \in 1..Len(l) : l[i][2] \/ i < Len(l)
                 PROVE  /\ Tail(l) \in Seq((0..1) \X BOOLEAN)
                        /\ \A i \in 1..Len(Tail(l)) : Tail(l)[i][2] \/ i < Len(Tail(l))
                        /\ ~Head(l)[2] => Tail(l) # <<>>
    OBVIOUS
  <2>2. /\ Tail(l) \in Seq((0..1) \X BOOLEAN) /\ Len(Tail(l)) = Len(l) - 1
        /\ Len(l) \in Nat \ {0} /\ Head(l) = l[1]
        /\ \A i \in 1..Len(Tail(l)) : i + 1 \in 1..Len(l) /\ Tail(l)[i] = l[i + 1]
    BY <2>1
  <2>3. ~Head(l)[2] => Tail(l) # <<>>
    <3>1. Len(l) \in Nat /\ Len(Tail(l)) = Len(l) - 1 /\ Head(l) = l[1] /\ 1 \in 1..Len(l)
      BY <2>2
    <3>2. l[1][2] \/ 1 < Len(l)
      BY ONLY <2>1, <3>1, Zenon
    <3>3. 1 < Len(l) => Tail(l) # <<>>
      BY ONLY <3>1, NotEmpty, Zenon
    <3>4. QED
      BY ONLY <3>1, <3>2, <3>3, Zenon
  <2>4. QED
    BY <2>1, <2>2, <2>3
<1>7. /\ Tail(r.lists) \in Seq((0..1) \X BOOLEAN)
      /\ \A i \in 1..Len(Tail(r.lists)) : Tail(r.lists)[i][2] \/ i < Len(Tail(r.lists))
      /\ rest2 \in Seq((0..1) \X BOOLEAN)
      /\ \A i \in 1..Len(rest2) : rest2[i][2] \/ i < Len(rest2)
  <2>1. CASE read
    BY <1>5, <1>6, <2>1
  <2>2. CASE ~read
    <3>1. /\ Tail(r.lists) \in Seq((0..1) \X BOOLEAN) /\ Tail(r.lists) # <<>>
          /\ \A i \in 1..Len(Tail(r.lists)) : Tail(r.lists)[i][2] \/ i < Len(Tail(r.lists))
      BY <1>5, <1>6, <2>2
    <3>2. QED
      BY <1>6, <2>2, <3>1
  <2>3. QED
    BY <2>1, <2>2
<1>8. /\ todo1 \in SUBSET Stored /\ residue1 \in SUBSET Stored /\ todo1 \cap residue1 = {}
      /\ \A x \in residue1 : inbox[x] # None => Safe(PartAt(x))
  <2>1. found \subseteq Stored /\ found \cap (r.todo \cup r.residue) = {}
    BY DEF Occupied
  <2>2. read => \A x \in found : inbox[x].read
    BY DEF Occupied
  <2>3. read => \A x \in found : Safe(PartAt(x))
    BY <2>1, <2>2 DEF Inv, Kept, Occupied
  <2> HIDE DEF found, read
  <2>4. QED
    BY <1>3, <1>4, <2>1, <2>3
<1> HIDE DEF todo1, residue1, rest2, found, read
<1>9. PICK s : Quiet(Poll, s) /\ taker' = [taker EXCEPT ![Poll] = s]
  <2>1. Quiet(Poll, Listed(Tail(r.lists), todo1, residue1))
    BY <1>1, <1>7, <1>8, ListedQuiet
  <2>2. Quiet(Poll, Listed(rest2, r.todo, r.residue))
    BY <1>1, <1>3, <1>4, <1>7, ListedQuiet
  <2> HIDE DEF Listed
  <2>3. QED
    BY <1>1, <2>1, <2>2
<1>10. forfeited' \subseteq Messages /\ indicated' \in Seq(Places)
  BY <1>1 DEF Inv, TypeOK
<1>11. QED
  BY <1>1, <1>2, <1>3, <1>9, <1>10, InboxKept, InvQuiet, Constants

\* A list taken of an MBIM modem finds no leftovers.
LEMMA InvListMBIM ==
  ASSUME Inv, NEW t \in Takers, ListMBIM(t)
  PROVE  Inv'
<1> DEFINE r == taker[t]
           listed == [r EXCEPT !.todo = Occupied]
<1>1. /\ mode = "mbim" /\ r.pc = "list"
      /\ \/ taker' = [taker EXCEPT ![t] = Onward(listed)]
         \/ taker' = [taker EXCEPT ![t] = Idle]
      /\ UNCHANGED <<mode, tagsRead, arrived, passed, inbox, indicated, cache, handedOn, forfeited,
                     repeatable>>
  BY DEF ListMBIM, Step
<1>2. faults' \in 0..MaxFaults
  BY Constants DEF ListMBIM, NoFault, Fault, Inv, TypeOK
<1>3. r \in Work /\ r.residue = {} /\ r.hand = None
  BY <1>1, AtWork DEF Inv, Course
<1>4. Occupied \in SUBSET Places /\ Raw \notin Occupied
  BY Constants DEF Occupied
<1>5. listed \in Work /\ listed.todo = Occupied /\ listed.residue = {}
  BY <1>3, <1>4 DEF Work
<1> HIDE DEF listed
<1>6. Quiet(t, Onward(listed)) /\ Quiet(t, Idle)
  BY <1>4, <1>5, OnwardQuiet, IdleQuiet
<1>7. PICK s : Quiet(t, s) /\ taker' = [taker EXCEPT ![t] = s]
  BY <1>1, <1>6
<1>8. forfeited' \subseteq Messages /\ indicated' \in Seq(Places)
  BY <1>1 DEF Inv, TypeOK
<1>9. QED
  BY <1>1, <1>2, <1>3, <1>7, <1>8, InboxKept, InvQuiet

-----------------------------------------------------------------------------
(* Steps that read, process and delete.                                    *)

\* A message is tagged, and stays where it is.
LEMMA Tagged ==
  ASSUME Inv, NEW x \in Places, inbox[x] # None, NEW b \in BOOLEAN,
         inbox' = [inbox EXCEPT ![x].read = b]
  PROVE  /\ inbox' \in [Places -> [part : arrived, read : BOOLEAN] \cup {None}]
         /\ inbox'[x] # None /\ inbox'[x].part = PartAt(x) /\ inbox'[x].read = b
         /\ \A y \in Places : y # x => inbox'[y] = inbox[y]
<1>1. /\ inbox'[x] = [inbox[x] EXCEPT !.read = b]
      /\ \A y \in Places : y # x => inbox'[y] = inbox[y]
      /\ inbox' = [y \in Places |-> inbox'[y]]
  BY DEF Inv, TypeOK
<1>2. /\ PartAt(x) \in arrived /\ PartAt(x) \in Parts
      /\ inbox[x] = [part |-> PartAt(x), read |-> inbox[x].read]
  BY Typed
<1>3. [inbox[x] EXCEPT !.read = b] = [part |-> PartAt(x), read |-> b]
  BY <1>2
<1>4. [part |-> PartAt(x), read |-> b] # None
  BY <1>2, Constants
<1>5. \A y \in Places : inbox'[y] \in [part : arrived, read : BOOLEAN] \cup {None}
  BY <1>1, <1>2, <1>3 DEF Inv, TypeOK
<1>6. QED
  BY <1>1, <1>3, <1>4, <1>5

\* A goroutine has a part in hand now, which the other one may have as well.
LEMMA InvReadAt ==
  ASSUME Inv, NEW t \in Takers, NEW x \in Places, NEW s \in Work,
         taker[t].hand = None, inbox[x] # None,
         s.pc \in {"process", "delete"}, s.hand = PartAt(x), s.at = x, s.todo \cap s.residue = {},
         \A i \in 1..Len(s.lists) : s.lists[i][2] \/ i < Len(s.lists),
         t = Poll => Raw \notin s.todo /\ x # Raw,
         \A y \in s.residue : inbox[y] # None => Safe(PartAt(y)),
         taker' = [taker EXCEPT ![t] = s],
         inbox' \in {inbox, [inbox EXCEPT ![x].read = tagsRead]},
         \/ s.pc = "process" /\ forfeited' = forfeited
         \/ inbox' = inbox /\ forfeited' = forfeited \cup {Of[PartAt(x)]},
         (\E u \in Takers : taker[u].hand = PartAt(x)) => Of[PartAt(x)] \in repeatable',
         repeatable \subseteq repeatable', repeatable' \subseteq Messages, faults' \in 0..MaxFaults,
         UNCHANGED <<mode, tagsRead, indicated, cache, arrived, passed, handedOn>>
  PROVE  Inv'
<1> DEFINE q == PartAt(x)
<1>1. /\ taker'[t] = s /\ \A u \in Takers : u # t => taker'[u] = taker[u]
      /\ taker' \in [Takers -> Work] /\ Work' = Work
  BY DEF Inv, TypeOK, Work
<1>2. /\ q \in arrived /\ q # None /\ Of[q] \in Messages /\ q \in Parts
      /\ inbox[x] = [part |-> q, read |-> inbox[x].read] /\ x # None
      /\ taker[t].pc \notin {"process", "delete"}
  BY Typed, Constants
<1>3. /\ inbox' \in [Places -> [part : arrived, read : BOOLEAN] \cup {None}]
      /\ inbox'[x] # None /\ inbox'[x].part = q
      /\ \A y \in Places : y # x => inbox'[y] = inbox[y]
  <2>1. CASE inbox' = inbox
    BY <1>2, <2>1 DEF Inv, TypeOK, PartAt
  <2>2. CASE inbox' = [inbox EXCEPT ![x].read = tagsRead]
    <3>1. tagsRead \in BOOLEAN
      BY DEF Inv, TypeOK
    <3>2. QED
      BY <2>2, <3>1, Tagged
  <2>3. QED
    BY <2>1, <2>2
<1>4. /\ forfeited \subseteq forfeited' /\ forfeited' \subseteq Messages
      /\ s.pc = "process" \/ Of[q] \in forfeited'
  <2>1. forfeited \subseteq Messages /\ Of[q] \in Messages
    BY <1>2 DEF Inv, TypeOK
  <2>2. \/ s.pc = "process" /\ forfeited' = forfeited
        \/ forfeited' = forfeited \cup {Of[q]}
    OBVIOUS
  <2> HIDE DEF q
  <2>3. QED
    BY <2>1, <2>2
<1>5. TypeOK'
  <2>1. \A u \in Takers :
          LET r == taker'[u] IN
          /\ r.todo \cap r.residue = {}
          /\ r.hand # None <=> r.pc \in {"process", "delete"}
          /\ r.at # None <=> r.pc \in {"fallback", "process", "delete"}
          /\ r.pc = "idle" <=> r = Idle
    BY <1>1, <1>2, IdleWork DEF Inv, TypeOK
  <2>2. QED
    BY <1>1, <1>3, <1>4, <2>1 DEF Inv, TypeOK
<1>6. Course'
  BY <1>1 DEF Inv, Course
<1>7. \A y \in Places : \A p : Holds(y, p)' <=> Holds(y, p)
  BY <1>3 DEF Holds, PartAt
<1>8. \A p : /\ InProcess(p) => InProcess(p)'
             /\ InProcess(p)' => InProcess(p) \/ p = q
             /\ p = q => InProcess(p)' \/ Of[p] \in forfeited'
  BY <1>1, <1>2, <1>4 DEF InProcess
<1>9. \A p : Safe(p) => Safe(p)'
  BY <1>4, <1>8 DEF Safe, HandedOn
<1>10. Apart'
  <2>1. \A y, z \in Places : \A p \in Parts : Holds(y, p)' /\ Holds(z, p)' => y = z
    BY <1>7 DEF Inv, Apart
  <2>2. \A u \in Takers, y \in Places, p \in Parts :
          Carries(u, p)' /\ Holds(y, p)' => y = taker'[u].at
    <3>1. SUFFICES ASSUME NEW u \in Takers, NEW y \in Places, NEW p \in Parts,
                          Carries(u, p)', Holds(y, p)
                   PROVE  y = taker'[u].at
      BY <1>7
    <3>2. CASE u = t
      <4>1. p = q /\ Holds(x, q)
        BY <1>1, <3>1, <3>2 DEF Carries, Holds
      <4>2. QED
        BY <1>1, <1>2, <3>1, <3>2, <4>1 DEF Inv, Apart
    <3>3. CASE u # t
      BY <1>1, <3>1, <3>3 DEF Inv, Apart, Carries
    <3>4. QED
      BY <3>2, <3>3
  <2>3. \A p \in Parts : Carries(Handler, p)' /\ Carries(Poll, p)' => Of[p] \in repeatable'
    <3>1. SUFFICES ASSUME NEW p \in Parts, Carries(Handler, p)', Carries(Poll, p)'
                   PROVE  Of[p] \in repeatable'
      OBVIOUS
    <3>2. PICK u \in Takers : u # t /\ Carries(u, p)' /\ Carries(t, p)'
      BY <3>1, Constants DEF Takers
    <3>3. p = q /\ taker[u].hand = q
      BY <1>1, <3>2 DEF Carries
    <3>4. QED
      BY <3>3
  <2>4. QED
    BY <2>1, <2>2, <2>3 DEF Apart
<1>11. Kept'
  <2>1. \A y \in Stored : inbox'[y] # None /\ inbox'[y].read => Safe(PartAt(y))'
    <3>1. \A p : p = q => Safe(p)'
      BY <1>8 DEF Safe
    <3>2. \A y \in Stored : y # x => inbox'[y] = inbox[y]
      BY <1>3, Constants
    <3>3. QED
      BY <1>3, <1>9, <3>1, <3>2 DEF Inv, Kept, PartAt
  <2>2. \A u \in Takers : \A y \in taker'[u].residue : inbox'[y] # None => Safe(PartAt(y))'
    <3>1. SUFFICES ASSUME NEW u \in Takers, NEW y \in taker'[u].residue, inbox'[y] # None
                   PROVE  Safe(PartAt(y))'
      OBVIOUS
    <3>2. y \in Places
      BY <1>1, Constants DEF Work
    <3>3. inbox[y] # None /\ PartAt(y)' = PartAt(y)
      BY <1>3, <3>1, <3>2 DEF PartAt
    <3>4. Safe(PartAt(y))
      BY <1>1, <3>1, <3>3 DEF Inv, Kept
    <3>5. QED
      BY <1>9, <3>3, <3>4
  <2>3. \A u \in Takers : taker'[u].hand # None =>
          \A p \in Parts : Holds(taker[u].at, p)' => p = taker'[u].hand \/ Of[p] \in forfeited'
    <3>1. SUFFICES ASSUME NEW u \in Takers, taker'[u].hand # None, NEW p \in Parts,
                          Holds(taker[u].at, p)'
                   PROVE  p = taker'[u].hand \/ Of[p] \in forfeited'
      OBVIOUS
    <3>2. CASE u = t
      BY <1>1, <1>3, <3>1, <3>2 DEF Holds, PartAt
    <3>3. CASE u # t
      <4>1. taker'[u] = taker[u] /\ taker[u].at \in Places
        BY <1>1, <3>1, <3>3, Typed
      <4>2. QED
        BY <1>4, <1>7, <3>1, <4>1 DEF Inv, Kept
    <3>4. QED
      BY <3>2, <3>3
  <2>4. \A u \in Takers : taker'[u].pc = "delete" => Safe(taker[u].hand)'
    <3>1. \A p : p = q => Safe(p)'
      BY <1>8 DEF Safe
    <3>2. QED
      BY <1>1, <1>9, <3>1 DEF Inv, Kept
  <2>5. NothingDropped'
    <3>1. SUFFICES ASSUME NEW p \in arrived
                   PROVE  Safe(p)' \/ \E y \in Places : Holds(y, p)'
      BY DEF NothingDropped, Safe, InProcess, Holds, Places
    <3>2. Safe(p) \/ \E y \in Places : Holds(y, p)
      BY DEF Inv, Kept, NothingDropped, Safe, InProcess, Holds
    <3>3. QED
      BY <1>7, <1>9, <3>2
  <2>6. QED
    BY <2>1, <2>2, <2>3, <2>4, <2>5 DEF Kept
<1>12. Once'
  <2>1. SUFFICES ASSUME NEW p \in Parts, Of[p] \notin repeatable', p \in cache \/ HandedOn(Of[p])
                 PROVE  Gone(p)'
    BY <1>4 DEF Inv, Once, HandedOnce, HandedOn
  <2>2. Gone(p)
    BY <2>1 DEF Inv, Once
  <2>3. p # q
    <3>1. SUFFICES ASSUME p = q PROVE FALSE
      OBVIOUS
    <3>2. PICK u \in Takers : taker[u].hand = q
      BY <2>2, <3>1 DEF Gone, Holds
    <3>3. QED
      BY <2>1, <3>1, <3>2
  <2>4. p \in arrived' /\ ~InProcess(p)'
    <3>1. p \in arrived /\ ~InProcess(p)
      BY <2>2 DEF Gone
    <3>2. InProcess(p)' => InProcess(p) \/ p = q
      BY <1>8
    <3>3. QED
      BY <2>3, <3>1, <3>2
  <2>5. \A y \in Places : Holds(y, p)' =>
          \E u \in Takers : taker'[u].pc = "delete" /\ taker'[u].hand = p /\ taker'[u].at = y
    BY <1>1, <1>2, <1>7, <2>2 DEF Gone
  <2>6. QED
    BY <2>4, <2>5 DEF Gone, Places
<1>13. QED
  BY <1>5, <1>6, <1>10, <1>11, <1>12 DEF Inv

\* The modem has tagged a message, and the answer did not come.
LEMMA InvAnswerLost ==
  ASSUME Inv, NEW t \in Takers, NEW pc, NEW x \in Places, NEW s, Quiet(t, s),
         taker[t].hand = None, AnswerLost(t, pc, x, s), UNCHANGED <<indicated, cache, handedOn>>
  PROVE  Inv'
<1>1. /\ inbox[x] # None /\ taker' = [taker EXCEPT ![t] = s]
      /\ inbox' = [inbox EXCEPT ![x].read = inbox[x].read \/ tagsRead]
      /\ forfeited' = IF tagsRead THEN forfeited \cup {Of[PartAt(x)]} ELSE forfeited
      /\ UNCHANGED <<mode, tagsRead, arrived, passed, indicated, cache, handedOn, repeatable>>
  BY DEF AnswerLost, Step, Inv, TypeOK
<1>2. faults' \in 0..MaxFaults
  BY Constants DEF AnswerLost, Fault, Inv, TypeOK
<1>3. tagsRead \in BOOLEAN /\ inbox[x].read \in BOOLEAN /\ Of[PartAt(x)] \in Messages
  BY <1>1, Typed DEF Inv, TypeOK
<1> DEFINE b == inbox[x].read \/ tagsRead
<1>4. b \in BOOLEAN
  BY <1>3
<1>5. inbox' = [inbox EXCEPT ![x].read = b]
  BY <1>1
<1> HIDE DEF b
<1>6. /\ inbox' \in [Places -> [part : arrived, read : BOOLEAN] \cup {None}]
      /\ inbox'[x] # None /\ inbox'[x].part = PartAt(x) /\ inbox'[x].read = b
      /\ \A y \in Places : y # x => inbox'[y] = inbox[y]
  BY <1>1, <1>4, <1>5, Tagged
<1>7. Retagged
  BY <1>1, <1>3, <1>6 DEF Retagged, PartAt, b
<1>8. forfeited \subseteq forfeited' /\ forfeited' \subseteq Messages /\ indicated' \in Seq(Places)
  BY <1>1, <1>3 DEF Inv, TypeOK
<1>9. QED
  BY <1>1, <1>2, <1>6, <1>7, <1>8, InvQuiet

\* A read of an empty place changes only the reader.
LEMMA InvNothingThere ==
  ASSUME Inv, NEW t \in Takers, NEW pc, NEW x \in Places, NEW s, Quiet(t, s),
         taker[t].hand = None, NothingThere(t, pc, x, s), UNCHANGED <<indicated, cache, handedOn>>
  PROVE  Inv'
<1>1. /\ taker' = [taker EXCEPT ![t] = s]
      /\ UNCHANGED <<mode, tagsRead, arrived, passed, indicated, cache, handedOn, repeatable, inbox,
                     forfeited, faults>>
  BY DEF NothingThere, Step
<1>2. forfeited' \subseteq Messages /\ indicated' \in Seq(Places) /\ faults' \in 0..MaxFaults
  BY <1>1 DEF Inv, TypeOK
<1>3. QED
  BY <1>1, <1>2, InboxKept, InvQuiet

\* What a failed read leads to.
LEMMA FailedQuiet ==
  ASSUME Inv, NEW t \in Takers, taker[t].pc = "loop", NEW x \in taker[t].todo \ {Raw},
         NEW s \in AfterFailedRead(taker[t], x)
  PROVE  Quiet(t, s)
<1> DEFINE r == taker[t]
           rest == [r EXCEPT !.todo = @ \ {x}]
<1>1. /\ r \in Work /\ r.todo \cap r.residue = {} /\ r.hand = None
      /\ t = Poll => Raw \notin r.todo
      /\ \A y \in r.residue : inbox[y] # None => Safe(PartAt(y))
      /\ r = [pc |-> r.pc, lists |-> r.lists, todo |-> r.todo, residue |-> r.residue,
              at |-> r.at, hand |-> r.hand]
  BY AtWork
<1>2. x \in Stored
  BY <1>1, Typed, Constants
<1>3. /\ rest = [pc |-> r.pc, lists |-> r.lists, todo |-> r.todo \ {x}, residue |-> r.residue,
                 at |-> r.at, hand |-> r.hand]
  <2> HIDE DEF r
  <2>1. QED
    BY <1>1
<1>4. rest \in Work /\ rest.todo = r.todo \ {x} /\ rest.residue = r.residue
  BY <1>1 DEF Work
<1>5. CASE mode = "qmi"
  <2>1. s = [rest EXCEPT !.pc = "fallback", !.at = Alternate(x)]
    BY <1>5 DEF AfterFailedRead
  <2>2. s = [pc |-> "fallback", lists |-> r.lists, todo |-> r.todo \ {x}, residue |-> r.residue,
             at |-> Alternate(x), hand |-> None]
    <3> HIDE DEF r, rest
    <3>1. QED
      BY <1>1, <1>3, <2>1
  <2>3. /\ r.lists \in Seq((0..1) \X BOOLEAN) /\ r.todo \ {x} \in SUBSET Places
        /\ r.residue \in SUBSET Stored /\ Alternate(x) \in Stored
        /\ \A i \in 1..Len(r.lists) : r.lists[i][2] \/ i < Len(r.lists)
    BY <1>1, <1>2, AlternateStored DEF Work, Inv, Course
  <2>4. Alternate(x) # None
    BY <2>3, Constants
  <2> HIDE DEF r, rest
  <2>5. Quiet(t, [pc |-> "fallback", lists |-> r.lists, todo |-> r.todo \ {x},
                  residue |-> r.residue, at |-> Alternate(x), hand |-> None])
    BY <1>1, <2>3, <2>4, RecordQuiet
  <2>6. QED
    BY <2>2, <2>5
<1>6. CASE mode # "qmi"
  <2>1. s = Onward(rest) \/ s = Idle
    BY <1>6 DEF AfterFailedRead
  <2> HIDE DEF r, rest
  <2>2. Quiet(t, Onward(rest))
    BY <1>1, <1>4, OnwardQuiet
  <2>3. QED
    BY <2>1, <2>2, IdleQuiet
<1>7. QED
  BY <1>5, <1>6

\* A part that has been read, with the rest of the work as it was.
LEMMA InvPartRead ==
  ASSUME Inv, NEW t \in Takers, NEW pc \in {"loop", "fallback"}, NEW x \in Places,
         taker[t].pc = pc, NEW todo \in SUBSET taker[t].todo, t = Poll => x # Raw,
         ReadAt(t, pc, x, [taker[t] EXCEPT !.todo = todo, !.at = x]),
         UNCHANGED <<indicated, cache, handedOn>>
  PROVE  Inv'
<1> DEFINE r == taker[t]
           s == [[r EXCEPT !.todo = todo, !.at = x] EXCEPT !.pc = "process", !.hand = PartAt(x)]
<1>1. /\ r \in Work /\ r.todo \cap r.residue = {} /\ r.hand = None
      /\ t = Poll => Raw \notin r.todo
      /\ \A y \in r.residue : inbox[y] # None => Safe(PartAt(y))
      /\ \A i \in 1..Len(r.lists) : r.lists[i][2] \/ i < Len(r.lists)
  BY AtWork DEF Inv, Course
<1>2. /\ inbox[x] # None /\ taker' = [taker EXCEPT ![t] = s]
      /\ inbox' = [inbox EXCEPT ![x].read = tagsRead]
      /\ repeatable' = IF \E u \in Takers : taker[u].hand = PartAt(x)
                       THEN repeatable \cup {Of[PartAt(x)]} ELSE repeatable
      /\ UNCHANGED <<mode, tagsRead, arrived, passed, indicated, cache, handedOn, faults,
                     forfeited>>
  BY DEF ReadAt, Step, NoFault
<1>3. PartAt(x) \in arrived /\ Of[PartAt(x)] \in Messages
  BY <1>2, Typed
<1>4. /\ s \in Work /\ s.pc = "process" /\ s.hand = PartAt(x) /\ s.at = x /\ s.todo = todo
      /\ s.residue = r.residue /\ s.lists = r.lists
  <2> HIDE DEF r
  <2>1. todo \in SUBSET Places
    BY <1>1 DEF Work, r
  <2>2. QED
    BY <1>1, <1>3, <2>1 DEF Work
<1>5. /\ repeatable \subseteq repeatable' /\ repeatable' \subseteq Messages
      /\ (\E u \in Takers : taker[u].hand = PartAt(x)) => Of[PartAt(x)] \in repeatable'
      /\ faults' \in 0..MaxFaults
  BY <1>2, <1>3 DEF Inv, TypeOK
<1>6. s.todo \cap s.residue = {} /\ (t = Poll => Raw \notin s.todo)
  BY <1>1, <1>4
<1> HIDE DEF s
<1>7. QED
  BY <1>1, <1>2, <1>4, <1>5, <1>6, InvReadAt

\* A turn of the loop, whatever the read gives.
LEMMA InvRead ==
  ASSUME Inv, NEW t \in Takers, Read(t)
  PROVE  Inv'
<1>1. PICK x \in taker[t].todo \ {Raw} :
        \/ ReadAt(t, "loop", x, [taker[t] EXCEPT !.todo = taker[t].todo \ {x}, !.at = x])
        \/ \E s \in AfterFailedRead(taker[t], x) :
             AnswerLost(t, "loop", x, s) \/ NothingThere(t, "loop", x, s)
  BY DEF Read
<1>2. /\ UNCHANGED <<indicated, cache, handedOn>> /\ taker[t].pc = "loop"
      /\ x \in Places /\ x # Raw /\ taker[t].hand = None
  BY <1>1, Typed DEF Read, ReadAt, AnswerLost, NothingThere, Step
<1>3. CASE ReadAt(t, "loop", x, [taker[t] EXCEPT !.todo = taker[t].todo \ {x}, !.at = x])
  <2> DEFINE rest == taker[t].todo \ {x}
  <2>1. ReadAt(t, "loop", x, [taker[t] EXCEPT !.todo = rest, !.at = x])
    BY <1>3
  <2>2. rest \in SUBSET taker[t].todo /\ "loop" \in {"loop", "fallback"}
    OBVIOUS
  <2> HIDE DEF rest
  <2>3. QED
    BY <1>2, <2>1, <2>2, InvPartRead
<1>4. CASE \E s \in AfterFailedRead(taker[t], x) :
             AnswerLost(t, "loop", x, s) \/ NothingThere(t, "loop", x, s)
  <2>1. PICK s \in AfterFailedRead(taker[t], x) :
          AnswerLost(t, "loop", x, s) \/ NothingThere(t, "loop", x, s)
    BY <1>4
  <2>2. Quiet(t, s)
    BY <1>2, FailedQuiet
  <2>3. QED
    BY <1>2, <2>1, <2>2, InvAnswerLost, InvNothingThere
<1>5. QED
  BY <1>1, <1>3, <1>4

\* A read in the other storage takes the part from where it was found.
LEMMA InvFallback ==
  ASSUME Inv, NEW t \in Takers, Fallback(t)
  PROVE  Inv'
<1> DEFINE r == taker[t]
<1>1. /\ \/ ReadAt(t, "fallback", r.at, r)
         \/ AnswerLost(t, "fallback", r.at, Onward(r))
         \/ NothingThere(t, "fallback", r.at, Onward(r))
      /\ r.pc = "fallback" /\ UNCHANGED <<indicated, cache, handedOn>>
  BY DEF Fallback
<1>2. /\ r \in Work /\ r.todo \cap r.residue = {} /\ r.hand = None
      /\ t = Poll => Raw \notin r.todo
      /\ \A y \in r.residue : inbox[y] # None => Safe(PartAt(y))
      /\ r = [pc |-> r.pc, lists |-> r.lists, todo |-> r.todo, residue |-> r.residue,
              at |-> r.at, hand |-> r.hand]
  BY <1>1, AtWork
<1>3. r.at \in Stored /\ r.at \in Places /\ r.at # Raw
  BY <1>1, Constants DEF Inv, Course
<1>4. Quiet(t, Onward(r))
  BY <1>2, OnwardQuiet
<1>5. CASE ReadAt(t, "fallback", r.at, r)
  <2>1. r = [r EXCEPT !.todo = r.todo, !.at = r.at]
    <3> HIDE DEF r
    <3>1. QED
      BY <1>2
  <2>2. ReadAt(t, "fallback", r.at, [r EXCEPT !.todo = r.todo, !.at = r.at])
    BY <1>5, <2>1
  <2>3. QED
    BY <1>1, <1>3, <2>2, InvPartRead
<1>6. QED
  BY <1>1, <1>2, <1>3, <1>4, <1>5, InvAnswerLost, InvNothingThere

\* A raw message that does not decode is acknowledged: nobody else has it in hand.
LEMMA InvReadRaw ==
  ASSUME Inv, NEW t \in Takers, ReadRaw(t)
  PROVE  Inv'
<1> DEFINE r == taker[t]
           q == PartAt(Raw)
           s == [[r EXCEPT !.todo = r.todo \ {Raw}, !.at = Raw]
                    EXCEPT !.pc = "delete", !.hand = q]
<1>1. /\ Raw \in r.todo /\ inbox[Raw] # None /\ UNCHANGED <<indicated, cache, handedOn>>
      /\ \/ ReadAt(t, "loop", Raw, [r EXCEPT !.todo = r.todo \ {Raw}, !.at = Raw])
         \/ /\ Fault /\ Step(t, "loop", s)
            /\ forfeited' = forfeited \cup {Of[q]}
            /\ UNCHANGED <<inbox, repeatable>>
  BY DEF ReadRaw
<1>2. /\ r \in Work /\ r.todo \cap r.residue = {}
      /\ t = Poll => Raw \notin r.todo
      /\ \A y \in r.residue : inbox[y] # None => Safe(PartAt(y))
      /\ \A i \in 1..Len(r.lists) : r.lists[i][2] \/ i < Len(r.lists)
  BY AtWork DEF Inv, Course
<1>3. t = Handler /\ r.pc = "loop" /\ r.hand = None /\ t # Poll /\ Raw \in Places
  BY <1>1, <1>2, AtWork, Constants DEF ReadAt, Step, Takers
<1>4. CASE ReadAt(t, "loop", Raw, [r EXCEPT !.todo = r.todo \ {Raw}, !.at = Raw])
  <2> DEFINE rest == r.todo \ {Raw}
  <2>1. ReadAt(t, "loop", Raw, [taker[t] EXCEPT !.todo = rest, !.at = Raw])
    BY <1>4
  <2>2. rest \in SUBSET taker[t].todo /\ "loop" \in {"loop", "fallback"}
    OBVIOUS
  <2> HIDE DEF rest
  <2>3. QED
    BY <1>1, <1>3, <2>1, <2>2, InvPartRead
<1>5. CASE Fault /\ Step(t, "loop", s) /\ forfeited' = forfeited \cup {Of[q]}
             /\ UNCHANGED <<inbox, repeatable>>
  <2>1. taker' = [taker EXCEPT ![t] = s] /\ UNCHANGED <<mode, tagsRead, arrived, passed>>
    BY <1>5 DEF Step
  <2>2. q \in arrived /\ q \in Parts /\ q # None
    BY <1>1, <1>3, Typed
  <2>3. /\ s \in Work /\ s.pc = "delete" /\ s.hand = q /\ s.at = Raw /\ s.todo = r.todo \ {Raw}
        /\ s.residue = r.residue /\ s.lists = r.lists
    <3> HIDE DEF r, q
    <3>1. QED
      BY <1>2, <1>3, <2>2 DEF Work
  <2>4. ~\E u \in Takers : taker[u].hand = q
    <3>1. Holds(Raw, q)
      BY <1>1 DEF Holds
    <3>2. taker[Poll].hand = q => taker[Poll].at = Raw
      BY <1>3, <2>2, <3>1, Constants DEF Inv, Apart, Carries
    <3>3. taker[Poll].at # Raw
      BY Constants DEF Inv, Course
    <3>4. QED
      BY <1>3, <2>2, <3>2, <3>3 DEF Takers
  <2>5. s.todo \cap s.residue = {} /\ faults' \in 0..MaxFaults /\ repeatable' \subseteq Messages
    BY <1>2, <1>5, <2>3, Constants DEF Fault, Inv, TypeOK
  <2> HIDE DEF s
  <2>6. QED
    BY <1>1, <1>2, <1>3, <1>5, <2>1, <2>3, <2>4, <2>5, InvReadAt
<1>6. QED
  BY <1>1, <1>4, <1>5

\* processSMS: the part is with the reassembler now, or its message is handed on.
LEMMA InvProcess ==
  ASSUME Inv, NEW t \in Takers, Process(t)
  PROVE  Inv'
<1> DEFINE r == taker[t]
           p == r.hand
           m == Of[p]
           s == [r EXCEPT !.pc = "delete"]
<1>1. /\ r.pc = "process" /\ taker' = [taker EXCEPT ![t] = s] /\ cache' = AddTo(p)
      /\ handedOn' = IF Completes(p) THEN [handedOn EXCEPT ![m] = IF @ = 2 THEN 2 ELSE @ + 1]
                     ELSE handedOn
      /\ UNCHANGED <<mode, tagsRead, arrived, passed, inbox, indicated, forfeited, repeatable,
                     faults>>
  BY DEF Process, Step
<1>2. /\ r \in Work /\ p \in arrived /\ p \in Parts /\ p # None /\ m \in Messages
      /\ r.at \in Places
  BY <1>1, Typed
<1>3. /\ s \in Work /\ s.pc = "delete" /\ s.hand = p /\ s.at = r.at /\ s.todo = r.todo
      /\ s.residue = r.residue /\ s.lists = r.lists
  <2> HIDE DEF r
  <2>1. QED
    BY <1>2 DEF Work, p
<1> HIDE DEF s
<1>4. /\ taker'[t] = s /\ \A u \in Takers : u # t => taker'[u] = taker[u]
      /\ taker' \in [Takers -> Work] /\ Work' = Work
  BY <1>1, <1>3 DEF Inv, TypeOK, Work
<1>5. /\ handedOn' \in [Messages -> 0..2] /\ \A n \in Messages : HandedOn(n) => HandedOn(n)'
      /\ \A n \in Messages : n # m => handedOn'[n] = handedOn[n]
      /\ Completes(p) => handedOn'[m] > 0 /\ (~HandedOn(m) => handedOn'[m] = 1)
      /\ ~Completes(p) => handedOn' = handedOn
  <2>1. handedOn \in [Messages -> 0..2] /\ handedOn[m] \in 0..2
    BY <1>2 DEF Inv, TypeOK
  <2>2. CASE Completes(p)
    <3> HIDE DEF m
    <3>1. handedOn' = [handedOn EXCEPT ![m] = IF handedOn[m] = 2 THEN 2 ELSE handedOn[m] + 1]
      BY <1>1, <2>1, <2>2 DEF m
    <3>2. /\ handedOn'[m] = IF handedOn[m] = 2 THEN 2 ELSE handedOn[m] + 1
          /\ \A n \in Messages : n # m => handedOn'[n] = handedOn[n]
          /\ handedOn' = [n \in Messages |-> handedOn'[n]]
      BY <1>2, <2>1, <3>1 DEF m
    <3>3. handedOn'[m] \in 0..2 /\ handedOn'[m] > 0 /\ (~(handedOn[m] > 0) => handedOn'[m] = 1)
      BY <2>1, <3>2
    <3>4. \A n \in Messages : handedOn'[n] \in 0..2
      BY <2>1, <3>2, <3>3
    <3>5. handedOn' \in [Messages -> 0..2]
      BY <3>2, <3>4
    <3>6. \A n \in Messages : handedOn[n] > 0 => handedOn'[n] > 0
      BY <2>1, <3>2, <3>3
    <3>7. QED
      BY <2>2, <3>2, <3>3, <3>5, <3>6 DEF HandedOn
  <2>3. CASE ~Completes(p)
    BY <1>1, <2>1, <2>3 DEF HandedOn
  <2>4. QED
    BY <2>2, <2>3
<1>6. /\ cache' \subseteq arrived /\ \A q \in cache : q \in cache' \/ (Completes(p) /\ Of[q] = m)
      /\ p \in cache' \/ Completes(p)
      /\ \A q \in cache' : Of[q] # m \/ ~Completes(p)
      /\ \A q \in cache' : q \in cache \/ q = p
  <2>1. cache \subseteq arrived /\ arrived \subseteq Parts
    BY Typed
  <2>2. QED
    BY <1>1, <1>2, <2>1 DEF AddTo, PartsOf
<1>7. TypeOK'
  <2>1. \A u \in Takers :
          LET w == taker'[u] IN
          /\ w.todo \cap w.residue = {}
          /\ w.hand # None <=> w.pc \in {"process", "delete"}
          /\ w.at # None <=> w.pc \in {"fallback", "process", "delete"}
          /\ w.pc = "idle" <=> w = Idle
    BY <1>1, <1>3, <1>4, IdleWork DEF Inv, TypeOK
  <2>2. QED
    BY <1>1, <1>4, <1>5, <1>6, <2>1 DEF Inv, TypeOK
<1>8. Course'
  BY <1>1, <1>3, <1>4 DEF Inv, Course
<1>9. /\ \A y \in Places : \A q : Holds(y, q)' <=> Holds(y, q)
      /\ \A u \in Takers : \A q : Carries(u, q)' <=> Carries(u, q)
      /\ \A u \in Takers : /\ taker'[u].at = taker[u].at /\ taker'[u].hand = taker[u].hand
                           /\ taker'[u].residue = taker[u].residue
  BY <1>1, <1>3, <1>4 DEF Holds, Carries, PartAt
<1>10. Apart'
  BY <1>1, <1>9, Constants DEF Inv, Apart
<1>11. \A q : InProcess(q)' => InProcess(q)
  BY <1>3, <1>4 DEF InProcess
<1>12. \A q \in Parts : q = p => Safe(q)'
  BY <1>5, <1>6 DEF Safe, HandedOn
<1>13. \A q \in Parts : Safe(q) => Safe(q)'
  <2>1. SUFFICES ASSUME NEW q \in Parts, Safe(q), q # p PROVE Safe(q)'
    BY <1>12
  <2>2. CASE Of[q] \in forfeited \/ HandedOn(Of[q])
    <3>1. Of[q] \in Messages
      BY Constants
    <3>2. Of[q] \in forfeited' \/ HandedOn(Of[q])'
      BY <1>1, <1>5, <2>2, <3>1
    <3>3. QED
      BY <3>2 DEF Safe
  <2>3. CASE q \in cache
    BY <1>5, <1>6, <2>3 DEF Safe, HandedOn
  <2>4. CASE InProcess(q)
    BY <1>4, <2>1, <2>4 DEF Safe, InProcess
  <2>5. QED
    BY <2>1, <2>2, <2>3, <2>4 DEF Safe
<1>14. Kept'
  <2>1. \A y \in Stored : inbox'[y] # None /\ inbox'[y].read => Safe(PartAt(y))'
    <3>1. SUFFICES ASSUME NEW y \in Stored, inbox[y] # None, inbox[y].read
                   PROVE  Safe(PartAt(y))'
      BY <1>1
    <3>2. Safe(PartAt(y)) /\ PartAt(y) \in Parts /\ PartAt(y)' = PartAt(y)
      BY <1>1, <3>1, Typed, Constants DEF Inv, Kept, PartAt
    <3>3. QED
      BY <1>13, <3>2
  <2>2. \A u \in Takers : \A y \in taker'[u].residue : inbox'[y] # None => Safe(PartAt(y))'
    <3>1. SUFFICES ASSUME NEW u \in Takers, NEW y \in taker[u].residue, inbox[y] # None
                   PROVE  Safe(PartAt(y))'
      BY <1>1, <1>9
    <3>2. y \in Places
      BY Typed, Constants
    <3>3. Safe(PartAt(y)) /\ PartAt(y) \in Parts /\ PartAt(y)' = PartAt(y)
      BY <1>1, <3>1, <3>2, Typed DEF Inv, Kept, PartAt
    <3>4. QED
      BY <1>13, <3>3
  <2>3. \A u \in Takers : taker'[u].hand # None =>
          \A q \in Parts : Holds(taker[u].at, q)' => q = taker'[u].hand \/ Of[q] \in forfeited'
    <3>1. SUFFICES ASSUME NEW u \in Takers, taker[u].hand # None, NEW q \in Parts,
                          Holds(taker[u].at, q)
                   PROVE  q = taker[u].hand \/ Of[q] \in forfeited
      BY <1>1, <1>9, Typed
    <3>2. QED
      BY <3>1 DEF Inv, Kept
  <2>4. \A u \in Takers : taker'[u].pc = "delete" => Safe(taker[u].hand)'
    <3>1. SUFFICES ASSUME NEW u \in Takers, taker'[u].pc = "delete"
                   PROVE  \A q : q = taker'[u].hand => Safe(q)'
      OBVIOUS
    <3>2. CASE u = t
      BY <1>2, <1>3, <1>4, <1>12, <3>2
    <3>3. CASE u # t
      <4>1. /\ taker'[u] = taker[u] /\ Safe(taker[u].hand) /\ taker[u].hand \in Parts
        BY <1>4, <3>1, <3>3, Typed DEF Inv, Kept
      <4>2. QED
        BY <1>13, <4>1
    <3>4. QED
      BY <3>2, <3>3
  <2>5. NothingDropped'
    <3>1. SUFFICES ASSUME NEW q \in arrived
                   PROVE  Safe(q)' \/ \E y \in Places : Holds(y, q)'
      BY <1>1 DEF NothingDropped, Safe, InProcess, Holds, Places
    <3>2. Safe(q) \/ \E y \in Places : Holds(y, q)
      BY DEF Inv, Kept, NothingDropped, Safe, InProcess, Holds
    <3>3. QED
      BY <1>9, <1>13, <3>2, Typed
  <2>6. QED
    BY <2>1, <2>2, <2>3, <2>4, <2>5 DEF Kept
<1>15. \A q \in Parts : Gone(q) => Gone(q)'
  <2>1. SUFFICES ASSUME NEW q \in Parts, Gone(q) PROVE Gone(q)'
    OBVIOUS
  <2>2. q \in arrived' /\ ~InProcess(q)'
    BY <1>1, <1>11, <2>1 DEF Gone
  <2>3. \A y \in Places : Holds(y, q)' =>
          \E u \in Takers : taker'[u].pc = "delete" /\ taker'[u].hand = q /\ taker'[u].at = y
    <3>1. SUFFICES ASSUME NEW y \in Places, Holds(y, q)
                   PROVE  \E u \in Takers : /\ taker'[u].pc = "delete"
                                            /\ taker'[u].hand = q /\ taker'[u].at = y
      BY <1>9
    <3>2. PICK u \in Takers : taker[u].pc = "delete" /\ taker[u].hand = q /\ taker[u].at = y
      BY <2>1, <3>1 DEF Gone
    <3>3. u # t
      BY <1>1, <3>2
    <3>4. QED
      BY <1>4, <3>2, <3>3
  <2>4. QED
    BY <2>2, <2>3 DEF Gone, Places
<1>16. m \notin repeatable => \A q \in Parts : q = p => Gone(q)'
  <2>1. SUFFICES ASSUME m \notin repeatable, NEW q \in Parts, q = p PROVE Gone(q)'
    OBVIOUS
  <2>2. ~InProcess(q)'
    <3>1. SUFFICES ASSUME NEW u \in Takers, taker'[u].pc = "process", taker'[u].hand = q
                   PROVE  FALSE
      BY DEF InProcess
    <3>2. u # t /\ taker[u].hand = q
      BY <1>3, <1>4, <3>1
    <3>3. Carries(u, q) /\ Carries(t, q)
      BY <1>2, <2>1, <3>2 DEF Carries
    <3>4. Carries(Handler, q) /\ Carries(Poll, q)
      BY <3>2, <3>3 DEF Takers
    <3>5. QED
      BY <2>1, <3>4 DEF Inv, Apart
  <2>3. \A y \in Places : Holds(y, q)' =>
          \E u \in Takers : taker'[u].pc = "delete" /\ taker'[u].hand = q /\ taker'[u].at = y
    <3>1. SUFFICES ASSUME NEW y \in Places, Holds(y, q) PROVE y = r.at
      BY <1>3, <1>4, <1>9, <2>1
    <3>2. Carries(t, q)
      BY <1>2, <2>1 DEF Carries
    <3>3. QED
      BY <3>1, <3>2 DEF Inv, Apart
  <2>4. QED
    BY <1>1, <1>2, <2>1, <2>2, <2>3 DEF Gone, Places
<1>17. m \notin repeatable => ~HandedOn(m) /\ p \notin cache
  <2>1. InProcess(p)
    BY <1>1 DEF InProcess
  <2>2. ~Gone(p)
    BY <2>1 DEF Gone
  <2>3. QED
    BY <1>2, <2>2 DEF Inv, Once
<1>18. Once'
  <2>1. \A q \in Parts : Of[q] \notin repeatable' /\ (q \in cache' \/ HandedOn(Of[q])') => Gone(q)'
    <3>1. SUFFICES ASSUME NEW q \in Parts, Of[q] \notin repeatable,
                          q \in cache' \/ HandedOn(Of[q])'
                   PROVE  Gone(q)'
      BY <1>1
    <3>2. CASE q = p
      BY <1>16, <3>1, <3>2
    <3>3. CASE q # p /\ Of[q] = m /\ Completes(p)
      <4>1. q \in cache
        BY <3>3 DEF Completes, PartsOf
      <4>2. QED
        BY <1>15, <3>1, <4>1 DEF Inv, Once
    <3>4. CASE q # p /\ ~(Of[q] = m /\ Completes(p))
      <4>1. q \in cache \/ HandedOn(Of[q])
        <5>1. Of[q] # m => handedOn'[Of[q]] = handedOn[Of[q]]
          BY <1>5, Constants
        <5>2. QED
          BY <1>5, <1>6, <3>1, <3>4, <5>1 DEF HandedOn
      <4>2. QED
        BY <1>15, <3>1, <4>1 DEF Inv, Once
    <3>5. QED
      BY <3>2, <3>3, <3>4
  <2>2. HandedOnce'
    <3>1. SUFFICES ASSUME NEW n \in Messages, n \notin repeatable PROVE handedOn'[n] <= 1
      BY <1>1 DEF HandedOnce
    <3>2. handedOn[n] <= 1
      BY <3>1 DEF Inv, Once, HandedOnce
    <3>3. CASE n = m /\ Completes(p)
      BY <1>5, <1>17, <3>1, <3>3
    <3>4. CASE ~(n = m /\ Completes(p))
      BY <1>5, <3>2, <3>4
    <3>5. QED
      BY <3>3, <3>4
  <2>3. QED
    BY <2>1, <2>2 DEF Once
<1>19. QED
  BY <1>7, <1>8, <1>10, <1>14, <1>18 DEF Inv

\* What was read is deleted, or its deletion fails and it may come again.
LEMMA InvDelete ==
  ASSUME Inv, NEW t \in Takers, Delete(t)
  PROVE  Inv'
<1> DEFINE r == taker[t]
           x == r.at
           p == r.hand
           s == Onward(r)
<1>1. /\ r.pc = "delete" /\ taker' = [taker EXCEPT ![t] = s]
      /\ UNCHANGED <<mode, tagsRead, arrived, passed, indicated, cache, handedOn, forfeited>>
      /\ \/ inbox' = [inbox EXCEPT ![x] = None] /\ faults' = faults /\ repeatable' = repeatable
         \/ Fault /\ inbox' = inbox /\ repeatable' = repeatable \cup {Of[p]}
  BY DEF Delete, Step, NoFault
<1>2. /\ r \in Work /\ p \in arrived /\ p \in Parts /\ p # None /\ Of[p] \in Messages
      /\ x \in Places
  BY <1>1, Typed
<1>3. Quiet(t, s)
  <2>1. /\ r.todo \cap r.residue = {} /\ t = Poll => Raw \notin r.todo
        /\ \A y \in r.residue : inbox[y] # None => Safe(PartAt(y))
    BY AtWork
  <2>2. (t = Poll => Raw \notin r.todo)
    BY AtWork
  <2>3. QED
    BY <1>2, <2>1, <2>2, AtWork, OnwardQuiet
<1>4. inbox[x] # None => Safe(PartAt(x))
  <2>1. SUFFICES ASSUME inbox[x] # None PROVE Safe(PartAt(x))
    OBVIOUS
  <2>2. PartAt(x) \in Parts /\ Holds(x, PartAt(x))
    BY <1>2, <2>1, Typed DEF Holds
  <2>3. PartAt(x) = p \/ Of[PartAt(x)] \in forfeited
    BY <1>2, <2>2 DEF Inv, Kept
  <2>4. Safe(p)
    BY <1>1 DEF Inv, Kept
  <2>5. QED
    BY <2>3, <2>4 DEF Safe
<1>5. /\ inbox' \in [Places -> [part : arrived, read : BOOLEAN] \cup {None}]
      /\ \A y \in Places : \/ inbox'[y] = inbox[y]
                           \/ y = x /\ inbox'[y] = None
      /\ inbox'[x] # None => Of[p] \in repeatable'
  <2>1. CASE inbox' = [inbox EXCEPT ![x] = None]
    <3>1. /\ \A y \in Places : inbox'[y] = IF y = x THEN None ELSE inbox[y]
          /\ inbox' \in [Places -> [part : arrived, read : BOOLEAN] \cup {None}]
      BY <1>2, <2>1 DEF Inv, TypeOK
    <3>2. QED
      BY <1>2, <3>1
  <2>2. CASE inbox' = inbox /\ repeatable' = repeatable \cup {Of[p]}
    BY <2>2 DEF Inv, TypeOK
  <2>3. QED
    BY <1>1, <2>1, <2>2
<1>6. Retagged
  BY <1>4, <1>5 DEF Retagged, PartAt
<1>7. /\ forfeited \subseteq forfeited' /\ forfeited' \subseteq Messages
      /\ repeatable \subseteq repeatable' /\ repeatable' \subseteq Messages
      /\ faults' \in 0..MaxFaults /\ indicated' \in Seq(Places)
  BY <1>1, <1>2, Constants DEF Fault, Inv, TypeOK
<1>8. \A q \in Parts : Carries(t, q) /\ Holds(x, q) /\ inbox'[x] # None => Of[q] \in repeatable'
  BY <1>5 DEF Carries
<1> HIDE DEF s
<1>9. QED
  BY <1>1, <1>3, <1>5, <1>6, <1>7, <1>8, InvPutDown

\* A leftover is safe when it is deleted.
LEMMA InvDeleteResidual ==
  ASSUME Inv, NEW t \in Takers, DeleteResidual(t)
  PROVE  Inv'
<1> DEFINE r == taker[t]
<1>1. PICK x \in r.residue :
        /\ r.pc = "loop"
        /\ taker' = [taker EXCEPT ![t] = Onward([r EXCEPT !.residue = r.residue \ {x}])]
        /\ UNCHANGED <<mode, tagsRead, arrived, passed, indicated, cache, handedOn, forfeited,
                       repeatable>>
        /\ \/ inbox' = [inbox EXCEPT ![x] = None] /\ faults' = faults
           \/ inbox' = inbox /\ Fault
  BY DEF DeleteResidual, Step, NoFault
<1>2. /\ r \in Work /\ r.todo \cap r.residue = {} /\ r.hand = None
      /\ \A y \in r.residue : inbox[y] # None => Safe(PartAt(y))
      /\ x \in Places
  BY <1>1, AtWork, Typed, Constants
<1>3. t = Poll => Raw \notin r.todo
  BY AtWork
<1> DEFINE rest == [r EXCEPT !.residue = r.residue \ {x}]
<1>4. rest \in Work /\ rest.todo = r.todo /\ rest.residue = r.residue \ {x}
  <2> HIDE DEF r
  <2>1. QED
    BY <1>2 DEF Work
<1>5. Quiet(t, Onward(rest))
  <2> HIDE DEF rest
  <2>1. rest.todo \cap rest.residue = {} /\ (t = Poll => Raw \notin rest.todo)
    BY <1>2, <1>3, <1>4
  <2>2. \A y \in rest.residue : inbox[y] # None => Safe(PartAt(y))
    BY <1>2, <1>4
  <2>3. QED
    BY <1>4, <2>1, <2>2, OnwardQuiet
<1>6. /\ inbox' \in [Places -> [part : arrived, read : BOOLEAN] \cup {None}]
      /\ \A y \in Places : \/ inbox'[y] = inbox[y]
                           \/ y = x /\ inbox'[y] = None
  <2>1. CASE inbox' = [inbox EXCEPT ![x] = None]
    <3>1. /\ \A y \in Places : inbox'[y] = IF y = x THEN None ELSE inbox[y]
          /\ inbox' \in [Places -> [part : arrived, read : BOOLEAN] \cup {None}]
      BY <1>2, <2>1 DEF Inv, TypeOK
    <3>2. QED
      BY <1>2, <3>1
  <2>2. CASE inbox' = inbox
    BY <2>2 DEF Inv, TypeOK
  <2>3. QED
    BY <1>1, <2>1, <2>2
<1>7. Retagged
  BY <1>1, <1>2, <1>6 DEF Retagged, PartAt
<1>8. /\ forfeited \subseteq forfeited' /\ forfeited' \subseteq Messages
      /\ faults' \in 0..MaxFaults /\ indicated' \in Seq(Places)
  BY <1>1, Constants DEF Fault, Inv, TypeOK
<1>9. taker' = [taker EXCEPT ![t] = Onward(rest)]
  BY <1>1
<1> HIDE DEF rest
<1>10. QED
  BY <1>1, <1>2, <1>5, <1>6, <1>7, <1>8, <1>9, InvQuiet

-----------------------------------------------------------------------------
(* The modem, time and a restart.                                          *)

\* A part that arrives is nowhere else yet, and is forfeited where a deletion awaits it.
LEMMA InvArrive ==
  ASSUME Inv, NEW p \in Parts, NEW x \in Places, Arrive(p, x)
  PROVE  Inv'
<1>1. /\ p \notin arrived /\ inbox[x] = None /\ arrived' = arrived \cup {p}
      /\ inbox' = [inbox EXCEPT ![x] = [part |-> p, read |-> FALSE]]
      /\ forfeited' = IF Doomed(x) THEN forfeited \cup {Of[p]} ELSE forfeited
      /\ UNCHANGED <<mode, tagsRead, taker, cache, handedOn, repeatable>>
  BY DEF Arrive
<1>2. indicated' \in Seq(Places) /\ faults' \in 0..MaxFaults
  <2>1. /\ indicated' = Append(indicated, x) \/ indicated' = indicated
        /\ faults' = faults \/ (faults < MaxFaults /\ faults' = faults + 1)
    BY DEF Arrive, NoFault, Fault
  <2>2. indicated \in Seq(Places) /\ faults \in 0..MaxFaults
    BY DEF Inv, TypeOK
  <2>3. indicated' \in Seq(Places)
    BY <2>1, <2>2
  <2>4. faults' \in 0..MaxFaults
    BY <2>1, <2>2, Constants
  <2>5. QED
    BY <2>3, <2>4
<1>3. [part |-> p, read |-> FALSE] # None /\ p # None /\ Of[p] \in Messages
  BY Constants
<1>4. /\ inbox'[x] = [part |-> p, read |-> FALSE]
      /\ \A y \in Places : y # x => inbox'[y] = inbox[y]
      /\ inbox' = [y \in Places |-> inbox'[y]]
  BY <1>1 DEF Inv, TypeOK
<1>5. inbox' \in [Places -> [part : arrived', read : BOOLEAN] \cup {None}]
  <2>1. \A y \in Places : inbox[y] \in [part : arrived, read : BOOLEAN] \cup {None}
    BY DEF Inv, TypeOK
  <2>2. [part : arrived, read : BOOLEAN] \subseteq [part : arrived', read : BOOLEAN]
    BY <1>1
  <2>3. [part |-> p, read |-> FALSE] \in [part : arrived', read : BOOLEAN]
    BY <1>1
  <2>4. QED
    BY <1>4, <2>1, <2>2, <2>3
<1>6. taker' \in [Takers -> Work']
  <2>1. Work \subseteq Work'
    BY <1>1 DEF Work, Places, Stored
  <2>2. QED
    BY <1>1, <2>1 DEF Inv, TypeOK
<1>7. forfeited \subseteq forfeited' /\ forfeited' \subseteq Messages
  BY <1>1, <1>3 DEF Inv, TypeOK
<1>8. TypeOK'
  <2>1. arrived' \subseteq Parts /\ cache' \subseteq arrived' /\ passed' \subseteq arrived'
    <3>1. passed' = passed \/ passed' = passed \cup {p}
      BY DEF Arrive
    <3>2. QED
      BY <1>1, <3>1, Typed
  <2>2. QED
    BY <1>1, <1>2, <1>5, <1>6, <1>7, <2>1 DEF Inv, TypeOK
<1>9. Course'
  BY <1>1 DEF Inv, Course
<1>10. \A y \in Places : \A q : Holds(y, q)' <=> Holds(y, q) \/ (y = x /\ q = p)
  BY <1>1, <1>3, <1>4 DEF Holds, PartAt
<1>11. /\ \A y \in Places : ~Holds(y, p)
       /\ \A u \in Takers : ~Carries(u, p) /\ taker[u].hand # p
       /\ p \notin cache
  BY <1>1, <1>3, Typed DEF Holds, Carries
<1>12. \A u, q : Carries(u, q)' <=> Carries(u, q)
  BY <1>1 DEF Carries
<1>13. Apart'
  <2>1. \A y, z \in Places : \A q \in Parts : Holds(y, q)' /\ Holds(z, q)' => y = z
    BY <1>10, <1>11 DEF Inv, Apart
  <2>2. \A u \in Takers, y \in Places, q \in Parts :
          Carries(u, q)' /\ Holds(y, q)' => y = taker'[u].at
    BY <1>1, <1>10, <1>11, <1>12 DEF Inv, Apart
  <2>3. \A q \in Parts : Carries(Handler, q)' /\ Carries(Poll, q)' => Of[q] \in repeatable'
    BY <1>1, <1>12 DEF Inv, Apart
  <2>4. QED
    BY <2>1, <2>2, <2>3 DEF Apart
<1>14. \A q : InProcess(q)' <=> InProcess(q)
  BY <1>1 DEF InProcess
<1>15. \A q : Safe(q) => Safe(q)'
  BY <1>1, <1>7, <1>14 DEF Safe, HandedOn
<1>16. Doomed(x) => \A q : q = p => Safe(q)'
  BY <1>1 DEF Safe
<1>17. Kept'
  <2>1. \A y \in Stored : inbox'[y] # None /\ inbox'[y].read => Safe(PartAt(y))'
    <3>1. SUFFICES ASSUME NEW y \in Stored, inbox'[y] # None, inbox'[y].read
                   PROVE  \A q : q = inbox'[y].part => Safe(q)'
      BY DEF PartAt
    <3>2. y # x /\ y \in Places
      BY <1>4, <3>1, Constants
    <3>3. inbox'[y] = inbox[y] /\ Safe(PartAt(y))
      BY <1>4, <3>1, <3>2 DEF Inv, Kept
    <3>4. QED
      BY <1>15, <3>3 DEF PartAt
  <2>2. \A u \in Takers : \A y \in taker'[u].residue : inbox'[y] # None => Safe(PartAt(y))'
    <3>1. SUFFICES ASSUME NEW u \in Takers, NEW y \in taker[u].residue, inbox'[y] # None
                   PROVE  \A q : q = inbox'[y].part => Safe(q)'
      BY <1>1 DEF PartAt
    <3>2. CASE y = x
      <4>1. Doomed(x) /\ inbox'[y].part = p
        BY <1>4, <3>2 DEF Doomed
      <4>2. QED
        BY <1>16, <4>1
    <3>3. CASE y # x
      <4>1. inbox'[y] = inbox[y] /\ Safe(PartAt(y))
        BY <1>4, <3>1, <3>3, Typed, Constants DEF Inv, Kept
      <4>2. QED
        BY <1>15, <4>1 DEF PartAt
    <3>4. QED
      BY <3>2, <3>3
  <2>3. \A u \in Takers : taker'[u].hand # None =>
          \A q \in Parts : Holds(taker[u].at, q)' => q = taker'[u].hand \/ Of[q] \in forfeited'
    <3>1. SUFFICES ASSUME NEW u \in Takers, taker[u].hand # None, NEW q \in Parts,
                          NEW y, y = taker[u].at, Holds(y, q)'
                   PROVE  q = taker[u].hand \/ Of[q] \in forfeited'
      BY <1>1
    <3>2. y \in Places
      BY <3>1, Typed
    <3>3. CASE Holds(y, q)
      BY <1>7, <3>1, <3>3 DEF Inv, Kept
    <3>4. CASE y = x /\ q = p
      BY <1>1, <3>1, <3>4 DEF Doomed
    <3>5. QED
      BY <1>10, <3>1, <3>2, <3>3, <3>4
  <2>4. \A u \in Takers : taker'[u].pc = "delete" => Safe(taker[u].hand)'
    <3>1. SUFFICES ASSUME NEW u \in Takers, taker[u].pc = "delete"
                   PROVE  \A q : q = taker[u].hand => Safe(q)'
      BY <1>1
    <3>2. QED
      BY <1>15, <3>1 DEF Inv, Kept
  <2>5. NothingDropped'
    <3>1. SUFFICES ASSUME NEW q \in arrived'
                   PROVE  Safe(q)' \/ \E y \in Places : Holds(y, q)'
      BY DEF NothingDropped, Safe, InProcess, Holds, Places
    <3>2. CASE q = p
      BY <1>10, <3>2
    <3>3. CASE q # p
      <4>1. Safe(q) \/ \E y \in Places : Holds(y, q)
        BY <1>1, <3>1, <3>3 DEF Inv, Kept, NothingDropped, Safe, InProcess, Holds
      <4>2. QED
        BY <1>10, <1>15, <4>1
    <3>4. QED
      BY <3>2, <3>3
  <2>6. QED
    BY <2>1, <2>2, <2>3, <2>4, <2>5 DEF Kept
<1>18. \A q : Gone(q) => Gone(q)'
  <2>1. SUFFICES ASSUME NEW q, Gone(q) PROVE Gone(q)'
    OBVIOUS
  <2>2. q # p /\ q \in arrived' /\ ~InProcess(q)'
    BY <1>1, <1>14, <2>1 DEF Gone
  <2>3. \A y \in Places : Holds(y, q)' =>
          \E u \in Takers : taker'[u].pc = "delete" /\ taker'[u].hand = q /\ taker'[u].at = y
    BY <1>1, <1>10, <2>1, <2>2 DEF Gone
  <2>4. QED
    BY <2>2, <2>3 DEF Gone, Places
<1>19. Once'
  BY <1>1, <1>18 DEF Inv, Once, HandedOnce, HandedOn
<1>20. QED
  BY <1>8, <1>9, <1>13, <1>17, <1>19 DEF Inv

\* The fragments of a message expire.
LEMMA InvExpire ==
  ASSUME Inv, NEW m \in Messages, Expire(m)
  PROVE  Inv'
<1>1. /\ cache' = cache \ PartsOf(m) /\ forfeited' = forfeited \cup {m}
      /\ UNCHANGED <<mode, tagsRead, inbox, indicated, taker, arrived, passed, handedOn,
                     repeatable>>
  BY DEF Expire
<1>2. faults' \in 0..MaxFaults
  BY Constants DEF Expire, Fault, Inv, TypeOK
<1>3. TypeOK'
  <2>1. cache' \subseteq arrived /\ forfeited' \subseteq Messages /\ Work' = Work
    BY <1>1 DEF Inv, TypeOK, Work
  <2>2. QED
    BY <1>1, <1>2, <2>1 DEF Inv, TypeOK
<1>4. Course' /\ Apart'
  BY <1>1 DEF Inv, Course, Apart, Holds, Carries, PartAt
<1>5. \A q \in Parts : Safe(q) => Safe(q)'
  BY <1>1 DEF Safe, HandedOn, InProcess, PartsOf
<1>6. Kept'
  <2>1. \A y \in Stored : inbox'[y] # None /\ inbox'[y].read => Safe(PartAt(y))'
    <3>1. SUFFICES ASSUME NEW y \in Stored, inbox[y] # None, inbox[y].read
                   PROVE  \A q : q = inbox[y].part => Safe(q)'
      BY <1>1 DEF PartAt
    <3>2. Safe(PartAt(y)) /\ PartAt(y) \in Parts
      BY <3>1, Typed, Constants DEF Inv, Kept
    <3>3. QED
      BY <1>5, <3>2 DEF PartAt
  <2>2. \A u \in Takers : \A y \in taker'[u].residue : inbox'[y] # None => Safe(PartAt(y))'
    <3>1. SUFFICES ASSUME NEW u \in Takers, NEW y \in taker[u].residue, inbox[y] # None
                   PROVE  \A q : q = inbox[y].part => Safe(q)'
      BY <1>1 DEF PartAt
    <3>2. Safe(PartAt(y)) /\ PartAt(y) \in Parts
      BY <3>1, Typed, Constants DEF Inv, Kept
    <3>3. QED
      BY <1>5, <3>2 DEF PartAt
  <2>3. \A u \in Takers : taker'[u].hand # None =>
          \A q \in Parts : Holds(taker[u].at, q)' => q = taker'[u].hand \/ Of[q] \in forfeited'
    BY <1>1 DEF Inv, Kept, Holds, PartAt
  <2>4. \A u \in Takers : taker'[u].pc = "delete" => Safe(taker[u].hand)'
    <3>1. SUFFICES ASSUME NEW u \in Takers, taker[u].pc = "delete"
                   PROVE  \A q : q = taker[u].hand => Safe(q)'
      BY <1>1
    <3>2. Safe(taker[u].hand) /\ taker[u].hand \in Parts
      BY <3>1, Typed DEF Inv, Kept
    <3>3. QED
      BY <1>5, <3>2
  <2>5. NothingDropped'
    <3>1. SUFFICES ASSUME NEW q \in arrived
                   PROVE  Safe(q)' \/ \E y \in Places : Holds(y, q)'
      BY <1>1 DEF NothingDropped, Safe, InProcess, Holds, Places
    <3>2. Safe(q) \/ \E y \in Places : Holds(y, q)
      BY DEF Inv, Kept, NothingDropped, Safe, InProcess, Holds
    <3>3. \A y : Holds(y, q) => Holds(y, q)'
      BY <1>1 DEF Holds, PartAt
    <3>4. QED
      BY <1>5, <3>2, <3>3, Typed
  <2>6. QED
    BY <2>1, <2>2, <2>3, <2>4, <2>5 DEF Kept
<1>7. \A q : Gone(q) => Gone(q)'
  BY <1>1 DEF Gone, InProcess, Holds, PartAt, Places
<1>8. Once'
  BY <1>1, <1>7 DEF Inv, Once, HandedOnce, HandedOn
<1>9. QED
  BY <1>3, <1>4, <1>6, <1>8 DEF Inv

\* The process restarts: what was in hand or in memory is in the modem still, or forfeited.
LEMMA InvCrash ==
  ASSUME Inv, Crash
  PROVE  Inv'
<1>1. /\ taker' = [t \in Takers |-> Idle] /\ cache' = {} /\ indicated' = <<>>
      /\ forfeited' = forfeited \cup {Of[p] : p \in cache}
                        \cup {Of[PartAt(x)] : x \in {y \in Occupied : inbox[y].read}}
                        \cup {Of[taker[t].hand] : t \in {u \in Takers : LostFromHand(u)}}
                        \cup {Of[p] : p \in Unprocessed}
      /\ repeatable' = repeatable
                        \cup {Of[taker[t].hand] : t \in {u \in Takers : taker[u].hand # None}}
      /\ inbox' = IF Passing THEN [inbox EXCEPT ![Raw] = None] ELSE inbox
      /\ UNCHANGED <<mode, tagsRead, arrived, passed, handedOn>>
  BY DEF Crash
<1>2. faults' \in 0..MaxFaults
  BY Constants DEF Crash, Fault, Inv, TypeOK
<1>3. \A t \in Takers : taker'[t] = Idle
  BY <1>1
<1>4. TypeOK'
  <2>1. /\ \A p \in cache : Of[p] \in Messages
        /\ \A x \in {y \in Occupied : inbox[y].read} : Of[PartAt(x)] \in Messages
    BY Typed, Constants DEF Occupied
  <2>2. \A t \in Takers : taker[t].hand # None => Of[taker[t].hand] \in Messages
    BY Typed
  <2>3. /\ \A t \in Takers : LostFromHand(t) => taker[t].hand # None
        /\ \A p \in Unprocessed : Of[p] \in Messages
    BY Typed DEF LostFromHand, Unprocessed
  <2>4. forfeited' \subseteq Messages /\ repeatable' \subseteq Messages
    <3>1. forfeited \subseteq Messages /\ repeatable \subseteq Messages
      BY DEF Inv, TypeOK
    <3>2. QED
      BY <1>1, <2>1, <2>2, <2>3, <3>1
  <2>5. Work' = Work /\ taker' \in [Takers -> Work] /\ indicated' \in Seq(Places)
    BY <1>1, IdleWork DEF Work
  <2>6. inbox' \in [Places -> [part : arrived, read : BOOLEAN] \cup {None}]
    BY <1>1 DEF Inv, TypeOK
  <2>7. QED
    BY <1>1, <1>2, <1>3, <2>4, <2>5, <2>6, IdleWork DEF Inv, TypeOK
<1>5. Course'
  BY <1>3, IdleWork, Constants DEF Course
<1>6. \A y \in Places : IF Passing /\ y = Raw THEN inbox'[y] = None ELSE inbox'[y] = inbox[y]
  BY <1>1 DEF Inv, TypeOK
<1>7. \A u \in Takers : \A q : ~Carries(u, q)'
  BY <1>3, IdleWork DEF Carries
<1>8. Apart'
  <2>1. \A y \in Places : \A q : Holds(y, q)' => Holds(y, q)
    BY <1>6 DEF Holds, PartAt
  <2>2. QED
    BY <1>7, <2>1, Constants DEF Inv, Apart, Places
<1>9. \A q \in arrived : \A y \in Places : Holds(y, q) => Safe(q)' \/ Holds(y, q)'
  <2>1. SUFFICES ASSUME NEW q \in arrived, Holds(Raw, q), Passing
                 PROVE  Safe(q)'
    BY <1>6 DEF Holds, PartAt
  <2>2. CASE q \in Unprocessed
    BY <1>1, <2>2 DEF Safe
  <2>3. CASE q \notin Unprocessed
    <3>1. taker[Handler].pc = "delete" /\ taker[Handler].hand = q
      BY <2>1, <2>3 DEF Unprocessed, Passing, Holds
    <3>2. ~InProcess(q)
      <4>1. q \in Parts /\ q # None
        BY Typed
      <4>2. \A u \in Takers : taker[u].hand = q => taker[u].at = Raw
        BY <2>1, <4>1, Constants DEF Inv, Apart, Carries
      <4>3. \A u \in Takers : taker[u].hand = q => u = Handler
        BY <4>2 DEF Inv, Course, Takers
      <4>4. QED
        BY <3>1, <4>3 DEF InProcess
    <3>3. Of[q] \in forfeited \/ HandedOn(Of[q]) \/ q \in cache
      BY <3>1, <3>2, Constants DEF Inv, Kept, Safe
    <3>4. QED
      BY <1>1, <3>3 DEF Safe, HandedOn
  <2>4. QED
    BY <2>2, <2>3
<1>10. \A q \in arrived : Safe(q) => Safe(q)' \/ \E y \in Places : Holds(y, q)
  <2>1. SUFFICES ASSUME NEW q \in arrived, Safe(q)
                 PROVE  Safe(q)' \/ \E y \in Places : Holds(y, q)
    OBVIOUS
  <2>2. CASE Of[q] \in forfeited \/ q \in cache
    BY <1>1, <2>2 DEF Safe
  <2>3. CASE HandedOn(Of[q])
    BY <1>1, <2>3 DEF Safe, HandedOn
  <2>4. CASE InProcess(q)
    <3>1. PICK t \in Takers : taker[t].pc = "process" /\ taker[t].hand = q
      BY <2>4 DEF InProcess
    <3>2. CASE LostFromHand(t)
      BY <1>1, <3>1, <3>2 DEF Safe
    <3>3. CASE ~LostFromHand(t)
      <4>1. taker[t].at \in Places
        BY <3>1, Typed
      <4>2. QED
        BY <3>1, <3>3, <4>1 DEF LostFromHand, Holds
    <3>4. QED
      BY <3>2, <3>3
  <2>5. QED
    BY <2>1, <2>2, <2>3, <2>4 DEF Safe
<1>11. Kept'
  <2>1. \A y \in Stored : inbox'[y] # None /\ inbox'[y].read => Safe(PartAt(y))'
    <3>1. SUFFICES ASSUME NEW y \in Stored, inbox[y] # None, inbox[y].read
                   PROVE  \A q : q = inbox[y].part => Safe(q)'
      BY <1>6, Constants DEF PartAt
    <3>2. y \in {z \in Occupied : inbox[z].read}
      BY <3>1 DEF Occupied
    <3>3. Of[PartAt(y)] \in forfeited'
      BY <1>1, <3>2
    <3>4. QED
      BY <3>3 DEF Safe, PartAt
  <2>2. NothingDropped'
    <3>1. SUFFICES ASSUME NEW q \in arrived
                   PROVE  Safe(q)' \/ \E y \in Places : Holds(y, q)'
      BY <1>1 DEF NothingDropped, Safe, InProcess, Holds, Places
    <3>2. Safe(q) \/ \E y \in Places : Holds(y, q)
      BY DEF Inv, Kept, NothingDropped, Safe, InProcess, Holds
    <3>3. QED
      BY <1>10, <1>9, <3>2
  <2>3. QED
    BY <1>3, <2>1, <2>2, IdleWork DEF Kept
<1>12. Once'
  <2>1. SUFFICES ASSUME NEW p \in Parts, Of[p] \notin repeatable', HandedOn(Of[p])
                 PROVE  Gone(p)'
    <3>1. HandedOnce'
      BY <1>1 DEF Inv, Once, HandedOnce
    <3>2. QED
      BY <1>1, <3>1 DEF Once, HandedOn
  <2>2. Gone(p)
    BY <1>1, <2>1 DEF Inv, Once
  <2>3. \A y \in Places : ~Holds(y, p)
    <3>1. SUFFICES ASSUME NEW y \in Places, Holds(y, p) PROVE FALSE
      OBVIOUS
    <3>2. PICK t \in Takers : taker[t].pc = "delete" /\ taker[t].hand = p
      BY <2>2, <3>1 DEF Gone
    <3>3. t \in {u \in Takers : taker[u].hand # None}
      BY <3>2, Typed
    <3>4. Of[p] \in repeatable'
      BY <1>1, <3>2, <3>3
    <3>5. QED
      BY <2>1, <3>4
  <2>4. ~InProcess(p)'
    BY <1>3, IdleWork DEF InProcess
  <2>5. \A y \in Places : ~Holds(y, p)'
    BY <1>6, <2>3 DEF Holds, PartAt
  <2>6. QED
    BY <1>1, <2>2, <2>4, <2>5 DEF Gone, Places
<1>13. QED
  BY <1>4, <1>5, <1>8, <1>11, <1>12 DEF Inv

\* Every step keeps the invariant.
LEMMA InvNext ==
  ASSUME Inv, [Next]_vars
  PROVE  Inv'
<1>1. CASE \E p \in Parts, x \in Places : Arrive(p, x)
  BY <1>1, InvArrive
<1>2. CASE SendAgain
  BY <1>2, InvSendAgain
<1>3. CASE \E t \in Takers : GoOn(t)
  <2>1. PICK t \in Takers : GoOn(t)
    BY <1>3
  <2>2. CASE t = Handler /\ TakeIndication
    BY <2>2, InvTakeIndication
  <2>3. CASE PollStarts \/ ListQMI
    BY <2>3, InvPollStarts, InvListQMI
  <2>4. CASE ListMBIM(t)
    BY <2>4, InvListMBIM
  <2>5. CASE Read(t)
    BY <2>5, InvRead
  <2>6. CASE Fallback(t)
    BY <2>6, InvFallback
  <2>7. CASE ReadRaw(t)
    BY <2>7, InvReadRaw
  <2>8. CASE Process(t)
    BY <2>8, InvProcess
  <2>9. CASE Delete(t)
    BY <2>9, InvDelete
  <2>10. CASE DeleteResidual(t)
    BY <2>10, InvDeleteResidual
  <2>11. QED
    BY <2>1, <2>2, <2>3, <2>4, <2>5, <2>6, <2>7, <2>8, <2>9, <2>10 DEF GoOn
<1>4. CASE \E m \in Messages : Expire(m)
  BY <1>4, InvExpire
<1>5. CASE Crash
  BY <1>5, InvCrash
<1>6. CASE UNCHANGED vars
  BY <1>6, InvStutter
<1>7. QED
  BY <1>1, <1>2, <1>3, <1>4, <1>5, <1>6 DEF Next

\* The invariant holds in every reachable state.
LEMMA InvAlways == Spec => []Inv
<1>1. Inv /\ [Next]_vars => Inv'
  BY InvNext
<1>2. QED
  BY InvInit, <1>1, PTL DEF Spec

-----------------------------------------------------------------------------
\* The types hold, and a message reaches the database and the notifier once, unless it is
\* repeatable (pool_sms.go and pool_sms_mbim.go: the handler and the poll).
THEOREM SpecConsistent == Spec => []Consistent
<1>1. Inv => Consistent
  BY DEF Inv, Once, Consistent
<1>2. QED
  BY InvAlways, <1>1, PTL

\* A part that has arrived is in the modem, in the hand of a goroutine, or with the
\* reassembler, until its message is handed on or forfeited.
THEOREM SpecNothingDropped == Spec => []NothingDropped
<1>1. Inv => NothingDropped
  BY DEF Inv, Kept
<1>2. QED
  BY InvAlways, <1>1, PTL

-----------------------------------------------------------------------------
(* The AT channel: AtManager.                                              *)

\* A channel holds a caller once.
Single(q) == \A i, j \in DOMAIN q : q[i] = q[j] => i = j

Commands == [op : {"query", "storage"}, arg : {0}] \cup [op : {"select"}, arg : Storages]
            \cup [op : {"read", "delete"}, arg : Positions]
Lines    == [kind : {"answer", "urc", "fatal", "eof"}, text : Texts]

\* AtTypeOK, with what the modem is told and what it says.
ChannelTypes ==
  /\ stage \in [Callers -> Stages]
  /\ previous \in [Readers -> Storages \cup {Nil}]
  /\ queue \in Seq(Callers) /\ urgent \in Seq(Callers)
  /\ loop \in BOOLEAN /\ looked \in BOOLEAN /\ hand \in Callers \cup {Nil}
  /\ streak \in 0..Threshold /\ reader \in BOOLEAN
  /\ rx \in Seq(Lines) /\ line \in Seq(Commands)
  /\ stopped \in BOOLEAN /\ told \in Nat
  /\ storage \in Storages /\ slot \in [Slots -> Mails \cup {Nil}]
  /\ slow \in BOOLEAN /\ slows \in 0..MaxSlow
  /\ handed \subseteq Mails /\ mixed \in BOOLEAN /\ gone \in BOOLEAN

\* A caller that waits is in one place, and has something to wait for.
Queueing ==
  /\ Single(queue) /\ Single(urgent)
  /\ \A c \in ToSet(queue) : c \notin Urgent
  /\ \A c \in ToSet(urgent) : c \in Urgent
  /\ \A c \in Callers : (Queued(c) => hand # c) /\ (Waiting(c) => ~Rests(c))

\* A reader is begun by the one announcement of its message, and restores what it
\* remembers.
Reading ==
  /\ \A c \in Callers \ Readers : stage[c] \in {"call", "done"}
  /\ \A r \in Readers :
       stage[r] # "call" /\ (stage[r] = "restore" => previous[r] # Nil)
  /\ \A i \in DOMAIN rx : rx[i].kind = "urc" =>
       /\ rx[i].text \in Readers /\ stage[rx[i].text] = "none"
       /\ \A j \in DOMAIN rx : rx[j].kind = "urc" /\ rx[j].text = rx[i].text => i = j

\* Nobody has been told, or the manager has stopped and its loop will not receive an
\* error any more.
Reporting ==
  /\ hand # Nil => ~looked /\ loop
  /\ told = 0 \/ (told = 1 /\ stopped /\ ~(looked /\ loop))

Live == ~gone /\ ~stopped
Calm == slows = 0 /\ ~mixed

\* An answer is that to the caller's command, and true of the storage in use.
Fits(c, text) ==
  /\ stage[c] = "storage" => text \in {Failed, storage}
  /\ stage[c] = "select"  => text = Failed \/ storage = Home(c)
  /\ stage[c] = "read"    => text \in {"ok", Failed, c}

\* As long as nothing was too slow, the command at hand and its answer are the only ones
\* on their way.
NoAnswer  == \A i \in DOMAIN rx : rx[i].kind # "answer"
OneAnswer == \A i, j \in DOMAIN rx : rx[i].kind = "answer" /\ rx[j].kind = "answer" => i = j
Exchange ==
  /\ gone => line = <<>>
  /\ slow => slows > 0
  /\ Live => reader /\ \A i \in DOMAIN rx : rx[i].kind \in {"answer", "urc"}
  /\ Live /\ slows = 0 =>
       /\ hand = Nil => line = <<>> /\ NoAnswer
       /\ hand # Nil => \/ line = <<Command(hand)>> /\ NoAnswer
                        \/ line = <<>> /\ OneAnswer /\ ~NoAnswer
       /\ ~mixed => \A i \in DOMAIN rx : rx[i].kind = "answer" => Fits(hand, rx[i].text)

\* A message is in its slot until it has been handed on and its reader deletes it, in the
\* storage it is in.
Announced(r) == \E i \in DOMAIN rx : rx[i].kind = "urc" /\ rx[i].text = r
Preserved(r) ==
  /\ Announced(r) \/ stage[r] \in {"storage", "select", "read"} => slot[Place[r]] = r
  /\ stage[r] \in {"delete", "restore", "done"} => r \in handed \/ slot[Place[r]] = r
  /\ Live => /\ stage[r] = "delete" => r \in handed
             /\ stage[r] = "delete" /\ (hand # r \/ line # <<>>) => slot[Place[r]] = r
             /\ stage[r] \in {"read", "delete"} => storage = Home(r)
Keeping ==
  Calm => /\ \A r \in Readers : Preserved(r)
          /\ \A m \in Resident : slot[Place[m]] = m
          /\ \A i \in DOMAIN rx : \A r \in Readers :
               rx[i].text = r => rx[i].kind = "urc" \/ stage[r] # "none"

ChannelInv == ChannelTypes /\ Queueing /\ Reading /\ Reporting /\ Exchange /\ Keeping

\* What is left of a channel when its first is taken.
LEMMA TakenFirst ==
  ASSUME NEW S, NEW q \in Seq(S), q # <<>>
  PROVE  /\ Tail(q) \in Seq(S) /\ 1 \in DOMAIN q /\ Head(q) = q[1] /\ Head(q) \in S
         /\ \A i \in DOMAIN Tail(q) : i + 1 \in DOMAIN q /\ Tail(q)[i] = q[i + 1] /\ i + 1 # 1
         /\ \A i \in DOMAIN q : i # 1 => i - 1 \in DOMAIN Tail(q) /\ Tail(q)[i - 1] = q[i]
OBVIOUS

\* What is in a channel when something is put into it.
LEMMA PutLast ==
  ASSUME NEW S, NEW q \in Seq(S), NEW e \in S
  PROVE  /\ Append(q, e) \in Seq(S)
         /\ Len(q) + 1 \in DOMAIN Append(q, e) /\ Len(q) + 1 \notin DOMAIN q
         /\ Append(q, e)[Len(q) + 1] = e
         /\ \A i \in DOMAIN Append(q, e) :
              i = Len(q) + 1 \/ (i \in DOMAIN q /\ Append(q, e)[i] = q[i])
         /\ \A i \in DOMAIN q : i \in DOMAIN Append(q, e) /\ Append(q, e)[i] = q[i]
OBVIOUS

\* A caller that is taken is not in its channel any more.
LEMMA OnceTaken ==
  ASSUME NEW S, NEW q \in Seq(S), q # <<>>, Single(q)
  PROVE  /\ Tail(q) \in Seq(S) /\ Head(q) \in S /\ Head(q) \in ToSet(q)
         /\ Single(Tail(q)) /\ ToSet(Tail(q)) \subseteq ToSet(q) \ {Head(q)}
BY TakenFirst DEF Single, ToSet

\* One that is put in is, with those that were.
LEMMA OncePut ==
  ASSUME NEW S, NEW q \in Seq(S), NEW e \in S, Single(q), e \notin ToSet(q)
  PROVE  /\ Append(q, e) \in Seq(S) /\ Single(Append(q, e))
         /\ ToSet(Append(q, e)) = ToSet(q) \cup {e}
BY PutLast DEF Single, ToSet

\* One that gives up is not in it any more, and the others are.
LEMMA OnceWithout ==
  ASSUME NEW S, NEW q \in Seq(S), NEW c, Single(q)
  PROVE  /\ Without(q, c) \in Seq(S) /\ Single(Without(q, c))
         /\ ToSet(Without(q, c)) \subseteq ToSet(q) \ {c}
<1>1. CASE c \notin ToSet(q)
  BY <1>1 DEF Without
<1>2. CASE c \in ToSet(q)
  <2> DEFINE p == CHOOSE i \in DOMAIN q : q[i] = c
             w == Without(q, c)
  <2>1. p \in DOMAIN q /\ q[p] = c
    BY <1>2 DEF ToSet
  <2>2. w = RemoveAt(q, p)
    BY <1>2 DEF Without
  <2> HIDE DEF p
  <2>3. /\ w \in Seq(S) /\ DOMAIN w = 1..(Len(q) - 1)
        /\ \A i \in DOMAIN w : w[i] = IF i < p THEN q[i] ELSE q[i + 1]
    <3> DEFINE before == SubSeq(q, 1, p - 1)
               after  == SubSeq(q, p + 1, Len(q))
    <3>1. w = before \o after
      BY <2>2 DEF RemoveAt
    <3>2. before \in Seq(S) /\ Len(before) = p - 1 /\ \A i \in 1..(p - 1) : before[i] = q[i]
      BY <2>1
    <3>3. /\ after \in Seq(S) /\ Len(after) = Len(q) - p
          /\ \A i \in 1..(Len(q) - p) : after[i] = q[p + i]
      BY <2>1
    <3> HIDE DEF before, after, w
    <3>4. w \in Seq(S) /\ Len(w) = Len(q) - 1
      BY <2>1, <3>1, <3>2, <3>3
    <3>5. ASSUME NEW i \in 1..(Len(q) - 1)
          PROVE  w[i] = IF i < p THEN q[i] ELSE q[i + 1]
      <4>1. CASE i < p
        BY <2>1, <3>1, <3>2, <3>3, <4>1
      <4>2. CASE ~(i < p)
        <5>1. i \in 1..(Len(before) + Len(after)) /\ ~(i <= Len(before))
          BY <2>1, <3>2, <3>3, <4>2
        <5>2. w[i] = after[i - (p - 1)]
          BY <3>1, <3>2, <3>3, <5>1, ConcatProperties
        <5>3. i - (p - 1) \in 1..(Len(q) - p) /\ p + (i - (p - 1)) = i + 1
          BY <2>1, <4>2
        <5>4. QED
          BY <3>3, <4>2, <5>2, <5>3
      <4>3. QED
        BY <4>1, <4>2
    <3>6. QED
      BY <3>4, <3>5
  <2> HIDE DEF w
  <2>5. DOMAIN q = 1..Len(q) /\ Len(q) \in Nat /\ p \in 1..Len(q)
    BY <2>1
  <2>6. \A i \in DOMAIN w : \E j \in DOMAIN q :
           j # p /\ w[i] = q[j] /\ j = IF i < p THEN i ELSE i + 1
    BY <2>3, <2>5
  <2>7. Single(w)
    BY <2>3, <2>5, <2>6 DEF Single
  <2>8. ToSet(w) \subseteq ToSet(q) \ {c}
    BY <2>1, <2>6 DEF Single, ToSet
  <2>9. QED
    BY <2>3, <2>7, <2>8 DEF w
<1>3. QED
  BY <1>1, <1>2

\* The names are apart.
LEMMA NamesApart ==
  /\ Readers \subseteq Callers /\ Urgent \subseteq Callers /\ Nil \notin Callers /\ Nil \notin Mails
  /\ Nil \notin Storages /\ Failed \notin Mails /\ "ok" \notin Mails /\ Failed \notin Storages
  /\ Mails \cap Storages = {} /\ Readers \subseteq Mails /\ Resident \subseteq Mails
  /\ Readers \cap Resident = {} /\ Readers \cap (Pollers \cup Urgent) = {}
  /\ \A r \in Mails : /\ Place[r] \in Slots /\ Home(r) \in Storages /\ Index(r) \in Positions
                      /\ Place[r] = <<Home(r), Index(r)>>
BY NamesAssumption, PlaceAssumption DEF Callers, Mails, Slots, Home, Index, Failed

\* A call that comes back goes on as its caller does.
LEMMA CallComes ==
  ASSUME ChannelTypes, Reading, NEW c \in Callers, ~Rests(c), NEW text, Return(c, text)
  PROVE  /\ stage' \in [Callers -> Stages] /\ previous' \in [Readers -> Storages \cup {Nil}]
         /\ handed' \subseteq Mails /\ handed \subseteq handed'
         /\ \A d \in Callers : d # c => stage'[d] = stage[d]
         /\ \A r \in Readers : r # c => previous'[r] = previous[r]
         /\ c \notin Readers => stage'[c] \in {"call", "done"}
         /\ c \in Readers =>
              /\ stage'[c] = "restore" => previous'[c] # Nil
              /\ stage[c] = "storage" => stage'[c] = IF text = Home(c) THEN "read" ELSE "select"
              /\ stage[c] = "select" => stage'[c] = IF text = Failed THEN "done" ELSE "read"
              /\ stage[c] = "read" => IF text \in Mails
                                        THEN stage'[c] = "delete" /\ text \in handed'
                                        ELSE stage'[c] \in {"restore", "done"}
              /\ stage[c] = "delete" => stage'[c] \in {"restore", "done"}
              /\ stage[c] = "restore" => stage'[c] = "done"
<1>1. stage' = [stage EXCEPT ![c] = After(c, text)]
  BY DEF Return
<1>2. c \notin Readers => stage[c] = "call"
  BY DEF Reading, Rests
<1>3. c \in Readers => stage[c] \in {"storage", "select", "read", "delete", "restore"}
  BY DEF Reading, Rests, ChannelTypes, Stages
<1>4. c \notin Readers => After(c, text) \in {"call", "done"}
  BY <1>2 DEF After
<1>5. c \in Readers =>
        /\ stage[c] = "storage" => After(c, text) = IF text = Home(c) THEN "read" ELSE "select"
        /\ stage[c] = "select" => After(c, text) = IF text = Failed THEN "done" ELSE "read"
        /\ stage[c] = "read" => After(c, text) = IF text \in Mails THEN "delete" ELSE Leave(c)
        /\ stage[c] = "delete" => After(c, text) = Leave(c)
        /\ stage[c] = "restore" => After(c, text) = "done"
  BY DEF After, Selected
<1>6. Leave(c) \in {"restore", "done"} /\ (Leave(c) = "restore" => previous[c] # Nil)
  BY DEF Leave
<1>7. After(c, text) \in Stages
  BY <1>2, <1>3, <1>4, <1>5, <1>6 DEF Stages
<1>8. /\ stage' \in [Callers -> Stages] /\ stage'[c] = After(c, text)
      /\ \A d \in Callers : d # c => stage'[d] = stage[d]
  BY <1>1, <1>7 DEF ChannelTypes
<1>9. /\ previous' \in [Readers -> Storages \cup {Nil}]
      /\ \A r \in Readers : r # c => previous'[r] = previous[r]
      /\ c \in Readers => (stage[c] # "storage" => previous'[c] = previous[c])
  <2>1. CASE c \in Readers /\ stage[c] = "storage" /\ Remember(c, text)
    BY <2>1 DEF Return, ChannelTypes, Remember
  <2>2. CASE ~(c \in Readers /\ stage[c] = "storage" /\ Remember(c, text))
    BY <2>2 DEF Return, ChannelTypes
  <2>3. QED
    BY <2>1, <2>2
<1>10. /\ handed' \subseteq Mails /\ handed \subseteq handed'
       /\ stage[c] = "read" /\ text \in Mails => text \in handed'
  BY DEF Return, ChannelTypes
<1>11. c \in Readers => (stage'[c] = "restore" => previous'[c] # Nil)
  BY <1>3, <1>5, <1>6, <1>8, <1>9
<1>12. QED
  BY <1>4, <1>5, <1>6, <1>8, <1>9, <1>10, <1>11

\* The command a caller that waits has on its way.
LEMMA CommandsAre ==
  ASSUME ChannelTypes, Reading, NEW c \in Callers, ~Rests(c)
  PROVE  /\ Command(c) \in Commands
         /\ c \notin Readers => Command(c).op = "query"
         /\ c \in Readers =>
              /\ stage[c] = "storage" => Command(c).op = "storage"
              /\ stage[c] = "select" => Command(c) = [op |-> "select", arg |-> Home(c)]
              /\ stage[c] = "read" => Command(c) = [op |-> "read", arg |-> Index(c)]
              /\ stage[c] = "delete" => Command(c) = [op |-> "delete", arg |-> Index(c)]
              /\ stage[c] = "restore" => Command(c) = [op |-> "select", arg |-> previous[c]]
              /\ stage[c] \in {"storage", "select", "read", "delete", "restore"}
<1>1. CASE c \notin Readers
  <2>1. stage[c] = "call"
    BY <1>1 DEF Reading, Rests
  <2>2. Command(c) = [op |-> "query", arg |-> 0]
    BY <2>1 DEF Command
  <2>3. QED
    BY <1>1, <2>2 DEF Commands
<1>2. CASE c \in Readers
  <2>1. stage[c] \in {"storage", "select", "read", "delete", "restore"}
    BY <1>2 DEF Reading, Rests, ChannelTypes, Stages
  <2>2. /\ stage[c] = "storage" => Command(c) = [op |-> "storage", arg |-> 0]
        /\ stage[c] = "select" => Command(c) = [op |-> "select", arg |-> Home(c)]
        /\ stage[c] = "read" => Command(c) = [op |-> "read", arg |-> Index(c)]
        /\ stage[c] = "delete" => Command(c) = [op |-> "delete", arg |-> Index(c)]
        /\ stage[c] = "restore" => Command(c) = [op |-> "select", arg |-> previous[c]]
    BY DEF Command
  <2>3. Home(c) \in Storages /\ Index(c) \in Positions
    BY <1>2, NamesApart
  <2>4. stage[c] = "restore" => previous[c] \in Storages
    BY <1>2 DEF Reading, ChannelTypes
  <2>5. Command(c) \in Commands
    BY <2>1, <2>2, <2>3, <2>4 DEF Commands
  <2>6. QED
    BY <1>2, <2>1, <2>2, <2>5
<1>3. QED
  BY <1>1, <1>2

\* A line that is taken out of the channel of the read loop is not in it any more.
LEMMA LineTaken ==
  ASSUME ChannelTypes, rx # <<>>, rx' = Tail(rx)
  PROVE  /\ rx' \in Seq(Lines) /\ 1 \in DOMAIN rx /\ Head(rx) = rx[1] /\ Head(rx) \in Lines
         /\ \A i \in DOMAIN rx' : i + 1 \in DOMAIN rx /\ rx'[i] = rx[i + 1] /\ i + 1 # 1
         /\ \A i \in DOMAIN rx : i # 1 => i - 1 \in DOMAIN rx' /\ rx'[i - 1] = rx[i]
         /\ \A i, j \in DOMAIN rx' : i + 1 = j + 1 => i = j
<1>1. rx \in Seq(Lines)
  BY DEF ChannelTypes
<1>2. \A i, j \in DOMAIN rx' : i + 1 = j + 1 => i = j
  BY <1>1
<1>3. QED
  BY <1>1, <1>2, TakenFirst

\* The line that is put is the last.
LEMMA LinePut ==
  ASSUME ChannelTypes, NEW m \in Lines, rx' = Append(rx, m)
  PROVE  /\ rx' \in Seq(Lines)
         /\ Len(rx) + 1 \in DOMAIN rx' /\ Len(rx) + 1 \notin DOMAIN rx /\ rx'[Len(rx) + 1] = m
         /\ \A i \in DOMAIN rx' : i = Len(rx) + 1 \/ (i \in DOMAIN rx /\ rx'[i] = rx[i])
         /\ \A i \in DOMAIN rx : i \in DOMAIN rx' /\ rx'[i] = rx[i]
<1>1. rx \in Seq(Lines)
  BY DEF ChannelTypes
<1>2. QED
  BY <1>1, PutLast

\* What is announced is so until its line is taken, and the same holds of the answers.
LEMMA LinesLeft ==
  ASSUME ChannelTypes, Reading, rx # <<>>, rx' = Tail(rx)
  PROVE  /\ \A r : Announced(r)' => Announced(r)
         /\ NoAnswer => NoAnswer'
         /\ OneAnswer => OneAnswer'
         /\ OneAnswer /\ Head(rx).kind = "answer" => NoAnswer'
         /\ ~NoAnswer /\ Head(rx).kind # "answer" => ~NoAnswer'
<1>1. \A r : Announced(r)' => Announced(r)
  BY LineTaken DEF Announced
<1>2. NoAnswer => NoAnswer'
  BY LineTaken DEF NoAnswer
<1>3. OneAnswer => OneAnswer'
  BY LineTaken DEF OneAnswer
<1>4. OneAnswer /\ Head(rx).kind = "answer" => NoAnswer'
  BY LineTaken DEF OneAnswer, NoAnswer
<1>5. ASSUME ~NoAnswer, Head(rx).kind # "answer"
      PROVE  ~NoAnswer'
  <2>1. PICK i \in DOMAIN rx : rx[i].kind = "answer"
    BY <1>5 DEF NoAnswer
  <2>2. i # 1
    BY <1>5, <2>1, LineTaken
  <2>3. i - 1 \in DOMAIN rx' /\ rx'[i - 1] = rx[i]
    BY <2>2, LineTaken
  <2>4. QED
    BY <2>1, <2>3 DEF NoAnswer
<1>6. QED
  BY <1>1, <1>2, <1>3, <1>4, <1>5

\* A report is made of a manager that runs.
LEMMA ReportsOnce ==
  ASSUME ChannelTypes, Reporting, DisconnectIfRunning \/ UNCHANGED stopVars,
         looked' = FALSE, loop' = loop, hand' \in {hand, Nil}, hand = Nil \/ loop
  PROVE  Reporting' /\ told' \in Nat /\ stopped' \in BOOLEAN /\ (stopped => stopped')
<1>1. \/ UNCHANGED stopVars
      \/ ~stopped /\ stopped' = TRUE /\ told' = told + 1
  BY DEF DisconnectIfRunning, Disconnect
<1>2. CASE UNCHANGED stopVars
  BY <1>2 DEF Reporting, ChannelTypes, stopVars
<1>3. CASE ~stopped /\ stopped' = TRUE /\ told' = told + 1
  <2>1. told = 0
    BY <1>3 DEF Reporting
  <2>2. QED
    BY <1>3, <2>1 DEF Reporting, ChannelTypes
<1>4. QED
  BY <1>1, <1>2, <1>3

\* A call comes back: with the answer to its command, unless something was too slow or the
\* manager is about to stop.
LEMMA ReturnKeeps ==
  ASSUME ChannelInv, NEW c \in Callers, ~Rests(c), NEW text, Return(c, text),
         hand \in {c, Nil}, hand' = Nil, looked' = FALSE, loop' = loop,
         rx' = rx \/ (rx # <<>> /\ rx' = Tail(rx)),
         queue' \in Seq(Callers), urgent' \in Seq(Callers), Single(queue'), Single(urgent'),
         ToSet(queue') \subseteq ToSet(queue) \ {c}, ToSet(urgent') \subseteq ToSet(urgent) \ {c},
         DisconnectIfRunning \/ UNCHANGED stopVars, streak' \in 0..Threshold,
         slow' \in {slow, FALSE},
         UNCHANGED <<line, gone, modemVars, slows, reader>>,
         Live' /\ slows = 0 =>
           /\ rx # <<>> /\ rx' = Tail(rx)
           /\ Head(rx).kind = "answer" /\ Head(rx).text = text /\ hand = c
  PROVE  ChannelInv'
<1> USE DEF ChannelInv, modemVars
<1>1. hand = Nil \/ loop
  BY DEF Reporting
<1>2. Reporting' /\ told' \in Nat /\ stopped' \in BOOLEAN /\ (stopped => stopped')
  BY <1>1, ReportsOnce
<1>3. Live' => Live
  BY <1>2 DEF Live
<1>4. ChannelTypes'
  <2>1. rx' \in Seq(Lines)
    BY LineTaken DEF ChannelTypes
  <2>2. QED
    BY <1>2, <2>1, CallComes DEF ChannelTypes
<1>5. Queueing'
  <2>1. \A d \in Callers : d # c => stage'[d] = stage[d]
    BY CallComes
  <2>2. Nil \notin Callers
    BY NamesApart
  <2>3. QED
    BY <2>1, <2>2 DEF Queueing, Waiting, Queued, Rests
<1>6. Reading'
  <2>1. \A d \in Callers \ Readers : stage'[d] \in {"call", "done"}
    BY CallComes DEF Reading
  <2>2. \A r \in Readers : stage'[r] # "call" /\ (stage'[r] = "restore" => previous'[r] # Nil)
    <3>1. TAKE r \in Readers
    <3>2. CASE r = c
      BY <3>2, CallComes, CommandsAre
    <3>3. CASE r # c
      BY <3>3, CallComes, NamesApart DEF Reading
    <3>4. QED
      BY <3>2, <3>3
  <2>3. ASSUME NEW i \in DOMAIN rx', rx'[i].kind = "urc"
        PROVE  /\ rx'[i].text \in Readers /\ stage'[rx'[i].text] = "none"
               /\ \A j \in DOMAIN rx' : rx'[j].kind = "urc" /\ rx'[j].text = rx'[i].text => i = j
    <3>1. PICK k \in DOMAIN rx : rx[k] = rx'[i] /\ (rx' = rx => k = i) /\ (rx' # rx => k = i + 1)
      BY LineTaken
    <3>2. rx'[i].text \in Readers /\ stage[rx'[i].text] = "none"
      BY <2>3, <3>1 DEF Reading
    <3>3. stage'[rx'[i].text] = "none"
      <4>1. \A d \in Callers : stage[d] = "none" => d # c
        BY DEF Rests
      <4>2. \A d \in Callers : stage[d] = "none" => stage'[d] = "none"
        BY <4>1, CallComes
      <4>3. rx'[i].text \in Callers
        BY <3>2, NamesApart
      <4>4. QED
        BY <3>2, <4>2, <4>3
    <3>4. ASSUME NEW j \in DOMAIN rx', rx'[j].kind = "urc", rx'[j].text = rx'[i].text
          PROVE  i = j
      <4>1. PICK l \in DOMAIN rx : rx[l] = rx'[j] /\ (rx' = rx => l = j) /\ (rx' # rx => l = j + 1)
        BY LineTaken
      <4>2. k = l
        BY <2>3, <3>1, <3>4, <4>1 DEF Reading
      <4>3. CASE rx' = rx
        BY <3>1, <4>1, <4>2, <4>3
      <4>4. CASE rx' # rx
        BY <3>1, <4>1, <4>2, <4>4, LineTaken
      <4>5. QED
        BY <4>3, <4>4
    <3>5. QED
      BY <3>2, <3>3, <3>4
  <2>4. QED
    BY <2>1, <2>2, <2>3 DEF Reading
<1>7. Live /\ Live' /\ slows = 0 =>
        /\ rx # <<>> /\ rx' = Tail(rx) /\ Head(rx).text = text /\ hand = c
        /\ line = <<>> /\ NoAnswer' /\ (~mixed => Fits(c, text))
  <2>1. SUFFICES ASSUME Live, Live', slows = 0
                 PROVE  /\ rx # <<>> /\ rx' = Tail(rx) /\ Head(rx).text = text /\ hand = c
                        /\ line = <<>> /\ NoAnswer' /\ (~mixed => Fits(c, text))
    OBVIOUS
  <2>2. /\ rx # <<>> /\ rx' = Tail(rx) /\ Head(rx).kind = "answer" /\ Head(rx).text = text
        /\ hand = c /\ hand # Nil
    BY <2>1, NamesApart
  <2>3. 1 \in DOMAIN rx /\ Head(rx) = rx[1]
    BY <2>2, LineTaken
  <2>4. ~NoAnswer
    BY <2>2, <2>3 DEF NoAnswer
  <2>5. line = <<>> /\ OneAnswer
    BY <2>1, <2>2, <2>4 DEF Exchange
  <2>6. NoAnswer'
    BY <2>2, <2>5, LinesLeft
  <2>7. ~mixed => Fits(c, text)
    BY <2>1, <2>2, <2>3 DEF Exchange
  <2>8. QED
    BY <2>2, <2>5, <2>6, <2>7
<1>8. Exchange'
  <2>1. gone' => line' = <<>>
    BY DEF Exchange
  <2>2. slow' => slows' > 0
    BY DEF Exchange
  <2>3. Live' => reader' /\ \A i \in DOMAIN rx' : rx'[i].kind \in {"answer", "urc"}
    BY <1>3, LineTaken DEF Exchange
  <2>4. Live' /\ slows' = 0 => line' = <<>> /\ NoAnswer'
    BY <1>3, <1>7
  <2>5. QED
    BY <2>1, <2>2, <2>3, <2>4 DEF Exchange, NoAnswer
<1>9. Keeping'
  <2>1. SUFFICES ASSUME Calm PROVE /\ \A r \in Readers : Preserved(r)'
                                   /\ \A m \in Resident : slot[Place[m]] = m
                                   /\ \A i \in DOMAIN rx' : \A r \in Readers :
                                        rx'[i].text = r => rx'[i].kind = "urc" \/ stage'[r] # "none"
    BY DEF Keeping, Calm
  <2>2. \A i \in DOMAIN rx' : \A r \in Readers :
           rx'[i].text = r => rx'[i].kind = "urc" \/ stage'[r] # "none"
    <3>1. TAKE i \in DOMAIN rx'
    <3>2. TAKE r \in Readers
    <3>3. HAVE rx'[i].text = r
    <3>4. PICK k \in DOMAIN rx : rx[k] = rx'[i]
      BY LineTaken
    <3>5. rx'[i].kind = "urc" \/ stage[r] # "none"
      BY <2>1, <3>3, <3>4 DEF Keeping
    <3>6. stage[r] # "none" => stage'[r] # "none"
      BY CallComes, CommandsAre, NamesApart
    <3>7. QED
      BY <3>5, <3>6
  <2>3. \A r \in Readers : Announced(r)' => Announced(r)
    <3>1. CASE rx' = rx
      BY <3>1 DEF Announced
    <3>2. CASE rx # <<>> /\ rx' = Tail(rx)
      BY <3>2, LinesLeft
    <3>3. QED
      BY <3>1, <3>2
  <2>4. ASSUME NEW r \in Readers, r # c PROVE Preserved(r)'
    <3>1. Preserved(r)
      BY <2>1 DEF Keeping
    <3>2. stage'[r] = stage[r] /\ handed \subseteq handed'
      BY <2>4, CallComes, NamesApart
    <3>3. hand' # r /\ hand # r
      BY <2>4, NamesApart
    <3>4. QED
      BY <1>3, <2>3, <3>1, <3>2, <3>3 DEF Preserved, Home
  <2>5. ASSUME c \in Readers PROVE Preserved(c)'
    <3>1. Preserved(c) /\ stage[c] \in {"storage", "select", "read", "delete", "restore"}
      BY <2>1, <2>5, CommandsAre DEF Keeping
    <3>2. ~Announced(c)'
      BY <2>3, <2>5, <3>1 DEF Reading, Announced
    <3>3. stage'[c] \in {"select", "read", "delete", "restore", "done"}
          /\ (stage[c] \in {"delete", "restore"} => stage'[c] \in {"restore", "done"})
      BY <2>5, <3>1, CallComes
    <3>4. stage'[c] \in {"select", "read"} => slot[Place[c]] = c
      BY <3>1, <3>3 DEF Preserved
    <3>5. handed \subseteq handed' /\ (c \in handed \/ slot[Place[c]] = c)
      BY <2>5, <3>1, CallComes DEF Preserved
    <3>6. ASSUME Live'
          PROVE  /\ stage'[c] = "delete" => c \in handed' /\ slot[Place[c]] = c
                 /\ stage'[c] \in {"read", "delete"} => storage = Home(c)
      <4>1. Live /\ Fits(c, text)
        BY <1>3, <1>7, <2>1, <3>6 DEF Calm
      <4>2. CASE stage[c] = "storage"
        BY <2>5, <4>1, <4>2, CallComes, NamesApart DEF Fits
      <4>3. CASE stage[c] = "select"
        BY <2>5, <4>1, <4>3, CallComes DEF Fits
      <4>4. CASE stage[c] = "read"
        <5>1. stage'[c] = "delete" => c \in handed'
          BY <2>5, <4>1, <4>4, CallComes, NamesApart DEF Fits
        <5>2. slot[Place[c]] = c /\ storage = Home(c)
          BY <3>1, <4>1, <4>4 DEF Preserved
        <5>3. QED
          BY <5>1, <5>2
      <4>5. CASE stage[c] \in {"delete", "restore"}
        BY <3>3, <4>5
      <4>6. QED
        BY <3>1, <4>2, <4>3, <4>4, <4>5
    <3>7. QED
      BY <3>2, <3>3, <3>4, <3>5, <3>6 DEF Preserved, Home
  <2>6. QED
    BY <2>1, <2>2, <2>4, <2>5 DEF Keeping
<1>10. QED
  BY <1>2, <1>4, <1>5, <1>6, <1>8, <1>9

\* A line that leaves the others as they are leaves their announcements apart.
LEMMA ReadingLeft ==
  ASSUME ChannelTypes, Reading, rx # <<>>, rx' = Tail(rx), UNCHANGED previous,
         \A c \in Callers \ Readers : stage'[c] = stage[c],
         \A r \in Readers :
           \/ stage'[r] = stage[r]
           \/ /\ stage'[r] = "storage"
              /\ ~\E i \in DOMAIN rx' : rx'[i].text = r /\ rx'[i].kind = "urc"
  PROVE  Reading'
<1>1. ASSUME NEW i \in DOMAIN rx', rx'[i].kind = "urc"
      PROVE  /\ rx'[i].text \in Readers /\ stage'[rx'[i].text] = "none"
             /\ \A j \in DOMAIN rx' : rx'[j].kind = "urc" /\ rx'[j].text = rx'[i].text => i = j
  <2>1. i + 1 \in DOMAIN rx /\ rx[i + 1] = rx'[i]
    BY LineTaken
  <2>2. rx'[i].text \in Readers /\ stage[rx'[i].text] = "none"
    BY <1>1, <2>1 DEF Reading
  <2>3. stage'[rx'[i].text] = "none"
    BY <1>1, <2>2
  <2>4. ASSUME NEW j \in DOMAIN rx', rx'[j].kind = "urc", rx'[j].text = rx'[i].text
        PROVE  i = j
    <3>1. j + 1 \in DOMAIN rx /\ rx[j + 1] = rx'[j]
      BY LineTaken
    <3>2. i + 1 = j + 1
      BY <1>1, <2>1, <2>4, <3>1 DEF Reading
    <3>3. QED
      BY <3>2, LineTaken
  <2>5. QED
    BY <2>2, <2>3, <2>4
<1>2. \A r \in Readers : stage'[r] # "call" /\ (stage'[r] = "restore" => previous'[r] # Nil)
  BY DEF Reading
<1>3. \A c \in Callers \ Readers : stage'[c] \in {"call", "done"}
  BY DEF Reading
<1>4. QED
  BY <1>1, <1>2, <1>3 DEF Reading

\* A message is announced: its reader begins, whatever command is at hand.
LEMMA NoticeKeeps ==
  ASSUME ChannelInv, rx # <<>>, rx' = Tail(rx), Head(rx).kind = "urc", Notice(Head(rx).text),
         looked' = FALSE,
         UNCHANGED <<hand, loop, streak, stopVars, paceVars, queue, urgent, reader, line, gone,
                     modemVars>>
  PROVE  ChannelInv'
<1> USE DEF ChannelInv, modemVars, stopVars, paceVars
<1>0. Head(rx).text \in Readers
  BY LineTaken DEF Reading
<1> PICK r \in Readers : r = Head(rx).text
  BY <1>0
<1>1. 1 \in DOMAIN rx /\ rx[1].kind = "urc" /\ rx[1].text = r /\ stage[r] = "none"
  BY LineTaken DEF Reading
<1>2. r \in Callers /\ Rests(r) /\ hand # r /\ ~Queued(r) /\ Announced(r)
  BY <1>1, NamesApart DEF Queueing, Waiting, Rests, Announced
<1>3. stage' = [stage EXCEPT ![r] = "storage"] /\ UNCHANGED <<previous, handed>>
  BY DEF Notice
<1>4. /\ stage' \in [Callers -> Stages] /\ stage'[r] = "storage"
      /\ \A c \in Callers : c # r => stage'[c] = stage[c]
  BY <1>2, <1>3 DEF ChannelTypes, Stages
<1>5. ChannelTypes'
  BY <1>3, <1>4, LineTaken DEF ChannelTypes
<1>6. Queueing'
  BY <1>2, <1>4 DEF Queueing, Waiting, Queued, Rests
<1>7. ~\E i \in DOMAIN rx' : rx'[i].text = r /\ rx'[i].kind = "urc"
  <2>1. SUFFICES ASSUME NEW i \in DOMAIN rx', rx'[i].text = r, rx'[i].kind = "urc" PROVE FALSE
    OBVIOUS
  <2>2. i + 1 \in DOMAIN rx /\ rx[i + 1] = rx'[i] /\ i + 1 # 1
    BY LineTaken
  <2>3. QED
    BY <1>1, <2>1, <2>2 DEF Reading
<1>8. Reading'
  <2>1. \A c \in Callers \ Readers : stage'[c] = stage[c]
    BY <1>1, <1>4
  <2>2. \A q \in Readers : stage'[q] = stage[q]
                           \/ (stage'[q] = "storage"
                               /\ ~\E i \in DOMAIN rx' : rx'[i].text = q /\ rx'[i].kind = "urc")
    BY <1>4, <1>7, NamesApart
  <2>3. QED
    BY <1>3, <2>1, <2>2, ReadingLeft
<1>9. Reporting'
  BY DEF Reporting
<1>10. Exchange'
  <2>1. hand # Nil => Command(hand)' = Command(hand)
    <3>1. hand # Nil => stage'[hand] = stage[hand]
      BY <1>2, <1>4 DEF ChannelTypes
    <3>2. QED
      BY <1>3, <3>1 DEF Command, Home, Index
  <2>2. Live' <=> Live
    BY DEF Live
  <2>3. Live => reader' /\ \A i \in DOMAIN rx' : rx'[i].kind \in {"answer", "urc"}
    BY LineTaken DEF Exchange
  <2>4. ASSUME Live, slows = 0
        PROVE  /\ hand = Nil => line = <<>> /\ NoAnswer'
               /\ hand # Nil => \/ line = <<Command(hand)>>' /\ NoAnswer'
                                \/ line = <<>> /\ OneAnswer' /\ ~NoAnswer'
    BY <2>1, <2>4, LinesLeft DEF Exchange
  <2>5. ASSUME Live, slows = 0, ~mixed, NEW i \in DOMAIN rx', rx'[i].kind = "answer"
        PROVE  Fits(hand, rx[i].text)'
    <3>1. i + 1 \in DOMAIN rx /\ rx[i + 1] = rx'[i]
      BY LineTaken
    <3>2. Fits(hand, rx'[i].text)
      BY <2>5, <3>1 DEF Exchange
    <3>3. hand \in Callers
      BY <2>5, <3>1 DEF Exchange, NoAnswer, ChannelTypes
    <3>4. stage'[hand] = stage[hand]
      BY <1>2, <1>4, <3>3
    <3>5. hand' = hand /\ storage' = storage
      OBVIOUS
    <3>6. QED
      BY <3>2, <3>4, <3>5 DEF Fits, Home
  <2>6. (gone' => line' = <<>>) /\ (slow' => slows' > 0)
    BY DEF Exchange
  <2>7. QED
    BY <2>2, <2>3, <2>4, <2>5, <2>6 DEF Exchange
<1>11. Keeping'
  <2>1. SUFFICES ASSUME Calm PROVE /\ \A q \in Readers : Preserved(q)'
                                   /\ \A m \in Resident : slot[Place[m]] = m
                                   /\ \A i \in DOMAIN rx' : \A q \in Readers :
                                        rx'[i].text = q => rx'[i].kind = "urc" \/ stage'[q] # "none"
    BY DEF Keeping, Calm
  <2>2. Preserved(r)'
    BY <1>1, <1>2, <1>4, <2>1 DEF Keeping, Preserved
  <2>3. ASSUME NEW q \in Readers, q # r PROVE Preserved(q)'
    <3>1. Preserved(q) /\ stage'[q] = stage[q] /\ (Announced(q)' => Announced(q))
      BY <1>4, <2>1, <2>3, LinesLeft, NamesApart DEF Keeping
    <3>2. QED
      BY <1>3, <3>1 DEF Preserved, Live, Home
  <2>4. ASSUME NEW i \in DOMAIN rx', NEW q \in Readers, rx'[i].text = q
        PROVE  rx'[i].kind = "urc" \/ stage'[q] # "none"
    <3>1. i + 1 \in DOMAIN rx /\ rx[i + 1] = rx'[i]
      BY LineTaken
    <3>2. rx'[i].kind = "urc" \/ stage[q] # "none"
      BY <2>1, <2>4, <3>1 DEF Keeping
    <3>3. stage[q] # "none" => stage'[q] # "none"
      BY <1>4, NamesApart
    <3>4. QED
      BY <3>2, <3>3
  <2>5. QED
    BY <2>1, <2>2, <2>3, <2>4 DEF Keeping
<1>12. QED
  BY <1>5, <1>6, <1>8, <1>9, <1>10, <1>11

\* A line nobody waits for is dropped, or ends the manager.
LEMMA IdleKeeps ==
  ASSUME ChannelInv, rx # <<>>, rx' = Tail(rx), hand = Nil, looked' = FALSE, loop, looked,
         (Head(rx).kind = "answer" /\ UNCHANGED <<stopVars, loop>>)
         \/ (Head(rx).kind \in {"fatal", "eof"} /\ Disconnect /\ loop' = FALSE),
         UNCHANGED <<callVars, handed, hand, streak, queue, urgent, reader, line, gone, modemVars,
                     paceVars>>
  PROVE  ChannelInv'
<1> USE DEF ChannelInv, callVars, modemVars, stopVars, paceVars
<1>1. Head(rx) = rx[1] /\ 1 \in DOMAIN rx
  BY LineTaken
<1>2. told' \in Nat /\ stopped' \in BOOLEAN /\ (stopped => stopped') /\ loop' \in BOOLEAN
  <2>1. CASE UNCHANGED <<stopVars, loop>>
    BY <2>1 DEF ChannelTypes
  <2>2. CASE Disconnect /\ loop' = FALSE
    <3>1. told' \in Nat
      BY <2>2 DEF Disconnect, ChannelTypes
    <3>2. stopped' = TRUE /\ loop' = FALSE
      BY <2>2 DEF Disconnect
    <3>3. QED
      BY <3>1, <3>2
  <2>3. QED
    BY <2>1, <2>2
<1>3. ChannelTypes'
  BY <1>2, LineTaken DEF ChannelTypes
<1>4. Queueing'
  BY DEF Queueing, Waiting, Queued, Rests
<1>5. Reading'
  <2>1. UNCHANGED previous /\ UNCHANGED stage
    OBVIOUS
  <2>2. QED
    BY <2>1, ReadingLeft
<1>6. Reporting'
  <2>1. told = 0
    BY DEF Reporting
  <2>2. CASE UNCHANGED <<stopVars, loop>>
    BY <2>1, <2>2 DEF Reporting
  <2>3. CASE Disconnect /\ loop' = FALSE
    BY <2>1, <2>3 DEF Reporting, Disconnect
  <2>4. QED
    BY <2>2, <2>3
<1>7. Live' => Live
  BY <1>2 DEF Live
<1>8. Exchange'
  <2>1. Live' => reader' /\ \A i \in DOMAIN rx' : rx'[i].kind \in {"answer", "urc"}
    BY <1>7, LineTaken DEF Exchange
  <2>2. Live /\ slows = 0 => line = <<>> /\ NoAnswer
    BY DEF Exchange
  <2>3. Live' /\ slows = 0 => line = <<>> /\ NoAnswer'
    BY <1>7, <2>2, LinesLeft
  <2>4. QED
    BY <2>1, <2>3 DEF Exchange, NoAnswer
<1>9. Keeping'
  <2>1. SUFFICES ASSUME Calm PROVE /\ \A q \in Readers : Preserved(q)'
                                   /\ \A m \in Resident : slot[Place[m]] = m
                                   /\ \A i \in DOMAIN rx' : \A q \in Readers :
                                        rx'[i].text = q => rx'[i].kind = "urc" \/ stage[q] # "none"
    BY DEF Keeping, Calm
  <2>2. ASSUME NEW q \in Readers PROVE Preserved(q)'
    BY <1>7, <2>1, LinesLeft DEF Keeping, Preserved, Home
  <2>3. \A i \in DOMAIN rx' : \A q \in Readers :
          rx'[i].text = q => rx'[i].kind = "urc" \/ stage[q] # "none"
    BY <2>1, LineTaken DEF Keeping
  <2>4. QED
    BY <2>1, <2>2, <2>3 DEF Keeping
<1>10. QED
  BY <1>3, <1>4, <1>5, <1>6, <1>8, <1>9

\* A message stays where it is while its reader waits, the modem idles, and no command is
\* carried out.
LEMMA CallsKept ==
  ASSUME ChannelInv, UNCHANGED <<callVars, handed, rx, modemVars, slows>>, Live' => Live,
         (hand' = hand /\ line' = line) \/ hand = Nil \/ ~Live'
  PROVE  Reading' /\ Keeping'
<1> USE DEF ChannelInv, callVars, modemVars
<1>1. Reading'
  BY DEF Reading
<1>2. \A r \in Readers : Preserved(r) => Preserved(r)'
  <2>1. TAKE r \in Readers
  <2>2. HAVE Preserved(r)
  <2>3. Announced(r)' <=> Announced(r)
    BY DEF Announced
  <2>4. r # Nil
    BY NamesApart
  <2>5. QED
    BY <2>2, <2>3, <2>4 DEF Preserved, Home
<1>3. Keeping'
  BY <1>2 DEF Keeping, Calm
<1>4. QED
  BY <1>1, <1>3

\* The channel of the lines, when neither it nor the command on its way moves.
LEMMA ExchangeKept ==
  ASSUME Exchange, UNCHANGED <<callVars, rx, hand, modemVars, reader>>, slow' = slow,
         slows' = slows,
         Live' => Live, gone' => line' = <<>>, Live' => line' = line
  PROVE  Exchange'
<1> USE DEF callVars, modemVars
<1>1. (NoAnswer' <=> NoAnswer) /\ (OneAnswer' <=> OneAnswer)
  BY DEF NoAnswer, OneAnswer
<1>2. <<Command(hand)>>' = <<Command(hand)>>
  BY DEF Command, Home, Index
<1>3. \A i \in DOMAIN rx : Fits(hand, rx[i].text)' <=> Fits(hand, rx[i].text)
  BY DEF Fits, Home
<1>4. ASSUME Live', slows' = 0
      PROVE  /\ hand' = Nil => line' = <<>> /\ NoAnswer'
             /\ hand' # Nil => \/ line' = <<Command(hand)>>' /\ NoAnswer'
                               \/ line' = <<>> /\ OneAnswer' /\ ~NoAnswer'
  BY <1>1, <1>2, <1>4 DEF Exchange
<1>5. ASSUME Live', slows' = 0, ~mixed', NEW i \in DOMAIN rx', rx'[i].kind = "answer"
      PROVE  Fits(hand, rx[i].text)'
  BY <1>3, <1>5 DEF Exchange
<1>6. Live' => reader' /\ \A i \in DOMAIN rx' : rx'[i].kind \in {"answer", "urc"}
  BY DEF Exchange
<1>7. (gone' => line' = <<>>) /\ (slow' => slows' > 0)
  BY DEF Exchange
<1>8. QED
  BY <1>4, <1>5, <1>6, <1>7 DEF Exchange

\* A call is queued.
LEMMA SubmitKeeps ==
  ASSUME ChannelInv, NEW c \in Callers, Submit(c)
  PROVE  ChannelInv'
<1> USE DEF ChannelInv
<1>1. ~Rests(c) /\ ~Queued(c) /\ hand # c
  BY DEF Submit, Waiting
<1>2. UNCHANGED <<callVars, handed, loopVars, rx, reader, stopVars, line, gone, modemVars,
                  paceVars>>
  BY DEF Submit
<1>3. UNCHANGED <<stage, previous, handed, hand, loop, looked, streak, rx, reader, stopped, told,
                  line,
                  gone, storage, slot, mixed, slow, slows>>
  BY <1>2 DEF callVars, loopVars, stopVars, modemVars, paceVars
<1>4. \/ c \in Urgent /\ urgent' = Append(urgent, c) /\ UNCHANGED queue
      \/ c \notin Urgent /\ queue' = Append(queue, c) /\ UNCHANGED urgent
  BY DEF Submit
<1>5. /\ queue' \in Seq(Callers) /\ urgent' \in Seq(Callers) /\ Single(queue') /\ Single(urgent')
      /\ ToSet(queue') \subseteq ToSet(queue) \cup (IF c \in Urgent THEN {} ELSE {c})
      /\ ToSet(urgent') \subseteq ToSet(urgent) \cup (IF c \in Urgent THEN {c} ELSE {})
  <2>1. c \notin ToSet(queue) /\ c \notin ToSet(urgent)
    BY <1>1 DEF Queued
  <2>2. queue \in Seq(Callers) /\ urgent \in Seq(Callers) /\ Single(queue) /\ Single(urgent)
    BY DEF ChannelTypes, Queueing
  <2>3. CASE c \in Urgent /\ urgent' = Append(urgent, c) /\ UNCHANGED queue
    BY <2>1, <2>2, <2>3, OncePut
  <2>4. CASE c \notin Urgent /\ queue' = Append(queue, c) /\ UNCHANGED urgent
    BY <2>1, <2>2, <2>4, OncePut
  <2>5. QED
    BY <1>4, <2>3, <2>4
<1>6. ChannelTypes'
  BY <1>3, <1>5 DEF ChannelTypes
<1>7. Queueing'
  BY <1>1, <1>3, <1>5 DEF Queueing, Waiting, Queued, Rests
<1>8. Reporting'
  BY <1>3 DEF Reporting
<1>9. Live' => Live
  BY <1>3 DEF Live
<1>10. /\ UNCHANGED <<callVars, handed, rx, modemVars, slows>>
       /\ UNCHANGED <<callVars, rx, hand, modemVars, reader>>
  BY <1>3 DEF callVars, modemVars
<1>11. Reading' /\ Keeping'
  BY <1>3, <1>9, <1>10, CallsKept
<1>12. Exchange'
  <2>1. gone' => line' = <<>>
    BY <1>3 DEF Exchange
  <2>2. QED
    BY <1>3, <1>9, <1>10, <2>1, ExchangeKept
<1>13. QED
  BY <1>6, <1>7, <1>8, <1>11, <1>12

\* A call ends because the manager has stopped.
LEMMA GiveUpKeeps ==
  ASSUME ChannelInv, NEW c \in Callers, GiveUp(c)
  PROVE  ChannelInv'
<1> USE DEF ChannelInv
<1>1. /\ stopped /\ ~Rests(c) /\ hand # c
      /\ stage' = [stage EXCEPT ![c] = IF c \in Readers THEN "done" ELSE @]
      /\ queue' = Without(queue, c) /\ urgent' = Without(urgent, c)
  BY DEF GiveUp
<1>2. UNCHANGED <<previous, handed, hand, loop, looked, streak, rx, reader, stopped, told, line,
                  gone, storage, slot, mixed, slow, slows>>
  BY DEF GiveUp, loopVars, stopVars, modemVars, paceVars
<1>3. /\ queue' \in Seq(Callers) /\ urgent' \in Seq(Callers) /\ Single(queue') /\ Single(urgent')
      /\ ToSet(queue') \subseteq ToSet(queue) \ {c} /\ ToSet(urgent') \subseteq ToSet(urgent) \ {c}
  <2>1. queue \in Seq(Callers) /\ urgent \in Seq(Callers) /\ Single(queue) /\ Single(urgent)
    BY DEF ChannelTypes, Queueing
  <2>2. QED
    BY <1>1, <2>1, OnceWithout
<1>4. /\ stage' \in [Callers -> Stages] /\ stage'[c] = IF c \in Readers THEN "done" ELSE stage[c]
      /\ \A d \in Callers : d # c => stage'[d] = stage[d]
  BY <1>1 DEF ChannelTypes, Stages
<1>5. ChannelTypes'
  BY <1>2, <1>3, <1>4 DEF ChannelTypes
<1>6. Queueing'
  BY <1>1, <1>2, <1>3, <1>4 DEF Queueing, Waiting, Queued, Rests
<1>7. \A r \in Readers : stage[r] = "none" => r # c
  BY <1>1 DEF Rests
<1>8. Reading'
  <2>1. \A d \in Callers \ Readers : stage'[d] \in {"call", "done"}
    BY <1>4 DEF Reading
  <2>2. \A r \in Readers : stage'[r] # "call" /\ (stage'[r] = "restore" => previous'[r] # Nil)
    BY <1>2, <1>4, NamesApart DEF Reading
  <2>3. ASSUME NEW i \in DOMAIN rx', rx'[i].kind = "urc"
        PROVE  /\ rx'[i].text \in Readers /\ stage'[rx'[i].text] = "none"
               /\ \A j \in DOMAIN rx' : rx'[j].kind = "urc" /\ rx'[j].text = rx'[i].text => i = j
    <3>1. /\ rx[i].text \in Readers /\ stage[rx[i].text] = "none"
          /\ \A j \in DOMAIN rx : rx[j].kind = "urc" /\ rx[j].text = rx[i].text => i = j
      BY <1>2, <2>3 DEF Reading
    <3>2. stage'[rx[i].text] = "none"
      BY <1>4, <1>7, <3>1, NamesApart
    <3>3. QED
      BY <1>2, <3>1, <3>2
  <2>4. QED
    BY <2>1, <2>2, <2>3 DEF Reading
<1>9. Reporting'
  BY <1>2 DEF Reporting
<1>10. ~Live /\ ~Live'
  BY <1>1, <1>2 DEF Live
<1>11. Exchange'
  BY <1>2, <1>10 DEF Exchange
<1>12. Keeping'
  <2>1. SUFFICES ASSUME Calm PROVE /\ \A r \in Readers : Preserved(r)'
                                   /\ \A m \in Resident : slot[Place[m]] = m
                                   /\ \A i \in DOMAIN rx' : \A r \in Readers :
                                        rx'[i].text = r => rx'[i].kind = "urc" \/ stage'[r] # "none"
    BY <1>2 DEF Keeping, Calm
  <2>2. ASSUME NEW r \in Readers PROVE Preserved(r)'
    <3>1. Preserved(r) /\ (Announced(r)' <=> Announced(r)) /\ stage[r] # "call"
      BY <1>2, <2>1 DEF Keeping, Announced, Reading
    <3>2. CASE r # c
      <4>1. stage'[r] = stage[r]
        BY <1>4, <3>2, NamesApart
      <4>2. QED
        BY <1>2, <1>10, <3>1, <4>1 DEF Preserved
    <3>3. CASE r = c
      <4>1. stage'[r] = "done" /\ ~Announced(r)
        BY <1>4, <1>7, <3>3 DEF Reading, Announced
      <4>2. stage[r] \in {"storage", "select", "read", "delete", "restore"}
        BY <1>1, <3>1, <3>3, NamesApart DEF Rests, ChannelTypes, Stages
      <4>3. r \in handed \/ slot[Place[r]] = r
        BY <3>1, <4>2 DEF Preserved
      <4>4. QED
        BY <1>2, <1>10, <3>1, <4>1, <4>3 DEF Preserved
    <3>4. QED
      BY <3>2, <3>3
  <2>3. \A i \in DOMAIN rx' : \A r \in Readers :
          rx'[i].text = r => rx'[i].kind = "urc" \/ stage'[r] # "none"
    <3>1. \A r \in Readers : stage'[r] = "none" => stage[r] = "none"
      BY <1>4, NamesApart
    <3>2. QED
      BY <1>2, <2>1, <3>1 DEF Keeping
  <2>4. QED
    BY <2>1, <2>2, <2>3 DEF Keeping
<1>13. QED
  BY <1>5, <1>6, <1>8, <1>9, <1>11, <1>12

\* The loop finds no urgent command.
LEMMA LookKeeps ==
  ASSUME ChannelInv, Look
  PROVE  ChannelInv'
<1> USE DEF ChannelInv
<1>1. ~stopped /\ loop /\ hand = Nil /\ looked' = TRUE
  BY DEF Look
<1>2. UNCHANGED <<callVars, handed, queue, urgent, loop, hand, streak, rx, reader, stopVars,
                  line, gone, modemVars, paceVars>>
  BY DEF Look
<1>3. UNCHANGED <<stage, previous, handed, queue, urgent, hand, loop, streak, rx, reader, stopped,
                  told,
                  line, gone, storage, slot, mixed, slow, slows>>
  BY <1>2 DEF callVars, stopVars, modemVars, paceVars
<1>4. ChannelTypes'
  BY <1>1, <1>3 DEF ChannelTypes
<1>5. Queueing'
  BY <1>3 DEF Queueing, Waiting, Queued, Rests
<1>6. Reporting'
  BY <1>1, <1>3 DEF Reporting
<1>7. Live' <=> Live
  BY <1>3 DEF Live
<1>8. /\ UNCHANGED <<callVars, handed, rx, modemVars, slows>>
      /\ UNCHANGED <<callVars, rx, hand, modemVars, reader>>
  BY <1>3 DEF callVars, modemVars
<1>9. Reading' /\ Keeping'
  BY <1>3, <1>7, <1>8, CallsKept
<1>10. Exchange'
  <2>1. gone' => line' = <<>>
    BY <1>3 DEF Exchange
  <2>2. QED
    BY <1>3, <1>7, <1>8, <2>1, ExchangeKept
<1>11. QED
  BY <1>4, <1>5, <1>6, <1>9, <1>10

\* A command is taken out of its channel: it is written, or its call ends.
LEMMA TakeKeeps ==
  ASSUME ChannelInv, NEW c \in Callers, Take(c)
  PROVE  ChannelInv'
<1> USE DEF ChannelInv
<1>1. loop /\ hand = Nil /\ looked' = FALSE /\ Nil \notin Callers
  BY NamesApart DEF Take
<1>2. UNCHANGED <<loop, streak, rx, reader, gone, storage, slot, mixed, slow, slows>>
  BY DEF Take, modemVars, paceVars
<1>3. \/ /\ c \in Urgent /\ urgent # <<>> /\ Head(urgent) = c /\ urgent' = Tail(urgent)
         /\ UNCHANGED queue
      \/ /\ c \notin Urgent /\ queue # <<>> /\ Head(queue) = c /\ queue' = Tail(queue)
         /\ UNCHANGED urgent
  BY DEF Take
<1>4. /\ queue' \in Seq(Callers) /\ urgent' \in Seq(Callers) /\ Single(queue') /\ Single(urgent')
      /\ ToSet(queue') \subseteq ToSet(queue) \ {c} /\ ToSet(urgent') \subseteq ToSet(urgent) \ {c}
      /\ Queued(c)
  <2>1. queue \in Seq(Callers) /\ urgent \in Seq(Callers) /\ Single(queue) /\ Single(urgent)
    BY DEF ChannelTypes, Queueing
  <2>2. CASE /\ c \in Urgent /\ urgent # <<>> /\ Head(urgent) = c /\ urgent' = Tail(urgent)
             /\ UNCHANGED queue
    BY <2>1, <2>2, OnceTaken DEF Queueing, Queued
  <2>3. CASE /\ c \notin Urgent /\ queue # <<>> /\ Head(queue) = c /\ queue' = Tail(queue)
             /\ UNCHANGED urgent
    BY <2>1, <2>3, OnceTaken DEF Queueing, Queued
  <2>4. QED
    BY <1>3, <2>2, <2>3
<1>5. ~Rests(c)
  BY <1>4 DEF Queueing, Waiting
<1>6. CASE /\ ~stopped /\ hand' = c
           /\ line' = (IF gone THEN line ELSE Append(line, Command(c)))
           /\ UNCHANGED <<callVars, handed, stopVars>>
  <2>1. UNCHANGED <<stage, previous, handed, stopped, told>> /\ hand' = c /\ ~stopped
    BY <1>6 DEF callVars, stopVars
  <2>2. line \in Seq(Commands) /\ Command(c) \in Commands
    BY <1>5, CommandsAre DEF ChannelTypes
  <2>3. line' \in Seq(Commands)
    BY <1>6, <2>2
  <2>4. ChannelTypes'
    BY <1>1, <1>2, <1>4, <2>1, <2>3 DEF ChannelTypes
  <2>5. Queueing'
    BY <1>1, <1>4, <1>5, <2>1 DEF Queueing, Waiting, Queued, Rests
  <2>6. Reporting'
    BY <1>1, <1>2, <2>1 DEF Reporting
  <2>7. Live' <=> Live
    BY <1>2, <2>1 DEF Live
  <2>8. UNCHANGED <<callVars, handed, rx, modemVars, slows>>
    BY <1>2, <2>1 DEF callVars, modemVars
  <2>9. Reading' /\ Keeping'
    BY <1>1, <2>7, <2>8, CallsKept
  <2>10. Exchange'
    <3>1. gone' => line' = <<>>
      BY <1>2, <1>6 DEF Exchange
    <3>2. slow' => slows' > 0
      BY <1>2 DEF Exchange
    <3>3. Live' => reader' /\ \A i \in DOMAIN rx' : rx'[i].kind \in {"answer", "urc"}
      BY <1>2, <2>7 DEF Exchange
    <3>4. ASSUME Live', slows' = 0
          PROVE  NoAnswer' /\ line' = <<Command(hand)>>'
      <4>1. Live /\ slows = 0
        BY <1>2, <2>7, <3>4
      <4>2. line = <<>> /\ NoAnswer
        BY <1>1, <4>1 DEF Exchange
      <4>3. NoAnswer'
        BY <1>2, <4>2 DEF NoAnswer
      <4>4. line' = <<Command(c)>>
        BY <1>6, <2>2, <4>1, <4>2 DEF Live
      <4>5. Command(hand)' = Command(c)
        BY <2>1 DEF Command, Home, Index
      <4>6. QED
        BY <4>3, <4>4, <4>5
    <3>5. hand' # Nil
      BY <1>1, <2>1
    <3>6. QED
      BY <3>1, <3>2, <3>3, <3>4, <3>5 DEF Exchange, NoAnswer
  <2>11. QED
    BY <2>4, <2>5, <2>6, <2>9, <2>10
<1>7. CASE /\ gone \/ stopped
           /\ Return(c, Failed)
           /\ DisconnectIfRunning /\ UNCHANGED <<hand, line>>
  <2>1. ~Live'
    <3>1. stopped => stopped'
      BY <1>7 DEF DisconnectIfRunning, stopVars
    <3>2. QED
      BY <1>2, <1>7, <3>1 DEF Live
  <2>2. streak' \in 0..Threshold
    BY <1>2 DEF ChannelTypes
  <2>3. UNCHANGED <<line, gone, modemVars, slows, reader>> /\ hand' = Nil
    BY <1>1, <1>2, <1>7 DEF modemVars
  <2>4. QED
    BY <1>1, <1>2, <1>4, <1>5, <1>7, <2>1, <2>2, <2>3, ReturnKeeps
<1>8. QED
  BY <1>6, <1>7 DEF Take

\* A caller whose command is at hand waits for it, and the loop waits for nothing else.
LEMMA AtHand ==
  ASSUME ChannelInv, hand # Nil
  PROVE  /\ hand \in Callers /\ ~Rests(hand) /\ ~Queued(hand) /\ looked = FALSE /\ loop = TRUE
         /\ ToSet(queue) \subseteq ToSet(queue) \ {hand}
         /\ ToSet(urgent) \subseteq ToSet(urgent) \ {hand}
<1> USE DEF ChannelInv
<1>1. hand \in Callers
  BY DEF ChannelTypes
<1>2. ~Rests(hand) /\ ~Queued(hand)
  BY <1>1 DEF Queueing, Waiting
<1>3. looked = FALSE /\ loop = TRUE
  BY DEF Reporting, ChannelTypes
<1>4. QED
  BY <1>1, <1>2, <1>3 DEF Queued

\* A line while a command is handled.
LEMMA HandlingKeeps ==
  ASSUME ChannelInv, ReceiveHandling
  PROVE  ChannelInv'
<1> USE DEF ChannelInv
<1>1. hand # Nil /\ rx # <<>> /\ rx' = Tail(rx)
  BY DEF ReceiveHandling
<1>2. UNCHANGED <<loop, looked, queue, urgent, reader, line, gone, modemVars>>
  BY DEF ReceiveHandling
<1>3. PICK c \in Callers : c = hand
  BY <1>1, AtHand
<1>4. /\ ~Rests(c) /\ looked' = FALSE /\ loop' = loop
      /\ ToSet(queue) \subseteq ToSet(queue) \ {c} /\ ToSet(urgent) \subseteq ToSet(urgent) \ {c}
  BY <1>1, <1>2, <1>3, AtHand
<1>5. /\ queue' \in Seq(Callers) /\ urgent' \in Seq(Callers) /\ Single(queue') /\ Single(urgent')
      /\ ToSet(queue') \subseteq ToSet(queue) \ {c} /\ ToSet(urgent') \subseteq ToSet(urgent) \ {c}
  BY <1>2, <1>4 DEF ChannelTypes, Queueing
<1>6. Head(rx) = rx[1] /\ 1 \in DOMAIN rx
  BY <1>1, LineTaken
<1>7. CASE /\ Head(rx).kind = "answer" /\ Answer(Head(rx).text) /\ streak' = 0
           /\ UNCHANGED <<stopVars, slows>>
  <2>1. hand' = Nil /\ slow' = FALSE /\ Return(c, Head(rx).text)
    BY <1>3, <1>7 DEF Answer
  <2>2. streak' \in 0..Threshold
    BY <1>7, NumbersAssumption
  <2>3. UNCHANGED <<line, gone, modemVars, slows, reader>> /\ UNCHANGED stopVars
    BY <1>2, <1>7
  <2>4. QED
    BY <1>1, <1>3, <1>4, <1>5, <1>7, <2>1, <2>2, <2>3, ReturnKeeps
<1>8. CASE /\ Head(rx).kind = "urc" /\ Notice(Head(rx).text)
           /\ UNCHANGED <<hand, streak, stopVars, slow, slows>>
  <2>1. UNCHANGED <<hand, loop, streak, stopVars, paceVars, queue, urgent, reader, line, gone,
                    modemVars>>
    BY <1>2, <1>8 DEF paceVars
  <2>2. QED
    BY <1>1, <1>4, <1>8, <2>1, NoticeKeeps
<1>9. CASE /\ Head(rx).kind \in {"fatal", "eof"} /\ Answer(Failed)
           /\ (DisconnectIfRunning \/ UNCHANGED stopVars)
           /\ UNCHANGED <<streak, slows>>
  <2>1. hand' = Nil /\ slow' = FALSE /\ Return(c, Failed)
    BY <1>3, <1>9 DEF Answer
  <2>2. streak' \in 0..Threshold
    BY <1>9 DEF ChannelTypes
  <2>3. UNCHANGED <<line, gone, modemVars, slows, reader>>
    BY <1>2, <1>9
  <2>4. ~Live'
    <3>1. ~Live
      BY <1>6, <1>9 DEF Exchange
    <3>2. gone' = gone /\ (stopped => stopped')
      BY <1>2, <1>9 DEF DisconnectIfRunning, Disconnect, stopVars
    <3>3. QED
      BY <3>1, <3>2 DEF Live
  <2>5. QED
    BY <1>1, <1>3, <1>4, <1>5, <1>9, <2>1, <2>2, <2>3, <2>4, ReturnKeeps
<1>10. QED
  BY <1>7, <1>8, <1>9 DEF ReceiveHandling

\* A line while none is.
LEMMA ReceiveIdleKeeps ==
  ASSUME ChannelInv, ReceiveIdle
  PROVE  ChannelInv'
<1>1. loop /\ hand = Nil /\ looked /\ looked' = FALSE /\ rx # <<>> /\ rx' = Tail(rx)
  BY DEF ReceiveIdle
<1>2. UNCHANGED <<hand, streak, queue, urgent, reader, line, gone, modemVars, paceVars>>
  BY DEF ReceiveIdle
<1>3. CASE Head(rx).kind = "answer" /\ CallEnded /\ UNCHANGED <<stopVars, loop>>
  <2>1. UNCHANGED <<callVars, handed, hand, streak, queue, urgent, reader, line, gone, modemVars,
                    paceVars>>
    BY <1>2, <1>3 DEF CallEnded
  <2>2. QED
    BY <1>1, <1>3, <2>1, IdleKeeps
<1>4. CASE Head(rx).kind = "urc" /\ Notice(Head(rx).text) /\ UNCHANGED <<stopVars, loop>>
  <2>1. UNCHANGED <<hand, loop, streak, stopVars, paceVars, queue, urgent, reader, line, gone,
                    modemVars>>
    BY <1>2, <1>4
  <2>2. QED
    BY <1>1, <1>4, <2>1, NoticeKeeps
<1>5. CASE Head(rx).kind \in {"fatal", "eof"} /\ Disconnect /\ loop' = FALSE /\ CallEnded
  <2>1. UNCHANGED <<callVars, handed, hand, streak, queue, urgent, reader, line, gone, modemVars,
                    paceVars>>
    BY <1>2, <1>5 DEF CallEnded
  <2>2. QED
    BY <1>1, <1>5, <2>1, IdleKeeps
<1>6. QED
  BY <1>3, <1>4, <1>5 DEF ReceiveIdle

\* A command has had its time: the modem was too slow, or is not there any more.
LEMMA TimeoutKeeps ==
  ASSUME ChannelInv, Timeout
  PROVE  ChannelInv'
<1> USE DEF ChannelInv
<1>1. hand # Nil /\ (slow \/ gone \/ stopped) /\ Answer(Failed)
  BY DEF Timeout
<1>2. UNCHANGED <<loop, looked, queue, urgent, rx, reader, line, gone, modemVars, slows>>
  BY DEF Timeout
<1>3. PICK c \in Callers : c = hand
  BY <1>1, AtHand
<1>4. /\ ~Rests(c) /\ looked' = FALSE /\ loop' = loop
      /\ ToSet(queue) \subseteq ToSet(queue) \ {c} /\ ToSet(urgent) \subseteq ToSet(urgent) \ {c}
  BY <1>1, <1>2, <1>3, AtHand
<1>5. /\ queue' \in Seq(Callers) /\ urgent' \in Seq(Callers) /\ Single(queue') /\ Single(urgent')
      /\ ToSet(queue') \subseteq ToSet(queue) \ {c} /\ ToSet(urgent') \subseteq ToSet(urgent) \ {c}
  BY <1>2, <1>4 DEF ChannelTypes, Queueing
<1>6. hand' = Nil /\ slow' = FALSE /\ Return(c, Failed)
  BY <1>1, <1>3 DEF Answer
<1>7. DisconnectIfRunning \/ UNCHANGED stopVars
  BY DEF Timeout
<1>8. streak' \in 0..Threshold
  <2>1. streak \in 0..Threshold /\ Threshold \in Nat
    BY NumbersAssumption DEF ChannelTypes
  <2>2. streak' = streak \/ streak' = IF streak < Threshold THEN streak + 1 ELSE streak
    BY DEF Timeout
  <2>3. QED
    BY <2>1, <2>2
<1>9. UNCHANGED <<line, gone, modemVars, slows, reader>>
  BY <1>2
<1>10. ~(Live' /\ slows = 0)
  <2>1. gone' = gone /\ (stopped => stopped')
    BY <1>2, <1>7 DEF DisconnectIfRunning, Disconnect, stopVars
  <2>2. slow => slows > 0
    BY DEF Exchange
  <2>3. slows = 0 => ~(slows > 0)
    OBVIOUS
  <2>4. QED
    BY <1>1, <2>1, <2>2, <2>3 DEF Live
<1>11. rx' = rx
  BY <1>2
<1>12. QED
  BY <1>3, <1>4, <1>5, <1>6, <1>7, <1>8, <1>9, <1>10, <1>11, ReturnKeeps

\* The end of the loop, and of the manager.
LEMMA EndsKeep ==
  ASSUME ChannelInv, LoopEnds \/ OwnerStops
  PROVE  ChannelInv'
<1> USE DEF ChannelInv
<1>1. /\ UNCHANGED <<stage, previous, handed, queue, urgent, hand, looked, streak, rx, reader, told,
                     line, gone, storage, slot, mixed, slow, slows>>
      /\ \/ hand = Nil /\ loop' = FALSE /\ stopped' = stopped
         \/ ~stopped /\ stopped' = TRUE /\ loop' = loop
  BY DEF LoopEnds, OwnerStops, callVars, loopVars, stopVars, modemVars, paceVars
<1>2. ChannelTypes'
  <2>1. loop' \in BOOLEAN /\ stopped' \in BOOLEAN
    BY <1>1 DEF ChannelTypes
  <2>2. QED
    BY <1>1, <2>1 DEF ChannelTypes
<1>3. Queueing'
  BY <1>1 DEF Queueing, Waiting, Queued, Rests
<1>4. Reporting'
  <2>1. CASE hand = Nil /\ loop' = FALSE /\ stopped' = stopped
    BY <1>1, <2>1 DEF Reporting
  <2>2. CASE ~stopped /\ stopped' = TRUE /\ loop' = loop
    BY <1>1, <2>2 DEF Reporting
  <2>3. QED
    BY <1>1, <2>1, <2>2
<1>5. Live' => Live
  BY <1>1 DEF Live
<1>6. /\ UNCHANGED <<callVars, handed, rx, modemVars, slows>>
      /\ UNCHANGED <<callVars, rx, hand, modemVars, reader>>
  BY <1>1 DEF callVars, modemVars
<1>7. Reading' /\ Keeping'
  BY <1>1, <1>5, <1>6, CallsKept
<1>8. Exchange'
  <2>1. gone' => line' = <<>>
    BY <1>1 DEF Exchange
  <2>2. QED
    BY <1>1, <1>5, <1>6, <2>1, ExchangeKept
<1>9. QED
  BY <1>2, <1>3, <1>4, <1>7, <1>8

\* The port is gone: nothing that is written is carried out any more.
LEMMA PortFailsKeeps ==
  ASSUME ChannelInv, PortFails
  PROVE  ChannelInv'
<1> USE DEF ChannelInv
<1>1. /\ gone' = TRUE /\ line' = <<>>
      /\ UNCHANGED <<stage, previous, handed, queue, urgent, hand, loop, looked, streak, rx, reader,
                     stopped, told, storage, slot, mixed, slow, slows>>
  BY DEF PortFails, callVars, loopVars, stopVars, modemVars, paceVars
<1>2. ChannelTypes'
  <2>1. line' \in Seq(Commands)
    BY <1>1
  <2>2. QED
    BY <1>1, <2>1 DEF ChannelTypes
<1>3. Queueing'
  BY <1>1 DEF Queueing, Waiting, Queued, Rests
<1>4. Reporting'
  BY <1>1 DEF Reporting
<1>5. ~Live'
  BY <1>1 DEF Live
<1>6. UNCHANGED <<callVars, handed, rx, modemVars, slows>>
  BY <1>1 DEF callVars, modemVars
<1>7. Reading' /\ Keeping'
  BY <1>5, <1>6, CallsKept
<1>8. Exchange'
  BY <1>1, <1>5 DEF Exchange
<1>9. QED
  BY <1>2, <1>3, <1>4, <1>7, <1>8

\* The modem is too slow for a command: nothing is promised from now on.
LEMMA DawdleKeeps ==
  ASSUME ChannelInv, Dawdle
  PROVE  ChannelInv'
<1> USE DEF ChannelInv
<1>1. /\ slow' = TRUE /\ slows' = slows + 1 /\ slows < MaxSlow /\ slows \in 0..MaxSlow
      /\ MaxSlow \in Nat
      /\ UNCHANGED <<stage, previous, handed, queue, urgent, hand, loop, looked, streak, rx, reader,
                     stopped, told, line, gone, storage, slot, mixed>>
  BY NumbersAssumption DEF Dawdle, ChannelTypes, callVars, loopVars, stopVars, modemVars
<1>2. slows' \in 0..MaxSlow /\ slows' > 0 /\ slows' # 0
  BY <1>1
<1>3. ChannelTypes'
  BY <1>1, <1>2 DEF ChannelTypes
<1>4. Queueing'
  BY <1>1 DEF Queueing, Waiting, Queued, Rests
<1>5. Reading'
  BY <1>1 DEF Reading
<1>6. Reporting'
  BY <1>1 DEF Reporting
<1>7. Live' <=> Live
  BY <1>1 DEF Live
<1>8. Exchange'
  BY <1>1, <1>2, <1>7 DEF Exchange
<1>9. Keeping'
  BY <1>2 DEF Keeping, Calm
<1>10. QED
  BY <1>3, <1>4, <1>5, <1>6, <1>8, <1>9

\* A line that announces nothing is put behind the others.
LEMMA OtherLinePut ==
  ASSUME ChannelTypes, Reading, NEW m \in Lines, m.kind # "urc", rx' = Append(rx, m),
         UNCHANGED callVars
  PROVE  /\ Reading' /\ (\A r : Announced(r)' <=> Announced(r))
         /\ \A i \in DOMAIN rx' : rx'[i] = m \/ (i \in DOMAIN rx /\ rx'[i] = rx[i])
<1> USE DEF callVars
<1>1. \A i \in DOMAIN rx' : rx'[i].kind = "urc" => i \in DOMAIN rx /\ rx'[i] = rx[i]
  BY LinePut
<1>2. \A r : Announced(r)' <=> Announced(r)
  BY LinePut DEF Announced
<1>3. Reading'
  BY <1>1 DEF Reading
<1>4. QED
  BY <1>2, <1>3, LinePut

\* readLoop ends, and may say why.
LEMMA ReaderEndsKeeps ==
  ASSUME ChannelInv, ReaderEnds
  PROVE  ChannelInv'
<1> USE DEF ChannelInv
<1>1. /\ reader' = FALSE /\ (gone \/ stopped)
      /\ UNCHANGED <<stage, previous, handed, queue, urgent, hand, loop, looked, streak,
                     stopped, told, line, gone, storage, slot, mixed, slow, slows>>
  BY DEF ReaderEnds, callVars, loopVars, stopVars, modemVars, paceVars
<1>2. PICK m \in Lines : /\ m.kind \in {"fatal", "eof"} /\ m.text = Nil
                         /\ rx' = rx \/ rx' = Append(rx, m)
  <2>1. \A e \in {"fatal", "eof"} : [kind |-> e, text |-> Nil] \in Lines
    BY DEF Lines, Texts
  <2>2. CASE UNCHANGED rx
    BY <2>1, <2>2
  <2>3. ASSUME NEW e \in {"fatal", "eof"}, rx' = Append(rx, [kind |-> e, text |-> Nil])
        PROVE  \E m \in Lines : /\ m.kind \in {"fatal", "eof"} /\ m.text = Nil
                                /\ rx' = rx \/ rx' = Append(rx, m)
    BY <2>1, <2>3
  <2>4. QED
    BY <2>2, <2>3 DEF ReaderEnds
<1>3. rx' \in Seq(Lines)
  BY <1>2, LinePut DEF ChannelTypes
<1>4. ChannelTypes'
  <2>1. reader' \in BOOLEAN
    BY <1>1
  <2>2. QED
    BY <1>1, <1>3, <2>1 DEF ChannelTypes
<1>5. Queueing'
  BY <1>1 DEF Queueing, Waiting, Queued, Rests
<1>6. Reporting'
  BY <1>1 DEF Reporting
<1>7. ~Live /\ ~Live'
  BY <1>1 DEF Live
<1>8. Exchange'
  BY <1>1, <1>7 DEF Exchange
<1>9. UNCHANGED callVars
  BY <1>1 DEF callVars
<1>10. /\ Reading' /\ (\A r : Announced(r)' <=> Announced(r))
       /\ \A i \in DOMAIN rx' : rx'[i] = m \/ (i \in DOMAIN rx /\ rx'[i] = rx[i])
  <2>1. CASE rx' = rx
    BY <1>1, <2>1 DEF Reading, Announced
  <2>2. CASE rx' = Append(rx, m)
    BY <1>2, <1>9, <2>2, OtherLinePut
  <2>3. QED
    BY <1>2, <2>1, <2>2
<1>11. Keeping'
  <2>1. \A r \in Readers : Preserved(r) => Preserved(r)'
    BY <1>1, <1>7, <1>10 DEF Preserved
  <2>2. Nil \notin Readers
    BY NamesApart
  <2>3. QED
    BY <1>1, <1>2, <1>10, <2>1, <2>2 DEF Keeping, Calm
<1>12. QED
  BY <1>4, <1>5, <1>6, <1>8, <1>10, <1>11

\* A message is put into its slot, and announced.
LEMMA AnnounceKeeps ==
  ASSUME ChannelInv, NEW r \in Readers, Announce(r)
  PROVE  ChannelInv'
<1> USE DEF ChannelInv
<1> DEFINE m == [kind |-> "urc", text |-> r]
<1>1. /\ stage[r] = "none" /\ ~gone /\ ~stopped /\ slot[Place[r]] = Nil /\ reader
      /\ \A i \in DOMAIN rx : rx[i].text # r
      /\ slot' = [slot EXCEPT ![Place[r]] = r] /\ rx' = Append(rx, m)
      /\ UNCHANGED <<stage, previous, handed, queue, urgent, hand, loop, looked, streak, reader,
                     stopped, told, line, gone, storage, mixed, slow, slows>>
  BY DEF Announce, Say, callVars, loopVars, stopVars, paceVars
<1>2. m \in Lines /\ m.kind = "urc" /\ m.text = r
  BY NamesApart DEF Lines, Texts
<1> HIDE DEF m
<1>3. /\ rx' \in Seq(Lines) /\ Len(rx) + 1 \in DOMAIN rx' /\ Len(rx) + 1 \notin DOMAIN rx
      /\ rx'[Len(rx) + 1] = m
      /\ \A i \in DOMAIN rx' : i = Len(rx) + 1 \/ (i \in DOMAIN rx /\ rx'[i] = rx[i])
      /\ \A i \in DOMAIN rx : i \in DOMAIN rx' /\ rx'[i] = rx[i]
  BY <1>1, <1>2, LinePut
<1>4. /\ slot' \in [Slots -> Mails \cup {Nil}] /\ slot'[Place[r]] = r
      /\ \A s \in Slots : s # Place[r] => slot'[s] = slot[s]
  BY <1>1, NamesApart DEF ChannelTypes
<1>5. \A q \in Mails : slot[Place[q]] = q => slot'[Place[q]] = q
  <2>1. TAKE q \in Mails
  <2>2. HAVE slot[Place[q]] = q
  <2>3. Place[q] # Place[r] /\ Place[q] \in Slots
    BY <1>1, <2>2, NamesApart
  <2>4. QED
    BY <1>4, <2>2, <2>3
<1>6. ChannelTypes'
  BY <1>1, <1>3, <1>4 DEF ChannelTypes
<1>7. Queueing'
  BY <1>1 DEF Queueing, Waiting, Queued, Rests
<1>8. Reading'
  <2>1. ASSUME NEW i \in DOMAIN rx', rx'[i].kind = "urc"
        PROVE  /\ rx'[i].text \in Readers /\ stage'[rx'[i].text] = "none"
               /\ \A j \in DOMAIN rx' : rx'[j].kind = "urc" /\ rx'[j].text = rx'[i].text => i = j
    <3>1. CASE i = Len(rx) + 1
      <4>1. rx'[i].text = r
        BY <1>2, <1>3, <3>1
      <4>2. \A j \in DOMAIN rx' : rx'[j].text = r => j = Len(rx) + 1
        BY <1>1, <1>3
      <4>3. QED
        BY <1>1, <3>1, <4>1, <4>2
    <3>2. CASE i \in DOMAIN rx /\ rx'[i] = rx[i]
      <4>1. rx[i].text \in Readers /\ stage[rx[i].text] = "none" /\ rx[i].text # r
        BY <1>1, <2>1, <3>2 DEF Reading
      <4>2. ASSUME NEW j \in DOMAIN rx', rx'[j].kind = "urc", rx'[j].text = rx'[i].text
            PROVE  i = j
        <5>1. j # Len(rx) + 1
          BY <1>2, <1>3, <3>2, <4>1, <4>2
        <5>2. j \in DOMAIN rx /\ rx'[j] = rx[j]
          BY <1>3, <5>1
        <5>3. QED
          BY <2>1, <3>2, <4>2, <5>2 DEF Reading
      <4>3. QED
        BY <1>1, <3>2, <4>1, <4>2
    <3>3. QED
      BY <1>3, <3>1, <3>2
  <2>2. QED
    BY <1>1, <2>1 DEF Reading
<1>9. Reporting'
  BY <1>1 DEF Reporting
<1>10. Live /\ Live'
  BY <1>1 DEF Live
<1>11. Exchange'
  <2>1. /\ NoAnswer' <=> NoAnswer
        /\ OneAnswer => OneAnswer'
    BY <1>2, <1>3 DEF NoAnswer, OneAnswer
  <2>2. <<Command(hand)>>' = <<Command(hand)>>
    BY <1>1 DEF Command, Home, Index
  <2>3. \A i \in DOMAIN rx' : rx'[i].kind \in {"answer", "urc"}
    BY <1>2, <1>3, <1>10 DEF Exchange
  <2>4. ASSUME slows' = 0
        PROVE  /\ hand' = Nil => line' = <<>> /\ NoAnswer'
               /\ hand' # Nil => \/ line' = <<Command(hand)>>' /\ NoAnswer'
                                 \/ line' = <<>> /\ OneAnswer' /\ ~NoAnswer'
    BY <1>1, <1>10, <2>1, <2>2, <2>4 DEF Exchange
  <2>5. ASSUME slows' = 0, ~mixed', NEW i \in DOMAIN rx', rx'[i].kind = "answer"
        PROVE  Fits(hand, rx[i].text)'
    <3>1. i \in DOMAIN rx /\ rx'[i] = rx[i]
      BY <1>2, <1>3, <2>5
    <3>2. Fits(hand, rx[i].text)
      BY <1>1, <1>10, <2>5, <3>1 DEF Exchange
    <3>3. QED
      BY <1>1, <3>1, <3>2 DEF Fits, Home
  <2>6. (gone' => line' = <<>>) /\ (slow' => slows' > 0) /\ reader'
    BY <1>1 DEF Exchange
  <2>7. QED
    BY <2>3, <2>4, <2>5, <2>6 DEF Exchange
<1>12. Keeping'
  <2>1. SUFFICES ASSUME Calm PROVE /\ \A q \in Readers : Preserved(q)'
                                   /\ \A n \in Resident : slot'[Place[n]] = n
                                   /\ \A i \in DOMAIN rx' : \A q \in Readers :
                                        rx'[i].text = q => rx'[i].kind = "urc" \/ stage'[q] # "none"
    BY <1>1 DEF Keeping, Calm
  <2>2. Preserved(r)'
    BY <1>1, <1>4 DEF Preserved
  <2>3. ASSUME NEW q \in Readers, q # r PROVE Preserved(q)'
    <3>1. Announced(q)' => Announced(q)
      BY <1>2, <1>3, <2>3 DEF Announced
    <3>2. Preserved(q) /\ q \in Mails
      BY <2>1, NamesApart DEF Keeping
    <3>3. slot[Place[q]] = q => slot'[Place[q]] = q
      BY <1>5, <3>2
    <3>4. QED
      BY <1>1, <1>10, <3>1, <3>2, <3>3 DEF Preserved, Home
  <2>4. \A n \in Resident : slot'[Place[n]] = n
    BY <1>5, <2>1, NamesApart DEF Keeping
  <2>5. \A i \in DOMAIN rx' : \A q \in Readers :
          rx'[i].text = q => rx'[i].kind = "urc" \/ stage'[q] # "none"
    BY <1>1, <1>2, <1>3, <2>1 DEF Keeping
  <2>6. QED
    BY <2>2, <2>3, <2>4, <2>5 DEF Keeping
<1>13. QED
  BY <1>6, <1>7, <1>8, <1>9, <1>11, <1>12

\* What the modem makes of a command: the text it answers with.
Carried(cmd, text) ==
  \/ /\ cmd.op = "query" /\ text = "ok" /\ UNCHANGED modemVars
  \/ /\ cmd.op = "storage" /\ text = storage /\ UNCHANGED modemVars
  \/ /\ cmd.op = "select" /\ text = "ok"
     /\ storage' = cmd.arg /\ UNCHANGED slot
     /\ mixed' = (mixed \/ \E r, q \in Readers : r # q /\ ~Rests(r) /\ ~Rests(q))
  \/ /\ cmd.op = "read" /\ UNCHANGED modemVars
     /\ text = IF slot[<<storage, cmd.arg>>] = Nil THEN "ok" ELSE slot[<<storage, cmd.arg>>]
  \/ /\ cmd.op = "delete" /\ text = "ok"
     /\ slot' = [slot EXCEPT ![<<storage, cmd.arg>>] = Nil] /\ UNCHANGED <<storage, mixed>>
  \/ text = Failed /\ UNCHANGED modemVars

\* The first command is carried out while the port is open.
LEMMA CarryOutIs ==
  ASSUME ChannelInv, CarryOut
  PROVE  /\ Live /\ line # <<>> /\ line' = Tail(line) /\ Head(line) \in Commands
         /\ line' \in Seq(Commands)
         /\ UNCHANGED <<stage, previous, handed, queue, urgent, hand, loop, looked, streak, reader,
                        stopped, told, gone, slow, slows>>
         /\ \E text \in Texts : /\ Carried(Head(line), text)
                                /\ rx' = Append(rx, [kind |-> "answer", text |-> text])
<1> USE DEF ChannelInv
<1>1. line # <<>> /\ ~stopped /\ line' = Tail(line)
  BY DEF CarryOut
<1>2. Live /\ reader
  BY <1>1 DEF Exchange, Live
<1>3. Head(line) \in Commands /\ line' \in Seq(Commands)
  BY <1>1, TakenFirst DEF ChannelTypes
<1>4. UNCHANGED <<stage, previous, handed, queue, urgent, hand, loop, looked, streak, reader,
                  stopped, told, gone, slow, slows>>
  BY DEF CarryOut, callVars, loopVars, stopVars, paceVars
<1> DEFINE cmd == Head(line)
           at  == <<storage, cmd.arg>>
           Shown(text) == rx' = Append(rx, [kind |-> "answer", text |-> text])
<1>5. cmd.op = "read" => slot[at] \in Mails \cup {Nil}
  <2>1. cmd.op = "read" => cmd.arg \in Positions
    BY <1>3 DEF Commands
  <2>2. cmd.op = "read" => at \in Slots
    BY <2>1 DEF Slots, ChannelTypes
  <2>3. QED
    BY <2>2 DEF ChannelTypes
<1>6. "ok" \in Texts /\ Failed \in Texts /\ storage \in Texts /\ Mails \subseteq Texts
  BY DEF Texts, ChannelTypes
<1>7. \A text : Say("answer", text) => Shown(text)
  BY <1>2 DEF Say
<1> HIDE DEF Shown
<1>8. \E text \in Texts : Carried(cmd, text) /\ Shown(text)
  <2>1. CASE cmd.op = "query" /\ Say("answer", "ok") /\ UNCHANGED modemVars
    BY <1>6, <1>7, <2>1 DEF Carried
  <2>2. CASE cmd.op = "storage" /\ Say("answer", storage) /\ UNCHANGED modemVars
    BY <1>6, <1>7, <2>2 DEF Carried
  <2>3. CASE /\ cmd.op = "select" /\ Say("answer", "ok")
             /\ storage' = cmd.arg /\ UNCHANGED slot
             /\ mixed' = (mixed \/ \E r, q \in Readers : r # q /\ ~Rests(r) /\ ~Rests(q))
    BY <1>6, <1>7, <2>3 DEF Carried
  <2>4. CASE /\ cmd.op = "read" /\ Say("answer", IF slot[at] = Nil THEN "ok" ELSE slot[at])
             /\ UNCHANGED modemVars
    <3> DEFINE text == IF slot[at] = Nil THEN "ok" ELSE slot[at]
    <3>1. text \in Texts
      BY <1>5, <1>6, <2>4
    <3>2. Carried(cmd, text)
      BY <2>4 DEF Carried
    <3>3. QED
      BY <1>7, <2>4, <3>1, <3>2
  <2>5. CASE /\ cmd.op = "delete" /\ Say("answer", "ok")
             /\ slot' = [slot EXCEPT ![at] = Nil] /\ UNCHANGED <<storage, mixed>>
    BY <1>6, <1>7, <2>5 DEF Carried
  <2>6. CASE Say("answer", Failed) /\ UNCHANGED modemVars
    BY <1>6, <1>7, <2>6 DEF Carried
  <2>7. QED
    BY <2>1, <2>2, <2>3, <2>4, <2>5, <2>6 DEF CarryOut
<1>9. QED
  BY <1>1, <1>2, <1>3, <1>4, <1>8 DEF Shown

\* A command that is carried out leaves every message where its reader needs it, and is
\* answered with what is true.
LEMMA CarriedRight ==
  ASSUME ChannelInv, Live, line # <<>>, NEW text \in Texts, Carried(Head(line), text),
         Calm, ~mixed', UNCHANGED <<stage, hand>>
  PROVE  /\ hand \in Callers /\ line = <<Command(hand)>> /\ Fits(hand, text)'
         /\ \A r \in Readers : text = r => stage[r] # "none"
         /\ \A r \in Readers : stage[r] \in {"read", "delete"} => storage' = Home(r)
         /\ \A m \in Mails : slot[Place[m]] = m => \/ slot'[Place[m]] = m
                                                   \/ /\ m = hand /\ m \in Readers
                                                      /\ stage[m] = "delete"
<1> USE DEF ChannelInv
<1>1. hand \in Callers /\ line = <<Command(hand)>>
  BY DEF Exchange, Calm, ChannelTypes
<1>2. PICK h \in Callers : h = hand
  BY <1>1
<1>3. Carried(Command(h), text) /\ ~Rests(h)
  <2>1. Head(line) = Command(h)
    BY <1>1, <1>2
  <2>2. QED
    BY <1>2, <2>1 DEF Queueing, Waiting
<1>4. /\ h \notin Readers => Command(h).op = "query"
      /\ h \in Readers =>
           /\ stage[h] = "storage" => Command(h).op = "storage"
           /\ stage[h] = "select" => Command(h) = [op |-> "select", arg |-> Home(h)]
           /\ stage[h] = "read" => Command(h) = [op |-> "read", arg |-> Index(h)]
           /\ stage[h] = "delete" => Command(h) = [op |-> "delete", arg |-> Index(h)]
           /\ stage[h] = "restore" => Command(h) = [op |-> "select", arg |-> previous[h]]
           /\ stage[h] \in {"storage", "select", "read", "delete", "restore"}
  BY <1>3, CommandsAre
<1>5. h \notin Readers => stage[h] \in {"call", "done"}
  BY DEF Reading
<1>6. \A r \in Readers : Preserved(r)
  BY DEF Keeping
<1>7. \A r \in Readers : stage[r] \in {"read", "delete"} => storage = Home(r)
  BY <1>6 DEF Preserved
<1>8. ASSUME UNCHANGED modemVars,
             text = Failed \/ h \notin Readers \/ stage[h] \in {"storage", "restore", "delete"}
               \/ (stage[h] = "read" /\ text = h),
             text \in {Failed, "ok"} \/ (stage[h] = "storage" /\ text = storage)
               \/ (stage[h] = "read" /\ text = h),
             stage[h] = "storage" => text \in {Failed, storage}
      PROVE  /\ Fits(h, text)'
             /\ \A r \in Readers : text = r => stage[r] # "none"
             /\ \A r \in Readers : stage[r] \in {"read", "delete"} => storage' = Home(r)
             /\ \A m \in Mails : slot[Place[m]] = m => slot'[Place[m]] = m
  <2>1. storage' = storage /\ slot' = slot /\ stage' = stage
    BY <1>8 DEF modemVars
  <2>2. Fits(h, text)'
    BY <1>5, <1>8, <2>1 DEF Fits, Home
  <2>3. \A r \in Readers : text = r => stage[r] # "none"
    <3>1. storage \notin Readers
      BY NamesApart DEF ChannelTypes
    <3>2. QED
      BY <1>8, <3>1, NamesApart
  <2>4. QED
    BY <1>7, <2>1, <2>2, <2>3
<1>9. CASE Command(h).op = "query" /\ text = "ok" /\ UNCHANGED modemVars
  <2>1. h \notin Readers
    BY <1>4, <1>9
  <2>2. stage[h] # "storage"
    BY <1>5, <2>1
  <2>3. QED
    BY <1>1, <1>2, <1>8, <1>9, <2>1, <2>2
<1>10. CASE Command(h).op = "storage" /\ text = storage /\ UNCHANGED modemVars
  <2>1. h \in Readers /\ stage[h] = "storage"
    BY <1>4, <1>10
  <2>2. QED
    BY <1>1, <1>2, <1>8, <1>10, <2>1
<1>11. CASE /\ Command(h).op = "select" /\ text = "ok"
            /\ storage' = Command(h).arg /\ UNCHANGED slot
            /\ mixed' = (mixed \/ \E r, q \in Readers : r # q /\ ~Rests(r) /\ ~Rests(q))
  <2>1. h \in Readers /\ stage[h] \in {"select", "restore"}
    BY <1>4, <1>11
  <2>2. \A r \in Readers : stage[r] \notin {"read", "delete"}
    BY <1>3, <1>11, <2>1 DEF Rests
  <2>3. stage[h] = "select" => storage' = Home(h)
    BY <1>4, <1>11, <2>1
  <2>4. Fits(h, text)'
    BY <1>11, <2>1, <2>3 DEF Fits, Home
  <2>5. \A r \in Readers : text = r => stage[r] # "none"
    BY <1>11, NamesApart
  <2>6. QED
    BY <1>1, <1>2, <1>11, <2>2, <2>4, <2>5
<1>12. CASE /\ Command(h).op = "read" /\ UNCHANGED modemVars
            /\ text = IF slot[<<storage, Command(h).arg>>] = Nil
                        THEN "ok" ELSE slot[<<storage, Command(h).arg>>]
  <2>1. h \in Readers /\ stage[h] = "read" /\ Command(h).arg = Index(h)
    BY <1>4, <1>12
  <2>2. <<storage, Command(h).arg>> = Place[h] /\ slot[Place[h]] = h /\ h # Nil
    BY <1>6, <1>7, <2>1, NamesApart DEF Preserved
  <2>3. text = h
    BY <1>12, <2>2
  <2>4. QED
    BY <1>1, <1>2, <1>8, <1>12, <2>1, <2>3
<1>13. CASE /\ Command(h).op = "delete" /\ text = "ok"
            /\ slot' = [slot EXCEPT ![<<storage, Command(h).arg>>] = Nil]
            /\ UNCHANGED <<storage, mixed>>
  <2>1. h \in Readers /\ stage[h] = "delete" /\ Command(h).arg = Index(h)
    BY <1>4, <1>13
  <2>2. <<storage, Command(h).arg>> = Place[h]
    BY <1>7, <2>1, NamesApart
  <2>3. slot[Place[h]] = h
    BY <1>1, <1>6, <2>1 DEF Preserved
  <2>4. slot' = [slot EXCEPT ![Place[h]] = Nil]
    BY <1>13, <2>2
  <2>5. ASSUME NEW m \in Mails, slot[Place[m]] = m, m # h
        PROVE  slot'[Place[m]] = m
    <3>1. Place[m] # Place[h]
      BY <2>3, <2>5
    <3>2. slot \in [Slots -> Mails \cup {Nil}] /\ Place[m] \in Slots
      BY NamesApart DEF ChannelTypes
    <3>3. QED
      BY <2>4, <2>5, <3>1, <3>2
  <2>6. Fits(h, text)'
    BY <2>1 DEF Fits
  <2>7. \A r \in Readers : text = r => stage[r] # "none"
    BY <1>13, NamesApart
  <2>8. QED
    BY <1>1, <1>2, <1>7, <1>13, <2>1, <2>5, <2>6, <2>7
<1>14. CASE text = Failed /\ UNCHANGED modemVars
  BY <1>1, <1>2, <1>8, <1>14
<1>15. QED
  BY <1>3, <1>9, <1>10, <1>11, <1>12, <1>13, <1>14 DEF Carried

\* A command is carried out.
LEMMA CarryOutKeeps ==
  ASSUME ChannelInv, CarryOut
  PROVE  ChannelInv'
<1> USE DEF ChannelInv
<1>1. /\ Live /\ line # <<>> /\ line' = Tail(line) /\ Head(line) \in Commands
      /\ line' \in Seq(Commands)
      /\ UNCHANGED <<stage, previous, handed, queue, urgent, hand, loop, looked, streak, reader,
                     stopped, told, gone, slow, slows>>
  BY CarryOutIs
<1>2. PICK text \in Texts : /\ Carried(Head(line), text)
                            /\ rx' = Append(rx, [kind |-> "answer", text |-> text])
  BY CarryOutIs
<1> DEFINE m == [kind |-> "answer", text |-> text]
<1>3. m \in Lines /\ m.kind = "answer" /\ m.text = text /\ rx' = Append(rx, m)
  BY <1>2 DEF Lines
<1> HIDE DEF m
<1>4. /\ rx' \in Seq(Lines) /\ Len(rx) + 1 \in DOMAIN rx' /\ Len(rx) + 1 \notin DOMAIN rx
      /\ rx'[Len(rx) + 1] = m
      /\ \A i \in DOMAIN rx' : i = Len(rx) + 1 \/ (i \in DOMAIN rx /\ rx'[i] = rx[i])
  BY <1>3, LinePut
<1>5. UNCHANGED callVars
  BY <1>1 DEF callVars
<1>6. Reading' /\ \A r : Announced(r)' <=> Announced(r)
  BY <1>3, <1>5, OtherLinePut
<1>7. storage' \in Storages /\ slot' \in [Slots -> Mails \cup {Nil}] /\ mixed' \in BOOLEAN
      /\ (mixed => mixed')
  <2>1. storage' \in Storages
    BY <1>1, <1>2 DEF Carried, Commands, ChannelTypes, modemVars
  <2>2. slot' \in [Slots -> Mails \cup {Nil}]
    BY <1>2 DEF Carried, ChannelTypes, modemVars
  <2>3. mixed' \in BOOLEAN /\ (mixed => mixed')
    <3>1. \/ mixed' = mixed
          \/ mixed' = (mixed \/ \E r, q \in Readers : r # q /\ ~Rests(r) /\ ~Rests(q))
      BY <1>2 DEF Carried, modemVars
    <3>2. QED
      BY <3>1, Zenon DEF ChannelTypes
  <2>4. QED
    BY <2>1, <2>2, <2>3
<1>8. ChannelTypes'
  BY <1>1, <1>4, <1>7 DEF ChannelTypes
<1>9. Queueing'
  BY <1>1 DEF Queueing, Waiting, Queued, Rests
<1>10. Reporting'
  BY <1>1 DEF Reporting
<1>11. Live'
  BY <1>1 DEF Live
<1>12. Calm' => Calm /\ ~mixed'
  BY <1>1, <1>7 DEF Calm
<1>13. slows = 0 => hand # Nil /\ line' = <<>> /\ NoAnswer
  <2>1. SUFFICES ASSUME slows = 0 PROVE hand # Nil /\ line' = <<>> /\ NoAnswer
    OBVIOUS
  <2>2. hand # Nil /\ line = <<Command(hand)>> /\ NoAnswer
    BY <1>1, <2>1 DEF Exchange
  <2>3. QED
    BY <1>1, <2>2
<1>14. Calm' => /\ hand \in Callers /\ line = <<Command(hand)>> /\ Fits(hand, text)'
                /\ \A r \in Readers : text = r => stage[r] # "none"
                /\ \A r \in Readers : stage[r] \in {"read", "delete"} => storage' = Home(r)
                /\ \A n \in Mails : slot[Place[n]] = n => \/ slot'[Place[n]] = n
                                                          \/ /\ n = hand /\ n \in Readers
                                                             /\ stage[n] = "delete"
  <2>1. UNCHANGED <<stage, hand>>
    BY <1>1
  <2>2. QED
    BY <1>1, <1>2, <1>12, <2>1, CarriedRight
<1>15. Exchange'
  <2>1. \A i \in DOMAIN rx' : rx'[i].kind \in {"answer", "urc"}
    BY <1>1, <1>3, <1>4 DEF Exchange
  <2>2. slows = 0 => OneAnswer' /\ ~NoAnswer'
    BY <1>3, <1>4, <1>13 DEF OneAnswer, NoAnswer
  <2>3. ASSUME slows' = 0, ~mixed', NEW i \in DOMAIN rx', rx'[i].kind = "answer"
        PROVE  Fits(hand, rx[i].text)'
    <3>1. i = Len(rx) + 1
      BY <1>1, <1>4, <1>13, <2>3 DEF NoAnswer
    <3>2. rx'[i].text = text
      BY <1>3, <1>4, <3>1
    <3>3. Fits(hand, text)'
      BY <1>14, <2>3 DEF Calm
    <3>4. QED
      BY <3>2, <3>3 DEF Fits
  <2>4. (gone' => line' = <<>>) /\ (slow' => slows' > 0) /\ reader'
    BY <1>1, <1>11 DEF Exchange, Live
  <2>5. ASSUME slows' = 0
        PROVE  hand' # Nil /\ line' = <<>> /\ OneAnswer' /\ ~NoAnswer'
    BY <1>1, <1>13, <2>2, <2>5
  <2>6. QED
    BY <2>1, <2>3, <2>4, <2>5 DEF Exchange
<1>16. Keeping'
  <2>1. SUFFICES ASSUME Calm'
                 PROVE  /\ \A r \in Readers : Preserved(r)'
                        /\ \A n \in Resident : slot'[Place[n]] = n
                        /\ \A i \in DOMAIN rx' : \A r \in Readers :
                             rx'[i].text = r => rx'[i].kind = "urc" \/ stage'[r] # "none"
    BY DEF Keeping
  <2>2. Keeping /\ Calm
    BY <1>12, <2>1
  <2>3. ASSUME NEW r \in Readers PROVE Preserved(r)'
    <3>1. Preserved(r) /\ r \in Mails /\ (Announced(r)' <=> Announced(r))
      BY <1>6, <2>2, NamesApart DEF Keeping
    <3>2. slot[Place[r]] = r => slot'[Place[r]] = r \/ (r = hand /\ stage[r] = "delete")
      BY <1>14, <2>1, <3>1
    <3>3. stage[r] \in {"read", "delete"} => storage' = Home(r)
      BY <1>14, <2>1
    <3>4. line' = <<>> /\ hand' = hand
      BY <1>1, <1>13, <2>2 DEF Calm
    <3>5. stage[r] = "delete" => ~Announced(r) /\ r \in handed
      BY <1>1, <3>1 DEF Preserved, Reading, Announced
    <3>6. QED
      BY <1>1, <3>1, <3>2, <3>3, <3>4, <3>5 DEF Preserved, Home
  <2>4. \A n \in Resident : slot'[Place[n]] = n
    BY <1>14, <2>1, <2>2, NamesApart DEF Keeping
  <2>5. \A i \in DOMAIN rx' : \A r \in Readers :
          rx'[i].text = r => rx'[i].kind = "urc" \/ stage'[r] # "none"
    <3>1. TAKE i \in DOMAIN rx'
    <3>2. TAKE r \in Readers
    <3>3. HAVE rx'[i].text = r
    <3>4. CASE rx'[i] = m
      BY <1>1, <1>3, <1>14, <2>1, <3>3, <3>4
    <3>5. CASE i \in DOMAIN rx /\ rx'[i] = rx[i]
      BY <1>1, <2>2, <3>3, <3>5 DEF Keeping
    <3>6. QED
      BY <1>4, <3>4, <3>5
  <2>6. QED
    BY <2>3, <2>4, <2>5
<1>17. QED
  BY <1>6, <1>8, <1>9, <1>10, <1>15, <1>16

\* At first nobody waits, and every message is in its slot.
LEMMA AtBegins == AtInit => ChannelInv
<1> SUFFICES ASSUME AtInit PROVE ChannelInv
  OBVIOUS
<1> USE DEF AtInit
<1>1. ChannelTypes
  <2>1. stage \in [Callers -> Stages]
    BY DEF Stages
  <2>2. slot \in [Slots -> Mails \cup {Nil}]
    <3>1. \A s \in Slots : (\E m \in Resident : Place[m] = s)
                           => (CHOOSE m \in Resident : Place[m] = s) \in Resident
      OBVIOUS
    <3>2. QED
      BY <3>1 DEF Mails
  <2>3. streak \in 0..Threshold /\ slows \in 0..MaxSlow
    BY NumbersAssumption
  <2>4. /\ loop \in BOOLEAN /\ looked \in BOOLEAN /\ reader \in BOOLEAN /\ stopped \in BOOLEAN
        /\ slow \in BOOLEAN /\ mixed \in BOOLEAN /\ gone \in BOOLEAN
    OBVIOUS
  <2>5. /\ queue \in Seq(Callers) /\ urgent \in Seq(Callers) /\ rx \in Seq(Lines)
        /\ line \in Seq(Commands)
        /\ previous \in [Readers -> Storages \cup {Nil}] /\ told \in Nat /\ handed \subseteq Mails
        /\ hand \in Callers \cup {Nil} /\ storage \in Storages
    OBVIOUS
  <2>6. QED
    BY <2>1, <2>2, <2>3, <2>4, <2>5 DEF ChannelTypes
<1>2. Queueing
  <2>1. ToSet(queue) = {} /\ ToSet(urgent) = {} /\ Nil \notin Callers
    BY NamesApart DEF ToSet
  <2>2. QED
    BY <2>1 DEF Queueing, Single, Waiting, Queued
<1>3. Reading
  BY NamesApart DEF Reading
<1>4. Reporting
  BY DEF Reporting
<1>5. Exchange
  BY DEF Exchange, NoAnswer
<1>6. Keeping
  <2>1. ASSUME NEW m \in Resident PROVE slot[Place[m]] = m
    <3>1. Place[m] \in Slots
      BY NamesApart
    <3>2. \A n \in Resident : Place[n] = Place[m] => n = m
      BY PlaceAssumption
    <3>3. (CHOOSE n \in Resident : Place[n] = Place[m]) = m
      BY <3>2
    <3>4. QED
      BY <3>1, <3>3
  <2>2. \A r \in Readers : Preserved(r)
    BY NamesApart DEF Preserved, Announced
  <2>3. QED
    BY <2>1, <2>2 DEF Keeping
<1>7. QED
  BY <1>1, <1>2, <1>3, <1>4, <1>5, <1>6 DEF ChannelInv

\* A step that changes nothing keeps everything.
LEMMA AtRests ==
  ASSUME ChannelInv, UNCHANGED atVars
  PROVE  ChannelInv'
<1> USE DEF ChannelInv, atVars, callVars, loopVars, stopVars, modemVars, paceVars
<1>1. ChannelTypes' /\ Queueing' /\ Reporting'
  BY DEF ChannelTypes, Queueing, Reporting, Waiting, Queued, Rests
<1>2. Live' <=> Live
  BY DEF Live
<1>3. /\ UNCHANGED <<callVars, handed, rx, modemVars, slows>>
      /\ UNCHANGED <<callVars, rx, hand, modemVars, reader>>
  OBVIOUS
<1>4. Reading' /\ Keeping'
  BY <1>2, <1>3, CallsKept
<1>5. Exchange'
  <2>1. gone' => line' = <<>>
    BY DEF Exchange
  <2>2. QED
    BY <1>2, <1>3, <2>1, ExchangeKept
<1>6. QED
  BY <1>1, <1>4, <1>5

\* Every state of the channel is one in which each call is in one place and each message is
\* where its reader will look for it.
LEMMA ChannelAlways == AtSpec => []ChannelInv
<1>1. ASSUME ChannelInv, [AtNext]_atVars
      PROVE  ChannelInv'
  <2>1. CASE AtNext
    <3>1. ASSUME NEW c \in Callers, Submit(c) PROVE ChannelInv'
      BY <1>1, <3>1, SubmitKeeps
    <3>2. ASSUME NEW c \in Callers, GiveUp(c) PROVE ChannelInv'
      BY <1>1, <3>2, GiveUpKeeps
    <3>3. CASE Look
      BY <1>1, <3>3, LookKeeps
    <3>4. ASSUME NEW c \in Callers, Take(c) PROVE ChannelInv'
      BY <1>1, <3>4, TakeKeeps
    <3>5. CASE ReceiveHandling
      BY <1>1, <3>5, HandlingKeeps
    <3>6. CASE ReceiveIdle
      BY <1>1, <3>6, ReceiveIdleKeeps
    <3>7. CASE Timeout
      BY <1>1, <3>7, TimeoutKeeps
    <3>8. CASE LoopEnds \/ OwnerStops
      BY <1>1, <3>8, EndsKeep
    <3>9. CASE ReaderEnds
      BY <1>1, <3>9, ReaderEndsKeeps
    <3>10. CASE CarryOut
      BY <1>1, <3>10, CarryOutKeeps
    <3>11. CASE Dawdle
      BY <1>1, <3>11, DawdleKeeps
    <3>12. CASE PortFails
      BY <1>1, <3>12, PortFailsKeeps
    <3>13. ASSUME NEW r \in Readers, Announce(r) PROVE ChannelInv'
      BY <1>1, <3>13, AnnounceKeeps
    <3>14. QED
      BY <2>1, <3>1, <3>2, <3>3, <3>4, <3>5, <3>6, <3>7, <3>8, <3>9, <3>10, <3>11, <3>12, <3>13
      DEF AtNext, RunLoop
  <2>2. CASE UNCHANGED atVars
    BY <1>1, <2>2, AtRests
  <2>3. QED
    BY <1>1, <2>1, <2>2
<1>2. QED
  BY AtBegins, <1>1, PTL DEF AtSpec

\* For any number of callers, messages and slow commands: a caller has one command under way
\* (executeAT, runLoop), and the end of the device is reported once, whichever of handleCommand,
\* runLoop and the watchdog notices it (manager.go:440-469, 557-570, 618-621).
THEOREM ChannelConsistent == AtSpec => []AtConsistent
<1>1. ChannelInv => AtConsistent
  <2>1. SUFFICES ASSUME ChannelInv PROVE AtConsistent
    OBVIOUS
  <2>2. \A i \in DOMAIN rx : rx[i] \in [kind : {"answer", "urc", "fatal", "eof"}, text : Texts]
    <3>1. \A i \in DOMAIN rx : rx[i] \in Lines
      BY <2>1 DEF ChannelInv, ChannelTypes
    <3>2. QED
      BY <3>1 DEF Lines
  <2>3. AtTypeOK
    BY <2>1, <2>2 DEF ChannelInv, ChannelTypes, Queueing, AtTypeOK
  <2>4. ReportedOnce
    BY <2>1 DEF ChannelInv, Reporting, ReportedOnce
  <2>5. QED
    BY <2>3, <2>4 DEF AtConsistent
<1>2. QED
  BY <1>1, ChannelAlways, PTL

\* readAndProcessSMSFromStorage deletes no message that it has not handed on, and none that it
\* was not told of, as long as no answer came too late and no storage was selected under
\* another reader (manager.go:1473-1532, 1603-1633).
THEOREM NothingLost == AtSpec => []NothingDeletedUnread
<1>1. ChannelInv => NothingDeletedUnread
  <2>1. SUFFICES ASSUME ChannelInv, slows = 0, ~mixed
                 PROVE  /\ \A r \in Readers : Seen(r) => slot[Place[r]] = r \/ r \in handed
                        /\ \A m \in Resident : slot[Place[m]] = m
    BY DEF NothingDeletedUnread
  <2>2. Keeping /\ Calm /\ Reading
    BY <2>1 DEF Calm, ChannelInv
  <2>3. ASSUME NEW r \in Readers, Seen(r)
        PROVE  slot[Place[r]] = r \/ r \in handed
    <3>1. Preserved(r)
      BY <2>2 DEF Keeping
    <3>2. stage[r] # "none" \/ Announced(r)
      BY <2>2, <2>3 DEF Seen, Keeping, Announced
    <3>3. stage[r] \in {"none", "storage", "select", "read", "delete", "restore", "done"}
      BY <2>1, NamesApart DEF Reading, ChannelInv, ChannelTypes, Stages
    <3>4. QED
      BY <3>1, <3>2, <3>3 DEF Preserved
  <2>4. QED
    BY <2>2, <2>3 DEF Keeping
<1>2. QED
  BY <1>1, ChannelAlways, PTL
=============================================================================
