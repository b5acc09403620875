----------------------------- MODULE AtManager -----------------------------
(***************************************************************************)
(* The AT command channel of one modem (internal/modem/manager.go): calls  *)
(* that queue for the loop that owns the port (runLoop), the loop that     *)
(* reads it (readLoop), commands that time out and are answered later, the *)
(* watchdog that counts them, a port that fails; and what it is used for   *)
(* when a message arrives: the goroutine that reads it out of its storage  *)
(* and deletes it.                                                         *)
(*                                                                         *)
(* An answer carries no name: it is given to the command being handled.    *)
(***************************************************************************)
EXTENDS Naturals, Sequences, SequencesExt

CONSTANTS
  Readers,             \* messages that arrive, each with the goroutine that reads it
  Resident,            \* messages that are in the modem from the start
  Pollers, Urgent,     \* callers of ExecuteAT and ExecuteATHigh
  Storages, Positions, \* of messages in the modem
  Place,               \* where a message is put
  Threshold,           \* atTimeoutWatchdogThreshold
  MaxSlow,             \* bound: commands the modem is too slow for
  Nil

Callers  == Readers \cup Pollers \cup Urgent
Mails    == Readers \cup Resident
Slots    == Storages \X Positions

\* A slot holds one message.
ASSUME PlaceAssumption ==
  /\ Place \in [Mails -> Slots]
  /\ \A m, n \in Resident : Place[m] = Place[n] => m = n
ASSUME NumbersAssumption == Threshold \in Nat \ {0} /\ MaxSlow \in Nat
ASSUME NamesAssumption ==
  /\ Readers \cap (Pollers \cup Urgent \cup Resident) = {}
  /\ Nil \notin Callers \cup Resident \cup Storages
  /\ {"ok", "failed"} \cap (Mails \cup Storages) = {} /\ Mails \cap Storages = {}

VARIABLES
  stage, previous,           \* of a caller: its step, the storage to restore
  queue, urgent,             \* cmdChan, cmdChanHigh: who has a command in them
  loop, hand,                \* runLoop runs; whose command it handles
  looked,                    \* it found no urgent command, and waits for anything
  rx, reader,                \* rxChan; readLoop runs
  streak,                    \* atTimeoutStreak
  stopped, told,             \* Stop was called; how often notifyDisconnect was
  line, gone,                \* commands written and not carried out; the port has failed
  storage, slot,             \* modem: the storage in use, the message in a slot
  slow, slows,               \* the present command times out; their number
  handed, mixed              \* history: handed on; a storage was selected under another reader

callVars  == <<stage, previous>>
loopVars  == <<loop, hand, looked, streak>>
stopVars  == <<stopped, told>>
modemVars == <<storage, slot, mixed>>
paceVars  == <<slow, slows>>
atVars == <<callVars, queue, urgent, loopVars, rx, reader, stopVars, line, gone,
            modemVars, paceVars, handed>>

AtInit ==
  /\ stage = [c \in Callers |-> IF c \in Readers THEN "none" ELSE "call"]
  /\ previous = [r \in Readers |-> Nil]
  /\ queue = <<>> /\ urgent = <<>>
  /\ loop = TRUE /\ hand = Nil /\ looked = FALSE /\ rx = <<>> /\ reader = TRUE /\ streak = 0
  /\ stopped = FALSE /\ told = 0
  /\ line = <<>> /\ gone = FALSE
  /\ storage \in Storages
  /\ slot = [s \in Slots |-> IF \E m \in Resident : Place[m] = s
                               THEN CHOOSE m \in Resident : Place[m] = s ELSE Nil]
  /\ slow = FALSE /\ slows = 0
  /\ handed = {} /\ mixed = FALSE

-----------------------------------------------------------------------------
(* The commands, and what a caller does with the text that comes back.     *)

Index(r) == Place[r][2]
Home(r)  == Place[r][1]

Command(c) ==
  CASE stage[c] = "call"    -> [op |-> "query", arg |-> 0]
    [] stage[c] = "storage" -> [op |-> "storage", arg |-> 0]
    [] stage[c] = "select"  -> [op |-> "select", arg |-> Home(c)]
    [] stage[c] = "read"    -> [op |-> "read", arg |-> Index(c)]
    [] stage[c] = "delete"  -> [op |-> "delete", arg |-> Index(c)]
    [] stage[c] = "restore" -> [op |-> "select", arg |-> previous[c]]

Failed == "failed"   \* an error of the modem, a timeout, a stopped manager

Leave(r) == IF previous[r] = Nil THEN "done" ELSE "restore"

\* Mutant: a storage that could not be selected is read all the same.
ReadAnyway(text) == "read"

\* The storage is selected, or there is nothing to read.
Selected(text) == IF text = Failed THEN "done" ELSE "read"

\* switchSMSStorageForRead and readAndProcessSMSFromStorage, a step for each
\* answer; who polls calls again.
After(c, text) ==
  CASE stage[c] = "call"    -> IF c \in Pollers THEN "call" ELSE "done"
    [] stage[c] = "storage" -> IF text = Home(c) THEN "read" ELSE "select"
    [] stage[c] = "select"  -> Selected(text)
    [] stage[c] = "read"    -> IF text \in Mails THEN "delete" ELSE Leave(c)
    [] stage[c] = "delete"  -> Leave(c)
    [] stage[c] = "restore" -> "done"

\* The storage in use is not the message's, and is restored when the message is read.
Remember(r, text) == text \in Storages \ {Home(r)}

\* A call comes back with a text.
Return(c, text) ==
  /\ stage' = [stage EXCEPT ![c] = After(c, text)]
  /\ previous' = IF c \in Readers /\ stage[c] = "storage" /\ Remember(c, text)
                   THEN [previous EXCEPT ![c] = text] ELSE previous
  /\ handed' = IF stage[c] = "read" /\ text \in Mails THEN handed \cup {text} ELSE handed

CallEnded == UNCHANGED <<callVars, handed>>

Queued(c)  == c \in ToSet(queue) \cup ToSet(urgent)
Waiting(c) == Queued(c) \/ hand = c
Rests(c)   == stage[c] \in {"none", "done"}

\* executeAT puts the command into a channel, which has room for every caller.
Submit(c) ==
  /\ ~stopped /\ ~Rests(c) /\ ~Waiting(c)
  /\ IF c \in Urgent THEN urgent' = Append(urgent, c) /\ UNCHANGED queue
                     ELSE queue' = Append(queue, c) /\ UNCHANGED urgent
  /\ UNCHANGED <<callVars, handed, loopVars, rx, reader, stopVars, line, gone, modemVars, paceVars>>

\* Mutant: a call that is queued waits for its answer only.
StaysQueued(c) == c \in Readers /\ ~Queued(c)

\* A call ends when the manager stops, be it queued or on its way.
Ends(c) == c \in Readers \/ Queued(c)

\* A channel without the command a caller has in it.
Without(q, c) ==
  IF c \in ToSet(q) THEN RemoveAt(q, CHOOSE i \in DOMAIN q : q[i] = c) ELSE q

\* executeAT refuses a call, or gives up one that is queued, when the manager has
\* stopped; the caller's other calls end likewise.
GiveUp(c) ==
  /\ stopped /\ ~Rests(c) /\ hand # c /\ Ends(c)
  /\ stage' = [stage EXCEPT ![c] = IF c \in Readers THEN "done" ELSE @]
  /\ queue' = Without(queue, c)
  /\ urgent' = Without(urgent, c)
  /\ UNCHANGED <<previous, handed, loopVars, rx, reader, stopVars, line, gone, modemVars, paceVars>>

-----------------------------------------------------------------------------
(* Stop, and the end of the two loops.                                     *)

\* Stop once, and the owner is told of it.
Disconnect == stopped' = TRUE /\ told' = told + 1

\* Mutant: the owner is told whether or not the manager runs.
DisconnectAgain == Disconnect

\* handleFatalSerialRuntimeErr and tripATTimeoutWatchdog, on a manager that runs.
DisconnectIfRunning == IF stopped THEN UNCHANGED stopVars ELSE Disconnect

OwnerStops ==
  /\ ~stopped /\ stopped' = TRUE
  /\ UNCHANGED <<callVars, queue, urgent, loopVars, rx, reader, told, line, gone,
                 modemVars, paceVars, handed>>

LoopEnds ==
  /\ loop /\ stopped /\ hand = Nil /\ loop' = FALSE
  /\ UNCHANGED <<callVars, queue, urgent, hand, looked, streak, rx, reader, stopVars, line, gone,
                 modemVars, paceVars, handed>>

\* readLoop: a port that fails, with an error the manager knows to be fatal or with
\* none but end-of-file; nothing is said once the manager has stopped.
ReaderEnds ==
  /\ reader /\ (gone \/ stopped) /\ reader' = FALSE
  /\ \/ stopped /\ UNCHANGED rx
     \/ ~stopped /\ \E e \in {"fatal", "eof"} : rx' = Append(rx, [kind |-> e, text |-> Nil])
  /\ UNCHANGED <<callVars, queue, urgent, loopVars, stopVars, line, gone,
                 modemVars, paceVars, handed>>

-----------------------------------------------------------------------------
(* runLoop and handleCommand.                                              *)

\* The first select finds no urgent command, nor a manager that has stopped; the
\* second waits for everything.
Look ==
  /\ ~stopped /\ loop /\ hand = Nil /\ ~looked /\ urgent = <<>> /\ looked' = TRUE
  /\ UNCHANGED <<callVars, handed, queue, urgent, loop, hand, streak, rx, reader, stopVars,
                 line, gone, modemVars, paceVars>>

\* A command is taken out of its channel and written.  The error of writing to a port
\* that is gone is fatal; the code ignores one that is not.
Take(c) ==
  /\ loop /\ hand = Nil /\ looked' = FALSE
  /\ \/ c \in Urgent /\ urgent # <<>> /\ Head(urgent) = c
        /\ urgent' = Tail(urgent) /\ UNCHANGED queue
     \/ c \notin Urgent /\ looked /\ queue # <<>> /\ Head(queue) = c
        /\ queue' = Tail(queue) /\ UNCHANGED urgent
  /\ \/ /\ ~stopped /\ hand' = c
        /\ line' = IF gone THEN line ELSE Append(line, Command(c))
        /\ UNCHANGED <<callVars, handed, stopVars>>
     \/ /\ gone \/ stopped
        /\ Return(c, Failed)
        /\ DisconnectIfRunning /\ UNCHANGED <<hand, line>>
  /\ UNCHANGED <<loop, streak, rx, reader, gone, modemVars, paceVars>>

\* The handled command comes back.
Answer(text) ==
  /\ hand' = Nil /\ slow' = FALSE
  /\ Return(hand, text)

\* handleURC of +CMTI: a goroutine reads the message.
Notice(r) ==
  /\ stage' = [stage EXCEPT ![r] = "storage"]
  /\ UNCHANGED <<previous, handed>>

\* A line while a command is handled: it is the answer, whosever it is.
ReceiveHandling ==
  /\ hand # Nil /\ rx # <<>> /\ rx' = Tail(rx)
  /\ LET m == Head(rx) IN
       \/ /\ m.kind = "answer" /\ Answer(m.text)
          /\ streak' = 0 /\ UNCHANGED <<stopVars, slows>>
       \/ /\ m.kind = "urc" /\ Notice(m.text)
          /\ UNCHANGED <<hand, streak, stopVars, slow, slows>>
       \/ /\ m.kind = "fatal" /\ Answer(Failed) /\ DisconnectIfRunning
          /\ UNCHANGED <<streak, slows>>
       \/ /\ m.kind = "eof" /\ Answer(Failed)
          /\ UNCHANGED <<streak, stopVars, slows>>
  /\ UNCHANGED <<loop, looked, queue, urgent, reader, line, gone, modemVars>>

\* A line while none is: an answer is dropped, an error ends the manager, even if
\* it is being stopped.
ReceiveIdle ==
  /\ loop /\ hand = Nil /\ looked /\ looked' = FALSE /\ rx # <<>> /\ rx' = Tail(rx)
  /\ LET m == Head(rx) IN
       \/ m.kind = "answer" /\ CallEnded /\ UNCHANGED <<stopVars, loop>>
       \/ m.kind = "urc" /\ Notice(m.text) /\ UNCHANGED <<stopVars, loop>>
       \/ m.kind \in {"fatal", "eof"} /\ Disconnect /\ loop' = FALSE /\ CallEnded
  /\ UNCHANGED <<hand, streak, queue, urgent, reader, line, gone, modemVars, paceVars>>

\* Mutant: an answer is needed to notice anything.
CountsNone(c) == FALSE

\* recordATTimeout does not count the urgent commands.
Counts(c) == c \notin Urgent

\* The command has had its time.
Timeout ==
  /\ hand # Nil /\ (slow \/ gone \/ stopped)
  /\ Answer(Failed)
  /\ IF ~Counts(hand) THEN UNCHANGED <<streak, stopVars>>
     ELSE /\ streak' = IF streak < Threshold THEN streak + 1 ELSE streak
          /\ IF streak' = Threshold THEN DisconnectIfRunning ELSE UNCHANGED stopVars
  /\ UNCHANGED <<loop, looked, queue, urgent, rx, reader, line, gone, modemVars, slows>>

RunLoop ==
  Look \/ (\E c \in Callers : Take(c)) \/ ReceiveHandling \/ ReceiveIdle \/ Timeout \/ LoopEnds

-----------------------------------------------------------------------------
(* The modem.                                                              *)

Say(kind, text) == rx' = IF reader THEN Append(rx, [kind |-> kind, text |-> text]) ELSE rx

\* The first of the commands written is carried out and answered, in time or not.
\* What it does when the port is closed is not looked at.
CarryOut ==
  /\ line # <<>> /\ ~stopped /\ line' = Tail(line)
  /\ LET cmd == Head(line)
         at  == <<storage, cmd.arg>>
     IN \/ /\ cmd.op = "query" /\ Say("answer", "ok") /\ UNCHANGED modemVars
        \/ /\ cmd.op = "storage" /\ Say("answer", storage) /\ UNCHANGED modemVars
        \/ /\ cmd.op = "select" /\ Say("answer", "ok")
           /\ storage' = cmd.arg /\ UNCHANGED slot
           /\ mixed' = (mixed \/ \E r, q \in Readers : r # q /\ ~Rests(r) /\ ~Rests(q))
        \/ /\ cmd.op = "read" /\ Say("answer", IF slot[at] = Nil THEN "ok" ELSE slot[at])
           /\ UNCHANGED modemVars
        \/ /\ cmd.op = "delete" /\ Say("answer", "ok")
           /\ slot' = [slot EXCEPT ![at] = Nil] /\ UNCHANGED <<storage, mixed>>
        \/ Say("answer", Failed) /\ UNCHANGED modemVars
  /\ UNCHANGED <<callVars, queue, urgent, loopVars, reader, stopVars, gone, paceVars, handed>>

Dawdle ==
  /\ line # <<>> /\ hand # Nil /\ ~stopped /\ ~slow /\ slows < MaxSlow
  /\ slow' = TRUE /\ slows' = slows + 1
  /\ UNCHANGED <<callVars, queue, urgent, loopVars, rx, reader, stopVars, line, gone,
                 modemVars, handed>>

\* A message arrives and is announced.
Announce(r) ==
  /\ stage[r] = "none" /\ ~gone /\ ~stopped /\ slot[Place[r]] = Nil /\ reader
  /\ \A i \in DOMAIN rx : rx[i].text # r
  /\ slot' = [slot EXCEPT ![Place[r]] = r] /\ Say("urc", r)
  /\ UNCHANGED <<callVars, queue, urgent, loopVars, reader, stopVars, line, gone,
                 storage, mixed, paceVars, handed>>

PortFails ==
  /\ ~gone /\ ~stopped /\ gone' = TRUE /\ line' = <<>>
  /\ UNCHANGED <<callVars, queue, urgent, loopVars, rx, reader, stopVars,
                 modemVars, paceVars, handed>>

AtNext ==
  \/ \E c \in Callers : Submit(c) \/ GiveUp(c)
  \/ RunLoop \/ ReaderEnds \/ OwnerStops
  \/ CarryOut \/ Dawdle \/ PortFails
  \/ \E r \in Readers : Announce(r)

\* Goroutines run, the status of the modem is polled for ever, a read or a write on a
\* port that has failed returns, and a modem answers unless it is slow.
AtFairness ==
  /\ WF_atVars(RunLoop) /\ WF_atVars(ReaderEnds)
  /\ \A c \in Callers : WF_atVars(Submit(c) \/ GiveUp(c))
  /\ WF_atVars(~slow /\ CarryOut)

AtSpec == AtInit /\ [][AtNext]_atVars /\ AtFairness

-----------------------------------------------------------------------------
Stages == {"none", "call", "storage", "select", "read", "delete", "restore", "done"}
Texts  == {"ok", Failed, Nil} \cup Storages \cup Mails

\* The state has its types; a caller has one command under way at most.
AtTypeOK ==
  /\ stage \in [Callers -> Stages]
  /\ previous \in [Readers -> Storages \cup {Nil}]
  /\ queue \in Seq(Callers) /\ urgent \in Seq(Callers)
  /\ loop \in BOOLEAN /\ looked \in BOOLEAN /\ hand \in Callers \cup {Nil}
  /\ streak \in 0..Threshold /\ reader \in BOOLEAN
  /\ \A i \in DOMAIN rx : rx[i] \in [kind : {"answer", "urc", "fatal", "eof"}, text : Texts]
  /\ stopped \in BOOLEAN /\ told \in Nat
  /\ storage \in Storages /\ slot \in [Slots -> Mails \cup {Nil}]
  /\ slow \in BOOLEAN /\ slows \in 0..MaxSlow
  /\ handed \subseteq Mails /\ mixed \in BOOLEAN /\ gone \in BOOLEAN
  /\ \A c \in Callers : Queued(c) => hand # c

\* A modem that is lost is reported once, and not again by another of the four
\* ways it is noticed (manager.go:440-469, 557-570, 618-621).
ReportedOnce == told <= 1

\* Type correctness, with the one report of the end of the device.
AtConsistent == AtTypeOK /\ ReportedOnce

\* A message leaves the modem only when it has been handed on, and a message that
\* nobody announced not at all, be the storage it is in selected or not; unless an
\* answer came late and may have been taken for another's, or a storage was selected
\* while another reader counted on its own (manager.go:1473-1532, 1603-1633).
Seen(r) == stage[r] # "none" \/ \E i \in DOMAIN rx : rx[i].text = r
NothingDeletedUnread ==
  slows = 0 /\ ~mixed =>
    /\ \A r \in Readers : Seen(r) => slot[Place[r]] = r \/ r \in handed
    /\ \A m \in Resident : slot[Place[m]] = m

\* A port that has failed is noticed, although the command at hand may take the
\* error for its own and the reader is gone then: the watchdog counts the
\* commands that time out (manager.go:440-469, 752-800).
LossNoticed == gone ~> stopped

\* Every command comes back, with an answer or an error (manager.go:1707-1772).
Returns == \A c \in Callers : Waiting(c) ~> ~Waiting(c)
=============================================================================
