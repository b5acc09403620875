--------------------------- MODULE EsimOperations ---------------------------
(***************************************************************************)
(* The operations of the eSIM manager (internal/esim/manager.go): the      *)
(* operation lock and the channel that tells readers of its release, the   *)
(* overview cache with its generation, the reload that follows a write,    *)
(* and the notifications a write leaves on the card for the operator.      *)
(*                                                                         *)
(* A call is a goroutine.  What it does between two accesses to shared     *)
(* state is one action; the card is shared state too.                      *)
(***************************************************************************)
EXTENDS Integers, FiniteSets

CONSTANTS
  Calls,          \* calls of the manager's exported operations
  Reloader,       \* the goroutine of triggerOverviewReload
  Profiles,
  Programs,       \* what the calls ask for: a set of functions from Calls
  Leftover,       \* a profile deleted and installed again, neither of which was reported
  MaxIndications, \* bound: indications and resets of the modem
  NoCall, NoProfile, NoSnapshot

ASSUME NullAssumption ==
  /\ Reloader \notin Calls /\ NoCall \notin Calls \union {Reloader}
  /\ NoProfile \notin Profiles /\ Leftover \in Profiles
ASSUME BoundAssumption == MaxIndications \in Nat /\ IsFiniteSet(Profiles)

Procs == Calls \union {Reloader}

WriteKinds == {"switch", "disable", "rename", "delete", "download", "list", "resend"}
ReadKinds  == {"read", "refresh", "profiles", "reload"}

(* What the card holds, and what a scan of it returns.                     *)
Snapshots ==
  { s \in [installed : SUBSET Profiles, active : Profiles \union {NoProfile},
           renamed : SUBSET Profiles] :
      /\ s.active \in s.installed \union {NoProfile}
      /\ s.renamed \subseteq s.installed }

EmptyCard == [installed |-> {}, active |-> NoProfile, renamed |-> {}]

Events == {"install", "enable", "disable", "delete"}
Notification == [seq : Nat \ {0}, event : Events, profile : Profiles]

ASSUME ProgramAssumption ==
  \A prog \in Programs : \A c \in Calls :
    /\ prog[c].kind \in (WriteKinds \union ReadKinds) \ {"reload"}
    /\ prog[c].profile \in Profiles
ASSUME NoSnapshotAssumption == NoSnapshot \notin Snapshots

VARIABLES
  card,           \* profiles on the eUICC
  pending,        \* notifications on the eUICC
  nextSeq,        \* the card's notification counter
  sent,           \* notifications the operator has received
  program,        \* what each call asks for
  stage,          \* where each goroutine is
  held,           \* what a scan has read and not stored yet
  gen,            \* the generation a load began in
  baseline,       \* last notification before the write of a call
  own,            \* history: the notification a write has left on the card, or 0
  blind,          \* history: calls that compare with nothing, their list having failed
  outcome,        \* how the notification of a write ended
  opMu,           \* holder of the operation lock
  opDone, made, closed, \* completion channel, channels made, channels closed
  channel,        \* the channel a goroutine sleeps on, or is about to close
  panicked,       \* a channel was closed twice
  cache, generation, \* overviewCache, overviewGeneration
  reloading,      \* overviewReloading
  window,         \* switch windows begun
  open,           \* the last of them has not ended
  indications,
  missed,         \* history: goroutines whose scan does not show the card
  stale           \* history: the cache was filled by such a scan

cardVars    == <<card, pending, nextSeq, sent>>
lockVars    == <<opMu, opDone, made, closed, channel, panicked>>
cacheVars   == <<cache, generation, reloading, window, open, stale>>
historyVars == <<missed, indications>>
localVars   == <<held, gen, baseline, own, blind, outcome>>
vars == <<cardVars, lockVars, cacheVars, historyVars, localVars, stage, program>>

Kind(p) == IF p = Reloader THEN "reload" ELSE program[p].kind
Target(c) == program[c].profile

Go(p, s) == stage' = [stage EXCEPT ![p] = s]

\* What is to be downloaded is not installed yet.
Init ==
  /\ program \in Programs
  /\ LET wanted == {program[c].profile : c \in {d \in Calls : program[d].kind = "download"}}
     IN \E a \in (Profiles \ wanted) \union {NoProfile} :
          card = [installed |-> Profiles \ wanted, active |-> a, renamed |-> {}]
  /\ pending = {[seq |-> 1, event |-> "delete", profile |-> Leftover],
                [seq |-> 2, event |-> "install", profile |-> Leftover]}
  /\ nextSeq = 3 /\ sent = {}
  /\ stage = [p \in Procs |-> IF p = Reloader THEN "done" ELSE "new"]
  /\ held = [p \in Procs |-> NoSnapshot]
  /\ gen = [p \in Procs |-> 0]
  /\ baseline = [c \in Calls |-> 0] /\ own = [c \in Calls |-> 0] /\ blind = {}
  /\ outcome = [c \in Calls |-> "none"]
  /\ opMu = NoCall /\ opDone = 0 /\ made = 0 /\ closed = {} /\ panicked = FALSE
  /\ channel = [p \in Procs |-> 0]
  /\ cache = NoSnapshot /\ generation = 0 /\ reloading = FALSE
  /\ window = 0 /\ open = FALSE /\ indications = 0
  /\ missed = {} /\ stale = FALSE

-----------------------------------------------------------------------------
(* The operation lock.                                                     *)

\* Writers: m.opMu.Lock() at the top of the operation.
Lock(c) ==
  /\ Kind(c) \in WriteKinds \ {"list"} /\ stage[c] = "new"
  /\ opMu = NoCall
  /\ opMu' = c /\ Go(c, "locked")
  /\ UNCHANGED <<cardVars, opDone, made, closed, channel, panicked, cacheVars,
                 historyVars, localVars, program>>

\* TryLock of acquireOperationLock and waitForNoWriteOperation.
TryLock(p) ==
  /\ stage[p] = "try"
  /\ IF opMu = NoCall
       THEN opMu' = p /\ Go(p, IF Kind(p) = "list" THEN "locked" ELSE "peeked")
       ELSE UNCHANGED opMu /\ Go(p, "wait")
  /\ UNCHANGED <<cardVars, opDone, made, closed, channel, panicked, cacheVars,
                 historyVars, localVars, program>>

\* A reader does not keep the lock, and tells nobody that it had it.
Unpeek(p) ==
  /\ stage[p] = "peeked"
  /\ opMu' = NoCall /\ Go(p, "scan")
  /\ UNCHANGED <<cardVars, opDone, made, closed, channel, panicked, cacheVars,
                 historyVars, localVars, program>>

LoadChannel(p) ==
  /\ stage[p] = "wait"
  /\ channel' = [channel EXCEPT ![p] = opDone] /\ Go(p, "asleep")
  /\ UNCHANGED <<cardVars, opMu, opDone, made, closed, panicked, cacheVars,
                 historyVars, localVars, program>>

Wake(p) ==
  /\ stage[p] = "asleep" /\ channel[p] \in closed
  /\ Go(p, "try")
  /\ UNCHANGED <<cardVars, lockVars, cacheVars, historyVars, localVars, program>>

\* notifyWriteDone: the channel is read and replaced without a lock.
Unlock(c) ==
  /\ stage[c] = "unlock"
  /\ opMu' = NoCall /\ Go(c, "unlocked")
  /\ UNCHANGED <<cardVars, opDone, made, closed, channel, panicked, cacheVars,
                 historyVars, localVars, program>>

ReadDone(c) ==
  /\ stage[c] = "unlocked"
  /\ channel' = [channel EXCEPT ![c] = opDone] /\ Go(c, "notify")
  /\ UNCHANGED <<cardVars, opMu, opDone, made, closed, panicked, cacheVars,
                 historyVars, localVars, program>>

NotifyWriteDone(c) ==
  /\ stage[c] = "notify"
  /\ made' = made + 1 /\ opDone' = made + 1
  /\ closed' = closed \union {channel[c]}
  /\ panicked' = (channel[c] \in closed)
  /\ Go(c, "done")
  /\ UNCHANGED <<cardVars, opMu, channel, cacheVars, historyVars, localVars, program>>

-----------------------------------------------------------------------------
(* The overview cache.                                                     *)

\* invalidateOverviewCache: what a load finds on its return is refused.
Invalidated ==
  /\ generation' = generation + 1
  /\ cache' = NoSnapshot /\ stale' = FALSE

OpenWindow == window' = window + 1 /\ open' = TRUE
SameWindow == UNCHANGED <<window, open>>

\* triggerOverviewReload: one background load at a time.  The stages of the
\* caller c and of the reloader change together.
TriggerFrom(c, s) ==
  /\ reloading' = TRUE
  /\ stage' = IF reloading THEN [stage EXCEPT ![c] = s]
              ELSE [stage EXCEPT ![c] = s, ![Reloader] = "await"]

Trigger ==
  /\ reloading' = TRUE
  /\ stage' = IF reloading THEN stage ELSE [stage EXCEPT ![Reloader] = "await"]

Returned(p) ==
  IF p = Reloader THEN reloading' = FALSE ELSE UNCHANGED reloading

\* waitForOverviewReloadAllowed reads the end of the window once: a window that
\* begins while it sleeps does not prolong the sleep.
AwaitWindow(p) ==
  /\ stage[p] = "await"
  /\ gen' = [gen EXCEPT ![p] = window]
  /\ Go(p, IF Kind(p) = "refresh" /\ ~reloading THEN "sleepClear" ELSE "sleep")
  /\ UNCHANGED <<cardVars, lockVars, cacheVars, historyVars, held, baseline, own, blind, outcome,
                 program>>

WindowOver(p) ==
  /\ stage[p] \in {"sleep", "sleepClear"}
  /\ ~open \/ window > gen[p]
  /\ Go(p, IF stage[p] = "sleepClear" THEN "clear" ELSE "look")
  /\ UNCHANGED <<cardVars, lockVars, cacheVars, historyVars, localVars, program>>

WindowEnds ==
  /\ open /\ open' = FALSE
  /\ UNCHANGED <<cardVars, lockVars, cache, generation, reloading, window, stale,
                 historyVars, localVars, stage, program>>

\* RefreshOverview empties the cache, unless a reload was under way before or
\* after its wait.
ClearForRefresh(c) ==
  /\ stage[c] = "clear"
  /\ IF reloading THEN UNCHANGED <<generation, cache, stale>> ELSE Invalidated
  /\ Go(c, "look")
  /\ UNCHANGED <<cardVars, lockVars, reloading, window, open, historyVars, localVars,
                 program>>

\* loadOverview: the cache, or one load per generation.
Look(p) ==
  /\ stage[p] = "look"
  /\ IF cache # NoSnapshot
       THEN Go(p, "done") /\ Returned(p) /\ UNCHANGED gen
       ELSE /\ gen' = [gen EXCEPT ![p] = generation]
            /\ Go(p, "lead") /\ UNCHANGED reloading
  /\ UNCHANGED <<cardVars, lockVars, cache, generation, window, open, stale,
                 historyVars, held, baseline, own, blind, outcome, program>>

LoadStages == {"try", "peeked", "wait", "asleep", "scan", "store"}
Loads(p, g) == Kind(p) # "list" /\ Kind(p) # "profiles"
               /\ stage[p] \in LoadStages /\ gen[p] = g

Lead(p) ==
  /\ stage[p] = "lead"
  /\ IF \E q \in Procs \ {p} : Loads(q, gen[p])
       THEN Go(p, "joined") /\ UNCHANGED reloading
       ELSE IF cache # NoSnapshot
         THEN Go(p, "done") /\ Returned(p)
         ELSE Go(p, "try") /\ UNCHANGED reloading
  /\ UNCHANGED <<cardVars, lockVars, cache, generation, window, open, stale,
                 historyVars, localVars, program>>

\* The callers that share a flight return with it.
Joined(p) ==
  /\ stage[p] = "joined"
  /\ ~\E q \in Procs \ {p} : Loads(q, gen[p])
  /\ Go(p, "done") /\ Returned(p)
  /\ UNCHANGED <<cardVars, lockVars, cache, generation, window, open, stale,
                 historyVars, localVars, program>>

\* forEachEUICC: the lock is free, the arbiter idle, the profiles are listed.  An
\* eUICC whose profiles cannot be listed is taken for an empty one.
Scan(p) ==
  /\ stage[p] = "scan"
  /\ \/ held' = [held EXCEPT ![p] = card] /\ missed' = missed \ {p}
     \/ held' = [held EXCEPT ![p] = EmptyCard] /\ missed' = missed \union {p}
  /\ Go(p, "store")
  /\ UNCHANGED <<cardVars, lockVars, cacheVars, indications, gen, baseline, own, blind, outcome,
                 program>>

\* Mutant: a load stores what it found whatever was invalidated meanwhile.
StoreAnyGeneration(p) ==
  /\ stage[p] = "store"
  /\ cache' = held[p] /\ stale' = (p \in missed)
  /\ held' = [held EXCEPT ![p] = NoSnapshot]
  /\ missed' = missed \ {p}
  /\ Go(p, "done") /\ Returned(p)
  /\ UNCHANGED <<cardVars, lockVars, generation, window, open, indications,
                 gen, baseline, own, blind, outcome, program>>

\* setOverviewCache; RefreshProfiles compares no generation.
Store(p) ==
  /\ stage[p] = "store"
  /\ IF Kind(p) = "profiles" \/ gen[p] = generation
       THEN cache' = held[p] /\ stale' = (p \in missed)
       ELSE UNCHANGED <<cache, stale>>
  /\ held' = [held EXCEPT ![p] = NoSnapshot]
  /\ missed' = missed \ {p}
  /\ Go(p, "done") /\ Returned(p)
  /\ UNCHANGED <<cardVars, lockVars, generation, window, open, indications,
                 gen, baseline, own, blind, outcome, program>>

\* Mutant: the wait for the end of a write has no timer.
GiveUpWithoutTimer(p) ==
  /\ stage[p] = "scan"
  /\ UNCHANGED <<cache, stale>>
  /\ Go(p, "done") /\ Returned(p)
  /\ UNCHANGED <<cardVars, lockVars, generation, window, open, historyVars, localVars,
                 program>>

\* The wait for the lock, for the arbiter or for the card fails: a load stores
\* the error in place of the overview, a list or a refresh of profiles returns.
GiveUp(p) ==
  /\ stage[p] \in {"asleep", "scan"}
  /\ IF Kind(p) \notin {"list", "profiles"} /\ gen[p] = generation
       THEN cache' = NoSnapshot /\ stale' = FALSE
       ELSE UNCHANGED <<cache, stale>>
  /\ Go(p, "done") /\ Returned(p)
  /\ UNCHANGED <<cardVars, lockVars, generation, window, open, historyVars, localVars,
                 program>>

-----------------------------------------------------------------------------
(* Writes.                                                                 *)

\* A scan that has read and not stored misses what happens to the card now.  A
\* load is refused later if the write invalidates; confirmed says it will.
Overlaps(confirmed) ==
  missed' = missed \union { p \in Procs :
              stage[p] = "store" /\ (Kind(p) = "profiles" \/ ~confirmed) }

Notifies(event, p) ==
  \/ /\ pending' = pending \union {[seq |-> nextSeq, event |-> event, profile |-> p]}
     /\ nextSeq' = nextSeq + 1
  \/ UNCHANGED <<pending, nextSeq>>

\* Unknown AID, no channel, barrier not granted, refused by the card.
Fails(c) ==
  /\ stage[c] = "locked" /\ Kind(c) \in WriteKinds \ {"list"}
  /\ Go(c, "unlock")
  /\ IF Kind(c) = "switch" THEN OpenWindow \/ SameWindow ELSE SameWindow
  /\ IF Kind(c) = "download"
       THEN Invalidated \/ UNCHANGED <<generation, cache, stale>>
       ELSE UNCHANGED <<generation, cache, stale>>
  /\ UNCHANGED <<cardVars, lockVars, reloading, historyVars, localVars, program>>

\* The card did it, but the answer was lost: the call fails.
LostAnswer(c, changed) ==
  /\ card' = changed
  /\ Overlaps(FALSE) /\ stale' = (cache # NoSnapshot)
  /\ Go(c, "unlock")

\* client.EnableProfile under the barrier: it goes through, or ends with the
\* reset that is expected of it.
Switch(c) ==
  /\ stage[c] = "locked" /\ Kind(c) = "switch" /\ Target(c) \in card.installed
  /\ LET changed == [card EXCEPT !.active = Target(c)] IN
       \/ card' = changed /\ Overlaps(FALSE) /\ Go(c, "applied") /\ UNCHANGED stale
       \/ LostAnswer(c, changed)
  /\ OpenWindow /\ Notifies("enable", Target(c))
  /\ UNCHANGED <<sent, lockVars, cache, generation, reloading, indications, localVars,
                 program>>

\* patchCachedActiveProfile
PatchCachedActiveProfile(c) ==
  /\ stage[c] = "applied" /\ Kind(c) = "switch"
  /\ cache' = IF cache # NoSnapshot /\ Target(c) \in cache.installed
                THEN [cache EXCEPT !.active = Target(c)] ELSE cache
  /\ Go(c, "unlock")
  /\ UNCHANGED <<cardVars, lockVars, generation, reloading, window, open, stale,
                 historyVars, localVars, program>>

Disable(c) ==
  /\ stage[c] = "locked" /\ Kind(c) = "disable" /\ card.active = Target(c)
  /\ LET changed == [card EXCEPT !.active = NoProfile] IN
       \/ card' = changed /\ Overlaps(TRUE) /\ Go(c, "applied") /\ UNCHANGED stale
       \/ LostAnswer(c, changed)
  /\ Notifies("disable", Target(c))
  /\ UNCHANGED <<sent, lockVars, cache, generation, reloading, window, open, indications,
                 localVars, program>>

Rename(c) ==
  /\ stage[c] = "locked" /\ Kind(c) = "rename" /\ Target(c) \in card.installed
  /\ LET changed == [card EXCEPT !.renamed = @ \union {Target(c)}] IN
       \/ card' = changed /\ Overlaps(TRUE) /\ Go(c, "applied") /\ UNCHANGED stale
       \/ LostAnswer(c, changed)
  /\ UNCHANGED <<pending, nextSeq, sent, lockVars, cache, generation, reloading, window,
                 open, indications, localVars, program>>

\* maxNotificationSequence: the last number among the notifications listed.
IsLastSeq(s, events) ==
  /\ \A n \in pending : n.event \in events => n.seq <= s
  /\ s = 0 \/ \E n \in pending : n.event \in events /\ n.seq = s

\* The list before the write.  If it fails the write is not given up: what it leaves is
\* compared with 0.
ListBefore(c, events) ==
  /\ \E s \in 0..(nextSeq - 1) :
       IsLastSeq(s, events) /\ baseline' = [baseline EXCEPT ![c] = s]
  /\ UNCHANGED blind

ListFails(c) == blind' = blind \union {c} /\ UNCHANGED baseline

DeleteProfile(c) ==
  /\ stage[c] = "locked" /\ Kind(c) = "delete"
  /\ Target(c) \in card.installed /\ card.active # Target(c)
  /\ ListBefore(c, Events) \/ ListFails(c)
  /\ LET changed == [card EXCEPT !.installed = @ \ {Target(c)},
                                 !.renamed = @ \ {Target(c)}] IN
       \/ card' = changed /\ Overlaps(TRUE) /\ Go(c, "report") /\ UNCHANGED stale
       \/ LostAnswer(c, changed)
  /\ Notifies("delete", Target(c))
  /\ own' = [own EXCEPT ![c] = IF nextSeq' = nextSeq THEN 0 ELSE nextSeq]
  /\ UNCHANGED <<sent, lockVars, cache, generation, reloading, window, open, indications,
                 held, gen, outcome, program>>

\* downloadNotificationBaseline: the result of the installation may carry its sequence
\* number; if it does not, or the session ends in an error, the list before it decides, and
\* without that list an error is not recovered from.
DownloadProfile(c) ==
  /\ stage[c] = "locked" /\ Kind(c) = "download" /\ Target(c) \notin card.installed
  /\ card' = [card EXCEPT !.installed = @ \union {Target(c)}]
  /\ Overlaps(TRUE)
  /\ pending' = pending \union {[seq |-> nextSeq, event |-> "install", profile |-> Target(c)]}
  /\ nextSeq' = nextSeq + 1 /\ own' = [own EXCEPT ![c] = nextSeq]
  /\ \/ baseline' = [baseline EXCEPT ![c] = nextSeq - 1] /\ UNCHANGED blind /\ Go(c, "report")
     \/ (ListBefore(c, {"install"}) \/ ListFails(c)) /\ Go(c, "report")
     \/ ListBefore(c, {"install"}) /\ Go(c, "recover")
     \/ UNCHANGED <<baseline, blind>> /\ Go(c, "failed")
  /\ UNCHANGED <<sent, lockVars, cacheVars, indications, held, gen, outcome, program>>

\* Mutant: an earlier notification will do.
MatchesAnySeq(c, n) ==
  IF Kind(c) = "delete" THEN n.event = "delete" /\ n.profile = Target(c)
                        ELSE n.event = "install"

\* findMatchingDeleteNotification and findMatchingNotificationAfterSeq
Matches(c, n) ==
  /\ n.seq > baseline[c]
  /\ IF Kind(c) = "delete" THEN n.event = "delete" /\ n.profile = Target(c)
                           ELSE n.event = "install"

\* resolveDeleteNotificationResult, sendDownloadInstallNotification: the notification
\* found first in the card's list, whose order is the card's, is retrieved and handed to
\* the operator.  Each may fail; a failure is a warning, or the failure of a download that
\* was to be recovered.
Report(c) ==
  /\ stage[c] \in {"report", "recover"}
  /\ \/ \E n \in {m \in pending : Matches(c, m)} :
          /\ sent' = sent \union {n} /\ outcome' = [outcome EXCEPT ![c] = "sent"]
          /\ Go(c, "applied")
     \/ /\ \/ UNCHANGED sent
           \/ \E n \in {m \in pending : Matches(c, m)} : sent' = sent \union {n}
        /\ outcome' = [outcome EXCEPT ![c] = "warned"]
        /\ Go(c, IF stage[c] = "report" THEN "applied" ELSE "failed")
  /\ UNCHANGED <<card, pending, nextSeq, lockVars, cacheVars, historyVars, held, gen,
                 baseline, own, blind, program>>

\* What follows a disable, a rename, a delete or a download that went through.
FinishWrite(c) ==
  /\ stage[c] = "applied" /\ Kind(c) # "switch"
  /\ Invalidated
  /\ IF Kind(c) \in {"disable", "download"} THEN OpenWindow ELSE SameWindow
  /\ TriggerFrom(c, "unlock")
  /\ UNCHANGED <<cardVars, lockVars, historyVars, localVars, program>>

\* A download that failed after it reached the card empties the cache as well.
FailDownload(c) ==
  /\ stage[c] = "failed"
  /\ Invalidated /\ Go(c, "unlock")
  /\ UNCHANGED <<cardVars, lockVars, reloading, window, open, historyVars, localVars,
                 program>>

\* Mutant: a notification is removed although the operator did not get it.
CleanUnsent(c) ==
  /\ stage[c] = "locked" /\ Kind(c) = "list"
  /\ \E n \in {m \in pending : m.event \in {"enable", "disable"}} : pending' = pending \ {n}
  /\ UNCHANGED <<card, nextSeq, sent, lockVars, cacheVars, historyVars, localVars, stage,
                 program>>

\* autoCleanLoadedNotifications: handed to the operator first, removed then.
Clean(c) ==
  /\ stage[c] = "locked" /\ Kind(c) = "list"
  /\ \E n \in {m \in pending : m.event \in {"enable", "disable"}} :
       /\ sent' = sent \union {n}
       /\ pending' = pending \ {n} \/ UNCHANGED pending
       /\ <<sent', pending'>> # <<sent, pending>>
  /\ UNCHANGED <<card, nextSeq, lockVars, cacheVars, historyVars, localVars, stage,
                 program>>

Listed(c) ==
  /\ stage[c] = "locked" /\ Kind(c) = "list"
  /\ Go(c, "unlock")
  /\ UNCHANGED <<cardVars, lockVars, cacheVars, historyVars, localVars, program>>

\* RetryNotification
Resend(c) ==
  /\ stage[c] = "locked" /\ Kind(c) = "resend"
  /\ \E n \in pending : n.profile = Target(c) /\ sent' = sent \union {n}
  /\ Go(c, "unlock")
  /\ UNCHANGED <<card, pending, nextSeq, lockVars, cacheVars, historyVars, localVars,
                 program>>

-----------------------------------------------------------------------------
(* Reads, and what the modem reports.                                      *)

BeginRead(c) ==
  /\ stage[c] = "new" /\ Kind(c) \in ReadKinds \union {"list"}
  /\ Go(c, CASE Kind(c) = "read" -> "look" [] Kind(c) = "refresh" -> "await"
             [] OTHER -> "try")
  /\ UNCHANGED <<cardVars, lockVars, cacheVars, historyVars, localVars, program>>

\* NotifyUIMIndication: ignored in a switch window.
NotifyUIMIndication ==
  /\ indications < MaxIndications /\ indications' = indications + 1
  /\ ~open
  /\ Invalidated /\ Trigger
  /\ UNCHANGED <<cardVars, lockVars, window, open, missed, localVars, program>>

\* NotifyModemReset, NotifyModemResetDelayed: the cache goes in any case.
NotifyModemReset ==
  /\ indications < MaxIndications /\ indications' = indications + 1
  /\ Invalidated
  /\ IF open THEN UNCHANGED <<reloading, stage>> /\ SameWindow
             ELSE Trigger /\ (OpenWindow \/ SameWindow)
  /\ UNCHANGED <<cardVars, lockVars, missed, localVars, program>>

LockStep(p) == TryLock(p) \/ Unpeek(p) \/ LoadChannel(p) \/ Wake(p)
LoadStep(p) == AwaitWindow(p) \/ WindowOver(p) \/ Look(p) \/ Lead(p) \/ Joined(p)
               \/ Scan(p) \/ Store(p) \/ GiveUp(p)
WriteStep(c) ==
  \/ Lock(c) \/ Unlock(c) \/ ReadDone(c) \/ NotifyWriteDone(c)
  \/ Fails(c) \/ Switch(c) \/ PatchCachedActiveProfile(c) \/ Disable(c) \/ Rename(c)
  \/ DeleteProfile(c) \/ DownloadProfile(c) \/ Report(c) \/ FinishWrite(c)
  \/ FailDownload(c) \/ Clean(c) \/ Listed(c) \/ Resend(c)
CallStep(c) == BeginRead(c) \/ ClearForRefresh(c) \/ WriteStep(c)
Step(p) == ~panicked /\ (LockStep(p) \/ LoadStep(p) \/ (p \in Calls /\ CallStep(p)))

Next ==
  \/ \E p \in Procs : Step(p)
  \/ ~panicked /\ (WindowEnds \/ NotifyUIMIndication \/ NotifyModemReset)

Spec == Init /\ [][Next]_vars

\* Goroutines run on, the card and the operator answer or time out, and the
\* windows are timers.
Fairness ==
  /\ \A p \in Procs : WF_vars(Step(p))
  /\ WF_vars(~panicked /\ WindowEnds)

FairSpec == Spec /\ Fairness

-----------------------------------------------------------------------------
Stages ==
  {"new", "try", "wait", "asleep", "peeked", "scan", "store", "await", "sleep",
   "sleepClear", "clear", "look", "lead", "joined", "locked", "applied", "report",
   "recover", "failed", "unlock", "unlocked", "notify", "done"}

Inside == {"locked", "applied", "report", "recover", "failed", "unlock"}

CardTypes ==
  /\ card \in Snapshots /\ pending \subseteq Notification /\ sent \subseteq Notification
  /\ nextSeq \in Nat \ {0} /\ \A n \in pending \union sent : n.seq < nextSeq

\* The lock is held by the one writer inside, or by a reader that looks whether it is free.
LockTypes ==
  /\ opMu \in Procs \union {NoCall}
  /\ \A p \in Procs : stage[p] \in Inside \union {"peeked"} <=> opMu = p
  /\ made \in Nat /\ opDone \in 0..made /\ closed \subseteq 0..made
  /\ channel \in [Procs -> 0..made] /\ panicked \in BOOLEAN

CacheTypes ==
  /\ cache \in Snapshots \union {NoSnapshot} /\ generation \in Nat /\ stale \in BOOLEAN
  /\ window \in Nat /\ open \in BOOLEAN
  /\ indications \in 0..MaxIndications /\ missed \subseteq Procs

CallTypes ==
  /\ program \in Programs /\ stage \in [Procs -> Stages]
  /\ held \in [Procs -> Snapshots \union {NoSnapshot}]
  /\ \A p \in Procs : held[p] # NoSnapshot <=> stage[p] = "store"
  /\ gen \in [Procs -> Nat] /\ baseline \in [Calls -> Nat]
  /\ own \in [Calls -> Nat] /\ blind \subseteq Calls
  /\ outcome \in [Calls -> {"none", "sent", "warned"}]
  /\ reloading \in BOOLEAN /\ (reloading <=> stage[Reloader] # "done")

\* The fields are what the stages say.
TypeOK == CardTypes /\ LockTypes /\ CacheTypes /\ CallTypes

(* What the cache shows is what the card holds, except while a write is on its way
   from the card to the cache, and unless the cache was filled by a scan that saw
   less than the card or that a switch overlapped, or a write failed after the card
   had obeyed: those are the ways into a stale overview, and an invalidation is the
   way out of it. *)
CacheTruthful ==
  (cache # NoSnapshot /\ ~stale
   /\ \A c \in Calls : stage[c] \notin {"applied", "report", "recover", "failed"})
  => cache = card

\* Type correctness with what the cache tells.
Consistent == TypeOK /\ CacheTruthful

(* No notification is lost: it is on the card until the operator has it.  And a write
   that returns without a warning has reported itself and not an earlier write, unless it
   could not list the notifications beforehand (and the card did not give its own number):
   then all that is known is that one of its kind was reported. *)
OperatorInformed ==
  /\ \A s \in 1..(nextSeq - 1) : \E n \in pending \union sent : n.seq = s
  /\ \A c \in Calls : outcome[c] = "sent" =>
       \E n \in sent : /\ n.event = IF Kind(c) = "delete" THEN "delete" ELSE "install"
                       /\ c \notin blind => n.seq = own[c] /\ n.profile = Target(c)

(* Every call returns, whatever is lost between readers and writers: a reader that
   sleeps beside a free lock has its timer.  A channel closed twice ends the program. *)
Returns == []<>(panicked \/ \A p \in Procs : stage[p] = "done")
=============================================================================
