------------------------ MODULE EsimOperationsProofs ------------------------
(***************************************************************************)
(* Proofs about EsimOperations, for every set of calls, every mix of what  *)
(* they do and every bound: the overview cache tells what the card holds,  *)
(* and the operator hears of every operation.                              *)
(***************************************************************************)
EXTENDS EsimOperations, TLAPS

\* A write that has reached the card and has not told the cache yet.
Writing(c) == stage[c] \in {"applied", "report", "recover", "failed"}

\* It will invalidate the cache, as a switch does not.
Confirmed(c) == Writing(c) /\ Kind(c) # "switch"

\* A load is never ahead of the generation, so an invalidation refuses it.
Behind ==
  \A p \in Procs :
    stage[p] \in LoadStages \union {"new", "lead", "joined"} => gen[p] <= generation

\* What a scan holds is the card, if it may be stored, or it will be refused.
Fresh ==
  \A p \in Procs : stage[p] = "store" /\ p \notin missed =>
    /\ Kind(p) = "profiles" => held[p] = card
    /\ gen[p] = generation => held[p] = card \/ \E c \in Calls : Confirmed(c)

\* A switch on its way to the cache is all that tells it from the card, unless it will be
\* emptied.
SwitchApplied(c) ==
  /\ stage[c] = "applied" /\ Kind(c) = "switch"
  /\ cache.installed = card.installed /\ cache.renamed = card.renamed

Cached ==
  /\ \A c \in Calls : stage[c] = "applied" /\ Kind(c) = "switch" => card.active = Target(c)
  /\ cache # NoSnapshot /\ ~stale =>
       cache = card \/ \E c \in Calls : Confirmed(c) \/ SwitchApplied(c)

\* No notification is lost.
Numbered == \A s \in 1..(nextSeq - 1) : \E n \in pending \union sent : n.seq = s

\* What is after the baseline of a deletion or download and fits it is its own, because
\* nobody else has written anything since it listed the notifications.
Own ==
  \A c \in Calls : stage[c] \in {"report", "recover"} =>
    /\ Kind(c) \in {"delete", "download"}
    /\ c \notin blind =>
         \A n \in pending : Matches(c, n) => n.seq = own[c] /\ n.profile = Target(c)

\* What a write has reported is of the write, and it goes on from there to its end.
Left == {"unlock", "unlocked", "notify", "done"}
Told ==
  \A c \in Calls : outcome[c] = "sent" =>
    /\ stage[c] \in Left \union {"applied"}
    /\ \E n \in sent : /\ n.event = IF Kind(c) = "delete" THEN "delete" ELSE "install"
                       /\ c \notin blind => n.seq = own[c] /\ n.profile = Target(c)

Sound == Behind /\ Fresh /\ Cached /\ Numbered /\ Own /\ Told
Inv == TypeOK /\ Sound

-----------------------------------------------------------------------------
Written == {"applied", "report", "recover", "failed"}
Early == LoadStages \union {"new", "lead", "joined"}

\* What the constants are.
LEMMA Constants ==
  /\ Reloader \notin Calls /\ Calls \subseteq Procs /\ Reloader \in Procs /\ NoCall \notin Procs
  /\ \A p \in Procs : p \in Calls \/ p = Reloader
  /\ NoProfile \notin Profiles /\ NoSnapshot \notin Snapshots /\ MaxIndications \in Nat
BY NullAssumption, BoundAssumption, NoSnapshotAssumption DEF Procs

\* What a call asks for.
LEMMA Asked ==
  ASSUME Inv, NEW c \in Calls
  PROVE  /\ Kind(c) \in (WriteKinds \union ReadKinds) \ {"reload"} /\ Target(c) \in Profiles
         /\ program' = program => Kind(c)' = Kind(c) /\ Target(c)' = Target(c)
BY Constants, ProgramAssumption DEF Inv, TypeOK, CallTypes, Kind, Target

\* The empty card is a snapshot, and so is the card after each write.
LEMMA SnapshotMade ==
  ASSUME NEW s \in Snapshots, NEW a \in s.installed \union {NoProfile}
  PROVE  /\ EmptyCard \in Snapshots
         /\ s.installed \subseteq Profiles /\ s.renamed \subseteq s.installed
         /\ s.active \in s.installed \union {NoProfile}
         /\ [s EXCEPT !.active = a] \in Snapshots
BY DEF Snapshots, EmptyCard

\* A goroutine moves to a stage, and no other.
LEMMA Moved ==
  ASSUME Inv, NEW p \in Procs, NEW s \in Stages, Go(p, s)
  PROVE  /\ stage' \in [Procs -> Stages] /\ stage'[p] = s
         /\ \A q \in Procs \ {p} : stage'[q] = stage[q]
BY DEF Inv, TypeOK, CallTypes, Go

\* What a step leaves of the invariant that puts nothing on the card and stores nothing: the
\* cache stays, or is emptied.
LEMMA SoundPassed ==
  ASSUME Inv, UNCHANGED <<card, nextSeq, held, baseline, own, blind, outcome, program>>,
         missed \subseteq missed', gen' \in [Procs -> Nat],
         sent \subseteq sent', pending' \subseteq pending, pending \subseteq pending' \union sent',
         \A q \in Procs : stage'[q] = "store" => stage[q] = "store" /\ gen'[q] = gen[q],
         \A q \in Procs : stage'[q] \in Early =>
           gen'[q] <= generation \/ (gen'[q] = gen[q] /\ stage[q] \in Early),
         \A c \in Calls : stage'[c] \in Written => stage'[c] = stage[c],
         \A c \in Calls : stage[c] \in Left \union {"applied"} =>
           stage'[c] \in Left \union {"applied"},
         \/ Invalidated
         \/ /\ generation' = generation
            /\ cache' = NoSnapshot \/ UNCHANGED <<cache, stale>>
            /\ \A c \in Calls : stage[c] \in Written => stage'[c] = stage[c]
  PROVE  Sound'
<1>1. generation \in Nat /\ gen \in [Procs -> Nat] /\ generation' \in {generation, generation + 1}
  BY DEF Inv, TypeOK, CacheTypes, CallTypes, Invalidated
<1>2. \A c \in Calls : /\ Kind(c)' = Kind(c) /\ Target(c)' = Target(c) /\ c \in Procs
  BY Asked, Constants
<1>3. \A q \in Procs : Kind(q)' = Kind(q)
  BY DEF Kind
<1>4. Behind'
  BY <1>1 DEF Inv, Sound, Behind, Early
<1>5. Fresh'
  <2> SUFFICES ASSUME NEW p \in Procs, stage'[p] = "store", p \notin missed'
               PROVE  /\ Kind(p)' = "profiles" => held[p] = card
                      /\ gen'[p] = generation' => held[p] = card \/ \E c \in Calls : Confirmed(c)'
    BY DEF Fresh
  <2>1. /\ stage[p] = "store" /\ p \notin missed /\ gen'[p] = gen[p] /\ gen[p] <= generation
    BY DEF Inv, Sound, Behind, LoadStages
  <2>2. /\ Kind(p) = "profiles" => held[p] = card
        /\ gen[p] = generation => held[p] = card \/ \E c \in Calls : Confirmed(c)
    BY <2>1 DEF Inv, Sound, Fresh
  <2>3. gen'[p] = generation' =>
          generation' = generation /\ \A c \in Calls : stage[c] \in Written => stage'[c] = stage[c]
    BY <1>1, <2>1 DEF Invalidated
  <2>4. QED
    BY <1>2, <1>3, <2>1, <2>2, <2>3 DEF Confirmed, Writing, Written
<1>6. Cached'
  <2>1. \A c \in Calls : stage'[c] = "applied" /\ Kind(c)' = "switch" => card'.active = Target(c)'
    BY <1>2 DEF Inv, Sound, Cached, Written
  <2>2. CASE cache' = NoSnapshot
    BY <2>1, <2>2 DEF Cached
  <2>3. CASE cache' # NoSnapshot
    <3>1. /\ UNCHANGED <<cache, stale>>
          /\ \A c \in Calls : stage[c] \in Written => stage'[c] = stage[c]
      BY <2>3 DEF Invalidated
    <3>2. \A c \in Calls : /\ Confirmed(c) => Confirmed(c)'
                           /\ SwitchApplied(c) => SwitchApplied(c)'
      BY <1>2, <3>1 DEF Confirmed, Writing, Written, SwitchApplied
    <3>3. cache # NoSnapshot /\ ~stale =>
            cache = card \/ \E c \in Calls : Confirmed(c) \/ SwitchApplied(c)
      BY DEF Inv, Sound, Cached
    <3>4. QED
      BY <2>1, <3>1, <3>2, <3>3 DEF Cached
  <2>4. QED
    BY <2>2, <2>3
<1>7. Numbered'
  BY DEF Inv, Sound, Numbered
<1>8. Own'
  <2> SUFFICES ASSUME NEW c \in Calls, stage'[c] \in {"report", "recover"}
               PROVE  /\ Kind(c) \in {"delete", "download"}
                      /\ c \notin blind =>
                           \A n \in pending' : Matches(c, n) =>
                                                 n.seq = own[c] /\ n.profile = Target(c)
    BY <1>2 DEF Own, Matches
  <2>1. stage[c] \in {"report", "recover"}
    BY DEF Written
  <2>2. QED
    BY <2>1 DEF Inv, Sound, Own
<1>9. Told'
  BY <1>2 DEF Inv, Sound, Told
<1>10. QED
  BY <1>4, <1>5, <1>6, <1>7, <1>8, <1>9 DEF Sound

-----------------------------------------------------------------------------
\* The lock after a step that leaves it, as far as the stages tell.
LEMMA LockKept ==
  ASSUME Inv, UNCHANGED <<opMu, opDone, made, closed, panicked>>, channel' \in [Procs -> 0..made],
         \A q \in Procs : stage'[q] \in Inside \union {"peeked"} <=>
                          stage[q] \in Inside \union {"peeked"}
  PROVE  LockTypes'
BY DEF Inv, TypeOK, LockTypes

\* The records of the calls, after a step that leaves what they hold and ask for.
LEMMA CallsKept ==
  ASSUME Inv, UNCHANGED <<program, held, baseline, own, blind, outcome>>,
         stage' \in [Procs -> Stages], gen' \in [Procs -> Nat], reloading' \in BOOLEAN,
         \A q \in Procs : stage'[q] = "store" <=> stage[q] = "store",
         reloading' <=> stage'[Reloader] # "done"
  PROVE  CallTypes'
BY DEF Inv, TypeOK, CallTypes

\* A step of one goroutine that leaves card, lock and cache alone.
LEMMA InvGo ==
  ASSUME Inv, NEW p \in Procs, NEW s \in Stages, Go(p, s),
         UNCHANGED <<cardVars, opMu, opDone, made, closed, panicked, generation, window, open,
                     historyVars, held, baseline, own, blind, outcome, program>>,
         channel' \in [Procs -> 0..made],
         cache' = NoSnapshot \/ cache' = cache, stale' = stale \/ cache' = NoSnapshot,
         stale' \in BOOLEAN,
         gen' \in [Procs -> Nat], \A q \in Procs \ {p} : gen'[q] = gen[q],
         {stage[p], s} \intersect (Written \union {"store"}) = {},
         stage[p] \in Inside \union {"peeked"} <=> s \in Inside \union {"peeked"},
         stage[p] \in Left => s \in Left,
         s \in Early => gen'[p] <= generation \/ (gen'[p] = gen[p] /\ stage[p] \in Early),
         IF s = "done" THEN Returned(p) ELSE UNCHANGED reloading,
         stage[p] # "done"
  PROVE  Inv'
<1>1. /\ stage' \in [Procs -> Stages] /\ stage'[p] = s
      /\ \A q \in Procs \ {p} : stage'[q] = stage[q]
  BY Moved
<1>2. LockTypes'
  BY <1>1, LockKept
<1>3. reloading' \in BOOLEAN /\ (reloading' <=> stage'[Reloader] # "done")
  BY <1>1, Constants DEF Inv, TypeOK, CallTypes, Returned
<1>4. CallTypes'
  BY <1>1, <1>3, CallsKept
<1>5. CardTypes' /\ CacheTypes'
  BY DEF Inv, TypeOK, CardTypes, CacheTypes, cardVars, historyVars
<1>6. /\ UNCHANGED <<card, nextSeq, held, baseline, own, blind, outcome, program>>
      /\ generation' = generation
      /\ missed \subseteq missed' /\ sent \subseteq sent' /\ pending' \subseteq pending
      /\ pending \subseteq pending' \union sent'
      /\ cache' = NoSnapshot \/ UNCHANGED <<cache, stale>>
  BY DEF cardVars, historyVars
<1>7. /\ \A q \in Procs : stage'[q] = "store" => stage[q] = "store" /\ gen'[q] = gen[q]
      /\ \A q \in Procs : stage'[q] \in Early =>
           gen'[q] <= generation \/ (gen'[q] = gen[q] /\ stage[q] \in Early)
  BY <1>1
<1>8. /\ \A c \in Calls : stage'[c] \in Written => stage'[c] = stage[c]
      /\ \A c \in Calls : stage[c] \in Written => stage'[c] = stage[c]
      /\ \A c \in Calls : stage[c] \in Left \union {"applied"} =>
           stage'[c] \in Left \union {"applied"}
  BY <1>1, Constants DEF Written
<1>9. Sound'
  BY <1>6, <1>7, <1>8, SoundPassed
<1>10. QED
  BY <1>2, <1>4, <1>5, <1>9 DEF Inv, TypeOK

\* The lock is taken or given up.
LEMMA InvLock ==
  ASSUME Inv, NEW p \in Procs, NEW s \in Stages, Go(p, s),
         UNCHANGED <<cardVars, opDone, made, closed, channel, panicked, cacheVars, historyVars,
                     localVars, program>>,
         \/ opMu = NoCall /\ opMu' = p /\ s \in {"locked", "peeked"}
         \/ opMu = p /\ opMu' = NoCall /\ s \notin Inside \union {"peeked"},
         {stage[p], s} \intersect (Written \union {"store", "done"}) = {},
         stage[p] \in Left => s \in Left, s \in Early => stage[p] \in Early
  PROVE  Inv'
<1>1. /\ stage' \in [Procs -> Stages] /\ stage'[p] = s
      /\ \A q \in Procs \ {p} : stage'[q] = stage[q]
  BY Moved
<1>2. LockTypes'
  BY <1>1, Constants DEF Inv, TypeOK, LockTypes, Inside
<1>3. reloading' \in BOOLEAN /\ (reloading' <=> stage'[Reloader] # "done")
  BY <1>1, Constants DEF Inv, TypeOK, CallTypes, cacheVars
<1>4. CallTypes'
  BY <1>1, <1>3, CallsKept DEF localVars, Inv, TypeOK, CallTypes
<1>5. CardTypes' /\ CacheTypes'
  BY DEF Inv, TypeOK, CardTypes, CacheTypes, cardVars, cacheVars, historyVars
<1>6. /\ UNCHANGED <<card, nextSeq, held, baseline, own, blind, outcome, program>>
      /\ generation' = generation
      /\ missed \subseteq missed' /\ sent \subseteq sent' /\ pending' \subseteq pending
      /\ pending \subseteq pending' \union sent' /\ UNCHANGED <<cache, stale>>
      /\ gen' = gen /\ gen' \in [Procs -> Nat]
  BY DEF cardVars, historyVars, cacheVars, localVars, Inv, TypeOK, CallTypes
<1>7. /\ \A q \in Procs : stage'[q] = "store" => stage[q] = "store" /\ gen'[q] = gen[q]
      /\ \A q \in Procs : stage'[q] \in Early =>
           gen'[q] <= generation \/ (gen'[q] = gen[q] /\ stage[q] \in Early)
  BY <1>1, <1>6
<1>8. /\ \A c \in Calls : stage'[c] \in Written => stage'[c] = stage[c]
      /\ \A c \in Calls : stage[c] \in Written => stage'[c] = stage[c]
      /\ \A c \in Calls : stage[c] \in Left \union {"applied"} =>
           stage'[c] \in Left \union {"applied"}
  BY <1>1, Constants DEF Written
<1>9. Sound'
  BY <1>6, <1>7, <1>8, SoundPassed
<1>10. QED
  BY <1>2, <1>4, <1>5, <1>9 DEF Inv, TypeOK

\* The steps of the lock and of the channel that tells of it.
LEMMA InvLockStep ==
  ASSUME Inv, NEW p \in Procs, LockStep(p) \/ (p \in Calls /\ (Lock(p) \/ Unlock(p) \/ ReadDone(p)))
  PROVE  Inv'
<1> USE DEF Stages, Written, Left, Early, LoadStages, Inside
<1>1. /\ opMu \in Procs \union {NoCall} /\ opDone \in 0..made /\ channel \in [Procs -> 0..made]
      /\ gen \in [Procs -> Nat] /\ stale \in BOOLEAN
      /\ (stage[p] \in Inside \union {"peeked"} => opMu = p)
  BY DEF Inv, TypeOK, LockTypes, CallTypes, CacheTypes
<1>2. CASE Lock(p)
  BY <1>1, <1>2, InvLock DEF Lock
<1>3. CASE Unlock(p)
  BY <1>1, <1>3, InvLock DEF Unlock
<1>4. CASE Unpeek(p)
  BY <1>1, <1>4, InvLock DEF Unpeek
<1>5. CASE TryLock(p)
  <2>1. CASE opMu = NoCall
    BY <1>1, <1>5, <2>1, InvLock DEF TryLock
  <2>2. CASE opMu # NoCall
    BY <1>1, <1>5, <2>2, InvGo DEF TryLock, cacheVars, localVars
  <2>3. QED
    BY <2>1, <2>2
<1>6. CASE LoadChannel(p)
  BY <1>1, <1>6, InvGo DEF LoadChannel, cacheVars, localVars
<1>7. CASE Wake(p)
  BY <1>1, <1>7, InvGo DEF Wake, cacheVars, localVars, lockVars
<1>8. CASE ReadDone(p)
  BY <1>1, <1>8, InvGo DEF ReadDone, cacheVars, localVars
<1>9. QED
  BY <1>2, <1>3, <1>4, <1>5, <1>6, <1>7, <1>8 DEF LockStep

\* A channel is closed and another made: who sleeps on the first will wake.
LEMMA InvNotifyWriteDone ==
  ASSUME Inv, NEW c \in Calls, NotifyWriteDone(c)
  PROVE  Inv'
<1> USE DEF Stages, Written, Left, Early, LoadStages, Inside
<1>1. /\ stage[c] = "notify" /\ Go(c, "done") /\ c \in Procs /\ c # Reloader
      /\ UNCHANGED <<cardVars, opMu, channel, cacheVars, historyVars, localVars, program>>
      /\ made' = made + 1 /\ opDone' = made + 1 /\ panicked' \in BOOLEAN
      /\ closed' = closed \union {channel[c]}
  BY Constants DEF NotifyWriteDone
<1>2. /\ stage' \in [Procs -> Stages] /\ stage'[c] = "done"
      /\ \A q \in Procs \ {c} : stage'[q] = stage[q]
  BY <1>1, Moved
<1>3. LockTypes'
  <2>1. /\ made \in Nat /\ opDone \in 0..made /\ closed \subseteq 0..made
        /\ channel \in [Procs -> 0..made] /\ 0..made \subseteq 0..made'
    BY <1>1 DEF Inv, TypeOK, LockTypes
  <2>2. channel' \in [Procs -> 0..made'] /\ closed' \subseteq 0..made'
    BY <1>1, <2>1
  <2>3. QED
    BY <1>1, <1>2, <2>1, <2>2 DEF Inv, TypeOK, LockTypes
<1>4. CallTypes'
  BY <1>1, <1>2, CallsKept, Constants DEF cacheVars, localVars, Inv, TypeOK, CallTypes
<1>5. CardTypes' /\ CacheTypes'
  BY <1>1 DEF Inv, TypeOK, CardTypes, CacheTypes, cardVars, cacheVars, historyVars
<1>6. Sound'
  BY <1>1, <1>2, SoundPassed, Constants
     DEF cardVars, cacheVars, historyVars, localVars, Inv, TypeOK, CallTypes
<1>7. QED
  BY <1>3, <1>4, <1>5, <1>6 DEF Inv, TypeOK

-----------------------------------------------------------------------------
\* The steps of a load that find or wait, and those that give up: the cache stays or is emptied.
LEMMA InvLoadStep ==
  ASSUME Inv, NEW p \in Procs,
         \/ AwaitWindow(p) \/ WindowOver(p) \/ Look(p) \/ Lead(p) \/ Joined(p) \/ GiveUp(p)
  PROVE  Inv'
<1> USE DEF Stages, Written, Left, Early, LoadStages, Inside
<1>1. /\ gen \in [Procs -> Nat] /\ stale \in BOOLEAN /\ window \in Nat /\ generation \in Nat
      /\ channel \in [Procs -> 0..made]
  BY DEF Inv, TypeOK, LockTypes, CallTypes, CacheTypes
<1>2. CASE AwaitWindow(p)
  <2>1. gen' \in [Procs -> Nat] /\ \A q \in Procs \ {p} : gen'[q] = gen[q]
    BY <1>1, <1>2 DEF AwaitWindow
  <2>2. PICK s \in {"sleepClear", "sleep"} : Go(p, s)
    BY <1>2 DEF AwaitWindow
  <2>3. QED
    BY <1>1, <1>2, <2>1, <2>2, InvGo DEF AwaitWindow, lockVars, cacheVars
<1>3. CASE WindowOver(p)
  <2>1. PICK s \in {"clear", "look"} : Go(p, s)
    BY <1>3 DEF WindowOver
  <2>2. QED
    BY <1>1, <1>3, <2>1, InvGo DEF WindowOver, lockVars, cacheVars, localVars
<1>4. CASE Look(p)
  <2>1. CASE cache # NoSnapshot
    BY <1>1, <1>4, <2>1, InvGo DEF Look, lockVars
  <2>2. CASE cache = NoSnapshot
    <3>1. gen' \in [Procs -> Nat] /\ gen'[p] = generation /\ \A q \in Procs \ {p} : gen'[q] = gen[q]
      BY <1>1, <1>4, <2>2 DEF Look
    <3>2. QED
      BY <1>1, <1>4, <2>2, <3>1, InvGo DEF Look, lockVars
  <2>3. QED
    BY <2>1, <2>2
<1>5. CASE Lead(p)
  <2>1. PICK s \in {"joined", "done", "try"} :
          Go(p, s) /\ IF s = "done" THEN Returned(p) ELSE UNCHANGED reloading
    BY <1>5 DEF Lead
  <2>2. QED
    BY <1>1, <1>5, <2>1, InvGo DEF Lead, lockVars, localVars
<1>6. CASE Joined(p)
  BY <1>1, <1>6, InvGo DEF Joined, lockVars, localVars
<1>7. CASE GiveUp(p)
  BY <1>1, <1>7, InvGo DEF GiveUp, lockVars, localVars
<1>8. QED
  BY <1>2, <1>3, <1>4, <1>5, <1>6, <1>7

\* Calls that begin, fail before they reach the card, or list the notifications.
LEMMA InvCallStep ==
  ASSUME Inv, NEW c \in Calls, BeginRead(c) \/ Listed(c)
  PROVE  Inv'
<1> USE DEF Stages, Written, Left, Early, LoadStages, Inside
<1>1. /\ gen \in [Procs -> Nat] /\ stale \in BOOLEAN /\ channel \in [Procs -> 0..made]
      /\ c \in Procs
  BY Constants DEF Inv, TypeOK, LockTypes, CallTypes, CacheTypes
<1>2. CASE BeginRead(c)
  <2>1. PICK s \in {"look", "await", "try"} : Go(c, s)
    BY <1>2 DEF BeginRead
  <2>2. QED
    BY <1>1, <1>2, <2>1, InvGo DEF BeginRead, lockVars, cacheVars, localVars
<1>3. CASE Listed(c)
  BY <1>1, <1>3, InvGo DEF Listed, lockVars, cacheVars, localVars
<1>4. QED
  BY <1>2, <1>3

\* The window of a switch ends.
LEMMA InvWindowEnds ==
  ASSUME Inv, WindowEnds
  PROVE  Inv'
<1>1. UNCHANGED <<cardVars, lockVars, cache, generation, reloading, window, stale, historyVars,
                  localVars, stage, program>> /\ open' = FALSE
  BY DEF WindowEnds
<1>2. LockTypes' /\ CallTypes'
  BY <1>1 DEF Inv, TypeOK, LockTypes, CallTypes, lockVars, localVars
<1>3. CardTypes' /\ CacheTypes'
  BY <1>1 DEF Inv, TypeOK, CardTypes, CacheTypes, cardVars, historyVars
<1>4. Sound'
  BY <1>1, SoundPassed, Constants DEF cardVars, historyVars, localVars, Inv, TypeOK, CallTypes
<1>5. QED
  BY <1>2, <1>3, <1>4 DEF Inv, TypeOK

-----------------------------------------------------------------------------
\* A step that empties the cache for good: no load under way may fill it.
LEMMA InvInvalidated ==
  ASSUME Inv, Invalidated,
         UNCHANGED <<cardVars, lockVars, missed, localVars, program>>,
         indications' \in 0..MaxIndications, window' \in Nat, open' \in BOOLEAN,
         stage' \in [Procs -> Stages], reloading' \in BOOLEAN,
         reloading' <=> stage'[Reloader] # "done",
         \A q \in Procs : stage'[q] = "store" <=> stage[q] = "store",
         \A q \in Procs : stage'[q] \in Early => stage[q] \in Early,
         \A q \in Procs : stage'[q] \in Inside \union {"peeked"} <=>
                          stage[q] \in Inside \union {"peeked"},
         \A c \in Calls : stage'[c] \in Written => stage'[c] = stage[c],
         \A c \in Calls : stage[c] \in Left \union {"applied"} =>
           stage'[c] \in Left \union {"applied"}
  PROVE  Inv'
<1>1. LockTypes'
  BY LockKept DEF lockVars, Inv, TypeOK, LockTypes
<1>2. CallTypes'
  BY CallsKept DEF localVars, Inv, TypeOK, CallTypes
<1>3. CardTypes' /\ CacheTypes'
  <2>1. CardTypes'
    BY DEF Inv, TypeOK, CardTypes, cardVars
  <2>2. generation' \in Nat
    BY DEF Inv, TypeOK, CacheTypes, Invalidated
  <2>3. cache' \in Snapshots \union {NoSnapshot} /\ stale' \in BOOLEAN /\ missed' \subseteq Procs
    BY Zenon DEF Inv, TypeOK, CacheTypes, Invalidated
  <2>4. QED
    BY <2>1, <2>2, <2>3 DEF CacheTypes
<1>4. Sound'
  BY SoundPassed DEF cardVars, localVars, Inv, TypeOK, CallTypes
<1>5. QED
  BY <1>1, <1>2, <1>3, <1>4 DEF Inv, TypeOK

\* A report of the modem moves the reloader at most.
LEMMA TriggerMoves ==
  ASSUME Inv, Trigger
  PROVE  /\ stage' \in [Procs -> Stages] /\ reloading' \in BOOLEAN
         /\ reloading' <=> stage'[Reloader] # "done"
         /\ \A q \in Calls : stage'[q] = stage[q]
         /\ \/ stage'[Reloader] = stage[Reloader]
            \/ (stage[Reloader] = "done" /\ stage'[Reloader] = "await")
BY Constants DEF Inv, TypeOK, CallTypes, Trigger, Stages

\* The same for a write that asks for a reload as it ends.
LEMMA TriggerFromMoves ==
  ASSUME Inv, NEW c \in Calls, NEW s \in Stages, TriggerFrom(c, s)
  PROVE  /\ stage' \in [Procs -> Stages] /\ reloading' \in BOOLEAN
         /\ reloading' <=> stage'[Reloader] # "done"
         /\ stage'[c] = s /\ \A q \in Calls \ {c} : stage'[q] = stage[q]
         /\ \/ stage'[Reloader] = stage[Reloader]
            \/ (stage[Reloader] = "done" /\ stage'[Reloader] = "await")
BY Constants DEF Inv, TypeOK, CallTypes, TriggerFrom, Stages

\* The windows are counted.
LEMMA WindowTyped ==
  ASSUME Inv, OpenWindow \/ SameWindow
  PROVE  window' \in Nat /\ open' \in BOOLEAN
<1>1. window \in Nat /\ open \in BOOLEAN
  BY DEF Inv, TypeOK, CacheTypes
<1>2. window' \in Nat
  BY <1>1 DEF OpenWindow, SameWindow
<1>3. open' \in BOOLEAN
  BY <1>1, Zenon DEF OpenWindow, SameWindow
<1>4. QED
  BY <1>2, <1>3

\* What the modem reports.
LEMMA InvIndicated ==
  ASSUME Inv, NotifyUIMIndication \/ NotifyModemReset
  PROVE  Inv'
<1> USE DEF Stages, Written, Left, Early, LoadStages, Inside
<1>1. /\ Invalidated /\ UNCHANGED <<cardVars, lockVars, missed, localVars, program>>
      /\ Trigger \/ UNCHANGED <<reloading, stage>>
  BY DEF NotifyUIMIndication, NotifyModemReset
<1>2. indications' \in 0..MaxIndications /\ window' \in Nat /\ open' \in BOOLEAN
  <2>1. indications' \in 0..MaxIndications
    BY Constants DEF NotifyUIMIndication, NotifyModemReset, Inv, TypeOK, CacheTypes
  <2>2. OpenWindow \/ SameWindow
    BY DEF NotifyUIMIndication, NotifyModemReset, SameWindow
  <2>3. QED
    BY <2>1, <2>2, WindowTyped
<1>3. CASE Trigger
  BY <1>1, <1>2, <1>3, TriggerMoves, InvInvalidated, Constants
<1>4. CASE UNCHANGED <<reloading, stage>>
  BY <1>1, <1>2, <1>4, InvInvalidated DEF Inv, TypeOK, CallTypes
<1>5. QED
  BY <1>1, <1>3, <1>4

\* A write tells the cache, or fails, and a refresh empties it.
LEMMA InvFinish ==
  ASSUME Inv, NEW c \in Calls, FinishWrite(c) \/ FailDownload(c) \/ ClearForRefresh(c) \/ Fails(c)
  PROVE  Inv'
<1> USE DEF Stages, Written, Left, Early, LoadStages, Inside
<1>1. /\ c \in Procs /\ c # Reloader /\ gen \in [Procs -> Nat] /\ channel \in [Procs -> 0..made]
      /\ indications \in 0..MaxIndications /\ window \in Nat /\ open \in BOOLEAN
      /\ stale \in BOOLEAN
      /\ reloading \in BOOLEAN /\ (reloading <=> stage[Reloader] # "done")
  BY Constants DEF Inv, TypeOK, CacheTypes, CallTypes, LockTypes
<1>2. CASE FinishWrite(c)
  <2>1. window' \in Nat /\ open' \in BOOLEAN /\ indications' \in 0..MaxIndications
    <3>1. OpenWindow \/ SameWindow
      BY <1>2 DEF FinishWrite
    <3>2. QED
      BY <1>1, <1>2, <3>1, WindowTyped DEF FinishWrite, historyVars
  <2>2. TriggerFrom(c, "unlock") /\ stage[c] = "applied" /\ Invalidated
        /\ UNCHANGED <<cardVars, lockVars, missed, localVars, program>>
    BY <1>2 DEF FinishWrite, historyVars
  <2>3. QED
    BY <1>1, <2>1, <2>2, TriggerFromMoves, InvInvalidated, Constants
<1>3. CASE FailDownload(c)
  <2>1. Go(c, "unlock") /\ stage[c] = "failed" /\ Invalidated
        /\ UNCHANGED <<cardVars, lockVars, missed, indications, window, open, localVars, reloading,
                       program>>
    BY <1>3 DEF FailDownload, historyVars
  <2>2. /\ stage' \in [Procs -> Stages] /\ stage'[c] = "unlock"
        /\ \A q \in Procs \ {c} : stage'[q] = stage[q]
    BY <1>1, <2>1, Moved
  <2>3. QED
    BY <1>1, <2>1, <2>2, InvInvalidated, Constants
<1>4. CASE ClearForRefresh(c)
  <2>1. Go(c, "look") /\ stage[c] = "clear"
        /\ UNCHANGED <<cardVars, lockVars, missed, indications, window, open, localVars, reloading,
                       program>>
    BY <1>4 DEF ClearForRefresh, historyVars
  <2>2. /\ stage' \in [Procs -> Stages] /\ stage'[c] = "look"
        /\ \A q \in Procs \ {c} : stage'[q] = stage[q]
    BY <1>1, <2>1, Moved
  <2>3. CASE Invalidated
    BY <1>1, <2>1, <2>2, <2>3, InvInvalidated, Constants
  <2>4. CASE UNCHANGED <<generation, cache, stale>>
    BY <1>1, <2>1, <2>4, InvGo DEF lockVars, localVars, historyVars
  <2>5. QED
    BY <1>4, <2>3, <2>4 DEF ClearForRefresh
<1>5. CASE Fails(c)
  <2>1. Go(c, "unlock") /\ stage[c] = "locked"
        /\ UNCHANGED <<cardVars, lockVars, historyVars, localVars, reloading, program>>
    BY <1>5 DEF Fails
  <2>2. /\ stage' \in [Procs -> Stages] /\ stage'[c] = "unlock"
        /\ \A q \in Procs \ {c} : stage'[q] = stage[q]
    BY <1>1, <2>1, Moved
  <2>3. window' \in Nat /\ open' \in BOOLEAN
    BY <1>5, WindowTyped DEF Fails
  <2>4. CASE Invalidated
    BY <1>1, <2>1, <2>2, <2>3, <2>4, InvInvalidated, Constants DEF historyVars
  <2>5. CASE UNCHANGED <<generation, cache, stale>>
    <3>1. LockTypes'
      BY <1>1, <2>1, <2>2, LockKept, Constants DEF lockVars
    <3>2. CallTypes'
      BY <1>1, <2>1, <2>2, CallsKept, Constants DEF localVars
    <3>3. CardTypes' /\ CacheTypes'
      BY <2>1, <2>3, <2>5 DEF Inv, TypeOK, CardTypes, CacheTypes, cardVars, historyVars
    <3>4. Sound'
      BY <1>1, <2>1, <2>2, <2>5, SoundPassed, Constants DEF cardVars, historyVars, localVars
    <3>5. QED
      BY <3>1, <3>2, <3>3, <3>4 DEF Inv, TypeOK
  <2>6. QED
    BY <1>5, <2>4, <2>5 DEF Fails
<1>6. QED
  BY <1>2, <1>3, <1>4, <1>5

-----------------------------------------------------------------------------
\* A goroutine that is inside has the lock, so no other is.
LEMMA Alone ==
  ASSUME Inv, NEW c \in Procs, stage[c] \in Inside
  PROVE  opMu = c /\ \A q \in Procs \ {c} : stage[q] \notin Inside \union {"peeked"}
BY DEF Inv, TypeOK, LockTypes

\* A writer that has just the lock finds the cache empty, stale or true.
LEMMA AloneTruthful ==
  ASSUME Inv, NEW c \in Calls, stage[c] = "locked", cache # NoSnapshot, ~stale
  PROVE  cache = card
<1>1. \A d \in Calls : stage[d] \notin Written
  BY Alone, Constants DEF Inside, Written
<1>2. QED
  BY <1>1 DEF Inv, Sound, Cached, Confirmed, Writing, Written, SwitchApplied

\* What goes through a step that changes no notification but sends some.
LEMMA Informs ==
  ASSUME Inv, UNCHANGED <<nextSeq, baseline, own, blind, outcome, program>>,
         sent \subseteq sent', pending' \subseteq pending, pending \subseteq pending' \union sent',
         \A c \in Calls : stage'[c] \in {"report", "recover"} => stage'[c] = stage[c],
         \A c \in Calls : stage[c] \in Left \union {"applied"} =>
           stage'[c] \in Left \union {"applied"}
  PROVE  Numbered' /\ Own' /\ Told'
<1>1. \A c \in Calls : /\ Kind(c)' = Kind(c) /\ Target(c)' = Target(c)
  BY Asked
<1>2. Numbered'
  BY DEF Inv, Sound, Numbered
<1>3. Own'
  <2> SUFFICES ASSUME NEW c \in Calls, stage'[c] \in {"report", "recover"}
               PROVE  /\ Kind(c) \in {"delete", "download"}
                      /\ c \notin blind =>
                           \A n \in pending' : Matches(c, n) =>
                                                 n.seq = own[c] /\ n.profile = Target(c)
    BY <1>1 DEF Own, Matches
  <2>1. stage[c] \in {"report", "recover"}
    OBVIOUS
  <2>2. QED
    BY <2>1 DEF Inv, Sound, Own
<1>4. Told'
  BY <1>1 DEF Inv, Sound, Told
<1>5. QED
  BY <1>2, <1>3, <1>4

\* A step of a goroutine that is no write.
LEMMA BehindMoved ==
  ASSUME Inv, NEW p \in Procs, NEW s \in Stages, Go(p, s), UNCHANGED <<gen, generation>>,
         s \in Early => stage[p] \in Early
  PROVE  Behind'
<1>1. stage'[p] = s /\ \A q \in Procs \ {p} : stage'[q] = stage[q]
  BY Moved
<1>2. QED
  BY <1>1 DEF Inv, Sound, Behind, Early

\* A scan holds the card, or is one that missed it.
LEMMA InvScan ==
  ASSUME Inv, NEW p \in Procs, Scan(p)
  PROVE  Inv'
<1> USE DEF Stages, Left, Early, LoadStages
<1>1. /\ stage[p] = "scan" /\ Go(p, "store")
      /\ UNCHANGED <<cardVars, lockVars, cacheVars, indications, gen, baseline, own, blind,
                     outcome, program>>
      /\ \/ held' = [held EXCEPT ![p] = card] /\ missed' = missed \ {p}
         \/ held' = [held EXCEPT ![p] = EmptyCard] /\ missed' = missed \union {p}
  BY DEF Scan
<1>2. /\ stage' \in [Procs -> Stages] /\ stage'[p] = "store"
      /\ \A q \in Procs \ {p} : stage'[q] = stage[q]
  BY <1>1, Moved
<1>3. /\ card \in Snapshots /\ EmptyCard \in Snapshots
      /\ held \in [Procs -> Snapshots \union {NoSnapshot}]
  BY SnapshotMade DEF Inv, TypeOK, CardTypes, CallTypes
<1>4. /\ held' \in [Procs -> Snapshots \union {NoSnapshot}] /\ held'[p] \in Snapshots
      /\ \A q \in Procs \ {p} : held'[q] = held[q]
  BY <1>1, <1>3
<1>5. LockTypes'
  BY <1>1, <1>2, LockKept DEF lockVars, Inv, TypeOK, LockTypes, Inside
<1>6. CallTypes'
  BY <1>1, <1>2, <1>4, Constants DEF Inv, TypeOK, CallTypes, cacheVars
<1>7. CardTypes' /\ CacheTypes'
  BY <1>1 DEF Inv, TypeOK, CardTypes, CacheTypes, cardVars, cacheVars
<1>8. Behind'
  BY <1>1, BehindMoved DEF cacheVars
<1>9. \A c \in Calls : stage'[c] = stage[c] \/ (stage[c] = "scan" /\ stage'[c] = "store")
  BY <1>1, <1>2, Constants
<1>10. \A c \in Calls : Kind(c)' = Kind(c) /\ Target(c)' = Target(c)
  BY <1>1, Asked
<1>11. \A q \in Procs : Kind(q)' = Kind(q)
  BY <1>1 DEF Kind
<1>12. \A c \in Calls : (Confirmed(c)' <=> Confirmed(c)) /\ (SwitchApplied(c)' <=> SwitchApplied(c))
  BY <1>1, <1>9, <1>10 DEF Confirmed, Writing, SwitchApplied, cardVars, cacheVars
<1>13. Fresh'
  <2> SUFFICES ASSUME NEW q \in Procs, stage'[q] = "store", q \notin missed'
               PROVE  /\ Kind(q)' = "profiles" => held'[q] = card'
                      /\ gen'[q] = generation' => held'[q] = card' \/ \E c \in Calls : Confirmed(c)'
    BY DEF Fresh
  <2>1. CASE q = p
    BY <1>1, <1>3, <2>1 DEF cardVars
  <2>2. CASE q # p
    <3>1. stage[q] = "store" /\ q \notin missed /\ held'[q] = held[q] /\ gen'[q] = gen[q]
          /\ generation' = generation /\ card' = card
      BY <1>1, <1>2, <1>4, <2>2 DEF cardVars, cacheVars
    <3>2. QED
      BY <1>11, <1>12, <3>1 DEF Inv, Sound, Fresh
  <2>3. QED
    BY <2>1, <2>2
<1>14. Cached'
  BY <1>1, <1>9, <1>10, <1>12 DEF Inv, Sound, Cached, cardVars, cacheVars
<1>15. Numbered' /\ Own' /\ Told'
  BY <1>1, <1>9, Informs DEF cardVars
<1>16. QED
  BY <1>5, <1>6, <1>7, <1>8, <1>13, <1>14, <1>15 DEF Inv, TypeOK, Sound

\* A scan is stored if nothing was invalidated since it began.
LEMMA InvStore ==
  ASSUME Inv, NEW p \in Procs, Store(p)
  PROVE  Inv'
<1> USE DEF Stages, Left, Early, LoadStages
<1>1. /\ stage[p] = "store" /\ Go(p, "done") /\ Returned(p)
      /\ UNCHANGED <<cardVars, lockVars, generation, window, open, indications, gen, baseline,
                     own, blind, outcome, program>>
      /\ held' = [held EXCEPT ![p] = NoSnapshot] /\ missed' = missed \ {p}
      /\ IF Kind(p) = "profiles" \/ gen[p] = generation
           THEN cache' = held[p] /\ stale' = (p \in missed)
           ELSE UNCHANGED <<cache, stale>>
  BY DEF Store
<1>2. /\ stage' \in [Procs -> Stages] /\ stage'[p] = "done"
      /\ \A q \in Procs \ {p} : stage'[q] = stage[q]
  BY <1>1, Moved
<1>3. /\ held \in [Procs -> Snapshots \union {NoSnapshot}] /\ stale \in BOOLEAN
      /\ cache \in Snapshots \union {NoSnapshot}
  BY DEF Inv, TypeOK, CacheTypes, CallTypes
<1>4. /\ held' \in [Procs -> Snapshots \union {NoSnapshot}] /\ held'[p] = NoSnapshot
      /\ \A q \in Procs \ {p} : held'[q] = held[q]
  BY <1>1, <1>3
<1>5. LockTypes'
  BY <1>1, <1>2, LockKept DEF lockVars, Inv, TypeOK, LockTypes, Inside
<1>6. reloading' \in BOOLEAN /\ (reloading' <=> stage'[Reloader] # "done")
  BY <1>1, <1>2, Constants DEF Inv, TypeOK, CallTypes, Returned
<1>7. CallTypes'
  BY <1>1, <1>2, <1>4, <1>6 DEF Inv, TypeOK, CallTypes
<1>8. CardTypes'
  BY <1>1 DEF Inv, TypeOK, CardTypes, cardVars
<1>9. cache' \in Snapshots \union {NoSnapshot} /\ stale' \in BOOLEAN
  <2>1. stale' = (p \in missed) \/ stale' = stale
    BY <1>1
  <2>2. stale' \in BOOLEAN
    <3>1. CASE stale' = (p \in missed)
      BY <3>1
    <3>2. CASE stale' = stale
      BY <1>3, <3>2
    <3>3. QED
      BY <2>1, <3>1, <3>2
  <2>3. QED
    BY <1>1, <1>3, <2>2
<1>10. CacheTypes'
  BY <1>1, <1>9 DEF Inv, TypeOK, CacheTypes
<1>11. Behind'
  BY <1>1, BehindMoved
<1>12. \A c \in Calls : stage'[c] = stage[c] \/ (stage[c] = "store" /\ stage'[c] = "done")
  BY <1>1, <1>2, Constants
<1>13. \A c \in Calls : Kind(c)' = Kind(c) /\ Target(c)' = Target(c)
  BY <1>1, Asked
<1>14. \A q \in Procs : Kind(q)' = Kind(q)
  BY <1>1 DEF Kind
<1>15. \A c \in Calls : Confirmed(c)' <=> Confirmed(c)
  BY <1>12, <1>13 DEF Confirmed, Writing
<1>16. Fresh'
  <2> SUFFICES ASSUME NEW q \in Procs, stage'[q] = "store", q \notin missed'
               PROVE  /\ Kind(q)' = "profiles" => held'[q] = card'
                      /\ gen'[q] = generation' => held'[q] = card' \/ \E c \in Calls : Confirmed(c)'
    BY DEF Fresh
  <2>1. /\ q # p /\ stage[q] = "store" /\ q \notin missed /\ held'[q] = held[q] /\ gen'[q] = gen[q]
        /\ generation' = generation /\ card' = card
    BY <1>1, <1>2, <1>4 DEF cardVars
  <2>2. QED
    BY <1>14, <1>15, <2>1 DEF Inv, Sound, Fresh
<1>17. Cached'
  <2>1. \A c \in Calls : stage'[c] = "applied" /\ Kind(c)' = "switch" => card'.active = Target(c)'
    BY <1>1, <1>12, <1>13 DEF Inv, Sound, Cached, cardVars
  <2>2. CASE Kind(p) = "profiles" \/ gen[p] = generation
    <3>1. stale' \/ (cache' = card /\ card' = card) \/ \E c \in Calls : Confirmed(c)'
      BY <1>1, <1>15, <2>2 DEF Inv, Sound, Fresh, cardVars
    <3>2. QED
      BY <2>1, <3>1 DEF Cached
  <2>3. CASE ~(Kind(p) = "profiles" \/ gen[p] = generation)
    <3>1. UNCHANGED <<card, cache, stale>>
      BY <1>1, <2>3 DEF cardVars
    <3>2. \A c \in Calls : SwitchApplied(c) => SwitchApplied(c)'
      BY <1>12, <1>13, <3>1 DEF SwitchApplied
    <3>3. QED
      BY <1>15, <2>1, <3>1, <3>2 DEF Inv, Sound, Cached
  <2>4. QED
    BY <2>2, <2>3
<1>18. Numbered' /\ Own' /\ Told'
  BY <1>1, <1>12, Informs DEF cardVars
<1>19. QED
  BY <1>5, <1>7, <1>8, <1>10, <1>11, <1>16, <1>17, <1>18 DEF Inv, TypeOK, Sound

-----------------------------------------------------------------------------
\* A write that has reached the card: no scan that has seen less may be stored, unless it
\* will be refused.
LEMMA FreshWritten ==
  ASSUME Inv, NEW c \in Calls, NEW s \in Stages \ {"store"}, Go(c, s), NEW confirmed \in BOOLEAN,
         Overlaps(confirmed), confirmed => Confirmed(c)',
         UNCHANGED <<held, gen, generation, program>>
  PROVE  Fresh'
<1>1. \A q \in Procs : Kind(q)' = Kind(q)
  BY DEF Kind
<1>2. stage'[c] = s /\ \A q \in Procs \ {c} : stage'[q] = stage[q]
  BY Moved, Constants
<1> SUFFICES ASSUME NEW p \in Procs, stage'[p] = "store", p \notin missed'
             PROVE  /\ Kind(p)' = "profiles" => held'[p] = card'
                    /\ gen'[p] = generation' => held'[p] = card' \/ \E d \in Calls : Confirmed(d)'
  BY DEF Fresh
<1>3. stage[p] = "store"
  BY <1>2, Constants
<1>4. Kind(p) # "profiles" /\ confirmed
  BY <1>3 DEF Overlaps
<1>5. QED
  BY <1>1, <1>4

\* What a writer leaves of the cache that will invalidate it, or finds its answer lost.
LEMMA CachedWritten ==
  ASSUME Inv, NEW c \in Calls, NEW s \in Stages, Go(c, s), stage[c] = "locked",
         UNCHANGED program,
         \/ s \in Written /\ Kind(c) # "switch"
         \/ s = "unlock" /\ cache' = cache /\ stale' = (cache # NoSnapshot)
  PROVE  Cached'
<1>1. /\ stage'[c] = s /\ \A q \in Procs \ {c} : stage'[q] = stage[q]
      /\ \A d \in Calls \ {c} : stage[d] # "applied"
  BY Moved, Constants, Alone DEF Inside
<1>2. Kind(c)' = Kind(c)
  BY Asked
<1>3. \A d \in Calls : stage'[d] = "applied" /\ Kind(d)' = "switch" => card'.active = Target(d)'
  BY <1>1, <1>2, Constants DEF Written
<1>4. CASE s \in Written /\ Kind(c) # "switch"
  <2>1. Confirmed(c)'
    BY <1>1, <1>2, <1>4 DEF Confirmed, Writing, Written
  <2>2. QED
    BY <1>3, <2>1 DEF Cached
<1>5. CASE s = "unlock" /\ cache' = cache /\ stale' = (cache # NoSnapshot)
  BY <1>3, <1>5 DEF Cached
<1>6. QED
  BY <1>4, <1>5

\* A write leaves one notification more, or none.
LEMMA NumberedNotifies ==
  ASSUME Inv, NEW e, NEW x, Notifies(e, x), UNCHANGED sent
  PROVE  Numbered'
<1>1. nextSeq \in Nat \ {0}
  BY DEF Inv, TypeOK, CardTypes
<1>2. CASE UNCHANGED <<pending, nextSeq>>
  BY <1>2 DEF Inv, Sound, Numbered
<1>3. CASE /\ pending' = pending \union {[seq |-> nextSeq, event |-> e, profile |-> x]}
           /\ nextSeq' = nextSeq + 1
  <2> SUFFICES ASSUME NEW s \in 1..(nextSeq' - 1)
               PROVE  \E n \in pending' \union sent' : n.seq = s
    BY DEF Numbered
  <2>1. CASE s = nextSeq
    <3>1. [seq |-> nextSeq, event |-> e, profile |-> x].seq = s
      BY <2>1
    <3>2. QED
      BY <1>3, <3>1
  <2>2. CASE s # nextSeq
    <3>1. s \in 1..(nextSeq - 1)
      BY <1>1, <1>3, <2>2
    <3>2. QED
      BY <1>3, <3>1 DEF Inv, Sound, Numbered
  <2>3. QED
    BY <2>1, <2>2
<1>4. QED
  BY <1>2, <1>3 DEF Notifies

\* The card numbers what it notifies, in order.
LEMMA CardNotifies ==
  ASSUME Inv, NEW e \in Events, NEW x \in Profiles, Notifies(e, x), UNCHANGED sent,
         card' \in Snapshots
  PROVE  CardTypes'
<1>1. nextSeq \in Nat \ {0} /\ pending \subseteq Notification /\ sent \subseteq Notification
      /\ \A n \in pending \union sent : n.seq \in Nat /\ n.seq < nextSeq
  BY DEF Inv, TypeOK, CardTypes, Notification
<1>2. CASE UNCHANGED <<pending, nextSeq>>
  BY <1>1, <1>2 DEF CardTypes
<1>3. CASE /\ pending' = pending \union {[seq |-> nextSeq, event |-> e, profile |-> x]}
           /\ nextSeq' = nextSeq + 1
  <2> DEFINE m == [seq |-> nextSeq, event |-> e, profile |-> x]
  <2>1. m \in Notification /\ m.seq = nextSeq
    BY <1>1 DEF Notification
  <2> HIDE DEF m
  <2>2. pending' = pending \union {m}
    BY <1>3 DEF m
  <2>3. \A n \in pending' \union sent' : n.seq < nextSeq'
    BY <1>1, <1>3, <2>1, <2>2
  <2>4. QED
    BY <1>1, <1>3, <2>1, <2>2, <2>3 DEF CardTypes
<1>4. QED
  BY <1>2, <1>3 DEF Notifies

\* What is reported stays so, while a writer that has reported nothing goes on.
LEMMA ToldWritten ==
  ASSUME Inv, NEW c \in Calls, NEW s \in Stages, Go(c, s), stage[c] = "locked",
         UNCHANGED <<sent, outcome, program>>,
         \A d \in Calls \ {c} : own'[d] = own[d] /\ (d \in blind => d \in blind')
  PROVE  Told'
<1>1. stage'[c] = s /\ \A q \in Procs \ {c} : stage'[q] = stage[q]
  BY Moved, Constants
<1> SUFFICES ASSUME NEW d \in Calls, outcome'[d] = "sent"
             PROVE  /\ stage'[d] \in Left \union {"applied"}
                    /\ \E n \in sent' :
                         /\ n.event = IF Kind(d)' = "delete" THEN "delete" ELSE "install"
                         /\ d \notin blind' => n.seq = own'[d] /\ n.profile = Target(d)'
  BY DEF Told
<1>2. d # c
  BY DEF Inv, Sound, Told, Left
<1>3. /\ Kind(d)' = Kind(d) /\ Target(d)' = Target(d)
      /\ stage'[d] = stage[d] /\ own'[d] = own[d] /\ (d \in blind => d \in blind')
  BY <1>1, <1>2, Asked, Constants
<1>4. QED
  BY <1>3 DEF Inv, Sound, Told

\* The lock and the calls after a write that has reached the card.
LEMMA LockWritten ==
  ASSUME Inv, NEW c \in Calls, NEW s \in Written \union {"unlock"}, Go(c, s), stage[c] = "locked",
         UNCHANGED <<lockVars, reloading, generation, held, gen, outcome, program>>,
         baseline' \in [Calls -> Nat], own' \in [Calls -> Nat], blind' \subseteq Calls
  PROVE  LockTypes' /\ CallTypes' /\ Behind' /\ s \in Stages
<1>1. s \in Stages /\ s \in Inside /\ s \notin Early /\ c \in Procs /\ c # Reloader
  BY Constants DEF Written, Stages, Inside, Early, LoadStages
<1>2. /\ stage' \in [Procs -> Stages] /\ stage'[c] = s
      /\ \A q \in Procs \ {c} : stage'[q] = stage[q]
  BY <1>1, Moved
<1>3. LockTypes'
  BY <1>1, <1>2, LockKept DEF lockVars, Inv, TypeOK, LockTypes, Inside
<1>4. CallTypes'
  BY <1>1, <1>2, Constants DEF Inv, TypeOK, CallTypes, Written
<1>5. Behind'
  BY <1>1, <1>2 DEF Inv, Sound, Behind, Early
<1>6. QED
  BY <1>1, <1>3, <1>4, <1>5

\* The rest of a write that has reached the card, whatever it was.
LEMMA InvWritten ==
  ASSUME Inv, NEW c \in Calls, NEW s \in Written \union {"unlock"}, Go(c, s), stage[c] = "locked",
         NEW confirmed \in BOOLEAN, Overlaps(confirmed),
         confirmed => s \in Written /\ Kind(c) # "switch",
         UNCHANGED <<sent, cache, generation, reloading, indications, lockVars, held, gen, outcome,
                     program>>,
         OpenWindow \/ SameWindow, stale' = stale \/ stale' = (cache # NoSnapshot),
         baseline' \in [Calls -> Nat], own' \in [Calls -> Nat], blind' \subseteq Calls,
         \A d \in Calls \ {c} : own'[d] = own[d] /\ (d \in blind => d \in blind'),
         CardTypes', Numbered', Own', Cached'
  PROVE  Inv'
<1>1. LockTypes' /\ CallTypes' /\ Behind' /\ s \in Stages
  BY LockWritten
<1>2. CacheTypes'
  <2>1. window' \in Nat /\ open' \in BOOLEAN
    BY WindowTyped
  <2>2. stale' \in BOOLEAN
    <3>1. CASE stale' = stale
      BY <3>1 DEF Inv, TypeOK, CacheTypes
    <3>2. CASE stale' = (cache # NoSnapshot)
      BY <3>2
    <3>3. QED
      BY <3>1, <3>2
  <2>3. missed' \subseteq Procs
    BY DEF Inv, TypeOK, CacheTypes, Overlaps
  <2>4. QED
    BY <2>1, <2>2, <2>3 DEF Inv, TypeOK, CacheTypes
<1>3. confirmed => Confirmed(c)'
  <2>1. stage'[c] = s /\ Kind(c)' = Kind(c)
    BY <1>1, Moved, Asked, Constants
  <2>2. QED
    BY <2>1 DEF Confirmed, Writing, Written
<1>4. Fresh'
  <2>1. s \in Stages \ {"store"}
    BY <1>1 DEF Written
  <2>2. QED
    BY <1>3, <2>1, FreshWritten
<1>5. Told'
  BY <1>1, ToldWritten
<1>6. QED
  BY <1>1, <1>2, <1>4, <1>5 DEF Inv, TypeOK, Sound

\* Nobody reports while a writer has the lock that is not about to.
LEMMA OwnWritten ==
  ASSUME Inv, NEW c \in Calls, NEW s \in Stages \ {"report", "recover"}, Go(c, s),
         stage[c] = "locked"
  PROVE  Own'
<1>1. \A d \in Calls : stage'[d] \notin {"report", "recover"}
  BY Moved, Constants, Alone DEF Inside
<1>2. QED
  BY <1>1 DEF Own

\* A switch is in the cache as soon as the active profile is patched.
LEMMA InvSwitch ==
  ASSUME Inv, NEW c \in Calls, Switch(c)
  PROVE  Inv'
<1> DEFINE changed == [card EXCEPT !.active = Target(c)]
<1>1. /\ stage[c] = "locked" /\ Kind(c) = "switch" /\ Target(c) \in card.installed
      /\ OpenWindow /\ Notifies("enable", Target(c)) /\ Target(c) \in Profiles
      /\ UNCHANGED <<sent, lockVars, cache, generation, reloading, indications, localVars, program>>
      /\ card' = changed /\ Overlaps(FALSE)
      /\ \/ Go(c, "applied") /\ stale' = stale
         \/ Go(c, "unlock") /\ stale' = (cache # NoSnapshot)
  BY Asked DEF Switch, LostAnswer
<1>2. /\ card \in Snapshots /\ baseline \in [Calls -> Nat]
      /\ own \in [Calls -> Nat] /\ blind \subseteq Calls
  BY DEF Inv, TypeOK, CardTypes, CallTypes
<1>3. card' \in Snapshots
  BY <1>1, <1>2, SnapshotMade
<1>4. /\ card'.active = Target(c) /\ card'.installed = card.installed
      /\ card'.renamed = card.renamed
  BY <1>1, <1>2 DEF Snapshots
<1>5. CardTypes'
  BY <1>1, <1>3, CardNotifies DEF Events
<1>6. Numbered'
  BY <1>1, NumberedNotifies
<1>7. PICK s \in {"applied", "unlock"} :
        Go(c, s) /\ IF s = "applied" THEN stale' = stale ELSE stale' = (cache # NoSnapshot)
  BY <1>1
<1>8. s \in Stages /\ s \in Written \union {"unlock"} /\ s \notin {"report", "recover"}
  BY DEF Stages, Written
<1>9. Own'
  BY <1>1, <1>7, <1>8, OwnWritten
<1>10. Cached'
  <2>1. CASE s = "unlock"
    BY <1>1, <1>7, <1>8, <2>1, CachedWritten
  <2>2. CASE s = "applied"
    <3>1. /\ stage'[c] = "applied" /\ \A d \in Calls \ {c} : stage'[d] # "applied"
          /\ Kind(c)' = "switch" /\ Target(c)' = Target(c)
      BY <1>1, <1>7, <1>8, <2>2, Moved, Asked, Constants, Alone DEF Inside
    <3>2. cache' # NoSnapshot /\ ~stale' => SwitchApplied(c)'
      BY <1>1, <1>4, <1>7, <2>2, <3>1, AloneTruthful DEF SwitchApplied
    <3>3. QED
      BY <1>4, <3>1, <3>2 DEF Cached
  <2>3. QED
    BY <2>1, <2>2
<1>11. /\ UNCHANGED <<held, gen, outcome, baseline, own, blind>>
       /\ UNCHANGED <<sent, cache, generation, reloading, indications, lockVars, held, gen, outcome,
                      program>>
  BY <1>1 DEF localVars
<1>12. QED
  BY <1>1, <1>2, <1>5, <1>6, <1>7, <1>8, <1>9, <1>10, <1>11, InvWritten

\* What is patched is what the switch has changed.
LEMMA InvPatch ==
  ASSUME Inv, NEW c \in Calls, PatchCachedActiveProfile(c)
  PROVE  Inv'
<1> USE DEF Stages, Left, Early, LoadStages
<1>1. /\ stage[c] = "applied" /\ Kind(c) = "switch" /\ Go(c, "unlock")
      /\ c \in Procs /\ c # Reloader
      /\ cache' = IF cache # NoSnapshot /\ Target(c) \in cache.installed
                    THEN [cache EXCEPT !.active = Target(c)] ELSE cache
      /\ UNCHANGED <<cardVars, lockVars, generation, reloading, window, open, stale, historyVars,
                     localVars, program>>
  BY Constants DEF PatchCachedActiveProfile
<1>2. /\ stage' \in [Procs -> Stages] /\ stage'[c] = "unlock"
      /\ \A q \in Procs \ {c} : stage'[q] = stage[q]
  BY <1>1, Moved
<1>3. \A d \in Calls \ {c} : stage[d] \notin Written
  BY <1>1, Alone, Constants DEF Inside, Written
<1>4. card \in Snapshots /\ cache \in Snapshots \union {NoSnapshot} /\ Target(c) \in Profiles
  BY Asked DEF Inv, TypeOK, CardTypes, CacheTypes
<1>5. LockTypes'
  BY <1>1, <1>2, LockKept DEF lockVars, Inv, TypeOK, LockTypes, Inside
<1>6. CallTypes'
  <2>1. /\ UNCHANGED <<program, held, baseline, own, blind, outcome, gen, reloading>>
        /\ gen \in [Procs -> Nat] /\ reloading \in BOOLEAN
        /\ (reloading <=> stage[Reloader] # "done")
    BY <1>1 DEF Inv, TypeOK, CallTypes, localVars
  <2>2. QED
    BY <1>1, <1>2, <2>1, CallsKept, Constants
<1>7. CardTypes'
  BY <1>1 DEF Inv, TypeOK, CardTypes, cardVars
<1>8. cache' \in Snapshots \union {NoSnapshot}
  BY <1>1, <1>4, SnapshotMade
<1>9. CacheTypes'
  BY <1>1, <1>8 DEF Inv, TypeOK, CacheTypes, historyVars
<1>10. Behind'
  BY <1>1, BehindMoved DEF localVars
<1>11. \A d \in Calls : ~Confirmed(d)
  BY <1>1, <1>3 DEF Confirmed, Writing, Written
<1>12. Fresh'
  <2>1. \A q \in Procs : Kind(q)' = Kind(q)
    BY <1>1 DEF Kind
  <2>2. \A q \in Procs : stage'[q] = "store" => stage[q] = "store"
    BY <1>2
  <2>3. UNCHANGED <<held, gen, generation, card, missed>>
    BY <1>1 DEF localVars, cardVars, historyVars
  <2>4. QED
    BY <1>11, <2>1, <2>2, <2>3 DEF Inv, Sound, Fresh
<1>13. Cached'
  <2>1. \A d \in Calls : stage'[d] # "applied"
    BY <1>2, <1>3, Constants DEF Written
  <2>2. card' = card /\ stale' = stale
    BY <1>1 DEF cardVars
  <2>3. CASE cache # NoSnapshot /\ ~stale
    <3>1. card.active = Target(c)
      BY <1>1 DEF Inv, Sound, Cached
    <3>2. cache = card \/ SwitchApplied(c)
      BY <1>3, <1>11, <2>3 DEF Inv, Sound, Cached, SwitchApplied, Written
    <3>3. cache.installed = card.installed /\ cache.renamed = card.renamed
      BY <3>2 DEF SwitchApplied
    <3>4. Target(c) \in card.installed
      BY <1>4, <3>1, SnapshotMade, Constants
    <3>5. cache' = card
      BY <1>1, <1>4, <2>3, <3>1, <3>3, <3>4 DEF Snapshots
    <3>6. QED
      BY <2>1, <2>2, <3>5 DEF Cached
  <2>4. CASE ~(cache # NoSnapshot /\ ~stale)
    BY <1>1, <2>1, <2>2, <2>4 DEF Cached
  <2>5. QED
    BY <2>3, <2>4
<1>14. Numbered' /\ Own' /\ Told'
  <2>1. UNCHANGED <<nextSeq, baseline, own, blind, outcome, program>> /\ UNCHANGED <<sent, pending>>
    BY <1>1 DEF cardVars, localVars
  <2>2. \A d \in Calls : stage'[d] = stage[d] \/ (stage[d] = "applied" /\ stage'[d] = "unlock")
    BY <1>1, <1>2, Constants
  <2>3. QED
    BY <2>1, <2>2, Informs
<1>15. QED
  BY <1>5, <1>6, <1>7, <1>9, <1>10, <1>12, <1>13, <1>14 DEF Inv, TypeOK, Sound

\* A write that will invalidate the cache, or whose answer is lost.
LEMMA InvWrite ==
  ASSUME Inv, NEW c \in Calls, Disable(c) \/ Rename(c)
  PROVE  Inv'
<1>1. PICK s \in {"applied", "unlock"} :
        /\ stage[c] = "locked" /\ Kind(c) # "switch" /\ Go(c, s)
        /\ Overlaps(s = "applied")
        /\ IF s = "applied" THEN stale' = stale ELSE stale' = (cache # NoSnapshot)
        /\ UNCHANGED <<sent, lockVars, cache, generation, reloading, window, open, indications,
                       localVars, program>>
  <2>1. CASE Disable(c)
    BY <2>1 DEF Disable, LostAnswer
  <2>2. CASE Rename(c)
    BY <2>2 DEF Rename, LostAnswer
  <2>3. QED
    BY <2>1, <2>2
<1>2. /\ card \in Snapshots /\ baseline \in [Calls -> Nat] /\ Target(c) \in Profiles
      /\ own \in [Calls -> Nat] /\ blind \subseteq Calls
  BY Asked DEF Inv, TypeOK, CardTypes, CallTypes
<1>3. card' \in Snapshots
  <2>1. CASE Disable(c)
    BY <1>2, <2>1, SnapshotMade DEF Disable, LostAnswer
  <2>2. CASE Rename(c)
    <3>1. Target(c) \in card.installed /\ card' = [card EXCEPT !.renamed = @ \union {Target(c)}]
      BY <2>2 DEF Rename, LostAnswer
    <3>2. QED
      BY <1>2, <3>1 DEF Snapshots
  <2>3. QED
    BY <2>1, <2>2
<1>4. PICK e \in Events : Notifies(e, Target(c))
  BY DEF Events, Disable, Rename, Notifies
<1>5. CardTypes'
  BY <1>1, <1>2, <1>3, <1>4, CardNotifies
<1>6. Numbered'
  BY <1>1, <1>4, NumberedNotifies
<1>7. s \in Stages /\ s \in Written \union {"unlock"} /\ s \notin {"report", "recover"}
  BY DEF Stages, Written
<1>8. Own'
  BY <1>1, <1>7, OwnWritten
<1>9. Cached'
  BY <1>1, <1>7, CachedWritten DEF Written
<1>10. (s = "applied") \in BOOLEAN /\ (s = "applied" => s \in Written /\ Kind(c) # "switch")
  BY <1>1 DEF Written
<1>11. /\ UNCHANGED <<sent, cache, generation, reloading, indications, lockVars, held, gen, outcome,
                      program>>
       /\ UNCHANGED <<baseline, own, blind>>
  BY <1>1, <1>2 DEF localVars, SameWindow
<1>12. OpenWindow \/ SameWindow
  BY <1>1 DEF SameWindow
<1>13. stale' = stale \/ stale' = (cache # NoSnapshot)
  BY <1>1
<1>14. QED
  BY <1>1, <1>2, <1>5, <1>6, <1>7, <1>8, <1>9, <1>10, <1>11, <1>12, <1>13, InvWritten

\* What a call compares with is a number, and unless it is blind no notification of the kind
\* it looks for is later.
LEMMA ListedBefore ==
  ASSUME Inv, NEW c \in Calls, NEW events, ListBefore(c, events) \/ ListFails(c)
  PROVE  /\ baseline' \in [Calls -> Nat] /\ blind' \subseteq Calls /\ blind \subseteq blind'
         /\ c \notin blind' => \A n \in pending : n.event \in events => n.seq <= baseline'[c]
<1>1. baseline \in [Calls -> Nat] /\ blind \subseteq Calls /\ nextSeq \in Nat \ {0}
  BY DEF Inv, TypeOK, CardTypes, CallTypes
<1>2. CASE ListFails(c)
  BY <1>1, <1>2 DEF ListFails
<1>3. CASE ListBefore(c, events)
  <2>1. PICK b \in 0..(nextSeq - 1) :
          IsLastSeq(b, events) /\ baseline' = [baseline EXCEPT ![c] = b] /\ UNCHANGED blind
    BY <1>3 DEF ListBefore
  <2>2. b \in Nat /\ baseline'[c] = b /\ baseline' \in [Calls -> Nat]
    BY <1>1, <2>1
  <2>3. QED
    BY <1>1, <2>1, <2>2 DEF IsLastSeq
<1>4. QED
  BY <1>2, <1>3

\* A deletion remembers the last notification before its own.
LEMMA InvDeleteProfile ==
  ASSUME Inv, NEW c \in Calls, DeleteProfile(c)
  PROVE  Inv'
<1>1. PICK s \in {"report", "unlock"} :
        /\ stage[c] = "locked" /\ Kind(c) = "delete" /\ Go(c, s) /\ Notifies("delete", Target(c))
        /\ Overlaps(s = "report")
        /\ IF s = "report" THEN stale' = stale ELSE stale' = (cache # NoSnapshot)
        /\ UNCHANGED <<sent, lockVars, cache, generation, reloading, window, open, indications,
                       held, gen, outcome, program>>
  BY DEF DeleteProfile, LostAnswer
<1>2. /\ card \in Snapshots /\ baseline \in [Calls -> Nat] /\ Target(c) \in Profiles
      /\ own \in [Calls -> Nat] /\ blind \subseteq Calls
  BY Asked DEF Inv, TypeOK, CardTypes, CallTypes
<1>3. card' \in Snapshots
  <2>1. /\ card' = [card EXCEPT !.installed = @ \ {Target(c)}, !.renamed = @ \ {Target(c)}]
        /\ card.active # Target(c)
    BY DEF DeleteProfile, LostAnswer
  <2>2. QED
    BY <1>2, <2>1 DEF Snapshots
<1>4. /\ baseline' \in [Calls -> Nat] /\ blind' \subseteq Calls /\ blind \subseteq blind'
      /\ c \notin blind' => \A n \in pending : n.event \in Events => n.seq <= baseline'[c]
      /\ own' = [own EXCEPT ![c] = IF nextSeq' = nextSeq THEN 0 ELSE nextSeq]
      /\ nextSeq \in Nat \ {0}
      /\ \A n \in pending : n.seq \in Nat /\ n.event \in Events
  BY ListedBefore DEF DeleteProfile, Inv, TypeOK, CardTypes, Notification
<1>5. /\ own' \in [Calls -> Nat] /\ own'[c] = IF nextSeq' = nextSeq THEN 0 ELSE nextSeq
      /\ \A d \in Calls \ {c} : own'[d] = own[d] /\ (d \in blind => d \in blind')
  BY <1>2, <1>4
<1>6. CardTypes'
  BY <1>1, <1>2, <1>3, CardNotifies DEF Events
<1>7. Numbered'
  BY <1>1, NumberedNotifies
<1>8. s \in Stages /\ s \in Written \union {"unlock"}
  BY DEF Stages, Written
<1>9. Own'
  <2>1. \A d \in Calls \ {c} : stage'[d] \notin {"report", "recover"}
    BY <1>1, <1>8, Moved, Constants, Alone DEF Inside
  <2>2. Kind(c)' = "delete" /\ Target(c)' = Target(c)
    BY <1>1, Asked
  <2>3. ASSUME c \notin blind', NEW n \in pending', Matches(c, n)'
        PROVE  n.seq = own'[c] /\ n.profile = Target(c)
    <3>1. n.seq > baseline'[c] /\ n.profile = Target(c)
      BY <2>2, <2>3 DEF Matches
    <3>2. n \notin pending
      BY <1>4, <2>3, <3>1
    <3>3. /\ n = [seq |-> nextSeq, event |-> "delete", profile |-> Target(c)]
          /\ nextSeq' = nextSeq + 1
      BY <1>1, <2>3, <3>2 DEF Notifies
    <3>4. QED
      BY <1>4, <1>5, <3>1, <3>3
  <2>4. QED
    BY <2>1, <2>2, <2>3 DEF Own
<1>10. Cached'
  BY <1>1, <1>8, CachedWritten DEF Written
<1>11. (s = "report") \in BOOLEAN /\ (s = "report" => s \in Written /\ Kind(c) # "switch")
  BY <1>1 DEF Written
<1>12. UNCHANGED <<sent, cache, generation, reloading, indications, lockVars, held, gen, outcome,
                   program>>
  BY <1>1
<1>13. OpenWindow \/ SameWindow
  BY <1>1 DEF SameWindow
<1>14. stale' = stale \/ stale' = (cache # NoSnapshot)
  BY <1>1
<1>15. QED
  BY <1>1, <1>4, <1>5, <1>6, <1>7, <1>8, <1>9, <1>10, <1>11, <1>12, <1>13, <1>14, InvWritten

\* The notification of a download is the only one of an installation after its baseline.
LEMMA InvDownloadProfile ==
  ASSUME Inv, NEW c \in Calls, DownloadProfile(c)
  PROVE  Inv'
<1> DEFINE new == [seq |-> nextSeq, event |-> "install", profile |-> Target(c)]
<1>1. /\ stage[c] = "locked" /\ Kind(c) = "download"
      /\ card' = [card EXCEPT !.installed = @ \union {Target(c)}] /\ Overlaps(TRUE)
      /\ pending' = pending \union {new} /\ nextSeq' = nextSeq + 1
      /\ own' = [own EXCEPT ![c] = nextSeq]
      /\ UNCHANGED <<sent, lockVars, cacheVars, indications, held, gen, outcome, program>>
  BY DEF DownloadProfile
<1>2. PICK s \in {"report", "recover", "failed"} :
        /\ Go(c, s) /\ baseline' \in [Calls -> Nat] /\ blind' \subseteq Calls
        /\ blind \subseteq blind'
        /\ s # "failed" /\ c \notin blind' =>
             \A n \in pending : n.event = "install" => n.seq <= baseline'[c]
  <2>1. /\ nextSeq \in Nat \ {0} /\ baseline \in [Calls -> Nat] /\ blind \subseteq Calls
        /\ \A n \in pending : n.seq \in Nat /\ n.seq < nextSeq
    BY DEF Inv, TypeOK, CardTypes, CallTypes, Notification
  <2>2. CASE /\ baseline' = [baseline EXCEPT ![c] = nextSeq - 1] /\ UNCHANGED blind
             /\ Go(c, "report")
    <3>1. nextSeq - 1 \in Nat /\ \A n \in pending : n.seq <= nextSeq - 1
      BY <2>1
    <3>2. QED
      BY <2>1, <2>2, <3>1
  <2>3. CASE /\ ListBefore(c, {"install"}) \/ ListFails(c)
             /\ Go(c, "report") \/ Go(c, "recover")
    BY <2>3, ListedBefore
  <2>4. CASE UNCHANGED <<baseline, blind>> /\ Go(c, "failed")
    BY <2>1, <2>4
  <2>5. QED
    BY <2>2, <2>3, <2>4 DEF DownloadProfile
<1>3. /\ card \in Snapshots /\ own \in [Calls -> Nat] /\ Target(c) \in Profiles
      /\ nextSeq \in Nat
  BY Asked DEF Inv, TypeOK, CardTypes, CallTypes
<1>4. card' \in Snapshots
  BY <1>1, <1>3 DEF Snapshots
<1>5. /\ own' \in [Calls -> Nat] /\ own'[c] = nextSeq
      /\ \A d \in Calls \ {c} : own'[d] = own[d] /\ (d \in blind => d \in blind')
  BY <1>1, <1>2, <1>3
<1>6. Notifies("install", Target(c))
  BY <1>1 DEF Notifies
<1>7. CardTypes'
  BY <1>1, <1>3, <1>4, <1>6, CardNotifies DEF Events
<1>8. Numbered'
  BY <1>1, <1>6, NumberedNotifies
<1>9. s \in Stages /\ s \in Written \union {"unlock"} /\ s \in Written
  BY DEF Stages, Written
<1>10. Own'
  <2>1. \A d \in Calls \ {c} : stage'[d] \notin {"report", "recover"}
    BY <1>1, <1>2, <1>9, Moved, Constants, Alone DEF Inside
  <2>2. Kind(c)' = "download" /\ Target(c)' = Target(c)
    BY <1>1, Asked
  <2>3. stage'[c] = s
    BY <1>2, <1>9, Moved, Constants
  <2>4. ASSUME s # "failed", c \notin blind', NEW n \in pending', Matches(c, n)'
        PROVE  n.seq = own'[c] /\ n.profile = Target(c)
    <3>1. n.seq > baseline'[c] /\ n.event = "install"
      BY <2>2, <2>4 DEF Matches
    <3>2. n \notin pending
      <4>1. \A k \in pending : k.seq \in Nat
        BY DEF Inv, TypeOK, CardTypes, Notification
      <4>2. QED
        BY <1>2, <2>4, <3>1, <4>1
    <3>3. n = new
      BY <1>1, <2>4, <3>2
    <3>4. QED
      BY <1>5, <3>3
  <2>5. QED
    BY <1>1, <2>1, <2>2, <2>3, <2>4 DEF Own
<1>11. Cached'
  <2>1. s \in Written /\ Kind(c) # "switch" /\ program' = program
    BY <1>1, <1>9
  <2>2. QED
    BY <1>1, <1>2, <1>9, <2>1, CachedWritten
<1>12. /\ UNCHANGED <<sent, cache, generation, reloading, indications, lockVars, held, gen, outcome,
                      program>>
       /\ stale' = stale
  BY <1>1 DEF cacheVars
<1>13. OpenWindow \/ SameWindow
  BY <1>1 DEF SameWindow, cacheVars
<1>14. TRUE \in BOOLEAN /\ (TRUE => s \in Written /\ Kind(c) # "switch")
  BY <1>1, <1>9
<1>15. QED
  BY <1>1, <1>2, <1>5, <1>7, <1>8, <1>9, <1>10, <1>11, <1>12, <1>13, <1>14, InvWritten

\* What a write finds after its baseline is of the write.
LEMMA InvReport ==
  ASSUME Inv, NEW c \in Calls, Report(c)
  PROVE  Inv'
<1> USE DEF Left
<1>1. /\ stage[c] \in {"report", "recover"} /\ c \in Procs /\ c # Reloader
      /\ UNCHANGED <<card, pending, nextSeq, lockVars, cacheVars, historyVars, held, gen, baseline,
                     own, blind, program>>
  BY Constants DEF Report
<1>2. PICK o \in {"sent", "warned"}, s \in {"applied", "failed"} :
        /\ Go(c, s) /\ outcome' = [outcome EXCEPT ![c] = o]
        /\ o = "sent" => /\ s = "applied"
                         /\ \E n \in pending : Matches(c, n) /\ sent' = sent \union {n}
        /\ o = "warned" => \/ UNCHANGED sent
                           \/ \E n \in pending : sent' = sent \union {n}
  <2>2. CASE \E n \in {m \in pending : Matches(c, m)} :
               /\ sent' = sent \union {n} /\ outcome' = [outcome EXCEPT ![c] = "sent"]
               /\ Go(c, "applied")
    BY <2>2
  <2>3. CASE /\ \/ UNCHANGED sent
                \/ \E n \in {m \in pending : Matches(c, m)} : sent' = sent \union {n}
             /\ outcome' = [outcome EXCEPT ![c] = "warned"]
             /\ Go(c, IF stage[c] = "report" THEN "applied" ELSE "failed")
    <3>1. \/ UNCHANGED sent
          \/ \E n \in pending : sent' = sent \union {n}
      BY <2>3
    <3>2. QED
      BY <2>3, <3>1
  <2>4. QED
    BY <2>2, <2>3 DEF Report
<1>3. /\ stage' \in [Procs -> Stages] /\ stage'[c] = s
      /\ \A q \in Procs \ {c} : stage'[q] = stage[q]
  BY <1>1, <1>2, Moved DEF Stages
<1>4. /\ Kind(c) \in {"delete", "download"}
      /\ c \notin blind =>
           \A n \in pending : Matches(c, n) => n.seq = own[c] /\ n.profile = Target(c)
  BY <1>1 DEF Inv, Sound, Own
<1>5. /\ \A d \in Calls : Kind(d)' = Kind(d) /\ Target(d)' = Target(d) /\ d \in Procs
      /\ \A q \in Procs : Kind(q)' = Kind(q)
  <2>1. program' = program
    BY <1>1
  <2>2. QED
    BY <2>1, Constants, Asked DEF Kind
<1>6. CardTypes'
  <2>1. sent' \subseteq sent \union pending
    BY <1>2
  <2>2. QED
    BY <1>1, <2>1 DEF Inv, TypeOK, CardTypes
<1>7. LockTypes'
  <2>1. /\ UNCHANGED <<opMu, opDone, made, closed, panicked>> /\ channel' \in [Procs -> 0..made]
    BY <1>1 DEF lockVars, Inv, TypeOK, LockTypes
  <2>2. \A q \in Procs : stage'[q] \in Inside \union {"peeked"} <=>
                         stage[q] \in Inside \union {"peeked"}
    BY <1>1, <1>3 DEF Inside
  <2>3. QED
    BY <2>1, <2>2, LockKept
<1>8. CacheTypes'
  BY <1>1 DEF Inv, TypeOK, CacheTypes, cacheVars, historyVars
<1>9. CallTypes'
  <2>1. outcome' \in [Calls -> {"none", "sent", "warned"}]
    BY <1>2 DEF Inv, TypeOK, CallTypes
  <2>2. \A q \in Procs : stage'[q] = "store" <=> stage[q] = "store"
    BY <1>1, <1>3
  <2>3. reloading' = reloading /\ stage'[Reloader] = stage[Reloader]
    BY <1>1, <1>3, Constants DEF cacheVars
  <2>4. QED
    BY <1>1, <1>3, <2>1, <2>2, <2>3 DEF Inv, TypeOK, CallTypes
<1>10. \A d \in Calls : (Confirmed(d) => Confirmed(d)') /\ (SwitchApplied(d) => SwitchApplied(d)')
  <2>1. UNCHANGED <<card, cache>>
    BY <1>1 DEF cacheVars
  <2>2. QED
    BY <1>1, <1>2, <1>3, <1>4, <1>5, <2>1 DEF Confirmed, Writing, SwitchApplied
<1>11. Behind' /\ Fresh'
  <2>1. UNCHANGED <<card, held, gen, missed, generation>>
    BY <1>1 DEF cacheVars, historyVars
  <2>2. Behind'
    BY <1>1, <1>2, <1>3, <2>1 DEF Inv, Sound, Behind, LoadStages
  <2>3. Fresh'
    BY <1>1, <1>2, <1>3, <1>5, <1>10, <2>1 DEF Inv, Sound, Fresh
  <2>4. QED
    BY <2>2, <2>3
<1>12. Cached'
  <2>1. UNCHANGED <<card, cache, stale>>
    BY <1>1 DEF cacheVars
  <2>2. \A d \in Calls : stage'[d] = "applied" /\ Kind(d)' = "switch" => card'.active = Target(d)'
    BY <1>3, <1>4, <1>5, <2>1 DEF Inv, Sound, Cached
  <2>3. QED
    BY <1>10, <2>1, <2>2 DEF Inv, Sound, Cached
<1>13. Numbered'
  <2>1. sent \subseteq sent'
    BY <1>2
  <2>2. QED
    BY <1>1, <2>1 DEF Inv, Sound, Numbered
<1>14. Own'
  BY <1>1, <1>2, <1>3, <1>5 DEF Inv, Sound, Own, Matches
<1>15. Told'
  <2> SUFFICES ASSUME NEW d \in Calls, outcome'[d] = "sent"
               PROVE  /\ stage'[d] \in Left \union {"applied"}
                      /\ \E n \in sent' :
                           /\ n.event = IF Kind(d)' = "delete" THEN "delete" ELSE "install"
                           /\ d \notin blind' => n.seq = own'[d] /\ n.profile = Target(d)'
    BY DEF Told
  <2>1. outcome \in [Calls -> {"none", "sent", "warned"}] /\ sent \subseteq sent'
    BY <1>2 DEF Inv, TypeOK, CallTypes
  <2>2. CASE d = c
    <3>1. o = "sent"
      BY <1>2, <2>1, <2>2
    <3>2. PICK n \in pending : Matches(c, n) /\ sent' = sent \union {n}
      BY <1>2, <3>1
    <3>3. n \in sent'
      BY <3>2
    <3>4. /\ n.event = IF Kind(c) = "delete" THEN "delete" ELSE "install"
          /\ c \notin blind => n.seq = own[c] /\ n.profile = Target(c)
      BY <1>4, <3>2 DEF Matches
    <3>5. QED
      BY <1>1, <1>2, <1>3, <1>5, <2>2, <3>1, <3>3, <3>4
  <2>3. CASE d # c
    <3>1. outcome[d] = "sent" /\ stage'[d] = stage[d]
      BY <1>2, <1>3, <1>5, <2>1, <2>3
    <3>2. QED
      BY <1>1, <1>5, <2>1, <3>1 DEF Inv, Sound, Told
  <2>4. QED
    BY <2>2, <2>3
<1>16. QED
  BY <1>6, <1>7, <1>8, <1>9, <1>11, <1>12, <1>13, <1>14, <1>15 DEF Inv, TypeOK, Sound

\* The calls that list and resend notifications.
LEMMA InvSends ==
  ASSUME Inv, NEW c \in Calls, Clean(c) \/ Resend(c)
  PROVE  Inv'
<1> USE DEF Left, Early, LoadStages, Written, Inside
<1>1. /\ stage[c] = "locked" /\ c \in Procs /\ c # Reloader
      /\ UNCHANGED <<card, nextSeq, lockVars, cacheVars, historyVars, localVars, program>>
      /\ Go(c, "unlock") \/ UNCHANGED stage
  BY Constants DEF Clean, Resend
<1>2. /\ sent \subseteq sent' /\ sent' \subseteq sent \union pending
      /\ pending' \subseteq pending /\ pending \subseteq pending' \union sent'
  BY DEF Clean, Resend
<1>3. /\ stage' \in [Procs -> Stages] /\ stage'[c] \in {"locked", "unlock"}
      /\ \A q \in Procs \ {c} : stage'[q] = stage[q]
  <2>1. CASE Go(c, "unlock")
    BY <1>1, <2>1, Moved DEF Stages
  <2>2. CASE UNCHANGED stage
    BY <1>1, <2>2 DEF Inv, TypeOK, CallTypes
  <2>3. QED
    BY <1>1, <2>1, <2>2
<1>4. CardTypes' /\ CacheTypes'
  <2>1. CardTypes'
    BY <1>1, <1>2 DEF Inv, TypeOK, CardTypes
  <2>2. CacheTypes'
    BY <1>1 DEF Inv, TypeOK, CacheTypes, cacheVars, historyVars
  <2>3. QED
    BY <2>1, <2>2
<1>5. LockTypes'
  <2>1. UNCHANGED <<opMu, opDone, made, closed, panicked>> /\ channel' \in [Procs -> 0..made]
    BY <1>1 DEF lockVars, Inv, TypeOK, LockTypes
  <2>2. \A q \in Procs : stage'[q] \in Inside \union {"peeked"} <=>
                         stage[q] \in Inside \union {"peeked"}
    BY <1>1, <1>3
  <2>3. QED
    BY <2>1, <2>2, LockKept
<1>6. UNCHANGED <<held, gen, baseline, own, blind, outcome, reloading, generation, cache, stale,
                  missed>>
  BY <1>1 DEF localVars, cacheVars, historyVars
<1>7. CallTypes'
  <2>1. /\ UNCHANGED <<program, held, baseline, own, blind, outcome>> /\ gen' \in [Procs -> Nat]
        /\ reloading' \in BOOLEAN
    BY <1>1, <1>6 DEF Inv, TypeOK, CallTypes
  <2>2. \A q \in Procs : stage'[q] = "store" <=> stage[q] = "store"
    BY <1>1, <1>3
  <2>3. reloading' <=> stage'[Reloader] # "done"
    BY <1>1, <1>3, <1>6, Constants DEF Inv, TypeOK, CallTypes
  <2>4. QED
    BY <1>3, <2>1, <2>2, <2>3, CallsKept
<1>8. Sound'
  <2>1. /\ UNCHANGED <<card, nextSeq, held, baseline, own, blind, outcome, program>>
        /\ missed \subseteq missed' /\ gen' \in [Procs -> Nat]
    BY <1>1, <1>6 DEF Inv, TypeOK, CallTypes
  <2>2. /\ \A q \in Procs : stage'[q] = "store" => stage[q] = "store" /\ gen'[q] = gen[q]
        /\ \A q \in Procs : stage'[q] \in Early =>
             gen'[q] <= generation \/ (gen'[q] = gen[q] /\ stage[q] \in Early)
    BY <1>1, <1>3, <1>6
  <2>3. /\ \A d \in Calls : stage'[d] \in Written => stage'[d] = stage[d]
        /\ \A d \in Calls : stage[d] \in Written => stage'[d] = stage[d]
        /\ \A d \in Calls : stage[d] \in Left \union {"applied"} =>
             stage'[d] \in Left \union {"applied"}
    BY <1>1, <1>3, Constants
  <2>4. generation' = generation /\ UNCHANGED <<cache, stale>>
    BY <1>6
  <2>5. QED
    BY <1>2, <2>1, <2>2, <2>3, <2>4, SoundPassed
<1>9. QED
  BY <1>4, <1>5, <1>7, <1>8 DEF Inv, TypeOK

\* Nothing is under way at the start.
LEMMA InvInit ==
  ASSUME Init
  PROVE  Inv
<1>1. /\ program \in Programs /\ \A p \in Procs : stage[p] \in {"new", "done"} /\ gen[p] = 0
      /\ \A c \in Calls : outcome[c] = "none"
  BY DEF Init
<1>2. CardTypes
  <2> DEFINE first == [seq |-> 1, event |-> "delete", profile |-> Leftover]
             second == [seq |-> 2, event |-> "install", profile |-> Leftover]
  <2>1. /\ first \in Notification /\ first.seq = 1
        /\ second \in Notification /\ second.seq = 2
    BY NullAssumption DEF Notification, Events
  <2>2. card \in Snapshots
    BY DEF Init, Snapshots
  <2>3. pending = {first, second} /\ nextSeq = 3 /\ sent = {}
    BY DEF Init
  <2> HIDE DEF first, second
  <2>4. QED
    BY <2>1, <2>2, <2>3 DEF CardTypes
<1>3. LockTypes
  <2>1. /\ opMu = NoCall /\ opDone = 0 /\ made = 0 /\ closed = {}
        /\ channel = [p \in Procs |-> 0]
    BY DEF Init
  <2>2. \A p \in Procs : stage[p] \notin Inside \union {"peeked"} /\ opMu # p
    BY <1>1, <2>1, Constants DEF Inside
  <2>3. panicked \in BOOLEAN
    BY Zenon DEF Init
  <2>4. QED
    BY <2>1, <2>2, <2>3 DEF LockTypes
<1>4. CacheTypes
  <2>1. stale \in BOOLEAN /\ open \in BOOLEAN
    BY Zenon DEF Init
  <2>2. cache = NoSnapshot /\ generation = 0 /\ window = 0 /\ indications = 0 /\ missed = {}
    BY DEF Init
  <2>3. QED
    BY <2>1, <2>2, Constants DEF CacheTypes
<1>5. CallTypes
  <2>1. /\ stage = [p \in Procs |-> IF p = Reloader THEN "done" ELSE "new"]
        /\ held = [p \in Procs |-> NoSnapshot] /\ gen = [p \in Procs |-> 0]
        /\ baseline = [c \in Calls |-> 0] /\ outcome = [c \in Calls |-> "none"]
        /\ own = [c \in Calls |-> 0] /\ blind = {}
        /\ reloading = FALSE
    BY DEF Init
  <2>2. /\ stage \in [Procs -> Stages] /\ stage[Reloader] = "done"
        /\ \A p \in Procs : stage[p] # "store"
    BY <2>1, Constants DEF Stages
  <2>3. QED
    BY <1>1, <2>1, <2>2 DEF CallTypes
<1>6. Behind /\ Fresh /\ Cached /\ Own /\ Told
  <2>1. Behind
    BY <1>1 DEF Behind, Init
  <2>2. Fresh /\ Own /\ Told
    BY <1>1, Constants DEF Fresh, Own, Told
  <2>3. Cached
    BY <1>1, Constants DEF Cached, Init
  <2>4. QED
    BY <2>1, <2>2, <2>3
<1>7. Numbered
  BY DEF Init, Numbered
<1>8. QED
  BY <1>2, <1>3, <1>4, <1>5, <1>6, <1>7 DEF Inv, TypeOK, Sound

\* Every step keeps the invariant.
LEMMA InvNext ==
  ASSUME Inv, [Next]_vars
  PROVE  Inv'
<1>1. CASE UNCHANGED vars
  <2>1. UNCHANGED <<cardVars, lockVars, cacheVars, historyVars, localVars, stage, program>>
    BY <1>1 DEF vars
  <2>2. CardTypes' /\ LockTypes' /\ CacheTypes' /\ CallTypes'
    BY <2>1 DEF Inv, TypeOK, CardTypes, LockTypes, CacheTypes, CallTypes, cardVars, lockVars,
                cacheVars, historyVars, localVars
  <2>3. Sound'
    <3>1. UNCHANGED <<card, pending, nextSeq, sent, cache, generation, stale, missed, held, gen,
                      baseline, own, blind, outcome, stage, program>>
      BY <2>1 DEF cardVars, cacheVars, historyVars, localVars
    <3>2. gen \in [Procs -> Nat]
      BY DEF Inv, TypeOK, CallTypes
    <3>3. QED
      BY <3>1, <3>2, SoundPassed
  <2>4. QED
    BY <2>2, <2>3 DEF Inv, TypeOK
<1>2. ASSUME NEW p \in Procs, LockStep(p) \/ LoadStep(p)
      PROVE  Inv'
  BY <1>2, InvLockStep, InvLoadStep, InvScan, InvStore DEF LoadStep
<1>3. ASSUME NEW c \in Calls, CallStep(c)
      PROVE  Inv'
  <2>1. CASE Lock(c) \/ Unlock(c) \/ ReadDone(c)
    BY <2>1, InvLockStep, Constants
  <2>2. CASE BeginRead(c) \/ ClearForRefresh(c) \/ NotifyWriteDone(c) \/ Listed(c)
    BY <2>2, InvCallStep, InvFinish, InvNotifyWriteDone
  <2>3. CASE Fails(c) \/ FinishWrite(c) \/ FailDownload(c)
    BY <2>3, InvFinish
  <2>4. CASE Switch(c) \/ PatchCachedActiveProfile(c) \/ Disable(c) \/ Rename(c)
    BY <2>4, InvSwitch, InvPatch, InvWrite
  <2>5. CASE DeleteProfile(c) \/ DownloadProfile(c) \/ Report(c) \/ Clean(c) \/ Resend(c)
    BY <2>5, InvDeleteProfile, InvDownloadProfile, InvReport, InvSends
  <2>6. QED
    BY <1>3, <2>1, <2>2, <2>3, <2>4, <2>5 DEF CallStep, WriteStep
<1>4. CASE WindowEnds \/ NotifyUIMIndication \/ NotifyModemReset
  BY <1>4, InvWindowEnds, InvIndicated
<1>5. QED
  BY <1>1, <1>2, <1>3, <1>4 DEF Next, Step

\* The invariant holds in every state.
LEMMA InvAlways == Spec => []Inv
<1>1. Init => Inv
  BY InvInit
<1>2. Inv /\ [Next]_vars => Inv'
  BY InvNext
<1>3. QED
  BY <1>1, <1>2, PTL DEF Spec

-----------------------------------------------------------------------------
\* The state is well formed, and outside a write the overview that the cache shows is what the
\* card holds, whatever loads, writes, resets and failures interleave: a cache is filled by a
\* scan whose generation is the present one, and a write invalidates before it returns.
THEOREM SpecConsistent == Spec => []Consistent
<1>1. Inv => Consistent
  <2> SUFFICES ASSUME Inv, cache # NoSnapshot, ~stale,
                      \A c \in Calls : stage[c] \notin {"applied", "report", "recover", "failed"}
               PROVE  cache = card
    BY DEF Consistent, CacheTruthful, Inv
  <2>1. \A c \in Calls : ~Confirmed(c) /\ ~SwitchApplied(c)
    BY DEF Confirmed, Writing, SwitchApplied
  <2>2. QED
    BY <2>1 DEF Inv, Sound, Cached
<1>2. QED
  BY <1>1, InvAlways, PTL

\* Every notification the card ever numbered is on it or with the operator, and a deletion or
\* a download that returns without a warning has reported itself and no earlier operation,
\* unless it could not list the notifications before it wrote.
THEOREM SpecOperatorInformed == Spec => []OperatorInformed
<1>1. Inv => OperatorInformed
  BY DEF Inv, Sound, Numbered, Told, OperatorInformed
<1>2. QED
  BY <1>1, InvAlways, PTL
=============================================================================
