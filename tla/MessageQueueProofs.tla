-------------------------- MODULE MessageQueueProofs --------------------------
(****************************************************************************)
(* Proofs about the message queue for every queue size and every set of      *)
(* solver threads: the queue keeps its shape, the reader stays on it, and no *)
(* call leaves the arrays, as long as Restart runs while the other threads   *)
(* are outside the messenger; uploads show the entries in their order, and   *)
(* the slots implement the bounded log.                                      *)
(****************************************************************************)
EXTENDS MessageQueue, SequenceTheorems, TLAPS

-------------------------------------------------------------------------------
(* The inductive invariant.                                                  *)

(* The lock is held exactly from "locked" to "linked".                       *)
LockHeld == \A t \in Threads : pc[t] \in Critical <=> msgLock = t

NoCrash == ~fault /\ \A t \in Threads : ~At(t, "crashed")

(* What QuietRestart promises, and the shapes Restart goes through.          *)
QuietInv == \A t \in Threads :
  /\ pc[t] \in Restarting => OthersOutside(t) /\ FreshLinks
  /\ At(t, "restartPtr") => firstEntry = Nil /\ lastEntry = Nil /\ currentEntry = Nil

LinkedInv == \A t \in Threads : At(t, "linked") => lastEntry # Nil

(* A used slot has a text, but for the last one while it is being written.   *)
TextInv ==
  (\A t \in Threads : pc[t] \notin Restarting) =>
    \A i \in Slots : Used(i) =>
      \/ qText[i] # <<>>
      \/ i = lastEntry /\ \E t \in Threads : At(t, "linked")

IteratorInv ==
  /\ currentEntry = Nil => firstEntry = Nil
  /\ pc[UI] \in {"text", "class", "classRead", "eof", "skip"} => currentEntry # Nil

(* An upload on its way to MsgSkip has an entry ahead; if the solvers have   *)
(* caught up with it meanwhile, the links form a ring.                       *)
SkipInv == At(UI, "skip") /\ currentEntry = lastEntry => RingLinks

(* The invariant without the reader; it needs only QuietRestart ...          *)
QueueInv == TypeOK /\ LockHeld /\ QuietInv /\ QueueShape /\ LinkedInv

(* ... and the one that also needs a client that asks MsgEOF before MsgSkip. *)
ReaderInv == ReaderOnQueue /\ TextInv /\ IteratorInv /\ SkipInv /\ NoCrash

-------------------------------------------------------------------------------
(* The user interface is a thread, the owner of a free lock is none.         *)
LEMMA ThreadFacts == UI \in Threads /\ NoThread \notin Threads
BY ThreadAssumption DEF Threads

(* The constructor leaves an empty queue with all slots on the free list.    *)
LEMMA InitQueueInv == Init => QueueInv
<1> SUFFICES ASSUME Init PROVE QueueInv
  OBVIOUS
<1>1. TypeOK
  <2>1. 0 \in Entry /\ Nil \in Entry /\ [i \in Slots |-> i + 1] \in [Slots -> Entry]
    BY QSizeAssumption DEF Entry, Nil, Slots
  <2>2. <<>> \in Seq(Nat) /\ <<>> \in Seq(Seq(Nat) \X Nat)
    OBVIOUS
  <2> QED
    BY <2>1, <2>2 DEF Init, TypeOK, Locations
<1>2. LockHeld /\ QuietInv /\ LinkedInv
  BY ThreadFacts DEF Init, LockHeld, QuietInv, LinkedInv, Critical, Restarting, At
<1>3. QueueShape
  BY DEF Init, QueueShape, At, Empty, FreshLinks
<1> QED
  BY <1>1, <1>2, <1>3 DEF QueueInv

(* No operation of the messenger makes an index anything but a slot or qSize. *)
LEMMA TypeStep == QueueInv /\ [Next]_vars => TypeOK'
<1> SUFFICES ASSUME QueueInv, [Next]_vars PROVE TypeOK'
  OBVIOUS
<1>0. TypeOK /\ Nil \notin Slots /\ Nil \in Entry /\ UI \in Threads /\ 0 \in Slots
  BY QSizeAssumption, ThreadFacts DEF QueueInv, Nil, Slots, Entry
<1>a. ASSUME NEW t \in Threads, MsgAppend(t) PROVE TypeOK'
  <2>1. CASE MsgAppendLock(t)
    BY <1>0, <2>1 DEF MsgAppendLock, TypeOK, queueVars, Goto, Locations
  <2>2. CASE MsgAppendExtend(t)
    <3>1. lastEntry \in Slots
      BY <1>0, <2>2 DEF MsgAppendExtend, TypeOK, Entry
    <3> QED
      BY <1>0, <2>2, <3>1 DEF MsgAppendExtend, TypeOK, Goto, Locations
  <2>3. CASE TakeFree(t)
    <3>1. firstFree \in Slots
      BY <1>0, <2>3 DEF TakeFree, TypeOK, Entry
    <3> QED
      BY <1>0, <2>3, <3>1 DEF TakeFree, TypeOK, Goto, Locations
  <2>4. CASE TakeOldest(t)
    <3>1. firstEntry \in Slots
      BY <1>0, <2>4 DEF TakeOldest, TypeOK, Entry
    <3>2. <<>> \in Seq(Nat)
      OBVIOUS
    <3> QED
      BY <1>0, <2>4, <3>1, <3>2 DEF TakeOldest, TypeOK, Goto, Locations
  <2>5. CASE TakeOutside(t) \/ WriteOutside(t)
    BY <1>0, <2>5 DEF TakeOutside, WriteOutside, Crash, TypeOK, queueVars, Goto, Locations
  <2>6. CASE LinkEntry(t)
    <3>1. nextEntry[t] \in Entry
      BY <1>0 DEF TypeOK
    <3>2. pc' \in [Threads -> Locations]
      BY <1>0, <2>6 DEF LinkEntry, TypeOK, Goto, Locations
    <3>3. CASE lastEntry = Nil
      BY <1>0, <2>6, <3>1, <3>2, <3>3 DEF LinkEntry, TypeOK
    <3>4. CASE lastEntry # Nil
      BY <1>0, <2>6, <3>1, <3>2, <3>4 DEF LinkEntry, TypeOK
    <3> QED
      BY <3>3, <3>4
  <2>7. CASE WriteEntry(t)
    <3>1. lastEntry \in Slots
      BY <1>0, <2>7 DEF WriteEntry, TypeOK, Entry
    <3>2. <<count>> \in Seq(Nat)
      BY <1>0 DEF TypeOK
    <3> QED
      BY <1>0, <2>7, <3>1, <3>2 DEF WriteEntry, TypeOK, Goto, Locations
  <2> QED
    BY <1>a, <2>1, <2>2, <2>3, <2>4, <2>5, <2>6, <2>7 DEF MsgAppend
<1>b. ASSUME NEW t \in Threads, Restart(t) PROVE TypeOK'
  <2>1. [i \in Slots |-> i + 1] \in [Slots -> Entry]
    BY QSizeAssumption DEF Slots, Entry, Nil
  <2>2. Slots \subseteq Entry
    BY DEF Entry
  <2> QED
    BY <1>0, <1>b, <2>1, <2>2
    DEF Restart, RestartLinks, RestartEntries, RestartFree, TypeOK, Goto, Locations
<1>c. ASSUME Upload PROVE TypeOK'
  <2>1. CASE MsgReset
    BY <1>0, <2>1 DEF MsgReset, TypeOK, Goto, Locations
  <2>2. CASE MsgVoid \/ MsgClass \/ MsgEOF \/ ReportBound
    BY <1>0, <2>2 DEF MsgVoid, MsgClass, MsgEOF, ReportBound, Reject, TypeOK, queueVars,
                      Goto, Locations
  <2>3. CASE MsgText
    <3>1. ASSUME currentEntry # Nil
          PROVE  Append(shown, <<qText[currentEntry], 0>>) \in Seq(Seq(Nat) \X Nat)
      <4>1. currentEntry \in Slots
        BY <1>0, <3>1 DEF TypeOK, Entry
      <4>2. <<qText[currentEntry], 0>> \in Seq(Nat) \X Nat
        BY <1>0, <4>1 DEF TypeOK
      <4> QED
        BY <1>0, <4>2 DEF TypeOK
    <3> QED
      BY <1>0, <2>3, <3>1 DEF MsgText, Reject, Crash, TypeOK, queueVars, Goto, Locations
  <2>4. CASE MsgClassRead
    <3>1. ASSUME currentEntry # Nil
          PROVE  [shown EXCEPT ![Len(shown)] = <<@[1], qMsg[currentEntry]>>]
                   \in Seq(Seq(Nat) \X Nat)
      <4>1. currentEntry \in Slots
        BY <1>0, <3>1 DEF TypeOK, Entry
      <4>2. CASE Len(shown) = 0
        <5>1. shown = <<>>
          BY <1>0, <4>2 DEF TypeOK
        <5>2. [<<>> EXCEPT ![0] = <<@[1], qMsg[currentEntry]>>] = <<>>
          OBVIOUS
        <5> QED
          BY <1>0, <4>2, <5>1, <5>2 DEF TypeOK
      <4>3. CASE Len(shown) # 0
        <5>1. shown \in Seq(Seq(Nat) \X Nat) /\ Len(shown) \in 1..Len(shown)
          BY <1>0, <4>3 DEF TypeOK
        <5>2. shown[Len(shown)] \in Seq(Nat) \X Nat
          BY <5>1
        <5>3. <<shown[Len(shown)][1], qMsg[currentEntry]>> \in Seq(Nat) \X Nat
          BY <1>0, <4>1, <5>2 DEF TypeOK
        <5> QED
          BY <5>1, <5>3
      <4> QED
        BY <4>2, <4>3
    <3> QED
      BY <1>0, <2>4, <3>1 DEF MsgClassRead, Crash, TypeOK, queueVars, Goto, Locations
  <2>5. CASE MsgSkip
    BY <1>0, <2>5 DEF MsgSkip, Reject, TypeOK, queueVars, Goto, Locations, Entry
  <2> QED
    BY <1>c, <2>1, <2>2, <2>3, <2>4, <2>5 DEF Upload
<1>d. CASE UNCHANGED vars
  BY <1>0, <1>d DEF vars, queueVars, TypeOK
<1> QED
  BY <1>a, <1>b, <1>c, <1>d DEF Next

(* The holder of the lock is alone: no other thread is inside MsgAppend, and *)
(* nobody restarts.                                                          *)
LEMMA HolderAlone ==
  ASSUME QueueInv, NEW t \in Threads, pc[t] \in Critical
  PROVE  /\ \A u \in Threads : pc[u] \notin Restarting
         /\ \A u \in Threads \ {t} : pc[u] \notin Critical
<1>1. LockHeld /\ QuietInv
  BY DEF QueueInv
<1>2. \A u \in Threads \ {t} : pc[u] \notin Critical
  BY <1>1 DEF LockHeld
<1>3. ASSUME NEW u \in Threads, pc[u] \in Restarting PROVE FALSE
  <2>1. u # t
    BY <1>3 DEF Critical, Restarting
  <2> QED
    BY <1>1, <1>3, <2>1 DEF QuietInv, OthersOutside, Critical
<1> QED
  BY <1>2, <1>3

(* MsgAppend always finds a slot, and has an entry to write.                 *)
LEMMA NothingOutside ==
  ASSUME QueueInv, NEW t \in Threads PROVE ~TakeOutside(t) /\ ~WriteOutside(t)
<1>1. ~WriteOutside(t)
  BY DEF QueueInv, LinkedInv, WriteOutside, At
<1>2. ASSUME TakeOutside(t) PROVE FALSE
  <2>1. pc[t] = "locked" /\ firstFree = Nil /\ firstEntry = Nil
    BY <1>2 DEF TakeOutside, At
  <2>2. \A u \in Threads : pc[u] \notin {"taken"} \union Restarting
    BY <2>1, HolderAlone DEF Critical
  <2>3. Empty \/ Filling \/ Wrapped
    BY <2>2 DEF QueueInv, QueueShape
  <2> QED
    BY <2>1, <2>3, QSizeAssumption
    DEF QueueInv, TypeOK, Entry, Slots, Nil, Empty, Filling, Wrapped, Succ
<1> QED
  BY <1>1, <1>2

(* The lock is passed on from thread to thread.                              *)
LEMMA LockStep == QueueInv /\ [Next]_vars => LockHeld'
<1> SUFFICES ASSUME QueueInv, [Next]_vars PROVE LockHeld'
  OBVIOUS
<1>0. /\ UI \in Threads /\ NoThread \notin Threads
      /\ pc \in [Threads -> Locations] /\ LockHeld
  BY ThreadFacts DEF QueueInv, TypeOK
<1>a. ASSUME NEW t \in Threads, MsgAppend(t) PROVE LockHeld'
  BY <1>0, <1>a, NothingOutside
  DEF MsgAppend, MsgAppendLock, MsgAppendExtend, TakeFree, TakeOldest, LinkEntry,
      WriteEntry, LockHeld, Critical, Goto, At
<1>b. ASSUME NEW t \in Threads, Restart(t) PROVE LockHeld'
  BY <1>0, <1>b DEF Restart, RestartLinks, RestartEntries, RestartFree, LockHeld, Critical,
     Goto, At
<1>c. ASSUME Upload PROVE LockHeld'
  BY <1>0, <1>c DEF Upload, MsgReset, MsgVoid, MsgText, MsgClass, MsgClassRead, MsgEOF,
     MsgSkip, ReportBound, Reject, Crash, LockHeld, Critical, Goto, At
<1>d. CASE UNCHANGED vars
  BY <1>0, <1>d DEF vars, LockHeld
<1> QED
  BY <1>a, <1>b, <1>c, <1>d DEF Next

(* Restart starts while the others are outside, and nobody enters meanwhile. *)
LEMMA QuietStep == QuietRestart /\ QueueInv /\ [Next]_vars => QuietInv'
<1> SUFFICES ASSUME QuietRestart, QueueInv, [Next]_vars PROVE QuietInv'
  OBVIOUS
<1>0. UI \in Threads /\ pc \in [Threads -> Locations] /\ QuietInv
  BY ThreadFacts DEF QueueInv, TypeOK
<1>a. ASSUME NEW t \in Threads, MsgAppend(t) PROVE QuietInv'
  <2>1. \A u \in Threads : pc[u] \notin Restarting
    <3>1. CASE MsgAppendLock(t)
      BY <3>1 DEF MsgAppendLock, Allowed, NobodyRestarts, Restarting
    <3>2. CASE ~MsgAppendLock(t)
      <4>1. pc[t] \in Critical
        BY <1>a, <3>2, NothingOutside DEF MsgAppend, MsgAppendExtend, TakeFree, TakeOldest,
           LinkEntry, WriteEntry, Critical, At
      <4> QED
        BY <4>1, HolderAlone
    <3> QED
      BY <3>1, <3>2
  <2>2. \A u \in Threads : pc'[u] \notin Restarting
    BY <1>0, <1>a, <2>1, NothingOutside
    DEF MsgAppend, MsgAppendLock, MsgAppendExtend, TakeFree, TakeOldest, LinkEntry,
        WriteEntry, Restarting, Goto, At
  <2> QED
    BY <2>2 DEF QuietInv, Restarting, At
<1>b. ASSUME NEW t \in Threads, Restart(t) PROVE QuietInv'
  <2>1. \A u \in Threads \ {t} : pc[u] = "idle" /\ pc'[u] = "idle"
    BY <1>0, <1>b DEF Restart, RestartLinks, RestartEntries, RestartFree, QuietInv,
       OthersOutside, Restarting, Goto, At
  <2>2. pc'[t] \in Restarting => FreshLinks'
    BY <1>0, <1>b DEF Restart, RestartLinks, RestartEntries, RestartFree, QuietInv,
       FreshLinks, Restarting, Goto, At
  <2>3. pc'[t] = "restartPtr" =>
          firstEntry' = Nil /\ lastEntry' = Nil /\ currentEntry' = Nil
    BY <1>0, <1>b DEF Restart, RestartLinks, RestartEntries, RestartFree, Goto, At
  <2> QED
    BY <2>1, <2>2, <2>3 DEF QuietInv, OthersOutside, Restarting, At
<1>c. ASSUME Upload PROVE QuietInv'
  <2>1. \A u \in Threads : pc[u] \notin Restarting
    BY <1>0, <1>c DEF Upload, MsgReset, MsgVoid, MsgText, MsgClass, MsgClassRead, MsgEOF,
       MsgSkip, ReportBound, QuietInv, OthersOutside, Allowed, NobodyRestarts,
       Restarting, At
  <2>2. \A u \in Threads : pc'[u] \notin Restarting
    BY <1>0, <1>c, <2>1 DEF Upload, MsgReset, MsgVoid, MsgText, MsgClass, MsgClassRead,
       MsgEOF, MsgSkip, ReportBound, Reject, Crash, Restarting, Goto, At
  <2> QED
    BY <2>2 DEF QuietInv, Restarting, At
<1>d. CASE UNCHANGED vars
  BY <1>0, <1>d DEF vars, queueVars, QuietInv, OthersOutside, FreshLinks, At
<1> QED
  BY <1>a, <1>b, <1>c, <1>d DEF Next

(* LinkEntry makes the slot the last entry; nobody unsets it until it is     *)
(* written.                                                                  *)
LEMMA LinkedStep == QuietRestart /\ QueueInv /\ [Next]_vars => LinkedInv'
<1> SUFFICES ASSUME QuietRestart, QueueInv, [Next]_vars PROVE LinkedInv'
  OBVIOUS
<1>0. UI \in Threads /\ pc \in [Threads -> Locations] /\ LinkedInv
  BY ThreadFacts DEF QueueInv, TypeOK
<1>a. ASSUME NEW t \in Threads, MsgAppend(t) PROVE LinkedInv'
  <2>1. CASE LinkEntry(t)
    <3>1. nextEntry[t] # Nil
      <4>1. TakenFromFree(nextEntry[t]) \/ TakenFromRing(nextEntry[t])
        BY <2>1 DEF LinkEntry, QueueInv, QueueShape
      <4>2. lastEntry \in Entry
        BY DEF QueueInv, TypeOK
      <4> QED
        BY <4>1, <4>2, QSizeAssumption
        DEF TakenFromFree, TakenFromRing, Succ, Nil, Entry, Slots
    <3> QED
      BY <2>1, <3>1 DEF LinkEntry, LinkedInv, At
  <2>2. CASE ~LinkEntry(t)
    BY <1>0, <1>a, <2>2, NothingOutside
    DEF MsgAppend, MsgAppendLock, MsgAppendExtend, TakeFree, TakeOldest, WriteEntry,
        LinkedInv, queueVars, Goto, At
  <2> QED
    BY <2>1, <2>2
<1>b. ASSUME NEW t \in Threads, Restart(t) PROVE LinkedInv'
  <2>1. \A u \in Threads : pc'[u] # "linked"
    BY <1>0, <1>b DEF QueueInv, Restart, RestartLinks, RestartEntries, RestartFree, QuietInv,
       OthersOutside, Restarting, Goto, At
  <2> QED
    BY <2>1 DEF LinkedInv, At
<1>c. ASSUME Upload PROVE LinkedInv'
  BY <1>0, <1>c DEF Upload, MsgReset, MsgVoid, MsgText, MsgClass, MsgClassRead, MsgEOF,
     MsgSkip, ReportBound, Reject, Crash, LinkedInv, queueVars, Goto, At
<1>d. CASE UNCHANGED vars
  BY <1>0, <1>d DEF vars, queueVars, LinkedInv, At
<1> QED
  BY <1>a, <1>b, <1>c, <1>d DEF Next

(* Linking a recycled slot leaves a ring; the links of a full queue that has *)
(* never recycled a slot become one.                                         *)
LEMMA CloseRing ==
  ASSUME TypeOK, NEW e, TakenFromRing(e)
  PROVE  [qNext EXCEPT ![lastEntry] = e] = [i \in Slots |-> Succ(i)]
<1>1. lastEntry \in Slots /\ e = Succ(lastEntry)
  BY DEF TakenFromRing, TypeOK, Entry
<1>2. CASE RingLinks
  BY <1>1, <1>2 DEF RingLinks
<1>3. CASE lastEntry = QSize - 1 /\ FreshLinks
  BY <1>1, <1>3, QSizeAssumption DEF FreshLinks, Slots, Succ
<1> QED
  BY <1>2, <1>3 DEF TakenFromRing

(* MsgAppend, step by step, and Restart keep the lists of slots in shape.    *)
LEMMA ShapeStep == QuietRestart /\ QueueInv /\ [Next]_vars => QueueShape'
<1> SUFFICES ASSUME QuietRestart, QueueInv, [Next]_vars PROVE QueueShape'
  OBVIOUS
<1>0. UI \in Threads /\ TypeOK /\ QueueShape /\ pc \in [Threads -> Locations]
  BY ThreadFacts DEF QueueInv, TypeOK
<1> DEFINE Steady == Empty \/ Filling \/ Wrapped
<1>a. ASSUME NEW t \in Threads, MsgAppend(t) PROVE QueueShape'
  <2>0. pc[t] \in Critical =>
          /\ \A u \in Threads : pc[u] \notin Restarting
          /\ \A u \in Threads \ {t} : pc[u] # "taken"
    BY HolderAlone DEF Critical
  <2>1. CASE MsgAppendLock(t) \/ MsgAppendExtend(t) \/ WriteEntry(t)
    <3>1. /\ \A u \in Threads : pc'[u] = "taken" <=> pc[u] = "taken"
          /\ \A u \in Threads : pc'[u] \in Restarting <=> pc[u] \in Restarting
          /\ UNCHANGED <<firstEntry, lastEntry, firstFree, qNext, nextEntry>>
      BY <1>0, <2>1 DEF MsgAppendLock, MsgAppendExtend, WriteEntry, queueVars, Restarting,
         Goto, At
    <3> QED
      BY <1>0, <3>1 DEF QueueShape, TakenFromFree, TakenFromRing, Empty, Filling, Wrapped,
         FreshLinks, RingLinks, At
  <2>2. CASE TakeFree(t)
    <3>1. Steady /\ firstFree # Nil
      BY <1>0, <2>0, <2>2 DEF TakeFree, QueueShape, At, Critical
    <3>2. TakenFromFree(nextEntry[t])'
      <4>0. nextEntry'[t] = firstFree
        BY <1>0, <2>2 DEF TakeFree, TypeOK
      <4>1. CASE Empty
        BY <1>0, <2>2, <3>1, <4>0, <4>1, QSizeAssumption
        DEF TakeFree, Empty, TakenFromFree, FreshLinks, TypeOK, Entry, Slots, Nil
      <4>2. CASE Filling
        BY <1>0, <2>2, <3>1, <4>0, <4>2, QSizeAssumption
        DEF TakeFree, Filling, TakenFromFree, FreshLinks, TypeOK, Entry, Slots, Nil
      <4> QED
        BY <3>1, <4>1, <4>2 DEF Wrapped
    <3> QED
      BY <1>0, <2>0, <2>2, <3>2 DEF TakeFree, QueueShape, Critical, Goto, At, TypeOK
  <2>3. CASE TakeOldest(t)
    <3>1. Steady /\ firstFree = Nil /\ firstEntry # Nil
      BY <1>0, <2>0, <2>3 DEF TakeOldest, QueueShape, At, Critical
    <3>2. /\ firstEntry = Succ(lastEntry) /\ lastEntry \in Slots
          /\ RingLinks \/ (lastEntry = QSize - 1 /\ FreshLinks)
      BY <1>0, <3>1, QSizeAssumption
      DEF Empty, Filling, Wrapped, TypeOK, Entry, Slots, Nil, Succ
    <3>3. qNext[firstEntry] = Succ(firstEntry)
      BY <3>2, QSizeAssumption DEF RingLinks, FreshLinks, Slots, Succ
    <3>4. nextEntry'[t] = firstEntry /\ firstEntry' = Succ(firstEntry)
      BY <1>0, <2>3, <3>3 DEF TakeOldest, TypeOK
    <3>5. lastEntry # Nil
      BY <3>2, QSizeAssumption DEF Slots, Nil
    <3>6. TakenFromRing(nextEntry[t])'
      BY <2>3, <3>1, <3>2, <3>4, <3>5 DEF TakeOldest, TakenFromRing, RingLinks, FreshLinks
    <3> QED
      BY <1>0, <2>0, <2>3, <3>6 DEF TakeOldest, QueueShape, Critical, Goto, At
  <2>4. CASE LinkEntry(t)
    <3> DEFINE e == nextEntry[t]
    <3>1. TakenFromFree(e) \/ TakenFromRing(e)
      BY <1>0, <2>4 DEF LinkEntry, QueueShape
    <3>2. Steady'
      <4>1. CASE TakenFromFree(e) /\ e = 0
        BY <2>4, <4>1 DEF LinkEntry, TakenFromFree, Filling, FreshLinks, Nil
      <4>2. CASE TakenFromFree(e) /\ e # 0
        <5>1. e \in Slots /\ lastEntry \in Slots /\ lastEntry = e - 1 /\ lastEntry # Nil
          BY <1>0, <4>2, QSizeAssumption DEF TakenFromFree, TypeOK, Entry, Slots, Nil
        <5>2. [qNext EXCEPT ![lastEntry] = e] = qNext
          <6>1. e = lastEntry + 1 /\ qNext = [i \in Slots |-> i + 1]
            BY <4>2, <5>1 DEF TakenFromFree, FreshLinks, Slots
          <6> QED
            BY <5>1, <6>1
        <5> QED
          BY <2>4, <4>2, <5>1, <5>2 DEF LinkEntry, TakenFromFree, Filling, FreshLinks
      <4>3. CASE TakenFromRing(e)
        <5>1. lastEntry \in Slots /\ e = Succ(lastEntry) /\ e # Nil /\ lastEntry # Nil
          BY <1>0, <4>3, QSizeAssumption
          DEF TakenFromRing, TypeOK, Entry, Slots, Nil, Succ
        <5>2. [qNext EXCEPT ![lastEntry] = e] = [i \in Slots |-> Succ(i)]
          BY <1>0, <4>3, CloseRing
        <5> QED
          BY <2>4, <4>3, <5>1, <5>2 DEF LinkEntry, TakenFromRing, Wrapped, RingLinks
      <4> QED
        BY <3>1, <4>1, <4>2, <4>3
    <3>3. \A u \in Threads : pc'[u] # "taken"
      BY <1>0, <2>0, <2>4 DEF LinkEntry, Critical, Goto, At
    <3> QED
      BY <3>2, <3>3 DEF QueueShape, At
  <2> QED
    BY <1>a, <2>1, <2>2, <2>3, <2>4, NothingOutside DEF MsgAppend
<1>b. ASSUME NEW t \in Threads, Restart(t) PROVE QueueShape'
  <2>1. \A u \in Threads : pc'[u] # "taken"
    BY <1>0, <1>b DEF QueueInv, Restart, RestartLinks, RestartEntries, RestartFree, QuietInv,
       OthersOutside, Restarting, Goto, At
  <2>2. CASE RestartLinks(t) \/ RestartEntries(t)
    BY <1>0, <2>1, <2>2 DEF RestartLinks, RestartEntries, QueueShape, Restarting, Goto, At
  <2>3. CASE RestartFree(t)
    <3>1. Empty'
      BY <2>3 DEF RestartFree, QueueInv, QuietInv, Empty, FreshLinks, Restarting, At
    <3> QED
      BY <2>1, <3>1 DEF QueueShape, At
  <2> QED
    BY <1>b, <2>2, <2>3 DEF Restart
<1>c. ASSUME Upload PROVE QueueShape'
  <2>1. /\ \A u \in Threads : pc'[u] = "taken" <=> pc[u] = "taken"
        /\ \A u \in Threads : pc'[u] \in Restarting <=> pc[u] \in Restarting
        /\ UNCHANGED <<firstEntry, lastEntry, firstFree, qNext, nextEntry>>
    BY <1>0, <1>c DEF Upload, MsgReset, MsgVoid, MsgText, MsgClass, MsgClassRead, MsgEOF,
       MsgSkip, ReportBound, Reject, Crash, queueVars, Restarting, Goto, At
  <2> QED
    BY <1>0, <2>1 DEF QueueShape, TakenFromFree, TakenFromRing, Empty, Filling, Wrapped,
       FreshLinks, RingLinks, At
<1>d. CASE UNCHANGED vars
  BY <1>0, <1>d DEF vars, queueVars, QueueShape, TakenFromFree, TakenFromRing, Empty,
     Filling, Wrapped, FreshLinks, RingLinks, At
<1> QED
  BY <1>a, <1>b, <1>c, <1>d DEF Next

-------------------------------------------------------------------------------
(* The reader.  These steps also need a client that calls MsgSkip only when  *)
(* MsgEOF is false.                                                          *)

(* At the start there is no entry and no iterator.                           *)
LEMMA InitReaderInv == Init => ReaderInv
<1> SUFFICES ASSUME Init PROVE ReaderInv
  OBVIOUS
<1> QED
  BY ThreadFacts DEF Init, ReaderInv, ReaderOnQueue, TextInv, IteratorInv, SkipInv, NoCrash, Used, At

(* What is known of the lists when nobody holds the lock.                    *)
LEMMA QuietShape ==
  ASSUME QueueInv, msgLock = NoThread, \A t \in Threads : pc[t] \notin Restarting
  PROVE  (Empty \/ Filling \/ Wrapped) /\ \A t \in Threads : ~At(t, "taken") /\ ~At(t, "linked")
<1>1. \A t \in Threads : pc[t] \notin Critical
  BY ThreadFacts DEF QueueInv, LockHeld
<1> QED
  BY <1>1 DEF QueueInv, QueueShape, Critical, At

(* The step to the next entry from one that is not the last.                 *)
LEMMA NextUsed ==
  ASSUME TypeOK, Filling \/ Wrapped, Used(currentEntry),
         currentEntry = lastEntry => RingLinks
  PROVE  qNext[currentEntry] \in Slots /\ Used(qNext[currentEntry])
<1>1. currentEntry \in Slots /\ lastEntry \in Slots
  BY DEF TypeOK, Used, Entry
<1>2. CASE Filling
  <2>1. ~RingLinks
    <3>1. QSize - 1 \in Slots
      BY QSizeAssumption DEF Slots
    <3> QED
      BY <1>2, <3>1, QSizeAssumption DEF Filling, FreshLinks, RingLinks, Succ
  <2> QED
    BY <1>1, <1>2, <2>1, QSizeAssumption DEF Used, Filling, FreshLinks, Slots, Nil
<1>3. CASE Wrapped
  <2>1. qNext[currentEntry] = Succ(currentEntry)
    BY <1>1, <1>3 DEF Wrapped, RingLinks
  <2> QED
    BY <1>1, <1>3, <2>1, QSizeAssumption DEF Used, Wrapped, Slots, Nil, Succ
<1> QED
  BY <1>2, <1>3

(* The calls of an upload do not move the lists, and run outside the lock    *)
(* and outside a restart.                                                    *)
LEMMA UploadFrame ==
  ASSUME QuietRestart, QueueInv, Upload
  PROVE  /\ UNCHANGED <<firstEntry, lastEntry, firstFree, qNext, qText, nextEntry>>
         /\ \A u \in Threads : pc[u] \notin Restarting /\ pc'[u] \notin Restarting
         /\ \A u \in Threads : pc'[u] = "taken" <=> pc[u] = "taken"
         /\ \A u \in Threads : pc'[u] = "linked" <=> pc[u] = "linked"
<1>0. UI \in Threads /\ pc \in [Threads -> Locations] /\ QuietInv
  BY ThreadFacts DEF QueueInv, TypeOK
<1>1. \A u \in Threads : pc[u] \notin Restarting
  BY <1>0 DEF Upload, MsgReset, MsgVoid, MsgText, MsgClass, MsgClassRead, MsgEOF, MsgSkip,
     ReportBound, QuietInv, OthersOutside, Allowed, NobodyRestarts, Restarting, At
<1> QED
  BY <1>0, <1>1 DEF Upload, MsgReset, MsgVoid, MsgText, MsgClass, MsgClassRead, MsgEOF,
     MsgSkip, ReportBound, Reject, Crash, queueVars, Restarting, Goto, At

(* Reading: the iterator is where ReaderOnQueue wants it, and an upload that *)
(* is past MsgVoid has an entry to read.                                     *)
LEMMA UploadStep ==
  ASSUME QuietRestart, ~RawClient, QueueInv, ReaderInv, Upload PROVE ReaderInv'
<1>0. /\ UI \in Threads /\ pc \in [Threads -> Locations] /\ TypeOK
      /\ ReaderOnQueue /\ TextInv /\ IteratorInv /\ SkipInv /\ NoCrash
  BY ThreadFacts DEF QueueInv, ReaderInv, TypeOK
<1>1. \A u \in Threads : pc[u] \notin Restarting
  BY UploadFrame
<1>2. TextInv'
  BY <1>0, UploadFrame DEF TextInv, Used, At
<1>3. CASE MsgReset
  <2>1. (Empty \/ Filling \/ Wrapped) /\ currentEntry' = firstEntry
    BY <1>1, <1>3, QuietShape DEF MsgReset
  <2>2. currentEntry' = Nil \/ Used(currentEntry)'
    BY <1>0, <1>3, <2>1, QSizeAssumption
    DEF MsgReset, Used, Empty, Filling, Wrapped, TypeOK, Entry, Slots, Nil, Succ
  <2>3. IteratorInv' /\ SkipInv' /\ NoCrash'
    BY <1>0, <1>3 DEF MsgReset, IteratorInv, SkipInv, NoCrash, Goto, At
  <2> QED
    BY <1>2, <2>2, <2>3 DEF ReaderInv, ReaderOnQueue
<1>4. CASE MsgVoid \/ MsgEOF \/ ReportBound
  <2>1. UNCHANGED currentEntry
    BY <1>4 DEF MsgVoid, MsgEOF, ReportBound, queueVars
  <2>2. ReaderOnQueue'
    BY <1>0, <1>1, <2>1, UploadFrame
    DEF ReaderOnQueue, Used, TakenFromRing, RingLinks, FreshLinks, At
  <2>3. IteratorInv' /\ SkipInv' /\ NoCrash'
    BY <1>0, <1>4, <2>1, UploadFrame
    DEF MsgVoid, MsgEOF, ReportBound, AtEnd, IteratorInv, SkipInv, NoCrash, Goto, At
  <2> QED
    BY <1>2, <2>2, <2>3 DEF ReaderInv
<1>5. CASE MsgText \/ MsgClass \/ MsgClassRead
  <2>1. currentEntry # Nil
    BY <1>0, <1>5 DEF MsgText, MsgClass, MsgClassRead, IteratorInv, At
  <2>2. MsgText => qText[currentEntry] # <<>>
    <3>1. SUFFICES ASSUME MsgText PROVE qText[currentEntry] # <<>>
      OBVIOUS
    <3>2. \A t \in Threads : ~At(t, "taken") /\ ~At(t, "linked")
      BY <1>1, <3>1, QuietShape DEF MsgText
    <3>3. Used(currentEntry) /\ currentEntry \in Slots
      BY <1>0, <1>1, <2>1, <3>2 DEF ReaderOnQueue, TypeOK, Entry
    <3> QED
      BY <1>0, <1>1, <3>2, <3>3 DEF TextInv
  <2>3. UNCHANGED currentEntry
    BY <1>5 DEF MsgText, MsgClass, MsgClassRead, Reject, Crash, queueVars
  <2>4. ReaderOnQueue'
    BY <1>0, <1>1, <2>3, UploadFrame
    DEF ReaderOnQueue, Used, TakenFromRing, RingLinks, FreshLinks, At
  <2>5. IteratorInv' /\ SkipInv' /\ NoCrash'
    BY <1>0, <1>5, <2>1, <2>2, <2>3, UploadFrame
    DEF MsgText, MsgClass, MsgClassRead, IteratorInv, SkipInv, NoCrash, Goto, At
  <2> QED
    BY <1>2, <2>4, <2>5 DEF ReaderInv
<1>6. CASE MsgSkip
  <2>1. /\ At(UI, "skip") /\ currentEntry # Nil
        /\ (Empty \/ Filling \/ Wrapped)
        /\ \A t \in Threads : ~At(t, "taken")
    BY <1>0, <1>1, <1>6, QuietShape DEF MsgSkip, IteratorInv, At
  <2>2. Used(currentEntry)
    BY <1>0, <1>1, <2>1 DEF ReaderOnQueue
  <2>3. qNext[currentEntry] \in Slots /\ Used(qNext[currentEntry])
    <3>1. Filling \/ Wrapped
      BY <2>1, <2>2 DEF Empty, Used
    <3> QED
      BY <1>0, <2>1, <2>2, <3>1, NextUsed DEF SkipInv
  <2>4. currentEntry' = qNext[currentEntry] /\ pc' = [pc EXCEPT ![UI] = "text"] /\ ~fault'
    BY <1>0, <1>6, <2>1, <2>3, QSizeAssumption DEF MsgSkip, NoCrash, Goto, Slots, Nil
  <2>5. ReaderOnQueue'
    BY <2>3, <2>4, UploadFrame DEF ReaderOnQueue, Used
  <2>6. IteratorInv' /\ SkipInv' /\ NoCrash'
    BY <1>0, <2>3, <2>4, QSizeAssumption DEF IteratorInv, SkipInv, NoCrash, At, Slots, Nil
  <2> QED
    BY <1>2, <2>5, <2>6 DEF ReaderInv
<1> QED
  BY <1>3, <1>4, <1>5, <1>6 DEF Upload

(* Appending: the reader keeps an entry, and the texts of the used slots     *)
(* stay, whichever slot is taken.                                            *)
LEMMA AppendStep ==
  ASSUME QuietRestart, QueueInv, ReaderInv, NEW t \in Threads, MsgAppend(t) PROVE ReaderInv'
<1>0. /\ UI \in Threads /\ pc \in [Threads -> Locations] /\ TypeOK /\ QueueShape
      /\ ReaderOnQueue /\ TextInv /\ IteratorInv /\ SkipInv /\ NoCrash
  BY ThreadFacts DEF QueueInv, ReaderInv, TypeOK
<1>1. NoCrash'
  BY <1>0, NothingOutside DEF MsgAppend, MsgAppendLock, MsgAppendExtend, TakeFree,
     TakeOldest, LinkEntry, WriteEntry, NoCrash, Goto, At
<1>2. /\ \A u \in Threads : pc[u] \notin Restarting
      /\ pc[t] \in Critical => \A u \in Threads \ {t} : pc[u] \notin Critical
  <2>1. CASE MsgAppendLock(t)
    BY <2>1, HolderAlone DEF MsgAppendLock, Allowed, NobodyRestarts, Restarting
  <2>2. CASE ~MsgAppendLock(t)
    <3>1. pc[t] \in Critical
      BY <2>2, NothingOutside DEF MsgAppend, MsgAppendExtend, TakeFree, TakeOldest, LinkEntry,
         WriteEntry, Critical, At
    <3> QED
      BY <3>1, HolderAlone
  <2> QED
    BY <2>1, <2>2
<1>3. CASE MsgAppendLock(t)
  <2>1. /\ UNCHANGED <<firstEntry, lastEntry, currentEntry, firstFree, qNext, qText, nextEntry>>
        /\ \A u \in Threads : pc'[u] = "taken" <=> pc[u] = "taken"
        /\ \A u \in Threads : pc'[u] = "linked" <=> pc[u] = "linked"
        /\ pc'[UI] \in {"text", "class", "classRead", "eof", "skip"} => pc'[UI] = pc[UI]
    BY <1>0, <1>3 DEF MsgAppendLock, queueVars, Goto, At
  <2> QED
    BY <1>0, <1>1, <1>2, <2>1
    DEF ReaderInv, ReaderOnQueue, TextInv, IteratorInv, SkipInv, Used, TakenFromRing, RingLinks,
        FreshLinks, At
<1>4. CASE MsgAppendExtend(t)
  <2>0. pc[t] = "locked" /\ \A u \in Threads : pc[u] # "taken" /\ pc[u] # "linked"
    BY <1>2, <1>4 DEF MsgAppendExtend, Critical, At
  <2>1. /\ UNCHANGED <<firstEntry, lastEntry, currentEntry, firstFree, qNext, nextEntry>>
        /\ pc' = [pc EXCEPT ![t] = "idle"]
    BY <1>4 DEF MsgAppendExtend, Goto
  <2>2. \A i \in Slots : qText[i] # <<>> => qText'[i] # <<>>
    <3>1. SUFFICES ASSUME NEW i \in Slots, qText[i] # <<>> PROVE qText'[i] # <<>>
      OBVIOUS
    <3>2. qText[i] \in Seq(Nat) /\ count \in Nat
      BY <1>0, <3>1 DEF TypeOK
    <3>3. Append(qText[i], count) # <<>>
      BY <3>2
    <3> QED
      BY <1>0, <1>4, <3>1, <3>3 DEF MsgAppendExtend, TypeOK
  <2>3. TextInv'
    BY <1>0, <1>2, <2>0, <2>1, <2>2 DEF TextInv, Used, Restarting, At
  <2>4. ReaderOnQueue'
    BY <1>0, <1>2, <2>0, <2>1 DEF ReaderOnQueue, Used, At
  <2>5. IteratorInv' /\ SkipInv'
    BY <1>0, <2>1 DEF IteratorInv, SkipInv, RingLinks, At
  <2> QED
    BY <1>1, <2>3, <2>4, <2>5 DEF ReaderInv
<1>5. CASE TakeFree(t)
  <2>0. pc[t] = "locked" /\ \A u \in Threads : pc[u] # "taken" /\ pc[u] # "linked"
    BY <1>2, <1>5 DEF TakeFree, Critical, At
  <2>1. /\ UNCHANGED <<firstEntry, lastEntry, currentEntry, qNext, qText>>
        /\ pc' = [pc EXCEPT ![t] = "taken"]
    BY <1>5 DEF TakeFree, Goto
  <2> QED
    BY <1>0, <1>1, <1>2, <2>0, <2>1
    DEF ReaderInv, ReaderOnQueue, TextInv, IteratorInv, SkipInv, Used, RingLinks, Restarting, At
<1>6. CASE TakeOldest(t)
  <2>0. pc[t] = "locked" /\ \A u \in Threads : pc[u] # "taken" /\ pc[u] # "linked"
    BY <1>2, <1>6 DEF TakeOldest, Critical, At
  <2>1. /\ UNCHANGED <<lastEntry, currentEntry, qNext>>
        /\ pc' = [pc EXCEPT ![t] = "taken"] /\ nextEntry'[t] = firstEntry
        /\ firstEntry \in Slots
        /\ qText' = [qText EXCEPT ![firstEntry] = <<>>]
    BY <1>0, <1>6 DEF TakeOldest, Goto, TypeOK, Entry
  <2>2. QueueShape'
    BY <1>6, ShapeStep DEF Next, MsgAppend
  <2>3. TakenFromRing(nextEntry[t])'
    <3>1. (TakenFromFree(nextEntry[t]) \/ TakenFromRing(nextEntry[t]))'
      BY <2>1, <2>2, <1>0 DEF QueueShape, At
    <3>2. Empty \/ Filling \/ Wrapped
      BY <1>0, <1>2, <2>0 DEF QueueShape, At
    <3>3. firstFree = Nil /\ firstFree' = Nil /\ lastEntry' = lastEntry
      BY <1>6 DEF TakeOldest
    <3>4. CASE Filling
      <4>1. lastEntry = QSize - 1 /\ firstEntry = 0
        BY <1>0, <3>3, <3>4, QSizeAssumption DEF Filling, TypeOK, Entry, Slots, Nil
      <4> QED
        BY <2>1, <3>1, <3>3, <4>1, QSizeAssumption DEF TakenFromFree, Nil
    <3>5. CASE Wrapped
      <4>1. ~FreshLinks'
        <5>1. QSize - 1 \in Slots
          BY QSizeAssumption DEF Slots
        <5> QED
          BY <2>1, <3>5, <5>1, QSizeAssumption DEF Wrapped, FreshLinks, RingLinks, Succ
      <4> QED
        BY <3>1, <4>1 DEF TakenFromFree
    <3> QED
      BY <1>6, <3>2, <3>3, <3>4, <3>5, QSizeAssumption DEF TakeOldest, Empty, Nil
  <2>4. /\ lastEntry \in Slots /\ firstEntry = Succ(lastEntry) /\ firstEntry' = Succ(firstEntry)
    BY <1>0, <2>1, <2>3 DEF TakenFromRing, TypeOK, Entry
  <2>5. \A i \in Slots : /\ Used(i)' => Used(i) /\ i # firstEntry
                         /\ Used(i) => Used(i)' \/ i = firstEntry
    BY <2>1, <2>4, QSizeAssumption DEF Used, Succ, Slots, Nil
  <2>6. TextInv'
    BY <1>0, <1>2, <2>0, <2>1, <2>5 DEF TextInv, TypeOK, Restarting, At
  <2>7. ReaderOnQueue'
    <3>1. currentEntry = Nil \/ (currentEntry \in Slots /\ Used(currentEntry))
      BY <1>0, <1>2, <2>0 DEF ReaderOnQueue, Used, At
    <3>2. currentEntry' = Nil \/ Used(currentEntry)' \/ currentEntry' = nextEntry'[t]
      <4>1. CASE currentEntry \in Slots /\ Used(currentEntry)
        <5>1. Used(currentEntry)' \/ currentEntry = firstEntry
          BY <2>1, <2>5, <4>1 DEF Used
        <5> QED
          BY <2>1, <5>1
      <4> QED
        BY <2>1, <3>1, <4>1
    <3>3. pc'[t] = "taken"
      BY <1>0, <2>1
    <3> QED
      BY <2>3, <3>2, <3>3 DEF ReaderOnQueue, At
  <2>8. IteratorInv' /\ SkipInv'
    <3>1. currentEntry # Nil
      BY <1>0, <2>1, QSizeAssumption DEF IteratorInv, Slots, Nil
    <3> QED
      BY <1>0, <2>1, <3>1 DEF IteratorInv, SkipInv, RingLinks, At
  <2> QED
    BY <1>1, <2>6, <2>7, <2>8 DEF ReaderInv
<1>7. CASE LinkEntry(t)
  <2> DEFINE e == nextEntry[t]
  <2>0. pc[t] = "taken" /\ \A u \in Threads \ {t} : pc[u] # "taken" /\ pc[u] # "linked"
    BY <1>2, <1>7 DEF LinkEntry, Critical, At
  <2>1. /\ lastEntry' = e /\ UNCHANGED <<qText, nextEntry>> /\ pc' = [pc EXCEPT ![t] = "linked"]
        /\ lastEntry = Nil => firstEntry' = e /\ currentEntry' = e
        /\ lastEntry # Nil => UNCHANGED <<firstEntry, currentEntry>>
    BY <1>7 DEF LinkEntry, Goto
  <2>2. TakenFromFree(e) \/ TakenFromRing(e)
    BY <1>0, <2>0 DEF QueueShape, At
  <2>3. /\ e \in Slots /\ lastEntry \in Slots \union {Nil}
        /\ lastEntry # Nil => firstEntry \in Slots
        /\ lastEntry = Nil <=> firstEntry = Nil
    BY <1>0, <2>2, QSizeAssumption
    DEF TakenFromFree, TakenFromRing, TypeOK, Entry, Slots, Nil, Succ
  <2>4. Used(e)' /\ \A i \in Slots : /\ Used(i) => Used(i)'
                                     /\ Used(i)' => Used(i) \/ i = e
    <3>1. CASE lastEntry = Nil
      BY <2>1, <2>3, <3>1, QSizeAssumption DEF Used, Slots, Nil
    <3>2. CASE lastEntry # Nil
      BY <2>1, <2>2, <2>3, <3>2, QSizeAssumption
      DEF Used, TakenFromFree, TakenFromRing, Slots, Nil, Succ
    <3> QED
      BY <3>1, <3>2
  <2>5. TextInv'
    <3>1. pc'[t] = "linked"
      BY <1>0, <2>1
    <3>2. \A i \in Slots : Used(i) => qText[i] # <<>>
      BY <1>0, <1>2, <2>0 DEF TextInv, At
    <3> QED
      BY <2>1, <2>4, <3>1, <3>2 DEF TextInv, At
  <2>6. currentEntry' # Nil /\ currentEntry' \in Slots /\ Used(currentEntry)'
    <3>1. CASE lastEntry = Nil
      BY <2>1, <2>3, <2>4, <3>1, QSizeAssumption DEF Slots, Nil
    <3>2. CASE lastEntry # Nil
      <4>1. currentEntry # Nil /\ currentEntry \in Slots
        BY <1>0, <2>3, <3>2, QSizeAssumption DEF IteratorInv, TypeOK, Entry, Slots, Nil
      <4>2. Used(currentEntry) \/ currentEntry = e
        BY <1>0, <1>2, <2>0, <4>1 DEF ReaderOnQueue, At
      <4>3. currentEntry' = currentEntry
        BY <2>1, <3>2
      <4>4. PICK c \in Slots : c = currentEntry
        BY <4>1
      <4>5. Used(c)'
        BY <2>1, <2>4, <4>2, <4>4 DEF Used
      <4> QED
        BY <4>1, <4>3, <4>4, <4>5 DEF Used
    <3> QED
      BY <3>1, <3>2
  <2>7. ReaderOnQueue' /\ IteratorInv'
    BY <2>6 DEF ReaderOnQueue, IteratorInv
  <2>8. SkipInv'
    <3>1. SUFFICES ASSUME pc'[UI] = "skip", currentEntry' = e PROVE RingLinks'
      BY <2>1 DEF SkipInv, At
    <3>2. pc[UI] = "skip" /\ t # UI
      BY <1>0, <2>0, <2>1, <3>1
    <3>3. currentEntry # Nil
      BY <1>0, <3>2 DEF IteratorInv
    <3>4. lastEntry # Nil
      <4>1. CASE lastEntry = Nil
        <5>1. firstEntry = Nil /\ ~TakenFromRing(e)
          BY <2>3, <4>1 DEF TakenFromRing
        <5> QED
          BY <1>0, <1>2, <2>0, <3>3, <5>1 DEF ReaderOnQueue, Used, TakenFromRing, At
      <4> QED
        BY <4>1
    <3>5. currentEntry = e
      BY <2>1, <3>1, <3>4
    <3>6. TakenFromRing(e)
      <4>1. CASE TakenFromFree(e)
        <5>1. ~Used(currentEntry)
          BY <2>3, <3>4, <3>5, <4>1, QSizeAssumption DEF Used, TakenFromFree, Slots, Nil
        <5> QED
          BY <1>0, <1>2, <3>3, <3>5, <5>1 DEF ReaderOnQueue
      <4> QED
        BY <2>2, <4>1
    <3> QED
      BY <1>0, <1>7, <3>4, <3>6, CloseRing DEF LinkEntry, RingLinks
  <2> QED
    BY <1>1, <2>5, <2>7, <2>8 DEF ReaderInv
<1>8. CASE WriteEntry(t)
  <2>0. pc[t] = "linked" /\ \A u \in Threads \ {t} : pc[u] # "taken" /\ pc[u] # "linked"
    BY <1>2, <1>8 DEF WriteEntry, Critical, At
  <2>1. /\ UNCHANGED <<firstEntry, lastEntry, currentEntry, qNext>>
        /\ lastEntry \in Slots
        /\ qText' = [qText EXCEPT ![lastEntry] = <<count>>] /\ pc' = [pc EXCEPT ![t] = "idle"]
    BY <1>0, <1>8 DEF WriteEntry, Goto, TypeOK, Entry
  <2>2. \A i \in Slots : Used(i)' <=> Used(i)
    BY <2>1 DEF Used
  <2>3. TextInv'
    BY <1>0, <1>2, <2>0, <2>1, <2>2 DEF TextInv, TypeOK, At
  <2>4. ReaderOnQueue' /\ IteratorInv' /\ SkipInv'
    BY <1>0, <1>2, <2>0, <2>1 DEF ReaderOnQueue, Used, IteratorInv, SkipInv, RingLinks, At
  <2> QED
    BY <1>1, <2>3, <2>4 DEF ReaderInv
<1> QED
  BY <1>3, <1>4, <1>5, <1>6, <1>7, <1>8, NothingOutside DEF MsgAppend

(* A restart leaves no entry, and nobody is reading.                         *)
LEMMA RestartStep ==
  ASSUME QuietRestart, QueueInv, ReaderInv, NEW t \in Threads, Restart(t) PROVE ReaderInv'
<1>0. /\ UI \in Threads /\ pc \in [Threads -> Locations]
      /\ ReaderOnQueue /\ TextInv /\ IteratorInv /\ SkipInv /\ NoCrash /\ QuietInv
  BY ThreadFacts DEF QueueInv, ReaderInv, TypeOK
<1>1. NoCrash' /\ pc'[UI] \notin {"text", "class", "classRead", "eof", "skip"}
  BY <1>0 DEF Restart, RestartLinks, RestartEntries, RestartFree, NoCrash, QuietInv,
     OthersOutside, Restarting, Goto, At
<1>2. IteratorInv' /\ SkipInv'
  BY <1>0, <1>1 DEF Restart, RestartLinks, RestartEntries, RestartFree, IteratorInv, SkipInv, At
<1>3. CASE RestartLinks(t) \/ RestartEntries(t)
  <2>1. pc'[t] \in Restarting
    BY <1>0, <1>3 DEF RestartLinks, RestartEntries, Restarting, Goto
  <2> QED
    BY <1>1, <1>2, <2>1 DEF ReaderInv, ReaderOnQueue, TextInv
<1>4. CASE RestartFree(t)
  <2>1. firstEntry' = Nil /\ currentEntry' = Nil
    BY <1>0, <1>4 DEF RestartFree, QuietInv
  <2> QED
    BY <1>1, <1>2, <2>1 DEF ReaderInv, ReaderOnQueue, TextInv, Used
<1> QED
  BY <1>3, <1>4 DEF Restart

-------------------------------------------------------------------------------
(* The two inductive invariants, assembled.                                  *)

(* QueueInv is inductive, if Restart runs alone.                             *)
LEMMA QueueStep == QuietRestart /\ QueueInv /\ [Next]_vars => QueueInv'
BY TypeStep, LockStep, QuietStep, ShapeStep, LinkedStep DEF QueueInv

(* ReaderInv is inductive relative to QueueInv, if MsgEOF guards MsgSkip.    *)
LEMMA ReaderStep ==
  QuietRestart /\ ~RawClient /\ QueueInv /\ ReaderInv /\ [Next]_vars => ReaderInv'
<1> SUFFICES ASSUME QuietRestart, ~RawClient, QueueInv, ReaderInv, [Next]_vars
             PROVE  ReaderInv'
  OBVIOUS
<1>1. CASE UNCHANGED vars
  BY <1>1 DEF vars, queueVars, ReaderInv, ReaderOnQueue, TextInv, IteratorInv, SkipInv,
     NoCrash, Used, TakenFromRing, RingLinks, FreshLinks, At
<1> QED
  BY <1>1, AppendStep, RestartStep, UploadStep DEF Next

(* QueueInv holds in every reachable state, if Restart runs alone.           *)
LEMMA QueueInvariant == QuietRestart => (Spec => []QueueInv)
<1> SUFFICES ASSUME QuietRestart PROVE Spec => []QueueInv
  OBVIOUS
<1>1. Init => QueueInv
  BY InitQueueInv
<1>2. QueueInv /\ [Next]_vars => QueueInv'
  BY QueueStep
<1> QED
  BY <1>1, <1>2, PTL DEF Spec

(* ReaderInv does as well, if the client asks MsgEOF before it skips.        *)
LEMMA ReaderInvariant == QuietRestart /\ ~RawClient => (Spec => [](QueueInv /\ ReaderInv))
<1> SUFFICES ASSUME QuietRestart, ~RawClient PROVE Spec => [](QueueInv /\ ReaderInv)
  OBVIOUS
<1>1. Init => QueueInv /\ ReaderInv
  BY InitQueueInv, InitReaderInv
<1>2. QueueInv /\ ReaderInv /\ [Next]_vars => (QueueInv /\ ReaderInv)'
  BY QueueStep, ReaderStep
<1> QED
  BY <1>1, <1>2, PTL DEF Spec

-------------------------------------------------------------------------------
(* The properties.                                                           *)

(* The variables of the messenger keep their types: no call of MsgAppend,    *)
(* MsgSkip or Restart makes an index anything but a slot or qSize.           *)
THEOREM QueueTypes == QuietRestart => (Spec => []TypeOK)
<1>1. QueueInv => TypeOK
  BY DEF QueueInv
<1> QED
  BY <1>1, QueueInvariant, PTL

(* MsgAppend keeps the two lists of slots in shape (messenger.cpp, MsgAppend *)
(* and Restart), for every queue size and any number of solvers, if Restart  *)
(* runs alone.                                                               *)
THEOREM QueueCorrect == QuietRestart => (Spec => []QueueShape)
<1>1. QueueInv => QueueShape
  BY DEF QueueInv
<1> QED
  BY <1>1, QueueInvariant, PTL

(* The iterator never leaves the queue, although MsgAppend may recycle the   *)
(* entry it points to, for a client that asks MsgEOF before it skips.        *)
THEOREM ReaderStays == QuietRestart /\ ~RawClient => (Spec => []ReaderOnQueue)
<1>1. ReaderInv => ReaderOnQueue
  BY DEF ReaderInv
<1> QED
  BY <1>1, ReaderInvariant, PTL

(* No call reads or writes outside the arrays or reads a text that was       *)
(* deleted (MsgText, the header accessors after they have released the lock, *)
(* MsgSkip), for the same client.                                            *)
THEOREM ReaderCorrect == QuietRestart /\ ~RawClient => (Spec => []NoFault)
<1>1. ReaderInv => NoFault
  BY DEF ReaderInv, NoCrash, NoFault
<1> QED
  BY <1>1, ReaderInvariant, PTL

-------------------------------------------------------------------------------
(* What readers see: an upload shows the entries in the order they were      *)
(* logged, and the slots implement the bounded log.  The invariant:          *)

InMsgAppend == \E t \in Threads : pc[t] \in Critical
Linked == \E t \in Threads : At(t, "linked")
Reading == pc[UI] \in {"text", "class", "classRead", "eof", "skip"}

(* The entries that MsgAppend has completed, and the order of the queue.     *)
Written(i) == Used(i) /\ ~(i = lastEntry /\ Linked)
Before(i, j) ==
  /\ Used(i) /\ Used(j)
  /\ IF firstEntry <= lastEntry THEN i < j
     ELSE (i < j /\ (j <= lastEntry \/ firstEntry <= i)) \/ (firstEntry <= i /\ j <= lastEntry)

(* An entry is older than another one if it was opened by an earlier call.   *)
Opened(i) == qText[i][1]
Precedes(k, n) == IF InMsgAppend THEN k < n ELSE k <= n
ShownBefore(n) == \A k \in 1..Len(shown) : shown[k][1][1] < n

(* The entries are kept in the order they were logged.                       *)
AgeInv ==
  /\ \A i \in Slots : Written(i) => qText[i] # <<>> /\ Precedes(Opened(i), count)
  /\ \A i, j \in Slots : Written(i) /\ Written(j) /\ Before(i, j) => Opened(i) < Opened(j)

(* So are the lines of the upload, and none is of a call yet to come.        *)
ShownInv ==
  /\ \A k \in 1..Len(shown) : shown[k][1] # <<>> /\ Precedes(shown[k][1][1], count)
  /\ At(UI, "void") => shown = <<>>
  /\ UploadInOrder

(* What an upload has still to show is newer than what it has shown.         *)
AheadInv == Reading =>
  \A i \in Slots : Written(i) /\ (Before(currentEntry, i) \/ (At(UI, "text") /\ i = currentEntry))
                     => ShownBefore(Opened(i))

(* If the current entry is recycled before MsgSkip leaves it, the next entry *)
(* is the oldest one; this and all others are newer than what was shown.     *)
OvertakenInv ==
  /\ At(UI, "skip")
  /\ currentEntry = lastEntry \/ \E t \in Threads : At(t, "taken") /\ nextEntry[t] = currentEntry
  => \A i \in Slots : Written(i) => ShownBefore(Opened(i))

OrderInv == AgeInv /\ ShownInv /\ AheadInv /\ OvertakenInv

-------------------------------------------------------------------------------
(* The order of the queue, and how MsgAppend changes it.                     *)

(* The last entry comes after all others.                                    *)
LEMMA LastNewest ==
  ASSUME TypeOK, NEW i \in Slots, Used(i)
  PROVE  (i = lastEntry \/ Before(i, lastEntry)) /\ ~Before(lastEntry, i)
<1>1. lastEntry \in Slots /\ firstEntry \in Slots
  BY DEF Used, TypeOK, Entry
<1>2. Used(lastEntry)
  BY <1>1, QSizeAssumption DEF Used, Slots, Nil
<1> QED
  BY <1>1, <1>2, QSizeAssumption DEF Used, Before, Slots, Nil

(* MsgSkip steps from an entry to the one behind it.                         *)
LEMMA NextAfter ==
  ASSUME TypeOK, Filling \/ Wrapped, Used(currentEntry), currentEntry # lastEntry
  PROVE  /\ Before(currentEntry, qNext[currentEntry])
         /\ \A i \in Slots : Before(qNext[currentEntry], i) => Before(currentEntry, i)
<1>1. currentEntry \in Slots /\ lastEntry \in Slots /\ firstEntry \in Slots
  BY DEF TypeOK, Used, Entry
<1>2. CASE Filling
  <2>1. qNext[currentEntry] = currentEntry + 1
    BY <1>1, <1>2 DEF Filling, FreshLinks
  <2> QED
    BY <1>1, <1>2, <2>1, QSizeAssumption DEF Used, Before, Filling, Slots, Nil
<1>3. CASE Wrapped
  <2>1. qNext[currentEntry] = Succ(currentEntry)
    BY <1>1, <1>3 DEF Wrapped, RingLinks
  <2>2. firstEntry = Succ(lastEntry)
    BY <1>3 DEF Wrapped
  <2> QED
    BY <1>1, <2>1, <2>2, QSizeAssumption DEF Used, Before, Slots, Nil, Succ
<1> QED
  BY <1>2, <1>3

(* TakeOldest removes the entry that comes before all others.                *)
LEMMA TakeOrder ==
  ASSUME QueueInv, NEW t \in Threads, TakeOldest(t)
  PROVE  /\ firstEntry \in Slots /\ lastEntry \in Slots /\ firstEntry # lastEntry
         /\ \A i \in Slots : Used(i)
         /\ \A i \in Slots : Used(i)' <=> i # firstEntry
         /\ \A i, j \in Slots : Before(i, j)' => Before(i, j)
         /\ \A i \in Slots : i # firstEntry => Before(firstEntry, i)
<1>0. TypeOK /\ QueueShape
  BY DEF QueueInv
<1>1. Empty \/ Filling \/ Wrapped
  BY <1>0, HolderAlone DEF TakeOldest, QueueShape, At, Critical
<1>2. firstFree = Nil /\ firstEntry # Nil /\ firstEntry' = qNext[firstEntry] /\ lastEntry' = lastEntry
  BY DEF TakeOldest
<1>3. /\ firstEntry = Succ(lastEntry) /\ lastEntry \in Slots /\ firstEntry \in Slots
      /\ RingLinks \/ (lastEntry = QSize - 1 /\ FreshLinks)
  BY <1>0, <1>1, <1>2, QSizeAssumption
  DEF Empty, Filling, Wrapped, TypeOK, Entry, Slots, Nil, Succ
<1>4. firstEntry' = Succ(firstEntry)
  BY <1>2, <1>3, QSizeAssumption DEF RingLinks, FreshLinks, Slots, Succ
<1>5. \A i \in Slots : Used(i) /\ (Used(i)' <=> i # firstEntry)
  BY <1>2, <1>3, <1>4, QSizeAssumption DEF Used, Slots, Nil, Succ
<1>6. \A i, j \in Slots : Before(i, j)' => Before(i, j)
  BY <1>2, <1>3, <1>4, <1>5, QSizeAssumption DEF Before, Slots, Nil, Succ
<1>7. \A i \in Slots : i # firstEntry => Before(firstEntry, i)
  BY <1>3, <1>5, QSizeAssumption DEF Before, Slots, Nil, Succ
<1>8. firstEntry # lastEntry
  BY <1>3, QSizeAssumption DEF Slots, Succ
<1> QED
  BY <1>3, <1>5, <1>6, <1>7, <1>8

(* LinkEntry adds the slot taken behind all others.                          *)
LEMMA LinkOrder ==
  ASSUME QueueInv, NEW t \in Threads, LinkEntry(t), NEW e, e = nextEntry[t]
  PROVE  /\ e \in Slots /\ lastEntry' = e /\ ~Used(e)
         /\ \A i \in Slots : Used(i)' <=> Used(i) \/ i = e
         /\ \A i, j \in Slots : Before(i, j)' <=> Before(i, j) \/ (Used(i) /\ j = e)
         /\ currentEntry' = currentEntry \/ firstEntry = Nil
<1>0. TypeOK /\ QueueShape /\ At(t, "taken") /\ e \in Entry
  BY DEF QueueInv, LinkEntry, TypeOK
<1>1. TakenFromFree(e) \/ TakenFromRing(e)
  BY <1>0 DEF QueueShape
<1>2. CASE TakenFromFree(e) /\ e = 0
  <2>1. lastEntry' = e /\ firstEntry' = e /\ firstEntry = Nil /\ e \in Slots
    BY <1>0, <1>2, QSizeAssumption DEF LinkEntry, TakenFromFree, Slots, Nil
  <2>2. \A i \in Slots : ~Used(i) /\ (Used(i)' <=> i = e)
    BY <1>2, <2>1, QSizeAssumption DEF Used, Slots, Nil
  <2>3. \A i, j \in Slots : ~Before(i, j)
    BY <2>2 DEF Before
  <2>4. \A i, j \in Slots : ~Before(i, j)'
    BY <1>2, <2>1, <2>2 DEF Before
  <2> QED
    BY <2>1, <2>2, <2>3, <2>4
<1>3. CASE TakenFromFree(e) /\ e # 0
  <2>1. /\ lastEntry' = e /\ firstEntry' = 0 /\ firstEntry = 0 /\ lastEntry = e - 1 /\ e \in Slots
        /\ currentEntry' = currentEntry
    BY <1>0, <1>3, QSizeAssumption DEF LinkEntry, TakenFromFree, Slots, Entry, Nil
  <2>2. \A i \in Slots : ~Used(e) /\ (Used(i)' <=> Used(i) \/ i = e)
    BY <1>3, <2>1, QSizeAssumption DEF Used, Slots, Nil
  <2> QED
    BY <1>3, <2>1, <2>2, QSizeAssumption DEF Before, Used, Slots, Nil
<1>4. CASE TakenFromRing(e)
  <2>1. /\ lastEntry' = e /\ firstEntry' = firstEntry /\ firstEntry = Succ(e) /\ e = Succ(lastEntry)
        /\ lastEntry \in Slots /\ e \in Slots /\ currentEntry' = currentEntry
    BY <1>0, <1>4, QSizeAssumption DEF LinkEntry, TakenFromRing, TypeOK, Slots, Entry, Nil, Succ
  <2>2. \A i \in Slots : ~Used(e) /\ (Used(i)' <=> Used(i) \/ i = e)
    BY <2>1, QSizeAssumption DEF Used, Slots, Nil, Succ
  <2>3. \A i, j \in Slots : Before(i, j)' <=> Before(i, j) \/ (Used(i) /\ j = e)
    BY <2>1, <2>2, QSizeAssumption DEF Before, Used, Slots, Nil, Succ
  <2> QED
    BY <2>1, <2>2, <2>3
<1> QED
  BY <1>1, <1>2, <1>3, <1>4

-------------------------------------------------------------------------------
(* OrderInv is inductive.                                                    *)

(* At the start there is neither an entry nor an upload.                     *)
LEMMA InitOrderInv == Init => OrderInv
<1> SUFFICES ASSUME Init PROVE OrderInv
  OBVIOUS
<1>1. UI \in Threads /\ pc[UI] = "idle" /\ shown = <<>> /\ Len(shown) = 0
  BY ThreadFacts DEF Init
<1>2. \A i \in Slots : ~Written(i)
  BY DEF Init, Written, Used
<1>3. AgeInv /\ AheadInv /\ OvertakenInv
  BY <1>1, <1>2 DEF AgeInv, AheadInv, OvertakenInv, Reading, At
<1>4. ShownInv
  BY <1>1 DEF ShownInv, UploadInOrder, At
<1> QED
  BY <1>3, <1>4 DEF OrderInv

(* The opening fragments are numbers, and so can be compared.                *)
LEMMA OpenedType ==
  ASSUME TypeOK
  PROVE  /\ \A i \in Slots : qText[i] # <<>> => Opened(i) \in Nat
         /\ \A k \in 1..Len(shown) : shown[k] \in Seq(Nat) \X Nat
         /\ \A k \in 1..Len(shown) : shown[k][1] # <<>> => shown[k][1][1] \in Nat
<1>1. \A s \in Seq(Nat) : s # <<>> => s[1] \in Nat
  <2>1. SUFFICES ASSUME NEW s \in Seq(Nat), s # <<>> PROVE s[1] \in Nat
    OBVIOUS
  <2>2. Len(s) # 0 /\ Len(s) \in Nat
    BY <2>1, EmptySeq
  <2> QED
    BY <2>1, <2>2
<1>2. \A k \in 1..Len(shown) : shown[k] \in Seq(Nat) \X Nat /\ shown[k][1] \in Seq(Nat)
  BY DEF TypeOK
<1>3. \A i \in Slots : qText[i] \in Seq(Nat)
  BY DEF TypeOK
<1> QED
  BY <1>1, <1>2, <1>3 DEF Opened

(* A step that leaves lists, texts and lines alone, and does not bring the   *)
(* reader to another entry.                                                  *)
LEMMA OrderFrame ==
  ASSUME OrderInv, UNCHANGED <<firstEntry, lastEntry, currentEntry, qText, shown, count, nextEntry>>,
         Linked' <=> Linked, InMsgAppend' <=> InMsgAppend,
         \A t \in Threads : pc'[t] = "taken" => pc[t] = "taken",
         UI \in Threads,
         pc'[UI] \in {"text", "void"} => pc'[UI] = pc[UI],
         Reading' => Reading,
         pc'[UI] = "skip" => pc[UI] = "skip"
  PROVE  OrderInv'
<1>1. /\ \A i, j \in Slots : (Written(i)' <=> Written(i)) /\ (Before(i, j)' <=> Before(i, j))
      /\ \A i \in Slots : Before(currentEntry, i)' <=> Before(currentEntry, i)
      /\ \A i \in Slots : Opened(i)' = Opened(i)
      /\ \A n : ShownBefore(n)' <=> ShownBefore(n)
      /\ \A k, n : Precedes(k, n)' <=> Precedes(k, n)
  BY DEF Written, Before, Used, Opened, ShownBefore, Precedes
<1>2. AgeInv'
  BY <1>1 DEF OrderInv, AgeInv
<1>3. ShownInv'
  BY <1>1 DEF OrderInv, ShownInv, UploadInOrder, At
<1>4. AheadInv'
  BY <1>1 DEF OrderInv, AheadInv, At
<1>5. OvertakenInv'
  BY <1>1 DEF OrderInv, OvertakenInv, At
<1> QED
  BY <1>2, <1>3, <1>4, <1>5 DEF OrderInv

(* MsgAppend: an entry is opened by the latest call, and the entry that is   *)
(* recycled is the oldest.                                                   *)
LEMMA AppendOrder ==
  ASSUME QuietRestart, QueueInv, ReaderInv, OrderInv, NEW t \in Threads, MsgAppend(t)
  PROVE  OrderInv'
<1>0. /\ UI \in Threads /\ pc \in [Threads -> Locations] /\ TypeOK /\ LockHeld /\ QueueShape
      /\ ReaderOnQueue /\ AgeInv /\ ShownInv /\ AheadInv /\ OvertakenInv
      /\ NoThread \notin Threads
  BY ThreadFacts DEF QueueInv, ReaderInv, OrderInv, TypeOK
<1>1. count \in Nat
  BY <1>0 DEF TypeOK
<1>2. /\ \A k \in 1..Len(shown) : shown[k][1][1] \in Nat
      /\ \A i \in Slots : Written(i) => Opened(i) \in Nat
  BY <1>0, OpenedType DEF ShownInv, AgeInv
<1>3. CASE MsgAppendLock(t)
  <2>1. /\ UNCHANGED <<firstEntry, lastEntry, currentEntry, qText, shown, nextEntry>>
        /\ count' = count + 1 /\ ~InMsgAppend /\ InMsgAppend' /\ (Linked' <=> Linked)
        /\ \A u \in Threads : pc'[u] = "taken" <=> pc[u] = "taken"
        /\ Reading' \/ At(UI, "void")' => pc'[UI] = pc[UI]
    BY <1>0, <1>3
    DEF MsgAppendLock, queueVars, InMsgAppend, Linked, Reading, LockHeld, Critical, Goto, At
  <2>2. /\ \A i, j \in Slots : (Written(i)' <=> Written(i)) /\ (Before(i, j)' <=> Before(i, j))
        /\ \A i \in Slots : Before(currentEntry, i)' <=> Before(currentEntry, i)
        /\ \A i \in Slots : Opened(i)' = Opened(i)
        /\ \A n : ShownBefore(n)' <=> ShownBefore(n)
    BY <2>1 DEF Written, Before, Used, Opened, ShownBefore
  <2>3. \A k \in Nat : Precedes(k, count) => Precedes(k, count)'
    BY <1>1, <2>1 DEF Precedes
  <2>4. AgeInv'
    BY <1>0, <1>2, <2>1, <2>2, <2>3 DEF AgeInv
  <2>5. ShownInv'
    BY <1>0, <1>2, <2>1, <2>3 DEF ShownInv, UploadInOrder, At
  <2>6. AheadInv' /\ OvertakenInv'
    BY <1>0, <2>1, <2>2 DEF AheadInv, OvertakenInv, Reading, At
  <2> QED
    BY <2>4, <2>5, <2>6 DEF OrderInv
<1>4. CASE MsgAppendExtend(t) \/ TakeFree(t) \/ TakeOldest(t) \/ LinkEntry(t) \/ WriteEntry(t)
  <2>1. pc[t] \in Critical /\ UNCHANGED <<count, shown>>
    BY <1>4 DEF MsgAppendExtend, TakeFree, TakeOldest, LinkEntry, WriteEntry, Critical, At
  <2>2. /\ \A u \in Threads : pc[u] \notin Restarting
        /\ \A u \in Threads \ {t} : pc[u] \notin Critical
    BY <2>1, HolderAlone
  <2>3. InMsgAppend /\ \A k : Precedes(k, count) <=> k < count
    BY <2>1 DEF InMsgAppend, Precedes
  <2>4. /\ \A u \in Threads \ {t} : pc'[u] = pc[u]
        /\ pc'[t] \in {"taken", "linked", "idle"}
        /\ pc[t] # "text" /\ pc[t] # "skip" /\ pc[t] # "void"
    BY <1>0, <1>4, <2>1
    DEF MsgAppendExtend, TakeFree, TakeOldest, LinkEntry, WriteEntry, Critical, Goto
  <2>5. Reading' => Reading /\ t # UI /\ pc'[UI] = pc[UI]
    BY <1>0, <2>4 DEF Reading
  <2>6. \A k \in Nat : k < count => Precedes(k, count)'
    BY <1>1, <2>1 DEF Precedes
  <2>7. ShownInv' /\ ShownBefore(count)
    BY <1>0, <1>2, <2>1, <2>3, <2>4, <2>6 DEF ShownInv, ShownBefore, UploadInOrder, At
  <2>8. \A n : ShownBefore(n)' <=> ShownBefore(n)
    BY <2>1 DEF ShownBefore
  <2>a. CASE MsgAppendExtend(t)
    <3>1. /\ pc[t] = "locked" /\ pc'[t] = "idle"
          /\ UNCHANGED <<firstEntry, lastEntry, currentEntry, nextEntry>>
          /\ lastEntry \in Slots
          /\ qText' = [qText EXCEPT ![lastEntry] = Append(qText[lastEntry], count)]
      BY <1>0, <2>a DEF MsgAppendExtend, At, Goto, TypeOK, Entry
    <3>2. ~Linked /\ ~Linked' /\ \A u \in Threads : pc'[u] # "taken"
      BY <2>2, <2>4, <3>1 DEF Linked, Critical, At
    <3>3. /\ \A i, j \in Slots : (Written(i)' <=> Written(i)) /\ (Before(i, j)' <=> Before(i, j))
          /\ \A i \in Slots : Before(currentEntry, i)' <=> Before(currentEntry, i)
      BY <3>1, <3>2 DEF Written, Before, Used
    <3>4. \A i \in Slots : qText[i] # <<>> => qText'[i] # <<>> /\ qText'[i][1] = qText[i][1]
      <4>1. \A i \in Slots : qText[i] \in Seq(Nat)
        BY <1>0 DEF TypeOK
      <4>2. \A s \in Seq(Nat) : s # <<>> => Append(s, count) # <<>> /\ Append(s, count)[1] = s[1]
        <5>1. SUFFICES ASSUME NEW s \in Seq(Nat), s # <<>>
                       PROVE  Append(s, count) # <<>> /\ Append(s, count)[1] = s[1]
          OBVIOUS
        <5>2. Len(s) # 0 /\ Len(s) \in Nat
          BY <5>1, EmptySeq
        <5> QED
          BY <1>1, <5>1, <5>2
      <4> QED
        BY <1>0, <3>1, <4>1, <4>2 DEF TypeOK
    <3>5. \A i \in Slots : Written(i) => qText'[i] # <<>> /\ Opened(i)' = Opened(i)
      BY <1>0, <3>4 DEF AgeInv, Opened
    <3>6. AgeInv'
      BY <1>0, <1>2, <2>1, <2>3, <2>6, <3>3, <3>5 DEF AgeInv
    <3>7. AheadInv' /\ OvertakenInv'
      BY <1>0, <2>4, <2>5, <2>8, <3>1, <3>2, <3>3, <3>5 DEF AheadInv, OvertakenInv, At
    <3> QED
      BY <2>7, <3>6, <3>7 DEF OrderInv
  <2>b. CASE TakeFree(t)
    <3>1. /\ pc[t] = "locked" /\ pc'[t] = "taken"
          /\ UNCHANGED <<firstEntry, lastEntry, currentEntry, qText>>
          /\ nextEntry'[t] = firstFree /\ firstFree \in Slots
      BY <1>0, <2>b DEF TakeFree, At, Goto, TypeOK, Entry
    <3>2. /\ ~Linked /\ ~Linked' /\ \A u \in Threads : pc'[u] = "taken" => u = t
          /\ \A u \in Threads : pc[u] # "taken"
      BY <2>2, <2>4, <3>1 DEF Linked, Critical, At
    <3>3. /\ \A i, j \in Slots : (Written(i)' <=> Written(i)) /\ (Before(i, j)' <=> Before(i, j))
          /\ \A i \in Slots : Before(currentEntry, i)' <=> Before(currentEntry, i)
          /\ \A i \in Slots : Opened(i)' = Opened(i)
      BY <3>1, <3>2 DEF Written, Before, Used, Opened
    <3>4. AgeInv'
      BY <1>0, <1>2, <2>1, <2>3, <2>6, <3>1, <3>3 DEF AgeInv
    <3>5. AheadInv'
      BY <1>0, <2>4, <2>5, <2>8, <3>1, <3>3 DEF AheadInv, At
    <3>6. Reading => currentEntry # firstFree
      <4>1. Empty \/ Filling \/ Wrapped
        BY <1>0, <2>2, <3>2 DEF QueueShape
      <4>2. ~Used(firstFree)
        BY <1>0, <3>1, <4>1, QSizeAssumption
        DEF Empty, Filling, Wrapped, Used, TypeOK, Entry, Slots, Nil
      <4>3. Reading => Used(currentEntry)
        BY <1>0, <2>2, <3>2 DEF ReaderOnQueue, ReaderInv, IteratorInv, Reading, At
      <4> QED
        BY <4>2, <4>3
    <3>7. OvertakenInv'
      BY <1>0, <2>4, <2>5, <2>8, <3>1, <3>2, <3>3, <3>6 DEF OvertakenInv, Reading, At
    <3> QED
      BY <2>7, <3>4, <3>5, <3>7 DEF OrderInv
  <2>c. CASE TakeOldest(t)
    <3>1. /\ pc[t] = "locked" /\ pc'[t] = "taken"
          /\ UNCHANGED <<lastEntry, currentEntry>>
          /\ nextEntry'[t] = firstEntry /\ firstEntry \in Slots
          /\ qText' = [qText EXCEPT ![firstEntry] = <<>>]
      BY <1>0, <2>c DEF TakeOldest, At, Goto, TypeOK, Entry
    <3>2. /\ ~Linked /\ ~Linked' /\ \A u \in Threads : pc'[u] = "taken" => u = t
          /\ \A u \in Threads : pc[u] # "taken"
      BY <2>2, <2>4, <3>1 DEF Linked, Critical, At
    <3>3. /\ firstEntry # lastEntry
          /\ \A i \in Slots : Used(i) /\ (Used(i)' <=> i # firstEntry)
          /\ \A i, j \in Slots : Before(i, j)' => Before(i, j)
          /\ \A i \in Slots : i # firstEntry => Before(firstEntry, i)
      BY <2>c, TakeOrder
    <3>4. \A i \in Slots : /\ Written(i)' => i # firstEntry /\ Written(i)
                           /\ i # firstEntry => qText'[i] = qText[i] /\ Opened(i)' = Opened(i)
      BY <1>0, <3>1, <3>2, <3>3 DEF Written, Opened, TypeOK
    <3>5. AgeInv'
      BY <1>0, <1>2, <2>1, <2>3, <2>6, <3>3, <3>4 DEF AgeInv
    <3>6. Reading => currentEntry \in Slots
      BY <1>0 DEF ReaderInv, IteratorInv, Reading, TypeOK, Entry
    <3>7. AheadInv'
      BY <1>0, <2>4, <2>5, <2>8, <3>1, <3>3, <3>4, <3>6 DEF AheadInv, At
    <3>8. OvertakenInv'
      <4>1. SUFFICES ASSUME At(UI, "skip")', currentEntry = lastEntry \/ firstEntry = currentEntry,
                            NEW i \in Slots, Written(i)'
                     PROVE  ShownBefore(Opened(i))'
        BY <3>1, <3>2 DEF OvertakenInv, At
      <4>2. At(UI, "skip") /\ Reading /\ currentEntry \in Slots
        BY <1>0, <2>4, <3>6, <4>1 DEF Reading, At
      <4>3. Written(i) /\ i # firstEntry /\ Opened(i)' = Opened(i)
        BY <3>4, <4>1
      <4>4. CASE currentEntry = lastEntry
        BY <1>0, <2>8, <4>2, <4>3, <4>4 DEF OvertakenInv
      <4>5. CASE firstEntry = currentEntry
        BY <1>0, <2>8, <3>3, <4>2, <4>3, <4>5 DEF AheadInv
      <4> QED
        BY <4>1, <4>4, <4>5
    <3> QED
      BY <2>7, <3>5, <3>7, <3>8 DEF OrderInv
  <2>d. CASE LinkEntry(t)
    <3> DEFINE e == nextEntry[t]
    <3>1. /\ pc[t] = "taken" /\ pc'[t] = "linked" /\ UNCHANGED <<qText, nextEntry>>
      BY <1>0, <2>d DEF LinkEntry, At, Goto
    <3>2. ~Linked /\ Linked' /\ \A u \in Threads : pc'[u] # "taken"
      BY <2>2, <2>4, <3>1 DEF Linked, Critical, At
    <3>3. /\ e \in Slots /\ lastEntry' = e /\ ~Used(e)
          /\ \A i \in Slots : Used(i)' <=> Used(i) \/ i = e
          /\ \A i, j \in Slots : Before(i, j)' <=> Before(i, j) \/ (Used(i) /\ j = e)
          /\ currentEntry' = currentEntry \/ firstEntry = Nil
      BY <2>d, LinkOrder
    <3>4. \A i \in Slots : /\ Written(i)' <=> Written(i)
                           /\ Written(i) => i # e
                           /\ Opened(i)' = Opened(i)
      BY <3>1, <3>2, <3>3 DEF Written, Opened
    <3>5. AgeInv'
      BY <1>0, <1>2, <2>1, <2>3, <2>6, <3>1, <3>3, <3>4 DEF AgeInv
    <3>6. CASE firstEntry = Nil
      <4>1. \A i \in Slots : ~Written(i)'
        BY <3>4, <3>6 DEF Written, Used
      <4>2. AheadInv' /\ OvertakenInv'
        BY <4>1 DEF AheadInv, OvertakenInv
      <4> QED
        BY <2>7, <3>5, <4>2 DEF OrderInv
    <3>7. CASE currentEntry' = currentEntry
      <4>1. Reading => currentEntry \in Slots
        BY <1>0 DEF ReaderInv, IteratorInv, Reading, TypeOK, Entry
      <4>2. AheadInv'
        BY <1>0, <2>4, <2>5, <2>8, <3>3, <3>4, <3>7, <4>1 DEF AheadInv, At
      <4>3. OvertakenInv'
        BY <1>0, <2>4, <2>8, <3>1, <3>2, <3>3, <3>4, <3>7 DEF OvertakenInv, At
      <4> QED
        BY <2>7, <3>5, <4>2, <4>3 DEF OrderInv
    <3> QED
      BY <3>3, <3>6, <3>7
  <2>e. CASE WriteEntry(t)
    <3>1. /\ pc[t] = "linked" /\ pc'[t] = "idle"
          /\ UNCHANGED <<firstEntry, lastEntry, currentEntry, nextEntry>>
          /\ lastEntry \in Slots
          /\ qText' = [qText EXCEPT ![lastEntry] = <<count>>]
      BY <1>0, <2>e DEF WriteEntry, At, Goto, TypeOK, Entry
    <3>2. Linked /\ ~Linked' /\ ~InMsgAppend' /\ \A u \in Threads : pc'[u] # "taken"
      BY <2>2, <2>4, <3>1 DEF Linked, InMsgAppend, Critical, At
    <3>3. /\ \A i \in Slots : Written(i)' => i = lastEntry \/ Written(i)
          /\ \A i \in Slots : Written(i) => i # lastEntry
          /\ \A i, j \in Slots : Before(i, j)' <=> Before(i, j)
          /\ \A i \in Slots : Before(currentEntry, i)' <=> Before(currentEntry, i)
      BY <3>1, <3>2 DEF Written, Before, Used
    <3>4. \A i \in Slots : i # lastEntry => qText'[i] = qText[i] /\ Opened(i)' = Opened(i)
      BY <1>0, <3>1 DEF Opened, TypeOK
    <3>5. qText'[lastEntry] = <<count>> /\ qText'[lastEntry] # <<>> /\ Opened(lastEntry)' = count
      BY <1>0, <3>1 DEF Opened, TypeOK
    <3>6. Precedes(count, count)'
      BY <1>1, <2>1, <3>2 DEF Precedes
    <3>7. AgeInv'
      <4>1. \A i \in Slots : Written(i)' => qText'[i] # <<>> /\ Precedes(Opened(i), count)'
        BY <1>0, <1>2, <2>1, <2>3, <2>6, <3>1, <3>3, <3>4, <3>5, <3>6 DEF AgeInv
      <4>2. ASSUME NEW i \in Slots, NEW j \in Slots, Written(i)', Written(j)', Before(i, j)'
            PROVE  Opened(i)' < Opened(j)'
        <5>1. Before(i, j) /\ Used(j)
          BY <3>3, <4>2 DEF Before
        <5>2. i # lastEntry
          BY <1>0, <5>1, LastNewest
        <5>3. Written(i) /\ Opened(i)' = Opened(i) /\ Opened(i) < count
          BY <1>0, <2>3, <3>3, <3>4, <4>2, <5>2 DEF AgeInv
        <5>4. CASE j = lastEntry
          BY <3>1, <3>5, <5>3, <5>4
        <5>5. CASE j # lastEntry
          BY <1>0, <3>3, <3>4, <4>2, <5>1, <5>3, <5>5 DEF AgeInv
        <5> QED
          BY <5>4, <5>5
      <4> QED
        BY <4>1, <4>2 DEF AgeInv
    <3>8. \A i \in Slots : i = lastEntry => ShownBefore(Opened(i))'
      BY <2>1, <2>7, <3>1, <3>5 DEF ShownBefore
    <3>9. AheadInv' /\ OvertakenInv'
      BY <1>0, <2>4, <2>5, <2>8, <3>1, <3>2, <3>3, <3>4, <3>8 DEF AheadInv, OvertakenInv, At
    <3> QED
      BY <2>7, <3>7, <3>9 DEF OrderInv
  <2> QED
    BY <1>4, <2>a, <2>b, <2>c, <2>d, <2>e
<1> QED
  BY <1>3, <1>4, NothingOutside DEF MsgAppend

(* Reading: a line is added when its entry is newer than all before.         *)
LEMMA UploadOrder ==
  ASSUME QuietRestart, ~RawClient, QueueInv, ReaderInv, OrderInv, Upload PROVE OrderInv'
<1>0. /\ UI \in Threads /\ pc \in [Threads -> Locations] /\ TypeOK /\ NoThread \notin Threads
      /\ ReaderOnQueue /\ AgeInv /\ ShownInv /\ AheadInv /\ OvertakenInv /\ LockHeld
      /\ IteratorInv /\ SkipInv /\ TextInv
  BY ThreadFacts DEF QueueInv, ReaderInv, OrderInv, TypeOK
<1>1. /\ UNCHANGED <<firstEntry, lastEntry, qText, nextEntry>> /\ count' = count
      /\ \A u \in Threads : pc[u] \notin Restarting
  BY UploadFrame
  DEF Upload, MsgReset, MsgVoid, MsgText, MsgClass, MsgClassRead, MsgEOF, MsgSkip, ReportBound,
      Reject, Crash
<1>2. /\ \A u \in Threads : pc'[u] = "taken" <=> pc[u] = "taken"
      /\ (Linked' <=> Linked) /\ (InMsgAppend' <=> InMsgAppend)
  <2>1. \A u \in Threads \ {UI} : pc'[u] = pc[u]
    BY <1>0
    DEF Upload, MsgReset, MsgVoid, MsgText, MsgClass, MsgClassRead, MsgEOF, MsgSkip, ReportBound,
        Reject, Crash, Goto
  <2>2. pc[UI] \notin Critical /\ pc'[UI] \notin Critical
    BY <1>0
    DEF Upload, MsgReset, MsgVoid, MsgText, MsgClass, MsgClassRead, MsgEOF, MsgSkip, ReportBound,
        Reject, Crash, Goto, Critical, At
  <2> QED
    BY <2>1, <2>2 DEF Linked, InMsgAppend, Critical, At
<1>3. /\ \A i, j \in Slots : (Written(i)' <=> Written(i)) /\ (Before(i, j)' <=> Before(i, j))
      /\ \A i \in Slots : Opened(i)' = Opened(i)
      /\ \A k : Precedes(k, count)' <=> Precedes(k, count)
  BY <1>1, <1>2 DEF Written, Before, Used, Opened, Precedes
<1>4. AgeInv'
  BY <1>0, <1>1, <1>3 DEF AgeInv
<1>5. /\ \A k \in 1..Len(shown) : shown[k][1][1] \in Nat
      /\ \A i \in Slots : Written(i) => Opened(i) \in Nat
  BY <1>0, OpenedType DEF ShownInv, AgeInv
<1>a. ASSUME msgLock = NoThread, Reading
      PROVE  /\ Written(currentEntry) /\ currentEntry \in Slots /\ (Filling \/ Wrapped)
             /\ \A i \in Slots : Used(i) => Written(i)
             /\ \A u \in Threads : pc[u] # "taken"
  <2>1. (Empty \/ Filling \/ Wrapped) /\ \A u \in Threads : ~At(u, "taken") /\ ~At(u, "linked")
    BY <1>1, <1>a, QuietShape
  <2>2. Used(currentEntry) /\ currentEntry \in Slots
    BY <1>0, <1>1, <1>a, <2>1 DEF ReaderOnQueue, IteratorInv, Reading, Used
  <2> QED
    BY <2>1, <2>2 DEF Written, Linked, Empty, Used, At
<1>6. CASE MsgReset
  <2>1. shown' = <<>> /\ Len(shown') = 0 /\ pc'[UI] = "void"
    BY <1>0, <1>6 DEF MsgReset, Goto
  <2>2. ShownInv'
    BY <2>1 DEF ShownInv, UploadInOrder
  <2>3. AheadInv' /\ OvertakenInv'
    BY <2>1 DEF AheadInv, OvertakenInv, Reading, At
  <2> QED
    BY <1>4, <2>2, <2>3 DEF OrderInv
<1>7. CASE MsgVoid
  <2>1. shown = <<>> /\ shown' = <<>> /\ Len(shown') = 0 /\ pc'[UI] # "void"
    BY <1>0, <1>7 DEF MsgVoid, ShownInv, Goto, At
  <2>2. ShownInv'
    BY <2>1 DEF ShownInv, UploadInOrder
  <2>3. \A n : ShownBefore(n)'
    BY <2>1 DEF ShownBefore
  <2>4. AheadInv' /\ OvertakenInv'
    BY <2>3 DEF AheadInv, OvertakenInv
  <2> QED
    BY <1>4, <2>2, <2>4 DEF OrderInv
<1>8. CASE MsgText
  <2>0. msgLock = NoThread /\ Reading /\ pc[UI] = "text" /\ UNCHANGED currentEntry
    BY <1>8 DEF MsgText, Reading, At, Reject, Crash, queueVars
  <2>1. Written(currentEntry) /\ currentEntry \in Slots /\ qText[currentEntry] # <<>>
    BY <1>0, <1>a, <2>0 DEF AgeInv
  <2>2. shown' = Append(shown, <<qText[currentEntry], 0>>) /\ pc'[UI] = "class"
    BY <1>0, <1>8, <2>1, QSizeAssumption DEF MsgText, Goto, Slots, Nil
  <2>3. /\ Len(shown') = Len(shown) + 1 /\ Len(shown) \in Nat
        /\ \A k \in 1..Len(shown) : shown'[k] = shown[k]
        /\ shown'[Len(shown) + 1] = <<qText[currentEntry], 0>>
    <3>1. shown \in Seq(Seq(Nat) \X Nat) /\ <<qText[currentEntry], 0>> \in Seq(Nat) \X Nat
      BY <1>0, <2>1 DEF TypeOK
    <3> QED
      BY <2>2, <3>1
  <2>4. /\ shown'[Len(shown) + 1][1] = qText[currentEntry]
        /\ shown'[Len(shown) + 1][1][1] = Opened(currentEntry)
    BY <2>3 DEF Opened
  <2>5. \A k \in 1..Len(shown') : k \in 1..Len(shown) \/ k = Len(shown) + 1
    BY <2>3
  <2>6. ShownBefore(Opened(currentEntry))
    BY <1>0, <2>0, <2>1 DEF AheadInv, At
  <2>7. ShownInv'
    <3>1. (\A k \in 1..Len(shown) : shown[k][1] # <<>> /\ Precedes(shown[k][1][1], count))'
      BY <1>0, <1>1, <1>2, <2>1, <2>3, <2>4, <2>5 DEF ShownInv, AgeInv, Precedes
    <3>2. UploadInOrder'
      <4>1. SUFFICES ASSUME NEW i \in 1..Len(shown'), NEW j \in 1..Len(shown'), i < j
                     PROVE  shown'[i][1][1] < shown'[j][1][1]
        BY DEF UploadInOrder
      <4>2. i \in 1..Len(shown)
        BY <2>3, <4>1
      <4>3. CASE j \in 1..Len(shown)
        BY <1>0, <2>3, <4>1, <4>2, <4>3 DEF ShownInv, UploadInOrder
      <4>4. CASE j = Len(shown) + 1
        BY <2>3, <2>4, <2>6, <4>2, <4>4 DEF ShownBefore
      <4> QED
        BY <2>5, <4>3, <4>4
    <3> QED
      BY <2>2, <3>1, <3>2 DEF ShownInv, At
  <2>8. AheadInv'
    <3>1. SUFFICES ASSUME NEW i \in Slots, Written(i), Before(currentEntry, i)
                   PROVE  ShownBefore(Opened(i))'
      BY <1>3, <2>0, <2>1, <2>2 DEF AheadInv, At
    <3>2. ShownBefore(Opened(i)) /\ Opened(currentEntry) < Opened(i)
      BY <1>0, <2>0, <2>1, <3>1 DEF AheadInv, AgeInv
    <3> QED
      BY <1>3, <2>3, <2>4, <2>5, <3>2 DEF ShownBefore
  <2>9. OvertakenInv'
    BY <2>2 DEF OvertakenInv, At
  <2> QED
    BY <1>4, <2>7, <2>8, <2>9 DEF OrderInv
<1>9. CASE MsgClass \/ ReportBound
  <2>1. /\ UNCHANGED <<currentEntry, shown>> /\ pc'[UI] \notin {"text", "void", "skip"}
        /\ Reading' => Reading
    BY <1>0, <1>9 DEF MsgClass, ReportBound, Reject, queueVars, Reading, Goto, At
  <2> QED
    BY <1>0, <1>1, <1>2, <2>1, OrderFrame
<1>10. CASE MsgClassRead
  <2>1. pc[UI] = "classRead" /\ currentEntry # Nil /\ currentEntry' = currentEntry
    BY <1>0, <1>10 DEF MsgClassRead, IteratorInv, Crash, queueVars, At
  <2>2. /\ pc'[UI] = "eof"
        /\ shown' = [shown EXCEPT ![Len(shown)] = <<shown[Len(shown)][1], qMsg[currentEntry]>>]
    BY <1>0, <1>10, <2>1 DEF MsgClassRead, Goto
  <2>3. Len(shown') = Len(shown) /\ \A k \in 1..Len(shown) : shown'[k][1] = shown[k][1]
    BY <1>0, <2>2 DEF TypeOK
  <2>4. \A n : ShownBefore(n)' <=> ShownBefore(n)
    BY <2>3 DEF ShownBefore
  <2>5. ShownInv'
    BY <1>0, <1>1, <1>3, <2>2, <2>3 DEF ShownInv, UploadInOrder, At
  <2>6. currentEntry \in Slots
    BY <1>0, <2>1 DEF TypeOK, Entry
  <2>7. AheadInv' /\ OvertakenInv'
    BY <1>0, <1>3, <2>1, <2>2, <2>4, <2>6 DEF AheadInv, OvertakenInv, Reading, At
  <2> QED
    BY <1>4, <2>5, <2>7 DEF OrderInv
<1>11. CASE MsgEOF
  <2>1. /\ UNCHANGED <<currentEntry, shown>> /\ Reading /\ msgLock = NoThread
        /\ pc'[UI] = IF AtEnd THEN "idle" ELSE "skip"
    BY <1>0, <1>11 DEF MsgEOF, queueVars, Reading, Goto, At
  <2>2. currentEntry \in Slots /\ \A u \in Threads : pc'[u] # "taken"
    BY <1>2, <1>a, <2>1
  <2>3. \A n : ShownBefore(n)' <=> ShownBefore(n)
    BY <2>1 DEF ShownBefore
  <2>4. ShownInv'
    BY <1>0, <1>1, <1>3, <2>1 DEF ShownInv, UploadInOrder, At
  <2>5. AheadInv'
    BY <1>0, <1>3, <2>1, <2>2, <2>3 DEF AheadInv, At
  <2>6. OvertakenInv'
    BY <1>1, <2>1, <2>2 DEF OvertakenInv, AtEnd, At
  <2> QED
    BY <1>4, <2>4, <2>5, <2>6 DEF OrderInv
<1>12. CASE MsgSkip
  <2>0. pc[UI] = "skip" /\ Reading /\ msgLock = NoThread /\ UNCHANGED shown
    BY <1>12 DEF MsgSkip, Reject, Reading, At
  <2>1. /\ Written(currentEntry) /\ currentEntry \in Slots /\ (Filling \/ Wrapped)
        /\ \A i \in Slots : Used(i) => Written(i)
    BY <1>a, <2>0
  <2>2. qNext[currentEntry] \in Slots /\ Used(qNext[currentEntry])
    BY <1>0, <2>0, <2>1, NextUsed DEF SkipInv, Written, At
  <2>3. currentEntry' = qNext[currentEntry] /\ pc'[UI] = "text"
    BY <1>0, <1>12, <2>0, <2>1, <2>2, QSizeAssumption DEF MsgSkip, Goto, At, Slots, Nil
  <2>4. ShownInv'
    BY <1>0, <1>1, <1>3, <2>0, <2>3 DEF ShownInv, UploadInOrder, At
  <2>5. AheadInv'
    <3>1. SUFFICES ASSUME NEW i \in Slots, Written(i),
                          Before(qNext[currentEntry], i) \/ i = qNext[currentEntry]
                   PROVE  ShownBefore(Opened(i))
      BY <1>3, <2>0, <2>2, <2>3 DEF AheadInv, ShownBefore
    <3>2. CASE currentEntry = lastEntry
      BY <1>0, <2>0, <3>1, <3>2 DEF OvertakenInv, At
    <3>3. CASE currentEntry # lastEntry
      <4>1. Before(currentEntry, i)
        BY <1>0, <2>1, <3>1, <3>3, NextAfter DEF Written
      <4> QED
        BY <1>0, <2>0, <3>1, <4>1 DEF AheadInv
    <3> QED
      BY <3>2, <3>3
  <2>6. OvertakenInv'
    BY <2>3 DEF OvertakenInv, At
  <2> QED
    BY <1>4, <2>4, <2>5, <2>6 DEF OrderInv
<1> QED
  BY <1>6, <1>7, <1>8, <1>9, <1>10, <1>11, <1>12 DEF Upload

(* A restart drops the entries while nobody reads.                           *)
LEMMA RestartOrder ==
  ASSUME QuietRestart, QueueInv, OrderInv, NEW t \in Threads, Restart(t) PROVE OrderInv'
<1>0. /\ UI \in Threads /\ pc \in [Threads -> Locations] /\ QuietInv /\ AgeInv /\ ShownInv
  BY ThreadFacts DEF QueueInv, OrderInv, TypeOK
<1>1. /\ pc'[UI] \in {"idle"} \union Restarting
      /\ (Linked' <=> Linked) /\ (InMsgAppend' <=> InMsgAppend)
      /\ UNCHANGED <<qText, shown, count>>
  BY <1>0 DEF Restart, RestartLinks, RestartEntries, RestartFree, QuietInv, OthersOutside,
     Restarting, Linked, InMsgAppend, Critical, Goto, At
<1>2. /\ \A i \in Slots : (Written(i)' => Written(i)) /\ Opened(i)' = Opened(i)
      /\ \A i, j \in Slots : Written(i)' /\ Before(i, j)' => Before(i, j)
      /\ \A k : Precedes(k, count)' <=> Precedes(k, count)
  BY <1>1 DEF Restart, RestartLinks, RestartEntries, RestartFree, Written, Used, Before, Opened, Precedes
<1>3. AgeInv'
  BY <1>0, <1>1, <1>2 DEF AgeInv
<1>4. ShownInv'
  BY <1>0, <1>1, <1>2 DEF ShownInv, UploadInOrder, Restarting, At
<1>5. AheadInv' /\ OvertakenInv'
  BY <1>1 DEF AheadInv, OvertakenInv, Reading, Restarting, At
<1> QED
  BY <1>3, <1>4, <1>5 DEF OrderInv

(* An upload shows entries in the order MsgAppend has logged them and none   *)
(* twice, even if the entry it has reached is recycled before MsgSkip moves  *)
(* on, which then restarts at the oldest entry.                              *)
THEOREM UploadOrdered == QuietRestart /\ ~RawClient => (Spec => []UploadInOrder)
<1> SUFFICES ASSUME QuietRestart, ~RawClient PROVE Spec => []UploadInOrder
  OBVIOUS
<1>1. QueueInv /\ ReaderInv /\ OrderInv /\ [Next]_vars => OrderInv'
  <2> SUFFICES ASSUME QueueInv, ReaderInv, OrderInv, [Next]_vars PROVE OrderInv'
    OBVIOUS
  <2>1. CASE UNCHANGED vars
    <3>1. (Linked' <=> Linked) /\ (InMsgAppend' <=> InMsgAppend) /\ (Reading' <=> Reading)
      BY <2>1 DEF vars, Linked, InMsgAppend, Reading, At
    <3> QED
      BY <2>1, <3>1, ThreadFacts, OrderFrame DEF vars, queueVars
  <2> QED
    BY <2>1, AppendOrder, UploadOrder, RestartOrder DEF Next
<1>2. OrderInv => UploadInOrder
  BY DEF OrderInv, ShownInv
<1>3. Init => OrderInv
  BY InitOrderInv
<1> QED
  BY <1>1, <1>2, <1>3, ReaderInvariant, PTL DEF Spec

-------------------------------------------------------------------------------
(* The queue implements the bounded log.                                     *)

Log == [k \in 1..LogLength |-> qText[LogSlot(k)]]
Span == IF firstEntry <= lastEntry THEN lastEntry + 1 - firstEntry
                                   ELSE lastEntry + 1 + QSize - firstEntry

(* A call of MsgAppend is one of the calls 1 .. MaxMsgs.                     *)
CallInv == count \in 0..MaxMsgs /\ (InMsgAppend => count \in 1..MaxMsgs)

(* A function on 1..n is a sequence of length n.                             *)
LEMMA FunctionIsSeq ==
  ASSUME NEW S, NEW n \in Nat, NEW f \in [1..n -> S]
  PROVE  f \in Seq(S) /\ Len(f) = n
<1>1. f \in Seq(S)
  BY SeqDef
<1>2. DOMAIN f = 1..Len(f) /\ Len(f) \in Nat
  BY <1>1, LenProperties
<1>3. 1..Len(f) = 1..n
  BY <1>2
<1> QED
  BY <1>1, <1>2, <1>3

(* The entries in the order of the queue occupy Span distinct slots.         *)
LEMMA SpanFacts ==
  ASSUME firstEntry \in Slots, lastEntry \in Slots
  PROVE  /\ Span \in 1..QSize /\ LogSlot(1) = firstEntry /\ LogSlot(Span) = lastEntry
         /\ \A k \in 1..QSize : LogSlot(k) \in Slots
         /\ \A k, m \in 1..QSize : LogSlot(k) = LogSlot(m) => k = m
<1>1. Span \in 1..QSize
  BY QSizeAssumption DEF Span, Slots
<1>2. LogSlot(1) = firstEntry /\ LogSlot(Span) = lastEntry
  BY QSizeAssumption DEF Span, LogSlot, Slots
<1>3. \A k \in 1..QSize : LogSlot(k) \in Slots
  BY QSizeAssumption DEF LogSlot, Slots
<1>4. \A k, m \in 1..QSize : LogSlot(k) = LogSlot(m) => k = m
  BY QSizeAssumption DEF LogSlot, Slots
<1> QED
  BY <1>1, <1>2, <1>3, <1>4

(* The length of the log while no restart is on its way.                     *)
LEMMA LogLengthFacts ==
  ASSUME TypeOK, \A t \in Threads : pc[t] \notin Restarting,
         firstEntry # Nil => lastEntry \in Slots
  PROVE  /\ firstEntry = Nil => LogLength = 0
         /\ firstEntry # Nil => LogLength = IF Linked THEN Span - 1 ELSE Span
         /\ LogLength \in 0..QSize
         /\ Log \in [1..LogLength -> Seq(Nat)] /\ Log \in Seq(Seq(Nat)) /\ Len(Log) = LogLength
<1>1. firstEntry = Nil => LogLength = 0
  BY DEF LogLength
<1>2. firstEntry # Nil => LogLength = IF Linked THEN Span - 1 ELSE Span
  BY DEF LogLength, Linked, Span
<1>3. firstEntry # Nil => /\ Span \in 1..QSize
                          /\ \A k \in 1..QSize : LogSlot(k) \in Slots
  BY SpanFacts DEF TypeOK, Entry
<1>4. LogLength \in 0..QSize /\ LogLength \in Nat
  BY <1>1, <1>2, <1>3, QSizeAssumption
<1>5. \A k \in 1..LogLength : qText[LogSlot(k)] \in Seq(Nat)
  BY <1>1, <1>3, <1>4, QSizeAssumption DEF TypeOK
<1>6. Log \in [1..LogLength -> Seq(Nat)]
  BY <1>5 DEF Log
<1> QED
  BY <1>1, <1>2, <1>4, <1>6, FunctionIsSeq

(* Sequences given by their elements: the empty one, a tail, one with a new  *)
(* last element, and one whose last element has changed.                     *)
LEMMA EmptyFunction == ASSUME NEW f \in [1..0 -> Seq(Nat)] PROVE f = <<>>
<1>1. f \in Seq(Seq(Nat)) /\ Len(f) = 0
  BY FunctionIsSeq
<1> QED
  BY <1>1, EmptySeq

LEMMA TailFunction ==
  ASSUME NEW S, NEW s \in Seq(S), s # <<>>, NEW u, u = [k \in 1..(Len(s) - 1) |-> s[k + 1]]
  PROVE  u = Tail(s)
<1>1. Len(s) \in Nat \ {0}
  BY EmptySeq
<1>2. Tail(s) \in Seq(S) /\ Len(Tail(s)) = Len(s) - 1
  BY <1>1
<1>3. \A k \in 1..(Len(s) - 1) : Tail(s)[k] = s[k + 1] /\ s[k + 1] \in S
  BY <1>1
<1>4. u \in [1..(Len(s) - 1) -> S] /\ Len(s) - 1 \in Nat
  BY <1>1, <1>3
<1>5. u \in Seq(S) /\ Len(u) = Len(s) - 1
  BY <1>4, FunctionIsSeq
<1> QED
  BY <1>2, <1>3, <1>5, SeqEqual

LEMMA AppendFunction ==
  ASSUME NEW S, NEW s \in Seq(S), NEW x \in S, NEW u \in [1..(Len(s) + 1) -> S],
         \A k \in 1..Len(s) : u[k] = s[k], u[Len(s) + 1] = x
  PROVE  u = Append(s, x)
<1>1. Len(s) \in Nat /\ Len(s) + 1 \in Nat
  OBVIOUS
<1>2. u \in Seq(S) /\ Len(u) = Len(s) + 1
  BY <1>1, FunctionIsSeq
<1>3. /\ Append(s, x) \in Seq(S) /\ Len(Append(s, x)) = Len(s) + 1
      /\ \A k \in 1..Len(s) : Append(s, x)[k] = s[k]
      /\ Append(s, x)[Len(s) + 1] = x
  BY <1>1
<1>4. \A k \in 1..(Len(s) + 1) : k \in 1..Len(s) \/ k = Len(s) + 1
  BY <1>1
<1> QED
  BY <1>2, <1>3, <1>4, SeqEqual

LEMMA ExceptFunction ==
  ASSUME NEW S, NEW n \in Nat, NEW m \in 1..n, NEW f \in [1..n -> S], NEW x \in S,
         NEW u \in [1..n -> S], \A k \in 1..n : k # m => u[k] = f[k], u[m] = x
  PROVE  u = [f EXCEPT ![m] = x]
OBVIOUS

(* The calls of MsgAppend are counted up to the bound.                       *)
LEMMA CallStep == QueueInv /\ CallInv /\ [Next]_vars => CallInv'
<1> SUFFICES ASSUME QueueInv, CallInv, [Next]_vars PROVE CallInv'
  OBVIOUS
<1>0. UI \in Threads /\ pc \in [Threads -> Locations] /\ MaxMsgs \in Nat
  BY ThreadFacts, MaxMsgsAssumption DEF QueueInv, TypeOK
<1>1. ASSUME NEW t \in Threads, MsgAppendLock(t) PROVE CallInv'
  BY <1>0, <1>1 DEF MsgAppendLock, CallInv
<1>2. ASSUME ~\E t \in Threads : MsgAppendLock(t) PROVE CallInv'
  <2>1. count' = count
    BY <1>2, NothingOutside
    DEF Next, MsgAppend, MsgAppendExtend, TakeFree, TakeOldest, LinkEntry, WriteEntry,
        Restart, RestartLinks, RestartEntries, RestartFree, Upload, MsgReset, MsgVoid, MsgText,
        MsgClass, MsgClassRead, MsgEOF, MsgSkip, ReportBound, Reject, Crash, vars
  <2>2. InMsgAppend' => InMsgAppend
    BY <1>0, <1>2, NothingOutside
    DEF Next, MsgAppend, MsgAppendExtend, TakeFree, TakeOldest, LinkEntry, WriteEntry,
        Restart, RestartLinks, RestartEntries, RestartFree, Upload, MsgReset, MsgVoid, MsgText,
        MsgClass, MsgClassRead, MsgEOF, MsgSkip, ReportBound, Reject, Crash, vars,
        InMsgAppend, Critical, Goto, At
  <2> QED
    BY <2>1, <2>2 DEF CallInv
<1> QED
  BY <1>1, <1>2

(* The steps of MsgAppend evict, push and extend, or are not seen.           *)
LEMMA AppendLog ==
  ASSUME QuietRestart, QueueInv, QueueInv', CallInv, NEW t \in Threads, MsgAppend(t)
  PROVE  [Abstract!Next]_Log
<1>0. /\ TypeOK /\ TypeOK' /\ QueueShape /\ LinkedInv /\ pc \in [Threads -> Locations]
      /\ QSize \in Nat /\ QSize >= 2
  BY QSizeAssumption DEF QueueInv, TypeOK
<1>1. CASE MsgAppendLock(t) \/ TakeFree(t)
  <2>1. /\ UNCHANGED <<firstEntry, lastEntry, qText>>
        /\ \A u \in Threads : pc'[u] \in Restarting <=> pc[u] \in Restarting
        /\ \A u \in Threads : pc'[u] = "linked" <=> pc[u] = "linked"
    BY <1>0, <1>1 DEF MsgAppendLock, TakeFree, queueVars, Restarting, Goto, At
  <2>2. LogLength' = LogLength /\ \A k : LogSlot(k)' = LogSlot(k)
    BY <2>1 DEF LogLength, LogSlot, At
  <2> QED
    BY <2>1, <2>2 DEF Log
<1>2. CASE MsgAppendExtend(t) \/ TakeOldest(t) \/ LinkEntry(t) \/ WriteEntry(t)
  <2>1. pc[t] \in Critical /\ count \in 1..MaxMsgs
    BY <1>2 DEF MsgAppendExtend, TakeOldest, LinkEntry, WriteEntry, Critical, At, CallInv, InMsgAppend
  <2>2. /\ \A u \in Threads : pc[u] \notin Restarting
        /\ \A u \in Threads \ {t} : pc[u] \notin Critical
    BY <2>1, HolderAlone
  <2>3. /\ \A u \in Threads : pc'[u] \notin Restarting
        /\ \A u \in Threads \ {t} : pc'[u] = pc[u]
    BY <1>0, <1>2, <2>2 DEF MsgAppendExtend, TakeOldest, LinkEntry, WriteEntry, Restarting, Goto
  <2>4. firstEntry # Nil => firstEntry \in Slots
    BY <1>0 DEF TypeOK, Entry
  <2>a. CASE MsgAppendExtend(t)
    <3>1. /\ pc[t] = "locked" /\ pc'[t] = "idle" /\ lastEntry \in Slots /\ lastEntry # Nil
          /\ UNCHANGED <<firstEntry, lastEntry>>
          /\ qText' = [qText EXCEPT ![lastEntry] = Append(qText[lastEntry], count)]
      BY <1>0, <2>a DEF MsgAppendExtend, At, Goto, TypeOK, Entry
    <3>2. ~Linked /\ ~Linked' /\ firstEntry # Nil
      <4>1. ~Linked /\ ~Linked'
        BY <2>2, <2>3, <3>1 DEF Linked, Critical, At
      <4>2. Empty \/ Filling \/ Wrapped
        BY <1>0, <2>2, <3>1 DEF QueueShape, Critical, At
      <4>3. firstEntry # Nil
        BY <1>0, <3>1, <4>2 DEF Empty, Filling, Wrapped, Slots, Nil, Succ
      <4> QED
        BY <4>1, <4>3
    <3>3. /\ LogLength = Span /\ LogLength' = Span /\ LogLength \in 1..QSize
          /\ Len(Log) = LogLength /\ Log \in [1..LogLength -> Seq(Nat)]
      BY <1>0, <2>2, <2>3, <2>4, <3>1, <3>2, LogLengthFacts, SpanFacts DEF LogLength, Span, Linked
    <3>4. LogSlot(LogLength) = lastEntry /\ \A k \in 1..LogLength : LogSlot(k) \in Slots
      BY <1>0, <2>4, <3>1, <3>2, <3>3, SpanFacts
    <3>5. \A k \in 1..LogLength : k # LogLength => LogSlot(k) # lastEntry
      BY <1>0, <2>4, <3>1, <3>2, <3>3, <3>4, SpanFacts
    <3>6. \A k \in 1..LogLength : LogSlot(k)' = LogSlot(k)
      BY <3>1 DEF LogSlot
    <3>7. Log' = [Log EXCEPT ![Len(Log)] = Append(Log[Len(Log)], count)]
      <4>1. Log' = [k \in 1..LogLength |-> qText'[LogSlot(k)]]
        BY <3>3, <3>6 DEF Log
      <4>2. \A k \in 1..LogLength : k # LogLength => Log'[k] = Log[k]
        BY <1>0, <3>1, <3>4, <3>5, <4>1 DEF Log, TypeOK
      <4>3. Log'[LogLength] = Append(Log[LogLength], count)
        <5>1. LogLength \in 1..LogLength
          BY <1>0, <3>3
        <5>2. Log[LogLength] = qText[lastEntry]
          BY <3>4, <5>1 DEF Log
        <5>3. Log'[LogLength] = qText'[lastEntry]
          BY <3>4, <4>1, <5>1
        <5> QED
          BY <1>0, <3>1, <5>2, <5>3 DEF TypeOK
      <4>4. Log' \in [1..LogLength -> Seq(Nat)]
        BY <1>0, <3>4, <4>1 DEF TypeOK
      <4>5. Log[LogLength] \in Seq(Nat) /\ count \in Nat
        BY <1>0, <3>3 DEF TypeOK
      <4>6. Append(Log[LogLength], count) \in Seq(Nat) /\ LogLength \in Nat
        BY <1>0, <3>3, <4>5
      <4> QED
        BY <3>3, <4>2, <4>3, <4>4, <4>6, ExceptFunction
    <3>8. Log # <<>>
      BY <3>3
    <3> QED
      BY <2>1, <3>7, <3>8 DEF Abstract!Next, Abstract!Extend, Log
  <2>b. CASE TakeOldest(t)
    <3>1. /\ pc[t] = "locked" /\ pc'[t] = "taken" /\ UNCHANGED lastEntry
          /\ firstEntry \in Slots /\ qText' = [qText EXCEPT ![firstEntry] = <<>>]
          /\ firstEntry' = qNext[firstEntry] /\ firstFree = Nil
      BY <1>0, <2>b DEF TakeOldest, At, Goto, TypeOK, Entry
    <3>2. ~Linked /\ ~Linked'
      BY <2>2, <2>3, <3>1 DEF Linked, Critical, At
    <3>3. Empty \/ Filling \/ Wrapped
      BY <1>0, <2>2, <3>1 DEF QueueShape, Critical, At
    <3>4. /\ firstEntry = Succ(lastEntry) /\ lastEntry \in Slots
          /\ RingLinks \/ (lastEntry = QSize - 1 /\ FreshLinks)
      <4>1. lastEntry \in Slots \union {Nil} /\ QSize \in Nat /\ QSize # 0
        BY <1>0 DEF TypeOK, Entry
      <4>2. ~Empty
        BY <3>1, <4>1 DEF Empty, Nil
      <4>3. CASE Filling
        <5>1. firstEntry = 0 /\ lastEntry # Nil /\ lastEntry + 1 = QSize /\ FreshLinks
          BY <3>1, <4>3 DEF Filling, Nil
        <5>2. lastEntry \in Slots /\ lastEntry = QSize - 1
          BY <4>1, <5>1 DEF Slots
        <5>. QED BY <5>1, <5>2 DEF Succ
      <4>4. CASE Wrapped
        BY <4>1, <4>4 DEF Wrapped
      <4>. QED BY <3>3, <4>2, <4>3, <4>4
    <3>5. firstEntry' = Succ(firstEntry) /\ firstEntry' \in Slots
      BY <1>0, <3>1, <3>4 DEF RingLinks, FreshLinks, Slots, Succ
    <3>6. firstEntry # Nil /\ firstEntry' # Nil
      BY <1>0, <3>1, <3>5 DEF Slots, Nil
    <3>7. LogLength = Span /\ LogLength' = Span' /\ Len(Log) = LogLength
      BY <1>0, <2>2, <2>3, <3>2, <3>4, <3>6, LogLengthFacts DEF LogLength, Span, Linked
    <3>8. Span = QSize /\ Span' = QSize - 1
      BY <1>0, <3>1, <3>4, <3>5 DEF Span, Slots, Succ
    <3>9. \A k \in 1..(QSize - 1) : LogSlot(k)' = LogSlot(k + 1)
      BY <1>0, <3>1, <3>5 DEF LogSlot, Slots, Succ
    <3>10. \A k \in 1..(QSize - 1) : LogSlot(k + 1) \in Slots /\ LogSlot(k + 1) # firstEntry
      BY <1>0, <3>1 DEF LogSlot, Slots
    <3>11. Log' = [k \in 1..(Len(Log) - 1) |-> Log[k + 1]]
      BY <1>0, <3>1, <3>7, <3>8, <3>9, <3>10 DEF Log, TypeOK
    <3>12. Log \in Seq(Seq(Nat)) /\ Log # <<>>
      BY <1>0, <2>2, <3>4, <3>7, <3>8, LogLengthFacts
    <3>13. Log' = Tail(Log)
      BY <3>11, <3>12, TailFunction
    <3> QED
      BY <3>7, <3>8, <3>13 DEF Abstract!Next, Abstract!Evict, Log
  <2>c. CASE LinkEntry(t)
    <3> DEFINE e == nextEntry[t]
    <3>1. pc[t] = "taken" /\ pc'[t] = "linked" /\ UNCHANGED qText /\ lastEntry' = e /\ e \in Entry
      BY <1>0, <2>c DEF LinkEntry, At, Goto, TypeOK
    <3>2. ~Linked /\ Linked'
      BY <2>2, <2>3, <3>1 DEF Linked, Critical, At
    <3>3. TakenFromFree(e) \/ TakenFromRing(e)
      BY <1>0, <3>1 DEF QueueShape, At
    <3>4. CASE firstEntry = Nil
      <4>1. firstEntry' = 0 /\ lastEntry' = 0
        BY <1>0, <2>c, <3>1, <3>3, <3>4
        DEF LinkEntry, TakenFromFree, TakenFromRing, TypeOK, Entry, Slots, Nil, Succ
      <4>2. LogLength = 0 /\ LogLength' = 0
        BY <1>0, <2>2, <2>3, <3>2, <3>4, <4>1 DEF LogLength, Linked, Nil
      <4> QED
        BY <4>2 DEF Log
    <3>5. CASE firstEntry # Nil
      <4>1. /\ lastEntry \in Slots /\ firstEntry' = firstEntry /\ e \in Slots
            /\ (e = lastEntry + 1 /\ firstEntry = 0) \/ (e = Succ(lastEntry) /\ firstEntry = Succ(e))
        BY <1>0, <2>c, <3>1, <3>3, <3>5
        DEF LinkEntry, TakenFromFree, TakenFromRing, TypeOK, Entry, Slots, Nil, Succ
      <4>2. Span' = Span + 1 /\ Span \in Nat
        BY <1>0, <2>4, <3>1, <3>5, <4>1 DEF Span, Slots, Succ
      <4>3. LogLength = Span /\ LogLength' = Span' - 1
        BY <1>0, <2>2, <2>3, <3>2, <3>5, <4>1 DEF LogLength, Linked, Span
      <4>4. LogLength' = LogLength /\ \A k : LogSlot(k)' = LogSlot(k)
        BY <4>1, <4>2, <4>3 DEF LogSlot
      <4> QED
        BY <3>1, <4>4 DEF Log
    <3> QED
      BY <3>4, <3>5
  <2>d. CASE WriteEntry(t)
    <3>1. /\ pc[t] = "linked" /\ pc'[t] = "idle" /\ lastEntry \in Slots /\ lastEntry # Nil
          /\ UNCHANGED <<firstEntry, lastEntry>>
          /\ qText' = [qText EXCEPT ![lastEntry] = <<count>>]
      BY <1>0, <2>d DEF WriteEntry, At, Goto, TypeOK, Entry
    <3>2. Linked /\ ~Linked'
      BY <2>2, <2>3, <3>1 DEF Linked, Critical, At
    <3>3. Empty \/ Filling \/ Wrapped
      BY <1>0, <2>2, <3>1 DEF QueueShape, Critical, At
    <3>4. firstEntry \in Slots /\ firstEntry # Nil
      BY <1>0, <3>1, <3>3 DEF Empty, Filling, Wrapped, TypeOK, Entry, Slots, Nil, Succ
    <3>5. /\ LogLength = Span - 1 /\ LogLength' = Span /\ Span \in 1..QSize
          /\ Len(Log) = LogLength /\ Log \in [1..LogLength -> Seq(Nat)] /\ Log \in Seq(Seq(Nat))
      BY <1>0, <2>2, <2>3, <3>1, <3>2, <3>4, LogLengthFacts, SpanFacts DEF LogLength, Span, Linked
    <3>6. LogSlot(Span) = lastEntry /\ \A k \in 1..Span : LogSlot(k) \in Slots
      BY <1>0, <3>1, <3>4, <3>5, SpanFacts
    <3>7. \A k \in 1..LogLength : LogSlot(k) # lastEntry
      BY <1>0, <3>1, <3>4, <3>5, <3>6, SpanFacts
    <3>8. \A k \in 1..Span : LogSlot(k)' = LogSlot(k)
      BY <3>1 DEF LogSlot
    <3>9. Log' = [k \in 1..(Len(Log) + 1) |-> qText'[LogSlot(k)]] /\ Len(Log) + 1 = Span
      BY <1>0, <3>5, <3>8 DEF Log
    <3>10. Log' = Append(Log, <<count>>)
      <4>1. ASSUME NEW k \in 1..Len(Log) PROVE Log'[k] = Log[k]
        <5>1. k \in 1..LogLength /\ k \in 1..Span /\ k \in 1..(Len(Log) + 1)
          BY <1>0, <3>5, <3>9
        <5>2. Log[k] = qText[LogSlot(k)]
          BY <5>1 DEF Log
        <5>3. Log'[k] = qText'[LogSlot(k)]
          BY <3>9, <5>1
        <5>4. LogSlot(k) \in Slots /\ LogSlot(k) # lastEntry /\ qText \in [Slots -> Seq(Nat)]
          BY <1>0, <3>6, <3>7, <5>1 DEF TypeOK
        <5> QED
          BY <3>1, <5>2, <5>3, <5>4
      <4>2. Log'[Len(Log) + 1] = <<count>>
        BY <1>0, <3>1, <3>5, <3>6, <3>9 DEF TypeOK
      <4>3. Log' \in [1..(Len(Log) + 1) -> Seq(Nat)]
        BY <1>0, <3>6, <3>9 DEF TypeOK
      <4>4. <<count>> \in Seq(Nat)
        BY <1>0 DEF TypeOK
      <4> QED
        BY <3>5, <4>1, <4>2, <4>3, <4>4, AppendFunction
    <3>11. Len(Log) < QSize
      BY <1>0, <3>5
    <3> QED
      BY <2>1, <3>10, <3>11 DEF Abstract!Next, Abstract!Push, Log
  <2> QED
    BY <1>2, <2>a, <2>b, <2>c, <2>d
<1> QED
  BY <1>1, <1>2, NothingOutside DEF MsgAppend

(* A restart clears the log at its first step.                               *)
LEMMA RestartLog ==
  ASSUME QueueInv, NEW t \in Threads, Restart(t) PROVE [Abstract!Next]_Log
<1>0. pc \in [Threads -> Locations] /\ QuietInv
  BY DEF QueueInv, TypeOK
<1>1. pc'[t] \in Restarting \/ firstEntry' = Nil
  BY <1>0 DEF Restart, RestartLinks, RestartEntries, RestartFree, QuietInv, Restarting, Goto, At
<1>2. LogLength' = 0
  BY <1>1 DEF LogLength
<1>3. Log' \in [1..0 -> Seq(Nat)]
  BY <1>2 DEF Log
<1>4. Log' = <<>>
  BY <1>3, EmptyFunction
<1> QED
  BY <1>4 DEF Abstract!Next, Abstract!Clear, Log

(* Reading does not change the log.                                          *)
LEMMA UploadLog ==
  ASSUME QuietRestart, QueueInv, Upload PROVE Log' = Log
<1>1. LogLength' = LogLength /\ UNCHANGED <<firstEntry, qText>>
  BY UploadFrame DEF LogLength, At
<1>2. \A k : LogSlot(k)' = LogSlot(k)
  BY <1>1 DEF LogSlot
<1> QED
  BY <1>1, <1>2 DEF Log

(* Read from the oldest entry to the newest, the slots are a log that keeps  *)
(* the QSize most recent entries: MsgAppend evicts only the oldest entry and *)
(* only when all slots are in use, and only the last entry is extended.      *)
THEOREM LogImplemented == QuietRestart => (Spec => LogSpec)
<1> SUFFICES ASSUME QuietRestart PROVE Spec => LogSpec
  OBVIOUS
<1>1. Init => Abstract!Init
  <2>1. Init => LogLength = 0
    BY DEF Init, LogLength
  <2>2. Init => Log \in [1..0 -> Seq(Nat)]
    BY <2>1 DEF Log
  <2> QED
    BY <2>2, EmptyFunction DEF Abstract!Init, Log
<1>2. Init => CallInv
  BY MaxMsgsAssumption DEF Init, CallInv, InMsgAppend, Critical
<1>3. QueueInv /\ QueueInv' /\ CallInv /\ [Next]_vars => [Abstract!Next]_Log
  <2> SUFFICES ASSUME QueueInv, QueueInv', CallInv, [Next]_vars PROVE [Abstract!Next]_Log
    OBVIOUS
  <2>1. CASE UNCHANGED vars
    <3>1. LogLength' = LogLength /\ UNCHANGED <<firstEntry, qText>>
      BY <2>1 DEF vars, queueVars, LogLength, At
    <3>2. \A k : LogSlot(k)' = LogSlot(k)
      BY <3>1 DEF LogSlot
    <3> QED
      BY <3>1, <3>2 DEF Log
  <2> QED
    BY <2>1, AppendLog, RestartLog, UploadLog DEF Next
<1>4. QueueInv /\ CallInv /\ [Next]_vars => CallInv'
  BY CallStep
<1> QED
  BY <1>1, <1>2, <1>3, <1>4, QueueInvariant, PTL DEF Spec, LogSpec, Abstract!Spec, Log
===============================================================================
