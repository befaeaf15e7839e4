----------------------------- MODULE MessageQueue -----------------------------
(****************************************************************************)
(* The message queue of goblinMessenger (shell_src/messenger.cpp) and the    *)
(* threads that use it: the user interface, which appends its own log        *)
(* entries and reads the queue with the loop of UploadMessages               *)
(* (tcl/mainMessenger.tk), and the solver threads, which append entries.     *)
(*                                                                           *)
(* The queue is kept in arrays that are indexed by slots.  qNext links both  *)
(* the used slots (firstEntry .. lastEntry) and the free ones (from          *)
(* firstFree); the index QSize is the null pointer.  Every operation runs    *)
(* under msgLock, except Restart, which takes no lock at all, and the header *)
(* accessors (MsgClass, MsgModule, MsgLevel, MsgHandle, MsgHidden), which    *)
(* release the lock before they read.  An operation that keeps the lock from *)
(* its first access to its last one is one action, unless its intermediate   *)
(* states can be seen by one that does not take the lock.                    *)
(****************************************************************************)
EXTENDS Naturals, Sequences, FiniteSets

CONSTANTS
  QSize,          \* qSize, 100 in Goblin_Init
  UI,             \* the thread of the user interface
  Solvers,        \* the solver threads
  NoThread,       \* owner of a mutex that is free
  MaxMsgs,        \* bound: number of MsgAppend calls
  QuietRestart,   \* Restart is only called while the other threads are outside the messenger
  RawClient       \* the script interface also calls MsgSkip, MsgText and MsgClass unguarded

ASSUME QSizeAssumption == QSize \in Nat /\ QSize >= 2
ASSUME ThreadAssumption == UI \notin Solvers /\ NoThread \notin Solvers \union {UI}
ASSUME MaxMsgsAssumption == MaxMsgs \in Nat
ASSUME ScenarioAssumption == QuietRestart \in BOOLEAN /\ RawClient \in BOOLEAN

Threads == Solvers \union {UI}
Slots == 0..(QSize - 1)
Nil == QSize
Entry == Slots \union {Nil}

VARIABLES
  firstEntry, lastEntry, currentEntry, firstFree,  \* indices, Nil if there is none
  qNext,       \* the links between slots
  qText,       \* the text of an entry: its fragments, <<>> while there is no string
  qMsg,        \* qMsg, qModule, qHandle, qLevel, qHidden: the call that set them
  msgLock,     \* the thread that holds msgLock
  pc,          \* where each thread is
  nextEntry,   \* the local variable of MsgAppend
  count,       \* number of MsgAppend calls that have taken the lock
  shown,       \* the lines of the current upload: <<text, header>>
  fault        \* an array was read or written outside its bounds, or an unset string read

queueVars == <<firstEntry, lastEntry, currentEntry, firstFree, qNext, qText, qMsg>>
vars == <<queueVars, msgLock, pc, nextEntry, count, shown, fault>>

Locations == {"idle", "locked", "taken", "linked", "void", "text", "class", "classRead",
              "eof", "skip", "report", "restart", "restartPtr", "crashed"}

Goto(t, l) == pc' = [pc EXCEPT ![t] = l]
At(t, l) == pc[t] = l

Init ==
  /\ firstEntry = Nil /\ lastEntry = Nil /\ currentEntry = Nil /\ firstFree = 0
  /\ qNext = [i \in Slots |-> i + 1]
  /\ qText = [i \in Slots |-> <<>>]
  /\ qMsg = [i \in Slots |-> 0]
  /\ msgLock = NoThread
  /\ pc = [t \in Threads |-> "idle"]
  /\ nextEntry = [t \in Threads |-> Nil]
  /\ count = 0
  /\ shown = <<>>
  /\ fault = FALSE

(* An access outside the arrays: nothing is known of what follows.           *)
Crash(t) ==
  /\ fault' = TRUE
  /\ Goto(t, "crashed")
  /\ UNCHANGED <<queueVars, msgLock, nextEntry, count, shown>>

(* The environment's promise behind QuietRestart.                            *)
OthersOutside(t) == \A u \in Threads \ {t} : pc[u] = "idle"
NobodyRestarts == \A u \in Threads : pc[u] \notin {"restart", "restartPtr"}
Allowed == QuietRestart => NobodyRestarts

-------------------------------------------------------------------------------
(* MsgAppend *)

(* Any thread may log, except in the midst of another call.  The error path  *)
(* of the accessors (CT.Error) logs as well.                                 *)
MsgAppendLock(t) ==
  /\ At(t, "idle") \/ At(t, "report")
  /\ Allowed
  /\ msgLock = NoThread
  /\ count < MaxMsgs
  /\ msgLock' = t
  /\ count' = count + 1
  /\ Goto(t, "locked")
  /\ UNCHANGED <<queueVars, nextEntry, shown, fault>>

(* Mutant: the branch forgets to release the lock.                           *)
MsgAppendExtendKeepsLock(t) ==
  /\ At(t, "locked")
  /\ lastEntry # Nil
  /\ qText' = [qText EXCEPT ![lastEntry] = Append(@, count)]
  /\ Goto(t, "idle")
  /\ UNCHANGED <<firstEntry, lastEntry, currentEntry, firstFree, qNext, qMsg, msgLock,
                 nextEntry, count, shown, fault>>

(* Mutant: the new text replaces the old one.                                *)
MsgAppendExtendOverwrites(t) ==
  /\ At(t, "locked")
  /\ lastEntry # Nil
  /\ qText' = [qText EXCEPT ![lastEntry] = <<count>>]
  /\ msgLock' = NoThread
  /\ Goto(t, "idle")
  /\ UNCHANGED <<firstEntry, lastEntry, currentEntry, firstFree, qNext, qMsg,
                 nextEntry, count, shown, fault>>

(* A MSG_APPEND call extends the text of the last entry, if there is one.    *)
MsgAppendExtend(t) ==
  /\ At(t, "locked")
  /\ lastEntry # Nil
  /\ qText' = [qText EXCEPT ![lastEntry] = Append(@, count)]
  /\ msgLock' = NoThread
  /\ Goto(t, "idle")
  /\ UNCHANGED <<firstEntry, lastEntry, currentEntry, firstFree, qNext, qMsg,
                 nextEntry, count, shown, fault>>

(* Otherwise a slot is needed: the first free one ...                        *)
TakeFree(t) ==
  /\ At(t, "locked")
  /\ firstFree # Nil
  /\ nextEntry' = [nextEntry EXCEPT ![t] = firstFree]
  /\ firstFree' = qNext[firstFree]
  /\ Goto(t, "taken")
  /\ UNCHANGED <<firstEntry, lastEntry, currentEntry, qNext, qText, qMsg, msgLock,
                 count, shown, fault>>

(* ... or, when all are in use, the one of the oldest entry.                 *)
TakeOldest(t) ==
  /\ At(t, "locked")
  /\ firstFree = Nil
  /\ firstEntry # Nil
  /\ nextEntry' = [nextEntry EXCEPT ![t] = firstEntry]
  /\ firstEntry' = qNext[firstEntry]
  /\ qText' = [qText EXCEPT ![firstEntry] = <<>>]
  /\ Goto(t, "taken")
  /\ UNCHANGED <<lastEntry, currentEntry, firstFree, qNext, qMsg, msgLock, count,
                 shown, fault>>

TakeOutside(t) ==
  /\ At(t, "locked") /\ firstFree = Nil /\ firstEntry = Nil
  /\ Crash(t)

LinkEntry(t) ==
  /\ At(t, "taken")
  /\ IF lastEntry = Nil
     THEN /\ firstEntry' = nextEntry[t]
          /\ currentEntry' = nextEntry[t]
          /\ UNCHANGED qNext
     ELSE /\ qNext' = [qNext EXCEPT ![lastEntry] = nextEntry[t]]
          /\ UNCHANGED <<firstEntry, currentEntry>>
  /\ lastEntry' = nextEntry[t]
  /\ Goto(t, "linked")
  /\ UNCHANGED <<firstFree, qText, qMsg, msgLock, nextEntry, count, shown, fault>>

WriteEntry(t) ==
  /\ At(t, "linked")
  /\ lastEntry # Nil
  /\ qText' = [qText EXCEPT ![lastEntry] = <<count>>]
  /\ qMsg' = [qMsg EXCEPT ![lastEntry] = count]
  /\ msgLock' = NoThread
  /\ Goto(t, "idle")
  /\ UNCHANGED <<firstEntry, lastEntry, currentEntry, firstFree, qNext, nextEntry,
                 count, shown, fault>>

WriteOutside(t) == At(t, "linked") /\ lastEntry = Nil /\ Crash(t)

MsgAppend(t) ==
  \/ MsgAppendLock(t) \/ MsgAppendExtend(t)
  \/ TakeFree(t) \/ TakeOldest(t) \/ TakeOutside(t)
  \/ LinkEntry(t) \/ WriteEntry(t) \/ WriteOutside(t)

-------------------------------------------------------------------------------
(* Reading the queue.  UploadMessages resets the iterator, gives up if the   *)
(* queue is void, and then shows text and header of the current entry and    *)
(* skips to the next one until MsgEOF.                                       *)

(* A rejected call has released the lock; CT.Error logs and the script ends. *)
Reject ==
  /\ Goto(UI, "report")
  /\ UNCHANGED <<queueVars, msgLock, nextEntry, count, shown, fault>>

(* The bound on MsgAppend calls also ends an error report.                   *)
ReportBound ==
  /\ At(UI, "report") /\ count = MaxMsgs
  /\ Goto(UI, "idle")
  /\ UNCHANGED <<queueVars, msgLock, nextEntry, count, shown, fault>>

MsgReset ==
  /\ At(UI, "idle") /\ Allowed /\ msgLock = NoThread
  /\ currentEntry' = firstEntry
  /\ shown' = <<>>
  /\ Goto(UI, "void")
  /\ UNCHANGED <<firstEntry, lastEntry, firstFree, qNext, qText, qMsg, msgLock,
                 nextEntry, count, fault>>

MsgVoid ==
  /\ At(UI, "void") /\ msgLock = NoThread
  /\ Goto(UI, IF firstEntry = Nil THEN "idle" ELSE "text")
  /\ UNCHANGED <<queueVars, msgLock, nextEntry, count, shown, fault>>

MsgText ==
  /\ At(UI, "text") /\ msgLock = NoThread
  /\ \/ currentEntry = Nil /\ Reject
     \/ currentEntry # Nil /\ qText[currentEntry] = <<>> /\ Crash(UI)
     \/ /\ currentEntry # Nil
        /\ qText[currentEntry] # <<>>
        /\ shown' = Append(shown, <<qText[currentEntry], 0>>)
        /\ Goto(UI, "class")
        /\ UNCHANGED <<queueVars, msgLock, nextEntry, count, fault>>

(* The header accessors check the iterator under the lock ...                *)
MsgClass ==
  /\ At(UI, "class") /\ msgLock = NoThread
  /\ \/ currentEntry = Nil /\ Reject
     \/ /\ currentEntry # Nil
        /\ Goto(UI, "classRead")
        /\ UNCHANGED <<queueVars, msgLock, nextEntry, count, shown, fault>>

(* ... but read it, and the array, after they have released the lock.        *)
MsgClassRead ==
  /\ At(UI, "classRead")
  /\ \/ currentEntry = Nil /\ Crash(UI)
     \/ /\ currentEntry # Nil
        /\ shown' = [shown EXCEPT ![Len(shown)] = <<@[1], qMsg[currentEntry]>>]
        /\ Goto(UI, "eof")
        /\ UNCHANGED <<queueVars, msgLock, nextEntry, count, fault>>

AtEnd == currentEntry = Nil \/ currentEntry = lastEntry

MsgEOF ==
  /\ At(UI, "eof") /\ msgLock = NoThread
  /\ Goto(UI, IF AtEnd THEN "idle" ELSE "skip")
  /\ UNCHANGED <<queueVars, msgLock, nextEntry, count, shown, fault>>

(* Mutant: the iterator is not moved.                                        *)
MsgSkipStays ==
  /\ At(UI, "skip") /\ msgLock = NoThread
  /\ Goto(UI, "text")
  /\ UNCHANGED <<queueVars, msgLock, nextEntry, count, shown, fault>>

(* The test for the end looks at the link of the current entry, not at       *)
(* lastEntry.  A raw client calls MsgSkip without asking MsgEOF first.       *)
MsgSkip ==
  /\ msgLock = NoThread
  /\ At(UI, "skip") \/ (RawClient /\ At(UI, "idle") /\ Allowed)
  /\ \/ (currentEntry # Nil => qNext[currentEntry] = Nil) /\ Reject
     \/ /\ currentEntry # Nil /\ qNext[currentEntry] # Nil
        /\ currentEntry' = qNext[currentEntry]
        /\ Goto(UI, IF At(UI, "skip") THEN "text" ELSE "idle")
        /\ UNCHANGED <<firstEntry, lastEntry, firstFree, qNext, qText, qMsg, msgLock,
                       nextEntry, count, shown, fault>>

Upload == \/ MsgReset \/ MsgVoid \/ MsgText \/ MsgClass \/ MsgClassRead
          \/ MsgEOF \/ MsgSkip \/ ReportBound

-------------------------------------------------------------------------------
(* Restart, called by the commands "goblin restart", "goblin messenger       *)
(* restart" and by Goblin_Delete, takes no lock.                             *)

(* Mutant: the loop runs one element too far.                                *)
RestartLinksBeyond(t) ==
  /\ At(t, "idle")
  /\ QuietRestart => OthersOutside(t)
  /\ qNext' = [i \in 0..QSize |-> i + 1]
  /\ Goto(t, "restart")
  /\ UNCHANGED <<firstEntry, lastEntry, currentEntry, firstFree, qText, qMsg, msgLock,
                 nextEntry, count, shown, fault>>

RestartLinks(t) ==
  /\ At(t, "idle")
  /\ QuietRestart => OthersOutside(t)
  /\ qNext' = [i \in Slots |-> i + 1]
  /\ Goto(t, "restart")
  /\ UNCHANGED <<firstEntry, lastEntry, currentEntry, firstFree, qText, qMsg, msgLock,
                 nextEntry, count, shown, fault>>

(* Mutants: the iterator, or the last entry, is not reset.                   *)
RestartEntriesKeepsCurrent(t) ==
  /\ At(t, "restart")
  /\ firstEntry' = Nil /\ lastEntry' = Nil
  /\ Goto(t, "restartPtr")
  /\ UNCHANGED <<currentEntry, firstFree, qNext, qText, qMsg, msgLock, nextEntry, count,
                 shown, fault>>

RestartEntriesKeepsLast(t) ==
  /\ At(t, "restart")
  /\ firstEntry' = Nil /\ currentEntry' = Nil
  /\ Goto(t, "restartPtr")
  /\ UNCHANGED <<lastEntry, firstFree, qNext, qText, qMsg, msgLock, nextEntry, count,
                 shown, fault>>

RestartEntries(t) ==
  /\ At(t, "restart")
  /\ firstEntry' = Nil /\ lastEntry' = Nil /\ currentEntry' = Nil
  /\ Goto(t, "restartPtr")
  /\ UNCHANGED <<firstFree, qNext, qText, qMsg, msgLock, nextEntry, count, shown, fault>>

(* Mutant: the free slots are not reset.                                     *)
RestartFreeForgets(t) ==
  /\ At(t, "restartPtr")
  /\ Goto(t, "idle")
  /\ UNCHANGED <<queueVars, msgLock, nextEntry, count, shown, fault>>

RestartFree(t) ==
  /\ At(t, "restartPtr")
  /\ firstFree' = 0
  /\ Goto(t, "idle")
  /\ UNCHANGED <<firstEntry, lastEntry, currentEntry, qNext, qText, qMsg, msgLock,
                 nextEntry, count, shown, fault>>

Restart(t) == RestartLinks(t) \/ RestartEntries(t) \/ RestartFree(t)

-------------------------------------------------------------------------------
Next == (\E t \in Threads : MsgAppend(t) \/ Restart(t)) \/ Upload

Spec == Init /\ [][Next]_vars

(* A thread that is inside a messenger call goes on with it, and the loop of *)
(* UploadMessages makes the next call; nobody has to start anything.         *)
Continue(t) == ~At(t, "idle") /\ (MsgAppend(t) \/ Restart(t))
ContinueUpload == ~At(UI, "idle") /\ Upload
FairSpec == Spec /\ WF_vars(ContinueUpload) /\ \A t \in Threads : WF_vars(Continue(t))

-------------------------------------------------------------------------------
(* Properties.                                                               *)

Critical == {"locked", "taken", "linked"}
Restarting == {"restart", "restartPtr"}

(* Every variable of the messenger holds a value of its C++ type; an index   *)
(* is a slot or qSize.                                                       *)
TypeOK ==
  /\ firstEntry \in Entry /\ lastEntry \in Entry
  /\ currentEntry \in Entry /\ firstFree \in Entry
  /\ qNext \in [Slots -> Entry]
  /\ qText \in [Slots -> Seq(Nat)]
  /\ qMsg \in [Slots -> Nat]
  /\ msgLock \in Threads \union {NoThread}
  /\ pc \in [Threads -> Locations]
  /\ nextEntry \in [Threads -> Entry]
  /\ count \in Nat
  /\ shown \in Seq(Seq(Nat) \X Nat)
  /\ fault \in BOOLEAN

Succ(i) == IF i = QSize - 1 THEN 0 ELSE i + 1
FreshLinks == qNext = [i \in Slots |-> i + 1]
RingLinks == qNext = [i \in Slots |-> Succ(i)]

(* The shapes between two calls: no entry yet, the slots 0 .. lastEntry in   *)
(* use, or all of them in a ring whose oldest entry follows the newest one.  *)
Empty == firstEntry = Nil /\ lastEntry = Nil /\ firstFree = 0 /\ FreshLinks
Filling == firstEntry = 0 /\ lastEntry # Nil /\ firstFree = lastEntry + 1 /\ FreshLinks
Wrapped == lastEntry # Nil /\ firstEntry = Succ(lastEntry) /\ firstFree = Nil /\ RingLinks

(* The shapes in the midst of MsgAppend, when slot e is on no list.          *)
TakenFromFree(e) ==
  /\ FreshLinks
  /\ e # Nil /\ firstFree = e + 1
  /\ \/ e = 0 /\ firstEntry = Nil /\ lastEntry = Nil
     \/ e # 0 /\ firstEntry = 0 /\ lastEntry = e - 1
TakenFromRing(e) ==
  /\ lastEntry # Nil /\ e = Succ(lastEntry) /\ firstEntry = Succ(e) /\ firstFree = Nil
  /\ RingLinks \/ (lastEntry = QSize - 1 /\ FreshLinks)

(* MsgAppend keeps the two linked lists of slots in shape: the free slots    *)
(* and the used ones partition the array, the used ones form a chain from    *)
(* the oldest entry to the newest, and the slot recycled when the queue is   *)
(* full is the oldest.                                                       *)
QueueShape ==
  /\ \A t \in Threads : At(t, "taken") =>
        TakenFromFree(nextEntry[t]) \/ TakenFromRing(nextEntry[t])
  /\ (\A t \in Threads : pc[t] \notin {"taken"} \union Restarting) =>
        Empty \/ Filling \/ Wrapped

(* The slots between firstEntry and lastEntry.                               *)
Used(i) ==
  /\ firstEntry # Nil /\ lastEntry # Nil /\ i \in Slots
  /\ IF firstEntry <= lastEntry THEN firstEntry <= i /\ i <= lastEntry
     ELSE i <= lastEntry \/ firstEntry <= i

(* The iterator of the user interface stays on an entry of the queue while   *)
(* solvers append and recycle: it is unset, or on a used slot, or on the one *)
(* that MsgAppend is just recycling.                                         *)
ReaderOnQueue ==
  (\A t \in Threads : pc[t] \notin Restarting) =>
    \/ currentEntry = Nil
    \/ Used(currentEntry)
    \/ \E t \in Threads :
         At(t, "taken") /\ nextEntry[t] = currentEntry /\ TakenFromRing(currentEntry)

(* No call of the messenger reads or writes outside the arrays, or reads a   *)
(* text that is not there.                                                   *)
NoFault == ~fault

(* An upload shows entries in the order they were logged and none twice,     *)
(* even if entries are recycled under the iterator.                          *)
UploadInOrder ==
  \A i, j \in 1..Len(shown) : i < j => shown[i][1][1] < shown[j][1][1]

(* Once the solvers have stopped logging, the loop of UploadMessages comes to *)
(* an end, unless a thread has crashed: whatever they have left behind (a    *)
(* recycled slot under the iterator, a lock, a restart in the midst of the   *)
(* loop or restarts without end), the iterator reaches lastEntry or an error *)
(* ends the script.  Nothing is claimed while they go on: MsgAppend moves    *)
(* lastEntry away from the iterator, and the loop may chase it for ever.     *)
SolversQuiet == \A t \in Solvers : pc[t] \notin Critical
UploadEnds == <>[]SolversQuiet => (~At(UI, "idle") ~> At(UI, "idle") \/ fault)

(* The entry that is linked, but not yet written, is not in the log.         *)
LogLength ==
  LET span == IF firstEntry <= lastEntry THEN lastEntry + 1 - firstEntry
                                         ELSE lastEntry + 1 + QSize - firstEntry
  IN  IF firstEntry = Nil \/ \E t \in Threads : pc[t] \in Restarting THEN 0
      ELSE IF \E t \in Threads : At(t, "linked") THEN span - 1 ELSE span
LogSlot(k) == IF firstEntry + k <= QSize THEN firstEntry + k - 1
                                         ELSE firstEntry + k - 1 - QSize

(* The slots of the queue, read from the oldest to the newest entry, are a   *)
(* log that keeps the QSize most recent entries.                             *)
Abstract == INSTANCE BoundedLog WITH
  Capacity <- QSize, Fragments <- 1..MaxMsgs,
  log <- [k \in 1..LogLength |-> qText[LogSlot(k)]]
LogSpec == Abstract!Spec
===============================================================================
