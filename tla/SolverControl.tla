----------------------------- MODULE SolverControl -----------------------------
(****************************************************************************)
(* How the browser starts, watches, traces and stops solver threads: the     *)
(* solver state and the trace rendezvous of goblinMessenger                  *)
(* (shell_src/messenger.cpp), the thread table, Goblin_Thread, Goblin_Init   *)
(* and Goblin_Delete (shell_src/goshMain.cpp), and the loop of CallSolver    *)
(* (tcl/menuOptimize.tk) with the buttons a user may press meanwhile.        *)
(*                                                                           *)
(* The user interface is one thread.  It handles buttons only while it waits *)
(* for events: when no solver call is on its way ("ready"), between two      *)
(* rounds of CallSolver ("pause") and at a trace point ("held").  Since a    *)
(* button may start CallSolver again, calls nest; calls[1] is the innermost. *)
(****************************************************************************)
EXTENDS Naturals, Sequences, FiniteSets

CONSTANTS
  UI,          \* the thread of the user interface
  Solvers,     \* identities of solver threads, each is used once
  NoThread,    \* the thread ID of an unused index
  MaxThreads,  \* MAX_NUM_THREADS
  MaxTrace,    \* bound: number of trace points with a patient user, ...
  MaxTraceRush \* ... and with one who does not wait

ASSUME ThreadAssumption == UI \notin Solvers /\ NoThread \notin Solvers \union {UI}
ASSUME MaxThreadsAssumption == MaxThreads \in Nat /\ MaxThreads >= 2
ASSUME BoundAssumption == MaxTrace \in Nat /\ MaxTraceRush \in 0..MaxTrace

VARIABLES
  signalHalt,    \* "running" 0, "stop" 1, "idle" 2, "pending" 3
  threadID,      \* goblinThreadData
  interps,       \* goblinInterprCounter
  destroyThread,
  traceEvent, traceFile,  \* the rendezvous; the last trace file, 0 if there is none
  returnCode,    \* the thread whose script has set the return code
  pc, counter,   \* location and register of each solver thread
  ui,            \* location of the user interface
  calls,         \* the active CallSolver procedures: thread started, last trace file seen
  newThread,     \* thread and index in the midst of "goblin solver thread"
  singleStep, traceLock, commLevel,  \* variables of the browser
  patient,       \* the user waits for CallSolver, and for the last thread, before the next start
  stopped,       \* the threads told to stop when they were running, until they are idle
  failed         \* the threads whose script has failed, until their CallSolver returns

solverVars == <<pc, counter>>
uiVars == <<ui, calls, newThread, singleStep, traceLock, commLevel>>
engineVars == <<signalHalt, threadID, interps, destroyThread, traceEvent, traceFile, returnCode>>
history == <<stopped, failed>>
vars == <<engineVars, solverVars, uiVars, patient, history>>

Indices == 0..(MaxThreads - 1)
Threads == Solvers \union {UI}

Locations == {"none", "created", "init", "initWrite", "pending", "work", "tracing", "traced", "return",
              "evaluated", "idle", "delete", "deleteWrite", "deleted", "free", "gone"}
(* A thread evaluates its script from SolverSignalStarted to SolverSignalIdle. *)
Evaluating == {"work", "tracing", "traced", "return", "evaluated"}

Init ==
  /\ signalHalt = "idle"
  /\ threadID = [i \in Indices |-> IF i = 0 THEN UI ELSE NoThread]
  /\ interps = 1
  /\ destroyThread = FALSE
  /\ traceEvent = FALSE /\ traceFile = 0
  /\ returnCode = NoThread
  /\ pc = [t \in Solvers |-> "none"]
  /\ counter = [t \in Solvers |-> 0]
  /\ ui = "ready"
  /\ calls = <<>>
  /\ newThread = [thread |-> NoThread, index |-> 0]
  /\ singleStep = FALSE /\ traceLock = FALSE /\ commLevel = 3
  /\ patient \in BOOLEAN
  /\ stopped = {} /\ failed = {}

Alive(t) == pc[t] \notin {"none", "gone"}
FreeIndices == {i \in Indices : threadID[i] = NoThread}
At(t, l) == pc[t] = l
Goto(t, l) == pc' = [pc EXCEPT ![t] = l]

-------------------------------------------------------------------------------
(* The solver thread: Goblin_Thread.                                         *)

(* Mutant: the thread does not wait for its index.                           *)
ThreadIndexUnknown(t) ==
  /\ At(t, "created")
  /\ Goto(t, "init")
  /\ UNCHANGED <<engineVars, counter, uiVars, history>>

(* It first spins until pthread_create has stored its ID in the table.       *)
ThreadIndexKnown(t) ==
  /\ At(t, "created") /\ \E i \in Indices : threadID[i] = t
  /\ Goto(t, "init")
  /\ UNCHANGED <<engineVars, counter, uiVars, history>>

(* goblinInterprCounter++, which is a read and a write; the register is free *)
(* again after it.                                                           *)
GoblinInit(t) ==
  \/ /\ At(t, "init") /\ counter' = [counter EXCEPT ![t] = interps]
     /\ Goto(t, "initWrite")
     /\ UNCHANGED <<engineVars, uiVars, history>>
  \/ /\ At(t, "initWrite") /\ interps' = counter[t] + 1
     /\ Goto(t, "pending")
     /\ counter' = [counter EXCEPT ![t] = 0]
     /\ UNCHANGED <<signalHalt, threadID, destroyThread, traceEvent, traceFile, returnCode,
                    uiVars, history>>

SolverSignalStarted(t) ==
  /\ At(t, "pending")
  /\ signalHalt' = "running"
  /\ Goto(t, "work")
  /\ UNCHANGED <<threadID, interps, destroyThread, traceEvent, traceFile, returnCode,
                 counter, uiVars, history>>

(* Goblin_TraceEventHandler: the tests, then TraceAppend, then TraceSemTake. *)
TracePoint(t) ==
  /\ At(t, "work") /\ traceFile < (IF patient THEN MaxTrace ELSE MaxTraceRush)
  /\ commLevel >= 3 /\ signalHalt = "running"
  /\ Goto(t, "tracing")
  /\ UNCHANGED <<engineVars, counter, uiVars, history>>

TraceAppend(t) ==
  /\ At(t, "tracing")
  /\ traceEvent' = TRUE /\ traceFile' = traceFile + 1
  /\ Goto(t, "traced")
  /\ UNCHANGED <<signalHalt, threadID, interps, destroyThread, returnCode, counter,
                 uiVars, history>>

(* Mutant: leaving the trace point also signals that the solver is running.  *)
TraceSemTakeRestarts(t) ==
  /\ At(t, "traced") /\ ~traceEvent
  /\ signalHalt' = "running"
  /\ Goto(t, "work")
  /\ UNCHANGED <<threadID, interps, destroyThread, traceEvent, traceFile, returnCode,
                 counter, uiVars, history>>

TraceSemTake(t) ==
  /\ At(t, "traced") /\ ~traceEvent
  /\ Goto(t, "work")
  /\ UNCHANGED <<engineVars, counter, uiVars, history>>

(* Mutant: the thread reports idle before the script has set its result.     *)
EndSolverIdle(t) ==
  /\ At(t, "work")
  /\ signalHalt' = "idle"
  /\ Goto(t, "return")
  /\ UNCHANGED <<threadID, interps, destroyThread, traceEvent, traceFile, returnCode,
                 counter, uiVars, history>>

(* The algorithm ends, by itself or since it has seen SolverRunning false.   *)
EndSolver(t) ==
  /\ At(t, "work")
  /\ Goto(t, "return")
  /\ UNCHANGED <<engineVars, counter, uiVars, history>>

(* "goblin solver return" and "goblin solver throw" spin while SolverIdle.   *)
SolverReturn(t) ==
  /\ At(t, "return") /\ signalHalt # "idle"
  /\ returnCode' = t
  /\ Goto(t, "evaluated")
  /\ UNCHANGED <<signalHalt, threadID, interps, destroyThread, traceEvent, traceFile,
                 counter, uiVars, history>>

(* Tcl_EvalFile gives TCL_ERROR: the file cannot be read, or a command fails  *)
(* that the script does not catch (its first line, "goblin alias ...").  The *)
(* thread logs this and goes on; the code that an earlier script has set,    *)
(* and its errorCode, stay in place.                                         *)
ScriptFails(t) ==
  /\ At(t, "work")
  /\ failed' = failed \union {t}
  /\ Goto(t, "evaluated")
  /\ UNCHANGED <<engineVars, counter, uiVars, stopped>>

SolverSignalIdle(t) ==
  /\ At(t, "evaluated")
  /\ signalHalt' = "idle"
  /\ stopped' = stopped \ {t}
  /\ Goto(t, "idle")
  /\ UNCHANGED <<threadID, interps, destroyThread, traceEvent, traceFile, returnCode,
                 counter, uiVars, failed>>

(* Mutant: destroyThread is not set.                                         *)
DestroyUnmarked(t) ==
  /\ At(t, "idle")
  /\ Goto(t, "delete")
  /\ UNCHANGED <<engineVars, counter, uiVars, history>>

DestroyBegin(t) ==
  /\ At(t, "idle")
  /\ destroyThread' = TRUE
  /\ Goto(t, "delete")
  /\ UNCHANGED <<signalHalt, threadID, interps, traceEvent, traceFile, returnCode, counter,
                 uiVars, history>>

(* Mutant: the interpreter is not counted down.                              *)
DeleteInterpUncounted(t) ==
  /\ At(t, "delete")
  /\ Goto(t, "deleted")
  /\ UNCHANGED <<engineVars, counter, uiVars, history>>

(* Tcl_DeleteInterp calls Goblin_Delete_... for the objects of the script,   *)
(* which are kept if destroyThread is set at "delete" (the objects are no    *)
(* state here), and Goblin_Delete, which decrements goblinInterprCounter:    *)
(* again a read and a write.  At zero it would destroy messenger and         *)
(* controller; the thread is not followed there.                             *)
DeleteInterp(t) ==
  \/ /\ At(t, "delete")
     /\ counter' = [counter EXCEPT ![t] = interps]
     /\ Goto(t, "deleteWrite")
     /\ UNCHANGED <<engineVars, uiVars, history>>
  \/ /\ At(t, "deleteWrite") /\ counter[t] > 1
     /\ interps' = counter[t] - 1
     /\ Goto(t, "deleted")
     /\ counter' = [counter EXCEPT ![t] = 0]
     /\ UNCHANGED <<signalHalt, threadID, destroyThread, traceEvent, traceFile, returnCode,
                    uiVars, history>>

DestroyEnd(t) ==
  /\ At(t, "deleted")
  /\ destroyThread' = FALSE
  /\ Goto(t, "free")
  /\ UNCHANGED <<signalHalt, threadID, interps, traceEvent, traceFile, returnCode, counter,
                 uiVars, history>>

(* Mutant: the loop over the table runs one element too far.                 *)
FreeThreadDataBeyond(t) ==
  /\ At(t, "free")
  /\ threadID' = [i \in 0..MaxThreads |->
                    IF i = MaxThreads \/ threadID[i] = t THEN NoThread ELSE threadID[i]]
  /\ Goto(t, "gone")
  /\ UNCHANGED <<signalHalt, interps, destroyThread, traceEvent, traceFile, returnCode,
                 counter, uiVars, history>>

FreeThreadData(t) ==
  /\ At(t, "free")
  /\ threadID' = [i \in Indices |-> IF threadID[i] = t THEN NoThread ELSE threadID[i]]
  /\ Goto(t, "gone")
  /\ UNCHANGED <<signalHalt, interps, destroyThread, traceEvent, traceFile, returnCode,
                 counter, uiVars, history>>

SolverThread(t) ==
  \/ ThreadIndexKnown(t) \/ GoblinInit(t) \/ SolverSignalStarted(t)
  \/ TracePoint(t) \/ TraceAppend(t) \/ TraceSemTake(t) \/ EndSolver(t) \/ SolverReturn(t)
  \/ ScriptFails(t) \/ SolverSignalIdle(t) \/ DestroyBegin(t) \/ DeleteInterp(t) \/ DestroyEnd(t)
  \/ FreeThreadData(t)

-------------------------------------------------------------------------------
(* The user interface.                                                       *)

Listening == ui \in {"ready", "pause", "held"}
AllGone == \A t \in Solvers : ~Alive(t)
MayStart == patient => ui = "ready" /\ AllGone

(* CallSolver tests SolverIdle, prepares the browser and calls "goblin       *)
(* solver thread", which reserves an index and signals that a solver is      *)
(* pending.                                                                  *)
StartSolver(t, i) ==
  /\ Listening /\ MayStart /\ At(t, "none")
  /\ signalHalt = "idle"
  /\ i \in FreeIndices /\ \A j \in FreeIndices : i <= j
  /\ signalHalt' = "pending"
  /\ newThread' = [thread |-> t, index |-> i]
  /\ calls' = <<[thread |-> t, prev |-> traceFile, file |-> 0]>> \o calls
  /\ traceLock' = FALSE /\ singleStep' \in BOOLEAN
  /\ ui' = "create"
  /\ UNCHANGED <<threadID, interps, destroyThread, traceEvent, traceFile, returnCode,
                 solverVars, commLevel, history>>

(* All indices are in use.  CallSolver ignores the error and, as the solver  *)
(* is idle, goes on to read a result, although no thread is its own.         *)
StartFails ==
  /\ Listening /\ MayStart
  /\ signalHalt = "idle"
  /\ FreeIndices = {}
  /\ calls' = <<[thread |-> NoThread, prev |-> traceFile, file |-> 0]>> \o calls
  /\ traceLock' = FALSE /\ singleStep' \in BOOLEAN
  /\ ui' = "collect"
  /\ UNCHANGED <<engineVars, solverVars, newThread, commLevel, history>>

(* pthread_create starts the thread and stores its ID, in this order or      *)
(* before the thread runs.                                                   *)
CreateThread ==
  /\ ui = "create"
  /\ Goto(newThread.thread, "created")
  /\ ui' = "store"
  /\ UNCHANGED <<engineVars, counter, calls, newThread, singleStep, traceLock,
                 commLevel, history>>

StoreThreadID ==
  /\ ui = "store"
  /\ threadID' = [threadID EXCEPT ![newThread.index] = newThread.thread]
  /\ ui' = "loop"
  /\ UNCHANGED <<signalHalt, interps, destroyThread, traceEvent, traceFile, returnCode,
                 solverVars, calls, newThread, singleStep, traceLock, commLevel, history>>

(* One round of the loop: while the solver is not idle, read the name of the *)
(* last trace file, if the communication level asks for it, ...              *)
LoopTest ==
  /\ ui = "loop"
  /\ ui' = IF signalHalt = "idle" THEN "collect" ELSE IF commLevel >= 2 THEN "file" ELSE "pause"
  /\ UNCHANGED <<engineVars, solverVars, calls, newThread, singleStep, traceLock, commLevel,
                 history>>

ReadTraceFile ==
  /\ ui = "file"
  /\ calls' = [calls EXCEPT ![1].file = traceFile]
  /\ ui' = "poll"
  /\ UNCHANGED <<engineVars, solverVars, newThread, singleStep, traceLock, commLevel, history>>

NewFile == calls[1].file # 0 /\ calls[1].file # calls[1].prev
Tracing == commLevel >= 3 /\ signalHalt # "idle"

(* Mutant: the solver is not unblocked.                                      *)
HandleTraceBlocked ==
  /\ ui = "poll"
  /\ IF Tracing /\ NewFile THEN calls' = [calls EXCEPT ![1].prev = calls[1].file]
     ELSE UNCHANGED calls
  /\ ui' = IF singleStep /\ NewFile THEN "held" ELSE "pause"
  /\ traceLock' = IF singleStep /\ NewFile THEN TRUE ELSE traceLock
  /\ UNCHANGED <<engineVars, solverVars, newThread, singleStep, commLevel, history>>

(* ... show a new one and, unless single steps are wanted, unblock the       *)
(* solver; then wait, for the user or for a while.                           *)
HandleTrace ==
  /\ ui = "poll"
  /\ IF Tracing /\ NewFile
     THEN /\ calls' = [calls EXCEPT ![1].prev = calls[1].file]
          /\ traceEvent' = IF singleStep THEN traceEvent ELSE FALSE
     ELSE UNCHANGED <<calls, traceEvent>>
  /\ ui' = IF singleStep /\ NewFile THEN "held" ELSE "pause"
  /\ traceLock' = IF singleStep /\ NewFile THEN TRUE ELSE traceLock
  /\ UNCHANGED <<signalHalt, threadID, interps, destroyThread, traceFile, returnCode,
                 solverVars, newThread, singleStep, commLevel, history>>

(* Without a canvas to show the file, the solver is unblocked at once.       *)
HandleTraceNoCanvas ==
  /\ ui = "poll" /\ Tracing
  /\ singleStep' = FALSE /\ traceEvent' = FALSE
  /\ ui' = "pause"
  /\ UNCHANGED <<signalHalt, threadID, interps, destroyThread, traceFile, returnCode,
                 solverVars, calls, newThread, traceLock, commLevel, history>>

EndWait ==
  /\ ui = "pause" \/ (ui = "held" /\ ~traceLock)
  /\ ui' = "loop"
  /\ UNCHANGED <<engineVars, solverVars, calls, newThread, singleStep, traceLock, commLevel,
                 history>>

(* The loop is over: read the result and return to the caller, which may be  *)
(* the event loop inside another CallSolver.                                 *)
SolverResult ==
  /\ ui = "collect"
  /\ calls' = Tail(calls)
  /\ ui' = IF Len(calls) = 1 THEN "ready" ELSE "pause"
  /\ failed' = failed \ {calls[1].thread}
  /\ UNCHANGED <<engineVars, solverVars, newThread, singleStep, traceLock, commLevel,
                 stopped>>

CallSolver ==
  \/ CreateThread \/ StoreThreadID \/ LoopTest \/ ReadTraceFile \/ HandleTrace
  \/ HandleTraceNoCanvas \/ EndWait \/ SolverResult

-------------------------------------------------------------------------------
(* What the user may do while the user interface is listening.               *)

Started(t) == pc[t] \in Evaluating
Starting(t) == pc[t] \in {"created", "init", "initWrite", "pending"}

(* Mutant: a solver that is idle is stopped, too.                            *)
SolverSignalStopAlways ==
  /\ Listening
  /\ signalHalt' = "stop"
  /\ stopped' = stopped \union {t \in Solvers : Started(t)}
  /\ UNCHANGED <<threadID, interps, destroyThread, traceEvent, traceFile, returnCode,
                 solverVars, uiVars, failed>>

(* StartOrStop has seen a solver that is not idle, but it may be by now.     *)
SolverSignalStop ==
  /\ Listening
  /\ signalHalt' = IF signalHalt # "idle" THEN "stop" ELSE signalHalt
  /\ stopped' = stopped \union {t \in Solvers : Started(t)}
  /\ UNCHANGED <<threadID, interps, destroyThread, traceEvent, traceFile, returnCode,
                 solverVars, uiVars, failed>>

(* The buttons of the tracing bar unblock the solver in any case.            *)
StepButton ==
  /\ Listening
  /\ singleStep' \in BOOLEAN
  /\ traceLock' = FALSE
  /\ traceEvent' = FALSE
  /\ UNCHANGED <<signalHalt, threadID, interps, destroyThread, traceFile, returnCode,
                 solverVars, ui, calls, newThread, commLevel, history>>

SetCommLevel ==
  /\ Listening
  /\ commLevel' \in {1, 2, 3} \ {commLevel}
  /\ UNCHANGED <<engineVars, solverVars, ui, calls, newThread, singleStep, traceLock, history>>

(* RestartEngine: the trace part of goblinMessenger::Restart.                *)
RestartEngine ==
  /\ Listening /\ signalHalt = "idle" /\ MayStart
  /\ traceEvent' = FALSE /\ traceFile' = 0
  /\ UNCHANGED <<signalHalt, threadID, interps, destroyThread, returnCode, solverVars,
                 uiVars, history>>

User ==
  \/ StartFails \/ \E t \in Solvers, i \in Indices : StartSolver(t, i)
  \/ SolverSignalStop \/ StepButton \/ SetCommLevel \/ RestartEngine

-------------------------------------------------------------------------------
Next ==
  /\ UNCHANGED patient
  /\ User \/ CallSolver \/ \E t \in Solvers : SolverThread(t)

Spec == Init /\ [][Next]_vars

(* Threads are scheduled, and the loop of CallSolver makes its next step;    *)
(* users need not do anything.                                               *)
FairSpec ==
  /\ Spec /\ WF_vars(UNCHANGED patient /\ CallSolver)
  /\ \A t \in Solvers : WF_vars(UNCHANGED patient /\ SolverThread(t))

-------------------------------------------------------------------------------
(* Properties.                                                               *)

(* The variables have the types of the C++ and Tcl variables they model.     *)
TypeOK ==
  /\ signalHalt \in {"running", "stop", "idle", "pending"}
  /\ threadID \in [Indices -> Threads \union {NoThread}]
  /\ interps \in Nat /\ destroyThread \in BOOLEAN
  /\ traceEvent \in BOOLEAN /\ traceFile \in 0..MaxTrace
  /\ returnCode \in Solvers \union {NoThread}
  /\ pc \in [Solvers -> Locations] /\ counter \in [Solvers -> Nat]
  /\ ui \in {"ready", "create", "store", "loop", "file", "poll", "pause", "held", "collect"}
  /\ calls \in Seq([thread : Solvers \union {NoThread}, prev : Nat, file : Nat])
  /\ newThread \in [thread : Solvers \union {NoThread}, index : Indices]
  /\ singleStep \in BOOLEAN /\ traceLock \in BOOLEAN /\ commLevel \in {1, 2, 3}
  /\ patient \in BOOLEAN
  /\ stopped \subseteq Solvers /\ failed \subseteq Solvers

(* SolverIdle() is true exactly when no thread is on its way from            *)
(* SolverSignalPending to SolverSignalIdle, and two threads never are.       *)
OnItsWay(t) == Starting(t) \/ Started(t) \/ (ui = "create" /\ newThread.thread = t)
IdleMeansDone ==
  /\ signalHalt = "idle" <=> \A t \in Solvers : ~OnItsWay(t)
  /\ \A t, u \in Solvers : OnItsWay(t) /\ OnItsWay(u) => t = u

(* A thread keeps the index it was given until it frees it, so that the wait *)
(* for the index at its start and Goblin_MyThreadIndex end.                  *)
TableConsistent ==
  /\ threadID[0] = UI
  /\ \A t \in Solvers :
       LET held == {i \in Indices : threadID[i] = t}
       IN  /\ pc[t] \in {"none", "gone"} => held = {}
           /\ pc[t] \in Locations \ {"none", "created", "gone"} => Cardinality(held) = 1

(* A thread that was told to stop while it was running is not made to run    *)
(* again: SolverRunning() stays false until it is idle.                      *)
StopHolds == \A t \in stopped : Started(t) => signalHalt = "stop"

(* goblinInterprCounter counts the interpreters, so that messenger and       *)
(* controller outlive all solver threads, and the objects that a script has  *)
(* created survive the end of its interpreter, since destroyThread is set    *)
(* when it is deleted, provided that no thread is started while another one  *)
(* ends (both fail otherwise: the counter and the flag are shared).          *)
HasInterp(t) == Alive(t) /\ pc[t] \notin {"created", "init", "initWrite", "deleted", "free"}
InterpretersCounted == interps = 1 + Cardinality({t \in Solvers : HasInterp(t)})
ObjectsSurvive ==
  patient => InterpretersCounted /\ \A t \in Solvers : At(t, "delete") => destroyThread

(* Each CallSolver gets the return code of the thread it has started, unless *)
(* the user starts another one meanwhile, or the script has failed before it *)
(* could set a code.  In the latter case CallSolver reads the code of an     *)
(* earlier call, for nothing resets it: the property does not cover it.      *)
ResultsMatch ==
  patient /\ ui = "collect" /\ calls[1].thread \notin failed => returnCode = calls[1].thread

(* A user who lets the browser trace without single steps need not touch it  *)
(* again: every trace point is passed and every CallSolver returns.          *)
Continuous == commLevel = 3 /\ ~singleStep
CallsEnd == (<>[]Continuous) => (calls # <<>> ~> calls = <<>>)
================================================================================
