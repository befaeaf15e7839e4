-------------------------- MODULE SolverControlProofs --------------------------
(****************************************************************************)
(* Proofs about the control of solver threads, for any set of threads, any   *)
(* size of the thread table and any number of trace files.                   *)
(****************************************************************************)
EXTENDS SolverControl, FiniteSetTheorems, SequenceTheorems, TLAPS

-------------------------------------------------------------------------------
(* The inductive invariant.                                                  *)

(* CallSolver is active unless the user interface is in its event loop.      *)
CallsInv == ui # "ready" <=> calls # <<>>

(* The thread that is being created, and the index reserved for it.          *)
Creating == ui \in {"create", "store"}
CreatingInv ==
  /\ Creating => /\ newThread.thread \in Solvers
                 /\ newThread.index # 0 /\ threadID[newThread.index] = NoThread
  /\ ui = "create" => pc[newThread.thread] = "none"
  /\ ui = "store" => pc[newThread.thread] = "created"

(* A thread that has passed the test of a trace point may use a file.        *)
TraceInv == \A t \in Solvers : At(t, "tracing") => traceFile < MaxTrace

(* A thread without an index has not begun, has ended, or is just created.   *)
Unlisted(t) == pc[t] \in {"none", "gone"} \/ (ui = "store" /\ newThread.thread = t)
TableInv ==
  /\ \A i \in Indices : threadID[i] = UI <=> i = 0
  /\ \A t \in Solvers : Unlisted(t) => \A i \in Indices : threadID[i] # t
  /\ \A t \in Solvers : ~Unlisted(t) => \E i \in Indices : threadID[i] = t
  /\ \A t \in Solvers : \A i, j \in Indices : threadID[i] = t /\ threadID[j] = t => i = j

(* Only a thread that has been running is told to stop.                      *)
StopInv == \A t \in stopped : pc[t] # "none" /\ ~Starting(t)

(* The invariant for both users ...                                          *)
ControlInv ==
  /\ TypeOK /\ CallsInv /\ CreatingInv /\ TraceInv /\ IdleMeansDone /\ TableInv
  /\ StopInv /\ StopHolds

(* ... and what is known besides of a user who waits: only the last thread   *)
(* is alive, so nobody disturbs its counting, its objects and its result.    *)
Finished == {"evaluated", "idle", "delete", "deleteWrite", "deleted", "free", "gone"}
AloneInv == \A t \in Solvers : Alive(t) => t = newThread.thread
ResultInv ==
  /\ calls # <<>> => /\ Len(calls) = 1 /\ calls[1].thread = newThread.thread
                     /\ newThread.thread \in Solvers
  /\ ui \notin {"ready", "create"} => pc[newThread.thread] # "none"
  /\ ui = "collect" => pc[newThread.thread] \in Finished
  /\ calls # <<>> /\ pc[newThread.thread] \in Finished =>
       returnCode = newThread.thread \/ newThread.thread \in failed
CountInv ==
  /\ \A t \in Solvers : pc[t] \in {"initWrite", "deleteWrite"} => counter[t] = interps
  /\ interps = IF \E t \in Solvers : HasInterp(t) THEN 2 ELSE 1
  /\ \A t \in Solvers : pc[t] \in {"delete", "deleteWrite", "deleted"} => destroyThread
PatientInv == patient => AloneInv /\ ResultInv /\ CountInv

-------------------------------------------------------------------------------
(* The invariant for both users.                                             *)

(* The constructor and the first interpreter establish the invariant.        *)
LEMMA InitControlInv == Init => ControlInv
<1> SUFFICES ASSUME Init PROVE ControlInv
  OBVIOUS
<1>0. UI \notin Solvers /\ NoThread \notin Solvers /\ NoThread # UI
  BY ThreadAssumption
<1>1. TypeOK
  <2>1. /\ 0 \in Indices /\ 0 \in Nat /\ 1 \in Nat /\ 0 \in 0..MaxTrace
        /\ <<>> \in Seq([thread : Solvers \union {NoThread}, prev : Nat, file : Nat])
    BY MaxThreadsAssumption, BoundAssumption DEF Indices
  <2>2. threadID \in [Indices -> Threads \union {NoThread}]
    BY DEF Init, Threads
  <2>3. pc \in [Solvers -> Locations] /\ counter \in [Solvers -> Nat]
    BY DEF Init, Locations
  <2>4. newThread \in [thread : Solvers \union {NoThread}, index : Indices]
    BY <2>1 DEF Init
  <2> QED
    BY <2>1, <2>2, <2>3, <2>4 DEF Init, TypeOK
<1>2. CallsInv /\ CreatingInv /\ TraceInv /\ IdleMeansDone /\ StopInv /\ StopHolds
  BY DEF Init, CallsInv, CreatingInv, Creating, TraceInv, At, IdleMeansDone, OnItsWay,
         Starting, Started, Evaluating, StopInv, StopHolds
<1>3. TableInv
  BY <1>0 DEF Init, TableInv, Unlisted
<1> QED
  BY <1>1, <1>2, <1>3 DEF ControlInv

(* The locations of solver threads are the ones of Goblin_Thread.            *)
LEMMA GotoType ==
  ASSUME pc \in [Solvers -> Locations], NEW t \in Solvers, NEW l \in Locations, Goto(t, l)
  PROVE  pc' \in [Solvers -> Locations]
BY DEF Goto

(* The steps of a solver thread keep every variable in its type.             *)
LEMMA ThreadTypes ==
  ASSUME ControlInv, UNCHANGED patient, NEW t \in Solvers, SolverThread(t) PROVE TypeOK'
<1>0. TypeOK /\ TraceInv
  BY DEF ControlInv
<1>a. pc' \in [Solvers -> Locations]
  BY <1>0, GotoType
  DEF TypeOK, SolverThread, ThreadIndexKnown, GoblinInit, SolverSignalStarted, TracePoint,
      TraceAppend, TraceSemTake, EndSolver, SolverReturn, ScriptFails, SolverSignalIdle, DestroyBegin,
      DeleteInterp, DestroyEnd, FreeThreadData, Locations
<1>b. counter \in [Solvers -> Nat] /\ interps \in Nat
  BY <1>0 DEF TypeOK
<1>c. GoblinInit(t) \/ DeleteInterp(t) => counter' \in [Solvers -> Nat]
  BY <1>b DEF GoblinInit, DeleteInterp
<1>d. GoblinInit(t) \/ DeleteInterp(t) => interps' \in Nat
  <2>1. counter[t] \in Nat /\ counter[t] + 1 \in Nat /\ (counter[t] > 1 => counter[t] - 1 \in Nat)
    BY <1>b
  <2> QED
    BY <1>b, <2>1 DEF GoblinInit, DeleteInterp, engineVars
<1>1. CASE ThreadIndexKnown(t) \/ TracePoint(t) \/ TraceSemTake(t) \/ EndSolver(t)
  BY <1>0, <1>a, <1>1
  DEF TypeOK, ThreadIndexKnown, TracePoint, TraceSemTake, EndSolver, engineVars, uiVars, history
<1>2. CASE GoblinInit(t)
  <2>1. /\ UNCHANGED <<signalHalt, threadID, destroyThread, traceEvent, traceFile, returnCode>>
        /\ UNCHANGED <<uiVars, history>>
    BY <1>2 DEF GoblinInit, engineVars
  <2> QED
    BY <1>0, <1>a, <1>c, <1>d, <1>2, <2>1 DEF TypeOK, uiVars, history
<1>3. CASE SolverSignalStarted(t) \/ SolverReturn(t) \/ SolverSignalIdle(t)
  BY <1>0, <1>a, <1>3
  DEF TypeOK, SolverSignalStarted, SolverReturn, SolverSignalIdle, uiVars, history
<1>8. CASE ScriptFails(t)
  BY <1>0, <1>a, <1>8 DEF TypeOK, ScriptFails, engineVars, uiVars
<1>4. CASE TraceAppend(t)
  BY <1>0, <1>a, <1>4, BoundAssumption DEF TypeOK, TraceAppend, TraceInv, At, uiVars, history
<1>5. CASE DestroyBegin(t) \/ DestroyEnd(t)
  <2>1. destroyThread' \in BOOLEAN
    BY <1>5 DEF DestroyBegin, DestroyEnd
  <2> QED
    BY <1>0, <1>a, <1>5, <2>1 DEF TypeOK, DestroyBegin, DestroyEnd, uiVars, history
<1>6. CASE DeleteInterp(t)
  BY <1>0, <1>a, <1>c, <1>d, <1>6
  DEF TypeOK, DeleteInterp, engineVars, uiVars, history
<1>7. CASE FreeThreadData(t)
  BY <1>0, <1>a, <1>7 DEF TypeOK, FreeThreadData, uiVars, history
<1> QED
  BY <1>1, <1>2, <1>3, <1>4, <1>5, <1>6, <1>7, <1>8 DEF SolverThread

(* A sequence that is not empty has a head and a tail.                       *)
LEMMA NotEmpty ==
  ASSUME NEW S, NEW s \in Seq(S), s # <<>>
  PROVE  /\ Len(s) \in Nat \ {0} /\ 1 \in DOMAIN s /\ s[1] \in S
         /\ Tail(s) \in Seq(S) /\ (Tail(s) = <<>> <=> Len(s) = 1)
<1>1. Len(s) \in Nat \ {0} /\ 1 \in DOMAIN s /\ s[1] \in S /\ Tail(s) \in Seq(S)
  OBVIOUS
<1>2. Len(Tail(s)) = Len(s) - 1
  OBVIOUS
<1>3. Tail(s) = <<>> <=> Len(Tail(s)) = 0
  BY <1>1, EmptySeq
<1> QED
  BY <1>1, <1>2, <1>3

(* A call of CallSolver, as it is kept in calls.                             *)
CallRecord == [thread : Solvers \union {NoThread}, prev : Nat, file : Nat]

(* While CallSolver is active, calls has a first record.                     *)
LEMMA CallFacts ==
  ASSUME TypeOK, CallsInv, ui # "ready"
  PROVE  /\ calls \in Seq(CallRecord) /\ calls # <<>>
         /\ Len(calls) \in Nat \ {0} /\ 1 \in DOMAIN calls /\ calls[1] \in CallRecord
         /\ Tail(calls) \in Seq(CallRecord) /\ (Tail(calls) = <<>> <=> Len(calls) = 1)
<1>1. calls \in Seq(CallRecord) /\ calls # <<>>
  BY DEF TypeOK, CallsInv, CallRecord
<1> QED
  BY <1>1, NotEmpty

(* The steps of CallSolver keep every variable in its type.                  *)
LEMMA CallTypes == ASSUME ControlInv, UNCHANGED patient, CallSolver PROVE TypeOK'
<1>0. TypeOK /\ CallsInv /\ CreatingInv
  BY DEF ControlInv
<1>1. CASE CreateThread
  <2>1. pc' \in [Solvers -> Locations]
    BY <1>0, <1>1 DEF TypeOK, CreateThread, CreatingInv, Creating, Goto, Locations
  <2> QED
    BY <1>0, <1>1, <2>1 DEF TypeOK, CreateThread, engineVars, history
<1>2. CASE StoreThreadID
  <2>1. newThread.index \in Indices /\ newThread.thread \in Threads
    BY <1>0, <1>2 DEF TypeOK, StoreThreadID, CreatingInv, Creating, Threads
  <2>2. threadID' \in [Indices -> Threads \union {NoThread}]
    BY <1>0, <1>2, <2>1 DEF TypeOK, StoreThreadID
  <2> QED
    BY <1>0, <1>2, <2>2 DEF TypeOK, StoreThreadID, solverVars, history
<1>3. CASE LoopTest \/ EndWait
  BY <1>0, <1>3 DEF TypeOK, LoopTest, EndWait, engineVars, solverVars, history
<1>a. ASSUME ui # "ready", NEW k \in Nat
      PROVE  /\ [calls EXCEPT ![1].file = k] \in Seq(CallRecord)
             /\ [calls EXCEPT ![1].prev = calls[1].file] \in Seq(CallRecord)
             /\ Tail(calls) \in Seq(CallRecord)
  <2>1. /\ calls \in Seq(CallRecord) /\ 1 \in 1..Len(calls) /\ 1 \in DOMAIN calls
        /\ calls[1] \in CallRecord /\ Tail(calls) \in Seq(CallRecord)
    BY <1>0, <1>a, CallFacts
  <2>2. /\ [calls[1] EXCEPT !.file = k] \in CallRecord
        /\ [calls[1] EXCEPT !.prev = calls[1].file] \in CallRecord
    BY <2>1 DEF CallRecord
  <2>3. \A c \in CallRecord : [calls EXCEPT ![1] = c] \in Seq(CallRecord)
    BY <2>1, ExceptSeq
  <2>4. /\ [calls EXCEPT ![1].file = k] = [calls EXCEPT ![1] = [calls[1] EXCEPT !.file = k]]
        /\ [calls EXCEPT ![1].prev = calls[1].file]
             = [calls EXCEPT ![1] = [calls[1] EXCEPT !.prev = calls[1].file]]
    BY <2>1
  <2> QED
    BY <2>1, <2>2, <2>3, <2>4
<1>4. CASE ReadTraceFile
  <2>1. calls' \in Seq(CallRecord)
    <3>1. ui # "ready" /\ traceFile \in Nat
      BY <1>0, <1>4 DEF TypeOK, ReadTraceFile
    <3>2. [calls EXCEPT ![1].file = traceFile] \in Seq(CallRecord)
      BY <1>a, <3>1
    <3> QED
      BY <1>4, <3>2 DEF ReadTraceFile
  <2> QED
    BY <1>0, <1>4, <2>1 DEF TypeOK, CallRecord, ReadTraceFile, engineVars, solverVars, history
<1>5. CASE HandleTrace
  <2>1. calls' \in Seq(CallRecord)
    <3>1. ui # "ready" /\ 0 \in Nat
      BY <1>5 DEF HandleTrace
    <3>2. [calls EXCEPT ![1].prev = calls[1].file] \in Seq(CallRecord) /\ calls \in Seq(CallRecord)
      BY <1>0, <3>1, <1>a, CallFacts
    <3> QED
      BY <1>5, <3>2 DEF HandleTrace
  <2>2. traceEvent' \in BOOLEAN /\ traceLock' \in BOOLEAN
    BY <1>0, <1>5 DEF TypeOK, HandleTrace
  <2> QED
    BY <1>0, <1>5, <2>1, <2>2 DEF TypeOK, CallRecord, HandleTrace, solverVars, history
<1>6. CASE HandleTraceNoCanvas
  BY <1>0, <1>6 DEF TypeOK, HandleTraceNoCanvas, solverVars, history
<1>7. CASE SolverResult
  <2>1. calls' \in Seq(CallRecord)
    BY <1>0, <1>7, <1>a DEF TypeOK, SolverResult
  <2>2. failed' \subseteq Solvers
    BY <1>0, <1>7 DEF TypeOK, SolverResult
  <2> QED
    BY <1>0, <1>7, <2>1, <2>2 DEF TypeOK, CallRecord, SolverResult, engineVars, solverVars
<1> QED
  BY <1>1, <1>2, <1>3, <1>4, <1>5, <1>6, <1>7 DEF CallSolver

(* What the user does keeps every variable in its type.                      *)
LEMMA UserTypes == ASSUME ControlInv, UNCHANGED patient, User PROVE TypeOK'
<1>0. TypeOK
  BY DEF ControlInv
<1>a. ASSUME NEW t \in Solvers \union {NoThread}
      PROVE  <<[thread |-> t, prev |-> traceFile, file |-> 0]>> \o calls \in Seq(CallRecord)
  <2>1. [thread |-> t, prev |-> traceFile, file |-> 0] \in CallRecord
    BY <1>0, BoundAssumption DEF TypeOK, CallRecord
  <2>2. calls \in Seq(CallRecord)
    BY <1>0 DEF TypeOK, CallRecord
  <2> QED
    BY <2>1, <2>2
<1>1. CASE StartFails
  <2>1. calls' \in Seq(CallRecord)
    BY <1>1, <1>a DEF StartFails
  <2> QED
    BY <1>0, <1>1, <2>1 DEF TypeOK, CallRecord, StartFails, engineVars, solverVars, history
<1>2. ASSUME NEW t \in Solvers, NEW i \in Indices, StartSolver(t, i) PROVE TypeOK'
  <2>1. calls' \in Seq(CallRecord)
    BY <1>2, <1>a DEF StartSolver
  <2>2. newThread' \in [thread : Solvers \union {NoThread}, index : Indices]
    BY <1>2 DEF StartSolver
  <2> QED
    BY <1>0, <1>2, <2>1, <2>2 DEF TypeOK, CallRecord, StartSolver, solverVars, history
<1>3. CASE SolverSignalStop
  <2>1. signalHalt' \in {"running", "stop", "idle", "pending"} /\ stopped' \subseteq Solvers
    BY <1>0, <1>3 DEF TypeOK, SolverSignalStop
  <2> QED
    BY <1>0, <1>3, <2>1 DEF TypeOK, SolverSignalStop, solverVars, uiVars
<1>4. CASE StepButton
  <2>1. traceLock' \in BOOLEAN /\ traceEvent' \in BOOLEAN
    BY <1>4 DEF StepButton
  <2> QED
    BY <1>0, <1>4, <2>1 DEF TypeOK, StepButton, solverVars, history
<1>5. CASE SetCommLevel
  BY <1>0, <1>5 DEF TypeOK, SetCommLevel, engineVars, solverVars, history
<1>6. CASE RestartEngine
  <2>1. traceFile' \in 0..MaxTrace
    BY <1>6, BoundAssumption DEF RestartEngine
  <2>2. traceEvent' \in BOOLEAN
    BY <1>6 DEF RestartEngine
  <2> QED
    BY <1>0, <1>6, <2>1, <2>2 DEF TypeOK, RestartEngine, solverVars, uiVars, history
<1> QED
  BY <1>1, <1>2, <1>3, <1>4, <1>5, <1>6 DEF User

(* The order in which Goblin_Thread passes its locations.                    *)
Move(a, b) ==
  /\ a \in Locations \ {"none", "gone"}
  /\ (a = "work" => b \in {"tracing", "return", "evaluated"})
  /\ (a = "created" => b = "init") /\ (a = "init" => b = "initWrite")
  /\ (a = "initWrite" => b = "pending") /\ (a = "pending" => b = "work")
  /\ (a = "tracing" => b = "traced") /\ (a = "traced" => b = "work")
  /\ (a = "return" => b = "evaluated") /\ (a = "evaluated" => b = "idle")
  /\ (a = "idle" => b = "delete") /\ (a = "delete" => b = "deleteWrite")
  /\ (a = "deleteWrite" => b = "deleted") /\ (a = "deleted" => b = "free")
  /\ (a = "free" => b = "gone")

(* A step of a thread moves this thread only and leaves the browser alone.   *)
LEMMA ThreadMoves ==
  ASSUME TypeOK, NEW t \in Solvers, SolverThread(t)
  PROVE  /\ UNCHANGED <<ui, calls, newThread>> /\ stopped' \subseteq stopped
         /\ \A u \in Solvers \ {t} : pc'[u] = pc[u] /\ counter'[u] = counter[u]
         /\ Move(pc[t], pc'[t])
<1>1. UNCHANGED <<ui, calls, newThread>> /\ stopped' \subseteq stopped
  BY DEF SolverThread, ThreadIndexKnown, GoblinInit, SolverSignalStarted, TracePoint, TraceAppend,
         TraceSemTake, EndSolver, SolverReturn, ScriptFails, SolverSignalIdle, DestroyBegin, DeleteInterp,
         DestroyEnd, FreeThreadData, uiVars, history
<1>2. \A u \in Solvers \ {t} : counter'[u] = counter[u]
  BY DEF SolverThread, ThreadIndexKnown, GoblinInit, SolverSignalStarted, TracePoint, TraceAppend,
         TraceSemTake, EndSolver, SolverReturn, ScriptFails, SolverSignalIdle, DestroyBegin, DeleteInterp,
         DestroyEnd, FreeThreadData, TypeOK
<1>3. pc \in [Solvers -> Locations]
  BY DEF TypeOK
<1>4. Move(pc[t], pc'[t]) /\ \A u \in Solvers \ {t} : pc'[u] = pc[u]
  <2>1. CASE ThreadIndexKnown(t) \/ GoblinInit(t) \/ SolverSignalStarted(t)
    BY <1>3, <2>1 DEF ThreadIndexKnown, GoblinInit, SolverSignalStarted, At, Goto, Move, Locations
  <2>2. CASE TracePoint(t) \/ TraceAppend(t) \/ TraceSemTake(t)
    BY <1>3, <2>2 DEF TracePoint, TraceAppend, TraceSemTake, At, Goto, Move, Locations
  <2>3. CASE EndSolver(t) \/ SolverReturn(t) \/ ScriptFails(t) \/ SolverSignalIdle(t)
    BY <1>3, <2>3 DEF EndSolver, SolverReturn, ScriptFails, SolverSignalIdle, At, Goto, Move, Locations
  <2>4. CASE DestroyBegin(t) \/ DeleteInterp(t) \/ DestroyEnd(t) \/ FreeThreadData(t)
    BY <1>3, <2>4 DEF DestroyBegin, DeleteInterp, DestroyEnd, FreeThreadData, At, Goto, Move, Locations
  <2> QED
    BY <2>1, <2>2, <2>3, <2>4 DEF SolverThread
<1> QED
  BY <1>1, <1>2, <1>4

(* The calls of the user interface are nested properly, and the thread that  *)
(* is being created keeps its index: only user interface and threads with an *)
(* index change the table.                                                   *)
LEMMA CallsStep == ControlInv /\ [Next]_vars => (CallsInv /\ CreatingInv)'
<1> SUFFICES ASSUME ControlInv, [Next]_vars PROVE (CallsInv /\ CreatingInv)'
  OBVIOUS
<1>0. TypeOK /\ CallsInv /\ CreatingInv /\ TableInv
  BY DEF ControlInv
<1>1. CASE UNCHANGED vars
  BY <1>0, <1>1 DEF vars, engineVars, solverVars, uiVars, CallsInv, CreatingInv, Creating
<1>2. ASSUME NEW t \in Solvers, SolverThread(t) PROVE (CallsInv /\ CreatingInv)'
  <2>1. UNCHANGED <<ui, calls, newThread>>
    BY <1>0, <1>2, ThreadMoves
  <2>2. ASSUME Creating PROVE pc'[newThread.thread] = pc[newThread.thread]
    <3>1. /\ newThread.thread \in Solvers
          /\ pc[newThread.thread] \in {"none", "created"}
          /\ pc[newThread.thread] = "created" => ui = "store"
      BY <1>0, <2>2 DEF CreatingInv, Creating
    <3>2. ASSUME newThread.thread = t PROVE FALSE
      <4>1. Move(pc[t], pc'[t])
        BY <1>0, <1>2, ThreadMoves
      <4>2. pc[t] = "created" /\ Unlisted(t) /\ pc'[t] = "init"
        BY <2>1, <3>1, <3>2, <4>1 DEF Move, Unlisted
      <4>3. ThreadIndexKnown(t)
        BY <1>2, <4>2
        DEF SolverThread, GoblinInit, SolverSignalStarted, TracePoint, TraceAppend,
            TraceSemTake, EndSolver, SolverReturn, ScriptFails, SolverSignalIdle, DestroyBegin, DeleteInterp,
            DestroyEnd, FreeThreadData, At
      <4> QED
        BY <1>0, <4>2, <4>3 DEF ThreadIndexKnown, TableInv
    <3> QED
      BY <1>0, <1>2, <3>1, <3>2, ThreadMoves
  <2>3. ASSUME Creating PROVE threadID'[newThread.index] = NoThread
    <3>1. newThread.index \in Indices /\ threadID[newThread.index] = NoThread
      BY <1>0, <2>3 DEF TypeOK, CreatingInv
    <3> QED
      BY <1>0, <1>2, <3>1
      DEF SolverThread, ThreadIndexKnown, GoblinInit, SolverSignalStarted, TracePoint, TraceAppend,
          TraceSemTake, EndSolver, SolverReturn, ScriptFails, SolverSignalIdle, DestroyBegin, DeleteInterp,
          DestroyEnd, FreeThreadData, engineVars
  <2> QED
    BY <1>0, <2>1, <2>2, <2>3 DEF CallsInv, CreatingInv, Creating
<1>3. CASE CallSolver
  <2>1. CASE CreateThread
    BY <1>0, <2>1
    DEF CreateThread, CallsInv, CreatingInv, Creating, TypeOK, Goto, engineVars
  <2>2. CASE SolverResult
    <3>1. ui' \in {"ready", "pause"} /\ calls' = Tail(calls) /\ ui = "collect"
          /\ (ui' = "ready" <=> Len(calls) = 1)
      BY <2>2 DEF SolverResult
    <3>2. Tail(calls) = <<>> <=> Len(calls) = 1
      BY <1>0, <3>1, CallFacts
    <3> QED
      BY <3>1, <3>2 DEF CallsInv, CreatingInv, Creating
  <2>3. CASE StoreThreadID \/ LoopTest \/ HandleTraceNoCanvas \/ EndWait
    BY <1>0, <2>3
    DEF StoreThreadID, LoopTest, HandleTraceNoCanvas, EndWait, CallsInv, CreatingInv, Creating
  <2>4. CASE ReadTraceFile \/ HandleTrace
    <3>1. ui # "ready" /\ ui' \notin {"ready", "create", "store"}
      BY <2>4 DEF ReadTraceFile, HandleTrace
    <3>2. calls' = calls \/ DOMAIN calls' = DOMAIN calls
      BY <2>4 DEF ReadTraceFile, HandleTrace
    <3>3. calls # <<>> /\ DOMAIN calls # {}
      BY <1>0, <3>1, CallFacts
    <3> QED
      BY <1>0, <3>1, <3>2, <3>3 DEF CallsInv, CreatingInv, Creating
  <2> QED
    BY <1>3, <2>1, <2>2, <2>3, <2>4 DEF CallSolver
<1>4. CASE User
  <2>0. \A c : <<c>> \o calls # <<>>
    BY <1>0 DEF TypeOK
  <2>1. CASE StartFails
    BY <2>0, <2>1 DEF StartFails, CallsInv, CreatingInv, Creating
  <2>2. ASSUME NEW t \in Solvers, NEW i \in Indices, StartSolver(t, i)
        PROVE  (CallsInv /\ CreatingInv)'
    <3>1. threadID[i] = NoThread /\ i # 0
      BY <1>0, <2>2, ThreadAssumption DEF StartSolver, FreeIndices, TableInv
    <3> QED
      BY <2>0, <2>2, <3>1 DEF StartSolver, CallsInv, CreatingInv, Creating, At, solverVars
  <2>3. CASE SolverSignalStop \/ StepButton \/ SetCommLevel \/ RestartEngine
    BY <1>0, <2>3
    DEF SolverSignalStop, StepButton, SetCommLevel, RestartEngine, Listening, CallsInv,
        CreatingInv, Creating, engineVars, solverVars, uiVars
  <2> QED
    BY <1>4, <2>1, <2>2, <2>3 DEF User
<1> QED
  BY <1>1, <1>2, <1>3, <1>4 DEF Next

(* SolverIdle() tells whether a thread is on its way, and no second one is:  *)
(* the state "pending" closes the gap between the test and the start.        *)
LEMMA IdleStep == ControlInv /\ [Next]_vars => IdleMeansDone'
<1> SUFFICES ASSUME ControlInv, [Next]_vars PROVE IdleMeansDone'
  OBVIOUS
<1>0. TypeOK /\ CreatingInv /\ IdleMeansDone
  BY DEF ControlInv
<1>1. CASE UNCHANGED vars
  BY <1>0, <1>1 DEF vars, engineVars, solverVars, uiVars, IdleMeansDone, OnItsWay, Starting, Started
<1>2. ASSUME NEW t \in Solvers, SolverThread(t) PROVE IdleMeansDone'
  <2>0. /\ UNCHANGED <<ui, newThread>> /\ Move(pc[t], pc'[t])
        /\ \A u \in Solvers \ {t} : pc'[u] = pc[u]
    BY <1>0, <1>2, ThreadMoves
  <2>1. \A u \in Solvers \ {t} : OnItsWay(u)' = OnItsWay(u)
    BY <2>0 DEF OnItsWay, Starting, Started
  <2>2. CASE SolverSignalStarted(t)
    <3>1. OnItsWay(t) /\ OnItsWay(t)' /\ signalHalt' # "idle"
      BY <1>0, <2>2 DEF SolverSignalStarted, OnItsWay, Starting, Started, Evaluating, At, Goto, TypeOK
    <3> QED
      BY <1>0, <2>1, <3>1 DEF IdleMeansDone
  <2>3. CASE SolverSignalIdle(t)
    <3>1. OnItsWay(t) /\ signalHalt' = "idle" /\ pc'[t] = "idle"
      BY <1>0, <2>3 DEF SolverSignalIdle, OnItsWay, Started, Evaluating, At, Goto, TypeOK
    <3>2. ~OnItsWay(t)'
      BY <1>0, <2>0, <2>3, <3>1
      DEF SolverSignalIdle, OnItsWay, Starting, Started, Evaluating, At, CreatingInv
    <3> QED
      BY <1>0, <2>1, <3>1, <3>2 DEF IdleMeansDone
  <2>4. CASE ~SolverSignalStarted(t) /\ ~SolverSignalIdle(t)
    <3>1. signalHalt' = signalHalt /\ pc[t] \notin {"pending", "evaluated"}
      BY <1>2, <2>4
      DEF SolverThread, ThreadIndexKnown, GoblinInit, TracePoint, TraceAppend, TraceSemTake,
          EndSolver, SolverReturn, ScriptFails, DestroyBegin, DeleteInterp, DestroyEnd, FreeThreadData,
          engineVars, At
    <3>2. OnItsWay(t)' = OnItsWay(t)
      BY <2>0, <3>1 DEF OnItsWay, Starting, Started, Evaluating, Move, Locations
    <3> QED
      BY <1>0, <2>1, <3>1, <3>2 DEF IdleMeansDone
  <2> QED
    BY <2>2, <2>3, <2>4
<1>3. CASE CallSolver
  <2>1. UNCHANGED signalHalt
    BY <1>3
    DEF CallSolver, CreateThread, StoreThreadID, LoopTest, ReadTraceFile, HandleTrace,
        HandleTraceNoCanvas, EndWait, SolverResult, engineVars
  <2>2. ASSUME NEW u \in Solvers PROVE OnItsWay(u)' = OnItsWay(u)
    <3>1. CASE CreateThread
      BY <1>0, <3>1
      DEF CreateThread, OnItsWay, Starting, Started, Evaluating, Goto, TypeOK, CreatingInv, Creating
    <3>2. CASE ~CreateThread
      BY <1>3, <3>2
      DEF CallSolver, StoreThreadID, LoopTest, ReadTraceFile, HandleTrace, HandleTraceNoCanvas,
          EndWait, SolverResult, solverVars, OnItsWay, Starting, Started
    <3> QED
      BY <3>1, <3>2
  <2> QED
    BY <1>0, <2>1, <2>2 DEF IdleMeansDone
<1>4. CASE User
  <2>1. ASSUME NEW t \in Solvers, NEW i \in Indices, StartSolver(t, i) PROVE IdleMeansDone'
    <3>1. OnItsWay(t)' /\ signalHalt' # "idle"
      BY <2>1 DEF StartSolver, OnItsWay
    <3>2. \A u \in Solvers \ {t} : ~OnItsWay(u)'
      BY <1>0, <2>1 DEF StartSolver, IdleMeansDone, OnItsWay, Starting, Started, solverVars
    <3> QED
      BY <3>1, <3>2 DEF IdleMeansDone
  <2>2. CASE StartFails
    <3>1. \A u \in Solvers : OnItsWay(u)' = OnItsWay(u)
      BY <2>2 DEF StartFails, Listening, OnItsWay, Starting, Started, solverVars
    <3> QED
      BY <1>0, <2>2, <3>1 DEF StartFails, IdleMeansDone, engineVars
  <2>3. CASE SolverSignalStop \/ StepButton \/ SetCommLevel \/ RestartEngine
    <3>1. \A u \in Solvers : OnItsWay(u)' = OnItsWay(u)
      BY <2>3
      DEF SolverSignalStop, StepButton, SetCommLevel, RestartEngine, OnItsWay, Starting, Started,
          solverVars, uiVars
    <3>2. signalHalt' = "idle" <=> signalHalt = "idle"
      BY <2>3 DEF SolverSignalStop, StepButton, SetCommLevel, RestartEngine, engineVars
    <3> QED
      BY <1>0, <3>1, <3>2 DEF IdleMeansDone
  <2> QED
    BY <1>4, <2>1, <2>2, <2>3 DEF User
<1> QED
  BY <1>1, <1>2, <1>3, <1>4 DEF Next

(* A thread that runs is the only one that runs.                             *)
LEMMA OneStarted ==
  ASSUME IdleMeansDone, NEW t \in Solvers, Started(t)
  PROVE  signalHalt # "idle" /\ \A u \in Solvers : Started(u) => u = t
BY DEF IdleMeansDone, OnItsWay

(* Between its test and TraceAppend, a thread is the only one that traces.   *)
LEMMA TraceStep == ControlInv /\ [Next]_vars => TraceInv'
<1> SUFFICES ASSUME ControlInv, [Next]_vars PROVE TraceInv'
  OBVIOUS
<1>0. TypeOK /\ IdleMeansDone /\ TraceInv /\ CreatingInv
  BY DEF ControlInv
<1>1. CASE UNCHANGED vars
  BY <1>0, <1>1 DEF vars, engineVars, solverVars, TraceInv, At
<1>2. ASSUME NEW t \in Solvers, SolverThread(t) PROVE TraceInv'
  <2>0. Move(pc[t], pc'[t]) /\ \A u \in Solvers \ {t} : pc'[u] = pc[u]
    BY <1>0, <1>2, ThreadMoves
  <2>1. CASE TraceAppend(t)
    <3>1. \A u \in Solvers : At(u, "tracing") => u = t
      BY <1>0, <2>1, OneStarted DEF TraceAppend, Started, Evaluating, At
    <3>2. pc'[t] = "traced"
      BY <1>0, <2>1 DEF TraceAppend, Goto, TypeOK
    <3> QED
      BY <2>0, <3>1, <3>2 DEF TraceInv, At
  <2>2. CASE TracePoint(t)
    <3>1. traceFile < MaxTrace /\ traceFile' = traceFile
      BY <1>0, <2>2, BoundAssumption DEF TracePoint, TypeOK, engineVars
    <3> QED
      BY <3>1 DEF TraceInv
  <2>3. CASE ~TraceAppend(t) /\ ~TracePoint(t)
    <3>1. traceFile' = traceFile /\ pc'[t] # "tracing"
      BY <1>0, <1>2, <2>3
      DEF SolverThread, ThreadIndexKnown, GoblinInit, SolverSignalStarted, TraceSemTake, EndSolver,
          SolverReturn, ScriptFails, SolverSignalIdle, DestroyBegin, DeleteInterp, DestroyEnd, FreeThreadData,
          engineVars, Goto, TypeOK
    <3> QED
      BY <1>0, <2>0, <3>1 DEF TraceInv, At
  <2> QED
    BY <2>1, <2>2, <2>3
<1>3. CASE CallSolver
  <2>1. UNCHANGED traceFile
    BY <1>3
    DEF CallSolver, CreateThread, StoreThreadID, LoopTest, ReadTraceFile, HandleTrace,
        HandleTraceNoCanvas, EndWait, SolverResult, engineVars
  <2>2. \A u \in Solvers : At(u, "tracing")' => At(u, "tracing")
    BY <1>0, <1>3
    DEF CallSolver, CreateThread, StoreThreadID, LoopTest, ReadTraceFile, HandleTrace,
        HandleTraceNoCanvas, EndWait, SolverResult, solverVars, At, Goto, TypeOK
  <2> QED
    BY <1>0, <2>1, <2>2 DEF TraceInv
<1>4. CASE User
  <2>1. UNCHANGED pc
    BY <1>4
    DEF User, StartSolver, StartFails, SolverSignalStop, StepButton, SetCommLevel, RestartEngine,
        solverVars
  <2>2. traceFile' = traceFile \/ RestartEngine
    BY <1>4 DEF User, StartSolver, StartFails, SolverSignalStop, StepButton, SetCommLevel, engineVars
  <2>3. RestartEngine => \A u \in Solvers : ~At(u, "tracing")
    BY <1>0, OneStarted DEF RestartEngine, Started, Evaluating, At
  <2> QED
    BY <1>0, <2>1, <2>2, <2>3 DEF TraceInv, At
<1> QED
  BY <1>1, <1>2, <1>3, <1>4 DEF Next

(* The table lists exactly the threads that have an index, each once: an     *)
(* index is reserved before the thread runs and stays unused until its ID is *)
(* stored, and a thread removes itself only.                                 *)
LEMMA TableStep == ControlInv /\ [Next]_vars => TableInv'
<1> SUFFICES ASSUME ControlInv, [Next]_vars PROVE TableInv'
  OBVIOUS
<1>0. /\ TypeOK /\ CreatingInv /\ TableInv
      /\ UI \notin Solvers /\ NoThread \notin Solvers /\ NoThread # UI
  BY ThreadAssumption DEF ControlInv
<1>1. CASE UNCHANGED vars
  BY <1>0, <1>1 DEF vars, engineVars, solverVars, uiVars, TableInv, Unlisted
<1>2. ASSUME NEW t \in Solvers, SolverThread(t) PROVE TableInv'
  <2>0. /\ UNCHANGED <<ui, newThread>> /\ Move(pc[t], pc'[t])
        /\ \A u \in Solvers \ {t} : pc'[u] = pc[u]
    BY <1>0, <1>2, ThreadMoves
  <2>1. \A u \in Solvers \ {t} : Unlisted(u)' = Unlisted(u)
    BY <2>0 DEF Unlisted
  <2>2. CASE FreeThreadData(t)
    <3>1. /\ pc[t] = "free" /\ pc'[t] = "gone"
          /\ threadID' = [i \in Indices |-> IF threadID[i] = t THEN NoThread ELSE threadID[i]]
      BY <1>0, <2>2 DEF FreeThreadData, At, Goto, TypeOK
    <3>2. Unlisted(t)'
      BY <3>1 DEF Unlisted
    <3>3. \A i \in Indices : threadID'[i] = UI <=> i = 0
      BY <1>0, <3>1 DEF TableInv
    <3>4. \A i \in Indices : threadID'[i] # t
      BY <1>0, <3>1
    <3>5. \A u \in Solvers \ {t}, i \in Indices : threadID'[i] = u <=> threadID[i] = u
      BY <1>0, <3>1
    <3> QED
      BY <1>0, <2>1, <3>2, <3>3, <3>4, <3>5 DEF TableInv
  <2>3. CASE ~FreeThreadData(t)
    <3>1. UNCHANGED threadID /\ pc[t] # "free"
      BY <1>2, <2>3
      DEF SolverThread, ThreadIndexKnown, GoblinInit, SolverSignalStarted, TracePoint, TraceAppend,
          TraceSemTake, EndSolver, SolverReturn, ScriptFails, SolverSignalIdle, DestroyBegin, DeleteInterp,
          DestroyEnd, engineVars, At
    <3>2. Unlisted(t)' = Unlisted(t)
      BY <2>0, <3>1 DEF Unlisted, Move, Locations
    <3> QED
      BY <1>0, <2>1, <3>1, <3>2 DEF TableInv
  <2> QED
    BY <2>2, <2>3
<1>3. CASE CallSolver
  <2>1. CASE StoreThreadID
    <3>0. PICK t \in Solvers : t = newThread.thread
      BY <1>0, <2>1 DEF StoreThreadID, CreatingInv, Creating
    <3>1. /\ newThread.index \in Indices /\ newThread.index # 0
          /\ threadID[newThread.index] = NoThread /\ pc[t] = "created" /\ ui = "store"
          /\ Unlisted(t)
      BY <1>0, <2>1, <3>0 DEF StoreThreadID, CreatingInv, Creating, TypeOK, Unlisted
    <3>2. /\ threadID' = [threadID EXCEPT ![newThread.index] = t]
          /\ UNCHANGED <<pc, newThread>> /\ ui' = "loop"
      BY <2>1, <3>0 DEF StoreThreadID, solverVars
    <3>3. /\ \A i \in Indices : threadID'[i] = t <=> i = newThread.index
          /\ \A i \in Indices : threadID'[i] = UI <=> i = 0
          /\ \A u \in Solvers \ {t}, i \in Indices : threadID'[i] = u <=> threadID[i] = u
      BY <1>0, <3>1, <3>2 DEF TableInv, TypeOK
    <3>4. ~Unlisted(t)' /\ \A u \in Solvers \ {t} : Unlisted(u)' = Unlisted(u)
      BY <3>0, <3>1, <3>2 DEF Unlisted
    <3> QED
      BY <1>0, <3>1, <3>3, <3>4 DEF TableInv
  <2>2. CASE CreateThread
    <3>1. UNCHANGED threadID
      BY <2>2 DEF CreateThread, engineVars
    <3>2. \A u \in Solvers : Unlisted(u)' = Unlisted(u)
      BY <1>0, <2>2 DEF CreateThread, Unlisted, CreatingInv, Creating, Goto, TypeOK
    <3> QED
      BY <1>0, <3>1, <3>2 DEF TableInv
  <2>3. CASE ~StoreThreadID /\ ~CreateThread
    <3>1. UNCHANGED <<threadID, pc>> /\ ui # "store" /\ ui' # "store"
      BY <1>3, <2>3
      DEF CallSolver, LoopTest, ReadTraceFile, HandleTrace, HandleTraceNoCanvas, EndWait,
          SolverResult, engineVars, solverVars
    <3> QED
      BY <1>0, <3>1 DEF TableInv, Unlisted
  <2> QED
    BY <2>1, <2>2, <2>3
<1>4. CASE User
  <2>1. UNCHANGED <<threadID, pc>> /\ ui # "store" /\ ui' # "store"
    BY <1>4
    DEF User, StartSolver, StartFails, SolverSignalStop, StepButton, SetCommLevel, RestartEngine,
        Listening, engineVars, solverVars, uiVars
  <2> QED
    BY <1>0, <2>1 DEF TableInv, Unlisted
<1> QED
  BY <1>1, <1>2, <1>3, <1>4 DEF Next

(* Only the thread that has been told to stop could take the stop back, by   *)
(* starting, and it has started already.                                     *)
LEMMA StopStep == ControlInv /\ [Next]_vars => (StopInv /\ StopHolds)'
<1> SUFFICES ASSUME ControlInv, [Next]_vars PROVE (StopInv /\ StopHolds)'
  OBVIOUS
<1>0. TypeOK /\ CreatingInv /\ IdleMeansDone /\ StopInv /\ StopHolds /\ stopped \subseteq Solvers
  BY DEF ControlInv, TypeOK
<1>1. CASE UNCHANGED vars
  BY <1>0, <1>1 DEF vars, engineVars, solverVars, history, StopInv, StopHolds, Starting, Started
<1>2. ASSUME NEW t \in Solvers, SolverThread(t) PROVE (StopInv /\ StopHolds)'
  <2>0. /\ stopped' \subseteq stopped /\ Move(pc[t], pc'[t])
        /\ \A u \in Solvers \ {t} : pc'[u] = pc[u]
    BY <1>0, <1>2, ThreadMoves
  <2>1. StopInv'
    BY <1>0, <2>0 DEF StopInv, Starting, Move, Locations
  <2>2. CASE SolverSignalStarted(t) \/ SolverSignalIdle(t)
    <3>1. t \notin stopped \/ ~Started(t)'
      BY <1>0, <2>2
      DEF SolverSignalStarted, SolverSignalIdle, StopInv, Starting, Started, Evaluating, At, Goto, TypeOK
    <3>2. OnItsWay(t)
      BY <2>2 DEF SolverSignalStarted, SolverSignalIdle, OnItsWay, Starting, Started, Evaluating, At
    <3>3. \A u \in Solvers \ {t} : ~Started(u)
      BY <1>0, <3>2 DEF IdleMeansDone, OnItsWay
    <3> QED
      BY <1>0, <2>0, <2>1, <3>1, <3>3 DEF StopHolds, Started, Evaluating
  <2>3. CASE ~SolverSignalStarted(t) /\ ~SolverSignalIdle(t)
    <3>1. signalHalt' = signalHalt /\ pc[t] # "pending"
      BY <1>2, <2>3
      DEF SolverThread, ThreadIndexKnown, GoblinInit, TracePoint, TraceAppend, TraceSemTake,
          EndSolver, SolverReturn, ScriptFails, DestroyBegin, DeleteInterp, DestroyEnd, FreeThreadData,
          engineVars, At
    <3>2. Started(t)' => Started(t)
      BY <2>0, <3>1 DEF Started, Evaluating, Move, Locations
    <3> QED
      BY <1>0, <2>0, <2>1, <3>1, <3>2 DEF StopHolds, Started, Evaluating
  <2> QED
    BY <2>1, <2>2, <2>3
<1>3. CASE CallSolver
  <2>1. UNCHANGED <<signalHalt, stopped>>
    BY <1>3
    DEF CallSolver, CreateThread, StoreThreadID, LoopTest, ReadTraceFile, HandleTrace,
        HandleTraceNoCanvas, EndWait, SolverResult, engineVars, history
  <2>2. pc' = pc \/ (CreateThread /\ newThread.thread \in Solvers /\ newThread.thread \notin stopped)
    BY <1>0, <1>3
    DEF CallSolver, StoreThreadID, LoopTest, ReadTraceFile, HandleTrace,
        HandleTraceNoCanvas, EndWait, SolverResult, solverVars, CreateThread, CreatingInv, Creating, StopInv
  <2>3. \A u \in stopped : pc'[u] = pc[u]
    BY <1>0, <2>2 DEF CreateThread, Goto, TypeOK
  <2> QED
    BY <1>0, <2>1, <2>3 DEF StopInv, StopHolds, Starting, Started
<1>4. CASE User
  <2>1. CASE SolverSignalStop
    <3>1. \A u \in Solvers : Started(u) => signalHalt' = "stop"
      BY <1>0, <2>1, OneStarted DEF SolverSignalStop
    <3>2. \A u \in stopped' : u \in stopped \/ (u \in Solvers /\ Started(u))
      BY <2>1 DEF SolverSignalStop
    <3>3. UNCHANGED pc
      BY <2>1 DEF SolverSignalStop, solverVars
    <3> QED
      BY <1>0, <3>1, <3>2, <3>3 DEF StopInv, StopHolds, Starting, Started, Evaluating
  <2>2. CASE \E t \in Solvers, i \in Indices : StartSolver(t, i)
    <3>1. UNCHANGED <<pc, stopped>> /\ signalHalt = "idle"
      BY <2>2 DEF StartSolver, solverVars, history
    <3>2. \A u \in Solvers : ~Started(u)
      BY <1>0, <3>1, OneStarted
    <3> QED
      BY <1>0, <3>1, <3>2 DEF StopInv, StopHolds, Starting, Started
  <2>3. CASE ~SolverSignalStop /\ ~\E t \in Solvers, i \in Indices : StartSolver(t, i)
    <3>1. UNCHANGED <<pc, stopped, signalHalt>>
      BY <1>4, <2>3
      DEF User, StartFails, StepButton, SetCommLevel, RestartEngine, engineVars, solverVars, history
    <3> QED
      BY <1>0, <3>1 DEF StopInv, StopHolds, Starting, Started
  <2> QED
    BY <2>1, <2>2, <2>3
<1> QED
  BY <1>1, <1>2, <1>3, <1>4 DEF Next

(* ControlInv is inductive.                                                  *)
LEMMA ControlStep == ControlInv /\ [Next]_vars => ControlInv'
<1> SUFFICES ASSUME ControlInv, [Next]_vars PROVE ControlInv'
  OBVIOUS
<1>1. TypeOK'
  <2>1. CASE UNCHANGED vars
    BY <2>1 DEF ControlInv, TypeOK, vars, engineVars, solverVars, uiVars, history
  <2>2. CASE Next
    BY <2>2, ThreadTypes, CallTypes, UserTypes DEF Next
  <2> QED
    BY <2>1, <2>2
<1> QED
  BY <1>1, CallsStep, TraceStep, IdleStep, TableStep, StopStep DEF ControlInv

-------------------------------------------------------------------------------
(* The invariant for a user who waits.                                       *)

(* There is neither a thread nor a call before the first start.              *)
LEMMA InitPatientInv == Init => PatientInv
BY DEF Init, PatientInv, AloneInv, ResultInv, CountInv, Alive, HasInterp

(* Where no thread is alive, index 1 is free, so that the start succeeds.    *)
LEMMA IndexFree == ASSUME ControlInv, AllGone PROVE FreeIndices # {}
<1>1. /\ 1 \in Indices /\ TypeOK /\ TableInv
      /\ \A t \in Solvers : pc[t] \in {"none", "gone"}
  BY MaxThreadsAssumption DEF ControlInv, AllGone, Alive, Indices
<1>2. threadID[1] \in Threads \union {NoThread} /\ threadID[1] # UI
  BY <1>1 DEF TypeOK, TableInv
<1>3. \A t \in Solvers : threadID[1] # t
  BY <1>1 DEF TableInv, Unlisted
<1> QED
  BY <1>1, <1>2, <1>3 DEF FreeIndices, Threads

(* While CallSolver is active, the patient user's last thread is the one it  *)
(* has started.                                                              *)
LEMMA ActiveThread ==
  ASSUME ControlInv, AloneInv, ResultInv, ui # "ready"
  PROVE  /\ newThread.thread \in Solvers /\ Len(calls) = 1 /\ calls # <<>>
         /\ calls[1].thread = newThread.thread
BY CallFacts DEF ControlInv, ResultInv, CallsInv, CallRecord

(* The last thread stays the only one that is alive.                         *)
LEMMA AloneStep == ASSUME ControlInv, patient, AloneInv, [Next]_vars PROVE AloneInv'
<1>0. TypeOK /\ CreatingInv
  BY DEF ControlInv
<1>1. CASE UNCHANGED vars
  BY <1>1 DEF vars, solverVars, uiVars, AloneInv, Alive
<1>2. ASSUME NEW t \in Solvers, SolverThread(t) PROVE AloneInv'
  <2>1. Alive(t) /\ UNCHANGED newThread /\ \A u \in Solvers \ {t} : Alive(u)' = Alive(u)
    BY <1>0, <1>2, ThreadMoves DEF Alive, Move
  <2> QED
    BY <2>1 DEF AloneInv
<1>3. CASE CallSolver
  <2>1. UNCHANGED newThread
    BY <1>3
    DEF CallSolver, CreateThread, StoreThreadID, LoopTest, ReadTraceFile, HandleTrace,
        HandleTraceNoCanvas, EndWait, SolverResult
  <2>2. \A u \in Solvers : u = newThread.thread \/ pc'[u] = pc[u]
    BY <1>0, <1>3
    DEF CallSolver, CreateThread, StoreThreadID, LoopTest, ReadTraceFile, HandleTrace,
        HandleTraceNoCanvas, EndWait, SolverResult, solverVars, Goto, TypeOK
  <2> QED
    BY <2>1, <2>2 DEF AloneInv, Alive
<1>4. CASE User
  <2>1. UNCHANGED pc
    BY <1>4
    DEF User, StartSolver, StartFails, SolverSignalStop, StepButton, SetCommLevel, RestartEngine,
        solverVars
  <2>2. UNCHANGED newThread \/ AllGone
    BY <1>4
    DEF User, StartSolver, StartFails, SolverSignalStop, StepButton, SetCommLevel, RestartEngine,
        uiVars, MayStart
  <2> QED
    BY <2>1, <2>2 DEF AloneInv, AllGone, Alive
<1> QED
  BY <1>1, <1>2, <1>3, <1>4 DEF Next

(* CallSolver reads the result of its own thread: it leaves its loop when    *)
(* SolverIdle() says so, which this thread makes true after it has set the   *)
(* return code or its script has failed.                                     *)
LEMMA ResultStep == ASSUME ControlInv, patient, AloneInv, ResultInv, [Next]_vars PROVE ResultInv'
<1>0. TypeOK /\ CallsInv /\ CreatingInv /\ IdleMeansDone
  BY DEF ControlInv
<1>a. ui # "ready" => /\ newThread.thread \in Solvers /\ Len(calls) = 1 /\ calls # <<>>
                      /\ calls[1].thread = newThread.thread
  BY ActiveThread
<1>1. CASE UNCHANGED vars
  BY <1>1 DEF vars, engineVars, solverVars, uiVars, history, ResultInv
<1>2. ASSUME NEW t \in Solvers, SolverThread(t) PROVE ResultInv'
  <2>0. /\ UNCHANGED <<ui, calls, newThread>> /\ Move(pc[t], pc'[t])
        /\ \A u \in Solvers \ {t} : pc'[u] = pc[u]
    BY <1>0, <1>2, ThreadMoves
  <2>1. t = newThread.thread
    BY <2>0 DEF Move, AloneInv, Alive
  <2>2. pc[t] \in Finished => pc'[t] \in Finished
    BY <2>0 DEF Move, Finished
  <2>3. pc'[t] # "none"
    BY <2>0 DEF Move, Locations
  <2>4. CASE SolverReturn(t)
    <3>1. returnCode' = t
      BY <2>4 DEF SolverReturn
    <3> QED
      BY <2>0, <2>1, <2>2, <2>3, <3>1 DEF ResultInv
  <2>5. CASE ScriptFails(t)
    <3>1. t \in failed'
      BY <2>5 DEF ScriptFails
    <3> QED
      BY <2>0, <2>1, <2>2, <2>3, <3>1 DEF ResultInv
  <2>6. CASE ~SolverReturn(t) /\ ~ScriptFails(t)
    <3>1. returnCode' = returnCode /\ failed' = failed
      BY <1>2, <2>6
      DEF SolverThread, ThreadIndexKnown, GoblinInit, SolverSignalStarted, TracePoint, TraceAppend,
          TraceSemTake, EndSolver, SolverSignalIdle, DestroyBegin, DeleteInterp, DestroyEnd,
          FreeThreadData, engineVars, history
    <3>2. pc'[t] # "evaluated"
      BY <1>0, <1>2, <2>6
      DEF SolverThread, ThreadIndexKnown, GoblinInit, SolverSignalStarted, TracePoint, TraceAppend,
          TraceSemTake, EndSolver, SolverSignalIdle, DestroyBegin, DeleteInterp, DestroyEnd,
          FreeThreadData, Goto, TypeOK
    <3>3. pc'[t] \in Finished => pc[t] \in Finished
      BY <2>0, <3>2 DEF Move, Finished, Locations
    <3> QED
      BY <2>0, <2>1, <2>2, <2>3, <3>1, <3>3 DEF ResultInv
  <2> QED
    BY <2>4, <2>5, <2>6
<1>3. CASE CallSolver
  <2>0. UNCHANGED <<newThread, returnCode>> /\ ui # "ready"
    BY <1>3
    DEF CallSolver, CreateThread, StoreThreadID, LoopTest, ReadTraceFile, HandleTrace,
        HandleTraceNoCanvas, EndWait, SolverResult, engineVars
  <2>1. CASE CreateThread
    <3>1. pc'[newThread.thread] = "created" /\ UNCHANGED <<calls, failed>> /\ ui' = "store"
      BY <1>0, <1>a, <2>0, <2>1 DEF CreateThread, Goto, TypeOK, history
    <3> QED
      BY <1>a, <2>0, <3>1 DEF ResultInv, Finished
  <2>2. CASE LoopTest
    <3>1. UNCHANGED <<calls, failed, pc>> /\ ui = "loop" /\ ui' # "ready"
      BY <2>2 DEF LoopTest, history, solverVars
    <3>2. ui' = "collect" => ~OnItsWay(newThread.thread)
      BY <1>0, <1>a, <2>0, <2>2 DEF LoopTest, IdleMeansDone
    <3>3. pc[newThread.thread] # "none" /\ pc[newThread.thread] \in Locations
      BY <1>0, <1>a, <2>0, <3>1 DEF ResultInv, TypeOK
    <3>4. ui' = "collect" => pc[newThread.thread] \in Finished
      BY <3>2, <3>3 DEF OnItsWay, Starting, Started, Evaluating, Locations, Finished
    <3> QED
      BY <2>0, <3>1, <3>3, <3>4 DEF ResultInv
  <2>3. CASE ReadTraceFile \/ HandleTrace
    <3>1. calls \in Seq(CallRecord) /\ 1 \in DOMAIN calls /\ calls[1] \in CallRecord
      BY <1>0, <2>0, CallFacts
    <3>2. \/ calls' = calls
          \/ calls' = [calls EXCEPT ![1].file = traceFile]
          \/ calls' = [calls EXCEPT ![1].prev = calls[1].file]
      BY <2>3 DEF ReadTraceFile, HandleTrace
    <3>3. Len(calls') = Len(calls) /\ calls'[1].thread = calls[1].thread
      BY <3>1, <3>2 DEF CallRecord
    <3>4. UNCHANGED <<failed, pc>> /\ ui \notin {"ready", "create"} /\ ui' # "collect"
      BY <2>3 DEF ReadTraceFile, HandleTrace, history, solverVars
    <3> QED
      BY <1>a, <2>0, <3>3, <3>4 DEF ResultInv
  <2>4. CASE SolverResult
    <3>1. UNCHANGED pc /\ ui' = "ready" /\ calls' = Tail(calls) /\ ui = "collect"
      BY <1>a, <2>0, <2>4 DEF SolverResult, solverVars
    <3>2. calls' = <<>>
      BY <1>0, <1>a, <2>0, <3>1, CallFacts
    <3> QED
      BY <3>1, <3>2 DEF ResultInv
  <2>5. CASE StoreThreadID \/ HandleTraceNoCanvas \/ EndWait
    <3>1. UNCHANGED <<calls, failed, pc>> /\ ui \notin {"ready", "create"} /\ ui' # "collect"
      BY <2>5 DEF StoreThreadID, HandleTraceNoCanvas, EndWait, history, solverVars
    <3> QED
      BY <2>0, <3>1 DEF ResultInv
  <2> QED
    BY <1>3, <2>1, <2>2, <2>3, <2>4, <2>5 DEF CallSolver
<1>4. CASE User
  <2>1. CASE StartFails
    BY <2>1, IndexFree DEF StartFails, MayStart
  <2>2. ASSUME NEW t \in Solvers, NEW i \in Indices, StartSolver(t, i) PROVE ResultInv'
    <3>1. /\ ui = "ready" /\ ui' = "create" /\ pc'[t] = "none" /\ newThread'.thread = t
          /\ calls' = <<[thread |-> t, prev |-> traceFile, file |-> 0]>> \o calls
      BY <2>2 DEF StartSolver, MayStart, At, solverVars, history
    <3>2. calls = <<>>
      BY <1>0, <3>1 DEF CallsInv
    <3>3. Len(calls') = 1 /\ calls'[1].thread = t
      BY <3>1, <3>2
    <3> QED
      BY <3>1, <3>3 DEF ResultInv, Finished
  <2>3. CASE SolverSignalStop \/ StepButton \/ SetCommLevel \/ RestartEngine
    <3>1. UNCHANGED <<ui, calls, newThread, failed, pc, returnCode>>
      BY <2>3
      DEF SolverSignalStop, StepButton, SetCommLevel, RestartEngine, engineVars, solverVars, uiVars, history
    <3> QED
      BY <3>1 DEF ResultInv
  <2> QED
    BY <1>4, <2>1, <2>2, <2>3 DEF User
<1> QED
  BY <1>1, <1>2, <1>3, <1>4 DEF Next

(* Nobody writes goblinInterprCounter between the read and the write of the  *)
(* only thread, nor clears destroyThread while it deletes its interpreter.   *)
LEMMA CountStep == ASSUME ControlInv, patient, AloneInv, CountInv, [Next]_vars PROVE CountInv'
<1>0. TypeOK /\ CreatingInv
  BY DEF ControlInv
<1>1. CASE UNCHANGED vars
  BY <1>1 DEF vars, engineVars, solverVars, CountInv, HasInterp, Alive
<1>2. ASSUME NEW t \in Solvers, SolverThread(t) PROVE CountInv'
  <2>0. /\ Move(pc[t], pc'[t])
        /\ \A u \in Solvers \ {t} : pc'[u] = pc[u] /\ counter'[u] = counter[u]
    BY <1>0, <1>2, ThreadMoves
  <2>1. \A u \in Solvers \ {t} : pc[u] \in {"none", "gone"}
    BY <2>0 DEF Move, AloneInv, Alive
  <2>2. \A u \in Solvers \ {t} : ~HasInterp(u) /\ ~HasInterp(u)'
    BY <2>0, <2>1 DEF HasInterp, Alive
  <2>3. (\E u \in Solvers : HasInterp(u)) <=> HasInterp(t)
    BY <2>2
  <2>4. (\E u \in Solvers : HasInterp(u))' <=> HasInterp(t)'
    BY <2>2
  <2>5. interps = IF HasInterp(t) THEN 2 ELSE 1
    BY <2>3 DEF CountInv
  <2>6. SUFFICES /\ pc'[t] \in {"initWrite", "deleteWrite"} => counter'[t] = interps'
                 /\ interps' = IF HasInterp(t)' THEN 2 ELSE 1
                 /\ pc'[t] \in {"delete", "deleteWrite", "deleted"} => destroyThread'
    BY <2>0, <2>1, <2>4, <2>6 DEF CountInv
  <2>7. /\ pc[t] \in {"initWrite", "deleteWrite"} => counter[t] = interps
        /\ pc[t] \in {"delete", "deleteWrite", "deleted"} => destroyThread
    BY DEF CountInv
  <2>8. CASE GoblinInit(t)
    <3>1. \/ /\ pc[t] = "init" /\ pc'[t] = "initWrite"
             /\ counter'[t] = interps /\ interps' = interps
          \/ /\ pc[t] = "initWrite" /\ pc'[t] = "pending" /\ interps' = counter[t] + 1
      BY <1>0, <2>8 DEF GoblinInit, At, Goto, TypeOK, engineVars
    <3> QED
      BY <2>5, <2>7, <3>1 DEF HasInterp, Alive
  <2>9. CASE DeleteInterp(t)
    <3>1. \/ /\ pc[t] = "delete" /\ pc'[t] = "deleteWrite" /\ destroyThread' = destroyThread
             /\ counter'[t] = interps /\ interps' = interps
          \/ /\ pc[t] = "deleteWrite" /\ pc'[t] = "deleted" /\ interps' = counter[t] - 1
             /\ destroyThread' = destroyThread
      BY <1>0, <2>9 DEF DeleteInterp, At, Goto, TypeOK, engineVars
    <3> QED
      BY <2>5, <2>7, <3>1 DEF HasInterp, Alive
  <2>10. CASE DestroyBegin(t) \/ DestroyEnd(t)
    <3>1. \/ /\ pc[t] = "idle" /\ pc'[t] = "delete" /\ destroyThread' = TRUE
          \/ /\ pc[t] = "deleted" /\ pc'[t] = "free"
      BY <1>0, <2>10 DEF DestroyBegin, DestroyEnd, At, Goto, TypeOK
    <3>2. interps' = interps
      BY <2>10 DEF DestroyBegin, DestroyEnd
    <3> QED
      BY <2>5, <2>7, <3>1, <3>2 DEF HasInterp, Alive
  <2>11. CASE ~GoblinInit(t) /\ ~DeleteInterp(t) /\ ~DestroyBegin(t) /\ ~DestroyEnd(t)
    <3>1. /\ UNCHANGED interps
          /\ pc[t] \notin {"init", "initWrite", "idle", "delete", "deleteWrite", "deleted"}
      BY <1>2, <2>11
      DEF SolverThread, ThreadIndexKnown, SolverSignalStarted, TracePoint, TraceAppend,
          TraceSemTake, EndSolver, SolverReturn, ScriptFails, SolverSignalIdle, FreeThreadData, engineVars, At
    <3>2. /\ pc'[t] \notin {"initWrite", "delete", "deleteWrite", "deleted"}
          /\ HasInterp(t)' = HasInterp(t)
      BY <2>0, <3>1 DEF Move, Locations, HasInterp, Alive
    <3> QED
      BY <2>5, <2>7, <3>1, <3>2
  <2> QED
    BY <2>8, <2>9, <2>10, <2>11
<1>3. CASE ~\E t \in Solvers : SolverThread(t)
  <2>1. UNCHANGED <<interps, destroyThread, counter>>
    BY <1>3
    DEF Next, CallSolver, CreateThread, StoreThreadID, LoopTest, ReadTraceFile, HandleTrace,
        HandleTraceNoCanvas, EndWait, SolverResult, User, StartSolver, StartFails,
        SolverSignalStop, StepButton, SetCommLevel, RestartEngine, vars, engineVars, solverVars
  <2>2. UNCHANGED pc \/ CreateThread
    BY <1>3
    DEF Next, CallSolver, StoreThreadID, LoopTest, ReadTraceFile, HandleTrace,
        HandleTraceNoCanvas, EndWait, SolverResult, User, StartSolver, StartFails,
        SolverSignalStop, StepButton, SetCommLevel, RestartEngine, vars, solverVars
  <2>3. \A u \in Solvers : pc'[u] = pc[u] \/ (pc[u] = "none" /\ pc'[u] = "created")
    BY <1>0, <2>2 DEF CreateThread, CreatingInv, Creating, Goto, TypeOK
  <2>4. \A u \in Solvers : HasInterp(u)' = HasInterp(u)
    BY <2>3 DEF HasInterp, Alive
  <2> QED
    BY <2>1, <2>3, <2>4 DEF CountInv
<1> QED
  BY <1>1, <1>2, <1>3 DEF Next

(* PatientInv is inductive relative to ControlInv.                           *)
LEMMA PatientStep == ControlInv /\ PatientInv /\ [Next]_vars => PatientInv'
<1> SUFFICES ASSUME ControlInv, PatientInv, [Next]_vars, patient' PROVE (AloneInv /\ ResultInv /\ CountInv)'
  BY DEF PatientInv
<1>1. patient
  BY DEF Next, vars
<1>2. AloneInv /\ ResultInv /\ CountInv
  BY <1>1 DEF PatientInv
<1> QED
  BY <1>1, <1>2, AloneStep, ResultStep, CountStep

(* Both invariants hold in every reachable state.                            *)
LEMMA SolverInvariant == Spec => [](ControlInv /\ PatientInv)
<1>1. Init => ControlInv /\ PatientInv
  BY InitControlInv, InitPatientInv
<1>2. ControlInv /\ PatientInv /\ [Next]_vars => (ControlInv /\ PatientInv)'
  BY ControlStep, PatientStep
<1> QED
  BY <1>1, <1>2, PTL DEF Spec

-------------------------------------------------------------------------------
(* The properties.                                                           *)

(* Type correctness: signalHalt, the thread table, the counters and the      *)
(* variables of the browser stay in their types, however calls nest.         *)
THEOREM SolverTypes == Spec => []TypeOK
<1>1. ControlInv => TypeOK
  BY DEF ControlInv
<1> QED
  BY <1>1, SolverInvariant, PTL

(* SolverIdle() tells the truth: SolverSignalPending, SolverSignalStarted    *)
(* and SolverSignalIdle keep it false from the start of a thread to its end, *)
(* and no two threads are on their way.                                      *)
THEOREM SolverIdleTrue == Spec => []IdleMeansDone
<1>1. ControlInv => IdleMeansDone
  BY DEF ControlInv
<1> QED
  BY <1>1, SolverInvariant, PTL

(* Each solver thread has exactly one entry of goblinThreadData from the     *)
(* moment it has seen it, and none before its start and after its end.       *)
THEOREM ThreadTable == Spec => []TableConsistent
<1>1. ASSUME ControlInv PROVE TableConsistent
  <2>0. TypeOK /\ TableInv /\ CreatingInv /\ 0 \in Indices
    BY <1>1, MaxThreadsAssumption DEF ControlInv, Indices
  <2>1. threadID[0] = UI
    BY <2>0 DEF TableInv
  <2>2. ASSUME NEW t \in Solvers, pc[t] \in {"none", "gone"}
        PROVE  {i \in Indices : threadID[i] = t} = {}
    BY <2>0, <2>2 DEF TableInv, Unlisted
  <2>3. ASSUME NEW t \in Solvers, pc[t] \in Locations \ {"none", "created", "gone"}
        PROVE  Cardinality({i \in Indices : threadID[i] = t}) = 1
    <3>1. ~Unlisted(t)
      BY <2>0, <2>3 DEF Unlisted, CreatingInv
    <3>2. PICK k \in Indices : threadID[k] = t
      BY <2>0, <3>1 DEF TableInv
    <3>3. {i \in Indices : threadID[i] = t} = {k}
      BY <2>0, <3>2 DEF TableInv
    <3> QED
      BY <3>3, FS_Singleton
  <2> QED
    BY <2>1, <2>2, <2>3 DEF TableConsistent
<1> QED
  BY <1>1, SolverInvariant, PTL

(* SolverSignalStop is final for the threads that were running: none of them *)
(* sees SolverRunning() again.                                               *)
THEOREM StopIsFinal == Spec => []StopHolds
<1>1. ControlInv => StopHolds
  BY DEF ControlInv
<1> QED
  BY <1>1, SolverInvariant, PTL

(* goblinInterprCounter is exact, and no thread deletes the objects of its   *)
(* script, for a user who starts a thread only after the last one is gone.   *)
THEOREM ObjectsKept == Spec => []ObjectsSurvive
<1>1. ASSUME ControlInv, PatientInv PROVE ObjectsSurvive
  <2> DEFINE S == {t \in Solvers : HasInterp(t)}
  <2> SUFFICES ASSUME patient PROVE interps = 1 + Cardinality(S)
    BY <1>1 DEF ObjectsSurvive, InterpretersCounted, PatientInv, CountInv, At
  <2>1. AloneInv /\ CountInv
    BY <1>1 DEF PatientInv
  <2>2. CASE \E t \in Solvers : HasInterp(t)
    <3>1. PICK t \in Solvers : HasInterp(t)
      BY <2>2
    <3>2. S = {t}
      BY <2>1, <3>1 DEF AloneInv, HasInterp
    <3>3. Cardinality(S) = 1
      BY <3>2, FS_Singleton
    <3> QED
      BY <2>1, <2>2, <3>3 DEF CountInv
  <2>3. CASE ~\E t \in Solvers : HasInterp(t)
    <3>1. S = {}
      BY <2>3
    <3>2. Cardinality(S) = 0
      BY <3>1, FS_EmptySet
    <3> QED
      BY <2>1, <2>3, <3>2 DEF CountInv
  <2> QED
    BY <2>2, <2>3
<1> QED
  BY <1>1, SolverInvariant, PTL

(* CallSolver of a patient user reads the code that the script of its own    *)
(* thread has set, unless this script has failed before it could set one, in *)
(* which case Goblin_Thread leaves the code of an earlier call in place.     *)
THEOREM ResultIsOwn == Spec => []ResultsMatch
<1>1. ASSUME ControlInv, PatientInv PROVE ResultsMatch
  BY <1>1, ActiveThread DEF PatientInv, ResultInv, ResultsMatch
<1> QED
  BY <1>1, SolverInvariant, PTL
================================================================================
