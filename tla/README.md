# A TLA+ verification of GOBLIN 2.8

GOBLIN is a C++ class library for graph optimisation, with a Tcl shell (`gosh`)
and a Tk graph browser (GOBLET) on top of it. Solvers run in threads of their
own while the browser shows their messages and intermediate graphs. This
directory holds TLA+ models of the parts that carry the program's logic, the
TLC configurations that check them on small instances, and TLAPS proofs for
every instance: about the message queue, the control of solver threads, branch
and bound, graph search, maximum and minimum cost flow, minimum cuts, static
queues and disjoint sets.
`PROJECT.json` lists the runs and the theorems, maps every definition to the
lines it models, and lists the hazards that the properties are aimed at.

Run a check with `tlc -config <file>.cfg <module>` and the proofs of a module
with `tlapm <module>.tla`. The modules with proofs are `MessageQueueProofs`,
`SolverControlProofs`, `BranchProofs`, `ShortestPathProofs`, `MaxFlowProofs`,
`MinCostFlowProofs`, `StaticQueueProofs` and `DisjointFamilyProofs`.

The models describe the library as it is configured: `_FAILSAVE_`, `_LOGGING_`,
`_TRACING_`, `_TIMERS_` and `_PROGRESS_` are on, so the argument checks of the
containers and the trace points of the solvers are part of the behaviour.

## 1. The system

| Part | State | Operations | Talks to |
|---|---|---|---|
| Message queue (`shell_src/messenger.cpp`) | slots with text and header, two linked lists of slots, an iterator, `msgLock` | `MsgAppend`, `MsgReset`, `MsgEOF`, `MsgVoid`, `MsgSkip`, `MsgText`, `MsgClass` ..., `Restart` | all threads append; `UploadMessages` (`tcl/mainMessenger.tk`) reads |
| Solver control (`messenger.cpp`, `goshMain.cpp`, `tcl/menuOptimize.tk`) | solver state, thread table, interpreter count, trace event, return code | start, stop, single step, trace point, end of thread | one UI thread, several solver threads |
| Containers (`lib_src/static*.cpp`, `*Heap.cpp`, `hashTable.cpp`, `disjointFamily.cpp`, `nestedFamily.cpp`) | arrays of links, keys, ranks | `Insert`, `Delete`, `ChangeKey`, `Merge`, `Find`, `Split` ... | every algorithm |
| Sparse representation (`lib_src/sparseRepresentation.cpp`) | start nodes and circular incidence lists | insertion, cancelling, deletion, contraction and renumbering of arcs and nodes | all graph objects |
| Graph search (`lib_src/solveSPTree.cpp`) | labels, predecessors, colours, a queue or heap | BFS, Dijkstra, Bellman-Ford, FIFO label correcting, DAG search | graph accessors, containers |
| Maximum flow (`lib_src/solveMaxFlow.cpp`, `auxiliaryNetwork.cpp`) | flow, distance labels, lists of admissible arcs, layered network | four families of methods | search, queues, `SolverRunning()` |
| Minimum cost flow (`lib_src/solveMCFlow.cpp`, `networkSimplex.cpp`) | flow, potentials, spanning forest with thread index | augmenting paths, scaling, cycle cancelling, simplex | search, maximum flow, nested family |
| Spanning trees (`lib_src/solveMinTree.cpp`) | predecessors, set families, modified lengths | Prim, Kruskal, Edmonds | heaps, set families |
| Connectivity and cuts (`lib_src/solveComponents.cpp`, `solveMinCut.cpp`) | colours, search numbers, stacks | components, blocks, numberings, minimum cuts | investigators, queues, `SolverRunning()` |
| Branch and bound (`lib_src/branchScheme.cpp`) | list of active subproblems, bounds | `Optimize`, `SelectActiveNode`, `Inspect`, `QueueExploredNode`, `StripQueue` | branch nodes of the single problems, timers, `SolverRunning()` |
| Matching, colouring, tours, Steiner trees, ... | labels on graph objects | one solver procedure each | all of the above |
| Controller (`goblinController.cpp`) | parameters, object lists, folds, timers | log, trace, registry | messenger, all objects |
| LP/ILP, GLPK, layout, planarity, file I/O, browser | matrices, drawings, files | | |

What is hard in this program:

* **Threads.** The browser and a solver share the messenger. `msgLock` protects
  most of it, but `Restart` takes no lock, and the header accessors release it
  before they read. The solver state is one integer that both sides write. The
  thread table and the interpreter count are not locked at all. The Tcl event
  loop can start a second `CallSolver` inside the first one.
* **Waiting.** A solver spins at a trace point until the browser resets
  `traceEvent`; the browser loops until the solver is idle; an upload loops
  until it reaches an end that solvers move.
* **Shared arrays.** Families of static queues and stacks share one link array,
  a hash table grows in the middle of an insertion, heaps move items under the
  index that names them, paths of a set family are compressed across the
  boundaries of sets that are split later, arcs are renumbered while lists
  mention them. One missing update shows only many calls later.
* **Cached structure.** Push-relabel keeps lists of admissible arcs, Dinic
  indegrees and cursors, the simplex method three indices for one tree, the
  minimum cut method layers of sleeping nodes. The flow changes under all of
  them.
* **Termination and truth of answers.** The label correcting methods have
  nothing but a pass counter to stop them on a negative cycle, scaling methods
  end with a threshold that is rounded, pivots may move no flow. And any of
  these solvers can be stopped between two steps; the bounds that it has
  reported must then be valid.

## 2. Modules

| Module | Models | Extends / instantiates |
|---|---|---|
| `BoundedLog` | abstract: a log of the most recent entries | |
| `MessageQueue` | the queue and the threads that use it | implements `BoundedLog` |
| `MessageQueueProofs` | proofs: shape of the queue, the reader stays on it, order of uploads, the queue implements the log | `MessageQueue` |
| `SolverControl` | thread life cycle, stop, trace rendezvous, `CallSolver` | |
| `SolverControlProofs` | proofs of its six invariants | `SolverControl` |
| `SharedLists` | abstract: separate lists, queues or stacks | |
| `StaticQueue`, `StaticStack` | families that share an array | implement `SharedLists` |
| `StaticQueueProofs` | proofs: exact membership, refinement of `SharedLists` | `StaticQueue` |
| `SparseVector` / `HashTable` | abstract vector / chained table with rescaling | refinement |
| `SetFamily` / `DisjointFamily` | abstract partition / union-find by rank | refinement |
| `DisjointFamilyProofs` | proofs: ranks bound the paths, refinement of `SetFamily` | `DisjointFamily` |
| `NestedSets` / `NestedFamily` | abstract nested sets / the shrinking family | refinement |
| `IncidenceLists` / `SparseGraph` | abstract lists of arcs / the sparse representation | refinement |
| `PriorityQueue` | abstract priority queue | |
| `BasicHeap`, `BinaryHeap`, `FibonacciHeap` | the three implementations | |
| `NodeHeap` | `NewNodeHeap`: the choice by `methPQ` | implements `PriorityQueue` |
| `MCNodeHeap` | adds a Fibonacci heap that starts with a tree of eight nodes | `NodeHeap` |
| `MCContainers` | one instance of each container, set family, heap and graph | all of the above |
| `Network` | graph accessors: orientation, eligibility, residual capacity, reduced length | |
| `ShortestPath`, `MCShortestPath` | the procedures of `solveSPTree.cpp`, arc by arc; graphs and calls | `Network` |
| `ShortestPathProofs` | proofs: types, queues and counters, the nearest node first, results and answers of all procedures, with negative and directed cycles | `ShortestPath` |
| `BranchScheme`, `MCBranch` | the branch and bound scheme; its limits | |
| `BranchProofs` | proofs: valid bounds, optimality, size of the tree | `BranchScheme` |
| `FlowNetwork` | networks with a flow, orders of nodes and arcs; `Push`, `Augment`, `FindCap`, divergences | `Network` |
| `MaxFlow` | `solveMaxFlow.cpp` and `auxiliaryNetwork.cpp` | `FlowNetwork` |
| `Shrinking` | how a nested family is used for cycles of arcs | `Network` |
| `SpanningTree` | `solveMinTree.cpp` | `Shrinking` |
| `Connectivity` | `solveComponents.cpp` | `Network` |
| `HaoOrlin` | `MCC_HaoOrlin` of `solveMinCut.cpp` | `FlowNetwork` |
| `MaxFlowProofs` | proofs: lists, queue and layered network are true to the flow, the flow is maximum; for `HaoOrlin`, layers, queue and lists are true to the flow, the cut is genuine, labels are bounded | `MaxFlow`, `HaoOrlin` |
| `MCGraphs` | graphs and calls of the preceding four solvers | `MaxFlow`, `SpanningTree`, `Connectivity`, `HaoOrlin` |
| `MinCostFlow` | `solveMCFlow.cpp` | `FlowNetwork` |
| `NetworkSimplex` | `networkSimplex.cpp` and its preparation | `MinCostFlow`, `Shrinking` |
| `MinCostFlowProofs` | proofs: the flow fits, Dijkstra's method meets no negative arc, no other flow is cheaper | `NetworkSimplex` |
| `MCMinCost` | networks and calls, with the optimum by enumeration | `NetworkSimplex` |

A definition whose comment begins with "Mutant:" is a variant of the definition
that follows it, with a plausible bug. No specification uses
them; they serve to confirm that the properties can fail.

### MessageQueue

Slots are `0 .. QSize-1` and `QSize` is the null pointer, as in the code.
`qText[i]` is the sequence of fragments appended to an entry, `qMsg[i]` stands
for the five header fields and holds the number of the call that wrote them.
A call that holds `msgLock` throughout is one action, unless `Restart` can see
its intermediate states: `MsgAppend` is split where it has locked, has taken a
slot, and has linked it; `Restart` where it has reset the links and the entry
indices. `MsgClass` is split at its unlock. `UploadMessages` is the loop void
- text - class - eof - skip; an error of the accessors logs a message, as
`CT.Error` does, before the thread goes on. An access outside the arrays or to
a string that is not there sets `fault`, after which nothing is claimed.

Two constants describe the client: `QuietRestart` (Restart is called only while
no other thread is inside the messenger, and none enters meanwhile) and
`RawClient` (scripts may call `MsgSkip`, `MsgText`, `MsgClass` without asking
`MsgEOF` and `MsgVoid` first).

Simplifications: `MsgAppend` to an existing entry is atomic with respect to
`Restart`; `QSize >= 2`; the log entries of the constructor are ordinary
appends; the trace part of `Restart` is in `SolverControl`. `MaxMsgs` bounds
the number of appends for TLC; the proofs do not use it, and `UploadEnds` is
stated so that it does not lean on it: it has the premise that the solvers
become quiet.

### SolverControl

One UI thread with a stack of active `CallSolver` procedures, and solver
threads that each run `Goblin_Thread` once: wait for the index in the table,
`Goblin_Init` (the increment of the unlocked counter is a read and a write),
`SolverSignalStarted`, the script with trace points, the return code,
`SolverSignalIdle`, `Goblin_Delete`, free the index. A script may also fail
before it has set a return code (`ScriptFails`); the thread then goes on, and
`CallSolver` reads the code of an earlier call. Note that a thread reports
idle before it has left: the next thread may already run while it deletes its
interpreter. `pthread_create` may store the thread ID after the thread has
begun. The user may start, stop, step, change the communication level and
restart the engine whenever the UI listens, also inside `CallSolver`.

`patient`, chosen at the beginning, tells two users apart: one waits for
`CallSolver` and for the last thread before the next start, the other starts
again as soon as `SolverIdle()` is true. Every property is
claimed for both but `ObjectsSurvive` and `ResultsMatch`, which hold for the
patient user only; `ResultsMatch` leaves out calls whose script has failed.
`StopHolds` is about stops that reach a running solver; one that reaches a
pending solver is lost (section 5). `MaxTrace` and `MaxTraceRush` bound the trace
files.

### Containers and incidence lists

The components of `MCContainers` are independent. A behaviour works with
one of them, so the state space is the sum and not the product. Every public
operation that changes state is an action, with its error path; `ret` records
the outcome, which the abstract specification shares. Assumptions on clients:
stacks of one family are kept disjoint by their client (the code cannot tell a
free item from the bottom of another stack); `Bud` is called once per item;
between `Block` and `UnBlock` of a nested family clients only ask for sets, as
`surfaceGraph.cpp` does. `SparseFactor` stands for the constant 100 of the
heaps' `Init()`, so that both branches occur.

`NestedFamily` keeps the forest `B` with its compressed paths, `canonical`,
`first` and `next` as the code does. The abstract family is a tree of sets with
some of them blocked; `Set(v)` is the outermost set around `v` that is not
blocked. The refinement says that `Split` and `UnBlock` restore the right
answers whatever paths `Find` has shortened across inner sets before.

`SparseGraph` keeps `SN`, `right`, `left` and `first`. Its operations are those
of `sparseRepresentation.cpp` that change incidences. `inc` is the abstract
value, one list of arcs per node, that `IncidenceLists` talks about. Layout
points, the optional subgraph, predecessor labels and the adjacency matrix are
left out. `AnySwap = FALSE` restricts `SwapArcs` to pairs for which it works;
the run `flip_arc` shows the others.

### Heaps

`BasicHeap` is the sorted array with its binary search, `BinaryHeap` the array
with `UpHeap`/`DownHeap` step by step as recursive operators, `FibonacciHeap`
the forest with cuts, cascading cuts and consolidation; its circular lists are
sequences. Three constants describe where the clients must be careful:

* `AnyDelete = FALSE`: `Delete(w)` of a binary heap takes the last entry only.
  For another item the code moves the last entry into the gap and restores the
  order in one direction only.
* `Careful = TRUE`: nobody names an item that a basic heap never got; `Init()`
  keeps the keys that `Delete(w)` takes for proof of membership.
* `AnyChange = FALSE`: `ChangeKey` leaves the least root of a Fibonacci heap
  the least; see the run `node_heap_least` for what happens otherwise.

### ShortestPath

A call is a record: procedure, characteristic (`PLAIN`, `SUBGRAPH`, `RESIDUAL`,
reduced lengths), options, sources, targets and the graph. One step reads one
arc. An incidence list is read in any order, which covers every investigator
and every representation. The heap is any priority queue, which is what
`NodeHeap` delivers. The results are compared with a reference definition, the
lengths of all walks of bounded length (`WalkLengths`, a recursive function).
`MaxLength` bounds the lengths of the arcs, so that no path is as long as
`InfFloat`; the run has lengths up to 4.

Simplifications: lower capacities are 0 and upper ones finite; no loops; no
negative undirected edges, which the manual excludes. `MinimumMeanCycle` and
the T-join method of `ShortestPath` are not modelled.

### BranchScheme

The list of active subproblems, the node in hand, the saved solution and the
bounds on the timer. The relaxations are the environment: a child may have any
value that is no better than its parent's, and a subproblem without free
variables is feasible or not. Costs are `sign*objective` in halves, so that a
relaxation can lie between two solutions and `epsilon` is less than a unit. The
solver may be stopped at every test of `SolverRunning()`, and limits on active
nodes and on iterations are reached. The model keeps the costs of everything
that was cut off or deleted (`Unsolved`), which is what the reported bound must
not exceed.

### MaxFlow

One call on a network with one method. The augmenting path methods take any
shortest path per step, with and without thresholds. Dinic builds the layered
network in one step, then finds a path, pushes, and runs `TopErasure` node by
node, with the indegrees and cursors of `layeredAuxNetwork`. Push-relabel goes
push by push and relabel by relabel, with the cached lists of admissible arcs
that only relabel operations refresh, and the queue as FIFO queue, heap or
threshold list. The flow at the start may be any flow that does not enter the
source. The user may stop the solver at any test. Networks are digraphs without
loops; lower capacities are zero and the capacities add up to no more than
`InfFloat` (`IsNetwork`, `CallsAssumption`).

### SpanningTree and Shrinking

Prim's method with and without heap, Kruskal's and Edmonds' method for trees
and one-cycle trees, minimum and maximum. `TreeBest` compares the result with
all trees of the graph; `TreePromising` says at every step that what has been
chosen is part of a best one, which localises a wrong choice. Set families are
used as `DisjointFamily` and `NestedFamily` show them to behave.

### Connectivity

The depth first searches read one arc per step, from incidence lists in any
order, with the registers of the graph object (`colour`, `edgeColour`, `pred`)
and an investigator per node (`unread`). `Biconnected` and `STNumbering` begin
with `CutNodes`, as in the code, and go on with its labels. `EdgeConnected` and
`StronglyEdgeConnected` split classes by cuts, which depend on the method: the
series of maximum flows gives any minimum cut, `MCC_HaoOrlin`, the default for
undirected graphs, any cut with its value, since it need not be minimum (run
`min_cut`). `ClassesFound` says what is left in each case: with any cuts no
component is torn and the lower bound on their number is valid, with minimum
cuts so is the upper bound, and an unstopped call finds exactly the components.
A stop within a maximum flow (`SplitBrokenOff`) hands over an arbitrary
bipartition, and nothing is claimed after it. `BridgesFound` compares
`Biconnected` with `abstractMixedGraph.h:2541` and names its exceptions: nodes
with the colour of cut nodes, isolated nodes, and an edge that is a component of
its own. Graphs have no loops. Results are
compared with definitions by reachability: two edges are in one block if no
node separates them, a numbering exists or not by enumeration, and so on.

### HaoOrlin

`MCC_HaoOrlin`, the default method for edge connectivity, with FIFO queue and
with the heap. One step reads an arc of the node that flow is pushed away from,
pushes along one admissible arc, relabels a node or puts nodes to sleep. The
leftovers of `S2` and of the lists of admissible arcs, which the code carries
over to the next sink, are kept. A call has a digraph without flow, as the
callers make it, with more than one node. Arcs of infinite capacity are allowed;
the code ends with an exception after it has met one (`unbounded`).

### MinCostFlow and NetworkSimplex

`MinCostBFlow` and `MinCostSTFlow`, method by method. Searches for shortest
paths and negative cycles are single steps here, since `ShortestPath` treats
them; that Dijkstra's method never meets a residual arc of negative reduced
length is the property `SlacknessKept`. `NetworkSimplex` has the two
preparations (cancel free arcs, make the tree strongly feasible), four pricing
rules with their lists and candidates, and pivots in the substeps of the code:
the leaving arc, reversal of the path, thread, depth, potentials. Between
these steps the indices disagree; `BasisValid` is about whole pivots.
`MCMinCost` computes the optimum by enumeration once per call.

`CostCallsAssumption` says which calls there are. Networks are digraphs with
integral data and a flow within the capacities, and `MinCostSTFlow` has checked
its flow (`Balanced`; it rejects others). The last part is a condition that the
code does not check. If some residual arc is negative, `MCF_EdmondsKarp` takes
distances from `s` for potentials. These are compatible with the flow if there
have been no potentials before, and all nodes are reached; see section 5 for
what happens otherwise. Demands are finite: an infinite demand of the target,
which the st-flow methods take for "as much as possible"
(`solveMCFlow.cpp:66`, `:172`, `:208`, `:331`), and the return value `-InfFloat`
that goes with it are left out.

## 3. Runs

Passing runs:

| Run | Instance | What it shows |
|---|---|---|
| `queue` | 3 slots, UI and 2 solvers, 5 appends; 202 thousand states | Under `QuietRestart` and a guarded reader: types, `QueueShape`, `ReaderOnQueue`, `NoFault`, uploads show entries in order (`UploadInOrder`), and the queue implements `BoundedLog` (`LogSpec`). |
| `queue_live` | 2 slots, 1 solver, 4 appends, any restart, raw client; 141 thousand states | `UploadEnds`: once the solvers have ceased to log, the upload loop ends unless a thread has crashed. |
| `solver` | 2 solvers, 3 indices (one is the user interface), 2 trace files for the patient user, 1 for the other; 1.3 million states | `IdleMeansDone`, `TableConsistent`, `StopHolds`, `ObjectsSurvive`, `ResultsMatch`, and `CallsEnd` under fairness, with threads that overlap, scripts that fail, nested calls and a full thread table. |
| `containers` | 3 handles on 3 items; hash items 0, 3, 11 in 1 to 4 cells; 4 set elements; 2 items and 3 nested sets; graphs with up to 3 nodes and 3 edges, 5 of both, and lists of 3 arcs; sorted array of 4, binary heap of 4, Fibonacci heap of 4 nodes with 3 keys, and 3 calls on a tree of 8; 118 thousand states | `StructureWhole` and `OrderKept`: links, ranks, lists and heap order; `ContainersSpec` and `QueueSpec`: each implements its abstract specification. |
| `search` | all choices of 4 edges from 8 places on 4 nodes with two lengths each; 445 thousand states | `ResultsExact`, `AnswersTrue`, `NearestFirst`, `CallReturns`: labels, predecessors, exceptions, exported cycles, Voronoi regions, topological numbers and termination of every procedure. |
| `branch` | 3 free variables, costs up to 4 halves, four settings of the limits; 1.3 million states | `BoundsValid`: the reported bounds are valid at any time and however the search ends; `OptimumFound`: without a stop or limit the saved solution is an optimum. |
| `graphs` | networks with 4 nodes and 5 edges, several capacities and lengths; for connectivity all graphs with 1, 3, 4 or 5 of 7 edges on 4 nodes, three with 5 or 6 nodes, and single edges; 312 thousand states | `FlowStructures`, `FlowMaximum`, `TreesOptimal`, `ComponentsExact`, `CutGenuine`, and `SolversEnd` under fairness. |
| `min_cost` | networks with 4 nodes and 5 arcs, negative lengths, three demands, infinite capacities; 78 thousand states | `BasisValid`, `CostMinimal`, `SlacknessKept`, `CostFalls` (the weight of the flow never grows in cycle cancelling and simplex), `CostEnds`. |

Runs that find a disagreement between code and documentation. Each checks one
property that a line of the repository states (quoted under `findings`):

| Run | Property | What happens |
|---|---|---|
| `node_heap_least` | `PeekLeast` | `ChangeKey` on a root of a Fibonacci heap never updates `minimal`, so `Delete()` does not take the least member. Dijkstra with `methPQ = 2` is exposed to this. |
| `flip_arc` | `ListsWhole` | `SwapArcs` loses arcs of the incidence lists if one of the two arcs is alone in its list and the other is not. The trace swaps arcs of two edges, a loop at 0 and an edge 1-0, of which the latter is alone at node 1. `FlipArc` calls the same function. |
| `trees_max` | `TreeFinished` | `MST_Edmonds` corrects the lengths of arcs into a shrunk cycle with the wrong sign when it maximises, so that a maximum arborescence is missed. |
| `min_cut` | `CutMinimum` | `MCC_HaoOrlin` ignores arcs into the sink when it relabels. Nodes with excess are put to sleep although the sink could take it, and the cut that is returned is not a minimum cut. |

Why the bounds are enough: three slots make the queue fill, wrap and recycle
with the reader on each of the slots; the sizes at which the lists change shape
are 0, 1, 2 and full. Two solvers with an index each can be alive at a time (a
thread that has reported idle and the next one), and a third call then finds
the table full. Three handles and
three items allow an item to pass through all containers of a family and back.
Hash items 0, 3 and 11 collide in tables of different sizes. Four elements
allow a set of rank two. Two items and three sets allow a set in a set in a
set, the least depth at which a compressed path crosses a set that is split
later. Three nodes and three edges allow loops, parallel edges, lists of
length one, two and four, and the renumbering of an arc that is adjacent to the
one it replaces. A tree of eight nodes gives cascading cuts
through several levels, which a heap of four nodes does not reach. Four nodes
with four edges allow a detour of three arcs, a cycle beside a path, and
parallel arcs; five arcs also allow a path that must be undone, a nested pair
of cycles to shrink, a cut node between two cycles and a cycle with a chord.
Two triangles that share a node or are joined by an edge have blocks with
several nodes on both sides of a cut node or a bridge. Capacities of 1, 2, 5
make all phases of the scaling methods occur.

Deadlock is checked except where a system really stops: `queue_live` (a crashed
thread), `containers` (the bound on calls to the large heap), and `search`,
`branch`, `graphs` and `min_cost` (a call ends).

### Fairness

* `queue_live`: a thread inside a call of the messenger continues, and the
  upload loop makes its next step; nobody has to begin anything. This is plain
  scheduling of threads. Weak fairness is not enough against a mutex that other
  threads take for ever, nor for a reader whose end is moved for ever.
  `UploadEnds` therefore has the premise that from some time on no solver is
  inside `MsgAppend`, and says nothing about starvation before.
* `solver`: every solver thread and the loop of `CallSolver` are scheduled; the
  user need not act. `CallsEnd` has the premise that single steps are
  eventually switched off and the level lets the browser trace. Otherwise the
  solver may legitimately wait for a button.
* `search`, `graphs`, `min_cost`: the loop of the procedure that was called is
  executed; its thread is scheduled. Nobody has to stop it.

## 4. Proofs

Every theorem below holds for every value of the constants that satisfies the
named assumptions of the modules (`ASSUME`), which TLC evaluates on the
instances. Each rests on an inductive invariant; the table of runs says which
of the statements are also model-checked. Client conditions stand in the
theorems themselves.

### The message queue

For every `QSize >= 2` and every set of solvers, if `QuietRestart`:

* `QueueTypes` and `QueueCorrect`: always `TypeOK` and `QueueShape`;
* `LogImplemented`: the queue implements `BoundedLog` (`LogSpec`);

and if also not `RawClient`:

* `ReaderStays` and `ReaderCorrect`: always `ReaderOnQueue` and `NoFault`;
* `UploadOrdered`: always `UploadInOrder`.

None is inductive by itself. `QueueShape` describes the lists between calls
and when a slot is in nobody's list; to know which of these applies one needs
that only the holder of the lock is inside `MsgAppend` (`LockHeld`), that nobody
is while `Restart` runs and which of its stores are done (`QuietInv`), and that
a linked entry exists (`LinkedInv`). Together with `TypeOK` these are
`QueueInv`. The heart of the proof is `CloseRing`: linking the recycled slot
behind the last one turns the chain into a ring once, when the array is used up
for the first time, and then leaves the ring as it is.

`ReaderInv` adds what a reader depends on: every used slot has a text except
the last one while it is written (`TextInv`); the iterator is set from the
first to the last accessor of a round (`IteratorInv`); and if an upload has
passed `MsgEOF` but the iterator is on the last entry when it skips, the links
form a ring, so that the skip lands on the oldest entry and not on a free slot
(`SkipInv`). That is why the unlocked gap between `MsgEOF` and `MsgSkip` is
harmless, although neither lock nor test covers it.

`OrderInv` says that entries lie in the queue in the order of their calls
(`AgeInv`) and that what an upload has still to show is newer than what it has
shown (`AheadInv`). The second part fails if the entry the upload stands on is
recycled; then everything in the queue is newer (`OvertakenInv`), so that going
on with the oldest entry is right.

The client conditions cannot be dropped: with `QuietRestart = FALSE` TLC finds a
violation of `NoFault`, and with `RawClient = TRUE` one of `ReaderOnQueue` (see
section 5).

### Solver control

For any set of solver threads, any table of at least two indices and any number
of trace files, all six invariants of the run `solver` are proved:
`SolverTypes` (`TypeOK`), `SolverIdleTrue` (`IdleMeansDone`), `ThreadTable`
(`TableConsistent`), `StopIsFinal` (`StopHolds`), `ObjectsKept`
(`ObjectsSurvive`) and `ResultIsOwn` (`ResultsMatch`: the code is the one of the
call's own thread, unless its script has failed before it set one).

`ControlInv` is for both users. It needs to know which thread is being created
and which index is reserved for it (`CreatingInv`), because the thread may run
before its ID is in the table (`TableInv` makes just this exception), and that
only a thread that has been running has seen a stop (`StopInv`). `PatientInv`
holds for the user who waits: only the last thread is alive (`AloneInv`), so the
unlocked counter is not changed between its read and its write (`CountInv`) and
the return code is the one of the active call (`ResultInv`).

### Branch and bound

For every bound on costs, every number of free variables and all limits:

* `LimitsHold`: the limits on active nodes and iterations are kept;
* `BoundsCorrect`: always `BoundsValid`;
* `OptimumReported`: always `OptimumFound`;
* `TreeBounded`: always `TypeOK`, which bounds the number of iterations by the
  size of the tree of subproblems (`Descendants[Free] + 1`), so that no
  subproblem is inspected twice.

`BranchInv` follows a subproblem through its life. What was cut off or deleted
is not better than what is saved (`DroppedInv`); the timer's bound is below
everything that is unsolved, be it in the list, in hand or deleted (`DualInv`),
and `bestBound` below everything in the list (`BestInv`). At the end of the
search these three meet in two ways, both of which need a fact about the
past: the list ran empty, when the last node must have been no better than
what is saved (`EmptyInv`), or the best node was too close to what is saved
(`FinalInv`). `CountInv` reserves room for the one or two nodes in hand,
without which the limit on active nodes is not inductive. `GapOfOne` in
`BoundsValid` is the rounding that section 5 mentions, and the only exception.

For the size of the tree, `WorkInv` says that the subproblems below those in the
list fit into what is left of the tree. The sum over the list is a bound for
each of its prefixes (`Room`), a function that exists rather than a recursive
sum: removing, inserting and deleting a node change it at one place.

### Graph search

For every graph, every call and every order of the incidence lists:

* `SearchTypes`: always `TypeOK`; in particular no queue overflows and the
  pass counters of the label correcting methods stay in their range;
* `NearestExpandedFirst`: always `NearestFirst`;
* `AllResultsExact`: always `ResultsExact`. Every procedure leaves what it is
  called for: exact labels, predecessors that lead back to a source along
  shortest paths, longest paths, topological numbers, Voronoi regions;
* `AllAnswersTrue`: always `AnswersTrue`, unless `SPX_BellmanFord` is called for
  a graph with one node (section 5). An exception has its cause and is not
  missed, an exported cycle is negative, and yes or no is the reachability of
  the target.

`SearchLabelsExact`, `SearchResultsExact` and `SearchAnswersTrue` are the parts
of these for BFS and Dijkstra's method.

`SearchInv` has one part for each procedure that needs one. BFS has at most two
layers in the queue, and a label is less than the number of labelled nodes
(`BFSInv`). In Dijkstra's method the node that is expanded lies between those
that have left the heap and those in it (`HeapInv`). `DAGSearch` counts exactly
the entering arcs that have not been read (`DAGInv`); this is why its queue has
room and why a node is numbered only once.

`LabelInv` says that every label is the length of a walk (`WalkInv`), that the
arcs that have been read cannot improve a label (`ReadInv`), and why the search
may stop early (`StopInv`: a target is as near as every node whose arcs have
not been read). `TreeInv` says that predecessor arcs are tight and that the
predecessors of settled nodes can be numbered, hence have no cycle, even with
arcs of length zero. A lemma (`NoShorterWalk`) shows by induction over the
number of arcs that labels which no arc improves are below all walks.

`RegionInv` is about the loop that merges Voronoi regions: regions are disjoint
and within one tree, every node that the loop has passed is in the region of its
predecessor, and a terminal keeps label 0 and no predecessor. `AnswerInv` says
that no target is settled while the search goes on, that Dijkstra's method fails
only because of a negative arc, and that all labelled nodes are expanded when it
reports that the target is out of reach.

For the label correcting methods a predecessor arc explains a label or a larger
one, and no cycle of predecessor arcs is tight (`LooseInv`): an improvement that
closes a cycle loosens the arc that leaves the improved node. `ScanInv` says which arcs cannot
improve a label in the current pass. A pass without an update leaves labels that
no arc improves (`Final`). These are distances (`FinalExact`), and as potentials
they show that no negative cycle can be reached (`FinalNoGain`).

The converse needs the passes: after pass `k` no label is above a walk of `k`
arcs (`RoundInv`), so without a negative cycle the labels are final after `n - 1`
passes, and the limit of `2n` is reached only with one. That `NegativeCycle`
then finds a cycle in `n` steps back needs `LevelInv`: a label of pass `k` has a
predecessor whose label is at least of pass `k - 1`, so the way back from a label
of pass `2n` does not end at a source. The cycle that is found is negative,
because it is not tight (`CycleNegative`).

In a DAG search the nodes that are neither waiting nor in the queue are numbered
(`Taken`), the arcs of all but the last of them are read, numbers grow along the
arcs, and the arcs that have been read do not improve a label (`OrderInv`). A
node that gets no number waits for another one that gets none; `n` steps back
visit a node twice, which is the directed cycle (`CyclesFound`).

Assumptions: calls are as `CallsAssumption` says, and paths are shorter than
`InfFloat` (`LengthAssumption`). Calls have at most one target except in
Dijkstra's own interface, and Voronoi regions have none, as the code calls it.
For the label correcting methods an edge that can be used in both directions has
no negative length; the manual excludes the others. A DAG search has one of its
three options and works on `PLAIN` lengths, and those of a critical path search
are no less than `-MaxLength`, so that the initial label `-InfFloat` is below
every path. Loops, which the run leaves out, are covered, and so are undirected
edges of negative length for BFS and Dijkstra's method. Negative lengths need not be excluded for
Dijkstra's method: it raises an exception when such an arc would improve a label,
and a search with a target, which may end before, is claimed to be exact only if
there is none.

### Maximum flow

For every network, every flow to start with, every method, and every moment at
which the user may stop it:

* `FlowTypes`: always `FlowTypeOK`; the flow respects the capacities at every
  step, and no label of push-relabel gets beyond `2n - 1`;
* `FlowStructured`: always `FlowStructures`; the lists of admissible arcs, the
  queue of active nodes, and the indegrees and cursors of the layered network
  are true to the flow;
* `FlowIsMaximum`: always `FlowMaximum`; a call that ends has found a flow with
  the value of a minimum cut, and the timer's bounds enclose that value all the
  time. The exceptions are a stop and the excess that excess scaling may leave
  behind.

So the theorem that a maximum flow is a minimum cut is proved along with the
program. Sums over edges are recursive functions, which `Iterates` shows to
exist; the net flow into a set of nodes is the sum of their divergences
(`NetAdd`), and what a cut has and the flow does not use is the residual
capacity that leaves it (`CutSlack`). Hence no flow is above a cut
(`FlowBelow`), and labels that no residual arc leaves show a cut of the same
value (`FlowIsCut`). Breadth first search is single steps here, and its labels
come from an iteration that is at rest after `n` steps (`SearchEnds`, by the
pigeonhole lemma `Pigeons`).

`FlowInv` has a part for each family of methods.

* The augmenting path methods and Dinic keep a flow of value `val`
  (`PathFlow`, `Carries`). While Dinic pushes along a path from `t` back to
  `s`, the amount is missing at the node that has been reached, and the rest
  of the path is still usable (`Rest`): every arc on it has enough residual
  capacity, is the one its cursor points to, and starts at a node that is not
  blocked.
* `LayerNet` says that arcs lead from layer to layer (`Graded`), that the
  indegree of a node is the number of its usable arcs (`Counted`), and that no
  cursor has passed one (`Cursors`). It holds between two pushes, not only
  between two paths. `TopErasure` deletes exactly the nodes that lose their
  last usable arc (`ErasureIs`: an iteration at rest, by `Growing`), none of
  them in a lower layer than the saturated arc (`ErasedLevels`), which is why
  the rest of the path survives it (`ErasureKeeps`). The condition in the code
  that a saturated arc is not counted a second time is needed in `LostIs` and
  `ErasureKeeps`.
* `PreflowKept` is `PreflowValid` with what is known of the node in hand. That
  a label stays below `2n` is a gap argument: a node with excess has a residual
  arc to a label of at most `2n - 2` (`RelabelBound`), for otherwise there is a
  label between that no node has, and the nodes above it would hold excess that
  never entered them.
* `PreflowEnd` says what push-relabel leaves. There is also a label below `n`
  that no node has, and the nodes above it are a cut without residual capacity
  (`GapCut`), which the search at the end finds.

Assumptions: `n > 1`, and calls as `CallsAssumption` says; the length of the
incidence lists and their order are arbitrary. That a call ends (`SolversEnd`)
is model-checked only.

The proof led to a correction of the model's properties. `PreflowValid` used to
claim for excess scaling, too, that the lists hold every admissible arc, which
TLC had not refuted on networks without parallel inner arcs; see section 5.

### Minimum cuts

For every digraph, root and order of arcs, with the FIFO queue and with the heap:

* `CutIsGenuine`: always `CutGenuine`. Unless an infinite arc has been met no node
  is inserted twice; no node but those of layer 0 has a deficit, and awake nodes
  other than the sink have lost their excess when a cut is taken; the value is
  that of the exported cut, with the root on the left hand side; and at the end
  every other node has been the sink;
* `CutTypes`: always `CutTypeOK`; labels stay below `n`, there are no more layers
  than nodes, and the flow respects the capacities, although labels, layers and
  lists are carried over from one sink to the next.

That the cut is a minimum cut is false, as the run `min_cut` shows. The theorems
say what remains true: the answer is a cut, and its value is an upper bound.

`CutInv` (theorem `CutInvariant`) has these parts. The layers of sleeping nodes
are whole: none of `1 .. dormMax` is empty, so that there are fewer of them than
nodes, and the layer that is awakened next has a node to become the sink
(`LayersWhole`). The queue has every awake node with excess other than the sink
and the one in hand, once, and nothing without excess (`QueueExact`). The lists of
admissible arcs survive a change of the sink. An arc in them has residual capacity
unless it starts at a node that has been the sink; an arc that is left in `S2`
leads to a sleeping node, from one that awakes before it (`ArcsUsable`), so that
later relabel steps, which take over what they find in `S2`, bring in no saturated
arc. Hence every push moves flow. The best cut so far has
the recorded value (`CutKnown`); capacities of cuts do not depend on the flow.

For the labels (`CutInvLow`) the argument is that there are no gaps: among the
awake nodes, and in each layer, a label either leaves room for all the nodes that
still wait, or another node of the same layer has the next lower one
(`LabelSteps`, `Climb`). The unique node of a label is put to sleep with all above
it, and never relabelled, which is what keeps this true.

Assumptions: `n > 1`, and calls without flow (`CutAssumption`,
`CutCallsAssumption`).

The proof led to a correction of `CutGenuine`, which used to claim that no node is
ever inserted twice: an infinite arc at the root spoils this (section 5).

### Minimum cost flow

For every network with integral lengths, capacities and demands, every flow to
start with, and every choice of paths and cycles that a search may make:

* `CapacitiesAlways`: cycle cancelling, shortest augmenting paths, capacity
  scaling, `MCF_EdmondsKarp` and `MCF_BusackerGowen` keep the flow within the
  capacities at every step;
* `SlacknessAlways`: always `SlacknessKept`; the searches of Dijkstra's method
  never meet a residual arc of negative reduced length;
* `CheapestAlways`: always `CheapestReturned`; if an unstopped call of cycle
  cancelling, shortest augmenting paths, capacity scaling or `MCF_EdmondsKarp`
  returns a finite value, this is the weight of the b-flow it leaves, and no
  b-flow within the capacities is cheaper. For `MCF_EdmondsKarp` this and
  `SlacknessAlways` are under the condition of `CostCallsAssumption`: compatible
  potentials, or none and all nodes in reach of the source. The comparison is with all b-flows,
  not only those up to `Most` that the run enumerates.

The invariant `CostInv` (theorem `CostInvariant`) says which steps belong to a
method (`StepsOfMethods`), that the flow fits, is a b-flow in cycle cancelling
and lacks exactly `deficit` in the st-flow methods (`NetworkKept`), where no
residual arc is negative (`SlackWhere`), and what has been returned
(`ResultKept`). `SlacknessKept` is not inductive: a phase of capacity scaling
ends and the next one begins with a smaller threshold, so that arcs come back
that nothing was known of, and it is `Saturated` that deals with them
(`SaturatedIs`). The steps of the argument are these.

* The walks that the model enumerates are the ones that enter no node twice,
  which have at most `n` arcs (`WalksAre`). If there is no negative cycle, the
  least lengths of such walks satisfy the triangle inequality (`Triangle`):
  where a shortest walk and one more arc meet a node again, they contain a cycle
  to be left out.
* A walk whose length is the difference of the labels is tight on each of its
  arcs, and no label on it is above that of its end (`ShortestIsTight`). Hence
  cutting the distances at the distance of the target, as `UpdatePotentials`
  does, gives all arcs of the path, and those that appear in return, reduced
  length zero, and no other arc becomes negative (`SlackAfterAugment`).
* A path that does not come back to its first node, and a cycle that is
  negative, use no edge in both directions (`PathEdgesOnce`, `CycleEdgesOnce`;
  the two arcs of an edge would cancel each other), so that `FindCap` bounds
  what each edge can take (`AugmentFits`). Only the ends of a path change their
  divergence (`AugmentDivergence`).
* Without negative residual arcs and with `delta = 0`, a flow is cheapest among
  those with the same divergences (`SlackIsCheapest`). The difference of two
  flows, weighted with the reduced lengths, is nowhere negative, and the
  potentials drop out of the sum (`PotentialSum`).

The last step of cycle cancelling is the same from another side: if there is
no negative cycle, the distances from all nodes are potentials of this kind
(`SlackAfterCycles`).

Assumptions: `CostAssumption` and `CostCallsAssumption`. What an infinite value
says (there is no b-flow), the potentials of `MCF_BusackerGowen`, the bounds of
the timer, the simplex method and termination are checked by TLC only.

### Containers

`StaticQueueProofs`, for every number of items and every set of queues
(`IsFamily`: the master is one of them):

* `FamilyTypes`: always `TypeOK`;
* `FamilyMembers`: always `MembersExact`: `IsMember` and `Cardinality` agree
  with the links for each queue;
* `FamilyImplementsLists`: the family implements `SharedLists`, so that no item
  gets from one queue into another.

The invariant says that there are lists, one for each queue, pairwise disjoint,
such that the links of the shared array lead along each of them and end in a
loop (`Chain`). The last link is what keeps an insertion into one queue from
running into another. The list that the model reads off the links (`ItemsFrom`)
is then this one.

`DisjointFamilyProofs`, for every number of items:

* `SetsTyped`: always `TypeOK`;
* `SetsBalanced`: always `RankBounds`: ranks grow along the links and a set of
  rank `r` has at least `2^(r-1)` elements, so that no path has more links than
  the logarithm of the size of its set;
* `SetsImplemented`: the family implements `SetFamily`, with and without path
  compression.

Here the invariant is that there is a function from items to canonical elements
which follows the links (`Forest`) and whose classes are large (`Large`). A
compression of paths changes links but not this function. `LeastSize` is the
power of two as a recursive function.

In the run `containers` these statements are parts of `TypeOK`,
`StructureWhole` and `ContainersSpec`, which speak of all containers together.

### Only model-checked

* Everything under fairness (`UploadEnds`, `CallsEnd`, `CallReturns`,
  `SolversEnd`, `CostEnds`), which the prover does not handle.
* The heaps, which are written with recursive operators that the prover does not
  support, and `MCContainers`, which contains them. Of the other containers
  `StaticStack`, `HashTable`, `NestedFamily` and `SparseGraph`, whose proofs
  have not been attempted.
* Of `MCGraphs`, spanning trees and connectivity, and of `MCMinCost` the
  simplex method (`BasisValid`), the bounds of the timer and the answer that a
  problem is infeasible (`CostMinimal`), and that no step makes a flow more
  expensive (`CostFalls`): optimality is compared with an enumeration, and a
  proof would need the theory (exchange of tree edges, separating nodes, bases
  of a network) along with the program, as it was done for the other flow
  methods.

## 5. Further observations

These came up while modelling and have no run of their own. Where the library
could be called directly, they were confirmed with it.

Messenger and threads:

* `Restart` takes no lock (`messenger.cpp:111`): a solver inside `MsgAppend`
  goes on with indices that were reset. The manual calls the messenger thread
  safe.
* A slot may be recycled between `MsgText` and `MsgClass` (`messenger.cpp:256`):
  one line of the browser then has the text of one message and the class of
  another.
* `MsgSkip` tests the link and not the last entry (`messenger.cpp:215`); in a
  queue that is not full it steps onto a free slot. `UploadMessages` asks
  `MsgEOF` first and is not affected.
* A stop that is sent to a pending solver is overwritten by
  `SolverSignalStarted` (`messenger.cpp:425`).
* A script that ends with an error before `goblin solver return` or `throw`
  (`goshMain.cpp:324`; the line `goblin alias` of `menuOptimize.tk:214` is not
  inside the script's `catch`) leaves the return code of an earlier call, which
  `CallSolver` then shows as its result.
* `UploadMessages` loops until `MsgEOF` (`mainMessenger.tk:277`). While solvers
  log as fast as it reads, it need not come to an end.

Containers and representations:

* Static stacks cannot tell the bottom of another stack of the family from a
  free item, as `prev[w]==n` says both.
* In `sparseRepresentation.cpp`, `IdentifyNodes` of an isolated node reads
  `right[NoArc]` (1271), and of a node with itself corrupts its list;
  `CancelArc` takes `sub[ad]` by arc instead of edge (743) and tests
  `aExtNew!=ad^1` with the wrong precedence (731).
* The adjacency matrix is not updated by `DeleteArc` and `SwapNodes`, against
  `abstractMixedGraph.h:685`; `MarkAdjacency` updates one direction; a matrix
  built in the presence of cancelled arcs throws and stays half filled.
* `InsertArc` and `InsertNode` of the graph objects increase `m` and `n` before
  the representation can reject the call (`abstractMixedGraph.cpp:306`, `:344`).

Search and trees:

* `SPX_BellmanFord` takes `i == 2n` for a negative cycle (`solveSPTree.cpp:515`).
  On a graph with one node the first pass ends there, so the exception is
  always raised.
* `DAGSearch` returns the first node without a number when there is a cycle
  (`solveSPTree.cpp:980`); this node may only be behind the cycle, while
  `abstractDigraph.h:191` promises a node on it.
* The manual lets `ShortestPath` use the default target when `t` is missing;
  the code does so only when the source is missing, too. Without a target the
  return value is false, except for the DAG search. Reduced lengths are used
  for every characteristic but `PLAIN`.
* Dijkstra with a Fibonacci heap (`methPQ = 2`) throws on some graphs, a
  consequence of `node_heap_least`.
* Mandatory edges that no tree can contain are noticed by Kruskal's method
  only; its one-cycle tree may drop a mandatory edge at the root.

Flows:

* Excess scaling halves `delta` only once when the queue is empty
  (`solveMaxFlow.cpp:702`); excess may be left and the value then stays below
  the maximum. `delta` is not reset between calls. `FlowMaximum` makes
  this one exception: after excess scaling nodes may keep excess, and the call
  may then report the internal error.
* Excess scaling takes an arc from `Admissible[u]` before it finds that it could
  push too little on it (`solveMaxFlow.cpp:563` and `:577`), and goes on without
  it. The comment at 457 says that `Admissible[u]` has all arcs with residual
  capacity to the next lower label; here it has not, and `u` leaves the queue
  with an excess of half of `delta` or more, since `canRelabel` is false. With
  arcs 0-1 of capacity 4, 0-2 and 2-3 of capacity 1 and two arcs 1-2 of
  capacity 2 this happens. `PreflowValid` claims completeness of lists and
  queue for the other variants only.
* `MXF_PushRelabel` reads `CT.methMXF` and not its parameter `method`. The
  value of a given flow ignores flow that enters the source. An infinite arc
  at the source makes the upper bound wrong before `ERRange` is raised. Loops
  make an insertion into a static queue throw. A stopped call with
  `methFailSave = 1` reports a corrupted flow. The search for admissible arcs
  from nodes two labels above finds none.
* `MaxUCap` of a graph without representation compares lower capacities
  (`abstractMixedGraph.cpp:801`).
* `MCF_EdmondsKarp` replaces given potentials by distances of reduced lengths
  (`solveMCFlow.cpp:282`), against `abstractMixedGraph.h:3330`; nodes that are
  not reached get an infinite potential.
* `MCF_CapacityScaling(false)` (SAP) computes its total imbalance `defPlus`
  before it saturates negative residual arcs (`solveMCFlow.cpp:957` and `:1031`)
  and sends no more than that (1052). The imbalance that the saturation has
  caused remains, and the problem is reported as infeasible, against
  `abstractMixedGraph.h:3355`. Without demands, arcs 0-1, 0-2, 1-2, 1-3, 2-3 of
  capacities 1, 2, 1, 2, 1 and lengths -1, 0, 1, 2, 3 give `InfFloat`, where the
  minimum is 0. The run `min_cost` has such calls, and `CostMinimal` names the
  exception (`GivesUp`). With scaling the loop has no such limit.
* `MCF_BusackerGowen` notices negative cycles only if they can be reached from
  the source; with others it returns a flow that is not of minimum weight. The
  loop of the augmenting path methods for maximum flow that adds up the flow at
  the source (`solveMaxFlow.cpp:137`) asks for `NoArc` if there is no arc.
* Unbounded problems end with a bound that `SetBounds` rejects, inside a
  function that may not throw; so does a negative cycle in `MCF_BusackerGowen`.
  An infeasible problem with `methFailSave = 1` is reported as an internal
  error. The simplex method reports bounds only now and then.

Branch and bound:

* A root with an estimate of depth 1 makes `SearchState` divide by zero
  (`branchScheme.cpp:521`); the model excludes it.
* An infeasible subproblem (1e50 absorbs the unit in
  `branchScheme.cpp:393`) is queued and branched on until `SelectVariable`
  throws.
* When maximising, a remaining gap of one is reported as solved
  (`branchScheme.cpp:150`); an infeasible problem is logged as interrupted.

Connectivity and cuts:

* `EdgeConnected` relies on `EdgeConnectivity()`, whose default method
  `MCC_HaoOrlin` (`goblinController.cpp:357`) may miss the minimum cut, as the run
  `min_cut` shows for a digraph. On the edges 0-1 and 2-3 of capacity 5 and 1-2
  and 1-3 of capacity 1 the edge connectivity is 2, the default method returns
  5, and `EdgeConnected(3)` answers true with one class instead of two.
* `Biconnected` gives every node the colour of the representative of its set
  (`solveComponents.cpp:694`), which may be the colour of cut nodes: two bridges
  in a row leave nodes of different components with colour 0, against
  `abstractMixedGraph.h:2541`. An edge that is a component of its own counts as
  2-edge connected, edges of capacity zero join their ends, and without edges
  the colours that it reads have not been created.
* `StronglyConnected` resets all predecessors in tracing builds, where a forest
  that spans the components is documented.
* `CutNodes` and `STNumbering` do not expect a loop as the root arc;
  `STNumbering` does not expect an isolated source.
* `EdgeConnected` may answer true when it is stopped. A stop in the midst of a
  maximum flow makes it go by an unfinished flow or cut: it may tear a component
  and leave wrong bounds.
* `MCC_NodeIdentification` works on a copy without parallel edges
  (`solveMinCut.cpp:1135`) and raises `ERRange` on many graphs.
* An infinite arc at the root of `MCC_HaoOrlin` inserts its end node without a
  push (`solveMinCut.cpp:696`), so that a parallel arc finds no excess there and
  inserts the node again. The FIFO queue then raises `ERCheck` out of a function
  that is declared to throw `ERRange` only, the error reported at the end; the
  heap replaces its entry. `CutGenuine` makes this exception.

## 6. What is not modelled

`PROJECT.json` has an entry with the reason for every part. In short:
the command dispatch of `gosh`, the browser's windows and file I/O keep no
state beyond what is modelled; linear programming and layout compute in
floating point; GLPK is third-party code and nearly a third of the C and C++
lines of the repository; planarity and matching need
structures whose interesting instances are too large for exhaustive checking
at the level of single steps. Also left out of modelled parts: memory counts
(`Size()`), `Display()`, logging texts and progress counters, which change
nothing that the modelled code reads; cost scaling, minimum mean cycles and the
LP formulation of minimum cost flow; undirected flow networks, which are mapped
to digraphs before and after; the flow reductions of node and edge
connectivity; packings of trees.

## 7. Plan

Done: message queue, solver control, containers with set families and incidence
lists, heaps, search, branch and bound, maximum flow, spanning trees, minimum
cost flow with network simplex, connectivity, minimum cuts; proofs as in
section 4.

Theorems to add, in this order:

1. `StaticStack`, along the lines of `StaticQueueProofs`;
2. the binary heap, after its recursive operators have become recursive
   functions;
3. `NetworkSimplex`: that the three indices of the tree agree after a pivot.

Models that could follow: the registry of the controller
(`goblinController.cpp`, object lists and tables on top of `HashTable`), layout
points and adjacency matrix of the sparse representation, cost scaling, and the
reductions of connectivity to flows. Components that do not interact share a
run, so that the project stays small enough to be run as a whole.
