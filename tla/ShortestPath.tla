----------------------------- MODULE ShortestPath ------------------------------
(****************************************************************************)
(* The graph search procedures of solveSPTree.cpp: breadth first search, the *)
(* Dijkstra method, the Bellman-Ford and the FIFO label correcting methods   *)
(* with negative cycle detection, the search of acyclic digraphs, the        *)
(* Voronoi regions, and the entry point ShortestPath that selects one.       *)
(*                                                                           *)
(* One behaviour is one call.  A step reads one arc; between two steps the   *)
(* labels are what the trace functions show.  Incidence lists are read in    *)
(* any order, since the order of a list depends on how the graph was built.  *)
(****************************************************************************)
EXTENDS Network, Sequences, FiniteSetsExt

CONSTANTS
  Calls,     \* the calls that are considered
  MaxLength  \* no arc that is searched is longer

(* proc   the procedure, hub: whether ShortestPath is the entry point        *)
(* chr    the characteristic;  G: the graph object                           *)
(* S, T   the source nodes and the target nodes, at most one outside         *)
(*        Dijkstra; S = Node stands for NegativeCycle(chr,NoNode)            *)
(* opt    the goal of a DAG search; VORONOI if VoronoiRegions calls Dijkstra *)
(* epsilon  what NegativeCycle adds to every arc length                      *)
Procedures == {"BFS", "Dijkstra", "BellmanFord", "FIFO", "DAGSearch"}
Options == {"NONE", "VORONOI", "DAG_TOPSORT", "DAG_CRITICAL", "DAG_SPTREE"}

(* What an arc adds to a label, and the lengths of all eligible walks with   *)
(* at most k arcs from a node of X to each node: the reference for what the  *)
(* procedures compute.                                                       *)
StepLength(c, a) ==
  IF c.proc = "BFS" THEN 1 ELSE SearchLength(c.G, c.chr, a) + c.epsilon
OneArcMore(c, W) ==
  [v \in Node |-> W[v] \union
     UNION {{x + StepLength(c, a) : x \in W[StartNode(c.G, a)]} :
              a \in {b \in Arc : Eligible(c.G, c.chr, b) /\ EndNode(c.G, b) = v}}]
WalkLengths(c, X, k) ==
  LET W[i \in 0 .. k] ==
        IF i = 0 THEN [v \in Node |-> IF v \in X THEN {0} ELSE {}]
                 ELSE OneArcMore(c, W[i - 1])
  IN W[k]
Distances(c, X) ==
  LET W == WalkLengths(c, X, n - 1)
  IN [v \in Node |-> IF W[v] = {} THEN InfFloat ELSE Min(W[v])]

(* InfFloat is larger than the length of every path.                         *)
ASSUME LengthAssumption == MaxLength \in Nat /\ n * MaxLength < InfFloat

(* What the callers see to.  The label correcting methods are not meant for  *)
(* undirected edges of negative length (manual.tex:7177).                    *)
ASSUME CallsAssumption ==
  \A c \in Calls :
    /\ c.proc \in Procedures /\ c.opt \in Options /\ IsGraph(c.G)
    /\ c.S \subseteq Node /\ c.T \subseteq Node
    /\ c.epsilon \in Nat
    /\ c.proc # "FIFO" => c.epsilon = 0
    /\ c.proc = "BFS" \/ c.hub => \E s \in Node : c.S = {s}
    /\ c.hub \/ c.proc # "Dijkstra" => \A s, t \in c.T : s = t
    /\ c.opt = "VORONOI" => c.proc = "Dijkstra" /\ c.T = {}
    /\ \A a \in Arc : StepLength(c, a) <= MaxLength
    /\ c.proc \in {"BellmanFord", "FIFO"} => \A a \in Arc :
         Eligible(c.G, c.chr, a) /\ Eligible(c.G, c.chr, Twin(a)) =>
           StepLength(c, a) + StepLength(c, Twin(a)) >= 0
    /\ c.proc = "DAGSearch" =>
         /\ c.opt \in {"DAG_TOPSORT", "DAG_CRITICAL", "DAG_SPTREE"}
         /\ IF c.hub THEN c.opt = "DAG_SPTREE" ELSE c.chr = "PLAIN"
         /\ c.opt = "DAG_CRITICAL" => \A a \in Arc : -MaxLength <= StepLength(c, a)

VARIABLES
  call,      \* the call
  pc,        \* "called", "search", "merge" (Voronoi regions) or "done"
  dist, pred, colour,   \* distance labels, predecessor arcs, node colours
  region,    \* the node partition: the set that every node belongs to
  queue,     \* the static queue of BFS and of the DAG search
  active,    \* the members of the Dijkstra heap; the flags active[v] of FIFO
  unread,    \* the investigator: the arcs of every node not read yet
  u,         \* the node that is expanded, or NoNode
  idx,       \* the running index of a for loop (an arc or a node)
  count,     \* i, itCount or nr: the passes so far, or the numbered nodes
  flag,      \* searching, or Updates
  idg,       \* DAG search: entering arcs that have not been read
  root,      \* FIFO: start node of an arc that still improved in the last pass
  out        \* what the call returned: a tag and a node

vars == <<call, pc, dist, pred, colour, region, queue, active, unread, u, idx,
          count, flag, idg, root, out>>

G == call.G
Start(a) == StartNode(G, a)
End(a) == EndNode(G, a)
Open(a) == Eligible(G, call.chr, a)
l(a) == SearchLength(G, call.chr, a)
Critical == call.opt = "DAG_CRITICAL"
Target == CHOOSE t \in call.T : TRUE

Init ==
  /\ call \in Calls /\ pc = "called"
  /\ dist = [v \in Node |-> InfFloat] /\ pred = [v \in Node |-> NoArc]
  /\ colour = [v \in Node |-> NoNode] /\ region = [v \in Node |-> {v}]
  /\ queue = <<>> /\ active = {} /\ unread = [v \in Node |-> {}]
  /\ u = NoNode /\ idx = 0 /\ count = 0 /\ flag = TRUE
  /\ idg = [v \in Node |-> 0] /\ root = NoNode /\ out = <<"none", NoNode>>

(* What ShortestPath refuses before it selects a procedure.                  *)
Refused ==
  /\ call.hub
  /\ \/ Residual(call.chr) /\ ~IsDirected(G)
     \/ call.proc = "BFS" /\ (~CLength(G) \/ NegativeLengths(G))
     \/ call.proc = "DAGSearch" /\ (call.chr # "PLAIN" \/ ~IsDirected(G))

Refuse ==
  /\ pc = "called" /\ Refused
  /\ pc' = "done" /\ out' = <<"ERRejected", NoNode>>
  /\ UNCHANGED <<call, dist, pred, colour, region, queue, active, unread, u,
                 idx, count, flag, idg, root>>

Called(proc) == pc = "called" /\ call.proc = proc /\ ~Refused

Labelled == [v \in Node |-> IF v \in call.S THEN 0 ELSE InfFloat]

(* The labels of a new search, and an investigator with all arcs unread.     *)
Enter(labels) ==
  /\ pc' = "search" /\ dist' = labels /\ pred' = [v \in Node |-> NoArc]
  /\ unread' = [v \in Node |-> Incidences(G, v)]
  /\ u' = NoNode /\ idx' = 0
  /\ UNCHANGED <<call, region, root, out>>

Searching(proc) == pc = "search" /\ call.proc = proc
Expanding(proc) == Searching(proc) /\ u # NoNode
Between(proc) == Searching(proc) /\ IF u = NoNode THEN TRUE ELSE unread[u] = {}

(* Read one arc of the expanded node.                                        *)
Read(a) ==
  /\ a \in unread[u]
  /\ unread' = [unread EXCEPT ![u] = @ \ {a}]

(* Mutant: the first predecessor arc is kept.                                *)
ImproveFirst(a, label) ==
  /\ dist' = [dist EXCEPT ![End(a)] = label]
  /\ pred' = [pred EXCEPT ![End(a)] = IF @ = NoArc THEN a ELSE @]

Improve(a, label) ==
  /\ dist' = [dist EXCEPT ![End(a)] = label]
  /\ pred' = [pred EXCEPT ![End(a)] = a]

(* The end of a call.  The labels stay in the registers of the graph.        *)
Return(result) == pc' = "done" /\ out' = result
Bool(b) == <<IF b THEN "true" ELSE "false", NoNode>>
Reached == call.T # {} /\ dist[Target] # InfFloat

-------------------------------------------------------------------------------
(*                         Breadth first search                              *)
BFSStart ==
  /\ Called("BFS") /\ Enter(Labelled)
  /\ \E s \in call.S : queue' = <<s>>
  /\ flag' = TRUE
  /\ UNCHANGED <<active, count, colour, idg>>

(* Mutant: the first node is read but stays in the queue.                    *)
BFSDeletePeek ==
  /\ Between("BFS") /\ queue # <<>> /\ flag
  /\ u' = Head(queue)
  /\ UNCHANGED <<call, pc, dist, pred, colour, region, queue, active, unread, idx, count, flag, idg, root, out>>

BFSDelete ==
  /\ Between("BFS") /\ queue # <<>> /\ flag
  /\ u' = Head(queue) /\ queue' = Tail(queue)
  /\ UNCHANGED <<call, pc, dist, pred, colour, region, active, unread, idx, count, flag, idg, root, out>>

(* Reaching the target ends the search once the incidences of u are read.    *)
BFSRead(a) ==
  /\ Expanding("BFS") /\ Read(a)
  /\ IF dist[End(a)] = InfFloat /\ Open(a)
     THEN /\ Improve(a, dist[u] + 1)
          /\ queue' = Append(queue, End(a))
          /\ flag' = (flag /\ End(a) \notin call.T)
     ELSE UNCHANGED <<dist, pred, queue, flag>>
  /\ UNCHANGED <<call, pc, colour, region, active, u, idx, count, idg, root, out>>

BFSReturn ==
  /\ Between("BFS") /\ (queue = <<>> \/ ~flag)
  /\ Return(Bool(Reached))
  /\ UNCHANGED <<call, dist, pred, colour, region, queue, active, unread, u, idx, count, flag, idg, root>>

-------------------------------------------------------------------------------
(*                              SPX_Dijkstra                                 *)
DijkstraStart ==
  /\ Called("Dijkstra") /\ Enter(Labelled)
  /\ active' = call.S
  /\ UNCHANGED <<queue, count, colour, flag, idg>>

(* Mutant: the heap returns any member.                                      *)
LeastAny(v) == v \in active

(* The heap returns any member with the least key; keys equal the labels.    *)
Least(v) == v \in active /\ \A w \in active : dist[v] <= dist[w]

(* VoronoiRegions has no target; it continues with the node partition.       *)
DijkstraDelete ==
  /\ Between("Dijkstra")
  /\ \E v \in active :
       /\ Least(v)
       /\ active' = active \ {v} /\ u' = v
       /\ IF v \in call.T
          THEN Return(IF call.hub THEN Bool(TRUE) ELSE <<"node", v>>)
          ELSE UNCHANGED <<pc, out>>
  /\ UNCHANGED <<call, dist, pred, colour, region, queue, unread, idx, count, flag, idg, root>>

(* A new label is inserted, an old one changed, which needs a member.        *)
HeapTakes(v) == dist[v] = InfFloat \/ v \in active

DijkstraRead(a) ==
  /\ Expanding("Dijkstra") /\ Read(a)
  /\ LET dd == dist[u] + l(a) IN
     IF dist[End(a)] > dd /\ Open(a)
     THEN IF l(a) < 0 \/ ~HeapTakes(End(a))
          THEN Return(<<"ERRejected", NoNode>>) /\ UNCHANGED <<dist, pred, active>>
          ELSE /\ Improve(a, dd) /\ active' = active \union {End(a)}
               /\ UNCHANGED <<pc, out>>
     ELSE UNCHANGED <<dist, pred, active, pc, out>>
  /\ UNCHANGED <<call, colour, region, queue, u, idx, count, flag, idg, root>>

DijkstraReturn ==
  /\ Between("Dijkstra") /\ active = {}
  /\ IF call.opt = "VORONOI"
     THEN pc' = "merge" /\ idx' = 0 /\ UNCHANGED out
     ELSE Return(IF call.hub THEN Bool(FALSE) ELSE <<"node", NoNode>>) /\ UNCHANGED idx
  /\ UNCHANGED <<call, dist, pred, colour, region, queue, active, unread, u, count, flag, idg, root>>

(* Mutant: the predecessor's region is not told.                             *)
VoronoiMergeOne ==
  /\ pc = "merge"
  /\ IF idx < n
     THEN /\ idx' = idx + 1
          /\ IF pred[idx] = NoArc
             THEN UNCHANGED region
             ELSE region' = [region EXCEPT ![idx] = @ \union region[Start(pred[idx])]]
          /\ UNCHANGED <<pc, out>>
     ELSE Return(<<"count", Cardinality(call.S)>>) /\ UNCHANGED <<idx, region>>
  /\ UNCHANGED <<call, dist, pred, colour, queue, active, unread, u, count, flag, idg, root>>

(* The loop of VoronoiRegions: the region of i and of its predecessor merge. *)
VoronoiMerge ==
  /\ pc = "merge"
  /\ IF idx < n
     THEN /\ idx' = idx + 1
          /\ IF pred[idx] = NoArc
             THEN UNCHANGED region
             ELSE LET both == region[Start(pred[idx])] \union region[idx]
                  IN region' = [v \in Node |-> IF v \in both THEN both ELSE region[v]]
          /\ UNCHANGED <<pc, out>>
     ELSE Return(<<"count", Cardinality(call.S)>>) /\ UNCHANGED <<idx, region>>
  /\ UNCHANGED <<call, dist, pred, colour, queue, active, unread, u, count, flag, idg, root>>

-------------------------------------------------------------------------------
(*                             SPX_BellmanFord                               *)
BellmanStart ==
  /\ Called("BellmanFord") /\ Enter(Labelled)
  /\ count' = 1 /\ flag' = FALSE
  /\ UNCHANGED <<queue, active, colour, idg>>

(* Mutant: an improvement does not ask for another pass.                     *)
BellmanArcQuiet ==
  /\ Searching("BellmanFord") /\ idx \in Arc
  /\ idx' = idx + 1
  /\ LET a == idx
         label == dist[Start(a)] + l(a)
     IN IF dist[End(a)] > label /\ dist[Start(a)] # InfFloat /\ Open(a)
        THEN Improve(a, label)
        ELSE UNCHANGED <<dist, pred>>
  /\ UNCHANGED <<call, pc, colour, region, queue, active, unread, u, count, flag, idg, root, out>>

(* One arc of a pass.                                                        *)
BellmanArc ==
  /\ Searching("BellmanFord") /\ idx \in Arc
  /\ idx' = idx + 1
  /\ LET a == idx
         label == dist[Start(a)] + l(a)
     IN IF /\ dist[End(a)] > label /\ dist[Start(a)] # InfFloat
           /\ pred[Start(a)] # Twin(a) /\ Open(a)
        THEN Improve(a, label) /\ flag' = TRUE
        ELSE UNCHANGED <<dist, pred, flag>>
  /\ UNCHANGED <<call, pc, colour, region, queue, active, unread, u, count, idg, root, out>>

(* The end of pass number count; the next one starts without updates.        *)
BellmanPass ==
  /\ Searching("BellmanFord") /\ idx = 2 * m
  /\ count' = count + 1
  /\ IF flag /\ count + 1 < 2 * n
     THEN idx' = 0 /\ flag' = FALSE /\ UNCHANGED <<pc, out>>
     ELSE /\ UNCHANGED <<idx, flag>>
          /\ Return(IF count + 1 = 2 * n THEN <<"ERCheck", NoNode>> ELSE Bool(Reached))
  /\ UNCHANGED <<call, dist, pred, colour, region, queue, active, unread, u, idg, root>>

-------------------------------------------------------------------------------
(*               NegativeCycle and SPX_FIFOLabelCorrecting                   *)
FIFOStart ==
  /\ Called("FIFO") /\ Enter(Labelled)
  /\ active' = call.S /\ count' = 1 /\ flag' = FALSE
  /\ UNCHANGED <<queue, colour, idg>>

(* The loop over the nodes.                                                  *)
FIFONode ==
  /\ Searching("FIFO") /\ u = NoNode /\ idx \in Node
  /\ IF idx \in active
     THEN u' = idx /\ active' = active \ {idx} /\ UNCHANGED idx
     ELSE idx' = idx + 1 /\ UNCHANGED <<u, active>>
  /\ UNCHANGED <<call, pc, dist, pred, colour, region, queue, unread, count, flag, idg, root, out>>

(* Mutant: the last pass is taken for an ordinary one.                       *)
FIFOReadLate(a) ==
  /\ Expanding("FIFO") /\ Read(a)
  /\ LET label == dist[u] + l(a) + call.epsilon IN
     IF dist[End(a)] > label /\ pred[u] # Twin(a) /\ Open(a)
     THEN /\ Improve(a, label)
          /\ active' = active \union {End(a)}
          /\ IF count <= 2 * n
             THEN flag' = TRUE /\ UNCHANGED root
             ELSE root' = u /\ UNCHANGED flag
     ELSE UNCHANGED <<dist, pred, active, flag, root>>
  /\ UNCHANGED <<call, pc, colour, region, queue, u, idx, count, idg, out>>

FIFORead(a) ==
  /\ Expanding("FIFO") /\ Read(a)
  /\ LET label == dist[u] + l(a) + call.epsilon IN
     IF dist[End(a)] > label /\ pred[u] # Twin(a) /\ Open(a)
     THEN /\ Improve(a, label)
          /\ active' = active \union {End(a)}
          /\ IF count < 2 * n
             THEN flag' = TRUE /\ UNCHANGED root
             ELSE root' = u /\ UNCHANGED flag
     ELSE UNCHANGED <<dist, pred, active, flag, root>>
  /\ UNCHANGED <<call, pc, colour, region, queue, u, idx, count, idg, out>>

FIFOLeave ==
  /\ Expanding("FIFO") /\ unread[u] = {}
  /\ unread' = [unread EXCEPT ![u] = Incidences(G, u)]
  /\ u' = NoNode /\ idx' = idx + 1
  /\ UNCHANGED <<call, pc, dist, pred, colour, region, queue, active, count, flag, idg, root, out>>

(* Mutant: the walk back to the cycle is left out.                           *)
BackNot(v) == v

(* n steps back along the predecessor arcs; NoNode if an arc is missing.     *)
Back(v) ==
  LET walk[k \in 0 .. n] ==
        IF k = 0 THEN v
        ELSE IF walk[k - 1] = NoNode \/ pred[walk[k - 1]] = NoArc THEN NoNode
        ELSE Start(pred[walk[k - 1]])
  IN walk[n]

(* ShortestPath turns a cycle into an exception; a missing predecessor is    *)
(* one of StartNode.                                                         *)
FIFOResult ==
  CASE root # NoNode /\ Back(root) = NoNode -> <<"ERRange", NoNode>>
    [] root # NoNode /\ Back(root) # NoNode ->
         IF call.hub THEN <<"ERCheck", NoNode>> ELSE <<"node", Back(root)>>
    [] OTHER -> IF call.hub THEN Bool(Reached) ELSE <<"node", NoNode>>

FIFOPass ==
  /\ Searching("FIFO") /\ u = NoNode /\ idx = n
  /\ count' = count + 1
  /\ IF flag /\ count + 1 <= 2 * n
     THEN idx' = 0 /\ flag' = FALSE /\ UNCHANGED <<pc, out>>
     ELSE Return(FIFOResult) /\ UNCHANGED <<idx, flag>>
  /\ UNCHANGED <<call, dist, pred, colour, region, queue, active, unread, u, idg, root>>

-------------------------------------------------------------------------------
(*                                DAGSearch                                  *)
(* Mutant: parallel arcs count once.                                         *)
InDegreeSimple(v) == Cardinality({Start(a) : a \in {b \in Arc : Open(b) /\ End(b) = v}})

InDegree(v) == Cardinality({a \in Arc : Open(a) /\ End(a) = v})
Roots == {v \in Node : InDegree(v) = 0}

(* The labels: none, the source, or all root nodes.                          *)
DAGLabels ==
  CASE call.opt = "DAG_TOPSORT" -> dist
    [] Critical -> [v \in Node |-> IF v \in Roots THEN 0 ELSE -InfFloat]
    [] OTHER -> [v \in Node |->
         IF v \in call.S \/ (call.S = {} /\ v \in Roots) THEN 0 ELSE InfFloat]

(* The root nodes as the loop over all nodes finds them.                     *)
InOrder(K) == [k \in 1 .. Cardinality(K) |->
  CHOOSE v \in K : Cardinality({w \in K : w <= v}) = k]

DAGStart ==
  /\ Called("DAGSearch") /\ Enter(DAGLabels)
  /\ idg' = [v \in Node |-> InDegree(v)]
  /\ queue' = InOrder(Roots)
  /\ count' = 0 /\ colour' = [v \in Node |-> NoNode]
  /\ UNCHANGED <<active, flag>>

DAGDelete ==
  /\ Between("DAGSearch") /\ queue # <<>>
  /\ u' = Head(queue) /\ queue' = Tail(queue) /\ count' = count + 1
  /\ colour' = IF Critical THEN colour ELSE [colour EXCEPT ![Head(queue)] = count]
  /\ UNCHANGED <<call, pc, dist, pred, region, active, unread, idx, flag, idg, root, out>>

(* Mutant: only the first label of a node is set.                            *)
DAGImprovesOnce(a) ==
  \/ call.opt = "DAG_SPTREE" /\ dist[u] < InfFloat /\ dist[End(a)] = InfFloat
  \/ Critical /\ dist[End(a)] = -InfFloat

DAGImproves(a) ==
  LET label == dist[u] + Length(G, a) IN
  \/ call.opt = "DAG_SPTREE" /\ dist[u] < InfFloat /\ dist[End(a)] > label
  \/ Critical /\ dist[End(a)] < label

DAGRead(a) ==
  /\ Expanding("DAGSearch") /\ Read(a)
  /\ IF Open(a)
     THEN /\ idg' = [idg EXCEPT ![End(a)] = @ - 1]
          /\ IF DAGImproves(a) THEN Improve(a, dist[u] + Length(G, a)) ELSE UNCHANGED <<dist, pred>>
          /\ queue' = IF idg[End(a)] = 1 THEN Append(queue, End(a)) ELSE queue
     ELSE UNCHANGED <<idg, dist, pred, queue>>
  /\ UNCHANGED <<call, pc, colour, region, active, u, idx, count, flag, root, out>>

(* The first node without a number, or the end of a critical path.           *)
FirstUncoloured == CHOOSE v \in Node :
  colour[v] = NoNode /\ \A w \in 0 .. v - 1 : colour[w] # NoNode
FirstLongest == CHOOSE v \in Node :
  /\ \A w \in Node : dist[w] <= dist[v]
  /\ \A w \in 0 .. v - 1 : dist[w] < dist[v]

DAGResult ==
  CASE count < n /\ Critical -> <<"node", NoNode>>
    [] count < n /\ ~Critical ->
         IF call.hub THEN <<"ERRejected", NoNode>> ELSE <<"node", FirstUncoloured>>
    [] count = n /\ Critical -> <<"node", FirstLongest>>
    [] OTHER -> IF call.hub THEN Bool(call.T = {} \/ Reached) ELSE <<"node", NoNode>>

DAGReturn ==
  /\ Between("DAGSearch") /\ queue = <<>>
  /\ Return(DAGResult)
  /\ UNCHANGED <<call, dist, pred, colour, region, queue, active, unread, u, idx, count, flag, idg, root>>

-------------------------------------------------------------------------------
Next ==
  \/ Refuse
  \/ BFSStart \/ BFSDelete \/ BFSReturn
  \/ DijkstraStart \/ DijkstraDelete \/ DijkstraReturn \/ VoronoiMerge
  \/ BellmanStart \/ BellmanArc \/ BellmanPass
  \/ FIFOStart \/ FIFONode \/ FIFOLeave \/ FIFOPass
  \/ DAGStart \/ DAGDelete \/ DAGReturn
  \/ \E a \in Arc : BFSRead(a) \/ DijkstraRead(a) \/ FIFORead(a) \/ DAGRead(a)

Spec == Init /\ [][Next]_vars
FairSpec == Spec /\ WF_vars(Next)

-------------------------------------------------------------------------------
(*                             Properties                                    *)

(* Labels, predecessors and counters stay in their ranges; the queue never   *)
(* holds more than n nodes, so the static queue of the code suffices.        *)
TypeOK ==
  /\ pc \in {"called", "search", "merge", "done"}
  /\ dist \in [Node -> Int] /\ pred \in [Node -> Arc \union {NoArc}]
  /\ colour \in [Node -> Node \union {NoNode}] /\ region \in [Node -> SUBSET Node]
  /\ queue \in Seq(Node) /\ Len(queue) <= n /\ active \subseteq Node
  /\ unread \in [Node -> SUBSET Arc] /\ u \in Node \union {NoNode}
  /\ idx \in Nat /\ count \in 0 .. 2 * n + 1 /\ flag \in BOOLEAN
  /\ idg \in [Node -> Nat] /\ root \in Node \union {NoNode}

Reachable(X) == LET W == WalkLengths(call, X, n) IN {v \in Node : W[v] # {}}
NegativeCycleFrom(X) ==
  \E v \in Reachable(X) : \E d \in WalkLengths(call, {v}, n)[v] : d < 0
Recurrent ==
  \E v \in Node, a \in Arc : Open(a) /\ Start(a) = v /\ v \in Reachable({End(a)})

Done == pc = "done"
Fails == out[1] \in {"ERRejected", "ERCheck", "ERRange"}
CycleNode == call.proc = "FIFO" /\ out[1] = "node" /\ out[2] # NoNode
Correct ==
  /\ ~Fails /\ ~CycleNode
  /\ call.proc = "DAGSearch" => call.opt = "DAG_SPTREE" /\ count = n
  /\ call.proc = "Dijkstra" /\ call.T # {} => \A a \in Arc : Open(a) => l(a) >= 0
Sources == IF call.proc = "DAGSearch" /\ call.S = {} THEN Roots ELSE call.S

(* When a call returns without an exception, its labels are the distances    *)
(* from the sources; a search that stops at its target may leave open only   *)
(* the nodes that are not nearer (solveSPTree.cpp, all procedures).  Only a  *)
(* Dijkstra search with a target may miss that a length is negative.         *)
LabelsExact ==
  Done /\ Correct =>
    LET D == Distances(call, Sources) IN
    \A v \in Node :
      \/ dist[v] = D[v]
      \/ dist[v] > D[v] /\ \E t \in call.T : dist[t] = D[t] /\ D[v] >= D[t] /\ D[t] # InfFloat

(* The predecessor arcs then form shortest paths: every label is explained   *)
(* by the one before it, and only sources are without a predecessor, so the  *)
(* return to a source cannot fail.  Zero length cycles are no exception.     *)
PathsLeadBack ==
  Done /\ Correct => \A v \in Node :
    /\ pred[v] # NoArc =>
         /\ Open(pred[v]) /\ End(pred[v]) = v
         /\ dist[v] = dist[Start(pred[v])] + StepLength(call, pred[v])
    /\ dist[v] # InfFloat => Back(v) = NoNode
    /\ dist[v] # InfFloat /\ pred[v] = NoArc => v \in Sources

(* Exceptions tell the truth: the label correcting methods fail if and only  *)
(* if a negative cycle can be reached, a Dijkstra search only if some arc is *)
(* negative, the DAG search if and only if there is a directed cycle; and    *)
(* the answer of ShortestPath is the reachability of the target.             *)
ExceptionsTrue ==
  Done /\ ~Refused =>
    /\ call.proc \in {"BellmanFord", "FIFO"} =>
         ((out[1] = "ERCheck" \/ CycleNode) <=> NegativeCycleFrom(Sources))
    /\ call.proc = "Dijkstra" /\ Fails => \E a \in Arc : Open(a) /\ l(a) < 0
    /\ call.proc = "DAGSearch" => (count < n <=> Recurrent)
    /\ out[1] # "ERRange"
    /\ out[1] = "true" => call.T \subseteq Reachable(call.S)
    /\ out[1] = "false" => call.T \intersect Reachable(call.S) = {}

(* NegativeCycle returns a node on a cycle of predecessor arcs, and the      *)
(* length of this cycle is negative (abstractMixedGraph.h:2402).             *)
CycleExported ==
  Done /\ CycleNode =>
    LET walk[k \in 0 .. n] ==
          IF k = 0 THEN <<out[2], 0>>
          ELSE <<Start(pred[walk[k - 1][1]]), walk[k - 1][2] + StepLength(call, pred[walk[k - 1][1]])>>
    IN \E k \in 1 .. n : walk[k][1] = out[2] /\ walk[k][2] < 0

(* What the caller is told is true, with an exception, with a node or with a *)
(* yes or no, in every order of the incidence lists.                         *)
AnswersTrue == ExceptionsTrue /\ CycleExported

(* Nodes are expanded in the order of their distance.  Dijkstra: a node that *)
(* has left the heap is no farther than one that has not, which is why its   *)
(* label is never changed again.  BFS: the queue holds at most two layers,   *)
(* the nearer one in front.                                                  *)
SettledFirst ==
  call.proc = "Dijkstra" /\ pc = "search" =>
    \A v \in Node \ active, w \in active : dist[v] # InfFloat => dist[v] <= dist[w]
LayersInOrder ==
  call.proc = "BFS" /\ u # NoNode =>
    \A i, j \in 1 .. Len(queue) : i <= j =>
      dist[u] <= dist[queue[i]] /\ dist[queue[i]] <= dist[queue[j]] /\ dist[queue[j]] <= dist[u] + 1
NearestFirst == SettledFirst /\ LayersInOrder

(* The DAG search numbers the nodes along the arcs, and the labels of a      *)
(* critical path search are the lengths of the longest paths.                *)
DAGResults ==
  Done /\ call.proc = "DAGSearch" /\ ~Fails /\ count = n =>
    IF Critical
    THEN /\ LET W == WalkLengths(call, Roots, n)
            IN \A v \in Node : dist[v] = Max(W[v])
         /\ \A v \in Node : dist[v] <= dist[out[2]]
    ELSE \A a \in Arc : Open(a) => colour[Start(a)] < colour[End(a)]

(* VoronoiRegions: every region has one terminal, and its nodes are nowhere  *)
(* nearer to another one; nodes without a path to a terminal stay alone.     *)
RegionsNearest ==
  Done /\ call.opt = "VORONOI" /\ ~Fails => \A v \in Node :
    /\ dist[v] = InfFloat => region[v] = {v}
    /\ dist[v] # InfFloat => \E x \in call.S :
         region[v] \intersect call.S = {x} /\ Distances(call, {x})[v] = Distances(call, call.S)[v]

(* What a procedure leaves behind is what it is called for: shortest path    *)
(* lengths and the arcs of the paths, longest path lengths, topological      *)
(* numbers, Voronoi regions.                                                 *)
ResultsExact == LabelsExact /\ PathsLeadBack /\ DAGResults /\ RegionsNearest

(* Every call returns: the passes of the label correcting methods are        *)
(* limited even if the labels never settle.                                  *)
CallReturns == <>Done
================================================================================
