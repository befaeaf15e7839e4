-------------------------------- MODULE MCGraphs --------------------------------
(****************************************************************************)
(* The maximum flow, spanning tree, connectivity and minimum cut solvers on  *)
(* small networks.  A behaviour is one call of one of them; the others stay  *)
(* where they started.                                                       *)
(****************************************************************************)
EXTENDS MaxFlow, HaoOrlin

CONSTANTS
  Kinds,           \* the solvers that are called: "flow", "tree", "connect", "cut"
  TreeCalls, Queries

VARIABLES
  kind,
  job, phase, dst, pred, open, rank, sum, sub, around, lists, modLength, scan, nCycles,
  query, conf, stage, colour, edgeColour, cpred, unread, r, u, S, marked, dfs, cnt, part, path, split, answer

Tree == INSTANCE SpanningTree
Connect == INSTANCE Connectivity WITH pred <- cpred

-------------------------------------------------------------------------------
(* Choices of m places of a list, in order.                                  *)
Selections(places) ==
  LET increasing == {f \in [Edge -> DOMAIN places] : \A e \in 1 .. m - 1 : f[e - 1] < f[e]}
  IN {[e \in Edge |-> places[f[e]]] : f \in increasing}
Const(c) == [e \in Edge |-> c]
Zigzag == [e \in Edge |-> << <<0, 1>>, <<0, 2>>, <<1, 2>>, <<1, 3>>, <<2, 3>> >>[e + 1]]
Parallel == [e \in Edge |-> << <<0, 1>>, <<0, 2>>, <<1, 2>>, <<1, 2>>, <<2, 3>> >>[e + 1]]

-------------------------------------------------------------------------------
(* Flow networks from node 0 to node 3: one arc 0-1, an arc into the target, *)
(* three others, with arcs that are antiparallel, parallel, or lead back.    *)
FlowPlaces == << <<0, 1>>, <<0, 2>>, <<1, 2>>, <<2, 1>>, <<1, 3>>, <<1, 3>>, <<2, 3>>, <<1, 0>>, <<3, 2>> >>
Skeletons == {ends \in Selections(FlowPlaces) : ends[0] = <<0, 1>> /\ \E e \in Edge : ends[e][2] = 3}
Capacities == {[e \in Edge |-> 1 + (e % 2)], [e \in Edge |-> 2 - (e % 2)], [e \in Edge |-> 1 + (e \div 3)]}

Net(ends, caps, flow) ==
  [ends |-> ends, ucap |-> caps, sub |-> flow, orientation |-> Const(1), delta |-> 0]
Empty(skeletons, caps) == {Net(ends, c, Const(0)) : ends \in skeletons, c \in caps}

(* Networks with a flow to start with.                                       *)
Started(skeletons, caps) ==
  {g \in {Net(ends, c, flow) : ends \in skeletons, c \in caps, flow \in [Edge -> {0, 1}]} :
    IsFlow(g) /\ g.sub # Const(0)}

FlowCall(p, method, gs) == {[proc |-> p, methMXF |-> method, G |-> g] : g \in gs}
MCFlowCalls ==
  LET Small == Empty(Skeletons, Capacities) \union Started(Skeletons, {Const(2)})
      Narrow == {c \in [Edge -> {1, 2, 4}] : c[1] = 1 /\ c[4] = 1}
      Infinite == Empty({Zigzag}, [Edge -> {1, InfCap}])
  IN UNION {FlowCall(p, 1, Small \union Infinite) : p \in {"SAP", "SAP_SCALE", "DINIC"}}
     \union UNION {FlowCall("PREFLOW", x, Small \union Empty({Zigzag}, [Edge -> {1, 2, 5}])
                                                \union Empty({Parallel}, Narrow)) : x \in {2, 3, 4}}
     \union FlowCall("PREFLOW", 2, Infinite)
IdleFlow == [proc |-> "SAP", methMXF |-> 1, G |-> Net(Zigzag, Const(1), Const(0))]

-------------------------------------------------------------------------------
(* Graphs with two patterns of lengths, with forbidden and mandatory edges.  *)
TreePlaces == << <<0, 1>>, <<0, 2>>, <<1, 2>>, <<2, 1>>, <<1, 3>>, <<2, 3>>, <<3, 1>>, <<3, 0>> >>
Lengths == {[e \in Edge |-> 1 + (e % 4)], [e \in Edge |-> 1 + ((3 * e) % 4)]}
Lower == {Const(0), [Const(0) EXCEPT ![m - 1] = 1], [Const(0) EXCEPT ![0] = 1, ![2] = 1]}
Upper == {Const(1), [Const(1) EXCEPT ![1] = 0]}
Graphs(o) ==
  {[ends |-> ends, length |-> len, ucap |-> up, lcap |-> low, orientation |-> Const(o)] :
    ends \in Selections(TreePlaces), len \in Lengths, up \in Upper, low \in Lower}

TreeCall(p, max, gs) ==
  {[proc |-> p, max |-> x, oneCycle |-> c, r |-> 0, G |-> g] : x \in max, c \in BOOLEAN, g \in gs}
MCTreeCalls ==
  LET whole == {g \in Graphs(0) : g.ucap = Const(1)} IN
  TreeCall("PRIM", BOOLEAN, {g \in Graphs(0) : g.lcap = Const(0)})
  \union TreeCall("PRIM2", BOOLEAN, whole)
  \union TreeCall("KRUSKAL", BOOLEAN, Graphs(0))
  \union TreeCall("EDMONDS", BOOLEAN, Graphs(1))
IdleTree ==
  [proc |-> "PRIM", max |-> FALSE, oneCycle |-> FALSE, r |-> 0,
   G |-> [ends |-> Zigzag, length |-> Const(1), ucap |-> Const(1), lcap |-> Const(0), orientation |-> Const(0)]]

(* The calls of the run about maximum arborescences.                         *)
MaximumCalls == {c \in TreeCall("EDMONDS", {TRUE}, Graphs(1)) : ~c.oneCycle /\ c.G.lcap = Const(0)}

-------------------------------------------------------------------------------
(* Graphs of up to five edges on four nodes, parallel edges included, and    *)
(* three larger ones: two triangles with a common node, or joined by an      *)
(* edge, and a cycle of five nodes with a chord.                             *)
EdgePlaces == << <<0, 1>>, <<2, 1>>, <<3, 2>>, <<0, 2>>, <<3, 1>>, <<3, 0>>, <<2, 3>> >>
Selected(p) ==
  [e \in 0 .. Cardinality(p) - 1 |-> EdgePlaces[CHOOSE i \in p : Cardinality({j \in p : j < i}) = e]]
SmallEnds == {Selected(p) : p \in {q \in SUBSET (DOMAIN EdgePlaces) : Cardinality(q) \in {1, 3, 4, 5}}}
Listed(q) == [e \in 0 .. Len(q) - 1 |-> q[e + 1]]
LargeGraphs ==
  {[n |-> 5, ends |-> Listed(<< <<0, 1>>, <<1, 2>>, <<2, 0>>, <<2, 3>>, <<3, 4>>, <<4, 2>> >>)],
   [n |-> 6, ends |-> Listed(<< <<0, 1>>, <<1, 2>>, <<2, 0>>, <<2, 3>>, <<3, 4>>, <<4, 5>>, <<5, 3>> >>)],
   [n |-> 5, ends |-> Listed(<< <<0, 1>>, <<1, 2>>, <<2, 3>>, <<3, 4>>, <<4, 0>>, <<1, 3>> >>)]}
Shapes == {[n |-> 4, ends |-> x] : x \in SmallEnds}

Graph(x, o, cap) ==
  [n |-> x.n, ends |-> x.ends, ext |-> NoArc, ucap |-> [e \in DOMAIN x.ends |-> cap[e % 3]],
   orientation |-> [e \in DOMAIN x.ends |-> o]]
Unit == [i \in 0 .. 2 |-> 1]
Mixed == [i \in 0 .. 2 |-> 1 + i]
Query(p, g, a, from, to, k) ==
  [proc |-> p, G |-> g, rootArc |-> a, source |-> from, target |-> to, k |-> k, methMCC |-> "MAXFLOW"]
Plain(p, shapes, o, cap, k) == {Query(p, Graph(x, o, cap), NoArc, NoNode, NoNode, k) : x \in shapes}
At0(shapes) == {x \in shapes : \E e \in DOMAIN x.ends : 0 \in {x.ends[e][1], x.ends[e][2]}}
MCQueries ==
  LET undirected == {Graph(x, 0, Unit) : x \in Shapes \union LargeGraphs}
      rooted == {Graph(x, 0, Unit) : x \in At0(Shapes)}
      outer == {[g EXCEPT !.ext = 1] : g \in {h \in rooted : h.ends[0] = <<2, 1>>}}
  IN Plain("Connected", Shapes \union LargeGraphs, 0, [Unit EXCEPT ![2] = 0], 0)
     \union Plain("StronglyConnected", Shapes \union LargeGraphs, 1, Unit, 0)
     \union Plain("StronglyConnected", LargeGraphs, 0, Unit, 0)
     \union Plain("Biconnected", Shapes \union LargeGraphs, 0, Unit, 0)
     \union Plain("Biconnected", {[n |-> k, ends |-> Listed(<< <<0, 1>> >>)] : k \in {2, 3}}, 0, Unit, 0)
     \union Plain("CutNodes", {[n |-> k, ends |-> <<>>] : k \in {1, 2}}, 0, Unit, 0)
     \union {Query("CutNodes", g, a, NoNode, NoNode, 0) : g \in undirected, a \in {NoArc, 1}}
     \union {Query("STNumbering", g, NoArc, 0, to, 0) : g \in rooted, to \in {NoNode, 2}}
     \union {Query("STNumbering", Graph(x, 0, Unit), 0, NoNode, NoNode, 0) : x \in {y \in LargeGraphs : y.n = 5}}
     \union {Query("STNumbering", g, NoArc, NoNode, NoNode, 0) : g \in outer}
     \union {[q EXCEPT !.methMCC = meth] : q \in Plain("EdgeConnected", Shapes, 1, Mixed, 3), meth \in {"MAXFLOW", "PREFLOW"}}
     \union Plain("StronglyEdgeConnected", Shapes, 1, Mixed, 2)
IdleQuery == Query("Connected", Graph([n |-> 1, ends |-> <<>>], 0, Unit), NoArc, NoNode, NoNode, 0)

-------------------------------------------------------------------------------
(* Digraphs for minimum cuts, with node 0, 1 or 2 as the root.               *)
CutPlaces == << <<0, 1>>, <<1, 2>>, <<1, 3>>, <<3, 2>>, <<2, 3>>, <<2, 1>>, <<0, 3>>, <<1, 0>> >>
CutCapacities == {[e \in Edge |-> 1 + (e % 2)], [e \in Edge |-> 1 + ((2 * e + 1) % 3)]}
CutCallsOf(ends, caps, roots) ==
  {[G |-> Net(x, c, Const(0)), r |-> root, fifo |-> f] : x \in ends, c \in caps, root \in roots, f \in BOOLEAN}
MCCutCalls ==
  CutCallsOf(Selections(CutPlaces), CutCapacities, {0, 2})
  \union CutCallsOf({Zigzag}, {[Const(1) EXCEPT ![e] = InfCap] : e \in Edge}, {0, 2})
  \union CutCallsOf({Parallel}, {[Const(1) EXCEPT ![e] = InfCap] : e \in Edge}, {0, 1})
IdleCut == [G |-> Net(Zigzag, Const(1), Const(0)), r |-> 0, fifo |-> TRUE]

-------------------------------------------------------------------------------
treeVars == <<job, phase, dst, pred, open, rank, sum, sub, around, lists, modLength, scan, nCycles>>
connectVars == <<query, conf, stage, colour, edgeColour, cpred, unread, r, u, S,
                 marked, dfs, cnt, part, path, split, answer>>
vars == <<kind, flowVars, treeVars, connectVars, CutVars>>

Init ==
  /\ kind \in Kinds
  /\ IF kind = "flow" THEN FlowInit ELSE Start(IdleFlow)
  /\ IF kind = "tree" THEN Tree!Init ELSE Tree!Start(IdleTree)
  /\ IF kind = "connect" THEN Connect!Init ELSE Connect!Begin(IdleQuery)
  /\ IF kind = "cut" THEN CutInit ELSE CutStart(IdleCut)

FlowStep == kind = "flow" /\ Work /\ UNCHANGED <<kind, treeVars, connectVars, CutVars>>
FlowStop == kind = "flow" /\ Stop /\ UNCHANGED <<kind, treeVars, connectVars, CutVars>>
TreeStep == kind = "tree" /\ Tree!Step /\ UNCHANGED <<kind, flowVars, connectVars, CutVars>>
ConnectStep == kind = "connect" /\ Connect!Step /\ UNCHANGED <<kind, flowVars, treeVars, CutVars>>
ConnectStop == kind = "connect" /\ (Connect!Stop \/ Connect!SplitBrokenOff) /\ UNCHANGED <<kind, flowVars, treeVars, CutVars>>
CutWork == kind = "cut" /\ CutStep /\ UNCHANGED <<kind, flowVars, treeVars, connectVars>>
Next == FlowStep \/ FlowStop \/ TreeStep \/ ConnectStep \/ ConnectStop \/ CutWork

Spec == Init /\ [][Next]_vars /\ WF_vars(FlowStep \/ TreeStep \/ ConnectStep \/ CutWork)

-------------------------------------------------------------------------------
(* MaxFlow: the flow respects the capacities at every step, and no label     *)
(* gets beyond 2n-1, which bounds the relabel operations.  MinTree: labels,  *)
(* arcs and the numbers of sets stay in range.  The depth first searches: no *)
(* node is put on the stack twice.  MCC_HaoOrlin: labels and layers stay in  *)
(* range.                                                                    *)
TypeOK ==
  CASE kind = "flow" -> FlowTypeOK
    [] kind = "tree" -> Tree!TreeTypeOK
    [] kind = "connect" -> Connect!ConnectTypeOK
    [] kind = "cut" -> CutTypeOK

(* MinTree: what has been chosen at any time is part of a best tree, and the *)
(* result is a best one or there is none, with mandatory and forbidden edges *)
(* and a cycle through the root.                                             *)
TreesOptimal == kind = "tree" => Tree!TreeBest /\ Tree!TreePromising

(* MinTree, as documented: the total length is minimal, or maximal.          *)
TreeFinished == Tree!Finished

(* The depth first searches and EdgeConnected, whatever the order of the     *)
(* incidence lists: Connected and StronglyConnected find the components,     *)
(* CutNodes the cut nodes and blocks, STNumbering a numbering and an open    *)
(* ear decomposition if there is one.  Biconnected finds the 2-edge          *)
(* connected components up to the exceptions that BridgesFound names.        *)
(* EdgeConnected never tears a component and has a valid lower bound on      *)
(* their number unless it is stopped within a maximum flow; its upper bound  *)
(* and its classes are right only with exact minimum cuts, which the default *)
(* method does not give (ClassesFound).                                      *)
ComponentsExact ==
  kind = "connect" =>
    /\ Connect!ComponentsFound /\ Connect!BlocksFound /\ Connect!BridgesFound
    /\ Connect!NumberingFound /\ Connect!ClassesFound

(* Every call of these solvers comes to an end.                              *)
SolversEnd == <>(step = "done" \/ phase = "done" \/ stage = "done" \/ H.stage = "done")
================================================================================
