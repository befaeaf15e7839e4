---------------------------- MODULE MCShortestPath -----------------------------
(****************************************************************************)
(* The calls for TLC: graphs with four nodes whose four edges are chosen     *)
(* from eight places, two of them parallel, with two possible lengths each.   *)
(* Node 0 is the source.  The places allow paths and cycles through all      *)
(* nodes, detours that are shorter than direct arcs, and dead ends.          *)
(****************************************************************************)
EXTENDS ShortestPath

Places == << <<0, 1>>, <<0, 1>>, <<0, 2>>, <<1, 2>>, <<1, 3>>, <<2, 3>>, <<3, 1>>, <<3, 0>> >>
Chosen == {f \in [Edge -> 1 .. 8] : \A e \in 1 .. m - 1 : f[e - 1] < f[e]}
Skeletons == {[e \in Edge |-> Places[f[e]]] : f \in Chosen}
(* Edges numbered against the direction of most paths.                       *)
Reversed == {[e \in Edge |-> Places[f[m - 1 - e]]] : f \in Chosen}

Graph(ends, lengths, subs, orientation) ==
  [ends |-> ends, length |-> lengths, sub |-> subs, ucap |-> [e \in Edge |-> 1],
   orientation |-> orientation, potential |-> <<>>, constant |-> FALSE, delta |-> 0]

Directed == [e \in Edge |-> 1]
Undirected == [e \in Edge |-> 0]
Mixed == [e \in Edge |-> e % 2]
NoFlow == [e \in Edge |-> 0]
Plain(skeletons, lengths, orientation) ==
  {Graph(ends, len, NoFlow, orientation) : ends \in skeletons, len \in [Edge -> lengths]}
Flows(lengths) ==
  {Graph(ends, len, subs, Directed) : ends \in Skeletons, len \in lengths, subs \in [Edge -> {0, 1}]}
Units == {[e \in Edge |-> 1]}
Alternating == {[e \in Edge |-> 1 + (e % 2)]}

Call(proc, hub, chr, opt, S, T, epsilon, g) ==
  [proc |-> proc, hub |-> hub, chr |-> chr, opt |-> opt, S |-> S, T |-> T,
   epsilon |-> epsilon, G |-> g]
Targets == {{}, {1}, {3}}

Refusals ==
  {Call(proc, TRUE, chr, IF proc = "DAGSearch" THEN "DAG_SPTREE" ELSE "NONE", {0}, {}, 0, g) :
     proc \in {"BFS", "DAGSearch", "Dijkstra"}, chr \in {"PLAIN", "RED_RES"},
     g \in {Graph(ends, len, NoFlow, Mixed) : ends \in Skeletons, len \in Units}}

BFSCalls ==
  {Call("BFS", TRUE, "PLAIN", "NONE", {0}, T, 0, [g EXCEPT !.constant = TRUE]) :
     T \in Targets \union {{0}},
     g \in {Graph(ends, len, NoFlow, o) :
              ends \in Skeletons, len \in Units, o \in {Directed, Undirected, Mixed}}}
  \union
  {Call("BFS", FALSE, chr, "NONE", {0}, {3}, 0, g) :
     chr \in {"SUBGRAPH", "RESIDUAL"}, g \in Flows(Units)}

DijkstraCalls ==
  {Call("Dijkstra", TRUE, "PLAIN", "NONE", {0}, T, 0, g) :
     T \in {{}, {3}}, g \in Plain(Skeletons, {1, 3}, Directed)}
  \union
  {Call("Dijkstra", FALSE, "PLAIN", "NONE", {0}, {1, 3}, 0, g) : g \in Plain(Skeletons, {0, 2}, Directed)}
  \union
  {Call("Dijkstra", TRUE, "PLAIN", "NONE", {0}, {}, 0, g) : g \in Plain(Skeletons, {-1, 2}, Directed)}
  \union
  {Call("Dijkstra", FALSE, "RED_RES", "NONE", {0}, {3}, 0, [g EXCEPT !.potential = [v \in Node |-> v % 2]]) :
     g \in Flows(Alternating)}
  \union
  {Call("Dijkstra", FALSE, "PLAIN", "VORONOI", S, {}, 0, g) :
     S \in {{0, 3}, {1, 2}}, g \in Plain(Skeletons, {1, 3}, Undirected)}

CorrectingCalls ==
  {Call("BellmanFord", TRUE, "PLAIN", "NONE", {0}, {3}, 0, g) : g \in Plain(Skeletons \union Reversed, {-1, 2}, Directed)}
  \union
  {Call("FIFO", TRUE, "PLAIN", "NONE", {0}, T, 0, g) :
     T \in {{}, {3}}, g \in Plain(Skeletons, {-1, 2}, Directed)}
  \union
  {Call("FIFO", FALSE, "PLAIN", "NONE", Node, {}, 1, g) :
     g \in Plain(Skeletons, {-2, 1}, Directed)}
  \union
  {Call("FIFO", FALSE, "RESIDUAL", "NONE", Node, {}, 0, g) : g \in Flows(Alternating)}

DAGCalls ==
  {Call("DAGSearch", TRUE, "PLAIN", "DAG_SPTREE", {0}, T, 0, g) :
     T \in {{}, {3}}, g \in Plain(Skeletons, {-1, 2}, Directed)}
  \union
  {Call("DAGSearch", FALSE, "PLAIN", opt, {}, {}, 0, g) :
     opt \in {"DAG_SPTREE", "DAG_CRITICAL"}, g \in Plain(Skeletons, {-1, 2}, Directed)}
  \union
  {Call("DAGSearch", FALSE, "PLAIN", "DAG_TOPSORT", {}, {}, 0, Graph(ends, len, NoFlow, Directed)) :
     ends \in Skeletons, len \in Units}

MCCalls == Refusals \union BFSCalls \union DijkstraCalls \union CorrectingCalls \union DAGCalls
================================================================================
