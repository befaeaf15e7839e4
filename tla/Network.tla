-------------------------------- MODULE Network --------------------------------
(****************************************************************************)
(* The part of a graph object that the search procedures read                *)
(* (abstractMixedGraph).  Edge e appears as the two arcs 2*e and 2*e+1 with  *)
(* opposite directions.  A graph is a record with                            *)
(*   ends[e]       the two end nodes of edge e                               *)
(*   orientation[e]  0 for an undirected edge, 1 for a directed one          *)
(*   length[e], ucap[e], sub[e]   length, capacity and subgraph (flow) label *)
(*   constant      the length labels are stored as one constant              *)
(*   potential     the node potentials, or the empty function for NULL       *)
(*   delta         the residual capacity an arc must exceed                  *)
(****************************************************************************)
EXTENDS Integers, FiniteSets

CONSTANTS
  n, m,           \* numbers of nodes and of edges
  InfFloat,       \* larger than the length of every walk that is searched
  NoNode, NoArc

ASSUME SizeAssumption == n \in Nat \ {0} /\ m \in Nat
ASSUME UndefAssumption == NoNode \notin 0 .. n /\ NoArc \notin 0 .. 2 * m
ASSUME InfAssumption == InfFloat \in Nat /\ InfFloat > n

Node == 0 .. n - 1
Edge == 0 .. m - 1
Arc == 0 .. 2 * m - 1

IsGraph(G) ==
  /\ G.ends \in [Edge -> Node \X Node]
  /\ G.length \in [Edge -> Int]
  /\ \A v \in DOMAIN G.potential : G.potential[v] \in Int

EdgeOf(a) == a \div 2
Backward(a) == a % 2 = 1
Twin(a) == IF Backward(a) THEN a - 1 ELSE a + 1

StartNode(G, a) == G.ends[EdgeOf(a)][IF Backward(a) THEN 2 ELSE 1]
EndNode(G, a) == StartNode(G, Twin(a))
Incidences(G, v) == {a \in Arc : StartNode(G, a) = v}
Length(G, a) == G.length[EdgeOf(a)]
UCap(G, a) == G.ucap[EdgeOf(a)]
Sub(G, a) == G.sub[EdgeOf(a)]
Orientation(G, a) == G.orientation[EdgeOf(a)]

IsDirected(G) == \A e \in Edge : G.orientation[e] # 0
CLength(G) == G.constant
NegativeLengths(G) == \A e \in Edge : G.length[e] < 0

Blocking(G, a) == Orientation(G, a) # 0 /\ Backward(a)

(* Lower capacities are zero, upper capacities finite.                       *)
ResCap(G, a) == IF Backward(a) THEN Sub(G, a) ELSE UCap(G, a) - Sub(G, a)

Potential(G, v) == IF v \in DOMAIN G.potential THEN G.potential[v] ELSE 0

RedLength(G, a) ==
  IF Orientation(G, a) = 0
  THEN Length(G, a) + Potential(G, StartNode(G, a)) + Potential(G, EndNode(G, a))
  ELSE (IF Backward(a) THEN -Length(G, a) ELSE Length(G, a))
       + Potential(G, StartNode(G, a)) - Potential(G, EndNode(G, a))

Characteristics == {"PLAIN", "SUBGRAPH", "RESIDUAL", "REDUCED", "RED_RES"}
Residual(chr) == chr \in {"RESIDUAL", "RED_RES"}

(* The second test of the code, Blocking(a|1), asks whether a is directed.   *)
Eligible(G, chr, a) ==
  CASE chr = "SUBGRAPH" -> Sub(G, a) > 0 /\ ~Blocking(G, a)
    [] Residual(chr) /\ Orientation(G, a) # 0 -> ResCap(G, a) > G.delta
    [] OTHER -> UCap(G, a) > 0 /\ ~Blocking(G, a)

(* The length labels that a search uses.                                     *)
SearchLength(G, chr, a) == IF chr = "PLAIN" THEN Length(G, a) ELSE RedLength(G, a)
================================================================================
