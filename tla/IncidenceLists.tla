---------------------------- MODULE IncidenceLists -----------------------------
(****************************************************************************)
(* What the sparse representation of a graph promises about incidences.      *)
(* Every node has a list of the arcs that start there; the lists are         *)
(* circular, and begin somewhere.  An edge e is the pair of arcs 2e and      *)
(* 2e+1, each at one end; the arcs of a cancelled edge are on no list until  *)
(* the edge is deleted and the last edge takes its number.                   *)
(****************************************************************************)
EXTENDS Naturals, Sequences, FiniteSets

CONSTANTS MaxNode, MaxEdge     \* the numbers of nodes and of edges, at most

VARIABLES
  inc,      \* the list of every node, from its first arc on
  m         \* the number of edges, the cancelled ones included

Node == DOMAIN inc
nAct == Cardinality(Node)
Arc == 0 .. 2 * m - 1
Rev(a) == IF a % 2 = 0 THEN a + 1 ELSE a - 1
On(s) == {s[i] : i \in DOMAIN s}
Regular == UNION {On(inc[v]) : v \in Node}
StartNode(a) == CHOOSE v \in Node : a \in On(inc[v])

Rotations(s) == {s} \union {SubSeq(s, k + 1, Len(s)) \o SubSeq(s, 1, k) : k \in 1 .. Len(s) - 1}
Without(s, S) == SelectSeq(s, LAMBDA a : a \notin S)
Pos(s, a) == CHOOSE i \in DOMAIN s : s[i] = a
From(s, a) == CHOOSE r \in Rotations(s) : r[1] = a

(* A new arc comes right after the first one, and is the first one then.     *)
Inserted(I, v, a) ==
  [I EXCEPT ![v] = IF @ = <<>> THEN <<a>> ELSE <<a>> \o Tail(@) \o <<Head(@)>>]
Routed(I, a, u, v) == Inserted(Inserted(I, u, a), v, Rev(a))

Init == inc \in {[v \in 0 .. k - 1 |-> <<>>] : k \in 1 .. MaxNode} /\ m = 0

InsertNode ==
  /\ UNCHANGED m
  /\ inc' = [v \in 0 .. nAct |-> IF v = nAct THEN <<>> ELSE inc[v]]

InsertArc(u, v) == m' = m + 1 /\ inc' = Routed(inc, 2 * m, u, v)

(* An arc that leaves a list may change where the list begins.               *)
Cancelled(dead) ==
  \A v \in Node : inc'[v] \in IF On(inc[v]) \intersect dead = {} THEN {inc[v]}
                              ELSE Rotations(Without(inc[v], dead))
Around(v) == On(inc[v]) \union {Rev(a) : a \in On(inc[v])}

CancelArc(a) == UNCHANGED m /\ DOMAIN inc' = Node /\ a \in Regular /\ Cancelled({a, Rev(a)})
CancelNode(v) == UNCHANGED m /\ DOMAIN inc' = Node /\ Cancelled(Around(v))

(* The arc is moved to the lists of other nodes.                             *)
RouteArc(a, u, v) ==
  /\ UNCHANGED m /\ DOMAIN inc' = Node
  /\ inc'[v] # <<>> /\ Head(inc'[v]) = Rev(a)
  /\ \E rest \in {[x \in Node |-> Without(inc[x], {a, Rev(a)})]} :
       \E ru \in Rotations(rest[u]), rv \in Rotations(rest[v]) :
         \E J \in {Routed([rest EXCEPT ![v] = rv, ![u] = ru], a, u, v)} :
           \A x \in Node : IF x \in {u, v} THEN inc'[x] = J[x] ELSE inc'[x] \in Rotations(J[x])

(* Edges are renumbered by f: the arcs keep their directions.                *)
Numbered(s, f) == [i \in DOMAIN s |-> 2 * f[s[i] \div 2] + (s[i] % 2)]
(* The numbers below the new bound that are in use are kept.                 *)
Fillings(S) ==
  LET k == Cardinality(S) IN
  {f \in [S -> 0 .. k - 1] : /\ \A e \in S : e < k => f[e] = e
                             /\ \A d, e \in S : f[d] = f[e] => d = e}
EdgesOf(arcs) == {a \div 2 : a \in arcs}

(* Another edge, the last one, takes the number of the deleted edge.         *)
DeleteArc(a) ==
  /\ m' = m - 1 /\ DOMAIN inc' = Node
  /\ \E dead \in {{a, Rev(a)}} : \E f \in Fillings((0 .. m - 1) \ {a \div 2}) :
       \A v \in Node :
         inc'[v] \in {Numbered(r, f) : r \in Rotations(Without(inc[v], dead))}

(* The nodes of S disappear, with the arcs that end there and the edges that *)
(* have been cancelled before.                                               *)
Disappear(S) ==
  \E dead \in {UNION {Around(v) : v \in S}} :
    \E edges \in {EdgesOf(Regular \ dead)} :
      /\ m' = Cardinality(edges)
      /\ \E h \in Fillings(Node \ S), f \in Fillings(edges) :
           /\ DOMAIN inc' = 0 .. Cardinality(Node \ S) - 1
           /\ \A v \in Node \ S :
                inc'[h[v]] \in {Numbered(r, f) : r \in Rotations(Without(inc[v], dead))}

DeleteNode(v) == Disappear({v})
DeleteArcs == Disappear({})
DeleteNodes ==
  LET isolated == {v \in Node : inc[v] = <<>>} IN
  IF isolated = {} THEN UNCHANGED <<inc, m>> ELSE Disappear(isolated)

(* The edge is replaced by the other arcs of its end node.                   *)
ContractArc(a) ==
  /\ UNCHANGED m /\ DOMAIN inc' = Node
  /\ a \in Regular
  /\ \E u \in {StartNode(a)}, v \in {StartNode(Rev(a))} :
       /\ u # v
       /\ inc'[u] \in Rotations(Tail(From(inc[v], Rev(a))) \o Tail(From(inc[u], a)))
       /\ inc' = [inc EXCEPT ![u] = inc'[u], ![v] = <<>>]

IdentifyNodes(u, v) ==
  /\ UNCHANGED m
  /\ u # v /\ inc[u] # <<>> /\ inc[v] # <<>>
  /\ inc' = [inc EXCEPT ![u] = <<Head(@)>> \o inc[v] \o Tail(@), ![v] = <<>>]

SwapNodes(u, v) == UNCHANGED m /\ inc' = [inc EXCEPT ![u] = inc[v], ![v] = inc[u]]

(* Two arcs change names, and so do the opposite arcs.  Arcs that follow     *)
(* each other in a list keep their places.                                   *)
SwapArcs(a, b) ==
  /\ UNCHANGED m /\ DOMAIN inc' = Node
  /\ \E other \in {[x \in Arc |-> CASE x = a -> b [] x = b -> a [] x = Rev(a) -> Rev(b)
                                     [] x = Rev(b) -> Rev(a) [] OTHER -> x]} :
       \A v \in Node :
         LET next == {{inc[v][i], inc[v][(i % Len(inc[v])) + 1]} : i \in DOMAIN inc[v]}
             fixed == UNION {p \in {{a, b}, {Rev(a), Rev(b)}} : p \in next}
         IN inc'[v] \in Rotations([i \in DOMAIN inc[v] |->
                                     IF inc[v][i] \in fixed THEN inc[v][i] ELSE other[inc[v][i]]])

(* The arcs from b to c move right behind a, in the list a .. b .. c ..      *)
SetRight(v, a, b, c) ==
  /\ UNCHANGED m /\ DOMAIN inc' = Node
  /\ a \notin {b, c} /\ \A x \in Node \ {v} : inc'[x] = inc[x]
  /\ \E s \in {From(inc[v], a)} :
       /\ Pos(s, b) <= Pos(s, c)
       /\ inc' = [inc EXCEPT ![v] = CHOOSE r \in Rotations(
                    <<a>> \o SubSeq(s, Pos(s, b), Pos(s, c)) \o SubSeq(s, 2, Pos(s, b) - 1)
                      \o SubSeq(s, Pos(s, c) + 1, Len(s))) : r[1] = Head(@)]

(* Lists may begin elsewhere.                                                *)
Turned ==
  /\ UNCHANGED m /\ DOMAIN inc' = Node
  /\ \A v \in Node : inc'[v] \in Rotations(inc[v])

Next ==
  \/ Turned \/ InsertNode
  \/ \E a \in Arc, u, v \in Node : RouteArc(a, u, v)
  \/ \E u, v \in Node : InsertArc(u, v) \/ IdentifyNodes(u, v) \/ SwapNodes(u, v)
  \/ \E a \in Arc : CancelArc(a) \/ DeleteArc(a) \/ ContractArc(a)
  \/ \E v \in Node : CancelNode(v) \/ DeleteNode(v)
  \/ \E e \in 0 .. m - 1, b \in Arc : SwapArcs(2 * e, b)
  \/ \E v \in Node : \E a, b, c \in On(inc[v]) : SetRight(v, a, b, c)
  \/ DeleteArcs \/ DeleteNodes

Step == UNCHANGED <<inc, m>> \/ Next
Spec == Init /\ [][Next]_<<inc, m>>
================================================================================
