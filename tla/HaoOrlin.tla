------------------------------- MODULE HaoOrlin --------------------------------
(****************************************************************************)
(* abstractDiGraph::MCC_HaoOrlin (solveMinCut.cpp), the default method of    *)
(* EdgeConnectivity: a push-relabel method that finds a minimum cut with the *)
(* node r on the left hand side.  Every other node becomes the sink once;    *)
(* nodes that cannot reach the sink are put to sleep, in layers.             *)
(*                                                                           *)
(* One behaviour is one call; a step reads one arc, pushes along one arc, or *)
(* relabels one node.  The lists of admissible arcs are sets, as their order *)
(* follows the order of incidence lists.                                     *)
(****************************************************************************)
EXTENDS FlowNetwork

CONSTANT CutCalls    \* the calls: G the digraph, r the root, fifo the kind of queue

ASSUME CutAssumption == n > 1 /\ InfCap \in Nat

(* The callers make a digraph for the call, in which there is no flow yet.   *)
ASSUME CutCallsAssumption ==
  \A c \in CutCalls :
    /\ c.r \in Node /\ c.fifo \in BOOLEAN
    /\ IsNetwork(c.G) /\ \A v \in Node : Divergence(c.G, v) = 0

(* stage    "root", "sweep", "drain" or "done"                               *)
(* g        the digraph with its flow                                        *)
(* dist, dorm, dormMax   distance labels; the layer that a node sleeps in,   *)
(*          or NoNode, and the topmost layer                                 *)
(* t, itc   the sink, and its number                                         *)
(* Q, u     the queue of active nodes, and the one that is discharged        *)
(* Admissible, S2   arcs for pushes, and arcs that a relabel step collected  *)
(* unread   arcs of the node that flow is pushed away from, not read yet     *)
(* minCap, chi   the best cut so far                                         *)
(* unbounded, fault   whether an infinite arc has been met, and whether a    *)
(*          node was inserted that is in the queue already                   *)
VARIABLES cutCall, H

CutVars == <<cutCall, H>>

Root == cutCall.r
Around(v) == {a \in Arc : StartNode(H.g, a) = v}
Surplus(h, v) == Divergence(h.g, v)
Awake(h, v) == h.dorm[v] = NoNode

CutStart(c) ==
  LET first == IF c.r = 0 THEN 1 ELSE 0 IN
  /\ cutCall = c
  /\ H = [stage |-> "root", g |-> c.G, itc |-> 1, t |-> first,
          dist |-> [v \in Node |-> IF v = first THEN 0 ELSE 1],
          dorm |-> [v \in Node |-> IF v = c.r THEN 0 ELSE NoNode], dormMax |-> 0,
          Q |-> <<>>, u |-> NoNode, Admissible |-> {}, S2 |-> {},
          unread |-> {a \in Arc : StartNode(c.G, a) = c.r},
          minCap |-> InfCap, chi |-> {}, unbounded |-> FALSE, fault |-> FALSE]
CutInit == \E c \in CutCalls : CutStart(c)

Insert(h, v) ==
  IF v \in ToSet(h.Q) THEN [h EXCEPT !.fault = TRUE] ELSE [h EXCEPT !.Q = Append(@, v)]
InsertIf(cond, h, v) == IF cond THEN Insert(h, v) ELSE h

(* All flow is pushed away from the root.                                    *)
DrainRoot(a) ==
  LET v == EndNode(H.g, a)
      h == InsertIf(Surplus(H, v) = 0 /\ v \notin {Root, H.t} /\ ResCap(H.g, a) > 0, H, v)
  IN /\ H.stage = "root" /\ a \in H.unread
     /\ H' = IF UCap(H.g, a) # InfCap
             THEN [h EXCEPT !.g = Pushed(@, a, ResCap(@, a)), !.unread = @ \ {a}]
             ELSE [h EXCEPT !.unbounded = TRUE, !.unread = @ \ {a}]

(* The arcs into the first sink are admissible.                              *)
Prepare ==
  /\ H.stage = "root" /\ H.unread = {}
  /\ H' = [H EXCEPT !.stage = IF H.unbounded THEN "done" ELSE "sweep",
                    !.Admissible = {a \in Arc : /\ EndNode(H.g, a) = H.t /\ StartNode(H.g, a) # Root
                                                /\ ResCap(H.g, a) > 0}]

-------------------------------------------------------------------------------
(* The next active node: the first in the queue, or one with the greatest    *)
(* label.  The sink and sleeping nodes are only taken from the queue.        *)
Delete(k) ==
  LET v == H.Q[k] IN
  /\ H.stage = "sweep" /\ H.u = NoNode
  /\ IF cutCall.fifo THEN k = 1 ELSE \A j \in DOMAIN H.Q : H.dist[H.Q[j]] <= H.dist[v]
  /\ H' = [H EXCEPT !.Q = RemoveAt(@, k),
                    !.u = IF Awake(H, v) /\ v # H.t THEN v ELSE NoNode]

(* An arc that is not admissible any more is dropped.                        *)
PushArc(a) ==
  LET v == EndNode(H.g, a)
      Lambda == Least({ResCap(H.g, a), Surplus(H, H.u)})
      h == InsertIf(Surplus(H, v) = 0 /\ v # H.t, H, v)
      g == Pushed(H.g, a, Lambda)
  IN /\ H.stage = "sweep" /\ H.u # NoNode
     /\ a \in H.Admissible /\ StartNode(H.g, a) = H.u /\ Surplus(H, H.u) > 0
     /\ H' = IF H.dist[H.u] = H.dist[v] + 1 /\ Awake(H, v)
             THEN [h EXCEPT !.g = g, !.Admissible = IF ResCap(g, a) > 0 THEN @ ELSE @ \ {a}]
             ELSE [H EXCEPT !.Admissible = @ \ {a}]

Settled(v) == Surplus(H, v) = 0
PushedOut == H.Admissible \intersect Around(H.u) = {}
IsUnique == \A v \in Node \ {H.u} : H.dist[v] # H.dist[H.u] \/ ~Awake(H, v)

Inactive ==
  /\ H.stage = "sweep" /\ H.u # NoNode
  /\ Settled(H.u)
  /\ H' = [H EXCEPT !.u = NoNode]

(* No other node has the label of u: it sleeps, with all nodes above.        *)
SleepAbove ==
  /\ H.stage = "sweep" /\ H.u # NoNode
  /\ ~Settled(H.u) /\ PushedOut /\ IsUnique
  /\ H' = [H EXCEPT !.dormMax = @ + 1, !.u = NoNode,
                    !.dorm = [v \in Node |-> IF H.dist[v] >= H.dist[H.u] /\ Awake(H, v)
                                             THEN H.dormMax + 1 ELSE @[v]]]

(* The arcs that a relabel step looks at: not those to the sink.             *)
RelabelArcs == {a \in Around(H.u) : Awake(H, EndNode(H.g, a)) /\ EndNode(H.g, a) # H.t}
Outgoing == {a \in RelabelArcs : ResCap(H.g, a) > 0}
Incoming == {Twin(a) : a \in {b \in RelabelArcs : ResCap(H.g, Twin(b)) > 0}}

(* Arcs to the nodes of least label, and from the nodes two above, become    *)
(* admissible; S2 may hold arcs of an earlier step.                          *)
RelabelAwake ==
  LET dMin == Least({H.dist[EndNode(H.g, a)] : a \in Outgoing})
      out == {a \in Outgoing : H.dist[EndNode(H.g, a)] = dMin}
      in == {a \in H.S2 \union Incoming : H.dist[StartNode(H.g, a)] = dMin + 2}
  IN /\ H.stage = "sweep" /\ H.u # NoNode
     /\ ~Settled(H.u) /\ PushedOut /\ ~IsUnique /\ Outgoing # {}
     /\ H' = Insert([H EXCEPT !.Admissible = @ \union out \union in, !.S2 = {},
                              !.dist[H.u] = dMin + 1, !.u = NoNode], H.u)

(* The node has no arc to relabel by, and sleeps alone.                      *)
SleepAlone ==
  /\ H.stage = "sweep" /\ H.u # NoNode
  /\ ~Settled(H.u) /\ PushedOut /\ ~IsUnique /\ Outgoing = {}
  /\ H' = [H EXCEPT !.dormMax = @ + 1, !.dorm[H.u] = H.dormMax + 1, !.S2 = @ \union Incoming, !.u = NoNode]

-------------------------------------------------------------------------------
CapOf(g, L) == SumOver(g.ucap, {e \in Edge : g.ends[e][1] \in L /\ g.ends[e][2] \notin L})

(* Mutant: the edges are counted that lead to the left hand side.            *)
ThisCapBack(g, L) == CapOf(g, Node \ L)
ThisCap(g, L) == CapOf(g, L)

(* The sleeping nodes are the left hand side of a cut.                       *)
Compare ==
  LET left == {v \in Node : ~Awake(H, v)}
      better == ThisCap(H.g, left) < H.minCap
  IN /\ H.stage = "sweep" /\ H.u = NoNode /\ H.Q = <<>>
     /\ H' = [H EXCEPT !.stage = "drain", !.dorm[H.t] = 0, !.unread = Around(H.t),
                       !.minCap = IF better THEN ThisCap(H.g, left) ELSE @,
                       !.chi = IF better THEN left ELSE @]

(* All flow is pushed away from the sink, which joins the root.              *)
DrainSink(a) ==
  LET v == EndNode(H.g, a)
      h == InsertIf(Surplus(H, v) = 0 /\ Awake(H, v), H, v)
  IN /\ H.stage = "drain" /\ a \in H.unread
     /\ H' = CASE UCap(H.g, a) = InfCap -> [H EXCEPT !.unbounded = TRUE, !.unread = @ \ {a}]
               [] UCap(H.g, a) # InfCap /\ ResCap(H.g, a) > 0 /\ H.dorm[v] # 0 ->
                    [h EXCEPT !.g = Pushed(@, a, ResCap(@, a)), !.unread = @ \ {a}]
               [] OTHER -> [H EXCEPT !.unread = @ \ {a}]

Nearest(V) == Least({v \in V : \A w \in V : H.dist[v] <= H.dist[w]})
Finished == H.itc = n - 1 \/ H.unbounded

(* The next sink is an awake node; if there is none, the topmost layer       *)
(* awakes.  Node 0 is the root, or was the first sink.                       *)
SelectSink ==
  LET awake == {v \in Node \ {0} : Awake(H, v)}
      layer == {v \in Node \ {0} : H.dorm[v] = H.dormMax}
      excess == InOrder(NodeOrder, {v \in layer : Surplus(H, v) > 0})
  IN /\ H.stage = "drain" /\ H.unread = {}
     /\ H' = IF Finished THEN [H EXCEPT !.stage = "done"]
             ELSE IF awake # {} THEN [H EXCEPT !.stage = "sweep", !.itc = @ + 1, !.t = Nearest(awake)]
             ELSE [H EXCEPT !.stage = "sweep", !.itc = @ + 1, !.t = Nearest(layer),
                            !.dorm = [v \in Node |-> IF v \in layer THEN NoNode ELSE @[v]],
                            !.dormMax = @ - 1, !.Q = @ \o excess,
                            !.Admissible = @ \union
                              {a \in Arc : /\ {StartNode(H.g, a), EndNode(H.g, a)} \subseteq layer
                                           /\ ResCap(H.g, a) > 0
                                           /\ H.dist[StartNode(H.g, a)] = H.dist[EndNode(H.g, a)] + 1}]

-------------------------------------------------------------------------------
CutStep ==
  /\ UNCHANGED cutCall
  /\ \/ Prepare \/ Inactive \/ SleepAbove \/ RelabelAwake \/ SleepAlone \/ Compare \/ SelectSink
     \/ \E k \in DOMAIN H.Q : Delete(k)
     \/ \E a \in Arc : DrainRoot(a) \/ PushArc(a) \/ DrainSink(a)

CutSpec == CutInit /\ [][CutStep]_CutVars /\ WF_CutVars(CutStep)

-------------------------------------------------------------------------------
CutTypeOK ==
  /\ H.stage \in {"root", "sweep", "drain", "done"}
  /\ H.t \in Node /\ H.u \in Node \union {NoNode} /\ H.itc \in 1 .. n - 1
  /\ H.dist \in [Node -> 0 .. n - 1] /\ H.dormMax \in 0 .. n
  /\ H.dorm \in [Node -> 0 .. n \union {NoNode}]
  /\ \A e \in Edge : H.g.sub[e] \in 0 .. H.g.ucap[e]

(* MCC_HaoOrlin: unless an infinite arc has been met, no node enters the     *)
(* queue twice; awake nodes other than the sink have lost their excess when  *)
(* a cut is taken; the value is that of the cut that is exported, which has  *)
(* the root on the left hand side; and at the end every other node has been  *)
(* the sink.                                                                 *)
CutGenuine ==
  /\ H.fault => H.unbounded
  /\ \A v \in Node : H.dorm[v] # 0 => Surplus(H, v) >= 0
  /\ (H.stage = "sweep" /\ H.u = NoNode /\ H.Q = <<>>) =>
       \A v \in Node \ {H.t} : Awake(H, v) => Surplus(H, v) = 0
  /\ H.minCap # InfCap => Root \in H.chi /\ H.chi # Node /\ H.minCap = CapOf(H.g, H.chi)
  /\ (H.stage = "done" /\ ~H.unbounded) => \A v \in Node : H.dorm[v] = 0

(* MCC_HaoOrlin, as documented: the cut is a minimum cut.                    *)
CutMinimum ==
  (H.stage = "done" /\ ~H.unbounded) =>
    \A L \in SUBSET Node : (Root \in L /\ L # Node) => H.minCap <= CapOf(H.g, L)
================================================================================
