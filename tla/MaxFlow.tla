-------------------------------- MODULE MaxFlow --------------------------------
(****************************************************************************)
(* The maximum flow solver (lib_src/solveMaxFlow.cpp) on a digraph G: one    *)
(* call of abstractMixedGraph::MaxFlow with the methods                      *)
(*   SAP       MXF_EdmondsKarp, shortest augmenting paths                    *)
(*   SAP_SCALE MXF_CapacityScaling, the same with thresholds G.delta         *)
(*   DINIC     MXF_Dinic, blocking flows in a layered auxiliary network      *)
(*             (lib_src/auxiliaryNetwork.cpp)                                *)
(*   PREFLOW   MXF_PushRelabel, in the variant that CT.methMXF selects       *)
(* Lower capacities and demands are zero.  The breadth first searches, which *)
(* ShortestPath models step by step, are single steps that find any shortest *)
(* path.  The incidence lists are read in any order.                         *)
(****************************************************************************)
EXTENDS FlowNetwork

CONSTANT FlowCalls      \* the calls: records of proc, methMXF and G

ASSUME FlowAssumption == n > 1 /\ InfCap \in Nat

s == 0           \* the source
t == n - 1       \* the target
Inner == Node \ {s, t}

(* A flow from s to t, none of which enters s.                               *)
IsFlow(g) ==
  /\ \A v \in Inner : Divergence(g, v) = 0
  /\ \A e \in Edge : g.ends[e][2] = s => g.sub[e] = 0

(* MaxFlow is called with the zero flow or with the one that is there.  The  *)
(* augmenting path methods add up the flow at s in a loop that tests at its  *)
(* end, which would ask for NoArc if there was no arc at s.                  *)
ASSUME CallsAssumption ==
  \A c \in FlowCalls :
    /\ c.proc \in {"SAP", "SAP_SCALE", "DINIC", "PREFLOW"} /\ c.methMXF \in 0 .. 5
    /\ IsNetwork(c.G) /\ IsFlow(c.G) /\ c.G.delta = 0
    /\ c.proc # "PREFLOW" => Incidences(c.G, s) # {}

VARIABLES
  proc, methMXF,      \* the method that is called, the one of the context
  G,                  \* the network, with the flow G.sub and the threshold G.delta
  step,               \* where the call is
  running,            \* CT.SolverRunning()
  val, ret,           \* the flow value that is kept, what the call returns
  lower, upper,       \* the bounds of TimerMaxFlow
  dist,               \* the distance labels
  aux,                \* Dinic: the layered network and the path in it
  label,              \* push-relabel: the node colours
  Q, Admissible,      \*   active nodes, in order; arcs to push on, for each node
  hand                \*   the node that is discharged, and canRelabel

flowVars == <<proc, methMXF, G, step, running, val, ret, lower, upper, dist,
              aux, label, Q, Admissible, hand>>
timerVars == <<lower, upper>>
preflowVars == <<label, Q, Admissible, hand>>

-------------------------------------------------------------------------------
Res(a) == ResCap(G, a)
Div(v) == Divergence(G, v)

(* The nodes that are reached within k steps on arcs with more residual      *)
(* capacity than bound, and the labels of a breadth first search on these    *)
(* arcs that stops at t.  BFS may leave nodes as far away as t without a     *)
(* label, but no path to t leads over them.                                  *)
Heads(S, bound) == {EndNode(G, a) : a \in {b \in Arc : StartNode(G, b) \in S /\ Res(b) > bound}}
Reached(bound) ==
  LET R[k \in 0 .. n] == IF k = 0 THEN {s} ELSE UNION {S \union Heads(S, bound) : S \in {R[k - 1]}}
  IN R
Labels(bound) ==
  LET Depth(R, v) == Cardinality({k \in 0 .. n : v \notin R[k]})
      Dist(R) == [v \in Node |-> IF Depth(R, v) <= Min({Depth(R, t), n}) THEN Depth(R, v) ELSE InfFloat]
  IN CHOOSE d \in {Dist(R) : R \in {[k \in 0 .. n |-> Reached(bound)[k]]}} : TRUE

(* The paths that BFS may return: sequences of arcs from s to t, from layer  *)
(* to layer of the labels d.                                                 *)
ShortestPaths(bound, d) ==
  LET Longer(P, k) ==
        {Append(p, a) : p \in P, a \in {b \in Arc : Res(b) > bound /\ d[EndNode(G, b)] = k}}
      Walk(p) == \A i \in DOMAIN p : StartNode(G, p[i]) = IF i = 1 THEN s ELSE EndNode(G, p[i - 1])
      Extend(P, k) == {p \in Longer(P, k) : Walk(p)}
      Paths[k \in 0 .. d[t]] == IF k = 0 THEN {<<>>} ELSE Extend(Paths[k - 1], k)
  IN {p \in Paths[d[t]] : EndNode(G, p[Len(p)]) = t}

SetLowerBound(b) == lower' = Max({lower, Min({b, upper})}) /\ UNCHANGED upper
SetUpperBound(b) == upper' = Min({upper, Max({b, lower})}) /\ UNCHANGED lower

-------------------------------------------------------------------------------
NoProps == [prop |-> [v \in Node |-> <<>>], degree |-> [v \in Node |-> 0], successors |-> {},
            path |-> <<>>, lambda |-> 0]
NoHand == <<NoNode, FALSE>>
ERRange == -1        \* what a call returns if it throws
ERInternal == -2

Start(c) ==
  /\ proc = c.proc /\ methMXF = c.methMXF /\ G = c.G
  /\ step = "call" /\ running = TRUE
  /\ val = 0 /\ ret = 0 /\ lower = -InfFloat /\ upper = InfFloat
  /\ dist = [v \in Node |-> InfFloat]
  /\ aux = NoProps
  /\ label = [v \in Node |-> 0] /\ Q = <<>> /\ hand = NoHand
  /\ Admissible = [v \in Node |-> {}]
FlowInit == \E c \in FlowCalls : Start(c)

(* Push-relabel never asks whether it shall go on.                           *)
Stop ==
  /\ running /\ step # "done" /\ proc # "PREFLOW"
  /\ running' = FALSE
  /\ UNCHANGED <<proc, methMXF, G, step, val, ret, timerVars, dist, aux, preflowVars>>

(* The flow on the arcs that leave s; what enters s is not subtracted.       *)
FlowAtSource == SumOver([a \in Arc |-> IF Blocking(G, a) THEN 0 ELSE Sub(G, a)], Incidences(G, s))

(* MaxUCap, lowered by one if it is not zero.                                *)
FirstDelta == Max({0, Greatest({0} \union {G.ucap[e] : e \in Edge}) - 1})

EnterPaths ==
  /\ step = "call" /\ proc \in {"SAP", "SAP_SCALE", "DINIC"}
  /\ val' = FlowAtSource
  /\ SetLowerBound(val')
  /\ G' = IF proc = "SAP_SCALE" THEN [G EXCEPT !.delta = FirstDelta] ELSE G
  /\ step' = IF proc = "DINIC" THEN "layers" ELSE "search"
  /\ UNCHANGED <<proc, methMXF, running, ret, dist, aux, preflowVars>>

-------------------------------------------------------------------------------
(* Edmonds and Karp, capacity scaling.                                       *)

AugmentPath ==
  /\ step = "search" /\ running
  /\ \E d \in {Labels(G.delta)} : d[t] # InfFloat /\ dist' = d
  /\ \E path \in ShortestPaths(G.delta, dist') :
       LET lambda == FindCap(G, path) IN
       IF lambda = InfCap
       THEN /\ ret' = InfCap /\ step' = "check"
            /\ G' = [G EXCEPT !.delta = IF proc = "SAP_SCALE" THEN 0 ELSE @]
            /\ UNCHANGED <<val, timerVars>>
       ELSE /\ G' = Augment(G, path, lambda)
            /\ val' = val + lambda
            /\ SetLowerBound(val')
            /\ UNCHANGED <<ret, step>>
  /\ UNCHANGED <<proc, methMXF, running, aux, preflowVars>>

(* Mutant: the last scaling phase is left out.                               *)
HalvedEarly == G.delta \div 2 = 0
(* Mutant: the phase with threshold zero is followed by another one.         *)
HalvedOnce == G.delta < 0
LastPhase == G.delta = 0

(* No path is found, or the solver has been stopped: the next scaling phase, *)
(* or the end.                                                               *)
EndSearch ==
  /\ step = "search"
  /\ \E d \in {IF running THEN Labels(G.delta) ELSE dist} :
       (running => d[t] = InfFloat) /\ dist' = d
  /\ IF proc = "SAP_SCALE" /\ ~LastPhase
     THEN /\ G' = [G EXCEPT !.delta = @ \div 2]
          /\ step' = IF running THEN "search" ELSE "report"
     ELSE G' = G /\ step' = "report"
  /\ UNCHANGED <<proc, methMXF, running, val, ret, timerVars, aux, preflowVars>>

Report ==
  /\ step = "report"
  /\ IF running THEN SetUpperBound(val) ELSE UNCHANGED timerVars
  /\ G' = [G EXCEPT !.delta = IF proc = "SAP_SCALE" THEN 0 ELSE @]
  /\ ret' = val
  /\ step' = "check"
  /\ UNCHANGED <<proc, methMXF, running, val, dist, aux, preflowVars>>

-------------------------------------------------------------------------------
(* Dinic.                                                                    *)

Blocked(x, v) == v # s /\ x.degree[v] = 0

(* The arcs with residual capacity that lead to v from the layer before it.  *)
Props(d, v) ==
  {a \in Arc : /\ EndNode(G, a) = v /\ Res(a) > 0
               /\ d[StartNode(G, a)] # d[t] /\ d[StartNode(G, a)] # InfFloat
               /\ d[v] = d[StartNode(G, a)] + 1}

(* The search for the layers; InsertProp for every arc to the next layer,    *)
(* and Phase2.  The props of a node come in the order of the arc indices or  *)
(* against it.                                                               *)
FindLayers ==
  /\ step = "layers" /\ running
  /\ \E d \in {Labels(0)} : dist' = d
  /\ IF dist'[t] = InfFloat THEN step' = "report" /\ UNCHANGED aux
     ELSE /\ step' = "block"
          /\ \E order \in [Node -> {ArcOrder, Reverse(ArcOrder)}] :
               aux' = [NoProps EXCEPT !.prop = [v \in Node |-> InOrder(order[v], Props(dist', v))],
                                      !.degree = [v \in Node |-> Cardinality(Props(dist', v))],
                                      !.successors = UNION {Props(dist', v) : v \in Node}]
  /\ UNCHANGED <<proc, methMXF, G, running, val, ret, timerVars, preflowVars>>

LeaveLayers ==
  /\ step = "layers" /\ ~running
  /\ step' = "report"
  /\ UNCHANGED <<proc, methMXF, G, running, val, ret, timerVars, dist, aux, preflowVars>>

(* FindPath: from t to s; the cursor of each node on the way skips the props *)
(* that are saturated or start at a blocked node.                            *)
Usable(x, a) == Res(a) > 0 /\ ~Blocked(x, StartNode(G, a))
Skipped(v) ==
  LET p == aux.prop[v]
      k == Least({i \in DOMAIN p : Usable(aux, p[i])} \union {Len(p) + 1})
  IN SubSeq(p, k, Len(p))
PathTo(v) ==
  LET Trail[k \in 0 .. n] ==
        IF k = 0 THEN v
        ELSE IF Trail[k - 1] = s THEN s ELSE StartNode(G, Head(Skipped(Trail[k - 1])))
      len == Least({k \in 0 .. n : Trail[k] = s})
  IN [i \in 1 .. len |-> Head(Skipped(Trail[i - 1]))]
FindPath ==
  /\ step = "block" /\ ~Blocked(aux, t)
  /\ \E path \in {PathTo(t)} :
       LET lambda == FindCap(G, path)
           on == {EndNode(G, path[i]) : i \in DOMAIN path}
       IN IF lambda = InfCap
          THEN ret' = InfCap /\ step' = "check" /\ UNCHANGED <<val, aux>>
          ELSE /\ val' = val + lambda /\ step' = "push"
               /\ aux' = [aux EXCEPT !.path = path, !.lambda = lambda,
                            !.prop = [v \in Node |-> IF v \in on THEN Skipped(v) ELSE @[v]]]
               /\ UNCHANGED ret
  /\ UNCHANGED <<proc, methMXF, G, running, timerVars, dist, preflowVars>>

(* Mutant: all arcs of a deleted node count, those that are saturated, too.  *)
LostAll(g, x, gone, y) ==
  Cardinality({a \in x.successors : StartNode(g, a) \in gone /\ EndNode(g, a) = y})
(* The arcs of deleted nodes that TopErasure takes from the indegree of y.   *)
Lost(g, x, gone, y) ==
  Cardinality({a \in x.successors :
                 StartNode(g, a) \in gone /\ EndNode(g, a) = y /\ ResCap(g, a) > 0})

(* TopErasure of the saturated arc a: its end node loses a prop, and nodes   *)
(* without one are deleted, layer by layer.                                  *)
TopErasure(g, x, a) ==
  LET v == EndNode(g, a)
      deg == [x.degree EXCEPT ![v] = @ - 1]
      Erase(S) == UNION {T \union {y \in Node : deg[y] > 0 /\ Lost(g, x, T, y) >= deg[y]} : T \in {S}}
      Gone[k \in 0 .. n] == IF k = 0 THEN {w \in {v} : deg[w] = 0} ELSE Erase(Gone[k - 1])
      gone == CHOOSE S \in {Gone[n]} : TRUE
  IN [x EXCEPT !.prop[v] = Tail(@), !.degree = [y \in Node |-> deg[y] - Lost(g, x, gone, y)]]

(* The flow is pushed arc by arc from t to s, and a saturated arc is erased  *)
(* at once.                                                                  *)
PushLayered ==
  /\ step = "push"
  /\ LET a == Head(aux.path)
         g == Pushed(G, a, aux.lambda)
         x == [aux EXCEPT !.path = Tail(@)]
     IN /\ G' = g
        /\ aux' = IF ResCap(g, a) = 0 THEN TopErasure(g, x, a) ELSE x
  /\ step' = IF Len(aux.path) = 1 THEN "block" ELSE "push"
  /\ UNCHANGED <<proc, methMXF, running, val, ret, timerVars, dist, preflowVars>>

EndBlocking ==
  /\ step = "block" /\ Blocked(aux, t)
  /\ SetLowerBound(val)
  /\ aux' = NoProps
  /\ step' = "layers"
  /\ UNCHANGED <<proc, methMXF, G, running, val, ret, dist, preflowVars>>

-------------------------------------------------------------------------------
(* Push and relabel.  methMXF 2 keeps the active nodes in a FIFO queue, 4 in *)
(* a heap with the least label first, any other value in one with the        *)
(* greatest first.                                                           *)

Fifo == methMXF = 2
Scaling == methMXF = 4
Active(v, d) == IF Scaling THEN 2 * Div(v) >= d ELSE Div(v) > 0

(* The positions of the queue that Q->Delete() may take.                     *)
Candidates ==
  IF Fifo THEN {1}
  ELSE {i \in DOMAIN Q : \A j \in DOMAIN Q :
          IF Scaling THEN label[Q[i]] <= label[Q[j]] ELSE label[Q[i]] >= label[Q[j]]}

(* All arcs of the source are saturated, unless an infinite one is found.    *)
EnterPreflow ==
  /\ step = "call" /\ proc = "PREFLOW"
  /\ LET out == {a \in Incidences(G, s) : UCap(G, a) # InfCap}
         g == [G EXCEPT !.sub = [e \in Edge |-> IF 2 * e \in out THEN G.ucap[e]
                                               ELSE IF 2 * e + 1 \in out THEN 0 ELSE @[e]]]
         d == Greatest({0} \union {Divergence(g, v) : v \in Inner})
     IN /\ G' = [g EXCEPT !.delta = IF Scaling THEN d ELSE @]
        /\ Q' = InOrder(NodeOrder, {v \in Inner : IF Scaling THEN 2 * Divergence(g, v) >= d
                                                 ELSE Divergence(g, v) > 0})
        /\ lower' = Divergence(g, t) /\ upper' = -Divergence(g, s)
        /\ step' = IF out = Incidences(G, s) THEN "select" ELSE "unbounded"
  /\ label' = [label EXCEPT ![s] = n]
  /\ UNCHANGED <<proc, methMXF, running, val, ret, dist, aux, Admissible, hand>>

Select ==
  /\ step = "select"
  /\ \E i \in Candidates :
       Q # <<>> /\ hand' = <<Q[i], TRUE>> /\ Q' = RemoveAt(Q, i)
  /\ step' = "discharge"
  /\ UNCHANGED <<proc, methMXF, G, running, val, ret, timerVars, dist, aux, label, Admissible>>

(* Scaling never raises the excess of a node beyond delta.                   *)
Amount(u, a) ==
  LET v == EndNode(G, a) IN
  Min({Res(a), Div(u)} \union (IF Scaling /\ v # t THEN {G.delta - Div(v)} ELSE {}))
TooSmall(u, a) == Scaling /\ 2 * Amount(u, a) < G.delta /\ Amount(u, a) < Res(a)

(* Mutant: the target of a push is queued only if it is below its label.     *)
ActivatesLate(v, lambda) ==
  v \in Inner /\ Div(v) = 0 /\ label[v] > 0
Activates(v, lambda) ==
  /\ v \in Inner
  /\ IF Scaling THEN 2 * Div(v) < G.delta /\ 2 * (Div(v) + lambda) >= G.delta
     ELSE Div(v) = 0

(* One arc is taken from the list of the node in hand.                       *)
Push ==
  /\ step = "discharge"
  /\ LET u == hand[1] IN
     /\ Div(u) > 0
     /\ \E a \in Admissible[u] :
          LET v == EndNode(G, a)
              lambda == Amount(u, a)
              exact == label[u] = label[v] + 1
              g == Pushed(G, a, lambda)
              left == [Admissible EXCEPT ![u] = @ \ {a}]
          IN IF ~exact \/ TooSmall(u, a)
             THEN /\ Admissible' = left
                  /\ hand' = IF exact THEN <<u, FALSE>> ELSE hand
                  /\ UNCHANGED <<G, Q, timerVars, step>>
             ELSE /\ G' = g
                  /\ Q' = IF Activates(v, lambda) THEN Append(Q, v) ELSE Q
                  /\ CASE v = s -> SetUpperBound(-Divergence(g, s))
                       [] v = t -> SetLowerBound(Divergence(g, t))
                       [] OTHER -> UNCHANGED timerVars
                  /\ Admissible' = IF ResCap(g, a) > 0 THEN Admissible ELSE left
                  /\ IF Scaling /\ 2 * Divergence(g, u) < G.delta
                     THEN hand' = <<u, FALSE>> /\ step' = "leave"
                     ELSE UNCHANGED <<hand, step>>
  /\ UNCHANGED <<proc, methMXF, running, val, ret, dist, aux, label>>

Discharged ==
  /\ step = "leave" \/ (step = "discharge" /\ (Div(hand[1]) <= 0 \/ Admissible[hand[1]] = {}))

(* The arcs that a relabel operation makes admissible: those of u to the     *)
(* least label, and those that end in u from nodes two above.                *)
LeastLabel(u) == Least({label[EndNode(G, a)] : a \in {b \in Incidences(G, u) : Res(b) > 0}})
NewArcs(u) == {a \in Incidences(G, u) : Res(a) > 0 /\ label[EndNode(G, a)] = LeastLabel(u)}
NewArcsTo(u) ==
  {a \in Arc : EndNode(G, a) = u /\ Res(a) > 0 /\ label[StartNode(G, a)] = LeastLabel(u) + 2}

Relabel ==
  /\ Discharged /\ hand[2] /\ Div(hand[1]) > 0
  /\ LET u == hand[1] IN
     /\ label' = [label EXCEPT ![u] = LeastLabel(u) + 1]
     /\ Admissible' = [v \in Node |-> Admissible[v]
                         \union (IF v = u THEN NewArcs(u) ELSE {})
                         \union {a \in NewArcsTo(u) : StartNode(G, a) = v}]
     /\ Q' = Append(Q, u)
  /\ hand' = NoHand
  /\ step' = "next"
  /\ UNCHANGED <<proc, methMXF, G, running, val, ret, timerVars, dist, aux>>

Leave ==
  /\ Discharged /\ ~(hand[2] /\ Div(hand[1]) > 0)
  /\ hand' = NoHand
  /\ step' = "next"
  /\ UNCHANGED <<proc, methMXF, G, running, val, ret, timerVars, dist, aux, label, Q, Admissible>>

(* The next node, or the next scaling phase, which may have no active node.  *)
NextNode ==
  /\ step = "next"
  /\ IF Scaling /\ Q = <<>> /\ G.delta > 2
     THEN /\ G' = [G EXCEPT !.delta = (@ + 1) \div 2]
          /\ Q' = InOrder(NodeOrder, {v \in Inner : Active(v, G'.delta)})
     ELSE UNCHANGED <<G, Q>>
  /\ step' = "select"
  /\ UNCHANGED <<proc, methMXF, running, val, ret, timerVars, dist, aux, label, Admissible, hand>>

(* The end of push-relabel, and the search for the cut in MaxFlow.           *)
LeavePreflow ==
  /\ step = "select" /\ Q = <<>>
  /\ ret' = Div(t)
  /\ dist' = Labels(G.delta)
  /\ step' = "check"
  /\ UNCHANGED <<proc, methMXF, G, running, val, timerVars, aux, preflowVars>>

Unbounded ==
  /\ step = "unbounded"
  /\ ret' = ERRange /\ step' = "done"
  /\ UNCHANGED <<proc, methMXF, G, running, val, timerVars, dist, aux, preflowVars>>

-------------------------------------------------------------------------------
CutCapacity ==
  SumOver([a \in Arc |-> IF /\ dist[StartNode(G, a)] < InfFloat
                            /\ dist[EndNode(G, a)] = InfFloat /\ ~Blocking(G, a)
                         THEN UCap(G, a) ELSE 0], Arc)
Balanced == \A v \in Inner : Div(v) = 0

(* The check at the end of MaxFlow, with CT.methFailSave or without.         *)
Check ==
  /\ step = "check"
  /\ ret' \in {ret} \union (IF ret # InfCap /\ ~(Balanced /\ CutCapacity = Div(t))
                            THEN {ERInternal} ELSE {})
  /\ step' = "done"
  /\ UNCHANGED <<proc, methMXF, G, running, val, timerVars, dist, aux, preflowVars>>

Work ==
  \/ EnterPaths \/ AugmentPath \/ EndSearch \/ Report
  \/ FindLayers \/ LeaveLayers \/ FindPath \/ PushLayered \/ EndBlocking
  \/ EnterPreflow \/ Select \/ Push \/ Relabel \/ Leave \/ NextNode \/ LeavePreflow
  \/ Unbounded \/ Check
FlowNext == Work \/ Stop

FlowSpec == FlowInit /\ [][FlowNext]_flowVars /\ WF_flowVars(Work)

-------------------------------------------------------------------------------
(* The capacity of a minimum cut, by definition.                             *)
CutCap(g, X) ==
  SumBelow([e \in Edge |-> IF g.ends[e][1] \in X /\ g.ends[e][2] \notin X THEN g.ucap[e] ELSE 0], m)
MinCutOf(g) == Least({CutCap(g, {s} \union Y) : Y \in SUBSET Inner})
MinCut == MinCutOf(G)

Preflow == proc = "PREFLOW" /\ step \in {"select", "discharge", "leave", "next"}

(* The flow respects the capacities at every step, counters stay in their    *)
(* range, and no label gets beyond 2n-1, which bounds the relabel operations. *)
FlowTypeOK ==
  /\ proc \in {"SAP", "SAP_SCALE", "DINIC", "PREFLOW"} /\ methMXF \in 0 .. 5
  /\ running \in BOOLEAN /\ val \in Nat /\ ret \in Nat \union {ERRange, ERInternal}
  /\ \A e \in Edge : G.sub[e] \in 0 .. G.ucap[e]
  /\ G.delta \in Nat
  /\ lower \in Int /\ upper \in Int
  /\ \A v \in Node : aux.degree[v] \in 0 .. 2 * m
  /\ \A v \in Node : label[v] \in 0 .. 2 * n - 1
  /\ \A i \in DOMAIN Q : Q[i] \in Inner
  /\ Admissible \in [Node -> SUBSET Arc]

(* What push-relabel relies on while it works with lists that are refreshed  *)
(* by relabel operations only: no residual arc leads down by more than one   *)
(* label, the lists hold every admissible arc and no saturated one, the      *)
(* queue holds active nodes, once each and none that is in hand, and it      *)
(* misses no node with excess.  Excess scaling drops arcs that it cannot     *)
(* push enough on, and leaves their nodes out of the queue for the phase.    *)
PreflowValid ==
  Preflow =>
    /\ label[s] = n /\ label[t] = 0
    /\ \A v \in Inner : Div(v) >= 0
    /\ \A a \in Arc : Res(a) > 0 =>
         LET u == StartNode(G, a)
             d == label[EndNode(G, a)] + 1
         IN label[u] <= d /\ (label[u] = d /\ ~Scaling => a \in Admissible[u])
    /\ \A v \in Node : \A a \in Admissible[v] : StartNode(G, a) = v /\ Res(a) > 0
    /\ \A i, j \in DOMAIN Q : Q[i] = Q[j] => i = j
    /\ \A i \in DOMAIN Q : Q[i] # hand[1] /\ Active(Q[i], G.delta)
    /\ ~Scaling => \A v \in Inner : Div(v) > 0 => v = hand[1] \/ v \in ToSet(Q)

(* The indegrees of the layered network count the props that can still be    *)
(* used, and the cursors have not passed any of them.                        *)
LayersExact ==
  step = "block" =>
    \A v \in Node \ {s} :
      LET usable == {a \in aux.successors : EndNode(G, a) = v /\ Usable(aux, a)} IN
      /\ aux.degree[v] > 0 => aux.degree[v] = Cardinality(usable)
      /\ aux.degree[v] = 0 => usable = {}
      /\ usable \subseteq ToSet(aux.prop[v])

(* The cached structures of MaxFlow stay true to the flow that changes under *)
(* them: the lists of admissible arcs and the queue of active nodes in       *)
(* MXF_PushRelabel, indegrees and cursors of the layered network in          *)
(* MXF_Dinic.                                                                *)
FlowStructures == PreflowValid /\ LayersExact

(* The bounds of the timer enclose the capacity of a minimum cut; a call     *)
(* that ends has found a flow of that value and a cut that shows it, or has  *)
(* been stopped, with a flow of the value it returns; excess scaling may     *)
(* leave excess behind.                                                      *)
FlowMaximum ==
  /\ step \notin {"call", "unbounded"} /\ ret # ERRange => lower <= MinCut /\ MinCut <= upper
  /\ step = "done" =>
       /\ ret = ERRange => proc = "PREFLOW" /\ \E e \in Edge : G.ucap[e] = InfCap
       /\ ret = ERInternal => ~running \/ (proc = "PREFLOW" /\ Scaling)
       /\ ret = InfCap => MinCut >= InfCap
       /\ ret >= 0 /\ ret # InfCap =>
            /\ ret = Div(t)
            /\ running /\ Balanced => ret = MinCut
            /\ Balanced \/ (proc = "PREFLOW" /\ Scaling)
================================================================================
