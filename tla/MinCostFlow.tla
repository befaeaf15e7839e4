------------------------------ MODULE MinCostFlow ------------------------------
(****************************************************************************)
(* Minimum cost flows (lib_src/solveMCFlow.cpp) on a digraph G: one call of  *)
(* MinCostBFlow with the methods                                             *)
(*   CYCLE     MCF_CycleCanceling                                            *)
(*   SAP, CAPA MCF_CapacityScaling without and with scaling                  *)
(*   SIMPLEX   MCF_NWSimplex, in the module NetworkSimplex                   *)
(* or of MinCostSTFlow with the methods                                      *)
(*   ST_DIJKSTRA, ST_SAP   MCF_EdmondsKarp, MCF_BusackerGowen                *)
(* The searches, which ShortestPath models step by step, are single steps    *)
(* that find any shortest path or any negative cycle; Dijkstra's methods     *)
(* search networks without negative arcs, which is a property here.          *)
(* AdmissibleBFlow finds any b-flow: it is a maximum flow of a larger        *)
(* network.                                                                  *)
(****************************************************************************)
EXTENDS FlowNetwork

CONSTANTS
  Most,          \* the largest flow on an arc that AdmissibleBFlow returns
  CostCalls      \* the calls: records of proc, pricing and G

ASSUME CostAssumption == n > 1 /\ InfCap \in Nat /\ Most \in 0 .. InfCap

VARIABLES
  proc,               \* the method
  G,                  \* the network, with the flow G.sub, the potentials and the demands
  step,               \* where the call is
  running,            \* CT.SolverRunning()
  lower, upper,       \* the bounds of TimerMinCFlow
  ret,                \* what the call returns
  dist,               \* the distance labels, NoLabels before the first search
  deficit             \* defPlus of SAP and CAPA, delta of the st-flow methods
                      \* (below 0 if SAP has undone more than it was called for)

flowVars == <<proc, G, step, running, lower, upper, ret, dist, deficit>>
timerVars == <<lower, upper>>

s == 0
t == n - 1
BFlow == {"CYCLE", "SIMPLEX"}         \* methods that start from a b-flow
Pseudo == {"SAP", "CAPA"}
STFlow == {"ST_DIJKSTRA", "ST_SAP"}
NoLabels == [v \in {} |-> 0]

-------------------------------------------------------------------------------
Weight(g) == SumBelow([e \in Edge |-> g.length[e] * g.sub[e]], m)
Deficiency(g, v) == g.demand[v] - Divergence(g, v)
IsBFlow(g) == \A v \in Node : Deficiency(g, v) = 0
DualObjective(g) ==
  SumBelow([v \in Node |-> g.demand[v] * Potential(g, v)], n)
  + SumBelow([e \in Edge |-> IF RedLength(g, 2 * e) < 0 THEN g.ucap[e] * RedLength(g, 2 * e) ELSE 0], m)

BFlows(g) ==
  LET flows == {f \in [Edge -> 0 .. Most] : \A e \in Edge : f[e] <= g.ucap[e]}
  IN {h \in {[g EXCEPT !.sub = f] : f \in flows} : IsBFlow(h)}

(* SetBounds is rejected if it contradicts a bound that is already set.      *)
Rejected(lo, hi) == hi < lower \/ lo > upper
SetBounds(lo, hi) ==
  /\ ~Rejected(lo, hi)
  /\ lower' = Max({lower, Min({lo, upper})})
  /\ upper' = Min({upper, Max({hi, lower'})})
SetUpperBound(b) == SetBounds(-InfFloat, b)
SetLowerBound(b) == SetBounds(b, InfFloat)

Returns(value) == ret' = value /\ step' = "done"

(* The caller of SetBounds is declared not to throw exceptions.              *)
Aborts == step' = "aborted" /\ UNCHANGED <<timerVars, ret>>

-------------------------------------------------------------------------------
(* The walks on the arcs of A that do not enter a node twice.                *)
Walks(g, A) ==
  LET Follows(w, a) == /\ Len(w) > 0 => EndNode(g, w[Len(w)]) = StartNode(g, a)
                       /\ \A i \in DOMAIN w : EndNode(g, w[i]) # EndNode(g, a)
      Longer(Q, k) ==
        Q \union {Append(x[1], x[2]) : x \in {y \in {w \in Q : Len(w) = k} \X A : Follows(y[1], y[2])}}
      W[k \in 0 .. n] == IF k = 0 THEN {<<>>} ELSE Longer(W[k - 1], k - 1)
  IN W[n] \ {<<>>}

From(g, w) == StartNode(g, w[1])
To(g, w) == EndNode(g, w[Len(w)])
WalkLength(g, w) == SumBelow([i \in 0 .. Len(w) - 1 |-> RedLength(g, w[i + 1])], Len(w))
ResArcs(g) == {a \in Arc : ResCap(g, a) > g.delta}
Slack(g) == \A a \in ResArcs(g) : RedLength(g, a) >= 0

(* The distances from the nodes of X, if no cycle is negative.               *)
Distances(g, walks, X) ==
  LET Found(v) == {WalkLength(g, w) : w \in {x \in walks : From(g, x) \in X /\ To(g, x) = v}}
  IN [v \in Node |-> Least(Found(v) \union {IF v \in X THEN 0 ELSE InfFloat})]

(* The labels of a search that ends with a cycle, on which nothing depends.  *)
CycleLabels == {[v \in Node |-> 0], [v \in Node |-> -v]}

NegativeCycles(g, walks) == {w \in walks : From(g, w) = To(g, w) /\ WalkLength(g, w) < 0}

ZeroPotentials(g) == [g EXCEPT !.potential = [v \in Node |-> 0]]
RawPotentials(g) == [g EXCEPT !.potential = [v \in Node |-> Potential(g, v)]]
UpdatePotentials(g, d, cut) ==
  [g EXCEPT !.potential = [v \in Node |-> Potential(g, v) + Min({d[v], cut})]]

-------------------------------------------------------------------------------
(* A digraph with integral data, without a threshold for the arcs.  Demands  *)
(* are finite: the st-flow methods also take the demand InfCap of a target   *)
(* for "as much as possible", and return -InfFloat if that has no limit.     *)
IsCostNetwork(g) ==
  /\ g \in [ends : [Edge -> Node \X Node], orientation : [Edge -> {1}], length : [Edge -> Int],
            ucap : [Edge -> 0 .. InfCap], sub : [Edge -> Nat], demand : [Node -> Int],
            potential : [Node -> Int] \union {NoLabels}, delta : {0}]
  /\ \A e \in Edge : g.sub[e] <= g.ucap[e]

(* MinCostSTFlow rejects other flows: only the source and the target may be  *)
(* unbalanced, by the same amount.                                           *)
Balanced(g) ==
  /\ \A v \in Node \ {s, t} : Deficiency(g, v) = 0
  /\ Deficiency(g, t) >= 0 /\ Deficiency(g, s) = -Deficiency(g, t)

(* What EdmondsKarp relies on: potentials that prove the flow at hand or, if *)
(* there are none, that every node can be reached from the source.           *)
ASSUME CostCallsAssumption ==
  \A c \in CostCalls :
    /\ c.proc \in BFlow \union Pseudo \union STFlow
    /\ IsCostNetwork(c.G)
    /\ c.proc \in STFlow => Balanced(c.G)
    /\ c.proc = "ST_DIJKSTRA" =>
         \/ Slack(c.G)
         \/ /\ c.G.potential = NoLabels
            /\ \A v \in Node : Distances(c.G, Walks(c.G, ResArcs(c.G)), {s})[v] # InfFloat

Start(c) ==
  /\ proc = c.proc /\ G = c.G
  /\ step = "call" /\ running = TRUE
  /\ lower = -InfFloat /\ upper = InfFloat /\ ret = 0
  /\ dist = NoLabels /\ deficit = 0

(* The points where the solver is asked whether it shall go on.              *)
Asking == {"call", "cycle", "path", "phase", "price"}
Stop ==
  /\ running /\ step \in Asking /\ proc \notin STFlow
  /\ running' = FALSE
  /\ UNCHANGED <<proc, G, step, timerVars, ret, dist, deficit>>

(* There is no b-flow, or the search for one has been stopped.               *)
Infeasible ==
  /\ step = "call" /\ proc \in BFlow
  /\ ~running \/ BFlows(G) = {}
  /\ SetBounds(InfFloat, InfFloat)
  /\ Returns(InfFloat)
  /\ UNCHANGED <<proc, G, running, dist, deficit>>

AdmissibleBFlow ==
  /\ step = "call" /\ proc \in BFlow
  /\ G' \in BFlows(G)
  /\ step' = IF proc = "CYCLE" THEN "first" ELSE "free"
  /\ UNCHANGED <<proc, running, timerVars, ret, dist, deficit>>

-------------------------------------------------------------------------------
(* Cycle cancelling.                                                         *)

EnterCycles ==
  /\ step = "first"
  /\ SetLowerBound(DualObjective(G))
  /\ G' = ZeroPotentials(G)
  /\ step' = "cycle"
  /\ UNCHANGED <<proc, running, ret, dist, deficit>>

CancelCycle ==
  /\ step = "cycle" /\ running
  /\ \E walks \in {Walks(G, ResArcs(G))} : \E cycle \in NegativeCycles(G, walks) :
       IF FindCap(G, cycle) = InfCap
       THEN Aborts /\ UNCHANGED <<G, dist>>   \* the problem is unbounded, lower is not
       ELSE /\ SetUpperBound(Weight(G))
            /\ G' = Augment(G, cycle, FindCap(G, cycle))
            /\ dist' \in CycleLabels
            /\ UNCHANGED <<step, ret>>
  /\ UNCHANGED <<proc, running, deficit>>

NoCycle ==
  /\ step = "cycle"
  /\ IF running
     THEN \E walks \in {Walks(G, ResArcs(G))} :
            /\ NegativeCycles(G, walks) = {}
            /\ SetUpperBound(Weight(G))
            /\ dist' = Distances(G, walks, Node)
     ELSE UNCHANGED <<timerVars, dist>>
  /\ step' = "slack"
  /\ UNCHANGED <<proc, G, running, ret, deficit>>

(* Without distance labels, UpdatePotentials throws an exception.            *)
LeaveCycles ==
  /\ step = "slack"
  /\ IF dist = NoLabels THEN Aborts /\ UNCHANGED G
     ELSE /\ G' = UpdatePotentials(G, dist, 0)
          /\ SetLowerBound(DualObjective(G'))
          /\ Returns(Weight(G))
  /\ UNCHANGED <<proc, running, dist, deficit>>

-------------------------------------------------------------------------------
(* Shortest augmenting paths, capacity scaling.                              *)

MaxUCap == Greatest({0} \union {G.ucap[e] : e \in Edge})
EnterScaling ==
  /\ step = "call" /\ proc \in Pseudo
  /\ deficit' = SumBelow([v \in Node |-> Max({0, Deficiency(G, v)})], n)
  /\ G' = [RawPotentials(G) EXCEPT !.delta = IF proc = "CAPA" THEN Max({0, MaxUCap - 1}) ELSE 0]
  /\ step' = IF running THEN "saturate" ELSE "report"
  /\ UNCHANGED <<proc, running, timerVars, ret, dist>>

(* Mutant: arcs of negative reduced length keep what capacity they have left. *)
Unsaturated(g) == g
(* Arcs of negative reduced length are saturated, in both directions.        *)
Saturated(g) ==
  LET Flow(e) ==
        CASE RedLength(g, 2 * e) < 0 /\ ResCap(g, 2 * e) > g.delta -> g.ucap[e]
          [] RedLength(g, 2 * e) > 0 /\ g.sub[e] > g.delta -> 0
          [] OTHER -> g.sub[e]
  IN [g EXCEPT !.sub = [e \in Edge |-> Flow(e)]]
Saturate ==
  /\ step = "saturate"
  /\ G' = Saturated(G)
  /\ step' = "path"
  /\ UNCHANGED <<proc, running, timerVars, ret, dist, deficit>>

(* EdmondsKarp: unless no residual arc is negative, potentials are sought    *)
(* with lengths that are reduced by the ones at hand, and replace those.  A  *)
(* negative cycle ends the call.                                             *)
EnterDijkstra ==
  /\ step = "call" /\ proc = "ST_DIJKSTRA"
  /\ deficit' = Deficiency(G, t)
  /\ IF Slack(G)
     THEN step' = "path" /\ UNCHANGED <<G, dist>>
     ELSE \E walks \in {Walks(G, ResArcs(G))} :
            IF NegativeCycles(G, walks) # {}
            THEN step' = "rejected" /\ UNCHANGED <<G, dist>>
            ELSE /\ dist' = Distances(G, walks, {s})
                 /\ G' = [G EXCEPT !.potential = dist']
                 /\ step' = "path"
  /\ UNCHANGED <<proc, running, timerVars, ret>>

(* BusackerGowen, with the default method CT.methSPX, SPX_FIFO: if the first *)
(* search meets a negative cycle, which it does if the source reaches one,   *)
(* it throws what its callers do not declare.                                *)
MeetsCycle(g, walks) ==
  \E w \in NegativeCycles(g, walks) : Distances(g, walks, {s})[From(g, w)] # InfFloat
EnterBusackerGowen ==
  /\ step = "call" /\ proc = "ST_SAP"
  /\ deficit' = Deficiency(G, t)
  /\ step' = IF deficit' > 0 /\ MeetsCycle(G, Walks(G, ResArcs(G))) THEN "aborted" ELSE "path"
  /\ UNCHANGED <<proc, G, running, timerVars, ret, dist>>

Searching ==
  /\ step = "path"
  /\ proc \in Pseudo => running
  /\ proc # "CAPA" => deficit > 0
Sources == IF proc \in STFlow THEN {s} ELSE {v \in Node : -Deficiency(G, v) > G.delta}
Targets == IF proc \in STFlow THEN {t} ELSE {v \in Node : Deficiency(G, v) > G.delta}
SearchBound == IF proc = "ST_SAP" THEN UNCHANGED timerVars ELSE SetLowerBound(DualObjective(G))

(* The paths of a shortest path tree to v.  Scaling takes what comes after   *)
(* the last node with an excess.                                             *)
Excess(v) == IF proc \in STFlow THEN v = s ELSE Deficiency(G, v) < 0
ShortestTo(walks, d, v) ==
  {w \in walks : /\ To(G, w) = v /\ Excess(From(G, w)) /\ d[From(G, w)] # InfFloat
                 /\ d[From(G, w)] + WalkLength(G, w) = d[v]
                 /\ \A i \in DOMAIN w : ~Excess(EndNode(G, w[i]))}

(* Mutant: the whole path capacity is used, whatever the end nodes need.     *)
AmountPath(w) == FindCap(G, w)
Amount(w) ==
  Min({FindCap(G, w)} \union
      IF proc \in STFlow THEN {deficit}
      ELSE {Deficiency(G, To(G, w)), -Deficiency(G, From(G, w))})

AugmentShortest ==
  /\ Searching
  /\ SearchBound
  /\ \E walks \in {Walks(G, ResArcs(G))} : \E d \in {Distances(G, walks, Sources)} :
     \E v \in {u \in Targets : d[u] # InfFloat /\ \A w \in Targets : d[u] <= d[w]} :
     \E w \in ShortestTo(walks, d, v) :
       LET g == Augment(G, w, Amount(w)) IN
       /\ dist' = d
       /\ G' = IF proc = "ST_SAP" THEN g ELSE UpdatePotentials(g, d, d[v])
       /\ deficit' = IF proc = "CAPA" THEN deficit ELSE deficit - Amount(w)
  /\ UNCHANGED <<proc, step, running, ret>>

NoPath ==
  /\ Searching
  /\ \E d \in {Distances(G, Walks(G, ResArcs(G)), Sources)} :
       /\ \A v \in Targets : d[v] = InfFloat
       /\ dist' = d
  /\ IF proc \in STFlow
     THEN SetBounds(InfFloat, InfFloat) /\ Returns(InfFloat)
     ELSE SearchBound /\ step' = "phase" /\ UNCHANGED ret
  /\ UNCHANGED <<proc, G, running, deficit>>

EndPaths ==
  /\ step = "path" /\ ~Searching
  /\ step' = IF proc \in STFlow THEN "report" ELSE "phase"
  /\ UNCHANGED <<proc, G, running, timerVars, ret, dist, deficit>>

(* Mutant: the threshold is rounded up.                                      *)
HalvedUp(delta) == (delta + 1) \div 2
Halved(delta) == delta \div 2
NextPhase ==
  /\ step = "phase"
  /\ G' = [G EXCEPT !.delta = Halved(@)]
  /\ step' = IF G.delta = 0 \/ ~running THEN "report" ELSE "saturate"
  /\ UNCHANGED <<proc, running, timerVars, ret, dist, deficit>>

(* A pseudoflow that is left is taken for a sign that there is no b-flow.    *)
(* BusackerGowen computes potentials for the flow it has found, and takes    *)
(* what labels there are if a negative cycle was out of the source's reach.  *)
FinalLabels(g, walks) ==
  IF NegativeCycles(g, walks) = {} THEN {Distances(g, walks, Node)} ELSE CycleLabels
FinalNetworks ==
  LET plain == [G EXCEPT !.potential = NoLabels] IN
  IF proc = "ST_SAP"
  THEN {UpdatePotentials(plain, d, InfFloat) : d \in FinalLabels(plain, Walks(plain, ResArcs(plain)))}
  ELSE {[G EXCEPT !.delta = 0]}
Report ==
  /\ step = "report"
  /\ G' \in FinalNetworks
  /\ IF proc \in Pseudo /\ ~IsBFlow(G)
     THEN SetBounds(InfFloat, InfFloat) /\ Returns(InfFloat)
     ELSE SetBounds(DualObjective(G'), Weight(G)) /\ Returns(Weight(G))
  /\ UNCHANGED <<proc, running, dist, deficit>>

FlowWork ==
  \/ Infeasible \/ AdmissibleBFlow
  \/ EnterCycles \/ CancelCycle \/ NoCycle \/ LeaveCycles
  \/ EnterScaling \/ Saturate \/ EnterDijkstra \/ EnterBusackerGowen
  \/ AugmentShortest \/ NoPath \/ EndPaths \/ NextPhase \/ Report

-------------------------------------------------------------------------------
Ended == step \in {"done", "aborted", "rejected"}

(* The flow never leaves its bounds, and the bounds never cross.             *)
CostTypeOK ==
  /\ proc \in BFlow \union Pseudo \union STFlow /\ running \in BOOLEAN
  /\ \A e \in Edge : G.sub[e] \in 0 .. G.ucap[e]
  /\ DOMAIN G.potential \in {{}, Node} /\ \A v \in DOMAIN G.potential : G.potential[v] \in Int
  /\ lower \in -InfFloat .. InfFloat /\ upper \in lower .. InfFloat
  /\ deficit \in Int /\ (proc # "SAP" => deficit >= 0) /\ G.delta \in Nat

(* MCF_CapacityScaling, MCF_EdmondsKarp: the searches of Dijkstra never meet *)
(* an arc of negative reduced length.  For MCF_EdmondsKarp this is said of   *)
(* the calls of CostCallsAssumption only: it is not so if there are          *)
(* potentials but not compatible ones, or none and nodes out of reach of the *)
(* source, both of which abstractMixedGraph.h:3330 admits.                   *)
SlacknessKept == step = "path" /\ proc # "ST_SAP" => Slack(G)
================================================================================
