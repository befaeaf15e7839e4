------------------------------- MODULE MCMinCost -------------------------------
(****************************************************************************)
(* The minimum cost flow solver on small networks.  best is the weight of a  *)
(* minimum cost b-flow, by enumeration: the reference for the results.       *)
(****************************************************************************)
EXTENDS NetworkSimplex

VARIABLES
  best,
  slackened      \* no residual arc of the call's network was negative

Unlimited == \E e \in Edge : G.ucap[e] = InfCap
MinWeight(g) == Least({InfFloat} \union {Weight(h) : h \in BFlows(g)})

-------------------------------------------------------------------------------
Const(c) == [e \in Edge |-> c]
Selections(places) ==
  LET increasing == {f \in [Edge -> DOMAIN places] : \A e \in 1 .. m - 1 : f[e - 1] < f[e]}
  IN {[e \in Edge |-> places[f[e]]] : f \in increasing}
Places == << <<0, 1>>, <<0, 2>>, <<1, 2>>, <<2, 1>>, <<1, 3>>, <<2, 3>>, <<3, 0>>, <<3, 1>> >>
Skeletons == {ends \in Selections(Places) : ends[0][1] = 0}
Zigzag == [e \in Edge |-> << <<0, 1>>, <<0, 2>>, <<1, 2>>, <<1, 3>>, <<2, 3>> >>[e + 1]]

Lengths == {[e \in Edge |-> ((e * k + l) % 5) - 1] : k \in {1, 2}, l \in {0, 3}}
Capacities == {[e \in Edge |-> 1 + (e % 2)], [e \in Edge |-> 2 - (e % 2)]}
Demand(x) == [v \in Node |-> IF v = 0 THEN -x ELSE IF v = n - 1 THEN x ELSE 0]

Net(ends, len, caps, d) ==
  [ends |-> ends, length |-> len, ucap |-> caps, sub |-> Const(0), orientation |-> Const(1),
   potential |-> NoLabels, demand |-> d, delta |-> 0]
Nets(skeletons, lengths, caps, ds) ==
  {Net(ends, len, c, Demand(x)) : ends \in skeletons, len \in lengths, c \in caps, x \in ds}
With(p, g) == [g EXCEPT !.potential = p]

(* Every node can be reached from the source, as the st-flow methods want it, *)
(* and there may be potentials for which no arc is negative.                 *)
FromSource(g) == Distances(g, Walks(g, ResArcs(g)), {s})
Connected(g) == \A v \in Node : FromSource(g)[v] # InfFloat
Positive(g) == \A e \in Edge : RedLength(g, 2 * e) >= 0

(* Networks with arcs of infinite capacity, on which a cycle may be.         *)
Loops == {ends \in Skeletons : ends[1] = <<1, 2>> /\ ends[2] = <<2, 1>>}
Infinite == [e \in Edge |-> IF e \in {1, 2} THEN InfCap ELSE 1]

Call(p, x, gs) == {[proc |-> p, pricing |-> x, G |-> g] : g \in gs}
MCCostCalls ==
  LET small == Nets({Zigzag}, Lengths, Capacities, {0, 1, 2})
      large == Nets(Skeletons, {[e \in Edge |-> ((2 * e + 3) % 5) - 1]}, {[e \in Edge |-> 1 + (e % 2)]}, {0, 1, 3})
      infinite == Nets(Loops, {[e \in Edge |-> x + (e % 2)] : x \in {-1, 0}}, {Infinite}, {0, 1})
      finite == {g \in small \union large : Connected(g)}
      slack == {h \in {With(FromSource(g), g) : g \in finite} : Positive(h)}
  IN UNION {Call("SIMPLEX", x, small) : x \in 0 .. 3}
     \union UNION {Call("SIMPLEX", x, large \union infinite) : x \in {0, 1}}
     \union Call("CYCLE", 0, large \union infinite)
     \union Call("CAPA", 0, Nets({Zigzag}, Lengths, {[e \in Edge |-> 3 - (e % 3)]}, {2, 4}))
     \union Call("CAPA", 0, small \union large \union {With([v \in Node |-> v], g) : g \in small})
     \union Call("SAP", 0, slack \union small \union large)
     \union UNION {Call(p, 0, {g \in finite \union slack : g.demand[t] > 0}) : p \in STFlow}

-------------------------------------------------------------------------------
reference == <<best, slackened>>
MCInit == Init /\ best = MinWeight(G) /\ slackened = Slack(G)
MCNext == Next /\ UNCHANGED reference
MCSpec == MCInit /\ [][MCNext]_<<vars, reference>> /\ WF_<<vars, reference>>(Work /\ UNCHANGED reference)

-------------------------------------------------------------------------------
(* The flow respects the capacities at every step, the bounds of the timer   *)
(* do not cross, the candidates of the simplex method fit in their arrays.   *)
TypeOK == SimplexTypeOK

(* networkSimplex: pred, depth and thread describe one forest whenever the   *)
(* next pivot is chosen, and it is strongly feasible.                        *)
BasisValid == IndicesAgree /\ StronglyFeasible

(* MCF_CapacityScaling(false) counts defPlus before it saturates the arcs of *)
(* negative reduced length, and stops when it has sent that much: a flow it  *)
(* leaves unbalanced is then reported as an infeasible problem, against      *)
(* abstractMixedGraph.h:3355.                                                *)
GivesUp == proc = "SAP" /\ ~slackened /\ step = "done" /\ ret = InfFloat

(* MinCostBFlow, MinCostSTFlow: the bounds enclose the minimum weight, and a *)
(* call that is not stopped returns it, with potentials that prove it.  Two  *)
(* cases are left out: arcs of infinite capacity, and the infeasibility that *)
(* SAP may report of a network with negative residual arcs (GivesUp); a      *)
(* finite value is the minimum there too.  The calls of the st-flow methods  *)
(* are on networks where the source reaches every node.                      *)
CostMinimal ==
  ~Unlimited /\ running /\ ~GivesUp =>
    /\ step = "aborted" => proc = "ST_SAP"
    /\ step # "call" => lower <= best /\ best <= upper
    /\ step = "done" =>
         /\ ret = best /\ lower = best /\ upper = best
         /\ best # InfFloat => /\ IsBFlow(G)
                               /\ \A a \in Arc : Res(a) > 0 => Red(a) >= 0

(* MCF_CycleCanceling, MCF_NWSimplex: no step makes the flow more expensive. *)
CostFalls ==
  [][(proc \in BFlow /\ step # "call") => Weight(G') <= Weight(G)]_<<vars, reference>>

(* Every call comes to an end; a pivot that moves no flow cannot repeat.     *)
CostEnds == <>Ended
================================================================================
