------------------------------ MODULE FlowNetwork ------------------------------
(****************************************************************************)
(* What the flow solvers do with a digraph: flow is pushed along arcs, the   *)
(* divergences follow.  Lower capacities are zero.                           *)
(****************************************************************************)
EXTENDS Network, Sequences, FiniteSetsExt, SequencesExt

CONSTANT InfCap      \* the capacity that stands for infinity, a number

(* The sum of f[0], ..., f[k-1], and of f over a set of nodes, edges or arcs. *)
SumBelow(f, k) == LET T[i \in 0 .. k] == IF i = 0 THEN 0 ELSE T[i - 1] + f[i - 1] IN T[k]
SumOver(f, S) == SumBelow([x \in 0 .. n + 2 * m - 1 |-> IF x \in S THEN f[x] ELSE 0], n + 2 * m)
Least(S) == CHOOSE x \in S : \A y \in S : x <= y
Greatest(S) == CHOOSE x \in S : \A y \in S : x >= y

(* The members of the set S, in the order of the sequence q.                 *)
InOrder(q, S) ==
  LET Chosen[k \in 0 .. Len(q)] ==
        IF k = 0 THEN <<>>
        ELSE IF q[k] \in S THEN Append(Chosen[k - 1], q[k]) ELSE Chosen[k - 1]
  IN Chosen[Len(q)]
NodeOrder == [i \in 1 .. n |-> i - 1]
ArcOrder == [i \in 1 .. 2 * m |-> i - 1]

(* A digraph without loops and with lower capacities zero.                   *)
IsNetwork(g) ==
  /\ g \in [ends : [Edge -> Node \X Node], orientation : [Edge -> {1}],
            ucap : [Edge -> 0 .. InfCap], sub : [Edge -> Nat], delta : Nat]
  /\ \A e \in Edge : g.ends[e][1] # g.ends[e][2] /\ g.sub[e] <= g.ucap[e]
  /\ SumBelow(g.ucap, m) <= InfFloat

Pushed(g, a, lambda) == [g EXCEPT !.sub[EdgeOf(a)] = IF Backward(a) THEN @ - lambda ELSE @ + lambda]

(* DegIn(v)-DegOut(v)                                                        *)
Divergence(g, v) ==
  SumBelow([e \in Edge |-> (IF g.ends[e][2] = v THEN g.sub[e] ELSE 0)
                           - (IF g.ends[e][1] = v THEN g.sub[e] ELSE 0)], m)

(* FindCap and Augment for a path or cycle, a sequence of arcs.              *)
FindCap(g, path) == Least({ResCap(g, path[i]) : i \in DOMAIN path})
Augment(g, path, lambda) ==
  LET H[i \in 0 .. Len(path)] == IF i = 0 THEN g ELSE Pushed(H[i - 1], path[i], lambda)
  IN H[Len(path)]
================================================================================
