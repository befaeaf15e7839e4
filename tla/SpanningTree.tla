------------------------------ MODULE SpanningTree ------------------------------
(****************************************************************************)
(* Minimum and maximum spanning trees (lib_src/solveMinTree.cpp): one call   *)
(* of abstractMixedGraph::MinTree with the methods                           *)
(*   PRIM     with a search for the next node                                *)
(*   PRIM2    with a heap, the only one of the two that minds mandatory arcs *)
(*   KRUSKAL  greedy, with a disjoint set family                             *)
(*   EDMONDS  arborescences, shrinking cycles in a nested family             *)
(* for trees, and for one-cycle trees: a tree without the root, and two arcs *)
(* that join the root to it (an arborescence and an arc into the root).      *)
(* MST_REDUCED only replaces the length labels.  Heaps and incidence lists   *)
(* are read in any order that their contract allows; the set families are    *)
(* used as DisjointFamily and NestedFamily show them to behave.              *)
(****************************************************************************)
EXTENDS Shrinking, Sequences

CONSTANT TreeCalls    \* the calls: records of proc, max, oneCycle, r and G,
                      \* where G has the lower capacities lcap, too
VARIABLES
  job,                \* the call
  phase,              \* where it is
  dst, pred,          \* distance labels; predecessor arcs (inArc in MST_Edmonds)
  open,               \* what is on the heap: nodes (Prim) or edges (Kruskal)
  rank, sum,          \* nodes explored or arcs chosen, and their length
  sub,                \* the edges of the subgraph
  around,             \* the set around each node; the block of each node (Kruskal)
  lists, modLength,   \* Edmonds: arcs into each node or shrunk cycle, lengths
  scan, nCycles       \*   the next node to scan, the number of shrunk cycles

treeVars == <<job, phase, dst, pred, open, rank, sum, sub, around, lists, modLength, scan, nCycles>>
listVars == <<lists, modLength, scan, nCycles>>

G == job.G
r == job.r
Sign(x) == IF job.max THEN -x ELSE x
Length2(a) == Length(G, a)         \* MST_Length
LCap(a) == G.lcap[EdgeOf(a)]
Mandatory == \E e \in Edge : G.lcap[e] > 0
Lowest(S, f(_)) == {x \in S : \A y \in S : f(x) <= f(y)}
One(S) == CHOOSE x \in S : TRUE
Total(S) ==  \* the length of a set of edges
  LET T[k \in 0 .. m] == IF k = 0 THEN 0 ELSE T[k - 1] + (IF k - 1 \in S THEN G.length[k - 1] ELSE 0)
  IN T[m]

Start(c) ==
  /\ job = c
  /\ phase = "call"
  /\ dst = [v \in Node |-> 0] /\ pred = [x \in Item |-> NoArc]
  /\ open = {} /\ rank = 0 /\ sum = 0 /\ sub = {}
  /\ around = [x \in Item |-> Top]
  /\ lists = [x \in Item |-> {}] /\ modLength = [a \in Arc |-> 0]
  /\ scan = 0 /\ nCycles = 0
Init == \E c \in TreeCalls : Start(c)

(* MinTree: Edmonds only applies to one-cycle trees and mandatory arcs if    *)
(* the graph is directed.                                                    *)
Method ==
  IF job.proc = "EDMONDS" /\ (job.oneCycle \/ Mandatory) /\ ~IsDirected(G) THEN "KRUSKAL"
  ELSE IF job.proc = "PRIM" /\ Mandatory THEN "PRIM2"
  ELSE job.proc

Stuck == sum' = Sign(InfFloat) /\ phase' = "done"

-------------------------------------------------------------------------------
(* The two arcs of the root on the cycle.                                    *)
Better(a, b) == Sign(Length2(a)) < Sign(Length2(b))
RootArcs == {a \in Incidences(G, r) : EndNode(G, a) # r /\ UCap(G, a) > 0}
Orders(S) ==  \* the incidence list, forward and backward
  LET up == SelectSeq([i \in 1 .. 2 * m |-> i - 1], LAMBDA a : a \in S)
  IN {up, [i \in DOMAIN up |-> up[Len(up) + 1 - i]]}

(* Mutant: a better arc takes the place of the best one, which is forgotten. *)
TwoArcsForgetful(order, fixed) ==
  LET R[i \in 0 .. Len(order)] ==
        IF i = 0 THEN <<NoArc, NoArc>>
        ELSE LET p == R[i - 1]
                 a == order[i]
             IN CASE p[1] = NoArc -> <<a, NoArc>>
                  [] p[1] # NoArc /\ Better(a, p[1]) -> <<a, p[2]>>
                  [] OTHER -> IF p[2] = NoArc \/ Better(a, p[2]) THEN <<p[1], a>> ELSE p
  IN R[Len(order)]
TwoArcs(order, fixed) ==
  LET R[i \in 0 .. Len(order)] ==
        IF i = 0 THEN <<NoArc, NoArc>>
        ELSE LET p == R[i - 1]
                 a == order[i]
                 Beats(b) == IF b = NoArc THEN TRUE ELSE Better(a, b) /\ b \notin fixed
             IN IF p[1] = NoArc \/ a \in fixed \/ Beats(p[1]) THEN <<a, p[1]>>
                ELSE IF Beats(p[2]) THEN <<p[1], a>> ELSE p
  IN R[Len(order)]

-------------------------------------------------------------------------------
(* Prim.                                                                     *)

EnterPrim ==
  /\ phase = "call" /\ Method \in {"PRIM", "PRIM2"}
  /\ LET far == [v \in Node |-> Sign(InfFloat)] IN
     IF job.oneCycle
     THEN \E order \in Orders(RootArcs) :
            LET two == TwoArcs(order, {a \in Arc : LCap(a) > 0})
                r2 == EndNode(G, two[1])
            IN IF two[2] = NoArc
               THEN Stuck /\ UNCHANGED <<dst, pred, open, rank>>
               ELSE /\ pred' = [pred EXCEPT ![r2] = two[1], ![r] = Twin(two[2])]
                    /\ dst' = [far EXCEPT ![r] = -Sign(InfFloat), ![r2] = 0]
                    /\ sum' = Length2(two[1]) + Length2(two[2])
                    /\ rank' = 1 /\ open' = {r2} /\ phase' = "grow"
     ELSE /\ dst' = [far EXCEPT ![r] = 0]
          /\ open' = {r} /\ phase' = "grow"
          /\ UNCHANGED <<pred, sum, rank>>
  /\ UNCHANGED <<job, sub, around, listVars>>

(* The nodes that may be explored next: the first of those with the least    *)
(* label, or any with the least key on the heap.                             *)
Nearest ==
  IF Method = "PRIM2" THEN Lowest(open, LAMBDA v : Sign(dst[v]))
  ELSE LET near == Lowest({v \in Node : dst[v] # -Sign(InfFloat)}, LAMBDA v : Sign(dst[v]))
       IN {v \in Lowest(near, LAMBDA v : v) : dst[v] # Sign(InfFloat)}

Key(a) == IF Method = "PRIM2" /\ LCap(a) > 0 THEN -Sign(InfFloat) ELSE Length2(a)
(* Mutant: arcs without capacity are used.                                   *)
ImprovingAny(u, v) ==
  {a \in Incidences(G, u) : EndNode(G, a) = v /\ Sign(dst[v]) > Sign(Key(a))}
(* The arcs from u to v that improve the label of v.                         *)
Improving(u, v) ==
  {a \in Incidences(G, u) : EndNode(G, a) = v /\ UCap(G, a) > 0 /\ Sign(dst[v]) > Sign(Key(a))}

(* In MST_Prim the start node has no predecessor, or one that is counted.    *)
Explore ==
  /\ phase = "grow"
  /\ \E u \in Nearest :
       LET first == open = {u} /\ rank = (IF job.oneCycle THEN 1 ELSE 0)
           d == [dst EXCEPT ![u] = -Sign(InfFloat)]
           new == {v \in Node \ {u} : Improving(u, v) # {}}
           BestArc(v) == One(Lowest(Improving(u, v), LAMBDA a : Sign(Key(a))))
       IN /\ sum' = sum + (IF Method = "PRIM" THEN dst[u] ELSE IF first THEN 0 ELSE Length2(pred[u]))
          /\ rank' = rank + 1
          /\ dst' = [v \in Node |-> IF v \in new THEN Key(BestArc(v)) ELSE d[v]]
          /\ pred' = [x \in DOMAIN pred |-> IF x \in new THEN BestArc(x) ELSE pred[x]]
          /\ open' = (open \ {u}) \union new
  /\ UNCHANGED <<job, phase, sub, around, listVars>>

(* The tree covers all nodes, or there is none.                              *)
EndPrim ==
  /\ phase = "grow" /\ Nearest = {}
  /\ IF rank < n THEN Stuck ELSE phase' = "done" /\ UNCHANGED sum
  /\ sub' = {EdgeOf(pred[v]) : v \in {w \in Node : pred[w] # NoArc}}
  /\ UNCHANGED <<job, dst, pred, open, rank, around, listVars>>

-------------------------------------------------------------------------------
(* Kruskal.  around[v] names the block of node v.                            *)

Ends(e) == {G.ends[e][1], G.ends[e][2]}
Merged(b, e) ==
  [x \in DOMAIN b |-> IF x \in Node /\ b[x] = b[G.ends[e][1]] THEN b[G.ends[e][2]] ELSE b[x]]

(* The mandatory arcs come first; a cycle of them is an error.  Subgraphs    *)
(* hold the mandatory arcs from the start (InitSubgraph).                    *)
EnterKruskal ==
  /\ phase = "call" /\ Method = "KRUSKAL"
  /\ LET fixed == {e \in Edge : G.lcap[e] > 0 /\ (job.oneCycle => r \notin Ends(e))}
         B[k \in 0 .. m] ==
           IF k = 0 THEN <<[x \in Item |-> x], FALSE>>
           ELSE LET b == B[k - 1] IN
                IF k - 1 \notin fixed THEN b
                ELSE <<Merged(b[1], k - 1), b[2] \/ b[1][G.ends[k - 1][1]] = b[1][G.ends[k - 1][2]]>>
     IN IF B[m][2] THEN Stuck /\ UNCHANGED <<around, rank, open>>
        ELSE /\ around' = B[m][1]
             /\ sum' = Total(fixed) /\ rank' = Cardinality(fixed)
             /\ open' = {e \in Edge : G.length[e] # Sign(InfFloat) /\ G.ucap[e] > 0}
             /\ phase' = "greedy"
  /\ sub' = {e \in Edge : G.lcap[e] > 0}
  /\ UNCHANGED <<job, dst, pred, listVars>>

(* Mutant: the root takes part in the tree of a one-cycle tree.              *)
JoinsRoot(e) == around[G.ends[e][1]] # around[G.ends[e][2]]
Joins(e) ==
  LET Bu == around[G.ends[e][1]]
      Bv == around[G.ends[e][2]]
  IN Bu # Bv /\ (job.oneCycle => Bu # r /\ Bv # r)

TakeEdge ==
  /\ phase = "greedy" /\ open # {} /\ rank < n - 1
  /\ \E e \in Lowest(open, LAMBDA x : Sign(G.length[x])) :
       /\ open' = open \ {e}
       /\ IF Joins(e)
          THEN /\ around' = Merged(around, e) /\ sub' = sub \union {e}
               /\ sum' = sum + G.length[e] /\ rank' = rank + 1
          ELSE UNCHANGED <<around, sub, sum, rank>>
  /\ UNCHANGED <<job, phase, dst, pred, listVars>>

(* The two best arcs of the root, which mandatory arcs then displace.        *)
Displaced(two, order) ==
  LET R[i \in 0 .. Len(order)] ==
        IF i = 0 THEN <<two[1], two[2], 0>>
        ELSE LET p == R[i - 1]
                 a == order[i]
             IN IF LCap(a) > 0 /\ a # p[1] /\ a # p[2] THEN <<a, p[1], p[3] + 1>> ELSE p
  IN R[Len(order)]

EndKruskal ==
  /\ phase = "greedy" /\ (open = {} \/ rank >= n - 1)
  /\ IF job.oneCycle
     THEN IF rank < n - 2 THEN Stuck /\ UNCHANGED <<sub, rank>>
          ELSE \E order \in Orders(Incidences(G, r)) :
                 LET two == Displaced(TwoArcs(SelectSeq(order, LAMBDA a : a \in RootArcs), {}), order)
                 IN IF two[3] > 2 \/ two[2] = NoArc THEN Stuck /\ UNCHANGED <<sub, rank>>
                    ELSE /\ sub' = sub \union {EdgeOf(two[1]), EdgeOf(two[2])}
                         /\ sum' = sum + Length2(two[1]) + Length2(two[2])
                         /\ rank' = rank + 2 /\ phase' = "done"
     ELSE /\ IF rank < n - 1 THEN Stuck ELSE phase' = "done" /\ UNCHANGED sum
          /\ UNCHANGED <<sub, rank>>
  /\ UNCHANGED <<job, dst, pred, open, around, listVars>>

-------------------------------------------------------------------------------
(* Edmonds.                                                                  *)

Set(x) == Outermost(around, x)
Tail2(a) == TailSet(G, around, a)

EnterEdmonds ==
  /\ phase = "call" /\ Method = "EDMONDS"
  /\ modLength' = [a \in Arc |-> IF LCap(a) = 0 THEN Length2(a) ELSE -Sign(InfFloat)]
  /\ lists' = [x \in Item |->
                {a \in Arc : /\ EndNode(G, a) = x /\ x # r /\ StartNode(G, a) # x
                             /\ ~Blocking(G, a) /\ UCap(G, a) > 0}]
  /\ phase' = "choose"
  /\ UNCHANGED <<job, dst, pred, open, rank, sum, sub, around, scan, nCycles>>

Pending == {x \in scan .. n + nCycles - 1 : x # r /\ Set(x) = x}

(* An entering arc for the next node or shrunk cycle.  The walk back from    *)
(* its tail shows whether it closes a cycle.                                 *)
ChooseArc ==
  /\ phase = "choose" /\ Pending # {}
  /\ LET v == One(Lowest(Pending, LAMBDA x : x))
         best == Lowest(lists[v], LAMBDA a : Sign(modLength[a]))
     IN /\ \E a \in best :
             /\ modLength[a] # Sign(InfFloat)
             /\ pred' = [pred EXCEPT ![v] = a]
             /\ scan' = v + 1
             /\ IF v \in Way(G, around, pred', Tail2(a), v)
                THEN phase' = "shrink" /\ UNCHANGED rank
                ELSE rank' = rank + 1 /\ UNCHANGED phase
  /\ UNCHANGED <<job, dst, open, sum, sub, around, lists, modLength, nCycles>>

(* All nodes have an entering arc, or one cannot have any.                   *)
EndChoice ==
  /\ phase = "choose"
  /\ Pending # {} =>
       LET v == One(Lowest(Pending, LAMBDA x : x))
       IN \A a \in Lowest(lists[v], LAMBDA b : Sign(modLength[b])) : modLength[a] = Sign(InfFloat)
  /\ phase' = "expand"
  /\ UNCHANGED <<job, dst, pred, open, rank, sum, sub, around, listVars>>

(* Mutant: the arcs into a shrunk cycle keep their lengths.                  *)
ExchangedFree(a, w) == modLength[a]
(* The length of an arc into the cycle at w, which then replaces the arc     *)
(* that enters w.  Infinite lengths absorb finite ones.                      *)
Exchanged(a, w) ==
  CASE modLength[a] = -Sign(InfFloat) -> modLength[a]
    [] modLength[a] # -Sign(InfFloat) /\ modLength[pred[w]] = -Sign(InfFloat) -> Sign(InfFloat)
    [] OTHER -> IF modLength[a] = Sign(InfFloat) THEN modLength[a]
                ELSE modLength[a] - Sign(modLength[pred[w]])

ShrinkCycle ==
  /\ phase = "shrink"
  /\ LET v == scan - 1
         on == Way(G, around, pred, Tail2(pred[v]), v)
         cycle == n + nCycles
         In(w) == {a \in lists[w] : Tail2(a) \notin on}
     IN /\ lists' = [x \in DOMAIN lists |-> IF x = cycle THEN UNION {In(w) : w \in on}
                                           ELSE IF x \in on THEN {} ELSE lists[x]]
        /\ modLength' = [a \in Arc |-> IF \E w \in on : a \in In(w)
                                       THEN Exchanged(a, Set(EndNode(G, a))) ELSE modLength[a]]
        /\ around' = [x \in DOMAIN around |-> IF x \in on THEN cycle ELSE around[x]]
  /\ nCycles' = nCycles + 1
  /\ phase' = "choose"
  /\ UNCHANGED <<job, dst, pred, open, rank, sum, sub, scan>>

(* The last cycle is expanded: the arc that enters it breaks it up; without  *)
(* such an arc, it loses its worst one.                                      *)
ExpandCycle ==
  /\ phase = "expand" /\ nCycles > 0
  /\ LET c == n + nCycles - 1
         f == Opened(around, c)
     IN /\ around' = f
        /\ IF pred[c] = NoArc
           THEN \E w \in Lowest(Members(around, c), LAMBDA x : -Sign(modLength[pred[x]])) :
                  pred' = [pred EXCEPT ![w] = NoArc]
           ELSE pred' = [pred EXCEPT ![Outermost(f, EndNode(G, pred[c]))] = pred[c]]
  /\ nCycles' = nCycles - 1
  /\ UNCHANGED <<job, phase, dst, open, rank, sum, sub, lists, modLength, scan>>

(* An arc into the root closes the cycle of a one-cycle tree.                *)
EndEdmonds ==
  /\ phase = "expand" /\ nCycles = 0
  /\ LET into == {a \in Arc : /\ EndNode(G, a) = r /\ StartNode(G, a) # r
                              /\ ~Blocking(G, a) /\ UCap(G, a) > 0}
         best == Lowest(into, LAMBDA a : Sign(modLength[a]))
     IN \E p \in IF job.oneCycle /\ into # {} THEN {[pred EXCEPT ![r] = a] : a \in best} ELSE {pred} :
          LET chosen == {EdgeOf(p[v]) : v \in {w \in Node : p[w] # NoArc}}
          IN /\ pred' = p /\ sub' = chosen
             /\ rank' = rank + (IF p = pred THEN 0 ELSE 1)
             /\ IF rank' # (IF job.oneCycle THEN n ELSE n - 1) THEN Stuck
                ELSE sum' = Total(chosen) /\ phase' = "done"
  /\ UNCHANGED <<job, dst, open, around, listVars>>

Step ==
  \/ EnterPrim \/ Explore \/ EndPrim
  \/ EnterKruskal \/ TakeEdge \/ EndKruskal
  \/ EnterEdmonds \/ ChooseArc \/ EndChoice \/ ShrinkCycle \/ ExpandCycle \/ EndEdmonds
Next == Step
Spec == Init /\ [][Next]_treeVars /\ WF_treeVars(Step)

-------------------------------------------------------------------------------
(* Reference: the sets of edges that are solutions, and their best length.   *)

Usable == {e \in Edge : G.ucap[e] > 0}
Linked(E, N) ==  \* the edges E join the nodes N
  LET near[k \in 0 .. n] ==
        IF k = 0 THEN {One(N)}
        ELSE UNION {S \union UNION {Ends(e) : e \in {x \in E : Ends(x) \intersect S # {}}} :
                    S \in {near[k - 1]}}
  IN N \subseteq near[n]
IsTree(E, N) == Cardinality(E) = Cardinality(N) - 1 /\ Linked(E, N)
AtRoot(E) == {e \in E : r \in Ends(e)}

IsArborescence(E) ==  \* one arc into every node but r, and all reached from r
  /\ \A v \in Node \ {r} : Cardinality({e \in E : G.ends[e][2] = v}) = 1
  /\ IsTree(E, Node)

IsSolution(E) ==
  /\ \A e \in Edge : G.lcap[e] > 0 => e \in E
  /\ IF Method = "EDMONDS" /\ IsDirected(G)
     THEN IF job.oneCycle
          THEN \E e \in E : G.ends[e][2] = r /\ G.ends[e][1] # r /\ IsArborescence(E \ {e})
          ELSE IsArborescence(E)
     ELSE IF job.oneCycle
          THEN /\ Cardinality(AtRoot(E)) = 2 /\ \A e \in AtRoot(E) : Ends(e) # {r}
               /\ IsTree(E \ AtRoot(E), Node \ {r})
          ELSE IsTree(E, Node)
Solutions == {E \in SUBSET Usable : IsSolution(E)}
Best == Lowest(Solutions, LAMBDA E : Sign(Total(E)))

(* Two cases in which the code is known to miss the optimum: arborescences   *)
(* of maximum length with a shrunk cycle, and one-cycle trees with mandatory *)
(* arcs at the root.                                                         *)
Covered ==
  /\ ~(Method = "EDMONDS" /\ job.max)
  /\ Method = "KRUSKAL" /\ job.oneCycle => \A e \in AtRoot(Edge) : G.lcap[e] = 0

TreeTypeOK ==
  /\ phase \in {"call", "grow", "greedy", "choose", "shrink", "expand", "done"}
  /\ \A v \in Node : dst[v] \in -InfFloat .. InfFloat
  /\ \A x \in DOMAIN pred : pred[x] \in Arc \union {NoArc}
  /\ rank \in 0 .. n /\ sum \in Int /\ sub \subseteq Edge
  /\ nCycles \in 0 .. n - 1 /\ scan \in 0 .. 2 * n
  /\ \A x \in DOMAIN around : around[x] \in 0 .. Top
  /\ \A x \in DOMAIN lists : lists[x] \subseteq Arc

(* A call ends with a best solution, or finds out that there is none.  That  *)
(* no tree has all mandatory arcs is noticed by Kruskal only.                *)
Finished ==
  phase = "done" => IF Solutions = {} THEN sum = Sign(InfFloat) \/ (Mandatory /\ Method # "KRUSKAL")
                    ELSE sub \in Best /\ sum = Total(sub)
TreeBest == Covered => Finished

(* The greedy choices are never regretted: what Prim and Kruskal have chosen *)
(* at any time is part of a best solution.                                   *)
Explored == {v \in Node : dst[v] = -Sign(InfFloat) /\ v \notin open}
TreePromising ==
  Covered /\ Solutions # {} =>
    /\ phase = "greedy" => \E E \in Best : {e \in sub : ~(job.oneCycle /\ r \in Ends(e))} \subseteq E
    /\ phase = "grow" => \E E \in Best : \A v \in Explored : pred[v] # NoArc => EdgeOf(pred[v]) \in E

(* Every call comes to an end.                                               *)
TreeEnds == <>(phase = "done")
================================================================================
