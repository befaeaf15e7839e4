----------------------------- MODULE NetworkSimplex -----------------------------
(****************************************************************************)
(* The network simplex method: MCF_NWSimplex (lib_src/solveMCFlow.cpp) with  *)
(* its two preparations and the class networkSimplex.  The spanning forest   *)
(* is kept by three indices: pred, the arc from the parent of a node; depth; *)
(* and thread, which links the nodes of each tree in preorder.  Incidences   *)
(* are read in the order of the arc indices.                                 *)
(****************************************************************************)
EXTENDS MinCostFlow, Shrinking

CONSTANTS
  K, J             \* arcs per list, and the number of candidates to keep (k=30, j=5)
ASSUME PricingAssumption == K \in Nat \ {0} /\ J \in Nat

VARIABLES
  pricing,         \* CT.methLPPricing
  free,            \* the search for free cycles: its root and node, unread, pred
  shr,             \* the shrinking family: queue, count, inArc, around, nCycles
  pred, depth, thread,
  list,            \* hotList and nextList
  piv              \* the pivot operation

simplexVars == <<pricing, free, shr, pred, depth, thread, list, piv>>
treeVars == <<pred, depth, thread>>

Res(a) == ResCap(G, a)
TailOf(a) == StartNode(G, a)
HeadOf(a) == EndNode(G, a)
ByIndex(S) == SelectSeq(ArcOrder, LAMBDA a : a \in S)
NoPreds == [v \in Node |-> NoArc]
NoPivot == [enter |-> NoArc, stop |-> NoArc, v |-> NoNode, a |-> NoArc, fs |-> NoNode, mu |-> 0]

(* An arc with residual capacity in both directions.                         *)
Free(a) == Res(a) > 0 /\ Res(Twin(a)) > 0

SimplexStart(c) ==
  /\ pricing = c.pricing
  /\ free = [r |-> 0, v |-> 0, unread |-> [v \in Node |-> Incidences(c.G, v)], pred |-> NoPreds]
  /\ shr = [queue |-> <<>>, count |-> 0, inArc |-> [x \in Item |-> NoArc],
            around |-> [x \in Item |-> Top], nCycles |-> 0]
  /\ pred = NoPreds /\ depth = [v \in Node |-> 0] /\ thread = [v \in Node |-> NoNode]
  /\ list = [hot |-> <<>>, next |-> 0]
  /\ piv = NoPivot

-------------------------------------------------------------------------------
(* MCF_NWSimplexCancelFree: a depth first search on free arcs; every cycle   *)
(* that closes is cancelled, in the direction that is not longer.            *)

Usable == {a \in free.unread[free.v] : Free(a) /\ free.pred[free.v] # Twin(a)}
SkippedTo(a) == {b \in free.unread[free.v] : b >= a}      \* Skip up to a
OnPath(u) == free.pred[u] # NoArc \/ u = free.r

Descend ==
  /\ step = "free" /\ Usable # {}
  /\ LET a == Least(Usable) IN
     /\ ~OnPath(HeadOf(a))
     /\ free' = [free EXCEPT !.pred[HeadOf(a)] = a, !.v = HeadOf(a), !.unread[free.v] = SkippedTo(a)]
  /\ UNCHANGED <<flowVars, pricing, shr, treeVars, list, piv>>

(* The arcs of the cycle that a closes, and the nodes they lead to.          *)
CycleOf(a) ==
  LET Back[v \in Node, k \in 0 .. n] ==
        IF v = HeadOf(a) \/ k = 0 THEN {} ELSE {free.pred[v]} \union Back[TailOf(free.pred[v]), k - 1]
  IN {a} \union Back[TailOf(a), n]

(* Mutant: the cycle is taken in the direction of the search.                *)
AlongSearch(cycle) == cycle
Along(cycle) ==
  LET length == SumOver([b \in Arc |-> IF Backward(b) THEN -Length(G, b) ELSE Length(G, b)], cycle)
  IN IF length > 0 THEN {Twin(b) : b \in cycle} ELSE cycle

CancelFree ==
  /\ step = "free" /\ Usable # {}
  /\ LET a == Least(Usable)
         cycle == CycleOf(a)
         along == ByIndex(Along(cycle))
         heads == {HeadOf(b) : b \in cycle} \ {HeadOf(a)}
     IN /\ OnPath(HeadOf(a))
        /\ G' = Augment(G, along, FindCap(G, along))
        /\ free' = [free EXCEPT !.pred = [v \in Node |-> IF v \in heads THEN NoArc ELSE @[v]],
                                !.v = HeadOf(a), !.unread[free.v] = SkippedTo(a)]
  /\ UNCHANGED <<proc, step, running, timerVars, ret, dist, deficit>>
  /\ UNCHANGED <<pricing, shr, treeVars, list, piv>>

Retreat ==
  /\ step = "free" /\ Usable = {} /\ free.v # free.r
  /\ LET w == TailOf(free.pred[free.v]) IN
     free' = [free EXCEPT !.pred[free.v] = NoArc, !.v = w,
                          !.unread = [@ EXCEPT ![free.v] = {}, ![w] = @ \ {Least(@)}]]
  /\ UNCHANGED <<flowVars, pricing, shr, treeVars, list, piv>>

(* Mutant: the arcs come in the order of their indices.                      *)
QueueByIndex == ByIndex({a \in Arc : Res(Twin(a)) > 0})
(* The arcs that can take flow back: the free ones come first.               *)
ShrinkQueue ==
  ByIndex({a \in Arc : Free(a)}) \o ByIndex({a \in Arc : Res(Twin(a)) > 0 /\ Res(a) = 0})

NextRoot ==
  /\ step = "free" /\ Usable = {} /\ free.v = free.r
  /\ IF free.r + 1 < n
     THEN /\ free' = [free EXCEPT !.r = @ + 1, !.v = free.r + 1, !.unread[free.r] = {}]
          /\ UNCHANGED <<step, shr>>
     ELSE /\ free' = [free EXCEPT !.unread[free.r] = {}]
          /\ shr' = [shr EXCEPT !.queue = ShrinkQueue, !.count = Len(ShrinkQueue)]
          /\ step' = "shrink"
  /\ UNCHANGED <<proc, G, running, timerVars, ret, dist, deficit>>
  /\ UNCHANGED <<pricing, treeVars, list, piv>>

-------------------------------------------------------------------------------
(* MCF_NWSimplexStrongTree: a maximum branching of these arcs.               *)

SetOf(x) == Outermost(shr.around, x)
SetFrom(a) == SetOf(TailOf(a))
SetInto(a) == SetOf(HeadOf(a))
Joins(a) == SetFrom(a) # SetInto(a) /\ shr.inArc[SetInto(a)] = NoArc
Hits == {i \in 1 .. shr.count : Joins(shr.queue[i])}

(* The next arc that enters a set without one; arcs inside of a set that     *)
(* come before it are dropped, others have to wait.  A cycle is shrunk.      *)
Enter ==
  /\ step = "shrink" /\ Hits # {}
  /\ LET k == Least(Hits)
         a == shr.queue[k]
         u == SetFrom(a)
         v == SetInto(a)
         wait == SelectSeq(SubSeq(shr.queue, 1, k - 1), LAMBDA b : SetFrom(b) # SetInto(b))
         queue == SubSeq(shr.queue, k + 1, Len(shr.queue)) \o wait
         way == Way(G, shr.around, shr.inArc, u, v)
         cycle == n + shr.nCycles
     IN shr' = IF v \in way
               THEN [queue |-> queue, count |-> Len(queue), inArc |-> [shr.inArc EXCEPT ![v] = a],
                     around |-> [x \in Item |-> IF x \in way THEN cycle ELSE shr.around[x]],
                     nCycles |-> shr.nCycles + 1]
               ELSE [shr EXCEPT !.queue = queue, !.count = @ - k, !.inArc[v] = a]
  /\ UNCHANGED <<flowVars, pricing, free, treeVars, list, piv>>

EndShrinking ==
  /\ step = "shrink" /\ Hits = {}
  /\ shr' = [shr EXCEPT !.queue = <<>>, !.count = 0]
  /\ step' = "expand"
  /\ UNCHANGED <<proc, G, running, timerVars, ret, dist, deficit>>
  /\ UNCHANGED <<pricing, free, treeVars, list, piv>>

(* The root of a cycle that no arc enters: a node with a saturated arc, if   *)
(* there is one, depending on where the walk around the cycle starts.        *)
Roots(members) ==
  LET saturated == {x \in members : Res(shr.inArc[x]) = 0}
  IN IF saturated = {} THEN members ELSE saturated

Expand ==
  /\ step = "expand" /\ shr.nCycles > 0
  /\ LET c == n + shr.nCycles - 1
         a == shr.inArc[c]
         around == Opened(shr.around, c)
     IN \E x \in IF a = NoArc THEN Roots(Members(shr.around, c)) ELSE {Outermost(around, HeadOf(a))} :
          shr' = [shr EXCEPT !.around = around, !.inArc = [@ EXCEPT ![x] = a, ![c] = NoArc],
                             !.nCycles = @ - 1]
  /\ UNCHANGED <<flowVars, pricing, free, treeVars, list, piv>>

(* InitThreadIndex, ComputePotentials.                                       *)
Children(p, v) == ByIndex({a \in Incidences(G, v) : p[HeadOf(a)] = a})
Preorder(p, v) ==
  LET Visit[u \in Node] == FoldLeft(LAMBDA q, a : q \o Visit[HeadOf(a)], <<u>>, Children(p, u))
  IN Visit[v]
FollowedBy(q, v) ==
  LET i == CHOOSE k \in DOMAIN q : q[k] = v IN IF i = Len(q) THEN NoNode ELSE q[i + 1]

Index ==
  /\ step = "expand" /\ shr.nCycles = 0
  /\ LET p == [v \in Node |-> shr.inArc[v]]
         Dep[v \in Node] == IF p[v] = NoArc THEN 0 ELSE 1 + Dep[TailOf(p[v])]
         Pot[v \in Node] ==
           IF p[v] = NoArc THEN 0
           ELSE Pot[TailOf(p[v])] + (IF Backward(p[v]) THEN -Length(G, p[v]) ELSE Length(G, p[v]))
         TreeRoot[v \in Node] == IF p[v] = NoArc THEN v ELSE TreeRoot[TailOf(p[v])]
     IN /\ pred' = p
        /\ depth' = [v \in Node |-> Dep[v]]
        /\ thread' = [v \in Node |-> FollowedBy(Preorder(p, TreeRoot[v]), v)]
        /\ G' = [G EXCEPT !.potential = [v \in Node |-> Pot[v]]]
  /\ SetBounds(DualObjective(G'), Weight(G))
  /\ step' = "price"
  /\ UNCHANGED <<proc, running, ret, dist, deficit, pricing, free, shr, list, piv>>

-------------------------------------------------------------------------------
(* PivotArc, with one of four rules: the arc, what is kept of the candidates *)
(* and where to go on.                                                       *)

Red(a) == RedLength(G, a)
Admits(a) == Res(a) > 0 /\ Red(a) < 0
Admitted(q) == {SelectSeq(q, Admits)}
Cheapest(q) ==     \* the first arc with the least reduced length
  LET low == Least({Red(a) : a \in ToSet(q)})
  IN IF q = <<>> THEN NoArc ELSE SelectSeq(q, LAMBDA a : Red(a) = low)[1]
Cyclic(k) == [i \in 1 .. 2 * m |-> (k + i - 1) % (2 * m)]

PivotArc(arc, hot, next) ==
  /\ step = "price"
  /\ list' = [hot |-> hot, next |-> next]
  /\ piv' = [NoPivot EXCEPT !.enter = arc]
  /\ step' = IF arc = NoArc \/ ~running THEN "final" ELSE "pivot"
  /\ UNCHANGED <<proc, G, running, timerVars, ret, dist, deficit>>
  /\ UNCHANGED <<pricing, free, shr, treeVars>>

DantzigPricing ==
  /\ step = "price" /\ pricing = 2
  /\ \E found \in Admitted(ArcOrder) : PivotArc(Cheapest(found), list.hot, list.next)

FirstEligiblePricing ==
  /\ step = "price" /\ pricing = 3
  /\ \E found \in Admitted(Cyclic(list.next)) :
       IF found = <<>> THEN PivotArc(NoArc, list.hot, list.next)
       ELSE PivotArc(found[1], list.hot, (found[1] + 1) % (2 * m))

PartialPricing ==
  /\ step = "price" /\ pricing = 0
  /\ \E kept \in Admitted(list.hot), found \in Admitted(Cyclic(list.next)) :
       LET room == J + K - Len(kept) IN
       IF Len(kept) > J THEN PivotArc(Cheapest(kept), kept, list.next)
       ELSE \E hot \in {kept \o SubSeq(found, 1, Min({room, Len(found)}))} :
              PivotArc(Cheapest(hot), hot,
                       IF Len(found) >= room THEN (found[room] + 1) % (2 * m) ELSE list.next)

(* The candidates are edges, in the direction that is not longer.  List x    *)
(* has the edges x, x+R, x+2R and so on.                                     *)
R == (m + K - 1) \div K
Shorter(e) == IF Red(2 * e) > 0 THEN 2 * e + 1 ELSE 2 * e
AdmitsEdge(e) == Admits(Shorter(e))
EdgesOf(x) == SelectSeq([i \in 1 .. K |-> (i - 1) * R + x], LAMBDA e : e < m /\ AdmitsEdge(e))
(* Mutant: the search for candidates stops one list short of the whole turn. *)
LastListEarly(x) == (list.next + x + 1) % R = list.next
LastList(x) == (list.next + x) % R = list.next
MultiplePartialPricing ==
  /\ step = "price" /\ pricing = 1
  /\ \E kept \in {SelectSeq(list.hot, AdmitsEdge)},
        lists \in {[x \in 0 .. R - 1 |-> EdgesOf((list.next + x) % R)]} :
       LET Fill[x \in 0 .. R] ==        \* the candidates after x lists
             IF x = 0 THEN kept ELSE Fill[x - 1] \o lists[x - 1]
       IN \E x \in {Least({y \in 0 .. R : Len(Fill[y]) > J \/ (y > 0 /\ LastList(y))})} :
          \E hot \in {Fill[x]} :
            PivotArc(Cheapest([i \in DOMAIN hot |-> Shorter(hot[i])]), hot, (list.next + x) % R)

-------------------------------------------------------------------------------
(* PivotOperation.  The cycle leads along the pivot arc, up to the node      *)
(* where both sides meet on the right hand side, and down on the left; or    *)
(* to the roots of two trees.                                                *)

Sides(u, v) ==
  LET Climb[x, y \in Node] ==
        IF x = y \/ (depth[x] = 0 /\ depth[y] = 0) THEN [left |-> <<>>, right |-> <<>>]
        ELSE IF depth[x] > depth[y]
        THEN LET c == Climb[TailOf(pred[x]), y] IN [c EXCEPT !.left = <<pred[x]>> \o @]
        ELSE LET c == Climb[x, TailOf(pred[y])] IN [c EXCEPT !.right = <<Twin(pred[y])>> \o @]
  IN Climb[u, v]

(* Mutant: the first blocking arc leaves on the right hand side, too.        *)
LeavingFirst(g, sides) ==
  LET Tight(q) == SelectSeq(q, LAMBDA a : ResCap(g, a) = 0)
      right == Tight(<<piv.enter>> \o sides.right)
      left == Tight(sides.left)
  IN IF right # <<>> THEN right[1] ELSE left[1]
(* The leaving arc: the last one without capacity on the right hand side,    *)
(* which begins with the pivot, or else the first one on the left.           *)
Leaving(g, sides) ==
  LET Tight(q) == SelectSeq(q, LAMBDA a : ResCap(g, a) = 0)
      right == Tight(<<piv.enter>> \o sides.right)
      left == Tight(sides.left)
  IN IF right # <<>> THEN right[Len(right)] ELSE left[1]

(* UpdateThread(r,pr,fs): the end of the subtree of r without the part from  *)
(* pr to fs, which is taken out and put in front of r.                       *)
After(x, pr, fs) == IF pr # NoNode /\ thread[x] = pr THEN thread[fs] ELSE thread[x]
Below(y, r) == IF y = NoNode THEN FALSE ELSE depth[y] > depth[r]
SubtreeEnd(r, pr, fs) ==
  LET End[x \in Node] ==
        LET y == After(x, pr, fs) IN IF Below(y, r) THEN End[y] ELSE x
  IN End[r]
Before(r, pr) ==
  LET Met[x \in Node] == IF thread[x] = pr THEN x ELSE Met[thread[x]] IN Met[r]
UpdateThread(r, pr, fs) ==
  IF pr = NoNode THEN thread
  ELSE [thread EXCEPT ![Before(r, pr)] = thread[fs], ![fs] = r]

Pivot ==
  /\ step = "pivot"
  /\ \E sides \in {Sides(TailOf(piv.enter), HeadOf(piv.enter))} :
     \E cycle \in {<<piv.enter>> \o sides.right \o sides.left} :
     \E delta \in {FindCap(G, cycle)} :
     \E g \in {Augment(G, cycle, delta)} :
     LET enter == piv.enter
         leaving == Leaving(g, sides)
         right == \E i \in DOMAIN sides.right : sides.right[i] = leaving
         into == IF right THEN enter ELSE Twin(enter)
     IN IF delta = InfCap
        THEN /\ SetBounds(DualObjective(G), Weight(G))
             /\ step' = "unbounded" /\ UNCHANGED <<G, piv>>
        ELSE IF leaving = enter
        THEN /\ G' = g /\ step' = "price" /\ piv' = NoPivot
             /\ SetBounds(DualObjective(g), Weight(g))
        ELSE /\ G' = g /\ step' = "reverse"
             /\ piv' = [enter |-> into, stop |-> IF right THEN Twin(leaving) ELSE leaving,
                        v |-> HeadOf(into), a |-> Twin(into),
                        fs |-> SubtreeEnd(HeadOf(into), NoNode, NoNode), mu |-> Red(into)]
             /\ UNCHANGED timerVars
  /\ UNCHANGED <<proc, running, ret, dist, deficit>>
  /\ UNCHANGED <<pricing, free, shr, treeVars, list>>

(* The path from the pivot to the leaving arc is reversed, node by node.     *)
Turn ==
  /\ step = "reverse" /\ pred[piv.v] # piv.stop
  /\ LET a2 == pred[piv.v]
         r == TailOf(a2)
     IN /\ pred' = [pred EXCEPT ![piv.v] = Twin(piv.a)]
        /\ thread' = UpdateThread(r, piv.v, piv.fs)
        /\ piv' = [piv EXCEPT !.v = r, !.a = a2, !.fs = SubtreeEnd(r, piv.v, piv.fs)]
  /\ UNCHANGED <<flowVars, pricing, free, shr, depth, list>>

(* Mutant: the thread is spliced in before it is taken out.                  *)
MovedEarly(before, fs, u, v) ==
  LET in == [thread EXCEPT ![fs] = thread[u], ![u] = v] IN [in EXCEPT ![before] = in[fs]]
(* The part of the thread up to fs moves from its old place to node u.       *)
Moved(before, fs, u, v) ==
  LET out == [thread EXCEPT ![before] = thread[fs]] IN [out EXCEPT ![fs] = out[u], ![u] = v]

Attach ==
  /\ step = "reverse" /\ pred[piv.v] = piv.stop
  /\ pred' = [pred EXCEPT ![piv.v] = Twin(piv.a)]
  /\ thread' = Moved(Before(TailOf(piv.stop), HeadOf(piv.stop)), piv.fs, TailOf(piv.enter), HeadOf(piv.enter))
  /\ step' = "correct"
  /\ UNCHANGED <<proc, G, running, timerVars, ret, dist, deficit>>
  /\ UNCHANGED <<pricing, free, shr, depth, list, piv>>

(* The subtree from r to fs: potentials and depths, in the thread order.     *)
Correct ==
  /\ step = "correct"
  /\ LET Part[x \in Node] ==
           IF thread[x] = thread[piv.fs] THEN <<x>> ELSE <<x>> \o Part[thread[x]]
         q == Part[HeadOf(piv.enter)]
         Place(v) == CHOOSE i \in DOMAIN q : q[i] = v
         Dep[i \in DOMAIN q] ==
           LET p == TailOf(pred[q[i]]) IN
           1 + (IF p \in ToSet(SubSeq(q, 1, i - 1)) THEN Dep[Place(p)] ELSE depth[p])
     IN /\ depth' = [v \in Node |-> IF v \in ToSet(q) THEN Dep[Place(v)] ELSE depth[v]]
        /\ G' = [G EXCEPT !.potential = [v \in Node |-> @[v] + (IF v \in ToSet(q) THEN piv.mu ELSE 0)]]
  /\ SetBounds(DualObjective(G'), Weight(G))
  /\ piv' = NoPivot /\ step' = "price"
  /\ UNCHANGED <<proc, running, ret, dist, deficit>>
  /\ UNCHANGED <<pricing, free, shr, pred, thread, list>>

(* An unbounded problem contradicts the lower bound that has been set.       *)
Final ==
  /\ \/ step = "final" /\ SetBounds(IF running THEN Weight(G) ELSE DualObjective(G), Weight(G))
        /\ Returns(Weight(G))
     \/ step = "unbounded" /\ Rejected(-InfFloat, -InfFloat) /\ Aborts
  /\ UNCHANGED <<proc, G, running, dist, deficit, simplexVars>>

SimplexWork ==
  \/ Descend \/ CancelFree \/ Retreat \/ NextRoot
  \/ Enter \/ EndShrinking \/ Expand \/ Index
  \/ DantzigPricing \/ FirstEligiblePricing \/ PartialPricing \/ MultiplePartialPricing
  \/ Pivot \/ Turn \/ Attach \/ Correct \/ Final

-------------------------------------------------------------------------------
Init == \E c \in CostCalls : Start(c) /\ SimplexStart(c)
Work == SimplexWork \/ (FlowWork /\ UNCHANGED simplexVars)
Next == Work \/ (Stop /\ UNCHANGED simplexVars)
vars == <<flowVars, simplexVars>>
Spec == Init /\ [][Next]_vars /\ WF_vars(Work)

-------------------------------------------------------------------------------
(* The arrays of candidates hold J+K arcs; depths stay below the node count. *)
SimplexTypeOK ==
  /\ CostTypeOK
  /\ Len(list.hot) <= J + K /\ list.next \in 0 .. 2 * m
  /\ shr.nCycles <= n /\ shr.count <= Len(shr.queue)
  /\ pred \in [Node -> Arc \union {NoArc}]
  /\ thread \in [Node -> Node \union {NoNode}]
  /\ depth \in [Node -> 0 .. n - 1]

Parent(v) == TailOf(pred[v])
IsRoot(v) == pred[v] = NoArc
Ancestors(v) ==
  LET Up[x \in Node, k \in 0 .. n] ==
        IF IsRoot(x) \/ k = 0 THEN {x} ELSE {x} \union Up[Parent(x), k - 1]
  IN Up[v, n]

(* Whenever a pivot arc is chosen, the indices describe one forest: depths   *)
(* count the arcs to the root, and the thread is a preorder, each node once. *)
IndicesAgree ==
  step = "price" =>
    /\ \A v \in Node :
         IF IsRoot(v) THEN depth[v] = 0
         ELSE HeadOf(pred[v]) = v /\ depth[v] = depth[Parent(v)] + 1
    /\ \A v \in Node : Cardinality({x \in Node : thread[x] = v}) = IF IsRoot(v) THEN 0 ELSE 1
    /\ \A v \in Node : thread[v] # NoNode => Parent(thread[v]) \in Ancestors(v)

(* The forest is strongly feasible: every node can send flow to its root,    *)
(* tree arcs have no reduced length, and free arcs are tree arcs.  This is   *)
(* why a pivot that moves no flow finds its leaving arc on the left.         *)
StronglyFeasible ==
  step = "price" =>
    /\ \A v \in Node : ~IsRoot(v) => Res(Twin(pred[v])) > 0 /\ Red(pred[v]) = 0
    /\ \A a \in Arc : Free(a) => a = pred[HeadOf(a)] \/ Twin(a) = pred[TailOf(a)]
================================================================================
