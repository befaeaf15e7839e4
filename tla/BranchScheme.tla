----------------------------- MODULE BranchScheme ------------------------------
(****************************************************************************)
(* The branch and bound scheme of lib_src/branchScheme.cpp, with the bounds  *)
(* that it reports to a timer (lib_src/managedObject.cpp, lib_src/timers.cpp). *)
(*                                                                           *)
(* Objectives are kept as costs, that is sign*objective, so that less is     *)
(* better for both senses, in units of 1/2: a relaxation may have any value, *)
(* a solution has an even one.  epsilon is positive but less than a unit.    *)
(* The branch nodes are problem specific; the relaxation of a child may have *)
(* any value that is no better than that of its parent, and a subproblem     *)
(* without free variables is either feasible or infeasible.  maxActive, nDFS *)
(* and the branch tree are only displayed.                                   *)
(****************************************************************************)
EXTENDS Integers, Sequences, SequencesExt, FiniteSets

CONSTANTS
  Inf,            \* Infeasibility()
  MaxCost,        \* bound: the costs of feasible relaxations
  Free,           \* bound: variables of the root that are not fixed
  InitialDFS,     \* 5: the first InitialDFS*depth subproblems are taken depth first
  Settings        \* set.depth: the root's estimate of the depth of the tree,
                  \* nodes: maxBBNodes*100, iterations: maxBBIterations*1000

ASSUME CostAssumption == MaxCost \in Nat /\ Inf \in Nat /\ Inf > MaxCost + 2
(* With an estimate of 1, SearchState would divide by depth/2, which is 0.   *)
ASSUME LimitAssumption ==
  /\ Free \in Nat /\ InitialDFS \in Nat
  /\ Settings \subseteq [depth : Nat \ {1}, nodes : Nat, iterations : Nat]

VARIABLES
  sense, level, set, \* ObjectSense(), the search level, one of the settings
  pc, hand,          \* where the scheme is; the subproblems to inspect next
  active, nActive,   \* the list from firstActive on, and its length as counted
  saved, bestBound, feasible, nIterations,
  dual, primal,      \* the bounds of the timer: lower and upper, for a minimum
  rejected,          \* SetBounds has thrown ERRejected
  interrupted,       \* the scheme has reported that it was interrupted
  dropped,           \* the least cost of a subproblem that was deleted unsolved
  halted             \* the user or a limit has ended the loop
list == <<active, nActive, dropped>>
timer == <<dual, primal, rejected>>
vars == <<sense, level, set, pc, hand, list, saved, bestBound, feasible, nIterations, timer,
          interrupted, halted>>

Senses == {"MINIMIZE", "MAXIMIZE"}
Levels == {"SEARCH_FEASIBLE", "SEARCH_CONSTRUCT", "SEARCH_EXHAUSTIVE"}
Costs == 0 .. MaxCost \union {Inf}
Solutions == {c \in 0 .. MaxCost : c % 2 = 0}
(* The least cost of a solution where the relaxation has cost c.             *)
Ceil(c) == IF c = Inf THEN Inf ELSE c + (c % 2)
Lesser(x, y) == IF x < y THEN x ELSE y
Greater(x, y) == IF x > y THEN x ELSE y
CostsOf(s) == {s[i].cost : i \in 1 .. Len(s)}
Least(C, c) == CHOOSE x \in C \union {c} : \A y \in C \union {c} : x <= y

(* What SolveRelaxation and Feasible may find for a subproblem.              *)
Subproblems(from, free) ==
  {x \in [cost : {c \in Costs : c >= from}, free : {free}, fits : BOOLEAN] :
     /\ x.fits => x.cost \in Solutions \union {Inf}
     /\ free = 0 => x.cost = Inf \/ x.fits}

(* x <= y+epsilon-1: one unit of the objective vanishes in a double of 1e50. *)
WholeBelow(x, y) == y = Inf \/ x <= y - 2

Init ==
  /\ sense \in Senses /\ level \in Levels /\ set \in Settings
  /\ \E x \in Subproblems(0, Free) :
       /\ hand = <<x>> /\ bestBound = x.cost
       /\ saved \in {c \in Solutions : c >= x.cost} \union {Inf}
       /\ dual = IF x.cost <= saved THEN x.cost ELSE -Inf
  /\ primal = saved /\ rejected = FALSE
  /\ feasible = (saved # Inf)
  /\ pc = "root" /\ active = <<>> /\ nActive = 0 /\ nIterations = 0
  /\ interrupted = FALSE /\ dropped = Inf /\ halted = FALSE

-------------------------------------------------------------------------------
SetDual(b) ==
  /\ rejected' = (rejected \/ b > primal)
  /\ dual' = Greater(dual, Lesser(b, primal))
  /\ UNCHANGED primal
SetPrimal(b) ==
  /\ rejected' = (rejected \/ b < dual)
  /\ primal' = Lesser(primal, Greater(b, dual))
  /\ UNCHANGED dual

Improves(x) == WholeBelow(x.cost, saved) \/ (x.cost <= saved /\ x.cost # Inf /\ ~feasible)

(* Mutant: subproblems that may be better by exactly one are deleted, too.   *)
StripsEqual(s, bound, D) ==
  \A i \in 1 .. Len(s) : i \in D <=> i > 1 /\ i - 1 \notin D /\ ~WholeBelow(s[i].cost, bound - 1)
(* StripQueue deletes the nodes at the positions D: the first node is never  *)
(* tested, nor is the one behind a node that has been deleted.               *)
Strips(s, bound, D) ==
  \A i \in 1 .. Len(s) : i \in D <=> i > 1 /\ i - 1 \notin D /\ ~WholeBelow(s[i].cost, bound)
(* The list without the nodes at the positions D.                            *)
Position(K, k) == CHOOSE i \in K : Cardinality({j \in K : j <= i}) = k
Without(s, D) ==
  LET K == (1 .. Len(s)) \ D IN [k \in 1 .. Cardinality(K) |-> s[Position(K, k)]]

(* Costs of what nobody has solved: the subproblems in the list and in hand, *)
(* and the best one that was deleted.                                        *)
Unsolved == CostsOf(active) \union CostsOf(hand) \union {dropped}

(* What LocalSearch may return: a solution that is not better than all       *)
(* subproblems that are left.                                                *)
FoundFrom(x) ==
  IF x.cost = Inf THEN {Inf}
  ELSE {v \in Solutions : Least(Unsolved, x.cost) <= v /\ v <= x.cost}

(* Mutant: the nodes that StripQueue deletes are not counted.                *)
SaveNodeUncounted(x) ==
  /\ Improves(x) /\ x.fits
  /\ feasible' = TRUE
  /\ \E v \in FoundFrom(x), D \in SUBSET (1 .. Len(active)) :
       /\ Strips(active, v, D)
       /\ saved' = v /\ SetPrimal(v)
       /\ active' = Without(active, D) /\ nActive' = nActive
       /\ dropped' = Least({active[i].cost : i \in D}, dropped)
  /\ UNCHANGED bestBound
SaveNode(x) ==
  /\ Improves(x) /\ x.fits
  /\ feasible' = TRUE
  /\ \E v \in FoundFrom(x), D \in SUBSET (1 .. Len(active)) :
       /\ Strips(active, v, D)
       /\ saved' = v /\ SetPrimal(v)
       /\ active' = Without(active, D) /\ nActive' = nActive - Cardinality(D)
       /\ dropped' = Least({active[i].cost : i \in D}, dropped)
  /\ UNCHANGED bestBound

QueueExploredNode(x) ==
  /\ Improves(x) /\ ~x.fits
  /\ active' = <<x>> \o active /\ nActive' = nActive + 1
  /\ bestBound' = Lesser(x.cost, bestBound)
  /\ UNCHANGED <<dropped, saved, feasible, timer>>

CutOff(x) ==
  /\ ~Improves(x)
  /\ dropped' = Lesser(dropped, x.cost)
  /\ UNCHANGED <<active, nActive, bestBound, saved, feasible, timer>>

(* After the root comes Optimize, or the end if the root is no longer needed. *)
Inspect ==
  /\ pc \in {"root", "inspect"}
  /\ LET x == Head(hand) IN SaveNode(x) \/ QueueExploredNode(x) \/ CutOff(x)
  /\ nIterations' = nIterations + 1
  /\ hand' = Tail(hand)
  /\ pc' = IF pc = "root" THEN (IF nActive' > nActive THEN "test" ELSE "final")
           ELSE IF Len(hand) = 1 THEN "report" ELSE "inspect"
  /\ UNCHANGED <<sense, level, set, interrupted, halted>>

-------------------------------------------------------------------------------
SearchState ==
  CASE nIterations < InitialDFS * set.depth /\ level # "SEARCH_EXHAUSTIVE" -> "INITIAL_DFS"
    [] nActive + set.depth + 2 > set.nodes -> "EXHAUSTIVE_DFS"
    [] level # "SEARCH_EXHAUSTIVE" /\ set.depth > 0
       /\ nIterations % (set.depth \div 2) > set.depth \div 20 -> "EXHAUSTIVE_DFS"
    [] level = "SEARCH_EXHAUSTIVE" \/ 3 * nActive > 2 * set.nodes -> "EXHAUSTIVE_BFS"
    [] OTHER -> "CONSTRUCT_BFS"

(* The node that SelectActiveNode takes off the list.                        *)
Selected ==
  IF SearchState \in {"CONSTRUCT_BFS", "EXHAUSTIVE_BFS"}
  THEN CHOOSE i \in 1 .. Len(active) :
         /\ \A j \in 1 .. Len(active) : active[i].cost <= active[j].cost
         /\ \A j \in 1 .. i - 1 : active[i].cost < active[j].cost
  ELSE 1
(* Mutant: the best bound is not computed anew, but taken from the node.     *)
BoundFromNode(rest) == IF active[Selected].cost < saved THEN active[Selected].cost ELSE saved
(* The best bound that is left without the selected node.                    *)
BoundOfRest(rest) == Least(CostsOf(rest), saved)

NodesLeft == nActive > 0 /\ nActive < set.nodes /\ nIterations < set.iterations
Unfinished ==
  /\ level # "SEARCH_FEASIBLE" \/ ~feasible
  /\ WholeBelow(bestBound, saved) \/ (bestBound <= saved /\ ~feasible)

(* One round of Optimize: the node that was selected becomes one child, its  *)
(* clone the other one; which is inspected first is up to the problem.       *)
Branch ==
  /\ pc = "test" /\ NodesLeft /\ Unfinished
  /\ LET x == active[Selected]
         rest == RemoveAt(active, Selected)
         children == Subproblems(x.cost, x.free - 1)
     IN /\ x.free > 0
        /\ \E first, second \in children : hand' = <<first, second>>
        /\ active' = rest /\ nActive' = nActive - 1
        /\ bestBound' = BoundOfRest(rest)
  /\ pc' = "inspect"
  /\ UNCHANGED <<sense, level, set, dropped, saved, feasible, nIterations, timer, interrupted, halted>>

(* SelectVariable finds no variable and throws ERInternal.                   *)
NoVariable ==
  /\ pc = "test" /\ NodesLeft /\ Unfinished
  /\ active[Selected].free = 0
  /\ pc' = "error"
  /\ UNCHANGED <<sense, level, set, hand, list, saved, bestBound, feasible, nIterations, timer, interrupted, halted>>

Report ==
  /\ pc = "report"
  /\ IF primal >= bestBound THEN SetDual(bestBound) ELSE UNCHANGED timer
  /\ pc' = "test"
  /\ UNCHANGED <<sense, level, set, hand, list, saved, bestBound, feasible, nIterations, interrupted, halted>>

(* The loop ends by itself, or SolverRunning() has become false.             *)
Leave ==
  /\ pc = "test"
  /\ halted' = ((NodesLeft /\ Unfinished) \/ nActive >= set.nodes \/ nIterations >= set.iterations)
  /\ pc' = "final"
  /\ UNCHANGED <<sense, level, set, hand, list, saved, bestBound, feasible, nIterations, timer, interrupted>>

(* sign*bestBound<=sign*(savedObjective+epsilon)-1: for a maximum, epsilon   *)
(* has the opposite sign as elsewhere.                                       *)
Gap ==
  LET e == IF sense = "MAXIMIZE" THEN 1 ELSE 0
  IN \/ saved = Inf \/ bestBound <= saved - 2 - e
     \/ bestBound <= saved - e /\ ~feasible /\ nActive > 0

(* The end of the constructor.                                               *)
Conclude ==
  /\ pc = "final"
  /\ interrupted' = Gap
  /\ IF Gap THEN UNCHANGED <<bestBound, timer>> ELSE bestBound' = saved /\ SetDual(saved)
  /\ pc' = "done"
  /\ UNCHANGED <<sense, level, set, hand, list, saved, feasible, nIterations, halted>>

Next == Inspect \/ Branch \/ NoVariable \/ Report \/ Leave \/ Conclude

Spec == Init /\ [][Next]_vars
-------------------------------------------------------------------------------
(* How many subproblems there are below one with k free variables.           *)
Descendants[k \in 0 .. Free] == IF k = 0 THEN 0 ELSE 2 * (Descendants[k - 1] + 1)

(* The counters stay in their ranges: nActive is the length of the list,     *)
(* whatever StripQueue deletes, the limits hold, and no subproblem is        *)
(* inspected twice, so that the search ends within the size of the tree.     *)
LimitsKept ==
  /\ nActive = Len(active) /\ nActive <= Greater(set.nodes, 1)
  /\ nIterations <= set.iterations + 1 /\ Len(hand) <= 2
TypeOK ==
  /\ pc \in {"root", "inspect", "test", "report", "final", "done", "error"}
  /\ saved \in Solutions \union {Inf} /\ bestBound \in Costs /\ feasible \in BOOLEAN
  /\ {dual, primal} \subseteq Costs \union {-Inf}
  /\ LimitsKept
  /\ nIterations \in 0 .. Descendants[Free] + 1

(* The bounds that are reported enclose the optimum at any time and however  *)
(* the search ends: no subproblem that is left and none that was deleted     *)
(* could have a solution below the lower bound, and SetBounds never rejects  *)
(* a bound.  In the one case where the test for an interruption is not the   *)
(* test of the loop, at the end of a maximisation, a gap of one is ignored.  *)
GapOfOne(c) == sense = "MAXIMIZE" /\ pc = "done" /\ Ceil(c) = saved - 2
BoundsValid ==
  /\ ~rejected /\ dual <= primal /\ primal = saved
  /\ \A c \in Unsolved : dual <= Ceil(c) \/ GapOfOne(c)
  /\ pc = "test" => \A c \in CostsOf(active) : bestBound <= c

(* If neither the user nor a limit ends the search, the solution it has      *)
(* saved is an optimum and this is what it reports, in whatever order the    *)
(* subproblems were taken and although some that are no longer needed stay   *)
(* in the list.                                                              *)
OptimumFound ==
  pc = "done" /\ ~halted /\ level # "SEARCH_FEASIBLE" /\ saved # Inf =>
    ~interrupted /\ dual = saved /\ \A c \in Unsolved : Ceil(c) >= saved
================================================================================
