----------------------------- MODULE BranchProofs -----------------------------
(****************************************************************************)
(* Proofs about the branch and bound scheme, for every bound on costs, every *)
(* tree of subproblems and all limits: the limits are kept, the bounds that  *)
(* are reported to the timer are valid at any time, and a search that is not *)
(* stopped ends with an optimum.                                             *)
(****************************************************************************)
EXTENDS BranchScheme, SequenceTheorems, FiniteSetTheorems, WellFoundedInduction, TLAPS

Values == Solutions \union {Inf}
Node == [cost : Costs, free : Int, fits : BOOLEAN]
Places == {"root", "inspect", "test", "report", "final", "done", "error"}

-------------------------------------------------------------------------------
(* Facts about numbers, minima and lists.                                    *)

(* A set of natural numbers has a least element.                             *)
LEMMA NatLeast ==
  ASSUME NEW S \in SUBSET Nat, S # {}
  PROVE  \E m \in S : \A n \in S : m <= n
<1>1. PICK m \in S : \A n \in S : <<n, m>> \notin OpToRel(<, Nat)
  BY NatLessThanWellFounded, WFMin
<1>2. ASSUME NEW n \in S PROVE m <= n
  <2>1. ~(n < m)
    BY <1>1 DEF OpToRel
  <2>2. m \in Nat /\ n \in Nat
    OBVIOUS
  <2>. QED BY <2>1, <2>2
<1>. QED BY <1>2

(* Costs are natural numbers, and solutions are costs.                       *)
LEMMA CostTypes ==
  /\ Costs \subseteq Nat /\ Values \subseteq Costs
  /\ Inf \in Values /\ Inf \in Nat
  /\ \A c \in Costs : c <= Inf /\ (c # Inf => c < Inf - 2)
BY CostAssumption DEF Costs, Values, Solutions

(* Rounding up to the next solution.                                         *)
LEMMA CeilFacts ==
  ASSUME NEW c \in Costs
  PROVE  /\ Ceil(c) \in Nat /\ c <= Ceil(c)
         /\ \A d \in Costs : c <= d => Ceil(c) <= Ceil(d)
         /\ \A v \in Values : /\ c <= v => Ceil(c) <= v
                              /\ c > v - 2 => v <= Ceil(c)
                              /\ v # Inf /\ c > v - 3 => v <= Ceil(c) \/ Ceil(c) = v - 2
<1>1. Ceil(c) \in Nat /\ c <= Ceil(c)
  BY CostAssumption DEF Costs, Ceil
<1>2. ASSUME NEW d \in Costs, c <= d PROVE Ceil(c) <= Ceil(d)
  BY <1>2, CostAssumption DEF Costs, Ceil
<1>3. ASSUME NEW v \in Values, c <= v PROVE Ceil(c) <= v
  BY <1>3, CostAssumption DEF Costs, Ceil, Values, Solutions
<1>4. ASSUME NEW v \in Values, c > v - 2 PROVE v <= Ceil(c)
  BY <1>4, CostAssumption DEF Costs, Ceil, Values, Solutions
<1>5. ASSUME NEW v \in Values, v # Inf, c > v - 3 PROVE v <= Ceil(c) \/ Ceil(c) = v - 2
  BY <1>5, CostAssumption DEF Costs, Ceil, Values, Solutions
<1>. QED BY <1>1, <1>2, <1>3, <1>4, <1>5

(* Least(C, c) is the least number in C and c.                               *)
LEMMA LeastFacts ==
  ASSUME NEW C \in SUBSET Costs, NEW c \in Costs
  PROVE  /\ Least(C, c) \in C \union {c} /\ Least(C, c) \in Costs
         /\ \A y \in C \union {c} : Least(C, c) <= y
<1>1. \E m \in C \union {c} : \A n \in C \union {c} : m <= n
  BY CostTypes, NatLeast
<1>. QED BY <1>1 DEF Least

(* The elements of a list without the nodes at some positions.               *)
LEMMA PositionInSet ==
  ASSUME NEW n \in Nat, NEW K \in SUBSET (1 .. n)
  PROVE  /\ Cardinality(K) \in Nat
         /\ \A k \in 1 .. Cardinality(K) : Position(K, k) \in K
         /\ \A i, j \in 1 .. Cardinality(K) : i < j => Position(K, i) < Position(K, j)
<1>. DEFINE Upto(i) == {j \in K : j <= i}
            Rank == [i \in K |-> Cardinality(Upto(i))]
            c == Cardinality(K)
<1>1. IsFiniteSet(K) /\ c \in Nat
  <2>1. 1 \in Int /\ n \in Int
    OBVIOUS
  <2>2. IsFiniteSet(1 .. n)
    BY <2>1, FS_Interval
  <2>3. IsFiniteSet(K)
    BY <2>2, FS_Subset
  <2>. QED BY <2>3, FS_CardinalityType
<1>2. ASSUME NEW i \in K
      PROVE  IsFiniteSet(Upto(i)) /\ Cardinality(Upto(i)) \in 1 .. c
  <2>1. IsFiniteSet(Upto(i)) /\ Cardinality(Upto(i)) <= c
    BY <1>1, FS_Subset
  <2>2. Cardinality(Upto(i)) \in Nat
    BY <2>1, FS_CardinalityType
  <2>3. Cardinality(Upto(i)) # 0
    <3>1. i \in Upto(i)
      OBVIOUS
    <3>. QED BY <3>1, <2>1, FS_EmptySet
  <2>. QED BY <2>1, <2>2, <2>3, <1>1
<1>3. ASSUME NEW i \in K, NEW j \in K, i < j
      PROVE  Rank[i] # Rank[j]
  <2>1. Upto(i) \in SUBSET Upto(j) /\ Upto(i) # Upto(j)
    <3>1. j \in Upto(j) /\ j \notin Upto(i)
      BY <1>3
    <3>2. ASSUME NEW k \in Upto(i) PROVE k \in Upto(j)
      BY <1>3, <3>2
    <3>. QED BY <3>1, <3>2
  <2>2. Cardinality(Upto(i)) # Cardinality(Upto(j))
    BY <2>1, <1>2, FS_Subset
  <2>. QED BY <2>2
<1>4. Rank \in Injection(K, 1 .. c)
  <2>1. Rank \in [K -> 1 .. c]
    BY <1>2
  <2>2. ASSUME NEW i \in K, NEW j \in K, Rank[i] = Rank[j] PROVE i = j
    <3>1. ~(i < j) /\ ~(j < i)
      BY <2>2, <1>3
    <3>. QED BY <3>1
  <2>. QED BY <2>1, <2>2 DEF Injection, IsInjective
<1>5. IsFiniteSet(1 .. c) /\ Cardinality(1 .. c) = c
  BY <1>1, FS_Interval
<1>6. Rank \in Surjection(K, 1 .. c)
  BY <1>4, <1>5, FS_Injection
<1>7. ASSUME NEW k \in 1 .. c PROVE Position(K, k) \in K /\ Cardinality(Upto(Position(K, k))) = k
  <2>1. \E i \in K : Rank[i] = k
    BY <1>6 DEF Surjection
  <2>2. \E i \in K : Cardinality({j \in K : j <= i}) = k
    BY <2>1
  <2>. QED BY <2>2 DEF Position
<1>8. ASSUME NEW i \in 1 .. c, NEW j \in 1 .. c, i < j PROVE Position(K, i) < Position(K, j)
  <2>. DEFINE a == Position(K, i)
              b == Position(K, j)
  <2>1. a \in K /\ b \in K /\ Cardinality(Upto(a)) = i /\ Cardinality(Upto(b)) = j
    BY <1>7
  <2>. HIDE DEF a, b
  <2>2. ASSUME b <= a PROVE FALSE
    <3>0. ASSUME NEW e \in Upto(b) PROVE e \in Upto(a)
      <4>1. e \in K /\ e <= b /\ e \in Int /\ a \in Int /\ b \in Int
        BY <2>1, <3>0
      <4>. QED BY <2>2, <4>1
    <3>1. Upto(b) \in SUBSET Upto(a)
      BY <3>0
    <3>2. Cardinality(Upto(b)) <= Cardinality(Upto(a))
      BY <1>2, <2>1, <3>1, FS_Subset
    <3>. QED BY <1>1, <1>8, <2>1, <3>2
  <2>3. a \in Int /\ b \in Int
    BY <2>1
  <2>4. a < b
    BY <2>2, <2>3
  <2>. QED BY <2>4 DEF a, b
<1>. QED BY <1>1, <1>7, <1>8

(* What stays in the list when the nodes at the positions D are deleted.     *)
LEMMA WithoutFacts ==
  ASSUME NEW s \in Seq(Node), NEW D \in SUBSET (1 .. Len(s))
  PROVE  /\ Without(s, D) \in Seq(Node)
         /\ Cardinality(D) \in Nat
         /\ Len(Without(s, D)) = Len(s) - Cardinality(D)
         /\ \A k \in 1 .. Len(Without(s, D)) : \E i \in 1 .. Len(s) : Without(s, D)[k] = s[i]
         /\ s # <<>> /\ 1 \notin D => Without(s, D) # <<>>
         /\ \E f \in [1 .. Len(Without(s, D)) -> 1 .. Len(s)] :
              /\ \A k \in 1 .. Len(Without(s, D)) : Without(s, D)[k] = s[f[k]]
              /\ \A i, j \in 1 .. Len(Without(s, D)) : i < j => f[i] < f[j]
<1>. DEFINE n == Len(s)
            K == (1 .. n) \ D
            t == Without(s, D)
<1>1. n \in Nat /\ \A i \in 1 .. n : s[i] \in Node
  BY LenProperties
<1>2. K \in SUBSET (1 .. n) /\ Cardinality(K) \in Nat
      /\ \A k \in 1 .. Cardinality(K) : Position(K, k) \in K
      /\ \A i, j \in 1 .. Cardinality(K) : i < j => Position(K, i) < Position(K, j)
  BY <1>1, PositionInSet
<1>3. IsFiniteSet(1 .. n) /\ Cardinality(1 .. n) = n
  <2>1. 1 \in Int /\ n \in Int /\ (IF 1 > n THEN 0 ELSE n - 1 + 1) = n
    BY <1>1
  <2>. QED BY <2>1, FS_Interval
<1>4. IsFiniteSet(D) /\ Cardinality(D) \in Nat
  BY <1>3, FS_Subset, FS_CardinalityType
<1>5. Cardinality(K) = n - Cardinality(D)
  <2>1. (1 .. n) \cap D = D
    OBVIOUS
  <2>2. Cardinality((1 .. n) \ D) = Cardinality(1 .. n) - Cardinality((1 .. n) \cap D)
    BY <1>3, FS_Difference
  <2>. QED BY <1>3, <2>1, <2>2
<1>6. t = [k \in 1 .. Cardinality(K) |-> s[Position(K, k)]]
  BY DEF Without
<1>7. t \in Seq(Node) /\ Len(t) = Cardinality(K)
  <2>1. t \in [1 .. Cardinality(K) -> Node]
    BY <1>1, <1>2, <1>6
  <2>2. t \in Seq(Node) /\ DOMAIN t = 1 .. Cardinality(K)
    BY <1>2, <2>1, SeqDef
  <2>. QED BY <1>2, <2>2, LenProperties
<1>8. ASSUME NEW k \in 1 .. Len(t) PROVE \E i \in 1 .. n : t[k] = s[i]
  BY <1>2, <1>6, <1>7
<1>9. ASSUME s # <<>>, 1 \notin D PROVE t # <<>>
  <2>1. 1 \in K
    BY <1>9, <1>1, EmptySeq
  <2>2. IsFiniteSet(K)
    BY <1>3, FS_Subset
  <2>3. Cardinality(K) # 0
    BY <2>1, <2>2, FS_EmptySet
  <2>. QED BY <2>3, <1>7, EmptySeq
<1>10. \E f \in [1 .. Len(t) -> 1 .. n] :
         /\ \A k \in 1 .. Len(t) : t[k] = s[f[k]]
         /\ \A i, j \in 1 .. Len(t) : i < j => f[i] < f[j]
  <2>. DEFINE f == [k \in 1 .. Len(t) |-> Position(K, k)]
  <2>1. f \in [1 .. Len(t) -> 1 .. n]
    BY <1>2, <1>7
  <2>2. \A k \in 1 .. Len(t) : t[k] = s[f[k]]
    BY <1>6, <1>7
  <2>3. \A i, j \in 1 .. Len(t) : i < j => f[i] < f[j]
    BY <1>2, <1>7
  <2>. HIDE DEF f
  <2>. QED BY <2>1, <2>2, <2>3
<1>. QED BY <1>4, <1>5, <1>7, <1>8, <1>9, <1>10

(* What stays in the list when one node is taken off.                        *)
LEMMA RemoveFacts ==
  ASSUME NEW s \in Seq(Node), NEW p \in 1 .. Len(s)
  PROVE  /\ RemoveAt(s, p) \in Seq(Node)
         /\ Len(RemoveAt(s, p)) = Len(s) - 1
         /\ \A k \in 1 .. Len(RemoveAt(s, p)) : \E i \in 1 .. Len(s) : RemoveAt(s, p)[k] = s[i]
         /\ \A k \in 1 .. Len(s) - 1 : RemoveAt(s, p)[k] = IF k < p THEN s[k] ELSE s[k + 1]
<1>. DEFINE n == Len(s)
            a == SubSeq(s, 1, p - 1)
            b == SubSeq(s, p + 1, n)
            t == RemoveAt(s, p)
<1>1. n \in Nat /\ p \in 1 .. n
  BY LenProperties
<1>2. a \in Seq(Node) /\ Len(a) = p - 1 /\ \A i \in 1 .. p - 1 : a[i] = s[i]
  <2>1. \A i \in 1 .. p - 1 : s[i] \in Node
    BY <1>1, LenProperties
  <2>. QED BY <1>1, <2>1, SubSeqProperties
<1>3. b \in Seq(Node) /\ Len(b) = n - p /\ \A i \in 1 .. n - p : b[i] = s[p + i]
  <2>1. \A i \in p + 1 .. n : s[i] \in Node
    BY <1>1, LenProperties
  <2>. QED BY <1>1, <2>1, SubSeqProperties
<1>4. t = a \o b
  BY DEF RemoveAt
<1>5. /\ t \in Seq(Node) /\ Len(t) = n - 1
      /\ \A k \in 1 .. n - 1 : t[k] = IF k <= p - 1 THEN a[k] ELSE b[k - (p - 1)]
  <2>1. /\ a \o b \in Seq(Node) /\ Len(a \o b) = Len(a) + Len(b)
        /\ \A k \in 1 .. Len(a) + Len(b) :
             (a \o b)[k] = IF k <= Len(a) THEN a[k] ELSE b[k - Len(a)]
    BY <1>2, <1>3, ConcatProperties
  <2>2. Len(a) + Len(b) = n - 1
    BY <1>1, <1>2, <1>3
  <2>. QED BY <1>2, <1>4, <2>1, <2>2
<1>6. ASSUME NEW k \in 1 .. n - 1
      PROVE  t[k] = (IF k < p THEN s[k] ELSE s[k + 1]) /\ \E i \in 1 .. n : t[k] = s[i]
  <2>1. CASE k <= p - 1
    <3>1. k < p /\ t[k] = a[k] /\ k \in 1 .. p - 1 /\ k \in 1 .. n
      BY <1>1, <1>5, <2>1
    <3>. QED BY <1>2, <3>1
  <2>2. CASE ~(k <= p - 1)
    <3>1. t[k] = b[k - (p - 1)] /\ k - (p - 1) \in 1 .. n - p /\ k + 1 \in 1 .. n
      BY <1>1, <1>5, <2>2
    <3>2. b[k - (p - 1)] = s[p + (k - (p - 1))] /\ p + (k - (p - 1)) = k + 1
      BY <1>1, <1>3, <3>1
    <3>3. ~(k < p)
      BY <1>1, <2>2
    <3>. QED BY <3>1, <3>2, <3>3
  <2>. QED BY <2>1, <2>2
<1>. QED BY <1>1, <1>5, <1>6

(* Costs of lists.                                                           *)
LEMMA CostsOfList ==
  ASSUME NEW s \in Seq(Node)
  PROVE  /\ CostsOf(s) \subseteq Costs
         /\ Len(s) \in Nat
         /\ \A i \in 1 .. Len(s) : s[i] \in Node /\ s[i].cost \in CostsOf(s)
         /\ s = <<>> <=> Len(s) = 0
         /\ s = <<>> => CostsOf(s) = {}
<1>1. Len(s) \in Nat /\ \A i \in 1 .. Len(s) : s[i] \in Node
  BY LenProperties
<1>2. s = <<>> <=> Len(s) = 0
  BY EmptySeq
<1>. QED BY <1>1, <1>2 DEF CostsOf, Node

LEMMA CostsOfPart ==
  ASSUME NEW s \in Seq(Node), NEW t \in Seq(Node),
         \A k \in 1 .. Len(t) : \E i \in 1 .. Len(s) : t[k] = s[i]
  PROVE  CostsOf(t) \subseteq CostsOf(s)
BY DEF CostsOf

LEMMA PushFacts ==
  ASSUME NEW s \in Seq(Node), NEW x \in Node
  PROVE  /\ <<x>> \o s \in Seq(Node) /\ Len(<<x>> \o s) = Len(s) + 1
         /\ CostsOf(<<x>> \o s) = {x.cost} \union CostsOf(s)
<1>. DEFINE t == <<x>> \o s
<1>1. <<x>> \in Seq(Node) /\ Len(<<x>>) = 1 /\ <<x>>[1] = x /\ Len(s) \in Nat
  BY LenProperties
<1>2. /\ t \in Seq(Node) /\ Len(t) = 1 + Len(s)
      /\ \A k \in 1 .. 1 + Len(s) : t[k] = IF k <= 1 THEN <<x>>[k] ELSE s[k - 1]
  BY <1>1, ConcatProperties
<1>3. ASSUME NEW k \in 1 .. Len(t) PROVE t[k].cost \in {x.cost} \union CostsOf(s)
  <2>1. CASE k = 1
    BY <1>1, <1>2, <2>1
  <2>2. CASE k # 1
    <3>1. t[k] = s[k - 1] /\ k - 1 \in 1 .. Len(s)
      BY <1>1, <1>2, <2>2
    <3>. QED BY <3>1 DEF CostsOf
  <2>. QED BY <2>1, <2>2
<1>4. x.cost \in CostsOf(t)
  <2>1. 1 \in 1 .. Len(t) /\ t[1] = x
    BY <1>1, <1>2
  <2>. QED BY <2>1 DEF CostsOf
<1>5. ASSUME NEW i \in 1 .. Len(s) PROVE s[i].cost \in CostsOf(t)
  <2>1. i + 1 \in 1 .. Len(t) /\ t[i + 1] = s[i]
    BY <1>1, <1>2
  <2>. QED BY <2>1 DEF CostsOf
<1>6. CostsOf(t) \subseteq {x.cost} \union CostsOf(s)
  BY <1>3 DEF CostsOf
<1>7. CostsOf(s) \subseteq CostsOf(t)
  BY <1>5 DEF CostsOf
<1>8. Len(t) = Len(s) + 1
  BY <1>1, <1>2
<1>. QED BY <1>2, <1>4, <1>6, <1>7, <1>8

LEMMA PopFacts ==
  ASSUME NEW s \in Seq(Node), s # <<>>
  PROVE  /\ Head(s) \in Node /\ Head(s) = s[1] /\ Head(s).cost \in CostsOf(s)
         /\ Tail(s) \in Seq(Node) /\ Len(Tail(s)) = Len(s) - 1
         /\ CostsOf(Tail(s)) \subseteq CostsOf(s)
<1>1. Len(s) \in Nat \ {0} /\ Head(s) = s[1] /\ s[1] \in Node
  BY LenProperties, EmptySeq, HeadTailProperties
<1>2. /\ Tail(s) \in Seq(Node) /\ Len(Tail(s)) = Len(s) - 1
      /\ \A i \in 1 .. Len(Tail(s)) : Tail(s)[i] = s[i + 1]
  BY HeadTailProperties
<1>3. s[1].cost \in CostsOf(s)
  BY <1>1 DEF CostsOf
<1>4. ASSUME NEW k \in 1 .. Len(Tail(s)) PROVE \E i \in 1 .. Len(s) : Tail(s)[k] = s[i]
  BY <1>1, <1>2
<1>. QED BY <1>1, <1>2, <1>3, <1>4, CostsOfPart

LEMMA PairFacts ==
  ASSUME NEW x \in Node, NEW y \in Node
  PROVE  /\ <<x>> \in Seq(Node) /\ Len(<<x>>) = 1 /\ CostsOf(<<x>>) = {x.cost} /\ <<x>>[1] = x
         /\ <<x, y>> \in Seq(Node) /\ Len(<<x, y>>) = 2
         /\ CostsOf(<<x, y>>) = {x.cost, y.cost}
<1>1. /\ <<x>> \in Seq(Node) /\ Len(<<x>>) = 1 /\ <<x>>[1] = x
      /\ <<x, y>> \in Seq(Node) /\ Len(<<x, y>>) = 2
      /\ <<x, y>>[1] = x /\ <<x, y>>[2] = y
  OBVIOUS
<1>2. 1 .. 1 = {1} /\ 1 .. 2 = {1, 2}
  OBVIOUS
<1>. QED BY <1>1, <1>2 DEF CostsOf
-------------------------------------------------------------------------------
(* The inductive invariant.                                                  *)

StateInv ==
  /\ pc \in Places /\ set \in Settings
  /\ active \in Seq(Node) /\ hand \in Seq(Node)
  /\ saved \in Values /\ bestBound \in Costs /\ dropped \in Costs
  /\ dual \in Int /\ nIterations \in Nat
  /\ feasible \in BOOLEAN /\ halted \in BOOLEAN
(* There is room for what is in hand, within the limits.                     *)
CountInv ==
  /\ nActive = Len(active) /\ nActive + Len(hand) <= Greater(set.nodes, 1)
  /\ nIterations + Len(hand) <= set.iterations + 1
HandInv ==
  /\ pc = "root" => Len(hand) = 1 /\ active = <<>> /\ bestBound = hand[1].cost /\ ~halted
  /\ pc = "inspect" => Len(hand) \in {1, 2}
  /\ pc \notin {"root", "inspect"} => hand = <<>>
TimerInv == ~rejected /\ primal = saved /\ dual <= saved /\ (saved # Inf => feasible)
(* Nothing is dropped that could be better than what is saved.               *)
DroppedInv == saved <= Ceil(dropped)
DualInv == pc # "done" => \A c \in Unsolved : dual <= Ceil(c)
BestInv == pc # "done" => \A c \in CostsOf(active) : bestBound <= c
(* If the list runs out of nodes, the best bound is not below a better one.  *)
EmptyInv ==
  active = <<>> /\ pc \in {"inspect", "report", "test", "final"} => bestBound > saved - 2
FinalInv ==
  pc = "final" /\ ~halted /\ level # "SEARCH_FEASIBLE" /\ saved # Inf => bestBound > saved - 2
DoneInv == pc = "done" => OptimumFound /\ \A c \in Unsolved : dual <= Ceil(c) \/ GapOfOne(c)
BranchInv ==
  /\ StateInv /\ CountInv /\ HandInv /\ TimerInv /\ DroppedInv
  /\ DualInv /\ BestInv /\ EmptyInv /\ FinalInv /\ DoneInv

(* What inspecting the subproblem x has changed, whatever became of it.      *)
Inspected(x) ==
  /\ active' \in Seq(Node) /\ nActive' = Len(active') /\ nActive' <= nActive + 1
  /\ saved' \in Values /\ bestBound' \in Costs /\ dropped' \in Costs /\ feasible' \in BOOLEAN
  /\ ~rejected' /\ primal' = saved' /\ dual' = dual /\ dual <= saved' /\ saved' <= saved
  /\ saved' # Inf => feasible'
  /\ saved' <= Ceil(dropped')
  /\ CostsOf(active') \union {dropped'} \subseteq CostsOf(active) \union {dropped, x.cost}
  /\ \A c \in CostsOf(active') : bestBound' <= c
  /\ active' = <<>> => active = <<>> /\ bestBound' = bestBound /\ x.cost > saved' - 2

(* What is known of the subproblem that is inspected.                        *)
LEMMA InHand ==
  ASSUME BranchInv, pc \in {"root", "inspect"}
  PROVE  /\ hand # <<>> /\ Head(hand) \in Node /\ Head(hand) = hand[1]
         /\ Head(hand).cost \in Costs /\ Head(hand).cost \in Unsolved
         /\ Unsolved \subseteq Costs
         /\ \A c \in Unsolved : dual <= Ceil(c)
<1>1. hand \in Seq(Node) /\ hand # <<>> /\ active \in Seq(Node) /\ dropped \in Costs
  <2>1. hand \in Seq(Node) /\ active \in Seq(Node) /\ dropped \in Costs
    BY DEF BranchInv, StateInv
  <2>2. Len(hand) \in {1, 2}
    BY DEF BranchInv, HandInv
  <2>3. Len(hand) # 0
    BY <2>2
  <2>4. hand = <<>> <=> Len(hand) = 0
    BY <2>1, CostsOfList
  <2>. QED BY <2>1, <2>3, <2>4
<1>2. /\ Head(hand) \in Node /\ Head(hand) = hand[1] /\ Head(hand).cost \in CostsOf(hand)
  BY <1>1, PopFacts
<1>3. CostsOf(hand) \subseteq Costs /\ CostsOf(active) \subseteq Costs
  BY <1>1, CostsOfList
<1>4. pc # "done"
  OBVIOUS
<1>. QED BY <1>1, <1>2, <1>3, <1>4 DEF BranchInv, DualInv, Unsolved

LEMMA CutOffEffect ==
  ASSUME BranchInv, pc \in {"root", "inspect"}, CutOff(Head(hand))
  PROVE  Inspected(Head(hand))
<1>. DEFINE x == Head(hand)
<1>1. x \in Node /\ x.cost \in Costs
  BY InHand
<1>2. StateInv /\ CountInv /\ TimerInv /\ DroppedInv /\ BestInv /\ pc # "done"
  BY DEF BranchInv
<1>3. /\ active' = active /\ nActive' = nActive /\ bestBound' = bestBound /\ saved' = saved
      /\ feasible' = feasible /\ dual' = dual /\ primal' = primal /\ rejected' = rejected
      /\ dropped' = Lesser(dropped, x.cost) /\ ~Improves(x)
  BY DEF CutOff, timer
<1>4. saved # Inf /\ x.cost > saved - 2
  <2>1. saved \in Nat /\ x.cost \in Nat
    BY <1>1, <1>2, CostTypes DEF StateInv
  <2>. QED BY <1>3, <2>1 DEF Improves, WholeBelow
<1>5. saved <= Ceil(x.cost)
  BY <1>1, <1>2, <1>4, CeilFacts DEF StateInv
<1>6. dropped' \in {dropped, x.cost}
  BY <1>3 DEF Lesser
<1>7. saved' <= Ceil(dropped') /\ dropped' \in Costs
  BY <1>1, <1>2, <1>3, <1>5, <1>6 DEF DroppedInv, StateInv
<1>8. CostsOf(active') \union {dropped'} \subseteq CostsOf(active) \union {dropped, x.cost}
  BY <1>3, <1>6
<1>9. Len(active) \in Nat
  BY <1>2, CostsOfList DEF StateInv
<1>10. \A c \in CostsOf(active') : bestBound' <= c
  BY <1>2, <1>3 DEF BestInv
<1>11. /\ active' \in Seq(Node) /\ nActive' = Len(active') /\ nActive' <= nActive + 1
       /\ saved' \in Values /\ bestBound' \in Costs /\ feasible' \in BOOLEAN
  BY <1>2, <1>3, <1>9 DEF StateInv, CountInv
<1>12. /\ ~rejected' /\ primal' = saved' /\ dual' = dual /\ dual <= saved' /\ saved' <= saved
       /\ (saved' # Inf => feasible')
  BY <1>2, <1>3, CostTypes DEF TimerInv, StateInv
<1>13. active' = <<>> => active = <<>> /\ bestBound' = bestBound /\ x.cost > saved' - 2
  BY <1>3, <1>4
<1>. QED BY <1>7, <1>8, <1>10, <1>11, <1>12, <1>13 DEF Inspected

LEMMA QueueEffect ==
  ASSUME BranchInv, pc \in {"root", "inspect"}, QueueExploredNode(Head(hand))
  PROVE  Inspected(Head(hand))
<1>. DEFINE x == Head(hand)
<1>1. x \in Node /\ x.cost \in Costs
  BY InHand
<1>2. StateInv /\ CountInv /\ TimerInv /\ DroppedInv /\ BestInv /\ pc # "done"
  BY DEF BranchInv
<1>3. /\ active' = <<x>> \o active /\ nActive' = nActive + 1
      /\ bestBound' = Lesser(x.cost, bestBound) /\ saved' = saved /\ dropped' = dropped
      /\ feasible' = feasible /\ dual' = dual /\ primal' = primal /\ rejected' = rejected
  BY DEF QueueExploredNode, timer
<1>4. /\ active' \in Seq(Node) /\ Len(active') = Len(active) + 1
      /\ CostsOf(active') = {x.cost} \union CostsOf(active)
  BY <1>1, <1>2, <1>3, PushFacts DEF StateInv
<1>5. Len(active) \in Nat /\ CostsOf(active) \subseteq Costs
  BY <1>2, CostsOfList DEF StateInv
<1>6. bestBound' \in Costs /\ bestBound' <= x.cost /\ bestBound' <= bestBound
  <2>1. bestBound \in Costs /\ bestBound \in Nat /\ x.cost \in Nat
    BY <1>1, <1>2, CostTypes DEF StateInv
  <2>. QED BY <1>1, <1>3, <2>1 DEF Lesser
<1>7. ASSUME NEW c \in CostsOf(active') PROVE bestBound' <= c
  <2>1. CASE c = x.cost
    BY <1>6, <2>1
  <2>2. CASE c \in CostsOf(active)
    <3>1. bestBound <= c /\ bestBound \in Nat /\ c \in Nat /\ bestBound' \in Nat
      BY <1>2, <1>5, <1>6, <2>2, CostTypes DEF BestInv, StateInv
    <3>. QED BY <1>6, <3>1
  <2>. QED BY <1>4, <2>1, <2>2
<1>8. active' # <<>>
  BY <1>4, <1>5, CostsOfList
<1>9. /\ nActive' = Len(active') /\ nActive' <= nActive + 1
      /\ saved' \in Values /\ dropped' \in Costs /\ feasible' \in BOOLEAN
  BY <1>2, <1>3, <1>4, <1>5 DEF StateInv, CountInv
<1>10. /\ ~rejected' /\ primal' = saved' /\ dual' = dual /\ dual <= saved' /\ saved' <= saved
       /\ (saved' # Inf => feasible')
  BY <1>2, <1>3, CostTypes DEF TimerInv, StateInv
<1>11. saved' <= Ceil(dropped')
  BY <1>2, <1>3 DEF DroppedInv
<1>12. CostsOf(active') \union {dropped'} \subseteq CostsOf(active) \union {dropped, x.cost}
  BY <1>3, <1>4
<1>. QED BY <1>4, <1>6, <1>7, <1>8, <1>9, <1>10, <1>11, <1>12 DEF Inspected

(* The solution that is found is not better than the lower bound, and what   *)
(* StripQueue deletes is not better than the solution.                       *)
LEMMA SaveEffect ==
  ASSUME BranchInv, pc \in {"root", "inspect"}, SaveNode(Head(hand))
  PROVE  Inspected(Head(hand))
<1>. DEFINE x == Head(hand)
<1>1. /\ x \in Node /\ x.cost \in Costs /\ x.cost \in Unsolved /\ Unsolved \subseteq Costs
      /\ \A c \in Unsolved : dual <= Ceil(c)
  BY InHand
<1>2. StateInv /\ CountInv /\ TimerInv /\ DroppedInv /\ BestInv /\ pc # "done"
  BY DEF BranchInv
<1>3. PICK v \in FoundFrom(x), D \in SUBSET (1 .. Len(active)) :
        /\ Strips(active, v, D)
        /\ saved' = v /\ SetPrimal(v)
        /\ active' = Without(active, D) /\ nActive' = nActive - Cardinality(D)
        /\ dropped' = Least({active[i].cost : i \in D}, dropped)
  BY DEF SaveNode
<1>4. Improves(x) /\ feasible' = TRUE /\ bestBound' = bestBound
  BY DEF SaveNode
<1>5. v \in Values /\ v <= x.cost /\ dual <= v
  <2>1. CASE x.cost = Inf
    <3>1. v = Inf
      BY <2>1 DEF FoundFrom
    <3>. QED BY <1>2, <2>1, <3>1, CostTypes DEF TimerInv, StateInv
  <2>2. CASE x.cost # Inf
    <3>. DEFINE l == Least(Unsolved, x.cost)
    <3>1. v \in Solutions /\ l <= v /\ v <= x.cost
      BY <2>2 DEF FoundFrom
    <3>2. l \in Unsolved /\ l \in Costs
      BY <1>1, LeastFacts
    <3>3. dual <= Ceil(l) /\ Ceil(l) <= v /\ Ceil(l) \in Nat
      BY <1>1, <3>1, <3>2, CeilFacts DEF Values
    <3>4. v \in Values /\ v \in Nat /\ dual \in Int
      BY <1>2, <3>1, CostTypes DEF Values, StateInv
    <3>. QED BY <3>1, <3>3, <3>4
  <2>. QED BY <2>1, <2>2
<1>6. v <= saved
  <2>1. saved \in Nat /\ v \in Nat /\ x.cost \in Nat /\ v <= Inf /\ Inf \in Nat
    BY <1>1, <1>2, <1>5, CostTypes DEF StateInv
  <2>2. CASE saved = Inf
    BY <2>1, <2>2
  <2>3. CASE saved # Inf
    <3>1. x.cost <= saved
      BY <1>4, <2>1, <2>3 DEF Improves, WholeBelow
    <3>. QED BY <1>5, <2>1, <3>1
  <2>. QED BY <2>2, <2>3
<1>7. ~rejected' /\ primal' = v /\ dual' = dual
  <2>1. v \in Nat /\ saved \in Nat /\ dual \in Int /\ primal = saved /\ ~rejected
    BY <1>2, <1>5, CostTypes DEF TimerInv, StateInv
  <2>2. dual' = dual /\ rejected' = (rejected \/ v < dual)
        /\ primal' = Lesser(primal, Greater(v, dual))
    BY <1>3 DEF SetPrimal
  <2>3. ~(v < dual)
    BY <1>5, <2>1
  <2>4. primal' = v
    BY <1>5, <1>6, <2>1, <2>2 DEF Lesser, Greater
  <2>. QED BY <2>1, <2>2, <2>3, <2>4
<1>8. /\ active' \in Seq(Node) /\ Cardinality(D) \in Nat
      /\ Len(active') = Len(active) - Cardinality(D)
      /\ (\A k \in 1 .. Len(active') : \E i \in 1 .. Len(active) : active'[k] = active[i])
      /\ (active # <<>> /\ 1 \notin D => active' # <<>>)
  BY <1>2, <1>3, WithoutFacts DEF StateInv
<1>9. CostsOf(active') \subseteq CostsOf(active)
  BY <1>2, <1>8, CostsOfPart DEF StateInv
<1>10. /\ CostsOf(active) \subseteq Costs /\ Len(active) \in Nat
       /\ \A i \in 1 .. Len(active) : active[i].cost \in CostsOf(active)
  BY <1>2, CostsOfList DEF StateInv
<1>11. active' = <<>> => active = <<>>
  <2>1. ASSUME active # <<>> PROVE 1 \notin D
    <3>1. 1 \in 1 .. Len(active)
      BY <1>2, <1>10, <2>1, EmptySeq DEF StateInv
    <3>. QED BY <1>3, <3>1 DEF Strips
  <2>. QED BY <1>8, <2>1
<1>12. /\ {active[i].cost : i \in D} \subseteq CostsOf(active)
       /\ dropped' \in {active[i].cost : i \in D} \union {dropped}
  <2>1. {active[i].cost : i \in D} \subseteq CostsOf(active)
    BY <1>10
  <2>2. {active[i].cost : i \in D} \in SUBSET Costs /\ dropped \in Costs
    BY <1>2, <1>10, <2>1 DEF StateInv
  <2>. QED BY <1>3, <2>1, <2>2, LeastFacts
<1>13. dropped' \in Costs /\ v <= Ceil(dropped')
  <2>1. dropped \in Costs /\ v \in Nat /\ saved \in Nat /\ saved <= Ceil(dropped)
    BY <1>2, <1>5, CostTypes DEF StateInv, DroppedInv
  <2>2. CASE dropped' = dropped
    <3>1. Ceil(dropped) \in Nat
      BY <2>1, CeilFacts
    <3>. QED BY <1>6, <2>1, <2>2, <3>1
  <2>3. CASE dropped' \in {active[i].cost : i \in D}
    <3>1. PICK i \in D : dropped' = active[i].cost
      BY <2>3
    <3>2. active[i].cost \in Costs /\ ~WholeBelow(active[i].cost, v)
      BY <1>3, <1>10 DEF Strips
    <3>3. active[i].cost > v - 2
      <4>1. active[i].cost \in Nat
        BY <3>2, CostTypes
      <4>. QED BY <2>1, <3>2, <4>1 DEF WholeBelow
    <3>. QED BY <1>5, <3>1, <3>2, <3>3, CeilFacts
  <2>. QED BY <1>12, <2>2, <2>3
<1>14. /\ nActive' = Len(active') /\ nActive' <= nActive + 1
       /\ bestBound' \in Costs
  BY <1>2, <1>3, <1>4, <1>8, <1>10 DEF CountInv, StateInv
<1>15. \A c \in CostsOf(active') : bestBound' <= c
  BY <1>2, <1>4, <1>9 DEF BestInv
<1>16. x.cost > v - 2
  <2>1. x.cost \in Nat /\ v \in Nat
    BY <1>1, <1>5, CostTypes
  <2>. QED BY <1>5, <2>1
<1>17. CostsOf(active') \union {dropped'} \subseteq CostsOf(active) \union {dropped, x.cost}
  BY <1>9, <1>12
<1>18. feasible' \in BOOLEAN /\ (saved' # Inf => feasible')
  BY <1>4
<1>. QED BY <1>3, <1>4, <1>5, <1>6, <1>7, <1>8, <1>11, <1>13, <1>14, <1>15, <1>16, <1>17, <1>18
     DEF Inspected
-------------------------------------------------------------------------------
(* The steps.                                                                *)

LEMMA SubproblemFacts ==
  ASSUME NEW from \in Nat, NEW free \in Int, NEW x \in Subproblems(from, free)
  PROVE  x \in Node /\ x.cost \in Costs /\ x.cost >= from
<1>1. x \in [cost : {c \in Costs : c >= from}, free : {free}, fits : BOOLEAN]
  BY DEF Subproblems
<1>2. x.cost \in Costs /\ x.cost >= from
  BY <1>1
<1>3. x.free \in Int /\ x.fits \in BOOLEAN
  BY <1>1
<1>4. x = [cost |-> x.cost, free |-> x.free, fits |-> x.fits]
  BY <1>1
<1>. QED BY <1>2, <1>3, <1>4 DEF Node

LEMMA InitInv == Init => BranchInv
<1>. SUFFICES ASSUME Init PROVE BranchInv
  OBVIOUS
<1>1. PICK x \in Subproblems(0, Free) :
        /\ hand = <<x>> /\ bestBound = x.cost
        /\ saved \in {c \in Solutions : c >= x.cost} \union {Inf}
        /\ dual = IF x.cost <= saved THEN x.cost ELSE -Inf
  BY DEF Init
<1>2. /\ primal = saved /\ rejected = FALSE /\ feasible = (saved # Inf)
      /\ pc = "root" /\ active = <<>> /\ nActive = 0 /\ nIterations = 0
      /\ interrupted = FALSE /\ dropped = Inf /\ halted = FALSE /\ set \in Settings
  BY DEF Init
<1>3. x \in Node /\ x.cost \in Costs /\ x.cost \in Nat
  <2>1. 0 \in Nat /\ Free \in Int
    BY LimitAssumption
  <2>2. x \in Node /\ x.cost \in Costs
    BY <2>1, SubproblemFacts
  <2>. QED BY <2>2, CostTypes
<1>4. saved \in Values /\ saved \in Nat /\ Inf \in Nat
  BY <1>1, CostTypes DEF Values
<1>5. /\ hand \in Seq(Node) /\ Len(hand) = 1 /\ CostsOf(hand) = {x.cost} /\ hand[1] = x
  BY <1>1, <1>3, PairFacts
<1>6. active \in Seq(Node) /\ Len(active) = 0 /\ CostsOf(active) = {}
  BY <1>2, EmptySeq, CostsOfList
<1>7. set.nodes \in Nat /\ set.iterations \in Nat
  BY <1>2, LimitAssumption
<1>8. StateInv
  <2>1. dual \in Int
    BY <1>1, <1>3, <1>4
  <2>2. feasible \in BOOLEAN /\ halted \in BOOLEAN
    BY <1>2
  <2>. QED BY <1>1, <1>2, <1>3, <1>4, <1>5, <1>6, <2>1, <2>2, CostTypes DEF StateInv, Places
<1>9. CountInv
  BY <1>2, <1>5, <1>6, <1>7 DEF CountInv, Greater
<1>10. HandInv
  BY <1>1, <1>2, <1>5 DEF HandInv
<1>11. dual <= saved /\ dual <= x.cost
  BY <1>1, <1>3, <1>4
<1>12. TimerInv
  BY <1>2, <1>11 DEF TimerInv
<1>13. DroppedInv
  BY <1>2, <1>4, CostTypes DEF DroppedInv, Ceil
<1>14. DualInv
  <2>1. ASSUME NEW c \in Unsolved PROVE dual <= Ceil(c)
    <3>1. c \in {x.cost, Inf}
      BY <1>2, <1>5, <1>6 DEF Unsolved
    <3>2. c \in Costs /\ x.cost <= c /\ c \in Nat
      BY <1>3, <3>1, CostTypes
    <3>3. c <= Ceil(c) /\ Ceil(c) \in Nat
      BY <3>2, CeilFacts
    <3>4. dual \in Int
      BY <1>8 DEF StateInv
    <3>. QED BY <1>3, <1>11, <3>2, <3>3, <3>4
  <2>. QED BY <2>1 DEF DualInv
<1>15. BestInv /\ EmptyInv /\ FinalInv /\ DoneInv
  BY <1>2, <1>6 DEF BestInv, EmptyInv, FinalInv, DoneInv
<1>. QED BY <1>8, <1>9, <1>10, <1>12, <1>13, <1>14, <1>15 DEF BranchInv

LEMMA InspectInv ==
  ASSUME BranchInv, Inspect
  PROVE  BranchInv'
<1>. DEFINE x == Head(hand)
<1>1. pc \in {"root", "inspect"}
  BY DEF Inspect
<1>2. /\ hand # <<>> /\ x \in Node /\ x = hand[1] /\ x.cost \in Costs /\ x.cost \in Unsolved
      /\ Unsolved \subseteq Costs /\ \A c \in Unsolved : dual <= Ceil(c)
  BY <1>1, InHand
<1>3. Inspected(x)
  BY <1>1, SaveEffect, QueueEffect, CutOffEffect DEF Inspect
<1>4. /\ nIterations' = nIterations + 1 /\ hand' = Tail(hand)
      /\ pc' = IF pc = "root" THEN (IF nActive' > nActive THEN "test" ELSE "final")
               ELSE IF Len(hand) = 1 THEN "report" ELSE "inspect"
      /\ level' = level /\ set' = set /\ halted' = halted
  BY DEF Inspect
<1>5. StateInv /\ CountInv /\ HandInv /\ TimerInv /\ EmptyInv
  BY DEF BranchInv
<1>6. /\ hand' \in Seq(Node) /\ Len(hand') = Len(hand) - 1
      /\ CostsOf(hand') \subseteq CostsOf(hand)
  BY <1>2, <1>4, <1>5, PopFacts DEF StateInv
<1>7. Len(hand) \in Nat /\ Len(active) \in Nat /\ Len(active') \in Nat
  BY <1>3, <1>5, CostsOfList DEF StateInv, Inspected
<1>8. set.nodes \in Nat /\ set.iterations \in Nat
  BY <1>5, LimitAssumption DEF StateInv
<1>9. pc' \in {"test", "final", "report", "inspect"}
  BY <1>4
<1>10. StateInv'
  BY <1>3, <1>4, <1>5, <1>6, <1>9 DEF StateInv, Inspected, Places
<1>11. CountInv'
  <2>1. nActive' + Len(hand') <= nActive + Len(hand)
    BY <1>3, <1>5, <1>6, <1>7 DEF Inspected, CountInv
  <2>2. nIterations' + Len(hand') = nIterations + Len(hand)
    BY <1>4, <1>5, <1>6, <1>7 DEF StateInv
  <2>3. nActive' \in Nat /\ nActive \in Nat /\ nActive' = Len(active') /\ Len(hand') \in Nat
    BY <1>2, <1>3, <1>5, <1>6, <1>7, EmptySeq DEF Inspected, CountInv, StateInv
  <2>. QED BY <1>4, <1>5, <1>7, <1>8, <2>1, <2>2, <2>3 DEF CountInv, Greater
<1>12. hand' = <<>> <=> Len(hand') = 0
  BY <1>6, CostsOfList
<1>13. HandInv'
  <2>1. CASE pc = "root"
    <3>1. Len(hand) = 1 /\ pc' \in {"test", "final"}
      BY <1>4, <1>5, <2>1 DEF HandInv
    <3>2. hand' = <<>>
      BY <1>6, <1>12, <3>1
    <3>. QED BY <3>1, <3>2 DEF HandInv
  <2>2. CASE pc = "inspect" /\ Len(hand) = 1
    <3>1. pc' = "report" /\ hand' = <<>>
      BY <1>4, <1>6, <1>12, <2>2
    <3>. QED BY <3>1 DEF HandInv
  <2>3. CASE pc = "inspect" /\ Len(hand) = 2
    <3>1. pc' = "inspect" /\ Len(hand') = 1
      BY <1>4, <1>6, <2>3
    <3>. QED BY <3>1 DEF HandInv
  <2>. QED BY <1>1, <1>5, <2>1, <2>2, <2>3 DEF HandInv
<1>14. TimerInv'
  BY <1>3 DEF TimerInv, Inspected
<1>15. DroppedInv'
  BY <1>3 DEF DroppedInv, Inspected
<1>16. DualInv'
  <2>1. Unsolved' \subseteq Unsolved
    BY <1>2, <1>3, <1>6 DEF Unsolved, Inspected
  <2>2. ASSUME NEW c \in Unsolved' PROVE dual' <= Ceil(c)
    BY <1>2, <1>3, <2>1 DEF Inspected
  <2>. QED BY <2>2 DEF DualInv
<1>17. BestInv'
  BY <1>3 DEF BestInv, Inspected
<1>18. active' = <<>> => bestBound' > saved' - 2
  <2>. SUFFICES ASSUME active' = <<>> PROVE bestBound' > saved' - 2
    OBVIOUS
  <2>1. active = <<>> /\ bestBound' = bestBound /\ x.cost > saved' - 2 /\ saved' <= saved
    BY <1>3 DEF Inspected
  <2>2. CASE pc = "root"
    BY <1>2, <1>5, <2>1, <2>2 DEF HandInv
  <2>3. CASE pc = "inspect"
    <3>1. bestBound > saved - 2
      BY <1>5, <2>1, <2>3 DEF EmptyInv
    <3>2. bestBound \in Nat /\ saved \in Nat /\ saved' \in Nat
      BY <1>3, <1>5, CostTypes DEF StateInv, Inspected
    <3>3. bestBound' = bestBound /\ saved' <= saved
      BY <2>1
    <3>4. \A a, b, c \in Nat : a > b - 2 /\ c <= b => a > c - 2
      OBVIOUS
    <3>5. bestBound > saved' - 2
      BY <3>1, <3>2, <3>3, <3>4
    <3>. QED BY <3>3, <3>5
  <2>. QED BY <1>1, <2>2, <2>3
<1>19. EmptyInv'
  BY <1>18 DEF EmptyInv
<1>20. FinalInv'
  <2>1. ASSUME pc' = "final" PROVE active' = <<>>
    <3>1. pc = "root" /\ ~(nActive' > nActive)
      BY <1>1, <1>4, <2>1
    <3>2. active = <<>> /\ nActive = Len(active) /\ nActive' = Len(active')
      BY <1>3, <1>5, <3>1 DEF HandInv, CountInv, Inspected
    <3>3. Len(active) = 0
      BY <1>5, <3>2, CostsOfList DEF StateInv
    <3>4. Len(active') = 0
      BY <1>7, <3>1, <3>2, <3>3
    <3>. QED BY <1>3, <3>4, CostsOfList DEF Inspected
  <2>. QED BY <1>18, <2>1 DEF FinalInv
<1>21. DoneInv'
  BY <1>9 DEF DoneInv
<1>. QED BY <1>10, <1>11, <1>13, <1>14, <1>15, <1>16, <1>17, <1>19, <1>20, <1>21 DEF BranchInv
(* A node is selected wherever there is one.                                 *)
LEMMA SelectedFacts ==
  ASSUME active \in Seq(Node), Len(active) > 0
  PROVE  Selected \in 1 .. Len(active)
<1>. DEFINE n == Len(active)
<1>1. /\ n \in Nat /\ CostsOf(active) \subseteq Costs
      /\ \A i \in 1 .. n : active[i].cost \in CostsOf(active)
  BY CostsOfList
<1>2. 1 \in 1 .. n
  BY <1>1
<1>3. CostsOf(active) \in SUBSET Nat /\ CostsOf(active) # {}
  BY <1>1, <1>2, CostTypes
<1>4. PICK m \in CostsOf(active) : \A c \in CostsOf(active) : m <= c
  BY <1>3, NatLeast
<1>. DEFINE I == {i \in 1 .. n : active[i].cost = m}
<1>5. I \in SUBSET Nat /\ I # {}
  BY <1>1, <1>4 DEF CostsOf
<1>6. PICK i \in I : \A j \in I : i <= j
  BY <1>5, NatLeast
<1>7. i \in 1 .. n /\ active[i].cost = m /\ m \in Nat
  BY <1>3, <1>4, <1>6
<1>8. ASSUME NEW j \in 1 .. n PROVE active[i].cost <= active[j].cost
  BY <1>1, <1>4, <1>7
<1>9. ASSUME NEW j \in 1 .. i - 1 PROVE active[i].cost < active[j].cost
  <2>1. j \in 1 .. n /\ ~(i <= j)
    BY <1>1, <1>7
  <2>2. active[j].cost # m
    BY <1>6, <2>1
  <2>3. m <= active[j].cost /\ active[j].cost \in Nat
    BY <1>1, <1>3, <1>4, <2>1
  <2>. QED BY <1>7, <2>2, <2>3
<1>10. \E k \in 1 .. Len(active) :
         /\ \A j \in 1 .. Len(active) : active[k].cost <= active[j].cost
         /\ \A j \in 1 .. k - 1 : active[k].cost < active[j].cost
  BY <1>7, <1>8, <1>9
<1>11. CASE SearchState \in {"CONSTRUCT_BFS", "EXHAUSTIVE_BFS"}
  BY <1>10, <1>11 DEF Selected
<1>12. CASE ~(SearchState \in {"CONSTRUCT_BFS", "EXHAUSTIVE_BFS"})
  <2>1. Selected = 1
    BY <1>12 DEF Selected
  <2>. QED BY <1>2, <2>1
<1>. QED BY <1>11, <1>12

LEMMA BranchStepInv ==
  ASSUME BranchInv, Branch
  PROVE  BranchInv'
<1>. DEFINE x == active[Selected]
            rest == RemoveAt(active, Selected)
<1>1. /\ pc = "test" /\ NodesLeft /\ pc' = "inspect"
      /\ active' = rest /\ nActive' = nActive - 1 /\ bestBound' = BoundOfRest(rest)
      /\ level' = level /\ set' = set /\ dropped' = dropped /\ saved' = saved
      /\ feasible' = feasible /\ nIterations' = nIterations /\ halted' = halted
      /\ dual' = dual /\ primal' = primal /\ rejected' = rejected
  BY DEF Branch, timer
<1>2. PICK first \in Subproblems(x.cost, x.free - 1), second \in Subproblems(x.cost, x.free - 1) :
        hand' = <<first, second>>
  BY DEF Branch
<1>3. StateInv /\ CountInv /\ HandInv /\ TimerInv /\ DroppedInv /\ DualInv /\ BestInv
  BY DEF BranchInv
<1>4. set.nodes \in Nat /\ set.iterations \in Nat
  BY <1>3, LimitAssumption DEF StateInv
<1>5. /\ active \in Seq(Node) /\ Len(active) \in Nat /\ CostsOf(active) \subseteq Costs
      /\ nActive = Len(active) /\ Len(active) > 0 /\ hand = <<>>
  BY <1>1, <1>3, CostsOfList DEF StateInv, CountInv, HandInv, NodesLeft
<1>6. Selected \in 1 .. Len(active)
  BY <1>5, SelectedFacts
<1>7. x \in Node /\ x.cost \in CostsOf(active) /\ x.cost \in Costs /\ x.cost \in Nat /\ x.free \in Int
  BY <1>5, <1>6, CostsOfList, CostTypes DEF Node
<1>8. /\ first \in Node /\ first.cost \in Costs /\ first.cost >= x.cost
      /\ second \in Node /\ second.cost \in Costs /\ second.cost >= x.cost
  <2>1. x.free - 1 \in Int
    BY <1>7
  <2>. QED BY <1>7, <2>1, SubproblemFacts
<1>9. hand' \in Seq(Node) /\ Len(hand') = 2 /\ CostsOf(hand') = {first.cost, second.cost}
  BY <1>2, <1>8, PairFacts
<1>10. /\ rest \in Seq(Node) /\ Len(rest) = Len(active) - 1
       /\ \A k \in 1 .. Len(rest) : \E i \in 1 .. Len(active) : rest[k] = active[i]
  BY <1>5, <1>6, RemoveFacts
<1>11. CostsOf(rest) \subseteq CostsOf(active) /\ CostsOf(rest) \in SUBSET Costs
  BY <1>5, <1>10, CostsOfPart
<1>12. saved \in Costs
  BY <1>3, CostTypes DEF StateInv
<1>13. /\ bestBound' \in CostsOf(rest) \union {saved} /\ bestBound' \in Costs
       /\ \A c \in CostsOf(rest) : bestBound' <= c
  BY <1>1, <1>11, <1>12, LeastFacts DEF BoundOfRest
<1>14. StateInv'
  BY <1>1, <1>3, <1>9, <1>10, <1>13 DEF StateInv, Places
<1>15. CountInv'
  <2>1. nActive < set.nodes /\ nIterations < set.iterations /\ nIterations \in Nat
    BY <1>1, <1>3 DEF NodesLeft, StateInv
  <2>2. nActive' = Len(active')
    BY <1>1, <1>5, <1>10
  <2>3. nActive' + Len(hand') <= set.nodes /\ nActive' + Len(hand') \in Int
    BY <1>1, <1>4, <1>5, <1>9, <2>1
  <2>4. nIterations' + Len(hand') <= set.iterations + 1
    BY <1>1, <1>4, <1>9, <2>1
  <2>. QED BY <1>1, <1>4, <2>2, <2>3, <2>4 DEF CountInv, Greater
<1>16. HandInv'
  BY <1>1, <1>9 DEF HandInv
<1>17. TimerInv' /\ DroppedInv'
  BY <1>1, <1>3 DEF TimerInv, DroppedInv
<1>18. DualInv'
  <2>1. ASSUME NEW c \in Unsolved' PROVE dual' <= Ceil(c)
    <3>1. \A d \in Unsolved : dual <= Ceil(d)
      BY <1>1, <1>3 DEF DualInv
    <3>2. CASE c \in CostsOf(active) \union {dropped}
      BY <1>1, <3>1, <3>2 DEF Unsolved
    <3>3. CASE c \in {first.cost, second.cost}
      <4>1. dual <= Ceil(x.cost)
        BY <1>7, <3>1 DEF Unsolved
      <4>2. c \in Costs /\ x.cost <= c
        <5>1. c \in Costs /\ c >= x.cost
          BY <1>8, <3>3
        <5>2. c \in Nat
          BY <5>1, CostTypes
        <5>. QED BY <1>7, <5>1, <5>2
      <4>3. Ceil(x.cost) <= Ceil(c) /\ Ceil(x.cost) \in Nat /\ Ceil(c) \in Nat
        BY <1>7, <4>2, CeilFacts
      <4>4. dual \in Int
        BY <1>3 DEF StateInv
      <4>. QED BY <1>1, <4>1, <4>3, <4>4
    <3>. QED BY <1>1, <1>9, <1>11, <3>2, <3>3 DEF Unsolved
  <2>. QED BY <2>1 DEF DualInv
<1>19. BestInv'
  BY <1>1, <1>13 DEF BestInv
<1>20. EmptyInv'
  <2>. SUFFICES ASSUME active' = <<>> PROVE bestBound' > saved' - 2
    BY DEF EmptyInv
  <2>1. CostsOf(rest) = {}
    BY <1>1, <1>10, CostsOfList
  <2>2. bestBound' = saved /\ saved \in Nat
    BY <1>12, <1>13, <2>1, CostTypes
  <2>. QED BY <1>1, <2>2
<1>21. FinalInv' /\ DoneInv'
  BY <1>1 DEF FinalInv, DoneInv
<1>. QED BY <1>14, <1>15, <1>16, <1>17, <1>18, <1>19, <1>20, <1>21 DEF BranchInv

(* NoVariable, Report and Leave change neither the list nor what is in hand. *)
LEMMA NoVariableInv ==
  ASSUME BranchInv, NoVariable
  PROVE  BranchInv'
<1>1. /\ pc = "test" /\ pc' = "error" /\ level' = level /\ set' = set /\ hand' = hand
      /\ active' = active /\ nActive' = nActive /\ dropped' = dropped /\ saved' = saved
      /\ bestBound' = bestBound /\ feasible' = feasible /\ nIterations' = nIterations
      /\ dual' = dual /\ primal' = primal /\ rejected' = rejected /\ halted' = halted
  BY DEF NoVariable, timer, list
<1>2. Unsolved' = Unsolved /\ CostsOf(active') = CostsOf(active)
  BY <1>1 DEF Unsolved
<1>3. StateInv'
  BY <1>1 DEF BranchInv, StateInv, Places
<1>4. CountInv' /\ HandInv' /\ TimerInv' /\ DroppedInv'
  BY <1>1 DEF BranchInv, CountInv, HandInv, TimerInv, DroppedInv
<1>5. DualInv'
  BY <1>1, <1>2 DEF BranchInv, DualInv
<1>6. BestInv' /\ EmptyInv' /\ FinalInv' /\ DoneInv'
  BY <1>1, <1>2 DEF BranchInv, BestInv, EmptyInv, FinalInv, DoneInv
<1>. QED BY <1>3, <1>4, <1>5, <1>6 DEF BranchInv

LEMMA LeaveInv ==
  ASSUME BranchInv, Leave
  PROVE  BranchInv'
<1>1. /\ pc = "test" /\ pc' = "final" /\ level' = level /\ set' = set /\ hand' = hand
      /\ active' = active /\ nActive' = nActive /\ dropped' = dropped /\ saved' = saved
      /\ bestBound' = bestBound /\ feasible' = feasible /\ nIterations' = nIterations
      /\ dual' = dual /\ primal' = primal /\ rejected' = rejected
  BY DEF Leave, timer, list
<1>2. halted' = ((NodesLeft /\ Unfinished) \/ nActive >= set.nodes \/ nIterations >= set.iterations)
  BY DEF Leave
<1>3. Unsolved' = Unsolved /\ CostsOf(active') = CostsOf(active)
  BY <1>1 DEF Unsolved
<1>4. StateInv'
  <2>1. halted' \in BOOLEAN
    BY <1>2
  <2>. QED BY <1>1, <2>1 DEF BranchInv, StateInv, Places
<1>5. CountInv' /\ HandInv' /\ TimerInv' /\ DroppedInv'
  BY <1>1 DEF BranchInv, CountInv, HandInv, TimerInv, DroppedInv
<1>6. DualInv'
  BY <1>1, <1>3 DEF BranchInv, DualInv
<1>7. BestInv' /\ EmptyInv' /\ DoneInv'
  BY <1>1, <1>3 DEF BranchInv, BestInv, EmptyInv, DoneInv
<1>8. FinalInv'
  <2>. SUFFICES ASSUME ~halted', level # "SEARCH_FEASIBLE", saved # Inf
                PROVE  bestBound > saved - 2
    BY <1>1 DEF FinalInv
  <2>1. ~(NodesLeft /\ Unfinished) /\ ~(nActive >= set.nodes) /\ ~(nIterations >= set.iterations)
    BY <1>2
  <2>2. /\ set.nodes \in Nat /\ set.iterations \in Nat /\ nIterations \in Nat
        /\ active \in Seq(Node) /\ nActive = Len(active) /\ bestBound \in Nat /\ saved \in Nat
    BY LimitAssumption, CostTypes DEF BranchInv, StateInv, CountInv
  <2>3. Len(active) \in Nat /\ (Len(active) = 0 => active = <<>>)
    BY <2>2, CostsOfList
  <2>4. CASE nActive = 0
    BY <1>1, <2>2, <2>3, <2>4 DEF BranchInv, EmptyInv
  <2>5. CASE nActive # 0
    <3>1. NodesLeft
      BY <2>1, <2>2, <2>3, <2>5 DEF NodesLeft
    <3>2. ~WholeBelow(bestBound, saved)
      BY <2>1, <3>1 DEF Unfinished
    <3>. QED BY <2>2, <3>2 DEF WholeBelow
  <2>. QED BY <2>4, <2>5
<1>. QED BY <1>4, <1>5, <1>6, <1>7, <1>8 DEF BranchInv

LEMMA ReportInv ==
  ASSUME BranchInv, Report
  PROVE  BranchInv'
<1>1. /\ pc = "report" /\ pc' = "test" /\ level' = level /\ set' = set /\ hand' = hand
      /\ active' = active /\ nActive' = nActive /\ dropped' = dropped /\ saved' = saved
      /\ bestBound' = bestBound /\ feasible' = feasible /\ nIterations' = nIterations
      /\ halted' = halted
  BY DEF Report, list
<1>2. StateInv /\ CountInv /\ HandInv /\ TimerInv /\ DroppedInv /\ DualInv /\ BestInv
      /\ EmptyInv
  BY DEF BranchInv
<1>3. Unsolved' = Unsolved /\ CostsOf(active') = CostsOf(active)
  BY <1>1 DEF Unsolved
<1>4. /\ saved \in Nat /\ bestBound \in Nat /\ dual \in Int /\ primal = saved /\ ~rejected
      /\ dual <= saved /\ saved <= Ceil(dropped) /\ dropped \in Costs /\ hand = <<>>
  BY <1>1, <1>2, CostTypes DEF StateInv, TimerInv, DroppedInv, HandInv
<1>5. /\ ~rejected' /\ primal' = primal /\ dual' \in Int /\ dual' <= saved
      /\ (dual' = dual \/ (dual' = bestBound /\ bestBound <= saved))
  <2>1. CASE primal >= bestBound
    <3>1. /\ rejected' = (rejected \/ bestBound > primal) /\ primal' = primal
          /\ dual' = Greater(dual, Lesser(bestBound, primal))
      BY <2>1 DEF Report, SetDual
    <3>2. ~(bestBound > primal) /\ Lesser(bestBound, primal) = bestBound
      BY <1>4, <2>1 DEF Lesser
    <3>3. ~rejected' /\ primal' = primal /\ dual' = Greater(dual, bestBound)
      BY <1>4, <3>1, <3>2
    <3>4. /\ Greater(dual, bestBound) \in Int /\ Greater(dual, bestBound) <= saved
          /\ Greater(dual, bestBound) # dual => Greater(dual, bestBound) = bestBound
      BY <1>4, <2>1 DEF Greater
    <3>5. bestBound <= saved
      BY <1>4, <2>1
    <3>. QED BY <3>3, <3>4, <3>5
  <2>2. CASE ~(primal >= bestBound)
    BY <1>4, <2>2 DEF Report, timer
  <2>. QED BY <2>1, <2>2
<1>6. StateInv'
  BY <1>1, <1>2, <1>5 DEF StateInv, Places
<1>7. CountInv' /\ HandInv' /\ DroppedInv'
  BY <1>1, <1>2 DEF CountInv, HandInv, DroppedInv
<1>8. TimerInv'
  BY <1>1, <1>2, <1>5 DEF TimerInv
<1>9. DualInv'
  <2>1. ASSUME NEW c \in Unsolved PROVE dual' <= Ceil(c)
    <3>1. CASE dual' = dual
      BY <1>1, <1>2, <3>1 DEF DualInv
    <3>2. CASE dual' = bestBound /\ bestBound <= saved
      <4>1. CASE c = dropped
        <5>1. Ceil(dropped) \in Nat
          BY <1>4, CeilFacts
        <5>. QED BY <1>4, <3>2, <4>1, <5>1
      <4>2. CASE c \in CostsOf(active)
        <5>1. bestBound <= c /\ c \in Costs
          BY <1>1, <1>2, <4>2, CostsOfList DEF BestInv, StateInv
        <5>2. c <= Ceil(c) /\ Ceil(c) \in Nat /\ c \in Nat
          BY <5>1, CeilFacts, CostTypes
        <5>3. bestBound <= Ceil(c)
          BY <1>4, <5>1, <5>2
        <5>. QED BY <3>2, <5>3
      <4>3. CostsOf(hand) = {}
        BY <1>2, <1>4, CostsOfList DEF StateInv
      <4>. QED BY <4>1, <4>2, <4>3 DEF Unsolved
    <3>. QED BY <1>5, <3>1, <3>2
  <2>. QED BY <1>3, <2>1 DEF DualInv
<1>10. BestInv' /\ EmptyInv' /\ FinalInv' /\ DoneInv'
  BY <1>1, <1>2, <1>3 DEF BestInv, EmptyInv, FinalInv, DoneInv
<1>. QED BY <1>6, <1>7, <1>8, <1>9, <1>10 DEF BranchInv
(* Where the search was not stopped, the gap is closed; where only the       *)
(* comparison of the constructor says so, at most one unit is lost.          *)
LEMMA ConcludeInv ==
  ASSUME BranchInv, Conclude
  PROVE  BranchInv'
<1>1. /\ pc = "final" /\ pc' = "done" /\ level' = level /\ set' = set /\ hand' = hand
      /\ active' = active /\ nActive' = nActive /\ dropped' = dropped /\ saved' = saved
      /\ feasible' = feasible /\ nIterations' = nIterations /\ halted' = halted
      /\ sense' = sense /\ interrupted' = Gap
  BY DEF Conclude, list
<1>2. StateInv /\ CountInv /\ HandInv /\ TimerInv /\ DroppedInv /\ DualInv /\ BestInv /\ FinalInv
  BY DEF BranchInv
<1>3. /\ saved \in Values /\ saved \in Nat /\ bestBound \in Nat /\ dual \in Int
      /\ primal = saved /\ ~rejected /\ dual <= saved /\ saved <= Ceil(dropped)
      /\ dropped \in Costs /\ hand = <<>> /\ saved \in Costs
  BY <1>1, <1>2, CostTypes DEF StateInv, TimerInv, DroppedInv, HandInv
<1>4. Unsolved' = Unsolved /\ CostsOf(active') = CostsOf(active)
  BY <1>1 DEF Unsolved
<1>5. /\ bestBound' \in Costs /\ ~rejected' /\ primal' = saved /\ dual' \in Int /\ dual' <= saved
      /\ (Gap => dual' = dual) /\ (~Gap => dual' = saved)
  <2>1. CASE Gap
    BY <1>2, <1>3, <2>1 DEF Conclude, timer, StateInv
  <2>2. CASE ~Gap
    <3>1. /\ bestBound' = saved /\ rejected' = (rejected \/ saved > primal) /\ primal' = primal
          /\ dual' = Greater(dual, Lesser(saved, primal))
      BY <2>2 DEF Conclude, SetDual
    <3>2. ~(saved > primal) /\ Lesser(saved, primal) = saved
      BY <1>3 DEF Lesser
    <3>3. Greater(dual, saved) = saved
      BY <1>3 DEF Greater
    <3>4. ~rejected' /\ primal' = saved /\ dual' = saved
      BY <1>3, <3>1, <3>2, <3>3
    <3>5. saved \in Int /\ saved <= saved
      BY <1>3
    <3>. QED BY <1>3, <2>2, <3>1, <3>4, <3>5
  <2>. QED BY <2>1, <2>2
<1>6. Unsolved = CostsOf(active) \union {dropped}
  <2>1. CostsOf(hand) = {}
    BY <1>2, <1>3, CostsOfList DEF StateInv
  <2>. QED BY <2>1 DEF Unsolved
<1>7. \A c \in CostsOf(active) : c \in Costs /\ c \in Nat /\ bestBound <= c
  BY <1>1, <1>2, CostsOfList, CostTypes DEF BestInv, StateInv
<1>8. ASSUME ~Gap, NEW c \in Unsolved PROVE saved <= Ceil(c) \/ GapOfOne(c)'
  <2>1. CASE c = dropped
    BY <1>3, <2>1
  <2>2. CASE c \in CostsOf(active)
    <3>. DEFINE e == IF sense = "MAXIMIZE" THEN 1 ELSE 0
    <3>1. saved # Inf /\ ~(bestBound <= saved - 2 - e)
      BY <1>8 DEF Gap
    <3>2. c \in Costs /\ c \in Nat /\ bestBound <= c
      BY <1>7, <2>2
    <3>3. CASE sense # "MAXIMIZE"
      <4>1. c > saved - 2
        BY <1>3, <3>1, <3>2, <3>3
      <4>. QED BY <1>3, <3>2, <4>1, CeilFacts
    <3>4. CASE sense = "MAXIMIZE"
      <4>1. c > saved - 3
        BY <1>3, <3>1, <3>2, <3>4
      <4>2. saved <= Ceil(c) \/ Ceil(c) = saved - 2
        BY <1>3, <3>1, <3>2, <4>1, CeilFacts
      <4>3. sense' = "MAXIMIZE" /\ pc' = "done" /\ saved' = saved
        BY <1>1, <3>4
      <4>. QED BY <4>2, <4>3 DEF GapOfOne
    <3>. QED BY <3>3, <3>4
  <2>. QED BY <1>6, <1>8, <2>1, <2>2
<1>9. ASSUME ~halted, level # "SEARCH_FEASIBLE", saved # Inf
      PROVE  ~Gap /\ \A c \in Unsolved : Ceil(c) >= saved
  <2>1. bestBound > saved - 2 /\ feasible
    BY <1>1, <1>2, <1>9 DEF FinalInv, TimerInv
  <2>2. ~Gap
    BY <1>3, <1>9, <2>1 DEF Gap
  <2>3. ASSUME NEW c \in Unsolved PROVE Ceil(c) >= saved
    <3>1. CASE c = dropped
      <4>1. Ceil(dropped) \in Nat
        BY <1>3, CeilFacts
      <4>. QED BY <1>3, <3>1, <4>1
    <3>2. CASE c \in CostsOf(active)
      <4>1. c \in Costs /\ c > saved - 2
        BY <1>3, <1>7, <2>1, <3>2
      <4>2. saved <= Ceil(c) /\ Ceil(c) \in Nat
        BY <1>3, <4>1, CeilFacts
      <4>. QED BY <1>3, <4>2
    <3>. QED BY <1>6, <2>3, <3>1, <3>2
  <2>. QED BY <2>2, <2>3
<1>10. StateInv'
  BY <1>1, <1>2, <1>5 DEF StateInv, Places
<1>11. CountInv' /\ HandInv' /\ DroppedInv'
  BY <1>1, <1>2 DEF CountInv, HandInv, DroppedInv
<1>12. TimerInv'
  BY <1>1, <1>2, <1>5 DEF TimerInv
<1>13. DualInv' /\ BestInv' /\ EmptyInv' /\ FinalInv'
  BY <1>1 DEF DualInv, BestInv, EmptyInv, FinalInv
<1>14. DoneInv'
  <2>1. ASSUME NEW c \in Unsolved PROVE dual' <= Ceil(c) \/ GapOfOne(c)'
    <3>1. CASE Gap
      BY <1>1, <1>2, <1>5, <3>1 DEF DualInv
    <3>2. CASE ~Gap
      BY <1>5, <1>8, <3>2
    <3>. QED BY <3>1, <3>2
  <2>2. OptimumFound'
    <3>. SUFFICES ASSUME ~halted, level # "SEARCH_FEASIBLE", saved # Inf
                  PROVE  ~Gap /\ dual' = saved /\ \A c \in Unsolved : Ceil(c) >= saved
      BY <1>1, <1>4 DEF OptimumFound
    <3>. QED BY <1>5, <1>9
  <2>. QED BY <1>4, <2>1, <2>2 DEF DoneInv
<1>. QED BY <1>10, <1>11, <1>12, <1>13, <1>14 DEF BranchInv

-------------------------------------------------------------------------------
(* Every step keeps the invariant.                                           *)
LEMMA BranchInvariant == Spec => []BranchInv
<1>1. BranchInv /\ [Next]_vars => BranchInv'
  <2>. SUFFICES ASSUME BranchInv, [Next]_vars PROVE BranchInv'
    OBVIOUS
  <2>1. CASE Inspect
    BY <2>1, InspectInv
  <2>2. CASE Branch
    BY <2>2, BranchStepInv
  <2>3. CASE NoVariable
    BY <2>3, NoVariableInv
  <2>4. CASE Report
    BY <2>4, ReportInv
  <2>5. CASE Leave
    BY <2>5, LeaveInv
  <2>6. CASE Conclude
    BY <2>6, ConcludeInv
  <2>7. CASE UNCHANGED vars
    <3>1. /\ pc' = pc /\ level' = level /\ set' = set /\ hand' = hand /\ sense' = sense
          /\ active' = active /\ nActive' = nActive /\ dropped' = dropped /\ saved' = saved
          /\ bestBound' = bestBound /\ feasible' = feasible /\ nIterations' = nIterations
          /\ dual' = dual /\ primal' = primal /\ rejected' = rejected /\ halted' = halted
          /\ interrupted' = interrupted
      BY <2>7 DEF vars, list, timer
    <3>2. Unsolved' = Unsolved /\ CostsOf(active') = CostsOf(active)
      BY <3>1 DEF Unsolved
    <3>3. StateInv' /\ CountInv' /\ HandInv' /\ TimerInv' /\ DroppedInv'
      BY <3>1 DEF BranchInv, StateInv, CountInv, HandInv, TimerInv, DroppedInv
    <3>4. DualInv' /\ BestInv' /\ EmptyInv' /\ FinalInv'
      BY <3>1, <3>2 DEF BranchInv, DualInv, BestInv, EmptyInv, FinalInv
    <3>5. DoneInv'
      BY <3>1, <3>2 DEF BranchInv, DoneInv, OptimumFound, GapOfOne
    <3>. QED BY <3>3, <3>4, <3>5 DEF BranchInv
  <2>. QED BY <2>1, <2>2, <2>3, <2>4, <2>5, <2>6, <2>7 DEF Next
<1>. QED BY InitInv, <1>1, PTL DEF Spec

(* The counter of active nodes is the length of the list, whatever           *)
(* StripQueue deletes, and the limits on active nodes and on iterations are  *)
(* exceeded by no more than what is in hand.                                 *)
THEOREM LimitsHold == Spec => []LimitsKept
<1>1. BranchInv => LimitsKept
  <2>. SUFFICES ASSUME BranchInv PROVE LimitsKept
    OBVIOUS
  <2>1. /\ hand \in Seq(Node) /\ active \in Seq(Node) /\ nIterations \in Nat
        /\ set.nodes \in Nat /\ set.iterations \in Nat
    BY LimitAssumption DEF BranchInv, StateInv
  <2>2. Len(hand) \in Nat /\ Len(active) \in Nat
    BY <2>1, CostsOfList
  <2>3. Len(hand) <= 2
    <3>1. CASE pc \in {"root", "inspect"}
      <4>1. Len(hand) \in {1, 2}
        BY <3>1 DEF BranchInv, HandInv
      <4>2. CASE Len(hand) = 1
        BY <4>2
      <4>3. CASE Len(hand) = 2
        BY <4>3
      <4>. QED BY <4>1, <4>2, <4>3
    <3>2. CASE pc \notin {"root", "inspect"}
      <4>1. hand = <<>>
        BY <3>2 DEF BranchInv, HandInv
      <4>2. Len(hand) = 0
        BY <2>1, <4>1, CostsOfList
      <4>. QED BY <4>2
    <3>. QED BY <3>1, <3>2
  <2>4. /\ nActive = Len(active) /\ nActive + Len(hand) <= Greater(set.nodes, 1)
        /\ nIterations + Len(hand) <= set.iterations + 1
    BY DEF BranchInv, CountInv
  <2>5. Greater(set.nodes, 1) \in Nat
    BY <2>1 DEF Greater
  <2>. QED BY <2>1, <2>2, <2>3, <2>4, <2>5 DEF LimitsKept
<1>. QED BY <1>1, BranchInvariant, PTL

(* The bounds that are reported to the timer enclose the optimum at any time *)
(* and however the search ends, and SetBounds rejects none of them.          *)
THEOREM BoundsCorrect == Spec => []BoundsValid
<1>1. BranchInv => BoundsValid
  <2>. SUFFICES ASSUME BranchInv PROVE BoundsValid
    OBVIOUS
  <2>1. ~rejected /\ dual <= primal /\ primal = saved
    BY DEF BranchInv, TimerInv
  <2>2. \A c \in Unsolved : dual <= Ceil(c) \/ GapOfOne(c)
    BY DEF BranchInv, DualInv, DoneInv
  <2>3. pc = "test" => \A c \in CostsOf(active) : bestBound <= c
    BY DEF BranchInv, BestInv
  <2>. QED BY <2>1, <2>2, <2>3 DEF BoundsValid
<1>. QED BY <1>1, BranchInvariant, PTL

(* A search that neither the user nor a limit has ended reports an optimum.  *)
THEOREM OptimumReported == Spec => []OptimumFound
<1>1. BranchInv => OptimumFound
  BY DEF BranchInv, DoneInv, OptimumFound
<1>. QED BY <1>1, BranchInvariant, PTL
-------------------------------------------------------------------------------
(* The size of the tree.                                                     *)

(* Induction up to a bound.                                                  *)
LEMMA CountUp ==
  ASSUME NEW m \in Nat, NEW S, 0 \in S,
         \A k \in Nat : k < m /\ k \in S => k + 1 \in S
  PROVE  \A k \in 0 .. m : k \in S
<1>. SUFFICES ASSUME NEW k \in 0 .. m, k \notin S PROVE FALSE
  OBVIOUS
<1>. DEFINE T == {j \in 0 .. m : j \notin S}
<1>1. T \in SUBSET Nat /\ T # {}
  OBVIOUS
<1>2. PICK b \in T : \A j \in T : b <= j
  BY <1>1, NatLeast
<1>3. b \in Nat /\ b <= m /\ b \notin S /\ b # 0
  BY <1>2
<1>4. b - 1 \in Nat /\ b - 1 < m /\ b - 1 \in 0 .. m /\ ~(b <= b - 1) /\ (b - 1) + 1 = b
  BY <1>3
<1>5. b - 1 \in S
  BY <1>2, <1>4
<1>. QED BY <1>3, <1>4, <1>5

IsTreeSize(m, g) == g = [k \in 0 .. m |-> IF k = 0 THEN 0 ELSE 2 * (g[k - 1] + 1)]

LEMMA TreeSizeExists ==
  ASSUME NEW m \in Nat
  PROVE  \E g : IsTreeSize(m, g)
<1>. DEFINE S == {k \in Nat : \E g : IsTreeSize(k, g)}
<1>1. 0 \in S
  <2>. DEFINE g == [j \in 0 .. 0 |-> 0]
  <2>1. IsTreeSize(0, g)
    BY DEF IsTreeSize
  <2>. HIDE DEF g
  <2>. QED BY <2>1
<1>2. ASSUME NEW k \in Nat, k \in S
      PROVE  k + 1 \in S
  <2>1. PICK g : IsTreeSize(k, g)
    BY <1>2
  <2>. DEFINE h == [j \in 0 .. k + 1 |-> IF j = k + 1 THEN 2 * (g[k] + 1) ELSE g[j]]
  <2>2. ASSUME NEW j \in 0 .. k + 1
        PROVE  h[j] = IF j = 0 THEN 0 ELSE 2 * (h[j - 1] + 1)
    <3>1. CASE j = k + 1
      <4>1. h[j] = 2 * (g[k] + 1) /\ j - 1 = k /\ k \in 0 .. k + 1 /\ k # k + 1 /\ j # 0
        BY <3>1
      <4>2. h[k] = g[k]
        BY <4>1
      <4>. QED BY <4>1, <4>2
    <3>2. CASE j # k + 1
      <4>1. j \in 0 .. k /\ h[j] = g[j]
        BY <3>2
      <4>2. g[j] = IF j = 0 THEN 0 ELSE 2 * (g[j - 1] + 1)
        BY <2>1, <4>1 DEF IsTreeSize
      <4>3. CASE j # 0
        <5>1. j - 1 \in 0 .. k + 1 /\ j - 1 # k + 1
          BY <4>1, <4>3
        <5>2. h[j - 1] = g[j - 1]
          BY <5>1
        <5>. QED BY <4>1, <4>2, <4>3, <5>2
      <4>4. CASE j = 0
        BY <4>1, <4>2, <4>4
      <4>. QED BY <4>3, <4>4
    <3>. QED BY <3>1, <3>2
  <2>3. h = [j \in 0 .. k + 1 |-> h[j]]
    OBVIOUS
  <2>. HIDE DEF h
  <2>4. IsTreeSize(k + 1, h)
    BY <2>2, <2>3 DEF IsTreeSize
  <2>. QED BY <2>4
<1>. HIDE DEF S
<1>3. \A k \in 0 .. m : k \in S
  BY <1>1, <1>2, CountUp
<1>4. m \in S
  BY <1>3
<1>. QED BY <1>4 DEF S

(* A subproblem has twice the descendants of its children, and the children. *)
LEMMA DescendantFacts ==
  /\ \A k \in 0 .. Free : Descendants[k] \in Nat
  /\ Descendants[0] = 0
  /\ \A k \in 1 .. Free : Descendants[k] = 2 * (Descendants[k - 1] + 1)
<1>. DEFINE g == CHOOSE f : IsTreeSize(Free, f)
<1>1. Free \in Nat
  BY LimitAssumption
<1>2. IsTreeSize(Free, g)
  BY <1>1, TreeSizeExists
<1>3. Descendants = g
  BY DEF Descendants, IsTreeSize
<1>. HIDE DEF g
<1>4. \A k \in 0 .. Free : g[k] = IF k = 0 THEN 0 ELSE 2 * (g[k - 1] + 1)
  BY <1>2 DEF IsTreeSize
<1>5. g[0] = 0
  BY <1>1, <1>4
<1>6. \A k \in 1 .. Free : g[k] = 2 * (g[k - 1] + 1)
  BY <1>1, <1>4
<1>. DEFINE S == {k \in 0 .. Free : g[k] \in Nat}
<1>7. 0 \in S
  BY <1>1, <1>5
<1>8. ASSUME NEW k \in Nat, k < Free, k \in S PROVE k + 1 \in S
  <2>1. k + 1 \in 1 .. Free /\ (k + 1) - 1 = k /\ k + 1 \in 0 .. Free
    BY <1>1, <1>8
  <2>2. g[k + 1] = 2 * (g[k] + 1)
    BY <1>6, <2>1
  <2>3. g[k + 1] \in Nat
    BY <1>8, <2>2
  <2>. QED BY <2>1, <2>3
<1>. HIDE DEF S
<1>9. \A k \in 0 .. Free : k \in S
  BY <1>1, <1>7, <1>8, CountUp
<1>10. \A k \in 0 .. Free : g[k] \in Nat
  BY <1>9 DEF S
<1>. QED BY <1>3, <1>5, <1>6, <1>10

Below(x) == Descendants[x.free]
Sums(s, P) ==
  /\ P \in [0 .. Len(s) -> Nat]
  /\ \A i, j \in 0 .. Len(s) : i < j => P[i] + Below(s[j]) <= P[j]
(* The subproblems below those in the list s are at most w; P are bounds for *)
(* the first ones of them.                                                   *)
Room(s, w) == \E P : Sums(s, P) /\ P[Len(s)] <= w
InTree(s) == \A i \in 1 .. Len(s) : s[i].free \in 0 .. Free
HandSize ==
  IF Len(hand) = 0 THEN 0
  ELSE IF Len(hand) = 1 THEN Below(hand[1]) + 1
  ELSE Below(hand[1]) + 1 + (Below(hand[2]) + 1)
Left == Descendants[Free] + 1 - nIterations - HandSize
(* Every subproblem of the tree has been inspected, or is in hand or below   *)
(* one in the list or in hand; those below a node that was deleted are lost. *)
WorkInv == InTree(active) /\ InTree(hand) /\ Room(active, Left)

LEMMA RoomForNone ==
  ASSUME NEW s \in Seq(Node), Len(s) = 0, NEW w \in Nat
  PROVE  Room(s, w)
<1>. DEFINE P == [i \in 0 .. 0 |-> 0]
<1>1. Sums(s, P) /\ P[Len(s)] = 0
  BY DEF Sums
<1>. HIDE DEF P
<1>. QED BY <1>1 DEF Room

(* A list has its room only if that is not negative, and with more room, too. *)
LEMMA RoomNat ==
  ASSUME NEW s \in Seq(Node), NEW w \in Int, Room(s, w)
  PROVE  w \in Nat /\ \A v \in Int : w <= v => Room(s, v)
<1>1. PICK P : Sums(s, P) /\ P[Len(s)] <= w
  BY DEF Room
<1>2. Len(s) \in Nat /\ P[Len(s)] \in Nat
  <2>1. Len(s) \in Nat /\ Len(s) \in 0 .. Len(s)
    BY LenProperties
  <2>. QED BY <1>1, <2>1 DEF Sums
<1>3. w \in Nat
  BY <1>1, <1>2
<1>4. ASSUME NEW v \in Int, w <= v PROVE Room(s, v)
  <2>1. P[Len(s)] <= v
    BY <1>1, <1>2, <1>4
  <2>. QED BY <1>1, <2>1 DEF Room
<1>. QED BY <1>3, <1>4
LEMMA BelowNat ==
  ASSUME NEW s \in Seq(Node), InTree(s)
  PROVE  /\ Len(s) \in Nat
         /\ \A i \in 1 .. Len(s) : s[i] \in Node /\ s[i].free \in 0 .. Free /\ Below(s[i]) \in Nat
<1>1. Len(s) \in Nat /\ \A i \in 1 .. Len(s) : s[i] \in Node
  BY LenProperties
<1>. QED BY <1>1, DescendantFacts DEF InTree, Below

(* A node that is put in front takes the room of what is below it.           *)
LEMMA RoomPush ==
  ASSUME NEW s \in Seq(Node), InTree(s), NEW w \in Int, Room(s, w),
         NEW x \in Node, x.free \in 0 .. Free
  PROVE  InTree(<<x>> \o s) /\ Room(<<x>> \o s, w + Below(x))
<1>. DEFINE t == <<x>> \o s
            n == Len(s)
            b == Below(x)
<1>1. PICK P : Sums(s, P) /\ P[n] <= w
  BY DEF Room
<1>2. n \in Nat /\ Len(t) = n + 1 /\ t[1] = x /\ \A k \in 2 .. n + 1 : t[k] = s[k - 1]
  <2>1. <<x>> \in Seq(Node) /\ Len(<<x>>) = 1 /\ <<x>>[1] = x /\ n \in Nat
    BY LenProperties
  <2>2. /\ Len(t) = 1 + n
        /\ \A k \in 1 .. 1 + n : t[k] = IF k <= 1 THEN <<x>>[k] ELSE s[k - 1]
    BY <2>1, ConcatProperties
  <2>. QED BY <2>1, <2>2
<1>3. b \in Nat
  BY DescendantFacts DEF Below
<1>4. \A k \in 1 .. n : s[k].free \in 0 .. Free /\ Below(s[k]) \in Nat
  BY BelowNat
<1>5. /\ P \in [0 .. n -> Nat]
      /\ \A i, j \in 0 .. n : i < j => P[i] + Below(s[j]) <= P[j]
  BY <1>1 DEF Sums
<1>. DEFINE Q == [i \in 0 .. n + 1 |-> IF i = 0 THEN 0 ELSE P[i - 1] + b]
<1>6. Below(t[1]) = b
  BY <1>2
<1>7. InTree(t)
  <2>1. ASSUME NEW k \in 1 .. n + 1 PROVE t[k].free \in 0 .. Free
    <3>1. CASE k = 1
      BY <1>2, <3>1
    <3>2. CASE k # 1
      <4>1. k \in 2 .. n + 1 /\ k - 1 \in 1 .. n
        BY <1>2, <3>2
      <4>. QED BY <1>2, <1>4, <4>1
    <3>. QED BY <3>1, <3>2
  <2>. QED BY <1>2, <2>1 DEF InTree
<1>. HIDE DEF t, n, b
<1>8. Q[0] = 0 /\ \A i \in 1 .. n + 1 : Q[i] = P[i - 1] + b /\ P[i - 1] \in Nat
  BY <1>2, <1>5
<1>9. Q \in [0 .. n + 1 -> Nat]
  BY <1>2, <1>3, <1>5
<1>. HIDE DEF Q
<1>10. ASSUME NEW i \in 0 .. n + 1, NEW j \in 0 .. n + 1, i < j
       PROVE  Q[i] + Below(t[j]) <= Q[j]
  <2>0. j \in 1 .. n + 1
    BY <1>2, <1>10
  <2>1. j \in 1 .. n + 1 /\ Q[j] = P[j - 1] + b /\ P[j - 1] \in Nat
    BY <1>8, <2>0
  <2>2. CASE j = 1
    <3>1. i = 0
      BY <1>2, <1>10, <2>2
    <3>2. Below(t[j]) = b /\ Q[i] = 0
      BY <1>6, <1>8, <2>2, <3>1
    <3>. QED BY <1>3, <2>1, <3>2
  <2>3. CASE j # 1
    <3>1. j \in 2 .. n + 1 /\ j - 1 \in 1 .. n /\ j - 1 \in 0 .. n
      BY <1>2, <2>1, <2>3
    <3>2. t[j] = s[j - 1] /\ Below(s[j - 1]) \in Nat
      BY <1>2, <1>4, <3>1
    <3>3. CASE i = 0
      <4>0. 0 \in 0 .. n /\ 0 < j - 1
        BY <1>2, <3>1
      <4>1. P[0] + Below(s[j - 1]) <= P[j - 1] /\ P[0] \in Nat
        BY <1>5, <3>1, <4>0
      <4>2. Q[i] = 0
        BY <1>8, <3>3
      <4>. QED BY <1>3, <2>1, <3>2, <4>1, <4>2
    <3>4. CASE i # 0
      <4>1. i \in 1 .. n + 1 /\ i - 1 \in 0 .. n /\ i - 1 < j - 1
        BY <1>2, <1>10, <3>4
      <4>2. P[i - 1] + Below(s[j - 1]) <= P[j - 1] /\ Q[i] = P[i - 1] + b /\ P[i - 1] \in Nat
        BY <1>5, <1>8, <3>1, <4>1
      <4>. QED BY <1>3, <2>1, <3>2, <4>2
    <3>. QED BY <3>3, <3>4
  <2>. QED BY <2>2, <2>3
<1>11. Q[n + 1] <= w + b
  <2>1. n + 1 \in 1 .. n + 1 /\ (n + 1) - 1 = n
    BY <1>2
  <2>2. Q[n + 1] = P[n] + b /\ P[n] \in Nat
    BY <1>8, <2>1
  <2>. QED BY <1>1, <1>3, <2>2
<1>12. Sums(t, Q)
  BY <1>2, <1>9, <1>10 DEF Sums
<1>13. Room(t, w + b)
  BY <1>2, <1>11, <1>12 DEF Room
<1>. QED BY <1>7, <1>13 DEF t, b

(* A list in the same order without some of the nodes needs no more room.    *)
LEMMA RoomPart ==
  ASSUME NEW s \in Seq(Node), InTree(s), NEW w \in Int, Room(s, w),
         NEW t \in Seq(Node), NEW f \in [1 .. Len(t) -> 1 .. Len(s)],
         \A k \in 1 .. Len(t) : t[k] = s[f[k]],
         \A i, j \in 1 .. Len(t) : i < j => f[i] < f[j]
  PROVE  InTree(t) /\ Room(t, w)
<1>. DEFINE n == Len(s)
            m == Len(t)
<1>1. PICK P : Sums(s, P) /\ P[n] <= w
  BY DEF Room
<1>2. n \in Nat /\ m \in Nat /\ \A k \in 1 .. n : s[k].free \in 0 .. Free /\ Below(s[k]) \in Nat
  BY BelowNat, LenProperties
<1>3. /\ P \in [0 .. n -> Nat]
      /\ \A i, j \in 0 .. n : i < j => P[i] + Below(s[j]) <= P[j]
  BY <1>1 DEF Sums
<1>4. InTree(t)
  BY <1>2 DEF InTree
<1>. DEFINE Q == [k \in 0 .. m |-> IF k = 0 THEN P[0] ELSE P[f[k]]]
<1>5. \A k \in 1 .. m : f[k] \in 1 .. n /\ f[k] \in 0 .. n /\ t[k] = s[f[k]]
  BY <1>2
<1>6. Q[0] = P[0] /\ \A k \in 1 .. m : Q[k] = P[f[k]]
  BY <1>2
<1>7. Q \in [0 .. m -> Nat]
  BY <1>2, <1>3, <1>5
<1>. HIDE DEF Q, n, m
<1>8. ASSUME NEW i \in 0 .. m, NEW j \in 0 .. m, i < j
      PROVE  Q[i] + Below(t[j]) <= Q[j]
  <2>1. j \in 1 .. m /\ Q[j] = P[f[j]] /\ t[j] = s[f[j]] /\ f[j] \in 1 .. n /\ f[j] \in 0 .. n
    BY <1>2, <1>5, <1>6, <1>8
  <2>2. CASE i = 0
    <3>1. P[0] + Below(s[f[j]]) <= P[f[j]]
      BY <1>2, <1>3, <2>1
    <3>. QED BY <1>6, <2>1, <2>2, <3>1
  <2>3. CASE i # 0
    <3>1. i \in 1 .. m /\ f[i] \in 0 .. n /\ Q[i] = P[f[i]]
      BY <1>2, <1>5, <1>6, <2>3
    <3>2. f[i] < f[j]
      BY <1>8, <2>1, <3>1 DEF m
    <3>3. P[f[i]] + Below(s[f[j]]) <= P[f[j]]
      BY <1>3, <2>1, <3>1, <3>2
    <3>. QED BY <2>1, <3>1, <3>3
  <2>. QED BY <2>2, <2>3
<1>9. ASSUME NEW i \in 0 .. n PROVE P[i] \in Nat /\ P[i] <= P[n]
  <2>1. P[i] \in Nat /\ P[n] \in Nat
    BY <1>2, <1>3
  <2>2. CASE i = n
    BY <2>1, <2>2
  <2>3. CASE i # n
    <3>1. i < n /\ n \in 0 .. n /\ n \in 1 .. n
      BY <1>2, <2>3
    <3>2. P[i] + Below(s[n]) <= P[n] /\ Below(s[n]) \in Nat
      BY <1>2, <1>3, <3>1
    <3>. QED BY <2>1, <3>2
  <2>. QED BY <2>2, <2>3
<1>10. Q[m] <= w
  <2>1. CASE m = 0
    <3>1. 0 \in 0 .. n
      BY <1>2
    <3>2. Q[m] = P[0] /\ P[0] <= P[n] /\ P[0] \in Nat
      BY <1>6, <1>9, <2>1, <3>1
    <3>3. P[n] \in Nat /\ P[n] <= w
      BY <1>1, <1>2, <1>9
    <3>. QED BY <3>2, <3>3
  <2>2. CASE m # 0
    <3>1. m \in 1 .. m
      BY <1>2, <2>2
    <3>2. f[m] \in 0 .. n /\ Q[m] = P[f[m]]
      BY <1>5, <1>6, <3>1
    <3>3. P[f[m]] \in Nat /\ P[f[m]] <= P[n]
      BY <1>9, <3>2
    <3>4. P[n] \in Nat /\ P[n] <= w
      BY <1>1, <1>2, <1>9
    <3>. QED BY <3>2, <3>3, <3>4
  <2>. QED BY <2>1, <2>2
<1>11. Room(t, w)
  BY <1>7, <1>8, <1>10 DEF Room, Sums, m
<1>. QED BY <1>4, <1>11
(* A node that is taken off the list gives the room of what is below it.     *)
LEMMA RoomRemove ==
  ASSUME NEW s \in Seq(Node), InTree(s), NEW w \in Int, Room(s, w), NEW p \in 1 .. Len(s)
  PROVE  InTree(RemoveAt(s, p)) /\ Room(RemoveAt(s, p), w - Below(s[p]))
<1>. DEFINE n == Len(s)
            t == RemoveAt(s, p)
            b == Below(s[p])
<1>1. PICK P : Sums(s, P) /\ P[n] <= w
  BY DEF Room
<1>2. n \in Nat /\ p \in 1 .. n /\ \A k \in 1 .. n : s[k].free \in 0 .. Free /\ Below(s[k]) \in Nat
  BY BelowNat
<1>3. Len(t) = n - 1 /\ \A k \in 1 .. n - 1 : t[k] = IF k < p THEN s[k] ELSE s[k + 1]
  BY RemoveFacts
<1>4. /\ P \in [0 .. n -> Nat]
      /\ \A i, j \in 0 .. n : i < j => P[i] + Below(s[j]) <= P[j]
  BY <1>1 DEF Sums
<1>5. b \in Nat /\ \A i \in 0 .. p - 1 : P[i] + b <= P[p]
  BY <1>2, <1>4
<1>. HIDE DEF n, t, b
<1>6. ASSUME NEW k \in 1 .. n - 1
      PROVE  \/ k < p /\ t[k] = s[k]
             \/ k >= p /\ t[k] = s[k + 1] /\ k + 1 \in 1 .. n
  BY <1>2, <1>3
<1>7. InTree(t)
  <2>1. ASSUME NEW k \in 1 .. n - 1 PROVE t[k].free \in 0 .. Free
    <3>1. k \in 1 .. n
      BY <1>2
    <3>. QED BY <1>2, <1>6, <3>1
  <2>. QED BY <1>3, <2>1 DEF InTree
<1>. DEFINE Q == [k \in 0 .. n - 1 |-> IF k < p THEN P[k] ELSE P[k + 1] - b]
<1>8. ASSUME NEW k \in 0 .. n - 1, ~(k < p)
      PROVE  k + 1 \in 0 .. n /\ P[k + 1] \in Nat /\ P[p] \in Nat /\ b <= P[p] /\ P[p] + Below(s[k + 1]) <= P[k + 1]
             /\ Below(s[k + 1]) \in Nat
  <2>1. k + 1 \in 0 .. n /\ p < k + 1 /\ p \in 0 .. n /\ 0 \in 0 .. p - 1 /\ 0 \in 0 .. n /\ k + 1 \in 1 .. n
    BY <1>2, <1>8
  <2>2. P[k + 1] \in Nat /\ P[p] \in Nat /\ P[0] \in Nat
    BY <1>4, <2>1
  <2>3. P[0] + b <= P[p]
    BY <1>5, <2>1
  <2>4. b <= P[p]
    BY <1>5, <2>2, <2>3
  <2>. QED BY <1>2, <1>4, <2>1, <2>2, <2>4
<1>9. ASSUME NEW k \in 0 .. n - 1
      PROVE  /\ Q[k] \in Nat
             /\ k < p => Q[k] = P[k] /\ k \in 0 .. n /\ P[k] \in Nat
             /\ ~(k < p) => Q[k] = P[k + 1] - b
  <2>1. CASE k < p
    <3>1. k \in 0 .. n /\ Q[k] = P[k]
      BY <1>2, <2>1
    <3>. QED BY <1>4, <2>1, <3>1
  <2>2. CASE ~(k < p)
    <3>1. Q[k] = P[k + 1] - b
      BY <2>2
    <3>2. P[k + 1] \in Nat /\ P[p] \in Nat /\ b <= P[p] /\ P[p] + Below(s[k + 1]) <= P[k + 1]
          /\ Below(s[k + 1]) \in Nat
      BY <1>8, <2>2
    <3>3. P[k + 1] - b \in Nat
      BY <1>5, <3>2
    <3>. QED BY <2>2, <3>1, <3>3
  <2>. QED BY <2>1, <2>2
<1>10. Q \in [0 .. n - 1 -> Nat]
  BY <1>9
<1>. HIDE DEF Q
<1>11. ASSUME NEW i \in 0 .. n - 1, NEW j \in 0 .. n - 1, i < j
       PROVE  Q[i] + Below(t[j]) <= Q[j]
  <2>0. j \in 1 .. n - 1
    BY <1>2, <1>11
  <2>1. CASE j < p
    <3>1. i < p /\ t[j] = s[j] /\ j \in 0 .. n
      BY <1>2, <1>6, <1>11, <2>0, <2>1
    <3>2. Q[i] = P[i] /\ Q[j] = P[j] /\ i \in 0 .. n
      BY <1>9, <2>1, <3>1
    <3>3. P[i] + Below(s[j]) <= P[j]
      BY <1>4, <1>11, <3>1, <3>2
    <3>. QED BY <3>1, <3>2, <3>3
  <2>2. CASE ~(j < p)
    <3>1. t[j] = s[j + 1] /\ Q[j] = P[j + 1] - b
      BY <1>2, <1>6, <1>9, <2>0, <2>2
    <3>2. /\ j + 1 \in 0 .. n /\ P[j + 1] \in Nat /\ P[p] \in Nat
          /\ P[p] + Below(s[j + 1]) <= P[j + 1] /\ Below(s[j + 1]) \in Nat
      BY <1>8, <2>2
    <3>3. CASE i < p
      <4>1. Q[i] = P[i] /\ P[i] \in Nat /\ i \in 0 .. p - 1
        BY <1>2, <1>9, <3>3
      <4>2. P[i] + b <= P[p]
        BY <1>5, <4>1
      <4>3. P[i] + Below(s[j + 1]) <= P[j + 1] - b
        <5>1. \A x, y, z, e, f \in Int : x + y <= z /\ z + f <= e => x + f <= e - y
          OBVIOUS
        <5>2. b \in Int
          BY <1>5
        <5>3. P[i] \in Int /\ P[p] \in Int /\ P[j + 1] \in Int /\ Below(s[j + 1]) \in Int
          BY <3>2, <4>1
        <5>4. P[p] + Below(s[j + 1]) <= P[j + 1]
          BY <3>2
        <5>. QED BY <4>2, <5>1, <5>2, <5>3, <5>4
      <4>. QED BY <3>1, <4>1, <4>3
    <3>4. CASE ~(i < p)
      <4>1. Q[i] = P[i + 1] - b /\ i + 1 \in 0 .. n /\ P[i + 1] \in Nat
        BY <1>8, <1>9, <3>4
      <4>2. i + 1 < j + 1
        BY <1>11
      <4>3. P[i + 1] + Below(s[j + 1]) <= P[j + 1]
        BY <1>4, <3>2, <4>1, <4>2
      <4>4. (P[i + 1] - b) + Below(s[j + 1]) <= P[j + 1] - b
        <5>1. \A x, y, e, f \in Int : x + f <= e => (x - y) + f <= e - y
          OBVIOUS
        <5>2. b \in Int
          BY <1>5
        <5>. QED BY <3>2, <4>1, <4>3, <5>1, <5>2
      <4>. QED BY <3>1, <4>1, <4>4
    <3>. QED BY <3>3, <3>4
  <2>. QED BY <2>1, <2>2
<1>12. Q[n - 1] <= w - b
  <2>1. n - 1 \in 0 .. n - 1 /\ n \in 0 .. n
    BY <1>2
  <2>2. P[n] \in Nat /\ P[n] <= w
    BY <1>1, <1>4, <2>1
  <2>3. CASE n - 1 < p
    <3>1. Q[n - 1] = P[n - 1] /\ P[n - 1] \in Nat /\ p = n /\ n - 1 \in 0 .. p - 1
      BY <1>2, <1>9, <2>1, <2>3
    <3>2. P[n - 1] + b <= P[n]
      BY <1>5, <3>1
    <3>3. P[n - 1] <= w - b
      BY <1>5, <2>2, <3>1, <3>2
    <3>. QED BY <3>1, <3>3
  <2>4. CASE ~(n - 1 < p)
    <3>1. Q[n - 1] = P[(n - 1) + 1] - b /\ (n - 1) + 1 = n
      BY <1>2, <1>9, <2>1, <2>4
    <3>2. P[n] - b <= w - b
      BY <1>5, <2>2
    <3>. QED BY <3>1, <3>2
  <2>. QED BY <2>3, <2>4
<1>13. Sums(t, Q)
  BY <1>3, <1>10, <1>11 DEF Sums
<1>14. Room(t, w - b)
  BY <1>3, <1>12, <1>13 DEF Room
<1>. QED BY <1>7, <1>14 DEF t, b, n
LEMMA SubproblemFree ==
  ASSUME NEW from, NEW free, NEW x \in Subproblems(from, free)
  PROVE  x.free = free
BY DEF Subproblems

LEMMA InitWork == Init => WorkInv
<1>. SUFFICES ASSUME Init PROVE WorkInv
  OBVIOUS
<1>1. PICK x \in Subproblems(0, Free) : hand = <<x>>
  BY DEF Init
<1>2. active = <<>> /\ nIterations = 0
  BY DEF Init
<1>3. x \in Node /\ x.free = Free /\ Free \in 0 .. Free /\ Free \in Int
  <2>1. 0 \in Nat /\ Free \in Int /\ Free \in 0 .. Free
    BY LimitAssumption
  <2>2. x \in Node
    BY <2>1, SubproblemFacts
  <2>. QED BY <2>1, <2>2, SubproblemFree
<1>4. Len(hand) = 1 /\ hand[1] = x
  BY <1>1, <1>3, PairFacts
<1>5. InTree(hand)
  <2>1. 1 .. 1 = {1}
    OBVIOUS
  <2>. QED BY <1>3, <1>4, <2>1 DEF InTree
<1>6. active \in Seq(Node) /\ Len(active) = 0
  BY <1>2, EmptySeq, CostsOfList
<1>7. InTree(active)
  <2>1. 1 .. 0 = {}
    OBVIOUS
  <2>. QED BY <1>6, <2>1 DEF InTree
<1>8. Left = 0 /\ 0 \in Nat
  <2>1. Descendants[Free] \in Nat
    BY <1>3, DescendantFacts
  <2>2. HandSize = Descendants[Free] + 1
    BY <1>3, <1>4 DEF HandSize, Below
  <2>3. \A d \in Nat : d + 1 - 0 - (d + 1) = 0
    OBVIOUS
  <2>. QED BY <1>2, <2>1, <2>2, <2>3 DEF Left
<1>9. Room(active, Left)
  BY <1>6, <1>8, RoomForNone
<1>. QED BY <1>5, <1>7, <1>9 DEF WorkInv

(* Sizes are numbers.                                                        *)
LEMMA WorkTypes ==
  ASSUME BranchInv, WorkInv
  PROVE  /\ active \in Seq(Node) /\ hand \in Seq(Node) /\ nIterations \in Nat
         /\ Descendants[Free] \in Nat /\ HandSize \in Nat /\ Left \in Nat
         /\ Len(hand) \in {0, 1, 2}
<1>1. active \in Seq(Node) /\ hand \in Seq(Node) /\ nIterations \in Nat
  BY DEF BranchInv, StateInv
<1>2. Descendants[Free] \in Nat
  <2>1. Free \in 0 .. Free
    BY LimitAssumption
  <2>. QED BY <2>1, DescendantFacts
<1>3. Len(hand) \in {0, 1, 2}
  <2>1. hand = <<>> <=> Len(hand) = 0
    BY <1>1, CostsOfList
  <2>. QED BY <2>1 DEF BranchInv, HandInv
<1>4. \A i \in 1 .. Len(hand) : Below(hand[i]) \in Nat
  BY <1>1, BelowNat DEF WorkInv
<1>5. HandSize \in Nat
  <2>1. CASE Len(hand) = 0
    BY <2>1 DEF HandSize
  <2>2. CASE Len(hand) = 1
    <3>1. Below(hand[1]) \in Nat
      BY <1>4, <2>2
    <3>. QED BY <2>2, <3>1 DEF HandSize
  <2>3. CASE Len(hand) = 2
    <3>1. Below(hand[1]) \in Nat /\ Below(hand[2]) \in Nat
      BY <1>4, <2>3
    <3>. QED BY <2>3, <3>1 DEF HandSize
  <2>. QED BY <1>3, <2>1, <2>2, <2>3
<1>6. Left \in Int
  BY <1>1, <1>2, <1>5 DEF Left
<1>7. Left \in Nat
  BY <1>1, <1>6, RoomNat DEF WorkInv
<1>. QED BY <1>1, <1>2, <1>3, <1>5, <1>7

LEMMA InspectWork ==
  ASSUME BranchInv, BranchInv', WorkInv, Inspect
  PROVE  WorkInv'
<1>. DEFINE x == Head(hand)
<1>1. /\ active \in Seq(Node) /\ hand \in Seq(Node) /\ nIterations \in Nat
      /\ Descendants[Free] \in Nat /\ HandSize \in Nat /\ Left \in Nat
      /\ Len(hand) \in {0, 1, 2}
  BY WorkTypes
<1>2. pc \in {"root", "inspect"} /\ nIterations' = nIterations + 1 /\ hand' = Tail(hand)
  BY DEF Inspect
<1>3. hand # <<>> /\ x \in Node /\ x = hand[1]
  BY <1>2, InHand
<1>4. Len(hand) # 0 /\ Len(hand) \in {1, 2} /\ InTree(hand) /\ InTree(active) /\ Room(active, Left)
  BY <1>1, <1>3, CostsOfList DEF WorkInv
<1>5. x.free \in 0 .. Free /\ Below(x) \in Nat
  <2>1. 1 \in 1 .. Len(hand)
    BY <1>4
  <2>. QED BY <1>1, <1>3, <1>4, <2>1, BelowNat
<1>6. /\ hand' \in Seq(Node) /\ Len(hand') = Len(hand) - 1
      /\ \A i \in 1 .. Len(hand') : hand'[i] = hand[i + 1]
  BY <1>1, <1>2, <1>3, HeadTailProperties
<1>7. InTree(hand')
  <2>1. ASSUME NEW i \in 1 .. Len(hand') PROVE hand'[i].free \in 0 .. Free
    <3>1. i + 1 \in 1 .. Len(hand)
      BY <1>4, <1>6
    <3>. QED BY <1>4, <1>6, <3>1 DEF InTree
  <2>. QED BY <2>1 DEF InTree
<1>8. HandSize' = HandSize - (Below(x) + 1)
  <2>1. CASE Len(hand) = 1
    <3>1. HandSize = Below(x) + 1
      BY <1>3, <2>1 DEF HandSize
    <3>2. HandSize' = 0
      BY <1>6, <2>1 DEF HandSize
    <3>. QED BY <1>5, <3>1, <3>2
  <2>2. CASE Len(hand) = 2
    <3>1. HandSize = Below(x) + 1 + (Below(hand[2]) + 1)
      BY <1>3, <2>2 DEF HandSize
    <3>2. Len(hand') = 1 /\ hand'[1] = hand[2]
      BY <1>6, <2>2
    <3>3. HandSize' = Below(hand'[1]) + 1
      BY <3>2 DEF HandSize
    <3>5. Below(hand'[1]) = Below(hand[2])
      BY <3>2 DEF Below
    <3>4. Below(hand[2]) \in Nat
      <4>1. 2 \in 1 .. Len(hand)
        BY <2>2
      <4>. QED BY <1>1, <1>4, <4>1, BelowNat
    <3>. QED BY <1>5, <3>1, <3>3, <3>4, <3>5
  <2>3. Len(hand) = 1 \/ Len(hand) = 2
    BY <1>4
  <2>. QED BY <2>1, <2>2, <2>3
<1>9. Left' = Left + Below(x)
  <2>1. Left = Descendants[Free] + 1 - nIterations - HandSize
    BY DEF Left
  <2>2. Left' = Descendants[Free] + 1 - nIterations' - HandSize'
    BY DEF Left
  <2>3. \A a, i, h, b \in Nat : a + 1 - (i + 1) - (h - (b + 1)) = a + 1 - i - h + b
    OBVIOUS
  <2>4. Left' = Descendants[Free] + 1 - (nIterations + 1) - (HandSize - (Below(x) + 1))
    BY <1>2, <1>8, <2>2
  <2>5. Descendants[Free] \in Nat /\ nIterations \in Nat /\ HandSize \in Nat /\ Below(x) \in Nat
    BY <1>1, <1>5
  <2>. QED BY <2>1, <2>3, <2>4, <2>5
<1>10. InTree(active') /\ Room(active', Left + Below(x))
  <2>0. Left <= Left + Below(x) /\ Left + Below(x) \in Int /\ Left \in Int
    BY <1>1, <1>5
  <2>1. CASE QueueExploredNode(x)
    <3>1. active' = <<x>> \o active
      BY <2>1 DEF QueueExploredNode
    <3>. QED BY <1>1, <1>3, <1>4, <1>5, <2>0, <3>1, RoomPush
  <2>2. CASE CutOff(x)
    <3>1. active' = active
      BY <2>2 DEF CutOff
    <3>2. Room(active, Left + Below(x))
      BY <1>1, <1>4, <2>0, RoomNat
    <3>. QED BY <1>4, <3>1, <3>2
  <2>3. CASE SaveNode(x)
    <3>1. PICK D \in SUBSET (1 .. Len(active)) : active' = Without(active, D)
      BY <2>3 DEF SaveNode
    <3>2. /\ active' \in Seq(Node)
          /\ \E f \in [1 .. Len(active') -> 1 .. Len(active)] :
               /\ \A k \in 1 .. Len(active') : active'[k] = active[f[k]]
               /\ \A i, j \in 1 .. Len(active') : i < j => f[i] < f[j]
      <4>. DEFINE u == Without(active, D)
      <4>1. /\ u \in Seq(Node)
            /\ \E f \in [1 .. Len(u) -> 1 .. Len(active)] :
                 /\ \A k \in 1 .. Len(u) : u[k] = active[f[k]]
                 /\ \A i, j \in 1 .. Len(u) : i < j => f[i] < f[j]
        BY <1>1, WithoutFacts
      <4>. QED BY <3>1, <4>1
    <3>3. PICK f \in [1 .. Len(active') -> 1 .. Len(active)] :
            /\ \A k \in 1 .. Len(active') : active'[k] = active[f[k]]
            /\ \A i, j \in 1 .. Len(active') : i < j => f[i] < f[j]
      BY <3>2
    <3>4. InTree(active') /\ Room(active', Left)
      BY <1>1, <1>4, <2>0, <3>2, <3>3, RoomPart
    <3>. QED BY <2>0, <3>2, <3>4, RoomNat
  <2>. QED BY <2>1, <2>2, <2>3 DEF Inspect
<1>. QED BY <1>7, <1>9, <1>10 DEF WorkInv

LEMMA BranchWork ==
  ASSUME BranchInv, WorkInv, Branch
  PROVE  WorkInv'
<1>. DEFINE x == active[Selected]
            rest == RemoveAt(active, Selected)
<1>1. /\ active \in Seq(Node) /\ hand \in Seq(Node) /\ nIterations \in Nat
      /\ Descendants[Free] \in Nat /\ HandSize \in Nat /\ Left \in Nat /\ Left \in Int
  BY WorkTypes
<1>2. /\ pc = "test" /\ NodesLeft /\ active' = rest /\ nIterations' = nIterations /\ x.free > 0
  BY DEF Branch
<1>3. PICK first \in Subproblems(x.cost, x.free - 1), second \in Subproblems(x.cost, x.free - 1) :
        hand' = <<first, second>>
  BY DEF Branch
<1>4. Len(active) > 0 /\ hand = <<>> /\ Len(hand) = 0
  <2>1. nActive = Len(active) /\ hand = <<>>
    BY <1>2 DEF BranchInv, CountInv, HandInv
  <2>2. Len(active) > 0
    BY <1>2, <2>1 DEF NodesLeft
  <2>. QED BY <1>1, <2>1, <2>2, CostsOfList
<1>5. Selected \in 1 .. Len(active)
  BY <1>1, <1>4, SelectedFacts
<1>6. InTree(active) /\ Room(active, Left)
  BY DEF WorkInv
<1>7. x \in Node /\ x.free \in 1 .. Free /\ Below(x) \in Nat /\ x.cost \in Nat
  <2>1. x \in Node /\ x.free \in 0 .. Free /\ Below(x) \in Nat
    BY <1>1, <1>5, <1>6, BelowNat
  <2>2. x.free \in 1 .. Free
    BY <1>2, <2>1
  <2>3. x.cost \in Nat
    BY <2>1, CostTypes DEF Node
  <2>. QED BY <2>1, <2>2, <2>3
<1>8. /\ first \in Node /\ second \in Node
      /\ first.free = x.free - 1 /\ second.free = x.free - 1 /\ x.free - 1 \in 0 .. Free
  <2>0. \A k \in 1 .. Free : k - 1 \in Int /\ k - 1 \in 0 .. Free
    BY LimitAssumption
  <2>1. x.free - 1 \in Int /\ x.free - 1 \in 0 .. Free
    BY <1>7, <2>0
  <2>. QED BY <1>7, <2>1, SubproblemFacts, SubproblemFree
<1>9. Len(hand') = 2 /\ hand'[1] = first /\ hand'[2] = second
  BY <1>3, <1>8, PairFacts
<1>10. InTree(hand')
  <2>1. 1 .. 2 = {1, 2}
    OBVIOUS
  <2>. QED BY <1>8, <1>9, <2>1 DEF InTree
<1>11. HandSize' = Below(x) /\ HandSize = 0
  <2>1. Below(x) = 2 * (Descendants[x.free - 1] + 1) /\ Descendants[x.free - 1] \in Nat
    BY <1>7, <1>8, DescendantFacts DEF Below
  <2>2. HandSize' = Below(first) + 1 + (Below(second) + 1)
    BY <1>9 DEF HandSize
  <2>3. Below(first) = Descendants[x.free - 1] /\ Below(second) = Descendants[x.free - 1]
    BY <1>8 DEF Below
  <2>4. HandSize = 0
    BY <1>4 DEF HandSize
  <2>. QED BY <2>1, <2>2, <2>3, <2>4
<1>12. Left' = Left - Below(x)
  <2>1. Left = Descendants[Free] + 1 - nIterations - HandSize
    BY DEF Left
  <2>2. Left' = Descendants[Free] + 1 - nIterations' - HandSize'
    BY DEF Left
  <2>3. \A d, k, b \in Nat : (d + 1 - k) - b = (d + 1 - k - 0) - b
    OBVIOUS
  <2>4. Left' = Descendants[Free] + 1 - nIterations - Below(x) /\ Left = Descendants[Free] + 1 - nIterations - 0
    BY <1>2, <1>11, <2>1, <2>2
  <2>5. Below(x) \in Nat /\ Descendants[Free] \in Nat /\ nIterations \in Nat
    BY <1>1, <1>7
  <2>. HIDE DEF x, rest
  <2>. QED BY <2>3, <2>4, <2>5
<1>13. InTree(rest) /\ Room(rest, Left - Below(x))
  BY <1>1, <1>5, <1>6, RoomRemove
<1>. QED BY <1>2, <1>10, <1>12, <1>13 DEF WorkInv

LEMMA SameWork ==
  ASSUME WorkInv, active' = active, hand' = hand, nIterations' = nIterations
  PROVE  WorkInv'
<1>1. HandSize' = HandSize
  BY DEF HandSize
<1>2. Left' = Left
  BY <1>1 DEF Left
<1>. QED BY <1>2 DEF WorkInv

(* The lower bound is a cost, or that of a timer that was never set.         *)
DualType == dual \in Costs \union {-Inf}

LEMMA WorkInvariant == Spec => [](WorkInv /\ DualType)
<1>1. Init => WorkInv /\ DualType
  <2>. SUFFICES ASSUME Init PROVE DualType
    BY InitWork
  <2>1. PICK x \in Subproblems(0, Free) : dual = IF x.cost <= saved THEN x.cost ELSE -Inf
    BY DEF Init
  <2>2. 0 \in Nat /\ Free \in Int
    BY LimitAssumption
  <2>3. x.cost \in Costs
    BY <2>2, SubproblemFacts
  <2>. QED BY <2>1, <2>3 DEF DualType
<1>2. BranchInv /\ BranchInv' /\ WorkInv /\ DualType /\ [Next]_vars => (WorkInv /\ DualType)'
  <2>. SUFFICES ASSUME BranchInv, BranchInv', WorkInv, DualType, [Next]_vars
                PROVE  WorkInv' /\ DualType'
    OBVIOUS
  <2>1. CASE Inspect
    <3>1. dual' = dual
      <4>1. pc \in {"root", "inspect"}
        BY <2>1 DEF Inspect
      <4>2. Inspected(Head(hand))
        BY <2>1, <4>1, SaveEffect, QueueEffect, CutOffEffect DEF Inspect
      <4>. QED BY <4>2 DEF Inspected
    <3>. QED BY <2>1, <3>1, InspectWork DEF DualType
  <2>2. CASE Branch
    <3>1. dual' = dual
      BY <2>2 DEF Branch, timer
    <3>. QED BY <2>2, <3>1, BranchWork DEF DualType
  <2>3. CASE NoVariable
    <3>1. active' = active /\ hand' = hand /\ nIterations' = nIterations /\ dual' = dual
      BY <2>3 DEF NoVariable, timer, list
    <3>. QED BY <3>1, SameWork DEF DualType
  <2>4. CASE Report
    <3>1. active' = active /\ hand' = hand /\ nIterations' = nIterations
      BY <2>4 DEF Report, list
    <3>2. dual' \in {dual, bestBound, primal}
      BY <2>4 DEF Report, SetDual, timer, Greater, Lesser
    <3>3. bestBound \in Costs /\ primal \in Costs
      BY CostTypes DEF BranchInv, StateInv, TimerInv
    <3>. QED BY <3>1, <3>2, <3>3, SameWork DEF DualType
  <2>5. CASE Leave
    <3>1. active' = active /\ hand' = hand /\ nIterations' = nIterations /\ dual' = dual
      BY <2>5 DEF Leave, timer, list
    <3>. QED BY <3>1, SameWork DEF DualType
  <2>6. CASE Conclude
    <3>1. active' = active /\ hand' = hand /\ nIterations' = nIterations
      BY <2>6 DEF Conclude, list
    <3>2. dual' \in {dual, saved, primal}
      BY <2>6 DEF Conclude, SetDual, timer, Greater, Lesser
    <3>3. saved \in Costs /\ primal \in Costs
      BY CostTypes DEF BranchInv, StateInv, TimerInv
    <3>. QED BY <3>1, <3>2, <3>3, SameWork DEF DualType
  <2>7. CASE UNCHANGED vars
    <3>1. active' = active /\ hand' = hand /\ nIterations' = nIterations /\ dual' = dual
      BY <2>7 DEF vars, list, timer
    <3>. QED BY <3>1, SameWork DEF DualType
  <2>. QED BY <2>1, <2>2, <2>3, <2>4, <2>5, <2>6, <2>7 DEF Next
<1>. QED BY <1>1, <1>2, BranchInvariant, PTL DEF Spec

(* All variables keep their ranges.  In particular no subproblem is          *)
(* inspected twice, in whatever order SelectActiveNode takes them and        *)
(* whatever StripQueue deletes: the search ends within the size of the tree. *)
THEOREM TreeBounded == Spec => []TypeOK
<1>1. BranchInv /\ WorkInv /\ DualType /\ LimitsKept => TypeOK
  <2>. SUFFICES ASSUME BranchInv, WorkInv, DualType, LimitsKept PROVE TypeOK
    OBVIOUS
  <2>1. /\ pc \in Places /\ saved \in Values /\ bestBound \in Costs /\ feasible \in BOOLEAN
        /\ primal = saved
    BY DEF BranchInv, StateInv, TimerInv
  <2>2. primal \in Costs
    BY <2>1, CostTypes
  <2>3. nIterations \in 0 .. Descendants[Free] + 1
    <3>1. nIterations \in Nat /\ Descendants[Free] \in Nat /\ HandSize \in Nat /\ Left \in Nat
      BY WorkTypes
    <3>. QED BY <3>1 DEF Left
  <2>. QED BY <2>1, <2>2, <2>3 DEF TypeOK, DualType, Places, Values
<1>. QED BY <1>1, WorkInvariant, BranchInvariant, LimitsHold, PTL
===============================================================================
