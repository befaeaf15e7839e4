--------------------------- MODULE MinCostFlowProofs ---------------------------
(****************************************************************************)
(* Proofs about the minimum cost flow solver, for every network: the         *)
(* searches of Dijkstra's method meet no arc of negative reduced length, and *)
(* a flow that is returned with such potentials is a cheapest one.           *)
(****************************************************************************)
EXTENDS NetworkSimplex, FiniteSetTheorems, NaturalsInduction, WellFoundedInduction, TLAPS

-------------------------------------------------------------------------------
(* Numbers, and functions that are defined by recursion.                     *)

(* A set of natural numbers has a least element.                             *)
LEMMA LeastNumber ==
  ASSUME NEW S \in SUBSET Nat, S # {}
  PROVE  \E k \in S : \A j \in S : k <= j
<1>1. PICK k \in S : \A j \in S : <<j, k>> \notin OpToRel(<, Nat)
  BY NatLessThanWellFounded, WFMin
<1>2. ASSUME NEW j \in S PROVE k <= j
  <2>1. ~(j < k)
    BY <1>1 DEF OpToRel
  <2>2. k \in Nat /\ j \in Nat
    OBVIOUS
  <2>. QED BY <2>1, <2>2
<1>. QED BY <1>2

(* Induction up to a bound.                                                  *)
LEMMA CountUp ==
  ASSUME NEW b \in Nat, NEW S, 0 \in S,
         \A k \in 0 .. b - 1 : k \in S => k + 1 \in S
  PROVE  \A k \in 0 .. b : k \in S
<1>. SUFFICES ASSUME NEW k \in 0 .. b, k \notin S PROVE FALSE
  OBVIOUS
<1>. DEFINE T == {j \in 0 .. b : j \notin S}
<1>1. T \in SUBSET Nat /\ T # {}
  OBVIOUS
<1>2. PICK c \in T : \A j \in T : c <= j
  BY <1>1, LeastNumber
<1>3. c \in Nat /\ c <= b /\ c \notin S /\ c # 0
  BY <1>2
<1>4. c - 1 \in 0 .. b - 1 /\ c - 1 \in 0 .. b /\ ~(c <= c - 1) /\ (c - 1) + 1 = c
  BY <1>3
<1>5. c - 1 \in S
  BY <1>2, <1>4
<1>. QED BY <1>3, <1>4, <1>5

(* A recursion over an index has a solution.                                 *)
Solvable(A, x, k, F) ==
  \E T \in [0 .. k -> A] : T[0] = x /\ \A i \in 1 .. k : T[i] = F[i][T[i - 1]]

LEMMA Iterates ==
  ASSUME NEW A, NEW x \in A, NEW k \in Nat, NEW F \in [1 .. k -> [A -> A]]
  PROVE  Solvable(A, x, k, F)
<1>. DEFINE Good(j, T) == T[0] = x /\ \A i \in 1 .. j : T[i] = F[i][T[i - 1]]
            S == {j \in 0 .. k : \E T \in [0 .. j -> A] : Good(j, T)}
<1>1. 0 \in S
  <2>. DEFINE T == [i \in 0 .. 0 |-> x]
  <2>1. T \in [0 .. 0 -> A] /\ T[0] = x /\ 1 .. 0 = {}
    OBVIOUS
  <2>. HIDE DEF T
  <2>2. Good(0, T)
    BY <2>1
  <2>. QED BY <2>1, <2>2
<1>2. ASSUME NEW j \in 0 .. k - 1, j \in S PROVE j + 1 \in S
  <2>1. PICK T \in [0 .. j -> A] : Good(j, T)
    BY <1>2
  <2>. DEFINE U == [i \in 0 .. j + 1 |-> IF i = j + 1 THEN F[j + 1][T[j]] ELSE T[i]]
  <2>2. j + 1 \in 1 .. k /\ j + 1 \in 0 .. k /\ j \in 0 .. j /\ j \in Nat
    OBVIOUS
  <2>3. F[j + 1] \in [A -> A] /\ T[j] \in A
    BY <2>2
  <2>4. U \in [0 .. j + 1 -> A]
    <3>1. ASSUME NEW i \in 0 .. j + 1, i # j + 1 PROVE T[i] \in A
      <4>1. i \in 0 .. j
        BY <2>2, <3>1
      <4>. QED BY <4>1
    <3>. QED BY <2>3, <3>1
  <2>5. /\ U[j + 1] = F[j + 1][T[j]]
        /\ \A i \in 0 .. j : U[i] = T[i]
    BY <2>2
  <2>. HIDE DEF U
  <2>6. U[0] = x
    <3>1. 0 \in 0 .. j
      BY <2>2
    <3>. QED BY <2>1, <2>5, <3>1
  <2>7. ASSUME NEW i \in 1 .. j + 1 PROVE U[i] = F[i][U[i - 1]]
    <3>1. CASE i = j + 1
      <4>1. i - 1 = j
        BY <2>2, <3>1
      <4>. QED BY <2>2, <2>5, <3>1, <4>1
    <3>2. CASE i # j + 1
      <4>1. i \in 1 .. j /\ i \in 0 .. j /\ i - 1 \in 0 .. j
        BY <2>2, <3>2
      <4>2. T[i] = F[i][T[i - 1]]
        BY <2>1, <4>1
      <4>. QED BY <2>5, <4>1, <4>2
    <3>. QED BY <3>1, <3>2
  <2>8. Good(j + 1, U)
    BY <2>6, <2>7
  <2>. QED BY <2>2, <2>4, <2>8
<1>. HIDE DEF S
<1>3. \A j \in 0 .. k : j \in S
  BY <1>1, <1>2, CountUp, Zenon
<1>4. k \in S
  BY <1>3
<1>. QED BY <1>4 DEF S, Solvable

-------------------------------------------------------------------------------
(* Sums.                                                                     *)

IsSum(f, k, T) == T = [i \in 0 .. k |-> IF i = 0 THEN 0 ELSE T[i - 1] + f[i - 1]]

LEMMA SumExists ==
  ASSUME NEW k \in Nat, NEW f, \A i \in 0 .. k - 1 : f[i] \in Int
  PROVE  \E T \in [0 .. k -> Int] : IsSum(f, k, T)
<1>. DEFINE F == [i \in 1 .. k |-> [z \in Int |-> z + f[i - 1]]]
<1>1. F \in [1 .. k -> [Int -> Int]]
  <2>1. ASSUME NEW i \in 1 .. k PROVE f[i - 1] \in Int
    <3>1. i - 1 \in 0 .. k - 1
      OBVIOUS
    <3>. QED BY <3>1
  <2>. QED BY <2>1
<1>2. \A i \in 1 .. k : \A z \in Int : F[i][z] = z + f[i - 1]
  OBVIOUS
<1>. HIDE DEF F
<1>3. PICK T \in [0 .. k -> Int] : T[0] = 0 /\ \A i \in 1 .. k : T[i] = F[i][T[i - 1]]
  <2>. DEFINE z == 0
  <2>1. z \in Int
    OBVIOUS
  <2>. HIDE DEF z
  <2>2. \E T \in [0 .. k -> Int] : T[0] = z /\ \A i \in 1 .. k : T[i] = F[i][T[i - 1]]
    <3>. DEFINE A == Int
    <3>1. z \in A /\ F \in [1 .. k -> [A -> A]]
      BY <1>1, <2>1
    <3>. HIDE DEF A
    <3>2. Solvable(A, z, k, F)
      BY <3>1, Iterates
    <3>. QED BY <3>2 DEF A, Solvable
  <2>. QED BY <2>2 DEF z
<1>4. ASSUME NEW i \in 0 .. k PROVE T[i] = IF i = 0 THEN 0 ELSE T[i - 1] + f[i - 1]
  <2>1. CASE i = 0
    BY <1>3, <2>1
  <2>2. CASE i # 0
    <3>1. i \in 1 .. k /\ i - 1 \in 0 .. k
      BY <2>2
    <3>2. T[i - 1] \in Int /\ T[i] = F[i][T[i - 1]]
      BY <1>3, <3>1
    <3>. QED BY <1>2, <2>2, <3>1, <3>2
  <2>. QED BY <2>1, <2>2
<1>5. T = [i \in 0 .. k |-> T[i]]
  OBVIOUS
<1>6. IsSum(f, k, T)
  BY <1>4, <1>5 DEF IsSum
<1>. QED BY <1>6

LEMMA SumUnique ==
  ASSUME NEW k \in Nat, NEW j \in 0 .. k, NEW f, NEW T, NEW U, IsSum(f, k, T), IsSum(f, j, U)
  PROVE  T[j] = U[j]
<1>. DEFINE S == {i \in 0 .. j : T[i] = U[i]}
<1>0. j \in Nat /\ \A i \in 0 .. j : i \in 0 .. k
  OBVIOUS
<1>1. /\ \A i \in 0 .. k : T[i] = IF i = 0 THEN 0 ELSE T[i - 1] + f[i - 1]
      /\ \A i \in 0 .. j : U[i] = IF i = 0 THEN 0 ELSE U[i - 1] + f[i - 1]
  BY DEF IsSum
<1>2. 0 \in S
  <2>1. 0 \in 0 .. j /\ 0 \in 0 .. k
    BY <1>0
  <2>. QED BY <1>1, <2>1
<1>3. ASSUME NEW i \in 0 .. j - 1, i \in S PROVE i + 1 \in S
  <2>1. i + 1 \in 0 .. j /\ i + 1 \in 0 .. k /\ i + 1 # 0 /\ (i + 1) - 1 = i
    BY <1>0
  <2>2. T[i + 1] = T[i] + f[i] /\ U[i + 1] = U[i] + f[i]
    BY <1>1, <2>1
  <2>. QED BY <1>3, <2>1, <2>2
<1>. HIDE DEF S
<1>4. j \in S
  BY <1>0, <1>2, <1>3, CountUp
<1>. QED BY <1>4 DEF S

LEMMA SumValue ==
  ASSUME NEW k \in Nat, NEW f, \A i \in 0 .. k - 1 : f[i] \in Int,
         NEW T, IsSum(f, k, T)
  PROVE  SumBelow(f, k) = T[k]
<1>. DEFINE U == CHOOSE U : IsSum(f, k, U)
<1>1. IsSum(f, k, U)
  BY SumExists
<1>2. SumBelow(f, k) = U[k]
  BY DEF SumBelow, IsSum
<1>. HIDE DEF U
<1>3. k \in 0 .. k
  OBVIOUS
<1>. QED BY <1>1, <1>2, <1>3, SumUnique

(* The sum is what its definition says.                                      *)
LEMMA SumStep ==
  ASSUME NEW k \in Nat, NEW f, \A i \in 0 .. k - 1 : f[i] \in Int
  PROVE  /\ SumBelow(f, k) \in Int
         /\ SumBelow(f, 0) = 0
         /\ \A j \in 0 .. k - 1 : /\ SumBelow(f, j) \in Int
                                  /\ SumBelow(f, j + 1) = SumBelow(f, j) + f[j]
<1>1. PICK T \in [0 .. k -> Int] : IsSum(f, k, T)
  BY SumExists
<1>2. ASSUME NEW j \in 0 .. k PROVE SumBelow(f, j) = T[j]
  <2>1. j \in Nat /\ \A i \in 0 .. j - 1 : f[i] \in Int
    OBVIOUS
  <2>2. PICK U : IsSum(f, j, U)
    BY <2>1, SumExists
  <2>3. SumBelow(f, j) = U[j]
    BY <2>1, <2>2, SumValue
  <2>4. T[j] = U[j]
    BY <1>1, <2>2, SumUnique
  <2>. QED BY <2>3, <2>4
<1>3. \A i \in 0 .. k : T[i] = IF i = 0 THEN 0 ELSE T[i - 1] + f[i - 1]
  BY <1>1 DEF IsSum
<1>4. T[0] = 0
  BY <1>3
<1>5. ASSUME NEW j \in 0 .. k - 1
      PROVE  SumBelow(f, j) \in Int /\ SumBelow(f, j + 1) = SumBelow(f, j) + f[j]
  <2>1. j \in 0 .. k /\ j + 1 \in 0 .. k /\ j + 1 # 0 /\ (j + 1) - 1 = j
    OBVIOUS
  <2>2. T[j + 1] = T[j] + f[j]
    BY <1>3, <2>1
  <2>. QED BY <1>2, <2>1, <2>2
<1>6. k \in 0 .. k /\ 0 \in 0 .. k
  OBVIOUS
<1>. QED BY <1>2, <1>4, <1>5, <1>6

LEMMA SumAdd ==
  ASSUME NEW k \in Nat, NEW f, NEW g, NEW h,
         \A i \in 0 .. k - 1 : f[i] \in Int /\ g[i] \in Int /\ h[i] = f[i] + g[i]
  PROVE  SumBelow(h, k) = SumBelow(f, k) + SumBelow(g, k)
<1>. DEFINE S == {j \in 0 .. k : SumBelow(h, j) = SumBelow(f, j) + SumBelow(g, j)}
<1>1. /\ \A i \in 0 .. k - 1 : f[i] \in Int
      /\ \A i \in 0 .. k - 1 : g[i] \in Int
      /\ \A i \in 0 .. k - 1 : h[i] \in Int
  OBVIOUS
<1>2. /\ SumBelow(f, 0) = 0
      /\ \A j \in 0 .. k - 1 : SumBelow(f, j) \in Int /\ SumBelow(f, j + 1) = SumBelow(f, j) + f[j]
  BY <1>1, SumStep
<1>3. /\ SumBelow(g, 0) = 0
      /\ \A j \in 0 .. k - 1 : SumBelow(g, j) \in Int /\ SumBelow(g, j + 1) = SumBelow(g, j) + g[j]
  BY <1>1, SumStep
<1>4. /\ SumBelow(h, 0) = 0
      /\ \A j \in 0 .. k - 1 : SumBelow(h, j) \in Int /\ SumBelow(h, j + 1) = SumBelow(h, j) + h[j]
  BY <1>1, SumStep
<1>5. 0 \in S
  BY <1>2, <1>3, <1>4
<1>6. ASSUME NEW j \in 0 .. k - 1, j \in S PROVE j + 1 \in S
  <2>1. j + 1 \in 0 .. k
    OBVIOUS
  <2>2. h[j] = f[j] + g[j] /\ f[j] \in Int /\ g[j] \in Int
    OBVIOUS
  <2>. QED BY <1>2, <1>3, <1>4, <1>6, <2>1, <2>2
<1>. HIDE DEF S
<1>7. \A j \in 0 .. k : j \in S
  BY <1>5, <1>6, CountUp
<1>8. k \in S
  BY <1>7
<1>. QED BY <1>8 DEF S

LEMMA SumLe ==
  ASSUME NEW k \in Nat, NEW f, NEW g,
         \A i \in 0 .. k - 1 : f[i] \in Int /\ g[i] \in Int /\ f[i] <= g[i]
  PROVE  SumBelow(f, k) <= SumBelow(g, k)
<1>. DEFINE S == {j \in 0 .. k : SumBelow(f, j) <= SumBelow(g, j)}
<1>1. /\ \A i \in 0 .. k - 1 : f[i] \in Int
      /\ \A i \in 0 .. k - 1 : g[i] \in Int
  OBVIOUS
<1>2. /\ SumBelow(f, 0) = 0
      /\ \A j \in 0 .. k - 1 : SumBelow(f, j) \in Int /\ SumBelow(f, j + 1) = SumBelow(f, j) + f[j]
  BY <1>1, SumStep
<1>3. /\ SumBelow(g, 0) = 0
      /\ \A j \in 0 .. k - 1 : SumBelow(g, j) \in Int /\ SumBelow(g, j + 1) = SumBelow(g, j) + g[j]
  BY <1>1, SumStep
<1>5. 0 \in S
  BY <1>2, <1>3
<1>6. ASSUME NEW j \in 0 .. k - 1, j \in S PROVE j + 1 \in S
  <2>1. j + 1 \in 0 .. k
    OBVIOUS
  <2>2. f[j] <= g[j] /\ f[j] \in Int /\ g[j] \in Int
    OBVIOUS
  <2>. QED BY <1>2, <1>3, <1>6, <2>1, <2>2
<1>. HIDE DEF S
<1>7. \A j \in 0 .. k : j \in S
  BY <1>5, <1>6, CountUp
<1>8. k \in S
  BY <1>7
<1>. QED BY <1>8 DEF S

LEMMA SumSame ==
  ASSUME NEW k \in Nat, NEW f, NEW g,
         \A i \in 0 .. k - 1 : f[i] \in Int /\ g[i] = f[i]
  PROVE  SumBelow(f, k) = SumBelow(g, k)
<1>1. SumBelow(f, k) <= SumBelow(g, k)
  <2>1. \A i \in 0 .. k - 1 : f[i] \in Int /\ g[i] \in Int /\ f[i] <= g[i]
    OBVIOUS
  <2>. QED BY <2>1, SumLe
<1>2. SumBelow(g, k) <= SumBelow(f, k)
  <2>1. \A i \in 0 .. k - 1 : g[i] \in Int /\ f[i] \in Int /\ g[i] <= f[i]
    OBVIOUS
  <2>. QED BY <2>1, SumLe
<1>3. (\A i \in 0 .. k - 1 : f[i] \in Int) /\ (\A i \in 0 .. k - 1 : g[i] \in Int)
  OBVIOUS
<1>4. SumBelow(f, k) \in Int /\ SumBelow(g, k) \in Int
  BY <1>3, SumStep
<1>. QED BY <1>1, <1>2, <1>4

(* Terms that are zero from k on do not count.                               *)
LEMMA SumTail ==
  ASSUME NEW k \in Nat, NEW b \in Nat, k <= b, NEW f,
         \A i \in 0 .. b - 1 : f[i] \in Int,
         \A i \in k .. b - 1 : f[i] = 0
  PROVE  SumBelow(f, b) = SumBelow(f, k)
<1>. DEFINE S == {j \in 0 .. b : j >= k => SumBelow(f, j) = SumBelow(f, k)}
<1>1. \A j \in 0 .. b - 1 : SumBelow(f, j) \in Int /\ SumBelow(f, j + 1) = SumBelow(f, j) + f[j]
  BY SumStep
<1>2. 0 \in S
  <2>1. ASSUME 0 >= k PROVE k = 0
    BY <2>1
  <2>. QED BY <2>1
<1>3. ASSUME NEW j \in 0 .. b - 1, j \in S PROVE j + 1 \in S
  <2>1. j + 1 \in 0 .. b /\ j \in Int
    OBVIOUS
  <2>2. CASE j >= k
    <3>1. j \in k .. b - 1
      BY <2>2
    <3>. QED BY <1>1, <1>3, <2>1, <2>2, <3>1
  <2>3. CASE ~(j >= k)
    <3>1. j + 1 >= k => j + 1 = k
      BY <2>1, <2>3
    <3>. QED BY <2>1, <3>1
  <2>. QED BY <2>2, <2>3
<1>. HIDE DEF S
<1>4. \A j \in 0 .. b : j \in S
  BY <1>2, <1>3, CountUp
<1>5. b \in S
  BY <1>4
<1>. QED BY <1>5 DEF S

LEMMA SumZero ==
  ASSUME NEW k \in Nat, NEW f, \A i \in 0 .. k - 1 : f[i] = 0
  PROVE  SumBelow(f, k) = 0
<1>1. /\ \A i \in 0 .. k - 1 : f[i] \in Int
      /\ 0 \in Nat /\ 0 <= k
  OBVIOUS
<1>2. SumBelow(f, k) = SumBelow(f, 0)
  BY <1>1, SumTail
<1>. QED BY <1>1, <1>2, SumStep

(* One term has changed.                                                     *)
LEMMA SumChange ==
  ASSUME NEW k \in Nat, NEW f, NEW h, NEW c \in 0 .. k - 1,
         \A i \in 0 .. k - 1 : f[i] \in Int /\ h[i] \in Int /\ (i # c => h[i] = f[i])
  PROVE  SumBelow(h, k) = SumBelow(f, k) + (h[c] - f[c])
<1>. DEFINE g == [i \in 0 .. k - 1 |-> IF i = c THEN h[c] - f[c] ELSE 0]
            w == [i \in 0 .. k - 1 |-> IF i < c THEN 0 ELSE g[i]]
<1>1. \A i \in 0 .. k - 1 : f[i] \in Int /\ g[i] \in Int /\ h[i] = f[i] + g[i]
  OBVIOUS
<1>2. \A i \in 0 .. k - 1 : g[i] = IF i = c THEN h[c] - f[c] ELSE 0
  OBVIOUS
<1>. HIDE DEF g
<1>3. SumBelow(h, k) = SumBelow(f, k) + SumBelow(g, k)
  BY <1>1, SumAdd
<1>4. c \in Nat /\ c + 1 \in Nat /\ c + 1 <= k /\ \A i \in 0 .. k - 1 : g[i] \in Int
  BY <1>1
<1>5. SumBelow(g, k) = SumBelow(g, c + 1)
  <2>1. \A i \in c + 1 .. k - 1 : g[i] = 0
    BY <1>2, <1>4
  <2>. QED BY <1>4, <2>1, SumTail
<1>6. SumBelow(g, c) = 0
  <2>1. \A i \in 0 .. c - 1 : g[i] = 0
    BY <1>2, <1>4
  <2>. QED BY <1>4, <2>1, SumZero
<1>7. SumBelow(g, c + 1) = SumBelow(g, c) + g[c]
  BY <1>4, SumStep
<1>8. g[c] = h[c] - f[c] /\ g[c] \in Int
  BY <1>1, <1>2
<1>. QED BY <1>3, <1>5, <1>6, <1>7, <1>8

-------------------------------------------------------------------------------
(* Arcs.                                                                     *)

LEMMA Sizes == n \in Nat /\ n > 1 /\ m \in Nat /\ InfCap \in Nat /\ InfFloat \in Nat /\ InfFloat > n
BY SizeAssumption, InfAssumption, CostAssumption

LEMMA ArcFacts ==
  ASSUME NEW a \in Arc
  PROVE  /\ EdgeOf(a) \in Edge /\ Twin(a) \in Arc /\ Twin(a) # a /\ Twin(Twin(a)) = a
         /\ EdgeOf(Twin(a)) = EdgeOf(a)
         /\ Backward(Twin(a)) = ~Backward(a)
         /\ a = 2 * EdgeOf(a) + (IF Backward(a) THEN 1 ELSE 0)
<1>0. m \in Nat /\ a \in Nat /\ a <= 2 * m - 1
  BY Sizes DEF Arc
<1>. DEFINE k == a \div 2
            b == a % 2
<1>1. k \in Nat /\ b \in {0, 1} /\ a = 2 * k + b
  BY <1>0
<1>2. ASSUME NEW j \in Nat PROVE (2 * j) \div 2 = j /\ (2 * j) % 2 = 0 /\ (2 * j + 1) \div 2 = j /\ (2 * j + 1) % 2 = 1
  OBVIOUS
<1>. HIDE DEF k, b
<1>3. CASE b = 0
  <2>1. a = 2 * k /\ a + 1 = 2 * k + 1 /\ k <= m - 1 /\ (2 * k + 1) - 1 = 2 * k
    BY <1>0, <1>1, <1>3
  <2>2. ~Backward(a) /\ Twin(a) = 2 * k + 1 /\ EdgeOf(a) = k
    BY <1>1, <1>2, <2>1 DEF Backward, Twin, EdgeOf
  <2>3. Backward(Twin(a)) /\ EdgeOf(Twin(a)) = k /\ Twin(Twin(a)) = 2 * k
    BY <1>1, <1>2, <2>1, <2>2 DEF Backward, Twin, EdgeOf
  <2>4. k \in Edge /\ 2 * k + 1 \in Arc /\ 2 * k + 1 # 2 * k
    BY <1>0, <1>1, <2>1 DEF Edge, Arc
  <2>5. a = 2 * EdgeOf(a) + (IF Backward(a) THEN 1 ELSE 0)
    BY <1>1, <2>1, <2>2
  <2>6. Twin(Twin(a)) = a /\ Twin(a) # a
    BY <2>1, <2>2, <2>3, <2>4
  <2>7. Backward(Twin(a)) = ~Backward(a)
    BY <2>2, <2>3 DEF Backward
  <2>8. EdgeOf(a) \in Edge /\ Twin(a) \in Arc /\ EdgeOf(Twin(a)) = EdgeOf(a)
    BY <2>2, <2>3, <2>4
  <2>. QED BY <2>5, <2>6, <2>7, <2>8
<1>4. CASE b = 1
  <2>1. a = 2 * k + 1 /\ a - 1 = 2 * k /\ k <= m - 1
    BY <1>0, <1>1, <1>4
  <2>2. Backward(a) /\ Twin(a) = 2 * k /\ EdgeOf(a) = k
    BY <1>1, <1>2, <2>1 DEF Backward, Twin, EdgeOf
  <2>3. ~Backward(Twin(a)) /\ EdgeOf(Twin(a)) = k /\ Twin(Twin(a)) = 2 * k + 1
    BY <1>1, <1>2, <2>1, <2>2 DEF Backward, Twin, EdgeOf
  <2>4. k \in Edge /\ 2 * k \in Arc /\ 2 * k + 1 # 2 * k
    BY <1>0, <1>1, <2>1 DEF Edge, Arc
  <2>5. a = 2 * EdgeOf(a) + (IF Backward(a) THEN 1 ELSE 0)
    BY <1>1, <2>1, <2>2
  <2>6. Twin(Twin(a)) = a /\ Twin(a) # a
    BY <2>1, <2>2, <2>3, <2>4
  <2>7. Backward(Twin(a)) = ~Backward(a)
    BY <2>2, <2>3 DEF Backward
  <2>8. EdgeOf(a) \in Edge /\ Twin(a) \in Arc /\ EdgeOf(Twin(a)) = EdgeOf(a)
    BY <2>2, <2>3, <2>4
  <2>. QED BY <2>5, <2>6, <2>7, <2>8
<1>. QED BY <1>1, <1>3, <1>4

LEMMA SameEdge ==
  ASSUME NEW a \in Arc, NEW b \in Arc, EdgeOf(a) = EdgeOf(b), a # b
  PROVE  b = Twin(a) /\ Backward(b) = ~Backward(a)
<1>1. /\ a = 2 * EdgeOf(a) + (IF Backward(a) THEN 1 ELSE 0)
      /\ b = 2 * EdgeOf(a) + (IF Backward(b) THEN 1 ELSE 0)
      /\ EdgeOf(a) \in Nat
  BY ArcFacts DEF Edge
<1>2. Backward(b) = ~Backward(a)
  BY <1>1 DEF Backward
<1>. QED BY <1>1, <1>2 DEF Twin

LEMMA EdgeArcs ==
  ASSUME NEW e \in Edge
  PROVE  /\ 2 * e \in Arc /\ EdgeOf(2 * e) = e /\ ~Backward(2 * e)
         /\ 2 * e + 1 \in Arc /\ EdgeOf(2 * e + 1) = e /\ Backward(2 * e + 1)
         /\ Twin(2 * e) = 2 * e + 1 /\ Twin(2 * e + 1) = 2 * e
<1>1. e \in Nat /\ 2 * e \in Arc /\ 2 * e + 1 \in Arc
  BY Sizes DEF Edge, Arc
<1>2. (2 * e) \div 2 = e /\ (2 * e) % 2 = 0 /\ (2 * e + 1) \div 2 = e /\ (2 * e + 1) % 2 = 1 /\ (2 * e + 1) - 1 = 2 * e
  BY <1>1
<1>. QED BY <1>1, <1>2 DEF EdgeOf, Backward, Twin

LEMMA LeastIs ==
  ASSUME NEW S \in SUBSET Nat, S # {}
  PROVE  Least(S) \in S /\ \A y \in S : Least(S) <= y
<1>1. \E x \in S : \A y \in S : x <= y
  BY LeastNumber
<1>. QED BY <1>1 DEF Least

LEMMA MinOfTwo ==
  ASSUME NEW x \in Int, NEW y \in Int
  PROVE  Min({x, y}) = (IF x <= y THEN x ELSE y) /\ Max({x, y}) = (IF x >= y THEN x ELSE y)
<1>1. \E z \in {x, y} : \A w \in {x, y} : z <= w
  OBVIOUS
<1>2. \E z \in {x, y} : \A w \in {x, y} : z >= w
  OBVIOUS
<1>3. Min({x, y}) \in {x, y} /\ \A w \in {x, y} : Min({x, y}) <= w
  BY <1>1 DEF Min
<1>4. Max({x, y}) \in {x, y} /\ \A w \in {x, y} : Max({x, y}) >= w
  BY <1>2 DEF Max
<1>. QED BY <1>3, <1>4

LEMMA NodeCount == IsFiniteSet(Node) /\ Cardinality(Node) = n
<1>1. IsFiniteSet(0 .. n - 1) /\ Cardinality(0 .. n - 1) = IF 0 > n - 1 THEN 0 ELSE (n - 1) - 0 + 1
  BY Sizes, FS_Interval
<1>. QED BY <1>1, Sizes DEF Node

-------------------------------------------------------------------------------
(* Networks, arcs and their reduced lengths.                                 *)

Nets == [ends : [Edge -> Node \X Node], orientation : [Edge -> {1}], length : [Edge -> Int],
         ucap : [Edge -> 0 .. InfCap], sub : [Edge -> Int], demand : [Node -> Int],
         potential : [Node -> Int] \union {NoLabels}, delta : Nat]
Fits(g) == \A e \in Edge : 0 <= g.sub[e] /\ g.sub[e] <= g.ucap[e]

LEMMA NetParts ==
  ASSUME NEW g \in Nets
  PROVE  /\ g = [ends |-> g.ends, orientation |-> g.orientation, length |-> g.length, ucap |-> g.ucap,
                 sub |-> g.sub, demand |-> g.demand, potential |-> g.potential, delta |-> g.delta]
         /\ g.ends \in [Edge -> Node \X Node] /\ g.orientation \in [Edge -> {1}]
         /\ g.length \in [Edge -> Int] /\ g.ucap \in [Edge -> 0 .. InfCap] /\ g.sub \in [Edge -> Int]
         /\ g.demand \in [Node -> Int] /\ g.potential \in [Node -> Int] \union {NoLabels} /\ g.delta \in Nat
         /\ \A e \in Edge : /\ g.ends[e][1] \in Node /\ g.ends[e][2] \in Node /\ g.orientation[e] = 1
                            /\ g.length[e] \in Int /\ g.ucap[e] \in Nat /\ g.sub[e] \in Int
         /\ \A v \in Node : Potential(g, v) \in Int /\ g.demand[v] \in Int
<1>1. /\ g = [ends |-> g.ends, orientation |-> g.orientation, length |-> g.length, ucap |-> g.ucap,
              sub |-> g.sub, demand |-> g.demand, potential |-> g.potential, delta |-> g.delta]
      /\ g.ends \in [Edge -> Node \X Node] /\ g.orientation \in [Edge -> {1}]
      /\ g.length \in [Edge -> Int] /\ g.ucap \in [Edge -> 0 .. InfCap] /\ g.sub \in [Edge -> Int]
      /\ g.demand \in [Node -> Int] /\ g.potential \in [Node -> Int] \union {NoLabels} /\ g.delta \in Nat
  BY DEF Nets
<1>2. ASSUME NEW e \in Edge
      PROVE  /\ g.ends[e][1] \in Node /\ g.ends[e][2] \in Node /\ g.orientation[e] = 1
             /\ g.length[e] \in Int /\ g.ucap[e] \in Nat /\ g.sub[e] \in Int
  <2>1. g.ends[e] \in Node \X Node /\ g.ucap[e] \in 0 .. InfCap
    BY <1>1
  <2>. QED BY <1>1, <2>1, Sizes
<1>3. ASSUME NEW v \in Node PROVE Potential(g, v) \in Int /\ g.demand[v] \in Int
  <2>1. CASE g.potential \in [Node -> Int]
    BY <1>1, <2>1 DEF Potential
  <2>2. CASE g.potential = NoLabels
    BY <1>1, <2>2 DEF Potential, NoLabels
  <2>. QED BY <1>1, <2>1, <2>2
<1>. QED BY <1>1, <1>2, <1>3

PlainLength(g, a) == IF Backward(a) THEN -g.length[EdgeOf(a)] ELSE g.length[EdgeOf(a)]

LEMMA NetArcs ==
  ASSUME NEW g \in Nets, NEW a \in Arc
  PROVE  /\ StartNode(g, a) \in Node /\ EndNode(g, a) \in Node
         /\ StartNode(g, Twin(a)) = EndNode(g, a) /\ EndNode(g, Twin(a)) = StartNode(g, a)
         /\ ResCap(g, a) \in Int
         /\ PlainLength(g, a) \in Int /\ PlainLength(g, Twin(a)) = -PlainLength(g, a)
         /\ RedLength(g, a) = PlainLength(g, a) + Potential(g, StartNode(g, a)) - Potential(g, EndNode(g, a))
         /\ RedLength(g, a) \in Int /\ RedLength(g, Twin(a)) = -RedLength(g, a)
<1>1. /\ EdgeOf(a) \in Edge /\ Twin(a) \in Arc /\ Twin(Twin(a)) = a
      /\ EdgeOf(Twin(a)) = EdgeOf(a) /\ Backward(Twin(a)) = ~Backward(a)
  BY ArcFacts
<1>. DEFINE e == EdgeOf(a)
<1>2. /\ g.ends[e][1] \in Node /\ g.ends[e][2] \in Node /\ g.orientation[e] = 1
      /\ g.length[e] \in Int /\ g.ucap[e] \in Nat /\ g.sub[e] \in Int
  BY <1>1, NetParts
<1>3. /\ StartNode(g, a) = g.ends[e][IF Backward(a) THEN 2 ELSE 1]
      /\ EndNode(g, a) = g.ends[e][IF Backward(a) THEN 1 ELSE 2]
      /\ EndNode(g, Twin(a)) = StartNode(g, a) /\ StartNode(g, Twin(a)) = EndNode(g, a)
      /\ ResCap(g, a) = IF Backward(a) THEN g.sub[e] ELSE g.ucap[e] - g.sub[e]
      /\ PlainLength(g, a) = IF Backward(a) THEN -g.length[e] ELSE g.length[e]
      /\ PlainLength(g, Twin(a)) = IF Backward(a) THEN g.length[e] ELSE -g.length[e]
  BY <1>1 DEF StartNode, EndNode, ResCap, Sub, UCap, PlainLength
<1>4. /\ RedLength(g, a) = PlainLength(g, a) + Potential(g, StartNode(g, a)) - Potential(g, EndNode(g, a))
      /\ RedLength(g, Twin(a)) = PlainLength(g, Twin(a)) + Potential(g, StartNode(g, Twin(a))) - Potential(g, EndNode(g, Twin(a)))
  BY <1>1, <1>2 DEF RedLength, Orientation, Length, PlainLength
<1>. HIDE DEF e
<1>5. /\ StartNode(g, a) \in Node /\ EndNode(g, a) \in Node /\ ResCap(g, a) \in Int
      /\ PlainLength(g, a) \in Int /\ PlainLength(g, Twin(a)) = -PlainLength(g, a)
  <2>1. CASE Backward(a)
    BY <1>2, <1>3, <2>1
  <2>2. CASE ~Backward(a)
    BY <1>2, <1>3, <2>2
  <2>. QED BY <2>1, <2>2
<1>6. Potential(g, StartNode(g, a)) \in Int /\ Potential(g, EndNode(g, a)) \in Int
  BY <1>5, NetParts
<1>. QED BY <1>3, <1>4, <1>5, <1>6

-------------------------------------------------------------------------------
(* Walks.                                                                    *)

IsWalk(g, A, w) ==
  /\ w \in Seq(A)
  /\ \A i \in 1 .. Len(w) - 1 : EndNode(g, w[i]) = StartNode(g, w[i + 1])
  /\ \A i, j \in 1 .. Len(w) : i # j => EndNode(g, w[i]) # EndNode(g, w[j])

Goes(g, w, a) == /\ Len(w) > 0 => EndNode(g, w[Len(w)]) = StartNode(g, a)
                 /\ \A i \in DOMAIN w : EndNode(g, w[i]) # EndNode(g, a)

LEMMA WalkExtends ==
  ASSUME NEW g, NEW A, NEW w, IsWalk(g, A, w), NEW a \in A, Goes(g, w, a)
  PROVE  /\ IsWalk(g, A, Append(w, a)) /\ Len(Append(w, a)) = Len(w) + 1 /\ Len(w) \in Nat
         /\ Append(w, a)[Len(w) + 1] = a /\ \A i \in 1 .. Len(w) : Append(w, a)[i] = w[i]
<1>. DEFINE u == Append(w, a)
            k == Len(w)
<1>1. w \in Seq(A) /\ k \in Nat /\ DOMAIN w = 1 .. k
  BY DEF IsWalk
<1>2. u \in Seq(A) /\ Len(u) = k + 1 /\ u[k + 1] = a /\ \A i \in 1 .. k : u[i] = w[i]
  BY <1>1
<1>. HIDE DEF u, k
<1>3. ASSUME NEW i \in 1 .. Len(u) - 1 PROVE EndNode(g, u[i]) = StartNode(g, u[i + 1])
  <2>1. i \in 1 .. k
    BY <1>1, <1>2
  <2>2. CASE i = k
    <3>1. EndNode(g, w[k]) = StartNode(g, a)
      BY <1>1, <2>1, <2>2 DEF Goes, k
    <3>. QED BY <1>2, <2>1, <2>2, <3>1
  <2>3. CASE i # k
    <3>1. i \in 1 .. k - 1 /\ i + 1 \in 1 .. k
      BY <1>1, <2>1, <2>3
    <3>2. EndNode(g, w[i]) = StartNode(g, w[i + 1])
      BY <3>1 DEF IsWalk, k
    <3>. QED BY <1>2, <2>1, <3>1, <3>2
  <2>. QED BY <2>2, <2>3
<1>4. ASSUME NEW i \in 1 .. Len(u), NEW j \in 1 .. Len(u), i # j
      PROVE  EndNode(g, u[i]) # EndNode(g, u[j])
  <2>1. \A x \in 1 .. k : EndNode(g, u[x]) # EndNode(g, a)
    BY <1>1, <1>2 DEF Goes
  <2>2. CASE i = k + 1
    <3>1. j \in 1 .. k
      BY <1>1, <1>2, <1>4, <2>2
    <3>. QED BY <1>2, <2>1, <2>2, <3>1
  <2>3. CASE j = k + 1
    <3>1. i \in 1 .. k
      BY <1>1, <1>2, <1>4, <2>3
    <3>. QED BY <1>2, <2>1, <2>3, <3>1
  <2>4. CASE i # k + 1 /\ j # k + 1
    <3>1. i \in 1 .. k /\ j \in 1 .. k
      BY <1>1, <1>2, <2>4
    <3>2. EndNode(g, w[i]) # EndNode(g, w[j])
      BY <1>4, <3>1 DEF IsWalk, k
    <3>. QED BY <1>2, <3>1, <3>2
  <2>. QED BY <2>2, <2>3, <2>4
<1>5. IsWalk(g, A, u)
  BY <1>2, <1>3, <1>4 DEF IsWalk
<1>. QED BY <1>1, <1>2, <1>5 DEF u, k

(* A part of a walk, after i arcs and up to arc j.                           *)
Part(w, i, j) == [k \in 1 .. j - i |-> w[i + k]]

LEMMA PartIs ==
  ASSUME NEW g, NEW A, NEW w, IsWalk(g, A, w), NEW i \in 0 .. Len(w), NEW j \in i .. Len(w)
  PROVE  /\ IsWalk(g, A, Part(w, i, j)) /\ Len(Part(w, i, j)) = j - i
         /\ \A k \in 1 .. j - i : Part(w, i, j)[k] = w[i + k]
<1>. DEFINE u == Part(w, i, j)
<1>1. w \in Seq(A) /\ Len(w) \in Nat /\ \A k \in 1 .. Len(w) : w[k] \in A
  BY DEF IsWalk
<1>2. i \in Nat /\ j \in Nat /\ j - i \in Nat /\ j <= Len(w) /\ \A k \in 1 .. j - i : i + k \in 1 .. Len(w)
  BY <1>1
<1>3. u \in Seq(A) /\ Len(u) = j - i /\ \A k \in 1 .. j - i : u[k] = w[i + k]
  <2>1. \A k \in 1 .. j - i : w[i + k] \in A
    BY <1>1, <1>2
  <2>2. u \in [1 .. j - i -> A]
    BY <2>1 DEF Part
  <2>3. u \in Seq(A) /\ Len(u) = j - i
    BY <1>2, <2>2
  <2>. QED BY <2>3 DEF Part
<1>. HIDE DEF u
<1>4. ASSUME NEW k \in 1 .. Len(u) - 1 PROVE EndNode(g, u[k]) = StartNode(g, u[k + 1])
  <2>1. i + k \in 1 .. Len(w) - 1 /\ k \in 1 .. j - i /\ k + 1 \in 1 .. j - i /\ i + (k + 1) = (i + k) + 1
    BY <1>1, <1>2, <1>3
  <2>2. EndNode(g, w[i + k]) = StartNode(g, w[(i + k) + 1])
    BY <2>1 DEF IsWalk
  <2>. QED BY <1>3, <2>1, <2>2
<1>5. ASSUME NEW k \in 1 .. Len(u), NEW l \in 1 .. Len(u), k # l PROVE EndNode(g, u[k]) # EndNode(g, u[l])
  <2>1. i + k \in 1 .. Len(w) /\ i + l \in 1 .. Len(w) /\ i + k # i + l /\ k \in 1 .. j - i /\ l \in 1 .. j - i
    BY <1>1, <1>2, <1>3, <1>5
  <2>2. EndNode(g, w[i + k]) # EndNode(g, w[i + l])
    BY <2>1 DEF IsWalk
  <2>. QED BY <1>3, <2>1, <2>2
<1>. QED BY <1>3, <1>4, <1>5 DEF IsWalk, u

(* A walk enters no node twice, so that it is not longer than n.             *)
LEMMA WalkShort ==
  ASSUME NEW g \in Nets, NEW A \in SUBSET Arc, NEW w, IsWalk(g, A, w)
  PROVE  Len(w) \in 0 .. n
<1>. DEFINE k == Len(w)
            f == [i \in 1 .. k |-> EndNode(g, w[i])]
<1>1. k \in Nat /\ \A i \in 1 .. k : w[i] \in Arc
  BY DEF IsWalk
<1>2. f \in [1 .. k -> Node]
  BY <1>1, NetArcs
<1>3. IsFiniteSet(1 .. k) /\ Cardinality(1 .. k) = k
  <2>1. IsFiniteSet(1 .. k) /\ Cardinality(1 .. k) = IF 1 > k THEN 0 ELSE k - 1 + 1
    BY <1>1, FS_Interval
  <2>. QED BY <1>1, <2>1
<1>4. \A i, j \in 1 .. k : i # j => f[i] # f[j]
  BY DEF IsWalk
<1>. HIDE DEF k, f
<1>5. ~(n < k)
  <2>. SUFFICES ASSUME n < k PROVE FALSE
    OBVIOUS
  <2>. DEFINE I == 1 .. k
  <2>1. IsFiniteSet(I) /\ Cardinality(Node) < Cardinality(I) /\ f \in [I -> Node]
    BY <1>2, <1>3, NodeCount
  <2>. HIDE DEF I
  <2>2. \E x, y \in I : x # y /\ f[x] = f[y]
    BY <2>1, NodeCount, FS_PigeonHole
  <2>. QED BY <1>4, <2>2 DEF I
<1>. QED BY <1>1, <1>5, Sizes DEF k
(* What Walks computes.                                                      *)
WalksTo(g, A, k) == {w \in Seq(A) : IsWalk(g, A, w) /\ Len(w) <= k}
OneMore(g, A, Q, k) ==
  Q \union {Append(x[1], x[2]) : x \in {y \in {w \in Q : Len(w) = k} \X A : Goes(g, y[1], y[2])}}

LEMMA OneMoreIs ==
  ASSUME NEW g, NEW A, NEW k \in Nat
  PROVE  OneMore(g, A, WalksTo(g, A, k), k) = WalksTo(g, A, k + 1)
<1>. DEFINE Q == WalksTo(g, A, k)
            R1 == WalksTo(g, A, k + 1)
            L == OneMore(g, A, Q, k)
<1>1. \A w : w \in L <=> w \in Q \/ \E u \in Q : \E a \in A : Len(u) = k /\ Goes(g, u, a) /\ w = Append(u, a)
  <2>. DEFINE Y == {y \in {w \in Q : Len(w) = k} \X A : Goes(g, y[1], y[2])}
  <2>1. \A w : w \in L <=> w \in Q \/ \E y \in Y : w = Append(y[1], y[2])
    BY DEF OneMore
  <2>2. ASSUME NEW y \in Y PROVE y[1] \in Q /\ y[2] \in A /\ Len(y[1]) = k /\ Goes(g, y[1], y[2])
    OBVIOUS
  <2>3. ASSUME NEW u \in Q, NEW a \in A, Len(u) = k, Goes(g, u, a)
        PROVE  <<u, a>> \in Y /\ <<u, a>>[1] = u /\ <<u, a>>[2] = a
    BY <2>3
  <2>. HIDE DEF Y, L, Q
  <2>4. ASSUME NEW w, \E y \in Y : w = Append(y[1], y[2])
        PROVE  \E u \in Q : \E a \in A : Len(u) = k /\ Goes(g, u, a) /\ w = Append(u, a)
    <3>1. PICK y \in Y : w = Append(y[1], y[2])
      BY <2>4
    <3>2. y[1] \in Q /\ y[2] \in A /\ Len(y[1]) = k /\ Goes(g, y[1], y[2])
      BY <2>2
    <3>. QED BY <3>1, <3>2, Zenon
  <2>5. ASSUME NEW w, \E u \in Q : \E a \in A : Len(u) = k /\ Goes(g, u, a) /\ w = Append(u, a)
        PROVE  \E y \in Y : w = Append(y[1], y[2])
    <3>1. PICK u \in Q, a \in A : Len(u) = k /\ Goes(g, u, a) /\ w = Append(u, a)
      BY <2>5
    <3>. DEFINE y == <<u, a>>
    <3>2. y \in Y /\ y[1] = u /\ y[2] = a
      BY <2>3, <3>1
    <3>. HIDE DEF y
    <3>. QED BY <3>1, <3>2
  <2>. QED BY <2>1, <2>4, <2>5
<1>2. ASSUME NEW w \in L PROVE w \in R1
  <2>1. CASE w \in Q
    <3>1. w \in Seq(A) /\ IsWalk(g, A, w) /\ Len(w) \in Nat /\ Len(w) <= k
      BY <2>1 DEF WalksTo
    <3>2. Len(w) <= k + 1
      BY <3>1
    <3>. QED BY <3>1, <3>2 DEF WalksTo
  <2>2. CASE \E u \in Q : \E a \in A : Len(u) = k /\ Goes(g, u, a) /\ w = Append(u, a)
    <3>1. PICK u \in Q, a \in A : Len(u) = k /\ Goes(g, u, a) /\ w = Append(u, a)
      BY <2>2
    <3>2. IsWalk(g, A, u)
      BY DEF WalksTo
    <3>. HIDE DEF Q
    <3>3. IsWalk(g, A, w) /\ Len(w) = k + 1
      BY <3>1, <3>2, WalkExtends
    <3>. QED BY <3>3 DEF WalksTo, IsWalk
  <2>. QED BY <1>1, <1>2, <2>1, <2>2
<1>3. ASSUME NEW w \in R1 PROVE w \in L
  <2>1. w \in Seq(A) /\ IsWalk(g, A, w) /\ Len(w) \in Nat /\ Len(w) <= k + 1
    BY DEF WalksTo
  <2>. HIDE DEF L, R1
  <2>2. CASE Len(w) <= k
    <3>1. w \in Q
      BY <2>1, <2>2 DEF WalksTo
    <3>. QED BY <1>1, <3>1
  <2>3. CASE ~(Len(w) <= k)
    <3>1. Len(w) = k + 1 /\ k \in 0 .. Len(w) /\ 0 \in 0 .. Len(w) /\ k \in 0 .. Len(w) /\ k + 1 \in 1 .. Len(w)
      BY <2>1, <2>3
    <3>. DEFINE z == 0
                u == Part(w, z, k)
                a == w[k + 1]
    <3>2a. z = 0 /\ z \in 0 .. Len(w) /\ k \in z .. Len(w)
      BY <3>1
    <3>. HIDE DEF z
    <3>2. IsWalk(g, A, u) /\ Len(u) = k - z /\ \A i \in 1 .. k - z : u[i] = w[z + i]
      <4>1. IsWalk(g, A, w) /\ z \in 0 .. Len(w) /\ k \in z .. Len(w)
        BY <2>1, <3>2a
      <4>. QED BY ONLY <4>1, PartIs
    <3>. HIDE DEF u
    <3>3. Len(u) = k /\ \A i \in 1 .. k : u[i] = w[i]
      BY <3>2, <3>2a
    <3>4. a \in A /\ u \in Seq(A) /\ DOMAIN u = 1 .. k
      BY <2>1, <3>1, <3>2, <3>3 DEF IsWalk
    <3>5. Goes(g, u, a)
      <4>1. ASSUME Len(u) > 0 PROVE EndNode(g, u[Len(u)]) = StartNode(g, a)
        <5>1. k \in 1 .. Len(w) - 1 /\ k \in 1 .. k
          BY <3>1, <3>3, <4>1
        <5>2. EndNode(g, w[k]) = StartNode(g, w[k + 1])
          BY <2>1, <5>1 DEF IsWalk
        <5>. QED BY <3>3, <5>1, <5>2
      <4>2. ASSUME NEW i \in DOMAIN u PROVE EndNode(g, u[i]) # EndNode(g, a)
        <5>1. i \in 1 .. k /\ i \in 1 .. Len(w) /\ i # k + 1
          BY <3>1, <3>4, <4>2
        <5>2. EndNode(g, w[i]) # EndNode(g, w[k + 1])
          BY <2>1, <3>1, <5>1 DEF IsWalk
        <5>. QED BY <3>3, <5>1, <5>2
      <4>. QED BY <4>1, <4>2 DEF Goes
    <3>6. w = Append(u, a)
      <4>. DEFINE x == Append(u, a)
      <4>1. x \in Seq(A) /\ Len(x) = k + 1 /\ x[k + 1] = a /\ \A i \in 1 .. k : x[i] = u[i]
        BY <3>3, <3>4
      <4>. HIDE DEF x
      <4>2. \A i \in 1 .. k + 1 : x[i] = w[i]
        BY <3>3, <4>1
      <4>3. w = x
        BY <2>1, <3>1, <4>1, <4>2
      <4>. QED BY <4>3 DEF x
    <3>7. u \in Q
      BY <3>2, <3>3, <3>4 DEF WalksTo
    <3>. QED BY <1>1, <3>3, <3>4, <3>5, <3>6, <3>7
  <2>. QED BY <2>2, <2>3
<1>. QED BY <1>2, <1>3

LEMMA WalksAre ==
  ASSUME NEW g \in Nets, NEW A \in SUBSET Arc
  PROVE  \A w : w \in Walks(g, A) <=> IsWalk(g, A, w) /\ Len(w) \in 1 .. n
<1>. DEFINE S == SUBSET Seq(A)
            x == {<<>>}
            F == [k \in 1 .. n |-> [Q \in S |-> OneMore(g, A, Q, k - 1)]]
            Is(W) == W = [k \in 0 .. n |-> IF k = 0 THEN {<<>>} ELSE OneMore(g, A, W[k - 1], k - 1)]
            W0 == CHOOSE W : Is(W)
<1>1. x \in S
  OBVIOUS
<1>2. ASSUME NEW k \in 1 .. n, NEW Q \in S PROVE OneMore(g, A, Q, k - 1) \in S
  <2>1. \A y \in {w \in Q : Len(w) = k - 1} \X A : Append(y[1], y[2]) \in Seq(A)
    OBVIOUS
  <2>. QED BY <2>1 DEF OneMore
<1>. HIDE DEF S, x
<1>3. F \in [1 .. n -> [S -> S]] /\ \A k \in 1 .. n : \A Q \in S : F[k][Q] = OneMore(g, A, Q, k - 1)
  BY <1>2
<1>. HIDE DEF F, W0
<1>4. Solvable(S, x, n, F)
  BY <1>1, <1>3, Iterates, Sizes
<1>5. PICK T \in [0 .. n -> S] : T[0] = x /\ \A i \in 1 .. n : T[i] = F[i][T[i - 1]]
  BY <1>4 DEF Solvable
<1>6. Is(T)
  <2>1. ASSUME NEW k \in 0 .. n PROVE T[k] = IF k = 0 THEN {<<>>} ELSE OneMore(g, A, T[k - 1], k - 1)
    <3>1. CASE k = 0
      BY <1>5, <3>1 DEF x
    <3>2. CASE k # 0
      <4>1. k \in 1 .. n /\ k - 1 \in 0 .. n
        BY <3>2, Sizes
      <4>2. T[k - 1] \in S /\ T[k] = F[k][T[k - 1]]
        BY <1>5, <4>1
      <4>. QED BY <1>3, <3>2, <4>1, <4>2
    <3>. QED BY <3>1, <3>2
  <2>2. T = [k \in 0 .. n |-> T[k]]
    BY <1>5
  <2>. QED BY <2>1, <2>2
<1>7. Is(W0)
  BY <1>6 DEF W0
<1>8. Walks(g, A) = W0[n] \ {<<>>}
  BY DEF Walks, W0, OneMore, Goes
<1>9. W0[0] = {<<>>} /\ \A k \in 1 .. n : W0[k] = OneMore(g, A, W0[k - 1], k - 1)
  <2>1. 0 \in 0 .. n /\ \A k \in 1 .. n : k \in 0 .. n /\ k # 0
    BY Sizes
  <2>. QED BY <1>7, <2>1
<1>10. n \in {k \in 0 .. n : W0[k] = WalksTo(g, A, k)}
  <2>. DEFINE Good == {k \in 0 .. n : W0[k] = WalksTo(g, A, k)}
  <2>1. 0 \in Good
    <3>1. \A w : w \in WalksTo(g, A, 0) => w = <<>>
      BY DEF WalksTo
    <3>2. <<>> \in WalksTo(g, A, 0)
      BY DEF WalksTo, IsWalk
    <3>3. W0[0] = WalksTo(g, A, 0)
      BY <1>9, <3>1, <3>2
    <3>. QED BY <3>3, Sizes
  <2>2. ASSUME NEW k \in 0 .. n - 1, k \in Good PROVE k + 1 \in Good
    <3>1. k + 1 \in 1 .. n /\ k + 1 \in 0 .. n /\ (k + 1) - 1 = k /\ k \in Nat
      BY Sizes
    <3>2. W0[k + 1] = OneMore(g, A, W0[k], k)
      BY <1>9, <3>1
    <3>3. W0[k + 1] = WalksTo(g, A, k + 1)
      BY <2>2, <3>1, <3>2, OneMoreIs
    <3>. QED BY <3>1, <3>3
  <2>. HIDE DEF Good
  <2>3. \A k \in 0 .. n : k \in Good
    BY <2>1, <2>2, CountUp, Sizes
  <2>4. n \in Good
    BY <2>3, Sizes
  <2>. QED BY <2>4 DEF Good
<1>11. Walks(g, A) = WalksTo(g, A, n) \ {<<>>}
  BY <1>8, <1>10
<1>12. ASSUME NEW w PROVE w \in Walks(g, A) <=> IsWalk(g, A, w) /\ Len(w) \in 1 .. n
  <2>1. w \in Seq(A) => Len(w) \in Nat /\ (w = <<>> <=> Len(w) = 0)
    OBVIOUS
  <2>2. w \in Walks(g, A) <=> w \in Seq(A) /\ IsWalk(g, A, w) /\ Len(w) <= n /\ w # <<>>
    BY <1>11 DEF WalksTo
  <2>3. IsWalk(g, A, w) => w \in Seq(A)
    BY DEF IsWalk
  <2>. QED BY <2>1, <2>2, <2>3, Sizes
<1>. QED BY <1>12

-------------------------------------------------------------------------------
(* Lengths of walks.                                                         *)

LEMMA SumShift ==
  ASSUME NEW b \in Nat, NEW f, \A i \in 0 .. b - 1 : f[i] \in Int,
         NEW i \in 0 .. b, NEW j \in i .. b, NEW h, \A k \in 0 .. j - i - 1 : h[k] = f[i + k]
  PROVE  SumBelow(h, j - i) = SumBelow(f, j) - SumBelow(f, i) /\ SumBelow(h, j - i) \in Int
<1>. DEFINE c == j - i
            S == {k \in 0 .. c : SumBelow(h, k) = SumBelow(f, i + k) - SumBelow(f, i)}
<1>0. i \in Nat /\ j \in Nat /\ c \in Nat /\ i + c = j /\ j <= b
  OBVIOUS
<1>1. ASSUME NEW k \in 0 .. c - 1 PROVE h[k] \in Int /\ h[k] = f[i + k] /\ i + k \in 0 .. b - 1
  <2>1. i + k \in 0 .. b - 1 /\ k \in 0 .. j - i - 1
    BY <1>0
  <2>. QED BY <2>1
<1>2. /\ SumBelow(f, b) \in Int
      /\ \A k \in 0 .. b - 1 : SumBelow(f, k) \in Int /\ SumBelow(f, k + 1) = SumBelow(f, k) + f[k]
  BY SumStep
<1>3. /\ SumBelow(h, c) \in Int /\ SumBelow(h, 0) = 0
      /\ \A k \in 0 .. c - 1 : SumBelow(h, k) \in Int /\ SumBelow(h, k + 1) = SumBelow(h, k) + h[k]
  BY <1>0, <1>1, SumStep
<1>4. \A k \in 0 .. b : SumBelow(f, k) \in Int
  <2>1. \A k \in 0 .. b : k = b \/ k \in 0 .. b - 1
    OBVIOUS
  <2>. QED BY <1>2, <2>1
<1>5. 0 \in S
  <2>1. i + 0 = i /\ SumBelow(f, i) \in Int /\ 0 \in 0 .. c
    BY <1>0, <1>4
  <2>. QED BY <1>3, <2>1
<1>6. ASSUME NEW k \in 0 .. c - 1, k \in S PROVE k + 1 \in S
  <2>1. k + 1 \in 0 .. c /\ i + (k + 1) = (i + k) + 1
    BY <1>0
  <2>2. h[k] = f[i + k] /\ h[k] \in Int /\ i + k \in 0 .. b - 1
    BY <1>1
  <2>3. /\ SumBelow(f, (i + k) + 1) = SumBelow(f, i + k) + f[i + k] /\ SumBelow(f, i + k) \in Int
        /\ SumBelow(h, k + 1) = SumBelow(h, k) + h[k] /\ SumBelow(h, k) \in Int /\ SumBelow(f, i) \in Int
    BY <1>2, <1>3, <1>4, <2>2
  <2>4. SumBelow(h, k) = SumBelow(f, i + k) - SumBelow(f, i)
    BY <1>6
  <2>5. SumBelow(h, k + 1) = SumBelow(f, i + (k + 1)) - SumBelow(f, i)
    BY <2>1, <2>2, <2>3, <2>4
  <2>. QED BY <2>1, <2>5
<1>. HIDE DEF S, c
<1>7. \A k \in 0 .. c : k \in S
  BY <1>0, <1>5, <1>6, CountUp
<1>8. c \in S
  BY <1>0, <1>7
<1>. QED BY <1>0, <1>3, <1>8 DEF S, c

(* The length of the first i arcs of a walk.                                 *)
Steps(g, w) == [i \in 0 .. Len(w) - 1 |-> RedLength(g, w[i + 1])]
Upto(g, w, i) == SumBelow(Steps(g, w), i)

LEMMA UptoIs ==
  ASSUME NEW g \in Nets, NEW A \in SUBSET Arc, NEW w, IsWalk(g, A, w)
  PROVE  /\ Len(w) \in Nat /\ \A i \in 1 .. Len(w) : w[i] \in A /\ w[i] \in Arc
         /\ \A i \in 0 .. Len(w) - 1 : Steps(g, w)[i] \in Int /\ Steps(g, w)[i] = RedLength(g, w[i + 1])
         /\ \A i \in 0 .. Len(w) : Upto(g, w, i) \in Int
         /\ Upto(g, w, 0) = 0 /\ WalkLength(g, w) = Upto(g, w, Len(w))
         /\ \A i \in 1 .. Len(w) : Upto(g, w, i) = Upto(g, w, i - 1) + RedLength(g, w[i])
<1>1. Len(w) \in Nat /\ \A i \in 1 .. Len(w) : w[i] \in A /\ w[i] \in Arc
  BY DEF IsWalk
<1>2. ASSUME NEW i \in 0 .. Len(w) - 1 PROVE Steps(g, w)[i] \in Int /\ Steps(g, w)[i] = RedLength(g, w[i + 1])
  <2>1. i + 1 \in 1 .. Len(w)
    BY <1>1
  <2>. QED BY <1>1, <2>1, NetArcs DEF Steps
<1>3. /\ SumBelow(Steps(g, w), Len(w)) \in Int /\ SumBelow(Steps(g, w), 0) = 0
      /\ \A j \in 0 .. Len(w) - 1 : /\ SumBelow(Steps(g, w), j) \in Int
                                    /\ SumBelow(Steps(g, w), j + 1) = SumBelow(Steps(g, w), j) + Steps(g, w)[j]
  BY <1>1, <1>2, SumStep
<1>4. ASSUME NEW i \in 0 .. Len(w) PROVE Upto(g, w, i) \in Int
  <2>1. i = Len(w) \/ i \in 0 .. Len(w) - 1
    BY <1>1
  <2>. QED BY <1>3, <2>1 DEF Upto
<1>5. ASSUME NEW i \in 1 .. Len(w) PROVE Upto(g, w, i) = Upto(g, w, i - 1) + RedLength(g, w[i])
  <2>1. i - 1 \in 0 .. Len(w) - 1 /\ (i - 1) + 1 = i
    BY <1>1
  <2>. QED BY <1>2, <1>3, <2>1 DEF Upto
<1>6. Upto(g, w, 0) = 0 /\ WalkLength(g, w) = Upto(g, w, Len(w))
  BY <1>3 DEF Upto, WalkLength, Steps
<1>. QED BY <1>1, <1>2, <1>4, <1>5, <1>6

LEMMA PartLength ==
  ASSUME NEW g \in Nets, NEW A \in SUBSET Arc, NEW w, IsWalk(g, A, w),
         NEW i \in 0 .. Len(w), NEW j \in i .. Len(w)
  PROVE  WalkLength(g, Part(w, i, j)) = Upto(g, w, j) - Upto(g, w, i)
<1>. DEFINE u == Part(w, i, j)
<1>1. IsWalk(g, A, u) /\ Len(u) = j - i /\ \A k \in 1 .. j - i : u[k] = w[i + k]
  BY PartIs
<1>. HIDE DEF u
<1>2. Len(w) \in Nat /\ \A k \in 0 .. Len(w) - 1 : Steps(g, w)[k] \in Int /\ Steps(g, w)[k] = RedLength(g, w[k + 1])
  BY UptoIs
<1>2a. \A k \in 0 .. Len(u) - 1 : Steps(g, u)[k] = RedLength(g, u[k + 1])
  <2>1. IsWalk(g, A, u)
    BY <1>1
  <2>. QED BY <2>1, UptoIs
<1>3. WalkLength(g, u) = SumBelow(Steps(g, u), j - i)
  BY <1>1, UptoIs DEF Upto
<1>4. ASSUME NEW k \in 0 .. j - i - 1 PROVE Steps(g, u)[k] = Steps(g, w)[i + k]
  <2>1. k + 1 \in 1 .. j - i /\ i + k \in 0 .. Len(w) - 1 /\ i + (k + 1) = (i + k) + 1 /\ k \in 0 .. Len(u) - 1
    BY <1>1, <1>2
  <2>2. Steps(g, u)[k] = RedLength(g, u[k + 1])
    BY <1>2a, <2>1
  <2>. QED BY <1>1, <1>2, <2>1, <2>2
<1>5. SumBelow(Steps(g, u), j - i) = SumBelow(Steps(g, w), j) - SumBelow(Steps(g, w), i)
  BY <1>2, <1>4, SumShift
<1>. QED BY <1>3, <1>5 DEF u, Upto

LEMMA ExtendedLength ==
  ASSUME NEW g \in Nets, NEW A \in SUBSET Arc, NEW w, IsWalk(g, A, w), NEW a \in A, Goes(g, w, a)
  PROVE  /\ WalkLength(g, Append(w, a)) = WalkLength(g, w) + RedLength(g, a)
         /\ Append(w, a) \in Walks(g, A) /\ To(g, Append(w, a)) = EndNode(g, a)
         /\ From(g, Append(w, a)) = IF Len(w) = 0 THEN StartNode(g, a) ELSE From(g, w)
<1>. DEFINE u == Append(w, a)
            k == Len(w)
<1>1. IsWalk(g, A, u) /\ Len(u) = k + 1 /\ k \in Nat /\ u[k + 1] = a /\ \A i \in 1 .. k : u[i] = w[i]
  BY WalkExtends
<1>2. Len(u) \in 0 .. n
  BY <1>1, WalkShort
<1>. HIDE DEF u, k
<1>3. u \in Walks(g, A)
  BY <1>1, <1>2, WalksAre
<1>4. To(g, u) = EndNode(g, a) /\ From(g, u) = IF k = 0 THEN StartNode(g, a) ELSE From(g, w)
  <2>1. k # 0 => 1 \in 1 .. k
    BY <1>1
  <2>. QED BY <1>1, <2>1 DEF To, From
<1>5. WalkLength(g, u) = WalkLength(g, w) + RedLength(g, a)
  <2>1. WalkLength(g, u) = Upto(g, u, k) + RedLength(g, a)
    <3>1. k + 1 \in 1 .. Len(u) /\ (k + 1) - 1 = k
      BY <1>1
    <3>2a. /\ WalkLength(g, u) = Upto(g, u, Len(u))
           /\ \A i \in 1 .. Len(u) : Upto(g, u, i) = Upto(g, u, i - 1) + RedLength(g, u[i])
      BY <1>1, UptoIs
    <3>2. WalkLength(g, u) = Upto(g, u, k + 1) /\ Upto(g, u, k + 1) = Upto(g, u, (k + 1) - 1) + RedLength(g, u[k + 1])
      BY <1>1, <3>1, <3>2a
    <3>. QED BY <1>1, <3>1, <3>2
  <2>2. WalkLength(g, w) = SumBelow(Steps(g, w), k) /\ \A i \in 0 .. k - 1 : Steps(g, w)[i] \in Int /\ Steps(g, w)[i] = RedLength(g, w[i + 1])
    BY UptoIs DEF Upto, k
  <2>3. ASSUME NEW i \in 0 .. k - 1 PROVE Steps(g, u)[i] = Steps(g, w)[i]
    <3>1. i + 1 \in 1 .. k /\ i \in 0 .. Len(u) - 1
      BY <1>1
    <3>2a. \A j \in 0 .. Len(u) - 1 : Steps(g, u)[j] = RedLength(g, u[j + 1])
      BY <1>1, UptoIs
    <3>2. Steps(g, u)[i] = RedLength(g, u[i + 1])
      BY <3>1, <3>2a
    <3>. QED BY <1>1, <2>2, <3>1, <3>2
  <2>4. SumBelow(Steps(g, w), k) = SumBelow(Steps(g, u), k)
    BY <1>1, <2>2, <2>3, SumSame
  <2>. QED BY <2>1, <2>2, <2>4 DEF Upto
<1>. QED BY <1>3, <1>4, <1>5 DEF u, k

LEMMA BoundBelow ==
  ASSUME NEW k \in Nat, NEW f, \A i \in 0 .. k - 1 : f[i] \in Int
  PROVE  \E M \in Nat : \A i \in 0 .. k - 1 : -M <= f[i]
<1>. DEFINE S == {j \in 0 .. k : \E M \in Nat : \A i \in 0 .. j - 1 : -M <= f[i]}
<1>1. 0 \in S
  <2>1. 0 .. 0 - 1 = {} /\ 0 \in 0 .. k
    OBVIOUS
  <2>. QED BY <2>1
<1>2. ASSUME NEW j \in 0 .. k - 1, j \in S PROVE j + 1 \in S
  <2>1. PICK M \in Nat : \A i \in 0 .. j - 1 : -M <= f[i]
    BY <1>2
  <2>2. f[j] \in Int
    OBVIOUS
  <2>3. PICK N \in Nat : -N <= f[j] /\ M <= N
    <3>1. CASE f[j] >= -M
      BY <2>2, <3>1
    <3>2. CASE ~(f[j] >= -M)
      <4>1. -f[j] \in Nat /\ -(-f[j]) <= f[j] /\ M <= -f[j]
        BY <2>2, <3>2
      <4>. QED BY <4>1
    <3>. QED BY <3>1, <3>2
  <2>4. ASSUME NEW i \in 0 .. (j + 1) - 1 PROVE -N <= f[i]
    <3>1. i = j \/ i \in 0 .. j - 1
      OBVIOUS
    <3>2. i \in 0 .. k - 1
      OBVIOUS
    <3>3. f[i] \in Int
      BY <3>2
    <3>4. i \in 0 .. j - 1 => -M <= f[i]
      BY <2>1
    <3>. QED BY <2>3, <3>1, <3>3, <3>4
  <2>5. j + 1 \in 0 .. k
    OBVIOUS
  <2>. QED BY <2>4, <2>5
<1>. HIDE DEF S
<1>3. \A j \in 0 .. k : j \in S
  BY <1>1, <1>2, CountUp
<1>4. k \in S
  BY <1>3
<1>. QED BY <1>4 DEF S

LEMMA LeastInt ==
  ASSUME NEW S \in SUBSET Int, S # {}, NEW B \in Int, \A x \in S : B <= x
  PROVE  Least(S) \in S /\ \A y \in S : Least(S) <= y
<1>. DEFINE T == {x - B : x \in S}
<1>1. T \in SUBSET Nat /\ T # {}
  <2>1. PICK y \in S : TRUE
    OBVIOUS
  <2>2. y - B \in T
    OBVIOUS
  <2>3. ASSUME NEW x \in S PROVE x - B \in Nat
    <3>1. x \in Int /\ B <= x
      OBVIOUS
    <3>. QED BY <3>1
  <2>. QED BY <2>2, <2>3
<1>2. PICK k \in T : \A j \in T : k <= j
  BY <1>1, LeastNumber
<1>3. PICK x \in S : k = x - B
  BY <1>2
<1>4. ASSUME NEW y \in S PROVE x <= y
  <2>1. y - B \in T /\ x \in Int /\ y \in Int
    OBVIOUS
  <2>2. x - B <= y - B
    BY <1>2, <1>3, <2>1
  <2>. QED BY <2>1, <2>2
<1>5. \E z \in S : \A y \in S : z <= y
  BY <1>4
<1>. QED BY <1>5 DEF Least

LEMMA WalkBound ==
  ASSUME NEW g \in Nets, NEW A \in SUBSET Arc
  PROVE  \E B \in Nat : \A w \in Walks(g, A) : WalkLength(g, w) \in Int /\ -B <= WalkLength(g, w)
<1>. DEFINE f == [a \in Arc |-> RedLength(g, a)]
<1>1. \A a \in 0 .. 2 * m - 1 : f[a] \in Int
  BY NetArcs DEF Arc
<1>2. 2 * m \in Nat
  BY Sizes
<1>3. \E M \in Nat : \A a \in 0 .. 2 * m - 1 : -M <= f[a]
  <2>. HIDE DEF f
  <2>. QED BY <1>1, <1>2, BoundBelow
<1>4. PICK M \in Nat : \A a \in Arc : -M <= RedLength(g, a)
  BY <1>3 DEF Arc
<1>5. ASSUME NEW w \in Walks(g, A) PROVE WalkLength(g, w) \in Int /\ -(M * n) <= WalkLength(g, w)
  <2>1. IsWalk(g, A, w) /\ Len(w) \in 1 .. n
    BY WalksAre
  <2>2. /\ Len(w) \in Nat /\ \A i \in 1 .. Len(w) : w[i] \in Arc
        /\ \A i \in 0 .. Len(w) : Upto(g, w, i) \in Int
        /\ Upto(g, w, 0) = 0 /\ WalkLength(g, w) = Upto(g, w, Len(w))
        /\ \A i \in 1 .. Len(w) : Upto(g, w, i) = Upto(g, w, i - 1) + RedLength(g, w[i])
    BY <2>1, UptoIs
  <2>. DEFINE S == {i \in 0 .. Len(w) : -(M * i) <= Upto(g, w, i)}
  <2>3. 0 \in S
    BY <2>2
  <2>4. ASSUME NEW i \in 0 .. Len(w) - 1, i \in S PROVE i + 1 \in S
    <3>1. i + 1 \in 1 .. Len(w) /\ i + 1 \in 0 .. Len(w) /\ (i + 1) - 1 = i /\ i \in 0 .. Len(w)
      BY <2>2
    <3>2. /\ Upto(g, w, i + 1) = Upto(g, w, i) + RedLength(g, w[i + 1])
          /\ Upto(g, w, i) \in Int /\ w[i + 1] \in Arc
      BY <2>2, <3>1
    <3>3. RedLength(g, w[i + 1]) \in Int /\ -M <= RedLength(g, w[i + 1])
      BY <1>4, <3>2, NetArcs
    <3>4. M * (i + 1) = M * i + M /\ M * i \in Int
      OBVIOUS
    <3>5. -(M * (i + 1)) <= Upto(g, w, i + 1)
      BY <2>4, <3>2, <3>3, <3>4
    <3>. QED BY <3>1, <3>5
  <2>. HIDE DEF S
  <2>5. \A i \in 0 .. Len(w) : i \in S
    BY <2>2, <2>3, <2>4, CountUp
  <2>6. -(M * Len(w)) <= WalkLength(g, w) /\ WalkLength(g, w) \in Int
    BY <2>2, <2>5 DEF S
  <2>7. M * Len(w) <= M * n
    <3>1. n - Len(w) \in Nat
      BY <2>1, <2>2, Sizes
    <3>2. ASSUME NEW x \in Nat, NEW y \in Nat PROVE M * x <= M * (x + y)
      <4>1. M * (x + y) = M * x + M * y /\ M * x \in Int
        OBVIOUS
      <4>2. M * y \in Nat
        OBVIOUS
      <4>. QED BY <4>1, <4>2
    <3>3. Len(w) + (n - Len(w)) = n
      BY <2>2, Sizes
    <3>. QED BY <2>2, <3>1, <3>2, <3>3
  <2>. QED BY <2>2, <2>6, <2>7, Sizes
<1>6. M * n \in Nat
  BY Sizes
<1>. QED BY <1>5, <1>6

-------------------------------------------------------------------------------
(* Distances.                                                                *)

LEMMA DistancesAre ==
  ASSUME NEW g \in Nets, NEW A \in SUBSET Arc, NEW X
  PROVE  LET d == Distances(g, Walks(g, A), X) IN
         /\ d \in [Node -> Int]
         /\ \A v \in Node : d[v] <= InfFloat /\ (v \in X => d[v] <= 0)
         /\ \A w \in Walks(g, A) : From(g, w) \in X => d[To(g, w)] <= WalkLength(g, w)
         /\ \A v \in Node :
              \/ d[v] = InfFloat \/ (v \in X /\ d[v] = 0)
              \/ \E w \in Walks(g, A) : From(g, w) \in X /\ To(g, w) = v /\ d[v] = WalkLength(g, w)
<1>. DEFINE W == Walks(g, A)
            d == Distances(g, W, X)
            Found(v) == {WalkLength(g, w) : w \in {x \in W : From(g, x) \in X /\ To(g, x) = v}}
            All(v) == Found(v) \union {IF v \in X THEN 0 ELSE InfFloat}
<1>1. d = [v \in Node |-> Least(All(v))]
  BY DEF Distances
<1>2. PICK B \in Nat : \A w \in W : WalkLength(g, w) \in Int /\ -B <= WalkLength(g, w)
  BY WalkBound
<1>3. \A w \in W : To(g, w) \in Node
  <2>1. ASSUME NEW w \in W PROVE To(g, w) \in Node
    <3>1. IsWalk(g, A, w) /\ Len(w) \in 1 .. n
      BY WalksAre
    <3>2. w[Len(w)] \in Arc
      BY <3>1, Sizes DEF IsWalk
    <3>. QED BY <3>2, NetArcs DEF To
  <2>. QED BY <2>1
<1>. HIDE DEF W
<1>4. ASSUME NEW v \in Node
      PROVE  Least(All(v)) \in All(v) /\ All(v) \subseteq Int /\ \A y \in All(v) : Least(All(v)) <= y
  <2>1. ASSUME NEW y \in All(v) PROVE y \in Int /\ -B <= y
    BY <1>2, Sizes
  <2>2. All(v) \in SUBSET Int /\ All(v) # {} /\ -B \in Int
    BY <2>1
  <2>. HIDE DEF All
  <2>. QED BY <2>1, <2>2, LeastInt
<1>5. \A v \in Node : d[v] = Least(All(v))
  BY <1>1
<1>6. d \in [Node -> Int]
  <2>1. \A v \in Node : Least(All(v)) \in Int
    <3>. HIDE DEF All
    <3>. QED BY <1>4
  <2>. QED BY <1>1, <2>1
<1>7. \A w \in W : \A v \in Node : From(g, w) \in X /\ To(g, w) = v => WalkLength(g, w) \in All(v)
  OBVIOUS
<1>8. \A v \in Node : \A y \in All(v) : y = (IF v \in X THEN 0 ELSE InfFloat) \/ \E w \in W : From(g, w) \in X /\ To(g, w) = v /\ y = WalkLength(g, w)
  OBVIOUS
<1>9. \A v \in Node : (IF v \in X THEN 0 ELSE InfFloat) \in All(v)
  OBVIOUS
<1>. HIDE DEF d, Found, All
<1>10. \A v \in Node : d[v] <= InfFloat /\ (v \in X => d[v] <= 0)
  <2>1. ASSUME NEW v \in Node PROVE d[v] <= (IF v \in X THEN 0 ELSE InfFloat) /\ d[v] \in Int
    BY <1>4, <1>5, <1>6, <1>9
  <2>. QED BY <2>1, Sizes
<1>11. \A w \in W : From(g, w) \in X => d[To(g, w)] <= WalkLength(g, w)
  BY <1>3, <1>4, <1>5, <1>7
<1>12. ASSUME NEW v \in Node
       PROVE  \/ d[v] = InfFloat \/ (v \in X /\ d[v] = 0)
              \/ \E w \in W : From(g, w) \in X /\ To(g, w) = v /\ d[v] = WalkLength(g, w)
  <2>1. d[v] \in All(v)
    BY <1>4, <1>5
  <2>. QED BY <1>8, <2>1
<1>. QED BY <1>6, <1>10, <1>11, <1>12 DEF d, W

(* Without a negative cycle, no arc leads below a distance.                  *)
LEMMA Triangle ==
  ASSUME NEW g \in Nets, NEW A \in SUBSET Arc, NEW X, NegativeCycles(g, Walks(g, A)) = {}, NEW a \in A,
         Distances(g, Walks(g, A), X)[StartNode(g, a)] # InfFloat
  PROVE  Distances(g, Walks(g, A), X)[EndNode(g, a)]
           <= Distances(g, Walks(g, A), X)[StartNode(g, a)] + RedLength(g, a)
<1>. DEFINE W == Walks(g, A)
            d == Distances(g, W, X)
            u == StartNode(g, a)
            v == EndNode(g, a)
<1>1. a \in Arc /\ u \in Node /\ v \in Node /\ RedLength(g, a) \in Int
  BY NetArcs
<1>2. /\ d \in [Node -> Int] /\ d[v] <= InfFloat
      /\ \A w \in W : From(g, w) \in X => d[To(g, w)] <= WalkLength(g, w)
      /\ (u \in X /\ d[u] = 0) \/ \E w \in W : From(g, w) \in X /\ To(g, w) = u /\ d[u] = WalkLength(g, w)
  BY <1>1, DistancesAre
<1>3. \A w \in W : From(g, w) = To(g, w) => ~(WalkLength(g, w) < 0)
  BY DEF NegativeCycles
<1>4. \A w \in W : IsWalk(g, A, w) /\ Len(w) \in 1 .. n
  BY WalksAre
<1>. HIDE DEF W, d, u, v
<1>5. CASE u \in X /\ d[u] = 0
  <2>. DEFINE e == <<>>
              q == Append(e, a)
  <2>1. IsWalk(g, A, e) /\ Len(e) = 0 /\ Goes(g, e, a)
    BY DEF IsWalk, Goes
  <2>. HIDE DEF e
  <2>2. WalkLength(g, e) = 0
    <3>1. IsWalk(g, A, e)
      BY <2>1
    <3>2. Upto(g, e, 0) = 0 /\ WalkLength(g, e) = Upto(g, e, Len(e))
      BY ONLY <3>1, g \in Nets, A \in SUBSET Arc, UptoIs
    <3>. QED BY <2>1, <3>2
  <2>3. q \in W /\ WalkLength(g, q) = 0 + RedLength(g, a) /\ From(g, q) = u /\ To(g, q) = v
    BY <2>1, <2>2, ExtendedLength DEF W, u, v
  <2>4. d[v] <= RedLength(g, a)
    BY <1>1, <1>2, <1>5, <2>3
  <2>5. d[v] <= d[u] + RedLength(g, a)
    BY <1>1, <1>2, <1>5, <2>4
  <2>. QED BY <2>5 DEF d, u, v, W
<1>6. ASSUME NEW w \in W, From(g, w) \in X, To(g, w) = u, d[u] = WalkLength(g, w)
      PROVE  d[v] <= d[u] + RedLength(g, a)
  <2>. DEFINE k == Len(w)
  <2>1. IsWalk(g, A, w) /\ k \in 1 .. n /\ k \in Nat /\ k # 0 /\ EndNode(g, w[k]) = u
    BY <1>4, <1>6, Sizes DEF To
  <2>2. /\ \A i \in 0 .. k : Upto(g, w, i) \in Int
        /\ Upto(g, w, 0) = 0 /\ WalkLength(g, w) = Upto(g, w, k)
    <3>1. IsWalk(g, A, w)
      BY <2>1
    <3>. QED BY ONLY <3>1, g \in Nets, A \in SUBSET Arc, UptoIs
  <2>3. w \in Seq(A) /\ DOMAIN w = 1 .. k
    BY <2>1 DEF IsWalk
  <2>. HIDE DEF k
  <2>4. CASE \A i \in 1 .. k : EndNode(g, w[i]) # v
    <3>. DEFINE q == Append(w, a)
    <3>1. Goes(g, w, a)
      BY <2>1, <2>3, <2>4 DEF Goes, u, v, k
    <3>2. q \in W /\ WalkLength(g, q) = WalkLength(g, w) + RedLength(g, a) /\ From(g, q) = From(g, w) /\ To(g, q) = v
      BY <2>1, <3>1, ExtendedLength DEF W, v, k
    <3>. QED BY <1>2, <1>6, <3>2
  <2>5. ASSUME NEW i \in 1 .. k, EndNode(g, w[i]) = v PROVE d[v] <= d[u] + RedLength(g, a)
    <3>. DEFINE z == 0
                p == Part(w, z, i)
                r == Part(w, i, k)
                q == Append(r, a)
    <3>1. i \in 0 .. Len(w) /\ k \in i .. Len(w) /\ z \in 0 .. Len(w) /\ i \in z .. Len(w) /\ k = Len(w) /\ i - z = i /\ z = 0
      BY <2>1 DEF k
    <3>. HIDE DEF z
    <3>2. IsWalk(g, A, p) /\ Len(p) = i - z /\ \A j \in 1 .. i - z : p[j] = w[z + j]
      <4>1. IsWalk(g, A, w) /\ z \in 0 .. Len(w) /\ i \in z .. Len(w)
        BY <2>1, <3>1
      <4>. QED BY ONLY <4>1, PartIs
    <3>3. WalkLength(g, p) = Upto(g, w, i) - Upto(g, w, z)
      <4>1. IsWalk(g, A, w) /\ z \in 0 .. Len(w) /\ i \in z .. Len(w) /\ g \in Nets /\ A \in SUBSET Arc
        BY <2>1, <3>1
      <4>. QED BY ONLY <4>1, PartLength
    <3>4. IsWalk(g, A, r) /\ Len(r) = k - i /\ \A j \in 1 .. k - i : r[j] = w[i + j]
      <4>1. IsWalk(g, A, w) /\ i \in 0 .. Len(w) /\ k \in i .. Len(w)
        BY <2>1, <3>1
      <4>. QED BY ONLY <4>1, PartIs
    <3>5. WalkLength(g, r) = Upto(g, w, k) - Upto(g, w, i)
      <4>1. IsWalk(g, A, w) /\ i \in 0 .. Len(w) /\ k \in i .. Len(w) /\ g \in Nets /\ A \in SUBSET Arc
        BY <2>1, <3>1
      <4>. QED BY ONLY <4>1, PartLength
    <3>. HIDE DEF p, r
    <3>6. p \in W /\ From(g, p) = From(g, w) /\ To(g, p) = v
      <4>1. i \in Nat /\ Len(p) = i /\ p[1] = w[1] /\ p[i] = w[i] /\ i \in 1 .. n
        <5>1. 1 \in 1 .. i - z /\ i \in 1 .. i - z /\ z + 1 = 1 /\ z + i = i
          BY <2>1, <3>1
        <5>. QED BY <2>1, <3>1, <3>2, <5>1, Sizes
      <4>2. p \in W
        BY <3>2, <4>1, WalksAre DEF W
      <4>. QED BY <2>5, <4>1, <4>2 DEF From, To
    <3>7. Goes(g, r, a)
      <4>1. ASSUME Len(r) > 0 PROVE EndNode(g, r[Len(r)]) = StartNode(g, a)
        <5>1. k - i \in 1 .. k - i /\ i + (k - i) = k
          BY <2>1, <3>1, <3>4, <4>1
        <5>2. r[Len(r)] = w[k]
          BY <3>4, <5>1
        <5>. QED BY <2>1, <5>2 DEF u
      <4>2. ASSUME NEW j \in DOMAIN r PROVE EndNode(g, r[j]) # EndNode(g, a)
        <5>1. j \in 1 .. k - i
          BY <3>4 DEF IsWalk
        <5>2. i + j \in 1 .. k /\ i + j # i
          BY <2>1, <5>1
        <5>3. EndNode(g, w[i + j]) # EndNode(g, w[i])
          BY <2>1, <5>2 DEF IsWalk, k
        <5>. QED BY <2>5, <3>4, <5>1, <5>3 DEF v
      <4>. QED BY <4>1, <4>2 DEF Goes
    <3>8. q \in W /\ WalkLength(g, q) = WalkLength(g, r) + RedLength(g, a) /\ To(g, q) = v /\ From(g, q) = v
      <4>1. /\ q \in W /\ WalkLength(g, q) = WalkLength(g, r) + RedLength(g, a) /\ To(g, q) = v
            /\ From(g, q) = IF Len(r) = 0 THEN StartNode(g, a) ELSE From(g, r)
        BY <3>4, <3>7, ExtendedLength DEF W, v
      <4>2. CASE Len(r) = 0
        <5>1. k = i
          BY <2>1, <3>4, <4>2
        <5>. QED BY <2>1, <2>5, <4>1, <4>2, <5>1 DEF u
      <4>3. CASE Len(r) # 0
        <5>1. 1 \in 1 .. k - i /\ i \in 1 .. k - 1
          BY <2>1, <3>4, <4>3
        <5>2. r[1] = w[i + 1] /\ EndNode(g, w[i]) = StartNode(g, w[i + 1])
          BY <2>1, <3>4, <5>1 DEF IsWalk, k
        <5>. QED BY <2>5, <4>1, <4>3, <5>2 DEF From
      <4>. QED BY <4>1, <4>2, <4>3
    <3>9. d[v] <= WalkLength(g, p)
      BY <1>2, <1>6, <3>6
    <3>10. ~(WalkLength(g, q) < 0)
      BY <1>3, <3>8
    <3>. HIDE DEF q
    <3>11. Upto(g, w, i) \in Int /\ Upto(g, w, k) \in Int /\ Upto(g, w, z) = 0
      BY <2>1, <2>2, <3>1 DEF k
    <3>. QED BY <1>1, <1>2, <1>6, <2>2, <3>3, <3>5, <3>8, <3>9, <3>10, <3>11
  <2>. QED BY <2>4, <2>5
<1>7. d[v] <= d[u] + RedLength(g, a)
  BY <1>2, <1>5, <1>6 DEF d, u, v, W
<1>. QED BY <1>7 DEF d, u, v, W
-------------------------------------------------------------------------------
(* Searches without negative arcs.                                           *)

NoneNegative(g, A) == \A a \in A : RedLength(g, a) >= 0

LEMMA UptoGrows ==
  ASSUME NEW g \in Nets, NEW A \in SUBSET Arc, NoneNegative(g, A), NEW w, IsWalk(g, A, w)
  PROVE  \A i \in 0 .. Len(w) : 0 <= Upto(g, w, i) /\ Upto(g, w, i) <= WalkLength(g, w)
<1>. DEFINE k == Len(w)
            U(i) == Upto(g, w, i)
<1>1. /\ k \in Nat /\ \A i \in 1 .. k : w[i] \in A /\ w[i] \in Arc
      /\ \A i \in 0 .. k : U(i) \in Int
      /\ U(0) = 0 /\ WalkLength(g, w) = U(k)
      /\ \A i \in 1 .. k : U(i) = U(i - 1) + RedLength(g, w[i])
  BY UptoIs
<1>2. ASSUME NEW i \in 0 .. k - 1 PROVE U(i) <= U(i + 1)
  <2>1. i + 1 \in 1 .. k /\ (i + 1) - 1 = i /\ i \in 0 .. k /\ i + 1 \in 0 .. k
    BY <1>1
  <2>2. U(i + 1) = U(i) + RedLength(g, w[i + 1]) /\ RedLength(g, w[i + 1]) \in Int /\ RedLength(g, w[i + 1]) >= 0
    BY <1>1, <2>1, NetArcs DEF NoneNegative
  <2>. QED BY <1>1, <2>1, <2>2
<1>. HIDE DEF U, k
<1>3. \A i \in 0 .. k : 0 <= U(i)
  <2>. DEFINE S == {i \in 0 .. k : 0 <= U(i)}
  <2>1. 0 \in S
    BY <1>1
  <2>2. ASSUME NEW i \in 0 .. k - 1, i \in S PROVE i + 1 \in S
    <3>1. i + 1 \in 0 .. k /\ i \in 0 .. k
      BY <1>1
    <3>. QED BY <1>1, <1>2, <2>2, <3>1
  <2>. HIDE DEF S
  <2>3. \A i \in 0 .. k : i \in S
    BY <1>1, <2>1, <2>2, CountUp
  <2>. QED BY <2>3 DEF S
<1>4. \A i \in 0 .. k : U(i) <= U(k)
  <2>. DEFINE S == {j \in 0 .. k : U(k - j) <= U(k)}
  <2>1. 0 \in S
    BY <1>1
  <2>2. ASSUME NEW j \in 0 .. k - 1, j \in S PROVE j + 1 \in S
    <3>. DEFINE i == k - (j + 1)
    <3>1. i \in 0 .. k - 1 /\ i + 1 = k - j /\ k - j \in 0 .. k /\ j + 1 \in 0 .. k /\ k \in 0 .. k /\ i \in 0 .. k
      BY <1>1
    <3>2. U(i) <= U(k - j) /\ U(k - j) <= U(k)
      <4>1. U(i) <= U(i + 1)
        BY <1>2, <3>1
      <4>. QED BY <2>2, <3>1, <4>1
    <3>3. U(i) \in Int /\ U(k - j) \in Int /\ U(k) \in Int
      BY <1>1, <3>1
    <3>4. U(i) <= U(k)
      BY <3>2, <3>3
    <3>. QED BY <3>1, <3>4
  <2>. HIDE DEF S
  <2>3. \A j \in 0 .. k : j \in S
    BY <1>1, <2>1, <2>2, CountUp
  <2>4. ASSUME NEW i \in 0 .. k PROVE U(i) <= U(k)
    <3>1. k - i \in 0 .. k /\ k - (k - i) = i
      BY <1>1
    <3>2. k - i \in S
      BY <2>3, <3>1
    <3>3. U(k - (k - i)) <= U(k)
      BY <3>2 DEF S
    <3>. QED BY <3>1, <3>3
  <2>. QED BY <2>4
<1>. QED BY <1>1, <1>3, <1>4 DEF U, k

LEMMA NoNegativeCycle ==
  ASSUME NEW g \in Nets, NEW A \in SUBSET Arc, NoneNegative(g, A)
  PROVE  NegativeCycles(g, Walks(g, A)) = {}
<1>1. ASSUME NEW w \in Walks(g, A) PROVE ~(WalkLength(g, w) < 0)
  <2>1. IsWalk(g, A, w) /\ Len(w) \in 1 .. n
    BY WalksAre
  <2>2. Len(w) \in Nat /\ Upto(g, w, Len(w)) \in Int /\ WalkLength(g, w) = Upto(g, w, Len(w))
    <3>1. IsWalk(g, A, w)
      BY <2>1
    <3>2. Len(w) \in Nat /\ (\A i \in 0 .. Len(w) : Upto(g, w, i) \in Int) /\ WalkLength(g, w) = Upto(g, w, Len(w))
      BY ONLY <3>1, g \in Nets, A \in SUBSET Arc, UptoIs
    <3>. QED BY <3>2
  <2>3. 0 <= Upto(g, w, Len(w))
    <3>1. Len(w) \in 0 .. Len(w)
      BY <2>2
    <3>2. \A i \in 0 .. Len(w) : 0 <= Upto(g, w, i)
      BY <2>1, UptoGrows
    <3>. QED BY <3>1, <3>2
  <2>. QED BY <2>2, <2>3
<1>. QED BY <1>1 DEF NegativeCycles

(* No residual arc leads below a distance.                                   *)
LEMMA DistancesFit ==
  ASSUME NEW g \in Nets, NEW A \in SUBSET Arc, NoneNegative(g, A), NEW X, NEW a \in A
  PROVE  Distances(g, Walks(g, A), X)[EndNode(g, a)]
           <= Distances(g, Walks(g, A), X)[StartNode(g, a)] + RedLength(g, a)
<1>. DEFINE d == Distances(g, Walks(g, A), X)
            u == StartNode(g, a)
            v == EndNode(g, a)
<1>1. a \in Arc /\ u \in Node /\ v \in Node /\ RedLength(g, a) \in Int /\ RedLength(g, a) >= 0
  BY NetArcs DEF NoneNegative
<1>2. d \in [Node -> Int] /\ d[v] <= InfFloat
  BY <1>1, DistancesAre
<1>3. CASE d[u] # InfFloat
  BY <1>3, NoNegativeCycle, Triangle
<1>4. CASE d[u] = InfFloat
  <2>. HIDE DEF d, u, v
  <2>1. d[v] \in Int
    BY <1>1, <1>2
  <2>2. d[v] <= d[u] + RedLength(g, a)
    BY <1>1, <1>2, <1>4, <2>1, Sizes
  <2>. QED BY <2>2 DEF d, u, v
<1>. QED BY <1>3, <1>4

(* The nodes of a walk.                                                      *)
NodeAt(g, w, i) == IF i = 0 THEN From(g, w) ELSE EndNode(g, w[i])

LEMMA NodesOfWalk ==
  ASSUME NEW g \in Nets, NEW A \in SUBSET Arc, NEW w, IsWalk(g, A, w), Len(w) > 0
  PROVE  /\ \A i \in 1 .. Len(w) : StartNode(g, w[i]) = NodeAt(g, w, i - 1) /\ EndNode(g, w[i]) = NodeAt(g, w, i)
         /\ \A i \in 0 .. Len(w) : NodeAt(g, w, i) \in Node
         /\ NodeAt(g, w, 0) = From(g, w) /\ NodeAt(g, w, Len(w)) = To(g, w)
<1>1. /\ Len(w) \in Nat /\ \A i \in 1 .. Len(w) : w[i] \in Arc
      /\ \A i \in 1 .. Len(w) - 1 : EndNode(g, w[i]) = StartNode(g, w[i + 1])
  BY DEF IsWalk
<1>2. ASSUME NEW i \in 1 .. Len(w) PROVE StartNode(g, w[i]) = NodeAt(g, w, i - 1)
  <2>1. CASE i = 1
    BY <2>1 DEF NodeAt, From
  <2>2. CASE i # 1
    <3>1. i - 1 \in 1 .. Len(w) - 1 /\ (i - 1) + 1 = i /\ i - 1 # 0
      BY <1>1, <2>2
    <3>. QED BY <1>1, <3>1 DEF NodeAt
  <2>. QED BY <2>1, <2>2
<1>3. \A i \in 1 .. Len(w) : EndNode(g, w[i]) = NodeAt(g, w, i)
  BY DEF NodeAt
<1>4. ASSUME NEW i \in 0 .. Len(w) PROVE NodeAt(g, w, i) \in Node
  <2>1. CASE i = 0
    <3>1. w[1] \in Arc
      BY <1>1
    <3>. QED BY <2>1, <3>1, NetArcs DEF NodeAt, From
  <2>2. CASE i # 0
    <3>1. i \in 1 .. Len(w)
      BY <2>2
    <3>2. w[i] \in Arc
      BY <1>1, <3>1
    <3>. QED BY <2>2, <3>2, NetArcs DEF NodeAt
  <2>. QED BY <2>1, <2>2
<1>5. NodeAt(g, w, 0) = From(g, w) /\ NodeAt(g, w, Len(w)) = To(g, w)
  BY <1>1 DEF NodeAt, To
<1>. QED BY <1>2, <1>3, <1>4, <1>5

(* Along a walk, labels grow by its length at most.                          *)
LEMMA LabelsAlong ==
  ASSUME NEW g \in Nets, NEW A \in SUBSET Arc, NEW w, IsWalk(g, A, w), Len(w) > 0, NEW d \in [Node -> Int],
         \A a \in A : d[EndNode(g, a)] <= d[StartNode(g, a)] + RedLength(g, a),
         NEW i \in 0 .. Len(w), NEW j \in i .. Len(w)
  PROVE  d[NodeAt(g, w, j)] <= d[NodeAt(g, w, i)] + Upto(g, w, j) - Upto(g, w, i)
<1>. DEFINE k == Len(w)
            U(x) == Upto(g, w, x)
            D(x) == d[NodeAt(g, w, x)]
            c == j - i
            S == {x \in 0 .. c : D(i + x) <= D(i) + U(i + x) - U(i)}
<1>1. /\ k \in Nat /\ \A x \in 1 .. k : w[x] \in A /\ w[x] \in Arc
      /\ \A x \in 0 .. k : U(x) \in Int
      /\ \A x \in 1 .. k : U(x) = U(x - 1) + RedLength(g, w[x])
  BY UptoIs
<1>2. /\ \A x \in 1 .. k : StartNode(g, w[x]) = NodeAt(g, w, x - 1) /\ EndNode(g, w[x]) = NodeAt(g, w, x)
      /\ \A x \in 0 .. k : NodeAt(g, w, x) \in Node
  BY NodesOfWalk
<1>3. \A x \in 0 .. k : D(x) \in Int
  BY <1>2
<1>4. \A x \in 1 .. k : D(x) <= D(x - 1) + RedLength(g, w[x]) /\ RedLength(g, w[x]) \in Int
  BY <1>1, <1>2, NetArcs
<1>5. c \in Nat /\ i + c = j /\ i \in Nat /\ j <= k /\ j \in Nat
  BY <1>1
<1>. HIDE DEF k, U, D, c
<1>6. 0 \in S
  <2>1. i + 0 = i /\ i \in 0 .. k
    BY <1>1, <1>5
  <2>. QED BY <1>1, <1>3, <1>5, <2>1
<1>7. ASSUME NEW x \in 0 .. c - 1, x \in S PROVE x + 1 \in S
  <2>1. /\ i + (x + 1) \in 1 .. k /\ (i + (x + 1)) - 1 = i + x /\ i + x \in 0 .. k /\ i + (x + 1) \in 0 .. k
        /\ x + 1 \in 0 .. c /\ i \in 0 .. k
    BY <1>1, <1>5
  <2>2. /\ D(i + (x + 1)) <= D(i + x) + RedLength(g, w[i + (x + 1)]) /\ RedLength(g, w[i + (x + 1)]) \in Int
        /\ U(i + (x + 1)) = U(i + x) + RedLength(g, w[i + (x + 1)])
    BY <1>1, <1>4, <2>1
  <2>3. D(i + (x + 1)) \in Int /\ D(i + x) \in Int /\ U(i + x) \in Int /\ U(i) \in Int /\ D(i) \in Int
    BY <1>1, <1>3, <2>1
  <2>4. D(i + x) <= D(i) + U(i + x) - U(i)
    BY <1>7
  <2>5. D(i + (x + 1)) <= D(i) + U(i + (x + 1)) - U(i)
    BY <2>2, <2>3, <2>4
  <2>. QED BY <2>1, <2>5
<1>. HIDE DEF S
<1>8. \A x \in 0 .. c : x \in S
  BY <1>5, <1>6, <1>7, CountUp
<1>9. c \in S
  BY <1>5, <1>8
<1>10. D(i + c) <= D(i) + U(i + c) - U(i)
  BY <1>9 DEF S
<1>. QED BY <1>5, <1>10 DEF D, U
(* On a shortest walk, no arc is shortened or lengthened by the distances,   *)
(* and none of them exceeds the one of its end.                              *)
LEMMA ShortestIsTight ==
  ASSUME NEW g \in Nets, NEW A \in SUBSET Arc, NoneNegative(g, A), NEW d \in [Node -> Int],
         \A a \in A : d[EndNode(g, a)] <= d[StartNode(g, a)] + RedLength(g, a),
         NEW w, IsWalk(g, A, w), Len(w) > 0, d[From(g, w)] + WalkLength(g, w) = d[To(g, w)]
  PROVE  \A i \in 1 .. Len(w) : /\ d[EndNode(g, w[i])] = d[StartNode(g, w[i])] + RedLength(g, w[i])
                                /\ d[EndNode(g, w[i])] <= d[To(g, w)] /\ d[StartNode(g, w[i])] <= d[To(g, w)]
<1>. DEFINE k == Len(w)
            U(x) == Upto(g, w, x)
            D(x) == d[NodeAt(g, w, x)]
<1>1. /\ k \in Nat /\ \A x \in 1 .. k : w[x] \in Arc
      /\ \A x \in 0 .. k : U(x) \in Int
      /\ U(0) = 0 /\ WalkLength(g, w) = U(k)
      /\ \A x \in 1 .. k : U(x) = U(x - 1) + RedLength(g, w[x])
  BY UptoIs
<1>2. /\ \A x \in 1 .. k : StartNode(g, w[x]) = NodeAt(g, w, x - 1) /\ EndNode(g, w[x]) = NodeAt(g, w, x)
      /\ \A x \in 0 .. k : NodeAt(g, w, x) \in Node
      /\ NodeAt(g, w, 0) = From(g, w) /\ NodeAt(g, w, k) = To(g, w)
  BY NodesOfWalk
<1>3. \A x \in 0 .. k : D(x) \in Int
  BY <1>2
<1>4. \A x \in 0 .. k : U(x) <= U(k)
  BY <1>1, UptoGrows
<1>5. ASSUME NEW i \in 0 .. k, NEW j \in i .. k PROVE D(j) <= D(i) + U(j) - U(i)
  BY LabelsAlong
<1>6. D(0) + U(k) = D(k) /\ 0 \in 0 .. k /\ k \in 0 .. k
  BY <1>1, <1>2
<1>. HIDE DEF k, U, D
<1>7. ASSUME NEW x \in 0 .. k PROVE D(x) = D(0) + U(x) /\ D(x) <= D(k)
  <2>. DEFINE z == 0
  <2>1. x \in z .. k /\ k \in x .. k /\ z \in 0 .. k
    BY <1>1
  <2>. HIDE DEF z
  <2>2. D(x) <= D(z) + U(x) - U(z) /\ D(k) <= D(x) + U(k) - U(x)
    BY <1>5, <2>1
  <2>3. D(x) <= D(0) + U(x) - U(0)
    BY <2>2 DEF z
  <2>4. D(x) \in Int /\ D(0) \in Int /\ D(k) \in Int /\ U(x) \in Int /\ U(k) \in Int /\ U(x) <= U(k)
    BY <1>1, <1>3, <1>4, <1>6
  <2>5. U(0) = 0 /\ D(0) + U(k) = D(k)
    BY <1>1, <1>6
  <2>6. ASSUME NEW dx \in Int, NEW d0 \in Int, NEW dk \in Int, NEW ux \in Int, NEW uk \in Int,
               ux <= uk, dx <= d0 + ux - 0, dk <= dx + uk - ux, d0 + uk = dk
        PROVE  dx = d0 + ux /\ dx <= dk
    BY <2>6
  <2>. QED BY <2>2, <2>3, <2>4, <2>5, <2>6
<1>8. ASSUME NEW i \in 1 .. k
      PROVE  /\ d[EndNode(g, w[i])] = d[StartNode(g, w[i])] + RedLength(g, w[i])
             /\ d[EndNode(g, w[i])] <= d[To(g, w)] /\ d[StartNode(g, w[i])] <= d[To(g, w)]
  <2>1. i \in 0 .. k /\ i - 1 \in 0 .. k
    BY <1>1
  <2>2. D(i) = D(0) + U(i) /\ D(i - 1) = D(0) + U(i - 1) /\ D(i) <= D(k) /\ D(i - 1) <= D(k)
    BY <1>7, <2>1
  <2>3. U(i) = U(i - 1) + RedLength(g, w[i]) /\ RedLength(g, w[i]) \in Int /\ U(i - 1) \in Int /\ D(0) \in Int
    BY <1>1, <1>3, <1>6, <2>1, NetArcs
  <2>4. D(i) = D(i - 1) + RedLength(g, w[i])
    BY <2>2, <2>3
  <2>. QED BY <1>2, <2>2, <2>4 DEF D
<1>. QED BY <1>8 DEF k

-------------------------------------------------------------------------------
(* Augmentations.                                                            *)

SameButFlow(g, h) ==
  /\ h.ends = g.ends /\ h.orientation = g.orientation /\ h.length = g.length /\ h.ucap = g.ucap
  /\ h.demand = g.demand /\ h.potential = g.potential /\ h.delta = g.delta

LEMMA PushedIs ==
  ASSUME NEW g \in Nets, NEW a \in Arc, NEW x \in Int
  PROVE  /\ Pushed(g, a, x) \in Nets /\ SameButFlow(g, Pushed(g, a, x))
         /\ Pushed(g, a, x).sub = [g.sub EXCEPT ![EdgeOf(a)] = IF Backward(a) THEN @ - x ELSE @ + x]
<1>. DEFINE c == EdgeOf(a)
            y == IF Backward(a) THEN g.sub[c] - x ELSE g.sub[c] + x
            h == Pushed(g, a, x)
<1>0. c \in Edge
  BY ArcFacts
<1>1. /\ g = [ends |-> g.ends, orientation |-> g.orientation, length |-> g.length, ucap |-> g.ucap,
              sub |-> g.sub, demand |-> g.demand, potential |-> g.potential, delta |-> g.delta]
      /\ g.ends \in [Edge -> Node \X Node] /\ g.orientation \in [Edge -> {1}]
      /\ g.length \in [Edge -> Int] /\ g.ucap \in [Edge -> 0 .. InfCap] /\ g.sub \in [Edge -> Int]
      /\ g.demand \in [Node -> Int] /\ g.potential \in [Node -> Int] \union {NoLabels} /\ g.delta \in Nat
  BY NetParts
<1>2. y \in Int
  BY <1>0, <1>1
<1>3. h = [g EXCEPT !.sub[c] = y] /\ [g.sub EXCEPT ![c] = y] = [g.sub EXCEPT ![EdgeOf(a)] = IF Backward(a) THEN @ - x ELSE @ + x]
  BY <1>0, <1>1 DEF Pushed
<1>. HIDE DEF c, y, h
<1>4. h = [ends |-> g.ends, orientation |-> g.orientation, length |-> g.length, ucap |-> g.ucap,
           sub |-> [g.sub EXCEPT ![c] = y], demand |-> g.demand, potential |-> g.potential, delta |-> g.delta]
  BY <1>1, <1>3
<1>5. [g.sub EXCEPT ![c] = y] \in [Edge -> Int]
  BY <1>0, <1>1, <1>2
<1>6. h \in Nets
  BY <1>1, <1>4, <1>5 DEF Nets
<1>7. SameButFlow(g, h) /\ h.sub = [g.sub EXCEPT ![c] = y]
  BY <1>4 DEF SameButFlow
<1>. QED BY <1>3, <1>6, <1>7 DEF h

LEMMA AugmentSteps ==
  ASSUME NEW g \in Nets, NEW p \in Seq(Arc), NEW x \in Int
  PROVE  \E H : /\ H[0] = g /\ \A i \in 1 .. Len(p) : H[i] = Pushed(H[i - 1], p[i], x)
                /\ Augment(g, p, x) = H[Len(p)]
<1>. DEFINE len == Len(p)
            A == Nets
            F == [i \in 1 .. len |-> [h \in A |-> Pushed(h, p[i], x)]]
            Is(H) == H = [i \in 0 .. len |-> IF i = 0 THEN g ELSE Pushed(H[i - 1], p[i], x)]
            H0 == CHOOSE H : Is(H)
<1>0. len \in Nat /\ \A i \in 1 .. len : p[i] \in Arc
  OBVIOUS
<1>1. g \in A
  OBVIOUS
<1>2. ASSUME NEW h \in A, NEW i \in 1 .. len PROVE Pushed(h, p[i], x) \in A
  BY <1>0, PushedIs
<1>. HIDE DEF A, len
<1>3. F \in [1 .. len -> [A -> A]]
  BY <1>2
<1>4. \A i \in 1 .. len : \A h \in A : F[i][h] = Pushed(h, p[i], x)
  OBVIOUS
<1>. HIDE DEF F, H0
<1>5. Solvable(A, g, len, F)
  BY <1>0, <1>1, <1>3, Iterates
<1>6. PICK T \in [0 .. len -> A] : T[0] = g /\ \A i \in 1 .. len : T[i] = F[i][T[i - 1]]
  BY <1>5 DEF Solvable
<1>7. Is(T)
  <2>1. ASSUME NEW k \in 0 .. len PROVE T[k] = IF k = 0 THEN g ELSE Pushed(T[k - 1], p[k], x)
    <3>1. CASE k = 0
      BY <1>6, <3>1
    <3>2. CASE k # 0
      <4>1. k \in 1 .. len /\ k - 1 \in 0 .. len
        BY <1>0, <3>2
      <4>2. T[k - 1] \in A /\ T[k] = F[k][T[k - 1]]
        BY <1>6, <4>1
      <4>. QED BY <1>4, <3>2, <4>1, <4>2
    <3>. QED BY <3>1, <3>2
  <2>2. T = [k \in 0 .. len |-> T[k]]
    BY <1>6
  <2>. QED BY <2>1, <2>2
<1>8. Is(H0)
  BY <1>7 DEF H0
<1>9. H0[0] = g /\ \A k \in 1 .. len : H0[k] = Pushed(H0[k - 1], p[k], x)
  <2>1. 0 \in 0 .. len /\ \A k \in 1 .. len : k \in 0 .. len /\ k # 0
    BY <1>0
  <2>. QED BY <1>8, <2>1
<1>10. Augment(g, p, x) = H0[len]
  BY DEF Augment, H0, len
<1>. QED BY <1>9, <1>10 DEF len

(* Only the flow on the edges of the path changes.                           *)
LEMMA AugmentIs ==
  ASSUME NEW g \in Nets, NEW p \in Seq(Arc), NEW x \in Int
  PROVE  /\ Augment(g, p, x) \in Nets /\ SameButFlow(g, Augment(g, p, x))
         /\ \A e \in Edge : (\A i \in 1 .. Len(p) : EdgeOf(p[i]) # e) => Augment(g, p, x).sub[e] = g.sub[e]
<1>1. PICK H : /\ H[0] = g /\ \A i \in 1 .. Len(p) : H[i] = Pushed(H[i - 1], p[i], x)
               /\ Augment(g, p, x) = H[Len(p)]
  BY AugmentSteps
<1>. DEFINE k == Len(p)
            Off(e) == \A i \in 1 .. k : EdgeOf(p[i]) # e
            Good(h) == h \in Nets /\ SameButFlow(g, h) /\ \A e \in Edge : Off(e) => h.sub[e] = g.sub[e]
            S == {i \in 0 .. k : Good(H[i])}
<1>2. k \in Nat /\ \A i \in 1 .. k : p[i] \in Arc
  OBVIOUS
<1>. HIDE DEF k
<1>3. 0 \in S
  BY <1>1, <1>2 DEF SameButFlow
<1>4. ASSUME NEW i \in 0 .. k - 1, i \in S PROVE i + 1 \in S
  <2>. DEFINE h == H[i]
              a == p[i + 1]
              q == Pushed(h, a, x)
  <2>1. i + 1 \in 1 .. k /\ i + 1 \in 0 .. k /\ (i + 1) - 1 = i
    BY <1>2
  <2>2. H[i + 1] = q /\ a \in Arc /\ Good(h)
    BY <1>1, <1>2, <1>4, <2>1 DEF k
  <2>3. h \in Nets /\ SameButFlow(g, h)
    BY <2>2
  <2>4. /\ q \in Nets /\ SameButFlow(h, q)
        /\ q.sub = [h.sub EXCEPT ![EdgeOf(a)] = IF Backward(a) THEN @ - x ELSE @ + x]
    BY <2>2, <2>3, PushedIs
  <2>5. ASSUME NEW e \in Edge, Off(e) PROVE q.sub[e] = g.sub[e]
    <3>1. EdgeOf(a) # e /\ h.sub[e] = g.sub[e] /\ h.sub \in [Edge -> Int]
      BY <2>1, <2>2, <2>3, <2>5, NetParts
    <3>. QED BY <2>4, <3>1
  <2>6. SameButFlow(g, q)
    BY <2>3, <2>4 DEF SameButFlow
  <2>7. Good(H[i + 1])
    BY <2>2, <2>4, <2>5, <2>6
  <2>. QED BY <2>1, <2>7
<1>. HIDE DEF S
<1>5. \A i \in 0 .. k : i \in S
  BY <1>2, <1>3, <1>4, CountUp
<1>6. k \in S
  BY <1>2, <1>5
<1>7. Good(H[k])
  BY <1>6 DEF S
<1>. QED BY <1>1, <1>7 DEF k

LEMMA SameArcs ==
  ASSUME NEW g \in Nets, NEW h \in Nets, SameButFlow(g, h), NEW a \in Arc
  PROVE  /\ StartNode(h, a) = StartNode(g, a) /\ EndNode(h, a) = EndNode(g, a)
         /\ RedLength(h, a) = RedLength(g, a)
         /\ h.sub[EdgeOf(a)] = g.sub[EdgeOf(a)] => ResCap(h, a) = ResCap(g, a)
<1>1. h.ends = g.ends /\ h.length = g.length /\ h.ucap = g.ucap /\ h.potential = g.potential /\ h.orientation = g.orientation
  BY DEF SameButFlow
<1>2. StartNode(h, a) = StartNode(g, a) /\ EndNode(h, a) = EndNode(g, a)
  BY <1>1 DEF StartNode, EndNode
<1>3. RedLength(h, a) = RedLength(g, a)
  BY <1>1, <1>2 DEF RedLength, Orientation, Length, Potential
<1>4. h.sub[EdgeOf(a)] = g.sub[EdgeOf(a)] => ResCap(h, a) = ResCap(g, a)
  BY <1>1 DEF ResCap, Sub, UCap
<1>. QED BY <1>2, <1>3, <1>4

Cut(d, v, c) == IF d[v] <= c THEN d[v] ELSE c

(* New potentials change the reduced lengths, and nothing else.              *)
LEMMA NewPotentials ==
  ASSUME NEW g \in Nets, NEW p \in [Node -> Int], NEW q, q = [g EXCEPT !.potential = p]
  PROVE  /\ q \in Nets /\ q.sub = g.sub /\ q.delta = g.delta /\ q.ucap = g.ucap /\ q.demand = g.demand
         /\ q.ends = g.ends /\ q.length = g.length /\ q.potential = p
         /\ \A a \in Arc : /\ StartNode(q, a) = StartNode(g, a) /\ EndNode(q, a) = EndNode(g, a)
                           /\ ResCap(q, a) = ResCap(g, a)
                           /\ RedLength(q, a) = PlainLength(g, a) + p[StartNode(g, a)] - p[EndNode(g, a)]
<1>1. /\ g = [ends |-> g.ends, orientation |-> g.orientation, length |-> g.length, ucap |-> g.ucap,
              sub |-> g.sub, demand |-> g.demand, potential |-> g.potential, delta |-> g.delta]
      /\ g.ends \in [Edge -> Node \X Node] /\ g.orientation \in [Edge -> {1}]
      /\ g.length \in [Edge -> Int] /\ g.ucap \in [Edge -> 0 .. InfCap] /\ g.sub \in [Edge -> Int]
      /\ g.demand \in [Node -> Int] /\ g.potential \in [Node -> Int] \union {NoLabels} /\ g.delta \in Nat
  BY NetParts
<1>2. q = [ends |-> g.ends, orientation |-> g.orientation, length |-> g.length, ucap |-> g.ucap,
           sub |-> g.sub, demand |-> g.demand, potential |-> p, delta |-> g.delta]
  BY <1>1
<1>3. q \in Nets
  BY <1>1, <1>2 DEF Nets
<1>4. /\ q.sub = g.sub /\ q.delta = g.delta /\ q.ucap = g.ucap /\ q.demand = g.demand /\ q.ends = g.ends
      /\ q.length = g.length /\ q.potential = p /\ q.orientation = g.orientation
  BY <1>2
<1>5. ASSUME NEW a \in Arc
      PROVE  /\ StartNode(q, a) = StartNode(g, a) /\ EndNode(q, a) = EndNode(g, a) /\ ResCap(q, a) = ResCap(g, a)
             /\ RedLength(q, a) = PlainLength(g, a) + p[StartNode(g, a)] - p[EndNode(g, a)]
  <2>1. StartNode(q, a) = StartNode(g, a) /\ EndNode(q, a) = EndNode(g, a)
    BY <1>4 DEF StartNode, EndNode
  <2>2. ResCap(q, a) = ResCap(g, a)
    BY <1>4 DEF ResCap, Sub, UCap
  <2>3. RedLength(q, a) = PlainLength(q, a) + Potential(q, StartNode(q, a)) - Potential(q, EndNode(q, a))
    BY <1>3, NetArcs
  <2>4. PlainLength(q, a) = PlainLength(g, a)
    BY <1>4 DEF PlainLength
  <2>5. StartNode(g, a) \in Node /\ EndNode(g, a) \in Node
    BY NetArcs
  <2>6. \A v \in Node : Potential(q, v) = p[v]
    BY <1>4 DEF Potential
  <2>. QED BY <2>1, <2>2, <2>3, <2>4, <2>5, <2>6
<1>. QED BY <1>3, <1>4, <1>5

LEMMA UpdateIs ==
  ASSUME NEW g \in Nets, NEW d \in [Node -> Int], NEW c \in Int
  PROVE  LET q == UpdatePotentials(g, d, c) IN
         /\ q \in Nets /\ q.sub = g.sub /\ q.delta = g.delta /\ q.ucap = g.ucap /\ q.demand = g.demand
         /\ q.ends = g.ends /\ q.length = g.length
         /\ \A a \in Arc : /\ ResCap(q, a) = ResCap(g, a)
                           /\ RedLength(q, a) = RedLength(g, a) + Cut(d, StartNode(g, a), c) - Cut(d, EndNode(g, a), c)
<1>. DEFINE q == UpdatePotentials(g, d, c)
            p == [v \in Node |-> Potential(g, v) + Min({d[v], c})]
<1>1. ASSUME NEW v \in Node PROVE Min({d[v], c}) = Cut(d, v, c) /\ Cut(d, v, c) \in Int /\ Potential(g, v) \in Int
  <2>1. d[v] \in Int
    OBVIOUS
  <2>. QED BY <2>1, MinOfTwo, NetParts DEF Cut
<1>2. p \in [Node -> Int] /\ \A v \in Node : p[v] = Potential(g, v) + Cut(d, v, c)
  BY <1>1
<1>3. q = [g EXCEPT !.potential = p]
  BY DEF UpdatePotentials
<1>. HIDE DEF p, q
<1>4. /\ q \in Nets /\ q.sub = g.sub /\ q.delta = g.delta /\ q.ucap = g.ucap /\ q.demand = g.demand
      /\ q.ends = g.ends /\ q.length = g.length
      /\ \A a \in Arc : /\ ResCap(q, a) = ResCap(g, a)
                        /\ RedLength(q, a) = PlainLength(g, a) + p[StartNode(g, a)] - p[EndNode(g, a)]
  BY <1>2, <1>3, NewPotentials
<1>5. ASSUME NEW a \in Arc
      PROVE  RedLength(q, a) = RedLength(g, a) + Cut(d, StartNode(g, a), c) - Cut(d, EndNode(g, a), c)
  <2>. DEFINE u == StartNode(g, a)
              v == EndNode(g, a)
  <2>1. /\ u \in Node /\ v \in Node /\ PlainLength(g, a) \in Int
        /\ RedLength(g, a) = PlainLength(g, a) + Potential(g, u) - Potential(g, v)
    BY NetArcs
  <2>2. RedLength(q, a) = PlainLength(g, a) + p[u] - p[v]
    BY <1>4
  <2>. HIDE DEF u, v
  <2>3. /\ p[u] = Potential(g, u) + Cut(d, u, c) /\ p[v] = Potential(g, v) + Cut(d, v, c)
        /\ Cut(d, u, c) \in Int /\ Cut(d, v, c) \in Int /\ Potential(g, u) \in Int /\ Potential(g, v) \in Int
    BY <1>1, <1>2, <2>1
  <2>4. RedLength(q, a) = RedLength(g, a) + Cut(d, u, c) - Cut(d, v, c)
    BY <2>1, <2>2, <2>3
  <2>. QED BY <2>4 DEF u, v
<1>. QED BY <1>4, <1>5 DEF q

(* MCF_CapacityScaling, MCF_EdmondsKarp: an augmentation along a shortest    *)
(* path, with the potentials that the distances give, makes no arc negative: *)
(* not the arcs on the path, not the ones that appear in return, not others. *)
LEMMA SlackAfterAugment ==
  ASSUME NEW g \in Nets, Slack(g), NEW X, NEW w \in Walks(g, ResArcs(g)), NEW x \in Int,
         NEW d, d = Distances(g, Walks(g, ResArcs(g)), X),
         d[From(g, w)] + WalkLength(g, w) = d[To(g, w)]
  PROVE  LET q == UpdatePotentials(Augment(g, w, x), d, d[To(g, w)]) IN
         /\ q \in Nets /\ Slack(q) /\ q.delta = g.delta
<1>. DEFINE A == ResArcs(g)
            h == Augment(g, w, x)
            c == d[To(g, w)]
            q == UpdatePotentials(h, d, c)
<1>1. A \in SUBSET Arc /\ NoneNegative(g, A)
  BY DEF ResArcs, Slack, NoneNegative
<1>2. IsWalk(g, A, w) /\ Len(w) \in 1 .. n
  BY <1>1, WalksAre
<1>3. /\ w \in Seq(Arc) /\ Len(w) \in Nat /\ Len(w) > 0 /\ \A i \in 1 .. Len(w) : w[i] \in Arc
  BY <1>1, <1>2, Sizes DEF IsWalk
<1>4. d \in [Node -> Int]
  BY <1>1, DistancesAre
<1>5. \A a \in A : d[EndNode(g, a)] <= d[StartNode(g, a)] + RedLength(g, a)
  BY <1>1, DistancesFit
<1>6. c \in Int
  <2>1. w[Len(w)] \in Arc
    BY <1>3
  <2>2. To(g, w) \in Node
    BY <2>1, NetArcs DEF To
  <2>. QED BY <1>4, <2>2
<1>7. \A i \in 1 .. Len(w) : /\ d[EndNode(g, w[i])] = d[StartNode(g, w[i])] + RedLength(g, w[i])
                              /\ d[EndNode(g, w[i])] <= c /\ d[StartNode(g, w[i])] <= c
  BY <1>1, <1>2, <1>3, <1>4, <1>5, ShortestIsTight
<1>8. /\ h \in Nets /\ SameButFlow(g, h)
      /\ \A e \in Edge : (\A i \in 1 .. Len(w) : EdgeOf(w[i]) # e) => h.sub[e] = g.sub[e]
  BY <1>3, AugmentIs
<1>. HIDE DEF h, c
<1>9. /\ q \in Nets /\ q.delta = h.delta
      /\ \A a \in Arc : /\ ResCap(q, a) = ResCap(h, a)
                        /\ RedLength(q, a) = RedLength(h, a) + Cut(d, StartNode(h, a), c) - Cut(d, EndNode(h, a), c)
  BY <1>4, <1>6, <1>8, UpdateIs
<1>. HIDE DEF q, A
<1>10. ASSUME NEW a \in Arc
       PROVE  RedLength(q, a) = RedLength(g, a) + Cut(d, StartNode(g, a), c) - Cut(d, EndNode(g, a), c)
  BY <1>8, <1>9, SameArcs
<1>11. ASSUME NEW i \in 1 .. Len(w) PROVE RedLength(q, w[i]) >= 0 /\ RedLength(q, Twin(w[i])) >= 0
  <2>. DEFINE a == w[i]
              u == StartNode(g, a)
              v == EndNode(g, a)
  <2>1. a \in Arc /\ Twin(a) \in Arc /\ u \in Node /\ v \in Node /\ RedLength(g, a) \in Int
    BY <1>3, ArcFacts, NetArcs
  <2>2. d[v] = d[u] + RedLength(g, a) /\ d[v] <= c /\ d[u] <= c /\ d[u] \in Int /\ d[v] \in Int
    BY <1>4, <1>7, <2>1
  <2>3. RedLength(q, a) = RedLength(g, a) + Cut(d, u, c) - Cut(d, v, c)
    BY <1>10, <2>1
  <2>. HIDE DEF a, u, v
  <2>4. RedLength(q, a) = 0
    BY <2>1, <2>2, <2>3 DEF Cut
  <2>5. RedLength(q, Twin(a)) = -RedLength(q, a)
    BY <1>9, <2>1, NetArcs
  <2>6. RedLength(q, Twin(a)) >= 0
    <3>1. RedLength(q, a) \in Int /\ RedLength(q, a) <= 0
      BY <2>4
    <3>. QED BY <2>5, <3>1
  <2>7. RedLength(q, a) >= 0
    BY <2>4
  <2>. QED BY <2>6, <2>7 DEF a
<1>12. ASSUME NEW a \in ResArcs(q) PROVE RedLength(q, a) >= 0
  <2>1. a \in Arc /\ ResCap(q, a) > q.delta /\ EdgeOf(a) \in Edge
    BY ArcFacts DEF ResArcs
  <2>2. CASE \E i \in 1 .. Len(w) : EdgeOf(w[i]) = EdgeOf(a)
    <3>1. PICK i \in 1 .. Len(w) : EdgeOf(w[i]) = EdgeOf(a)
      BY <2>2
    <3>2. a = w[i] \/ a = Twin(w[i])
      BY <1>3, <2>1, <3>1, SameEdge
    <3>. QED BY <1>11, <3>2
  <2>3. CASE ~\E i \in 1 .. Len(w) : EdgeOf(w[i]) = EdgeOf(a)
    <3>. DEFINE u == StartNode(g, a)
                v == EndNode(g, a)
    <3>1. ResCap(q, a) = ResCap(g, a) /\ q.delta = g.delta
      <4>1. h.sub[EdgeOf(a)] = g.sub[EdgeOf(a)]
        BY <1>8, <2>1, <2>3
      <4>2. ResCap(h, a) = ResCap(g, a)
        BY <1>8, <2>1, <4>1, SameArcs
      <4>. QED BY <1>8, <1>9, <2>1, <4>2 DEF SameButFlow
    <3>2. a \in A
      BY <2>1, <3>1 DEF A, ResArcs
    <3>3. u \in Node /\ v \in Node /\ RedLength(g, a) \in Int /\ RedLength(g, a) >= 0
      BY <1>1, <2>1, <3>2, NetArcs DEF NoneNegative
    <3>4. d[v] <= d[u] + RedLength(g, a) /\ d[u] \in Int /\ d[v] \in Int
      BY <1>4, <1>5, <3>2, <3>3
    <3>5. RedLength(q, a) = RedLength(g, a) + Cut(d, u, c) - Cut(d, v, c)
      BY <1>10, <2>1
    <3>6. ASSUME NEW r \in Int, NEW x1 \in Int, NEW y1 \in Int, NEW c1 \in Int, r >= 0, y1 <= x1 + r
          PROVE  r + (IF x1 <= c1 THEN x1 ELSE c1) - (IF y1 <= c1 THEN y1 ELSE c1) >= 0
      <4>1. CASE x1 <= c1 /\ y1 <= c1
        BY <3>6, <4>1
      <4>2. CASE x1 <= c1 /\ ~(y1 <= c1)
        BY <3>6, <4>2
      <4>3. CASE ~(x1 <= c1) /\ y1 <= c1
        BY <3>6, <4>3
      <4>4. CASE ~(x1 <= c1) /\ ~(y1 <= c1)
        BY <3>6, <4>4
      <4>. QED BY <4>1, <4>2, <4>3, <4>4
    <3>. HIDE DEF u, v
    <3>. QED BY <1>6, <3>3, <3>4, <3>5, <3>6 DEF Cut
  <2>. QED BY <2>2, <2>3
<1>13. Slack(q)
  BY <1>12 DEF Slack
<1>14. q.delta = g.delta
  BY <1>8, <1>9 DEF SameButFlow
<1>. QED BY <1>9, <1>13, <1>14 DEF q, h, c

LEMMA FindCapIs ==
  ASSUME NEW g \in Nets, Fits(g), NEW p \in Seq(Arc), Len(p) > 0
  PROVE  /\ FindCap(g, p) \in Nat
         /\ \A i \in 1 .. Len(p) : FindCap(g, p) <= ResCap(g, p[i])
         /\ \E i \in 1 .. Len(p) : FindCap(g, p) = ResCap(g, p[i])
<1>. DEFINE len == Len(p)
            S == {ResCap(g, p[i]) : i \in DOMAIN p}
<1>0. len \in Nat /\ DOMAIN p = 1 .. len /\ \A i \in 1 .. len : p[i] \in Arc
  OBVIOUS
<1>. HIDE DEF len
<1>1. \A i \in 1 .. len : ResCap(g, p[i]) \in Nat
  <2>1. ASSUME NEW a \in Arc PROVE ResCap(g, a) \in Nat
    <3>1. EdgeOf(a) \in Edge
      BY ArcFacts
    <3>2. /\ g.sub[EdgeOf(a)] \in Int /\ g.ucap[EdgeOf(a)] \in Nat
          /\ 0 <= g.sub[EdgeOf(a)] /\ g.sub[EdgeOf(a)] <= g.ucap[EdgeOf(a)]
      BY <3>1, NetParts DEF Fits
    <3>. QED BY <3>2 DEF ResCap, Sub, UCap
  <2>. QED BY <1>0, <2>1
<1>2. S \in SUBSET Nat /\ ResCap(g, p[1]) \in S
  BY <1>0, <1>1 DEF len
<1>3. FindCap(g, p) = Least(S)
  BY DEF FindCap
<1>4. (\A i \in 1 .. len : ResCap(g, p[i]) \in S) /\ (\A x \in S : \E i \in 1 .. len : x = ResCap(g, p[i]))
  BY <1>0
<1>. HIDE DEF S
<1>5. Least(S) \in S /\ \A y \in S : Least(S) <= y
  BY <1>2, LeastIs
<1>. QED BY <1>2, <1>3, <1>4, <1>5 DEF len

(* A path, or a cycle of negative length, uses no edge twice.                *)
EdgesOnce(w) == \A i, j \in 1 .. Len(w) : i # j => EdgeOf(w[i]) # EdgeOf(w[j])

LEMMA EdgeTwice ==
  ASSUME NEW g \in Nets, NEW A \in SUBSET Arc, NEW w, IsWalk(g, A, w),
         NEW i \in 1 .. Len(w), NEW j \in i + 1 .. Len(w), EdgeOf(w[i]) = EdgeOf(w[j])
  PROVE  i = 1 /\ j = 2 /\ w[2] = Twin(w[1]) /\ EndNode(g, w[2]) = From(g, w)
<1>. DEFINE k == Len(w)
<1>0. /\ k \in Nat /\ i \in Nat /\ j \in Nat /\ i < j /\ j \in 1 .. k
      /\ \A x \in 1 .. k : w[x] \in Arc
      /\ \A x \in 1 .. k - 1 : EndNode(g, w[x]) = StartNode(g, w[x + 1])
      /\ \A x, y \in 1 .. k : x # y => EndNode(g, w[x]) # EndNode(g, w[y])
  BY DEF IsWalk
<1>. HIDE DEF k
<1>1. w[i] # w[j]
  BY <1>0 DEF k
<1>2. w[j] = Twin(w[i])
  BY <1>0, <1>1, SameEdge DEF k
<1>3. EndNode(g, w[j]) = StartNode(g, w[i]) /\ StartNode(g, w[j]) = EndNode(g, w[i])
  BY <1>0, <1>2, NetArcs DEF k
<1>4. i = 1
  <2>. SUFFICES ASSUME i # 1 PROVE FALSE
    OBVIOUS
  <2>1. i - 1 \in 1 .. k - 1 /\ i - 1 \in 1 .. k /\ (i - 1) + 1 = i /\ i - 1 # j
    BY <1>0 DEF k
  <2>2. EndNode(g, w[i - 1]) = StartNode(g, w[i])
    BY <1>0, <2>1
  <2>3. EndNode(g, w[i - 1]) # EndNode(g, w[j])
    BY <1>0, <2>1
  <2>. QED BY <1>3, <2>2, <2>3
<1>5. j - 1 = i
  <2>. SUFFICES ASSUME j - 1 # i PROVE FALSE
    OBVIOUS
  <2>1. j - 1 \in 1 .. k - 1 /\ j - 1 \in 1 .. k /\ (j - 1) + 1 = j /\ i \in 1 .. k
    BY <1>0 DEF k
  <2>2. EndNode(g, w[j - 1]) = StartNode(g, w[j])
    BY <1>0, <2>1
  <2>3. EndNode(g, w[j - 1]) # EndNode(g, w[i])
    BY <1>0, <2>1
  <2>. QED BY <1>3, <2>2, <2>3
<1>6. j = 2
  BY <1>0, <1>4, <1>5
<1>. QED BY <1>2, <1>3, <1>4, <1>6 DEF From

LEMMA PathEdgesOnce ==
  ASSUME NEW g \in Nets, NEW A \in SUBSET Arc, NEW w, IsWalk(g, A, w),
         \A i \in 1 .. Len(w) : EndNode(g, w[i]) # From(g, w)
  PROVE  EdgesOnce(w)
<1>0. Len(w) \in Nat
  BY DEF IsWalk
<1>1. ASSUME NEW i \in 1 .. Len(w), NEW j \in 1 .. Len(w), i < j PROVE EdgeOf(w[i]) # EdgeOf(w[j])
  <2>. SUFFICES ASSUME EdgeOf(w[i]) = EdgeOf(w[j]) PROVE FALSE
    OBVIOUS
  <2>1. j \in i + 1 .. Len(w)
    BY <1>0, <1>1
  <2>2. j = 2 /\ EndNode(g, w[2]) = From(g, w)
    BY <2>1, EdgeTwice
  <2>. QED BY <2>2
<1>2. ASSUME NEW i \in 1 .. Len(w), NEW j \in 1 .. Len(w), i # j PROVE EdgeOf(w[i]) # EdgeOf(w[j])
  <2>1. i < j \/ j < i
    BY <1>0, <1>2
  <2>. QED BY <1>1, <2>1
<1>. QED BY <1>2 DEF EdgesOnce

LEMMA CycleEdgesOnce ==
  ASSUME NEW g \in Nets, NEW A \in SUBSET Arc, NEW w \in NegativeCycles(g, Walks(g, A))
  PROVE  EdgesOnce(w)
<1>. DEFINE k == Len(w)
<1>0. w \in Walks(g, A) /\ From(g, w) = To(g, w) /\ WalkLength(g, w) < 0
  BY DEF NegativeCycles
<1>1. IsWalk(g, A, w) /\ k \in 1 .. n
  BY <1>0, WalksAre
<1>2. /\ k \in Nat /\ \A x \in 1 .. k : w[x] \in Arc
      /\ \A x, y \in 1 .. k : x # y => EndNode(g, w[x]) # EndNode(g, w[y])
  BY <1>1, Sizes DEF IsWalk
<1>3. ASSUME NEW i \in 1 .. k, NEW j \in 1 .. k, i < j PROVE EdgeOf(w[i]) # EdgeOf(w[j])
  <2>. SUFFICES ASSUME EdgeOf(w[i]) = EdgeOf(w[j]) PROVE FALSE
    OBVIOUS
  <2>1. j \in i + 1 .. k
    BY <1>2, <1>3
  <2>2. i = 1 /\ j = 2 /\ w[2] = Twin(w[1]) /\ EndNode(g, w[2]) = From(g, w)
    BY <1>1, <2>1, EdgeTwice
  <2>3. k = 2
    <3>. SUFFICES ASSUME k # 2 PROVE FALSE
      OBVIOUS
    <3>1. 2 \in 1 .. k /\ k \in 1 .. k
      BY <1>1, <1>2, <2>2
    <3>2. EndNode(g, w[2]) # EndNode(g, w[k])
      BY <1>2, <3>1
    <3>. QED BY <1>0, <2>2, <3>2 DEF To
  <2>4. /\ Upto(g, w, 0) = 0 /\ WalkLength(g, w) = Upto(g, w, k)
        /\ \A x \in 1 .. k : Upto(g, w, x) = Upto(g, w, x - 1) + RedLength(g, w[x])
    <3>1. IsWalk(g, A, w)
      BY <1>1
    <3>. QED BY ONLY <3>1, g \in Nets, A \in SUBSET Arc, UptoIs
  <2>5. 1 \in 1 .. k /\ 2 \in 1 .. k /\ 1 - 1 = 0 /\ 2 - 1 = 1
    BY <2>3
  <2>6. Upto(g, w, 1) = Upto(g, w, 0) + RedLength(g, w[1]) /\ Upto(g, w, 2) = Upto(g, w, 1) + RedLength(g, w[2])
    BY <2>4, <2>5
  <2>7. w[1] \in Arc /\ RedLength(g, w[1]) \in Int /\ RedLength(g, Twin(w[1])) = -RedLength(g, w[1])
    BY <1>2, <2>5, NetArcs
  <2>8. WalkLength(g, w) = RedLength(g, w[1]) - RedLength(g, w[1])
    BY <2>2, <2>3, <2>4, <2>6, <2>7
  <2>. QED BY <1>0, <2>7, <2>8
<1>. HIDE DEF k
<1>4. ASSUME NEW i \in 1 .. k, NEW j \in 1 .. k, i # j PROVE EdgeOf(w[i]) # EdgeOf(w[j])
  <2>1. i < j \/ j < i
    BY <1>2, <1>4
  <2>. QED BY <1>3, <2>1
<1>. QED BY <1>4 DEF EdgesOnce, k

(* The flow stays within its bounds.                                         *)
LEMMA AugmentFits ==
  ASSUME NEW g \in Nets, Fits(g), NEW p \in Seq(Arc), EdgesOnce(p), NEW x \in Nat,
         \A i \in 1 .. Len(p) : x <= ResCap(g, p[i])
  PROVE  Fits(Augment(g, p, x))
<1>1. PICK H : /\ H[0] = g /\ \A i \in 1 .. Len(p) : H[i] = Pushed(H[i - 1], p[i], x)
               /\ Augment(g, p, x) = H[Len(p)]
  BY AugmentSteps
<1>. DEFINE k == Len(p)
            Good(i) == /\ H[i] \in Nets /\ SameButFlow(g, H[i]) /\ Fits(H[i])
                       /\ \A j \in i + 1 .. k : H[i].sub[EdgeOf(p[j])] = g.sub[EdgeOf(p[j])]
            S == {i \in 0 .. k : Good(i)}
<1>2. k \in Nat /\ \A i \in 1 .. k : p[i] \in Arc /\ EdgeOf(p[i]) \in Edge
  BY ArcFacts
<1>. HIDE DEF k
<1>3. 0 \in S
  BY <1>1, <1>2 DEF SameButFlow
<1>4. ASSUME NEW i \in 0 .. k - 1, i \in S PROVE i + 1 \in S
  <2>. DEFINE h == H[i]
              a == p[i + 1]
              c == EdgeOf(a)
              q == Pushed(h, a, x)
  <2>1. i + 1 \in 1 .. k /\ i + 1 \in 0 .. k /\ (i + 1) - 1 = i /\ i + 1 \in i + 1 .. k
    BY <1>2
  <2>2. H[i + 1] = q /\ a \in Arc /\ c \in Edge /\ Good(i)
    BY <1>1, <1>2, <1>4, <2>1 DEF k
  <2>3. h \in Nets /\ SameButFlow(g, h) /\ Fits(h) /\ h.sub[c] = g.sub[c]
    BY <2>1, <2>2
  <2>4. /\ q \in Nets /\ SameButFlow(h, q)
        /\ q.sub = [h.sub EXCEPT ![c] = IF Backward(a) THEN @ - x ELSE @ + x]
    BY <2>2, <2>3, PushedIs
  <2>5. SameButFlow(g, q)
    BY <2>3, <2>4 DEF SameButFlow
  <2>6. x <= ResCap(g, a)
    BY <2>1 DEF k
  <2>7. /\ h.sub \in [Edge -> Int] /\ h.ucap = g.ucap /\ q.ucap = g.ucap /\ h.sub[c] \in Int
        /\ g.sub[c] \in Int /\ g.ucap[c] \in Nat
    BY <2>2, <2>3, <2>5, NetParts DEF SameButFlow
  <2>8. ASSUME NEW e \in Edge PROVE 0 <= q.sub[e] /\ q.sub[e] <= q.ucap[e]
    <3>1. CASE e # c
      BY <2>3, <2>4, <2>7, <3>1 DEF Fits
    <3>2. CASE e = c
      <4>1. 0 <= h.sub[c] /\ h.sub[c] <= g.ucap[c]
        BY <2>2, <2>3, <2>7 DEF Fits
      <4>2. x <= IF Backward(a) THEN g.sub[c] ELSE g.ucap[c] - g.sub[c]
        BY <2>6 DEF ResCap, Sub, UCap
      <4>3. q.sub[c] = IF Backward(a) THEN h.sub[c] - x ELSE h.sub[c] + x
        BY <2>2, <2>4, <2>7
      <4>. HIDE DEF q, h, c, a
      <4>. QED BY <2>3, <2>7, <3>2, <4>1, <4>2, <4>3
    <3>. QED BY <3>1, <3>2
  <2>9. ASSUME NEW j \in (i + 1) + 1 .. k PROVE q.sub[EdgeOf(p[j])] = g.sub[EdgeOf(p[j])]
    <3>1. j \in 1 .. k /\ j # i + 1 /\ j \in i + 1 .. k
      BY <1>2
    <3>2. EdgeOf(p[j]) \in Edge /\ EdgeOf(p[j]) # c
      BY <1>2, <2>1, <3>1 DEF EdgesOnce, k
    <3>3. h.sub[EdgeOf(p[j])] = g.sub[EdgeOf(p[j])]
      BY <2>2, <3>1
    <3>. QED BY <2>4, <2>7, <3>2, <3>3
  <2>10. Fits(q)
    BY <2>8 DEF Fits
  <2>11. Good(i + 1)
    BY <2>2, <2>4, <2>5, <2>9, <2>10
  <2>. QED BY <2>1, <2>11
<1>. HIDE DEF S
<1>5. \A i \in 0 .. k : i \in S
  BY <1>2, <1>3, <1>4, CountUp
<1>6. k \in S
  BY <1>2, <1>5
<1>7. Good(k)
  BY <1>6 DEF S
<1>. QED BY <1>1, <1>7 DEF k
-------------------------------------------------------------------------------
(* Divergences.                                                              *)

DivTerm(g, v, e) == (IF g.ends[e][2] = v THEN g.sub[e] ELSE 0) - (IF g.ends[e][1] = v THEN g.sub[e] ELSE 0)

LEMMA DivergenceIs ==
  ASSUME NEW g \in Nets, NEW v
  PROVE  /\ Divergence(g, v) \in Int
         /\ Divergence(g, v) = SumBelow([e \in Edge |-> DivTerm(g, v, e)], m)
         /\ \A e \in Edge : DivTerm(g, v, e) \in Int
<1>. DEFINE f == [e \in Edge |-> DivTerm(g, v, e)]
<1>1. \A e \in Edge : DivTerm(g, v, e) \in Int
  BY NetParts DEF DivTerm
<1>2. Divergence(g, v) = SumBelow(f, m)
  BY DEF Divergence, DivTerm
<1>3. \A i \in 0 .. m - 1 : f[i] \in Int
  BY <1>1 DEF Edge
<1>. HIDE DEF f
<1>4. SumBelow(f, m) \in Int
  BY <1>3, Sizes, SumStep
<1>. QED BY <1>1, <1>2, <1>4 DEF f

Delta(x, yes) == IF yes THEN x ELSE 0

LEMMA PushedDivergence ==
  ASSUME NEW g \in Nets, NEW a \in Arc, NEW x \in Int, NEW v
  PROVE  Divergence(Pushed(g, a, x), v) =
           Divergence(g, v) + Delta(x, EndNode(g, a) = v) - Delta(x, StartNode(g, a) = v)
<1>. DEFINE h == Pushed(g, a, x)
            f == [e \in Edge |-> DivTerm(g, v, e)]
            w == [e \in Edge |-> DivTerm(h, v, e)]
            c == EdgeOf(a)
            p == g.ends[c][1]
            q == g.ends[c][2]
<1>0. c \in Edge
  BY ArcFacts
<1>1. /\ h \in Nets /\ h.ends = g.ends
      /\ h.sub = [g.sub EXCEPT ![c] = IF Backward(a) THEN @ - x ELSE @ + x]
  BY PushedIs DEF SameButFlow
<1>2. g.sub \in [Edge -> Int] /\ g.sub[c] \in Int
  BY <1>0, NetParts
<1>. HIDE DEF h
<1>3. /\ \A e \in Edge : e # c => h.sub[e] = g.sub[e]
      /\ h.sub[c] = IF Backward(a) THEN g.sub[c] - x ELSE g.sub[c] + x
  BY <1>0, <1>1, <1>2
<1>4. ASSUME NEW e \in Edge PROVE f[e] \in Int /\ w[e] \in Int /\ (e # c => w[e] = f[e])
  <2>1. f[e] = DivTerm(g, v, e) /\ w[e] = DivTerm(h, v, e)
    OBVIOUS
  <2>2. DivTerm(g, v, e) \in Int /\ DivTerm(h, v, e) \in Int
    BY <1>1, DivergenceIs
  <2>. QED BY <1>1, <1>3, <2>1, <2>2 DEF DivTerm
<1>5. \A i \in 0 .. m - 1 : f[i] \in Int /\ w[i] \in Int /\ (i # c => w[i] = f[i])
  BY <1>4 DEF Edge
<1>6. Divergence(g, v) = SumBelow(f, m) /\ Divergence(h, v) = SumBelow(w, m) /\ Divergence(g, v) \in Int
  BY <1>1, DivergenceIs
<1>7. f[c] = DivTerm(g, v, c) /\ w[c] = DivTerm(h, v, c)
  BY <1>0
<1>. HIDE DEF f, w
<1>8. SumBelow(w, m) = SumBelow(f, m) + (w[c] - f[c])
  <2>1. c \in 0 .. m - 1
    BY <1>0 DEF Edge
  <2>. HIDE DEF c
  <2>. QED BY <1>5, <2>1, Sizes, SumChange
<1>9. w[c] - f[c] = Delta(x, EndNode(g, a) = v) - Delta(x, StartNode(g, a) = v)
  <2>1. /\ f[c] = (IF q = v THEN g.sub[c] ELSE 0) - (IF p = v THEN g.sub[c] ELSE 0)
        /\ w[c] = (IF q = v THEN h.sub[c] ELSE 0) - (IF p = v THEN h.sub[c] ELSE 0)
    BY <1>1, <1>7 DEF DivTerm
  <2>2. EdgeOf(Twin(a)) = c /\ Backward(Twin(a)) = ~Backward(a)
    BY ArcFacts
  <2>3. CASE Backward(a)
    <3>1. StartNode(g, a) = q /\ EndNode(g, a) = p /\ h.sub[c] = g.sub[c] - x
      BY <1>3, <2>2, <2>3 DEF StartNode, EndNode
    <3>. HIDE DEF p, q, c
    <3>. QED BY <1>2, <2>1, <3>1 DEF Delta
  <2>4. CASE ~Backward(a)
    <3>1. StartNode(g, a) = p /\ EndNode(g, a) = q /\ h.sub[c] = g.sub[c] + x
      BY <1>3, <2>2, <2>4 DEF StartNode, EndNode
    <3>. HIDE DEF p, q, c
    <3>. QED BY <1>2, <2>1, <3>1 DEF Delta
  <2>. QED BY <2>3, <2>4
<1>10. Divergence(h, v) = Divergence(g, v) + (Delta(x, EndNode(g, a) = v) - Delta(x, StartNode(g, a) = v))
  BY <1>6, <1>8, <1>9
<1>11. Delta(x, EndNode(g, a) = v) \in Int /\ Delta(x, StartNode(g, a) = v) \in Int
  BY DEF Delta
<1>12. Divergence(h, v) = Divergence(g, v) + Delta(x, EndNode(g, a) = v) - Delta(x, StartNode(g, a) = v)
  BY <1>6, <1>10, <1>11
<1>. QED BY <1>12 DEF h

(* What leaves the start of a walk arrives at its end.                       *)
LEMMA AugmentDivergence ==
  ASSUME NEW g \in Nets, NEW A \in SUBSET Arc, NEW w, IsWalk(g, A, w), Len(w) > 0, NEW x \in Int, NEW v
  PROVE  Divergence(Augment(g, w, x), v) =
           Divergence(g, v) + Delta(x, To(g, w) = v) - Delta(x, From(g, w) = v)
<1>. DEFINE k == Len(w)
<1>0. w \in Seq(Arc) /\ k \in Nat /\ \A i \in 1 .. k : w[i] \in Arc
  BY DEF IsWalk
<1>1. PICK H : /\ H[0] = g /\ \A i \in 1 .. Len(w) : H[i] = Pushed(H[i - 1], w[i], x)
               /\ Augment(g, w, x) = H[Len(w)]
  BY <1>0, AugmentSteps
<1>2. /\ \A i \in 1 .. k : StartNode(g, w[i]) = NodeAt(g, w, i - 1) /\ EndNode(g, w[i]) = NodeAt(g, w, i)
      /\ NodeAt(g, w, 0) = From(g, w) /\ NodeAt(g, w, k) = To(g, w)
  BY NodesOfWalk
<1>. DEFINE At(i) == Delta(x, NodeAt(g, w, i) = v)
            Good(i) == /\ H[i] \in Nets /\ SameButFlow(g, H[i])
                       /\ Divergence(H[i], v) = Divergence(g, v) + At(i) - At(0)
            S == {i \in 0 .. k : Good(i)}
<1>3. \A i : At(i) \in Int
  BY DEF Delta
<1>4. Divergence(g, v) \in Int
  BY DivergenceIs
<1>. HIDE DEF k, At
<1>5. 0 \in S
  <2>1. SameButFlow(g, g) /\ Divergence(g, v) = Divergence(g, v) + At(0) - At(0)
    BY <1>3, <1>4 DEF SameButFlow
  <2>. QED BY <1>0, <1>1, <2>1
<1>6. ASSUME NEW i \in 0 .. k - 1, i \in S PROVE i + 1 \in S
  <2>. DEFINE h == H[i]
              a == w[i + 1]
              q == Pushed(h, a, x)
  <2>1. i + 1 \in 1 .. k /\ i + 1 \in 0 .. k /\ (i + 1) - 1 = i
    BY <1>0
  <2>2. H[i + 1] = q /\ a \in Arc /\ h \in Nets /\ SameButFlow(g, h) /\ Divergence(h, v) = Divergence(g, v) + At(i) - At(0)
    BY <1>0, <1>1, <1>6, <2>1 DEF k
  <2>3. q \in Nets /\ SameButFlow(h, q)
    BY <2>2, PushedIs
  <2>4. SameButFlow(g, q)
    BY <2>2, <2>3 DEF SameButFlow
  <2>5. Divergence(q, v) = Divergence(h, v) + Delta(x, EndNode(h, a) = v) - Delta(x, StartNode(h, a) = v)
    BY <2>2, PushedDivergence
  <2>6. EndNode(h, a) = EndNode(g, a) /\ StartNode(h, a) = StartNode(g, a)
    BY <2>2, SameArcs
  <2>7. EndNode(g, a) = NodeAt(g, w, i + 1) /\ StartNode(g, a) = NodeAt(g, w, i)
    BY <1>2, <2>1
  <2>8. Divergence(q, v) = Divergence(h, v) + At(i + 1) - At(i)
    BY <2>5, <2>6, <2>7 DEF At
  <2>9. At(i) \in Int /\ At(i + 1) \in Int /\ At(0) \in Int
    BY <1>3
  <2>. HIDE DEF q, h, a
  <2>10. Divergence(q, v) = Divergence(g, v) + At(i + 1) - At(0)
    BY <1>4, <2>2, <2>8, <2>9
  <2>. QED BY <2>1, <2>2, <2>3, <2>4, <2>10
<1>. HIDE DEF S
<1>7. \A i \in 0 .. k : i \in S
  BY <1>0, <1>5, <1>6, CountUp
<1>8. k \in S
  BY <1>0, <1>7
<1>9. Good(k)
  BY <1>8 DEF S
<1>. QED BY <1>1, <1>2, <1>9 DEF At, k

-------------------------------------------------------------------------------
(* Saturated arcs.                                                           *)

LEMMA SaturatedIs ==
  ASSUME NEW g \in Nets, Fits(g)
  PROVE  /\ Saturated(g) \in Nets /\ Fits(Saturated(g)) /\ Slack(Saturated(g))
         /\ Saturated(g).demand = g.demand /\ Saturated(g).delta = g.delta
<1>. DEFINE q == Saturated(g)
            Flow(e) == CASE RedLength(g, 2 * e) < 0 /\ ResCap(g, 2 * e) > g.delta -> g.ucap[e]
                         [] RedLength(g, 2 * e) > 0 /\ g.sub[e] > g.delta -> 0
                         [] OTHER -> g.sub[e]
            f == [e \in Edge |-> Flow(e)]
<1>1. /\ g = [ends |-> g.ends, orientation |-> g.orientation, length |-> g.length, ucap |-> g.ucap,
              sub |-> g.sub, demand |-> g.demand, potential |-> g.potential, delta |-> g.delta]
      /\ g.ends \in [Edge -> Node \X Node] /\ g.orientation \in [Edge -> {1}]
      /\ g.length \in [Edge -> Int] /\ g.ucap \in [Edge -> 0 .. InfCap] /\ g.sub \in [Edge -> Int]
      /\ g.demand \in [Node -> Int] /\ g.potential \in [Node -> Int] \union {NoLabels} /\ g.delta \in Nat
      /\ \A e \in Edge : g.ucap[e] \in Nat /\ g.sub[e] \in Int /\ 0 <= g.sub[e] /\ g.sub[e] <= g.ucap[e]
  BY NetParts DEF Fits
<1>2. \A e \in Edge : 2 * e \in Arc /\ RedLength(g, 2 * e) \in Int /\ ResCap(g, 2 * e) = g.ucap[e] - g.sub[e]
  BY EdgeArcs, NetArcs DEF ResCap, Sub, UCap
<1>3. ASSUME NEW e \in Edge
      PROVE  /\ Flow(e) \in Int /\ 0 <= Flow(e) /\ Flow(e) <= g.ucap[e]
             /\ RedLength(g, 2 * e) < 0 => g.ucap[e] - Flow(e) <= g.delta
             /\ RedLength(g, 2 * e) > 0 => Flow(e) <= g.delta
  <2>. DEFINE r == RedLength(g, 2 * e)
  <2>1. r \in Int /\ ResCap(g, 2 * e) = g.ucap[e] - g.sub[e] /\ g.delta \in Nat /\ g.ucap[e] \in Nat /\ g.sub[e] \in Int
        /\ 0 <= g.sub[e] /\ g.sub[e] <= g.ucap[e]
    BY <1>1, <1>2
  <2>. HIDE DEF r
  <2>2. CASE r < 0 /\ ResCap(g, 2 * e) > g.delta
    <3>1. Flow(e) = g.ucap[e] /\ ~(r > 0)
      BY <2>1, <2>2 DEF r
    <3>. HIDE DEF Flow
    <3>. QED BY <2>1, <3>1 DEF r
  <2>3. CASE r > 0 /\ g.sub[e] > g.delta
    <3>1. Flow(e) = 0 /\ ~(r < 0)
      BY <2>1, <2>3 DEF r
    <3>. HIDE DEF Flow
    <3>. QED BY <2>1, <3>1 DEF r
  <2>4. CASE ~(r < 0 /\ ResCap(g, 2 * e) > g.delta) /\ ~(r > 0 /\ g.sub[e] > g.delta)
    <3>1. Flow(e) = g.sub[e]
      BY <2>4 DEF r
    <3>. HIDE DEF Flow
    <3>. QED BY <2>1, <2>4, <3>1 DEF r
  <2>. QED BY <2>2, <2>3, <2>4
<1>4. q = [g EXCEPT !.sub = f]
  BY DEF Saturated
<1>. HIDE DEF Flow
<1>5. f \in [Edge -> Int] /\ \A e \in Edge : f[e] = Flow(e)
  BY <1>3
<1>. HIDE DEF q, f
<1>6. q = [ends |-> g.ends, orientation |-> g.orientation, length |-> g.length, ucap |-> g.ucap,
           sub |-> f, demand |-> g.demand, potential |-> g.potential, delta |-> g.delta]
  BY <1>1, <1>4
<1>7. q \in Nets
  BY <1>1, <1>5, <1>6 DEF Nets
<1>8. q.sub = f /\ q.demand = g.demand /\ q.delta = g.delta /\ q.ucap = g.ucap /\ SameButFlow(g, q)
  BY <1>6 DEF SameButFlow
<1>9. Fits(q)
  BY <1>3, <1>5, <1>8 DEF Fits
<1>10. ASSUME NEW a \in ResArcs(q) PROVE RedLength(q, a) >= 0
  <2>. DEFINE e == EdgeOf(a)
              r == RedLength(g, 2 * e)
  <2>1. a \in Arc /\ ResCap(q, a) > q.delta /\ e \in Edge
    BY ArcFacts DEF ResArcs
  <2>2. RedLength(q, a) = RedLength(g, a)
    BY <1>7, <1>8, <2>1, SameArcs
  <2>3. /\ r \in Int /\ f[e] \in Int /\ g.ucap[e] \in Nat /\ g.delta \in Nat
        /\ r < 0 => g.ucap[e] - f[e] <= g.delta
        /\ r > 0 => f[e] <= g.delta
    BY <1>1, <1>2, <1>3, <1>5, <2>1
  <2>4. CASE Backward(a)
    <3>1. a = 2 * e + 1 /\ Twin(2 * e) = 2 * e + 1 /\ 2 * e \in Arc
      BY <2>1, <2>4, ArcFacts, EdgeArcs
    <3>2. RedLength(g, a) = -r
      BY <3>1, NetArcs
    <3>3. f[e] > g.delta
      BY <1>8, <2>1, <2>4 DEF ResCap, Sub
    <3>. HIDE DEF r, e
    <3>. QED BY <2>2, <2>3, <3>2, <3>3
  <2>5. CASE ~Backward(a)
    <3>1. a = 2 * e
      <4>1. a = 2 * e + 0 /\ e \in Int
        BY <2>1, <2>5, ArcFacts DEF Edge
      <4>. QED BY <4>1
    <3>2. g.ucap[e] - f[e] > g.delta
      BY <1>8, <2>1, <2>5 DEF ResCap, Sub, UCap
    <3>3. RedLength(g, a) = r
      BY <3>1
    <3>. HIDE DEF r, e
    <3>. QED BY <2>2, <2>3, <3>2, <3>3
  <2>. QED BY <2>4, <2>5
<1>11. Slack(q)
  BY <1>10 DEF Slack
<1>. QED BY <1>7, <1>8, <1>9, <1>11 DEF q
-------------------------------------------------------------------------------
(* Potentials prove a flow.                                                  *)

LEMMA SumSingle ==
  ASSUME NEW k \in Nat, NEW f, NEW c \in 0 .. k - 1, f[c] \in Int,
         \A i \in 0 .. k - 1 : i # c => f[i] = 0
  PROVE  SumBelow(f, k) = f[c]
<1>. DEFINE z == [i \in 0 .. k - 1 |-> 0]
<1>1. \A i \in 0 .. k - 1 : z[i] = 0
  OBVIOUS
<1>. HIDE DEF z
<1>2. SumBelow(z, k) = 0
  BY <1>1, SumZero
<1>3. \A i \in 0 .. k - 1 : z[i] \in Int /\ f[i] \in Int /\ (i # c => f[i] = z[i])
  BY <1>1
<1>4. SumBelow(f, k) = SumBelow(z, k) + (f[c] - z[c])
  BY <1>3, SumChange
<1>5. z[c] = 0
  BY <1>1
<1>. QED BY <1>2, <1>4, <1>5

Drop(g, p, e) == (p[g.ends[e][2]] - p[g.ends[e][1]]) * g.sub[e]

LEMMA DropOfEdge ==
  ASSUME NEW g \in Nets, NEW p \in [Node -> Int], NEW e \in Edge
  PROVE  SumBelow([v \in Node |-> p[v] * DivTerm(g, v, e)], n) = Drop(g, p, e) /\ Drop(g, p, e) \in Int
<1>. DEFINE x == g.sub[e]
            y == g.ends[e][2]
            z == g.ends[e][1]
            f == [v \in Node |-> IF v = y THEN p[v] * x ELSE 0]
            h == [v \in Node |-> IF v = z THEN -(p[v] * x) ELSE 0]
            r == [v \in Node |-> p[v] * DivTerm(g, v, e)]
<1>1. x \in Int /\ y \in Node /\ z \in Node
  BY NetParts
<1>2. ASSUME NEW v \in Node PROVE r[v] = p[v] * ((IF y = v THEN x ELSE 0) - (IF z = v THEN x ELSE 0)) /\ p[v] \in Int
  BY DEF DivTerm
<1>3. ASSUME NEW v \in Node
      PROVE  f[v] = (IF v = y THEN p[v] * x ELSE 0) /\ h[v] = (IF v = z THEN -(p[v] * x) ELSE 0)
  OBVIOUS
<1>. HIDE DEF f, h, r, x, y, z
<1>4. ASSUME NEW v \in Node PROVE f[v] \in Int /\ h[v] \in Int /\ r[v] = f[v] + h[v]
  <2>1. p[v] \in Int /\ x \in Int /\ p[v] * x \in Int
    BY <1>1, <1>2
  <2>2. CASE v = y /\ v = z
    <3>1. r[v] = p[v] * (x - x) /\ f[v] = p[v] * x /\ h[v] = -(p[v] * x)
      BY <1>2, <1>3, <2>2
    <3>2. x - x = 0 /\ p[v] * 0 = 0
      BY <2>1
    <3>. QED BY <2>1, <3>1, <3>2
  <2>3. CASE v = y /\ v # z
    <3>1. r[v] = p[v] * (x - 0) /\ f[v] = p[v] * x /\ h[v] = 0
      BY <1>2, <1>3, <2>3
    <3>. QED BY <2>1, <3>1
  <2>4. CASE v # y /\ v = z
    <3>1. r[v] = p[v] * (0 - x) /\ f[v] = 0 /\ h[v] = -(p[v] * x)
      BY <1>2, <1>3, <2>4
    <3>2. p[v] * (0 - x) = -(p[v] * x)
      BY <2>1
    <3>. QED BY <2>1, <3>1, <3>2
  <2>5. CASE v # y /\ v # z
    <3>1. r[v] = p[v] * (0 - 0) /\ f[v] = 0 /\ h[v] = 0
      BY <1>2, <1>3, <2>5
    <3>2. 0 - 0 = 0 /\ p[v] * 0 = 0
      BY <2>1
    <3>. QED BY <3>1, <3>2
  <2>. QED BY <2>2, <2>3, <2>4, <2>5
<1>5. SumBelow(r, n) = SumBelow(f, n) + SumBelow(h, n)
  <2>1. \A i \in 0 .. n - 1 : f[i] \in Int /\ h[i] \in Int /\ r[i] = f[i] + h[i]
    BY <1>4 DEF Node
  <2>. QED BY <2>1, Sizes, SumAdd
<1>6. SumBelow(f, n) = f[y]
  <2>1. y \in 0 .. n - 1 /\ f[y] \in Int /\ \A i \in 0 .. n - 1 : i # y => f[i] = 0
    BY <1>1, <1>3, <1>4 DEF Node
  <2>. QED BY <2>1, Sizes, SumSingle
<1>7. SumBelow(h, n) = h[z]
  <2>1. z \in 0 .. n - 1 /\ h[z] \in Int /\ \A i \in 0 .. n - 1 : i # z => h[i] = 0
    BY <1>1, <1>3, <1>4 DEF Node
  <2>. QED BY <2>1, Sizes, SumSingle
<1>8. Drop(g, p, e) = (p[y] - p[z]) * x
  BY DEF Drop, x, y, z
<1>9. p[y] \in Int /\ p[z] \in Int /\ f[y] = p[y] * x /\ h[z] = -(p[z] * x)
  BY <1>1, <1>3
<1>10. (p[y] - p[z]) * x = p[y] * x + (-(p[z] * x)) /\ (p[y] - p[z]) * x \in Int
  BY <1>1, <1>9
<1>. QED BY <1>5, <1>6, <1>7, <1>8, <1>9, <1>10 DEF r

(* Summed over the nodes or over the edges, it is the same.                  *)
LEMMA PotentialSum ==
  ASSUME NEW g \in Nets, NEW p \in [Node -> Int]
  PROVE  SumBelow([v \in Node |-> p[v] * Divergence(g, v)], n) = SumBelow([e \in Edge |-> Drop(g, p, e)], m)
<1>. DEFINE T(v) == [e \in Edge |-> DivTerm(g, v, e)]
            V(j) == [v \in Node |-> p[v] * SumBelow(T(v), j)]
            E == [e \in Edge |-> Drop(g, p, e)]
            Z(j) == [v \in Node |-> p[v] * DivTerm(g, v, j)]
            S == {j \in 0 .. m : SumBelow(V(j), n) = SumBelow(E, j)}
<1>1. ASSUME NEW v \in Node
      PROVE  /\ SumBelow(T(v), 0) = 0 /\ SumBelow(T(v), m) \in Int
             /\ \A j \in 0 .. m - 1 : SumBelow(T(v), j) \in Int /\ SumBelow(T(v), j + 1) = SumBelow(T(v), j) + T(v)[j]
  <2>1. \A i \in 0 .. m - 1 : T(v)[i] \in Int
    BY DivergenceIs DEF Edge
  <2>. HIDE DEF T
  <2>. QED BY <2>1, Sizes, SumStep
<1>2. \A v \in Node : \A j \in 0 .. m - 1 : T(v)[j] = DivTerm(g, v, j) /\ DivTerm(g, v, j) \in Int
  BY DivergenceIs DEF Edge
<1>3. \A j \in 0 .. m - 1 : E[j] = Drop(g, p, j) /\ E[j] \in Int /\ SumBelow(Z(j), n) = Drop(g, p, j)
  BY DropOfEdge DEF Edge
<1>4. \A j : \A v \in Node : V(j)[v] = p[v] * SumBelow(T(v), j)
  OBVIOUS
<1>5. \A j : \A v \in Node : Z(j)[v] = p[v] * DivTerm(g, v, j)
  OBVIOUS
<1>. HIDE DEF T, V, E, Z
<1>6. /\ SumBelow(E, 0) = 0
      /\ \A j \in 0 .. m - 1 : SumBelow(E, j) \in Int /\ SumBelow(E, j + 1) = SumBelow(E, j) + E[j]
  BY <1>3, Sizes, SumStep
<1>7. 0 \in S
  <2>1. ASSUME NEW i \in 0 .. n - 1 PROVE V(0)[i] = 0
    <3>1. i \in Node /\ p[i] \in Int /\ p[i] * 0 = 0
      BY DEF Node
    <3>. QED BY <1>1, <1>4, <3>1
  <2>2. SumBelow(V(0), n) = 0
    BY <2>1, Sizes, SumZero
  <2>. QED BY <1>6, <2>2, Sizes
<1>8. ASSUME NEW j \in 0 .. m - 1, j \in S PROVE j + 1 \in S
  <2>1. ASSUME NEW i \in 0 .. n - 1 PROVE V(j)[i] \in Int /\ Z(j)[i] \in Int /\ V(j + 1)[i] = V(j)[i] + Z(j)[i]
    <3>1. i \in Node /\ p[i] \in Int
      BY DEF Node
    <3>2. SumBelow(T(i), j) \in Int /\ SumBelow(T(i), j + 1) = SumBelow(T(i), j) + T(i)[j]
      BY <1>1, <3>1
    <3>3. T(i)[j] = DivTerm(g, i, j) /\ DivTerm(g, i, j) \in Int
      BY <1>2, <3>1
    <3>4. /\ V(j)[i] = p[i] * SumBelow(T(i), j) /\ V(j + 1)[i] = p[i] * SumBelow(T(i), j + 1)
          /\ Z(j)[i] = p[i] * DivTerm(g, i, j)
      BY <1>4, <1>5, <3>1
    <3>5. ASSUME NEW x \in Int, NEW y \in Int, NEW z \in Int PROVE x * (y + z) = x * y + x * z /\ x * y \in Int /\ x * z \in Int
      OBVIOUS
    <3>. QED BY <3>1, <3>2, <3>3, <3>4, <3>5
  <2>2. SumBelow(V(j + 1), n) = SumBelow(V(j), n) + SumBelow(Z(j), n)
    BY <2>1, Sizes, SumAdd
  <2>3. j + 1 \in 0 .. m
    BY Sizes
  <2>4. SumBelow(V(j), n) = SumBelow(E, j)
    BY <1>8
  <2>. QED BY <1>3, <1>6, <2>2, <2>3, <2>4
<1>. HIDE DEF S
<1>9. \A j \in 0 .. m : j \in S
  BY <1>7, <1>8, Sizes, CountUp
<1>10. m \in S
  BY <1>9, Sizes
<1>11. SumBelow(V(m), n) = SumBelow(E, m)
  BY <1>10 DEF S
<1>12. V(m) = [v \in Node |-> p[v] * Divergence(g, v)]
  <2>1. \A v \in Node : Divergence(g, v) = SumBelow(T(v), m)
    BY DivergenceIs DEF T
  <2>. QED BY <2>1 DEF V
<1>. QED BY <1>11, <1>12 DEF E

LEMMA WithFlow ==
  ASSUME NEW g \in Nets, NEW f \in [Edge -> Int], NEW h, h = [g EXCEPT !.sub = f]
  PROVE  h \in Nets /\ SameButFlow(g, h) /\ h.sub = f
<1>1. /\ g = [ends |-> g.ends, orientation |-> g.orientation, length |-> g.length, ucap |-> g.ucap,
              sub |-> g.sub, demand |-> g.demand, potential |-> g.potential, delta |-> g.delta]
      /\ g.ends \in [Edge -> Node \X Node] /\ g.orientation \in [Edge -> {1}]
      /\ g.length \in [Edge -> Int] /\ g.ucap \in [Edge -> 0 .. InfCap] /\ g.sub \in [Edge -> Int]
      /\ g.demand \in [Node -> Int] /\ g.potential \in [Node -> Int] \union {NoLabels} /\ g.delta \in Nat
  BY NetParts
<1>2. h = [ends |-> g.ends, orientation |-> g.orientation, length |-> g.length, ucap |-> g.ucap,
           sub |-> f, demand |-> g.demand, potential |-> g.potential, delta |-> g.delta]
  BY <1>1
<1>3. h \in Nets
  BY <1>1, <1>2 DEF Nets
<1>. QED BY <1>2, <1>3 DEF SameButFlow

(* If no residual arc is negative, no flow with the same divergences is      *)
(* cheaper: potentials prove a flow.                                         *)
LEMMA SlackIsCheapest ==
  ASSUME NEW g \in Nets, Slack(g), g.delta = 0, NEW h \in Nets, SameButFlow(g, h), Fits(h),
         \A v \in Node : Divergence(h, v) = Divergence(g, v)
  PROVE  Weight(g) <= Weight(h)
<1>. DEFINE x == [e \in Edge |-> h.sub[e] - g.sub[e]]
            k == [g EXCEPT !.sub = x]
            p == [v \in Node |-> Potential(g, v)]
            fg == [e \in Edge |-> g.length[e] * g.sub[e]]
            fh == [e \in Edge |-> h.length[e] * h.sub[e]]
            r == [e \in Edge |-> RedLength(g, 2 * e) * x[e]]
            q == [e \in Edge |-> Drop(k, p, e)]
            rq == [e \in Edge |-> r[e] + q[e]]
            zero == [e \in Edge |-> 0]
            pd == [v \in Node |-> p[v] * Divergence(k, v)]
<1>1. ASSUME NEW e \in Edge
      PROVE  /\ g.sub[e] \in Int /\ h.sub[e] \in Int /\ g.length[e] \in Int /\ h.length = g.length
             /\ x[e] = h.sub[e] - g.sub[e] /\ x[e] \in Int
             /\ fg[e] = g.length[e] * g.sub[e] /\ fh[e] = g.length[e] * h.sub[e]
             /\ r[e] = RedLength(g, 2 * e) * x[e] /\ q[e] = Drop(k, p, e) /\ zero[e] = 0 /\ rq[e] = r[e] + q[e]
             /\ g.ends[e][1] \in Node /\ g.ends[e][2] \in Node
  BY NetParts DEF SameButFlow
<1>2. x \in [Edge -> Int] /\ p \in [Node -> Int] /\ \A v \in Node : p[v] = Potential(g, v)
  BY <1>1, NetParts
<1>3. k \in Nets /\ SameButFlow(g, k) /\ k.sub = x
  <2>1. x \in [Edge -> Int]
    BY <1>2
  <2>. HIDE DEF x
  <2>. QED BY <2>1, WithFlow
<1>4. Weight(g) = SumBelow(fg, m) /\ Weight(h) = SumBelow(fh, m)
  BY DEF Weight
<1>5. \A v \in Node : pd[v] = p[v] * Divergence(k, v)
  OBVIOUS
<1>6. SumBelow(pd, n) = SumBelow(q, m)
  <2>. HIDE DEF k, p
  <2>. QED BY <1>2, <1>3, PotentialSum
<1>. HIDE DEF x, k, p, fg, fh, r, q, rq, zero, pd
<1>7. ASSUME NEW v \in Node PROVE Divergence(k, v) = 0
  <2>. DEFINE tg == [e \in Edge |-> DivTerm(g, v, e)]
              tk == [e \in Edge |-> DivTerm(k, v, e)]
              th == [e \in Edge |-> DivTerm(h, v, e)]
  <2>1. ASSUME NEW e \in Edge PROVE tg[e] \in Int /\ tk[e] \in Int /\ th[e] = tg[e] + tk[e]
    <3>1. tg[e] = DivTerm(g, v, e) /\ tk[e] = DivTerm(k, v, e) /\ th[e] = DivTerm(h, v, e)
      OBVIOUS
    <3>2. h.ends = g.ends /\ k.ends = g.ends /\ k.sub[e] = h.sub[e] - g.sub[e]
      BY <1>1, <1>3 DEF SameButFlow
    <3>3. g.sub[e] \in Int /\ h.sub[e] \in Int
      BY <1>1
    <3>4. DivTerm(g, v, e) \in Int /\ DivTerm(k, v, e) \in Int
      BY <1>3, DivergenceIs
    <3>. DEFINE y == g.ends[e][2]
                z == g.ends[e][1]
                a == g.sub[e]
                b == h.sub[e]
    <3>5. /\ DivTerm(g, v, e) = (IF y = v THEN a ELSE 0) - (IF z = v THEN a ELSE 0)
          /\ DivTerm(h, v, e) = (IF y = v THEN b ELSE 0) - (IF z = v THEN b ELSE 0)
          /\ DivTerm(k, v, e) = (IF y = v THEN b - a ELSE 0) - (IF z = v THEN b - a ELSE 0)
      BY <3>2 DEF DivTerm
    <3>. HIDE DEF y, z, a, b
    <3>6. a \in Int /\ b \in Int
      BY <3>3 DEF a, b
    <3>7. DivTerm(h, v, e) = DivTerm(g, v, e) + DivTerm(k, v, e)
      BY <3>5, <3>6
    <3>. QED BY <3>1, <3>4, <3>7
  <2>2. Divergence(g, v) = SumBelow(tg, m) /\ Divergence(h, v) = SumBelow(th, m) /\ Divergence(k, v) = SumBelow(tk, m)
    BY <1>3, DivergenceIs
  <2>. HIDE DEF tg, tk, th
  <2>3. SumBelow(th, m) = SumBelow(tg, m) + SumBelow(tk, m)
    <3>1. \A i \in 0 .. m - 1 : tg[i] \in Int /\ tk[i] \in Int /\ th[i] = tg[i] + tk[i]
      BY <2>1 DEF Edge
    <3>. QED BY <3>1, Sizes, SumAdd
  <2>4. Divergence(g, v) \in Int /\ Divergence(k, v) \in Int /\ Divergence(h, v) = Divergence(g, v)
    BY <1>3, DivergenceIs
  <2>. QED BY <2>2, <2>3, <2>4
<1>8. SumBelow(q, m) = 0
  <2>1. ASSUME NEW i \in 0 .. n - 1 PROVE pd[i] = 0
    <3>1. i \in Node /\ p[i] \in Int /\ p[i] * 0 = 0
      BY <1>2 DEF Node
    <3>. QED BY <1>5, <1>7, <3>1
  <2>2. SumBelow(pd, n) = 0
    BY <2>1, Sizes, SumZero
  <2>. QED BY <1>6, <2>2
<1>9. ASSUME NEW e \in Edge PROVE r[e] \in Int /\ r[e] >= 0 /\ q[e] \in Int /\ fh[e] = fg[e] + (r[e] + q[e]) /\ fg[e] \in Int
  <2>. DEFINE l == g.length[e]
              a == g.sub[e]
              b == h.sub[e]
              pz == p[g.ends[e][1]]
              py == p[g.ends[e][2]]
              red == RedLength(g, 2 * e)
  <2>1. l \in Int /\ a \in Int /\ b \in Int /\ pz \in Int /\ py \in Int
    BY <1>1, <1>2
  <2>2. q[e] = (py - pz) * (b - a)
    <3>1. k.ends = g.ends /\ k.sub[e] = b - a
      BY <1>1, <1>3 DEF SameButFlow
    <3>. QED BY <1>1, <3>1 DEF Drop
  <2>3. red = l + pz - py
    <3>1. 2 * e \in Arc /\ EdgeOf(2 * e) = e /\ ~Backward(2 * e) /\ Twin(2 * e) = 2 * e + 1 /\ EdgeOf(2 * e + 1) = e /\ Backward(2 * e + 1)
      BY EdgeArcs
    <3>2. red = PlainLength(g, 2 * e) + Potential(g, StartNode(g, 2 * e)) - Potential(g, EndNode(g, 2 * e))
      BY <3>1, NetArcs
    <3>3. PlainLength(g, 2 * e) = l /\ StartNode(g, 2 * e) = g.ends[e][1] /\ EndNode(g, 2 * e) = g.ends[e][2]
      BY <3>1 DEF PlainLength, StartNode, EndNode
    <3>. QED BY <1>1, <1>2, <3>2, <3>3
  <2>4. 0 <= b /\ b <= g.ucap[e] /\ g.ucap[e] \in Nat
    BY NetParts DEF Fits, SameButFlow
  <2>5. red \in Int /\ (red < 0 => g.ucap[e] - a <= 0) /\ (red > 0 => a <= 0)
    <3>1. /\ 2 * e \in Arc /\ EdgeOf(2 * e) = e /\ ~Backward(2 * e) /\ Twin(2 * e) = 2 * e + 1
          /\ 2 * e + 1 \in Arc /\ EdgeOf(2 * e + 1) = e /\ Backward(2 * e + 1)
      BY EdgeArcs
    <3>2. red \in Int /\ RedLength(g, 2 * e + 1) = -red
      BY <3>1, NetArcs
    <3>3. ResCap(g, 2 * e) = g.ucap[e] - a /\ ResCap(g, 2 * e + 1) = a
      BY <3>1 DEF ResCap, Sub, UCap
    <3>4. g.ucap[e] - a > 0 => red >= 0
      BY <3>1, <3>3 DEF Slack, ResArcs
    <3>5. a > 0 => -red >= 0
      BY <3>1, <3>2, <3>3 DEF Slack, ResArcs
    <3>. HIDE DEF red, a
    <3>. QED BY <2>1, <2>4, <3>2, <3>4, <3>5
  <2>6. r[e] = red * (b - a) /\ fh[e] = l * b /\ fg[e] = l * a
    BY <1>1
  <2>. HIDE DEF l, a, b, pz, py, red
  <2>7. red * (b - a) \in Int /\ red * (b - a) >= 0
    <3>1. \A u, w \in Nat : u * w \in Nat
      OBVIOUS
    <3>2. CASE red >= 0
      <4>1. CASE red = 0
        <5>1. b - a \in Int /\ \A w \in Int : 0 * w = 0
          BY <2>1
        <5>. QED BY <4>1, <5>1
      <4>2. CASE red > 0
        <5>1. red \in Nat /\ b - a \in Nat
          BY <2>1, <2>4, <2>5, <4>2
        <5>2. red * (b - a) \in Nat
          BY <3>1, <5>1
        <5>. QED BY <5>2
      <4>. QED BY <2>5, <3>2, <4>1, <4>2
    <3>3. CASE red < 0
      <4>1. -red \in Nat /\ a - b \in Nat
        BY <2>1, <2>4, <2>5, <3>3
      <4>2. (-red) * (a - b) \in Nat
        BY <3>1, <4>1
      <4>3. (-red) * (a - b) = red * (b - a)
        BY <2>1, <2>5
      <4>. QED BY <4>2, <4>3
    <3>. QED BY <2>5, <3>2, <3>3
  <2>8. (py - pz) * (b - a) \in Int /\ l * a \in Int /\ l * b \in Int
    BY <2>1
  <2>9. l * b = l * a + (red * (b - a) + (py - pz) * (b - a))
    <3>1. red * (b - a) + (py - pz) * (b - a) = (red + (py - pz)) * (b - a)
      BY <2>1, <2>5
    <3>2. red + (py - pz) = l
      BY <2>1, <2>3
    <3>3. l * b = l * a + l * (b - a)
      BY <2>1
    <3>. QED BY <3>1, <3>2, <3>3
  <2>. QED BY <2>2, <2>6, <2>7, <2>8, <2>9
<1>10. SumBelow(fh, m) = SumBelow(fg, m) + SumBelow(rq, m)
  <2>1. \A i \in 0 .. m - 1 : fg[i] \in Int /\ rq[i] \in Int /\ fh[i] = fg[i] + rq[i]
    BY <1>1, <1>9 DEF Edge
  <2>. QED BY <2>1, Sizes, SumAdd
<1>11. SumBelow(rq, m) = SumBelow(r, m) + SumBelow(q, m)
  <2>1. \A i \in 0 .. m - 1 : r[i] \in Int /\ q[i] \in Int /\ rq[i] = r[i] + q[i]
    BY <1>1, <1>9 DEF Edge
  <2>. QED BY <2>1, Sizes, SumAdd
<1>12. 0 <= SumBelow(r, m)
  <2>1. \A i \in 0 .. m - 1 : zero[i] = 0
    BY <1>1 DEF Edge
  <2>2. SumBelow(zero, m) = 0
    BY <2>1, Sizes, SumZero
  <2>3. \A i \in 0 .. m - 1 : zero[i] \in Int /\ r[i] \in Int /\ zero[i] <= r[i]
    BY <1>9, <2>1 DEF Edge
  <2>4. SumBelow(zero, m) <= SumBelow(r, m)
    BY <2>3, Sizes, SumLe
  <2>. QED BY <2>2, <2>4
<1>13. SumBelow(fg, m) \in Int /\ SumBelow(r, m) \in Int
  <2>1. (\A i \in 0 .. m - 1 : fg[i] \in Int) /\ (\A i \in 0 .. m - 1 : r[i] \in Int)
    BY <1>9 DEF Edge
  <2>. QED BY <2>1, Sizes, SumStep
<1>. QED BY <1>4, <1>8, <1>10, <1>11, <1>12, <1>13
-------------------------------------------------------------------------------
(* The inductive invariant.                                                  *)

SimplexSteps == {"free", "shrink", "expand", "price", "pivot", "reverse", "correct", "final", "unbounded"}

(* Which steps a method goes through.                                        *)
StepsOfMethods ==
  /\ proc \in BFlow \union Pseudo \union STFlow
  /\ proc = "SIMPLEX" => step \in SimplexSteps \union {"call", "done", "aborted"}
  /\ proc = "CYCLE" => step \in {"call", "first", "cycle", "slack", "done", "aborted"}
  /\ proc \in Pseudo => step \in {"call", "saturate", "path", "phase", "report", "done"}
  /\ proc \in STFlow => step \in {"call", "path", "report", "done", "rejected", "aborted"}

(* The network, the flow and the labels at hand.                             *)
NetworkKept ==
  /\ step = "call" => \E c \in CostCalls : proc = c.proc /\ G = c.G
  /\ proc # "SIMPLEX" => G \in Nets /\ Fits(G) /\ dist \in [Node -> Int] \union {NoLabels}
  /\ proc \in {"CYCLE"} \union STFlow => G.delta = 0
  /\ proc \in STFlow /\ step \in {"path", "report"} => Balanced(G) /\ deficit = Deficiency(G, t)
  /\ proc \in STFlow /\ step = "report" => deficit = 0
  /\ proc = "CYCLE" /\ step \in {"first", "cycle", "slack"} => IsBFlow(G)

(* Where no residual arc is negative.                                        *)
SlackWhere ==
  /\ step \in {"path", "phase"} /\ proc # "ST_SAP" => Slack(G)
  /\ step = "report" /\ running /\ proc # "ST_SAP" => Slack(G) /\ G.delta = 0
  /\ step = "slack" /\ running =>
       /\ NegativeCycles(G, Walks(G, ResArcs(G))) = {}
       /\ dist = Distances(G, Walks(G, ResArcs(G)), Node)

(* What is returned.                                                         *)
ResultKept ==
  step = "done" /\ proc # "SIMPLEX" /\ ret # InfFloat =>
    /\ ret = Weight(G) /\ IsBFlow(G)
    /\ running /\ proc # "ST_SAP" => Slack(G) /\ G.delta = 0

CostInv == StepsOfMethods /\ NetworkKept /\ SlackWhere /\ ResultKept

LEMMA Ends == s \in Node /\ t \in Node /\ s # t
BY Sizes DEF s, t, Node

LEMMA SameFlow ==
  ASSUME NEW g, NEW h, h.sub = g.sub, h.ends = g.ends, h.demand = g.demand, h.length = g.length
  PROVE  /\ \A v : Deficiency(h, v) = Deficiency(g, v)
         /\ IsBFlow(h) = IsBFlow(g) /\ Balanced(h) = Balanced(g) /\ Weight(h) = Weight(g)
<1>1. \A v : Deficiency(h, v) = Deficiency(g, v)
  BY DEF Deficiency, Divergence
<1>2. Weight(h) = Weight(g)
  BY DEF Weight
<1>. QED BY <1>1, <1>2 DEF IsBFlow, Balanced

LEMMA DeficiencyInt ==
  ASSUME NEW g \in Nets, NEW v \in Node
  PROVE  Deficiency(g, v) \in Int
<1>1. g.demand[v] \in Int
  BY NetParts
<1>2. Divergence(g, v) \in Int
  BY DivergenceIs
<1>. QED BY <1>1, <1>2 DEF Deficiency

LEMMA CalledNet ==
  ASSUME NEW g, IsCostNetwork(g)
  PROVE  g \in Nets /\ Fits(g) /\ g.delta = 0
<1>. DEFINE R1 == [ends : [Edge -> Node \X Node], orientation : [Edge -> {1}], length : [Edge -> Int],
                   ucap : [Edge -> 0 .. InfCap], sub : [Edge -> Nat], demand : [Node -> Int],
                   potential : [Node -> Int] \union {NoLabels}, delta : {0}]
<1>1. g \in R1 /\ \A e \in Edge : g.sub[e] <= g.ucap[e]
  BY DEF IsCostNetwork
<1>2. /\ g = [ends |-> g.ends, orientation |-> g.orientation, length |-> g.length, ucap |-> g.ucap,
              sub |-> g.sub, demand |-> g.demand, potential |-> g.potential, delta |-> g.delta]
      /\ g.ends \in [Edge -> Node \X Node] /\ g.orientation \in [Edge -> {1}]
      /\ g.length \in [Edge -> Int] /\ g.ucap \in [Edge -> 0 .. InfCap] /\ g.sub \in [Edge -> Nat]
      /\ g.demand \in [Node -> Int] /\ g.potential \in [Node -> Int] \union {NoLabels} /\ g.delta = 0
  BY <1>1
<1>3. g.sub \in [Edge -> Int] /\ g.delta \in Nat /\ \A e \in Edge : 0 <= g.sub[e]
  BY <1>2
<1>4. g \in Nets
  BY <1>2, <1>3 DEF Nets
<1>. QED BY <1>1, <1>2, <1>3, <1>4 DEF Fits

LEMMA StartInv ==
  ASSUME Init
  PROVE  CostInv
<1>1. PICK c \in CostCalls : Start(c)
  BY DEF Init
<1>2. proc = c.proc /\ G = c.G /\ step = "call" /\ dist = NoLabels
  BY <1>1 DEF Start
<1>3. c.proc \in BFlow \union Pseudo \union STFlow /\ IsCostNetwork(c.G)
  BY CostCallsAssumption
<1>4. G \in Nets /\ Fits(G) /\ G.delta = 0
  BY <1>2, <1>3, CalledNet
<1>5. StepsOfMethods
  BY <1>2, <1>3 DEF StepsOfMethods
<1>6. NetworkKept
  BY <1>2, <1>4 DEF NetworkKept
<1>7. SlackWhere /\ ResultKept
  BY <1>2 DEF SlackWhere, ResultKept
<1>. QED BY <1>5, <1>6, <1>7 DEF CostInv

LEMMA SimplexKeeps ==
  ASSUME proc = "SIMPLEX", proc' = proc, step' \in SimplexSteps \union {"done", "aborted"}
  PROVE  CostInv'
<1>1. StepsOfMethods'
  BY DEF StepsOfMethods, BFlow, Pseudo, STFlow
<1>2. NetworkKept'
  BY DEF NetworkKept, STFlow, SimplexSteps
<1>3. SlackWhere' /\ ResultKept'
  BY DEF SlackWhere, ResultKept, SimplexSteps
<1>. QED BY <1>1, <1>2, <1>3 DEF CostInv

LEMMA SimplexInv ==
  ASSUME CostInv, SimplexWork
  PROVE  CostInv'
<1>. DEFINE T == SimplexSteps \union {"done", "aborted"}
            Moves == step \in SimplexSteps /\ proc' = proc /\ step' \in T
<1>1. Descend => Moves
  BY DEF Descend, flowVars, SimplexSteps
<1>2. CancelFree => Moves
  BY DEF CancelFree, SimplexSteps
<1>3. Retreat => Moves
  BY DEF Retreat, flowVars, SimplexSteps
<1>4. NextRoot => Moves
  BY DEF NextRoot, SimplexSteps
<1>5. Enter => Moves
  BY DEF Enter, flowVars, SimplexSteps
<1>6. EndShrinking => Moves
  BY DEF EndShrinking, SimplexSteps
<1>7. Expand => Moves
  BY DEF Expand, flowVars, SimplexSteps
<1>8. Index => Moves
  BY DEF Index, SimplexSteps
<1>9. Pivot => Moves
  BY DEF Pivot, SimplexSteps
<1>10. Turn => Moves
  BY DEF Turn, flowVars, SimplexSteps
<1>11. Attach => Moves
  BY DEF Attach, SimplexSteps
<1>12. Correct => Moves
  BY DEF Correct, SimplexSteps
<1>13. Final => Moves
  BY DEF Final, Returns, Aborts, SimplexSteps
<1>14. ASSUME NEW arc, NEW hot, NEW next, PivotArc(arc, hot, next) PROVE Moves
  BY <1>14 DEF PivotArc, SimplexSteps
<1>. HIDE DEF Moves
<1>15. DantzigPricing => Moves
  BY <1>14 DEF DantzigPricing
<1>16. FirstEligiblePricing => Moves
  BY <1>14 DEF FirstEligiblePricing
<1>17. PartialPricing => Moves
  BY <1>14 DEF PartialPricing
<1>18. MultiplePartialPricing => Moves
  BY <1>14 DEF MultiplePartialPricing
<1>19. Moves
  BY <1>1, <1>2, <1>3, <1>4, <1>5, <1>6, <1>7, <1>8, <1>9, <1>10, <1>11, <1>12, <1>13,
     <1>15, <1>16, <1>17, <1>18 DEF SimplexWork
<1>20. proc = "SIMPLEX"
  <2>1. step \in SimplexSteps /\ StepsOfMethods
    BY <1>19 DEF Moves, CostInv
  <2>. QED BY <2>1 DEF StepsOfMethods, SimplexSteps, BFlow, Pseudo, STFlow
<1>. QED BY <1>19, <1>20, SimplexKeeps DEF Moves

LEMMA StopInv ==
  ASSUME CostInv, Stop \/ UNCHANGED flowVars
  PROVE  CostInv'
<1>1. /\ UNCHANGED <<proc, G, step, ret, dist, deficit>>
      /\ running' => running
  BY DEF Stop, flowVars
<1>2. StepsOfMethods'
  BY <1>1 DEF CostInv, StepsOfMethods
<1>3. NetworkKept'
  BY <1>1 DEF CostInv, NetworkKept
<1>4. SlackWhere'
  BY <1>1 DEF CostInv, SlackWhere
<1>5. ResultKept'
  BY <1>1 DEF CostInv, ResultKept
<1>. QED BY <1>2, <1>3, <1>4, <1>5 DEF CostInv

LEMMA BFlowsAre ==
  ASSUME NEW g \in Nets, NEW h \in BFlows(g)
  PROVE  h \in Nets /\ Fits(h) /\ IsBFlow(h) /\ h.delta = g.delta
<1>1. PICK f \in [Edge -> 0 .. Most] : /\ \A e \in Edge : f[e] <= g.ucap[e]
                                       /\ h = [g EXCEPT !.sub = f] /\ IsBFlow(h)
  BY DEF BFlows
<1>2. f \in [Edge -> Int] /\ \A e \in Edge : 0 <= f[e]
  BY CostAssumption
<1>3. h \in Nets /\ SameButFlow(g, h) /\ h.sub = f
  BY <1>1, <1>2, WithFlow
<1>. QED BY <1>1, <1>2, <1>3 DEF Fits, SameButFlow

LEMMA InfeasibleInv ==
  ASSUME CostInv, Infeasible
  PROVE  CostInv'
<1>1. proc' = proc /\ G' = G /\ dist' = dist /\ proc \in BFlow /\ step' = "done" /\ ret' = InfFloat
  BY DEF Infeasible, Returns
<1>2. CASE proc = "SIMPLEX"
  BY <1>1, <1>2, SimplexKeeps
<1>3. CASE proc = "CYCLE"
  <2>1. StepsOfMethods'
    BY <1>1, <1>3 DEF StepsOfMethods, BFlow, Pseudo, STFlow
  <2>2. NetworkKept'
    BY <1>1, <1>3 DEF CostInv, NetworkKept, STFlow
  <2>3. SlackWhere' /\ ResultKept'
    BY <1>1 DEF SlackWhere, ResultKept
  <2>. QED BY <2>1, <2>2, <2>3 DEF CostInv
<1>. QED BY <1>1, <1>2, <1>3 DEF BFlow

LEMMA AdmissibleInv ==
  ASSUME CostInv, AdmissibleBFlow
  PROVE  CostInv'
<1>1. /\ proc' = proc /\ dist' = dist /\ proc \in BFlow /\ G' \in BFlows(G)
      /\ step' = IF proc = "CYCLE" THEN "first" ELSE "free"
  BY DEF AdmissibleBFlow
<1>2. CASE proc = "SIMPLEX"
  <2>1. step' = "free"
    BY <1>1, <1>2
  <2>. QED BY <1>1, <1>2, <2>1, SimplexKeeps DEF SimplexSteps
<1>3. CASE proc = "CYCLE"
  <2>0. /\ step' = "first" /\ G \in Nets /\ dist \in [Node -> Int] \union {NoLabels} /\ G.delta = 0
    BY <1>1, <1>3 DEF CostInv, NetworkKept
  <2>1. G' \in Nets /\ Fits(G') /\ IsBFlow(G') /\ G'.delta = 0
    BY <1>1, <2>0, BFlowsAre
  <2>2. StepsOfMethods'
    BY <1>1, <1>3, <2>0 DEF StepsOfMethods, BFlow, Pseudo, STFlow
  <2>3. NetworkKept'
    BY <1>1, <1>3, <2>0, <2>1 DEF NetworkKept, STFlow
  <2>4. SlackWhere' /\ ResultKept'
    BY <2>0 DEF SlackWhere, ResultKept
  <2>. QED BY <2>2, <2>3, <2>4 DEF CostInv
<1>. QED BY <1>1, <1>2, <1>3 DEF BFlow

-------------------------------------------------------------------------------
(* Cycle cancelling.                                                         *)

LEMMA OfCycle ==
  ASSUME CostInv, step \in {"first", "cycle", "slack"}
  PROVE  proc = "CYCLE" /\ G \in Nets /\ Fits(G) /\ G.delta = 0 /\ IsBFlow(G) /\ dist \in [Node -> Int] \union {NoLabels}
<1>1. proc = "CYCLE"
  BY DEF CostInv, StepsOfMethods, SimplexSteps, BFlow, Pseudo, STFlow
<1>. QED BY <1>1 DEF CostInv, NetworkKept

LEMMA EnterCyclesInv ==
  ASSUME CostInv, EnterCycles
  PROVE  CostInv'
<1>1. step = "first" /\ proc' = proc /\ G' = ZeroPotentials(G) /\ step' = "cycle" /\ dist' = dist
  BY DEF EnterCycles
<1>2. proc = "CYCLE" /\ G \in Nets /\ Fits(G) /\ G.delta = 0 /\ IsBFlow(G) /\ dist \in [Node -> Int] \union {NoLabels}
  BY <1>1, OfCycle
<1>. DEFINE p == [v \in Node |-> 0]
<1>3. p \in [Node -> Int] /\ G' = [G EXCEPT !.potential = p]
  BY <1>1 DEF ZeroPotentials
<1>. HIDE DEF p
<1>4. /\ G' \in Nets /\ G'.sub = G.sub /\ G'.delta = G.delta /\ G'.ucap = G.ucap /\ G'.demand = G.demand
      /\ G'.ends = G.ends /\ G'.length = G.length
  BY <1>2, <1>3, NewPotentials
<1>5. IsBFlow(G') /\ Fits(G') /\ G'.delta = 0
  BY <1>2, <1>4, SameFlow DEF Fits
<1>6. StepsOfMethods'
  BY <1>1, <1>2 DEF StepsOfMethods, BFlow, Pseudo, STFlow
<1>7. NetworkKept'
  BY <1>1, <1>2, <1>4, <1>5 DEF NetworkKept, STFlow
<1>8. SlackWhere' /\ ResultKept'
  BY <1>1 DEF SlackWhere, ResultKept
<1>. QED BY <1>6, <1>7, <1>8 DEF CostInv

LEMMA CycleLabelsAre == CycleLabels \in SUBSET [Node -> Int]
  BY DEF CycleLabels, Node

LEMMA CancelCycleInv ==
  ASSUME CostInv, CancelCycle
  PROVE  CostInv'
<1>1. /\ step = "cycle" /\ proc' = proc
      /\ \E cycle \in NegativeCycles(G, Walks(G, ResArcs(G))) :
           IF FindCap(G, cycle) = InfCap
           THEN Aborts /\ UNCHANGED <<G, dist>>
           ELSE /\ SetUpperBound(Weight(G))
                /\ G' = Augment(G, cycle, FindCap(G, cycle))
                /\ dist' \in CycleLabels
                /\ UNCHANGED <<step, ret>>
  BY DEF CancelCycle
<1>2. proc = "CYCLE" /\ G \in Nets /\ Fits(G) /\ G.delta = 0 /\ IsBFlow(G) /\ dist \in [Node -> Int] \union {NoLabels}
  BY <1>1, OfCycle
<1>3. CASE Aborts /\ UNCHANGED <<G, dist>>
  <2>1. step' = "aborted" /\ G' = G /\ dist' = dist
    BY <1>3 DEF Aborts
  <2>2. StepsOfMethods'
    BY <1>1, <1>2, <2>1 DEF StepsOfMethods, BFlow, Pseudo, STFlow
  <2>3. NetworkKept'
    BY <1>1, <1>2, <2>1 DEF NetworkKept, STFlow
  <2>4. SlackWhere' /\ ResultKept'
    BY <2>1 DEF SlackWhere, ResultKept
  <2>. QED BY <2>2, <2>3, <2>4 DEF CostInv
<1>4. ASSUME NEW w \in NegativeCycles(G, Walks(G, ResArcs(G))), G' = Augment(G, w, FindCap(G, w)),
             dist' \in CycleLabels, UNCHANGED <<step, ret>>
      PROVE  CostInv'
  <2>. DEFINE A == ResArcs(G)
              x == FindCap(G, w)
  <2>1. A \in SUBSET Arc
    BY DEF ResArcs
  <2>2. w \in Walks(G, A) /\ From(G, w) = To(G, w)
    BY DEF NegativeCycles
  <2>3. IsWalk(G, A, w) /\ Len(w) \in 1 .. n
    BY <1>2, <2>1, <2>2, WalksAre
  <2>4. EdgesOnce(w)
    BY <1>2, <2>1, CycleEdgesOnce
  <2>5. w \in Seq(Arc) /\ Len(w) > 0 /\ Len(w) \in Nat
    BY <2>1, <2>3, Sizes DEF IsWalk
  <2>6. x \in Nat /\ \A i \in 1 .. Len(w) : x <= ResCap(G, w[i])
    BY <1>2, <2>5, FindCapIs
  <2>. HIDE DEF x, A
  <2>7. G' \in Nets /\ SameButFlow(G, G')
    BY <1>2, <1>4, <2>5, <2>6, AugmentIs DEF x
  <2>8. Fits(G')
    BY <1>2, <1>4, <2>4, <2>5, <2>6, AugmentFits DEF x
  <2>9. IsBFlow(G')
    <3>1. ASSUME NEW v \in Node PROVE Deficiency(G', v) = 0
      <4>1. Divergence(G', v) = Divergence(G, v) + Delta(x, To(G, w) = v) - Delta(x, From(G, w) = v)
        BY <1>2, <1>4, <2>1, <2>3, <2>5, <2>6, AugmentDivergence DEF x
      <4>2. Divergence(G, v) \in Int /\ Delta(x, To(G, w) = v) \in Int
        <5>1. Divergence(G, v) \in Int
          BY <1>2, DivergenceIs
        <5>. QED BY <2>6, <5>1 DEF Delta
      <4>3. Divergence(G', v) = Divergence(G, v)
        BY <2>2, <4>1, <4>2
      <4>4. G'.demand = G.demand
        BY <2>7 DEF SameButFlow
      <4>. QED BY <1>2, <4>3, <4>4 DEF IsBFlow, Deficiency
    <3>. QED BY <3>1 DEF IsBFlow
  <2>10. dist' \in [Node -> Int]
    BY <1>4, CycleLabelsAre
  <2>11. G'.delta = 0
    BY <1>2, <2>7 DEF SameButFlow
  <2>12. StepsOfMethods'
    BY <1>1, <1>2, <1>4 DEF StepsOfMethods, BFlow, Pseudo, STFlow
  <2>13. NetworkKept'
    BY <1>1, <1>2, <1>4, <2>7, <2>8, <2>9, <2>10, <2>11 DEF NetworkKept, STFlow
  <2>14. SlackWhere' /\ ResultKept'
    BY <1>1, <1>4 DEF SlackWhere, ResultKept
  <2>. QED BY <2>12, <2>13, <2>14 DEF CostInv
<1>. QED BY <1>1, <1>3, <1>4

LEMMA NoCycleInv ==
  ASSUME CostInv, NoCycle
  PROVE  CostInv'
<1>. DEFINE W == Walks(G, ResArcs(G))
<1>1. /\ step = "cycle" /\ step' = "slack" /\ proc' = proc /\ G' = G /\ running' = running
      /\ running => NegativeCycles(G, W) = {} /\ dist' = Distances(G, W, Node)
      /\ ~running => dist' = dist
  BY DEF NoCycle
<1>2. proc = "CYCLE" /\ G \in Nets /\ Fits(G) /\ G.delta = 0 /\ IsBFlow(G) /\ dist \in [Node -> Int] \union {NoLabels}
  BY <1>1, OfCycle
<1>3. ResArcs(G) \in SUBSET Arc
  BY DEF ResArcs
<1>4. Distances(G, W, Node) \in [Node -> Int]
  BY <1>2, <1>3, DistancesAre
<1>5. dist' \in [Node -> Int] \union {NoLabels}
  <2>1. CASE running
    BY <1>1, <1>4, <2>1
  <2>2. CASE ~running
    BY <1>1, <1>2, <2>2
  <2>. QED BY <2>1, <2>2
<1>6. StepsOfMethods'
  BY <1>1, <1>2 DEF StepsOfMethods, BFlow, Pseudo, STFlow
<1>7. NetworkKept'
  BY <1>1, <1>2, <1>5 DEF NetworkKept, STFlow
<1>8. SlackWhere' /\ ResultKept'
  BY <1>1 DEF SlackWhere, ResultKept
<1>. QED BY <1>6, <1>7, <1>8 DEF CostInv

(* The distances of all nodes prove a flow that leaves no negative cycle.    *)
LEMMA SlackAfterCycles ==
  ASSUME NEW g \in Nets, NegativeCycles(g, Walks(g, ResArcs(g))) = {},
         NEW d, d = Distances(g, Walks(g, ResArcs(g)), Node)
  PROVE  Slack(UpdatePotentials(g, d, 0))
<1>. DEFINE A == ResArcs(g)
            q == UpdatePotentials(g, d, 0)
<1>1. A \in SUBSET Arc
  BY DEF ResArcs
<1>2. d \in [Node -> Int] /\ \A v \in Node : d[v] <= 0
  BY <1>1, DistancesAre
<1>3. \A v \in Node : d[v] \in Int /\ d[v] <= 0 /\ d[v] # InfFloat /\ Cut(d, v, 0) = d[v]
  BY <1>2, Sizes DEF Cut
<1>4. /\ q \in Nets /\ q.delta = g.delta
      /\ \A a \in Arc : /\ ResCap(q, a) = ResCap(g, a)
                        /\ RedLength(q, a) = RedLength(g, a) + Cut(d, StartNode(g, a), 0) - Cut(d, EndNode(g, a), 0)
  <2>. DEFINE c == 0
  <2>1. c \in Int
    OBVIOUS
  <2>. HIDE DEF c
  <2>2. LET r == UpdatePotentials(g, d, c) IN
        /\ r \in Nets /\ r.delta = g.delta
        /\ \A a \in Arc : /\ ResCap(r, a) = ResCap(g, a)
                          /\ RedLength(r, a) = RedLength(g, a) + Cut(d, StartNode(g, a), c) - Cut(d, EndNode(g, a), c)
    BY <1>2, <2>1, UpdateIs
  <2>. QED BY <2>2 DEF c
<1>. HIDE DEF q
<1>5. ASSUME NEW a \in ResArcs(q) PROVE RedLength(q, a) >= 0
  <2>. DEFINE u == StartNode(g, a)
              v == EndNode(g, a)
  <2>1. a \in Arc /\ a \in A
    BY <1>4 DEF ResArcs
  <2>2. u \in Node /\ v \in Node /\ RedLength(g, a) \in Int
    BY <2>1, NetArcs
  <2>3. d[v] <= d[u] + RedLength(g, a)
    BY <1>1, <1>3, <2>1, <2>2, Triangle
  <2>4. RedLength(q, a) = RedLength(g, a) + d[u] - d[v]
    BY <1>3, <1>4, <2>1, <2>2
  <2>5. d[u] \in Int /\ d[v] \in Int
    BY <1>3, <2>2
  <2>. HIDE DEF u, v
  <2>. QED BY <2>2, <2>3, <2>4, <2>5
<1>. QED BY <1>5 DEF Slack, q

LEMMA LeaveCyclesInv ==
  ASSUME CostInv, LeaveCycles
  PROVE  CostInv'
<1>1. step = "slack" /\ proc' = proc /\ dist' = dist /\ running' = running
  BY DEF LeaveCycles
<1>2. proc = "CYCLE" /\ G \in Nets /\ Fits(G) /\ G.delta = 0 /\ IsBFlow(G) /\ dist \in [Node -> Int] \union {NoLabels}
  BY <1>1, OfCycle
<1>3. CASE dist = NoLabels
  <2>1. step' = "aborted" /\ G' = G
    BY <1>3 DEF LeaveCycles, Aborts
  <2>2. StepsOfMethods'
    BY <1>1, <1>2, <2>1 DEF StepsOfMethods, BFlow, Pseudo, STFlow
  <2>3. NetworkKept'
    BY <1>1, <1>2, <2>1 DEF NetworkKept, STFlow
  <2>4. SlackWhere' /\ ResultKept'
    BY <2>1 DEF SlackWhere, ResultKept
  <2>. QED BY <2>2, <2>3, <2>4 DEF CostInv
<1>4. CASE dist # NoLabels
  <2>1. G' = UpdatePotentials(G, dist, 0) /\ step' = "done" /\ ret' = Weight(G) /\ dist \in [Node -> Int]
    BY <1>2, <1>4 DEF LeaveCycles, Returns
  <2>2. /\ G' \in Nets /\ G'.sub = G.sub /\ G'.delta = G.delta /\ G'.ucap = G.ucap /\ G'.demand = G.demand
        /\ G'.ends = G.ends /\ G'.length = G.length
    <3>. DEFINE c == 0
    <3>1. c \in Int
      OBVIOUS
    <3>. HIDE DEF c
    <3>2. LET q == UpdatePotentials(G, dist, c) IN
          /\ q \in Nets /\ q.sub = G.sub /\ q.delta = G.delta /\ q.ucap = G.ucap /\ q.demand = G.demand
          /\ q.ends = G.ends /\ q.length = G.length
      BY <1>2, <2>1, <3>1, UpdateIs
    <3>. QED BY <2>1, <3>2 DEF c
  <2>3. IsBFlow(G') /\ Fits(G') /\ G'.delta = 0 /\ Weight(G') = Weight(G)
    BY <1>2, <2>2, SameFlow DEF Fits
  <2>4. running => Slack(G')
    BY <1>1, <1>2, <2>1, SlackAfterCycles DEF CostInv, SlackWhere
  <2>5. StepsOfMethods'
    BY <1>1, <1>2, <2>1 DEF StepsOfMethods, BFlow, Pseudo, STFlow
  <2>6. NetworkKept'
    BY <1>1, <1>2, <2>1, <2>2, <2>3 DEF NetworkKept, STFlow
  <2>7. SlackWhere'
    BY <2>1 DEF SlackWhere
  <2>8. ResultKept'
    BY <1>1, <2>1, <2>3, <2>4 DEF ResultKept
  <2>. QED BY <2>5, <2>6, <2>7, <2>8 DEF CostInv
<1>. QED BY <1>3, <1>4

-------------------------------------------------------------------------------
(* Capacity scaling.                                                         *)

LEMMA NewDelta ==
  ASSUME NEW g \in Nets, NEW D \in Nat, NEW q, q = [g EXCEPT !.delta = D]
  PROVE  /\ q \in Nets /\ q.delta = D /\ q.sub = g.sub /\ q.ends = g.ends /\ q.length = g.length
         /\ q.demand = g.demand /\ q.ucap = g.ucap /\ q.potential = g.potential
         /\ Fits(g) => Fits(q)
         /\ D = g.delta /\ Slack(g) => Slack(q)
<1>1. /\ g = [ends |-> g.ends, orientation |-> g.orientation, length |-> g.length, ucap |-> g.ucap,
              sub |-> g.sub, demand |-> g.demand, potential |-> g.potential, delta |-> g.delta]
      /\ g.ends \in [Edge -> Node \X Node] /\ g.orientation \in [Edge -> {1}]
      /\ g.length \in [Edge -> Int] /\ g.ucap \in [Edge -> 0 .. InfCap] /\ g.sub \in [Edge -> Int]
      /\ g.demand \in [Node -> Int] /\ g.potential \in [Node -> Int] \union {NoLabels} /\ g.delta \in Nat
  BY NetParts
<1>2. q = [ends |-> g.ends, orientation |-> g.orientation, length |-> g.length, ucap |-> g.ucap,
           sub |-> g.sub, demand |-> g.demand, potential |-> g.potential, delta |-> D]
  BY <1>1
<1>3. q \in Nets
  BY <1>1, <1>2 DEF Nets
<1>4. /\ q.delta = D /\ q.sub = g.sub /\ q.ends = g.ends /\ q.length = g.length
      /\ q.demand = g.demand /\ q.ucap = g.ucap /\ q.potential = g.potential
  BY <1>2
<1>5. D = g.delta => q = g
  BY <1>1, <1>2
<1>6. Fits(g) => Fits(q)
  BY <1>4 DEF Fits
<1>7. D = g.delta /\ Slack(g) => Slack(q)
  BY <1>5
<1>. QED BY <1>3, <1>4, <1>6, <1>7

LEMMA MaxUCapIs ==
  ASSUME G \in Nets
  PROVE  MaxUCap \in Nat
<1>. DEFINE S == {0} \union {G.ucap[e] : e \in Edge}
            T == {InfCap - x : x \in S}
<1>1. S \in SUBSET (0 .. InfCap) /\ 0 \in S
  <2>1. \A e \in Edge : G.ucap[e] \in 0 .. InfCap
    BY NetParts
  <2>. QED BY <2>1, Sizes
<1>2. MaxUCap = Greatest(S)
  BY DEF MaxUCap
<1>. HIDE DEF S
<1>3. T \in SUBSET Nat /\ T # {}
  BY <1>1, Sizes
<1>4. PICK k \in T : \A j \in T : k <= j
  BY <1>3, LeastNumber
<1>5. PICK x \in S : k = InfCap - x
  BY <1>4
<1>6. ASSUME NEW y \in S PROVE x >= y
  <2>1. InfCap - y \in T /\ x \in Int /\ y \in Int
    BY <1>1
  <2>2. InfCap - x <= InfCap - y
    BY <1>4, <1>5, <2>1
  <2>. QED BY <2>1, <2>2, Sizes
<1>7. \E z \in S : \A y \in S : z >= y
  BY <1>6
<1>8. Greatest(S) \in S
  BY <1>7 DEF Greatest
<1>9. Greatest(S) \in 0 .. InfCap
  BY <1>1, <1>8
<1>. QED BY ONLY <1>2, <1>9, Sizes

LEMMA EnterScalingInv ==
  ASSUME CostInv, EnterScaling
  PROVE  CostInv'
<1>. DEFINE D == IF proc = "CAPA" THEN Max({0, MaxUCap - 1}) ELSE 0
            p == [v \in Node |-> Potential(G, v)]
            h == [G EXCEPT !.potential = p]
<1>1. /\ proc \in Pseudo /\ proc' = proc /\ dist' = dist /\ running' = running
      /\ G' = [h EXCEPT !.delta = D]
      /\ step' = IF running THEN "saturate" ELSE "report"
  BY DEF EnterScaling, RawPotentials
<1>2. proc # "SIMPLEX" /\ proc # "CYCLE" /\ proc \notin STFlow
  BY <1>1 DEF Pseudo, STFlow
<1>3. G \in Nets /\ Fits(G) /\ dist \in [Node -> Int] \union {NoLabels}
  BY <1>2 DEF CostInv, NetworkKept
<1>4. D \in Nat
  <2>1. MaxUCap \in Nat
    BY <1>3, MaxUCapIs
  <2>. DEFINE a == 0
              b == MaxUCap - 1
  <2>2. a \in Int /\ b \in Int
    BY <2>1
  <2>. HIDE DEF a, b
  <2>3. Max({a, b}) = IF a >= b THEN a ELSE b
    BY ONLY <2>2, MinOfTwo
  <2>4. Max({a, b}) \in Nat
    BY <2>2, <2>3 DEF a
  <2>5. Max({0, MaxUCap - 1}) \in Nat
    BY ONLY <2>4 DEF a, b
  <2>. QED BY <2>5
<1>5. p \in [Node -> Int]
  BY <1>3, NetParts
<1>. HIDE DEF D, p, h
<1>6. h \in Nets /\ h.sub = G.sub /\ h.ucap = G.ucap
  BY <1>3, <1>5, NewPotentials DEF h
<1>7. Fits(h)
  BY <1>3, <1>6 DEF Fits
<1>8. G' \in Nets /\ Fits(G')
  BY <1>1, <1>4, <1>6, <1>7, NewDelta
<1>9. step' \in {"saturate", "report"} /\ (step' = "report" => ~running')
  BY <1>1
<1>10. StepsOfMethods'
  BY <1>1, <1>2, <1>9 DEF StepsOfMethods
<1>11. NetworkKept'
  BY <1>1, <1>2, <1>3, <1>8, <1>9 DEF NetworkKept
<1>12. SlackWhere' /\ ResultKept'
  BY <1>9 DEF SlackWhere, ResultKept
<1>. QED BY <1>10, <1>11, <1>12 DEF CostInv

LEMMA OfPseudo ==
  ASSUME CostInv, step \in {"saturate", "phase"}
  PROVE  /\ proc \in Pseudo /\ proc # "SIMPLEX" /\ proc # "CYCLE" /\ proc \notin STFlow
         /\ G \in Nets /\ Fits(G) /\ dist \in [Node -> Int] \union {NoLabels}
<1>1. proc \in Pseudo
  BY DEF CostInv, StepsOfMethods, SimplexSteps, BFlow, Pseudo, STFlow
<1>2. proc # "SIMPLEX" /\ proc # "CYCLE" /\ proc \notin STFlow
  BY <1>1 DEF Pseudo, STFlow
<1>. QED BY <1>1, <1>2 DEF CostInv, NetworkKept

LEMMA SaturateInv ==
  ASSUME CostInv, Saturate
  PROVE  CostInv'
<1>1. step = "saturate" /\ G' = Saturated(G) /\ step' = "path" /\ proc' = proc /\ dist' = dist
  BY DEF Saturate
<1>2. /\ proc \in Pseudo /\ proc # "SIMPLEX" /\ proc # "CYCLE" /\ proc \notin STFlow
      /\ G \in Nets /\ Fits(G) /\ dist \in [Node -> Int] \union {NoLabels}
  BY <1>1, OfPseudo
<1>3. G' \in Nets /\ Fits(G') /\ Slack(G')
  BY <1>1, <1>2, SaturatedIs
<1>4. StepsOfMethods'
  BY <1>1, <1>2 DEF StepsOfMethods
<1>5. NetworkKept'
  BY <1>1, <1>2, <1>3 DEF NetworkKept
<1>6. SlackWhere' /\ ResultKept'
  BY <1>1, <1>3 DEF SlackWhere, ResultKept
<1>. QED BY <1>4, <1>5, <1>6 DEF CostInv

LEMMA NextPhaseInv ==
  ASSUME CostInv, NextPhase
  PROVE  CostInv'
<1>1. /\ step = "phase" /\ G' = [G EXCEPT !.delta = Halved(G.delta)] /\ proc' = proc /\ dist' = dist
      /\ step' = (IF G.delta = 0 \/ ~running THEN "report" ELSE "saturate") /\ running' = running
  BY DEF NextPhase
<1>2. /\ proc \in Pseudo /\ proc # "SIMPLEX" /\ proc # "CYCLE" /\ proc \notin STFlow /\ proc # "ST_SAP"
      /\ G \in Nets /\ Fits(G) /\ dist \in [Node -> Int] \union {NoLabels}
  BY <1>1, OfPseudo DEF STFlow
<1>3. Slack(G)
  BY <1>1, <1>2 DEF CostInv, SlackWhere
<1>4. G.delta \in Nat /\ Halved(G.delta) \in Nat /\ (G.delta = 0 => Halved(G.delta) = 0)
  <2>1. G.delta \in Nat
    BY <1>2, NetParts
  <2>2. \A x \in Nat : x \div 2 \in Nat /\ (x = 0 => x \div 2 = 0)
    OBVIOUS
  <2>. QED BY <2>1, <2>2 DEF Halved
<1>5. G' \in Nets /\ Fits(G') /\ G'.delta = Halved(G.delta) /\ (Halved(G.delta) = G.delta => Slack(G'))
  BY <1>1, <1>2, <1>3, <1>4, NewDelta
<1>6. step' \in {"report", "saturate"} /\ (step' = "report" /\ running' => G.delta = 0)
  BY <1>1
<1>7. StepsOfMethods'
  BY <1>1, <1>2, <1>6 DEF StepsOfMethods
<1>8. NetworkKept'
  BY <1>1, <1>2, <1>5, <1>6 DEF NetworkKept
<1>9. SlackWhere' /\ ResultKept'
  BY <1>4, <1>5, <1>6 DEF SlackWhere, ResultKept
<1>. QED BY <1>7, <1>8, <1>9 DEF CostInv
-------------------------------------------------------------------------------
(* Flows from the source to the target.                                      *)

LEMMA CalledST ==
  ASSUME CostInv, step = "call", proc \in STFlow
  PROVE  /\ G \in Nets /\ Fits(G) /\ G.delta = 0 /\ Balanced(G) /\ dist \in [Node -> Int] \union {NoLabels}
         /\ proc = "ST_DIJKSTRA" =>
              \/ Slack(G)
              \/ /\ G.potential = NoLabels
                 /\ \A v \in Node : Distances(G, Walks(G, ResArcs(G)), {s})[v] # InfFloat
<1>1. PICK c \in CostCalls : proc = c.proc /\ G = c.G
  BY DEF CostInv, NetworkKept
<1>2. /\ c.proc \in STFlow => Balanced(c.G)
      /\ c.proc = "ST_DIJKSTRA" =>
           \/ Slack(c.G)
           \/ /\ c.G.potential = NoLabels
              /\ \A v \in Node : Distances(c.G, Walks(c.G, ResArcs(c.G)), {s})[v] # InfFloat
  BY CostCallsAssumption
<1>3. proc # "SIMPLEX"
  BY DEF STFlow
<1>4. G \in Nets /\ Fits(G) /\ G.delta = 0 /\ dist \in [Node -> Int] \union {NoLabels}
  BY <1>3 DEF CostInv, NetworkKept
<1>. QED BY <1>1, <1>2, <1>4

(* The search of EdmondsKarp for potentials: every node gets a label, and    *)
(* the labels fit the arcs.                                                  *)
LEMMA SlackByLabels ==
  ASSUME NEW g \in Nets, g.potential = NoLabels, NegativeCycles(g, Walks(g, ResArcs(g))) = {}, NEW X,
         NEW d, d = Distances(g, Walks(g, ResArcs(g)), X), \A v \in Node : d[v] # InfFloat,
         NEW q, q = [g EXCEPT !.potential = d]
  PROVE  /\ q \in Nets /\ q.sub = g.sub /\ q.delta = g.delta /\ q.ucap = g.ucap /\ q.demand = g.demand
         /\ q.ends = g.ends /\ q.length = g.length /\ Slack(q) /\ d \in [Node -> Int]
<1>1. ResArcs(g) \in SUBSET Arc
  BY DEF ResArcs
<1>2. d \in [Node -> Int]
  BY <1>1, DistancesAre
<1>3. /\ q \in Nets /\ q.sub = g.sub /\ q.delta = g.delta /\ q.ucap = g.ucap /\ q.demand = g.demand
      /\ q.ends = g.ends /\ q.length = g.length
      /\ \A a \in Arc : /\ ResCap(q, a) = ResCap(g, a)
                        /\ RedLength(q, a) = PlainLength(g, a) + d[StartNode(g, a)] - d[EndNode(g, a)]
  BY <1>2, NewPotentials
<1>4. ASSUME NEW a \in ResArcs(q) PROVE RedLength(q, a) >= 0
  <2>. DEFINE u == StartNode(g, a)
              v == EndNode(g, a)
  <2>1. a \in Arc /\ a \in ResArcs(g)
    BY <1>3 DEF ResArcs
  <2>2. /\ u \in Node /\ v \in Node /\ PlainLength(g, a) \in Int
        /\ RedLength(g, a) = PlainLength(g, a) + Potential(g, u) - Potential(g, v)
    BY <2>1, NetArcs
  <2>3. Potential(g, u) = 0 /\ Potential(g, v) = 0
    BY DEF Potential, NoLabels
  <2>4. d[v] <= d[u] + RedLength(g, a)
    BY <1>1, <2>1, <2>2, Triangle
  <2>5. RedLength(q, a) = PlainLength(g, a) + d[u] - d[v]
    BY <1>3, <2>1
  <2>6. d[u] \in Int /\ d[v] \in Int
    BY <1>2, <2>2
  <2>. HIDE DEF u, v
  <2>. QED BY <2>2, <2>3, <2>4, <2>5, <2>6
<1>. QED BY <1>2, <1>3, <1>4 DEF Slack

LEMMA EnterDijkstraInv ==
  ASSUME CostInv, EnterDijkstra
  PROVE  CostInv'
<1>1. step = "call" /\ proc = "ST_DIJKSTRA" /\ proc' = proc /\ running' = running /\ deficit' = Deficiency(G, t)
  BY DEF EnterDijkstra
<1>2. proc \in STFlow
  BY <1>1 DEF STFlow
<1>3. /\ G \in Nets /\ Fits(G) /\ G.delta = 0 /\ Balanced(G) /\ dist \in [Node -> Int] \union {NoLabels}
      /\ \/ Slack(G)
         \/ /\ G.potential = NoLabels
            /\ \A v \in Node : Distances(G, Walks(G, ResArcs(G)), {s})[v] # InfFloat
  BY <1>1, <1>2, CalledST
<1>4. CASE Slack(G)
  <2>1. step' = "path" /\ G' = G /\ dist' = dist
    BY <1>4 DEF EnterDijkstra
  <2>2. StepsOfMethods'
    BY <1>1, <1>2, <2>1 DEF StepsOfMethods, Pseudo
  <2>3. NetworkKept'
    BY <1>1, <1>3, <2>1 DEF NetworkKept
  <2>4. SlackWhere' /\ ResultKept'
    BY <1>4, <2>1 DEF SlackWhere, ResultKept
  <2>. QED BY <2>2, <2>3, <2>4 DEF CostInv
<1>5. CASE ~Slack(G) /\ NegativeCycles(G, Walks(G, ResArcs(G))) # {}
  <2>1. step' = "rejected" /\ G' = G /\ dist' = dist
    BY <1>5 DEF EnterDijkstra
  <2>2. StepsOfMethods'
    BY <1>1, <1>2, <2>1 DEF StepsOfMethods, Pseudo
  <2>3. NetworkKept'
    BY <1>1, <1>3, <2>1 DEF NetworkKept
  <2>4. SlackWhere' /\ ResultKept'
    BY <2>1 DEF SlackWhere, ResultKept
  <2>. QED BY <2>2, <2>3, <2>4 DEF CostInv
<1>6. CASE ~Slack(G) /\ NegativeCycles(G, Walks(G, ResArcs(G))) = {}
  <2>1. step' = "path" /\ dist' = Distances(G, Walks(G, ResArcs(G)), {s}) /\ G' = [G EXCEPT !.potential = dist']
    BY <1>6 DEF EnterDijkstra
  <2>2. G.potential = NoLabels /\ \A v \in Node : dist'[v] # InfFloat
    BY <1>3, <1>6, <2>1
  <2>3. /\ G' \in Nets /\ G'.sub = G.sub /\ G'.delta = G.delta /\ G'.ucap = G.ucap /\ G'.demand = G.demand
        /\ G'.ends = G.ends /\ G'.length = G.length /\ Slack(G') /\ dist' \in [Node -> Int]
    BY <1>3, <1>6, <2>1, <2>2, SlackByLabels
  <2>4. Fits(G') /\ Balanced(G') /\ Deficiency(G', t) = Deficiency(G, t)
    BY <1>3, <2>3, SameFlow DEF Fits
  <2>5. StepsOfMethods'
    BY <1>1, <1>2, <2>1 DEF StepsOfMethods, Pseudo
  <2>6. NetworkKept'
    BY <1>1, <1>3, <2>1, <2>3, <2>4 DEF NetworkKept
  <2>7. SlackWhere' /\ ResultKept'
    BY <2>1, <2>3 DEF SlackWhere, ResultKept
  <2>. QED BY <2>5, <2>6, <2>7 DEF CostInv
<1>. QED BY <1>4, <1>5, <1>6

LEMMA EnterBusackerGowenInv ==
  ASSUME CostInv, EnterBusackerGowen
  PROVE  CostInv'
<1>1. /\ step = "call" /\ proc = "ST_SAP" /\ proc' = proc /\ G' = G /\ dist' = dist
      /\ deficit' = Deficiency(G, t) /\ step' \in {"aborted", "path"}
  BY DEF EnterBusackerGowen
<1>2. proc \in STFlow
  BY <1>1 DEF STFlow
<1>3. G \in Nets /\ Fits(G) /\ G.delta = 0 /\ Balanced(G) /\ dist \in [Node -> Int] \union {NoLabels}
  BY <1>1, <1>2, CalledST
<1>4. StepsOfMethods'
  BY <1>1, <1>2 DEF StepsOfMethods, Pseudo
<1>5. NetworkKept'
  BY <1>1, <1>3 DEF NetworkKept
<1>6. SlackWhere' /\ ResultKept'
  BY <1>1 DEF SlackWhere, ResultKept
<1>. QED BY <1>4, <1>5, <1>6 DEF CostInv

-------------------------------------------------------------------------------
(* Shortest augmenting paths.                                                *)

LEMMA OfPath ==
  ASSUME CostInv, step = "path"
  PROVE  /\ proc \in Pseudo \union STFlow /\ proc # "SIMPLEX" /\ proc # "CYCLE"
         /\ G \in Nets /\ Fits(G) /\ dist \in [Node -> Int] \union {NoLabels}
         /\ proc # "ST_SAP" => Slack(G)
         /\ proc \in STFlow => G.delta = 0 /\ Balanced(G) /\ deficit = Deficiency(G, t)
         /\ proc \in STFlow => proc \notin Pseudo
<1>1. proc \in Pseudo \union STFlow
  BY DEF CostInv, StepsOfMethods, SimplexSteps, BFlow, Pseudo, STFlow
<1>2. proc # "SIMPLEX" /\ proc # "CYCLE"
  BY <1>1 DEF Pseudo, STFlow
<1>3. proc \in STFlow => proc \notin Pseudo
  BY DEF Pseudo, STFlow
<1>4. /\ G \in Nets /\ Fits(G) /\ dist \in [Node -> Int] \union {NoLabels}
      /\ proc \in STFlow => G.delta = 0 /\ Balanced(G) /\ deficit = Deficiency(G, t)
  BY <1>2 DEF CostInv, NetworkKept
<1>5. proc # "ST_SAP" => Slack(G)
  BY DEF CostInv, SlackWhere
<1>6. proc \in STFlow => G.delta = 0 /\ Balanced(G) /\ deficit = Deficiency(G, t)
  BY ONLY <1>4
<1>7. G \in Nets /\ Fits(G) /\ dist \in [Node -> Int] \union {NoLabels}
  BY ONLY <1>4
<1>. QED BY ONLY <1>1, <1>2, <1>3, <1>5, <1>6, <1>7

LEMMA NoPathInv ==
  ASSUME CostInv, NoPath
  PROVE  CostInv'
<1>1. /\ step = "path" /\ proc' = proc /\ G' = G /\ running' = running /\ deficit' = deficit
      /\ dist' = Distances(G, Walks(G, ResArcs(G)), Sources)
  BY DEF NoPath, Searching
<1>2. /\ proc \in Pseudo \union STFlow /\ proc # "SIMPLEX" /\ proc # "CYCLE"
      /\ G \in Nets /\ Fits(G) /\ dist \in [Node -> Int] \union {NoLabels}
      /\ proc # "ST_SAP" => Slack(G)
      /\ proc \in STFlow => G.delta = 0 /\ Balanced(G) /\ deficit = Deficiency(G, t)
      /\ proc \in STFlow => proc \notin Pseudo
  BY <1>1, OfPath
<1>3. ResArcs(G) \in SUBSET Arc
  BY DEF ResArcs
<1>4. dist' \in [Node -> Int]
  BY <1>1, <1>2, <1>3, DistancesAre
<1>5. CASE proc \in STFlow
  <2>1. step' = "done" /\ ret' = InfFloat
    BY <1>5 DEF NoPath, Returns
  <2>2. StepsOfMethods'
    BY <1>1, <1>2, <1>5, <2>1 DEF StepsOfMethods
  <2>3. NetworkKept'
    BY <1>1, <1>2, <1>4, <1>5, <2>1 DEF NetworkKept
  <2>4. SlackWhere' /\ ResultKept'
    BY <2>1 DEF SlackWhere, ResultKept
  <2>. QED BY <2>2, <2>3, <2>4 DEF CostInv
<1>6. CASE proc \notin STFlow
  <2>1. step' = "phase" /\ proc \in Pseudo
    BY <1>2, <1>6 DEF NoPath
  <2>2. StepsOfMethods'
    BY <1>1, <1>2, <1>6, <2>1 DEF StepsOfMethods
  <2>3. NetworkKept'
    BY <1>1, <1>2, <1>4, <1>6, <2>1 DEF NetworkKept
  <2>4. SlackWhere' /\ ResultKept'
    BY <1>1, <1>2, <2>1 DEF SlackWhere, ResultKept
  <2>. QED BY <2>2, <2>3, <2>4 DEF CostInv
<1>. QED BY <1>5, <1>6

LEMMA EndPathsInv ==
  ASSUME CostInv, EndPaths
  PROVE  CostInv'
<1>1. /\ step = "path" /\ proc' = proc /\ G' = G /\ running' = running /\ deficit' = deficit /\ dist' = dist
      /\ ~Searching /\ step' = IF proc \in STFlow THEN "report" ELSE "phase"
  BY DEF EndPaths
<1>2. /\ proc \in Pseudo \union STFlow /\ proc # "SIMPLEX" /\ proc # "CYCLE"
      /\ G \in Nets /\ Fits(G) /\ dist \in [Node -> Int] \union {NoLabels}
      /\ proc # "ST_SAP" => Slack(G)
      /\ proc \in STFlow => G.delta = 0 /\ Balanced(G) /\ deficit = Deficiency(G, t)
      /\ proc \in STFlow => proc \notin Pseudo
  BY <1>1, OfPath
<1>3. CASE proc \in STFlow
  <2>1. ~(deficit > 0)
    BY <1>1, <1>2, <1>3 DEF Searching
  <2>2. deficit \in Int /\ deficit >= 0
    <3>1. Deficiency(G, t) \in Int
      BY <1>2, Ends, DeficiencyInt
    <3>. QED BY <1>2, <1>3, <3>1 DEF Balanced
  <2>3. deficit = 0
    BY <2>1, <2>2
  <2>4. step' = "report"
    BY <1>1, <1>3
  <2>5. StepsOfMethods'
    BY <1>1, <1>2, <1>3, <2>4 DEF StepsOfMethods
  <2>6. NetworkKept'
    BY <1>1, <1>2, <1>3, <2>3, <2>4 DEF NetworkKept
  <2>7. SlackWhere' /\ ResultKept'
    BY <1>1, <1>2, <1>3, <2>4 DEF SlackWhere, ResultKept
  <2>. QED BY <2>5, <2>6, <2>7 DEF CostInv
<1>4. CASE proc \notin STFlow
  <2>1. step' = "phase"
    BY <1>1, <1>4
  <2>2. StepsOfMethods'
    BY <1>1, <1>2, <1>4, <2>1 DEF StepsOfMethods
  <2>3. NetworkKept'
    BY <1>1, <1>2, <1>4, <2>1 DEF NetworkKept
  <2>4. SlackWhere' /\ ResultKept'
    BY <1>1, <1>2, <2>1 DEF SlackWhere, ResultKept
  <2>. QED BY <2>2, <2>3, <2>4 DEF CostInv
<1>. QED BY <1>3, <1>4

LEMMA MinOfThree ==
  ASSUME NEW a \in Int, NEW b \in Int, NEW c \in Int
  PROVE  LET x == Min({a} \union {b, c}) IN x \in {a, b, c} /\ x <= a /\ x <= b /\ x <= c
<1>. DEFINE S == {a} \union {b, c}
<1>1. \E x \in S : \A y \in S : x <= y
  <2>1. CASE a <= b /\ a <= c
    BY <2>1
  <2>2. CASE b <= a /\ b <= c
    BY <2>2
  <2>3. CASE c <= a /\ c <= b
    BY <2>3
  <2>. QED BY <2>1, <2>2, <2>3
<1>2. Min(S) \in S /\ \A y \in S : Min(S) <= y
  <2>. HIDE DEF S
  <2>. QED BY <1>1 DEF Min
<1>. QED BY <1>2

(* What is pushed along a path: no more than its capacity, and no more than  *)
(* the flow from the source to the target lacks.                             *)
LEMMA AmountIs ==
  ASSUME G \in Nets, Fits(G), NEW w \in Seq(Arc), Len(w) > 0,
         proc \in STFlow => deficit \in Int /\ deficit > 0,
         proc \notin STFlow => /\ Deficiency(G, To(G, w)) \in Int /\ Deficiency(G, To(G, w)) > 0
                               /\ Deficiency(G, From(G, w)) \in Int /\ Deficiency(G, From(G, w)) < 0
  PROVE  /\ Amount(w) \in Nat /\ Amount(w) <= FindCap(G, w)
         /\ proc \in STFlow => Amount(w) <= deficit
<1>1. FindCap(G, w) \in Nat
  BY FindCapIs
<1>2. CASE proc \in STFlow
  <2>. DEFINE a == FindCap(G, w)
  <2>1. {a} \union {deficit} = {a, deficit}
    OBVIOUS
  <2>2. Amount(w) = Min({a, deficit})
    BY <1>2, <2>1 DEF Amount
  <2>. HIDE DEF a
  <2>3. a \in Int /\ deficit \in Int /\ deficit > 0 /\ a >= 0
    BY <1>1, <1>2 DEF a
  <2>4. Min({a, deficit}) = IF a <= deficit THEN a ELSE deficit
    BY ONLY <2>3, MinOfTwo
  <2>5. Amount(w) \in Nat /\ Amount(w) <= a /\ Amount(w) <= deficit
    BY ONLY <2>2, <2>3, <2>4
  <2>. QED BY <2>5 DEF a
<1>3. CASE proc \notin STFlow
  <2>. DEFINE a == FindCap(G, w)
              b == Deficiency(G, To(G, w))
              c == -Deficiency(G, From(G, w))
  <2>1. Amount(w) = Min({a} \union {b, c})
    BY <1>3 DEF Amount
  <2>2. a \in Int /\ b \in Int /\ c \in Int /\ a >= 0 /\ b > 0 /\ c > 0
    BY <1>1, <1>3
  <2>. HIDE DEF a, b, c
  <2>3. Min({a} \union {b, c}) \in {a, b, c} /\ Min({a} \union {b, c}) <= a
    BY ONLY <2>2, MinOfThree
  <2>. DEFINE y == Min({a} \union {b, c})
  <2>4. Amount(w) = y /\ y \in {a, b, c} /\ y <= a
    BY ONLY <2>1, <2>3
  <2>. HIDE DEF y
  <2>5. y \in Nat
    BY ONLY <2>2, <2>4
  <2>6. Amount(w) \in Nat /\ Amount(w) <= a
    BY ONLY <2>4, <2>5
  <2>. QED BY <1>3, <2>6 DEF a
<1>. QED BY <1>2, <1>3

LEMMA BalancedAfter ==
  ASSUME NEW g \in Nets, Balanced(g), NEW w, IsWalk(g, ResArcs(g), w), Len(w) > 0,
         From(g, w) = s, To(g, w) = t, NEW x \in Int, x <= Deficiency(g, t)
  PROVE  LET q == Augment(g, w, x) IN Balanced(q) /\ Deficiency(q, t) = Deficiency(g, t) - x
<1>. DEFINE q == Augment(g, w, x)
<1>1. ResArcs(g) \in SUBSET Arc
  BY DEF ResArcs
<1>2. w \in Seq(Arc)
  BY <1>1 DEF IsWalk
<1>3. q.demand = g.demand
  BY <1>2, AugmentIs DEF SameButFlow
<1>4. ASSUME NEW v \in Node
      PROVE  Deficiency(q, v) = Deficiency(g, v) - Delta(x, t = v) + Delta(x, s = v)
  <2>1. Divergence(q, v) = Divergence(g, v) + Delta(x, t = v) - Delta(x, s = v)
    BY <1>1, AugmentDivergence
  <2>2. Divergence(g, v) \in Int /\ g.demand[v] \in Int
    <3>1. Divergence(g, v) \in Int
      BY DivergenceIs
    <3>. QED BY <3>1, NetParts
  <2>3. Delta(x, t = v) \in Int /\ Delta(x, s = v) \in Int
    BY DEF Delta
  <2>4. Deficiency(q, v) = g.demand[v] - Divergence(q, v) /\ Deficiency(g, v) = g.demand[v] - Divergence(g, v)
    BY <1>3 DEF Deficiency
  <2>. QED BY ONLY <2>1, <2>2, <2>3, <2>4
<1>. HIDE DEF q
<1>5. s \in Node /\ t \in Node /\ s # t
  BY Ends
<1>6. \A v \in Node : Deficiency(g, v) \in Int
  BY DeficiencyInt
<1>7. ASSUME NEW v \in Node \ {s, t} PROVE Deficiency(q, v) = 0
  <2>1. Delta(x, t = v) = 0 /\ Delta(x, s = v) = 0
    BY DEF Delta
  <2>2. Deficiency(g, v) = 0
    BY DEF Balanced
  <2>. QED BY <1>4, <2>1, <2>2
<1>8. Deficiency(q, t) = Deficiency(g, t) - x
  <2>1. Delta(x, t = t) = x /\ Delta(x, s = t) = 0
    BY <1>5 DEF Delta
  <2>. QED BY <1>4, <1>5, <1>6, <2>1
<1>9. Deficiency(q, s) = Deficiency(g, s) + x
  <2>1. Delta(x, t = s) = 0 /\ Delta(x, s = s) = x
    BY <1>5 DEF Delta
  <2>. QED BY <1>4, <1>5, <1>6, <2>1
<1>10. Deficiency(g, s) = -Deficiency(g, t) /\ Deficiency(g, t) \in Int
  BY <1>5, <1>6 DEF Balanced
<1>11. Deficiency(q, t) >= 0 /\ Deficiency(q, s) = -Deficiency(q, t)
  BY <1>8, <1>9, <1>10
<1>. QED BY <1>7, <1>8, <1>11 DEF Balanced, q

LEMMA AugmentShortestInv ==
  ASSUME CostInv, AugmentShortest
  PROVE  CostInv'
<1>. DEFINE A == ResArcs(G)
            d == Distances(G, Walks(G, A), Sources)
<1>1. /\ step = "path" /\ Searching /\ proc' = proc /\ running' = running /\ step' = step
      /\ \E v \in {u \in Targets : d[u] # InfFloat /\ \A x \in Targets : d[u] <= d[x]} :
         \E w \in ShortestTo(Walks(G, A), d, v) :
           /\ dist' = d
           /\ G' = IF proc = "ST_SAP" THEN Augment(G, w, Amount(w)) ELSE UpdatePotentials(Augment(G, w, Amount(w)), d, d[v])
           /\ deficit' = IF proc = "CAPA" THEN deficit ELSE deficit - Amount(w)
  BY DEF AugmentShortest, Searching
<1>2. /\ proc \in Pseudo \union STFlow /\ proc # "SIMPLEX" /\ proc # "CYCLE"
      /\ G \in Nets /\ Fits(G) /\ dist \in [Node -> Int] \union {NoLabels}
      /\ proc # "ST_SAP" => Slack(G)
      /\ proc \in STFlow => G.delta = 0 /\ Balanced(G) /\ deficit = Deficiency(G, t)
      /\ proc \in STFlow => proc \notin Pseudo
  BY <1>1, OfPath
<1>3. A \in SUBSET Arc
  BY DEF ResArcs
<1>4. d \in [Node -> Int]
  BY <1>2, <1>3, DistancesAre
<1>. HIDE DEF d
<1>50. PICK v \in Targets : \E w \in ShortestTo(Walks(G, A), d, v) :
        /\ dist' = d
        /\ G' = IF proc = "ST_SAP" THEN Augment(G, w, Amount(w)) ELSE UpdatePotentials(Augment(G, w, Amount(w)), d, d[v])
        /\ deficit' = IF proc = "CAPA" THEN deficit ELSE deficit - Amount(w)
  BY <1>1
<1>5. PICK w \in ShortestTo(Walks(G, A), d, v) :
        /\ dist' = d
        /\ G' = IF proc = "ST_SAP" THEN Augment(G, w, Amount(w)) ELSE UpdatePotentials(Augment(G, w, Amount(w)), d, d[v])
        /\ deficit' = IF proc = "CAPA" THEN deficit ELSE deficit - Amount(w)
  BY <1>50
<1>6. /\ w \in Walks(G, A) /\ To(G, w) = v /\ Excess(From(G, w))
      /\ d[From(G, w)] + WalkLength(G, w) = d[v]
      /\ \A i \in DOMAIN w : ~Excess(EndNode(G, w[i]))
  BY <1>5 DEF ShortestTo
<1>7. IsWalk(G, A, w) /\ Len(w) \in 1 .. n
  BY <1>2, <1>3, <1>6, WalksAre
<1>8. w \in Seq(Arc) /\ Len(w) > 0 /\ Len(w) \in Nat /\ DOMAIN w = 1 .. Len(w)
  BY <1>3, <1>7, Sizes DEF IsWalk
<1>9. v \in Node /\ From(G, w) \in Node
  <2>1. 1 \in 1 .. Len(w) /\ Len(w) \in 1 .. Len(w)
    BY <1>8
  <2>2. w[1] \in Arc /\ w[Len(w)] \in Arc
    BY <1>8, <2>1
  <2>. QED BY <1>2, <1>6, <2>2, NetArcs DEF From, To
<1>10. EdgesOnce(w)
  <2>1. \A i \in 1 .. Len(w) : EndNode(G, w[i]) # From(G, w)
    BY <1>6, <1>8
  <2>. QED BY <1>2, <1>3, <1>7, <2>1, PathEdgesOnce
<1>11. proc \in STFlow => deficit \in Int /\ deficit > 0
  <2>1. Deficiency(G, t) \in Int
    BY <1>2, Ends, DeficiencyInt
  <2>2. proc \in STFlow => deficit > 0
    BY <1>1 DEF Searching, STFlow
  <2>. QED BY <1>2, <2>1, <2>2
<1>12. proc \notin STFlow => /\ Deficiency(G, To(G, w)) \in Int /\ Deficiency(G, To(G, w)) > 0
                             /\ Deficiency(G, From(G, w)) \in Int /\ Deficiency(G, From(G, w)) < 0
  <2>. SUFFICES ASSUME proc \notin STFlow
                PROVE  /\ Deficiency(G, v) \in Int /\ Deficiency(G, v) > 0
                       /\ Deficiency(G, From(G, w)) \in Int /\ Deficiency(G, From(G, w)) < 0
    BY <1>6
  <2>1. Deficiency(G, v) \in Int /\ Deficiency(G, From(G, w)) \in Int
    BY <1>2, <1>9, DeficiencyInt
  <2>2. Deficiency(G, v) > G.delta
    BY <1>5 DEF Targets
  <2>3. G.delta \in Nat
    BY <1>2, NetParts
  <2>4. Deficiency(G, From(G, w)) < 0
    BY <1>6 DEF Excess
  <2>. QED BY <2>1, <2>2, <2>3, <2>4
<1>. DEFINE x == Amount(w)
            q == Augment(G, w, x)
<1>13. x \in Nat /\ x <= FindCap(G, w) /\ (proc \in STFlow => x <= deficit)
  BY <1>2, <1>8, <1>11, <1>12, AmountIs
<1>14. \A i \in 1 .. Len(w) : x <= ResCap(G, w[i])
  <2>1. FindCap(G, w) \in Nat /\ \A i \in 1 .. Len(w) : FindCap(G, w) <= ResCap(G, w[i])
    BY <1>2, <1>8, FindCapIs
  <2>2. \A i \in 1 .. Len(w) : ResCap(G, w[i]) \in Int
    <3>1. \A i \in 1 .. Len(w) : w[i] \in Arc
      BY <1>8
    <3>. QED BY <1>2, <3>1, NetArcs
  <2>. HIDE DEF x
  <2>. QED BY ONLY <1>13, <2>1, <2>2
<1>15. /\ G' = IF proc = "ST_SAP" THEN q ELSE UpdatePotentials(q, d, d[v])
       /\ deficit' = IF proc = "CAPA" THEN deficit ELSE deficit - x
  BY <1>5
<1>. HIDE DEF x
<1>16. q \in Nets /\ SameButFlow(G, q)
  BY <1>2, <1>8, <1>13, AugmentIs
<1>17. Fits(q)
  BY <1>2, <1>8, <1>10, <1>13, <1>14, AugmentFits
<1>18. proc \in STFlow => Balanced(q) /\ Deficiency(q, t) = deficit - x
  <2>. SUFFICES ASSUME proc \in STFlow
                PROVE  Balanced(q) /\ Deficiency(q, t) = deficit - x
    OBVIOUS
  <2>1. From(G, w) = s /\ To(G, w) = t
    BY <1>5, <1>6 DEF Excess, Targets
  <2>2. Balanced(G) /\ deficit = Deficiency(G, t) /\ x <= Deficiency(G, t) /\ x \in Int
    BY <1>2, <1>13
  <2>. QED BY <1>2, <1>7, <1>8, <2>1, <2>2, BalancedAfter DEF A
<1>19. /\ G' \in Nets /\ G'.sub = q.sub /\ G'.delta = q.delta /\ G'.ucap = q.ucap /\ G'.demand = q.demand
       /\ G'.ends = q.ends /\ G'.length = q.length
  <2>1. CASE proc = "ST_SAP"
    BY <1>15, <1>16, <2>1
  <2>2. CASE proc # "ST_SAP"
    <3>. DEFINE c == d[v]
    <3>1. c \in Int /\ G' = UpdatePotentials(q, d, c)
      BY <1>4, <1>9, <1>15, <2>2
    <3>. HIDE DEF q, c
    <3>2. LET r == UpdatePotentials(q, d, c) IN
          /\ r \in Nets /\ r.sub = q.sub /\ r.delta = q.delta /\ r.ucap = q.ucap /\ r.demand = q.demand
          /\ r.ends = q.ends /\ r.length = q.length
      BY <1>4, <1>16, <3>1, UpdateIs
    <3>. QED BY <3>1, <3>2
  <2>. QED BY <2>1, <2>2
<1>20. proc # "ST_SAP" => Slack(G')
  <2>. SUFFICES ASSUME proc # "ST_SAP"
                PROVE  Slack(G')
    OBVIOUS
  <2>1. Slack(UpdatePotentials(Augment(G, w, x), d, d[To(G, w)]))
    BY <1>2, <1>6, <1>13, SlackAfterAugment DEF d, A
  <2>. QED BY <1>6, <1>15, <2>1
<1>. HIDE DEF q
<1>21. Fits(G') /\ G'.delta = G.delta
  BY <1>16, <1>17, <1>19 DEF Fits, SameButFlow
<1>22. proc \in STFlow => Balanced(G') /\ deficit' = Deficiency(G', t)
  <2>1. Balanced(G') = Balanced(q) /\ \A u : Deficiency(G', u) = Deficiency(q, u)
    BY <1>19, SameFlow
  <2>2. proc \in STFlow => proc # "CAPA"
    BY DEF STFlow
  <2>. QED BY <1>15, <1>18, <2>1, <2>2
<1>23. StepsOfMethods'
  BY <1>1 DEF CostInv, StepsOfMethods
<1>24. NetworkKept'
  BY <1>1, <1>2, <1>4, <1>5, <1>19, <1>21, <1>22 DEF NetworkKept
<1>25. SlackWhere' /\ ResultKept'
  BY <1>1, <1>20 DEF SlackWhere, ResultKept
<1>. QED BY <1>23, <1>24, <1>25 DEF CostInv

-------------------------------------------------------------------------------
(* The end of the calls.                                                     *)

LEMMA WithoutPotentials ==
  ASSUME NEW g \in Nets, NEW q, q = [g EXCEPT !.potential = NoLabels]
  PROVE  /\ q \in Nets /\ q.sub = g.sub /\ q.delta = g.delta /\ q.ucap = g.ucap /\ q.demand = g.demand
         /\ q.ends = g.ends /\ q.length = g.length
<1>1. /\ g = [ends |-> g.ends, orientation |-> g.orientation, length |-> g.length, ucap |-> g.ucap,
              sub |-> g.sub, demand |-> g.demand, potential |-> g.potential, delta |-> g.delta]
      /\ g.ends \in [Edge -> Node \X Node] /\ g.orientation \in [Edge -> {1}]
      /\ g.length \in [Edge -> Int] /\ g.ucap \in [Edge -> 0 .. InfCap] /\ g.sub \in [Edge -> Int]
      /\ g.demand \in [Node -> Int] /\ g.delta \in Nat
  BY NetParts
<1>2. q = [ends |-> g.ends, orientation |-> g.orientation, length |-> g.length, ucap |-> g.ucap,
           sub |-> g.sub, demand |-> g.demand, potential |-> NoLabels, delta |-> g.delta]
  BY <1>1
<1>3. q \in Nets
  BY <1>1, <1>2 DEF Nets
<1>. QED BY <1>2, <1>3

LEMMA FinalIs ==
  ASSUME G \in Nets, NEW h \in FinalNetworks, proc = "ST_SAP" => G.delta = 0
  PROVE  /\ h \in Nets /\ h.sub = G.sub /\ h.delta = 0 /\ h.ucap = G.ucap /\ h.demand = G.demand
         /\ h.ends = G.ends /\ h.length = G.length
         /\ proc # "ST_SAP" /\ G.delta = 0 /\ Slack(G) => Slack(h)
<1>1. CASE proc = "ST_SAP"
  <2>. DEFINE p == [G EXCEPT !.potential = NoLabels]
  <2>1. PICK d \in FinalLabels(p, Walks(p, ResArcs(p))) : h = UpdatePotentials(p, d, InfFloat)
    BY <1>1 DEF FinalNetworks
  <2>. DEFINE r == UpdatePotentials(p, d, InfFloat)
  <2>2. /\ p \in Nets /\ p.sub = G.sub /\ p.delta = G.delta /\ p.ucap = G.ucap /\ p.demand = G.demand
        /\ p.ends = G.ends /\ p.length = G.length
    BY WithoutPotentials
  <2>. HIDE DEF p
  <2>3. ResArcs(p) \in SUBSET Arc
    BY DEF ResArcs
  <2>4. d \in [Node -> Int]
    <3>1. Distances(p, Walks(p, ResArcs(p)), Node) \in [Node -> Int]
      BY <2>2, <2>3, DistancesAre
    <3>2. FinalLabels(p, Walks(p, ResArcs(p))) \in SUBSET [Node -> Int]
      BY <3>1, CycleLabelsAre DEF FinalLabels
    <3>. QED BY <2>1, <3>2
  <2>5. InfFloat \in Int
    BY Sizes
  <2>6. /\ r \in Nets /\ r.sub = p.sub /\ r.delta = p.delta /\ r.ucap = p.ucap /\ r.demand = p.demand
        /\ r.ends = p.ends /\ r.length = p.length
    BY <2>2, <2>4, <2>5, UpdateIs
  <2>7. h = r
    BY <2>1
  <2>. HIDE DEF r
  <2>. QED BY <1>1, <2>2, <2>6, <2>7
<1>2. CASE proc # "ST_SAP"
  <2>1. h = [G EXCEPT !.delta = 0]
    BY <1>2 DEF FinalNetworks
  <2>. DEFINE D == 0
  <2>2. D \in Nat /\ h = [G EXCEPT !.delta = D]
    BY <2>1
  <2>. HIDE DEF D
  <2>3. /\ h \in Nets /\ h.delta = D /\ h.sub = G.sub /\ h.ends = G.ends /\ h.length = G.length
        /\ h.demand = G.demand /\ h.ucap = G.ucap
        /\ D = G.delta /\ Slack(G) => Slack(h)
    BY <2>2, NewDelta
  <2>. QED BY <1>2, <2>3 DEF D
<1>. QED BY <1>1, <1>2

LEMMA NegatedZero ==
  ASSUME NEW x \in Int, NEW y \in Int, x <= 0, x >= 0, y = -x
  PROVE  y = 0
<1>1. y <= 0 /\ y >= 0
  OBVIOUS
<1>2. y \in Int
  OBVIOUS
<1>. QED BY ONLY <1>1, <1>2

LEMMA ReportInv ==
  ASSUME CostInv, Report
  PROVE  CostInv'
<1>1. /\ step = "report" /\ proc' = proc /\ running' = running /\ dist' = dist /\ G' \in FinalNetworks
      /\ step' = "done" /\ ret' = IF proc \in Pseudo /\ ~IsBFlow(G) THEN InfFloat ELSE Weight(G)
  BY DEF Report, Returns
<1>2. proc \in Pseudo \union STFlow
  BY <1>1 DEF CostInv, StepsOfMethods, SimplexSteps, BFlow, Pseudo, STFlow
<1>3. proc # "SIMPLEX" /\ proc # "CYCLE"
  BY <1>2 DEF Pseudo, STFlow
<1>4. /\ G \in Nets /\ Fits(G) /\ dist \in [Node -> Int] \union {NoLabels}
      /\ proc \in STFlow => G.delta = 0 /\ Balanced(G) /\ Deficiency(G, t) = 0
  BY <1>1, <1>3 DEF CostInv, NetworkKept
<1>5. running /\ proc # "ST_SAP" => Slack(G) /\ G.delta = 0
  BY <1>1 DEF CostInv, SlackWhere
<1>6. proc = "ST_SAP" => G.delta = 0
  BY <1>4 DEF STFlow
<1>7. /\ G' \in Nets /\ G'.sub = G.sub /\ G'.delta = 0 /\ G'.ucap = G.ucap /\ G'.demand = G.demand
      /\ G'.ends = G.ends /\ G'.length = G.length
      /\ proc # "ST_SAP" /\ G.delta = 0 /\ Slack(G) => Slack(G')
  BY <1>1, <1>4, <1>6, FinalIs
<1>8. Fits(G')
  BY <1>4, <1>7 DEF Fits
<1>9. IsBFlow(G') = IsBFlow(G) /\ Weight(G') = Weight(G)
  BY <1>7, SameFlow
<1>10. ret' # InfFloat => ret' = Weight(G) /\ IsBFlow(G)
  <2>1. CASE proc \in Pseudo
    BY <1>1, <2>1
  <2>2. CASE proc \in STFlow
    <3>1. ret' = Weight(G)
      <4>1. proc \notin Pseudo
        BY <2>2 DEF Pseudo, STFlow
      <4>. QED BY <1>1, <4>1
    <3>2. ASSUME NEW v \in Node PROVE Deficiency(G, v) = 0
      <4>1. Deficiency(G, t) = 0 /\ Deficiency(G, s) = -Deficiency(G, t)
        BY <1>4, <2>2 DEF Balanced
      <4>2. Deficiency(G, s) = 0
        <5>1. Deficiency(G, t) \in Int /\ Deficiency(G, s) \in Int
          BY <1>4, Ends, DeficiencyInt
        <5>2. Deficiency(G, t) <= 0 /\ Deficiency(G, t) >= 0 /\ Deficiency(G, s) = -Deficiency(G, t)
          BY ONLY <4>1
        <5>. QED BY ONLY <5>1, <5>2, NegatedZero
      <4>3. v \in Node \ {s, t} => Deficiency(G, v) = 0
        BY <1>4, <2>2 DEF Balanced
      <4>. QED BY <4>1, <4>2, <4>3
    <3>. QED BY <3>1, <3>2 DEF IsBFlow
  <2>. QED BY <1>2, <2>1, <2>2
<1>11. StepsOfMethods'
  BY <1>1, <1>2, <1>3 DEF StepsOfMethods
<1>12. NetworkKept'
  BY <1>1, <1>3, <1>4, <1>7, <1>8 DEF NetworkKept
<1>13. SlackWhere'
  BY <1>1 DEF SlackWhere
<1>14. ResultKept'
  BY <1>1, <1>5, <1>7, <1>9, <1>10 DEF ResultKept
<1>. QED BY <1>11, <1>12, <1>13, <1>14 DEF CostInv
-------------------------------------------------------------------------------
(* The whole algorithm.                                                      *)

LEMMA CostStep ==
  ASSUME CostInv, [Next]_vars
  PROVE  CostInv'
<1>1. CASE FlowWork
  BY ONLY <1>1, CostInv, InfeasibleInv, AdmissibleInv, EnterCyclesInv, CancelCycleInv, NoCycleInv, LeaveCyclesInv,
     EnterScalingInv, SaturateInv, EnterDijkstraInv, EnterBusackerGowenInv, AugmentShortestInv,
     NoPathInv, EndPathsInv, NextPhaseInv, ReportInv DEF FlowWork
<1>2. CASE SimplexWork
  BY <1>2, SimplexInv
<1>3. CASE Stop \/ UNCHANGED flowVars
  BY <1>3, StopInv
<1>4. UNCHANGED vars => UNCHANGED flowVars
  BY DEF vars
<1>5. FlowWork \/ SimplexWork \/ Stop \/ UNCHANGED flowVars
  BY <1>4 DEF Next, Work
<1>. QED BY <1>1, <1>2, <1>3, <1>5
(* solveMCFlow.cpp: every step of every method keeps the network sound, the  *)
(* flow of the methods other than the simplex within the capacities and the  *)
(* potentials compatible with it where the code relies on that.              *)
THEOREM CostInvariant == Spec => []CostInv
<1>1. Init => CostInv
  BY StartInv
<1>2. CostInv /\ [Next]_vars => CostInv'
  BY CostStep
<1>. QED BY <1>1, <1>2, PTL DEF Spec

(* MCF_CapacityScaling, MCF_EdmondsKarp: when a shortest path is sought with *)
(* Dijkstra's method, no residual arc has a negative reduced length, on any  *)
(* network, for any capacities, lengths and demands and after any number of  *)
(* augmentations and phases.                                                 *)
THEOREM SlacknessAlways == Spec => []SlacknessKept
<1>1. CostInv => SlacknessKept
  BY DEF CostInv, SlackWhere, SlacknessKept
<1>. QED BY <1>1, CostInvariant, PTL

(* Push and Augment as MCF_CycleCanceling, MCF_CapacityScaling,              *)
(* MCF_EdmondsKarp and MCF_BusackerGowen use them never throw: the flow      *)
(* stays within the capacities.                                              *)
CapacitiesKept == proc # "SIMPLEX" => \A e \in Edge : 0 <= G.sub[e] /\ G.sub[e] <= G.ucap[e]

(* The flow of the four methods without a basis stays within the capacities  *)
(* on every network, whatever paths and cycles their searches find.          *)
THEOREM CapacitiesAlways == Spec => []CapacitiesKept
<1>1. CostInv => CapacitiesKept
  BY DEF CostInv, NetworkKept, CapacitiesKept, Fits
<1>. QED BY <1>1, CostInvariant, PTL

(* MinCostBFlow with cycle cancelling, augmenting paths or capacity scaling  *)
(* and MinCostSTFlow with EdmondsKarp: a finite value that is returned by an *)
(* unstopped call is the weight of the b-flow that the call leaves, and no   *)
(* other b-flow within the capacities is cheaper.                            *)
CheapestReturned ==
  step = "done" /\ running /\ proc \in {"CYCLE", "SAP", "CAPA", "ST_DIJKSTRA"} /\ ret # InfFloat =>
    /\ ret = Weight(G) /\ IsBFlow(G)
    /\ \A f \in [Edge -> Nat] :
         (\A e \in Edge : f[e] <= G.ucap[e]) /\ IsBFlow([G EXCEPT !.sub = f])
           => ret <= Weight([G EXCEPT !.sub = f])

(* No call of these four methods returns a flow that is not the cheapest,    *)
(* with any choice of the paths and cycles, on any network of                *)
(* CostCallsAssumption: of EdmondsKarp this is said if the potentials at the *)
(* call are compatible, or there are none and the source reaches every node. *)
(* A call that returns InfFloat is not spoken of: SAP may do so although     *)
(* there is a b-flow.                                                        *)
THEOREM CheapestAlways == Spec => []CheapestReturned
<1>1. ASSUME CostInv PROVE CheapestReturned
  <2>. SUFFICES ASSUME step = "done", running, proc \in {"CYCLE", "SAP", "CAPA", "ST_DIJKSTRA"}, ret # InfFloat
                PROVE  /\ ret = Weight(G) /\ IsBFlow(G)
                       /\ \A f \in [Edge -> Nat] :
                            (\A e \in Edge : f[e] <= G.ucap[e]) /\ IsBFlow([G EXCEPT !.sub = f])
                              => ret <= Weight([G EXCEPT !.sub = f])
    BY DEF CheapestReturned
  <2>1. proc # "SIMPLEX" /\ proc # "ST_SAP"
    OBVIOUS
  <2>2. ret = Weight(G) /\ IsBFlow(G) /\ Slack(G) /\ G.delta = 0
    BY <1>1, <2>1 DEF CostInv, ResultKept
  <2>3. G \in Nets
    BY <1>1, <2>1 DEF CostInv, NetworkKept
  <2>4. ASSUME NEW f \in [Edge -> Nat], \A e \in Edge : f[e] <= G.ucap[e], NEW h, h = [G EXCEPT !.sub = f], IsBFlow(h)
        PROVE  Weight(G) <= Weight(h)
    <3>1. f \in [Edge -> Int]
      BY <2>4
    <3>2. h \in Nets /\ SameButFlow(G, h) /\ h.sub = f
      BY <2>3, <2>4, <3>1, WithFlow
    <3>3. Fits(h)
      BY <2>4, <3>2 DEF Fits, SameButFlow
    <3>4. ASSUME NEW v \in Node PROVE Divergence(h, v) = Divergence(G, v)
      <4>1. h.demand[v] - Divergence(h, v) = 0 /\ G.demand[v] - Divergence(G, v) = 0
        BY <2>2, <2>4 DEF IsBFlow, Deficiency
      <4>2. h.demand = G.demand
        BY <3>2 DEF SameButFlow
      <4>3. G.demand[v] \in Int
        BY <2>3, NetParts
      <4>4. Divergence(h, v) \in Int
        BY <3>2, DivergenceIs
      <4>5. Divergence(G, v) \in Int
        BY <2>3, DivergenceIs
      <4>. QED BY ONLY <4>1, <4>2, <4>3, <4>4, <4>5
    <3>. QED BY <2>2, <2>3, <3>2, <3>3, <3>4, SlackIsCheapest
  <2>. QED BY <2>2, <2>4
<1>. QED BY <1>1, CostInvariant, PTL
===============================================================================
