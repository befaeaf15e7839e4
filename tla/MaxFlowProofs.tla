---------------------------- MODULE MaxFlowProofs ----------------------------
(****************************************************************************)
(* Proofs about the maximum flow solver, for every network and every call,   *)
(* and about MCC_HaoOrlin, which pushes flow in the same way, for every      *)
(* digraph, root and kind of queue.                                          *)
(****************************************************************************)
EXTENDS MaxFlow, HaoOrlin, FiniteSetTheorems, NaturalsInduction, WellFoundedInduction, TLAPS

-------------------------------------------------------------------------------
(* Numbers, and functions that are defined by recursion.                     *)

(* A set of natural numbers has a least element.                             *)
LEMMA LeastNumber ==
  ASSUME NEW S \in SUBSET Nat, S # {}
  PROVE  \E k \in S : \A j \in S : k <= j
<1>1. PICK k \in S : \A j \in S : <<j, k>> \notin OpToRel(<, Nat)
  BY NatLessThanWellFounded, WFMin
<1>2. ASSUME NEW j \in S PROVE k <= j
  <2>1. ~(j < k)
    BY <1>1 DEF OpToRel
  <2>2. k \in Nat /\ j \in Nat
    OBVIOUS
  <2>. QED BY <2>1, <2>2
<1>. QED BY <1>2

(* Induction up to a bound.                                                  *)
LEMMA CountUp ==
  ASSUME NEW b \in Nat, NEW S, 0 \in S,
         \A k \in 0 .. b - 1 : k \in S => k + 1 \in S
  PROVE  \A k \in 0 .. b : k \in S
<1>. SUFFICES ASSUME NEW k \in 0 .. b, k \notin S PROVE FALSE
  OBVIOUS
<1>. DEFINE T == {j \in 0 .. b : j \notin S}
<1>1. T \in SUBSET Nat /\ T # {}
  OBVIOUS
<1>2. PICK c \in T : \A j \in T : c <= j
  BY <1>1, LeastNumber
<1>3. c \in Nat /\ c <= b /\ c \notin S /\ c # 0
  BY <1>2
<1>4. c - 1 \in 0 .. b - 1 /\ c - 1 \in 0 .. b /\ ~(c <= c - 1) /\ (c - 1) + 1 = c
  BY <1>3
<1>5. c - 1 \in S
  BY <1>2, <1>4
<1>. QED BY <1>3, <1>4, <1>5

(* A recursion over an index has a solution.                                 *)
Solvable(A, x, k, F) ==
  \E T \in [0 .. k -> A] : T[0] = x /\ \A i \in 1 .. k : T[i] = F[i][T[i - 1]]

LEMMA Iterates ==
  ASSUME NEW A, NEW x \in A, NEW k \in Nat, NEW F \in [1 .. k -> [A -> A]]
  PROVE  Solvable(A, x, k, F)
<1>. DEFINE Good(j, T) == T[0] = x /\ \A i \in 1 .. j : T[i] = F[i][T[i - 1]]
            S == {j \in 0 .. k : \E T \in [0 .. j -> A] : Good(j, T)}
<1>1. 0 \in S
  <2>. DEFINE T == [i \in 0 .. 0 |-> x]
  <2>1. T \in [0 .. 0 -> A] /\ T[0] = x /\ 1 .. 0 = {}
    OBVIOUS
  <2>. HIDE DEF T
  <2>2. Good(0, T)
    BY <2>1
  <2>. QED BY <2>1, <2>2
<1>2. ASSUME NEW j \in 0 .. k - 1, j \in S PROVE j + 1 \in S
  <2>1. PICK T \in [0 .. j -> A] : Good(j, T)
    BY <1>2
  <2>. DEFINE U == [i \in 0 .. j + 1 |-> IF i = j + 1 THEN F[j + 1][T[j]] ELSE T[i]]
  <2>2. j + 1 \in 1 .. k /\ j + 1 \in 0 .. k /\ j \in 0 .. j /\ j \in Nat
    OBVIOUS
  <2>3. F[j + 1] \in [A -> A] /\ T[j] \in A
    BY <2>2
  <2>4. U \in [0 .. j + 1 -> A]
    <3>1. ASSUME NEW i \in 0 .. j + 1, i # j + 1 PROVE T[i] \in A
      <4>1. i \in 0 .. j
        BY <2>2, <3>1
      <4>. QED BY <4>1
    <3>. QED BY <2>3, <3>1
  <2>5. /\ U[j + 1] = F[j + 1][T[j]]
        /\ \A i \in 0 .. j : U[i] = T[i]
    BY <2>2
  <2>. HIDE DEF U
  <2>6. U[0] = x
    <3>1. 0 \in 0 .. j
      BY <2>2
    <3>. QED BY <2>1, <2>5, <3>1
  <2>7. ASSUME NEW i \in 1 .. j + 1 PROVE U[i] = F[i][U[i - 1]]
    <3>1. CASE i = j + 1
      <4>1. i - 1 = j
        BY <2>2, <3>1
      <4>. QED BY <2>2, <2>5, <3>1, <4>1
    <3>2. CASE i # j + 1
      <4>1. i \in 1 .. j /\ i \in 0 .. j /\ i - 1 \in 0 .. j
        BY <2>2, <3>2
      <4>2. T[i] = F[i][T[i - 1]]
        BY <2>1, <4>1
      <4>. QED BY <2>5, <4>1, <4>2
    <3>. QED BY <3>1, <3>2
  <2>8. Good(j + 1, U)
    BY <2>6, <2>7
  <2>. QED BY <2>2, <2>4, <2>8
<1>. HIDE DEF S
<1>3. \A j \in 0 .. k : j \in S
  BY <1>1, <1>2, CountUp, Zenon
<1>4. k \in S
  BY <1>3
<1>. QED BY <1>4 DEF S, Solvable

-------------------------------------------------------------------------------
(* Sums.                                                                     *)

IsSum(f, k, T) == T = [i \in 0 .. k |-> IF i = 0 THEN 0 ELSE T[i - 1] + f[i - 1]]

LEMMA SumExists ==
  ASSUME NEW k \in Nat, NEW f, \A i \in 0 .. k - 1 : f[i] \in Int
  PROVE  \E T \in [0 .. k -> Int] : IsSum(f, k, T)
<1>. DEFINE F == [i \in 1 .. k |-> [z \in Int |-> z + f[i - 1]]]
<1>1. F \in [1 .. k -> [Int -> Int]]
  <2>1. ASSUME NEW i \in 1 .. k PROVE f[i - 1] \in Int
    <3>1. i - 1 \in 0 .. k - 1
      OBVIOUS
    <3>. QED BY <3>1
  <2>. QED BY <2>1
<1>2. \A i \in 1 .. k : \A z \in Int : F[i][z] = z + f[i - 1]
  OBVIOUS
<1>. HIDE DEF F
<1>3. PICK T \in [0 .. k -> Int] : T[0] = 0 /\ \A i \in 1 .. k : T[i] = F[i][T[i - 1]]
  <2>. DEFINE z == 0
  <2>1. z \in Int
    OBVIOUS
  <2>. HIDE DEF z
  <2>2. \E T \in [0 .. k -> Int] : T[0] = z /\ \A i \in 1 .. k : T[i] = F[i][T[i - 1]]
    <3>. DEFINE A == Int
    <3>1. z \in A /\ F \in [1 .. k -> [A -> A]]
      BY <1>1, <2>1
    <3>. HIDE DEF A
    <3>2. Solvable(A, z, k, F)
      BY <3>1, Iterates
    <3>. QED BY <3>2 DEF A, Solvable
  <2>. QED BY <2>2 DEF z
<1>4. ASSUME NEW i \in 0 .. k PROVE T[i] = IF i = 0 THEN 0 ELSE T[i - 1] + f[i - 1]
  <2>1. CASE i = 0
    BY <1>3, <2>1
  <2>2. CASE i # 0
    <3>1. i \in 1 .. k /\ i - 1 \in 0 .. k
      BY <2>2
    <3>2. T[i - 1] \in Int /\ T[i] = F[i][T[i - 1]]
      BY <1>3, <3>1
    <3>. QED BY <1>2, <2>2, <3>1, <3>2
  <2>. QED BY <2>1, <2>2
<1>5. T = [i \in 0 .. k |-> T[i]]
  OBVIOUS
<1>6. IsSum(f, k, T)
  BY <1>4, <1>5 DEF IsSum
<1>. QED BY <1>6

LEMMA SumUnique ==
  ASSUME NEW k \in Nat, NEW j \in 0 .. k, NEW f, NEW T, NEW U, IsSum(f, k, T), IsSum(f, j, U)
  PROVE  T[j] = U[j]
<1>. DEFINE S == {i \in 0 .. j : T[i] = U[i]}
<1>0. j \in Nat /\ \A i \in 0 .. j : i \in 0 .. k
  OBVIOUS
<1>1. /\ \A i \in 0 .. k : T[i] = IF i = 0 THEN 0 ELSE T[i - 1] + f[i - 1]
      /\ \A i \in 0 .. j : U[i] = IF i = 0 THEN 0 ELSE U[i - 1] + f[i - 1]
  BY DEF IsSum
<1>2. 0 \in S
  <2>1. 0 \in 0 .. j /\ 0 \in 0 .. k
    BY <1>0
  <2>. QED BY <1>1, <2>1
<1>3. ASSUME NEW i \in 0 .. j - 1, i \in S PROVE i + 1 \in S
  <2>1. i + 1 \in 0 .. j /\ i + 1 \in 0 .. k /\ i + 1 # 0 /\ (i + 1) - 1 = i
    BY <1>0
  <2>2. T[i + 1] = T[i] + f[i] /\ U[i + 1] = U[i] + f[i]
    BY <1>1, <2>1
  <2>. QED BY <1>3, <2>1, <2>2
<1>. HIDE DEF S
<1>4. j \in S
  BY <1>0, <1>2, <1>3, CountUp
<1>. QED BY <1>4 DEF S

LEMMA SumValue ==
  ASSUME NEW k \in Nat, NEW f, \A i \in 0 .. k - 1 : f[i] \in Int,
         NEW T, IsSum(f, k, T)
  PROVE  SumBelow(f, k) = T[k]
<1>. DEFINE U == CHOOSE U : IsSum(f, k, U)
<1>1. IsSum(f, k, U)
  BY SumExists
<1>2. SumBelow(f, k) = U[k]
  BY DEF SumBelow, IsSum
<1>. HIDE DEF U
<1>3. k \in 0 .. k
  OBVIOUS
<1>. QED BY <1>1, <1>2, <1>3, SumUnique

(* The sum is what its definition says.                                      *)
LEMMA SumStep ==
  ASSUME NEW k \in Nat, NEW f, \A i \in 0 .. k - 1 : f[i] \in Int
  PROVE  /\ SumBelow(f, k) \in Int
         /\ SumBelow(f, 0) = 0
         /\ \A j \in 0 .. k - 1 : /\ SumBelow(f, j) \in Int
                                  /\ SumBelow(f, j + 1) = SumBelow(f, j) + f[j]
<1>1. PICK T \in [0 .. k -> Int] : IsSum(f, k, T)
  BY SumExists
<1>2. ASSUME NEW j \in 0 .. k PROVE SumBelow(f, j) = T[j]
  <2>1. j \in Nat /\ \A i \in 0 .. j - 1 : f[i] \in Int
    OBVIOUS
  <2>2. PICK U : IsSum(f, j, U)
    BY <2>1, SumExists
  <2>3. SumBelow(f, j) = U[j]
    BY <2>1, <2>2, SumValue
  <2>4. T[j] = U[j]
    BY <1>1, <2>2, SumUnique
  <2>. QED BY <2>3, <2>4
<1>3. \A i \in 0 .. k : T[i] = IF i = 0 THEN 0 ELSE T[i - 1] + f[i - 1]
  BY <1>1 DEF IsSum
<1>4. T[0] = 0
  BY <1>3
<1>5. ASSUME NEW j \in 0 .. k - 1
      PROVE  SumBelow(f, j) \in Int /\ SumBelow(f, j + 1) = SumBelow(f, j) + f[j]
  <2>1. j \in 0 .. k /\ j + 1 \in 0 .. k /\ j + 1 # 0 /\ (j + 1) - 1 = j
    OBVIOUS
  <2>2. T[j + 1] = T[j] + f[j]
    BY <1>3, <2>1
  <2>. QED BY <1>2, <2>1, <2>2
<1>6. k \in 0 .. k /\ 0 \in 0 .. k
  OBVIOUS
<1>. QED BY <1>2, <1>4, <1>5, <1>6
LEMMA SumAdd ==
  ASSUME NEW k \in Nat, NEW f, NEW g, NEW h,
         \A i \in 0 .. k - 1 : f[i] \in Int /\ g[i] \in Int /\ h[i] = f[i] + g[i]
  PROVE  SumBelow(h, k) = SumBelow(f, k) + SumBelow(g, k)
<1>. DEFINE S == {j \in 0 .. k : SumBelow(h, j) = SumBelow(f, j) + SumBelow(g, j)}
<1>1. /\ \A i \in 0 .. k - 1 : f[i] \in Int
      /\ \A i \in 0 .. k - 1 : g[i] \in Int
      /\ \A i \in 0 .. k - 1 : h[i] \in Int
  OBVIOUS
<1>2. /\ SumBelow(f, 0) = 0
      /\ \A j \in 0 .. k - 1 : SumBelow(f, j) \in Int /\ SumBelow(f, j + 1) = SumBelow(f, j) + f[j]
  BY <1>1, SumStep
<1>3. /\ SumBelow(g, 0) = 0
      /\ \A j \in 0 .. k - 1 : SumBelow(g, j) \in Int /\ SumBelow(g, j + 1) = SumBelow(g, j) + g[j]
  BY <1>1, SumStep
<1>4. /\ SumBelow(h, 0) = 0
      /\ \A j \in 0 .. k - 1 : SumBelow(h, j) \in Int /\ SumBelow(h, j + 1) = SumBelow(h, j) + h[j]
  BY <1>1, SumStep
<1>5. 0 \in S
  BY <1>2, <1>3, <1>4
<1>6. ASSUME NEW j \in 0 .. k - 1, j \in S PROVE j + 1 \in S
  <2>1. j + 1 \in 0 .. k
    OBVIOUS
  <2>2. h[j] = f[j] + g[j] /\ f[j] \in Int /\ g[j] \in Int
    OBVIOUS
  <2>. QED BY <1>2, <1>3, <1>4, <1>6, <2>1, <2>2
<1>. HIDE DEF S
<1>7. \A j \in 0 .. k : j \in S
  BY <1>5, <1>6, CountUp
<1>8. k \in S
  BY <1>7
<1>. QED BY <1>8 DEF S

LEMMA SumLe ==
  ASSUME NEW k \in Nat, NEW f, NEW g,
         \A i \in 0 .. k - 1 : f[i] \in Int /\ g[i] \in Int /\ f[i] <= g[i]
  PROVE  SumBelow(f, k) <= SumBelow(g, k)
<1>. DEFINE S == {j \in 0 .. k : SumBelow(f, j) <= SumBelow(g, j)}
<1>1. /\ \A i \in 0 .. k - 1 : f[i] \in Int
      /\ \A i \in 0 .. k - 1 : g[i] \in Int
  OBVIOUS
<1>2. /\ SumBelow(f, 0) = 0
      /\ \A j \in 0 .. k - 1 : SumBelow(f, j) \in Int /\ SumBelow(f, j + 1) = SumBelow(f, j) + f[j]
  BY <1>1, SumStep
<1>3. /\ SumBelow(g, 0) = 0
      /\ \A j \in 0 .. k - 1 : SumBelow(g, j) \in Int /\ SumBelow(g, j + 1) = SumBelow(g, j) + g[j]
  BY <1>1, SumStep
<1>5. 0 \in S
  BY <1>2, <1>3
<1>6. ASSUME NEW j \in 0 .. k - 1, j \in S PROVE j + 1 \in S
  <2>1. j + 1 \in 0 .. k
    OBVIOUS
  <2>2. f[j] <= g[j] /\ f[j] \in Int /\ g[j] \in Int
    OBVIOUS
  <2>. QED BY <1>2, <1>3, <1>6, <2>1, <2>2
<1>. HIDE DEF S
<1>7. \A j \in 0 .. k : j \in S
  BY <1>5, <1>6, CountUp
<1>8. k \in S
  BY <1>7
<1>. QED BY <1>8 DEF S

LEMMA SumSame ==
  ASSUME NEW k \in Nat, NEW f, NEW g,
         \A i \in 0 .. k - 1 : f[i] \in Int /\ g[i] = f[i]
  PROVE  SumBelow(f, k) = SumBelow(g, k)
<1>1. SumBelow(f, k) <= SumBelow(g, k)
  <2>1. \A i \in 0 .. k - 1 : f[i] \in Int /\ g[i] \in Int /\ f[i] <= g[i]
    OBVIOUS
  <2>. QED BY <2>1, SumLe
<1>2. SumBelow(g, k) <= SumBelow(f, k)
  <2>1. \A i \in 0 .. k - 1 : g[i] \in Int /\ f[i] \in Int /\ g[i] <= f[i]
    OBVIOUS
  <2>. QED BY <2>1, SumLe
<1>3. (\A i \in 0 .. k - 1 : f[i] \in Int) /\ (\A i \in 0 .. k - 1 : g[i] \in Int)
  OBVIOUS
<1>4. SumBelow(f, k) \in Int /\ SumBelow(g, k) \in Int
  BY <1>3, SumStep
<1>. QED BY <1>1, <1>2, <1>4

(* Terms that are zero from k on do not count.                               *)
LEMMA SumTail ==
  ASSUME NEW k \in Nat, NEW b \in Nat, k <= b, NEW f,
         \A i \in 0 .. b - 1 : f[i] \in Int,
         \A i \in k .. b - 1 : f[i] = 0
  PROVE  SumBelow(f, b) = SumBelow(f, k)
<1>. DEFINE S == {j \in 0 .. b : j >= k => SumBelow(f, j) = SumBelow(f, k)}
<1>1. \A j \in 0 .. b - 1 : SumBelow(f, j) \in Int /\ SumBelow(f, j + 1) = SumBelow(f, j) + f[j]
  BY SumStep
<1>2. 0 \in S
  <2>1. ASSUME 0 >= k PROVE k = 0
    BY <2>1
  <2>. QED BY <2>1
<1>3. ASSUME NEW j \in 0 .. b - 1, j \in S PROVE j + 1 \in S
  <2>1. j + 1 \in 0 .. b /\ j \in Int
    OBVIOUS
  <2>2. CASE j >= k
    <3>1. j \in k .. b - 1
      BY <2>2
    <3>. QED BY <1>1, <1>3, <2>1, <2>2, <3>1
  <2>3. CASE ~(j >= k)
    <3>1. j + 1 >= k => j + 1 = k
      BY <2>1, <2>3
    <3>. QED BY <2>1, <3>1
  <2>. QED BY <2>2, <2>3
<1>. HIDE DEF S
<1>4. \A j \in 0 .. b : j \in S
  BY <1>2, <1>3, CountUp
<1>5. b \in S
  BY <1>4
<1>. QED BY <1>5 DEF S

LEMMA SumZero ==
  ASSUME NEW k \in Nat, NEW f, \A i \in 0 .. k - 1 : f[i] = 0
  PROVE  SumBelow(f, k) = 0
<1>1. /\ \A i \in 0 .. k - 1 : f[i] \in Int
      /\ 0 \in Nat /\ 0 <= k
  OBVIOUS
<1>2. SumBelow(f, k) = SumBelow(f, 0)
  BY <1>1, SumTail
<1>. QED BY <1>1, <1>2, SumStep

(* One term has changed.                                                     *)
LEMMA SumChange ==
  ASSUME NEW k \in Nat, NEW f, NEW h, NEW c \in 0 .. k - 1,
         \A i \in 0 .. k - 1 : f[i] \in Int /\ h[i] \in Int /\ (i # c => h[i] = f[i])
  PROVE  SumBelow(h, k) = SumBelow(f, k) + (h[c] - f[c])
<1>. DEFINE g == [i \in 0 .. k - 1 |-> IF i = c THEN h[c] - f[c] ELSE 0]
            w == [i \in 0 .. k - 1 |-> IF i < c THEN 0 ELSE g[i]]
<1>1. \A i \in 0 .. k - 1 : f[i] \in Int /\ g[i] \in Int /\ h[i] = f[i] + g[i]
  OBVIOUS
<1>2. \A i \in 0 .. k - 1 : g[i] = IF i = c THEN h[c] - f[c] ELSE 0
  OBVIOUS
<1>. HIDE DEF g
<1>3. SumBelow(h, k) = SumBelow(f, k) + SumBelow(g, k)
  BY <1>1, SumAdd
<1>4. c \in Nat /\ c + 1 \in Nat /\ c + 1 <= k /\ \A i \in 0 .. k - 1 : g[i] \in Int
  BY <1>1
<1>5. SumBelow(g, k) = SumBelow(g, c + 1)
  <2>1. \A i \in c + 1 .. k - 1 : g[i] = 0
    BY <1>2, <1>4
  <2>. QED BY <1>4, <2>1, SumTail
<1>6. SumBelow(g, c) = 0
  <2>1. \A i \in 0 .. c - 1 : g[i] = 0
    BY <1>2, <1>4
  <2>. QED BY <1>4, <2>1, SumZero
<1>7. SumBelow(g, c + 1) = SumBelow(g, c) + g[c]
  BY <1>4, SumStep
<1>8. g[c] = h[c] - f[c] /\ g[c] \in Int
  BY <1>1, <1>2
<1>. QED BY <1>3, <1>5, <1>6, <1>7, <1>8

(* A sum of natural numbers is at least each of them.                        *)
LEMMA SumAtLeast ==
  ASSUME NEW k \in Nat, NEW f, \A i \in 0 .. k - 1 : f[i] \in Nat
  PROVE  SumBelow(f, k) \in Nat /\ \A c \in 0 .. k - 1 : f[c] <= SumBelow(f, k)
<1>. DEFINE z == [i \in 0 .. k - 1 |-> 0]
<1>1. \A i \in 0 .. k - 1 : z[i] = 0
  OBVIOUS
<1>. HIDE DEF z
<1>2. SumBelow(z, k) = 0
  BY <1>1, SumZero
<1>3. \A i \in 0 .. k - 1 : z[i] \in Int /\ f[i] \in Int /\ z[i] <= f[i]
  BY <1>1
<1>4. SumBelow(z, k) <= SumBelow(f, k)
  BY <1>3, SumLe
<1>5. SumBelow(f, k) \in Int
  BY <1>3, SumStep
<1>6. ASSUME NEW c \in 0 .. k - 1 PROVE f[c] <= SumBelow(f, k)
  <2>. DEFINE h == [i \in 0 .. k - 1 |-> IF i = c THEN 0 ELSE f[i]]
  <2>1. \A i \in 0 .. k - 1 : f[i] \in Int /\ h[i] \in Int /\ (i # c => h[i] = f[i])
    OBVIOUS
  <2>2. h[c] = 0
    OBVIOUS
  <2>3. \A i \in 0 .. k - 1 : z[i] \in Int /\ h[i] \in Int /\ z[i] <= h[i]
    BY <1>1
  <2>. HIDE DEF h
  <2>4. SumBelow(h, k) = SumBelow(f, k) + (h[c] - f[c])
    BY <2>1, SumChange
  <2>5. SumBelow(z, k) <= SumBelow(h, k)
    BY <2>3, SumLe
  <2>6. f[c] \in Int
    BY <2>1
  <2>. QED BY <1>2, <1>5, <2>2, <2>4, <2>5, <2>6
<1>. QED BY <1>2, <1>4, <1>5, <1>6

(* The sum over the arcs, pair by pair.                                      *)
LEMMA SumPairs ==
  ASSUME NEW k \in Nat, NEW f, NEW h,
         \A i \in 0 .. 2 * k - 1 : f[i] \in Int,
         \A i \in 0 .. k - 1 : h[i] = f[2 * i] + f[2 * i + 1]
  PROVE  SumBelow(f, 2 * k) = SumBelow(h, k)
<1>. DEFINE S == {j \in 0 .. k : SumBelow(f, 2 * j) = SumBelow(h, j)}
<1>0. 2 * k \in Nat
  OBVIOUS
<1>1. /\ SumBelow(f, 0) = 0
      /\ \A j \in 0 .. 2 * k - 1 : SumBelow(f, j) \in Int /\ SumBelow(f, j + 1) = SumBelow(f, j) + f[j]
  BY <1>0, SumStep
<1>2. ASSUME NEW i \in 0 .. k - 1
      PROVE  2 * i \in 0 .. 2 * k - 1 /\ 2 * i + 1 \in 0 .. 2 * k - 1 /\ h[i] \in Int
  <2>1. 2 * i \in 0 .. 2 * k - 1 /\ 2 * i + 1 \in 0 .. 2 * k - 1
    OBVIOUS
  <2>2. f[2 * i] \in Int /\ f[2 * i + 1] \in Int
    BY <2>1
  <2>. QED BY <2>1, <2>2
<1>3. /\ SumBelow(h, 0) = 0
      /\ \A j \in 0 .. k - 1 : SumBelow(h, j) \in Int /\ SumBelow(h, j + 1) = SumBelow(h, j) + h[j]
  BY <1>2, SumStep
<1>4. 0 \in S
  BY <1>1, <1>3
<1>5. ASSUME NEW j \in 0 .. k - 1, j \in S PROVE j + 1 \in S
  <2>1. j + 1 \in 0 .. k /\ 2 * (j + 1) = (2 * j + 1) + 1
    OBVIOUS
  <2>2. SumBelow(f, (2 * j + 1) + 1) = SumBelow(f, 2 * j + 1) + f[2 * j + 1]
    BY <1>1, <1>2
  <2>3. SumBelow(f, 2 * j + 1) = SumBelow(f, 2 * j) + f[2 * j]
    BY <1>1, <1>2
  <2>4. SumBelow(f, 2 * j) \in Int /\ f[2 * j] \in Int /\ f[2 * j + 1] \in Int
    BY <1>1, <1>2
  <2>5. SumBelow(f, 2 * (j + 1)) = (SumBelow(f, 2 * j) + f[2 * j]) + f[2 * j + 1]
    BY <2>1, <2>2, <2>3
  <2>6. SumBelow(f, 2 * j) = SumBelow(h, j) /\ h[j] = f[2 * j] + f[2 * j + 1]
    BY <1>5
  <2>7. SumBelow(h, j + 1) = SumBelow(h, j) + h[j]
    BY <1>3
  <2>8. SumBelow(f, 2 * (j + 1)) = SumBelow(h, j + 1)
    BY <2>4, <2>5, <2>6, <2>7
  <2>. QED BY <2>1, <2>8
<1>. HIDE DEF S
<1>6. \A j \in 0 .. k : j \in S
  BY <1>4, <1>5, CountUp
<1>7. k \in S
  BY <1>6
<1>. QED BY <1>7 DEF S
-------------------------------------------------------------------------------
(* Arcs, and what a network is.                                              *)

LEMMA Sizes == n \in Nat /\ n > 1 /\ m \in Nat /\ InfCap \in Nat /\ InfFloat \in Nat /\ InfFloat > n
BY SizeAssumption, InfAssumption, FlowAssumption

LEMMA Ends == s \in Node /\ t \in Node /\ s # t /\ Inner \subseteq Node /\ s \notin Inner /\ t \notin Inner
BY Sizes DEF s, t, Node, Inner

LEMMA ArcFacts ==
  ASSUME NEW a \in Arc
  PROVE  /\ EdgeOf(a) \in Edge /\ Twin(a) \in Arc /\ Twin(a) # a /\ Twin(Twin(a)) = a
         /\ EdgeOf(Twin(a)) = EdgeOf(a)
         /\ Backward(Twin(a)) = ~Backward(a)
         /\ a = 2 * EdgeOf(a) + (IF Backward(a) THEN 1 ELSE 0)
<1>0. m \in Nat /\ a \in Nat /\ a <= 2 * m - 1
  BY Sizes DEF Arc
<1>. DEFINE k == a \div 2
            b == a % 2
<1>1. k \in Nat /\ b \in {0, 1} /\ a = 2 * k + b
  BY <1>0
<1>2. ASSUME NEW j \in Nat PROVE (2 * j) \div 2 = j /\ (2 * j) % 2 = 0 /\ (2 * j + 1) \div 2 = j /\ (2 * j + 1) % 2 = 1
  OBVIOUS
<1>. HIDE DEF k, b
<1>3. CASE b = 0
  <2>1. a = 2 * k /\ a + 1 = 2 * k + 1 /\ k <= m - 1 /\ (2 * k + 1) - 1 = 2 * k
    BY <1>0, <1>1, <1>3
  <2>2. ~Backward(a) /\ Twin(a) = 2 * k + 1 /\ EdgeOf(a) = k
    BY <1>1, <1>2, <2>1 DEF Backward, Twin, EdgeOf
  <2>3. Backward(Twin(a)) /\ EdgeOf(Twin(a)) = k /\ Twin(Twin(a)) = 2 * k
    BY <1>1, <1>2, <2>1, <2>2 DEF Backward, Twin, EdgeOf
  <2>4. k \in Edge /\ 2 * k + 1 \in Arc /\ 2 * k + 1 # 2 * k
    BY <1>0, <1>1, <2>1 DEF Edge, Arc
  <2>5. a = 2 * EdgeOf(a) + (IF Backward(a) THEN 1 ELSE 0)
    BY <1>1, <2>1, <2>2
  <2>6. Twin(Twin(a)) = a /\ Twin(a) # a
    BY <2>1, <2>2, <2>3, <2>4
  <2>7. Backward(Twin(a)) = ~Backward(a)
    BY <2>2, <2>3 DEF Backward
  <2>8. EdgeOf(a) \in Edge /\ Twin(a) \in Arc /\ EdgeOf(Twin(a)) = EdgeOf(a)
    BY <2>2, <2>3, <2>4
  <2>. QED BY <2>5, <2>6, <2>7, <2>8
<1>4. CASE b = 1
  <2>1. a = 2 * k + 1 /\ a - 1 = 2 * k /\ k <= m - 1
    BY <1>0, <1>1, <1>4
  <2>2. Backward(a) /\ Twin(a) = 2 * k /\ EdgeOf(a) = k
    BY <1>1, <1>2, <2>1 DEF Backward, Twin, EdgeOf
  <2>3. ~Backward(Twin(a)) /\ EdgeOf(Twin(a)) = k /\ Twin(Twin(a)) = 2 * k + 1
    BY <1>1, <1>2, <2>1, <2>2 DEF Backward, Twin, EdgeOf
  <2>4. k \in Edge /\ 2 * k \in Arc /\ 2 * k + 1 # 2 * k
    BY <1>0, <1>1, <2>1 DEF Edge, Arc
  <2>5. a = 2 * EdgeOf(a) + (IF Backward(a) THEN 1 ELSE 0)
    BY <1>1, <2>1, <2>2
  <2>6. Twin(Twin(a)) = a /\ Twin(a) # a
    BY <2>1, <2>2, <2>3, <2>4
  <2>7. Backward(Twin(a)) = ~Backward(a)
    BY <2>2, <2>3 DEF Backward
  <2>8. EdgeOf(a) \in Edge /\ Twin(a) \in Arc /\ EdgeOf(Twin(a)) = EdgeOf(a)
    BY <2>2, <2>3, <2>4
  <2>. QED BY <2>5, <2>6, <2>7, <2>8
<1>. QED BY <1>1, <1>3, <1>4

LEMMA SameEdge ==
  ASSUME NEW a \in Arc, NEW b \in Arc, EdgeOf(a) = EdgeOf(b), a # b
  PROVE  b = Twin(a) /\ Backward(b) = ~Backward(a)
<1>1. /\ a = 2 * EdgeOf(a) + (IF Backward(a) THEN 1 ELSE 0)
      /\ b = 2 * EdgeOf(a) + (IF Backward(b) THEN 1 ELSE 0)
      /\ EdgeOf(a) \in Nat
  BY ArcFacts DEF Edge
<1>2. Backward(b) = ~Backward(a)
  BY <1>1 DEF Backward
<1>. QED BY <1>1, <1>2 DEF Twin

LEMMA EdgeArcs ==
  ASSUME NEW e \in Edge
  PROVE  /\ 2 * e \in Arc /\ EdgeOf(2 * e) = e /\ ~Backward(2 * e)
         /\ 2 * e + 1 \in Arc /\ EdgeOf(2 * e + 1) = e /\ Backward(2 * e + 1)
         /\ Twin(2 * e) = 2 * e + 1 /\ Twin(2 * e + 1) = 2 * e
<1>1. e \in Nat /\ 2 * e \in Arc /\ 2 * e + 1 \in Arc
  BY Sizes DEF Edge, Arc
<1>2. (2 * e) \div 2 = e /\ (2 * e) % 2 = 0 /\ (2 * e + 1) \div 2 = e /\ (2 * e + 1) % 2 = 1 /\ (2 * e + 1) - 1 = 2 * e
  BY <1>1
<1>. QED BY <1>1, <1>2 DEF EdgeOf, Backward, Twin

(* The parts of IsNetwork, one by one.                                       *)
LEMMA NetworkParts ==
  ASSUME NEW g, IsNetwork(g)
  PROVE  /\ g = [ends |-> g.ends, orientation |-> g.orientation, ucap |-> g.ucap, sub |-> g.sub, delta |-> g.delta]
         /\ g.ends \in [Edge -> Node \X Node] /\ g.orientation = [e \in Edge |-> 1]
         /\ g.ucap \in [Edge -> 0 .. InfCap] /\ g.sub \in [Edge -> Nat] /\ g.delta \in Nat
         /\ \A e \in Edge : /\ g.ends[e][1] \in Node /\ g.ends[e][2] \in Node /\ g.ends[e][1] # g.ends[e][2]
                            /\ g.sub[e] \in Nat /\ g.ucap[e] \in Nat /\ g.sub[e] <= g.ucap[e] /\ g.ucap[e] <= InfCap
         /\ SumBelow(g.ucap, m) <= InfFloat
<1>1. g \in [ends : [Edge -> Node \X Node], orientation : [Edge -> {1}],
             ucap : [Edge -> 0 .. InfCap], sub : [Edge -> Nat], delta : Nat]
  BY DEF IsNetwork
<1>2. /\ g.ends \in [Edge -> Node \X Node] /\ g.orientation \in [Edge -> {1}]
      /\ g.ucap \in [Edge -> 0 .. InfCap] /\ g.sub \in [Edge -> Nat] /\ g.delta \in Nat
      /\ g = [ends |-> g.ends, orientation |-> g.orientation, ucap |-> g.ucap, sub |-> g.sub, delta |-> g.delta]
  BY <1>1
<1>3. g.orientation = [e \in Edge |-> 1]
  BY <1>2
<1>4. ASSUME NEW e \in Edge
      PROVE  /\ g.ends[e][1] \in Node /\ g.ends[e][2] \in Node
             /\ g.sub[e] \in Nat /\ g.ucap[e] \in Nat /\ g.ucap[e] <= InfCap
  <2>1. g.ends[e] \in Node \X Node /\ g.sub[e] \in Nat /\ g.ucap[e] \in 0 .. InfCap
    BY <1>2
  <2>. QED BY <2>1, Sizes
<1>. QED BY <1>2, <1>3, <1>4 DEF IsNetwork

LEMMA NetworkArcs ==
  ASSUME NEW g, IsNetwork(g), NEW a \in Arc
  PROVE  /\ StartNode(g, a) \in Node /\ EndNode(g, a) \in Node /\ StartNode(g, a) # EndNode(g, a)
         /\ StartNode(g, Twin(a)) = EndNode(g, a) /\ EndNode(g, Twin(a)) = StartNode(g, a)
         /\ ResCap(g, a) \in Nat
         /\ ~Backward(a) => /\ StartNode(g, a) = g.ends[EdgeOf(a)][1] /\ EndNode(g, a) = g.ends[EdgeOf(a)][2]
                            /\ ResCap(g, a) = g.ucap[EdgeOf(a)] - g.sub[EdgeOf(a)]
         /\ Backward(a) => /\ StartNode(g, a) = g.ends[EdgeOf(a)][2] /\ EndNode(g, a) = g.ends[EdgeOf(a)][1]
                           /\ ResCap(g, a) = g.sub[EdgeOf(a)]
<1>1. /\ EdgeOf(a) \in Edge /\ Twin(a) \in Arc /\ Twin(Twin(a)) = a
      /\ EdgeOf(Twin(a)) = EdgeOf(a) /\ Backward(Twin(a)) = ~Backward(a)
  BY ArcFacts
<1>. DEFINE e == EdgeOf(a)
<1>2. /\ g.ends[e][1] \in Node /\ g.ends[e][2] \in Node /\ g.ends[e][1] # g.ends[e][2]
      /\ g.sub[e] \in Nat /\ g.ucap[e] \in Nat /\ g.sub[e] <= g.ucap[e]
  BY <1>1, NetworkParts
<1>3. /\ StartNode(g, a) = g.ends[e][IF Backward(a) THEN 2 ELSE 1]
      /\ EndNode(g, a) = g.ends[e][IF Backward(a) THEN 1 ELSE 2]
      /\ EndNode(g, Twin(a)) = StartNode(g, a) /\ StartNode(g, Twin(a)) = EndNode(g, a)
      /\ ResCap(g, a) = IF Backward(a) THEN g.sub[e] ELSE g.ucap[e] - g.sub[e]
  BY <1>1 DEF StartNode, EndNode, ResCap, Sub, UCap
<1>. HIDE DEF e
<1>4. CASE Backward(a)
  BY <1>2, <1>3, <1>4 DEF e
<1>5. CASE ~Backward(a)
  <2>1. g.ucap[e] - g.sub[e] \in Nat
    BY <1>2
  <2>. QED BY <1>2, <1>3, <1>5, <2>1 DEF e
<1>. QED BY <1>4, <1>5

(* Networks that differ in the flow and the threshold only.                  *)
SameNet(g, h) == g.ends = h.ends /\ g.ucap = h.ucap /\ g.orientation = h.orientation

LEMMA SameNetArcs ==
  ASSUME NEW g, NEW h, SameNet(g, h), NEW a
  PROVE  StartNode(h, a) = StartNode(g, a) /\ EndNode(h, a) = EndNode(g, a) /\ UCap(h, a) = UCap(g, a)
BY DEF SameNet, StartNode, EndNode, UCap

(* What a push changes.                                                      *)
LEMMA PushedNet ==
  ASSUME NEW g, IsNetwork(g), NEW a \in Arc, NEW x \in Nat, x <= ResCap(g, a)
  PROVE  LET h == Pushed(g, a, x) IN
         /\ IsNetwork(h) /\ SameNet(g, h) /\ h.delta = g.delta
         /\ ResCap(h, a) = ResCap(g, a) - x
         /\ ResCap(h, Twin(a)) = ResCap(g, Twin(a)) + x
         /\ \A b \in Arc \ {a, Twin(a)} : ResCap(h, b) = ResCap(g, b)
         /\ \A e \in Edge : e # EdgeOf(a) => h.sub[e] = g.sub[e]
         /\ h.sub[EdgeOf(a)] = IF Backward(a) THEN g.sub[EdgeOf(a)] - x ELSE g.sub[EdgeOf(a)] + x
<1>. DEFINE h == Pushed(g, a, x)
            c == EdgeOf(a)
            y == IF Backward(a) THEN g.sub[c] - x ELSE g.sub[c] + x
<1>0. c \in Edge
  BY ArcFacts
<1>1. /\ g = [ends |-> g.ends, orientation |-> g.orientation, ucap |-> g.ucap, sub |-> g.sub, delta |-> g.delta]
      /\ g.sub \in [Edge -> Nat] /\ g.ends \in [Edge -> Node \X Node] /\ g.orientation = [e \in Edge |-> 1]
      /\ g.ucap \in [Edge -> 0 .. InfCap] /\ g.delta \in Nat
      /\ g.sub[c] \in Nat /\ g.ucap[c] \in Nat /\ g.sub[c] <= g.ucap[c]
  BY <1>0, NetworkParts
<1>2. h = [g EXCEPT !.sub[c] = y]
  BY DEF Pushed
<1>3. /\ h = [ends |-> g.ends, orientation |-> g.orientation, ucap |-> g.ucap,
              sub |-> [g.sub EXCEPT ![c] = y], delta |-> g.delta]
  BY <1>1, <1>2
<1>4. y \in Nat /\ y <= g.ucap[c]
  <2>1. CASE Backward(a)
    BY <1>1, <2>1, NetworkArcs
  <2>2. CASE ~Backward(a)
    BY <1>1, <2>2, NetworkArcs
  <2>. QED BY <2>1, <2>2
<1>5. h.ends = g.ends /\ h.orientation = g.orientation /\ h.ucap = g.ucap /\ h.delta = g.delta /\ h.sub = [g.sub EXCEPT ![c] = y]
  BY <1>3
<1>6. h.sub \in [Edge -> Nat] /\ h.sub[c] = y /\ \A e \in Edge : e # c => h.sub[e] = g.sub[e]
  BY <1>0, <1>1, <1>4, <1>5
<1>. HIDE DEF y, h
<1>7. IsNetwork(h)
  <2>1. h \in [ends : [Edge -> Node \X Node], orientation : [Edge -> {1}],
             ucap : [Edge -> 0 .. InfCap], sub : [Edge -> Nat], delta : Nat]
    <3>1. g.orientation \in [Edge -> {1}]
      BY <1>1
    <3>2. h = [ends |-> g.ends, orientation |-> g.orientation, ucap |-> g.ucap, sub |-> h.sub, delta |-> g.delta]
      BY <1>3, <1>5
    <3>. QED BY <1>1, <1>6, <3>1, <3>2
  <2>2. \A e \in Edge : h.ends[e][1] # h.ends[e][2] /\ h.sub[e] <= h.ucap[e]
    <3>1. \A e \in Edge : g.ends[e][1] # g.ends[e][2] /\ g.sub[e] <= g.ucap[e]
      BY NetworkParts
    <3>. QED BY <1>4, <1>5, <1>6, <3>1
  <2>3. SumBelow(h.ucap, m) <= InfFloat
    BY <1>5, NetworkParts
  <2>. QED BY <2>1, <2>2, <2>3 DEF IsNetwork
<1>8. ASSUME NEW b \in Arc
      PROVE  ResCap(h, b) = IF b = a THEN ResCap(g, a) - x ELSE IF b = Twin(a) THEN ResCap(g, b) + x ELSE ResCap(g, b)
  <2>0. EdgeOf(b) \in Edge /\ EdgeOf(Twin(a)) = c /\ Twin(a) \in Arc /\ Twin(a) # a /\ Backward(Twin(a)) = ~Backward(a)
    BY ArcFacts
  <2>1. /\ ResCap(g, b) = IF Backward(b) THEN g.sub[EdgeOf(b)] ELSE g.ucap[EdgeOf(b)] - g.sub[EdgeOf(b)]
        /\ ResCap(h, b) = IF Backward(b) THEN h.sub[EdgeOf(b)] ELSE g.ucap[EdgeOf(b)] - h.sub[EdgeOf(b)]
    BY <1>5 DEF ResCap, Sub, UCap
  <2>2. CASE b = a
    BY <1>0, <1>1, <1>6, <2>1, <2>2 DEF y
  <2>3. CASE b = Twin(a)
    <3>1. EdgeOf(b) = c /\ Backward(b) = ~Backward(a) /\ b # a
      BY <2>0, <2>3
    <3>2. h.sub[c] = y
      BY <1>6
    <3>3. CASE Backward(a)
      <4>1. ResCap(g, b) = g.ucap[c] - g.sub[c] /\ ResCap(h, b) = g.ucap[c] - y /\ y = g.sub[c] - x
        BY <2>1, <3>1, <3>2, <3>3 DEF y
      <4>2. ResCap(h, b) = ResCap(g, b) + x
        BY <1>1, <4>1
      <4>. QED BY <2>3, <3>1, <4>2
    <3>4. CASE ~Backward(a)
      <4>1. ResCap(g, b) = g.sub[c] /\ ResCap(h, b) = y /\ y = g.sub[c] + x
        BY <2>1, <3>1, <3>2, <3>4 DEF y
      <4>. QED BY <2>3, <3>1, <4>1
    <3>. QED BY <3>3, <3>4
  <2>4. CASE b # a /\ b # Twin(a)
    <3>1. EdgeOf(b) # c
      BY <2>4, SameEdge
    <3>. QED BY <1>6, <2>0, <2>1, <2>4, <3>1
  <2>. QED BY <2>2, <2>3, <2>4
<1>9. Twin(a) \in Arc /\ Twin(a) # a
  BY ArcFacts
<1>10. /\ ResCap(h, a) = ResCap(g, a) - x /\ ResCap(h, Twin(a)) = ResCap(g, Twin(a)) + x
       /\ \A b \in Arc \ {a, Twin(a)} : ResCap(h, b) = ResCap(g, b)
  BY <1>8, <1>9
<1>11. SameNet(g, h) /\ h.delta = g.delta
  BY <1>5 DEF SameNet
<1>12. h.sub[c] = IF Backward(a) THEN g.sub[c] - x ELSE g.sub[c] + x
  BY <1>6 DEF y
<1>. QED BY <1>6, <1>7, <1>10, <1>11, <1>12 DEF h
-------------------------------------------------------------------------------
(* What flows into a set of nodes, and the capacity that leaves it.          *)

Term(g, X, e) ==
  (IF g.ends[e][2] \in X THEN g.sub[e] ELSE 0) - (IF g.ends[e][1] \in X THEN g.sub[e] ELSE 0)
NetIn(g, X) == SumBelow([e \in Edge |-> Term(g, X, e)], m)
CutTerm(g, X, e) == IF g.ends[e][1] \in X /\ g.ends[e][2] \notin X THEN g.ucap[e] ELSE 0

LEMMA NetTypes ==
  ASSUME NEW g, IsNetwork(g), NEW X
  PROVE  /\ \A e \in Edge : Term(g, X, e) \in Int /\ CutTerm(g, X, e) \in Nat
         /\ NetIn(g, X) \in Int /\ CutCap(g, X) \in Nat
         /\ CutCap(g, X) = SumBelow([e \in Edge |-> CutTerm(g, X, e)], m)
<1>1. ASSUME NEW e \in Edge PROVE Term(g, X, e) \in Int /\ CutTerm(g, X, e) \in Nat
  <2>1. g.sub[e] \in Nat /\ g.ucap[e] \in Nat
    BY NetworkParts
  <2>. QED BY <2>1 DEF Term, CutTerm
<1>. DEFINE f == [e \in Edge |-> Term(g, X, e)]
            h == [e \in Edge |-> CutTerm(g, X, e)]
<1>2. /\ \A i \in 0 .. m - 1 : f[i] \in Int
      /\ \A i \in 0 .. m - 1 : h[i] \in Nat
  BY <1>1 DEF Edge
<1>3. CutCap(g, X) = SumBelow(h, m)
  BY DEF CutCap, CutTerm
<1>4. NetIn(g, X) = SumBelow(f, m)
  BY DEF NetIn
<1>. HIDE DEF f, h
<1>5. SumBelow(f, m) \in Int
  BY <1>2, Sizes, SumStep
<1>6. SumBelow(h, m) \in Nat
  BY <1>2, Sizes, SumAtLeast
<1>. QED BY <1>1, <1>3, <1>4, <1>5, <1>6 DEF h

LEMMA NetSingle ==
  ASSUME NEW g, IsNetwork(g), NEW v
  PROVE  NetIn(g, {v}) = Divergence(g, v) /\ Divergence(g, v) \in Int
<1>. DEFINE f == [e \in Edge |-> Term(g, {v}, e)]
            h == [e \in Edge |-> (IF g.ends[e][2] = v THEN g.sub[e] ELSE 0)
                                 - (IF g.ends[e][1] = v THEN g.sub[e] ELSE 0)]
<1>1. \A e \in Edge : f[e] = h[e] /\ f[e] \in Int
  <2>1. \A e \in Edge : Term(g, {v}, e) \in Int
    BY NetTypes
  <2>. QED BY <2>1 DEF Term
<1>2. NetIn(g, {v}) = SumBelow(f, m) /\ Divergence(g, v) = SumBelow(h, m)
  BY DEF NetIn, Divergence
<1>3. \A i \in 0 .. m - 1 : f[i] \in Int /\ h[i] = f[i]
  BY <1>1 DEF Edge
<1>. HIDE DEF f, h
<1>4. SumBelow(f, m) = SumBelow(h, m)
  BY <1>3, Sizes, SumSame
<1>5. NetIn(g, {v}) \in Int
  BY NetTypes
<1>. QED BY <1>2, <1>4, <1>5

LEMMA NetAdd ==
  ASSUME NEW g, IsNetwork(g), NEW X, NEW v, v \notin X
  PROVE  NetIn(g, X \union {v}) = NetIn(g, X) + Divergence(g, v)
<1>. DEFINE f == [e \in Edge |-> Term(g, X, e)]
            h == [e \in Edge |-> Term(g, {v}, e)]
            w == [e \in Edge |-> Term(g, X \union {v}, e)]
<1>1. ASSUME NEW e \in Edge PROVE f[e] \in Int /\ h[e] \in Int /\ w[e] = f[e] + h[e]
  <2>1. g.sub[e] \in Nat
    BY NetworkParts
  <2>2. f[e] = Term(g, X, e) /\ h[e] = Term(g, {v}, e) /\ w[e] = Term(g, X \union {v}, e)
    OBVIOUS
  <2>. DEFINE In(Y, u) == IF u \in Y THEN g.sub[e] ELSE 0
              p == g.ends[e][1]
              q == g.ends[e][2]
  <2>3. ASSUME NEW Y PROVE Term(g, Y, e) = In(Y, q) - In(Y, p)
    BY DEF Term
  <2>4. ASSUME NEW u
        PROVE  In(X, u) \in Int /\ In({v}, u) \in Int /\ In(X \union {v}, u) = In(X, u) + In({v}, u)
    BY <2>1
  <2>. HIDE DEF f, h, w, In, p, q
  <2>5. /\ f[e] = In(X, q) - In(X, p) /\ h[e] = In({v}, q) - In({v}, p)
        /\ w[e] = In(X \union {v}, q) - In(X \union {v}, p)
    BY <2>2, <2>3
  <2>6. /\ In(X, q) \in Int /\ In({v}, q) \in Int /\ In(X \union {v}, q) = In(X, q) + In({v}, q)
        /\ In(X, p) \in Int /\ In({v}, p) \in Int /\ In(X \union {v}, p) = In(X, p) + In({v}, p)
    BY <2>4
  <2>. QED BY <2>5, <2>6
<1>2. NetIn(g, X) = SumBelow(f, m) /\ NetIn(g, {v}) = SumBelow(h, m) /\ NetIn(g, X \union {v}) = SumBelow(w, m)
  BY DEF NetIn
<1>3. \A i \in 0 .. m - 1 : f[i] \in Int /\ h[i] \in Int /\ w[i] = f[i] + h[i]
  BY <1>1 DEF Edge
<1>. HIDE DEF f, h, w
<1>4. SumBelow(w, m) = SumBelow(f, m) + SumBelow(h, m)
  BY <1>3, Sizes, SumAdd
<1>. QED BY <1>2, <1>4, NetSingle

LEMMA NetSub ==
  ASSUME NEW g, IsNetwork(g), NEW X, NEW v \in X
  PROVE  NetIn(g, X) = NetIn(g, X \ {v}) + Divergence(g, v)
<1>1. (X \ {v}) \union {v} = X /\ v \notin X \ {v}
  OBVIOUS
<1>. QED BY <1>1, NetAdd

LEMMA NetEnds ==
  ASSUME NEW g, IsNetwork(g)
  PROVE  NetIn(g, {}) = 0 /\ NetIn(g, Node) = 0
<1>. DEFINE f == [e \in Edge |-> Term(g, {}, e)]
            h == [e \in Edge |-> Term(g, Node, e)]
<1>1. \A e \in Edge : g.sub[e] \in Nat /\ g.ends[e][1] \in Node /\ g.ends[e][2] \in Node
  BY NetworkParts
<1>2. \A e \in Edge : f[e] = 0 /\ h[e] = 0
  BY <1>1 DEF Term
<1>3. NetIn(g, {}) = SumBelow(f, m) /\ NetIn(g, Node) = SumBelow(h, m)
  BY DEF NetIn
<1>4. (\A i \in 0 .. m - 1 : f[i] = 0) /\ (\A i \in 0 .. m - 1 : h[i] = 0)
  BY <1>2 DEF Edge
<1>. HIDE DEF f, h
<1>. QED BY <1>3, <1>4, Sizes, SumZero

(* The sign of the divergences is the sign of their sum.                     *)
LEMMA NetSign ==
  ASSUME NEW g, IsNetwork(g), NEW X \in SUBSET Node
  PROVE  /\ (\A v \in X : Divergence(g, v) >= 0) => NetIn(g, X) >= 0
         /\ (\A v \in X : Divergence(g, v) <= 0) => NetIn(g, X) <= 0
<1>. DEFINE P(Y) == /\ (\A v \in X : Divergence(g, v) >= 0) => NetIn(g, Y) >= 0
                    /\ (\A v \in X : Divergence(g, v) <= 0) => NetIn(g, Y) <= 0
            S == {k \in 0 .. n : P(X \intersect 0 .. k - 1)}
<1>1. 0 \in S
  <2>1. X \intersect 0 .. 0 - 1 = {} /\ 0 \in 0 .. n
    BY Sizes
  <2>2. P({})
    BY NetEnds
  <2>. QED BY <2>1, <2>2
<1>2. ASSUME NEW k \in 0 .. n - 1, k \in S PROVE k + 1 \in S
  <2>. DEFINE Y == X \intersect 0 .. k - 1
              Z == X \intersect 0 .. (k + 1) - 1
  <2>1. P(Y) /\ k + 1 \in 0 .. n
    BY <1>2, Sizes
  <2>2. CASE k \in X
    <3>1. Z = Y \union {k} /\ k \notin Y
      BY <2>2, Sizes
    <3>. HIDE DEF Y, Z
    <3>2. NetIn(g, Z) = NetIn(g, Y) + Divergence(g, k)
      BY <3>1, NetAdd
    <3>3. NetIn(g, Y) \in Int /\ Divergence(g, k) \in Int
      BY NetTypes, NetSingle
    <3>4. P(Z)
      BY <2>1, <2>2, <3>2, <3>3
    <3>. QED BY <2>1, <3>4 DEF Z
  <2>3. CASE k \notin X
    <3>1. Z = Y
      BY <2>3, Sizes
    <3>2. P(Z)
      BY <2>1, <3>1
    <3>. QED BY <2>1, <3>2
  <2>. QED BY <2>2, <2>3
<1>. HIDE DEF S
<1>3. \A k \in 0 .. n : k \in S
  BY <1>1, <1>2, Sizes, CountUp
<1>4. n \in S
  BY <1>3, Sizes
<1>5. X \intersect 0 .. n - 1 = X
  BY DEF Node
<1>. QED BY <1>4, <1>5 DEF S

LEMMA NetAtLeast ==
  ASSUME NEW g, IsNetwork(g), NEW X \in SUBSET Node, NEW w \in X,
         \A v \in X \ {w} : Divergence(g, v) >= 0
  PROVE  NetIn(g, X) >= Divergence(g, w)
<1>1. NetIn(g, X) = NetIn(g, X \ {w}) + Divergence(g, w)
  BY NetSub
<1>2. X \ {w} \in SUBSET Node
  OBVIOUS
<1>3. NetIn(g, X \ {w}) >= 0
  BY <1>2, NetSign
<1>4. NetIn(g, X \ {w}) \in Int /\ Divergence(g, w) \in Int
  BY NetTypes, NetSingle
<1>. QED BY <1>1, <1>3, <1>4

LEMMA NetExactly ==
  ASSUME NEW g, IsNetwork(g), NEW X \in SUBSET Node, NEW w \in X,
         \A v \in X \ {w} : Divergence(g, v) = 0
  PROVE  NetIn(g, X) = Divergence(g, w)
<1>1. NetIn(g, X) = NetIn(g, X \ {w}) + Divergence(g, w)
  BY NetSub
<1>2. X \ {w} \in SUBSET Node
  OBVIOUS
<1>3. NetIn(g, X \ {w}) >= 0 /\ NetIn(g, X \ {w}) <= 0
  BY <1>2, NetSign
<1>4. NetIn(g, X \ {w}) \in Int /\ Divergence(g, w) \in Int
  BY NetTypes, NetSingle
<1>. QED BY <1>1, <1>3, <1>4
LEMMA NetComplement ==
  ASSUME NEW g, IsNetwork(g), NEW X \in SUBSET Node
  PROVE  NetIn(g, Node \ X) = -NetIn(g, X)
<1>. DEFINE f == [e \in Edge |-> Term(g, X, e)]
            h == [e \in Edge |-> Term(g, Node \ X, e)]
            w == [e \in Edge |-> Term(g, Node, e)]
<1>1. ASSUME NEW e \in Edge PROVE f[e] \in Int /\ h[e] \in Int /\ w[e] = f[e] + h[e]
  <2>1. g.sub[e] \in Nat /\ g.ends[e][1] \in Node /\ g.ends[e][2] \in Node
    BY NetworkParts
  <2>2. f[e] = Term(g, X, e) /\ h[e] = Term(g, Node \ X, e) /\ w[e] = Term(g, Node, e)
    OBVIOUS
  <2>. DEFINE In(Y, u) == IF u \in Y THEN g.sub[e] ELSE 0
              p == g.ends[e][1]
              q == g.ends[e][2]
  <2>3. ASSUME NEW Y PROVE Term(g, Y, e) = In(Y, q) - In(Y, p)
    BY DEF Term
  <2>4. ASSUME NEW u \in Node
        PROVE  In(X, u) \in Int /\ In(Node \ X, u) \in Int /\ In(Node, u) = In(X, u) + In(Node \ X, u)
    BY <2>1
  <2>. HIDE DEF f, h, w, In
  <2>5. /\ f[e] = In(X, q) - In(X, p) /\ h[e] = In(Node \ X, q) - In(Node \ X, p)
        /\ w[e] = In(Node, q) - In(Node, p)
    BY <2>2, <2>3
  <2>6. /\ In(X, q) \in Int /\ In(Node \ X, q) \in Int /\ In(Node, q) = In(X, q) + In(Node \ X, q)
        /\ In(X, p) \in Int /\ In(Node \ X, p) \in Int /\ In(Node, p) = In(X, p) + In(Node \ X, p)
    BY <2>1, <2>4
  <2>. HIDE DEF p, q
  <2>. QED BY <2>5, <2>6
<1>2. NetIn(g, X) = SumBelow(f, m) /\ NetIn(g, Node \ X) = SumBelow(h, m) /\ NetIn(g, Node) = SumBelow(w, m)
  BY DEF NetIn
<1>3. \A i \in 0 .. m - 1 : f[i] \in Int /\ h[i] \in Int /\ w[i] = f[i] + h[i]
  BY <1>1 DEF Edge
<1>. HIDE DEF f, h, w
<1>4. SumBelow(w, m) = SumBelow(f, m) + SumBelow(h, m)
  BY <1>3, Sizes, SumAdd
<1>5. NetIn(g, Node) = 0 /\ NetIn(g, X) \in Int /\ NetIn(g, Node \ X) \in Int
  BY NetEnds, NetTypes
<1>. QED BY <1>2, <1>4, <1>5

Leaves(g, X, a) == StartNode(g, a) \in X /\ EndNode(g, a) \notin X
Closed(g, X) == \A a \in Arc : StartNode(g, a) \in X /\ ResCap(g, a) > 0 => EndNode(g, a) \in X

(* The residual capacity that leaves X is what the cut has and the flow does *)
(* not use.                                                                  *)
LEMMA CutSlack ==
  ASSUME NEW g, IsNetwork(g), NEW X
  PROVE  /\ NetIn(g, X) + CutCap(g, X) >= 0
         /\ \A a \in Arc : Leaves(g, X, a) => NetIn(g, X) + CutCap(g, X) >= ResCap(g, a)
         /\ Closed(g, X) => NetIn(g, X) + CutCap(g, X) = 0
<1>. DEFINE f == [e \in Edge |-> Term(g, X, e)]
            h == [e \in Edge |-> CutTerm(g, X, e)]
            Slack(e) == IF Leaves(g, X, 2 * e) THEN ResCap(g, 2 * e)
                        ELSE IF Leaves(g, X, 2 * e + 1) THEN ResCap(g, 2 * e + 1) ELSE 0
            w == [e \in Edge |-> Slack(e)]
<1>1. ASSUME NEW e \in Edge
      PROVE  Term(g, X, e) \in Int /\ CutTerm(g, X, e) \in Int /\ Slack(e) = Term(g, X, e) + CutTerm(g, X, e) /\ Slack(e) \in Nat
  <2>1. g.sub[e] \in Nat /\ g.ucap[e] \in Nat /\ g.sub[e] <= g.ucap[e]
    BY NetworkParts
  <2>2. 2 * e \in Arc /\ 2 * e + 1 \in Arc /\ EdgeOf(2 * e) = e /\ EdgeOf(2 * e + 1) = e /\ ~Backward(2 * e) /\ Backward(2 * e + 1)
    BY EdgeArcs
  <2>. DEFINE p == g.ends[e][1]
              q == g.ends[e][2]
  <2>3. StartNode(g, 2 * e) = p /\ EndNode(g, 2 * e) = q /\ ResCap(g, 2 * e) = g.ucap[e] - g.sub[e]
    BY <2>2, NetworkArcs
  <2>4. StartNode(g, 2 * e + 1) = q /\ EndNode(g, 2 * e + 1) = p /\ ResCap(g, 2 * e + 1) = g.sub[e]
    BY <2>2, NetworkArcs
  <2>5. Slack(e) = IF p \in X /\ q \notin X THEN g.ucap[e] - g.sub[e]
                   ELSE IF q \in X /\ p \notin X THEN g.sub[e] ELSE 0
    BY <2>3, <2>4 DEF Leaves
  <2>6. /\ Term(g, X, e) = (IF q \in X THEN g.sub[e] ELSE 0) - (IF p \in X THEN g.sub[e] ELSE 0)
        /\ CutTerm(g, X, e) = IF p \in X /\ q \notin X THEN g.ucap[e] ELSE 0
    BY DEF Term, CutTerm
  <2>. HIDE DEF p, q, Slack
  <2>7. CASE p \in X /\ q \in X
    BY <2>1, <2>5, <2>6, <2>7
  <2>8. CASE p \in X /\ q \notin X
    BY <2>1, <2>5, <2>6, <2>8
  <2>9. CASE p \notin X /\ q \in X
    BY <2>1, <2>5, <2>6, <2>9
  <2>10. CASE p \notin X /\ q \notin X
    BY <2>1, <2>5, <2>6, <2>10
  <2>. QED BY <2>7, <2>8, <2>9, <2>10
<1>2. NetIn(g, X) = SumBelow(f, m) /\ CutCap(g, X) = SumBelow(h, m)
  BY NetTypes DEF NetIn
<1>. HIDE DEF Slack
<1>3. /\ \A i \in 0 .. m - 1 : f[i] \in Int /\ h[i] \in Int /\ w[i] = f[i] + h[i]
      /\ \A i \in 0 .. m - 1 : w[i] \in Nat
  BY <1>1 DEF Edge
<1>4. \A e \in Edge : w[e] = Slack(e)
  OBVIOUS
<1>. HIDE DEF f, h, w
<1>5. SumBelow(w, m) = SumBelow(f, m) + SumBelow(h, m)
  BY <1>3, Sizes, SumAdd
<1>6. SumBelow(w, m) \in Nat /\ \A c \in 0 .. m - 1 : w[c] <= SumBelow(w, m)
  BY <1>3, Sizes, SumAtLeast
<1>7. ASSUME NEW a \in Arc, Leaves(g, X, a) PROVE ResCap(g, a) <= SumBelow(w, m)
  <2>. DEFINE e == EdgeOf(a)
  <2>1. e \in Edge /\ a = 2 * e + (IF Backward(a) THEN 1 ELSE 0) /\ e \in Int
    BY ArcFacts DEF Edge
  <2>2. w[e] = Slack(e) /\ w[e] <= SumBelow(w, m)
    BY <1>4, <1>6, <2>1 DEF Edge
  <2>. HIDE DEF e
  <2>3. CASE ~Backward(a)
    <3>1. a = 2 * e
      BY <2>1, <2>3
    <3>. QED BY <1>7, <2>2, <3>1 DEF Slack
  <2>4. CASE Backward(a)
    <3>1. a = 2 * e + 1
      BY <2>1, <2>4
    <3>2. 2 * e \in Arc /\ Twin(2 * e) = a
      BY <2>1, <3>1, EdgeArcs
    <3>3. StartNode(g, 2 * e) = EndNode(g, a)
      BY <3>2, NetworkArcs
    <3>4. ~Leaves(g, X, 2 * e)
      BY <1>7, <3>3 DEF Leaves
    <3>. QED BY <1>7, <2>2, <3>1, <3>4 DEF Slack
  <2>. QED BY <2>3, <2>4
<1>8. ASSUME Closed(g, X) PROVE SumBelow(w, m) = 0
  <2>1. ASSUME NEW e \in Edge PROVE w[e] = 0
    <3>1. 2 * e \in Arc /\ 2 * e + 1 \in Arc
      BY EdgeArcs
    <3>2. ResCap(g, 2 * e) \in Nat /\ ResCap(g, 2 * e + 1) \in Nat
      BY <3>1, NetworkArcs
    <3>. QED BY <1>4, <1>8, <3>1, <3>2 DEF Slack, Closed, Leaves
  <2>2. \A i \in 0 .. m - 1 : w[i] = 0
    BY <2>1 DEF Edge
  <2>. QED BY <2>2, Sizes, SumZero
<1>. QED BY <1>2, <1>5, <1>6, <1>7, <1>8

-------------------------------------------------------------------------------
(* Cuts and flows.                                                           *)

LEMMA LeastIs ==
  ASSUME NEW S \in SUBSET Nat, S # {}
  PROVE  Least(S) \in S /\ \A y \in S : Least(S) <= y
<1>1. \E x \in S : \A y \in S : x <= y
  BY LeastNumber
<1>. QED BY <1>1 DEF Least

IsCut(X) == X \in SUBSET Node /\ s \in X /\ t \notin X

LEMMA MinCutFacts ==
  ASSUME NEW g, IsNetwork(g)
  PROVE  /\ MinCutOf(g) \in Nat
         /\ \A X : IsCut(X) => MinCutOf(g) <= CutCap(g, X)
         /\ \E X : IsCut(X) /\ MinCutOf(g) = CutCap(g, X)
<1>. DEFINE S == {CutCap(g, {s} \union Y) : Y \in SUBSET Inner}
<1>1. S \in SUBSET Nat
  BY NetTypes
<1>2. CutCap(g, {s} \union {}) \in S
  OBVIOUS
<1>3. MinCutOf(g) = Least(S)
  BY DEF MinCutOf
<1>4. ASSUME NEW X, IsCut(X) PROVE CutCap(g, X) \in S
  <2>1. X \ {s} \in SUBSET Inner /\ {s} \union (X \ {s}) = X
    BY <1>4 DEF IsCut, Inner
  <2>. DEFINE Y == X \ {s}
  <2>2. CutCap(g, {s} \union Y) \in S
    BY <2>1
  <2>. QED BY <2>1, <2>2
<1>5. ASSUME NEW Y \in SUBSET Inner PROVE IsCut({s} \union Y)
  BY Ends DEF IsCut
<1>6. ASSUME NEW x \in S PROVE \E X : IsCut(X) /\ x = CutCap(g, X)
  BY <1>5
<1>. HIDE DEF S
<1>7. Least(S) \in S /\ \A y \in S : Least(S) <= y
  BY <1>1, <1>2, LeastIs
<1>. QED BY <1>1, <1>3, <1>4, <1>6, <1>7

LEMMA MinCutSame ==
  ASSUME NEW g, NEW h, SameNet(g, h)
  PROVE  MinCutOf(h) = MinCutOf(g)
BY DEF MinCutOf, CutCap, SameNet

LEMMA MinCutSmall ==
  ASSUME NEW g, IsNetwork(g)
  PROVE  MinCutOf(g) <= InfFloat
<1>. DEFINE X == {s}
            h == [e \in Edge |-> CutTerm(g, X, e)]
<1>1. IsCut(X)
  BY Ends DEF IsCut
<1>2. MinCutOf(g) \in Nat /\ MinCutOf(g) <= CutCap(g, X) /\ CutCap(g, X) \in Nat
  BY <1>1, MinCutFacts, NetTypes
<1>3. CutCap(g, X) = SumBelow(h, m)
  BY NetTypes
<1>4. ASSUME NEW e \in Edge PROVE h[e] \in Int /\ g.ucap[e] \in Int /\ h[e] <= g.ucap[e]
  <2>1. g.ucap[e] \in Nat
    BY NetworkParts
  <2>. QED BY <2>1 DEF CutTerm
<1>5. \A i \in 0 .. m - 1 : h[i] \in Int /\ g.ucap[i] \in Int /\ h[i] <= g.ucap[i]
  BY <1>4 DEF Edge
<1>. HIDE DEF h
<1>6. SumBelow(h, m) <= SumBelow(g.ucap, m)
  BY <1>5, Sizes, SumLe
<1>7. SumBelow(g.ucap, m) <= InfFloat /\ InfFloat \in Int
  BY NetworkParts, Sizes
<1>8. SumBelow(g.ucap, m) \in Int
  <2>1. \A i \in 0 .. m - 1 : g.ucap[i] \in Int
    BY <1>5
  <2>. QED BY <2>1, Sizes, SumStep
<1>. HIDE DEF X
<1>. QED BY <1>2, <1>3, <1>6, <1>7, <1>8

(* What leaves a cut is at least what arrives at t.                          *)
LEMMA CutFlow ==
  ASSUME NEW g, IsNetwork(g), NEW X, IsCut(X), \A v \in Inner : Divergence(g, v) >= 0
  PROVE  /\ NetIn(g, X) >= Divergence(g, s)
         /\ -NetIn(g, X) >= Divergence(g, t)
<1>1. X \in SUBSET Node /\ s \in X /\ t \in Node \ X /\ Node \ X \in SUBSET Node
  BY Ends DEF IsCut
<1>2. (\A v \in X \ {s} : v \in Inner) /\ (\A v \in (Node \ X) \ {t} : v \in Inner)
  BY <1>1 DEF IsCut, Inner
<1>3. NetIn(g, X) >= Divergence(g, s)
  <2>1. \A v \in X \ {s} : Divergence(g, v) >= 0
    BY <1>2
  <2>. QED BY <1>1, <2>1, NetAtLeast
<1>4. NetIn(g, Node \ X) >= Divergence(g, t)
  <2>1. \A v \in (Node \ X) \ {t} : Divergence(g, v) >= 0
    BY <1>2
  <2>. QED BY <1>1, <2>1, NetAtLeast
<1>5. NetIn(g, Node \ X) = -NetIn(g, X)
  BY <1>1, NetComplement
<1>. QED BY <1>3, <1>4, <1>5

(* The value of a preflow is bounded by every cut.                           *)
LEMMA FlowBelow ==
  ASSUME NEW g, IsNetwork(g), \A v \in Inner : Divergence(g, v) >= 0
  PROVE  Divergence(g, t) <= MinCutOf(g)
<1>1. PICK X : IsCut(X) /\ MinCutOf(g) = CutCap(g, X)
  BY MinCutFacts
<1>2. -NetIn(g, X) >= Divergence(g, t)
  BY <1>1, CutFlow
<1>3. NetIn(g, X) + CutCap(g, X) >= 0
  BY CutSlack
<1>4. NetIn(g, X) \in Int /\ CutCap(g, X) \in Nat /\ Divergence(g, t) \in Int
  BY NetTypes, NetSingle
<1>. QED BY <1>1, <1>2, <1>3, <1>4

(* A cut that no residual arc leaves bounds what leaves s.                   *)
LEMMA ClosedCut ==
  ASSUME NEW g, IsNetwork(g), NEW X, IsCut(X), Closed(g, X), \A v \in Inner : Divergence(g, v) >= 0
  PROVE  MinCutOf(g) <= -Divergence(g, s) /\ CutCap(g, X) <= -Divergence(g, s)
<1>1. NetIn(g, X) >= Divergence(g, s)
  BY CutFlow
<1>2. NetIn(g, X) + CutCap(g, X) = 0
  BY CutSlack
<1>3. NetIn(g, X) \in Int /\ CutCap(g, X) \in Nat /\ Divergence(g, s) \in Int
  BY NetTypes, NetSingle
<1>4. MinCutOf(g) \in Nat /\ MinCutOf(g) <= CutCap(g, X)
  BY MinCutFacts
<1>. QED BY <1>1, <1>2, <1>3, <1>4

LEMMA FlowValue ==
  ASSUME NEW g, IsNetwork(g), \A v \in Inner : Divergence(g, v) = 0
  PROVE  Divergence(g, t) = -Divergence(g, s)
<1>1. {s} \in SUBSET Node /\ Node \ {s} \in SUBSET Node /\ t \in Node \ {s} /\ \A v \in (Node \ {s}) \ {t} : v \in Inner
  BY Ends DEF Inner
<1>2. NetIn(g, Node \ {s}) = Divergence(g, t)
  BY <1>1, NetExactly
<1>3. NetIn(g, Node \ {s}) = -NetIn(g, {s})
  BY <1>1, NetComplement
<1>. QED BY <1>2, <1>3, NetSingle

(* Max-flow min-cut: the value of a flow is the capacity of a closed cut.    *)
LEMMA FlowIsCut ==
  ASSUME NEW g, IsNetwork(g), NEW X, IsCut(X), Closed(g, X), \A v \in Inner : Divergence(g, v) = 0
  PROVE  Divergence(g, t) = MinCutOf(g) /\ CutCap(g, X) = Divergence(g, t)
<1>1. \A v \in Inner : Divergence(g, v) >= 0
  OBVIOUS
<1>2. CutCap(g, X) <= -Divergence(g, s)
  BY <1>1, ClosedCut
<1>3. Divergence(g, t) = -Divergence(g, s)
  BY FlowValue
<1>4. Divergence(g, t) <= MinCutOf(g)
  BY <1>1, FlowBelow
<1>5. MinCutOf(g) \in Nat /\ MinCutOf(g) <= CutCap(g, X)
  BY MinCutFacts
<1>6. Divergence(g, t) \in Int /\ Divergence(g, s) \in Int /\ CutCap(g, X) \in Nat
  BY NetSingle, NetTypes
<1>. QED BY <1>2, <1>3, <1>4, <1>5, <1>6

(* An unbounded arc across every cut makes every cut unbounded.              *)
LEMMA UnboundedCut ==
  ASSUME NEW g, IsNetwork(g), \A v \in Inner : Divergence(g, v) >= 0, Divergence(g, t) >= 0, NEW c \in Nat,
         \A X : IsCut(X) => \E a \in Arc : Leaves(g, X, a) /\ ResCap(g, a) >= c
  PROVE  MinCutOf(g) >= c
<1>1. PICK X : IsCut(X) /\ MinCutOf(g) = CutCap(g, X)
  BY MinCutFacts
<1>2. PICK a \in Arc : Leaves(g, X, a) /\ ResCap(g, a) >= c
  BY <1>1
<1>3. NetIn(g, X) + CutCap(g, X) >= ResCap(g, a)
  BY <1>2, CutSlack
<1>4. -NetIn(g, X) >= Divergence(g, t)
  BY <1>1, CutFlow
<1>5. NetIn(g, X) \in Int /\ CutCap(g, X) \in Nat /\ Divergence(g, t) \in Int /\ ResCap(g, a) \in Nat
  BY NetTypes, NetSingle, NetworkArcs
<1>. QED BY <1>1, <1>2, <1>3, <1>4, <1>5
(* A push moves excess from the start node of the arc to its end node.       *)
LEMMA PushedDiv ==
  ASSUME NEW g, IsNetwork(g), NEW a \in Arc, NEW x \in Nat, x <= ResCap(g, a), NEW v
  PROVE  Divergence(Pushed(g, a, x), v) =
           Divergence(g, v) + (IF v = EndNode(g, a) THEN x ELSE IF v = StartNode(g, a) THEN -x ELSE 0)
<1>. DEFINE h == Pushed(g, a, x)
            D(k, e) == (IF k.ends[e][2] = v THEN k.sub[e] ELSE 0) - (IF k.ends[e][1] = v THEN k.sub[e] ELSE 0)
            f == [e \in Edge |-> D(g, e)]
            w == [e \in Edge |-> D(h, e)]
            c == EdgeOf(a)
            p == g.ends[c][1]
            q == g.ends[c][2]
<1>0. c \in Edge
  BY ArcFacts
<1>1. /\ IsNetwork(h) /\ SameNet(g, h)
      /\ \A e \in Edge : e # c => h.sub[e] = g.sub[e]
      /\ h.sub[c] = IF Backward(a) THEN g.sub[c] - x ELSE g.sub[c] + x
  BY PushedNet
<1>. HIDE DEF h
<1>2. h.ends = g.ends
  BY <1>1 DEF SameNet
<1>3. ASSUME NEW e \in Edge PROVE f[e] \in Int /\ w[e] \in Int /\ (e # c => w[e] = f[e])
  <2>1. g.sub[e] \in Nat /\ h.sub[e] \in Nat
    BY <1>1, NetworkParts
  <2>. QED BY <1>1, <1>2, <2>1
<1>4. \A i \in 0 .. m - 1 : f[i] \in Int /\ w[i] \in Int /\ (i # c => w[i] = f[i])
  BY <1>3 DEF Edge
<1>5. Divergence(g, v) = SumBelow(f, m) /\ Divergence(h, v) = SumBelow(w, m)
  BY DEF Divergence
<1>6. f[c] = D(g, c) /\ w[c] = D(h, c)
  BY <1>0
<1>. HIDE DEF f, w, c
<1>7. SumBelow(w, m) = SumBelow(f, m) + (w[c] - f[c])
  BY <1>0, <1>4, Sizes, SumChange DEF Edge
<1>8. w[c] - f[c] = IF v = EndNode(g, a) THEN x ELSE IF v = StartNode(g, a) THEN -x ELSE 0
  <2>1. g.sub[c] \in Nat /\ h.sub[c] \in Nat /\ p # q
    BY <1>0, <1>1, NetworkParts
  <2>2. /\ f[c] = (IF q = v THEN g.sub[c] ELSE 0) - (IF p = v THEN g.sub[c] ELSE 0)
        /\ w[c] = (IF q = v THEN h.sub[c] ELSE 0) - (IF p = v THEN h.sub[c] ELSE 0)
    BY <1>2, <1>6
  <2>3. CASE Backward(a)
    <3>1. StartNode(g, a) = q /\ EndNode(g, a) = p /\ h.sub[c] = g.sub[c] - x
      BY <1>1, <2>3, NetworkArcs DEF c
    <3>. HIDE DEF p, q
    <3>. QED BY <2>1, <2>2, <3>1
  <2>4. CASE ~Backward(a)
    <3>1. StartNode(g, a) = p /\ EndNode(g, a) = q /\ h.sub[c] = g.sub[c] + x
      BY <1>1, <2>4, NetworkArcs DEF c
    <3>. HIDE DEF p, q
    <3>. QED BY <2>1, <2>2, <3>1
  <2>. QED BY <2>3, <2>4
<1>. QED BY <1>5, <1>7, <1>8 DEF h

(* The threshold has nothing to do with the flow.                            *)
LEMMA DeltaNet ==
  ASSUME NEW g, IsNetwork(g), NEW x \in Nat
  PROVE  LET h == [g EXCEPT !.delta = x] IN
         /\ IsNetwork(h) /\ SameNet(g, h) /\ h.delta = x /\ h.sub = g.sub
         /\ \A a : ResCap(h, a) = ResCap(g, a)
         /\ \A v : Divergence(h, v) = Divergence(g, v)
<1>. DEFINE h == [g EXCEPT !.delta = x]
<1>1. g = [ends |-> g.ends, orientation |-> g.orientation, ucap |-> g.ucap, sub |-> g.sub, delta |-> g.delta]
  BY NetworkParts
<1>2. h = [ends |-> g.ends, orientation |-> g.orientation, ucap |-> g.ucap, sub |-> g.sub, delta |-> x]
  BY <1>1
<1>3. h.ends = g.ends /\ h.orientation = g.orientation /\ h.ucap = g.ucap /\ h.sub = g.sub /\ h.delta = x
  BY <1>2
<1>4. g \in [ends : [Edge -> Node \X Node], orientation : [Edge -> {1}],
             ucap : [Edge -> 0 .. InfCap], sub : [Edge -> Nat], delta : Nat]
  BY DEF IsNetwork
<1>5. h \in [ends : [Edge -> Node \X Node], orientation : [Edge -> {1}],
             ucap : [Edge -> 0 .. InfCap], sub : [Edge -> Nat], delta : Nat]
  BY <1>2, <1>4
<1>. HIDE DEF h
<1>6. IsNetwork(h)
  BY <1>3, <1>5 DEF IsNetwork
<1>. QED BY <1>3, <1>6 DEF h, SameNet, ResCap, UCap, Sub, Divergence
-------------------------------------------------------------------------------
(* The search.                                                               *)

LEMMA MinOfTwo ==
  ASSUME NEW x \in Int, NEW y \in Int
  PROVE  Min({x, y}) = (IF x <= y THEN x ELSE y) /\ Max({x, y}) = (IF x >= y THEN x ELSE y)
<1>1. \E z \in {x, y} : \A w \in {x, y} : z <= w
  OBVIOUS
<1>2. \E z \in {x, y} : \A w \in {x, y} : z >= w
  OBVIOUS
<1>3. Min({x, y}) \in {x, y} /\ \A w \in {x, y} : Min({x, y}) <= w
  BY <1>1 DEF Min
<1>4. Max({x, y}) \in {x, y} /\ \A w \in {x, y} : Max({x, y}) >= w
  BY <1>2 DEF Max
<1>. QED BY <1>3, <1>4

LEMMA HeadsType ==
  ASSUME IsNetwork(G), NEW S, NEW b
  PROVE  /\ Heads(S, b) \in SUBSET Node
         /\ \A v : v \in Heads(S, b) <=> \E a \in Arc : EndNode(G, a) = v /\ StartNode(G, a) \in S /\ Res(a) > b
<1>1. \A v : v \in Heads(S, b) <=> \E a \in Arc : EndNode(G, a) = v /\ StartNode(G, a) \in S /\ Res(a) > b
  BY DEF Heads
<1>2. \A a \in Arc : EndNode(G, a) \in Node
  BY NetworkArcs
<1>. QED BY <1>1, <1>2

LEMMA ReachedFacts ==
  ASSUME IsNetwork(G), NEW b
  PROVE  /\ Reached(b) \in [0 .. n -> SUBSET Node] /\ Reached(b)[0] = {s}
         /\ \A k \in 1 .. n : Reached(b)[k] = Reached(b)[k - 1] \union Heads(Reached(b)[k - 1], b)
<1>. DEFINE A == SUBSET Node
            F == [i \in 1 .. n |-> [S \in A |-> S \union Heads(S, b)]]
            Is(R) == R = [k \in 0 .. n |-> IF k = 0 THEN {s} ELSE UNION {S \union Heads(S, b) : S \in {R[k - 1]}}]
<1>0. n \in Nat /\ {s} \in A
  BY Sizes, Ends
<1>1. F \in [1 .. n -> [A -> A]]
  BY HeadsType
<1>2. \A i \in 1 .. n : \A S \in A : F[i][S] = S \union Heads(S, b)
  OBVIOUS
<1>3. \A S : UNION {T \union Heads(T, b) : T \in {S}} = S \union Heads(S, b)
  OBVIOUS
<1>. DEFINE z == {s}
<1>. HIDE DEF F, A, z
<1>4. PICK R \in [0 .. n -> A] : R[0] = {s} /\ \A i \in 1 .. n : R[i] = F[i][R[i - 1]]
  <2>1. z \in A
    BY <1>0 DEF z
  <2>2. Solvable(A, z, n, F)
    BY <1>0, <1>1, <2>1, Iterates
  <2>. QED BY <2>2 DEF z, Solvable
<1>5. ASSUME NEW i \in 1 .. n PROVE R[i] = R[i - 1] \union Heads(R[i - 1], b)
  <2>1. i - 1 \in 0 .. n
    BY <1>0
  <2>. QED BY <1>2, <1>4, <2>1
<1>6. Is(R)
  <2>1. ASSUME NEW k \in 0 .. n PROVE R[k] = IF k = 0 THEN {s} ELSE UNION {S \union Heads(S, b) : S \in {R[k - 1]}}
    <3>1. CASE k = 0
      BY <1>4, <3>1
    <3>2. CASE k # 0
      <4>1. k \in 1 .. n
        BY <3>2
      <4>. QED BY <1>3, <1>5, <3>2, <4>1
    <3>. QED BY <3>1, <3>2
  <2>2. R = [k \in 0 .. n |-> R[k]]
    BY <1>4
  <2>. QED BY <2>1, <2>2
<1>7. Reached(b) = CHOOSE Z : Is(Z)
  BY DEF Reached
<1>8. Is(Reached(b))
  BY <1>6, <1>7
<1>. DEFINE Z == Reached(b)
<1>. HIDE DEF Z
<1>9. Z = [k \in 0 .. n |-> IF k = 0 THEN {s} ELSE Z[k - 1] \union Heads(Z[k - 1], b)]
  BY <1>3, <1>8 DEF Z
<1>10. Z[0] = {s} /\ \A k \in 1 .. n : Z[k] = Z[k - 1] \union Heads(Z[k - 1], b)
  <2>1. 0 \in 0 .. n /\ \A k \in 1 .. n : k \in 0 .. n /\ k # 0
    BY <1>0
  <2>. QED BY <1>9, <2>1
<1>11. \A k \in 0 .. n : Z[k] \in SUBSET Node
  <2>. DEFINE S == {k \in 0 .. n : Z[k] \in SUBSET Node}
  <2>1. 0 \in S
    BY <1>0, <1>10 DEF A
  <2>2. ASSUME NEW k \in 0 .. n - 1, k \in S PROVE k + 1 \in S
    <3>1. k + 1 \in 1 .. n /\ k + 1 \in 0 .. n /\ (k + 1) - 1 = k
      BY <1>0
    <3>2. Z[k + 1] = Z[k] \union Heads(Z[k], b)
      BY <1>10, <3>1
    <3>. QED BY <2>2, <3>1, <3>2, HeadsType
  <2>. HIDE DEF S
  <2>3. \A k \in 0 .. n : k \in S
    BY <1>0, <2>1, <2>2, CountUp
  <2>. QED BY <2>3 DEF S
<1>12. Z \in [0 .. n -> SUBSET Node]
  BY <1>9, <1>11
<1>. QED BY <1>10, <1>12 DEF Z

Depth(R, v) == Cardinality({k \in 0 .. n : v \notin R[k]})

LEMMA DepthIs ==
  ASSUME NEW R, NEW v, \A k \in 1 .. n : R[k - 1] \subseteq R[k]
  PROVE  Depth(R, v) \in 0 .. n + 1 /\ \A k \in 0 .. n : v \in R[k] <=> Depth(R, v) <= k
<1>. DEFINE T == {k \in 0 .. n : v \in R[k]} \union {n + 1}
<1>0. n \in Nat
  BY Sizes
<1>1. T \in SUBSET Nat /\ T # {}
  BY <1>0
<1>2. PICK D \in T : \A k \in T : D <= k
  BY <1>1, LeastNumber
<1>3. D \in 0 .. n + 1 /\ (D \in 0 .. n => v \in R[D])
  BY <1>0, <1>2
<1>4. ASSUME NEW k \in 0 .. n, v \in R[k] PROVE D <= k
  BY <1>2, <1>4
<1>5. ASSUME NEW k \in 0 .. n, D <= k PROVE v \in R[k]
  <2>. DEFINE S == {j \in 0 .. n : D <= j => v \in R[j]}
  <2>1. 0 \in S
    <3>1. D <= 0 => D = 0
      BY <1>3
    <3>2. 0 \in 0 .. n
      BY <1>0
    <3>3. D <= 0 => v \in R[0]
      BY <1>3, <3>1, <3>2
    <3>. QED BY <3>2, <3>3
  <2>2. ASSUME NEW j \in 0 .. n - 1, j \in S PROVE j + 1 \in S
    <3>1. j + 1 \in 1 .. n /\ j + 1 \in 0 .. n /\ (j + 1) - 1 = j
      BY <1>0
    <3>2. R[j] \subseteq R[j + 1]
      BY <3>1
    <3>3. D <= j + 1 => D <= j \/ D = j + 1
      BY <1>3, <3>1
    <3>. QED BY <1>3, <2>2, <3>1, <3>2, <3>3
  <2>. HIDE DEF S
  <2>3. \A j \in 0 .. n : j \in S
    BY <1>0, <2>1, <2>2, CountUp
  <2>. QED BY <1>5, <2>3 DEF S
<1>. HIDE DEF T
<1>6. {k \in 0 .. n : v \notin R[k]} = 0 .. D - 1
  BY <1>0, <1>3, <1>4, <1>5
<1>7. Depth(R, v) = D
  <2>1. Cardinality(0 .. D - 1) = IF 0 > D - 1 THEN 0 ELSE (D - 1) - 0 + 1
    BY <1>3, FS_Interval
  <2>2. Depth(R, v) = Cardinality(0 .. D - 1)
    BY <1>6 DEF Depth
  <2>. QED BY <1>3, <2>1, <2>2
<1>. QED BY <1>3, <1>4, <1>5, <1>7
(* Fewer nodes than labels: a label is missing.                              *)
Misses(f, S, c, k) == \E i \in c .. c + k - 1 : \A x \in S : f[x] # i

LEMMA Pigeons ==
  ASSUME NEW S, NEW k \in Nat, IsFiniteSet(S), Cardinality(S) < k, NEW f, NEW c \in Int
  PROVE  Misses(f, S, c, k)
<1>. SUFFICES ASSUME \A i \in c .. c + k - 1 : \E x \in S : f[x] = i PROVE FALSE
  BY DEF Misses
<1>. DEFINE I == c .. c + k - 1
            h == [i \in I |-> CHOOSE x \in S : f[x] = i]
<1>1. IsFiniteSet(I) /\ Cardinality(I) = k
  <2>1. IsFiniteSet(c .. c + k - 1) /\ Cardinality(c .. c + k - 1) = IF c > c + k - 1 THEN 0 ELSE (c + k - 1) - c + 1
    BY FS_Interval
  <2>. QED BY <2>1
<1>2. \A i \in I : h[i] \in S /\ f[h[i]] = i
  OBVIOUS
<1>3. h \in [I -> S]
  BY <1>2
<1>. HIDE DEF I, h
<1>4. \E x, y \in I : x # y /\ h[x] = h[y]
  BY <1>1, <1>3, FS_PigeonHole
<1>. QED BY <1>2, <1>4

LEMMA NodeCount == IsFiniteSet(Node) /\ Cardinality(Node) = n
<1>1. IsFiniteSet(0 .. n - 1) /\ Cardinality(0 .. n - 1) = IF 0 > n - 1 THEN 0 ELSE (n - 1) - 0 + 1
  BY Sizes, FS_Interval
<1>. QED BY <1>1, Sizes DEF Node

LEMMA LabelsAre ==
  ASSUME IsNetwork(G), NEW b
  PROVE  LET R == Reached(b) IN
         /\ \A v \in Node : Depth(R, v) \in 0 .. n + 1 /\ \A k \in 0 .. n : v \in R[k] <=> Depth(R, v) <= k
         /\ Labels(b) = [v \in Node |-> IF Depth(R, v) <= Depth(R, t) /\ Depth(R, v) <= n THEN Depth(R, v) ELSE InfFloat]
<1>. DEFINE R == Reached(b)
            Dist(Z) == [v \in Node |-> IF Depth(Z, v) <= Min({Depth(Z, t), n}) THEN Depth(Z, v) ELSE InfFloat]
<1>1. R \in [0 .. n -> SUBSET Node] /\ \A k \in 1 .. n : R[k] = R[k - 1] \union Heads(R[k - 1], b)
  BY ReachedFacts
<1>2. [k \in 0 .. n |-> R[k]] = R
  BY <1>1
<1>3. Labels(b) = CHOOSE d \in {Dist(Z) : Z \in {[k \in 0 .. n |-> R[k]]}} : TRUE
  BY DEF Labels, Depth
<1>. HIDE DEF R
<1>4. Labels(b) = Dist(R)
  BY <1>2, <1>3
<1>5. ASSUME NEW v
      PROVE  Depth(R, v) \in 0 .. n + 1 /\ \A k \in 0 .. n : v \in R[k] <=> Depth(R, v) <= k
  <2>1. \A k \in 1 .. n : R[k - 1] \subseteq R[k]
    BY <1>1
  <2>. QED BY <2>1, DepthIs
<1>6. Min({Depth(R, t), n}) = IF Depth(R, t) <= n THEN Depth(R, t) ELSE n
  <2>1. Depth(R, t) \in Int /\ n \in Int
    BY <1>5, Sizes
  <2>. QED BY <2>1, MinOfTwo
<1>7. ASSUME NEW v \in Node
      PROVE  (Depth(R, v) <= Min({Depth(R, t), n})) <=> (Depth(R, v) <= Depth(R, t) /\ Depth(R, v) <= n)
  <2>1. Depth(R, t) \in Int /\ n \in Int /\ Depth(R, v) \in Int
    BY <1>5, Sizes
  <2>. QED BY <1>6, <2>1
<1>8. Dist(R) = [v \in Node |-> IF Depth(R, v) <= Depth(R, t) /\ Depth(R, v) <= n THEN Depth(R, v) ELSE InfFloat]
  BY <1>7
<1>. HIDE DEF Dist
<1>9. \A v \in Node : Depth(R, v) \in 0 .. n + 1 /\ \A k \in 0 .. n : v \in R[k] <=> Depth(R, v) <= k
  BY <1>5
<1>. QED BY <1>4, <1>8, <1>9 DEF R

(* A node behind another one is at most one layer further.                   *)
LEMMA DepthStep ==
  ASSUME IsNetwork(G), NEW b, NEW a \in Arc, Res(a) > b, Depth(Reached(b), StartNode(G, a)) < n
  PROVE  Depth(Reached(b), EndNode(G, a)) <= Depth(Reached(b), StartNode(G, a)) + 1
<1>. DEFINE R == Reached(b)
            u == StartNode(G, a)
            v == EndNode(G, a)
            k == Depth(R, u)
<1>1. u \in Node /\ v \in Node
  BY NetworkArcs
<1>2. /\ \A j \in 1 .. n : R[j] = R[j - 1] \union Heads(R[j - 1], b)
      /\ \A w \in Node : Depth(R, w) \in 0 .. n + 1 /\ \A j \in 0 .. n : w \in R[j] <=> Depth(R, w) <= j
  BY ReachedFacts, LabelsAre
<1>. HIDE DEF R
<1>3. k \in 0 .. n /\ k + 1 \in 1 .. n /\ k + 1 \in 0 .. n /\ (k + 1) - 1 = k /\ k <= k
  BY <1>1, <1>2, Sizes DEF R
<1>4. u \in R[k]
  BY <1>1, <1>2, <1>3
<1>5. v \in Heads(R[k], b)
  BY <1>4, HeadsType
<1>6. v \in R[k + 1]
  BY <1>2, <1>3, <1>5
<1>. QED BY <1>1, <1>2, <1>3, <1>6 DEF R

(* A node that is reached has a predecessor in the layer before.             *)
LEMMA DepthPred ==
  ASSUME IsNetwork(G), NEW b, NEW v \in Node, v # s, Depth(Reached(b), v) <= n
  PROVE  \E a \in Arc : EndNode(G, a) = v /\ Res(a) > b /\ Depth(Reached(b), v) = Depth(Reached(b), StartNode(G, a)) + 1
<1>. DEFINE R == Reached(b)
            k == Depth(R, v)
<1>1. /\ R[0] = {s} /\ \A j \in 1 .. n : R[j] = R[j - 1] \union Heads(R[j - 1], b)
      /\ \A w \in Node : Depth(R, w) \in 0 .. n + 1 /\ \A j \in 0 .. n : w \in R[j] <=> Depth(R, w) <= j
  BY ReachedFacts, LabelsAre
<1>2. ASSUME k = 0 PROVE FALSE
  BY <1>1, <1>2, Sizes
<1>. HIDE DEF R
<1>3. k \in 1 .. n /\ k \in 0 .. n /\ k - 1 \in 0 .. n /\ ~(k <= k - 1)
  BY <1>1, <1>2, Sizes DEF R
<1>4. v \in R[k] /\ v \notin R[k - 1]
  BY <1>1, <1>3
<1>5. v \in Heads(R[k - 1], b)
  BY <1>1, <1>3, <1>4
<1>6. PICK a \in Arc : EndNode(G, a) = v /\ StartNode(G, a) \in R[k - 1] /\ Res(a) > b
  BY <1>5, HeadsType
<1>. DEFINE u == StartNode(G, a)
<1>7. u \in Node /\ Depth(R, u) <= k - 1 /\ Depth(R, u) \in Nat /\ Depth(R, u) < n
  <2>1. u \in Node
    BY NetworkArcs
  <2>2. Depth(R, u) <= k - 1 /\ Depth(R, u) \in 0 .. n + 1
    BY <1>1, <1>3, <1>6, <2>1
  <2>. QED BY <1>3, <2>1, <2>2, Sizes
<1>8. k <= Depth(R, u) + 1
  BY <1>6, <1>7, DepthStep DEF R
<1>9. k = Depth(R, u) + 1
  BY <1>3, <1>7, <1>8
<1>. QED BY <1>6, <1>9 DEF R

(* The search ends within n steps.                                           *)
LEMMA SearchEnds ==
  ASSUME IsNetwork(G), NEW b, NEW a \in Arc, Res(a) > b, Depth(Reached(b), StartNode(G, a)) <= n
  PROVE  Depth(Reached(b), EndNode(G, a)) <= n
<1>. DEFINE R == Reached(b)
            D == [v \in Node |-> Depth(R, v)]
            u == StartNode(G, a)
            w == EndNode(G, a)
<1>1. u \in Node /\ w \in Node
  BY NetworkArcs
<1>2. \A v \in Node : Depth(R, v) \in 0 .. n + 1
  BY LabelsAre
<1>3. Depth(R, s) = 0
  <2>1. s \in Node /\ R[0] = {s} /\ 0 \in 0 .. n
    BY Ends, ReachedFacts, Sizes
  <2>2. Depth(R, s) <= 0
    BY <2>1, LabelsAre
  <2>. QED BY <1>2, <2>1, <2>2
<1>. SUFFICES ASSUME ~(Depth(R, w) <= n) PROVE FALSE
  OBVIOUS
<1>4. Depth(R, u) = n
  <2>1. ASSUME Depth(R, u) < n PROVE FALSE
    <3>1. Depth(R, w) <= Depth(R, u) + 1
      BY <2>1, DepthStep
    <3>. QED BY <1>1, <1>2, <2>1, <3>1, Sizes
  <2>. QED BY <1>1, <1>2, <2>1, Sizes
<1>. DEFINE S == {j \in 0 .. n : \E v \in Node : D[v] = n - j}
<1>5. \A v \in Node : D[v] = Depth(R, v)
  OBVIOUS
<1>6. 0 \in S
  <2>1. D[u] = n - 0 /\ 0 \in 0 .. n
    BY <1>1, <1>4, <1>5, Sizes
  <2>. QED BY <1>1, <2>1
<1>7. ASSUME NEW j \in 0 .. n - 1, j \in S PROVE j + 1 \in S
  <2>1. PICK v \in Node : D[v] = n - j
    BY <1>7
  <2>2. n \in Nat /\ j \in Nat /\ j <= n - 1
    BY Sizes
  <2>3. Depth(R, v) = n - j /\ Depth(R, v) <= n /\ Depth(R, v) # 0 /\ n - j = (n - (j + 1)) + 1 /\ j + 1 \in 0 .. n
    BY <1>5, <2>1, <2>2
  <2>4. v # s
    BY <1>3, <2>3
  <2>5. PICK c \in Arc : Depth(R, v) = Depth(R, StartNode(G, c)) + 1
    BY <2>3, <2>4, DepthPred
  <2>6. StartNode(G, c) \in Node
    BY NetworkArcs
  <2>7. D[StartNode(G, c)] = n - (j + 1)
    BY <1>2, <1>5, <2>2, <2>3, <2>5, <2>6
  <2>. QED BY <2>3, <2>6, <2>7
<1>. HIDE DEF S, D
<1>8. \A j \in 0 .. n : j \in S
  BY <1>6, <1>7, Sizes, CountUp
<1>9. ASSUME NEW i \in 0 .. n PROVE \E v \in Node : D[v] = i
  <2>1. n - i \in 0 .. n /\ n - (n - i) = i
    BY Sizes
  <2>. QED BY <1>8, <2>1 DEF S
<1>10. \E i \in 0 .. 0 + (n + 1) - 1 : \A v \in Node : D[v] # i
  <2>1. n + 1 \in Nat /\ n < n + 1 /\ 0 \in Int
    BY Sizes
  <2>2. Misses(D, Node, 0, n + 1)
    BY <2>1, NodeCount, Pigeons
  <2>. QED BY <2>2 DEF Misses
<1>11. 0 .. 0 + (n + 1) - 1 = 0 .. n
  BY Sizes
<1>. QED BY <1>9, <1>10, <1>11

Layered(d) == d \in [Node -> 0 .. n \union {InfFloat}] /\ d[s] = 0 /\ \A v \in Node : d[v] = 0 => v = s

(* The labels of a search.                                                   *)
LEMMA LabelsFacts ==
  ASSUME IsNetwork(G), NEW b
  PROVE  LET d == Labels(b) IN
         /\ Layered(d)
         /\ \A v \in Node : v # s /\ d[v] # InfFloat =>
              \E a \in Arc : EndNode(G, a) = v /\ Res(a) > b /\ d[StartNode(G, a)] # InfFloat /\ d[v] = d[StartNode(G, a)] + 1
         /\ \A v \in Node : d[v] # InfFloat /\ d[t] # InfFloat => d[v] <= d[t]
         /\ d[t] = InfFloat => \A a \in Arc : d[StartNode(G, a)] # InfFloat /\ Res(a) > b => d[EndNode(G, a)] # InfFloat
<1>. DEFINE R == Reached(b)
            d == Labels(b)
            D(v) == Depth(R, v)
<1>0. n \in Nat /\ n > 1 /\ InfFloat \in Nat /\ InfFloat > n /\ s \in Node /\ t \in Node /\ s # t
  BY Sizes, Ends
<1>1. \A v \in Node : D(v) \in 0 .. n + 1
  BY LabelsAre
<1>2. \A v \in Node : d[v] = IF D(v) <= D(t) /\ D(v) <= n THEN D(v) ELSE InfFloat
  BY LabelsAre
<1>3. d = [v \in Node |-> d[v]]
  BY LabelsAre
<1>4. \A v \in Node : D(v) = 0 <=> v = s
  <2>1. R[0] = {s} /\ 0 \in 0 .. n
    BY <1>0, ReachedFacts
  <2>2. \A v \in Node : v \in R[0] <=> D(v) <= 0
    BY <2>1, LabelsAre
  <2>. QED BY <1>1, <2>1, <2>2
<1>5. ASSUME NEW v \in Node, v # s, D(v) <= n
      PROVE  \E a \in Arc : EndNode(G, a) = v /\ Res(a) > b /\ D(v) = D(StartNode(G, a)) + 1
  BY <1>5, DepthPred
<1>6. ASSUME NEW a \in Arc, Res(a) > b, D(StartNode(G, a)) <= n PROVE D(EndNode(G, a)) <= n
  BY <1>6, SearchEnds
<1>7. \A a \in Arc : StartNode(G, a) \in Node /\ EndNode(G, a) \in Node
  BY NetworkArcs
<1>. HIDE DEF R, d, D
<1>8. Layered(d)
  <2>1. \A v \in Node : d[v] \in 0 .. n \union {InfFloat}
    BY <1>0, <1>1, <1>2
  <2>2. d \in [Node -> 0 .. n \union {InfFloat}]
    BY <1>3, <2>1
  <2>3. d[s] = 0 /\ \A v \in Node : d[v] = 0 => v = s
    BY <1>0, <1>1, <1>2, <1>4
  <2>. QED BY <2>2, <2>3 DEF Layered
<1>9. ASSUME NEW v \in Node, v # s, d[v] # InfFloat
      PROVE  \E a \in Arc : EndNode(G, a) = v /\ Res(a) > b /\ d[StartNode(G, a)] # InfFloat /\ d[v] = d[StartNode(G, a)] + 1
  <2>1. D(v) <= D(t) /\ D(v) <= n /\ d[v] = D(v)
    BY <1>2, <1>9
  <2>2. PICK a \in Arc : EndNode(G, a) = v /\ Res(a) > b /\ D(v) = D(StartNode(G, a)) + 1
    BY <1>5, <1>9, <2>1
  <2>3. d[StartNode(G, a)] = D(StartNode(G, a)) /\ D(StartNode(G, a)) # InfFloat
    BY <1>0, <1>1, <1>2, <1>7, <2>1, <2>2
  <2>. QED BY <2>1, <2>2, <2>3
<1>10. ASSUME NEW v \in Node, d[v] # InfFloat, d[t] # InfFloat PROVE d[v] <= d[t]
  BY <1>0, <1>1, <1>2, <1>10
<1>11. ASSUME d[t] = InfFloat, NEW a \in Arc, d[StartNode(G, a)] # InfFloat, Res(a) > b
       PROVE  d[EndNode(G, a)] # InfFloat
  <2>1. D(t) = n + 1
    BY <1>0, <1>1, <1>2, <1>11
  <2>2. D(StartNode(G, a)) <= n
    BY <1>2, <1>7, <1>11
  <2>3. D(EndNode(G, a)) <= n
    BY <1>6, <1>11, <2>2
  <2>4. d[EndNode(G, a)] = D(EndNode(G, a)) /\ D(EndNode(G, a)) \in 0 .. n + 1
    BY <1>0, <1>1, <1>2, <1>7, <2>1, <2>3
  <2>. QED BY <1>0, <2>3, <2>4
<1>. QED BY <1>8, <1>9, <1>10, <1>11 DEF d

(* A closed set that holds s holds all that is reached.                      *)
LEMMA LabelsWithin ==
  ASSUME IsNetwork(G), NEW X \in SUBSET Node, s \in X, Closed(G, X), t \notin X
  PROVE  Labels(0)[t] = InfFloat
<1>. DEFINE R == Reached(0)
            S == {k \in 0 .. n : R[k] \subseteq X}
<1>1. R[0] = {s} /\ \A k \in 1 .. n : R[k] = R[k - 1] \union Heads(R[k - 1], 0)
  BY ReachedFacts
<1>2. 0 \in S
  BY <1>1, Sizes
<1>3. ASSUME NEW k \in 0 .. n - 1, k \in S PROVE k + 1 \in S
  <2>1. k + 1 \in 1 .. n /\ k + 1 \in 0 .. n /\ (k + 1) - 1 = k
    BY Sizes
  <2>2. R[k + 1] = R[k] \union Heads(R[k], 0)
    BY <1>1, <2>1
  <2>3. Heads(R[k], 0) \subseteq X
    <3>1. ASSUME NEW v \in Heads(R[k], 0) PROVE v \in X
      <4>1. PICK a \in Arc : EndNode(G, a) = v /\ StartNode(G, a) \in R[k] /\ Res(a) > 0
        BY <3>1, HeadsType
      <4>. QED BY <1>3, <4>1 DEF Closed, Res
    <3>. QED BY <3>1
  <2>. QED BY <1>3, <2>1, <2>2, <2>3
<1>. HIDE DEF S
<1>4. \A k \in 0 .. n : k \in S
  BY <1>2, <1>3, Sizes, CountUp
<1>5. t \notin R[n] /\ n \in 0 .. n
  BY <1>4, Sizes DEF S
<1>6. ~(Depth(R, t) <= n)
  BY <1>5, Ends, LabelsAre
<1>. QED BY <1>6, Ends, LabelsAre
-------------------------------------------------------------------------------
(* Shortest augmenting paths.                                                *)

(* A walk from s, from layer to layer.                                       *)
Wander(p, b, d) ==
  /\ p \in Seq(Arc)
  /\ \A i \in 1 .. Len(p) :
       /\ p[i] \in Arc /\ Res(p[i]) > b /\ d[EndNode(G, p[i])] = i
       /\ StartNode(G, p[i]) = IF i = 1 THEN s ELSE EndNode(G, p[i - 1])

LEMMA PathsAre ==
  ASSUME IsNetwork(G), NEW b \in Nat, NEW d, Layered(d), d[t] # InfFloat, NEW p \in ShortestPaths(b, d)
  PROVE  Wander(p, b, d) /\ Len(p) = d[t] /\ Len(p) \in Nat /\ Len(p) > 0 /\ EndNode(G, p[Len(p)]) = t
<1>. DEFINE len == d[t]
            Longer(P, k) == {Append(q, a) : q \in P, a \in {c \in Arc : Res(c) > b /\ d[EndNode(G, c)] = k}}
            Walk(q) == \A i \in DOMAIN q : StartNode(G, q[i]) = IF i = 1 THEN s ELSE EndNode(G, q[i - 1])
            Extend(P, k) == {q \in Longer(P, k) : Walk(q)}
            Is(T) == T = [k \in 0 .. len |-> IF k = 0 THEN {<<>>} ELSE Extend(T[k - 1], k)]
            Paths == CHOOSE T : Is(T)
            A == SUBSET Seq(Arc)
            F == [k \in 1 .. len |-> [P \in A |-> Extend(P, k)]]
            z == {<<>>}
<1>0. len \in Nat /\ len > 0
  <2>1. d[t] \in 0 .. n \union {InfFloat} /\ (d[t] = 0 => t = s)
    BY Ends DEF Layered
  <2>. QED BY <2>1, Ends, Sizes
<1>1. p \in Paths[len] /\ EndNode(G, p[Len(p)]) = t
  BY DEF ShortestPaths
<1>2. ASSUME NEW P \in A, NEW k PROVE Extend(P, k) \in A
  <2>1. ASSUME NEW q \in P, NEW a \in Arc PROVE Append(q, a) \in Seq(Arc)
    <3>1. q \in Seq(Arc)
      OBVIOUS
    <3>. QED BY <3>1
  <2>. QED BY <2>1
<1>3. F \in [1 .. len -> [A -> A]] /\ z \in A
  BY <1>2
<1>4. \A k \in 1 .. len : \A P \in A : F[k][P] = Extend(P, k)
  OBVIOUS
<1>. HIDE DEF F, A, z, Extend, Paths
<1>5. Solvable(A, z, len, F)
  BY <1>0, <1>3, Iterates
<1>6. PICK T \in [0 .. len -> A] : T[0] = z /\ \A i \in 1 .. len : T[i] = F[i][T[i - 1]]
  BY <1>5 DEF Solvable
<1>7. Is(T)
  <2>1. ASSUME NEW k \in 0 .. len PROVE T[k] = IF k = 0 THEN {<<>>} ELSE Extend(T[k - 1], k)
    <3>1. CASE k = 0
      BY <1>6, <3>1 DEF z
    <3>2. CASE k # 0
      <4>1. k \in 1 .. len /\ k - 1 \in 0 .. len
        BY <1>0, <3>2
      <4>2. T[k - 1] \in A /\ T[k] = F[k][T[k - 1]]
        BY <1>6, <4>1
      <4>. QED BY <1>4, <3>2, <4>1, <4>2
    <3>. QED BY <3>1, <3>2
  <2>2. T = [k \in 0 .. len |-> T[k]]
    BY <1>6
  <2>. QED BY <2>1, <2>2
<1>8. Is(Paths)
  BY <1>7 DEF Paths
<1>9. Paths[0] = {<<>>} /\ \A k \in 1 .. len : Paths[k] = Extend(Paths[k - 1], k)
  <2>1. 0 \in 0 .. len /\ \A k \in 1 .. len : k \in 0 .. len /\ k # 0
    BY <1>0
  <2>. QED BY <1>8, <2>1
<1>. DEFINE S == {k \in 0 .. len : \A q \in Paths[k] : Len(q) = k /\ Wander(q, b, d)}
<1>10. 0 \in S
  <2>1. Len(<<>>) = 0 /\ <<>> \in Seq(Arc) /\ 1 .. 0 = {} /\ 0 \in 0 .. len
    BY <1>0
  <2>2. Wander(<<>>, b, d)
    BY <2>1 DEF Wander
  <2>. QED BY <1>9, <2>1, <2>2
<1>11. ASSUME NEW k \in 0 .. len - 1, k \in S PROVE k + 1 \in S
  <2>1. k + 1 \in 1 .. len /\ k + 1 \in 0 .. len /\ (k + 1) - 1 = k /\ k \in Nat
    BY <1>0
  <2>2. Paths[k + 1] = Extend(Paths[k], k + 1)
    BY <1>9, <2>1
  <2>3. ASSUME NEW r \in Paths[k + 1] PROVE Len(r) = k + 1 /\ Wander(r, b, d)
    <3>1. PICK q \in Paths[k], a \in Arc : r = Append(q, a) /\ Res(a) > b /\ d[EndNode(G, a)] = k + 1 /\ Walk(r)
      BY <2>2, <2>3 DEF Extend
    <3>2. Len(q) = k /\ Wander(q, b, d)
      BY <1>11, <3>1
    <3>3. q \in Seq(Arc)
      BY <3>2 DEF Wander
    <3>4. r \in Seq(Arc) /\ Len(r) = k + 1 /\ DOMAIN r = 1 .. k + 1 /\ r[k + 1] = a /\ \A i \in 1 .. k : r[i] = q[i]
      BY <3>1, <3>2, <3>3, <2>1
    <3>5. ASSUME NEW i \in 1 .. Len(r)
          PROVE  r[i] \in Arc /\ Res(r[i]) > b /\ d[EndNode(G, r[i])] = i
      <4>1. CASE i = k + 1
        BY <3>1, <3>4, <4>1
      <4>2. CASE i # k + 1
        <5>1. i \in 1 .. k
          BY <2>1, <3>4, <4>2
        <5>. QED BY <3>2, <3>4, <5>1 DEF Wander
      <4>. QED BY <4>1, <4>2
    <3>6. \A i \in 1 .. Len(r) : StartNode(G, r[i]) = IF i = 1 THEN s ELSE EndNode(G, r[i - 1])
      BY <3>1, <3>4
    <3>. QED BY <3>4, <3>5, <3>6 DEF Wander
  <2>. QED BY <2>1, <2>3
<1>. HIDE DEF S
<1>12. \A k \in 0 .. len : k \in S
  BY <1>0, <1>10, <1>11, CountUp
<1>13. len \in S
  BY <1>0, <1>12
<1>. QED BY <1>0, <1>1, <1>13 DEF S

(* A path uses no edge twice.                                                *)
LEMMA WanderEdges ==
  ASSUME IsNetwork(G), NEW b, NEW d, Layered(d), NEW p, Wander(p, b, d),
         NEW i \in 1 .. Len(p), NEW j \in 1 .. Len(p), i # j
  PROVE  p[i] # p[j] /\ p[i] # Twin(p[j])
<1>1. /\ p[i] \in Arc /\ d[EndNode(G, p[i])] = i /\ p[j] \in Arc /\ d[EndNode(G, p[j])] = j
  BY DEF Wander
<1>2. Len(p) \in Nat /\ i \in Int /\ j \in Int
  BY DEF Wander
<1>3. ASSUME NEW k \in 1 .. Len(p) PROVE d[StartNode(G, p[k])] = k - 1
  <2>1. CASE k = 1
    BY <2>1 DEF Wander, Layered
  <2>2. CASE k # 1
    <3>1. k - 1 \in 1 .. Len(p)
      BY <1>2, <2>2
    <3>. QED BY <2>2, <3>1 DEF Wander
  <2>. QED BY <2>1, <2>2
<1>4. ASSUME p[i] = Twin(p[j]) PROVE FALSE
  <2>1. EndNode(G, p[i]) = StartNode(G, p[j]) /\ StartNode(G, p[i]) = EndNode(G, p[j])
    BY <1>1, <1>4, NetworkArcs
  <2>2. i = j - 1 /\ i - 1 = j
    BY <1>1, <1>3, <2>1
  <2>. QED BY <1>2, <2>2
<1>. QED BY <1>1, <1>4

(* A path from s to t leaves every cut.                                      *)
LEMMA WanderCross ==
  ASSUME IsNetwork(G), NEW b, NEW d, NEW p, Wander(p, b, d), Len(p) > 0, EndNode(G, p[Len(p)]) = t, NEW X, IsCut(X)
  PROVE  \E i \in 1 .. Len(p) : Leaves(G, X, p[i])
<1>. DEFINE T == {i \in 1 .. Len(p) : EndNode(G, p[i]) \notin X}
<1>0. Len(p) \in Nat
  BY DEF Wander
<1>1. T \in SUBSET Nat /\ Len(p) \in T
  BY <1>0 DEF IsCut
<1>2. PICK i \in T : \A j \in T : i <= j
  BY <1>1, LeastNumber
<1>3. i \in 1 .. Len(p) /\ EndNode(G, p[i]) \notin X
  BY <1>2
<1>4. StartNode(G, p[i]) \in X
  <2>1. CASE i = 1
    BY <1>3, <2>1 DEF Wander, IsCut
  <2>2. CASE i # 1
    <3>1. i - 1 \in 1 .. Len(p) /\ ~(i <= i - 1)
      BY <1>0, <1>3, <2>2
    <3>2. EndNode(G, p[i - 1]) \in X
      BY <1>2, <3>1
    <3>. QED BY <1>3, <2>2, <3>2 DEF Wander
  <2>. QED BY <2>1, <2>2
<1>. QED BY <1>3, <1>4 DEF Leaves

LEMMA FindCapIs ==
  ASSUME IsNetwork(G), NEW p, NEW len \in Nat, len > 0, DOMAIN p = 1 .. len, \A i \in 1 .. len : p[i] \in Arc
  PROVE  /\ FindCap(G, p) \in Nat
         /\ \A i \in 1 .. len : FindCap(G, p) <= Res(p[i])
         /\ \E i \in 1 .. len : FindCap(G, p) = Res(p[i])
<1>. DEFINE S == {ResCap(G, p[i]) : i \in DOMAIN p}
<1>1. \A i \in 1 .. len : ResCap(G, p[i]) \in Nat
  BY NetworkArcs
<1>2. S \in SUBSET Nat /\ ResCap(G, p[1]) \in S
  BY <1>1
<1>3. FindCap(G, p) = Least(S)
  BY DEF FindCap
<1>4. (\A i \in 1 .. len : ResCap(G, p[i]) \in S) /\ (\A x \in S : \E i \in 1 .. len : x = ResCap(G, p[i]))
  OBVIOUS
<1>. HIDE DEF S
<1>5. Least(S) \in S /\ \A y \in S : Least(S) <= y
  BY <1>2, LeastIs
<1>. QED BY <1>2, <1>3, <1>4, <1>5 DEF Res

NetRecords == [ends : [Edge -> Node \X Node], orientation : [Edge -> {1}],
               ucap : [Edge -> 0 .. InfCap], sub : [Edge -> Int], delta : Nat]

LEMMA AugmentIs ==
  ASSUME IsNetwork(G), NEW p \in Seq(Arc), NEW x \in Int
  PROVE  \E Hs : /\ Hs[0] = G /\ \A i \in 1 .. Len(p) : Hs[i] = Pushed(Hs[i - 1], p[i], x)
                /\ Augment(G, p, x) = Hs[Len(p)]
<1>. DEFINE len == Len(p)
            A == NetRecords
            F == [i \in 1 .. len |-> [g \in A |-> Pushed(g, p[i], x)]]
            Is(Hs) == Hs = [i \in 0 .. len |-> IF i = 0 THEN G ELSE Pushed(Hs[i - 1], p[i], x)]
            H0 == CHOOSE Hs : Is(Hs)
            z == G
<1>0. len \in Nat /\ \A i \in 1 .. len : p[i] \in Arc
  OBVIOUS
<1>1. z \in A
  BY DEF IsNetwork, NetRecords
<1>2. ASSUME NEW g \in A, NEW i \in 1 .. len PROVE Pushed(g, p[i], x) \in A
  <2>. DEFINE c == EdgeOf(p[i])
              y == IF Backward(p[i]) THEN g.sub[c] - x ELSE g.sub[c] + x
  <2>0. c \in Edge
    BY <1>0, ArcFacts
  <2>1. /\ g = [ends |-> g.ends, orientation |-> g.orientation, ucap |-> g.ucap, sub |-> g.sub, delta |-> g.delta]
        /\ g.ends \in [Edge -> Node \X Node] /\ g.orientation \in [Edge -> {1}]
        /\ g.ucap \in [Edge -> 0 .. InfCap] /\ g.sub \in [Edge -> Int] /\ g.delta \in Nat
    BY DEF NetRecords
  <2>2. y \in Int
    BY <2>0, <2>1
  <2>3. Pushed(g, p[i], x) = [g EXCEPT !.sub[c] = y]
    BY DEF Pushed
  <2>. HIDE DEF c, y
  <2>4. Pushed(g, p[i], x) = [ends |-> g.ends, orientation |-> g.orientation, ucap |-> g.ucap,
                              sub |-> [g.sub EXCEPT ![c] = y], delta |-> g.delta]
    BY <2>1, <2>3
  <2>5. [g.sub EXCEPT ![c] = y] \in [Edge -> Int]
    BY <2>0, <2>1, <2>2
  <2>. QED BY <2>1, <2>4, <2>5 DEF NetRecords
<1>. HIDE DEF A, z, len
<1>3. F \in [1 .. len -> [A -> A]]
  BY <1>2
<1>4. \A i \in 1 .. len : \A g \in A : F[i][g] = Pushed(g, p[i], x)
  OBVIOUS
<1>. HIDE DEF F, H0
<1>5. Solvable(A, z, len, F)
  BY <1>0, <1>1, <1>3, Iterates
<1>6. PICK T \in [0 .. len -> A] : T[0] = z /\ \A i \in 1 .. len : T[i] = F[i][T[i - 1]]
  BY <1>5 DEF Solvable
<1>7. Is(T)
  <2>1. ASSUME NEW k \in 0 .. len PROVE T[k] = IF k = 0 THEN G ELSE Pushed(T[k - 1], p[k], x)
    <3>1. CASE k = 0
      BY <1>6, <3>1 DEF z
    <3>2. CASE k # 0
      <4>1. k \in 1 .. len /\ k - 1 \in 0 .. len
        BY <1>0, <3>2
      <4>2. T[k - 1] \in A /\ T[k] = F[k][T[k - 1]]
        BY <1>6, <4>1
      <4>. QED BY <1>4, <3>2, <4>1, <4>2
    <3>. QED BY <3>1, <3>2
  <2>2. T = [k \in 0 .. len |-> T[k]]
    BY <1>6
  <2>. QED BY <2>1, <2>2
<1>8. Is(H0)
  BY <1>7 DEF H0
<1>9. H0[0] = G /\ \A k \in 1 .. len : H0[k] = Pushed(H0[k - 1], p[k], x)
  <2>1. 0 \in 0 .. len /\ \A k \in 1 .. len : k \in 0 .. len /\ k # 0
    BY <1>0
  <2>. QED BY <1>8, <2>1
<1>10. Augment(G, p, x) = H0[len]
  BY DEF Augment, H0, len
<1>. QED BY <1>9, <1>10 DEF len

(* The flow after an augmentation: more arrives at the end of the path, and  *)
(* nothing changes at the nodes in between.                                  *)
LEMMA AugmentFacts ==
  ASSUME IsNetwork(G), NEW b \in Nat, NEW d, Layered(d), NEW p, Wander(p, b, d), Len(p) > 0,
         NEW x \in Nat, \A i \in 1 .. Len(p) : x <= Res(p[i])
  PROVE  LET h == Augment(G, p, x) IN
         /\ IsNetwork(h) /\ SameNet(G, h) /\ h.delta = G.delta
         /\ \A v \in Node \ {s} : Divergence(h, v) = Divergence(G, v) + (IF v = EndNode(G, p[Len(p)]) THEN x ELSE 0)
<1>0. p \in Seq(Arc) /\ Len(p) \in Nat /\ \A i \in 1 .. Len(p) : p[i] \in Arc
  BY DEF Wander
<1>1. PICK Hs : /\ Hs[0] = G /\ \A i \in 1 .. Len(p) : Hs[i] = Pushed(Hs[i - 1], p[i], x)
               /\ Augment(G, p, x) = Hs[Len(p)]
  BY <1>0, AugmentIs
<1>. DEFINE More(i, v) == IF i > 0 /\ v = EndNode(G, p[i]) THEN x ELSE 0
            Good(i) == /\ IsNetwork(Hs[i]) /\ SameNet(G, Hs[i]) /\ Hs[i].delta = G.delta
                       /\ \A j \in i + 1 .. Len(p) : ResCap(Hs[i], p[j]) = Res(p[j])
                       /\ \A v \in Node \ {s} : Divergence(Hs[i], v) = Divergence(G, v) + More(i, v)
            S == {i \in 0 .. Len(p) : Good(i)}
<1>2. 0 \in S
  <2>1. 0 \in 0 .. Len(p) /\ \A v : More(0, v) = 0
    BY <1>0
  <2>2. \A v : Divergence(G, v) \in Int
    BY NetSingle
  <2>3. SameNet(G, G)
    BY DEF SameNet
  <2>. QED BY <1>1, <2>1, <2>2, <2>3 DEF Res
<1>3. ASSUME NEW k \in 0 .. Len(p) - 1, k \in S PROVE k + 1 \in S
  <2>. DEFINE i == k + 1
              g == Hs[k]
              a == p[i]
  <2>1. i \in 1 .. Len(p) /\ i \in 0 .. Len(p) /\ i - 1 = k /\ k \in Nat /\ i \in Nat
    BY <1>0
  <2>2. Good(k)
    BY <1>3
  <2>3. a \in Arc /\ Hs[i] = Pushed(g, a, x) /\ x <= ResCap(g, a)
    <3>1. i \in k + 1 .. Len(p)
      BY <2>1
    <3>. QED BY <1>0, <1>1, <2>1, <2>2, <3>1
  <2>. HIDE DEF i, a
  <2>4. LET h == Pushed(g, a, x) IN
         /\ IsNetwork(h) /\ SameNet(g, h) /\ h.delta = g.delta
         /\ \A c \in Arc \ {a, Twin(a)} : ResCap(h, c) = ResCap(g, c)
    BY <2>2, <2>3, PushedNet
  <2>5. IsNetwork(Hs[i]) /\ SameNet(G, Hs[i]) /\ Hs[i].delta = G.delta
    BY <2>2, <2>3, <2>4 DEF SameNet
  <2>6. ASSUME NEW j \in i + 1 .. Len(p) PROVE ResCap(Hs[i], p[j]) = Res(p[j])
    <3>1. j \in 1 .. Len(p) /\ j # i /\ j \in k + 1 .. Len(p)
      BY <2>1
    <3>2. p[j] \in Arc \ {a, Twin(a)}
      <4>1. p[j] # p[i] /\ p[j] # Twin(p[i])
        BY <2>1, <3>1, WanderEdges
      <4>. QED BY <1>0, <3>1, <4>1 DEF a
    <3>. QED BY <2>2, <2>3, <2>4, <3>1, <3>2
  <2>7. ASSUME NEW v \in Node \ {s} PROVE Divergence(Hs[i], v) = Divergence(G, v) + More(i, v)
    <3>1. Divergence(Hs[i], v) = Divergence(g, v) + (IF v = EndNode(g, a) THEN x ELSE IF v = StartNode(g, a) THEN -x ELSE 0)
      BY <2>2, <2>3, PushedDiv
    <3>2. StartNode(g, a) = StartNode(G, a) /\ EndNode(g, a) = EndNode(G, a)
      BY <2>2, SameNetArcs
    <3>3. Divergence(g, v) = Divergence(G, v) + More(k, v) /\ Divergence(G, v) \in Int
      BY <2>2, NetSingle
    <3>4. i > 0 /\ (k > 0 => i # 1 /\ k \in 1 .. Len(p)) /\ (~(k > 0) => i = 1)
      BY <1>0, <2>1 DEF i
    <3>5. StartNode(G, a) = IF i = 1 THEN s ELSE EndNode(G, p[k])
      BY <2>1 DEF Wander, a
    <3>6. More(i, v) = IF v = EndNode(G, a) THEN x ELSE 0
      BY <3>4 DEF a
    <3>7. k > 0 => EndNode(G, p[k]) # EndNode(G, a)
      <4>1. d[EndNode(G, a)] = i
        BY <2>1 DEF Wander, a
      <4>2. k > 0 => d[EndNode(G, p[k])] = k
        BY <3>4 DEF Wander
      <4>3. i # k
        BY <2>1 DEF i
      <4>. QED BY <4>1, <4>2, <4>3
    <3>8. More(k, v) = IF k > 0 /\ v = EndNode(G, p[k]) THEN x ELSE 0
      OBVIOUS
    <3>9. v # s
      OBVIOUS
    <3>. HIDE DEF More
    <3>10. CASE v = EndNode(G, a)
      <4>1. More(k, v) = 0
        BY <3>7, <3>8, <3>10
      <4>. QED BY <3>1, <3>2, <3>3, <3>6, <3>10, <4>1
    <3>11. CASE v # EndNode(G, a) /\ v = StartNode(G, a)
      <4>1. k > 0 /\ v = EndNode(G, p[k])
        BY <3>4, <3>5, <3>9, <3>11
      <4>2. More(k, v) = x /\ More(i, v) = 0
        BY <3>6, <3>8, <3>11, <4>1
      <4>3. Divergence(Hs[i], v) = Divergence(g, v) + (-x)
        BY <3>1, <3>2, <3>11
      <4>. QED BY <3>3, <4>2, <4>3
    <3>12. CASE v # EndNode(G, a) /\ v # StartNode(G, a)
      <4>1. ~(k > 0 /\ v = EndNode(G, p[k]))
        BY <3>4, <3>5, <3>12
      <4>2. More(k, v) = 0 /\ More(i, v) = 0
        BY <3>6, <3>8, <3>12, <4>1
      <4>3. Divergence(Hs[i], v) = Divergence(g, v) + 0
        BY <3>1, <3>2, <3>12
      <4>. QED BY <3>3, <4>2, <4>3
    <3>. QED BY <3>10, <3>11, <3>12
  <2>8. Good(i)
    BY <2>5, <2>6, <2>7
  <2>. QED BY <2>1, <2>8 DEF i
<1>. HIDE DEF S
<1>4. \A k \in 0 .. Len(p) : k \in S
  BY <1>0, <1>2, <1>3, CountUp
<1>5. Good(Len(p))
  <2>1. Len(p) \in 0 .. Len(p)
    BY <1>0
  <2>. QED BY <1>4, <2>1 DEF S
<1>. QED BY <1>1, <1>5
-------------------------------------------------------------------------------
(* Sums over arcs that count forward arcs only.                              *)

Forward(f, h) ==
  /\ \A e \in Edge : h[e] \in Int /\ f[2 * e] = h[e] /\ f[2 * e + 1] = 0
  /\ \A i \in 2 * m .. n + 2 * m - 1 : f[i] = 0

LEMMA ForwardSum ==
  ASSUME NEW f, NEW h, Forward(f, h)
  PROVE  SumBelow(f, n + 2 * m) = SumBelow(h, m)
<1>. USE DEF Forward
<1>0. n \in Nat /\ m \in Nat /\ 2 * m \in Nat /\ n + 2 * m \in Nat /\ 2 * m <= n + 2 * m
  BY Sizes
<1>1. ASSUME NEW i \in 0 .. 2 * m - 1 PROVE f[i] \in Int
  <2>1. i \in Arc
    BY DEF Arc
  <2>2. EdgeOf(i) \in Edge /\ i = 2 * EdgeOf(i) + (IF Backward(i) THEN 1 ELSE 0)
    BY <2>1, ArcFacts
  <2>3. 2 * EdgeOf(i) + 0 = 2 * EdgeOf(i)
    BY <2>2 DEF Edge
  <2>4. i = 2 * EdgeOf(i) \/ i = 2 * EdgeOf(i) + 1
    BY <2>2, <2>3
  <2>. QED BY <2>2, <2>4
<1>2. \A i \in 0 .. n + 2 * m - 1 : f[i] \in Int
  <2>1. ASSUME NEW i \in 0 .. n + 2 * m - 1 PROVE f[i] \in Int
    <3>1. i \in 0 .. 2 * m - 1 \/ i \in 2 * m .. n + 2 * m - 1
      BY <1>0
    <3>. QED BY <1>1, <3>1
  <2>. QED BY <2>1
<1>3. SumBelow(f, n + 2 * m) = SumBelow(f, 2 * m)
  BY <1>0, <1>2, SumTail
<1>4. \A i \in 0 .. m - 1 : h[i] = f[2 * i] + f[2 * i + 1]
  BY DEF Edge
<1>5. SumBelow(f, 2 * m) = SumBelow(h, m)
  BY <1>0, <1>1, <1>4, SumPairs
<1>. QED BY <1>3, <1>5

LEMMA BlockingIs ==
  ASSUME NEW g, IsNetwork(g), NEW a \in Arc
  PROVE  Blocking(g, a) <=> Backward(a)
<1>1. EdgeOf(a) \in Edge /\ g.orientation = [e \in Edge |-> 1]
  BY ArcFacts, NetworkParts
<1>2. Orientation(g, a) = 1
  BY <1>1 DEF Orientation
<1>. QED BY <1>2 DEF Blocking

(* What leaves s arrives at t.                                               *)
LEMMA SourceFlow ==
  ASSUME IsNetwork(G), IsFlow(G)
  PROVE  FlowAtSource = Divergence(G, t) /\ Divergence(G, t) \in Nat
<1>. DEFINE f == [x \in 0 .. n + 2 * m - 1 |-> IF x \in Incidences(G, s) THEN (IF Blocking(G, x) THEN 0 ELSE Sub(G, x)) ELSE 0]
            h == [e \in Edge |-> IF G.ends[e][1] = s THEN G.sub[e] ELSE 0]
            w == [e \in Edge |-> (IF G.ends[e][2] = s THEN G.sub[e] ELSE 0) - (IF G.ends[e][1] = s THEN G.sub[e] ELSE 0)]
            z == [e \in Edge |-> 0]
<1>1. FlowAtSource = SumBelow(f, n + 2 * m)
  <2>. DEFINE k == [a \in Arc |-> IF Blocking(G, a) THEN 0 ELSE Sub(G, a)]
  <2>1. FlowAtSource = SumBelow([x \in 0 .. n + 2 * m - 1 |-> IF x \in Incidences(G, s) THEN k[x] ELSE 0], n + 2 * m)
    BY DEF FlowAtSource, SumOver
  <2>2. \A x \in Incidences(G, s) : k[x] = IF Blocking(G, x) THEN 0 ELSE Sub(G, x)
    BY DEF Incidences
  <2>. HIDE DEF k
  <2>3. [x \in 0 .. n + 2 * m - 1 |-> IF x \in Incidences(G, s) THEN k[x] ELSE 0] = f
    BY <2>2
  <2>. QED BY <2>1, <2>3
<1>2. \A i \in 0 .. n + 2 * m - 1 : f[i] = IF i \in Arc /\ StartNode(G, i) = s /\ ~Blocking(G, i) THEN Sub(G, i) ELSE 0
  BY DEF Incidences
<1>. HIDE DEF f
<1>3. ASSUME NEW e \in Edge
      PROVE  h[e] \in Nat /\ w[e] \in Int /\ z[e] = h[e] + w[e] /\ z[e] = 0 /\ f[2 * e] = h[e] /\ f[2 * e + 1] = 0
  <2>1. G.sub[e] \in Nat /\ (G.ends[e][2] = s => G.sub[e] = 0)
    BY NetworkParts DEF IsFlow
  <2>2. /\ 2 * e \in Arc /\ EdgeOf(2 * e) = e /\ ~Backward(2 * e)
        /\ 2 * e + 1 \in Arc /\ EdgeOf(2 * e + 1) = e /\ Backward(2 * e + 1)
    BY EdgeArcs
  <2>3. 2 * e \in 0 .. n + 2 * m - 1 /\ 2 * e + 1 \in 0 .. n + 2 * m - 1
    BY <2>2, Sizes DEF Arc
  <2>4. StartNode(G, 2 * e) = G.ends[e][1] /\ ~Blocking(G, 2 * e) /\ Blocking(G, 2 * e + 1) /\ Sub(G, 2 * e) = G.sub[e]
    BY <2>2, NetworkArcs, BlockingIs DEF Sub
  <2>. QED BY <1>2, <2>1, <2>2, <2>3, <2>4
<1>4. ASSUME NEW i \in 2 * m .. n + 2 * m - 1 PROVE f[i] = 0
  <2>1. i \in 0 .. n + 2 * m - 1 /\ i \notin Arc
    BY Sizes DEF Arc
  <2>. QED BY <1>2, <2>1
<1>5. Divergence(G, s) = SumBelow(w, m)
  BY DEF Divergence
<1>. HIDE DEF h, w, z
<1>6. SumBelow(f, n + 2 * m) = SumBelow(h, m)
  <2>1. \A e \in Edge : h[e] \in Int /\ f[2 * e] = h[e] /\ f[2 * e + 1] = 0
    BY <1>3
  <2>2. Forward(f, h)
    BY <1>4, <2>1 DEF Forward
  <2>. QED BY <2>2, ForwardSum
<1>7. \A i \in 0 .. m - 1 : h[i] \in Nat /\ h[i] \in Int /\ w[i] \in Int /\ z[i] = h[i] + w[i] /\ z[i] = 0
  BY <1>3 DEF Edge
<1>8. SumBelow(z, m) = SumBelow(h, m) + SumBelow(w, m)
  BY <1>7, Sizes, SumAdd
<1>9. SumBelow(z, m) = 0
  BY <1>7, Sizes, SumZero
<1>10. SumBelow(h, m) \in Nat
  BY <1>7, Sizes, SumAtLeast
<1>11. Divergence(G, t) = -Divergence(G, s) /\ Divergence(G, s) \in Int
  BY FlowValue, NetSingle DEF IsFlow
<1>. QED BY <1>1, <1>5, <1>6, <1>8, <1>9, <1>10, <1>11

Finite(d) == {v \in Node : d[v] # InfFloat}

(* The capacity of the cut that the labels show.                             *)
LEMMA CutCapacityIs ==
  ASSUME IsNetwork(G), Layered(dist)
  PROVE  CutCapacity = CutCap(G, Finite(dist))
<1>. DEFINE X == Finite(dist)
            f == [x \in 0 .. n + 2 * m - 1 |-> IF x \in Arc
                    THEN (IF dist[StartNode(G, x)] < InfFloat /\ dist[EndNode(G, x)] = InfFloat /\ ~Blocking(G, x)
                          THEN UCap(G, x) ELSE 0)
                    ELSE 0]
            h == [e \in Edge |-> CutTerm(G, X, e)]
<1>1. CutCapacity = SumBelow(f, n + 2 * m)
  <2>. DEFINE k == [a \in Arc |-> IF /\ dist[StartNode(G, a)] < InfFloat
                                     /\ dist[EndNode(G, a)] = InfFloat /\ ~Blocking(G, a)
                                  THEN UCap(G, a) ELSE 0]
  <2>1. CutCapacity = SumBelow([x \in 0 .. n + 2 * m - 1 |-> IF x \in Arc THEN k[x] ELSE 0], n + 2 * m)
    BY DEF CutCapacity, SumOver
  <2>2. \A x \in Arc : k[x] = IF dist[StartNode(G, x)] < InfFloat /\ dist[EndNode(G, x)] = InfFloat /\ ~Blocking(G, x)
                              THEN UCap(G, x) ELSE 0
    OBVIOUS
  <2>. HIDE DEF k
  <2>3. [x \in 0 .. n + 2 * m - 1 |-> IF x \in Arc THEN k[x] ELSE 0] = f
    BY <2>2
  <2>. QED BY <2>1, <2>3
<1>2. \A i \in 0 .. n + 2 * m - 1 : f[i] = IF /\ i \in Arc /\ dist[StartNode(G, i)] < InfFloat
                                      /\ dist[EndNode(G, i)] = InfFloat /\ ~Blocking(G, i) THEN UCap(G, i) ELSE 0
  OBVIOUS
<1>3. CutCap(G, X) = SumBelow(h, m)
  BY NetTypes
<1>. HIDE DEF f
<1>4. \A v \in Node : dist[v] < InfFloat <=> v \in X
  <2>1. \A v \in Node : dist[v] \in 0 .. n \union {InfFloat}
    BY DEF Layered
  <2>. QED BY <2>1, Sizes DEF Finite
<1>5. \A v \in Node : dist[v] = InfFloat <=> v \notin X
  BY DEF Finite
<1>. HIDE DEF X
<1>6. ASSUME NEW e \in Edge PROVE h[e] \in Int /\ f[2 * e] = h[e] /\ f[2 * e + 1] = 0
  <2>1. CutTerm(G, X, e) \in Nat /\ h[e] = CutTerm(G, X, e)
    BY NetTypes
  <2>2. /\ 2 * e \in Arc /\ EdgeOf(2 * e) = e /\ ~Backward(2 * e)
        /\ 2 * e + 1 \in Arc /\ EdgeOf(2 * e + 1) = e /\ Backward(2 * e + 1)
    BY EdgeArcs
  <2>3. 2 * e \in 0 .. n + 2 * m - 1 /\ 2 * e + 1 \in 0 .. n + 2 * m - 1
    BY <2>2, Sizes DEF Arc
  <2>4. /\ StartNode(G, 2 * e) = G.ends[e][1] /\ EndNode(G, 2 * e) = G.ends[e][2]
        /\ StartNode(G, 2 * e) \in Node /\ EndNode(G, 2 * e) \in Node
    BY <2>2, NetworkArcs
  <2>5. ~Blocking(G, 2 * e) /\ Blocking(G, 2 * e + 1) /\ UCap(G, 2 * e) = G.ucap[e]
    BY <2>2, BlockingIs DEF UCap
  <2>6. f[2 * e] = CutTerm(G, X, e)
    BY <1>2, <1>4, <1>5, <2>2, <2>3, <2>4, <2>5 DEF CutTerm
  <2>7. f[2 * e + 1] = 0
    BY <1>2, <2>3, <2>5
  <2>. QED BY <2>1, <2>6, <2>7
<1>7. ASSUME NEW i \in 2 * m .. n + 2 * m - 1 PROVE f[i] = 0
  <2>1. i \in 0 .. n + 2 * m - 1 /\ i \notin Arc
    BY Sizes DEF Arc
  <2>. QED BY <1>2, <2>1
<1>. HIDE DEF h
<1>8. SumBelow(f, n + 2 * m) = SumBelow(h, m)
  <2>1. Forward(f, h)
    BY <1>6, <1>7 DEF Forward
  <2>. QED BY <2>1, ForwardSum
<1>. QED BY <1>1, <1>3, <1>8 DEF X

-------------------------------------------------------------------------------
(* Sequences without repetition.                                             *)

Distinct(q) == \A i, j \in DOMAIN q : q[i] = q[j] => i = j

LEMMA InOrderIs ==
  ASSUME NEW A, NEW q \in Seq(A), Distinct(q), NEW S
  PROVE  /\ InOrder(q, S) \in Seq(A) /\ Distinct(InOrder(q, S))
         /\ \A x : x \in ToSet(InOrder(q, S)) <=> x \in ToSet(q) /\ x \in S
<1>. DEFINE len == Len(q)
            B == Seq(A)
            Step(k, r) == IF q[k] \in S THEN Append(r, q[k]) ELSE r
            F == [k \in 1 .. len |-> [r \in B |-> Step(k, r)]]
            Is(T) == T = [k \in 0 .. len |-> IF k = 0 THEN <<>>
                            ELSE IF q[k] \in S THEN Append(T[k - 1], q[k]) ELSE T[k - 1]]
            C == CHOOSE T : Is(T)
            z == <<>>
<1>0. len \in Nat /\ DOMAIN q = 1 .. len /\ \A k \in 1 .. len : q[k] \in A
  OBVIOUS
<1>1. z \in B
  OBVIOUS
<1>2. ASSUME NEW r \in B, NEW k \in 1 .. len PROVE Step(k, r) \in B
  BY <1>0
<1>3. F \in [1 .. len -> [B -> B]]
  BY <1>2
<1>4. \A k \in 1 .. len : \A r \in B : F[k][r] = Step(k, r)
  OBVIOUS
<1>5. InOrder(q, S) = C[len]
  BY DEF InOrder
<1>. HIDE DEF F, C, B, z
<1>6. Solvable(B, z, len, F)
  BY <1>0, <1>1, <1>3, Iterates
<1>7. PICK T \in [0 .. len -> B] : T[0] = z /\ \A i \in 1 .. len : T[i] = F[i][T[i - 1]]
  BY <1>6 DEF Solvable
<1>8. Is(T)
  <2>1. ASSUME NEW k \in 0 .. len
        PROVE  T[k] = IF k = 0 THEN <<>> ELSE IF q[k] \in S THEN Append(T[k - 1], q[k]) ELSE T[k - 1]
    <3>1. CASE k = 0
      BY <1>7, <3>1 DEF z
    <3>2. CASE k # 0
      <4>1. k \in 1 .. len /\ k - 1 \in 0 .. len
        BY <1>0, <3>2
      <4>2. T[k - 1] \in B /\ T[k] = F[k][T[k - 1]]
        BY <1>7, <4>1
      <4>. QED BY <1>4, <3>2, <4>1, <4>2
    <3>. QED BY <3>1, <3>2
  <2>2. T = [k \in 0 .. len |-> T[k]]
    BY <1>7
  <2>. QED BY <2>1, <2>2
<1>9. Is(C)
  BY <1>8 DEF C
<1>10. C[0] = <<>> /\ \A k \in 1 .. len : C[k] = Step(k, C[k - 1])
  <2>1. 0 \in 0 .. len /\ \A k \in 1 .. len : k \in 0 .. len /\ k # 0
    BY <1>0
  <2>. QED BY <1>9, <2>1
<1>. DEFINE Good(k) == /\ C[k] \in Seq(A)
                       /\ \A x : (\E i \in 1 .. Len(C[k]) : C[k][i] = x) <=> (\E j \in 1 .. k : q[j] = x /\ x \in S)
                       /\ \A i, j \in 1 .. Len(C[k]) : C[k][i] = C[k][j] => i = j
            K == {k \in 0 .. len : Good(k)}
<1>11. 0 \in K
  <2>1. Len(<<>>) = 0 /\ <<>> \in Seq(A) /\ 1 .. 0 = {} /\ 0 \in 0 .. len
    BY <1>0
  <2>2. Good(0)
    BY <1>10, <2>1
  <2>. QED BY <2>1, <2>2
<1>12. ASSUME NEW k \in 0 .. len - 1, k \in K PROVE k + 1 \in K
  <2>1. k + 1 \in 1 .. len /\ k + 1 \in 0 .. len /\ (k + 1) - 1 = k /\ k \in Nat
    BY <1>0
  <2>2. C[k + 1] = Step(k + 1, C[k])
    BY <1>10, <2>1
  <2>. DEFINE r == C[k]
              y == q[k + 1]
  <2>3. /\ r \in Seq(A) /\ y \in A
        /\ \A x : (\E i \in 1 .. Len(r) : r[i] = x) <=> (\E j \in 1 .. k : q[j] = x /\ x \in S)
        /\ \A i, j \in 1 .. Len(r) : r[i] = r[j] => i = j
    BY <1>0, <1>12, <2>1
  <2>4. \A x : (\E j \in 1 .. k + 1 : q[j] = x /\ x \in S) <=> (\E j \in 1 .. k : q[j] = x /\ x \in S) \/ (x = y /\ y \in S)
    <3>1. \A j : j \in 1 .. k + 1 <=> j \in 1 .. k \/ j = k + 1
      BY <2>1
    <3>. QED BY <3>1
  <2>5. CASE y \notin S
    <3>1. C[k + 1] = r
      BY <2>2, <2>5
    <3>2. Good(k + 1)
      BY <2>3, <2>4, <2>5, <3>1
    <3>. QED BY <2>1, <3>2
  <2>6. CASE y \in S
    <3>. DEFINE u == Append(r, y)
    <3>1. C[k + 1] = u
      BY <2>2, <2>6
    <3>2. u \in Seq(A) /\ Len(u) = Len(r) + 1 /\ u[Len(r) + 1] = y /\ (\A i \in 1 .. Len(r) : u[i] = r[i]) /\ Len(r) \in Nat
      BY <2>3
    <3>3. \A i : i \in 1 .. Len(u) <=> i \in 1 .. Len(r) \/ i = Len(r) + 1
      BY <3>2
    <3>. HIDE DEF u, r
    <3>4. ASSUME NEW x
          PROVE  (\E i \in 1 .. Len(u) : u[i] = x) <=> (\E i \in 1 .. Len(r) : r[i] = x) \/ x = y
      BY <3>2, <3>3
    <3>5. \A i \in 1 .. Len(r) : r[i] # y
      <4>1. ASSUME NEW j \in 1 .. k, q[j] = y PROVE FALSE
        <5>1. j \in 1 .. len /\ j # k + 1
          BY <1>0, <2>1
        <5>. QED BY <1>0, <2>1, <4>1, <5>1 DEF Distinct
      <4>. QED BY <2>3, <4>1
    <3>60. \A i, j \in 1 .. Len(r) : r[i] = r[j] => i = j
      BY ONLY <2>3
    <3>6. ASSUME NEW i \in 1 .. Len(u), NEW j \in 1 .. Len(u), u[i] = u[j] PROVE i = j
      <4>1. CASE i \in 1 .. Len(r) /\ j \in 1 .. Len(r)
        BY ONLY <3>2, <3>6, <3>60, <4>1
      <4>2. CASE i = Len(r) + 1
        BY ONLY <3>2, <3>3, <3>5, <3>6, <4>2
      <4>3. CASE j = Len(r) + 1
        BY ONLY <3>2, <3>3, <3>5, <3>6, <4>3
      <4>. QED BY <3>3, <4>1, <4>2, <4>3
    <3>7. Good(k + 1)
      BY <2>3, <2>4, <2>6, <3>1, <3>2, <3>4, <3>6
    <3>. QED BY <2>1, <3>7
  <2>. QED BY <2>5, <2>6
<1>. HIDE DEF K
<1>13. \A k \in 0 .. len : k \in K
  BY <1>0, <1>11, <1>12, CountUp
<1>14. Good(len)
  <2>1. len \in 0 .. len
    BY <1>0
  <2>. QED BY <1>13, <2>1 DEF K
<1>15. DOMAIN C[len] = 1 .. Len(C[len])
  BY <1>14
<1>. DEFINE r == C[len]
<1>16. Distinct(r)
  BY <1>14, <1>15 DEF Distinct
<1>17. ASSUME NEW x PROVE x \in ToSet(r) <=> x \in ToSet(q) /\ x \in S
  <2>1. x \in ToSet(r) <=> \E i \in 1 .. Len(r) : r[i] = x
    BY <1>15 DEF ToSet
  <2>2. x \in ToSet(q) <=> \E j \in 1 .. len : q[j] = x
    BY <1>0 DEF ToSet
  <2>. QED BY <1>14, <2>1, <2>2
<1>. QED BY <1>5, <1>14, <1>16, <1>17

LEMMA NodeOrderIs == NodeOrder \in Seq(Node) /\ Distinct(NodeOrder) /\ \A x : x \in ToSet(NodeOrder) <=> x \in Node
<1>0. n \in Nat
  BY Sizes
<1>1. \A i \in 1 .. n : i - 1 \in Node
  BY <1>0 DEF Node
<1>2. NodeOrder \in [1 .. n -> Node]
  BY <1>1 DEF NodeOrder
<1>3. NodeOrder \in Seq(Node) /\ DOMAIN NodeOrder = 1 .. n
  BY <1>0, <1>2
<1>4. \A i \in 1 .. n : NodeOrder[i] = i - 1
  BY DEF NodeOrder
<1>5. ASSUME NEW x \in Node PROVE x + 1 \in 1 .. n /\ NodeOrder[x + 1] = x
  BY <1>0, <1>4 DEF Node
<1>6. Distinct(NodeOrder)
  BY <1>3, <1>4 DEF Distinct
<1>. QED BY <1>1, <1>3, <1>4, <1>5, <1>6 DEF ToSet

LEMMA ArcOrderIs ==
  ASSUME NEW q \in {ArcOrder, Reverse(ArcOrder)}
  PROVE  q \in Seq(Arc) /\ Distinct(q) /\ \A x : x \in ToSet(q) <=> x \in Arc
<1>. DEFINE N == 2 * m
<1>0. N \in Nat
  BY Sizes
<1>1. ArcOrder \in [1 .. N -> Arc] /\ \A i \in 1 .. N : ArcOrder[i] = i - 1
  <2>1. \A i \in 1 .. N : i - 1 \in Arc
    BY <1>0 DEF Arc
  <2>. QED BY <2>1 DEF ArcOrder
<1>2. ArcOrder \in Seq(Arc) /\ Len(ArcOrder) = N
  BY <1>0, <1>1
<1>3. Reverse(ArcOrder) = [i \in 1 .. N |-> ArcOrder[(N - i) + 1]]
  BY <1>2 DEF Reverse
<1>4. \A i \in 1 .. N : (N - i) + 1 \in 1 .. N /\ ((N - i) + 1) - 1 = N - i /\ N - i \in Arc
  BY <1>0 DEF Arc
<1>5. Reverse(ArcOrder) \in [1 .. N -> Arc] /\ \A i \in 1 .. N : Reverse(ArcOrder)[i] = N - i
  BY <1>1, <1>3, <1>4
<1>. HIDE DEF N
<1>6. q \in [1 .. N -> Arc]
  BY <1>1, <1>5
<1>7. q \in Seq(Arc) /\ DOMAIN q = 1 .. N
  BY <1>0, <1>6
<1>8. CASE q = ArcOrder
  <2>1. \A i \in 1 .. N : q[i] = i - 1
    BY <1>1, <1>8
  <2>2. ASSUME NEW x \in Arc PROVE x + 1 \in 1 .. N /\ q[x + 1] = x
    BY <1>0, <2>1 DEF Arc, N
  <2>3. Distinct(q)
    BY <1>7, <2>1 DEF Distinct
  <2>. QED BY <1>6, <1>7, <2>2, <2>3 DEF ToSet
<1>9. CASE q = Reverse(ArcOrder)
  <2>1. \A i \in 1 .. N : q[i] = N - i
    BY <1>5, <1>9
  <2>2. ASSUME NEW x \in Arc PROVE N - x \in 1 .. N /\ q[N - x] = x
    BY <1>0, <2>1 DEF Arc, N
  <2>3. Distinct(q)
    BY <1>0, <1>7, <2>1 DEF Distinct
  <2>. QED BY <1>6, <1>7, <2>2, <2>3 DEF ToSet
<1>. QED BY <1>8, <1>9

LEMMA RemoveAtIs ==
  ASSUME NEW A, NEW q \in Seq(A), Distinct(q), NEW i \in DOMAIN q
  PROVE  /\ RemoveAt(q, i) \in Seq(A) /\ Distinct(RemoveAt(q, i))
         /\ \A x : x \in ToSet(RemoveAt(q, i)) <=> x \in ToSet(q) /\ x # q[i]
<1>. DEFINE len == Len(q)
            r == RemoveAt(q, i)
<1>0. len \in Nat /\ DOMAIN q = 1 .. len /\ i \in 1 .. len /\ i \in Nat
  OBVIOUS
<1>1. SubSeq(q, 1, i - 1) \in Seq(A) /\ SubSeq(q, i + 1, len) \in Seq(A)
  BY <1>0
<1>2. r = SubSeq(q, 1, i - 1) \o SubSeq(q, i + 1, len)
  BY DEF RemoveAt
<1>3. /\ Len(SubSeq(q, 1, i - 1)) = i - 1 /\ Len(SubSeq(q, i + 1, len)) = len - i
      /\ \A k \in 1 .. i - 1 : SubSeq(q, 1, i - 1)[k] = q[k]
      /\ \A k \in 1 .. len - i : SubSeq(q, i + 1, len)[k] = q[i + k]
  BY <1>0
<1>. DEFINE u == SubSeq(q, 1, i - 1)
            w == SubSeq(q, i + 1, len)
<1>. HIDE DEF u, w, r, len
<1>a. u \in Seq(A) /\ w \in Seq(A) /\ r = u \o w /\ Len(u) = i - 1 /\ Len(w) = len - i
  BY <1>1, <1>2, <1>3 DEF u, w
<1>b. u \o w \in Seq(A) /\ Len(u \o w) = Len(u) + Len(w)
      /\ \A k \in 1 .. Len(u) + Len(w) : (u \o w)[k] = IF k <= Len(u) THEN u[k] ELSE w[k - Len(u)]
  BY <1>a
<1>4. r \in Seq(A) /\ Len(r) = len - 1
  BY <1>0, <1>a, <1>b
<1>5. ASSUME NEW k \in 1 .. len - 1 PROVE r[k] = IF k < i THEN q[k] ELSE q[k + 1]
  <2>1. r[k] = IF k <= Len(u) THEN u[k] ELSE w[k - Len(u)]
    <3>1. k \in 1 .. Len(u) + Len(w)
      BY <1>0, <1>a
    <3>. QED BY <1>a, <1>b, <3>1
  <2>2. CASE k < i
    <3>1. k \in 1 .. i - 1 /\ k <= Len(u)
      BY <1>0, <1>a, <2>2
    <3>. QED BY <1>3, <2>1, <2>2, <3>1 DEF u
  <2>3. CASE ~(k < i)
    <3>1. ~(k <= Len(u)) /\ k - Len(u) \in 1 .. len - i /\ i + (k - Len(u)) = k + 1
      BY <1>0, <1>a, <2>3
    <3>. QED BY <1>3, <2>1, <2>3, <3>1 DEF w
  <2>. QED BY <2>2, <2>3
<1>6. DOMAIN r = 1 .. len - 1
  BY <1>0, <1>4
<1>7. ASSUME NEW j \in 1 .. len, j # i PROVE \E k \in 1 .. len - 1 : r[k] = q[j]
  <2>1. CASE j < i
    <3>1. j \in 1 .. len - 1
      BY <1>0, <2>1
    <3>. QED BY <1>5, <2>1, <3>1
  <2>2. CASE ~(j < i)
    <3>1. j - 1 \in 1 .. len - 1 /\ ~(j - 1 < i) /\ (j - 1) + 1 = j
      BY <1>0, <1>7, <2>2
    <3>. QED BY <1>5, <3>1
  <2>. QED BY <2>1, <2>2
<1>8. ASSUME NEW k \in 1 .. len - 1 PROVE \E j \in 1 .. len : j # i /\ r[k] = q[j] /\ j = IF k < i THEN k ELSE k + 1
  <2>1. CASE k < i
    <3>1. k \in 1 .. len /\ k # i
      BY <1>0, <2>1
    <3>. QED BY <1>5, <2>1, <3>1
  <2>2. CASE ~(k < i)
    <3>1. k + 1 \in 1 .. len /\ k + 1 # i
      BY <1>0, <2>2
    <3>. QED BY <1>5, <2>2, <3>1
  <2>. QED BY <2>1, <2>2
<1>9. Distinct(r)
  <2>1. ASSUME NEW k \in 1 .. len - 1, NEW c \in 1 .. len - 1, r[k] = r[c] PROVE k = c
    <3>1. PICK j \in 1 .. len : j # i /\ r[k] = q[j] /\ j = IF k < i THEN k ELSE k + 1
      BY <1>8
    <3>2. PICK e \in 1 .. len : e # i /\ r[c] = q[e] /\ e = IF c < i THEN c ELSE c + 1
      BY <1>8
    <3>3. j = e
      BY <1>0, <2>1, <3>1, <3>2 DEF Distinct
    <3>. QED BY <1>0, <3>1, <3>2, <3>3
  <2>. QED BY <1>6, <2>1 DEF Distinct
<1>10. ASSUME NEW x PROVE x \in ToSet(r) <=> x \in ToSet(q) /\ x # q[i]
  <2>1. ASSUME NEW k \in 1 .. len - 1, x = r[k] PROVE x \in ToSet(q) /\ x # q[i]
    <3>1. PICK j \in 1 .. len : j # i /\ r[k] = q[j]
      BY <1>8
    <3>2. q[j] # q[i]
      BY <1>0, <3>1 DEF Distinct
    <3>. QED BY <1>0, <2>1, <3>1, <3>2 DEF ToSet
  <2>2. ASSUME NEW j \in 1 .. len, x = q[j], x # q[i] PROVE x \in ToSet(r)
    <3>1. j # i
      BY <2>2
    <3>2. PICK k \in 1 .. len - 1 : r[k] = q[j]
      BY <1>7, <3>1
    <3>. QED BY <1>6, <2>2, <3>2 DEF ToSet
  <2>3. \A y : y \in ToSet(r) <=> \E k \in 1 .. len - 1 : y = r[k]
    BY <1>6 DEF ToSet
  <2>4. \A y : y \in ToSet(q) <=> \E k \in 1 .. len : y = q[k]
    BY <1>0 DEF ToSet
  <2>. QED BY <2>1, <2>2, <2>3, <2>4
<1>. QED BY <1>4, <1>9, <1>10 DEF r

LEMMA AppendIs ==
  ASSUME NEW A, NEW q \in Seq(A), Distinct(q), NEW y \in A, y \notin ToSet(q)
  PROVE  /\ Append(q, y) \in Seq(A) /\ Distinct(Append(q, y))
         /\ \A x : x \in ToSet(Append(q, y)) <=> x \in ToSet(q) \/ x = y
<1>. DEFINE r == Append(q, y)
<1>1. r \in Seq(A) /\ DOMAIN r = 1 .. Len(q) + 1 /\ Len(q) \in Nat /\ DOMAIN q = 1 .. Len(q)
      /\ r[Len(q) + 1] = y /\ \A i \in 1 .. Len(q) : r[i] = q[i]
  OBVIOUS
<1>2. \A i : i \in 1 .. Len(q) + 1 <=> i \in 1 .. Len(q) \/ i = Len(q) + 1
  BY <1>1
<1>. HIDE DEF r
<1>3. \A i \in 1 .. Len(q) : q[i] # y
  BY <1>1 DEF ToSet
<1>4. Distinct(r)
  BY <1>1, <1>2, <1>3 DEF Distinct
<1>5. ASSUME NEW x PROVE x \in ToSet(r) <=> x \in ToSet(q) \/ x = y
  BY <1>1, <1>2 DEF ToSet
<1>. QED BY <1>1, <1>4, <1>5 DEF r
-------------------------------------------------------------------------------
(* Labels and lists of push-relabel.                                         *)

(* No residual arc leads down by more than one label.                        *)
Down(g, lab) == \A a \in Arc : ResCap(g, a) > 0 => lab[StartNode(g, a)] <= lab[EndNode(g, a)] + 1
(* The lists hold every admissible arc, and no saturated one.                *)
Lists(g, lab, adm) ==
  \A a \in Arc : ResCap(g, a) > 0 /\ lab[StartNode(g, a)] = lab[EndNode(g, a)] + 1 => a \in adm[StartNode(g, a)]
Sound(g, adm) == \A v \in Node : \A a \in adm[v] : StartNode(g, a) = v /\ ResCap(g, a) > 0
Excess(g) == \A v \in Inner : Divergence(g, v) >= 0

LEMMA InnerCount ==
  /\ IsFiniteSet(Inner) /\ Cardinality(Inner) = n - 2
  /\ \A u \in Inner : IsFiniteSet(Inner \ {u}) /\ Cardinality(Inner \ {u}) = n - 3
<1>1. IsFiniteSet(Node \ {s}) /\ Cardinality(Node \ {s}) = n - 1
  BY NodeCount, Ends, FS_RemoveElement
<1>2. IsFiniteSet((Node \ {s}) \ {t}) /\ Cardinality((Node \ {s}) \ {t}) = (n - 1) - 1
  <2>1. t \in Node \ {s}
    BY Ends
  <2>. QED BY <1>1, <2>1, FS_RemoveElement
<1>3. Inner = (Node \ {s}) \ {t} /\ (n - 1) - 1 = n - 2
  BY Sizes DEF Inner
<1>4. IsFiniteSet(Inner) /\ Cardinality(Inner) = n - 2
  BY <1>2, <1>3
<1>5. ASSUME NEW u \in Inner PROVE IsFiniteSet(Inner \ {u}) /\ Cardinality(Inner \ {u}) = n - 3
  <2>1. IsFiniteSet(Inner \ {u}) /\ Cardinality(Inner \ {u}) = (n - 2) - 1
    BY <1>4, FS_RemoveElement
  <2>. QED BY <2>1, Sizes
<1>. QED BY <1>4, <1>5

(* There is a label below n that no node has, and the nodes above it make a  *)
(* cut without a residual arc.                                               *)
LEMMA GapCut ==
  ASSUME NEW g, IsNetwork(g), NEW lab \in [Node -> Nat], lab[s] = n, lab[t] = 0, Down(g, lab)
  PROVE  \E X : IsCut(X) /\ Closed(g, X)
<1>0. n \in Nat /\ n > 1 /\ n - 1 \in Nat /\ n - 2 < n - 1 /\ 1 \in Int
  BY Sizes
<1>1. Misses(lab, Inner, 1, n - 1)
  BY <1>0, InnerCount, Pigeons
<1>2. PICK i \in 1 .. 1 + (n - 1) - 1 : \A v \in Inner : lab[v] # i
  BY <1>1 DEF Misses
<1>3. i \in Nat /\ i >= 1 /\ i < n
  BY <1>0, <1>2
<1>. DEFINE X == {v \in Node : lab[v] > i}
<1>4. IsCut(X)
  BY <1>3, Ends DEF IsCut
<1>5. ASSUME NEW a \in Arc, StartNode(g, a) \in X, ResCap(g, a) > 0 PROVE EndNode(g, a) \in X
  <2>. DEFINE u == StartNode(g, a)
              w == EndNode(g, a)
  <2>1. u \in Node /\ w \in Node
    BY NetworkArcs
  <2>2. lab[u] > i /\ lab[u] <= lab[w] + 1 /\ lab[u] \in Nat /\ lab[w] \in Nat
    BY <1>5, <2>1 DEF Down
  <2>3. lab[w] >= i
    BY <1>3, <2>2
  <2>4. lab[w] # i
    <3>1. w \in Inner \/ w = s \/ w = t
      BY <2>1 DEF Inner
    <3>. QED BY <1>2, <1>3, <3>1
  <2>. HIDE DEF w
  <2>5. lab[w] > i
    BY <1>3, <2>2, <2>3, <2>4
  <2>6. w \in X
    BY <2>1, <2>5
  <2>. QED BY <2>6 DEF w
<1>. QED BY <1>4, <1>5 DEF Closed

(* A node with excess has a residual arc to a label of at most 2n-2.         *)
LEMMA RelabelBound ==
  ASSUME NEW g, IsNetwork(g), NEW lab \in [Node -> Nat], lab[s] = n, lab[t] = 0, Down(g, lab),
         Excess(g), NEW u \in Inner, Divergence(g, u) > 0
  PROVE  \E a \in Arc : StartNode(g, a) = u /\ ResCap(g, a) > 0 /\ lab[EndNode(g, a)] <= 2 * n - 2
<1>. SUFFICES ASSUME \A a \in Arc : StartNode(g, a) = u /\ ResCap(g, a) > 0 => ~(lab[EndNode(g, a)] <= 2 * n - 2)
              PROVE  FALSE
  OBVIOUS
<1>0. n \in Nat /\ n > 1
  BY Sizes
<1>1. n >= 3
  <2>1. u \in 0 .. n - 1 /\ u # 0 /\ u # n - 1
    BY DEF Inner, Node, s, t
  <2>. QED BY <1>0, <2>1
<1>2. n - 2 \in Nat /\ n - 3 < n - 2 /\ n + 1 \in Int
  BY <1>0, <1>1
<1>3. Misses(lab, Inner \ {u}, n + 1, n - 2)
  BY <1>2, InnerCount, Pigeons
<1>4. PICK i \in n + 1 .. (n + 1) + (n - 2) - 1 : \A v \in Inner \ {u} : lab[v] # i
  BY <1>3 DEF Misses
<1>5. i \in Nat /\ i > n /\ i <= 2 * n - 2
  BY <1>0, <1>1, <1>4
<1>. DEFINE X == {v \in Node : v = u \/ lab[v] > i}
<1>6. X \in SUBSET Node /\ u \in X /\ X \ {u} \subseteq Inner
  BY <1>0, <1>5, Ends DEF Inner
<1>7. ASSUME NEW a \in Arc, StartNode(g, a) \in X, ResCap(g, a) > 0 PROVE EndNode(g, a) \in X
  <2>. DEFINE v == StartNode(g, a)
              w == EndNode(g, a)
  <2>1. v \in Node /\ w \in Node
    BY NetworkArcs
  <2>2. lab[v] \in Nat /\ lab[w] \in Nat /\ lab[v] <= lab[w] + 1
    BY <1>7, <2>1 DEF Down
  <2>3. CASE v = u
    <3>1. ~(lab[w] <= 2 * n - 2)
      BY <1>7, <2>3
    <3>. HIDE DEF w
    <3>2. lab[w] > i
      BY <1>0, <1>5, <2>2, <3>1
    <3>3. w \in X
      BY <2>1, <3>2
    <3>. QED BY <3>3 DEF w
  <2>4. CASE v # u /\ w # u
    <3>1. lab[v] > i
      BY <1>7, <2>4
    <3>2. lab[w] # i
      <4>1. w \in Inner \ {u} \/ w = s \/ w = t
        BY <2>1, <2>4 DEF Inner
      <4>. QED BY <1>0, <1>4, <1>5, <4>1
    <3>. HIDE DEF v, w
    <3>3. lab[w] > i
      BY <1>5, <2>2, <3>1, <3>2
    <3>4. w \in X
      BY <2>1, <3>3
    <3>. QED BY <3>4 DEF w
  <2>5. CASE w = u
    BY <1>6, <2>5
  <2>. QED BY <2>3, <2>4, <2>5
<1>8. Closed(g, X)
  BY <1>7 DEF Closed
<1>. HIDE DEF X
<1>9. NetIn(g, X) + CutCap(g, X) = 0
  BY <1>8, CutSlack
<1>10. NetIn(g, X) >= Divergence(g, u)
  <2>1. \A v \in X \ {u} : Divergence(g, v) >= 0
    BY <1>6 DEF Excess
  <2>. QED BY <1>6, <2>1, NetAtLeast
<1>11. NetIn(g, X) \in Int /\ CutCap(g, X) \in Nat /\ Divergence(g, u) \in Int
  BY NetTypes, NetSingle
<1>. QED BY <1>9, <1>10, <1>11

(* A saturated arc is taken from the list.                                   *)
Cleared(adm, adm2, h, a, u) == adm2 = IF ResCap(h, a) > 0 THEN adm ELSE [adm EXCEPT ![u] = @ \ {a}]
(* A push on an admissible arc.                                              *)
LEMMA PushStep ==
  ASSUME NEW g, IsNetwork(g), NEW lab \in [Node -> Nat], NEW adm \in [Node -> SUBSET Arc], NEW u \in Node,
         Down(g, lab), Sound(g, adm), NEW a \in adm[u], lab[u] = lab[EndNode(g, a)] + 1,
         NEW x \in Nat, x <= ResCap(g, a),
         NEW h, h = Pushed(g, a, x),
         NEW adm2, Cleared(adm, adm2, h, a, u)
  PROVE  /\ Down(h, lab) /\ (Lists(g, lab, adm) => Lists(h, lab, adm2)) /\ Sound(h, adm2)
         /\ adm2 \in [Node -> SUBSET Arc]
<1>. USE DEF Cleared
<1>0. a \in Arc /\ StartNode(g, a) = u /\ ResCap(g, a) > 0 /\ ResCap(g, a) \in Nat
  BY NetworkArcs DEF Sound
<1>1. /\ IsNetwork(h) /\ SameNet(g, h)
      /\ ResCap(h, a) = ResCap(g, a) - x /\ ResCap(h, Twin(a)) = ResCap(g, Twin(a)) + x
      /\ \A b \in Arc \ {a, Twin(a)} : ResCap(h, b) = ResCap(g, b)
  BY <1>0, PushedNet
<1>. DEFINE v == EndNode(g, a)
            c == Twin(a)
<1>2. c \in Arc /\ c # a /\ StartNode(g, c) = v /\ EndNode(g, c) = u /\ v \in Node /\ v # u /\ ResCap(g, c) \in Nat
  BY <1>0, ArcFacts, NetworkArcs
<1>3. \A b : StartNode(h, b) = StartNode(g, b) /\ EndNode(h, b) = EndNode(g, b)
  BY <1>1, SameNetArcs
<1>4. lab[u] \in Nat /\ lab[v] \in Nat
  BY <1>2
<1>. HIDE DEF v, c
<1>5. ASSUME NEW b \in Arc, b # c, ResCap(h, b) > 0 PROVE ResCap(g, b) > 0
  <2>1. CASE b = a
    BY <1>0, <2>1
  <2>2. CASE b # a
    <3>1. b \in Arc \ {a, Twin(a)}
      BY <1>5, <2>2 DEF c
    <3>. QED BY <1>1, <1>5, <3>1
  <2>. QED BY <2>1, <2>2
<1>6. Down(h, lab)
  <2>1. ASSUME NEW b \in Arc, ResCap(h, b) > 0 PROVE lab[StartNode(g, b)] <= lab[EndNode(g, b)] + 1
    <3>1. CASE b = c
      BY <1>2, <1>4, <3>1 DEF v
    <3>2. CASE b # c
      BY <1>5, <2>1, <3>2 DEF Down
    <3>. QED BY <3>1, <3>2
  <2>. QED BY <1>3, <2>1 DEF Down
<1>7. adm2 \in [Node -> SUBSET Arc] /\ \A w \in Node : \A b : b \in adm2[w] <=> b \in adm[w] /\ (ResCap(h, a) > 0 \/ w # u \/ b # a)
  OBVIOUS
<1>8. ASSUME Lists(g, lab, adm) PROVE Lists(h, lab, adm2)
  <2>1. ASSUME NEW b \in Arc, ResCap(h, b) > 0, lab[StartNode(g, b)] = lab[EndNode(g, b)] + 1
        PROVE  b \in adm2[StartNode(g, b)]
    <3>1. b # c
      BY <1>2, <1>4, <2>1 DEF v
    <3>2. b \in adm[StartNode(g, b)]
      BY <1>5, <1>8, <2>1, <3>1 DEF Lists
    <3>3. StartNode(g, b) \in Node
      BY NetworkArcs
    <3>4. b = a => ResCap(h, a) > 0
      BY <2>1
    <3>. QED BY <1>7, <3>2, <3>3, <3>4
  <2>. QED BY <1>3, <2>1 DEF Lists
<1>9. Sound(h, adm2)
  <2>1. ASSUME NEW w \in Node, NEW b \in adm2[w] PROVE StartNode(g, b) = w /\ ResCap(h, b) > 0
    <3>1. b \in adm[w] /\ b \in Arc /\ (ResCap(h, a) > 0 \/ w # u \/ b # a)
      BY <1>7, <2>1
    <3>2. StartNode(g, b) = w /\ ResCap(g, b) > 0 /\ ResCap(g, b) \in Nat
      BY <3>1, NetworkArcs DEF Sound
    <3>3. CASE b = a
      BY <1>0, <3>1, <3>2, <3>3
    <3>4. CASE b = c
      <4>1. ResCap(h, b) = ResCap(g, b) + x
        BY <1>1, <3>4 DEF c
      <4>. QED BY <3>2, <4>1
    <3>5. CASE b # a /\ b # c
      <4>1. b \in Arc \ {a, Twin(a)}
        BY <3>1, <3>5 DEF c
      <4>. QED BY <1>1, <3>2, <4>1
    <3>. QED BY <3>3, <3>4, <3>5
  <2>. QED BY <1>3, <2>1 DEF Sound
<1>. QED BY <1>6, <1>7, <1>8, <1>9

Dropped(adm, adm2, a, u) == adm2 = [adm EXCEPT ![u] = @ \ {a}]
(* An arc that is not admissible is taken from its list.                     *)
LEMMA DropStep ==
  ASSUME NEW g, NEW lab, NEW adm \in [Node -> SUBSET Arc], NEW u \in Node, NEW a, Sound(g, adm),
         NEW adm2, Dropped(adm, adm2, a, u)
  PROVE  /\ Sound(g, adm2) /\ adm2 \in [Node -> SUBSET Arc]
         /\ lab[StartNode(g, a)] # lab[EndNode(g, a)] + 1 => (Lists(g, lab, adm) => Lists(g, lab, adm2))
<1>. USE DEF Dropped
<1>1. adm2 \in [Node -> SUBSET Arc] /\ \A w \in Node : \A b : b \in adm2[w] <=> b \in adm[w] /\ (w # u \/ b # a)
  OBVIOUS
<1>2. Sound(g, adm2)
  BY <1>1 DEF Sound
<1>3. ASSUME lab[StartNode(g, a)] # lab[EndNode(g, a)] + 1, Lists(g, lab, adm) PROVE Lists(g, lab, adm2)
  <2>1. ASSUME NEW b \in Arc, ResCap(g, b) > 0, lab[StartNode(g, b)] = lab[EndNode(g, b)] + 1
        PROVE  b \in adm2[StartNode(g, b)]
    <3>1. b \in adm[StartNode(g, b)] /\ b # a
      BY <1>3, <2>1 DEF Lists
    <3>2. CASE StartNode(g, b) \in Node
      BY <1>1, <3>1, <3>2
    <3>3. CASE StartNode(g, b) \notin Node
      BY <3>1, <3>3
    <3>. QED BY <3>2, <3>3
  <2>. QED BY <2>1 DEF Lists
<1>. QED BY <1>1, <1>2, <1>3

(* A relabel operation: u gets above its least neighbour L, and the arcs     *)
(* that become admissible are added to the lists.                            *)
Lowest(g, lab, u, L) ==
  /\ \A a \in Arc : StartNode(g, a) = u /\ ResCap(g, a) > 0 => L <= lab[EndNode(g, a)]
  /\ \E a \in Arc : StartNode(g, a) = u /\ ResCap(g, a) > 0 /\ lab[EndNode(g, a)] = L
Added(g, lab, adm, adm2, u, L) ==
  \A v \in Node : \A a : a \in adm2[v] <=>
     \/ a \in adm[v]
     \/ a \in Arc /\ StartNode(g, a) = v /\ ResCap(g, a) > 0 /\ v = u /\ lab[EndNode(g, a)] = L
     \/ a \in Arc /\ StartNode(g, a) = v /\ ResCap(g, a) > 0 /\ EndNode(g, a) = u /\ lab[v] = L + 2
Raised(lab, lab2, u, L) == lab2 = [lab EXCEPT ![u] = L + 1]
LEMMA RelabelStep ==
  ASSUME NEW g, IsNetwork(g), NEW lab \in [Node -> Nat], NEW adm \in [Node -> SUBSET Arc], NEW u \in Node,
         Down(g, lab), Sound(g, adm), NEW L \in Nat, Lowest(g, lab, u, L),
         NEW lab2, Raised(lab, lab2, u, L),
         NEW adm2 \in [Node -> SUBSET Arc], Added(g, lab, adm, adm2, u, L)
  PROVE  Down(g, lab2) /\ Sound(g, adm2) /\ (Lists(g, lab, adm) => Lists(g, lab2, adm2))
<1>. USE DEF Lowest, Added, Raised
<1>1. lab[u] <= L + 1
  BY DEF Down
<1>2. lab2 \in [Node -> Nat] /\ lab2[u] = L + 1 /\ \A v \in Node : v # u => lab2[v] = lab[v]
  OBVIOUS
<1>3. \A a \in Arc : StartNode(g, a) \in Node /\ EndNode(g, a) \in Node /\ StartNode(g, a) # EndNode(g, a)
  BY NetworkArcs
<1>4. \A v \in Node : lab[v] \in Nat
  OBVIOUS
<1>5. ASSUME NEW a \in Arc, ResCap(g, a) > 0 PROVE lab2[StartNode(g, a)] <= lab2[EndNode(g, a)] + 1
  <2>. DEFINE v == StartNode(g, a)
              w == EndNode(g, a)
  <2>1. v \in Node /\ w \in Node /\ v # w /\ lab[v] \in Nat /\ lab[w] \in Nat /\ lab[v] <= lab[w] + 1
    BY <1>3, <1>4, <1>5 DEF Down
  <2>2. v = u => L <= lab[w]
    BY <1>5
  <2>. HIDE DEF v, w
  <2>3. CASE v = u
    <3>1. lab2[w] = lab[w] /\ lab2[v] = L + 1
      BY <1>2, <2>1, <2>3
    <3>2. lab2[v] <= lab2[w] + 1
      BY <2>1, <2>2, <2>3, <3>1
    <3>. QED BY <3>2 DEF v, w
  <2>4. CASE w = u
    <3>1. lab2[v] = lab[v] /\ lab2[w] = L + 1 /\ lab[u] \in Nat
      BY <1>2, <2>1, <2>4
    <3>2. lab2[v] <= lab2[w] + 1
      BY <1>1, <2>1, <2>4, <3>1
    <3>. QED BY <3>2 DEF v, w
  <2>5. CASE v # u /\ w # u
    <3>1. lab2[v] = lab[v] /\ lab2[w] = lab[w]
      BY <1>2, <2>1, <2>5
    <3>. QED BY <2>1, <3>1 DEF v, w
  <2>. QED BY <2>3, <2>4, <2>5
<1>6. Sound(g, adm2)
  BY DEF Sound
<1>7. ASSUME Lists(g, lab, adm), NEW a \in Arc, ResCap(g, a) > 0, lab2[StartNode(g, a)] = lab2[EndNode(g, a)] + 1
      PROVE  a \in adm2[StartNode(g, a)]
  <2>. DEFINE v == StartNode(g, a)
              w == EndNode(g, a)
  <2>1. v \in Node /\ w \in Node /\ v # w /\ lab[v] \in Nat /\ lab[w] \in Nat
    BY <1>3, <1>4
  <2>2. CASE v = u
    <3>1. lab2[w] = lab[w] /\ lab2[v] = L + 1 /\ lab2[v] = lab2[w] + 1
      BY <1>2, <1>7, <2>1, <2>2
    <3>. HIDE DEF w
    <3>2. lab[w] = L
      BY <2>1, <3>1
    <3>. QED BY <1>7, <2>1, <2>2, <3>2 DEF w
  <2>3. CASE w = u
    <3>1. lab2[v] = lab[v] /\ lab2[w] = L + 1 /\ lab2[v] = lab2[w] + 1
      BY <1>2, <1>7, <2>1, <2>3
    <3>2. lab[v] = L + 2
      <4>. HIDE DEF v, w
      <4>. QED BY <2>1, <3>1
    <3>. QED BY <1>7, <2>1, <2>3, <3>2
  <2>4. CASE v # u /\ w # u
    <3>1. lab2[v] = lab[v] /\ lab2[w] = lab[w]
      BY <1>2, <2>1, <2>4
    <3>2. a \in adm[v]
      BY <1>7, <3>1 DEF Lists
    <3>. QED BY <2>1, <3>2
  <2>. QED BY <2>2, <2>3, <2>4
<1>. QED BY <1>5, <1>6, <1>7 DEF Down, Lists
-------------------------------------------------------------------------------
(* The inductive invariant.                                                  *)

AuxTypes == [prop : [Node -> Seq(Arc)], degree : [Node -> 0 .. 2 * m], successors : SUBSET Arc,
             path : Seq(Arc), lambda : Nat]

(* The types, for every step.                                                *)
Types ==
  /\ proc \in {"SAP", "SAP_SCALE", "DINIC", "PREFLOW"} /\ methMXF \in 0 .. 5
  /\ IsNetwork(G)
  /\ running \in BOOLEAN /\ val \in Nat /\ ret \in Nat \union {ERRange, ERInternal}
  /\ lower \in Int /\ upper \in Int
  /\ dist \in [Node -> 0 .. n \union {InfFloat}]
  /\ aux \in AuxTypes
  /\ label \in [Node -> 0 .. 2 * n - 1] /\ Q \in Seq(Inner) /\ Admissible \in [Node -> SUBSET Arc]

(* Each method has its own steps, and the thresholds are kept for two only.  *)
Steps ==
  /\ step \in {"call", "check", "done"}
              \union (IF proc = "PREFLOW" THEN {"select", "discharge", "leave", "next", "unbounded"}
                      ELSE IF proc = "DINIC" THEN {"layers", "block", "push", "report"}
                      ELSE {"search", "report"})
  /\ step \notin {"check", "done"} => ret = 0
  /\ proc \in {"SAP", "DINIC"} \/ (proc = "PREFLOW" /\ ~Scaling) => G.delta = 0

Called ==
  step = "call" =>
    /\ IsFlow(G) /\ G.delta = 0 /\ lower = -InfFloat /\ upper = InfFloat
    /\ label = [v \in Node |-> 0] /\ Q = <<>> /\ hand = NoHand /\ Admissible = [v \in Node |-> {}]

Bounds == step \notin {"call", "unbounded"} /\ ret # ERRange => lower <= MinCut /\ MinCut <= upper

(* The distance labels show a cut without residual capacity.                 *)
Shown == Layered(dist) /\ IsCut(Finite(dist)) /\ Closed(G, Finite(dist))

(* A flow of value val, less x units that are missing at w.                  *)
Carries(g, y, w, x) ==
  \A v \in Node \ {s} : Divergence(g, v) = (IF v = t THEN y ELSE 0) - (IF v = w THEN x ELSE 0)

(* The methods that keep a flow.                                             *)
PathEnd == (ret = InfCap /\ MinCut >= InfCap) \/ (ret = val /\ (running => Shown))
PathFlow ==
  proc # "PREFLOW" =>
    /\ step \notin {"call", "push"} => Carries(G, val, s, 0)
    /\ step = "report" /\ running => Shown
    /\ step = "check" => PathEnd
    /\ step = "done" => PathEnd \/ (ret = ERInternal /\ ~running)

(* The layered network: its arcs lead to the next layer, the indegrees count *)
(* the arcs that can be used, and the cursors have passed none of these.     *)
UsableArcs(g, x, v) ==
  {a \in x.successors : EndNode(g, a) = v /\ ResCap(g, a) > 0 /\ ~Blocked(x, StartNode(g, a))}
Graded(g, x, d) ==
  \A a \in x.successors : /\ d[StartNode(g, a)] # InfFloat
                          /\ d[EndNode(g, a)] # InfFloat
                          /\ d[EndNode(g, a)] = d[StartNode(g, a)] + 1
Counted(g, x) == \A v \in Node : x.degree[v] = Cardinality(UsableArcs(g, x, v))
Cursors(g, x) ==
  \A v \in Node : /\ \A a \in ToSet(x.prop[v]) : a \in x.successors /\ EndNode(g, a) = v
                  /\ UsableArcs(g, x, v) \subseteq ToSet(x.prop[v])
LayerNet(g, x, d) == Layered(d) /\ d[t] # InfFloat /\ Graded(g, x, d) /\ Counted(g, x) /\ Cursors(g, x)

(* The rest of the path that flow is pushed on, from its last arc to s.      *)
Rest(g, x, d, p) ==
  \A i \in 1 .. Len(p) :
    /\ p[i] \in x.successors /\ ResCap(g, p[i]) >= x.lambda /\ d[EndNode(g, p[i])] = Len(p) + 1 - i
    /\ StartNode(g, p[i]) = (IF i = Len(p) THEN s ELSE EndNode(g, p[i + 1]))
    /\ ~Blocked(x, StartNode(g, p[i]))
    /\ x.prop[EndNode(g, p[i])] # <<>> /\ Head(x.prop[EndNode(g, p[i])]) = p[i]
Layers ==
  /\ step \in {"block", "push"} => LayerNet(G, aux, dist)
  /\ step = "push" =>
       /\ aux.path # <<>> /\ aux.lambda > 0 /\ Rest(G, aux, dist, aux.path)
       /\ Carries(G, val, EndNode(G, Head(aux.path)), aux.lambda)

(* Push-relabel.                                                             *)
PreflowKept ==
  Preflow =>
    /\ label[s] = n /\ label[t] = 0 /\ Excess(G) /\ Div(t) >= 0
    /\ Down(G, label) /\ Sound(G, Admissible) /\ (~Scaling => Lists(G, label, Admissible))
    /\ Distinct(Q) /\ \A v \in ToSet(Q) : v # hand[1] /\ Active(v, G.delta)
    /\ ~Scaling => \A v \in Inner : Div(v) > 0 => v = hand[1] \/ v \in ToSet(Q)
    /\ step \in {"select", "next"} => hand = NoHand
    /\ step \in {"discharge", "leave"} => hand[1] \in Inner /\ hand = <<hand[1], hand[2]>> /\ hand[2] \in BOOLEAN
    /\ step = "leave" => Scaling /\ ~hand[2]
    /\ step = "discharge" /\ ~Scaling => hand[2]
    /\ step = "discharge" /\ Scaling /\ hand[2] => 2 * Div(hand[1]) >= G.delta

Infinite == \E e \in Edge : G.ucap[e] = InfCap
PreflowEnd ==
  proc = "PREFLOW" =>
    /\ step = "unbounded" => Infinite
    /\ step \in {"check", "done"} =>
         \/ ret = ERRange /\ Infinite /\ step = "done"
         \/ /\ ret = Div(t) \/ (ret = ERInternal /\ Scaling /\ step = "done")
            /\ Div(t) >= 0 /\ Div(t) <= MinCut /\ (Balanced => Div(t) = MinCut)
            /\ ~Scaling => Balanced /\ Shown

FlowInv ==
  /\ Types /\ Steps /\ Called /\ Bounds /\ PathFlow /\ Layers /\ PreflowKept /\ PreflowEnd

(* The bounds of the timer move, and still enclose a number that is not      *)
(* below the new lower, or not above the new upper bound.                    *)
LEMMA BoundStep ==
  ASSUME lower \in Int, upper \in Int, NEW b \in Int, NEW c \in Int, lower <= c, c <= upper
  PROVE  /\ SetLowerBound(b) /\ b <= c => lower' \in Int /\ upper' \in Int /\ lower' <= c /\ c <= upper'
         /\ SetUpperBound(b) /\ c <= b => lower' \in Int /\ upper' \in Int /\ lower' <= c /\ c <= upper'
<1>1. ASSUME SetLowerBound(b), b <= c PROVE lower' \in Int /\ upper' \in Int /\ lower' <= c /\ c <= upper'
  <2>. DEFINE x == Min({b, upper})
  <2>1. x = IF b <= upper THEN b ELSE upper
    BY MinOfTwo
  <2>2. x \in Int /\ x <= c
    BY <1>1, <2>1
  <2>3. lower' = Max({lower, x}) /\ upper' = upper
    BY <1>1 DEF SetLowerBound
  <2>. HIDE DEF x
  <2>4. lower' = IF lower >= x THEN lower ELSE x
    BY <2>2, <2>3, MinOfTwo
  <2>. QED BY <2>2, <2>3, <2>4
<1>2. ASSUME SetUpperBound(b), c <= b PROVE lower' \in Int /\ upper' \in Int /\ lower' <= c /\ c <= upper'
  <2>. DEFINE x == Max({b, lower})
  <2>1. x = IF b >= lower THEN b ELSE lower
    BY MinOfTwo
  <2>2. x \in Int /\ c <= x
    BY <1>2, <2>1
  <2>3. upper' = Min({upper, x}) /\ lower' = lower
    BY <1>2 DEF SetUpperBound
  <2>. HIDE DEF x
  <2>4. upper' = IF upper <= x THEN upper ELSE x
    BY <2>2, <2>3, MinOfTwo
  <2>. QED BY <2>2, <2>3, <2>4
<1>. QED BY <1>1, <1>2

(* A bounded set of integers has a greatest element.                         *)
LEMMA GreatestIs ==
  ASSUME NEW S \in SUBSET Int, S # {}, NEW b \in Int, \A x \in S : x <= b
  PROVE  Greatest(S) \in S /\ \A x \in S : Greatest(S) >= x
<1>. DEFINE T == {b - x : x \in S}
<1>1. T \in SUBSET Nat /\ T # {}
  <2>1. \A x \in S : b - x \in Nat
    OBVIOUS
  <2>. QED BY <2>1
<1>2. PICK k \in T : \A j \in T : k <= j
  BY <1>1, LeastNumber
<1>3. PICK x \in S : k = b - x
  BY <1>2
<1>4. ASSUME NEW y \in S PROVE x >= y
  <2>1. b - y \in T
    BY <1>4
  <2>2. b - x <= b - y /\ x \in Int /\ y \in Int
    BY <1>2, <1>3, <1>4, <2>1
  <2>. QED BY <2>2
<1>. QED BY <1>3, <1>4 DEF Greatest

(* The call begins in a state of the invariant.                              *)
LEMMA InvInit ==
  ASSUME FlowInit
  PROVE  FlowInv
<1>1. PICK c \in FlowCalls : Start(c)
  BY DEF FlowInit
<1>2. /\ proc \in {"SAP", "SAP_SCALE", "DINIC", "PREFLOW"} /\ methMXF \in 0 .. 5
      /\ IsNetwork(G) /\ IsFlow(G) /\ G.delta = 0 /\ step = "call"
  BY <1>1, CallsAssumption DEF Start
<1>3. n \in Nat /\ n > 1 /\ m \in Nat /\ InfFloat \in Nat
  BY Sizes
<1>4. Types
  <2>1. 0 \in 0 .. 2 * m /\ 0 \in 0 .. 2 * n - 1 /\ -InfFloat \in Int /\ InfFloat \in Int /\ 0 \in Nat
    BY <1>3
  <2>2. <<>> \in Seq(Arc) /\ <<>> \in Seq(Inner)
    OBVIOUS
  <2>3. aux \in AuxTypes
    BY <1>1, <2>1, <2>2 DEF Start, NoProps, AuxTypes
  <2>. QED BY <1>1, <1>2, <2>1, <2>2, <2>3 DEF Types, Start
<1>5. Steps /\ Called
  BY <1>1, <1>2 DEF Steps, Called, Start
<1>6. Bounds /\ PathFlow /\ Layers /\ PreflowKept /\ PreflowEnd
  BY <1>2 DEF Bounds, PathFlow, Layers, PreflowKept, PreflowEnd, Preflow
<1>. QED BY <1>4, <1>5, <1>6 DEF FlowInv
(* What is left to show for a step within push-relabel.                      *)
LEMMA PreflowMoves ==
  ASSUME FlowInv, proc = "PREFLOW", step \in {"select", "discharge", "leave", "next"},
         proc' = proc, methMXF' = methMXF, running' = running, val' = val, ret' = ret, dist' = dist, aux' = aux,
         step' \in {"select", "discharge", "leave", "next"},
         IsNetwork(G'), SameNet(G, G'), ~Scaling => G'.delta = 0,
         label' \in [Node -> 0 .. 2 * n - 1], Q' \in Seq(Inner), Admissible' \in [Node -> SUBSET Arc],
         lower' \in Int, upper' \in Int, lower' <= MinCut, MinCut <= upper',
         PreflowKept'
  PROVE  FlowInv'
<1>1. Types'
  BY DEF FlowInv, Types
<1>2. ret = 0 /\ ret' = 0
  BY DEF FlowInv, Steps
<1>3. Steps'
  BY <1>2 DEF Steps, Scaling
<1>4. MinCut' = MinCut
  BY MinCutSame DEF MinCut
<1>5. Bounds'
  BY <1>4 DEF Bounds
<1>6. Called' /\ PathFlow' /\ Layers' /\ PreflowEnd'
  BY DEF Called, PathFlow, Layers, PreflowEnd
<1>. QED BY <1>1, <1>3, <1>5, <1>6 DEF FlowInv

LEMMA KeptNet == ASSUME NEW g PROVE SameNet(g, g)
  BY DEF SameNet

(* Push-relabel: the bounds at a step.                                       *)
LEMMA PreflowFacts ==
  ASSUME FlowInv, step \in {"select", "discharge", "leave", "next"}
  PROVE  /\ proc = "PREFLOW" /\ Preflow /\ IsNetwork(G) /\ ret = 0 /\ MinCut \in Nat
         /\ lower \in Int /\ upper \in Int /\ lower <= MinCut /\ MinCut <= upper
         /\ (~Scaling => G.delta = 0) /\ G.delta \in Nat
         /\ \A v : Div(v) \in Int
<1>1. proc = "PREFLOW" /\ ret = 0 /\ (~Scaling => G.delta = 0)
  BY DEF FlowInv, Steps
<1>2. IsNetwork(G) /\ lower \in Int /\ upper \in Int
  BY DEF FlowInv, Types
<1>3. MinCut \in Nat /\ G.delta \in Nat
  BY <1>2, MinCutFacts, NetworkParts DEF MinCut
<1>4. \A v : Div(v) \in Int
  BY <1>2, NetSingle DEF Div
<1>5. lower <= MinCut /\ MinCut <= upper
  BY <1>1 DEF FlowInv, Bounds, ERRange
<1>. QED BY <1>1, <1>2, <1>3, <1>4, <1>5 DEF Preflow

LEMMA SelectKeeps ==
  ASSUME FlowInv, Select
  PROVE  FlowInv'
<1>1. step = "select"
  BY DEF Select
<1>2. /\ proc = "PREFLOW" /\ Preflow /\ IsNetwork(G) /\ MinCut \in Nat
      /\ lower \in Int /\ upper \in Int /\ lower <= MinCut /\ MinCut <= upper
      /\ (~Scaling => G.delta = 0) /\ \A v : Div(v) \in Int
  BY <1>1, PreflowFacts
<1>3. Q \in Seq(Inner) /\ label \in [Node -> 0 .. 2 * n - 1] /\ Admissible \in [Node -> SUBSET Arc]
  BY DEF FlowInv, Types
<1>4. PICK i \in Candidates : Q # <<>> /\ hand' = <<Q[i], TRUE>> /\ Q' = RemoveAt(Q, i)
  BY DEF Select
<1>5. i \in DOMAIN Q
  BY <1>3, <1>4 DEF Candidates
<1>6. /\ label[s] = n /\ label[t] = 0 /\ Excess(G) /\ Div(t) >= 0
      /\ Down(G, label) /\ Sound(G, Admissible) /\ (~Scaling => Lists(G, label, Admissible))
      /\ Distinct(Q) /\ \A v \in ToSet(Q) : v # hand[1] /\ Active(v, G.delta)
      /\ ~Scaling => \A v \in Inner : Div(v) > 0 => v = hand[1] \/ v \in ToSet(Q)
      /\ hand = NoHand
  BY <1>1, <1>2 DEF FlowInv, PreflowKept
<1>7. /\ Q' \in Seq(Inner) /\ Distinct(Q')
      /\ \A x : x \in ToSet(Q') <=> x \in ToSet(Q) /\ x # Q[i]
  BY <1>3, <1>4, <1>5, <1>6, RemoveAtIs
<1>8. Q[i] \in Inner /\ Q[i] \in ToSet(Q)
  BY <1>3, <1>5 DEF ToSet
<1>9. /\ G' = G /\ label' = label /\ Admissible' = Admissible /\ methMXF' = methMXF /\ step' = "discharge"
      /\ proc' = proc /\ running' = running /\ val' = val /\ ret' = ret /\ dist' = dist /\ aux' = aux
      /\ lower' = lower /\ upper' = upper
  BY DEF Select, timerVars
<1>10. hand'[1] = Q[i] /\ hand'[2] = TRUE /\ hand' = <<hand'[1], hand'[2]>>
  BY <1>4
<1>11. PreflowKept'
  <2>1. \A v \in ToSet(Q') : v # hand'[1] /\ Active(v, G.delta)'
    BY <1>6, <1>7, <1>9, <1>10 DEF Active, Scaling, Div
  <2>2. ~Scaling => \A v \in Inner : Div(v) > 0 => v = hand'[1] \/ v \in ToSet(Q')
    <3>. SUFFICES ASSUME ~Scaling, NEW v \in Inner, Div(v) > 0 PROVE v = Q[i] \/ v \in ToSet(Q')
      BY <1>10
    <3>1. v = hand[1] \/ v \in ToSet(Q)
      BY <1>6
    <3>2. v # hand[1]
      <4>1. hand[1] = NoNode
        BY <1>6 DEF NoHand
      <4>2. v \in 0 .. n
        BY Sizes, Ends DEF Inner, Node
      <4>. QED BY <4>1, <4>2, UndefAssumption
    <3>. QED BY <1>7, <3>1, <3>2
  <2>3. Scaling => 2 * Div(Q[i]) >= G.delta
    BY <1>6, <1>8 DEF Active
  <2>. QED BY <1>6, <1>7, <1>8, <1>9, <1>10, <2>1, <2>2, <2>3 DEF PreflowKept, Scaling, Div
<1>. QED BY <1>1, <1>2, <1>3, <1>7, <1>9, <1>11, PreflowMoves, KeptNet

LEMMA LeaveKeeps ==
  ASSUME FlowInv, Leave
  PROVE  FlowInv'
<1>1. step \in {"discharge", "leave"}
  BY DEF Leave, Discharged
<1>2. /\ proc = "PREFLOW" /\ Preflow /\ IsNetwork(G) /\ MinCut \in Nat
      /\ lower \in Int /\ upper \in Int /\ lower <= MinCut /\ MinCut <= upper
      /\ (~Scaling => G.delta = 0) /\ \A v : Div(v) \in Int
  BY <1>1, PreflowFacts
<1>3. Q \in Seq(Inner) /\ label \in [Node -> 0 .. 2 * n - 1] /\ Admissible \in [Node -> SUBSET Arc]
  BY DEF FlowInv, Types
<1>4. /\ label[s] = n /\ label[t] = 0 /\ Excess(G) /\ Div(t) >= 0
      /\ Down(G, label) /\ Sound(G, Admissible) /\ (~Scaling => Lists(G, label, Admissible))
      /\ Distinct(Q) /\ \A v \in ToSet(Q) : v # hand[1] /\ Active(v, G.delta)
      /\ ~Scaling => \A v \in Inner : Div(v) > 0 => v = hand[1] \/ v \in ToSet(Q)
      /\ step = "leave" => Scaling
      /\ step = "discharge" /\ ~Scaling => hand[2]
  BY <1>2 DEF FlowInv, PreflowKept
<1>5. /\ G' = G /\ label' = label /\ Admissible' = Admissible /\ methMXF' = methMXF /\ step' = "next"
      /\ proc' = proc /\ running' = running /\ val' = val /\ ret' = ret /\ dist' = dist /\ aux' = aux
      /\ lower' = lower /\ upper' = upper /\ Q' = Q /\ hand' = NoHand
      /\ ~(hand[2] /\ Div(hand[1]) > 0)
  BY DEF Leave, timerVars
<1>6. PreflowKept'
  <2>1. \A v \in ToSet(Q) : v # hand'[1]
    <3>1. hand'[1] = NoNode
      BY <1>5 DEF NoHand
    <3>2. \A v \in ToSet(Q) : v \in 0 .. n
      BY <1>3, Sizes DEF ToSet, Inner, Node
    <3>. QED BY <3>1, <3>2, UndefAssumption
  <2>2. \A v \in ToSet(Q') : v # hand'[1] /\ Active(v, G.delta)'
    BY <1>4, <1>5, <2>1 DEF Active, Scaling, Div
  <2>3. ~Scaling => \A v \in Inner : Div(v) > 0 => v \in ToSet(Q)
    BY <1>1, <1>4, <1>5
  <2>. QED BY <1>4, <1>5, <2>2, <2>3 DEF PreflowKept, Scaling, Div
<1>. QED BY <1>1, <1>2, <1>3, <1>5, <1>6, PreflowMoves, KeptNet
LEMMA NextNodeKeeps ==
  ASSUME FlowInv, NextNode
  PROVE  FlowInv'
<1>1. step = "next" /\ step' = "select"
  BY DEF NextNode
<1>2. /\ proc = "PREFLOW" /\ Preflow /\ IsNetwork(G) /\ MinCut \in Nat
      /\ lower \in Int /\ upper \in Int /\ lower <= MinCut /\ MinCut <= upper
      /\ (~Scaling => G.delta = 0) /\ G.delta \in Nat /\ \A v : Div(v) \in Int
  BY <1>1, PreflowFacts
<1>3. Q \in Seq(Inner) /\ label \in [Node -> 0 .. 2 * n - 1] /\ Admissible \in [Node -> SUBSET Arc]
  BY DEF FlowInv, Types
<1>4. /\ label[s] = n /\ label[t] = 0 /\ Excess(G) /\ Div(t) >= 0
      /\ Down(G, label) /\ Sound(G, Admissible) /\ (~Scaling => Lists(G, label, Admissible))
      /\ Distinct(Q) /\ \A v \in ToSet(Q) : v # hand[1] /\ Active(v, G.delta)
      /\ ~Scaling => \A v \in Inner : Div(v) > 0 => v = hand[1] \/ v \in ToSet(Q)
      /\ hand = NoHand
  BY <1>1, <1>2 DEF FlowInv, PreflowKept
<1>5. /\ label' = label /\ Admissible' = Admissible /\ methMXF' = methMXF
      /\ proc' = proc /\ running' = running /\ val' = val /\ ret' = ret /\ dist' = dist /\ aux' = aux
      /\ lower' = lower /\ upper' = upper /\ hand' = hand
  BY DEF NextNode, timerVars
<1>6. CASE ~(Scaling /\ Q = <<>> /\ G.delta > 2)
  <2>1. G' = G /\ Q' = Q
    BY <1>6 DEF NextNode
  <2>2. \A v \in ToSet(Q') : v # hand'[1] /\ Active(v, G.delta)'
    BY <1>4, <1>5, <2>1 DEF Active, Scaling, Div
  <2>3. PreflowKept'
    BY <1>1, <1>4, <1>5, <2>1, <2>2 DEF PreflowKept, Scaling, Div
  <2>. QED BY <1>1, <1>2, <1>3, <1>5, <2>1, <2>3, PreflowMoves, KeptNet
<1>7. CASE Scaling /\ Q = <<>> /\ G.delta > 2
  <2>. DEFINE x == (G.delta + 1) \div 2
              S == {v \in Inner : Active(v, G'.delta)}
  <2>1. G' = [G EXCEPT !.delta = x] /\ Q' = InOrder(NodeOrder, S)
    BY <1>7 DEF NextNode
  <2>2. x \in Nat
    BY <1>2
  <2>. HIDE DEF x
  <2>3. /\ IsNetwork(G') /\ SameNet(G, G') /\ G'.delta = x /\ G'.sub = G.sub
        /\ \A a : ResCap(G', a) = ResCap(G, a)
        /\ \A v : Divergence(G', v) = Divergence(G, v)
    BY <1>2, <2>1, <2>2, DeltaNet
  <2>4. /\ Q' \in Seq(Node) /\ Distinct(Q')
        /\ \A v : v \in ToSet(Q') <=> v \in Node /\ v \in S
    BY <2>1, NodeOrderIs, InOrderIs
  <2>5. Q' \in Seq(Inner)
    <3>1. \A i \in DOMAIN Q' : Q'[i] \in ToSet(Q')
      BY DEF ToSet
    <3>2. \A i \in DOMAIN Q' : Q'[i] \in Inner
      BY <2>4, <3>1
    <3>. HIDE DEF S
    <3>. QED BY <2>4, <3>2
  <2>6. \A v \in ToSet(Q') : v # hand'[1] /\ Active(v, G.delta)'
    <3>1. hand'[1] = NoNode
      BY <1>4, <1>5 DEF NoHand
    <3>2. ASSUME NEW v \in ToSet(Q') PROVE v # NoNode /\ Active(v, G.delta)'
      <4>1. v \in Inner /\ Active(v, G'.delta)
        BY <2>4
      <4>2. v \in 0 .. n
        BY <4>1, Sizes DEF Inner, Node
      <4>. QED BY <1>5, <2>3, <4>1, <4>2, UndefAssumption DEF Active, Scaling, Div
    <3>. QED BY <3>1, <3>2
  <2>7. Scaling /\ Scaling'
    BY <1>5, <1>7 DEF Scaling
  <2>8. Excess(G') /\ Divergence(G', t) >= 0
    BY <1>4, <2>3 DEF Excess, Div
  <2>9. Down(G', label) /\ Sound(G', Admissible)
    BY <1>4, <2>3, SameNetArcs DEF Down, Sound
  <2>10. PreflowKept'
    BY <1>1, <1>4, <1>5, <2>4, <2>6, <2>7, <2>8, <2>9 DEF PreflowKept, Div
  <2>. QED BY <1>1, <1>2, <1>3, <1>5, <2>3, <2>5, <2>7, <2>10, PreflowMoves
<1>. QED BY <1>6, <1>7

LEMMA RelabelKeeps ==
  ASSUME FlowInv, Relabel
  PROVE  FlowInv'
<1>. DEFINE u == hand[1]
            L == LeastLabel(u)
            S == {label[EndNode(G, a)] : a \in {b \in Incidences(G, u) : Res(b) > 0}}
<1>1. step \in {"discharge", "leave"} /\ step' = "next"
  BY DEF Relabel, Discharged
<1>2. /\ proc = "PREFLOW" /\ Preflow /\ IsNetwork(G) /\ MinCut \in Nat
      /\ lower \in Int /\ upper \in Int /\ lower <= MinCut /\ MinCut <= upper
      /\ (~Scaling => G.delta = 0) /\ G.delta \in Nat /\ \A v : Div(v) \in Int
  BY <1>1, PreflowFacts
<1>3. Q \in Seq(Inner) /\ label \in [Node -> 0 .. 2 * n - 1] /\ Admissible \in [Node -> SUBSET Arc]
  BY DEF FlowInv, Types
<1>4. /\ label[s] = n /\ label[t] = 0 /\ Excess(G) /\ Div(t) >= 0
      /\ Down(G, label) /\ Sound(G, Admissible) /\ (~Scaling => Lists(G, label, Admissible))
      /\ Distinct(Q) /\ \A v \in ToSet(Q) : v # u /\ Active(v, G.delta)
      /\ ~Scaling => \A v \in Inner : Div(v) > 0 => v = u \/ v \in ToSet(Q)
      /\ u \in Inner
      /\ step = "leave" => ~hand[2]
      /\ step = "discharge" /\ Scaling /\ hand[2] => 2 * Div(u) >= G.delta
  BY <1>1, <1>2 DEF FlowInv, PreflowKept
<1>5. /\ G' = G /\ methMXF' = methMXF
      /\ proc' = proc /\ running' = running /\ val' = val /\ ret' = ret /\ dist' = dist /\ aux' = aux
      /\ lower' = lower /\ upper' = upper
      /\ hand[2] /\ Div(u) > 0
      /\ label' = [label EXCEPT ![u] = L + 1]
      /\ Admissible' = [v \in Node |-> Admissible[v]
                         \union (IF v = u THEN NewArcs(u) ELSE {})
                         \union {a \in NewArcsTo(u) : StartNode(G, a) = v}]
      /\ Q' = Append(Q, u) /\ hand' = NoHand
  BY DEF Relabel, timerVars
<1>. HIDE DEF u
<1>6. u \in Node /\ u # s /\ u # t /\ label \in [Node -> Nat]
  BY <1>3, <1>4, Ends
<1>7. PICK b \in Arc : StartNode(G, b) = u /\ Res(b) > 0 /\ label[EndNode(G, b)] <= 2 * n - 2
  BY <1>2, <1>4, <1>5, <1>6, RelabelBound DEF Div, Res
<1>8. S \in SUBSET Nat /\ label[EndNode(G, b)] \in S
  <2>1. \A a \in Arc : EndNode(G, a) \in Node
    BY <1>2, NetworkArcs
  <2>2. \A a \in Arc : label[EndNode(G, a)] \in Nat
    BY <1>6, <2>1
  <2>. QED BY <1>7, <2>2 DEF Incidences
<1>9. L = Least(S)
  BY DEF LeastLabel
<1>10. L \in S /\ \A y \in S : L <= y
  BY <1>8, <1>9, LeastIs
<1>11. L \in Nat /\ L <= label[EndNode(G, b)]
  BY <1>8, <1>10
<1>12. L + 1 \in 0 .. 2 * n - 1
  <2>1. EndNode(G, b) \in Node
    BY <1>2, <1>7, NetworkArcs
  <2>2. label[EndNode(G, b)] \in Nat
    BY <1>6, <2>1
  <2>. HIDE DEF L
  <2>. QED BY <1>7, <1>11, <2>2, Sizes
<1>13. \A a \in Arc : StartNode(G, a) = u /\ ResCap(G, a) > 0 => L <= label[EndNode(G, a)]
  <2>1. \A a \in Arc : StartNode(G, a) = u /\ ResCap(G, a) > 0 => label[EndNode(G, a)] \in S
    BY DEF Incidences, Res
  <2>. HIDE DEF L, S
  <2>. QED BY <1>10, <2>1
<1>14. \E a \in Arc : StartNode(G, a) = u /\ ResCap(G, a) > 0 /\ label[EndNode(G, a)] = L
  <2>. HIDE DEF L
  <2>. QED BY <1>10 DEF Incidences, Res
<1>. HIDE DEF L, S
<1>15. label' \in [Node -> 0 .. 2 * n - 1]
  BY <1>3, <1>5, <1>6, <1>12
<1>16. /\ \A a : a \in NewArcs(u) <=> a \in Arc /\ StartNode(G, a) = u /\ ResCap(G, a) > 0 /\ label[EndNode(G, a)] = L
       /\ \A a : a \in NewArcsTo(u) <=>
             a \in Arc /\ EndNode(G, a) = u /\ ResCap(G, a) > 0 /\ label[StartNode(G, a)] = L + 2
  BY DEF NewArcs, NewArcsTo, Incidences, Res, L
<1>17. Admissible' \in [Node -> SUBSET Arc]
  BY <1>3, <1>5, <1>16
<1>18. Lowest(G, label, u, L) /\ Added(G, label, Admissible, Admissible', u, L)
  BY <1>5, <1>13, <1>14, <1>16 DEF Lowest, Added
<1>19. /\ Down(G, label') /\ Sound(G, Admissible')
       /\ Lists(G, label, Admissible) => Lists(G, label', Admissible')
  <2>1. IsNetwork(G) /\ Down(G, label) /\ Sound(G, Admissible) /\ L \in Nat /\ Admissible \in [Node -> SUBSET Arc]
    BY <1>2, <1>3, <1>4, <1>11
  <2>2. label' = [label EXCEPT ![u] = L + 1]
    BY <1>5
  <2>3. u \in Node /\ label \in [Node -> Nat]
    BY <1>6
  <2>4. Raised(label, label', u, L)
    BY <2>2 DEF Raised
  <2>. QED BY <1>17, <1>18, <2>1, <2>3, <2>4, RelabelStep
<1>20. u \notin ToSet(Q)
  BY <1>4
<1>21. /\ Q' \in Seq(Inner) /\ Distinct(Q')
       /\ \A v : v \in ToSet(Q') <=> v \in ToSet(Q) \/ v = u
  BY <1>3, <1>4, <1>5, <1>20, AppendIs
<1>22. PreflowKept'
  <2>1. label'[s] = n /\ label'[t] = 0
    BY <1>3, <1>4, <1>5, <1>6, Ends
  <2>2. step = "discharge" /\ Active(u, G.delta)
    BY <1>1, <1>4, <1>5 DEF Active
  <2>3. \A v \in ToSet(Q') : v # hand'[1] /\ Active(v, G.delta)'
    <3>1. hand'[1] = NoNode
      BY <1>5 DEF NoHand
    <3>2. ASSUME NEW v \in ToSet(Q') PROVE v # NoNode /\ Active(v, G.delta)'
      <4>1. v \in Inner
        BY <1>21 DEF ToSet
      <4>2. Active(v, G.delta)
        BY <1>4, <1>21, <2>2
      <4>3. v \in 0 .. n /\ G'.delta = G.delta
        BY <1>5, <4>1, Sizes DEF Inner, Node
      <4>. QED BY <1>5, <4>2, <4>3, UndefAssumption DEF Active, Scaling, Div
    <3>. QED BY <3>1, <3>2
  <2>4. ~Scaling => \A v \in Inner : Div(v) > 0 => v \in ToSet(Q')
    BY <1>4, <1>21
  <2>. QED BY <1>1, <1>4, <1>5, <1>19, <1>21, <2>1, <2>3, <2>4 DEF PreflowKept, Scaling, Div
<1>. QED BY <1>1, <1>2, <1>5, <1>15, <1>17, <1>21, <1>22, PreflowMoves, KeptNet
(* The least of two or three numbers.                                        *)
LEMMA LeastOfFew ==
  ASSUME NEW x \in Int, NEW y \in Int, NEW z \in Int, NEW S, S = {x, y} \/ S = {x, y, z}
  PROVE  Min(S) \in S /\ \A j \in S : Min(S) <= j
<1>1. \E k \in S : \A j \in S : k <= j
  <2>1. CASE S = {x, y}
    <3>1. CASE x <= y
      BY <2>1, <3>1
    <3>2. CASE y <= x
      BY <2>1, <3>2
    <3>. QED BY <3>1, <3>2
  <2>2. CASE S = {x, y, z}
    <3>1. CASE x <= y /\ x <= z
      BY <2>2, <3>1
    <3>2. CASE y <= x /\ y <= z
      BY <2>2, <3>2
    <3>3. CASE z <= x /\ z <= y
      BY <2>2, <3>3
    <3>. QED BY <3>1, <3>2, <3>3
  <2>. QED BY <2>1, <2>2
<1>. QED BY <1>1 DEF Min

(* What a push moves when it takes place.                                    *)
LEMMA AmountIs ==
  ASSUME IsNetwork(G), NEW u \in Inner, NEW a \in Arc, Res(a) > 0, Div(u) > 0, ~TooSmall(u, a)
  PROVE  /\ Amount(u, a) \in Nat /\ Amount(u, a) <= Res(a) /\ Amount(u, a) <= Div(u)
         /\ ~Scaling => Amount(u, a) > 0
<1>. DEFINE v == EndNode(G, a)
            z == G.delta - Div(v)
            x == Amount(u, a)
<1>1. Res(a) \in Nat /\ Div(u) \in Int /\ z \in Int /\ G.delta \in Nat
  <2>1. \A w : Div(w) \in Int
    BY NetSingle DEF Div
  <2>2. G.delta \in Nat
    BY NetworkParts
  <2>3. Res(a) \in Nat
    BY NetworkArcs DEF Res
  <2>. QED BY <2>1, <2>2, <2>3
<1>. DEFINE S == {Res(a), Div(u)} \union (IF Scaling /\ v # t THEN {z} ELSE {})
<1>2. x = Min(S)
  BY DEF Amount
<1>3. Scaling => ~(2 * x < G.delta /\ x < Res(a))
  BY DEF TooSmall
<1>. HIDE DEF z, v, x
<1>4. CASE Scaling /\ v # t
  <2>1. S = {Res(a), Div(u), z}
    BY <1>4
  <2>. HIDE DEF S
  <2>2. x \in Int /\ x <= Res(a) /\ x <= Div(u)
    <3>1. Min(S) \in S /\ \A j \in S : Min(S) <= j
      BY <1>1, <2>1, LeastOfFew
    <3>. QED BY <1>1, <1>2, <2>1, <3>1
  <2>3. x >= 0
    BY <1>1, <1>3, <1>4, <2>2
  <2>. QED BY <1>4, <2>2, <2>3 DEF x
<1>5. CASE ~(Scaling /\ v # t)
  <2>1. S = {Res(a), Div(u)}
    BY <1>5
  <2>. HIDE DEF S
  <2>2. x \in {Res(a), Div(u)} /\ x <= Res(a) /\ x <= Div(u)
    <3>1. Min(S) \in S /\ \A j \in S : Min(S) <= j
      BY <1>1, <2>1, LeastOfFew
    <3>. QED BY <1>2, <2>1, <3>1
  <2>. QED BY <1>1, <2>2 DEF x
<1>. QED BY <1>4, <1>5

LEMMA PushKeeps ==
  ASSUME FlowInv, Push
  PROVE  FlowInv'
<1>. DEFINE u == hand[1]
<1>1. step = "discharge"
  BY DEF Push
<1>2. /\ proc = "PREFLOW" /\ Preflow /\ IsNetwork(G) /\ MinCut \in Nat
      /\ lower \in Int /\ upper \in Int /\ lower <= MinCut /\ MinCut <= upper
      /\ (~Scaling => G.delta = 0) /\ G.delta \in Nat /\ \A v : Div(v) \in Int
  BY <1>1, PreflowFacts
<1>3. Q \in Seq(Inner) /\ label \in [Node -> 0 .. 2 * n - 1] /\ Admissible \in [Node -> SUBSET Arc]
  BY DEF FlowInv, Types
<1>4. /\ label[s] = n /\ label[t] = 0 /\ Excess(G) /\ Div(t) >= 0
      /\ Down(G, label) /\ Sound(G, Admissible) /\ (~Scaling => Lists(G, label, Admissible))
      /\ Distinct(Q) /\ \A v \in ToSet(Q) : v # u /\ Active(v, G.delta)
      /\ ~Scaling => \A v \in Inner : Div(v) > 0 => v = u \/ v \in ToSet(Q)
      /\ u \in Inner /\ hand = <<u, hand[2]>> /\ hand[2] \in BOOLEAN
      /\ ~Scaling => hand[2]
      /\ Scaling /\ hand[2] => 2 * Div(u) >= G.delta
  BY <1>1, <1>2 DEF FlowInv, PreflowKept
<1>5. /\ methMXF' = methMXF /\ label' = label
      /\ proc' = proc /\ running' = running /\ val' = val /\ ret' = ret /\ dist' = dist /\ aux' = aux
      /\ Scaling' = Scaling
  BY DEF Push, Scaling
<1>6. Div(u) > 0
  BY DEF Push
<1>. DEFINE v(a) == EndNode(G, a)
            x(a) == Amount(u, a)
            exact(a) == label[u] = label[v(a)] + 1
            g(a) == Pushed(G, a, x(a))
            left(a) == [Admissible EXCEPT ![u] = @ \ {a}]
<1>7. PICK a \in Admissible[u] :
        IF ~exact(a) \/ TooSmall(u, a)
        THEN /\ Admissible' = left(a)
             /\ hand' = IF exact(a) THEN <<u, FALSE>> ELSE hand
             /\ UNCHANGED <<G, Q, timerVars, step>>
        ELSE /\ G' = g(a)
             /\ Q' = IF Activates(v(a), x(a)) THEN Append(Q, v(a)) ELSE Q
             /\ CASE v(a) = s -> SetUpperBound(-Divergence(g(a), s))
                  [] v(a) = t -> SetLowerBound(Divergence(g(a), t))
                  [] OTHER -> UNCHANGED timerVars
             /\ Admissible' = IF ResCap(g(a), a) > 0 THEN Admissible ELSE left(a)
             /\ IF Scaling /\ 2 * Divergence(g(a), u) < G.delta
                THEN hand' = <<u, FALSE>> /\ step' = "leave"
                ELSE UNCHANGED <<hand, step>>
  BY DEF Push
<1>8. u \in Node /\ u # s /\ u # t /\ label \in [Node -> Nat]
  BY <1>3, <1>4, Ends
<1>9. a \in Arc /\ StartNode(G, a) = u /\ Res(a) > 0
  BY <1>3, <1>4, <1>8 DEF Sound, Res
<1>10. v(a) \in Node /\ v(a) # u
  BY <1>2, <1>9, NetworkArcs
<1>11. CASE ~exact(a) \/ TooSmall(u, a)
  <2>1. /\ Admissible' = left(a) /\ G' = G /\ Q' = Q /\ lower' = lower /\ upper' = upper /\ step' = step
        /\ hand' = IF exact(a) THEN <<u, FALSE>> ELSE hand
    BY <1>7, <1>11 DEF timerVars
  <2>2. TooSmall(u, a) => Scaling
    BY DEF TooSmall
  <2>3. /\ Sound(G, left(a)) /\ left(a) \in [Node -> SUBSET Arc]
        /\ label[StartNode(G, a)] # label[EndNode(G, a)] + 1 =>
             (Lists(G, label, Admissible) => Lists(G, label, left(a)))
    <3>1. Dropped(Admissible, left(a), a, u)
      BY DEF Dropped
    <3>. HIDE DEF u, left
    <3>. QED BY <1>3, <1>4, <1>8, <3>1, DropStep
  <2>4. ~Scaling => Lists(G, label, left(a)) /\ hand'[2]
    BY <1>4, <1>9, <1>11, <2>1, <2>2, <2>3
  <2>5. hand'[1] = u /\ hand' = <<hand'[1], hand'[2]>> /\ hand'[2] \in BOOLEAN /\ (hand'[2] => hand[2])
    BY <1>4, <2>1
  <2>6. \A w \in ToSet(Q') : w # hand'[1] /\ Active(w, G.delta)'
    BY <1>4, <1>5, <2>1, <2>5 DEF Active, Scaling, Div
  <2>. HIDE DEF u, left, exact, v
  <2>7. PreflowKept'
    BY <1>1, <1>4, <1>5, <2>1, <2>3, <2>4, <2>5, <2>6 DEF PreflowKept, Div
  <2>. QED BY <1>1, <1>2, <1>3, <1>5, <2>1, <2>3, <2>7, PreflowMoves, KeptNet
<1>12. CASE exact(a) /\ ~TooSmall(u, a)
  <2>1. /\ G' = g(a)
        /\ Q' = IF Activates(v(a), x(a)) THEN Append(Q, v(a)) ELSE Q
        /\ Admissible' = IF ResCap(G', a) > 0 THEN Admissible ELSE left(a)
    BY <1>7, <1>12
  <2>21. IF Scaling /\ 2 * Divergence(G', u) < G.delta
         THEN hand' = <<u, FALSE>> /\ step' = "leave"
         ELSE hand' = hand /\ step' = step
    BY <1>7, <1>12
  <2>22. /\ v(a) = s => SetUpperBound(-Divergence(G', s))
         /\ v(a) = t => SetLowerBound(Divergence(G', t))
         /\ v(a) # s /\ v(a) # t => UNCHANGED timerVars
    BY <1>7, <1>12, Ends DEF SetUpperBound, SetLowerBound
  <2>2. x(a) \in Nat /\ x(a) <= Res(a) /\ x(a) <= Div(u) /\ (~Scaling => x(a) > 0)
    BY <1>2, <1>4, <1>6, <1>9, <1>12, AmountIs
  <2>. HIDE DEF u, x
  <2>3. IsNetwork(G') /\ SameNet(G, G') /\ G'.delta = G.delta
    BY <1>2, <1>9, <2>1, <2>2, PushedNet DEF Res
  <2>4. \A w : Divergence(G', w) = Divergence(G, w) + (IF w = v(a) THEN x(a) ELSE IF w = u THEN -x(a) ELSE 0)
    BY <1>2, <1>9, <2>1, <2>2, PushedDiv DEF Res
  <2>. DEFINE adm2 == IF ResCap(G', a) > 0 THEN Admissible ELSE left(a)
  <2>5. Admissible' = adm2
    BY <2>1
  <2>6. /\ Down(G', label) /\ Sound(G', Admissible') /\ Admissible' \in [Node -> SUBSET Arc]
        /\ Lists(G, label, Admissible) => Lists(G', label, Admissible')
    <3>1. /\ IsNetwork(G) /\ Down(G, label) /\ Sound(G, Admissible) /\ Admissible \in [Node -> SUBSET Arc]
          /\ label[u] = label[EndNode(G, a)] + 1 /\ x(a) <= ResCap(G, a)
      BY <1>2, <1>3, <1>4, <1>12, <2>2 DEF Res
    <3>2. G' = Pushed(G, a, x(a)) /\ Cleared(Admissible, Admissible', G', a, u)
      BY <2>1 DEF Cleared
    <3>. HIDE DEF v, g, exact, left, adm2
    <3>. QED BY <1>7, <1>8, <2>2, <3>1, <3>2, PushStep
  <2>. HIDE DEF adm2, left, g
  <2>7. Excess(G') /\ Divergence(G', t) >= 0
    <3>1. \A w \in Inner : Divergence(G', w) >= 0
      BY <1>2, <1>4, <2>2, <2>4 DEF Excess, Div
    <3>2. Divergence(G', t) >= 0
      BY <1>2, <1>4, <1>8, <2>2, <2>4 DEF Div
    <3>. QED BY <3>1, <3>2 DEF Excess
  <2>8. MinCutOf(G') = MinCut
    BY <2>3, MinCutSame DEF MinCut
  <2>9. lower' \in Int /\ upper' \in Int /\ lower' <= MinCut /\ MinCut <= upper'
    <3>1. CASE v(a) = s
      <4>1. SetUpperBound(-Divergence(G', s))
        BY <2>22, <3>1
      <4>2. PICK X : IsCut(X) /\ Closed(G', X)
        BY <1>4, <1>8, <2>3, <2>6, GapCut
      <4>3. MinCut <= -Divergence(G', s)
        BY <2>3, <2>7, <2>8, <4>2, ClosedCut DEF Excess
      <4>4. -Divergence(G', s) \in Int
        <5>1. Divergence(G', s) \in Int
          BY <2>3, NetSingle
        <5>. QED BY <5>1
      <4>. QED BY <1>2, <4>1, <4>3, <4>4, BoundStep
    <3>2. CASE v(a) = t
      <4>1. SetLowerBound(Divergence(G', t))
        BY <2>22, <3>2
      <4>2. Divergence(G', t) <= MinCut
        BY <2>3, <2>7, <2>8, FlowBelow DEF Excess
      <4>3. Divergence(G', t) \in Int
        BY <2>3, NetSingle
      <4>. QED BY <1>2, <4>1, <4>2, <4>3, BoundStep
    <3>3. CASE v(a) # s /\ v(a) # t
      <4>1. lower' = lower /\ upper' = upper
        BY <2>22, <3>3 DEF timerVars
      <4>. QED BY <1>2, <4>1
    <3>. QED BY <3>1, <3>2, <3>3
  <2>10. /\ Activates(v(a), x(a)) => v(a) \in Inner /\ v(a) \notin ToSet(Q)
         /\ Activates(v(a), x(a)) => IF Scaling THEN 2 * (Div(v(a)) + x(a)) >= G.delta ELSE Div(v(a)) = 0
    <3>1. ASSUME Activates(v(a), x(a)) PROVE v(a) \notin ToSet(Q)
      <4>1. ~Active(v(a), G.delta)
        BY <1>2, <3>1 DEF Activates, Active
      <4>. QED BY <1>4, <4>1
    <3>. QED BY <3>1 DEF Activates
  <2>11. /\ Q' \in Seq(Inner) /\ Distinct(Q')
         /\ \A w : w \in ToSet(Q') <=> w \in ToSet(Q) \/ (w = v(a) /\ Activates(v(a), x(a)))
    <3>1. CASE Activates(v(a), x(a))
      BY <1>3, <1>4, <2>1, <2>10, <3>1, AppendIs
    <3>2. CASE ~Activates(v(a), x(a))
      BY <1>3, <1>4, <2>1, <3>2
    <3>. QED BY <3>1, <3>2
  <2>12. hand'[1] = u /\ hand' = <<hand'[1], hand'[2]>> /\ hand'[2] \in BOOLEAN /\ (hand'[2] => hand[2])
    <3>1. CASE hand' = <<u, FALSE>>
      BY <3>1
    <3>2. CASE hand' = hand
      BY <1>4, <3>2 DEF u
    <3>. QED BY <2>21, <3>1, <3>2
  <2>13. ASSUME NEW w \in ToSet(Q') PROVE w # u /\ Active(w, G.delta)'
    <3>1. w # u
      BY <1>4, <1>10, <2>11, <2>13
    <3>2. Divergence(G', w) = Divergence(G, w) + (IF w = v(a) THEN x(a) ELSE 0)
      BY <1>2, <2>4, <3>1 DEF Div
    <3>3. Divergence(G, w) \in Int
      BY <1>2 DEF Div
    <3>4. IF Scaling THEN 2 * Divergence(G', w) >= G.delta ELSE Divergence(G', w) > 0
      <4>1. CASE w \in ToSet(Q)
        <5>1. IF Scaling THEN 2 * Divergence(G, w) >= G.delta ELSE Divergence(G, w) > 0
          BY <1>4, <4>1 DEF Active, Div
        <5>. QED BY <1>2, <2>2, <3>2, <3>3, <5>1
      <4>2. CASE w = v(a) /\ Activates(v(a), x(a))
        <5>1. IF Scaling THEN 2 * (Divergence(G, w) + x(a)) >= G.delta ELSE Divergence(G, w) = 0
          BY <2>10, <4>2 DEF Div
        <5>. QED BY <1>2, <2>2, <3>2, <3>3, <4>2, <5>1
      <4>. QED BY <2>11, <2>13, <4>1, <4>2
    <3>. QED BY <1>5, <2>3, <3>1, <3>4 DEF Active, Div, Scaling
  <2>14. ~Scaling => \A w \in Inner : Divergence(G', w) > 0 => w = u \/ w \in ToSet(Q')
    <3>. SUFFICES ASSUME ~Scaling, NEW w \in Inner, Divergence(G', w) > 0, w # u PROVE w \in ToSet(Q')
      OBVIOUS
    <3>1. CASE Div(w) > 0
      BY <1>4, <2>11, <3>1
    <3>2. CASE ~(Div(w) > 0)
      <4>1. Div(w) = 0
        BY <1>2, <1>4, <3>2 DEF Excess, Div
      <4>2. w = v(a)
        BY <2>4, <4>1 DEF Div
      <4>3. Activates(v(a), x(a))
        BY <4>1, <4>2 DEF Activates
      <4>. QED BY <2>11, <4>2, <4>3
    <3>. QED BY <3>1, <3>2
  <2>15. /\ step' \in {"discharge", "leave"}
         /\ step' = "leave" => Scaling /\ ~hand'[2]
         /\ ~Scaling => hand'[2]
         /\ step' = "discharge" /\ Scaling /\ hand'[2] => 2 * Divergence(G', u) >= G'.delta
    <3>1. Divergence(G', u) \in Int
      BY <2>3, NetSingle
    <3>2. CASE Scaling /\ 2 * Divergence(G', u) < G.delta
      <4>1. hand' = <<u, FALSE>> /\ step' = "leave"
        BY <2>21, <3>2
      <4>2. hand'[2] = FALSE
        BY <4>1
      <4>. QED BY <3>2, <4>1, <4>2
    <3>3. CASE ~(Scaling /\ 2 * Divergence(G', u) < G.delta)
      <4>1. hand' = hand /\ step' = "discharge"
        BY <1>1, <2>21, <3>3
      <4>2. Scaling => 2 * Divergence(G', u) >= G'.delta
        BY <1>2, <2>3, <3>1, <3>3
      <4>. QED BY <1>4, <4>1, <4>2
    <3>. QED BY <3>2, <3>3
  <2>. HIDE DEF v, exact
  <2>16. PreflowKept'
    BY <1>4, <1>5, <2>6, <2>7, <2>11, <2>12, <2>13, <2>14, <2>15 DEF PreflowKept, Div
  <2>. QED BY <1>1, <1>2, <1>3, <1>5, <2>3, <2>6, <2>9, <2>11, <2>15, <2>16, PreflowMoves
<1>. QED BY <1>11, <1>12
(* Another flow in the same network.                                         *)
LEMMA SubNet ==
  ASSUME NEW g, IsNetwork(g), NEW f \in [Edge -> Nat], \A e \in Edge : f[e] <= g.ucap[e]
  PROVE  LET h == [g EXCEPT !.sub = f] IN
         IsNetwork(h) /\ SameNet(g, h) /\ h.delta = g.delta /\ h.sub = f
<1>. DEFINE h == [g EXCEPT !.sub = f]
<1>1. g \in [ends : [Edge -> Node \X Node], orientation : [Edge -> {1}],
             ucap : [Edge -> 0 .. InfCap], sub : [Edge -> Nat], delta : Nat]
  BY DEF IsNetwork
<1>2. /\ h \in [ends : [Edge -> Node \X Node], orientation : [Edge -> {1}],
             ucap : [Edge -> 0 .. InfCap], sub : [Edge -> Nat], delta : Nat]
      /\ h.ends = g.ends /\ h.orientation = g.orientation /\ h.ucap = g.ucap /\ h.delta = g.delta /\ h.sub = f
  BY <1>1
<1>. HIDE DEF h
<1>3. IsNetwork(h)
  BY <1>2 DEF IsNetwork
<1>. QED BY <1>2, <1>3 DEF SameNet, h

LEMMA DivGrows ==
  ASSUME NEW g, IsNetwork(g), NEW h, IsNetwork(h), NEW v, \A e \in Edge : Term(g, {v}, e) <= Term(h, {v}, e)
  PROVE  Divergence(g, v) <= Divergence(h, v)
<1>1. /\ \A e \in Edge : Term(g, {v}, e) \in Int
      /\ \A e \in Edge : Term(h, {v}, e) \in Int
  BY NetTypes
<1>2. NetIn(g, {v}) = Divergence(g, v) /\ NetIn(h, {v}) = Divergence(h, v)
  BY NetSingle
<1>. DEFINE p == [e \in Edge |-> Term(g, {v}, e)]
            q == [e \in Edge |-> Term(h, {v}, e)]
<1>3. \A e \in 0 .. m - 1 : p[e] \in Int /\ q[e] \in Int /\ p[e] <= q[e]
  BY <1>1 DEF Edge
<1>4. NetIn(g, {v}) = SumBelow(p, m) /\ NetIn(h, {v}) = SumBelow(q, m)
  BY DEF NetIn
<1>. HIDE DEF p, q
<1>5. SumBelow(p, m) <= SumBelow(q, m)
  BY <1>3, Sizes, SumLe
<1>. QED BY <1>2, <1>4, <1>5

LEMMA DivSmall ==
  ASSUME NEW g, IsNetwork(g), NEW v
  PROVE  Divergence(g, v) <= InfFloat
<1>. DEFINE p == [e \in Edge |-> Term(g, {v}, e)]
<1>1. \A e \in Edge : Term(g, {v}, e) \in Int
  BY NetTypes
<1>2. NetIn(g, {v}) = Divergence(g, v) /\ NetIn(g, {v}) = SumBelow(p, m)
  BY NetSingle DEF NetIn
<1>3. /\ \A e \in Edge : g.sub[e] \in Nat /\ g.ucap[e] \in Nat /\ g.sub[e] <= g.ucap[e]
      /\ SumBelow(g.ucap, m) <= InfFloat
  BY NetworkParts
<1>4. \A e \in Edge : Term(g, {v}, e) <= g.ucap[e]
  BY <1>3 DEF Term
<1>5. \A e \in 0 .. m - 1 : p[e] \in Int /\ g.ucap[e] \in Int /\ p[e] <= g.ucap[e]
  BY <1>1, <1>3, <1>4 DEF Edge
<1>. HIDE DEF p
<1>6. SumBelow(p, m) <= SumBelow(g.ucap, m)
  BY <1>5, Sizes, SumLe
<1>7. SumBelow(g.ucap, m) \in Int /\ SumBelow(p, m) \in Int
  BY <1>5, Sizes, SumStep
<1>. QED BY <1>2, <1>3, <1>6, <1>7, Sizes

(* The arcs of s are saturated, except for infinite ones.                    *)
Saturated(h, out, f, g) ==
  /\ out = {a \in Incidences(h, s) : UCap(h, a) # InfCap}
  /\ f = [e \in Edge |-> IF 2 * e \in out THEN h.ucap[e] ELSE IF 2 * e + 1 \in out THEN 0 ELSE h.sub[e]]
  /\ g = [h EXCEPT !.sub = f]
LEMMA Saturation ==
  ASSUME IsNetwork(G), IsFlow(G), NEW out, NEW f, NEW g, Saturated(G, out, f, g)
  PROVE  /\ IsNetwork(g) /\ SameNet(G, g) /\ g.delta = G.delta
         /\ Excess(g) /\ Divergence(g, t) >= 0
         /\ out = Incidences(G, s) => \A a \in Arc : StartNode(g, a) = s => ResCap(g, a) = 0
<1>. USE DEF Saturated
<1>1. \A e \in Edge : /\ G.ends[e][1] \in Node /\ G.ends[e][2] \in Node /\ G.ends[e][1] # G.ends[e][2]
                      /\ G.sub[e] \in Nat /\ G.ucap[e] \in Nat /\ G.sub[e] <= G.ucap[e]
  BY NetworkParts
<1>2. \A e \in Edge : /\ 2 * e \in out <=> G.ends[e][1] = s /\ G.ucap[e] # InfCap
                      /\ 2 * e + 1 \in out <=> G.ends[e][2] = s /\ G.ucap[e] # InfCap
  <2>. TAKE e \in Edge
  <2>1. /\ 2 * e \in Arc /\ EdgeOf(2 * e) = e /\ ~Backward(2 * e)
        /\ 2 * e + 1 \in Arc /\ EdgeOf(2 * e + 1) = e /\ Backward(2 * e + 1)
    BY EdgeArcs
  <2>2. StartNode(G, 2 * e) = G.ends[e][1] /\ StartNode(G, 2 * e + 1) = G.ends[e][2]
    BY <2>1 DEF StartNode
  <2>3. UCap(G, 2 * e) = G.ucap[e] /\ UCap(G, 2 * e + 1) = G.ucap[e]
    BY <2>1 DEF UCap
  <2>. QED BY <2>1, <2>2, <2>3 DEF Incidences
<1>3. \A e \in Edge : f[e] \in Nat /\ f[e] <= G.ucap[e]
  <2>. TAKE e \in Edge
  <2>1. f[e] = G.ucap[e] \/ f[e] = 0 \/ f[e] = G.sub[e]
    OBVIOUS
  <2>. QED BY <1>1, <2>1
<1>4. f \in [Edge -> Nat]
  BY <1>3
<1>5. IsNetwork(g) /\ SameNet(G, g) /\ g.delta = G.delta /\ g.sub = f
  BY <1>3, <1>4, SubNet
<1>6. ASSUME NEW v \in Node, v # s PROVE Divergence(g, v) >= Divergence(G, v)
  <2>1. ASSUME NEW e \in Edge PROVE Term(G, {v}, e) <= Term(g, {v}, e)
    <3>1. g.ends = G.ends
      BY <1>5 DEF SameNet
    <3>2. CASE G.ends[e][1] = s
      <4>1. G.ends[e][1] # v /\ G.sub[e] <= f[e] /\ f[e] \in Nat /\ G.sub[e] \in Nat
        BY <1>1, <1>2, <1>3, <1>6, <3>2
      <4>. QED BY <1>5, <3>1, <4>1 DEF Term
    <3>3. CASE G.ends[e][1] # s
      <4>1. f[e] = G.sub[e]
        BY <1>2, <3>3 DEF IsFlow
      <4>2. Term(g, {v}, e) = Term(G, {v}, e)
        BY <1>5, <3>1, <4>1 DEF Term
      <4>3. Term(G, {v}, e) \in Int
        BY NetTypes
      <4>. QED BY <4>2, <4>3
    <3>. QED BY <3>2, <3>3
  <2>2. Divergence(G, v) <= Divergence(g, v)
    BY <1>5, <2>1, DivGrows
  <2>3. Divergence(G, v) \in Int /\ Divergence(g, v) \in Int
    BY <1>5, NetSingle
  <2>. QED BY <2>2, <2>3
<1>7. Excess(g) /\ Divergence(g, t) >= 0
  <2>1. \A v \in Inner : Divergence(G, v) = 0 /\ v \in Node /\ v # s
    BY Ends DEF IsFlow
  <2>2. Divergence(G, t) \in Nat /\ t \in Node /\ t # s
    BY SourceFlow, Ends
  <2>3. \A v \in Inner : Divergence(g, v) >= 0
    BY <1>6, <2>1
  <2>4. Divergence(g, t) >= Divergence(G, t) /\ Divergence(g, t) \in Int
    BY <1>5, <1>6, <2>2, NetSingle
  <2>. QED BY <2>2, <2>3, <2>4 DEF Excess
<1>8. ASSUME out = Incidences(G, s), NEW a \in Arc, StartNode(g, a) = s PROVE ResCap(g, a) = 0
  <2>. DEFINE e == EdgeOf(a)
  <2>1. e \in Edge /\ a = 2 * e + (IF Backward(a) THEN 1 ELSE 0)
    BY ArcFacts
  <2>2. StartNode(G, a) = s
    BY <1>5, <1>8, SameNetArcs
  <2>3. a \in out
    BY <1>8, <2>2 DEF Incidences
  <2>4. g.ucap = G.ucap /\ g.sub = f
    BY <1>5 DEF SameNet
  <2>5. CASE Backward(a)
    <3>0. ResCap(g, a) = g.sub[e] /\ StartNode(G, a) = G.ends[e][2]
      BY <1>5, <2>5, NetworkArcs
    <3>1. ResCap(g, a) = f[e] /\ a = 2 * e + 1 /\ G.ends[e][2] = s
      BY <2>1, <2>2, <2>4, <2>5, <3>0
    <3>2. G.ends[e][1] # s
      BY <1>1, <2>1, <3>1
    <3>3. f[e] = 0
      BY <1>2, <2>1, <2>3, <3>1, <3>2
    <3>. QED BY <3>1, <3>3
  <2>6. CASE ~Backward(a)
    <3>0. ResCap(g, a) = g.ucap[e] - g.sub[e]
      BY <2>6 DEF ResCap, UCap, Sub
    <3>. HIDE DEF e
    <3>1. ResCap(g, a) = G.ucap[e] - f[e] /\ a = 2 * e
      <4>1. a = 2 * e + 0 /\ e \in Int
        BY <2>1, <2>6 DEF Edge
      <4>. QED BY <2>4, <3>0, <4>1
    <3>2. f[e] = G.ucap[e]
      BY <2>1, <2>3, <3>1
    <3>3. G.ucap[e] \in Nat
      BY <1>1, <2>1
    <3>. QED BY <3>1, <3>2, <3>3
  <2>. QED BY <2>5, <2>6
<1>. QED BY <1>5, <1>7, <1>8
LEMMA EnterPreflowKeeps ==
  ASSUME FlowInv, EnterPreflow
  PROVE  FlowInv'
<1>. DEFINE out == {a \in Incidences(G, s) : UCap(G, a) # InfCap}
            f == [e \in Edge |-> IF 2 * e \in out THEN G.ucap[e]
                                 ELSE IF 2 * e + 1 \in out THEN 0 ELSE G.sub[e]]
            g == [G EXCEPT !.sub = f]
            D == {0} \union {Divergence(g, v) : v \in Inner}
            d == Greatest(D)
            y == IF Scaling THEN d ELSE g.delta
            S == {v \in Inner : IF Scaling THEN 2 * Divergence(g, v) >= d ELSE Divergence(g, v) > 0}
<1>1. step = "call" /\ proc = "PREFLOW"
  BY DEF EnterPreflow
<1>2. /\ IsNetwork(G) /\ IsFlow(G) /\ G.delta = 0 /\ label = [v \in Node |-> 0] /\ Q = <<>> /\ hand = NoHand
      /\ Admissible = [v \in Node |-> {}] /\ ret = 0
  BY <1>1 DEF FlowInv, Types, Called, Steps
<1>3. /\ G' = [g EXCEPT !.delta = y]
      /\ Q' = InOrder(NodeOrder, S)
      /\ lower' = Divergence(g, t) /\ upper' = -Divergence(g, s)
      /\ step' = IF out = Incidences(G, s) THEN "select" ELSE "unbounded"
  BY DEF EnterPreflow
<1>4. /\ label' = [label EXCEPT ![s] = n]
      /\ methMXF' = methMXF /\ proc' = proc /\ running' = running /\ val' = val /\ ret' = ret /\ dist' = dist
      /\ aux' = aux /\ Admissible' = Admissible /\ hand' = hand /\ Scaling' = Scaling
  BY DEF EnterPreflow, Scaling
<1>5. /\ IsNetwork(g) /\ SameNet(G, g) /\ g.delta = G.delta
      /\ Excess(g) /\ Divergence(g, t) >= 0
      /\ out = Incidences(G, s) => \A a \in Arc : StartNode(g, a) = s => ResCap(g, a) = 0
  <2>. DEFINE out2 == {a \in Incidences(G, s) : UCap(G, a) # InfCap}
              f2 == [e \in Edge |-> IF 2 * e \in out2 THEN G.ucap[e]
                                     ELSE IF 2 * e + 1 \in out2 THEN 0 ELSE G.sub[e]]
              g2 == [G EXCEPT !.sub = f2]
  <2>1. Saturated(G, out2, f2, g2)
    BY DEF Saturated
  <2>. HIDE DEF out2, f2, g2
  <2>2. /\ IsNetwork(g2) /\ SameNet(G, g2) /\ g2.delta = G.delta
        /\ Excess(g2) /\ Divergence(g2, t) >= 0
        /\ out2 = Incidences(G, s) => \A a \in Arc : StartNode(g2, a) = s => ResCap(g2, a) = 0
    BY <1>2, <2>1, Saturation
  <2>. QED BY <2>2 DEF out2, f2, g2
<1>6. out # Incidences(G, s) => Infinite
  <2>. SUFFICES ASSUME NEW a \in Incidences(G, s), UCap(G, a) = InfCap PROVE Infinite
    OBVIOUS
  <2>1. EdgeOf(a) \in Edge
    BY ArcFacts DEF Incidences
  <2>. QED BY <2>1 DEF UCap, Infinite
<1>. HIDE DEF out, f, g
<1>7. d \in D /\ \A x \in D : d >= x
  <2>1. \A v : Divergence(g, v) \in Int /\ Divergence(g, v) <= InfFloat
    BY <1>5, NetSingle, DivSmall
  <2>2. D \in SUBSET Int /\ D # {} /\ \A x \in D : x <= InfFloat
    BY <2>1, Sizes
  <2>3. InfFloat \in Int
    BY Sizes
  <2>. HIDE DEF D
  <2>. QED BY <2>2, <2>3, GreatestIs
<1>8. d \in Nat
  <2>1. d \in Int
    <3>1. \A v : Divergence(g, v) \in Int
      BY <1>5, NetSingle
    <3>. HIDE DEF d
    <3>. QED BY <1>7, <3>1
  <2>2. d >= 0
    BY <1>7
  <2>. HIDE DEF d
  <2>. QED BY <2>1, <2>2
<1>9. y \in Nat
  BY <1>2, <1>5, <1>8
<1>. HIDE DEF d, D
<1>10. /\ IsNetwork(G') /\ SameNet(g, G') /\ G'.delta = y /\ G'.sub = g.sub
       /\ \A a : ResCap(G', a) = ResCap(g, a)
       /\ \A v : Divergence(G', v) = Divergence(g, v)
  <2>. HIDE DEF y
  <2>. QED BY <1>3, <1>5, <1>9, DeltaNet
<1>11. /\ Q' \in Seq(Node) /\ Distinct(Q')
       /\ \A v : v \in ToSet(Q') <=> v \in Node /\ v \in S
  <2>. HIDE DEF S
  <2>. QED BY <1>3, NodeOrderIs, InOrderIs
<1>12. Q' \in Seq(Inner)
  <2>1. \A i \in DOMAIN Q' : Q'[i] \in ToSet(Q')
    BY DEF ToSet
  <2>2. \A i \in DOMAIN Q' : Q'[i] \in Inner
    BY <1>11, <2>1
  <2>. HIDE DEF S
  <2>. QED BY <1>11, <2>2
<1>13. /\ label' \in [Node -> 0 .. 2 * n - 1] /\ label'[s] = n /\ label'[t] = 0
       /\ \A v \in Node : v # s => label'[v] = 0
  <2>1. n \in 0 .. 2 * n - 1 /\ 0 \in 0 .. 2 * n - 1
    BY Sizes
  <2>. QED BY <1>2, <1>4, <2>1, Ends
<1>14. lower' \in Int /\ upper' \in Int
  <2>1. Divergence(g, t) \in Int /\ Divergence(g, s) \in Int
    BY <1>5, NetSingle
  <2>. QED BY <1>3, <2>1
<1>15. Types'
  BY <1>2, <1>4, <1>10, <1>12, <1>13, <1>14 DEF FlowInv, Types
<1>16. step' \in {"select", "unbounded"} /\ (step' = "unbounded" => Infinite) /\ (step' = "select" => out = Incidences(G, s))
  BY <1>3, <1>6
<1>17. Steps' /\ Called' /\ PathFlow' /\ Layers'
  BY <1>1, <1>2, <1>4, <1>5, <1>10, <1>16 DEF Steps, Called, PathFlow, Layers
<1>18. PreflowEnd'
  <2>1. G'.ucap = G.ucap
    BY <1>5, <1>10 DEF SameNet
  <2>. QED BY <1>16, <2>1 DEF PreflowEnd, Infinite
<1>19. Excess(G') /\ Divergence(G', t) >= 0
  BY <1>5, <1>10 DEF Excess
<1>20. ASSUME step' = "select" PROVE Down(G', label') /\ Lists(G', label', Admissible') /\ Sound(G', Admissible')
  <2>1. \A a \in Arc : StartNode(G', a) = s => ResCap(G', a) = 0
    BY <1>5, <1>10, <1>16, <1>20, SameNetArcs
  <2>2. \A a \in Arc : StartNode(G', a) \in Node /\ EndNode(G', a) \in Node
    BY <1>10, NetworkArcs
  <2>3. ASSUME NEW a \in Arc, ResCap(G', a) > 0 PROVE label'[StartNode(G', a)] < label'[EndNode(G', a)] + 1
    <3>1. StartNode(G', a) # s
      BY <2>1, <2>3
    <3>2. label'[StartNode(G', a)] = 0 /\ label'[EndNode(G', a)] \in Nat
      BY <1>13, <2>2, <3>1
    <3>. QED BY <3>2
  <2>4. \A a \in Arc : label'[StartNode(G', a)] \in Nat /\ label'[EndNode(G', a)] \in Nat
    BY <1>13, <2>2
  <2>5. Down(G', label') /\ Lists(G', label', Admissible')
    BY <2>3, <2>4 DEF Down, Lists
  <2>. QED BY <1>2, <1>4, <2>5 DEF Sound
<1>21. Bounds'
  <2>. SUFFICES ASSUME step' = "select" PROVE lower' <= MinCutOf(G') /\ MinCutOf(G') <= upper'
    BY <1>16 DEF Bounds, MinCut
  <2>1. Down(G', label') /\ label' \in [Node -> Nat]
    BY <1>13, <1>20
  <2>2. PICK X : IsCut(X) /\ Closed(G', X)
    BY <1>10, <1>13, <2>1, GapCut
  <2>3. MinCutOf(G') <= -Divergence(G', s)
    BY <1>10, <1>19, <2>2, ClosedCut DEF Excess
  <2>4. Divergence(G', t) <= MinCutOf(G')
    BY <1>10, <1>19, FlowBelow DEF Excess
  <2>. QED BY <1>3, <1>10, <2>3, <2>4
<1>22. PreflowKept'
  <2>. SUFFICES ASSUME step' = "select" PROVE PreflowKept'
    BY <1>16 DEF PreflowKept, Preflow
  <2>1. hand' = NoHand /\ hand'[1] = NoNode
    BY <1>2, <1>4 DEF NoHand
  <2>2. \A v \in ToSet(Q') : v # hand'[1] /\ Active(v, G.delta)'
    <3>1. ASSUME NEW v \in ToSet(Q') PROVE v # NoNode /\ Active(v, G.delta)'
      <4>1. v \in Inner /\ v \in S
        BY <1>11
      <4>2. IF Scaling THEN 2 * Divergence(G', v) >= G'.delta ELSE Divergence(G', v) > 0
        BY <1>10, <4>1
      <4>3. v \in 0 .. n
        BY <4>1, Sizes DEF Inner, Node
      <4>. QED BY <1>4, <4>2, <4>3, UndefAssumption DEF Active, Scaling, Div
    <3>. QED BY <2>1, <3>1
  <2>3. ~Scaling => \A v \in Inner : Divergence(G', v) > 0 => v \in ToSet(Q')
    BY <1>10, <1>11, Ends
  <2>. HIDE DEF S, y
  <2>. QED BY <1>4, <1>11, <1>13, <1>19, <1>20, <2>1, <2>2, <2>3 DEF PreflowKept, Div
<1>. QED BY <1>15, <1>17, <1>18, <1>21, <1>22 DEF FlowInv
LEMMA LeavePreflowKeeps ==
  ASSUME FlowInv, LeavePreflow
  PROVE  FlowInv'
<1>1. step = "select" /\ step' = "check" /\ Q = <<>>
  BY DEF LeavePreflow
<1>2. /\ proc = "PREFLOW" /\ Preflow /\ IsNetwork(G) /\ MinCut \in Nat
      /\ lower \in Int /\ upper \in Int /\ lower <= MinCut /\ MinCut <= upper
      /\ (~Scaling => G.delta = 0) /\ G.delta \in Nat /\ \A v : Div(v) \in Int
  BY <1>1, PreflowFacts
<1>3. label \in [Node -> 0 .. 2 * n - 1]
  BY DEF FlowInv, Types
<1>4. /\ label[s] = n /\ label[t] = 0 /\ Excess(G) /\ Div(t) >= 0 /\ Down(G, label)
      /\ ~Scaling => \A v \in Inner : Div(v) > 0 => v = hand[1] \/ v \in ToSet(Q)
      /\ hand = NoHand
  BY <1>1, <1>2 DEF FlowInv, PreflowKept
<1>5. /\ G' = G /\ label' = label /\ Admissible' = Admissible /\ methMXF' = methMXF /\ Q' = Q /\ hand' = hand
      /\ proc' = proc /\ running' = running /\ val' = val /\ aux' = aux
      /\ lower' = lower /\ upper' = upper /\ ret' = Div(t) /\ dist' = Labels(G.delta) /\ Scaling' = Scaling
  BY DEF LeavePreflow, timerVars, preflowVars, Scaling
<1>6. Layered(dist')
  BY <1>2, <1>5, LabelsFacts
<1>7. Div(t) \in Nat
  BY <1>2, <1>4
<1>8. Types'
  BY <1>5, <1>6, <1>7 DEF FlowInv, Types, Layered
<1>9. ret' # ERRange
  BY <1>5, <1>7 DEF ERRange
<1>10. Steps' /\ Called' /\ PathFlow' /\ Layers' /\ PreflowKept'
  BY <1>1, <1>2, <1>5 DEF Steps, Called, PathFlow, Layers, PreflowKept, Preflow
<1>11. Bounds'
  BY <1>2, <1>5 DEF Bounds, MinCut
<1>12. PICK X : IsCut(X) /\ Closed(G, X)
  BY <1>2, <1>3, <1>4, GapCut
<1>13. Div(t) <= MinCut /\ (Balanced => Div(t) = MinCut)
  <2>1. Div(t) <= MinCut
    BY <1>2, <1>4, FlowBelow DEF Div, MinCut, Excess
  <2>2. Balanced => Div(t) = MinCut
    BY <1>2, <1>12, FlowIsCut DEF Div, MinCut, Balanced
  <2>. QED BY <2>1, <2>2
<1>14. ~Scaling => Balanced /\ Shown'
  <2>. SUFFICES ASSUME ~Scaling PROVE Balanced /\ Shown'
    OBVIOUS
  <2>1. ASSUME NEW v \in Inner PROVE Div(v) = 0
    <3>1. ~(Div(v) > 0)
      <4>1. hand[1] = NoNode /\ ToSet(Q) = {}
        BY <1>1, <1>4 DEF NoHand, ToSet
      <4>2. v \in 0 .. n
        BY Sizes DEF Inner, Node
      <4>. QED BY <1>4, <4>1, <4>2, UndefAssumption
    <3>. QED BY <1>2, <1>4, <3>1 DEF Excess, Div
  <2>2. dist' = Labels(0)
    BY <1>2, <1>5
  <2>3. dist'[t] = InfFloat
    BY <1>2, <1>12, <2>2, LabelsWithin DEF IsCut
  <2>4. \A a \in Arc : dist'[StartNode(G, a)] # InfFloat /\ Res(a) > 0 => dist'[EndNode(G, a)] # InfFloat
    BY <1>2, <2>2, <2>3, LabelsFacts
  <2>5. Finite(dist') \in SUBSET Node /\ s \in Finite(dist') /\ t \notin Finite(dist')
    BY <1>6, <2>3, Sizes, Ends DEF Finite, Layered
  <2>6. Closed(G, Finite(dist'))
    <3>1. \A a \in Arc : EndNode(G, a) \in Node
      BY <1>2, NetworkArcs
    <3>. QED BY <2>4, <3>1 DEF Closed, Finite, Res
  <2>. QED BY <1>5, <1>6, <2>1, <2>5, <2>6 DEF Balanced, Shown, IsCut
<1>15. PreflowEnd'
  <2>1. Div(t)' = Div(t) /\ MinCut' = MinCut /\ Balanced' = Balanced
    BY <1>5 DEF Div, MinCut, Balanced
  <2>. QED BY <1>1, <1>5, <1>7, <1>13, <1>14, <2>1 DEF PreflowEnd
<1>. QED BY <1>8, <1>10, <1>11, <1>15 DEF FlowInv

LEMMA UnboundedKeeps ==
  ASSUME FlowInv, Unbounded
  PROVE  FlowInv'
<1>1. step = "unbounded" /\ step' = "done" /\ ret' = ERRange
  BY DEF Unbounded
<1>2. proc = "PREFLOW" /\ Infinite
  <2>1. proc = "PREFLOW"
    BY <1>1 DEF FlowInv, Steps
  <2>. QED BY <1>1, <2>1 DEF FlowInv, PreflowEnd
<1>3. /\ G' = G /\ label' = label /\ Admissible' = Admissible /\ methMXF' = methMXF /\ Q' = Q /\ hand' = hand
      /\ proc' = proc /\ running' = running /\ val' = val /\ aux' = aux /\ dist' = dist
      /\ lower' = lower /\ upper' = upper
  BY DEF Unbounded, timerVars, preflowVars
<1>4. Types'
  BY <1>1, <1>3 DEF FlowInv, Types
<1>5. Steps'
  BY <1>1, <1>2, <1>3 DEF FlowInv, Steps, Scaling
<1>6. Called' /\ PathFlow' /\ Layers' /\ PreflowKept' /\ Bounds'
  BY <1>1, <1>2, <1>3 DEF Called, PathFlow, Layers, PreflowKept, Preflow, Bounds, ERRange
<1>7. PreflowEnd'
  BY <1>1, <1>2, <1>3 DEF PreflowEnd, Infinite
<1>. QED BY <1>4, <1>5, <1>6, <1>7 DEF FlowInv

(* The cut that the labels show has the capacity that reaches t.             *)
LEMMA ShownCut ==
  ASSUME IsNetwork(G), Shown, Balanced
  PROVE  CutCapacity = Div(t) /\ Div(t) = MinCut
<1>1. CutCapacity = CutCap(G, Finite(dist))
  BY CutCapacityIs DEF Shown
<1>2. Divergence(G, t) = MinCutOf(G) /\ CutCap(G, Finite(dist)) = Divergence(G, t)
  BY FlowIsCut DEF Shown, Balanced, Div
<1>. QED BY <1>1, <1>2 DEF Div, MinCut

(* What the methods that keep a flow show for it.                            *)
LEMMA CarriesFlow ==
  ASSUME IsNetwork(G), NEW y \in Nat, NEW w, Carries(G, y, w, 0)
  PROVE  /\ Balanced /\ Div(t) = y /\ y <= MinCut /\ MinCut \in Nat
         /\ \A v \in Inner : Divergence(G, v) = 0
<1>1. \A v \in Node \ {s} : Divergence(G, v) = IF v = t THEN y ELSE 0
  BY DEF Carries
<1>2. \A v \in Inner : Divergence(G, v) = 0
  BY <1>1, Ends
<1>3. Divergence(G, t) = y
  BY <1>1, Ends
<1>4. Divergence(G, t) <= MinCutOf(G)
  BY <1>2, FlowBelow
<1>5. MinCutOf(G) \in Nat
  BY MinCutFacts
<1>. QED BY <1>2, <1>3, <1>4, <1>5 DEF Balanced, Div, MinCut

LEMMA CheckKeeps ==
  ASSUME FlowInv, Check
  PROVE  FlowInv'
<1>1. step = "check" /\ step' = "done"
  BY DEF Check
<1>2. /\ G' = G /\ label' = label /\ Admissible' = Admissible /\ methMXF' = methMXF /\ Q' = Q /\ hand' = hand
      /\ proc' = proc /\ running' = running /\ val' = val /\ aux' = aux /\ dist' = dist
      /\ lower' = lower /\ upper' = upper
  BY DEF Check, timerVars, preflowVars
<1>3. IsNetwork(G) /\ val \in Nat /\ ret \in Nat \union {ERRange, ERInternal} /\ running \in BOOLEAN
  BY DEF FlowInv, Types
<1>4. ret' = ret \/ (ret' = ERInternal /\ ret # InfCap /\ ~(Balanced /\ CutCapacity = Div(t)))
  BY DEF Check
<1>5. /\ Div(t)' = Div(t) /\ MinCut' = MinCut /\ Balanced' = Balanced /\ Scaling' = Scaling /\ Infinite' = Infinite
      /\ Shown' = Shown
  BY <1>2 DEF Div, MinCut, Balanced, Scaling, Infinite, Shown
<1>6. Types'
  BY <1>2, <1>4 DEF FlowInv, Types
<1>7. Steps'
  BY <1>1, <1>2 DEF FlowInv, Steps, Scaling
<1>8. Called' /\ Layers' /\ PreflowKept'
  BY <1>1 DEF Called, Layers, PreflowKept, Preflow
<1>9. CASE proc = "PREFLOW"
  <2>1. /\ ret = Div(t) /\ Div(t) >= 0 /\ Div(t) <= MinCut /\ (Balanced => Div(t) = MinCut)
        /\ ~Scaling => Balanced /\ Shown
    BY <1>1, <1>9 DEF FlowInv, PreflowEnd
  <2>2. ret # ERRange
    BY <2>1 DEF ERRange
  <2>3. Bounds'
    BY <1>1, <1>2, <1>5, <2>2 DEF FlowInv, Bounds
  <2>4. ret' = ret \/ (ret' = ERInternal /\ Scaling)
    BY <1>3, <1>4, <2>1, ShownCut
  <2>5. PreflowEnd'
    BY <1>1, <1>5, <2>1, <2>4 DEF PreflowEnd
  <2>6. PathFlow'
    BY <1>2, <1>9 DEF PathFlow
  <2>. QED BY <1>6, <1>7, <1>8, <2>3, <2>5, <2>6 DEF FlowInv
<1>10. CASE proc # "PREFLOW"
  <2>1. Carries(G, val, s, 0) /\ PathEnd
    BY <1>1, <1>10 DEF FlowInv, PathFlow
  <2>2. ret # ERRange
    BY <1>3, <2>1, Sizes DEF PathEnd, ERRange
  <2>3. Bounds'
    BY <1>1, <1>2, <1>5, <2>2 DEF FlowInv, Bounds
  <2>4. Balanced
    BY <1>3, <2>1, CarriesFlow
  <2>5. ret' = ret \/ (ret' = ERInternal /\ ~running)
    <3>. SUFFICES ASSUME ret' # ret, running PROVE FALSE
      BY <1>4
    <3>1. ret # InfCap /\ ~(Balanced /\ CutCapacity = Div(t))
      BY <1>4
    <3>2. Shown
      BY <2>1, <3>1 DEF PathEnd
    <3>. QED BY <1>3, <2>4, <3>1, <3>2, ShownCut
  <2>6. PathFlow'
    BY <1>1, <1>2, <1>5, <2>1, <2>5 DEF PathFlow, PathEnd, Carries
  <2>7. PreflowEnd'
    BY <1>2, <1>10 DEF PreflowEnd
  <2>. QED BY <1>6, <1>7, <1>8, <2>3, <2>6, <2>7 DEF FlowInv
<1>. QED BY <1>9, <1>10

LEMMA StopKeeps ==
  ASSUME FlowInv, Stop
  PROVE  FlowInv'
<1>1. /\ G' = G /\ label' = label /\ Admissible' = Admissible /\ methMXF' = methMXF /\ Q' = Q /\ hand' = hand
      /\ proc' = proc /\ running' = FALSE /\ val' = val /\ aux' = aux /\ dist' = dist
      /\ lower' = lower /\ upper' = upper /\ step' = step /\ ret' = ret /\ proc # "PREFLOW"
  BY DEF Stop, timerVars, preflowVars
<1>2. Types' /\ Steps' /\ Called' /\ Bounds' /\ Layers'
  BY <1>1 DEF FlowInv, Types, Steps, Called, Bounds, Layers, Scaling, MinCut
<1>3. PathFlow'
  BY <1>1 DEF FlowInv, PathFlow, PathEnd, MinCut
<1>4. PreflowKept' /\ PreflowEnd'
  BY <1>1 DEF PreflowKept, Preflow, PreflowEnd
<1>. QED BY <1>2, <1>3, <1>4 DEF FlowInv
(* What is left to show for a step of the methods that keep a flow.          *)
LEMMA PathMoves ==
  ASSUME FlowInv, proc # "PREFLOW", proc' = proc, methMXF' = methMXF, running' = running,
         UNCHANGED preflowVars,
         step' \in {"check", "report"} \union (IF proc = "DINIC" THEN {"layers", "block", "push"} ELSE {"search"}),
         IsNetwork(G'), SameNet(G, G'), proc \in {"SAP", "DINIC"} => G'.delta = 0,
         val' \in Nat, ret' \in Nat, step' # "check" => ret' = 0,
         dist' \in [Node -> 0 .. n \union {InfFloat}], aux' \in AuxTypes,
         lower' \in Int, upper' \in Int, lower' <= MinCut, MinCut <= upper',
         PathFlow', Layers'
  PROVE  FlowInv'
<1>1. label' = label /\ Q' = Q /\ Admissible' = Admissible
  BY DEF preflowVars
<1>2. Types'
  BY <1>1 DEF FlowInv, Types
<1>3. Steps'
  BY DEF FlowInv, Types, Steps
<1>4. MinCut' = MinCut
  BY MinCutSame DEF MinCut
<1>5. Bounds'
  BY <1>4 DEF Bounds
<1>6. Called' /\ PreflowKept' /\ PreflowEnd'
  BY DEF Called, PreflowKept, Preflow, PreflowEnd
<1>. QED BY <1>2, <1>3, <1>5, <1>6 DEF FlowInv

LEMMA PathFacts ==
  ASSUME FlowInv, step \in {"search", "report", "layers", "block", "push"}
  PROVE  /\ proc # "PREFLOW" /\ IsNetwork(G) /\ ret = 0 /\ MinCut \in Nat /\ val \in Nat /\ G.delta \in Nat
         /\ lower \in Int /\ upper \in Int /\ lower <= MinCut /\ MinCut <= upper
         /\ proc \in {"SAP", "DINIC"} => G.delta = 0
         /\ dist \in [Node -> 0 .. n \union {InfFloat}] /\ aux \in AuxTypes
         /\ proc \in {"SAP", "SAP_SCALE", "DINIC"} /\ running \in BOOLEAN
         /\ step # "push" => Carries(G, val, s, 0)
         /\ step \in {"layers", "block", "push"} => proc = "DINIC"
         /\ step = "search" => proc # "DINIC"
<1>1. IsNetwork(G) /\ lower \in Int /\ upper \in Int /\ val \in Nat /\ dist \in [Node -> 0 .. n \union {InfFloat}]
      /\ aux \in AuxTypes /\ proc \in {"SAP", "SAP_SCALE", "DINIC", "PREFLOW"} /\ running \in BOOLEAN
  BY DEF FlowInv, Types
<1>2. /\ proc # "PREFLOW" /\ ret = 0 /\ (proc \in {"SAP", "DINIC"} => G.delta = 0)
      /\ step \in {"layers", "block", "push"} => proc = "DINIC"
      /\ step = "search" => proc # "DINIC"
  BY <1>1 DEF FlowInv, Steps
<1>3. MinCut \in Nat /\ G.delta \in Nat
  BY <1>1, MinCutFacts, NetworkParts DEF MinCut
<1>4. lower <= MinCut /\ MinCut <= upper
  BY <1>2 DEF FlowInv, Bounds, ERRange
<1>5. step # "push" => Carries(G, val, s, 0)
  BY <1>2 DEF FlowInv, PathFlow
<1>. QED BY <1>1, <1>2, <1>3, <1>4, <1>5

(* The flow is carried on if the divergences stay.                           *)
LEMMA CarriesOn ==
  ASSUME NEW g, NEW h, NEW y, NEW w, NEW x, Carries(g, y, w, x), \A v : Divergence(h, v) = Divergence(g, v)
  PROVE  Carries(h, y, w, x)
BY DEF Carries

LEMMA EnterPathsKeeps ==
  ASSUME FlowInv, EnterPaths
  PROVE  FlowInv'
<1>1. step = "call" /\ proc \in {"SAP", "SAP_SCALE", "DINIC"} /\ proc # "PREFLOW"
  BY DEF EnterPaths
<1>2. /\ IsNetwork(G) /\ IsFlow(G) /\ G.delta = 0 /\ ret = 0 /\ lower = -InfFloat /\ upper = InfFloat
      /\ dist \in [Node -> 0 .. n \union {InfFloat}] /\ aux \in AuxTypes
  BY <1>1 DEF FlowInv, Types, Called, Steps
<1>3. /\ methMXF' = methMXF /\ proc' = proc /\ running' = running /\ dist' = dist
      /\ aux' = aux /\ ret' = ret /\ UNCHANGED preflowVars
  BY DEF EnterPaths
<1>4. val' = FlowAtSource /\ SetLowerBound(val')
  BY DEF EnterPaths
<1>5. val' = Divergence(G, t) /\ val' \in Nat
  BY <1>2, <1>4, SourceFlow
<1>6. step' = IF proc = "DINIC" THEN "layers" ELSE "search"
  BY DEF EnterPaths
<1>7. /\ IsNetwork(G') /\ SameNet(G, G') /\ (proc \in {"SAP", "DINIC"} => G'.delta = 0)
      /\ \A v : Divergence(G', v) = Divergence(G, v)
  <2>1. CASE proc = "SAP_SCALE"
    <3>. DEFINE x == FirstDelta
    <3>1. G' = [G EXCEPT !.delta = x]
      BY <2>1 DEF EnterPaths
    <3>2. x \in Nat
      <4>. DEFINE S == {0} \union {G.ucap[e] : e \in Edge}
      <4>1. \A e \in Edge : G.ucap[e] \in Nat /\ G.ucap[e] <= InfCap
        BY <1>2, NetworkParts
      <4>2. S \in SUBSET Int /\ S # {} /\ \A z \in S : z <= InfCap
        BY <4>1, Sizes
      <4>3. InfCap \in Int
        BY Sizes
      <4>. HIDE DEF S
      <4>4. Greatest(S) \in S
        BY <4>2, <4>3, GreatestIs
      <4>. DEFINE z == Greatest(S) - 1
      <4>5. z \in Int
        <5>1. Greatest(S) \in Int
          BY <4>2, <4>4
        <5>. QED BY <5>1
      <4>6. FirstDelta = Max({0, z})
        BY DEF FirstDelta, S
      <4>. HIDE DEF z
      <4>7. Max({0, z}) = IF 0 >= z THEN 0 ELSE z
        BY <4>5, MinOfTwo
      <4>. QED BY <4>5, <4>6, <4>7
    <3>. HIDE DEF x
    <3>. QED BY <1>2, <2>1, <3>1, <3>2, DeltaNet
  <2>2. CASE proc # "SAP_SCALE"
    <3>1. G' = G
      BY <2>2 DEF EnterPaths
    <3>. QED BY <1>2, <3>1, KeptNet
  <2>. QED BY <2>1, <2>2
<1>8. Carries(G, val', s, 0)
  <2>1. \A v \in Inner : Divergence(G, v) = 0
    BY <1>2 DEF IsFlow
  <2>2. ASSUME NEW v \in Node \ {s} PROVE Divergence(G, v) = (IF v = t THEN val' ELSE 0) - (IF v = s THEN 0 ELSE 0)
    <3>1. v # t => v \in Inner
      BY DEF Inner
    <3>. QED BY <1>5, <2>1, <3>1
  <2>. QED BY <2>2 DEF Carries
<1>9. Carries(G', val', s, 0)
  BY <1>7, <1>8, CarriesOn
<1>10. val' <= MinCut /\ MinCut \in Nat
  BY <1>2, <1>5, <1>8, CarriesFlow
<1>11. lower \in Int /\ upper \in Int /\ lower <= MinCut /\ MinCut <= upper
  <2>1. MinCut <= InfFloat
    BY <1>2, MinCutSmall DEF MinCut
  <2>. QED BY <1>2, <1>10, <2>1, Sizes
<1>12. lower' \in Int /\ upper' \in Int /\ lower' <= MinCut /\ MinCut <= upper'
  BY <1>4, <1>5, <1>10, <1>11, BoundStep
<1>13. PathFlow' /\ Layers'
  BY <1>1, <1>3, <1>6, <1>9 DEF PathFlow, Layers
<1>. QED BY <1>1, <1>2, <1>3, <1>5, <1>6, <1>7, <1>12, <1>13, PathMoves

LEMMA ReportKeeps ==
  ASSUME FlowInv, Report
  PROVE  FlowInv'
<1>1. step = "report" /\ step' = "check"
  BY DEF Report
<1>2. /\ proc # "PREFLOW" /\ IsNetwork(G) /\ ret = 0 /\ MinCut \in Nat /\ val \in Nat /\ G.delta \in Nat
      /\ lower \in Int /\ upper \in Int /\ lower <= MinCut /\ MinCut <= upper
      /\ proc \in {"SAP", "DINIC"} => G.delta = 0
      /\ dist \in [Node -> 0 .. n \union {InfFloat}] /\ aux \in AuxTypes
      /\ Carries(G, val, s, 0)
  BY <1>1, PathFacts
<1>3. running => Shown
  BY <1>1, <1>2 DEF FlowInv, PathFlow
<1>4. /\ methMXF' = methMXF /\ proc' = proc /\ running' = running /\ dist' = dist /\ val' = val
      /\ aux' = aux /\ ret' = val /\ UNCHANGED preflowVars
  BY DEF Report
<1>. DEFINE x == IF proc = "SAP_SCALE" THEN 0 ELSE G.delta
<1>5. G' = [G EXCEPT !.delta = x] /\ x \in Nat
  BY <1>2 DEF Report
<1>6. /\ IsNetwork(G') /\ SameNet(G, G') /\ G'.delta = x
      /\ \A a : ResCap(G', a) = ResCap(G, a)
      /\ \A v : Divergence(G', v) = Divergence(G, v)
  <2>. HIDE DEF x
  <2>. QED BY <1>2, <1>5, DeltaNet
<1>7. Balanced /\ Div(t) = val
  BY <1>2, CarriesFlow
<1>8. lower' \in Int /\ upper' \in Int /\ lower' <= MinCut /\ MinCut <= upper'
  <2>1. CASE running
    <3>1. MinCut = val
      BY <1>2, <1>3, <1>7, <2>1, ShownCut
    <3>2. SetUpperBound(val)
      BY <2>1 DEF Report
    <3>. QED BY <1>2, <3>1, <3>2, BoundStep
  <2>2. CASE ~running
    BY <1>2, <2>2 DEF Report, timerVars
  <2>. QED BY <2>1, <2>2
<1>9. running => Shown'
  <2>1. Closed(G, Finite(dist)) => Closed(G', Finite(dist))
    BY <1>6, SameNetArcs DEF Closed
  <2>. QED BY <1>3, <1>4, <2>1 DEF Shown
<1>10. Carries(G', val', s, 0)
  BY <1>2, <1>4, <1>6, CarriesOn
<1>11. PathFlow' /\ Layers'
  BY <1>1, <1>4, <1>9, <1>10 DEF PathFlow, PathEnd, Layers
<1>. QED BY <1>1, <1>2, <1>4, <1>6, <1>8, <1>11, PathMoves

LEMMA LeaveLayersKeeps ==
  ASSUME FlowInv, LeaveLayers
  PROVE  FlowInv'
<1>1. step = "layers" /\ ~running /\ step' = "report"
  BY DEF LeaveLayers
<1>2. /\ proc # "PREFLOW" /\ IsNetwork(G) /\ ret = 0 /\ MinCut \in Nat /\ val \in Nat
      /\ lower \in Int /\ upper \in Int /\ lower <= MinCut /\ MinCut <= upper
      /\ proc \in {"SAP", "DINIC"} => G.delta = 0
      /\ dist \in [Node -> 0 .. n \union {InfFloat}] /\ aux \in AuxTypes
      /\ Carries(G, val, s, 0)
  BY <1>1, PathFacts
<1>3. /\ methMXF' = methMXF /\ proc' = proc /\ running' = running /\ dist' = dist /\ val' = val /\ G' = G
      /\ aux' = aux /\ ret' = ret /\ lower' = lower /\ upper' = upper /\ UNCHANGED preflowVars
  BY DEF LeaveLayers, timerVars
<1>4. PathFlow' /\ Layers'
  BY <1>1, <1>2, <1>3 DEF PathFlow, Layers
<1>. QED BY <1>1, <1>2, <1>3, <1>4, PathMoves, KeptNet
(* A search that does not reach t shows a cut.                               *)
LEMMA SearchShows ==
  ASSUME IsNetwork(G), NEW d, d = Labels(0), d[t] = InfFloat
  PROVE  Layered(d) /\ IsCut(Finite(d)) /\ Closed(G, Finite(d))
<1>1. /\ Layered(d)
      /\ \A a \in Arc : d[StartNode(G, a)] # InfFloat /\ Res(a) > 0 => d[EndNode(G, a)] # InfFloat
  BY LabelsFacts
<1>2. Finite(d) \in SUBSET Node /\ s \in Finite(d) /\ t \notin Finite(d)
  BY <1>1, Sizes, Ends DEF Finite, Layered
<1>3. \A a \in Arc : EndNode(G, a) \in Node
  BY NetworkArcs
<1>4. Closed(G, Finite(d))
  BY <1>1, <1>3 DEF Closed, Finite, Res
<1>. QED BY <1>1, <1>2, <1>4 DEF IsCut

LEMMA AugmentPathKeeps ==
  ASSUME FlowInv, AugmentPath
  PROVE  FlowInv'
<1>1. step = "search" /\ running
  BY DEF AugmentPath
<1>2. /\ proc # "PREFLOW" /\ IsNetwork(G) /\ ret = 0 /\ MinCut \in Nat /\ val \in Nat /\ G.delta \in Nat
      /\ lower \in Int /\ upper \in Int /\ lower <= MinCut /\ MinCut <= upper
      /\ proc \in {"SAP", "DINIC"} => G.delta = 0
      /\ aux \in AuxTypes
      /\ proc \in {"SAP", "SAP_SCALE", "DINIC"} /\ proc # "DINIC"
      /\ Carries(G, val, s, 0)
  BY <1>1, PathFacts
<1>3. /\ methMXF' = methMXF /\ proc' = proc /\ running' = running /\ aux' = aux /\ UNCHANGED preflowVars
  BY DEF AugmentPath
<1>4. dist' = Labels(G.delta) /\ dist'[t] # InfFloat
  BY DEF AugmentPath
<1>5. Layered(dist')
  BY <1>2, <1>4, LabelsFacts
<1>6. dist' \in [Node -> 0 .. n \union {InfFloat}]
  BY <1>5 DEF Layered
<1>. DEFINE x(p) == FindCap(G, p)
<1>7. PICK p \in ShortestPaths(G.delta, dist') :
        IF x(p) = InfCap
        THEN /\ ret' = InfCap /\ step' = "check"
             /\ G' = [G EXCEPT !.delta = IF proc = "SAP_SCALE" THEN 0 ELSE @]
             /\ UNCHANGED <<val, timerVars>>
        ELSE /\ G' = Augment(G, p, x(p))
             /\ val' = val + x(p)
             /\ SetLowerBound(val')
             /\ UNCHANGED <<ret, step>>
  BY DEF AugmentPath
<1>8. Wander(p, G.delta, dist') /\ Len(p) \in Nat /\ Len(p) > 0 /\ EndNode(G, p[Len(p)]) = t
  BY <1>2, <1>4, <1>5, PathsAre
<1>9. p \in Seq(Arc) /\ DOMAIN p = 1 .. Len(p) /\ \A i \in 1 .. Len(p) : p[i] \in Arc
  BY <1>8 DEF Wander
<1>10. /\ x(p) \in Nat
       /\ \A i \in 1 .. Len(p) : x(p) <= Res(p[i])
  BY <1>2, <1>8, <1>9, FindCapIs
<1>. HIDE DEF x
<1>11. CASE x(p) = InfCap
  <2>. DEFINE y == IF proc = "SAP_SCALE" THEN 0 ELSE G.delta
  <2>1. ret' = InfCap /\ step' = "check" /\ G' = [G EXCEPT !.delta = y] /\ val' = val /\ lower' = lower /\ upper' = upper
    BY <1>7, <1>11 DEF timerVars
  <2>2. y \in Nat /\ (proc \in {"SAP", "DINIC"} => y = 0)
    BY <1>2
  <2>. HIDE DEF y
  <2>3. /\ IsNetwork(G') /\ SameNet(G, G') /\ G'.delta = y
        /\ \A v : Divergence(G', v) = Divergence(G, v)
    BY <1>2, <2>1, <2>2, DeltaNet
  <2>4. MinCut >= InfCap
    <3>1. ASSUME NEW X, IsCut(X) PROVE \E a \in Arc : Leaves(G, X, a) /\ ResCap(G, a) >= InfCap
      <4>1. PICK i \in 1 .. Len(p) : Leaves(G, X, p[i])
        BY <1>2, <1>8, <3>1, WanderCross
      <4>2. p[i] \in Arc /\ InfCap <= Res(p[i])
        BY <1>9, <1>10, <1>11, <4>1
      <4>3. ResCap(G, p[i]) >= InfCap
        <5>1. ResCap(G, p[i]) \in Nat
          BY <1>2, <4>2, NetworkArcs
        <5>. QED BY <4>2, <5>1, Sizes DEF Res
      <4>. QED BY <4>1, <4>2, <4>3
    <3>2. \A v \in Inner : Divergence(G, v) >= 0
      BY <1>2, CarriesFlow
    <3>3. Divergence(G, t) >= 0
      BY <1>2, CarriesFlow DEF Div
    <3>. QED BY <1>2, <3>1, <3>2, <3>3, Sizes, UnboundedCut DEF MinCut
  <2>5. Carries(G', val', s, 0)
    BY <1>2, <2>1, <2>3, CarriesOn
  <2>6. MinCut' = MinCut
    BY <2>3, MinCutSame DEF MinCut
  <2>7. PathFlow' /\ Layers'
    BY <2>1, <2>4, <2>5, <2>6 DEF PathFlow, PathEnd, Layers
  <2>. QED BY <1>2, <1>3, <1>6, <2>1, <2>2, <2>3, <2>7, Sizes, PathMoves
<1>12. CASE x(p) # InfCap
  <2>1. G' = Augment(G, p, x(p)) /\ val' = val + x(p) /\ SetLowerBound(val') /\ ret' = ret /\ step' = step
    BY <1>7, <1>12
  <2>2. /\ IsNetwork(G') /\ SameNet(G, G') /\ G'.delta = G.delta
        /\ \A v \in Node \ {s} : Divergence(G', v) = Divergence(G, v) + (IF v = EndNode(G, p[Len(p)]) THEN x(p) ELSE 0)
    BY <1>2, <1>5, <1>8, <1>10, <2>1, AugmentFacts
  <2>3. val' \in Nat
    BY <1>2, <1>10, <2>1
  <2>4. Carries(G', val', s, 0)
    <3>1. ASSUME NEW v \in Node \ {s}
          PROVE Divergence(G', v) = (IF v = t THEN val' ELSE 0) - (IF v = s THEN 0 ELSE 0)
      <4>1. Divergence(G, v) = IF v = t THEN val ELSE 0
        BY <1>2 DEF Carries
      <4>2. Divergence(G', v) = Divergence(G, v) + (IF v = t THEN x(p) ELSE 0)
        BY <1>8, <2>2
      <4>. QED BY <1>2, <1>10, <2>1, <4>1, <4>2
    <3>. QED BY <3>1 DEF Carries
  <2>5. val' <= MinCut
    <3>1. Divergence(G', t) = val'
      BY <2>3, <2>4, Ends DEF Carries
    <3>2. \A v \in Inner : Divergence(G', v) >= 0
      BY <2>4, Ends DEF Carries
    <3>3. Divergence(G', t) <= MinCutOf(G')
      BY <2>2, <3>2, FlowBelow
    <3>. QED BY <2>2, <3>1, <3>3, MinCutSame DEF MinCut
  <2>6. lower' \in Int /\ upper' \in Int /\ lower' <= MinCut /\ MinCut <= upper'
    BY <1>2, <2>1, <2>3, <2>5, BoundStep
  <2>7. PathFlow' /\ Layers'
    BY <1>1, <2>1, <2>4 DEF PathFlow, Layers
  <2>. QED BY <1>1, <1>2, <1>3, <1>6, <2>1, <2>2, <2>3, <2>6, <2>7, PathMoves
<1>. QED BY <1>11, <1>12

LEMMA EndSearchKeeps ==
  ASSUME FlowInv, EndSearch
  PROVE  FlowInv'
<1>1. step = "search"
  BY DEF EndSearch
<1>2. /\ proc # "PREFLOW" /\ IsNetwork(G) /\ ret = 0 /\ MinCut \in Nat /\ val \in Nat /\ G.delta \in Nat
      /\ lower \in Int /\ upper \in Int /\ lower <= MinCut /\ MinCut <= upper
      /\ proc \in {"SAP", "DINIC"} => G.delta = 0
      /\ aux \in AuxTypes /\ dist \in [Node -> 0 .. n \union {InfFloat}]
      /\ proc \in {"SAP", "SAP_SCALE", "DINIC"} /\ proc # "DINIC"
      /\ Carries(G, val, s, 0)
  BY <1>1, PathFacts
<1>3. /\ methMXF' = methMXF /\ proc' = proc /\ running' = running /\ aux' = aux /\ val' = val /\ ret' = ret
      /\ lower' = lower /\ upper' = upper /\ UNCHANGED preflowVars
  BY DEF EndSearch, timerVars
<1>4. dist' = (IF running THEN Labels(G.delta) ELSE dist) /\ (running => dist'[t] = InfFloat)
  BY DEF EndSearch
<1>5. dist' \in [Node -> 0 .. n \union {InfFloat}]
  <2>1. running => Layered(dist')
    BY <1>2, <1>4, LabelsFacts
  <2>. QED BY <1>2, <1>4, <2>1 DEF Layered
<1>6. CASE proc = "SAP_SCALE" /\ ~LastPhase
  <2>. DEFINE y == G.delta \div 2
  <2>1. G' = [G EXCEPT !.delta = y] /\ step' = IF running THEN "search" ELSE "report"
    BY <1>6 DEF EndSearch
  <2>2. y \in Nat
    BY <1>2
  <2>. HIDE DEF y
  <2>3. /\ IsNetwork(G') /\ SameNet(G, G') /\ G'.delta = y
        /\ \A v : Divergence(G', v) = Divergence(G, v)
    BY <1>2, <2>1, <2>2, DeltaNet
  <2>4. Carries(G', val', s, 0)
    BY <1>2, <1>3, <2>3, CarriesOn
  <2>5. PathFlow' /\ Layers'
    BY <1>3, <2>1, <2>4 DEF PathFlow, Layers
  <2>. QED BY <1>2, <1>3, <1>5, <1>6, <2>1, <2>3, <2>5, PathMoves
<1>7. CASE ~(proc = "SAP_SCALE" /\ ~LastPhase)
  <2>1. G' = G /\ step' = "report"
    BY <1>7 DEF EndSearch
  <2>2. G.delta = 0
    BY <1>2, <1>7 DEF LastPhase
  <2>3. running => Shown'
    <3>. SUFFICES ASSUME running PROVE Shown'
      OBVIOUS
    <3>1. dist' = Labels(0) /\ dist'[t] = InfFloat
      BY <1>4, <2>2
    <3>. QED BY <1>2, <2>1, <3>1, SearchShows DEF Shown
  <2>4. PathFlow' /\ Layers'
    BY <1>2, <1>3, <2>1, <2>3 DEF PathFlow, Layers
  <2>. QED BY <1>2, <1>3, <1>5, <2>1, <2>2, <2>4, PathMoves, KeptNet
<1>. QED BY <1>6, <1>7
-------------------------------------------------------------------------------
(* Dinic's method.                                                           *)

LEMMA ArcSets ==
  ASSUME NEW S \in SUBSET Arc
  PROVE  IsFiniteSet(S) /\ Cardinality(S) \in 0 .. 2 * m /\ (Cardinality(S) = 0 <=> S = {})
<1>1. IsFiniteSet(0 .. 2 * m - 1) /\ Cardinality(0 .. 2 * m - 1) = IF 0 > 2 * m - 1 THEN 0 ELSE (2 * m - 1) - 0 + 1
  BY Sizes, FS_Interval
<1>2. IsFiniteSet(Arc) /\ Cardinality(Arc) = 2 * m
  BY <1>1, Sizes DEF Arc
<1>3. IsFiniteSet(S) /\ Cardinality(S) <= Cardinality(Arc)
  BY <1>2, FS_Subset
<1>4. Cardinality(S) \in Nat
  BY <1>3, FS_CardinalityType
<1>5. Cardinality(S) = 0 <=> S = {}
  BY <1>3, FS_EmptySet
<1>. QED BY <1>2, <1>3, <1>4, <1>5, Sizes

LEMMA AuxParts ==
  ASSUME NEW x \in AuxTypes
  PROVE  /\ x = [prop |-> x.prop, degree |-> x.degree, successors |-> x.successors, path |-> x.path, lambda |-> x.lambda]
         /\ x.prop \in [Node -> Seq(Arc)] /\ x.degree \in [Node -> 0 .. 2 * m] /\ x.successors \in SUBSET Arc
         /\ x.path \in Seq(Arc) /\ x.lambda \in Nat
BY DEF AuxTypes

LEMMA EndBlockingKeeps ==
  ASSUME FlowInv, EndBlocking
  PROVE  FlowInv'
<1>1. step = "block" /\ step' = "layers"
  BY DEF EndBlocking
<1>2. /\ proc # "PREFLOW" /\ IsNetwork(G) /\ ret = 0 /\ MinCut \in Nat /\ val \in Nat
      /\ lower \in Int /\ upper \in Int /\ lower <= MinCut /\ MinCut <= upper
      /\ (proc \in {"SAP", "DINIC"} => G.delta = 0) /\ proc = "DINIC"
      /\ dist \in [Node -> 0 .. n \union {InfFloat}] /\ aux \in AuxTypes
      /\ Carries(G, val, s, 0)
  BY <1>1, PathFacts
<1>3. /\ methMXF' = methMXF /\ proc' = proc /\ running' = running /\ dist' = dist /\ val' = val /\ G' = G
      /\ ret' = ret /\ UNCHANGED preflowVars /\ aux' = NoProps /\ SetLowerBound(val)
  BY DEF EndBlocking
<1>4. NoProps \in AuxTypes
  <2>1. 0 \in 0 .. 2 * m /\ 0 \in Nat /\ <<>> \in Seq(Arc)
    BY Sizes
  <2>. QED BY <2>1 DEF NoProps, AuxTypes
<1>5. val <= MinCut
  BY <1>2, CarriesFlow
<1>6. lower' \in Int /\ upper' \in Int /\ lower' <= MinCut /\ MinCut <= upper'
  BY <1>2, <1>3, <1>5, BoundStep
<1>7. PathFlow' /\ Layers'
  BY <1>1, <1>2, <1>3 DEF PathFlow, Layers
<1>. QED BY <1>1, <1>2, <1>3, <1>4, <1>6, <1>7, PathMoves, KeptNet

(* The layered network that FindLayers builds.                               *)
Built(x, d) ==
  /\ \A v \in Node : x.degree[v] = Cardinality(Props(d, v))
  /\ \A v \in Node : \A a : a \in ToSet(x.prop[v]) <=> a \in Props(d, v)
  /\ x.successors = UNION {Props(d, v) : v \in Node}

LEMMA LayersBuilt ==
  ASSUME IsNetwork(G), NEW d, d = Labels(0), d[t] # InfFloat, NEW x, Built(x, d)
  PROVE  LayerNet(G, x, d)
<1>1. /\ Layered(d)
      /\ \A v \in Node : v # s /\ d[v] # InfFloat =>
              \E a \in Arc : EndNode(G, a) = v /\ Res(a) > 0 /\ d[StartNode(G, a)] # InfFloat /\ d[v] = d[StartNode(G, a)] + 1
      /\ \A v \in Node : d[v] # InfFloat /\ d[t] # InfFloat => d[v] <= d[t]
  BY LabelsFacts
<1>2. \A a \in Arc : StartNode(G, a) \in Node /\ EndNode(G, a) \in Node
  BY NetworkArcs
<1>3. \A v \in Node : d[v] # InfFloat => d[v] \in 0 .. n
  BY <1>1 DEF Layered
<1>4. \A a : a \in x.successors <=> a \in Arc /\ a \in Props(d, EndNode(G, a))
  <2>1. \A v \in Node : \A a \in Props(d, v) : a \in Arc /\ EndNode(G, a) = v
    BY DEF Props
  <2>2. \A a : a \in x.successors <=> \E v \in Node : a \in Props(d, v)
    BY DEF Built
  <2>. QED BY <1>2, <2>1, <2>2
<1>5. ASSUME NEW a \in x.successors
      PROVE  /\ a \in Arc /\ Res(a) > 0 /\ d[StartNode(G, a)] \in 0 .. n - 1
             /\ d[StartNode(G, a)] # InfFloat /\ d[EndNode(G, a)] # InfFloat
             /\ d[EndNode(G, a)] = d[StartNode(G, a)] + 1
  <2>. DEFINE u == StartNode(G, a)
              w == EndNode(G, a)
  <2>1. a \in Arc /\ Res(a) > 0 /\ d[u] # d[t] /\ d[u] # InfFloat /\ d[w] = d[u] + 1
    BY <1>4, <1>5 DEF Props
  <2>2. u \in Node /\ w \in Node /\ t \in Node
    BY <1>2, <2>1, Ends
  <2>. HIDE DEF u, w
  <2>3. d[u] \in 0 .. n /\ d[t] \in 0 .. n /\ d[u] <= d[t]
    BY <1>1, <1>3, <2>1, <2>2
  <2>4. d[u] \in 0 .. n - 1 /\ d[w] # InfFloat
    BY <2>1, <2>3, Sizes
  <2>. QED BY <2>1, <2>4 DEF u, w
<1>6. Graded(G, x, d)
  BY <1>5 DEF Graded
<1>7. ASSUME NEW v \in Node, d[v] # InfFloat PROVE ~Blocked(x, v)
  <2>1. CASE v = s
    BY <2>1 DEF Blocked
  <2>2. CASE v # s
    <3>1. PICK a \in Arc : EndNode(G, a) = v /\ Res(a) > 0 /\ d[StartNode(G, a)] # InfFloat /\ d[v] = d[StartNode(G, a)] + 1
      BY <1>1, <1>7, <2>2
    <3>2. d[StartNode(G, a)] \in 0 .. n /\ d[v] <= d[t] /\ d[t] \in 0 .. n
      BY <1>1, <1>2, <1>3, <1>7, <3>1, Ends
    <3>3. d[StartNode(G, a)] # d[t]
      BY <3>1, <3>2, Sizes
    <3>4. a \in Props(d, v)
      BY <3>1, <3>3 DEF Props
    <3>5. Props(d, v) \in SUBSET Arc
      BY DEF Props
    <3>6. Cardinality(Props(d, v)) # 0
      BY <3>4, <3>5, ArcSets
    <3>. QED BY <3>6 DEF Blocked, Built
  <2>. QED BY <2>1, <2>2
<1>8. ASSUME NEW v \in Node PROVE UsableArcs(G, x, v) = Props(d, v)
  <2>1. ASSUME NEW a \in Props(d, v) PROVE a \in UsableArcs(G, x, v)
    <3>1. a \in Arc /\ EndNode(G, a) = v /\ Res(a) > 0 /\ d[StartNode(G, a)] # InfFloat
      BY DEF Props
    <3>2. a \in x.successors
      BY <1>4, <3>1
    <3>3. ~Blocked(x, StartNode(G, a))
      BY <1>2, <1>7, <3>1
    <3>. QED BY <3>1, <3>2, <3>3 DEF UsableArcs, Res
  <2>2. ASSUME NEW a \in UsableArcs(G, x, v) PROVE a \in Props(d, v)
    BY <1>4 DEF UsableArcs
  <2>. QED BY <2>1, <2>2
<1>9. Counted(G, x)
  BY <1>8 DEF Counted, Built
<1>10. Cursors(G, x)
  <2>1. \A v \in Node : \A a \in Props(d, v) : a \in Arc /\ EndNode(G, a) = v
    BY DEF Props
  <2>2. ASSUME NEW v \in Node PROVE /\ \A a \in ToSet(x.prop[v]) : a \in x.successors /\ EndNode(G, a) = v
                                    /\ UsableArcs(G, x, v) \subseteq ToSet(x.prop[v])
    <3>1. \A a : a \in ToSet(x.prop[v]) <=> a \in Props(d, v)
      BY DEF Built
    <3>2. UsableArcs(G, x, v) \subseteq ToSet(x.prop[v])
      BY <1>8, <3>1
    <3>3. \A a \in ToSet(x.prop[v]) : a \in x.successors /\ EndNode(G, a) = v
      BY <1>4, <2>1, <3>1
    <3>. QED BY <3>2, <3>3
  <2>. QED BY <2>2 DEF Cursors
<1>. QED BY <1>1, <1>6, <1>9, <1>10 DEF LayerNet

LEMMA FindLayersKeeps ==
  ASSUME FlowInv, FindLayers
  PROVE  FlowInv'
<1>1. step = "layers" /\ running
  BY DEF FindLayers
<1>2. /\ proc # "PREFLOW" /\ IsNetwork(G) /\ ret = 0 /\ MinCut \in Nat /\ val \in Nat
      /\ lower \in Int /\ upper \in Int /\ lower <= MinCut /\ MinCut <= upper
      /\ (proc \in {"SAP", "DINIC"} => G.delta = 0) /\ proc = "DINIC"
      /\ dist \in [Node -> 0 .. n \union {InfFloat}] /\ aux \in AuxTypes
      /\ Carries(G, val, s, 0)
  BY <1>1, PathFacts
<1>3. /\ methMXF' = methMXF /\ proc' = proc /\ running' = running /\ val' = val /\ G' = G
      /\ ret' = ret /\ UNCHANGED preflowVars /\ lower' = lower /\ upper' = upper
  BY DEF FindLayers, timerVars
<1>4. dist' = Labels(0)
  BY DEF FindLayers
<1>5. Layered(dist') /\ dist' \in [Node -> 0 .. n \union {InfFloat}]
  <2>1. Layered(dist')
    BY <1>2, <1>4, LabelsFacts
  <2>. QED BY <2>1 DEF Layered
<1>6. CASE dist'[t] = InfFloat
  <2>1. step' = "report" /\ aux' = aux
    BY <1>6 DEF FindLayers
  <2>2. Shown'
    BY <1>2, <1>3, <1>4, <1>6, SearchShows DEF Shown
  <2>3. PathFlow' /\ Layers'
    BY <1>2, <1>3, <2>1, <2>2 DEF PathFlow, Layers
  <2>. QED BY <1>2, <1>3, <1>5, <2>1, <2>3, PathMoves, KeptNet
<1>7. CASE dist'[t] # InfFloat
  <2>1. step' = "block" /\ \E order \in [Node -> {ArcOrder, Reverse(ArcOrder)}] :
                  aux' = [NoProps EXCEPT !.prop = [v \in Node |-> InOrder(order[v], Props(dist', v))],
                                         !.degree = [v \in Node |-> Cardinality(Props(dist', v))],
                                         !.successors = UNION {Props(dist', v) : v \in Node}]
    BY <1>7 DEF FindLayers
  <2>2. PICK order \in [Node -> {ArcOrder, Reverse(ArcOrder)}] :
                  aux' = [NoProps EXCEPT !.prop = [v \in Node |-> InOrder(order[v], Props(dist', v))],
                                         !.degree = [v \in Node |-> Cardinality(Props(dist', v))],
                                         !.successors = UNION {Props(dist', v) : v \in Node}]
    BY <2>1
  <2>3. aux' = [prop |-> [v \in Node |-> InOrder(order[v], Props(dist', v))],
                degree |-> [v \in Node |-> Cardinality(Props(dist', v))],
                successors |-> UNION {Props(dist', v) : v \in Node},
                path |-> <<>>, lambda |-> 0]
    BY <2>2 DEF NoProps
  <2>4. ASSUME NEW v \in Node PROVE /\ InOrder(order[v], Props(dist', v)) \in Seq(Arc)
                                    /\ \A a : a \in ToSet(InOrder(order[v], Props(dist', v))) <=> a \in Props(dist', v)
    <3>1. order[v] \in {ArcOrder, Reverse(ArcOrder)}
      OBVIOUS
    <3>2. order[v] \in Seq(Arc) /\ Distinct(order[v]) /\ \A a : a \in ToSet(order[v]) <=> a \in Arc
      BY <3>1, ArcOrderIs
    <3>3. /\ InOrder(order[v], Props(dist', v)) \in Seq(Arc)
          /\ \A a : a \in ToSet(InOrder(order[v], Props(dist', v))) <=> a \in ToSet(order[v]) /\ a \in Props(dist', v)
      BY <3>2, InOrderIs
    <3>4. \A a : a \in Props(dist', v) => a \in Arc
      BY DEF Props
    <3>. QED BY <3>2, <3>3, <3>4
  <2>5. \A v \in Node : Cardinality(Props(dist', v)) \in 0 .. 2 * m
    <3>1. \A v \in Node : Props(dist', v) \in SUBSET Arc
      BY DEF Props
    <3>. QED BY <3>1, ArcSets
  <2>6. UNION {Props(dist', v) : v \in Node} \in SUBSET Arc
    BY DEF Props
  <2>7. aux' \in AuxTypes
    <3>1. <<>> \in Seq(Arc) /\ 0 \in Nat
      OBVIOUS
    <3>. QED BY <2>3, <2>4, <2>5, <2>6, <3>1 DEF AuxTypes
  <2>8. Built(aux', dist')
    BY <2>3, <2>4 DEF Built
  <2>9. LayerNet(G, aux', dist')
    BY <1>2, <1>4, <1>7, <2>8, LayersBuilt
  <2>10. PathFlow' /\ Layers'
    BY <1>2, <1>3, <2>1, <2>9 DEF PathFlow, Layers
  <2>. QED BY <1>2, <1>3, <1>5, <2>1, <2>7, <2>10, PathMoves, KeptNet
<1>. QED BY <1>6, <1>7
(* The end of a sequence.                                                    *)
LEMMA HeadAndTail ==
  ASSUME NEW A, NEW q \in Seq(A), q # <<>>
  PROVE  \A b : b \in ToSet(q) <=> b = Head(q) \/ b \in ToSet(Tail(q))
<1>1. /\ Len(q) \in Nat /\ Len(q) >= 1 /\ Head(q) = q[1] /\ Len(Tail(q)) = Len(q) - 1
      /\ DOMAIN q = 1 .. Len(q) /\ DOMAIN Tail(q) = 1 .. Len(q) - 1
      /\ \A i \in 1 .. Len(q) - 1 : Tail(q)[i] = q[i + 1]
  OBVIOUS
<1>2. \A b : b \in ToSet(q) <=> \E i \in 1 .. Len(q) : b = q[i]
  BY <1>1 DEF ToSet
<1>3. \A b : b \in ToSet(Tail(q)) <=> \E i \in 1 .. Len(q) - 1 : b = q[i + 1]
  BY <1>1 DEF ToSet
<1>4. ASSUME NEW b, NEW i \in 1 .. Len(q), b = q[i] PROVE b = q[1] \/ \E j \in 1 .. Len(q) - 1 : b = q[j + 1]
  <2>1. i = 1 \/ (i - 1 \in 1 .. Len(q) - 1 /\ (i - 1) + 1 = i)
    BY <1>1
  <2>. QED BY <1>4, <2>1
<1>5. 1 \in 1 .. Len(q) /\ \A j \in 1 .. Len(q) - 1 : j + 1 \in 1 .. Len(q)
  BY <1>1
<1>. QED BY <1>1, <1>2, <1>3, <1>4, <1>5

LEMMA EndOfSeq ==
  ASSUME NEW A, NEW p \in Seq(A), NEW k \in 1 .. Len(p)
  PROVE  LET q == SubSeq(p, k, Len(p)) IN
         /\ q \in Seq(A) /\ q # <<>> /\ Head(q) = p[k]
         /\ \A a : a \in ToSet(q) <=> \E j \in k .. Len(p) : a = p[j]
<1>. DEFINE q == SubSeq(p, k, Len(p))
<1>0. Len(p) \in Nat /\ k \in Nat /\ k <= Len(p) /\ k >= 1
  OBVIOUS
<1>1. q \in Seq(A) /\ Len(q) = Len(p) - k + 1 /\ \A i \in 1 .. Len(p) - k + 1 : q[i] = p[k + i - 1]
  BY <1>0
<1>. HIDE DEF q
<1>2. DOMAIN q = 1 .. Len(p) - k + 1
  BY <1>1
<1>3. q # <<>> /\ Head(q) = p[k]
  <2>1. 1 \in 1 .. Len(p) - k + 1 /\ k + 1 - 1 = k
    BY <1>0
  <2>2. q[1] = p[k]
    BY <1>1, <2>1
  <2>. QED BY <1>0, <1>1, <1>2, <2>1, <2>2
<1>4. ASSUME NEW a \in ToSet(q) PROVE \E j \in k .. Len(p) : a = p[j]
  <2>1. PICK i \in 1 .. Len(p) - k + 1 : a = q[i]
    BY <1>2, <1>4 DEF ToSet
  <2>2. k + i - 1 \in k .. Len(p) /\ a = p[k + i - 1]
    BY <1>0, <1>1, <2>1
  <2>. QED BY <2>2
<1>5. ASSUME NEW j \in k .. Len(p) PROVE p[j] \in ToSet(q)
  <2>1. j - k + 1 \in 1 .. Len(p) - k + 1 /\ k + (j - k + 1) - 1 = j
    BY <1>0
  <2>2. q[j - k + 1] = p[j]
    BY <1>1, <2>1
  <2>. QED BY <1>2, <2>1, <2>2 DEF ToSet
<1>. QED BY <1>1, <1>3, <1>4, <1>5 DEF q

(* The cursor of a node that is not blocked moves to an arc that can be      *)
(* used, and passes none.                                                    *)
LEMMA SkippedIs ==
  ASSUME IsNetwork(G), aux \in AuxTypes, Counted(G, aux), Cursors(G, aux), NEW v \in Node, v # s, ~Blocked(aux, v)
  PROVE  /\ Skipped(v) \in Seq(Arc) /\ Skipped(v) # <<>> /\ Head(Skipped(v)) \in UsableArcs(G, aux, v)
         /\ ToSet(Skipped(v)) \subseteq ToSet(aux.prop[v])
         /\ UsableArcs(G, aux, v) \subseteq ToSet(Skipped(v))
<1>. DEFINE p == aux.prop[v]
            U == UsableArcs(G, aux, v)
            D == {i \in DOMAIN p : Usable(aux, p[i])} \union {Len(p) + 1}
            k == Least(D)
<1>1. p \in Seq(Arc) /\ aux.successors \in SUBSET Arc
  BY AuxParts
<1>2. aux.degree[v] # 0
  BY DEF Blocked
<1>3. U \in SUBSET Arc /\ U # {}
  <2>1. U \in SUBSET Arc
    BY <1>1 DEF UsableArcs
  <2>2. Cardinality(U) # 0
    BY <1>2 DEF Counted
  <2>. HIDE DEF U
  <2>. QED BY <2>1, <2>2, ArcSets
<1>4. /\ \A a \in ToSet(p) : a \in aux.successors /\ EndNode(G, a) = v
      /\ U \subseteq ToSet(p)
  BY DEF Cursors
<1>5. \A i \in DOMAIN p : Usable(aux, p[i]) <=> p[i] \in U
  <2>1. \A i \in DOMAIN p : p[i] \in ToSet(p)
    BY DEF ToSet
  <2>. QED BY <1>4, <2>1 DEF UsableArcs, Usable, Res
<1>. HIDE DEF p, U
<1>6. PICK i0 \in DOMAIN p : p[i0] \in U
  BY <1>3, <1>4 DEF ToSet
<1>7. Len(p) \in Nat /\ DOMAIN p = 1 .. Len(p)
  BY <1>1
<1>8. D \in SUBSET Nat /\ i0 \in D
  BY <1>5, <1>6, <1>7
<1>9. k \in D /\ \A j \in D : k <= j
  <2>. HIDE DEF D
  <2>. QED BY <1>8, LeastIs
<1>10. k \in 1 .. Len(p) /\ p[k] \in U
  <2>1. k <= i0 /\ i0 \in 1 .. Len(p)
    BY <1>6, <1>7, <1>8, <1>9
  <2>2. k # Len(p) + 1
    <3>. HIDE DEF k
    <3>. QED BY <1>7, <2>1
  <2>3. k \in DOMAIN p /\ Usable(aux, p[k])
    <3>. HIDE DEF k
    <3>. QED BY <1>9, <2>2
  <2>. QED BY <1>5, <1>7, <2>3
<1>11. \A j \in 1 .. Len(p) : p[j] \in U => k <= j
  <2>1. \A j \in 1 .. Len(p) : p[j] \in U => j \in D
    BY <1>5, <1>7
  <2>. HIDE DEF D, k
  <2>. QED BY <1>9, <2>1
<1>12. Skipped(v) = SubSeq(p, k, Len(p))
  BY DEF Skipped, p
<1>. HIDE DEF k, D
<1>13. /\ Skipped(v) \in Seq(Arc) /\ Skipped(v) # <<>> /\ Head(Skipped(v)) = p[k]
       /\ \A a : a \in ToSet(Skipped(v)) <=> \E j \in k .. Len(p) : a = p[j]
  BY <1>1, <1>10, <1>12, EndOfSeq
<1>14. ToSet(Skipped(v)) \subseteq ToSet(p)
  <2>1. \A j \in k .. Len(p) : j \in DOMAIN p
    BY <1>7, <1>10
  <2>. QED BY <1>13, <2>1 DEF ToSet
<1>15. ASSUME NEW a \in U PROVE a \in ToSet(Skipped(v))
  <2>1. PICK j \in DOMAIN p : a = p[j]
    BY <1>4 DEF ToSet
  <2>2. j \in k .. Len(p)
    BY <1>7, <1>10, <1>11, <2>1
  <2>. QED BY <1>13, <2>1, <2>2
<1>. QED BY <1>10, <1>13, <1>14, <1>15 DEF p, U

(* FindPath finds a path from t back to s, on arcs at the cursors.           *)
Found(p) ==
  /\ p \in Seq(Arc) /\ Len(p) = dist[t] /\ Len(p) \in Nat /\ Len(p) > 0 /\ EndNode(G, p[1]) = t
  /\ \A i \in 1 .. Len(p) :
       /\ p[i] = Head(Skipped(EndNode(G, p[i]))) /\ EndNode(G, p[i]) \in Node \ {s}
       /\ p[i] \in UsableArcs(G, aux, EndNode(G, p[i])) /\ dist[EndNode(G, p[i])] = Len(p) + 1 - i
       /\ ~Blocked(aux, EndNode(G, p[i]))
       /\ StartNode(G, p[i]) = (IF i = Len(p) THEN s ELSE EndNode(G, p[i + 1]))

LEMMA PathToIs ==
  ASSUME IsNetwork(G), aux \in AuxTypes, LayerNet(G, aux, dist), ~Blocked(aux, t)
  PROVE  Found(PathTo(t))
<1>. DEFINE A == {v \in Node : ~Blocked(aux, v)}
            nx(v) == StartNode(G, Head(Skipped(v)))
            Is(T) == T = [k \in 0 .. n |-> IF k = 0 THEN t ELSE IF T[k - 1] = s THEN s ELSE nx(T[k - 1])]
            Trail == CHOOSE T : Is(T)
            len == Least({k \in 0 .. n : Trail[k] = s})
            F == [i \in 1 .. n |-> [v \in A |-> IF v = s THEN s ELSE nx(v)]]
            p == PathTo(t)
<1>0. n \in Nat /\ s \in Node /\ t \in Node /\ s # t
  BY Sizes, Ends
<1>1. /\ Layered(dist) /\ dist[t] # InfFloat /\ Graded(G, aux, dist) /\ Counted(G, aux) /\ Cursors(G, aux)
  BY DEF LayerNet
<1>2. dist[t] \in 1 .. n /\ dist[s] = 0
  <2>1. dist[t] \in 0 .. n \union {InfFloat} /\ (dist[t] = 0 => t = s) /\ dist[s] = 0
    BY <1>0, <1>1 DEF Layered
  <2>. QED BY <1>0, <1>1, <2>1
<1>3. s \in A /\ t \in A
  BY <1>0 DEF Blocked
<1>4. ASSUME NEW v \in A, v # s
      PROVE  /\ Head(Skipped(v)) \in UsableArcs(G, aux, v) /\ Head(Skipped(v)) \in Arc
             /\ EndNode(G, Head(Skipped(v))) = v /\ nx(v) \in A /\ dist[nx(v)] # InfFloat /\ dist[v] = dist[nx(v)] + 1
  <2>. DEFINE a == Head(Skipped(v))
  <2>1. a \in UsableArcs(G, aux, v)
    BY <1>1, <1>4, SkippedIs
  <2>. HIDE DEF a
  <2>2. a \in aux.successors /\ EndNode(G, a) = v /\ ~Blocked(aux, StartNode(G, a))
    BY <2>1 DEF UsableArcs
  <2>3. a \in Arc
    BY <2>2, AuxParts
  <2>4. StartNode(G, a) \in Node
    BY <2>3, NetworkArcs
  <2>5. dist[StartNode(G, a)] # InfFloat /\ dist[EndNode(G, a)] = dist[StartNode(G, a)] + 1
    BY <1>1, <2>2 DEF Graded
  <2>. QED BY <2>1, <2>2, <2>3, <2>4, <2>5 DEF a
<1>. HIDE DEF nx, A
<1>5. F \in [1 .. n -> [A -> A]] /\ \A i \in 1 .. n : \A v \in A : F[i][v] = IF v = s THEN s ELSE nx(v)
  BY <1>3, <1>4
<1>. HIDE DEF F
<1>6. PICK T \in [0 .. n -> A] : T[0] = t /\ \A i \in 1 .. n : T[i] = F[i][T[i - 1]]
  <2>1. Solvable(A, t, n, F)
    BY <1>0, <1>3, <1>5, Iterates
  <2>. QED BY <2>1 DEF Solvable
<1>7. Is(T)
  <2>1. ASSUME NEW k \in 0 .. n PROVE T[k] = IF k = 0 THEN t ELSE IF T[k - 1] = s THEN s ELSE nx(T[k - 1])
    <3>1. CASE k = 0
      BY <1>6, <3>1
    <3>2. CASE k # 0
      <4>1. k \in 1 .. n /\ k - 1 \in 0 .. n
        BY <1>0, <3>2
      <4>2. T[k - 1] \in A /\ T[k] = F[k][T[k - 1]]
        BY <1>6, <4>1
      <4>. QED BY <1>5, <3>2, <4>1, <4>2
    <3>. QED BY <3>1, <3>2
  <2>2. T = [k \in 0 .. n |-> T[k]]
    BY <1>6
  <2>. QED BY <2>1, <2>2
<1>. HIDE DEF Trail
<1>8. Is(Trail)
  BY <1>7 DEF Trail
<1>9. Trail[0] = t /\ \A k \in 1 .. n : Trail[k] = IF Trail[k - 1] = s THEN s ELSE nx(Trail[k - 1])
  <2>1. 0 \in 0 .. n /\ \A k \in 1 .. n : k \in 0 .. n /\ k # 0
    BY <1>0
  <2>. QED BY <1>8, <2>1
<1>. DEFINE L == dist[t]
            S == {k \in 0 .. L : Trail[k] \in A /\ dist[Trail[k]] = L - k}
<1>10. 0 \in S
  BY <1>2, <1>3, <1>9
<1>11. ASSUME NEW k \in 0 .. L - 1, k \in S PROVE k + 1 \in S
  <2>1. k + 1 \in 1 .. n /\ (k + 1) - 1 = k /\ L \in Nat /\ k \in Nat /\ k < L /\ k + 1 \in 0 .. L
    BY <1>0, <1>2, <1>11
  <2>2. Trail[k] \in A /\ dist[Trail[k]] = L - k
    BY <1>11
  <2>3. Trail[k] # s
    BY <1>2, <2>1, <2>2
  <2>4. Trail[k + 1] = nx(Trail[k])
    BY <1>9, <2>1, <2>3
  <2>. DEFINE w == nx(Trail[k])
  <2>5. w \in A /\ dist[w] # InfFloat /\ L - k = dist[w] + 1
    BY <1>4, <2>2, <2>3
  <2>6. dist[w] \in Int
    <3>1. w \in Node
      BY <2>5 DEF A
    <3>. HIDE DEF w
    <3>. QED BY <1>1, <3>1, Sizes DEF Layered
  <2>. HIDE DEF w, L
  <2>7. dist[w] = L - (k + 1)
    BY <2>1, <2>5, <2>6
  <2>. QED BY <2>1, <2>4, <2>5, <2>7 DEF w
<1>12. \A k \in 0 .. L : k \in S
  <2>1. L \in Nat
    BY <1>2
  <2>. HIDE DEF S, L
  <2>. QED BY <1>10, <1>11, <2>1, CountUp
<1>13. \A k \in 0 .. L : Trail[k] \in A /\ dist[Trail[k]] = L - k
  BY <1>12
<1>. HIDE DEF S
<1>14. Trail[L] = s
  <2>1. L \in 0 .. L /\ L - L = 0
    BY <1>2
  <2>2. Trail[L] \in Node /\ dist[Trail[L]] = 0
    BY <1>13, <2>1 DEF A
  <2>. QED BY <1>1, <2>2 DEF Layered
<1>15. \A k \in 0 .. L - 1 : Trail[k] # s
  <2>1. \A k \in 0 .. L - 1 : k \in 0 .. L /\ L - k # 0
    BY <1>2
  <2>. QED BY <1>2, <1>13, <2>1
<1>16. len = L
  <2>. DEFINE B == {k \in 0 .. n : Trail[k] = s}
  <2>1. B \in SUBSET Nat /\ L \in B
    BY <1>2, <1>14
  <2>2. len \in B /\ len <= L
    <3>. HIDE DEF B
    <3>1. len = Least(B)
      BY DEF B
    <3>. QED BY <2>1, <3>1, LeastIs
  <2>3. len \in 0 .. n /\ Trail[len] = s
    BY <2>2
  <2>. HIDE DEF len, L
  <2>. QED BY <1>2, <1>15, <2>2, <2>3 DEF L
<1>17. p = [i \in 1 .. len |-> Head(Skipped(Trail[i - 1]))]
  BY DEF PathTo, Trail, nx
<1>. HIDE DEF p, len
<1>18. L \in Nat /\ L > 0
  BY <1>2
<1>19. ASSUME NEW i \in 1 .. L
       PROVE  /\ p[i] = Head(Skipped(Trail[i - 1])) /\ Trail[i - 1] \in A /\ Trail[i - 1] # s
              /\ p[i] \in UsableArcs(G, aux, Trail[i - 1]) /\ p[i] \in Arc
              /\ EndNode(G, p[i]) = Trail[i - 1] /\ StartNode(G, p[i]) = Trail[i]
              /\ dist[Trail[i - 1]] = L + 1 - i
  <2>1. i - 1 \in 0 .. L - 1 /\ i - 1 \in 0 .. L /\ i \in 1 .. n /\ L - (i - 1) = L + 1 - i
    <3>1. L \in 1 .. n
      BY <1>2
    <3>. HIDE DEF L
    <3>. QED BY <1>0, <1>19, <3>1
  <2>2. p[i] = Head(Skipped(Trail[i - 1]))
    BY <1>16, <1>17, <1>19
  <2>3. Trail[i - 1] \in A /\ Trail[i - 1] # s /\ dist[Trail[i - 1]] = L - (i - 1)
    BY <1>13, <1>15, <2>1
  <2>4. Trail[i] = nx(Trail[i - 1])
    BY <1>9, <2>1, <2>3
  <2>. QED BY <1>4, <2>1, <2>2, <2>3, <2>4 DEF nx
<1>20. p \in Seq(Arc) /\ Len(p) = L
  <2>1. p \in [1 .. L -> Arc]
    BY <1>16, <1>17, <1>19
  <2>. HIDE DEF L
  <2>. QED BY <1>18, <2>1
<1>21. EndNode(G, p[1]) = t
  <2>1. 1 \in 1 .. L /\ 1 - 1 = 0
    BY <1>18
  <2>. QED BY <1>9, <1>19, <2>1
<1>22. ASSUME NEW i \in 1 .. L
       PROVE  /\ p[i] = Head(Skipped(EndNode(G, p[i]))) /\ EndNode(G, p[i]) \in Node \ {s}
              /\ p[i] \in UsableArcs(G, aux, EndNode(G, p[i])) /\ dist[EndNode(G, p[i])] = L + 1 - i
              /\ ~Blocked(aux, EndNode(G, p[i]))
              /\ StartNode(G, p[i]) = (IF i = L THEN s ELSE EndNode(G, p[i + 1]))
  <2>1. /\ p[i] = Head(Skipped(EndNode(G, p[i]))) /\ EndNode(G, p[i]) \in Node \ {s}
        /\ p[i] \in UsableArcs(G, aux, EndNode(G, p[i])) /\ dist[EndNode(G, p[i])] = L + 1 - i
        /\ ~Blocked(aux, EndNode(G, p[i]))
    <3>1. /\ p[i] = Head(Skipped(Trail[i - 1])) /\ Trail[i - 1] \in A /\ Trail[i - 1] # s
          /\ p[i] \in UsableArcs(G, aux, Trail[i - 1]) /\ EndNode(G, p[i]) = Trail[i - 1]
          /\ dist[Trail[i - 1]] = L + 1 - i
      BY <1>19
    <3>2. Trail[i - 1] \in Node /\ ~Blocked(aux, Trail[i - 1])
      BY <3>1 DEF A
    <3>. HIDE DEF L
    <3>. QED BY <3>1, <3>2
  <2>2. CASE i = L
    BY <1>14, <1>19, <2>1, <2>2
  <2>3. CASE i # L
    <3>1. i + 1 \in 1 .. L /\ (i + 1) - 1 = i
      BY <1>18, <2>3
    <3>2. EndNode(G, p[i + 1]) = Trail[i]
      BY <1>19, <3>1
    <3>. QED BY <1>19, <2>1, <2>3, <3>2
  <2>. QED BY <2>2, <2>3
<1>. QED BY <1>18, <1>20, <1>21, <1>22 DEF Found, p
(* The path crosses every cut.                                               *)
LEMMA FoundCross ==
  ASSUME IsNetwork(G), NEW p, Found(p), NEW X, IsCut(X)
  PROVE  \E i \in 1 .. Len(p) : Leaves(G, X, p[i])
<1>. DEFINE T == {i \in 1 .. Len(p) : StartNode(G, p[i]) \in X}
<1>0. Len(p) \in Nat /\ Len(p) > 0 /\ EndNode(G, p[1]) = t
  BY DEF Found
<1>1. T \in SUBSET Nat /\ Len(p) \in T
  <2>1. Len(p) \in 1 .. Len(p)
    BY <1>0
  <2>2. StartNode(G, p[Len(p)]) = s
    BY <2>1 DEF Found
  <2>3. s \in X
    BY DEF IsCut
  <2>. QED BY <1>0, <2>1, <2>2, <2>3
<1>2. PICK i \in T : \A j \in T : i <= j
  BY <1>1, LeastNumber
<1>3. i \in 1 .. Len(p) /\ StartNode(G, p[i]) \in X
  BY <1>2
<1>4. EndNode(G, p[i]) \notin X
  <2>1. CASE i = 1
    BY <1>0, <2>1 DEF IsCut
  <2>2. CASE i # 1
    <3>1. i - 1 \in 1 .. Len(p) /\ ~(i <= i - 1) /\ i - 1 # Len(p) /\ (i - 1) + 1 = i
      BY <1>0, <1>3, <2>2
    <3>2. StartNode(G, p[i - 1]) \notin X
      BY <1>2, <3>1
    <3>3. StartNode(G, p[i - 1]) = EndNode(G, p[i])
      BY <3>1 DEF Found
    <3>. QED BY <3>2, <3>3
  <2>. QED BY <2>1, <2>2
<1>. QED BY <1>3, <1>4 DEF Leaves

(* The layered network does not depend on the path, and the cursors may      *)
(* move on.                                                                  *)
MovedOn(g, x, y) ==
  \A v \in Node : ToSet(y.prop[v]) \subseteq ToSet(x.prop[v]) /\ UsableArcs(g, x, v) \subseteq ToSet(y.prop[v])

LEMMA MovedCursors ==
  ASSUME NEW g, NEW x, NEW y, NEW d, LayerNet(g, x, d), y.degree = x.degree, y.successors = x.successors,
         MovedOn(g, x, y)
  PROVE  LayerNet(g, y, d) /\ \A v : UsableArcs(g, y, v) = UsableArcs(g, x, v) /\ Blocked(y, v) = Blocked(x, v)
<1>1. \A v : Blocked(y, v) = Blocked(x, v)
  BY DEF Blocked
<1>2. \A v : UsableArcs(g, y, v) = UsableArcs(g, x, v)
  BY <1>1 DEF UsableArcs
<1>3. Graded(g, y, d) /\ Counted(g, y)
  BY <1>2 DEF LayerNet, Graded, Counted
<1>4. Cursors(g, y)
  <2>1. ASSUME NEW v \in Node
        PROVE  /\ \A a \in ToSet(y.prop[v]) : a \in y.successors /\ EndNode(g, a) = v
               /\ UsableArcs(g, y, v) \subseteq ToSet(y.prop[v])
    <3>1. \A a \in ToSet(x.prop[v]) : a \in x.successors /\ EndNode(g, a) = v
      BY DEF LayerNet, Cursors
    <3>2. ToSet(y.prop[v]) \subseteq ToSet(x.prop[v]) /\ UsableArcs(g, x, v) \subseteq ToSet(y.prop[v])
      BY DEF MovedOn
    <3>. QED BY <1>2, <3>1, <3>2
  <2>. QED BY <2>1 DEF Cursors
<1>. QED BY <1>1, <1>2, <1>3, <1>4 DEF LayerNet

LEMMA FindPathKeeps ==
  ASSUME FlowInv, FindPath
  PROVE  FlowInv'
<1>1. step = "block" /\ ~Blocked(aux, t)
  BY DEF FindPath
<1>2. /\ proc # "PREFLOW" /\ IsNetwork(G) /\ ret = 0 /\ MinCut \in Nat /\ val \in Nat
      /\ lower \in Int /\ upper \in Int /\ lower <= MinCut /\ MinCut <= upper
      /\ (proc \in {"SAP", "DINIC"} => G.delta = 0) /\ proc = "DINIC"
      /\ dist \in [Node -> 0 .. n \union {InfFloat}] /\ aux \in AuxTypes
      /\ Carries(G, val, s, 0)
  BY <1>1, PathFacts
<1>3. LayerNet(G, aux, dist)
  BY <1>1 DEF FlowInv, Layers
<1>4. /\ methMXF' = methMXF /\ proc' = proc /\ running' = running /\ G' = G /\ dist' = dist
      /\ UNCHANGED preflowVars /\ lower' = lower /\ upper' = upper
  BY DEF FindPath, timerVars
<1>. DEFINE p == PathTo(t)
            x == FindCap(G, p)
            on == {EndNode(G, p[i]) : i \in DOMAIN p}
            moved == [v \in Node |-> IF v \in on THEN Skipped(v) ELSE aux.prop[v]]
<1>5. IF x = InfCap
      THEN ret' = InfCap /\ step' = "check" /\ UNCHANGED <<val, aux>>
      ELSE /\ val' = val + x /\ step' = "push"
           /\ aux' = [aux EXCEPT !.path = p, !.lambda = x, !.prop = moved]
           /\ UNCHANGED ret
  BY DEF FindPath
<1>6. Found(p)
  BY <1>1, <1>2, <1>3, PathToIs
<1>. HIDE DEF p
<1>7. p \in Seq(Arc) /\ Len(p) \in Nat /\ Len(p) > 0 /\ DOMAIN p = 1 .. Len(p) /\ \A i \in 1 .. Len(p) : p[i] \in Arc
  BY <1>6 DEF Found
<1>8. /\ x \in Nat /\ \A i \in 1 .. Len(p) : x <= Res(p[i])
      /\ \E i \in 1 .. Len(p) : x = Res(p[i])
  BY <1>2, <1>7, FindCapIs
<1>. HIDE DEF x
<1>9. x > 0
  <2>1. \A i \in 1 .. Len(p) : Res(p[i]) > 0
    BY <1>6 DEF Found, UsableArcs, Res
  <2>. QED BY <1>8, <2>1
<1>10. CASE x = InfCap
  <2>1. ret' = InfCap /\ step' = "check" /\ val' = val /\ aux' = aux
    BY <1>5, <1>10
  <2>2. MinCut >= InfCap
    <3>1. ASSUME NEW X, IsCut(X) PROVE \E a \in Arc : Leaves(G, X, a) /\ ResCap(G, a) >= InfCap
      <4>1. PICK i \in 1 .. Len(p) : Leaves(G, X, p[i])
        BY <1>2, <1>6, <3>1, FoundCross
      <4>2. p[i] \in Arc /\ InfCap <= Res(p[i])
        BY <1>7, <1>8, <1>10, <4>1
      <4>3. ResCap(G, p[i]) >= InfCap
        <5>1. ResCap(G, p[i]) \in Nat
          BY <1>2, <4>2, NetworkArcs
        <5>. QED BY <4>2, <5>1, Sizes DEF Res
      <4>. QED BY <4>1, <4>2, <4>3
    <3>2. \A v \in Inner : Divergence(G, v) >= 0
      BY <1>2, CarriesFlow
    <3>3. Divergence(G, t) >= 0
      BY <1>2, CarriesFlow DEF Div
    <3>. QED BY <1>2, <3>1, <3>2, <3>3, Sizes, UnboundedCut DEF MinCut
  <2>3. PathFlow' /\ Layers'
    BY <1>2, <1>4, <2>1, <2>2 DEF PathFlow, PathEnd, Layers, MinCut
  <2>. QED BY <1>2, <1>4, <2>1, <2>3, Sizes, PathMoves, KeptNet
<1>11. CASE x # InfCap
  <2>1. val' = val + x /\ step' = "push" /\ ret' = ret /\ aux' = [aux EXCEPT !.path = p, !.lambda = x, !.prop = moved]
    BY <1>5, <1>11
  <2>2. val' \in Nat
    BY <1>2, <1>8, <2>1
  <2>3. /\ aux = [prop |-> aux.prop, degree |-> aux.degree, successors |-> aux.successors, path |-> aux.path, lambda |-> aux.lambda]
        /\ aux.prop \in [Node -> Seq(Arc)] /\ aux.degree \in [Node -> 0 .. 2 * m] /\ aux.successors \in SUBSET Arc
    BY <1>2, AuxParts
  <2>. HIDE DEF moved
  <2>4. aux' = [prop |-> moved, degree |-> aux.degree, successors |-> aux.successors, path |-> p, lambda |-> x]
    BY <2>1, <2>3
  <2>5. ASSUME NEW v \in Node, v \in on
        PROVE  /\ Skipped(v) \in Seq(Arc) /\ Skipped(v) # <<>>
               /\ ToSet(Skipped(v)) \subseteq ToSet(aux.prop[v])
               /\ UsableArcs(G, aux, v) \subseteq ToSet(Skipped(v))
    <3>1. PICK i \in 1 .. Len(p) : v = EndNode(G, p[i])
      BY <1>7, <2>5
    <3>2. v # s /\ ~Blocked(aux, v)
      BY <1>6, <3>1 DEF Found
    <3>. QED BY <1>2, <1>3, <3>2, SkippedIs DEF LayerNet
  <2>6. ASSUME NEW v \in Node
        PROVE  /\ moved[v] \in Seq(Arc)
               /\ ToSet(moved[v]) \subseteq ToSet(aux.prop[v]) /\ UsableArcs(G, aux, v) \subseteq ToSet(moved[v])
    <3>1. CASE v \in on
      BY <2>5, <3>1 DEF moved
    <3>2. CASE v \notin on
      <4>1. moved[v] = aux.prop[v]
        BY <3>2 DEF moved
      <4>. QED BY <1>3, <2>3, <4>1 DEF LayerNet, Cursors
    <3>. QED BY <3>1, <3>2
  <2>7. moved \in [Node -> Seq(Arc)]
    BY <2>6 DEF moved
  <2>8. aux' \in AuxTypes
    BY <1>7, <1>8, <2>3, <2>4, <2>7 DEF AuxTypes
  <2>9. LayerNet(G, aux', dist) /\ \A v : UsableArcs(G, aux', v) = UsableArcs(G, aux, v) /\ Blocked(aux', v) = Blocked(aux, v)
    <3>1. aux'.prop = moved /\ aux'.degree = aux.degree /\ aux'.successors = aux.successors
      BY <2>4
    <3>2. MovedOn(G, aux, aux')
      BY <2>6, <3>1 DEF MovedOn
    <3>. QED BY <1>3, <3>1, <3>2, MovedCursors
  <2>10. Rest(G, aux', dist, p)
    <3>1. ASSUME NEW i \in 1 .. Len(p)
          PROVE  /\ p[i] \in aux'.successors /\ ResCap(G, p[i]) >= aux'.lambda /\ dist[EndNode(G, p[i])] = Len(p) + 1 - i
                 /\ StartNode(G, p[i]) = (IF i = Len(p) THEN s ELSE EndNode(G, p[i + 1]))
                 /\ ~Blocked(aux', StartNode(G, p[i]))
                 /\ aux'.prop[EndNode(G, p[i])] # <<>> /\ Head(aux'.prop[EndNode(G, p[i])]) = p[i]
      <4>. DEFINE w == EndNode(G, p[i])
      <4>1. /\ p[i] = Head(Skipped(w)) /\ w \in Node \ {s} /\ p[i] \in UsableArcs(G, aux, w) /\ dist[w] = Len(p) + 1 - i
            /\ StartNode(G, p[i]) = (IF i = Len(p) THEN s ELSE EndNode(G, p[i + 1]))
        BY <1>6, <3>1 DEF Found
      <4>2. w \in on /\ aux'.prop[w] = Skipped(w)
        <5>1. w \in on
          BY <1>7
        <5>2. moved[w] = Skipped(w)
          BY <4>1, <5>1 DEF moved
        <5>. QED BY <2>4, <5>1, <5>2
      <4>3. Skipped(w) # <<>>
        BY <2>5, <4>1, <4>2
      <4>4. p[i] \in aux.successors /\ ~Blocked(aux, StartNode(G, p[i]))
        BY <4>1 DEF UsableArcs
      <4>5. ResCap(G, p[i]) >= x
        <5>1. ResCap(G, p[i]) \in Nat /\ x <= ResCap(G, p[i])
          BY <1>2, <1>7, <1>8, NetworkArcs DEF Res
        <5>. QED BY <1>8, <5>1
      <4>. QED BY <2>4, <2>9, <4>1, <4>2, <4>3, <4>4, <4>5
    <3>. QED BY <3>1 DEF Rest
  <2>11. aux'.path = p /\ aux'.lambda = x /\ p # <<>> /\ EndNode(G, Head(p)) = t
    BY <1>6, <1>7, <2>4 DEF Found
  <2>12. Carries(G, val', t, x)
    <3>1. ASSUME NEW v \in Node \ {s} PROVE Divergence(G, v) = (IF v = t THEN val' ELSE 0) - (IF v = t THEN x ELSE 0)
      <4>1. Divergence(G, v) = IF v = t THEN val ELSE 0
        BY <1>2 DEF Carries
      <4>. QED BY <1>2, <1>8, <2>1, <4>1
    <3>. QED BY <3>1 DEF Carries
  <2>13. Layers'
    BY <1>4, <1>9, <2>1, <2>9, <2>10, <2>11, <2>12 DEF Layers
  <2>14. PathFlow'
    BY <2>1 DEF PathFlow
  <2>. QED BY <1>2, <1>4, <2>1, <2>2, <2>8, <2>13, <2>14, PathMoves, KeptNet
<1>. QED BY <1>10, <1>11
(* An increasing iteration on sets of nodes comes to a rest within n steps,  *)
(* if it does not begin with the empty set.                                  *)
Grown(F, R) == \A k \in 1 .. n : R[k] = F[R[k - 1]] /\ R[k - 1] \subseteq R[k]

LEMMA Growing ==
  ASSUME NEW F, NEW R \in [0 .. n -> SUBSET Node], Grown(F, R), R[0] # {}
  PROVE  F[R[n]] = R[n]
<1>. DEFINE D == [v \in Node |-> Depth(R, v)]
<1>0. n \in Nat /\ n > 1
  BY Sizes
<1>1. ASSUME NEW v \in Node
      PROVE  D[v] \in 0 .. n + 1 /\ \A k \in 0 .. n : v \in R[k] <=> D[v] <= k
  <2>1. \A k \in 1 .. n : R[k - 1] \subseteq R[k]
    BY DEF Grown
  <2>. QED BY <2>1, DepthIs
<1>. HIDE DEF D
<1>2. PICK w \in Node : w \in R[0]
  <2>1. R[0] \in SUBSET Node
    BY <1>0
  <2>. QED BY <2>1
<1>3. D[w] = 0
  <2>1. 0 \in 0 .. n
    BY <1>0
  <2>2. D[w] <= 0
    BY <1>1, <1>2, <2>1
  <2>. QED BY <1>1, <2>2
<1>4. PICK k \in 1 .. n : \A v \in Node \ {w} : D[v] # k
  <2>1. IsFiniteSet(Node \ {w}) /\ Cardinality(Node \ {w}) = n - 1
    BY <1>2, NodeCount, FS_RemoveElement
  <2>2. n - 1 < n /\ 1 \in Int /\ 1 .. 1 + n - 1 = 1 .. n
    BY <1>0
  <2>3. Misses(D, Node \ {w}, 1, n)
    BY <1>0, <2>1, <2>2, Pigeons
  <2>4. \E i \in 1 .. 1 + n - 1 : \A v \in Node \ {w} : D[v] # i
    BY <2>3 DEF Misses
  <2>. QED BY <2>2, <2>4
<1>5. k \in 0 .. n /\ k - 1 \in 0 .. n /\ k - 1 \in Nat /\ k \in Nat
  BY <1>0
<1>6. R[k] = R[k - 1]
  <2>1. R[k - 1] \subseteq R[k] /\ R[k] \in SUBSET Node
    BY <1>5 DEF Grown
  <2>2. ASSUME NEW v \in R[k] PROVE v \in R[k - 1]
    <3>1. v \in Node
      BY <2>1
    <3>2. D[v] <= k
      BY <1>1, <1>5, <3>1
    <3>3. D[v] # k
      BY <1>3, <1>4, <3>1
    <3>4. D[v] <= k - 1
      BY <1>1, <1>5, <3>1, <3>2, <3>3
    <3>. QED BY <1>1, <1>5, <3>1, <3>4
  <2>. QED BY <2>1, <2>2
<1>7. F[R[k - 1]] = R[k - 1]
  BY <1>6 DEF Grown
<1>. DEFINE S == {j \in 0 .. n : k - 1 <= j => R[j] = R[k - 1]}
<1>8. 0 \in S
  <2>1. 0 \in 0 .. n /\ (k - 1 <= 0 => k - 1 = 0)
    BY <1>0, <1>5
  <2>. QED BY <2>1
<1>9. ASSUME NEW j \in 0 .. n - 1, j \in S PROVE j + 1 \in S
  <2>1. j + 1 \in 1 .. n /\ j + 1 \in 0 .. n /\ (j + 1) - 1 = j
    BY <1>0
  <2>2. ASSUME k - 1 <= j + 1 PROVE R[j + 1] = R[k - 1]
    <3>1. CASE k - 1 = j + 1
      BY <3>1
    <3>2. CASE k - 1 # j + 1
      <4>1. k - 1 <= j
        BY <1>5, <2>1, <2>2, <3>2
      <4>2. R[j] = R[k - 1]
        BY <1>9, <4>1
      <4>3. R[j + 1] = F[R[j]]
        BY <2>1 DEF Grown
      <4>. QED BY <1>7, <4>2, <4>3
    <3>. QED BY <3>1, <3>2
  <2>. QED BY <2>1, <2>2
<1>. HIDE DEF S
<1>10. n \in S
  <2>1. \A j \in 0 .. n : j \in S
    BY <1>0, <1>8, <1>9, CountUp
  <2>. QED BY <1>0, <2>1
<1>11. R[n] = R[k - 1]
  BY <1>0, <1>5, <1>10 DEF S
<1>. QED BY <1>7, <1>11

(* The nodes that TopErasure deletes: the end node of the arc, if that was   *)
(* its last prop, and those that lose all their props with deleted nodes.    *)
Indegree(x, v, y) == IF y = v THEN x.degree[y] - 1 ELSE x.degree[y]
Erases(g, x, v, D) ==
  /\ D \in SUBSET Node
  /\ \A y \in Node :
       y \in D <=> \/ y = v /\ Indegree(x, v, y) = 0
                   \/ Indegree(x, v, y) > 0 /\ Lost(g, x, D, y) >= Indegree(x, v, y)
Erased(g, x, v, D, z) ==
  /\ z.prop = [x.prop EXCEPT ![v] = Tail(@)]
  /\ z.degree = [y \in Node |-> Indegree(x, v, y) - Lost(g, x, D, y)]
  /\ z = [prop |-> z.prop, degree |-> z.degree, successors |-> x.successors, path |-> x.path, lambda |-> x.lambda]

LEMMA LostIs ==
  ASSUME NEW g, NEW x, x.successors \in SUBSET Arc, NEW S, NEW T, S \subseteq T, NEW y
  PROVE  Lost(g, x, S, y) \in Nat /\ Lost(g, x, S, y) <= Lost(g, x, T, y) /\ Lost(g, x, {}, y) = 0
<1>. DEFINE K(U) == {b \in x.successors : StartNode(g, b) \in U /\ EndNode(g, b) = y /\ ResCap(g, b) > 0}
<1>1. \A U : K(U) \in SUBSET Arc /\ Lost(g, x, U, y) = Cardinality(K(U))
  BY DEF Lost
<1>2. K(S) \in SUBSET K(T) /\ K({}) = {}
  OBVIOUS
<1>. HIDE DEF K
<1>3. IsFiniteSet(K(T)) /\ Cardinality(K(S)) \in 0 .. 2 * m /\ Cardinality(K({})) = 0
  <2>1. K(T) \in SUBSET Arc /\ K(S) \in SUBSET Arc /\ K({}) \in SUBSET Arc
    BY <1>1
  <2>2. IsFiniteSet(K(T))
    BY <2>1, ArcSets
  <2>3. Cardinality(K(S)) \in 0 .. 2 * m
    BY <2>1, ArcSets
  <2>4. Cardinality(K({})) = 0
    BY <1>2, FS_EmptySet
  <2>. QED BY <2>2, <2>3, <2>4
<1>4. Cardinality(K(S)) <= Cardinality(K(T))
  BY <1>2, <1>3, FS_Subset
<1>. QED BY <1>1, <1>3, <1>4, Sizes
(* What TopErasure does.                                                     *)
LEMMA ErasureIs ==
  ASSUME NEW g, IsNetwork(g), NEW x \in AuxTypes, NEW a \in Arc, x.degree[EndNode(g, a)] > 0
  PROVE  \E D : Erases(g, x, EndNode(g, a), D) /\ Erased(g, x, EndNode(g, a), D, TopErasure(g, x, a))
<1>. DEFINE v == EndNode(g, a)
            deg == [x.degree EXCEPT ![v] = @ - 1]
            Emptied(T) == {y \in Node : deg[y] > 0 /\ Lost(g, x, T, y) >= deg[y]}
            first == {w \in {v} : deg[w] = 0}
            A == SUBSET Node
            F == [S \in A |-> S \union Emptied(S)]
            Is(R) == R = [k \in 0 .. n |-> IF k = 0 THEN first ELSE UNION {T \union Emptied(T) : T \in {R[k - 1]}}]
            Z == CHOOSE R : Is(R)
<1>0. n \in Nat /\ m \in Nat
  BY Sizes
<1>1. /\ x = [prop |-> x.prop, degree |-> x.degree, successors |-> x.successors, path |-> x.path, lambda |-> x.lambda]
      /\ x.prop \in [Node -> Seq(Arc)] /\ x.degree \in [Node -> 0 .. 2 * m] /\ x.successors \in SUBSET Arc
  BY AuxParts
<1>2. v \in Node
  BY NetworkArcs
<1>. HIDE DEF v
<1>3. x.degree[v] > 0
  BY DEF v
<1>4. \A y \in Node : deg[y] = Indegree(x, v, y) /\ deg[y] \in Nat
  <2>1. \A y \in Node : x.degree[y] \in Nat
    BY <1>0, <1>1
  <2>. QED BY <1>1, <1>2, <1>3, <2>1 DEF Indegree
<1>5. \A T : Emptied(T) \in SUBSET Node
  OBVIOUS
<1>6. first \in A
  BY <1>2
<1>7. TopErasure(g, x, a) = [x EXCEPT !.prop[v] = Tail(@),
                                      !.degree = [y \in Node |-> deg[y] - Lost(g, x, CHOOSE S \in {Z[n]} : TRUE, y)]]
  BY DEF TopErasure, v
<1>. HIDE DEF deg
<1>8. \A S : UNION {T \union Emptied(T) : T \in {S}} = S \union Emptied(S)
  OBVIOUS
<1>. HIDE DEF Emptied, first
<1>. DEFINE Hs == [i \in 1 .. n |-> F]
<1>9. Hs \in [1 .. n -> [A -> A]] /\ \A S \in A : F[S] = S \union Emptied(S)
  BY <1>5
<1>10. \A i \in 1 .. n : Hs[i] = F
  OBVIOUS
<1>. HIDE DEF F, A, Hs
<1>11. PICK R \in [0 .. n -> A] : R[0] = first /\ \A i \in 1 .. n : R[i] = Hs[i][R[i - 1]]
  <2>1. Solvable(A, first, n, Hs)
    BY <1>0, <1>6, <1>9, Iterates
  <2>. QED BY <2>1 DEF Solvable
<1>12. ASSUME NEW i \in 1 .. n PROVE R[i] = R[i - 1] \union Emptied(R[i - 1])
  <2>1. i - 1 \in 0 .. n
    BY <1>0
  <2>. QED BY <1>9, <1>10, <1>11, <2>1
<1>13. Is(R)
  <2>1. ASSUME NEW k \in 0 .. n PROVE R[k] = IF k = 0 THEN first ELSE UNION {T \union Emptied(T) : T \in {R[k - 1]}}
    <3>1. CASE k = 0
      BY <1>11, <3>1
    <3>2. CASE k # 0
      <4>1. k \in 1 .. n
        BY <3>2
      <4>. QED BY <1>8, <1>12, <3>2, <4>1
    <3>. QED BY <3>1, <3>2
  <2>2. R = [k \in 0 .. n |-> R[k]]
    BY <1>11
  <2>. QED BY <2>1, <2>2
<1>14. Is(Z)
  BY <1>13
<1>. HIDE DEF Z
<1>15. Z = [k \in 0 .. n |-> IF k = 0 THEN first ELSE Z[k - 1] \union Emptied(Z[k - 1])]
  BY <1>8, <1>14
<1>16. Z[0] = first /\ \A k \in 1 .. n : Z[k] = Z[k - 1] \union Emptied(Z[k - 1])
  <2>1. 0 \in 0 .. n /\ \A k \in 1 .. n : k \in 0 .. n /\ k # 0
    BY <1>0
  <2>. QED BY <1>15, <2>1
<1>17. \A k \in 0 .. n : Z[k] \in A
  <2>. DEFINE S == {k \in 0 .. n : Z[k] \in A}
  <2>1. 0 \in S
    BY <1>0, <1>6, <1>16
  <2>2. ASSUME NEW k \in 0 .. n - 1, k \in S PROVE k + 1 \in S
    <3>1. k + 1 \in 1 .. n /\ k + 1 \in 0 .. n /\ (k + 1) - 1 = k
      BY <1>0
    <3>2. Z[k + 1] = Z[k] \union Emptied(Z[k])
      BY <1>16, <3>1
    <3>. QED BY <1>5, <2>2, <3>1, <3>2 DEF A
  <2>. HIDE DEF S
  <2>3. \A k \in 0 .. n : k \in S
    BY <1>0, <2>1, <2>2, CountUp
  <2>. QED BY <2>3 DEF S
<1>18. Z \in [0 .. n -> SUBSET Node] /\ Z[n] \in SUBSET Node
  BY <1>0, <1>15, <1>17 DEF A
<1>19. Grown(F, Z)
  <2>1. ASSUME NEW k \in 1 .. n PROVE Z[k] = F[Z[k - 1]] /\ Z[k - 1] \subseteq Z[k]
    <3>1. k - 1 \in 0 .. n
      BY <1>0
    <3>. QED BY <1>9, <1>16, <1>17, <3>1
  <2>. QED BY <2>1 DEF Grown
<1>20. Emptied({}) = {}
  <2>1. ASSUME NEW y \in Node, deg[y] > 0, Lost(g, x, {}, y) >= deg[y] PROVE FALSE
    <3>1. Lost(g, x, {}, y) = 0 /\ deg[y] \in Nat
      BY <1>1, <1>4, LostIs
    <3>. QED BY <2>1, <3>1
  <2>. QED BY <2>1 DEF Emptied
<1>21. Emptied(Z[n]) \subseteq Z[n]
  <2>1. CASE first # {}
    <3>1. F[Z[n]] = Z[n]
      BY <1>16, <1>18, <1>19, <2>1, Growing
    <3>. QED BY <1>9, <1>18, <3>1 DEF A
  <2>2. CASE first = {}
    <3>. DEFINE S == {k \in 0 .. n : Z[k] = {}}
    <3>1. 0 \in S
      BY <1>0, <1>16, <2>2
    <3>2. ASSUME NEW k \in 0 .. n - 1, k \in S PROVE k + 1 \in S
      <4>1. k + 1 \in 1 .. n /\ k + 1 \in 0 .. n /\ (k + 1) - 1 = k
        BY <1>0
      <4>2. Z[k + 1] = Z[k] \union Emptied(Z[k])
        BY <1>16, <4>1
      <4>. QED BY <1>20, <3>2, <4>1, <4>2
    <3>. HIDE DEF S
    <3>3. \A k \in 0 .. n : k \in S
      BY <1>0, <3>1, <3>2, CountUp
    <3>4. Z[n] = {}
      BY <1>0, <3>3 DEF S
    <3>. QED BY <1>20, <3>4
  <2>. QED BY <2>1, <2>2
<1>22. \A k \in 0 .. n : Z[k] \subseteq first \union Emptied(Z[n]) /\ first \subseteq Z[k]
  <2>1. \A k \in 0 .. n : Z[k] \subseteq Z[n]
    <3>. DEFINE S == {k \in 0 .. n : Z[n - k] \subseteq Z[n]}
    <3>1. 0 \in S
      BY <1>0
    <3>2. ASSUME NEW k \in 0 .. n - 1, k \in S PROVE k + 1 \in S
      <4>1. n - k \in 1 .. n /\ k + 1 \in 0 .. n /\ (n - k) - 1 = n - (k + 1)
        BY <1>0
      <4>2. Z[(n - k) - 1] \subseteq Z[n - k]
        BY <1>19, <4>1 DEF Grown
      <4>. QED BY <3>2, <4>1, <4>2
    <3>. HIDE DEF S
    <3>3. \A k \in 0 .. n : k \in S
      BY <1>0, <3>1, <3>2, CountUp
    <3>4. ASSUME NEW k \in 0 .. n PROVE Z[k] \subseteq Z[n]
      <4>1. n - k \in 0 .. n /\ n - (n - k) = k
        BY <1>0
      <4>. QED BY <3>3, <4>1 DEF S
    <3>. QED BY <3>4
  <2>2. ASSUME NEW T, NEW U, T \subseteq U PROVE Emptied(T) \subseteq Emptied(U)
    <3>1. ASSUME NEW y \in Node, deg[y] > 0, Lost(g, x, T, y) >= deg[y] PROVE Lost(g, x, U, y) >= deg[y]
      <4>1. Lost(g, x, T, y) \in Nat /\ Lost(g, x, U, y) \in Nat /\ Lost(g, x, T, y) <= Lost(g, x, U, y)
        BY <1>1, <2>2, LostIs
      <4>2. deg[y] \in Nat
        BY <1>4
      <4>. QED BY <3>1, <4>1, <4>2
    <3>. QED BY <3>1 DEF Emptied
  <2>. DEFINE S == {k \in 0 .. n : Z[k] \subseteq first \union Emptied(Z[n]) /\ first \subseteq Z[k]}
  <2>3. 0 \in S
    BY <1>0, <1>16
  <2>4. ASSUME NEW k \in 0 .. n - 1, k \in S PROVE k + 1 \in S
    <3>1. k + 1 \in 1 .. n /\ k + 1 \in 0 .. n /\ (k + 1) - 1 = k /\ k \in 0 .. n
      BY <1>0
    <3>2. Z[k + 1] = Z[k] \union Emptied(Z[k])
      BY <1>16, <3>1
    <3>3. Emptied(Z[k]) \subseteq Emptied(Z[n])
      BY <2>1, <2>2, <3>1
    <3>. QED BY <2>4, <3>1, <3>2, <3>3
  <2>. HIDE DEF S
  <2>5. \A k \in 0 .. n : k \in S
    BY <1>0, <2>3, <2>4, CountUp
  <2>. QED BY <2>5 DEF S
<1>23. Z[n] = first \union Emptied(Z[n])
  <2>1. n \in 0 .. n
    BY <1>0
  <2>. QED BY <1>21, <1>22, <2>1
<1>. DEFINE D == Z[n]
<1>24. D \in SUBSET Node /\ D = first \union Emptied(D)
  BY <1>18, <1>23
<1>25. (CHOOSE S \in {Z[n]} : TRUE) = D
  OBVIOUS
<1>. HIDE DEF D
<1>26. Erases(g, x, v, D)
  <2>1. ASSUME NEW y \in Node
        PROVE  y \in D <=> \/ y = v /\ Indegree(x, v, y) = 0
                           \/ Indegree(x, v, y) > 0 /\ Lost(g, x, D, y) >= Indegree(x, v, y)
    BY <1>4, <1>24 DEF first, Emptied
  <2>. QED BY <1>24, <2>1 DEF Erases
<1>27. Erased(g, x, v, D, TopErasure(g, x, a))
  <2>1. TopErasure(g, x, a) = [x EXCEPT !.prop[v] = Tail(@), !.degree = [y \in Node |-> deg[y] - Lost(g, x, D, y)]]
    BY <1>7, <1>25
  <2>2. [y \in Node |-> deg[y] - Lost(g, x, D, y)] = [y \in Node |-> Indegree(x, v, y) - Lost(g, x, D, y)]
    BY <1>4
  <2>3. TopErasure(g, x, a) = [prop |-> [x.prop EXCEPT ![v] = Tail(@)],
                               degree |-> [y \in Node |-> Indegree(x, v, y) - Lost(g, x, D, y)],
                               successors |-> x.successors, path |-> x.path, lambda |-> x.lambda]
    BY <1>1, <2>1, <2>2
  <2>. QED BY <2>3 DEF Erased
<1>. QED BY <1>26, <1>27 DEF v
(* The deleted nodes are not below the end node of the saturated arc, and    *)
(* none of them was blocked.                                                 *)
LEMMA ErasedLevels ==
  ASSUME NEW g, IsNetwork(g), NEW x \in AuxTypes, NEW v \in Node, x.degree[v] > 0, NEW D, Erases(g, x, v, D),
         NEW d, Layered(d), Graded(g, x, d), NEW y \in D
  PROVE  y \in Node /\ d[v] <= d[y] /\ x.degree[y] > 0
<1>0. /\ x.degree \in [Node -> 0 .. 2 * m] /\ x.successors \in SUBSET Arc
      /\ m \in Nat /\ D \in SUBSET Node /\ d \in [Node -> Nat]
  <2>1. d \in [Node -> Nat]
    BY Sizes DEF Layered
  <2>. QED BY <2>1, AuxParts, Sizes DEF Erases
<1>1. \A w \in Node : x.degree[w] \in Nat /\ d[w] \in Nat
  BY <1>0
<1>2. x.degree[y] > 0
  <2>1. y \in Node /\ (y = v \/ Indegree(x, v, y) > 0)
    BY <1>0 DEF Erases
  <2>. QED BY <1>1, <2>1 DEF Indegree
<1>. DEFINE T == {d[w] : w \in D}
<1>3. T \in SUBSET Nat /\ T # {}
  BY <1>0, <1>1
<1>4. PICK k \in T : \A j \in T : k <= j
  BY <1>3, LeastNumber
<1>5. PICK w \in D : k = d[w]
  BY <1>4
<1>6. w = v
  <2>. SUFFICES ASSUME w # v PROVE FALSE
    OBVIOUS
  <2>1. w \in Node /\ Indegree(x, v, w) > 0 /\ Lost(g, x, D, w) >= Indegree(x, v, w)
    BY <1>0, <1>5 DEF Erases
  <2>. DEFINE K == {b \in x.successors : StartNode(g, b) \in D /\ EndNode(g, b) = w /\ ResCap(g, b) > 0}
  <2>2. Cardinality(K) # 0
    <3>1. Lost(g, x, D, w) = Cardinality(K)
      BY DEF Lost
    <3>2. Indegree(x, v, w) \in Nat
      BY <1>1, <2>1 DEF Indegree
    <3>. QED BY <2>1, <3>1, <3>2
  <2>3. K # {}
    <3>1. K \in SUBSET Arc
      BY <1>0
    <3>. QED BY <2>2, <3>1, ArcSets
  <2>4. PICK b \in x.successors : StartNode(g, b) \in D /\ EndNode(g, b) = w
    BY <2>3
  <2>5. d[w] = d[StartNode(g, b)] + 1
    BY <2>4 DEF Graded
  <2>6. StartNode(g, b) \in Node /\ d[StartNode(g, b)] \in T
    BY <1>0, <2>4
  <2>7. k <= d[StartNode(g, b)]
    BY <1>4, <2>6
  <2>. QED BY <1>1, <1>5, <2>5, <2>6, <2>7
<1>7. d[v] <= d[y]
  <2>1. d[y] \in T
    OBVIOUS
  <2>. QED BY <1>4, <1>5, <1>6, <2>1
<1>. QED BY <1>0, <1>2, <1>7

(* After the erasure the indegrees count the usable arcs again, and nodes    *)
(* below the end node of the arc have kept theirs.                           *)
Reduced(g, x, v) == \A y \in Node : Indegree(x, v, y) = Cardinality(UsableArcs(g, x, y))
LEMMA ErasureKeeps ==
  ASSUME NEW g, IsNetwork(g), NEW x \in AuxTypes, NEW d, Layered(d), d[t] # InfFloat, Graded(g, x, d), Cursors(g, x),
         NEW a, a \in x.successors, NEW v, v = EndNode(g, a), ResCap(g, a) = 0, x.degree[v] > 0, Reduced(g, x, v),
         x.prop[v] # <<>>, Head(x.prop[v]) = a,
         NEW D, Erases(g, x, v, D), NEW z, Erased(g, x, v, D, z)
  PROVE  /\ z \in AuxTypes /\ LayerNet(g, z, d)
         /\ z.successors = x.successors /\ z.path = x.path /\ z.lambda = x.lambda
         /\ \A y \in Node : y # v => z.prop[y] = x.prop[y]
         /\ \A y \in Node : d[y] < d[v] => z.degree[y] = x.degree[y]
<1>. DEFINE U(y) == UsableArcs(g, x, y)
            K(y) == {b \in x.successors : StartNode(g, b) \in D /\ EndNode(g, b) = y /\ ResCap(g, b) > 0}
<1>0. /\ x.prop \in [Node -> Seq(Arc)] /\ x.degree \in [Node -> 0 .. 2 * m] /\ x.successors \in SUBSET Arc
      /\ x.path \in Seq(Arc) /\ x.lambda \in Nat
      /\ m \in Nat /\ D \in SUBSET Node
  BY AuxParts, Sizes DEF Erases
<1>1. d \in [Node -> Nat] /\ \A y \in Node : d[y] \in Nat /\ x.degree[y] \in Nat
  BY <1>0, Sizes DEF Layered
<1>2. v \in Node /\ a \in Arc /\ StartNode(g, a) \in Node /\ d[v] = d[StartNode(g, a)] + 1
  BY <1>0, NetworkArcs DEF Graded
<1>3. \A y \in D : y \in Node /\ d[v] <= d[y] /\ x.degree[y] > 0
  BY <1>2, ErasedLevels
<1>4. s \notin D /\ v # s
  <2>1. d[s] = 0 /\ s \in Node
    BY Ends DEF Layered
  <2>. QED BY <1>1, <1>2, <1>3, <2>1
<1>5. ASSUME NEW y \in Node
      PROVE  /\ K(y) \subseteq U(y) /\ U(y) \in SUBSET Arc /\ K(y) \in SUBSET Arc
             /\ z.degree[y] = Cardinality(U(y) \ K(y)) /\ z.degree[y] = Cardinality(U(y)) - Cardinality(K(y))
             /\ z.degree[y] \in 0 .. 2 * m
             /\ Indegree(x, v, y) = Cardinality(U(y)) /\ Lost(g, x, D, y) = Cardinality(K(y))
             /\ Cardinality(U(y)) \in Nat /\ Cardinality(K(y)) \in Nat
  <2>1. U(y) \in SUBSET Arc /\ K(y) \in SUBSET Arc
    BY <1>0 DEF UsableArcs
  <2>2. ASSUME NEW b \in K(y) PROVE b \in U(y)
    <3>1. x.degree[StartNode(g, b)] > 0
      BY <1>3
    <3>. QED BY <1>3, <3>1 DEF UsableArcs, Blocked
  <2>3. K(y) \subseteq U(y)
    BY <2>2
  <2>4. Indegree(x, v, y) = Cardinality(U(y)) /\ Lost(g, x, D, y) = Cardinality(K(y))
    BY DEF Reduced, Lost
  <2>5. z.degree[y] = Cardinality(U(y)) - Cardinality(K(y))
    <3>1. z.degree[y] = Indegree(x, v, y) - Lost(g, x, D, y)
      BY DEF Erased
    <3>. QED BY <2>4, <3>1
  <2>. HIDE DEF U, K
  <2>6. Cardinality(U(y) \ K(y)) = Cardinality(U(y)) - Cardinality(K(y))
    <3>1. U(y) \cap K(y) = K(y)
      BY <2>3
    <3>2. IsFiniteSet(U(y))
      BY <2>1, ArcSets
    <3>. QED BY <3>1, <3>2, FS_Difference
  <2>7. Cardinality(U(y) \ K(y)) \in 0 .. 2 * m
    <3>1. U(y) \ K(y) \in SUBSET Arc
      BY <2>1
    <3>. QED BY <3>1, ArcSets
  <2>8. Cardinality(U(y)) \in Nat /\ Cardinality(K(y)) \in Nat
    <3>1. Cardinality(U(y)) \in 0 .. 2 * m
      BY <2>1, ArcSets
    <3>2. Cardinality(K(y)) \in 0 .. 2 * m
      BY <2>1, ArcSets
    <3>. QED BY <1>0, <3>1, <3>2
  <2>. QED BY <2>1, <2>3, <2>4, <2>5, <2>6, <2>7, <2>8
<1>6. /\ z.successors = x.successors /\ z.path = x.path /\ z.lambda = x.lambda
      /\ z.prop = [x.prop EXCEPT ![v] = Tail(@)]
      /\ z = [prop |-> z.prop, degree |-> z.degree, successors |-> x.successors, path |-> x.path, lambda |-> x.lambda]
  <2>1. z = [prop |-> z.prop, degree |-> z.degree, successors |-> x.successors, path |-> x.path, lambda |-> x.lambda]
    BY DEF Erased
  <2>2. z.successors = x.successors
    BY <2>1
  <2>3. z.path = x.path
    BY <2>1
  <2>4. z.lambda = x.lambda
    BY <2>1
  <2>. QED BY <2>1, <2>2, <2>3, <2>4 DEF Erased
<1>7. x.prop[v] \in Seq(Arc) /\ Tail(x.prop[v]) \in Seq(Arc)
  <2>1. x.prop[v] \in Seq(Arc)
    BY <1>0, <1>2
  <2>. QED BY <2>1
<1>8. z \in AuxTypes
  <2>1. z.prop \in [Node -> Seq(Arc)]
    BY <1>0, <1>6, <1>7
  <2>2. z.degree \in [Node -> 0 .. 2 * m]
    <3>1. z.degree = [y \in Node |-> z.degree[y]]
      BY DEF Erased
    <3>. QED BY <1>5, <3>1
  <2>. QED BY <1>0, <1>6, <2>1, <2>2 DEF AuxTypes
<1>9. \A y \in Node : (y # v => z.prop[y] = x.prop[y]) /\ (y = v => z.prop[y] = Tail(x.prop[v]))
  BY <1>0, <1>6
<1>10. ASSUME NEW w \in Node PROVE Blocked(z, w) <=> Blocked(x, w) \/ w \in D
  <2>0. /\ w \in D <=> (w = v /\ Indegree(x, v, w) = 0) \/ (Indegree(x, v, w) > 0 /\ Lost(g, x, D, w) >= Indegree(x, v, w))
        /\ z.degree[w] = Indegree(x, v, w) - Lost(g, x, D, w) /\ z.degree[w] \in Nat
        /\ Indegree(x, v, w) \in Nat /\ Lost(g, x, D, w) \in Nat /\ x.degree[w] \in Nat
    <3>1. w \in D <=> (w = v /\ Indegree(x, v, w) = 0) \/ (Indegree(x, v, w) > 0 /\ Lost(g, x, D, w) >= Indegree(x, v, w))
      BY DEF Erases
    <3>. HIDE DEF U, K
    <3>2. /\ z.degree[w] = Cardinality(U(w)) - Cardinality(K(w)) /\ z.degree[w] \in 0 .. 2 * m
          /\ Indegree(x, v, w) = Cardinality(U(w)) /\ Lost(g, x, D, w) = Cardinality(K(w))
          /\ Cardinality(U(w)) \in Nat /\ Cardinality(K(w)) \in Nat
      BY <1>5
    <3>. QED BY <1>0, <1>1, <3>1, <3>2
  <2>1. w # v => x.degree[w] = Indegree(x, v, w)
    BY DEF Indegree
  <2>2. CASE w = s
    BY <1>4, <2>2 DEF Blocked
  <2>3. CASE w # s /\ w \in D
    <3>1. z.degree[w] = 0
      BY <2>0, <2>3
    <3>. QED BY <2>3, <3>1 DEF Blocked
  <2>4. CASE w # s /\ w \notin D
    <3>1. z.degree[w] = 0 <=> Indegree(x, v, w) = 0
      BY <2>0, <2>4
    <3>2. Indegree(x, v, w) = 0 => w # v
      BY <2>0, <2>4
    <3>3. x.degree[w] = 0 <=> Indegree(x, v, w) = 0
      BY <2>0, <2>1, <3>2
    <3>. QED BY <2>4, <3>1, <3>3 DEF Blocked
  <2>. QED BY <2>2, <2>3, <2>4
<1>11. ASSUME NEW y \in Node PROVE UsableArcs(g, z, y) = U(y) \ K(y)
  <2>1. ASSUME NEW b \in x.successors PROVE Blocked(z, StartNode(g, b)) <=> Blocked(x, StartNode(g, b)) \/ StartNode(g, b) \in D
    <3>1. StartNode(g, b) \in Node
      BY <1>0, NetworkArcs
    <3>. QED BY <1>10, <3>1
  <2>. QED BY <1>6, <2>1 DEF UsableArcs
<1>12. LayerNet(g, z, d)
  <2>1. Graded(g, z, d)
    BY <1>6 DEF Graded
  <2>2. Counted(g, z)
    BY <1>5, <1>11 DEF Counted
  <2>3. ASSUME NEW y \in Node
        PROVE  /\ \A b \in ToSet(z.prop[y]) : b \in z.successors /\ EndNode(g, b) = y
               /\ UsableArcs(g, z, y) \subseteq ToSet(z.prop[y])
    <3>1. /\ \A b \in ToSet(x.prop[y]) : b \in x.successors /\ EndNode(g, b) = y
          /\ U(y) \subseteq ToSet(x.prop[y])
      BY DEF Cursors
    <3>2. CASE y # v
      BY <1>6, <1>9, <1>11, <3>1, <3>2
    <3>3. CASE y = v
      <4>. DEFINE q == x.prop[v]
      <4>1. q \in Seq(Arc) /\ q # <<>> /\ Head(q) = a /\ z.prop[v] = Tail(q)
        BY <1>2, <1>7, <1>9
      <4>. HIDE DEF q
      <4>2. \A b : b \in ToSet(q) <=> b = a \/ b \in ToSet(Tail(q))
        BY <4>1, HeadAndTail
      <4>3. a \notin U(v)
        BY DEF UsableArcs
      <4>. QED BY <1>6, <1>11, <3>1, <3>3, <4>1, <4>2, <4>3 DEF q
    <3>. QED BY <3>2, <3>3
  <2>4. Cursors(g, z)
    BY <2>3 DEF Cursors
  <2>. QED BY <2>1, <2>2, <2>4 DEF LayerNet
<1>13. ASSUME NEW y \in Node, d[y] < d[v] PROVE z.degree[y] = x.degree[y]
  <2>1. K(y) = {}
    <3>1. ASSUME NEW b \in K(y) PROVE FALSE
      <4>1. b \in x.successors /\ StartNode(g, b) \in D /\ EndNode(g, b) = y
        OBVIOUS
      <4>2. d[y] = d[StartNode(g, b)] + 1
        BY <4>1 DEF Graded
      <4>3. StartNode(g, b) \in Node /\ d[v] <= d[StartNode(g, b)]
        BY <1>3, <4>1
      <4>. QED BY <1>1, <1>2, <1>13, <4>2, <4>3
    <3>. HIDE DEF K
    <3>. QED BY <3>1
  <2>2. y # v
    BY <1>1, <1>13
  <2>3. Indegree(x, v, y) = x.degree[y]
    BY <2>2 DEF Indegree
  <2>. HIDE DEF K, U
  <2>4. Cardinality(K(y)) = 0
    BY <2>1, FS_EmptySet
  <2>5. /\ z.degree[y] = Cardinality(U(y)) - Cardinality(K(y))
        /\ Indegree(x, v, y) = Cardinality(U(y)) /\ Cardinality(U(y)) \in Nat
    BY <1>5
  <2>. QED BY <2>3, <2>4, <2>5
<1>. QED BY <1>6, <1>8, <1>9, <1>12, <1>13
(* Flow is pushed on a usable arc, and the arc is erased if it is saturated. *)
SameLayers(x, y) == y.prop = x.prop /\ y.degree = x.degree /\ y.successors = x.successors
LEMMA PushedLayers ==
  ASSUME IsNetwork(G), aux \in AuxTypes, LayerNet(G, aux, dist), NEW a, a \in aux.successors, NEW c \in Nat, c > 0, c <= Res(a),
         ~Blocked(aux, StartNode(G, a)), aux.prop[EndNode(G, a)] # <<>>, Head(aux.prop[EndNode(G, a)]) = a,
         NEW g, g = Pushed(G, a, c), NEW x \in AuxTypes, SameLayers(aux, x),
         NEW z, z = IF ResCap(g, a) = 0 THEN TopErasure(g, x, a) ELSE x
  PROVE  /\ z \in AuxTypes /\ LayerNet(g, z, dist)
         /\ z.successors = x.successors /\ z.path = x.path /\ z.lambda = x.lambda
         /\ \A y \in Node : y # EndNode(G, a) => z.prop[y] = x.prop[y]
         /\ \A y \in Node : dist[y] < dist[EndNode(G, a)] => z.degree[y] = x.degree[y]
<1>. DEFINE v == EndNode(G, a)
<1>0. /\ aux.successors \in SUBSET Arc /\ aux.degree \in [Node -> 0 .. 2 * m] /\ m \in Nat
      /\ x.prop = aux.prop /\ x.degree = aux.degree /\ x.successors = aux.successors
  BY AuxParts, Sizes DEF SameLayers
<1>1. a \in Arc /\ v \in Node /\ StartNode(G, a) \in Node /\ Res(a) \in Nat
  BY <1>0, NetworkArcs DEF Res
<1>2. /\ IsNetwork(g) /\ SameNet(G, g) /\ ResCap(g, a) = Res(a) - c
      /\ \A b \in Arc \ {a, Twin(a)} : ResCap(g, b) = ResCap(G, b)
  BY <1>1, PushedNet DEF Res
<1>3. \A b : StartNode(g, b) = StartNode(G, b) /\ EndNode(g, b) = EndNode(G, b)
  BY <1>2, SameNetArcs
<1>4. \A b : Blocked(x, b) <=> Blocked(aux, b)
  BY <1>0 DEF Blocked
<1>5. Twin(a) \notin aux.successors
  <2>. SUFFICES ASSUME Twin(a) \in aux.successors PROVE FALSE
    OBVIOUS
  <2>1. StartNode(G, Twin(a)) = v /\ EndNode(G, Twin(a)) = StartNode(G, a)
    BY <1>1, NetworkArcs
  <2>2. dist[v] = dist[StartNode(G, a)] + 1
    BY DEF LayerNet, Graded
  <2>3. dist[StartNode(G, a)] = dist[v] + 1
    BY <2>1 DEF LayerNet, Graded
  <2>4. dist[v] \in Nat /\ dist[StartNode(G, a)] \in Nat
    BY <1>1, Sizes DEF LayerNet, Layered
  <2>. QED BY <2>2, <2>3, <2>4
<1>6. \A b \in aux.successors : b # a => ResCap(g, b) = ResCap(G, b)
  BY <1>0, <1>2, <1>5
<1>7. a \in UsableArcs(G, aux, v)
  BY <1>1 DEF UsableArcs, Res
<1>8. Graded(g, x, dist)
  BY <1>0, <1>3 DEF LayerNet, Graded
<1>9. \A y : UsableArcs(g, x, y) = IF ResCap(g, a) = 0 THEN UsableArcs(G, aux, y) \ {a} ELSE UsableArcs(G, aux, y)
  <2>1. ResCap(g, a) = 0 \/ ResCap(g, a) > 0
    BY <1>1, <1>2
  <2>2. ResCap(G, a) > 0 /\ ~(0 > 0)
    BY <1>1 DEF Res
  <2>. QED BY <1>0, <1>3, <1>4, <1>6, <2>1, <2>2 DEF UsableArcs
<1>10. Cursors(g, x)
  <2>1. ASSUME NEW y \in Node
        PROVE  /\ \A b \in ToSet(x.prop[y]) : b \in x.successors /\ EndNode(g, b) = y
               /\ UsableArcs(g, x, y) \subseteq ToSet(x.prop[y])
    <3>1. /\ \A b \in ToSet(aux.prop[y]) : b \in aux.successors /\ EndNode(G, b) = y
          /\ UsableArcs(G, aux, y) \subseteq ToSet(aux.prop[y])
      BY DEF LayerNet, Cursors
    <3>2. UsableArcs(g, x, y) \subseteq UsableArcs(G, aux, y)
      BY <1>9
    <3>. QED BY <1>0, <1>3, <3>1, <3>2
  <2>. QED BY <2>1 DEF Cursors
<1>11. \A y \in Node : aux.degree[y] = Cardinality(UsableArcs(G, aux, y))
  BY DEF LayerNet, Counted
<1>12. Layered(dist) /\ dist[t] # InfFloat
  BY DEF LayerNet
<1>13. CASE ResCap(g, a) # 0
  <2>1. z = x
    BY <1>13
  <2>2. Counted(g, x)
    BY <1>0, <1>9, <1>11, <1>13 DEF Counted
  <2>3. LayerNet(g, x, dist)
    BY <1>8, <1>10, <1>12, <2>2 DEF LayerNet
  <2>. QED BY <2>1, <2>3
<1>14. CASE ResCap(g, a) = 0
  <2>1. z = TopErasure(g, x, a) /\ EndNode(g, a) = v
    BY <1>3, <1>14
  <2>. DEFINE U(y) == UsableArcs(G, aux, y)
  <2>2. \A y : UsableArcs(g, x, y) = U(y) \ {a} /\ U(y) \in SUBSET Arc /\ (y # v => a \notin U(y)) /\ a \in U(v)
    BY <1>0, <1>7, <1>9, <1>14 DEF UsableArcs
  <2>3. \A y \in Node : aux.degree[y] = Cardinality(U(y))
    BY <1>11
  <2>. HIDE DEF U
  <2>4. ASSUME NEW y \in Node PROVE Cardinality(U(y) \ {a}) = IF y = v THEN aux.degree[y] - 1 ELSE aux.degree[y]
    <3>1. IsFiniteSet(U(y))
      BY <2>2, ArcSets
    <3>2. Cardinality(U(y) \ {a}) = IF a \in U(y) THEN Cardinality(U(y)) - 1 ELSE Cardinality(U(y))
      BY <3>1, FS_RemoveElement
    <3>. QED BY <2>2, <2>3, <3>2
  <2>5. Reduced(g, x, v)
    BY <1>0, <2>2, <2>4 DEF Reduced, Indegree
  <2>6. x.degree[v] > 0
    <3>1. U(v) \in SUBSET Arc /\ U(v) # {}
      BY <2>2
    <3>2. Cardinality(U(v)) \in 0 .. 2 * m /\ Cardinality(U(v)) # 0
      BY <3>1, ArcSets
    <3>. QED BY <1>0, <1>1, <2>3, <3>2
  <2>7. PICK D : Erases(g, x, v, D) /\ Erased(g, x, v, D, z)
    BY <1>1, <1>2, <2>1, <2>6, ErasureIs
  <2>8. a \in x.successors /\ v = EndNode(g, a) /\ x.prop[v] # <<>> /\ Head(x.prop[v]) = a
    BY <1>0, <2>1
  <2>. HIDE DEF v
  <2>9. /\ z \in AuxTypes /\ LayerNet(g, z, dist)
        /\ z.successors = x.successors /\ z.path = x.path /\ z.lambda = x.lambda
        /\ \A y \in Node : y # v => z.prop[y] = x.prop[y]
        /\ \A y \in Node : dist[y] < dist[v] => z.degree[y] = x.degree[y]
    BY <1>2, <1>8, <1>10, <1>12, <1>14, <2>5, <2>6, <2>7, <2>8, ErasureKeeps
  <2>. QED BY <2>9 DEF v
<1>. QED BY <1>13, <1>14

LEMMA PathChanged ==
  ASSUME NEW x \in AuxTypes, NEW q
  PROVE  [x EXCEPT !.path = q] = [prop |-> x.prop, degree |-> x.degree, successors |-> x.successors, path |-> q, lambda |-> x.lambda]
BY DEF AuxTypes

LEMMA PushLayeredKeeps ==
  ASSUME FlowInv, PushLayered
  PROVE  FlowInv'
<1>1. step = "push"
  BY DEF PushLayered
<1>2. /\ proc # "PREFLOW" /\ IsNetwork(G) /\ ret = 0 /\ MinCut \in Nat /\ val \in Nat
      /\ lower \in Int /\ upper \in Int /\ lower <= MinCut /\ MinCut <= upper
      /\ (proc \in {"SAP", "DINIC"} => G.delta = 0) /\ proc = "DINIC"
      /\ dist \in [Node -> 0 .. n \union {InfFloat}] /\ aux \in AuxTypes
  BY <1>1, PathFacts
<1>3. /\ LayerNet(G, aux, dist) /\ aux.path # <<>> /\ aux.lambda > 0 /\ Rest(G, aux, dist, aux.path)
      /\ Carries(G, val, EndNode(G, Head(aux.path)), aux.lambda)
  BY <1>1 DEF FlowInv, Layers
<1>4. /\ methMXF' = methMXF /\ proc' = proc /\ running' = running /\ dist' = dist /\ val' = val /\ ret' = ret
      /\ UNCHANGED preflowVars /\ lower' = lower /\ upper' = upper
  BY DEF PushLayered, timerVars
<1>5. /\ aux = [prop |-> aux.prop, degree |-> aux.degree, successors |-> aux.successors, path |-> aux.path, lambda |-> aux.lambda]
      /\ aux.prop \in [Node -> Seq(Arc)] /\ aux.degree \in [Node -> 0 .. 2 * m] /\ aux.successors \in SUBSET Arc
      /\ aux.path \in Seq(Arc) /\ aux.lambda \in Nat
  BY <1>2, AuxParts
<1>. DEFINE p == aux.path
            L == Len(p)
            a == Head(p)
            c == aux.lambda
            q == Tail(p)
            x == [aux EXCEPT !.path = Tail(@)]
<1>6. /\ p \in Seq(Arc) /\ p # <<>> /\ L \in Nat /\ L >= 1 /\ a = p[1] /\ q \in Seq(Arc) /\ Len(q) = L - 1
      /\ \A i \in 1 .. L - 1 : q[i] = p[i + 1]
  BY <1>3, <1>5
<1>7. /\ G' = Pushed(G, a, c)
      /\ aux' = IF ResCap(G', a) = 0 THEN TopErasure(G', x, a) ELSE x
      /\ step' = IF L = 1 THEN "block" ELSE "push"
  BY DEF PushLayered
<1>8. x = [prop |-> aux.prop, degree |-> aux.degree, successors |-> aux.successors, path |-> q, lambda |-> c]
  BY <1>2, PathChanged
<1>. HIDE DEF p, q, x, c
<1>9. /\ x \in AuxTypes /\ SameLayers(aux, x) /\ x.path = q /\ x.lambda = c
      /\ x.prop = aux.prop /\ x.degree = aux.degree /\ x.successors = aux.successors
  <2>1. /\ x.path = q /\ x.lambda = c
        /\ x.prop = aux.prop /\ x.degree = aux.degree /\ x.successors = aux.successors
    BY <1>8
  <2>2. x \in AuxTypes
    BY <1>5, <1>6, <1>8 DEF AuxTypes, c
  <2>. QED BY <2>1, <2>2 DEF SameLayers
<1>. HIDE DEF L, a
<1>10. ASSUME NEW i \in 1 .. L
       PROVE  /\ p[i] \in aux.successors /\ ResCap(G, p[i]) >= c /\ dist[EndNode(G, p[i])] = L + 1 - i
              /\ StartNode(G, p[i]) = (IF i = L THEN s ELSE EndNode(G, p[i + 1]))
              /\ ~Blocked(aux, StartNode(G, p[i]))
              /\ aux.prop[EndNode(G, p[i])] # <<>> /\ Head(aux.prop[EndNode(G, p[i])]) = p[i]
  BY <1>3 DEF Rest, p, L, c
<1>11. /\ a \in aux.successors /\ ResCap(G, a) >= c /\ dist[EndNode(G, a)] = L
       /\ StartNode(G, a) = (IF L = 1 THEN s ELSE EndNode(G, p[2]))
       /\ ~Blocked(aux, StartNode(G, a))
       /\ aux.prop[EndNode(G, a)] # <<>> /\ Head(aux.prop[EndNode(G, a)]) = a
  <2>1. 1 \in 1 .. L /\ L + 1 - 1 = L /\ 1 + 1 = 2
    BY <1>6
  <2>. QED BY <1>6, <1>10, <2>1
<1>12. a \in Arc /\ c \in Nat /\ c > 0 /\ Res(a) \in Nat /\ c <= Res(a) /\ StartNode(G, a) \in Node /\ EndNode(G, a) \in Node
  <2>1. a \in Arc /\ c \in Nat /\ c > 0
    BY <1>3, <1>5, <1>11 DEF c
  <2>2. ResCap(G, a) \in Nat /\ StartNode(G, a) \in Node /\ EndNode(G, a) \in Node
    BY <1>2, <2>1, NetworkArcs
  <2>. QED BY <1>11, <2>1, <2>2 DEF Res
<1>13. /\ IsNetwork(G') /\ SameNet(G, G') /\ G'.delta = G.delta
       /\ \A b \in Arc \ {a, Twin(a)} : ResCap(G', b) = ResCap(G, b)
  BY <1>2, <1>7, <1>12, PushedNet DEF Res
<1>14. \A b : StartNode(G', b) = StartNode(G, b) /\ EndNode(G', b) = EndNode(G, b)
  BY <1>13, SameNetArcs
<1>15. /\ aux' \in AuxTypes /\ LayerNet(G', aux', dist)
       /\ aux'.successors = aux.successors /\ aux'.path = q /\ aux'.lambda = c
       /\ \A y \in Node : y # EndNode(G, a) => aux'.prop[y] = aux.prop[y]
       /\ \A y \in Node : dist[y] < dist[EndNode(G, a)] => aux'.degree[y] = aux.degree[y]
  <2>1. /\ aux' \in AuxTypes /\ LayerNet(G', aux', dist)
        /\ aux'.successors = x.successors /\ aux'.path = x.path /\ aux'.lambda = x.lambda
        /\ \A y \in Node : y # EndNode(G, a) => aux'.prop[y] = x.prop[y]
        /\ \A y \in Node : dist[y] < dist[EndNode(G, a)] => aux'.degree[y] = x.degree[y]
    BY <1>2, <1>3, <1>7, <1>9, <1>11, <1>12, PushedLayers
  <2>. QED BY <1>9, <2>1
<1>16. \A y \in Node : Divergence(G', y) = Divergence(G, y) + (IF y = EndNode(G, a) THEN c ELSE IF y = StartNode(G, a) THEN -c ELSE 0)
  BY <1>2, <1>7, <1>12, PushedDiv DEF Res
<1>17. Carries(G', val, StartNode(G, a), c)
  <2>1. ASSUME NEW y \in Node \ {s}
        PROVE  Divergence(G', y) = (IF y = t THEN val ELSE 0) - (IF y = StartNode(G, a) THEN c ELSE 0)
    <3>1. Divergence(G, y) = (IF y = t THEN val ELSE 0) - (IF y = EndNode(G, a) THEN c ELSE 0)
      BY <1>3 DEF Carries, a, p, c
    <3>2. StartNode(G, a) # EndNode(G, a)
      BY <1>2, <1>12, NetworkArcs
    <3>. QED BY <1>2, <1>12, <1>16, <3>1, <3>2
  <2>. QED BY <2>1 DEF Carries
<1>18. CASE L = 1
  <2>1. step' = "block" /\ StartNode(G, a) = s
    BY <1>7, <1>11, <1>18
  <2>2. Carries(G', val', s, 0)
    <3>1. ASSUME NEW y \in Node \ {s} PROVE Divergence(G', y) = (IF y = t THEN val ELSE 0) - (IF y = s THEN 0 ELSE 0)
      <4>1. Divergence(G', y) = (IF y = t THEN val ELSE 0) - (IF y = s THEN c ELSE 0)
        BY <1>17, <2>1 DEF Carries
      <4>. QED BY <1>2, <4>1
    <3>. QED BY <1>4, <3>1 DEF Carries
  <2>3. PathFlow' /\ Layers'
    BY <1>4, <1>15, <2>1, <2>2 DEF PathFlow, Layers
  <2>. QED BY <1>2, <1>4, <1>13, <1>15, <2>1, <2>3, PathMoves
<1>19. CASE L # 1
  <2>1. step' = "push" /\ L - 1 \in Nat /\ L - 1 >= 1 /\ Len(q) = L - 1 /\ q # <<>>
    <3>1. step' = "push" /\ L - 1 \in Nat /\ L - 1 >= 1 /\ Len(q) = L - 1
      BY <1>6, <1>7, <1>19
    <3>2. q # <<>>
      BY <1>6, <3>1
    <3>. QED BY <3>1, <3>2
  <2>2. EndNode(G', Head(q)) = StartNode(G, a)
    <3>1. 1 \in 1 .. L - 1 /\ 1 + 1 = 2
      BY <2>1
    <3>2. Head(q) = q[1]
      BY <1>6, <2>1
    <3>3. q[1] = p[2]
      BY <1>6, <3>1
    <3>. QED BY <1>11, <1>14, <1>19, <3>2, <3>3
  <2>3. Rest(G', aux', dist, q)
    <3>1. ASSUME NEW i \in 1 .. Len(q)
          PROVE  /\ q[i] \in aux'.successors /\ ResCap(G', q[i]) >= aux'.lambda /\ dist[EndNode(G', q[i])] = Len(q) + 1 - i
                 /\ StartNode(G', q[i]) = (IF i = Len(q) THEN s ELSE EndNode(G', q[i + 1]))
                 /\ ~Blocked(aux', StartNode(G', q[i]))
                 /\ aux'.prop[EndNode(G', q[i])] # <<>> /\ Head(aux'.prop[EndNode(G', q[i])]) = q[i]
      <4>1. /\ i + 1 \in 1 .. L /\ q[i] = p[i + 1] /\ L + 1 - (i + 1) = Len(q) + 1 - i
            /\ (i = Len(q) <=> i + 1 = L) /\ (i # Len(q) => q[i + 1] = p[(i + 1) + 1])
            /\ i \in Nat /\ i >= 1
        BY <1>6, <2>1
      <4>. DEFINE b == q[i]
      <4>2. /\ b \in aux.successors /\ ResCap(G, b) >= c /\ dist[EndNode(G, b)] = Len(q) + 1 - i
            /\ StartNode(G, b) = (IF i + 1 = L THEN s ELSE EndNode(G, p[(i + 1) + 1]))
            /\ ~Blocked(aux, StartNode(G, b))
            /\ aux.prop[EndNode(G, b)] # <<>> /\ Head(aux.prop[EndNode(G, b)]) = b
        BY <1>10, <4>1
      <4>. HIDE DEF b
      <4>3. b \in Arc /\ StartNode(G, b) \in Node /\ EndNode(G, b) \in Node
        BY <1>2, <1>5, <4>2, NetworkArcs
      <4>4. dist[EndNode(G, b)] = L - i /\ dist[EndNode(G, b)] # L
        <5>1. Len(q) + 1 - i = L - i /\ L - i # L
          BY <1>6, <2>1, <4>1
        <5>. QED BY <4>2, <5>1
      <4>5. EndNode(G, b) # EndNode(G, a)
        BY <1>11, <4>4
      <4>6. dist[StartNode(G, b)] < dist[EndNode(G, a)]
        <5>1. dist[EndNode(G, b)] = dist[StartNode(G, b)] + 1
          BY <1>3, <4>2 DEF LayerNet, Graded
        <5>2. dist[StartNode(G, b)] \in Nat
          BY <1>2, <4>3, Sizes
        <5>. QED BY <1>6, <1>11, <4>1, <4>4, <5>1, <5>2
      <4>7. b # a /\ b # Twin(a)
        <5>1. EndNode(G, Twin(a)) = StartNode(G, a) /\ StartNode(G, Twin(a)) = EndNode(G, a)
          BY <1>2, <1>12, NetworkArcs
        <5>2. dist[EndNode(G, a)] \in Nat
          BY <1>2, <1>12, Sizes
        <5>3. ASSUME b = Twin(a) PROVE FALSE
          <6>1. dist[EndNode(G, a)] < dist[EndNode(G, a)]
            BY <4>6, <5>1, <5>3
          <6>. QED BY <5>2, <6>1
        <5>. QED BY <4>5, <5>3
      <4>8. ResCap(G', b) = ResCap(G, b)
        BY <1>13, <4>3, <4>7
      <4>9. ~Blocked(aux', StartNode(G, b))
        BY <1>15, <4>2, <4>3, <4>6 DEF Blocked
      <4>10. aux'.prop[EndNode(G, b)] = aux.prop[EndNode(G, b)]
        BY <1>15, <4>3, <4>5
      <4>11. StartNode(G, b) = IF i = Len(q) THEN s ELSE EndNode(G, q[i + 1])
        BY <4>1, <4>2
      <4>12. /\ b \in aux'.successors /\ ResCap(G', b) >= aux'.lambda /\ dist[EndNode(G', b)] = Len(q) + 1 - i
             /\ StartNode(G', b) = (IF i = Len(q) THEN s ELSE EndNode(G', q[i + 1]))
             /\ ~Blocked(aux', StartNode(G', b))
             /\ aux'.prop[EndNode(G', b)] # <<>> /\ Head(aux'.prop[EndNode(G', b)]) = b
        BY <1>14, <1>15, <4>2, <4>8, <4>9, <4>10, <4>11
      <4>. QED BY <4>12 DEF b
    <3>. QED BY <3>1 DEF Rest
  <2>4. PathFlow'
    BY <2>1 DEF PathFlow
  <2>5. Layers'
    BY <1>4, <1>12, <1>15, <1>17, <2>1, <2>2, <2>3 DEF Layers
  <2>. QED BY <1>2, <1>4, <1>13, <1>15, <2>1, <2>4, <2>5, PathMoves
<1>. QED BY <1>18, <1>19
-------------------------------------------------------------------------------
(* Every step keeps the invariant.                                           *)
LEMMA StayKeeps ==
  ASSUME FlowInv, UNCHANGED flowVars
  PROVE  FlowInv'
<1>1. /\ proc' = proc /\ methMXF' = methMXF /\ G' = G /\ step' = step /\ running' = running /\ val' = val /\ ret' = ret
      /\ lower' = lower /\ upper' = upper /\ dist' = dist /\ aux' = aux /\ label' = label /\ Q' = Q
      /\ Admissible' = Admissible /\ hand' = hand
  BY DEF flowVars
<1>2. Types' /\ Steps' /\ Called' /\ Bounds'
  BY <1>1 DEF FlowInv, Types, Steps, Called, Bounds, Scaling, MinCut
<1>3. Shown' = Shown
  BY <1>1 DEF Shown
<1>4. PathFlow'
  BY <1>1, <1>3 DEF FlowInv, PathFlow, PathEnd, MinCut
<1>5. Layers'
  BY <1>1 DEF FlowInv, Layers
<1>6. PreflowKept'
  BY <1>1 DEF FlowInv, PreflowKept, Preflow, Scaling, Active, Div
<1>7. PreflowEnd'
  BY <1>1, <1>3 DEF FlowInv, PreflowEnd, Infinite, Scaling, Balanced, Div, MinCut
<1>. QED BY <1>2, <1>4, <1>5, <1>6, <1>7 DEF FlowInv

LEMMA InvKept ==
  ASSUME FlowInv, [FlowNext]_flowVars
  PROVE  FlowInv'
<1>1. CASE EnterPaths
  BY <1>1, EnterPathsKeeps
<1>2. CASE AugmentPath
  BY <1>2, AugmentPathKeeps
<1>3. CASE EndSearch
  BY <1>3, EndSearchKeeps
<1>4. CASE Report
  BY <1>4, ReportKeeps
<1>5. CASE FindLayers
  BY <1>5, FindLayersKeeps
<1>6. CASE LeaveLayers
  BY <1>6, LeaveLayersKeeps
<1>7. CASE FindPath
  BY <1>7, FindPathKeeps
<1>8. CASE PushLayered
  BY <1>8, PushLayeredKeeps
<1>9. CASE EndBlocking
  BY <1>9, EndBlockingKeeps
<1>10. CASE EnterPreflow
  BY <1>10, EnterPreflowKeeps
<1>11. CASE Select
  BY <1>11, SelectKeeps
<1>12. CASE Push
  BY <1>12, PushKeeps
<1>13. CASE Relabel
  BY <1>13, RelabelKeeps
<1>14. CASE Leave
  BY <1>14, LeaveKeeps
<1>15. CASE NextNode
  BY <1>15, NextNodeKeeps
<1>16. CASE LeavePreflow
  BY <1>16, LeavePreflowKeeps
<1>17. CASE Unbounded
  BY <1>17, UnboundedKeeps
<1>18. CASE Check
  BY <1>18, CheckKeeps
<1>19. CASE Stop
  BY <1>19, StopKeeps
<1>20. CASE UNCHANGED flowVars
  BY <1>20, StayKeeps
<1>. QED BY <1>1, <1>2, <1>3, <1>4, <1>5, <1>6, <1>7, <1>8, <1>9, <1>10, <1>11, <1>12, <1>13, <1>14, <1>15, <1>16,
            <1>17, <1>18, <1>19, <1>20 DEF FlowNext, Work

(* The invariant holds in every state of a call.                             *)
THEOREM FlowInvariant == FlowSpec => []FlowInv
<1>1. FlowInit => FlowInv
  BY InvInit
<1>2. FlowInv /\ [FlowNext]_flowVars => FlowInv'
  BY InvKept
<1>. QED BY <1>1, <1>2, PTL DEF FlowSpec

LEMMA InvTypes == FlowInv => FlowTypeOK
<1>. SUFFICES ASSUME FlowInv PROVE FlowTypeOK
  OBVIOUS
<1>1. Types
  BY DEF FlowInv
<1>2. /\ proc \in {"SAP", "SAP_SCALE", "DINIC", "PREFLOW"} /\ methMXF \in 0 .. 5
      /\ running \in BOOLEAN /\ val \in Nat /\ ret \in Nat \union {ERRange, ERInternal}
      /\ lower \in Int /\ upper \in Int /\ Admissible \in [Node -> SUBSET Arc]
  BY <1>1 DEF Types
<1>3. G.delta \in Nat /\ \A e \in Edge : G.sub[e] \in 0 .. G.ucap[e]
  <2>1. G.delta \in Nat /\ \A e \in Edge : G.sub[e] \in Nat /\ G.ucap[e] \in Nat /\ G.sub[e] <= G.ucap[e]
    BY <1>1, NetworkParts DEF Types
  <2>. QED BY <2>1
<1>4. \A v \in Node : aux.degree[v] \in 0 .. 2 * m
  <2>1. aux \in AuxTypes
    BY <1>1 DEF Types
  <2>2. aux.degree \in [Node -> 0 .. 2 * m]
    BY <2>1, AuxParts
  <2>. QED BY <2>2
<1>5. \A v \in Node : label[v] \in 0 .. 2 * n - 1
  BY <1>1 DEF Types
<1>6. \A i \in DOMAIN Q : Q[i] \in Inner
  <2>1. Q \in Seq(Inner)
    BY <1>1 DEF Types
  <2>. QED BY <2>1
<1>. QED BY <1>2, <1>3, <1>4, <1>5, <1>6 DEF FlowTypeOK

LEMMA InvPreflow == FlowInv => PreflowValid
<1>. SUFFICES ASSUME FlowInv, Preflow PROVE PreflowValid
  BY DEF PreflowValid
<1>1. /\ label[s] = n /\ label[t] = 0 /\ Excess(G)
      /\ Down(G, label) /\ Sound(G, Admissible) /\ (~Scaling => Lists(G, label, Admissible))
      /\ Distinct(Q) /\ \A v \in ToSet(Q) : v # hand[1] /\ Active(v, G.delta)
      /\ ~Scaling => \A v \in Inner : Div(v) > 0 => v = hand[1] \/ v \in ToSet(Q)
  BY DEF FlowInv, PreflowKept
<1>2. \A v \in Inner : Div(v) >= 0
  BY <1>1 DEF Excess, Div
<1>3. \A a \in Arc : Res(a) > 0 =>
         LET u == StartNode(G, a)
             d == label[EndNode(G, a)] + 1
         IN label[u] <= d /\ (label[u] = d /\ ~Scaling => a \in Admissible[u])
  BY <1>1 DEF Down, Lists, Res
<1>4. \A v \in Node : \A a \in Admissible[v] : StartNode(G, a) = v /\ Res(a) > 0
  BY <1>1 DEF Sound, Res
<1>5. \A i \in DOMAIN Q : Q[i] # hand[1] /\ Active(Q[i], G.delta)
  <2>1. \A i \in DOMAIN Q : Q[i] \in ToSet(Q)
    BY DEF ToSet
  <2>. QED BY <1>1, <2>1
<1>6. \A i, j \in DOMAIN Q : Q[i] = Q[j] => i = j
  BY <1>1 DEF Distinct
<1>. QED BY <1>1, <1>2, <1>3, <1>4, <1>5, <1>6 DEF PreflowValid

LEMMA InvLayers == FlowInv => LayersExact
<1>. SUFFICES ASSUME FlowInv, step = "block" PROVE LayersExact
  BY DEF LayersExact
<1>1. LayerNet(G, aux, dist)
  BY DEF FlowInv, Layers
<1>2. aux.successors \in SUBSET Arc
  <2>1. aux \in AuxTypes
    BY DEF FlowInv, Types
  <2>. QED BY <2>1, AuxParts
<1>3. ASSUME NEW v \in Node
      PROVE  LET usable == {a \in aux.successors : EndNode(G, a) = v /\ Usable(aux, a)} IN
             /\ aux.degree[v] > 0 => aux.degree[v] = Cardinality(usable)
             /\ aux.degree[v] = 0 => usable = {}
             /\ usable \subseteq ToSet(aux.prop[v])
  <2>. DEFINE U == {a \in aux.successors : EndNode(G, a) = v /\ Usable(aux, a)}
  <2>1. U = UsableArcs(G, aux, v) /\ U \in SUBSET Arc
    BY <1>2 DEF Usable, Res, UsableArcs
  <2>2. aux.degree[v] = Cardinality(U)
    BY <1>1, <2>1 DEF LayerNet, Counted
  <2>3. U \subseteq ToSet(aux.prop[v])
    BY <1>1, <2>1 DEF LayerNet, Cursors
  <2>. HIDE DEF U
  <2>4. Cardinality(U) = 0 => U = {}
    BY <2>1, ArcSets
  <2>. QED BY <2>2, <2>3, <2>4 DEF U
<1>. QED BY <1>3 DEF LayersExact

LEMMA InvMaximum == FlowInv => FlowMaximum
<1>. SUFFICES ASSUME FlowInv PROVE FlowMaximum
  OBVIOUS
<1>1. step \notin {"call", "unbounded"} /\ ret # ERRange => lower <= MinCut /\ MinCut <= upper
  BY DEF FlowInv, Bounds
<1>2. ASSUME step = "done"
      PROVE  /\ ret = ERRange => proc = "PREFLOW" /\ \E e \in Edge : G.ucap[e] = InfCap
             /\ ret = ERInternal => ~running \/ (proc = "PREFLOW" /\ Scaling)
             /\ ret = InfCap => MinCut >= InfCap
             /\ ret >= 0 /\ ret # InfCap =>
                  /\ ret = Div(t)
                  /\ running /\ Balanced => ret = MinCut
                  /\ Balanced \/ (proc = "PREFLOW" /\ Scaling)
  <2>1. /\ IsNetwork(G) /\ val \in Nat /\ ret \in Nat \union {-1, -2} /\ ERRange = -1 /\ ERInternal = -2 /\ InfCap \in Nat
        /\ running \in BOOLEAN
    BY Sizes DEF FlowInv, Types, ERRange, ERInternal
  <2>2. Div(t) \in Int /\ MinCut \in Nat
    BY <2>1, NetSingle, MinCutFacts DEF Div, MinCut
  <2>3. CASE proc = "PREFLOW"
    <3>1. \/ ret = ERRange /\ Infinite
          \/ /\ ret = Div(t) \/ (ret = ERInternal /\ Scaling)
             /\ Div(t) >= 0 /\ Div(t) <= MinCut /\ (Balanced => Div(t) = MinCut)
             /\ ~Scaling => Balanced
      BY <1>2, <2>3 DEF FlowInv, PreflowEnd
    <3>2. CASE ret = ERRange /\ Infinite
      BY <2>1, <2>3, <3>2 DEF Infinite
    <3>3. CASE /\ ret = Div(t) \/ (ret = ERInternal /\ Scaling)
               /\ Div(t) >= 0 /\ Div(t) <= MinCut /\ (Balanced => Div(t) = MinCut)
               /\ ~Scaling => Balanced
      <4>1. ret # ERRange /\ (ret = ERInternal => Scaling)
        BY <2>1, <2>2, <3>3
      <4>2. ret = InfCap => MinCut >= InfCap
        BY <2>1, <2>2, <3>3
      <4>3. ret >= 0 /\ ret # InfCap => ret = Div(t) /\ (Balanced => ret = MinCut) /\ (Balanced \/ Scaling)
        BY <2>1, <2>2, <3>3
      <4>. QED BY <2>3, <4>1, <4>2, <4>3
    <3>. QED BY <3>1, <3>2, <3>3
  <2>4. CASE proc # "PREFLOW"
    <3>1. Carries(G, val, s, 0) /\ (PathEnd \/ (ret = ERInternal /\ ~running))
      BY <1>2, <2>4 DEF FlowInv, PathFlow
    <3>2. Balanced /\ Div(t) = val /\ val <= MinCut
      BY <2>1, <3>1, CarriesFlow
    <3>3. CASE ret = InfCap /\ MinCut >= InfCap
      BY <2>1, <3>3
    <3>4. CASE ret = val /\ (running => Shown)
      <4>1. running => ret = MinCut
        BY <2>1, <3>2, <3>4, ShownCut
      <4>2. ret # ERRange /\ ret # ERInternal
        BY <2>1, <3>4
      <4>3. ret = InfCap => MinCut >= InfCap
        BY <2>1, <2>2, <3>2, <3>4
      <4>. QED BY <3>2, <3>4, <4>1, <4>2, <4>3
    <3>5. CASE ret = ERInternal /\ ~running
      BY <2>1, <3>5
    <3>. QED BY <3>1, <3>3, <3>4, <3>5 DEF PathEnd
  <2>. QED BY <2>3, <2>4
<1>. QED BY <1>1, <1>2 DEF FlowMaximum

(* MXF_EdmondsKarp, MXF_Dinic and MXF_PushRelabel: the flow respects the     *)
(* capacities at every step, on every network and for every call, counters   *)
(* stay in their range, and no distance label gets beyond 2n-1.              *)
THEOREM FlowTypes == FlowSpec => []FlowTypeOK
BY FlowInvariant, InvTypes, PTL

(* On every network, the lists of admissible arcs and the queue of active    *)
(* nodes in MXF_PushRelabel, and the indegrees and cursors of the layered    *)
(* network in MXF_Dinic, agree with the flow at every step.                  *)
THEOREM FlowStructured == FlowSpec => []FlowStructures
<1>1. FlowInv => FlowStructures
  BY InvPreflow, InvLayers DEF FlowStructures
<1>. QED BY <1>1, FlowInvariant, PTL

(* On every network, MaxFlow ends with a flow whose value is the capacity of *)
(* a minimum cut, unless the solver is stopped or excess scaling leaves      *)
(* excess behind, and the bounds of the timer enclose that capacity all the  *)
(* time.                                                                     *)
THEOREM FlowIsMaximum == FlowSpec => []FlowMaximum
BY FlowInvariant, InvMaximum, PTL

-------------------------------------------------------------------------------
(* The cuts of Hao and Orlin: the inductive invariant.                       *)

CutStages == {"root", "sweep", "drain", "done"}

(* The variable H is a record with these components.                         *)
Whole(h) ==
  h = [stage |-> h.stage, g |-> h.g, itc |-> h.itc, t |-> h.t, dist |-> h.dist, dorm |-> h.dorm,
       dormMax |-> h.dormMax, Q |-> h.Q, u |-> h.u, Admissible |-> h.Admissible, S2 |-> h.S2,
       unread |-> h.unread, minCap |-> h.minCap, chi |-> h.chi, unbounded |-> h.unbounded,
       fault |-> h.fault]

HTypes ==
  /\ cutCall \in CutCalls /\ Whole(H) /\ H.stage \in CutStages
  /\ IsNetwork(H.g) /\ SameNet(cutCall.G, H.g)
  /\ H.t \in Node /\ H.t # Root /\ H.u \in Node \union {NoNode} /\ H.itc \in 1 .. n - 1
  /\ H.dist \in [Node -> Nat]
  /\ H.dormMax \in 0 .. n - 1 /\ H.dorm \in [Node -> 0 .. H.dormMax \union {NoNode}]
  /\ H.Q \in Seq(Node)
  /\ H.Admissible \subseteq Arc /\ H.S2 \subseteq Arc /\ H.unread \subseteq Arc
  /\ H.unbounded \in BOOLEAN /\ H.fault \in BOOLEAN

(* Layer 0 has the root and the nodes that have been the sink; no layer is   *)
(* empty, which is why their number fits in the type.                        *)
Drained(h) == {v \in Node : h.dorm[v] = 0}
LayersWhole ==
  /\ H.dorm[Root] = 0
  /\ \A k \in 0 .. H.dormMax : \E v \in Node : H.dorm[v] = k
  /\ Cardinality(Drained(H)) = IF H.stage \in {"drain", "done"} /\ H.dorm[H.t] = 0 THEN H.itc + 1 ELSE H.itc
  /\ H.stage \in {"root", "sweep"} => Awake(H, H.t) /\ \A v \in Node : Awake(H, v) => H.dist[H.t] <= H.dist[v]
  /\ H.stage = "drain" => H.dorm[H.t] = 0
  /\ H.stage = "root" => H.dormMax = 0 /\ \A v \in Node \ {Root} : Awake(H, v)
  /\ H.dorm[0] = 0 \/ (H.t = 0 /\ H.stage # "drain")
  /\ H.stage = "sweep" => ~H.unbounded
  /\ H.stage = "done" => H.unbounded \/ (H.itc = n - 1 /\ H.dorm[H.t] = 0)

(* The node that is discharged.                                              *)
ActiveNode ==
  H.u # NoNode => H.stage = "sweep" /\ Awake(H, H.u) /\ H.u # H.t /\ H.u \notin ToSet(H.Q)

(* The queue has the awake nodes with excess, once each, until an infinite   *)
(* arc at the root has been met.                                             *)
Orderly == ~H.unbounded \/ H.stage = "drain"
QueueExact ==
  /\ H.fault => H.unbounded
  /\ Orderly => /\ Distinct(H.Q)
                /\ \A v \in ToSet(H.Q) : Surplus(H, v) > 0
                /\ \A v \in Node : Awake(H, v) /\ Surplus(H, v) > 0 => v \in ToSet(H.Q) \union {H.u, H.t}
  /\ H.stage \in {"root", "drain"} => \A v \in ToSet(H.Q) : Awake(H, v)
SurplusKept == \A v \in Node : H.dorm[v] # 0 => Surplus(H, v) >= 0

(* Flow is pushed away from the root, and then from the sink.                *)
UnreadArcs ==
  \A a \in H.unread : /\ H.stage = "root" => StartNode(H.g, a) = Root
                      /\ H.stage = "drain" => StartNode(H.g, a) = H.t

(* A saturated arc may be left in the lists only at a node that has been the *)
(* sink.  The arcs in S2 lead to sleeping nodes, from nodes that awake       *)
(* before them.                                                              *)
ArcsUsable ==
  /\ \A a \in H.Admissible : ResCap(H.g, a) > 0 \/ H.dorm[StartNode(H.g, a)] = 0
  /\ \A a \in H.S2 :
       \/ H.dorm[StartNode(H.g, a)] = 0
       \/ /\ ResCap(H.g, a) > 0 /\ H.dorm[EndNode(H.g, a)] \notin {0, NoNode}
          /\ Awake(H, StartNode(H.g, a)) \/ H.dorm[StartNode(H.g, a)] > H.dorm[EndNode(H.g, a)]
  /\ H.stage = "root" => H.Admissible = {} /\ H.S2 = {}

CutKnown == H.minCap # InfCap => Root \in H.chi /\ H.chi # Node /\ H.minCap = CapOf(H.g, H.chi)

CutInv == HTypes /\ LayersWhole /\ ActiveNode /\ QueueExact /\ SurplusKept /\ UnreadArcs /\ ArcsUsable /\ CutKnown

LEMMA RootIs ==
  ASSUME HTypes
  PROVE  Root \in Node /\ n \in Nat /\ n > 1 /\ 0 \in Node /\ NoNode \notin 0 .. n /\ NoNode \notin Node
BY CutAssumption, CutCallsAssumption, SizeAssumption, UndefAssumption DEF HTypes, Root, Node

(* Capacities of cuts do not depend on the flow.                             *)
LEMMA CapSame ==
  ASSUME NEW g, NEW h, SameNet(g, h), NEW L
  PROVE  CapOf(h, L) = CapOf(g, L)
BY DEF CapOf, SameNet

LEMMA SameNetTrans ==
  ASSUME NEW f, NEW g, NEW h, SameNet(f, g), SameNet(g, h)
  PROVE  SameNet(f, h)
BY DEF SameNet

-------------------------------------------------------------------------------
(* One lemma for each action.                                                *)
LEMMA InactiveKeeps ==
  ASSUME CutInv, UNCHANGED cutCall, Inactive
  PROVE  CutInv' /\ H'.dist = H.dist /\ H'.dorm = H.dorm
<1>1. /\ Whole(H') /\ H'.u = NoNode /\ H.stage = "sweep" /\ H.u # NoNode /\ Surplus(H, H.u) = 0
      /\ H'.stage = H.stage /\ H'.g = H.g /\ H'.itc = H.itc /\ H'.t = H.t /\ H'.dist = H.dist
      /\ H'.dorm = H.dorm /\ H'.dormMax = H.dormMax /\ H'.Q = H.Q /\ H'.Admissible = H.Admissible
      /\ H'.S2 = H.S2 /\ H'.unread = H.unread /\ H'.minCap = H.minCap /\ H'.chi = H.chi
      /\ H'.unbounded = H.unbounded /\ H'.fault = H.fault
  BY DEF CutInv, HTypes, Inactive, Settled, Whole
<1>2. Root' = Root /\ \A v : Awake(H', v) = Awake(H, v) /\ Surplus(H', v) = Surplus(H, v)
  BY <1>1 DEF Root, Awake, Surplus
<1>3. HTypes'
  BY <1>1, <1>2 DEF CutInv, HTypes
<1>4. LayersWhole'
  BY <1>1, <1>2 DEF CutInv, LayersWhole, Drained
<1>5. ActiveNode' /\ SurplusKept' /\ UnreadArcs' /\ ArcsUsable' /\ CutKnown'
  BY <1>1, <1>2 DEF CutInv, ActiveNode, SurplusKept, UnreadArcs, ArcsUsable, CutKnown
<1>6. QueueExact'
  BY <1>1, <1>2 DEF CutInv, QueueExact, Orderly
<1>. QED BY <1>1, <1>3, <1>4, <1>5, <1>6 DEF CutInv

LEMMA DeleteKeeps ==
  ASSUME CutInv, UNCHANGED cutCall, NEW k \in DOMAIN H.Q, Delete(k)
  PROVE  CutInv' /\ H'.dist = H.dist /\ H'.dorm = H.dorm
<1>. DEFINE w == H.Q[k]
<1>1. /\ Whole(H') /\ H.stage = "sweep" /\ H.u = NoNode
      /\ H'.Q = RemoveAt(H.Q, k) /\ H'.u = IF Awake(H, w) /\ w # H.t THEN w ELSE NoNode
      /\ H'.stage = H.stage /\ H'.g = H.g /\ H'.itc = H.itc /\ H'.t = H.t /\ H'.dist = H.dist
      /\ H'.dorm = H.dorm /\ H'.dormMax = H.dormMax /\ H'.Admissible = H.Admissible /\ H'.S2 = H.S2 /\ H'.unread = H.unread
      /\ H'.minCap = H.minCap /\ H'.chi = H.chi /\ H'.unbounded = H.unbounded /\ H'.fault = H.fault
  BY DEF CutInv, HTypes, Delete, Whole
<1>2. Root' = Root /\ \A v : Awake(H', v) = Awake(H, v) /\ Surplus(H', v) = Surplus(H, v)
  BY <1>1 DEF Root, Awake, Surplus
<1>3. ~H.unbounded /\ H.Q \in Seq(Node) /\ Distinct(H.Q)
  BY <1>1 DEF CutInv, HTypes, LayersWhole, QueueExact, Orderly
<1>4. /\ H'.Q \in Seq(Node) /\ Distinct(H'.Q)
      /\ \A x : x \in ToSet(H'.Q) <=> x \in ToSet(H.Q) /\ x # w
  BY <1>1, <1>3, RemoveAtIs
<1>5. w \in Node /\ w \in ToSet(H.Q) /\ w # NoNode
  <2>1. w \in Node /\ w \in ToSet(H.Q)
    BY <1>3 DEF ToSet
  <2>. QED BY <2>1, RootIs DEF CutInv
<1>. HIDE DEF w
<1>6. HTypes'
  BY <1>1, <1>2, <1>4, <1>5 DEF CutInv, HTypes
<1>7. LayersWhole'
  BY <1>1, <1>2 DEF CutInv, LayersWhole, Drained
<1>8. ActiveNode'
  BY <1>1, <1>2, <1>4, <1>5 DEF CutInv, ActiveNode
<1>9. SurplusKept' /\ UnreadArcs' /\ ArcsUsable' /\ CutKnown'
  BY <1>1, <1>2 DEF CutInv, SurplusKept, UnreadArcs, ArcsUsable, CutKnown
<1>10. QueueExact'
  <2>1. NoNode \notin Node
    BY RootIs DEF CutInv
  <2>. QED BY <1>1, <1>2, <1>3, <1>4, <1>5, <2>1 DEF CutInv, QueueExact, Orderly
<1>. QED BY <1>1, <1>6, <1>7, <1>8, <1>9, <1>10 DEF CutInv

LEMMA PrepareKeeps ==
  ASSUME CutInv, UNCHANGED cutCall, Prepare
  PROVE  CutInv' /\ H'.dist = H.dist /\ H'.dorm = H.dorm
<1>1. /\ Whole(H') /\ H.stage = "root" /\ H.unread = {}
      /\ H'.stage = IF H.unbounded THEN "done" ELSE "sweep"
      /\ H'.Admissible = {a \in Arc : EndNode(H.g, a) = H.t /\ StartNode(H.g, a) # Root /\ ResCap(H.g, a) > 0}
      /\ H'.g = H.g /\ H'.itc = H.itc /\ H'.t = H.t /\ H'.dist = H.dist /\ H'.dorm = H.dorm
      /\ H'.dormMax = H.dormMax /\ H'.Q = H.Q /\ H'.u = H.u /\ H'.S2 = H.S2 /\ H'.unread = H.unread
      /\ H'.minCap = H.minCap /\ H'.chi = H.chi /\ H'.unbounded = H.unbounded /\ H'.fault = H.fault
  BY DEF CutInv, HTypes, Prepare, Whole
<1>2. Root' = Root /\ \A v : Awake(H', v) = Awake(H, v) /\ Surplus(H', v) = Surplus(H, v)
  BY <1>1 DEF Root, Awake, Surplus
<1>3. HTypes'
  BY <1>1, <1>2 DEF CutInv, HTypes, CutStages
<1>4. LayersWhole'
  <2>1. Awake(H, H.t) /\ NoNode # 0 /\ H.t \in Node
    BY <1>1, RootIs DEF CutInv, LayersWhole, HTypes, Node
  <2>. QED BY <1>1, <1>2, <2>1 DEF CutInv, LayersWhole, Drained, Awake
<1>5. ActiveNode' /\ SurplusKept' /\ UnreadArcs' /\ CutKnown'
  BY <1>1, <1>2 DEF CutInv, ActiveNode, SurplusKept, UnreadArcs, CutKnown
<1>6. ArcsUsable'
  BY <1>1, <1>2 DEF CutInv, ArcsUsable
<1>7. QueueExact'
  BY <1>1, <1>2 DEF CutInv, QueueExact, Orderly
<1>. QED BY <1>1, <1>3, <1>4, <1>5, <1>6, <1>7 DEF CutInv

(* There are fewer layers of sleeping nodes than nodes.                      *)
LEMMA FewLayers ==
  ASSUME NEW k \in Nat, NEW d, \A j \in 0 .. k : \E v \in Node : d[v] = j
  PROVE  k \in 0 .. n - 1
<1>. DEFINE f == [j \in 0 .. k |-> CHOOSE v \in Node : d[v] = j]
<1>1. \A j \in 0 .. k : f[j] \in Node /\ d[f[j]] = j
  OBVIOUS
<1>2. f \in Injection(0 .. k, Node)
  <2>1. f \in [0 .. k -> Node]
    BY <1>1
  <2>2. \A i, j \in 0 .. k : f[i] = f[j] => i = j
    BY <1>1
  <2>. QED BY <2>1, <2>2 DEF Injection, IsInjective
<1>3. IsFiniteSet(Node) /\ Cardinality(Node) = n
  BY NodeCount
<1>4. Cardinality(0 .. k) <= n
  BY <1>2, <1>3, FS_Injection
<1>5. Cardinality(0 .. k) = k + 1
  BY FS_Interval
<1>. QED BY <1>4, <1>5, SizeAssumption

LEMMA SleepAboveKeeps ==
  ASSUME CutInv, UNCHANGED cutCall, SleepAbove
  PROVE  CutInv' /\ H'.dist = H.dist
         /\ \A v \in Node : H'.dorm[v] = IF H.dist[v] >= H.dist[H.u] /\ Awake(H, v) THEN H.dormMax + 1 ELSE H.dorm[v]
<1>. DEFINE top == H.dormMax + 1
            Falls(v) == H.dist[v] >= H.dist[H.u] /\ Awake(H, v)
<1>1. /\ Whole(H') /\ H.stage = "sweep" /\ H.u # NoNode /\ ~Settled(H.u) /\ IsUnique
      /\ H'.dormMax = top /\ H'.u = NoNode
      /\ H'.dorm = [v \in Node |-> IF Falls(v) THEN top ELSE H.dorm[v]]
      /\ H'.stage = H.stage /\ H'.g = H.g /\ H'.itc = H.itc /\ H'.t = H.t /\ H'.dist = H.dist
      /\ H'.Q = H.Q /\ H'.Admissible = H.Admissible /\ H'.S2 = H.S2 /\ H'.unread = H.unread /\ H'.minCap = H.minCap
      /\ H'.chi = H.chi /\ H'.unbounded = H.unbounded /\ H'.fault = H.fault
  BY DEF CutInv, HTypes, SleepAbove, Whole
<1>2. /\ H.u \in Node /\ Awake(H, H.u) /\ H.u # H.t /\ ~H.unbounded /\ Awake(H, H.t) /\ H.t \in Node
      /\ H.dormMax \in 0 .. n - 1 /\ H.dorm \in [Node -> 0 .. H.dormMax \union {NoNode}]
      /\ H.dist \in [Node -> Nat] /\ H.dorm[Root] = 0 /\ NoNode \notin 0 .. n /\ n \in Nat /\ n > 1
      /\ Root \in Node /\ 0 \in Node
  BY <1>1, RootIs DEF CutInv, HTypes, LayersWhole, ActiveNode
<1>3. top \in 1 .. n /\ top # NoNode /\ top = H.dormMax + 1
  BY <1>2
<1>4. Root' = Root /\ \A v : Surplus(H', v) = Surplus(H, v)
  BY <1>1 DEF Root, Surplus
<1>. HIDE DEF top
<1>5. ASSUME NEW v \in Node
      PROVE  /\ H'.dorm[v] = (IF Falls(v) THEN top ELSE H.dorm[v])
             /\ Awake(H', v) <=> Awake(H, v) /\ ~Falls(v)
             /\ H'.dorm[v] = 0 <=> H.dorm[v] = 0
             /\ H.dorm[v] # NoNode => H'.dorm[v] = H.dorm[v]
  BY <1>1, <1>2, <1>3 DEF Awake
<1>6. ~Falls(H.t) /\ Falls(H.u)
  <2>1. H.dist[H.t] # H.dist[H.u] /\ H.dist[H.t] <= H.dist[H.u]
    BY <1>1, <1>2 DEF IsUnique, CutInv, LayersWhole
  <2>. QED BY <1>2, <2>1
<1>7. \A j \in 0 .. top : \E v \in Node : H'.dorm[v] = j
  <2>1. ASSUME NEW j \in 0 .. top, j # top PROVE \E v \in Node : H'.dorm[v] = j
    <3>1. j \in 0 .. H.dormMax /\ j # NoNode
      BY <1>2, <1>3, <2>1
    <3>2. PICK v \in Node : H.dorm[v] = j
      BY <3>1 DEF CutInv, LayersWhole
    <3>. QED BY <1>5, <3>1, <3>2
  <2>2. H'.dorm[H.u] = top
    BY <1>2, <1>5, <1>6
  <2>. QED BY <1>2, <2>1, <2>2
<1>8. top \in 0 .. n - 1
  BY <1>3, <1>7, FewLayers
<1>9. HTypes'
  <2>1. H'.dorm \in [Node -> 0 .. top \union {NoNode}]
    <3>1. \A v \in Node : H.dorm[v] \in 0 .. top \union {NoNode}
      BY <1>2, <1>3
    <3>2. top \in 0 .. top
      BY <1>8
    <3>. QED BY <1>1, <3>1, <3>2
  <2>. QED BY <1>1, <1>4, <1>8, <2>1 DEF CutInv, HTypes
<1>10. Drained(H') = Drained(H)
  BY <1>5 DEF Drained
<1>11. LayersWhole'
  BY <1>1, <1>2, <1>4, <1>5, <1>6, <1>7, <1>10 DEF CutInv, LayersWhole
<1>12. ActiveNode' /\ SurplusKept' /\ UnreadArcs' /\ CutKnown'
  BY <1>1, <1>2, <1>4, <1>5 DEF CutInv, ActiveNode, SurplusKept, UnreadArcs, CutKnown
<1>13. ArcsUsable'
  <2>1. IsNetwork(H.g) /\ H.S2 \subseteq Arc /\ H.Admissible \subseteq Arc
    BY DEF CutInv, HTypes
  <2>2. \A a \in Arc : StartNode(H.g, a) \in Node /\ EndNode(H.g, a) \in Node
    BY <2>1, NetworkArcs
  <2>3. \A a \in H.Admissible : ResCap(H.g, a) > 0 \/ H'.dorm[StartNode(H.g, a)] = 0
    BY <1>5, <2>1, <2>2 DEF CutInv, ArcsUsable
  <2>4. ASSUME NEW a \in H.S2, H'.dorm[StartNode(H.g, a)] # 0
        PROVE  /\ ResCap(H.g, a) > 0 /\ H'.dorm[EndNode(H.g, a)] \notin {0, NoNode}
               /\ Awake(H', StartNode(H.g, a)) \/ H'.dorm[StartNode(H.g, a)] > H'.dorm[EndNode(H.g, a)]
    <3>. DEFINE x == StartNode(H.g, a)
                y == EndNode(H.g, a)
    <3>1. x \in Node /\ y \in Node
      BY <2>1, <2>2
    <3>2. H.dorm[x] # 0
      BY <1>5, <2>4, <3>1
    <3>3. ResCap(H.g, a) > 0 /\ H.dorm[y] \notin {0, NoNode} /\ (Awake(H, x) \/ H.dorm[x] > H.dorm[y])
      BY <3>2 DEF CutInv, ArcsUsable
    <3>. HIDE DEF x, y
    <3>4. H'.dorm[y] = H.dorm[y] /\ H.dorm[y] \in 0 .. H.dormMax
      BY <1>2, <1>5, <3>1, <3>3
    <3>5. Awake(H', x) \/ H'.dorm[x] > H'.dorm[y]
      <4>1. CASE Falls(x)
        BY <1>2, <1>3, <1>5, <3>1, <3>4, <4>1
      <4>2. CASE ~Falls(x)
        BY <1>5, <3>1, <3>3, <3>4, <4>2 DEF Awake
      <4>. QED BY <4>1, <4>2
    <3>. QED BY <3>3, <3>4, <3>5 DEF x, y
  <2>. QED BY <1>1, <2>3, <2>4 DEF ArcsUsable
<1>14. QueueExact'
  <2>1. NoNode \notin Node
    BY RootIs DEF CutInv
  <2>. QED BY <1>1, <1>2, <1>4, <1>5, <1>6, <2>1 DEF CutInv, QueueExact, Orderly
<1>. QED BY <1>1, <1>3, <1>5, <1>9, <1>11, <1>12, <1>13, <1>14 DEF CutInv

(* The arcs of a relabel step.                                               *)
LEMMA RelabelArcsAre ==
  ASSUME HTypes
  PROVE  /\ Outgoing \subseteq Arc /\ Incoming \subseteq Arc
         /\ \A a \in Outgoing : /\ StartNode(H.g, a) = H.u /\ EndNode(H.g, a) \in Node /\ EndNode(H.g, a) # H.u
                                /\ Awake(H, EndNode(H.g, a)) /\ ResCap(H.g, a) > 0
         /\ \A a \in Incoming : /\ EndNode(H.g, a) = H.u /\ StartNode(H.g, a) \in Node /\ StartNode(H.g, a) # H.u
                                /\ Awake(H, StartNode(H.g, a)) /\ ResCap(H.g, a) > 0
<1>1. IsNetwork(H.g)
  BY DEF HTypes
<1>2. ASSUME NEW a \in Outgoing
      PROVE  /\ a \in Arc /\ StartNode(H.g, a) = H.u /\ EndNode(H.g, a) \in Node /\ EndNode(H.g, a) # H.u
             /\ Awake(H, EndNode(H.g, a)) /\ ResCap(H.g, a) > 0
  <2>1. a \in Arc /\ StartNode(H.g, a) = H.u /\ Awake(H, EndNode(H.g, a)) /\ ResCap(H.g, a) > 0
    BY DEF Outgoing, RelabelArcs, Around
  <2>. QED BY <1>1, <2>1, NetworkArcs
<1>3. ASSUME NEW a \in Incoming
      PROVE  /\ a \in Arc /\ EndNode(H.g, a) = H.u /\ StartNode(H.g, a) \in Node /\ StartNode(H.g, a) # H.u
             /\ Awake(H, StartNode(H.g, a)) /\ ResCap(H.g, a) > 0
  <2>1. PICK b \in Arc : /\ a = Twin(b) /\ StartNode(H.g, b) = H.u /\ Awake(H, EndNode(H.g, b))
                         /\ ResCap(H.g, Twin(b)) > 0
    BY DEF Incoming, RelabelArcs, Around
  <2>2. a \in Arc
    BY <2>1, ArcFacts
  <2>. QED BY <1>1, <2>1, <2>2, NetworkArcs
<1>. QED BY <1>2, <1>3

LEMMA SleepAloneKeeps ==
  ASSUME CutInv, UNCHANGED cutCall, SleepAlone
  PROVE  CutInv' /\ H'.dist = H.dist
         /\ \A v \in Node : H'.dorm[v] = IF v = H.u THEN H.dormMax + 1 ELSE H.dorm[v]
<1>. DEFINE top == H.dormMax + 1
<1>1. /\ Whole(H') /\ H.stage = "sweep" /\ H.u # NoNode
      /\ H'.dormMax = top /\ H'.u = NoNode /\ H'.dorm = [H.dorm EXCEPT ![H.u] = top]
      /\ H'.S2 = H.S2 \union Incoming
      /\ H'.stage = H.stage /\ H'.g = H.g /\ H'.itc = H.itc /\ H'.t = H.t /\ H'.dist = H.dist
      /\ H'.Q = H.Q /\ H'.Admissible = H.Admissible /\ H'.unread = H.unread /\ H'.minCap = H.minCap /\ H'.chi = H.chi
      /\ H'.unbounded = H.unbounded /\ H'.fault = H.fault
  BY DEF CutInv, HTypes, SleepAlone, Whole
<1>2. /\ H.u \in Node /\ Awake(H, H.u) /\ H.u # H.t /\ ~H.unbounded /\ Awake(H, H.t) /\ H.t \in Node
      /\ H.dormMax \in 0 .. n - 1 /\ H.dorm \in [Node -> 0 .. H.dormMax \union {NoNode}]
      /\ H.dist \in [Node -> Nat] /\ H.dorm[Root] = 0 /\ NoNode \notin 0 .. n /\ n \in Nat /\ n > 1
      /\ Root \in Node /\ 0 \in Node
  BY <1>1, RootIs DEF CutInv, HTypes, LayersWhole, ActiveNode
<1>3. top \in 1 .. n /\ top # NoNode /\ top = H.dormMax + 1
  BY <1>2
<1>4. Root' = Root /\ \A v : Surplus(H', v) = Surplus(H, v)
  BY <1>1 DEF Root, Surplus
<1>. HIDE DEF top
<1>5. ASSUME NEW v \in Node
      PROVE  /\ H'.dorm[v] = (IF v = H.u THEN top ELSE H.dorm[v])
             /\ Awake(H', v) <=> Awake(H, v) /\ v # H.u
             /\ H'.dorm[v] = 0 <=> H.dorm[v] = 0
             /\ H.dorm[v] # NoNode => H'.dorm[v] = H.dorm[v]
  BY <1>1, <1>2, <1>3 DEF Awake
<1>7. \A j \in 0 .. top : \E v \in Node : H'.dorm[v] = j
  <2>1. ASSUME NEW j \in 0 .. top, j # top PROVE \E v \in Node : H'.dorm[v] = j
    <3>1. j \in 0 .. H.dormMax /\ j # NoNode
      BY <1>2, <1>3, <2>1
    <3>2. PICK v \in Node : H.dorm[v] = j
      BY <3>1 DEF CutInv, LayersWhole
    <3>. QED BY <1>5, <3>1, <3>2
  <2>2. H'.dorm[H.u] = top
    BY <1>2, <1>5
  <2>. QED BY <1>2, <2>1, <2>2
<1>8. top \in 0 .. n - 1
  BY <1>3, <1>7, FewLayers
<1>9. HTypes'
  <2>1. H'.dorm \in [Node -> 0 .. top \union {NoNode}]
    <3>1. \A v \in Node : H.dorm[v] \in 0 .. top \union {NoNode}
      BY <1>2, <1>3
    <3>2. top \in 0 .. top
      BY <1>8
    <3>. QED BY <1>1, <1>2, <3>1, <3>2
  <2>2. H'.S2 \subseteq Arc
    BY <1>1, RelabelArcsAre DEF CutInv, HTypes
  <2>. QED BY <1>1, <1>4, <1>8, <2>1, <2>2 DEF CutInv, HTypes
<1>10. Drained(H') = Drained(H)
  BY <1>5 DEF Drained
<1>11. LayersWhole'
  BY <1>1, <1>2, <1>4, <1>5, <1>7, <1>10 DEF CutInv, LayersWhole
<1>12. ActiveNode' /\ SurplusKept' /\ UnreadArcs' /\ CutKnown'
  BY <1>1, <1>2, <1>4, <1>5 DEF CutInv, ActiveNode, SurplusKept, UnreadArcs, CutKnown
<1>13. ArcsUsable'
  <2>1. IsNetwork(H.g) /\ H.S2 \subseteq Arc /\ H.Admissible \subseteq Arc
    BY DEF CutInv, HTypes
  <2>2. \A a \in Arc : StartNode(H.g, a) \in Node /\ EndNode(H.g, a) \in Node
    BY <2>1, NetworkArcs
  <2>3. \A a \in H.Admissible : ResCap(H.g, a) > 0 \/ H'.dorm[StartNode(H.g, a)] = 0
    BY <1>5, <2>1, <2>2 DEF CutInv, ArcsUsable
  <2>4. ASSUME NEW a \in H.S2, H'.dorm[StartNode(H.g, a)] # 0
        PROVE  /\ ResCap(H.g, a) > 0 /\ H'.dorm[EndNode(H.g, a)] \notin {0, NoNode}
               /\ Awake(H', StartNode(H.g, a)) \/ H'.dorm[StartNode(H.g, a)] > H'.dorm[EndNode(H.g, a)]
    <3>. DEFINE x == StartNode(H.g, a)
                y == EndNode(H.g, a)
    <3>1. x \in Node /\ y \in Node
      BY <2>1, <2>2
    <3>2. H.dorm[x] # 0
      BY <1>5, <2>4, <3>1
    <3>3. ResCap(H.g, a) > 0 /\ H.dorm[y] \notin {0, NoNode} /\ (Awake(H, x) \/ H.dorm[x] > H.dorm[y])
      BY <3>2 DEF CutInv, ArcsUsable
    <3>. HIDE DEF x, y
    <3>4. H'.dorm[y] = H.dorm[y] /\ H.dorm[y] \in 0 .. H.dormMax
      BY <1>2, <1>5, <3>1, <3>3
    <3>5. Awake(H', x) \/ H'.dorm[x] > H'.dorm[y]
      <4>1. CASE x = H.u
        BY <1>2, <1>3, <1>5, <3>1, <3>4, <4>1
      <4>2. CASE x # H.u
        BY <1>5, <3>1, <3>3, <3>4, <4>2 DEF Awake
      <4>. QED BY <4>1, <4>2
    <3>. QED BY <3>3, <3>4, <3>5 DEF x, y
  <2>5. ASSUME NEW a \in Incoming
        PROVE  /\ ResCap(H.g, a) > 0 /\ H'.dorm[EndNode(H.g, a)] \notin {0, NoNode}
               /\ Awake(H', StartNode(H.g, a))
    BY <1>2, <1>3, <1>5, RelabelArcsAre DEF CutInv
  <2>. QED BY <1>1, <2>3, <2>4, <2>5 DEF ArcsUsable
<1>14. QueueExact'
  <2>1. NoNode \notin Node
    BY RootIs DEF CutInv
  <2>. QED BY <1>1, <1>2, <1>4, <1>5, <2>1 DEF CutInv, QueueExact, Orderly
<1>. QED BY <1>1, <1>3, <1>5, <1>9, <1>11, <1>12, <1>13, <1>14 DEF CutInv

LEMMA RelabelAwakeKeeps ==
  ASSUME CutInv, UNCHANGED cutCall, RelabelAwake
  PROVE  CutInv' /\ H'.dorm = H.dorm
         /\ \E w \in Node \ {H.u} : Awake(H, w) /\ H'.dist = [H.dist EXCEPT ![H.u] = H.dist[w] + 1]
<1>. DEFINE D == {H.dist[EndNode(H.g, a)] : a \in Outgoing}
            dMin == Least(D)
            out == {a \in Outgoing : H.dist[EndNode(H.g, a)] = dMin}
            in == {a \in H.S2 \union Incoming : H.dist[StartNode(H.g, a)] = dMin + 2}
            A == H.Admissible \union out \union in
            d == [H.dist EXCEPT ![H.u] = dMin + 1]
            h == [H EXCEPT !.Admissible = A, !.S2 = {}, !.dist = d, !.u = NoNode]
<1>1. H.stage = "sweep" /\ H.u # NoNode /\ ~Settled(H.u) /\ Outgoing # {} /\ H' = Insert(h, H.u)
  BY DEF RelabelAwake
<1>2. /\ H.u \in Node /\ Awake(H, H.u) /\ H.u # H.t /\ ~H.unbounded /\ Awake(H, H.t) /\ H.t \in Node
      /\ H.u \notin ToSet(H.Q) /\ H.Q \in Seq(Node) /\ Distinct(H.Q)
      /\ H.dist \in [Node -> Nat] /\ NoNode \notin Node
      /\ \A v \in Node : Awake(H, v) => H.dist[H.t] <= H.dist[v]
  BY <1>1, RootIs DEF CutInv, HTypes, LayersWhole, ActiveNode, QueueExact, Orderly
<1>3. dMin \in Nat /\ H.dist[H.t] <= dMin /\ \E w \in Node \ {H.u} : Awake(H, w) /\ dMin = H.dist[w]
  <2>1. D \in SUBSET Nat /\ D # {}
    BY <1>1, <1>2, RelabelArcsAre DEF CutInv
  <2>2. dMin \in D
    BY <2>1, LeastIs
  <2>3. PICK a \in Outgoing : dMin = H.dist[EndNode(H.g, a)]
    BY <2>2
  <2>. QED BY <1>2, <2>1, <2>2, <2>3, RelabelArcsAre DEF CutInv
<1>4. out \subseteq Outgoing /\ in \subseteq H.S2 \union Incoming
  OBVIOUS
<1>. HIDE DEF D, dMin, out, in
<1>5. /\ Whole(H') /\ H'.Admissible = H.Admissible \union out \union in /\ H'.S2 = {}
      /\ H'.dist = [H.dist EXCEPT ![H.u] = dMin + 1] /\ H'.u = NoNode /\ H'.Q = Append(H.Q, H.u)
      /\ H'.stage = H.stage /\ H'.g = H.g /\ H'.itc = H.itc /\ H'.t = H.t /\ H'.dorm = H.dorm
      /\ H'.dormMax = H.dormMax /\ H'.unread = H.unread /\ H'.minCap = H.minCap /\ H'.chi = H.chi /\ H'.unbounded = H.unbounded
      /\ H'.fault = H.fault
  <2>. HIDE DEF A, d
  <2>0. h = [H EXCEPT !.Admissible = A, !.S2 = {}, !.dist = d, !.u = NoNode]
    OBVIOUS
  <2>. HIDE DEF h
  <2>1. /\ Whole(h) /\ h.Q = H.Q /\ h.Admissible = A /\ h.S2 = {} /\ h.dist = d /\ h.u = NoNode
        /\ h.stage = H.stage /\ h.g = H.g /\ h.itc = H.itc /\ h.t = H.t /\ h.dorm = H.dorm
        /\ h.dormMax = H.dormMax /\ h.unread = H.unread /\ h.minCap = H.minCap /\ h.chi = H.chi /\ h.unbounded = H.unbounded
        /\ h.fault = H.fault
    <3>1. Whole(H)
      BY DEF CutInv, HTypes
    <3>. QED BY <2>0, <3>1 DEF Whole
  <2>2. H' = [h EXCEPT !.Q = Append(h.Q, H.u)]
    BY <1>1, <1>2, <2>1 DEF Insert
  <2>. QED BY <2>1, <2>2 DEF Whole, A, d
<1>. HIDE DEF h
<1>6. Root' = Root /\ \A v : Awake(H', v) = Awake(H, v) /\ Surplus(H', v) = Surplus(H, v)
  BY <1>5 DEF Root, Awake, Surplus
<1>7. /\ H'.Q \in Seq(Node) /\ Distinct(H'.Q)
      /\ \A x : x \in ToSet(H'.Q) <=> x \in ToSet(H.Q) \/ x = H.u
  BY <1>2, <1>5, AppendIs
<1>8. HTypes'
  <2>1. H'.Admissible \subseteq Arc
    BY <1>4, <1>5, RelabelArcsAre DEF CutInv, HTypes
  <2>. QED BY <1>2, <1>3, <1>5, <1>6, <1>7, <2>1 DEF CutInv, HTypes
<1>9. LayersWhole'
  <2>1. H'.dist[H.t] = H.dist[H.t] /\ H'.dist[H.u] = dMin + 1 /\ \A v \in Node : v # H.u => H'.dist[v] = H.dist[v]
    BY <1>2, <1>5
  <2>2. \A v \in Node : Awake(H, v) => H'.dist[H.t] <= H'.dist[v]
    BY <1>2, <1>3, <2>1
  <2>. QED BY <1>5, <1>6, <2>2 DEF CutInv, LayersWhole, Drained
<1>10. ActiveNode' /\ SurplusKept' /\ UnreadArcs' /\ CutKnown'
  BY <1>5, <1>6 DEF CutInv, ActiveNode, SurplusKept, UnreadArcs, CutKnown
<1>11. ArcsUsable'
  <2>1. \A a \in H'.Admissible : ResCap(H.g, a) > 0 \/ H.dorm[StartNode(H.g, a)] = 0
    BY <1>4, <1>5, RelabelArcsAre DEF CutInv, ArcsUsable
  <2>. QED BY <1>1, <1>5, <1>6, <2>1 DEF ArcsUsable
<1>12. QueueExact'
  <2>1. Surplus(H, H.u) > 0
    <3>1. Surplus(H, H.u) \in Int /\ Surplus(H, H.u) # 0
      BY <1>1, NetSingle DEF Settled, Surplus, CutInv, HTypes
    <3>2. H.dorm[H.u] # 0
      BY <1>2, RootIs DEF Awake, CutInv, Node
    <3>. QED BY <1>2, <3>1, <3>2 DEF CutInv, SurplusKept
  <2>. QED BY <1>1, <1>2, <1>5, <1>6, <1>7, <2>1 DEF CutInv, QueueExact, Orderly
<1>. QED BY <1>3, <1>5, <1>8, <1>9, <1>10, <1>11, <1>12 DEF CutInv

LEMMA InsertIs ==
  ASSUME NEW h, Whole(h), h.Q \in Seq(Node), NEW w \in Node
  PROVE  LET k == Insert(h, w) IN
         /\ Whole(k) /\ k.Q \in Seq(Node) /\ k.fault \in {TRUE, h.fault}
         /\ w \notin ToSet(h.Q) => k.Q = Append(h.Q, w) /\ k.fault = h.fault
         /\ \A v \in ToSet(k.Q) : v \in ToSet(h.Q) \/ v = w
         /\ k.stage = h.stage /\ k.g = h.g /\ k.itc = h.itc /\ k.t = h.t /\ k.dist = h.dist
         /\ k.dorm = h.dorm /\ k.dormMax = h.dormMax /\ k.u = h.u /\ k.Admissible = h.Admissible /\ k.S2 = h.S2
         /\ k.unread = h.unread /\ k.minCap = h.minCap /\ k.chi = h.chi /\ k.unbounded = h.unbounded
<1>. DEFINE k == Insert(h, w)
<1>1. CASE w \in ToSet(h.Q)
  <2>1. k = [h EXCEPT !.fault = TRUE]
    BY <1>1 DEF Insert
  <2>. HIDE DEF k
  <2>2. /\ Whole(k) /\ k.Q \in Seq(Node) /\ k.fault \in {TRUE, h.fault}
        /\ w \notin ToSet(h.Q) => k.Q = Append(h.Q, w) /\ k.fault = h.fault
        /\ \A v \in ToSet(k.Q) : v \in ToSet(h.Q) \/ v = w
        /\ k.stage = h.stage /\ k.g = h.g /\ k.itc = h.itc /\ k.t = h.t /\ k.dist = h.dist
        /\ k.dorm = h.dorm /\ k.dormMax = h.dormMax /\ k.u = h.u /\ k.Admissible = h.Admissible /\ k.S2 = h.S2
        /\ k.unread = h.unread /\ k.minCap = h.minCap /\ k.chi = h.chi /\ k.unbounded = h.unbounded
    BY <1>1, <2>1 DEF Whole
  <2>. QED BY <2>2 DEF k
<1>2. CASE w \notin ToSet(h.Q)
  <2>. DEFINE q == Append(h.Q, w)
  <2>1. k = [h EXCEPT !.Q = q]
    BY <1>2 DEF Insert
  <2>2. q \in Seq(Node) /\ \A v \in ToSet(q) : v \in ToSet(h.Q) \/ v = w
    BY DEF ToSet
  <2>. HIDE DEF q, k
  <2>3. /\ Whole(k) /\ k.Q = q /\ k.fault = h.fault
        /\ k.stage = h.stage /\ k.g = h.g /\ k.itc = h.itc /\ k.t = h.t /\ k.dist = h.dist
        /\ k.dorm = h.dorm /\ k.dormMax = h.dormMax /\ k.u = h.u /\ k.Admissible = h.Admissible /\ k.S2 = h.S2
        /\ k.unread = h.unread /\ k.minCap = h.minCap /\ k.chi = h.chi /\ k.unbounded = h.unbounded
    BY <2>1 DEF Whole
  <2>. QED BY <1>2, <2>2, <2>3 DEF q, k
<1>. QED BY <1>1, <1>2

(* What a push changes, and what it does not.                                *)
LEMMA CutPush ==
  ASSUME HTypes, NEW a \in Arc, NEW x \in Nat, x <= ResCap(H.g, a), NEW g, g = Pushed(H.g, a, x)
  PROVE  /\ IsNetwork(g) /\ SameNet(cutCall.G, g)
         /\ \A b : StartNode(g, b) = StartNode(H.g, b) /\ EndNode(g, b) = EndNode(H.g, b)
         /\ \A L : CapOf(g, L) = CapOf(H.g, L)
         /\ ResCap(g, a) = ResCap(H.g, a) - x
         /\ \A b \in Arc : b # a => ResCap(g, b) >= ResCap(H.g, b)
         /\ \A v : /\ Divergence(H.g, v) \in Int
                   /\ Divergence(g, v) = Divergence(H.g, v) + (IF v = EndNode(H.g, a) THEN x
                                                               ELSE IF v = StartNode(H.g, a) THEN -x ELSE 0)
<1>1. IsNetwork(H.g) /\ SameNet(cutCall.G, H.g)
  BY DEF HTypes
<1>2. /\ IsNetwork(g) /\ SameNet(H.g, g) /\ ResCap(g, a) = ResCap(H.g, a) - x
      /\ ResCap(g, Twin(a)) = ResCap(H.g, Twin(a)) + x
      /\ \A b \in Arc \ {a, Twin(a)} : ResCap(g, b) = ResCap(H.g, b)
  BY <1>1, PushedNet
<1>3. SameNet(cutCall.G, g)
  BY <1>1, <1>2, SameNetTrans
<1>4. \A b : StartNode(g, b) = StartNode(H.g, b) /\ EndNode(g, b) = EndNode(H.g, b)
  BY <1>2, SameNetArcs
<1>5. \A L : CapOf(g, L) = CapOf(H.g, L)
  BY <1>2, CapSame
<1>6. \A b \in Arc : b # a => ResCap(g, b) >= ResCap(H.g, b)
  <2>1. \A b \in Arc : ResCap(H.g, b) \in Nat
    BY <1>1, NetworkArcs
  <2>2. Twin(a) \in Arc
    BY ArcFacts
  <2>. QED BY <1>2, <2>1, <2>2
<1>7. ASSUME NEW v
      PROVE  /\ Divergence(H.g, v) \in Int
             /\ Divergence(g, v) = Divergence(H.g, v) + (IF v = EndNode(H.g, a) THEN x
                                                         ELSE IF v = StartNode(H.g, a) THEN -x ELSE 0)
  BY <1>1, NetSingle, PushedDiv
<1>. QED BY <1>2, <1>3, <1>4, <1>5, <1>6, <1>7

LEMMA DrainRootKeeps ==
  ASSUME CutInv, UNCHANGED cutCall, NEW a \in Arc, DrainRoot(a)
  PROVE  CutInv' /\ H'.dist = H.dist /\ H'.dorm = H.dorm
<1>. DEFINE w == EndNode(H.g, a)
            x == ResCap(H.g, a)
            c == Surplus(H, w) = 0 /\ w \notin {Root, H.t} /\ x > 0
            h == InsertIf(c, H, w)
            R == H.unread \ {a}
            g == Pushed(H.g, a, x)
<1>1. /\ H.stage = "root" /\ a \in H.unread
      /\ H' = IF UCap(H.g, a) # InfCap
              THEN [h EXCEPT !.g = Pushed(h.g, a, ResCap(h.g, a)), !.unread = h.unread \ {a}]
              ELSE [h EXCEPT !.unbounded = TRUE, !.unread = h.unread \ {a}]
  BY DEF DrainRoot
<1>2. /\ HTypes /\ IsNetwork(H.g) /\ Whole(H) /\ H.Q \in Seq(Node) /\ H.fault \in BOOLEAN
      /\ H.dormMax = 0 /\ (\A v \in Node \ {Root} : Awake(H, v)) /\ H.dorm[Root] = 0
      /\ H.Admissible = {} /\ H.S2 = {} /\ Awake(H, H.t) /\ H.u = NoNode /\ H.t \in Node
      /\ Root \in Node /\ NoNode \notin Node /\ NoNode # 0
  <2>1. CutInv /\ HTypes
    BY DEF CutInv
  <2>2. NoNode # 0 /\ Root \in Node /\ NoNode \notin Node
    BY <2>1, RootIs
  <2>. QED BY <1>1, <2>1, <2>2 DEF CutInv, HTypes, LayersWhole, ArcsUsable, ActiveNode
<1>3. StartNode(H.g, a) = Root /\ w \in Node /\ w # Root /\ x \in Nat /\ x <= x /\ Awake(H, w)
  <2>1. StartNode(H.g, a) = Root
    BY <1>1 DEF CutInv, UnreadArcs
  <2>2. w \in Node /\ w # Root /\ x \in Nat
    BY <1>2, <2>1, NetworkArcs
  <2>. QED BY <1>2, <2>1, <2>2
<1>4. c \in BOOLEAN
  OBVIOUS
<1>. HIDE DEF c, w, x
<1>5. /\ Whole(h) /\ h.Q \in Seq(Node) /\ h.fault \in BOOLEAN
      /\ ~c => h.Q = H.Q /\ h.fault = H.fault
      /\ c /\ w \notin ToSet(H.Q) => h.Q = Append(H.Q, w) /\ h.fault = H.fault
      /\ \A v \in ToSet(h.Q) : v \in ToSet(H.Q) \/ v = w
      /\ h.stage = H.stage /\ h.g = H.g /\ h.itc = H.itc /\ h.t = H.t /\ h.dist = H.dist
      /\ h.dorm = H.dorm /\ h.dormMax = H.dormMax /\ h.u = H.u /\ h.Admissible = H.Admissible /\ h.S2 = H.S2
      /\ h.unread = H.unread /\ h.minCap = H.minCap /\ h.chi = H.chi /\ h.unbounded = H.unbounded
  <2>1. CASE c
    <3>1. h = Insert(H, w)
      BY <2>1 DEF InsertIf
    <3>. HIDE DEF h
    <3>2. Whole(H) /\ H.Q \in Seq(Node) /\ w \in Node
      BY <1>2, <1>3
    <3>3. /\ Whole(h) /\ h.Q \in Seq(Node) /\ h.fault \in {TRUE, H.fault}
          /\ w \notin ToSet(H.Q) => h.Q = Append(H.Q, w) /\ h.fault = H.fault
          /\ \A v \in ToSet(h.Q) : v \in ToSet(H.Q) \/ v = w
          /\ h.stage = H.stage /\ h.g = H.g /\ h.itc = H.itc /\ h.t = H.t /\ h.dist = H.dist
          /\ h.dorm = H.dorm /\ h.dormMax = H.dormMax /\ h.u = H.u /\ h.Admissible = H.Admissible /\ h.S2 = H.S2
          /\ h.unread = H.unread /\ h.minCap = H.minCap /\ h.chi = H.chi /\ h.unbounded = H.unbounded
      BY <3>1, <3>2, InsertIs
    <3>. QED BY <1>2, <2>1, <3>3
  <2>2. CASE ~c
    <3>1. h = H
      BY <2>2 DEF InsertIf
    <3>. QED BY <1>2, <2>2, <3>1
  <2>. QED BY <2>1, <2>2
<1>6. /\ IsNetwork(g) /\ SameNet(cutCall.G, g)
      /\ \A b : StartNode(g, b) = StartNode(H.g, b) /\ EndNode(g, b) = EndNode(H.g, b)
      /\ \A L : CapOf(g, L) = CapOf(H.g, L)
      /\ \A v : /\ Divergence(H.g, v) \in Int
                /\ Divergence(g, v) = Divergence(H.g, v) + (IF v = w THEN x ELSE IF v = Root THEN -x ELSE 0)
  BY <1>2, <1>3, CutPush DEF w, x
<1>7. /\ UCap(H.g, a) # InfCap => H' = [h EXCEPT !.g = g, !.unread = R]
      /\ UCap(H.g, a) = InfCap => H' = [h EXCEPT !.unbounded = TRUE, !.unread = R]
  BY <1>1, <1>5 DEF x
<1>. HIDE DEF g, R, h
<1>8. /\ Whole(H') /\ H'.Q = h.Q /\ H'.fault = h.fault /\ H'.unread = R
      /\ H'.g = (IF UCap(H.g, a) # InfCap THEN g ELSE H.g)
      /\ H'.unbounded = (IF UCap(H.g, a) # InfCap THEN H.unbounded ELSE TRUE)
      /\ H'.stage = H.stage /\ H'.itc = H.itc /\ H'.t = H.t /\ H'.dist = H.dist /\ H'.dorm = H.dorm
      /\ H'.dormMax = H.dormMax /\ H'.u = H.u /\ H'.Admissible = H.Admissible /\ H'.S2 = H.S2 /\ H'.minCap = H.minCap
      /\ H'.chi = H.chi
  <2>1. CASE UCap(H.g, a) # InfCap
    BY <1>5, <1>7, <2>1 DEF Whole
  <2>2. CASE UCap(H.g, a) = InfCap
    BY <1>5, <1>7, <2>2 DEF Whole
  <2>. QED BY <2>1, <2>2
<1>9. Root' = Root /\ \A v : Awake(H', v) = Awake(H, v)
  BY <1>8 DEF Root, Awake
<1>10. /\ IsNetwork(H'.g) /\ SameNet(cutCall.G, H'.g)
       /\ \A b : StartNode(H'.g, b) = StartNode(H.g, b) /\ EndNode(H'.g, b) = EndNode(H.g, b)
       /\ \A L : CapOf(H'.g, L) = CapOf(H.g, L)
  BY <1>2, <1>6, <1>8 DEF HTypes
<1>11. \A v : /\ Surplus(H, v) \in Int
              /\ UCap(H.g, a) # InfCap =>
                   Surplus(H', v) = Surplus(H, v) + (IF v = w THEN x ELSE IF v = Root THEN -x ELSE 0)
              /\ UCap(H.g, a) = InfCap => Surplus(H', v) = Surplus(H, v)
  BY <1>6, <1>8 DEF Surplus
<1>12. HTypes'
  BY <1>2, <1>5, <1>8, <1>9, <1>10 DEF HTypes, R
<1>13. LayersWhole'
  <2>1. H'.stage = "root" /\ Drained(H') = Drained(H)
    BY <1>1, <1>8 DEF Drained
  <2>. QED BY <1>1, <1>8, <1>9, <2>1 DEF CutInv, LayersWhole
<1>14. ActiveNode' /\ ArcsUsable'
  BY <1>2, <1>8, <1>9 DEF ActiveNode, ArcsUsable
<1>15. UnreadArcs' /\ CutKnown'
  BY <1>1, <1>8, <1>9, <1>10 DEF CutInv, UnreadArcs, CutKnown, R
<1>16. SurplusKept'
  <2>1. ASSUME NEW v \in Node, H.dorm[v] # 0 PROVE Surplus(H', v) >= 0
    <3>1. v # Root /\ Surplus(H, v) >= 0
      BY <1>2, <2>1 DEF CutInv, SurplusKept
    <3>. QED BY <1>3, <1>11, <3>1
  <2>. QED BY <1>8, <2>1 DEF SurplusKept
<1>17. QueueExact'
  <2>0. \A v \in ToSet(H'.Q) : Awake(H', v)
    BY <1>1, <1>3, <1>5, <1>8, <1>9 DEF CutInv, QueueExact
  <2>1. CASE H'.unbounded
    BY <1>1, <1>8, <2>0, <2>1 DEF QueueExact, Orderly
  <2>2. CASE ~H'.unbounded
    <3>1. UCap(H.g, a) # InfCap /\ ~H.unbounded /\ ~H.fault
      BY <1>2, <1>8, <2>2 DEF CutInv, QueueExact, HTypes
    <3>2. /\ Distinct(H.Q) /\ (\A v \in ToSet(H.Q) : Surplus(H, v) > 0)
          /\ \A v \in Node : Awake(H, v) /\ Surplus(H, v) > 0 => v \in ToSet(H.Q) \union {H.u, H.t}
      BY <3>1 DEF CutInv, QueueExact, Orderly
    <3>3. c => w \notin ToSet(H.Q)
      BY <3>2 DEF c
    <3>4. /\ h.fault = H.fault /\ Distinct(h.Q)
          /\ \A v : v \in ToSet(h.Q) <=> v \in ToSet(H.Q) \/ (c /\ v = w)
      <4>1. CASE c
        <5>1. w \notin ToSet(H.Q) /\ h.Q = Append(H.Q, w) /\ h.fault = H.fault
          BY <1>5, <3>3, <4>1
        <5>2. Distinct(Append(H.Q, w)) /\ \A v : v \in ToSet(Append(H.Q, w)) <=> v \in ToSet(H.Q) \/ v = w
          BY <1>2, <1>3, <3>2, <5>1, AppendIs
        <5>. QED BY <4>1, <5>1, <5>2
      <4>2. CASE ~c
        BY <1>5, <3>2, <4>2
      <4>. QED BY <4>1, <4>2
    <3>6. ASSUME NEW v \in ToSet(h.Q) PROVE Surplus(H', v) > 0
      <4>1. CASE c /\ v = w
        BY <1>3, <1>11, <3>1, <4>1 DEF c
      <4>2. CASE v \in ToSet(H.Q)
        <5>1. v # Root
          BY <1>1, <1>2, <4>2 DEF CutInv, QueueExact, Awake
        <5>. QED BY <1>3, <1>11, <3>1, <3>2, <4>2, <5>1
      <4>. QED BY <3>4, <4>1, <4>2
    <3>7. ASSUME NEW v \in Node, Awake(H, v), Surplus(H', v) > 0 PROVE v \in ToSet(h.Q) \union {H.u, H.t}
      <4>1. v # Root
        BY <1>2, <3>7 DEF Awake
      <4>2. CASE v = w
        <5>1. Surplus(H, w) >= 0
          BY <1>2, <1>3 DEF CutInv, SurplusKept, Awake
        <5>2. Surplus(H, w) = 0 => x > 0
          BY <1>3, <1>11, <3>1, <3>7, <4>2
        <5>. QED BY <1>3, <1>11, <3>2, <3>4, <3>7, <4>1, <4>2, <5>1, <5>2 DEF c
      <4>3. CASE v # w
        BY <1>11, <3>1, <3>2, <3>4, <3>7, <4>1, <4>3
      <4>. QED BY <4>2, <4>3
    <3>. QED BY <1>1, <1>8, <1>9, <2>0, <3>1, <3>4, <3>6, <3>7 DEF QueueExact
  <2>. QED BY <2>1, <2>2
<1>. QED BY <1>8, <1>12, <1>13, <1>14, <1>15, <1>16, <1>17 DEF CutInv

LEMMA PushArcKeeps ==
  ASSUME CutInv, UNCHANGED cutCall, NEW a \in Arc, PushArc(a)
  PROVE  CutInv' /\ H'.dist = H.dist /\ H'.dorm = H.dorm
<1>. DEFINE w == EndNode(H.g, a)
            x == Least({ResCap(H.g, a), Surplus(H, H.u)})
            c == Surplus(H, w) = 0 /\ w # H.t
            h == InsertIf(c, H, w)
            g == Pushed(H.g, a, x)
            A == IF ResCap(g, a) > 0 THEN H.Admissible ELSE H.Admissible \ {a}
            moves == H.dist[H.u] = H.dist[w] + 1 /\ Awake(H, w)
<1>1. /\ H.stage = "sweep" /\ H.u # NoNode /\ a \in H.Admissible /\ StartNode(H.g, a) = H.u /\ Surplus(H, H.u) > 0
      /\ H' = IF moves THEN [h EXCEPT !.g = g, !.Admissible = IF ResCap(g, a) > 0 THEN h.Admissible ELSE h.Admissible \ {a}]
              ELSE [H EXCEPT !.Admissible = H.Admissible \ {a}]
  BY DEF PushArc
<1>2. /\ HTypes /\ IsNetwork(H.g) /\ Whole(H) /\ H.Q \in Seq(Node)
      /\ H.u \in Node /\ Awake(H, H.u) /\ H.u # H.t /\ H.u \notin ToSet(H.Q) /\ ~H.unbounded /\ H.t \in Node
      /\ Root \in Node /\ NoNode \notin Node /\ NoNode # 0 /\ H.Admissible \subseteq Arc
      /\ Distinct(H.Q) /\ (\A v \in ToSet(H.Q) : Surplus(H, v) > 0)
      /\ \A v \in Node : Awake(H, v) /\ Surplus(H, v) > 0 => v \in ToSet(H.Q) \union {H.u, H.t}
  <2>1. CutInv /\ HTypes
    BY DEF CutInv
  <2>2. NoNode # 0 /\ Root \in Node /\ NoNode \notin Node
    BY <2>1, RootIs
  <2>. QED BY <1>1, <2>1, <2>2 DEF CutInv, HTypes, LayersWhole, ActiveNode, QueueExact, Orderly
<1>3. w \in Node /\ w # H.u
  BY <1>1, <1>2, NetworkArcs
<1>4. c => w \notin ToSet(H.Q)
  BY <1>2
<1>5. /\ x \in Nat /\ x > 0 /\ x <= ResCap(H.g, a) /\ x <= Surplus(H, H.u)
  <2>. DEFINE y == Surplus(H, H.u)
              z == ResCap(H.g, a)
  <2>1. y \in Int /\ y > 0 /\ z \in Nat
    BY <1>1, <1>2, NetSingle, NetworkArcs DEF Surplus
  <2>2. z > 0
    BY <1>1, <1>2 DEF CutInv, ArcsUsable, Awake
  <2>. HIDE DEF y, z
  <2>3. {z, y} \in SUBSET Nat /\ {z, y} # {}
    BY <2>1
  <2>4. Least({z, y}) \in {z, y} /\ \A k \in {z, y} : Least({z, y}) <= k
    BY <2>3, LeastIs
  <2>. QED BY <2>1, <2>2, <2>4 DEF y, z
<1>. HIDE DEF c, w, x
<1>6. CASE ~moves
  <2>1. /\ Whole(H') /\ H'.Admissible = H.Admissible \ {a}
        /\ H'.stage = H.stage /\ H'.g = H.g /\ H'.itc = H.itc /\ H'.t = H.t /\ H'.dist = H.dist
        /\ H'.dorm = H.dorm /\ H'.dormMax = H.dormMax /\ H'.Q = H.Q /\ H'.u = H.u /\ H'.S2 = H.S2
        /\ H'.unread = H.unread /\ H'.minCap = H.minCap /\ H'.chi = H.chi /\ H'.unbounded = H.unbounded /\ H'.fault = H.fault
    BY <1>1, <1>2, <1>6 DEF Whole
  <2>2. Root' = Root /\ \A v : Awake(H', v) = Awake(H, v) /\ Surplus(H', v) = Surplus(H, v)
    BY <2>1 DEF Root, Awake, Surplus
  <2>3. HTypes'
    BY <2>1, <2>2 DEF CutInv, HTypes
  <2>4. LayersWhole'
    BY <2>1, <2>2 DEF CutInv, LayersWhole, Drained
  <2>5. ActiveNode' /\ SurplusKept' /\ UnreadArcs' /\ ArcsUsable' /\ CutKnown'
    BY <1>1, <2>1, <2>2 DEF CutInv, ActiveNode, SurplusKept, UnreadArcs, ArcsUsable, CutKnown
  <2>6. QueueExact'
    BY <2>1, <2>2 DEF CutInv, QueueExact, Orderly
  <2>. QED BY <2>1, <2>3, <2>4, <2>5, <2>6 DEF CutInv
<1>7. /\ Whole(h) /\ h.Q \in Seq(Node) /\ h.fault = H.fault /\ Distinct(h.Q)
      /\ \A v : v \in ToSet(h.Q) <=> v \in ToSet(H.Q) \/ (c /\ v = w)
      /\ h.stage = H.stage /\ h.g = H.g /\ h.itc = H.itc /\ h.t = H.t /\ h.dist = H.dist
      /\ h.dorm = H.dorm /\ h.dormMax = H.dormMax /\ h.u = H.u /\ h.Admissible = H.Admissible /\ h.S2 = H.S2
      /\ h.unread = H.unread /\ h.minCap = H.minCap /\ h.chi = H.chi /\ h.unbounded = H.unbounded
  <2>1. CASE c
    <3>1. h = Insert(H, w)
      BY <2>1 DEF InsertIf
    <3>. HIDE DEF h
    <3>2. Whole(H) /\ H.Q \in Seq(Node) /\ w \in Node
      BY <1>2, <1>3
    <3>3. /\ Whole(h) /\ h.Q \in Seq(Node) /\ h.fault \in {TRUE, H.fault}
          /\ w \notin ToSet(H.Q) => h.Q = Append(H.Q, w) /\ h.fault = H.fault
          /\ \A v \in ToSet(h.Q) : v \in ToSet(H.Q) \/ v = w
          /\ h.stage = H.stage /\ h.g = H.g /\ h.itc = H.itc /\ h.t = H.t /\ h.dist = H.dist
          /\ h.dorm = H.dorm /\ h.dormMax = H.dormMax /\ h.u = H.u /\ h.Admissible = H.Admissible /\ h.S2 = H.S2
          /\ h.unread = H.unread /\ h.minCap = H.minCap /\ h.chi = H.chi /\ h.unbounded = H.unbounded
      BY <3>1, <3>2, InsertIs
    <3>4. Distinct(Append(H.Q, w)) /\ \A v : v \in ToSet(Append(H.Q, w)) <=> v \in ToSet(H.Q) \/ v = w
      BY <1>2, <1>3, <1>4, <2>1, AppendIs
    <3>. QED BY <1>2, <1>4, <2>1, <3>3, <3>4
  <2>2. CASE ~c
    <3>1. h = H
      BY <2>2 DEF InsertIf
    <3>. QED BY <1>2, <2>2, <3>1
  <2>. QED BY <2>1, <2>2
<1>8. /\ IsNetwork(g) /\ SameNet(cutCall.G, g)
      /\ \A b : StartNode(g, b) = StartNode(H.g, b) /\ EndNode(g, b) = EndNode(H.g, b)
      /\ \A L : CapOf(g, L) = CapOf(H.g, L)
      /\ \A b \in Arc : b # a => ResCap(g, b) >= ResCap(H.g, b)
      /\ \A v : /\ Divergence(H.g, v) \in Int
                /\ Divergence(g, v) = Divergence(H.g, v) + (IF v = w THEN x ELSE IF v = H.u THEN -x ELSE 0)
  BY <1>1, <1>2, <1>3, <1>5, CutPush DEF w
<1>9. CASE moves
  <2>1. H' = [h EXCEPT !.g = g, !.Admissible = A]
    BY <1>1, <1>7, <1>9
  <2>2. A \subseteq H.Admissible /\ (a \in A => ResCap(g, a) > 0)
    OBVIOUS
  <2>. HIDE DEF g, A, h
  <2>3. /\ Whole(H') /\ H'.Q = h.Q /\ H'.g = g /\ H'.Admissible = A
        /\ H'.stage = H.stage /\ H'.itc = H.itc /\ H'.t = H.t /\ H'.dist = H.dist /\ H'.dorm = H.dorm
        /\ H'.dormMax = H.dormMax /\ H'.u = H.u /\ H'.S2 = H.S2 /\ H'.unread = H.unread /\ H'.minCap = H.minCap
        /\ H'.chi = H.chi /\ H'.unbounded = H.unbounded /\ H'.fault = H.fault
    BY <1>7, <2>1 DEF Whole
  <2>4. Root' = Root /\ \A v : Awake(H', v) = Awake(H, v)
    BY <2>3 DEF Root, Awake
  <2>5. \A v : /\ Surplus(H, v) \in Int
               /\ Surplus(H', v) = Surplus(H, v) + (IF v = w THEN x ELSE IF v = H.u THEN -x ELSE 0)
    BY <1>8, <2>3 DEF Surplus
  <2>6. HTypes'
    BY <1>2, <1>7, <1>8, <2>2, <2>3, <2>4 DEF HTypes
  <2>7. LayersWhole'
    <3>1. Drained(H') = Drained(H)
      BY <2>3 DEF Drained
    <3>. QED BY <2>3, <2>4, <3>1 DEF CutInv, LayersWhole
  <2>8. ActiveNode'
    BY <1>1, <1>2, <1>3, <1>7, <2>3, <2>4 DEF ActiveNode
  <2>9. SurplusKept'
    <3>1. ASSUME NEW v \in Node, H.dorm[v] # 0 PROVE Surplus(H', v) >= 0
      <4>1. Surplus(H, v) >= 0
        BY <3>1 DEF CutInv, SurplusKept
      <4>. QED BY <1>5, <2>5, <4>1
    <3>. QED BY <2>3, <3>1 DEF SurplusKept
  <2>10. UnreadArcs' /\ CutKnown'
    BY <1>1, <1>8, <2>3, <2>4 DEF CutInv, UnreadArcs, CutKnown
  <2>11. ArcsUsable'
    <3>1. ASSUME NEW b \in A PROVE ResCap(g, b) > 0 \/ H.dorm[StartNode(H.g, b)] = 0
      <4>1. b \in Arc /\ b \in H.Admissible
        BY <1>2, <2>2
      <4>2. ResCap(H.g, b) > 0 \/ H.dorm[StartNode(H.g, b)] = 0
        BY <4>1 DEF CutInv, ArcsUsable
      <4>3. ResCap(g, b) \in Nat /\ ResCap(H.g, b) \in Nat
        BY <1>2, <1>8, <4>1, NetworkArcs
      <4>. QED BY <1>8, <2>2, <4>1, <4>2, <4>3
    <3>2. ASSUME NEW b \in H.S2, H.dorm[StartNode(H.g, b)] # 0
          PROVE  /\ ResCap(g, b) > 0 /\ H.dorm[EndNode(H.g, b)] \notin {0, NoNode}
                 /\ Awake(H, StartNode(H.g, b)) \/ H.dorm[StartNode(H.g, b)] > H.dorm[EndNode(H.g, b)]
      <4>1. /\ ResCap(H.g, b) > 0 /\ H.dorm[EndNode(H.g, b)] \notin {0, NoNode}
            /\ Awake(H, StartNode(H.g, b)) \/ H.dorm[StartNode(H.g, b)] > H.dorm[EndNode(H.g, b)]
        BY <3>2 DEF CutInv, ArcsUsable
      <4>2. b # a /\ b \in Arc
        BY <1>2, <1>9, <4>1 DEF Awake, w, HTypes
      <4>3. ResCap(g, b) \in Nat /\ ResCap(H.g, b) \in Nat
        BY <1>2, <1>8, <4>2, NetworkArcs
      <4>. QED BY <1>8, <4>1, <4>2, <4>3
    <3>3. \A b \in H'.Admissible : ResCap(H'.g, b) > 0 \/ H'.dorm[StartNode(H'.g, b)] = 0
      BY <1>8, <2>3, <3>1
    <3>4. \A b \in H'.S2 :
            \/ H'.dorm[StartNode(H'.g, b)] = 0
            \/ /\ ResCap(H'.g, b) > 0 /\ H'.dorm[EndNode(H'.g, b)] \notin {0, NoNode}
               /\ Awake(H', StartNode(H'.g, b)) \/ H'.dorm[StartNode(H'.g, b)] > H'.dorm[EndNode(H'.g, b)]
      BY <1>8, <2>3, <2>4, <3>2
    <3>5. H'.stage # "root"
      BY <1>1, <2>3
    <3>. QED BY <3>3, <3>4, <3>5 DEF ArcsUsable
  <2>12. QueueExact'
    <3>1. ASSUME NEW v \in ToSet(h.Q) PROVE Surplus(H', v) > 0
      <4>1. CASE c /\ v = w
        BY <1>5, <2>5, <4>1 DEF c
      <4>2. CASE v \in ToSet(H.Q)
        BY <1>2, <1>5, <2>5, <4>2
      <4>. QED BY <1>7, <4>1, <4>2
    <3>2. ASSUME NEW v \in Node, Awake(H, v), Surplus(H', v) > 0 PROVE v \in ToSet(h.Q) \union {H.u, H.t}
      <4>1. CASE v = w
        <5>1. Surplus(H, w) >= 0
          BY <1>2, <1>3, <3>2, <4>1 DEF CutInv, SurplusKept, Awake
        <5>. QED BY <1>2, <1>7, <2>5, <3>2, <4>1, <5>1 DEF c
      <4>2. CASE v # w
        BY <1>2, <1>7, <2>5, <3>2, <4>2
      <4>. QED BY <4>1, <4>2
    <3>3. ~H.fault
      BY <1>2 DEF CutInv, QueueExact
    <3>. QED BY <1>1, <1>7, <2>3, <2>4, <3>1, <3>2, <3>3 DEF QueueExact
  <2>. QED BY <2>3, <2>6, <2>7, <2>8, <2>9, <2>10, <2>11, <2>12 DEF CutInv
<1>. QED BY <1>6, <1>9

LEMMA DrainSinkKeeps ==
  ASSUME CutInv, UNCHANGED cutCall, NEW a \in Arc, DrainSink(a)
  PROVE  CutInv' /\ H'.dist = H.dist /\ H'.dorm = H.dorm
<1>. DEFINE w == EndNode(H.g, a)
            x == ResCap(H.g, a)
            c == Surplus(H, w) = 0 /\ Awake(H, w)
            h == InsertIf(c, H, w)
            g == Pushed(H.g, a, x)
            R == H.unread \ {a}
            moves == UCap(H.g, a) # InfCap /\ x > 0 /\ H.dorm[w] # 0
<1>1. /\ H.stage = "drain" /\ a \in H.unread
      /\ moves => H' = [h EXCEPT !.g = Pushed(h.g, a, ResCap(h.g, a)), !.unread = h.unread \ {a}]
      /\ ~moves => \/ H' = [H EXCEPT !.unbounded = TRUE, !.unread = R]
                   \/ H' = [H EXCEPT !.unread = R]
  BY DEF DrainSink
<1>2. /\ HTypes /\ IsNetwork(H.g) /\ Whole(H) /\ H.Q \in Seq(Node) /\ H.u = NoNode
      /\ Root \in Node /\ NoNode \notin Node /\ NoNode # 0 /\ H.dorm[H.t] = 0 /\ H.t \in Node /\ H.unread \subseteq Arc
      /\ Distinct(H.Q) /\ (\A v \in ToSet(H.Q) : Surplus(H, v) > 0 /\ Awake(H, v))
      /\ \A v \in Node : Awake(H, v) /\ Surplus(H, v) > 0 => v \in ToSet(H.Q) \union {H.u, H.t}
  <2>1. CutInv /\ HTypes
    BY DEF CutInv
  <2>2. NoNode # 0 /\ Root \in Node /\ NoNode \notin Node
    BY <2>1, RootIs
  <2>. QED BY <1>1, <2>1, <2>2 DEF CutInv, HTypes, LayersWhole, ActiveNode, QueueExact, Orderly
<1>3. StartNode(H.g, a) = H.t /\ w \in Node /\ w # H.t /\ x \in Nat
  <2>1. StartNode(H.g, a) = H.t
    BY <1>1 DEF CutInv, UnreadArcs
  <2>. QED BY <1>2, <2>1, NetworkArcs
<1>4. c => w \notin ToSet(H.Q)
  BY <1>2
<1>. HIDE DEF c, w, x
<1>5. CASE ~moves
  <2>. HIDE DEF moves, R
  <2>1. /\ Whole(H') /\ H'.unread = R /\ H'.unbounded \in {TRUE, H.unbounded}
        /\ H'.stage = H.stage /\ H'.g = H.g /\ H'.itc = H.itc /\ H'.t = H.t /\ H'.dist = H.dist
        /\ H'.dorm = H.dorm /\ H'.dormMax = H.dormMax /\ H'.Q = H.Q /\ H'.u = H.u /\ H'.Admissible = H.Admissible
        /\ H'.S2 = H.S2 /\ H'.minCap = H.minCap /\ H'.chi = H.chi /\ H'.fault = H.fault
    <3>1. CASE H' = [H EXCEPT !.unbounded = TRUE, !.unread = R]
      BY <1>2, <3>1 DEF Whole
    <3>2. CASE H' = [H EXCEPT !.unread = R]
      BY <1>2, <3>2 DEF Whole
    <3>. QED BY <1>1, <1>5, <3>1, <3>2
  <2>2. Root' = Root /\ \A v : Awake(H', v) = Awake(H, v) /\ Surplus(H', v) = Surplus(H, v)
    BY <2>1 DEF Root, Awake, Surplus
  <2>3. R \subseteq H.unread
    BY DEF R
  <2>4. HTypes'
    BY <2>1, <2>2, <2>3 DEF CutInv, HTypes
  <2>5. LayersWhole'
    <3>1. H'.stage = "drain" /\ Drained(H') = Drained(H)
      BY <1>1, <2>1 DEF Drained
    <3>. QED BY <1>1, <2>1, <2>2, <3>1 DEF CutInv, LayersWhole
  <2>6. ActiveNode' /\ SurplusKept' /\ UnreadArcs' /\ ArcsUsable' /\ CutKnown'
    BY <1>1, <2>1, <2>2, <2>3 DEF CutInv, ActiveNode, SurplusKept, UnreadArcs, ArcsUsable, CutKnown
  <2>7. QueueExact'
    BY <1>1, <2>1, <2>2 DEF CutInv, QueueExact, Orderly
  <2>. QED BY <2>1, <2>4, <2>5, <2>6, <2>7 DEF CutInv
<1>7. /\ Whole(h) /\ h.Q \in Seq(Node) /\ h.fault = H.fault /\ Distinct(h.Q)
      /\ \A v : v \in ToSet(h.Q) <=> v \in ToSet(H.Q) \/ (c /\ v = w)
      /\ h.stage = H.stage /\ h.g = H.g /\ h.itc = H.itc /\ h.t = H.t /\ h.dist = H.dist
      /\ h.dorm = H.dorm /\ h.dormMax = H.dormMax /\ h.u = H.u /\ h.Admissible = H.Admissible /\ h.S2 = H.S2
      /\ h.unread = H.unread /\ h.minCap = H.minCap /\ h.chi = H.chi /\ h.unbounded = H.unbounded
  <2>1. CASE c
    <3>1. h = Insert(H, w)
      BY <2>1 DEF InsertIf
    <3>. HIDE DEF h
    <3>2. Whole(H) /\ H.Q \in Seq(Node) /\ w \in Node
      BY <1>2, <1>3
    <3>3. /\ Whole(h) /\ h.Q \in Seq(Node) /\ h.fault \in {TRUE, H.fault}
          /\ w \notin ToSet(H.Q) => h.Q = Append(H.Q, w) /\ h.fault = H.fault
          /\ \A v \in ToSet(h.Q) : v \in ToSet(H.Q) \/ v = w
          /\ h.stage = H.stage /\ h.g = H.g /\ h.itc = H.itc /\ h.t = H.t /\ h.dist = H.dist
          /\ h.dorm = H.dorm /\ h.dormMax = H.dormMax /\ h.u = H.u /\ h.Admissible = H.Admissible /\ h.S2 = H.S2
          /\ h.unread = H.unread /\ h.minCap = H.minCap /\ h.chi = H.chi /\ h.unbounded = H.unbounded
      BY <3>1, <3>2, InsertIs
    <3>4. Distinct(Append(H.Q, w)) /\ \A v : v \in ToSet(Append(H.Q, w)) <=> v \in ToSet(H.Q) \/ v = w
      BY <1>2, <1>3, <1>4, <2>1, AppendIs
    <3>. QED BY <1>2, <1>4, <2>1, <3>3, <3>4
  <2>2. CASE ~c
    <3>1. h = H
      BY <2>2 DEF InsertIf
    <3>. QED BY <1>2, <2>2, <3>1
  <2>. QED BY <2>1, <2>2
<1>8. /\ IsNetwork(g) /\ SameNet(cutCall.G, g)
      /\ \A b : StartNode(g, b) = StartNode(H.g, b) /\ EndNode(g, b) = EndNode(H.g, b)
      /\ \A L : CapOf(g, L) = CapOf(H.g, L)
      /\ \A b \in Arc : b # a => ResCap(g, b) >= ResCap(H.g, b)
      /\ \A v : /\ Divergence(H.g, v) \in Int
                /\ Divergence(g, v) = Divergence(H.g, v) + (IF v = w THEN x ELSE IF v = H.t THEN -x ELSE 0)
  <2>1. x <= ResCap(H.g, a)
    BY <1>3 DEF x
  <2>. QED BY <1>2, <1>3, <2>1, CutPush DEF w
<1>9. CASE moves
  <2>1. H' = [h EXCEPT !.g = g, !.unread = R]
    BY <1>1, <1>7, <1>9 DEF x
  <2>2. R \subseteq H.unread /\ x > 0
    BY <1>9
  <2>. HIDE DEF g, R, h
  <2>3. /\ Whole(H') /\ H'.Q = h.Q /\ H'.g = g /\ H'.unread = R
        /\ H'.stage = H.stage /\ H'.itc = H.itc /\ H'.t = H.t /\ H'.dist = H.dist /\ H'.dorm = H.dorm
        /\ H'.dormMax = H.dormMax /\ H'.u = H.u /\ H'.Admissible = H.Admissible /\ H'.S2 = H.S2 /\ H'.minCap = H.minCap
        /\ H'.chi = H.chi /\ H'.unbounded = H.unbounded /\ H'.fault = H.fault
    BY <1>7, <2>1 DEF Whole
  <2>4. Root' = Root /\ \A v : Awake(H', v) = Awake(H, v)
    BY <2>3 DEF Root, Awake
  <2>5. \A v : /\ Surplus(H, v) \in Int
               /\ Surplus(H', v) = Surplus(H, v) + (IF v = w THEN x ELSE IF v = H.t THEN -x ELSE 0)
    BY <1>8, <2>3 DEF Surplus
  <2>6. HTypes'
    BY <1>2, <1>7, <1>8, <2>2, <2>3, <2>4 DEF HTypes
  <2>7. LayersWhole'
    <3>1. Drained(H') = Drained(H)
      BY <2>3 DEF Drained
    <3>. QED BY <2>3, <2>4, <3>1 DEF CutInv, LayersWhole
  <2>8. ActiveNode'
    BY <1>2, <2>3 DEF ActiveNode
  <2>9. SurplusKept'
    <3>1. ASSUME NEW v \in Node, H.dorm[v] # 0 PROVE Surplus(H', v) >= 0
      <4>1. Surplus(H, v) >= 0 /\ v # H.t
        BY <1>2, <3>1 DEF CutInv, SurplusKept
      <4>. QED BY <1>3, <2>5, <4>1
    <3>. QED BY <2>3, <3>1 DEF SurplusKept
  <2>10. UnreadArcs' /\ CutKnown'
    BY <1>1, <1>8, <2>2, <2>3, <2>4 DEF CutInv, UnreadArcs, CutKnown
  <2>11. ArcsUsable'
    <3>0. \A b \in Arc : b # a /\ ResCap(H.g, b) > 0 => ResCap(g, b) > 0
      <4>1. \A b \in Arc : ResCap(g, b) \in Nat /\ ResCap(H.g, b) \in Nat
        BY <1>2, <1>8, NetworkArcs
      <4>. QED BY <1>8, <4>1
    <3>1. ASSUME NEW b \in H.Admissible PROVE ResCap(g, b) > 0 \/ H.dorm[StartNode(H.g, b)] = 0
      <4>1. b \in Arc /\ (ResCap(H.g, b) > 0 \/ H.dorm[StartNode(H.g, b)] = 0)
        BY DEF CutInv, ArcsUsable, HTypes
      <4>. QED BY <1>2, <1>3, <3>0, <4>1
    <3>2. ASSUME NEW b \in H.S2, H.dorm[StartNode(H.g, b)] # 0
          PROVE  /\ ResCap(g, b) > 0 /\ H.dorm[EndNode(H.g, b)] \notin {0, NoNode}
                 /\ Awake(H, StartNode(H.g, b)) \/ H.dorm[StartNode(H.g, b)] > H.dorm[EndNode(H.g, b)]
      <4>1. /\ ResCap(H.g, b) > 0 /\ H.dorm[EndNode(H.g, b)] \notin {0, NoNode} /\ b \in Arc
            /\ Awake(H, StartNode(H.g, b)) \/ H.dorm[StartNode(H.g, b)] > H.dorm[EndNode(H.g, b)]
        BY <3>2 DEF CutInv, ArcsUsable, HTypes
      <4>. QED BY <1>2, <1>3, <3>0, <3>2, <4>1
    <3>3. \A b \in H'.Admissible : ResCap(H'.g, b) > 0 \/ H'.dorm[StartNode(H'.g, b)] = 0
      BY <1>8, <2>3, <3>1
    <3>4. \A b \in H'.S2 :
            \/ H'.dorm[StartNode(H'.g, b)] = 0
            \/ /\ ResCap(H'.g, b) > 0 /\ H'.dorm[EndNode(H'.g, b)] \notin {0, NoNode}
               /\ Awake(H', StartNode(H'.g, b)) \/ H'.dorm[StartNode(H'.g, b)] > H'.dorm[EndNode(H'.g, b)]
      BY <1>8, <2>3, <2>4, <3>2
    <3>5. H'.stage # "root"
      BY <1>1, <2>3
    <3>. QED BY <3>3, <3>4, <3>5 DEF ArcsUsable
  <2>12. QueueExact'
    <3>1. ASSUME NEW v \in ToSet(h.Q) PROVE Surplus(H', v) > 0 /\ Awake(H, v)
      <4>1. CASE c /\ v = w
        BY <1>3, <2>2, <2>5, <4>1 DEF c
      <4>2. CASE v \in ToSet(H.Q)
        <5>1. v # H.t
          BY <1>2, <4>2 DEF Awake
        <5>. QED BY <1>2, <1>3, <2>5, <4>2, <5>1
      <4>. QED BY <1>7, <4>1, <4>2
    <3>2. ASSUME NEW v \in Node, Awake(H, v), Surplus(H', v) > 0 PROVE v \in ToSet(h.Q) \union {H.u, H.t}
      <4>1. CASE v = w
        <5>1. Surplus(H, w) >= 0
          BY <1>2, <1>3, <3>2, <4>1 DEF CutInv, SurplusKept, Awake
        <5>. QED BY <1>2, <1>7, <2>5, <3>2, <4>1, <5>1 DEF c
      <4>2. CASE v # w
        <5>1. v # H.t
          BY <1>2, <3>2 DEF Awake
        <5>. QED BY <1>2, <1>7, <2>5, <3>2, <4>2, <5>1
      <4>. QED BY <4>1, <4>2
    <3>3. H.fault => H.unbounded
      BY DEF CutInv, QueueExact
    <3>. QED BY <1>1, <1>7, <2>3, <2>4, <3>1, <3>2, <3>3 DEF QueueExact
  <2>. QED BY <2>3, <2>6, <2>7, <2>8, <2>9, <2>10, <2>11, <2>12 DEF CutInv
<1>. QED BY <1>5, <1>9

LEMMA CompareKeeps ==
  ASSUME CutInv, UNCHANGED cutCall, Compare
  PROVE  CutInv' /\ H'.dist = H.dist
         /\ \A v \in Node : H'.dorm[v] = IF v = H.t THEN 0 ELSE H.dorm[v]
<1>. DEFINE left == {v \in Node : ~Awake(H, v)}
            better == ThisCap(H.g, left) < H.minCap
            R == Around(H.t)
            cap == IF better THEN ThisCap(H.g, left) ELSE H.minCap
            best == IF better THEN left ELSE H.chi
            d == [H.dorm EXCEPT ![H.t] = 0]
<1>1. /\ H.stage = "sweep" /\ H.u = NoNode /\ H.Q = <<>>
      /\ H' = [H EXCEPT !.stage = "drain", !.dorm = d, !.unread = R, !.minCap = cap, !.chi = best]
  BY DEF Compare
<1>2. /\ HTypes /\ Whole(H) /\ H.t \in Node /\ H.t # Root /\ Awake(H, H.t) /\ H.dorm[Root] = 0 /\ ~H.unbounded
      /\ H.dormMax \in 0 .. n - 1 /\ H.dorm \in [Node -> 0 .. H.dormMax \union {NoNode}]
      /\ Root \in Node /\ NoNode \notin Node /\ NoNode # 0 /\ NoNode \notin 0 .. n /\ n \in Nat
      /\ H.itc \in 1 .. n - 1
  <2>1. CutInv /\ HTypes
    BY DEF CutInv
  <2>2. NoNode # 0 /\ Root \in Node /\ NoNode \notin Node /\ NoNode \notin 0 .. n /\ n \in Nat
    BY <2>1, RootIs
  <2>. QED BY <1>1, <2>1, <2>2 DEF CutInv, HTypes, LayersWhole
<1>3. CutKnown \/ TRUE
  OBVIOUS
<1>4. cap # InfCap => Root \in best /\ best # Node /\ cap = CapOf(H.g, best)
  <2>1. CASE better
    <3>1. Root \in left /\ H.t \notin left
      BY <1>2 DEF Awake
    <3>. QED BY <1>2, <2>1, <3>1 DEF ThisCap
  <2>2. CASE ~better
    BY <2>2 DEF CutInv, CutKnown
  <2>. QED BY <2>1, <2>2
<1>5. d \in [Node -> 0 .. H.dormMax \union {NoNode}] /\ d[H.t] = 0 /\ \A v \in Node : v # H.t => d[v] = H.dorm[v]
  BY <1>2
<1>6. R \subseteq Arc /\ \A a \in R : StartNode(H.g, a) = H.t
  BY DEF Around
<1>. HIDE DEF R, cap, best, d
<1>7. /\ Whole(H') /\ H'.stage = "drain" /\ H'.dorm = d /\ H'.unread = R /\ H'.minCap = cap /\ H'.chi = best
      /\ H'.g = H.g /\ H'.itc = H.itc /\ H'.t = H.t /\ H'.dist = H.dist /\ H'.dormMax = H.dormMax
      /\ H'.Q = H.Q /\ H'.u = H.u /\ H'.Admissible = H.Admissible /\ H'.S2 = H.S2 /\ H'.unbounded = H.unbounded
      /\ H'.fault = H.fault
  BY <1>1, <1>2 DEF Whole
<1>8. Root' = Root /\ \A v : Surplus(H', v) = Surplus(H, v)
  BY <1>7 DEF Root, Surplus
<1>9. \A v \in Node : Awake(H', v) <=> Awake(H, v) /\ v # H.t
  BY <1>2, <1>5, <1>7 DEF Awake
<1>10. HTypes'
  BY <1>2, <1>5, <1>6, <1>7, <1>8 DEF HTypes, CutStages
<1>11. LayersWhole'
  <2>1. \A k \in 0 .. H.dormMax : \E v \in Node : d[v] = k
    <3>1. ASSUME NEW k \in 0 .. H.dormMax PROVE \E v \in Node : d[v] = k
      <4>1. PICK v \in Node : H.dorm[v] = k
        BY DEF CutInv, LayersWhole
      <4>2. v # H.t
        BY <1>2, <4>1 DEF Awake
      <4>. QED BY <1>5, <4>1, <4>2
    <3>. QED BY <3>1
  <2>2. Cardinality(Drained(H')) = H.itc + 1
    <3>1. Drained(H') = Drained(H) \union {H.t} /\ H.t \notin Drained(H)
      BY <1>2, <1>5, <1>7 DEF Drained, Awake
    <3>2. IsFiniteSet(Drained(H))
      BY NodeCount, FS_Subset DEF Drained
    <3>3. Cardinality(Drained(H)) = H.itc
      BY <1>1, <1>2 DEF CutInv, LayersWhole
    <3>4. Cardinality(Drained(H) \union {H.t}) = Cardinality(Drained(H)) + 1
      BY <3>1, <3>2, FS_AddElement
    <3>. QED BY <3>1, <3>3, <3>4
  <2>3. d[0] = 0 /\ d[Root] = 0
    <3>1. H.dorm[0] = 0 \/ H.t = 0
      BY DEF CutInv, LayersWhole
    <3>2. 0 \in Node
      BY <1>2, RootIs
    <3>. QED BY <1>2, <1>5, <3>1, <3>2
  <2>. QED BY <1>5, <1>7, <1>8, <2>1, <2>2, <2>3 DEF LayersWhole
<1>12. ActiveNode' /\ SurplusKept' /\ UnreadArcs' /\ CutKnown'
  <2>1. ActiveNode' /\ CutKnown'
    BY <1>1, <1>4, <1>7, <1>8 DEF ActiveNode, CutKnown
  <2>2. SurplusKept'
    BY <1>5, <1>7, <1>8 DEF CutInv, SurplusKept
  <2>3. UnreadArcs'
    BY <1>6, <1>7 DEF UnreadArcs
  <2>. QED BY <2>1, <2>2, <2>3
<1>13. ArcsUsable'
  <2>1. IsNetwork(H.g) /\ H.S2 \subseteq Arc /\ H.Admissible \subseteq Arc
    BY <1>2 DEF HTypes
  <2>2. \A a \in Arc : StartNode(H.g, a) \in Node /\ EndNode(H.g, a) \in Node
    BY <2>1, NetworkArcs
  <2>3. ASSUME NEW a \in H.Admissible PROVE ResCap(H.g, a) > 0 \/ d[StartNode(H.g, a)] = 0
    <3>1. ResCap(H.g, a) > 0 \/ H.dorm[StartNode(H.g, a)] = 0
      BY DEF CutInv, ArcsUsable
    <3>. QED BY <1>5, <2>1, <2>2, <3>1
  <2>4. ASSUME NEW a \in H.S2, d[StartNode(H.g, a)] # 0
        PROVE  /\ ResCap(H.g, a) > 0 /\ d[EndNode(H.g, a)] \notin {0, NoNode}
               /\ Awake(H', StartNode(H.g, a)) \/ d[StartNode(H.g, a)] > d[EndNode(H.g, a)]
    <3>1. StartNode(H.g, a) \in Node /\ EndNode(H.g, a) \in Node /\ StartNode(H.g, a) # H.t
      BY <1>5, <2>1, <2>2, <2>4
    <3>2. d[StartNode(H.g, a)] = H.dorm[StartNode(H.g, a)]
      BY <1>5, <3>1
    <3>3. /\ ResCap(H.g, a) > 0 /\ H.dorm[EndNode(H.g, a)] \notin {0, NoNode}
          /\ Awake(H, StartNode(H.g, a)) \/ H.dorm[StartNode(H.g, a)] > H.dorm[EndNode(H.g, a)]
      BY <2>4, <3>2 DEF CutInv, ArcsUsable
    <3>4. d[EndNode(H.g, a)] = H.dorm[EndNode(H.g, a)]
      BY <1>2, <1>5, <3>1, <3>3 DEF Awake
    <3>. QED BY <1>9, <3>1, <3>2, <3>3, <3>4
  <2>. QED BY <1>7, <2>3, <2>4 DEF ArcsUsable
<1>14. QueueExact'
  <2>1. ToSet(H.Q) = {} /\ Distinct(H.Q)
    BY <1>1 DEF ToSet, Distinct
  <2>2. ASSUME NEW v \in Node, Awake(H', v), Surplus(H', v) > 0 PROVE FALSE
    <3>1. Awake(H, v) /\ v # H.t /\ Surplus(H, v) > 0
      BY <1>8, <1>9, <2>2
    <3>2. v \in ToSet(H.Q) \union {H.u, H.t}
      BY <1>2, <3>1 DEF CutInv, QueueExact, Orderly
    <3>. QED BY <1>1, <1>2, <2>1, <3>1, <3>2
  <2>3. H.fault => H.unbounded
    BY DEF CutInv, QueueExact
  <2>. QED BY <1>7, <2>1, <2>2, <2>3 DEF QueueExact
<1>. QED BY <1>5, <1>7, <1>10, <1>11, <1>12, <1>13, <1>14 DEF CutInv

LEMMA NearestIs ==
  ASSUME H.dist \in [Node -> Nat], NEW V \in SUBSET Node, V # {}
  PROVE  Nearest(V) \in V /\ \A w \in V : H.dist[Nearest(V)] <= H.dist[w]
<1>. DEFINE D == {H.dist[v] : v \in V}
            B == {v \in V : \A w \in V : H.dist[v] <= H.dist[w]}
<1>1. D \in SUBSET Nat /\ D # {}
  OBVIOUS
<1>2. PICK k \in D : \A j \in D : k <= j
  BY <1>1, LeastNumber
<1>3. PICK v \in V : H.dist[v] = k
  BY <1>2
<1>4. v \in B
  BY <1>2, <1>3
<1>5. B \in SUBSET Nat /\ B # {}
  <2>1. Node \subseteq Nat
    BY Sizes DEF Node
  <2>2. B \subseteq V
    OBVIOUS
  <2>. QED BY <1>4, <2>1, <2>2
<1>. HIDE DEF B
<1>6. Least(B) \in B
  BY <1>5, LeastIs
<1>. QED BY <1>6 DEF Nearest, B

LEMMA SelectSinkKeeps ==
  ASSUME CutInv, UNCHANGED cutCall, SelectSink
  PROVE  CutInv' /\ H'.dist = H.dist
         /\ \/ H'.dorm = H.dorm
            \/ /\ \A v \in Node : ~Awake(H, v)
               /\ \A v \in Node : H'.dorm[v] = IF H.dorm[v] = H.dormMax THEN NoNode ELSE H.dorm[v]
<1>. DEFINE awake == {v \in Node \ {0} : Awake(H, v)}
            layer == {v \in Node \ {0} : H.dorm[v] = H.dormMax}
            excess == InOrder(NodeOrder, {v \in layer : Surplus(H, v) > 0})
            inside == {a \in Arc : /\ {StartNode(H.g, a), EndNode(H.g, a)} \subseteq layer
                                   /\ ResCap(H.g, a) > 0
                                   /\ H.dist[StartNode(H.g, a)] = H.dist[EndNode(H.g, a)] + 1}
            d == [v \in Node |-> IF v \in layer THEN NoNode ELSE H.dorm[v]]
            i == H.itc + 1
            x == Nearest(awake)
            y == Nearest(layer)
            q == H.Q \o excess
            A == H.Admissible \union inside
            top == H.dormMax - 1
<1>1. /\ H.stage = "drain" /\ H.unread = {}
      /\ Finished => H' = [H EXCEPT !.stage = "done"]
      /\ ~Finished /\ awake # {} => H' = [H EXCEPT !.stage = "sweep", !.itc = i, !.t = x]
      /\ ~Finished /\ awake = {} => H' = [H EXCEPT !.stage = "sweep", !.itc = i, !.t = y, !.dorm = d,
                                                   !.dormMax = top, !.Q = q, !.Admissible = A]
  BY DEF SelectSink
<1>2. /\ HTypes /\ Whole(H) /\ H.t \in Node /\ H.dorm[H.t] = 0 /\ H.dorm[Root] = 0 /\ H.dorm[0] = 0
      /\ H.dormMax \in 0 .. n - 1 /\ H.dorm \in [Node -> 0 .. H.dormMax \union {NoNode}]
      /\ H.itc \in 1 .. n - 1 /\ Cardinality(Drained(H)) = H.itc + 1 /\ H.u = NoNode
      /\ H.Q \in Seq(Node) /\ H.dist \in [Node -> Nat] /\ H.unbounded \in BOOLEAN
  BY <1>1 DEF CutInv, HTypes, LayersWhole, ActiveNode
<1>3. Root \in Node /\ NoNode \notin Node /\ NoNode # 0 /\ NoNode \notin 0 .. n /\ n \in Nat /\ 0 \in Node
  <2>1. NoNode \notin 0 .. n /\ n \in Nat /\ Root \in Node /\ NoNode \notin Node /\ 0 \in Node
    BY <1>2, RootIs
  <2>. QED BY <2>1
<1>4. /\ Distinct(H.Q) /\ (\A v \in ToSet(H.Q) : Surplus(H, v) > 0 /\ Awake(H, v)) /\ (H.fault => H.unbounded)
      /\ \A v \in Node : Awake(H, v) /\ Surplus(H, v) > 0 => v \in ToSet(H.Q)
  <2>1. /\ Distinct(H.Q) /\ (\A v \in ToSet(H.Q) : Surplus(H, v) > 0 /\ Awake(H, v)) /\ (H.fault => H.unbounded)
        /\ \A v \in Node : Awake(H, v) /\ Surplus(H, v) > 0 => v \in ToSet(H.Q) \union {H.u, H.t}
    BY <1>1 DEF CutInv, QueueExact, Orderly
  <2>. QED BY <1>2, <1>3, <2>1 DEF Awake
<1>5. \A v \in Node : Awake(H, v) <=> v \in awake
  BY <1>2, <1>3 DEF Awake
<1>6. CASE Finished
  <2>1. /\ Whole(H') /\ H'.stage = "done"
        /\ H'.g = H.g /\ H'.itc = H.itc /\ H'.t = H.t /\ H'.dist = H.dist /\ H'.dorm = H.dorm
        /\ H'.dormMax = H.dormMax /\ H'.Q = H.Q /\ H'.u = H.u /\ H'.Admissible = H.Admissible /\ H'.S2 = H.S2
        /\ H'.unread = H.unread /\ H'.minCap = H.minCap /\ H'.chi = H.chi /\ H'.unbounded = H.unbounded /\ H'.fault = H.fault
    BY <1>1, <1>2, <1>6 DEF Whole
  <2>2. Root' = Root /\ \A v : Awake(H', v) = Awake(H, v) /\ Surplus(H', v) = Surplus(H, v)
    BY <2>1 DEF Root, Awake, Surplus
  <2>3. HTypes'
    BY <1>2, <2>1, <2>2 DEF HTypes, CutStages
  <2>4. LayersWhole'
    <3>1. Drained(H') = Drained(H)
      BY <2>1 DEF Drained
    <3>2. H.unbounded \/ H.itc = n - 1
      BY <1>6 DEF Finished
    <3>. QED BY <1>1, <1>2, <2>1, <2>2, <3>1, <3>2 DEF CutInv, LayersWhole
  <2>5. ActiveNode' /\ SurplusKept' /\ UnreadArcs' /\ ArcsUsable' /\ CutKnown'
    BY <1>1, <1>2, <2>1, <2>2 DEF CutInv, ActiveNode, SurplusKept, UnreadArcs, ArcsUsable, CutKnown
  <2>6. QueueExact'
    BY <1>2, <1>4, <2>1, <2>2 DEF QueueExact
  <2>. QED BY <2>1, <2>3, <2>4, <2>5, <2>6 DEF CutInv
<1>7. CASE ~Finished
  <2>1. i \in 1 .. n - 1 /\ ~H.unbounded /\ i = H.itc + 1
    BY <1>2, <1>3, <1>7 DEF Finished
  <2>. HIDE DEF i
  <2>2. CASE awake # {}
    <3>1. awake \in SUBSET Node
      OBVIOUS
    <3>2. x \in awake /\ \A w \in awake : H.dist[x] <= H.dist[w]
      BY <1>2, <2>2, <3>1, NearestIs
    <3>3. x \in Node /\ Awake(H, x) /\ H.dorm[x] # 0 /\ x # Root /\ \A v \in Node : Awake(H, v) => H.dist[x] <= H.dist[v]
      BY <1>2, <1>3, <1>5, <3>2 DEF Awake
    <3>. HIDE DEF x
    <3>4. /\ Whole(H') /\ H'.stage = "sweep" /\ H'.itc = i /\ H'.t = x
          /\ H'.g = H.g /\ H'.dist = H.dist /\ H'.dorm = H.dorm /\ H'.dormMax = H.dormMax /\ H'.Q = H.Q
          /\ H'.u = H.u /\ H'.Admissible = H.Admissible /\ H'.S2 = H.S2 /\ H'.unread = H.unread /\ H'.minCap = H.minCap
          /\ H'.chi = H.chi /\ H'.unbounded = H.unbounded /\ H'.fault = H.fault
      BY <1>1, <1>2, <1>7, <2>2 DEF Whole
    <3>5. Root' = Root /\ \A v : Awake(H', v) = Awake(H, v) /\ Surplus(H', v) = Surplus(H, v)
      BY <3>4 DEF Root, Awake, Surplus
    <3>6. HTypes'
      BY <1>2, <2>1, <3>3, <3>4, <3>5 DEF HTypes, CutStages
    <3>7. LayersWhole'
      <4>1. Drained(H') = Drained(H)
        BY <3>4 DEF Drained
      <4>. QED BY <1>1, <1>2, <2>1, <3>3, <3>4, <3>5, <4>1 DEF CutInv, LayersWhole
    <3>8. ActiveNode' /\ SurplusKept' /\ UnreadArcs' /\ ArcsUsable' /\ CutKnown'
      BY <1>1, <1>2, <3>4, <3>5 DEF CutInv, ActiveNode, SurplusKept, UnreadArcs, ArcsUsable, CutKnown
    <3>9. QueueExact'
      BY <1>4, <3>4, <3>5 DEF QueueExact
    <3>. QED BY <3>4, <3>6, <3>7, <3>8, <3>9 DEF CutInv
  <2>3. CASE awake = {}
    <3>1. PICK z \in Node : H.dorm[z] # 0
      <4>1. Cardinality(Drained(H)) # n
        BY <1>2, <1>3, <2>1
      <4>2. Drained(H) # Node
        BY <4>1, NodeCount
      <4>. QED BY <4>2 DEF Drained
    <3>2. H.dormMax > 0 /\ top \in 0 .. n - 1 /\ top = H.dormMax - 1 /\ H.dormMax # NoNode
      <4>1. H.dorm[z] \in 0 .. H.dormMax
        BY <1>2, <1>5, <2>3 DEF Awake
      <4>. QED BY <1>2, <1>3, <3>1, <4>1
    <3>3. \A v \in Node : v \in layer <=> H.dorm[v] = H.dormMax
      BY <1>2, <3>2
    <3>4. layer # {} /\ layer \in SUBSET Node
      <4>1. PICK v \in Node : H.dorm[v] = H.dormMax
        BY <1>2 DEF CutInv, LayersWhole
      <4>. QED BY <3>3, <4>1
    <3>5. y \in layer /\ \A w \in layer : H.dist[y] <= H.dist[w]
      BY <1>2, <3>4, NearestIs
    <3>6. H.Q = <<>>
      <4>1. ToSet(H.Q) = {}
        <5>1. ToSet(H.Q) \subseteq Node
          BY <1>2 DEF ToSet
        <5>. QED BY <1>4, <1>5, <2>3, <5>1
      <4>2. ASSUME H.Q # <<>> PROVE FALSE
        <5>1. 1 \in DOMAIN H.Q
          BY <1>2, <4>2
        <5>2. H.Q[1] \in ToSet(H.Q)
          BY <5>1 DEF ToSet
        <5>. QED BY <4>1, <5>2
      <4>. QED BY <4>2
    <3>7. /\ q \in Seq(Node) /\ Distinct(q)
          /\ \A v : v \in ToSet(q) <=> v \in layer /\ Surplus(H, v) > 0
      <4>. DEFINE S == {v \in layer : Surplus(H, v) > 0}
      <4>1. NodeOrder \in Seq(Node) /\ Distinct(NodeOrder) /\ \A v : v \in ToSet(NodeOrder) <=> v \in Node
        BY NodeOrderIs
      <4>2. /\ excess \in Seq(Node) /\ Distinct(excess)
            /\ \A v : v \in ToSet(excess) <=> v \in ToSet(NodeOrder) /\ v \in S
        BY <4>1, InOrderIs
      <4>. HIDE DEF excess
      <4>3. q = excess
        BY <3>6, <4>2
      <4>. QED BY <3>4, <4>1, <4>2, <4>3
    <3>8. A \subseteq Arc /\ \A a \in A : a \in H.Admissible \/ (a \in Arc /\ ResCap(H.g, a) > 0)
      BY <1>2 DEF HTypes
    <3>9. \A v \in Node : /\ d[v] = IF v \in layer THEN NoNode ELSE H.dorm[v]
                          /\ d[v] = 0 <=> H.dorm[v] = 0
                          /\ v \notin layer => d[v] \in 0 .. top
      <4>1. \A v \in Node : H.dorm[v] \in 0 .. H.dormMax
        BY <1>2, <1>5, <2>3 DEF Awake
      <4>2. \A v \in Node : v \in layer => H.dorm[v] # 0
        BY <3>2, <3>3
      <4>3. \A v \in Node : v \notin layer => H.dorm[v] \in 0 .. top
        BY <1>2, <3>2, <3>3, <4>1
      <4>. QED BY <1>3, <4>2, <4>3
    <3>10. d \in [Node -> 0 .. top \union {NoNode}]
      BY <3>9
    <3>. HIDE DEF y, q, A, d, top, layer
    <3>11. /\ Whole(H') /\ H'.stage = "sweep" /\ H'.itc = i /\ H'.t = y /\ H'.dorm = d /\ H'.dormMax = top
           /\ H'.Q = q /\ H'.Admissible = A
           /\ H'.g = H.g /\ H'.dist = H.dist /\ H'.u = H.u /\ H'.S2 = H.S2 /\ H'.unread = H.unread
           /\ H'.minCap = H.minCap /\ H'.chi = H.chi /\ H'.unbounded = H.unbounded /\ H'.fault = H.fault
      BY <1>1, <1>2, <1>7, <2>3 DEF Whole
    <3>12. Root' = Root /\ \A v : Surplus(H', v) = Surplus(H, v)
      BY <3>11 DEF Root, Surplus
    <3>13. \A v \in Node : Awake(H', v) <=> v \in layer
      <4>1. NoNode \notin 0 .. top
        BY <1>3, <3>2
      <4>. QED BY <3>9, <3>11, <4>1 DEF Awake
    <3>14. y \in Node /\ d[y] # 0 /\ y # Root
      BY <1>2, <1>3, <3>4, <3>5, <3>9
    <3>15. HTypes'
      BY <1>2, <2>1, <3>2, <3>7, <3>8, <3>10, <3>11, <3>12, <3>14 DEF HTypes, CutStages
    <3>16. LayersWhole'
      <4>1. Drained(H') = Drained(H)
        BY <3>9, <3>11 DEF Drained
      <4>2. ASSUME NEW k \in 0 .. top PROVE \E v \in Node : d[v] = k
        <5>1. k \in 0 .. H.dormMax /\ k # H.dormMax
          BY <1>2, <3>2
        <5>2. PICK v \in Node : H.dorm[v] = k
          BY <5>1 DEF CutInv, LayersWhole
        <5>. QED BY <3>3, <3>9, <5>1, <5>2
      <4>3. d[Root] = 0 /\ d[0] = 0
        BY <1>2, <1>3, <3>9
      <4>4. Awake(H', y) /\ \A v \in Node : Awake(H', v) => H.dist[y] <= H.dist[v]
        BY <3>5, <3>13, <3>14
      <4>. QED BY <1>2, <2>1, <3>11, <3>12, <4>1, <4>2, <4>3, <4>4 DEF LayersWhole
    <3>17. ActiveNode' /\ CutKnown'
      BY <1>2, <3>11, <3>12 DEF CutInv, ActiveNode, CutKnown
    <3>18. SurplusKept' /\ UnreadArcs'
      BY <1>1, <3>9, <3>11, <3>12 DEF CutInv, SurplusKept, UnreadArcs
    <3>19. QueueExact'
      BY <1>4, <3>4, <3>7, <3>11, <3>12, <3>13 DEF QueueExact
    <3>20. ArcsUsable'
      <4>1. IsNetwork(H.g) /\ H.S2 \subseteq Arc /\ H.Admissible \subseteq Arc
        BY <1>2 DEF HTypes
      <4>2. \A a \in Arc : StartNode(H.g, a) \in Node /\ EndNode(H.g, a) \in Node
        BY <4>1, NetworkArcs
      <4>3. ASSUME NEW a \in A PROVE ResCap(H.g, a) > 0 \/ d[StartNode(H.g, a)] = 0
        <5>1. CASE a \in H.Admissible
          <6>1. ResCap(H.g, a) > 0 \/ H.dorm[StartNode(H.g, a)] = 0
            BY <5>1 DEF CutInv, ArcsUsable
          <6>. QED BY <3>9, <4>1, <4>2, <5>1, <6>1
        <5>. QED BY <3>8, <5>1
      <4>4. ASSUME NEW a \in H.S2, d[StartNode(H.g, a)] # 0
            PROVE  /\ ResCap(H.g, a) > 0 /\ d[EndNode(H.g, a)] \notin {0, NoNode}
                   /\ Awake(H', StartNode(H.g, a)) \/ d[StartNode(H.g, a)] > d[EndNode(H.g, a)]
        <5>. DEFINE v == StartNode(H.g, a)
                    w == EndNode(H.g, a)
        <5>1. v \in Node /\ w \in Node /\ H.dorm[v] # 0
          BY <3>9, <4>1, <4>2, <4>4
        <5>2. ResCap(H.g, a) > 0 /\ H.dorm[w] \notin {0, NoNode} /\ (Awake(H, v) \/ H.dorm[v] > H.dorm[w])
          BY <5>1 DEF CutInv, ArcsUsable
        <5>. HIDE DEF v, w
        <5>3. ~Awake(H, v)
          BY <1>5, <2>3, <5>1
        <5>4. H.dorm[v] \in 0 .. H.dormMax /\ H.dorm[w] \in 0 .. H.dormMax /\ H.dorm[v] > H.dorm[w]
          BY <1>2, <5>1, <5>2, <5>3 DEF Awake
        <5>5. w \notin layer
          BY <1>2, <3>3, <5>1, <5>4
        <5>6. d[w] = H.dorm[w]
          BY <3>9, <5>1, <5>5
        <5>7. v \notin layer => d[v] = H.dorm[v]
          BY <3>9, <5>1
        <5>. QED BY <3>13, <5>1, <5>2, <5>4, <5>6, <5>7 DEF v, w
      <4>. QED BY <3>11, <4>3, <4>4 DEF ArcsUsable
    <3>21. /\ \A v \in Node : ~Awake(H, v)
           /\ \A v \in Node : H'.dorm[v] = IF H.dorm[v] = H.dormMax THEN NoNode ELSE H.dorm[v]
      BY <1>5, <2>3, <3>3, <3>9, <3>11
    <3>. QED BY <3>11, <3>15, <3>16, <3>17, <3>18, <3>19, <3>20, <3>21 DEF CutInv
  <2>. QED BY <2>2, <2>3
<1>. QED BY <1>6, <1>7

(* At the start of a call only the root is drained.                          *)
LEMMA CutStartHolds ==
  ASSUME NEW c \in CutCalls, CutStart(c)
  PROVE  CutInv
<1>. DEFINE first == IF c.r = 0 THEN 1 ELSE 0
            E == [v \in Node |-> IF v = first THEN 0 ELSE 1]
            d == [v \in Node |-> IF v = c.r THEN 0 ELSE NoNode]
            R == {a \in Arc : StartNode(c.G, a) = c.r}
<1>1. /\ cutCall = c
      /\ H = [stage |-> "root", g |-> c.G, itc |-> 1, t |-> first, dist |-> E, dorm |-> d, dormMax |-> 0,
              Q |-> <<>>, u |-> NoNode, Admissible |-> {}, S2 |-> {}, unread |-> R,
              minCap |-> InfCap, chi |-> {}, unbounded |-> FALSE, fault |-> FALSE]
  BY DEF CutStart
<1>2. /\ c.r \in Node /\ IsNetwork(c.G) /\ (\A v \in Node : Divergence(c.G, v) = 0)
      /\ n \in Nat /\ n > 1 /\ NoNode \notin 0 .. n
  BY CutCallsAssumption, SizeAssumption, UndefAssumption, CutAssumption
<1>3. first \in Node /\ first # c.r /\ 0 \in Node /\ 1 \in Node /\ NoNode # 0 /\ NoNode \notin Node
  BY <1>2 DEF Node
<1>4. /\ E \in [Node -> Nat] /\ E[first] = 0 /\ \A v \in Node : E[first] <= E[v]
  BY <1>3
<1>5. d[c.r] = 0 /\ \A v \in Node \ {c.r} : d[v] = NoNode
  BY <1>2
<1>6. d \in [Node -> 0 .. 0 \union {NoNode}]
  BY <1>2
<1>7. R \subseteq Arc /\ \A a \in R : StartNode(c.G, a) = c.r
  OBVIOUS
<1>8. first = 0 \/ c.r = 0
  OBVIOUS
<1>. HIDE DEF E, d, R, first
<1>9. /\ H.stage = "root" /\ H.g = c.G /\ H.itc = 1 /\ H.t = first /\ H.dist = E /\ H.dorm = d /\ H.dormMax = 0
      /\ H.Q = <<>> /\ H.u = NoNode /\ H.Admissible = {} /\ H.S2 = {} /\ H.unread = R
      /\ H.minCap = InfCap /\ H.chi = {} /\ H.unbounded = FALSE /\ H.fault = FALSE /\ Root = c.r
  BY <1>1 DEF Root
<1>10. Whole(H)
  BY <1>1 DEF Whole
<1>11. HTypes
  <2>1. SameNet(c.G, c.G)
    BY KeptNet
  <2>2. <<>> \in Seq(Node) /\ 1 \in 1 .. n - 1 /\ 0 \in 0 .. n - 1
    BY <1>2
  <2>. QED BY <1>1, <1>2, <1>3, <1>4, <1>6, <1>7, <1>9, <1>10, <2>1, <2>2 DEF HTypes, CutStages
<1>12. LayersWhole
  <2>1. Drained(H) = {c.r}
    BY <1>2, <1>3, <1>5, <1>9 DEF Drained
  <2>2. Cardinality(Drained(H)) = 1
    BY <2>1, FS_Singleton
  <2>3. \A k \in 0 .. 0 : \E v \in Node : d[v] = k
    BY <1>2, <1>5
  <2>4. \A v \in Node \ {c.r} : Awake(H, v)
    BY <1>5, <1>9 DEF Awake
  <2>5. d[0] = 0 \/ first = 0
    BY <1>5, <1>8
  <2>. QED BY <1>3, <1>4, <1>5, <1>9, <2>2, <2>3, <2>4, <2>5 DEF LayersWhole
<1>13. ActiveNode /\ UnreadArcs /\ ArcsUsable /\ CutKnown
  BY <1>7, <1>9 DEF ActiveNode, UnreadArcs, ArcsUsable, CutKnown
<1>14. \A v \in Node : Surplus(H, v) = 0
  BY <1>2, <1>9 DEF Surplus
<1>15. SurplusKept /\ QueueExact
  <2>1. ToSet(<<>>) = {} /\ Distinct(<<>>)
    BY DEF ToSet, Distinct
  <2>. QED BY <1>9, <1>14, <2>1 DEF SurplusKept, QueueExact
<1>. QED BY <1>11, <1>12, <1>13, <1>15 DEF CutInv

LEMMA CutStepKeeps ==
  ASSUME CutInv, [CutStep]_CutVars
  PROVE  CutInv'
<1>1. CASE UNCHANGED CutVars
  BY <1>1 DEF CutVars, CutInv, HTypes, LayersWhole, ActiveNode, QueueExact, Orderly, SurplusKept, UnreadArcs, ArcsUsable,
     CutKnown, Drained, Root, Awake, Surplus
<1>2. CASE CutStep
  <2>1. UNCHANGED cutCall
    BY <1>2 DEF CutStep
  <2>2. CASE \E k \in DOMAIN H.Q : Delete(k)
    BY <2>1, <2>2, DeleteKeeps
  <2>3. CASE \E a \in Arc : DrainRoot(a)
    BY <2>1, <2>3, DrainRootKeeps
  <2>4. CASE \E a \in Arc : PushArc(a)
    BY <2>1, <2>4, PushArcKeeps
  <2>5. CASE \E a \in Arc : DrainSink(a)
    BY <2>1, <2>5, DrainSinkKeeps
  <2>6. CASE Prepare \/ Inactive \/ SleepAbove
    BY <2>1, <2>6, PrepareKeeps, InactiveKeeps, SleepAboveKeeps
  <2>7. CASE RelabelAwake \/ SleepAlone
    BY <2>1, <2>7, RelabelAwakeKeeps, SleepAloneKeeps
  <2>8. CASE Compare \/ SelectSink
    BY <2>1, <2>8, CompareKeeps, SelectSinkKeeps
  <2>. QED BY <1>2, <2>2, <2>3, <2>4, <2>5, <2>6, <2>7, <2>8 DEF CutStep
<1>. QED BY <1>1, <1>2

LEMMA CutInvGenuine ==
  ASSUME CutInv
  PROVE  CutGenuine
<1>1. (H.fault => H.unbounded) /\ \A v \in Node : H.dorm[v] # 0 => Surplus(H, v) >= 0
  BY DEF CutInv, QueueExact, SurplusKept
<1>2. ASSUME H.stage = "sweep", H.u = NoNode, H.Q = <<>>, NEW v \in Node \ {H.t}, Awake(H, v)
      PROVE  Surplus(H, v) = 0
  <2>1. ~H.unbounded /\ IsNetwork(H.g) /\ NoNode # 0 /\ NoNode \notin Node
    BY <1>2, RootIs DEF CutInv, LayersWhole, HTypes, Node
  <2>2. Surplus(H, v) \in Int /\ Surplus(H, v) >= 0
    BY <1>2, <2>1, NetSingle DEF CutInv, SurplusKept, Surplus, Awake
  <2>3. ToSet(H.Q) = {}
    BY <1>2 DEF ToSet
  <2>4. Surplus(H, v) > 0 => v \in ToSet(H.Q) \union {H.u, H.t}
    BY <1>2, <2>1 DEF CutInv, QueueExact, Orderly
  <2>. QED BY <1>2, <2>1, <2>2, <2>3, <2>4
<1>3. H.minCap # InfCap => Root \in H.chi /\ H.chi # Node /\ H.minCap = CapOf(H.g, H.chi)
  BY DEF CutInv, CutKnown
<1>4. ASSUME H.stage = "done", ~H.unbounded PROVE \A v \in Node : H.dorm[v] = 0
  <2>1. Cardinality(Drained(H)) = n
    <3>1. H.itc = n - 1 /\ n \in Nat /\ Cardinality(Drained(H)) = H.itc + 1
      BY <1>4, RootIs DEF CutInv, LayersWhole
    <3>. QED BY <3>1
  <2>2. Drained(H) \in SUBSET Node
    BY DEF Drained
  <2>3. Node = Drained(H)
    BY <2>1, <2>2, NodeCount, FS_Subset
  <2>. QED BY <2>3 DEF Drained
<1>. QED BY <1>1, <1>2, <1>3, <1>4 DEF CutGenuine

-------------------------------------------------------------------------------
(* Labels.  Within the awake nodes, and within every layer, there is no gap  *)
(* in the labels above one that leaves room for the nodes that wait.         *)

(* The nodes in the layers 1 to k, or all but those in layer 0.              *)
Waits(h, k) == {x \in Node : IF k = NoNode THEN h.dorm[x] # 0 ELSE h.dorm[x] \in 1 .. k}
HasRoom(h, v) == h.dist[v] + Cardinality(Waits(h, h.dorm[v])) <= n - 1
LabelSteps(h) ==
  \A v \in Node : h.dorm[v] # 0 =>
    HasRoom(h, v) \/ \E w \in Node : h.dorm[w] = h.dorm[v] /\ h.dist[w] + 1 = h.dist[v]
LabelsLow(h) == \A v \in Node : h.dist[v] <= n - 1
CutLabels(h) == LabelSteps(h) /\ LabelsLow(h)

LEMMA FinitePart ==
  ASSUME NEW S \in SUBSET Node
  PROVE  IsFiniteSet(S) /\ Cardinality(S) \in Nat /\ Cardinality(S) <= n
BY NodeCount, FS_Subset, FS_CardinalityType

LEMMA SmallerPart ==
  ASSUME NEW S \in SUBSET Node, NEW T \in SUBSET S
  PROVE  Cardinality(T) \in Nat /\ Cardinality(S) \in Nat /\ Cardinality(T) <= Cardinality(S)
<1>1. IsFiniteSet(S) /\ Cardinality(S) \in Nat /\ T \in SUBSET Node
  BY FinitePart
<1>. QED BY <1>1, FinitePart, FS_Subset

(* A label is at most the number of nodes below it, if there is no gap.      *)
LEMMA Climb ==
  ASSUME NEW d \in [Node -> Nat], NEW K \in SUBSET Node, NEW c \in Int, NEW v \in K,
         \A x \in K : d[x] <= c \/ \E w \in K : d[w] + 1 = d[x]
  PROVE  d[v] <= c + Cardinality({x \in K : d[x] < d[v]})
<1>. DEFINE L == {x \in K : d[x] < d[v]}
            J == {j \in 0 .. d[v] : \A i \in j .. d[v] : \E w \in K : d[w] = i}
<1>1. d[v] \in Nat /\ v \in Node
  OBVIOUS
<1>2. J \in SUBSET Nat /\ J # {}
  <2>1. d[v] \in J
    BY <1>1
  <2>. QED BY <2>1
<1>3. PICK j \in J : \A i \in J : j <= i
  BY <1>2, LeastNumber
<1>4. j \in 0 .. d[v] /\ \A i \in j .. d[v] : \E w \in K : d[w] = i
  BY <1>3
<1>5. j <= c
  <2>1. PICK x \in K : d[x] = j
    BY <1>1, <1>4
  <2>2. ASSUME NEW w \in K, d[w] + 1 = d[x] PROVE FALSE
    <3>1. d[w] \in Nat /\ d[w] = j - 1 /\ d[w] \in 0 .. d[v]
      BY <1>1, <1>4, <2>1, <2>2
    <3>2. ASSUME NEW i \in d[w] .. d[v] PROVE \E y \in K : d[y] = i
      <4>1. i = d[w] \/ i \in j .. d[v]
        BY <1>1, <1>4, <3>1
      <4>. QED BY <1>4, <4>1
    <3>3. d[w] \in J
      BY <3>1, <3>2
    <3>. QED BY <1>3, <1>4, <3>1, <3>3
  <2>. QED BY <2>1, <2>2
<1>6. d[v] - j <= Cardinality(L)
  <2>. DEFINE f == [i \in j .. d[v] - 1 |-> CHOOSE w \in K : d[w] = i]
  <2>1. \A i \in j .. d[v] - 1 : f[i] \in K /\ d[f[i]] = i
    <3>1. ASSUME NEW i \in j .. d[v] - 1 PROVE \E w \in K : d[w] = i
      <4>1. i \in j .. d[v]
        BY <1>1, <1>4
      <4>. QED BY <1>4, <4>1
    <3>. QED BY <3>1
  <2>2. \A i \in j .. d[v] - 1 : i < d[v]
    BY <1>1, <1>4
  <2>3. f \in [j .. d[v] - 1 -> L]
    BY <2>1, <2>2
  <2>4. \A a, b \in j .. d[v] - 1 : f[a] = f[b] => a = b
    BY <2>1
  <2>5. f \in Injection(j .. d[v] - 1, L)
    BY <2>3, <2>4 DEF Injection, IsInjective
  <2>6. IsFiniteSet(L)
    BY FinitePart
  <2>7. Cardinality(j .. d[v] - 1) <= Cardinality(L)
    BY <2>5, <2>6, FS_Injection
  <2>8. Cardinality(j .. d[v] - 1) = IF j > d[v] - 1 THEN 0 ELSE (d[v] - 1) - j + 1
    <3>. DEFINE e == d[v] - 1
    <3>1. j \in Int /\ e \in Int
      BY <1>1, <1>4
    <3>. HIDE DEF e
    <3>2. Cardinality(j .. e) = IF j > e THEN 0 ELSE e - j + 1
      BY <3>1, FS_Interval
    <3>. QED BY <3>2 DEF e
  <2>. QED BY <1>1, <1>4, <2>7, <2>8
<1>7. Cardinality(L) \in Nat
  BY FinitePart
<1>. HIDE DEF L
<1>8. d[v] <= c + Cardinality(L)
  BY <1>1, <1>4, <1>5, <1>6, <1>7
<1>. QED BY <1>8 DEF L

(* The label of a node that is not in layer 0 is at most n-2.                *)
LEMMA StepsBound ==
  ASSUME NEW h, h.dist \in [Node -> Nat], NEW b \in Nat, h.dorm \in [Node -> 0 .. b \union {NoNode}],
         LabelSteps(h), NEW v \in Node, h.dorm[v] # 0
  PROVE  h.dist[v] <= n - 2
<1>. DEFINE k == h.dorm[v]
            K == {x \in Node : h.dorm[x] = k}
            W == Waits(h, k)
            L == {x \in K : h.dist[x] < h.dist[v]}
            c == n - 1 - Cardinality(W)
<1>1. v \in K /\ K \in SUBSET Node /\ W \in SUBSET Node /\ L \in SUBSET Node /\ n \in Nat
  BY SizeAssumption DEF Waits
<1>2. Cardinality(W) \in Nat /\ Cardinality(L) \in Nat /\ IsFiniteSet(W) /\ IsFiniteSet(L)
  BY <1>1, FinitePart
<1>3. c \in Int
  BY <1>1, <1>2
<1>4. K \subseteq W
  BY DEF Waits
<1>5. \A x \in K : h.dist[x] <= c \/ \E w \in K : h.dist[w] + 1 = h.dist[x]
  <2>1. ASSUME NEW x \in K PROVE h.dist[x] <= c \/ \E w \in K : h.dist[w] + 1 = h.dist[x]
    <3>1. x \in Node /\ h.dorm[x] = k /\ h.dist[x] \in Nat
      OBVIOUS
    <3>2. CASE HasRoom(h, x)
      <4>1. h.dist[x] + Cardinality(W) <= n - 1
        BY <3>1, <3>2 DEF HasRoom
      <4>. QED BY <1>1, <1>2, <3>1, <4>1
    <3>3. CASE \E w \in Node : h.dorm[w] = h.dorm[x] /\ h.dist[w] + 1 = h.dist[x]
      BY <3>1, <3>3
    <3>. QED BY <3>1, <3>2, <3>3 DEF LabelSteps
  <2>. QED BY <2>1
<1>6. h.dist[v] <= c + Cardinality(L)
  <2>. HIDE DEF K, c
  <2>. QED BY <1>1, <1>3, <1>5, Climb
<1>7. Cardinality(L) < Cardinality(W)
  <2>1. L \in SUBSET W /\ v \in W /\ v \notin L
    BY <1>1, <1>4
  <2>2. Cardinality(L) <= Cardinality(W) /\ (Cardinality(W) = Cardinality(L) => W = L)
    BY <1>2, <2>1, FS_Subset
  <2>. QED BY <1>2, <2>1, <2>2
<1>8. h.dist[v] \in Nat
  OBVIOUS
<1>. HIDE DEF W, L
<1>. QED BY <1>1, <1>2, <1>6, <1>7, <1>8

(* Hence, if labels in layer 0 stay as they are, all labels stay below n.    *)
LEMMA LowAgain ==
  ASSUME CutInv, CutLabels(H), CutInv', LabelSteps(H'),
         \A v \in Node : H'.dorm[v] = 0 => H'.dist[v] <= n - 1
  PROVE  CutLabels(H')
<1>1. ASSUME NEW v \in Node, H'.dorm[v] # 0 PROVE H'.dist[v] <= n - 1
  <2>1. H'.dist \in [Node -> Nat] /\ H'.dormMax \in Nat /\ H'.dorm \in [Node -> 0 .. H'.dormMax \union {NoNode}]
    <3>1. HTypes' /\ n \in Nat
      BY SizeAssumption DEF CutInv
    <3>. QED BY <3>1 DEF HTypes
  <2>2. H'.dist[v] <= n - 2
    BY <1>1, <2>1, StepsBound
  <2>. QED BY <2>1, <2>2, SizeAssumption
<1>. QED BY <1>1 DEF CutLabels, LabelsLow

LEMMA RelabelLabels ==
  ASSUME CutInv, CutLabels(H), UNCHANGED cutCall, RelabelAwake
  PROVE  CutLabels(H')
<1>1. PICK z \in Node \ {H.u} : /\ CutInv' /\ H'.dorm = H.dorm /\ Awake(H, z)
                                /\ H'.dist = [H.dist EXCEPT ![H.u] = H.dist[z] + 1]
  BY RelabelAwakeKeeps
<1>2. PICK y \in Node \ {H.u} : H.dist[y] = H.dist[H.u] /\ Awake(H, y)
  BY DEF RelabelAwake, IsUnique
<1>3. H.u \in Node /\ Awake(H, H.u) /\ H.dist \in [Node -> Nat] /\ NoNode # 0
  BY RootIs DEF CutInv, HTypes, ActiveNode, RelabelAwake, Node
<1>4. \A v \in Node : H'.dist[v] = IF v = H.u THEN H.dist[z] + 1 ELSE H.dist[v]
  BY <1>1, <1>3
<1>5. \A k : Waits(H', k) = Waits(H, k)
  BY <1>1 DEF Waits
<1>6. ASSUME NEW v \in Node, H.dorm[v] # 0
      PROVE  HasRoom(H', v) \/ \E w \in Node : H'.dorm[w] = H'.dorm[v] /\ H'.dist[w] + 1 = H'.dist[v]
  <2>1. CASE v = H.u
    BY <1>1, <1>3, <1>4, <2>1 DEF Awake
  <2>2. CASE v # H.u /\ HasRoom(H, v)
    BY <1>1, <1>4, <1>5, <2>2 DEF HasRoom
  <2>3. CASE v # H.u /\ ~HasRoom(H, v)
    <3>1. PICK w \in Node : H.dorm[w] = H.dorm[v] /\ H.dist[w] + 1 = H.dist[v]
      BY <1>6, <2>3 DEF CutLabels, LabelSteps
    <3>2. CASE w = H.u
      BY <1>1, <1>2, <1>3, <1>4, <2>3, <3>1, <3>2 DEF Awake
    <3>3. CASE w # H.u
      BY <1>1, <1>4, <2>3, <3>1, <3>3
    <3>. QED BY <3>2, <3>3
  <2>. QED BY <2>1, <2>2, <2>3
<1>7. LabelSteps(H')
  BY <1>1, <1>6 DEF LabelSteps
<1>8. \A v \in Node : H'.dorm[v] = 0 => H'.dist[v] <= n - 1
  BY <1>1, <1>3, <1>4 DEF CutLabels, LabelsLow, Awake
<1>. QED BY <1>1, <1>7, <1>8, LowAgain

LEMMA SinkLabels ==
  ASSUME CutInv, CutLabels(H), UNCHANGED cutCall, SelectSink
  PROVE  CutLabels(H')
<1>1. /\ CutInv' /\ H'.dist = H.dist
      /\ \/ H'.dorm = H.dorm
         \/ /\ \A v \in Node : ~Awake(H, v)
            /\ \A v \in Node : H'.dorm[v] = IF H.dorm[v] = H.dormMax THEN NoNode ELSE H.dorm[v]
  BY SelectSinkKeeps
<1>2. CASE H'.dorm = H.dorm
  BY <1>1, <1>2 DEF CutLabels, LabelSteps, LabelsLow, HasRoom, Waits
<1>3. CASE H'.dorm # H.dorm
  <2>1. /\ H.dormMax \in 0 .. n - 1 /\ H.dorm \in [Node -> 0 .. H.dormMax \union {NoNode}] /\ n \in Nat
        /\ NoNode \notin 0 .. n /\ 0 \in Node /\ Root \in Node /\ H.dorm[Root] = 0 /\ H'.dorm[Root'] = 0 /\ Root' = Root
        /\ H.dist \in [Node -> Nat]
    <3>1. HTypes /\ LayersWhole /\ LayersWhole'
      BY <1>1 DEF CutInv
    <3>. QED BY <3>1, RootIs DEF HTypes, LayersWhole, Root
  <2>2. /\ \A v \in Node : ~Awake(H, v) /\ H.dorm[v] \in 0 .. H.dormMax
        /\ \A v \in Node : H'.dorm[v] = IF H.dorm[v] = H.dormMax THEN NoNode ELSE H.dorm[v]
    BY <1>1, <1>3, <2>1 DEF Awake
  <2>3. H.dormMax > 0 /\ H.dormMax # NoNode
    BY <2>1, <2>2
  <2>4. \A v \in Node : /\ H'.dorm[v] # 0 <=> H.dorm[v] \in 1 .. H.dormMax
                        /\ H'.dorm[v] = NoNode <=> H.dorm[v] = H.dormMax
                        /\ H'.dorm[v] # NoNode => H'.dorm[v] = H.dorm[v] /\ H.dorm[v] \in 0 .. H.dormMax - 1
    BY <2>1, <2>2, <2>3
  <2>5. Waits(H', NoNode) = Waits(H, H.dormMax)
    BY <2>3, <2>4 DEF Waits
  <2>6. ASSUME NEW k \in 1 .. H.dormMax - 1 PROVE Waits(H', k) = Waits(H, k)
    <3>1. k # NoNode /\ NoNode \notin 1 .. k /\ H.dormMax \notin 1 .. k
      BY <2>1, <2>3
    <3>2. \A v \in Node : H'.dorm[v] \in 1 .. k <=> H.dorm[v] \in 1 .. k
      BY <2>4, <3>1
    <3>. QED BY <3>1, <3>2 DEF Waits
  <2>7. ASSUME NEW v \in Node, H'.dorm[v] # 0
        PROVE  HasRoom(H', v) \/ \E w \in Node : H'.dorm[w] = H'.dorm[v] /\ H'.dist[w] + 1 = H'.dist[v]
    <3>1. H.dorm[v] # 0 /\ H.dorm[v] \in 1 .. H.dormMax
      BY <2>1, <2>3, <2>4, <2>7
    <3>2. Waits(H', H'.dorm[v]) = Waits(H, H.dorm[v])
      <4>1. CASE H'.dorm[v] = NoNode
        BY <2>4, <2>5, <4>1
      <4>2. CASE H'.dorm[v] # NoNode
        <5>1. H'.dorm[v] = H.dorm[v] /\ H.dorm[v] \in 1 .. H.dormMax - 1
          BY <2>1, <2>4, <3>1, <4>2
        <5>. QED BY <2>6, <5>1
      <4>. QED BY <4>1, <4>2
    <3>3. CASE HasRoom(H, v)
      BY <1>1, <3>2, <3>3 DEF HasRoom
    <3>4. CASE \E w \in Node : H.dorm[w] = H.dorm[v] /\ H.dist[w] + 1 = H.dist[v]
      BY <1>1, <2>2, <3>4
    <3>. QED BY <3>1, <3>3, <3>4 DEF CutLabels, LabelSteps
  <2>8. LabelSteps(H')
    BY <2>7 DEF LabelSteps
  <2>. QED BY <1>1, <2>8 DEF CutLabels, LabelsLow
<1>. QED BY <1>2, <1>3

LEMMA CompareLabels ==
  ASSUME CutInv, CutLabels(H), UNCHANGED cutCall, Compare
  PROVE  CutLabels(H')
<1>1. CutInv' /\ H'.dist = H.dist /\ \A v \in Node : H'.dorm[v] = IF v = H.t THEN 0 ELSE H.dorm[v]
  BY CompareKeeps
<1>2. /\ H.t \in Node /\ Awake(H, H.t) /\ H.dist \in [Node -> Nat] /\ n \in Nat /\ NoNode \notin 0 .. n
      /\ H.dormMax \in 0 .. n - 1 /\ H.dorm \in [Node -> 0 .. H.dormMax \union {NoNode}]
      /\ \A v \in Node : Awake(H, v) => H.dist[H.t] <= H.dist[v]
  <2>1. HTypes /\ LayersWhole /\ H.stage = "sweep"
    BY DEF CutInv, Compare
  <2>. QED BY <2>1, RootIs DEF HTypes, LayersWhole
<1>. DEFINE W == Waits(H, NoNode)
<1>3. /\ Waits(H', NoNode) = W \ {H.t} /\ H.t \in W /\ W \in SUBSET Node
      /\ \A k \in 0 .. n : Waits(H', k) = Waits(H, k)
  <2>1. NoNode # 0
    BY <1>2
  <2>2. Waits(H', NoNode) = W \ {H.t} /\ H.t \in W /\ W \in SUBSET Node
    BY <1>1, <1>2, <2>1 DEF Waits, Awake
  <2>3. ASSUME NEW k \in 0 .. n PROVE Waits(H', k) = Waits(H, k)
    <3>1. k # NoNode /\ NoNode \notin 1 .. k /\ 0 \notin 1 .. k
      BY <1>2
    <3>2. \A v \in Node : H'.dorm[v] \in 1 .. k <=> H.dorm[v] \in 1 .. k
      BY <1>1, <1>2, <3>1 DEF Awake
    <3>. QED BY <3>1, <3>2 DEF Waits
  <2>. QED BY <2>2, <2>3
<1>4. Cardinality(W) \in Nat /\ Cardinality(W \ {H.t}) = Cardinality(W) - 1
  <2>1. IsFiniteSet(W) /\ Cardinality(W) \in Nat
    BY <1>3, FinitePart
  <2>. QED BY <1>3, <2>1, FS_RemoveElement
<1>. HIDE DEF W
<1>5. H.dist[H.t] + Cardinality(W) <= n - 1
  <2>1. H.dorm[H.t] = NoNode /\ NoNode # 0
    BY <1>2 DEF Awake
  <2>2. ASSUME NEW w \in Node, H.dorm[w] = H.dorm[H.t], H.dist[w] + 1 = H.dist[H.t] PROVE FALSE
    <3>1. H.dist[H.t] <= H.dist[w]
      BY <1>2, <2>1, <2>2 DEF Awake
    <3>. QED BY <1>2, <2>2, <3>1
  <2>3. HasRoom(H, H.t)
    BY <1>2, <2>1, <2>2 DEF CutLabels, LabelSteps
  <2>. QED BY <2>1, <2>3 DEF HasRoom, W
<1>6. ASSUME NEW v \in Node, H'.dorm[v] # 0
      PROVE  HasRoom(H', v) \/ \E w \in Node : H'.dorm[w] = H'.dorm[v] /\ H'.dist[w] + 1 = H'.dist[v]
  <2>1. v # H.t /\ H'.dorm[v] = H.dorm[v] /\ H.dorm[v] # 0
    BY <1>1, <1>6
  <2>2. CASE HasRoom(H, v)
    <3>1. CASE H.dorm[v] = NoNode
      <4>1. H.dist[v] + Cardinality(W) <= n - 1
        BY <2>2, <3>1 DEF HasRoom, W
      <4>2. H'.dist[v] + Cardinality(Waits(H', H'.dorm[v])) <= n - 1
        <5>1. H'.dist[v] = H.dist[v] /\ H.dist[v] \in Nat /\ n \in Nat
          BY <1>1, <1>2, <2>1
        <5>2. Waits(H', H'.dorm[v]) = W \ {H.t}
          BY <1>3, <2>1, <3>1
        <5>. QED BY <1>4, <4>1, <5>1, <5>2
      <4>. QED BY <4>2 DEF HasRoom
    <3>2. CASE H.dorm[v] # NoNode
      <4>1. H.dorm[v] \in 0 .. n
        BY <1>2, <3>2
      <4>. QED BY <1>1, <1>3, <2>1, <2>2, <4>1 DEF HasRoom
    <3>. QED BY <3>1, <3>2
  <2>3. CASE ~HasRoom(H, v)
    <3>1. PICK w \in Node : H.dorm[w] = H.dorm[v] /\ H.dist[w] + 1 = H.dist[v]
      BY <2>1, <2>3 DEF CutLabels, LabelSteps
    <3>2. CASE w # H.t
      BY <1>1, <2>1, <3>1, <3>2
    <3>3. CASE w = H.t
      <4>1. H.dorm[v] = NoNode
        BY <1>2, <3>1, <3>3 DEF Awake
      <4>2. H.dist[v] + (Cardinality(W) - 1) <= n - 1
        BY <1>2, <1>4, <1>5, <3>1, <3>3
      <4>3. H'.dist[v] + Cardinality(Waits(H', H'.dorm[v])) <= n - 1
        BY <1>1, <1>3, <1>4, <2>1, <4>1, <4>2
      <4>. QED BY <4>3 DEF HasRoom
    <3>. QED BY <3>2, <3>3
  <2>. QED BY <2>2, <2>3
<1>7. LabelSteps(H')
  BY <1>6 DEF LabelSteps
<1>. QED BY <1>1, <1>7 DEF CutLabels, LabelsLow

(* The nodes of X fall asleep: with u, only nodes whose lower neighbours     *)
(* fall as well; and who stays awake keeps a lower neighbour.                *)
LEMMA FallLabels ==
  ASSUME CutInv, CutLabels(H), CutInv', H.stage = "sweep", H.u # NoNode, H'.dist = H.dist, NEW X \in SUBSET Node, H.u \in X,
         \A v \in Node : H'.dorm[v] = IF v \in X THEN H.dormMax + 1 ELSE H.dorm[v],
         \A x \in X : Awake(H, x),
         \A x \in X : x # H.u => \A w \in Node : Awake(H, w) /\ H.dist[w] + 1 = H.dist[x] => w \in X,
         \A x \in X : H.dist[H.u] <= H.dist[x],
         \A x \in X : (\E v \in Node \ X : Awake(H, v) /\ H.dist[x] + 1 = H.dist[v]) =>
                         \E y \in Node \ X : Awake(H, y) /\ H.dist[y] = H.dist[x]
  PROVE  CutLabels(H')
<1>. DEFINE top == H.dormMax + 1
            W == Waits(H, NoNode)
            K == {x \in Node : Awake(H, x)}
            V == Waits(H', top)
            c == n - 1 - Cardinality(W)
            L == {x \in K : H.dist[x] < H.dist[H.u]}
<1>1. /\ H.u \in Node /\ H.dist \in [Node -> Nat] /\ n \in Nat /\ NoNode \notin 0 .. n
      /\ H.dormMax \in 0 .. n - 1 /\ H.dorm \in [Node -> 0 .. H.dormMax \union {NoNode}]
  <2>1. HTypes
    BY DEF CutInv
  <2>. QED BY <2>1, RootIs DEF HTypes
<1>2. top \in 1 .. n /\ top # NoNode /\ NoNode # 0
  BY <1>1
<1>3. \A v \in Node : H'.dorm[v] = (IF v \in X THEN top ELSE H.dorm[v]) /\ (v \in X => H.dorm[v] = NoNode)
  BY DEF Awake
<1>4. Waits(H', NoNode) = W
  <2>1. \A v \in Node : H'.dorm[v] # 0 <=> H.dorm[v] # 0
    BY <1>2, <1>3
  <2>. QED BY <2>1 DEF Waits
<1>5. ASSUME NEW k \in 0 .. H.dormMax PROVE Waits(H', k) = Waits(H, k)
  <2>1. k # NoNode /\ NoNode \notin 1 .. k /\ top \notin 1 .. k
    BY <1>1
  <2>. HIDE DEF top
  <2>2. \A v \in Node : H'.dorm[v] \in 1 .. k <=> H.dorm[v] \in 1 .. k
    BY <1>3, <2>1
  <2>. QED BY <2>1, <2>2 DEF Waits
<1>6. /\ W \in SUBSET Node /\ V \in SUBSET W /\ L \in SUBSET W /\ V \intersect L = {} /\ K \in SUBSET Node
  <2>1. W \in SUBSET Node /\ L \in SUBSET W
    BY <1>2 DEF Waits, Awake
  <2>2. ASSUME NEW v \in Node, H'.dorm[v] \in 1 .. top PROVE H.dorm[v] # 0 /\ v \notin L
    <3>1. CASE v \in X
      BY <1>1, <1>2, <1>3, <3>1
    <3>2. CASE v \notin X
      <4>1. H.dorm[v] \in 1 .. top
        BY <1>3, <2>2, <3>2
      <4>2. H.dorm[v] # 0 /\ H.dorm[v] # NoNode
        BY <1>1, <1>2, <4>1
      <4>. QED BY <4>2 DEF Awake
    <3>. QED BY <3>1, <3>2
  <2>. QED BY <1>2, <2>1, <2>2 DEF Waits
<1>7. Cardinality(V) \in Nat /\ Cardinality(L) \in Nat /\ Cardinality(W) \in Nat /\ Cardinality(V) + Cardinality(L) <= Cardinality(W)
  <2>1. IsFiniteSet(V) /\ IsFiniteSet(L) /\ IsFiniteSet(W)
        /\ Cardinality(V) \in Nat /\ Cardinality(L) \in Nat /\ Cardinality(W) \in Nat
    BY <1>6, FinitePart
  <2>2. V \union L \in SUBSET W
    BY <1>6
  <2>. HIDE DEF V, L, W
  <2>3. Cardinality(V \union L) = Cardinality(V) + Cardinality(L) - Cardinality(V \intersect L)
    BY <2>1, FS_Union
  <2>4. Cardinality(V \intersect L) = 0
    BY <1>6, FS_EmptySet
  <2>5. Cardinality(V \union L) <= Cardinality(W)
    BY <1>6, <2>2, SmallerPart
  <2>. QED BY <2>1, <2>3, <2>4, <2>5
<1>8. H.dist[H.u] <= c + Cardinality(L)
  <2>1. c \in Int
    BY <1>1, <1>7
  <2>2. ASSUME NEW x \in K PROVE H.dist[x] <= c \/ \E w \in K : H.dist[w] + 1 = H.dist[x]
    <3>1. x \in Node /\ H.dorm[x] = NoNode /\ H.dist[x] \in Nat
      BY <1>1 DEF Awake
    <3>2. CASE HasRoom(H, x)
      <4>1. H.dist[x] + Cardinality(W) <= n - 1
        BY <3>1, <3>2 DEF HasRoom
      <4>. QED BY <1>1, <1>7, <3>1, <4>1
    <3>3. CASE \E w \in Node : H.dorm[w] = H.dorm[x] /\ H.dist[w] + 1 = H.dist[x]
      BY <3>1, <3>3 DEF Awake
    <3>. QED BY <1>2, <3>1, <3>2, <3>3 DEF CutLabels, LabelSteps
  <2>3. H.u \in K
    BY <1>1
  <2>. HIDE DEF K, c
  <2>. QED BY <1>1, <1>6, <2>1, <2>2, <2>3, Climb
<1>9. H.dist[H.u] + Cardinality(V) <= n - 1
  <2>1. H.dist[H.u] \in Nat
    BY <1>1
  <2>. HIDE DEF V, L, W
  <2>. QED BY <1>1, <1>7, <1>8, <2>1
<1>. HIDE DEF c, L
<1>10. ASSUME NEW v \in Node, H'.dorm[v] # 0
       PROVE  HasRoom(H', v) \/ \E w \in Node : H'.dorm[w] = H'.dorm[v] /\ H'.dist[w] + 1 = H'.dist[v]
  <2>1. H.dorm[v] # 0 /\ H.dist[v] \in Nat
    BY <1>1, <1>2, <1>3, <1>10
  <2>2. CASE v = H.u
    <3>1. H'.dorm[v] = top
      BY <1>1, <1>3, <2>2
    <3>. QED BY <1>9, <2>2, <3>1 DEF HasRoom
  <2>3. CASE v \in X /\ v # H.u
    <3>1. H'.dorm[v] = top /\ H.dorm[v] = NoNode
      BY <1>3, <2>3
    <3>2. CASE HasRoom(H, v)
      <4>1. H.dist[v] + Cardinality(W) <= n - 1
        BY <3>1, <3>2 DEF HasRoom
      <4>2. H.dist[v] + Cardinality(V) <= n - 1
        <5>. HIDE DEF V, W
        <5>1. Cardinality(V) <= Cardinality(W) /\ Cardinality(V) \in Nat /\ Cardinality(W) \in Nat
          BY <1>7, <1>6, SmallerPart
        <5>. QED BY <1>1, <2>1, <4>1, <5>1
      <4>. QED BY <3>1, <4>2 DEF HasRoom
    <3>3. CASE ~HasRoom(H, v)
      <4>1. PICK w \in Node : H.dorm[w] = H.dorm[v] /\ H.dist[w] + 1 = H.dist[v]
        BY <2>1, <3>3 DEF CutLabels, LabelSteps
      <4>2. w \in X
        BY <2>3, <3>1, <4>1 DEF Awake
      <4>. QED BY <1>3, <3>1, <4>1, <4>2
    <3>. QED BY <3>2, <3>3
  <2>4. CASE v \notin X
    <3>1. H'.dorm[v] = H.dorm[v]
      BY <1>3, <2>4
    <3>2. Waits(H', H.dorm[v]) = Waits(H, H.dorm[v])
      <4>1. CASE H.dorm[v] = NoNode
        BY <1>4, <4>1
      <4>2. CASE H.dorm[v] # NoNode
        <5>1. H.dorm[v] \in 0 .. H.dormMax
          BY <1>1, <4>2
        <5>. QED BY <1>5, <5>1
      <4>. QED BY <4>1, <4>2
    <3>3. CASE HasRoom(H, v)
      BY <3>1, <3>2, <3>3 DEF HasRoom
    <3>4. CASE ~HasRoom(H, v)
      <4>1. PICK w \in Node : H.dorm[w] = H.dorm[v] /\ H.dist[w] + 1 = H.dist[v]
        BY <2>1, <3>4 DEF CutLabels, LabelSteps
      <4>2. CASE w \notin X
        BY <1>3, <3>1, <4>1, <4>2
      <4>3. CASE w \in X
        <5>1. Awake(H, v) /\ v \in Node \ X
          BY <1>3, <2>4, <4>1, <4>3 DEF Awake
        <5>2. PICK y \in Node \ X : Awake(H, y) /\ H.dist[y] = H.dist[w]
          BY <4>1, <4>3, <5>1
        <5>. QED BY <1>3, <3>1, <4>1, <5>1, <5>2 DEF Awake
      <4>. QED BY <4>2, <4>3
    <3>. QED BY <3>3, <3>4
  <2>. QED BY <2>2, <2>3, <2>4
<1>11. LabelSteps(H')
  BY <1>10 DEF LabelSteps
<1>. QED BY <1>11 DEF CutLabels, LabelsLow

LEMMA SleepLabels ==
  ASSUME CutInv, CutLabels(H), UNCHANGED cutCall, SleepAbove \/ SleepAlone
  PROVE  CutLabels(H')
<1>1. H.stage = "sweep" /\ H.u # NoNode
  BY DEF SleepAbove, SleepAlone
<1>2. H.u \in Node /\ Awake(H, H.u) /\ H.dist \in [Node -> Nat]
  BY <1>1 DEF CutInv, HTypes, ActiveNode
<1>3. CASE SleepAbove
  <2>. DEFINE X == {v \in Node : H.dist[v] >= H.dist[H.u] /\ Awake(H, v)}
  <2>1. /\ CutInv' /\ H'.dist = H.dist
        /\ \A v \in Node : H'.dorm[v] = IF H.dist[v] >= H.dist[H.u] /\ Awake(H, v) THEN H.dormMax + 1 ELSE H.dorm[v]
    BY <1>3, SleepAboveKeeps
  <2>2. \A v \in Node \ {H.u} : H.dist[v] # H.dist[H.u] \/ ~Awake(H, v)
    BY <1>3 DEF SleepAbove, IsUnique
  <2>3. X \in SUBSET Node /\ H.u \in X /\ \A x \in X : Awake(H, x) /\ H.dist[H.u] <= H.dist[x]
    BY <1>2
  <2>4. \A v \in Node : H'.dorm[v] = IF v \in X THEN H.dormMax + 1 ELSE H.dorm[v]
    BY <2>1
  <2>5. \A x \in X : x # H.u => \A w \in Node : Awake(H, w) /\ H.dist[w] + 1 = H.dist[x] => w \in X
    BY <1>2, <2>2
  <2>6. ASSUME NEW x \in X, NEW v \in Node \ X, Awake(H, v), H.dist[x] + 1 = H.dist[v] PROVE FALSE
    BY <1>2, <2>6
  <2>. HIDE DEF X
  <2>. QED BY <1>1, <2>1, <2>3, <2>4, <2>5, <2>6, FallLabels
<1>4. CASE SleepAlone
  <2>. DEFINE X == {H.u}
  <2>1. /\ CutInv' /\ H'.dist = H.dist
        /\ \A v \in Node : H'.dorm[v] = IF v = H.u THEN H.dormMax + 1 ELSE H.dorm[v]
    BY <1>4, SleepAloneKeeps
  <2>2. PICK y \in Node \ {H.u} : H.dist[y] = H.dist[H.u] /\ Awake(H, y)
    BY <1>4 DEF SleepAlone, IsUnique
  <2>3. X \in SUBSET Node /\ H.u \in X /\ \A x \in X : Awake(H, x) /\ H.dist[H.u] <= H.dist[x]
    BY <1>2
  <2>4. \A v \in Node : H'.dorm[v] = IF v \in X THEN H.dormMax + 1 ELSE H.dorm[v]
    BY <2>1
  <2>5. \A x \in X : x # H.u => \A w \in Node : Awake(H, w) /\ H.dist[w] + 1 = H.dist[x] => w \in X
    OBVIOUS
  <2>6. \A x \in X : \E z \in Node \ X : Awake(H, z) /\ H.dist[z] = H.dist[x]
    BY <2>2
  <2>. HIDE DEF X
  <2>. QED BY <1>1, <2>1, <2>3, <2>4, <2>5, <2>6, FallLabels
<1>. QED BY <1>3, <1>4

LEMMA StartLabels ==
  ASSUME NEW c \in CutCalls, CutStart(c)
  PROVE  CutLabels(H)
<1>. DEFINE first == IF c.r = 0 THEN 1 ELSE 0
            W == Waits(H, NoNode)
<1>1. /\ H.dist = [v \in Node |-> IF v = first THEN 0 ELSE 1]
      /\ H.dorm = [v \in Node |-> IF v = c.r THEN 0 ELSE NoNode]
  BY DEF CutStart
<1>2. /\ c.r \in Node /\ n \in Nat /\ n > 1 /\ NoNode \notin 0 .. n
  BY CutCallsAssumption, SizeAssumption, UndefAssumption, CutAssumption
<1>3. first \in Node /\ first # c.r /\ NoNode # 0
  BY <1>2 DEF Node
<1>4. Cardinality(W) = n - 1
  <2>1. W = Node \ {c.r}
    BY <1>1, <1>2, <1>3 DEF Waits
  <2>. QED BY <1>2, <2>1, NodeCount, FS_RemoveElement
<1>. HIDE DEF first
<1>5. ASSUME NEW v \in Node, H.dorm[v] # 0
      PROVE  HasRoom(H, v) \/ \E w \in Node : H.dorm[w] = H.dorm[v] /\ H.dist[w] + 1 = H.dist[v]
  <2>1. H.dorm[v] = NoNode
    BY <1>1, <1>5
  <2>2. CASE v = first
    <3>1. H.dist[v] = 0
      BY <1>1, <2>2
    <3>. QED BY <1>2, <1>4, <2>1, <3>1 DEF HasRoom
  <2>3. CASE v # first
    BY <1>1, <1>3, <2>1, <2>3
  <2>. QED BY <2>2, <2>3
<1>6. LabelsLow(H)
  BY <1>1, <1>2 DEF LabelsLow
<1>. QED BY <1>5, <1>6 DEF CutLabels, LabelSteps

LEMMA StepLabels ==
  ASSUME CutInv, CutLabels(H), [CutStep]_CutVars
  PROVE  CutLabels(H')
<1>0. ASSUME H'.dist = H.dist, H'.dorm = H.dorm PROVE CutLabels(H')
  BY <1>0 DEF CutLabels, LabelSteps, LabelsLow, HasRoom, Waits
<1>1. CASE UNCHANGED CutVars
  BY <1>0, <1>1 DEF CutVars
<1>2. CASE CutStep
  <2>1. UNCHANGED cutCall
    BY <1>2 DEF CutStep
  <2>2. CASE \E k \in DOMAIN H.Q : Delete(k)
    BY <1>0, <2>1, <2>2, DeleteKeeps
  <2>3. CASE \E a \in Arc : DrainRoot(a)
    BY <1>0, <2>1, <2>3, DrainRootKeeps
  <2>4. CASE \E a \in Arc : PushArc(a)
    BY <1>0, <2>1, <2>4, PushArcKeeps
  <2>5. CASE \E a \in Arc : DrainSink(a)
    BY <1>0, <2>1, <2>5, DrainSinkKeeps
  <2>6. CASE Prepare
    BY <1>0, <2>1, <2>6, PrepareKeeps
  <2>7. CASE Inactive
    BY <1>0, <2>1, <2>7, InactiveKeeps
  <2>8. CASE SleepAbove \/ SleepAlone
    BY <2>1, <2>8, SleepLabels
  <2>9. CASE RelabelAwake
    BY <2>1, <2>9, RelabelLabels
  <2>10. CASE Compare \/ SelectSink
    BY <2>1, <2>10, CompareLabels, SinkLabels
  <2>. QED BY <1>2, <2>2, <2>3, <2>4, <2>5, <2>6, <2>7, <2>8, <2>9, <2>10 DEF CutStep
<1>. QED BY <1>1, <1>2

-------------------------------------------------------------------------------
(* Every reachable state of a call of MCC_HaoOrlin satisfies the inductive   *)
(* invariant, whatever the digraph, the root and the kind of queue: in       *)
(* particular there are fewer layers of sleeping nodes than nodes, and a     *)
(* saturated arc is left in the lists, by way of S2 too, only at a node that *)
(* has been the sink.                                                        *)
THEOREM CutInvariant == CutSpec => []CutInv
<1>1. CutInit => CutInv
  BY CutStartHolds DEF CutInit
<1>2. CutInv /\ [CutStep]_CutVars => CutInv'
  BY CutStepKeeps
<1>. QED BY <1>1, <1>2, PTL DEF CutSpec

(* MCC_HaoOrlin finds a cut that is genuine: unless an infinite arc has been *)
(* met, no node enters the queue twice; the awake nodes have lost their      *)
(* excess when a cut is taken; the value is that of the exported cut, with   *)
(* the root on the left hand side; and every other node becomes the sink.    *)
THEOREM CutIsGenuine == CutSpec => []CutGenuine
<1>1. CutInv => CutGenuine
  BY CutInvGenuine
<1>. QED BY <1>1, CutInvariant, PTL

(* The invariant of the call together with the one of its labels.            *)
CutInvLow == CutInv /\ CutLabels(H)

(* MCC_HaoOrlin: the labels never get beyond n-1 and there are fewer layers  *)
(* than nodes, although labels and layers are carried over from one sink to  *)
(* the next; and the flow respects the capacities at every moment.           *)
THEOREM CutTypes == CutSpec => []CutTypeOK
<1>1. CutInit => CutInvLow
  BY CutStartHolds, StartLabels DEF CutInit, CutInvLow
<1>2. CutInvLow /\ [CutStep]_CutVars => CutInvLow'
  BY CutStepKeeps, StepLabels DEF CutInvLow
<1>3. CutInvLow => CutTypeOK
  <2>. SUFFICES ASSUME CutInv, CutLabels(H) PROVE CutTypeOK
    BY DEF CutInvLow
  <2>1. HTypes /\ n \in Nat
    BY SizeAssumption DEF CutInv
  <2>2. H.dist \in [Node -> 0 .. n - 1]
    BY <2>1 DEF HTypes, CutLabels, LabelsLow
  <2>3. H.dormMax \in 0 .. n /\ H.dorm \in [Node -> 0 .. n \union {NoNode}]
    BY <2>1 DEF HTypes
  <2>4. \A e \in Edge : H.g.sub[e] \in 0 .. H.g.ucap[e]
    BY <2>1, NetworkParts DEF HTypes
  <2>. QED BY <2>1, <2>2, <2>3, <2>4 DEF HTypes, CutTypeOK, CutStages
<1>. QED BY <1>1, <1>2, <1>3, PTL DEF CutSpec
===============================================================================
