------------------------- MODULE DisjointFamilyProofs -------------------------
(****************************************************************************)
(* The disjoint set family is a partition with canonical elements, and the   *)
(* ranks bound the work of Find, for any number of items and any sequence of *)
(* calls with and without path compression.                                  *)
(****************************************************************************)
EXTENDS DisjointFamily, Integers, FiniteSetTheorems, NaturalsInduction,
        WellFoundedInduction, TLAPS

-------------------------------------------------------------------------------
(* Induction over an interval, and what a recursive function computes.       *)

LEMMA LeastNumber ==
  ASSUME NEW S \in SUBSET Nat, S # {}
  PROVE  \E x \in S : \A y \in S : x <= y
<1>1. PICK x \in S : \A y \in S : ~(<<y, x>> \in OpToRel(<, Nat))
  BY NatLessThanWellFounded, WFMin
<1>2. \A y \in S : ~(y < x)
  BY <1>1 DEF OpToRel
<1>. QED BY <1>2

(* A set with 0 that is closed under the successor contains the interval.    *)
LEMMA StepByStep ==
  ASSUME NEW m \in Nat, NEW S, 0 \in S,
         \A k \in Nat : k < m /\ k \in S => k + 1 \in S
  PROVE  \A k \in 0 .. m : k \in S
<1>. DEFINE Bad == {k \in 0 .. m : k \notin S}
<1>. SUFFICES ASSUME NEW x \in 0 .. m, x \notin S PROVE FALSE
  OBVIOUS
<1>1. Bad \in SUBSET Nat /\ Bad # {}
  OBVIOUS
<1>2. PICK k \in Bad : \A j \in Bad : k <= j
  <2>. HIDE DEF Bad
  <2>. QED BY <1>1, LeastNumber
<1>3. k \in 0 .. m /\ k \notin S /\ k # 0
  OBVIOUS
<1>4. k - 1 \in Nat /\ k - 1 < m /\ k - 1 \in 0 .. m /\ ~(k <= k - 1) /\ (k - 1) + 1 = k
  BY <1>3
<1>5. k - 1 \in S
  BY <1>2, <1>4
<1>. QED BY <1>3, <1>4, <1>5

(* What f leads to from v in k steps.                                        *)
Iterates(f, v, k, g) == g = [j \in 0 .. k |-> IF j = 0 THEN v ELSE f[g[j - 1]]]

LEMMA IteratesExist ==
  ASSUME NEW f, NEW v, NEW m \in Nat
  PROVE  \E g : Iterates(f, v, m, g)
<1>. DEFINE S == {k \in Nat : \E g : Iterates(f, v, k, g)}
<1>1. 0 \in S
  <2>. DEFINE g == [j \in 0 .. 0 |-> v]
  <2>1. Iterates(f, v, 0, g)
    BY DEF Iterates
  <2>. HIDE DEF g
  <2>. QED BY <2>1
<1>2. ASSUME NEW k \in Nat, k \in S
      PROVE  k + 1 \in S
  <2>1. PICK g : Iterates(f, v, k, g)
    BY <1>2
  <2>. DEFINE h == [j \in 0 .. k + 1 |-> IF j = k + 1 THEN f[g[k]] ELSE g[j]]
  <2>2. ASSUME NEW j \in 0 .. k + 1
        PROVE  h[j] = IF j = 0 THEN v ELSE f[h[j - 1]]
    <3>1. CASE j = k + 1
      <4>1. h[j] = f[g[k]] /\ j - 1 = k /\ k \in 0 .. k + 1 /\ k # k + 1 /\ j # 0
        BY <3>1
      <4>2. h[k] = g[k]
        BY <4>1
      <4>. QED BY <4>1, <4>2
    <3>2. CASE j # k + 1
      <4>1. j \in 0 .. k /\ h[j] = g[j]
        BY <3>2
      <4>2. g[j] = IF j = 0 THEN v ELSE f[g[j - 1]]
        BY <2>1, <4>1 DEF Iterates
      <4>3. j # 0 => h[j - 1] = g[j - 1]
        <5>1. j # 0 => j - 1 \in 0 .. k + 1 /\ j - 1 # k + 1
          BY <4>1
        <5>. QED BY <5>1
      <4>. QED BY <4>1, <4>2, <4>3
    <3>. QED BY <3>1, <3>2
  <2>3. Iterates(f, v, k + 1, h)
    <3>. DEFINE e == [j \in 0 .. k + 1 |-> IF j = 0 THEN v ELSE f[h[j - 1]]]
    <3>1. h = [j \in 0 .. k + 1 |-> h[j]]
      OBVIOUS
    <3>2. \A j \in 0 .. k + 1 : h[j] = e[j]
      BY <2>2
    <3>. HIDE DEF h
    <3>3. h = e
      BY <3>1, <3>2
    <3>. QED BY <3>3 DEF Iterates
  <2>. HIDE DEF h
  <2>4. k + 1 \in Nat
    OBVIOUS
  <2>. QED BY <2>3, <2>4
<1>. HIDE DEF S
<1>3. \A k \in 0 .. m : k \in S
  BY <1>1, <1>2, StepByStep
<1>4. m \in S
  BY <1>3
<1>. QED BY <1>4 DEF S

(* Up follows the links.                                                     *)
LEMMA UpLinks ==
  ASSUME n \in Nat, NEW f, NEW v
  PROVE  /\ Up(f, v)[0] = v
         /\ \A k \in 0 .. n : k < n => Up(f, v)[k + 1] = f[Up(f, v)[k]]
<1>. DEFINE g == CHOOSE h : Iterates(f, v, n, h)
<1>1. Iterates(f, v, n, g)
  BY IteratesExist
<1>2. Up(f, v) = g
  BY DEF Up, Iterates
<1>. HIDE DEF g
<1>3. \A k \in 0 .. n : g[k] = IF k = 0 THEN v ELSE f[g[k - 1]]
  BY <1>1 DEF Iterates
<1>4. g[0] = v
  BY <1>3
<1>5. ASSUME NEW k \in 0 .. n, k < n
      PROVE  g[k + 1] = f[g[k]]
  <2>1. k + 1 \in 0 .. n /\ k + 1 # 0 /\ (k + 1) - 1 = k
    BY <1>5
  <2>. QED BY <1>3, <2>1
<1>. QED BY <1>2, <1>4, <1>5

(* LeastSize doubles with the rank, and is at least the rank.                *)
LEMMA SizeDoubles ==
  ASSUME n \in Nat
  PROVE  /\ \A r \in 1 .. n : LeastSize[r] \in Nat /\ LeastSize[r] >= r
         /\ \A r \in 1 .. n : LeastSize[r] = IF r = 1 THEN 1 ELSE 2 * LeastSize[r - 1]
<1>. DEFINE d == [x \in Nat |-> 2 * x]
<1>1. PICK g : Iterates(d, 1, n, g)
  BY IteratesExist
<1>2. ASSUME NEW k \in 0 .. n
      PROVE  g[k] = IF k = 0 THEN 1 ELSE d[g[k - 1]]
  BY <1>1 DEF Iterates
<1>. DEFINE S == {k \in 0 .. n : g[k] \in Nat /\ g[k] >= k + 1}
<1>3. 0 \in S
  <2>1. 0 \in 0 .. n
    OBVIOUS
  <2>2. g[0] = 1
    BY <1>2, <2>1
  <2>. QED BY <2>1, <2>2
<1>4. ASSUME NEW k \in Nat, k < n, k \in S
      PROVE  k + 1 \in S
  <2>1. k + 1 \in 0 .. n /\ k + 1 # 0 /\ (k + 1) - 1 = k /\ g[k] \in Nat /\ g[k] >= k + 1
    BY <1>4
  <2>2. g[k + 1] = d[g[k]]
    BY <1>2, <2>1
  <2>3. g[k + 1] = 2 * g[k]
    BY <2>1, <2>2
  <2>4. g[k + 1] \in Nat /\ g[k + 1] >= (k + 1) + 1
    BY <2>1, <2>3
  <2>. QED BY <2>1, <2>4
<1>5. \A k \in 0 .. n : k \in S
  <2>. HIDE DEF S
  <2>. QED BY <1>3, <1>4, StepByStep
<1>6. \A k \in 0 .. n : g[k] \in Nat /\ g[k] >= k + 1
  BY <1>5
<1>. DEFINE Eq(h) == h = [r \in 1 .. n |-> IF r = 1 THEN 1 ELSE 2 * h[r - 1]]
<1>. DEFINE h == [r \in 1 .. n |-> g[r - 1]]
<1>7. ASSUME NEW r \in 1 .. n
      PROVE  h[r] = IF r = 1 THEN 1 ELSE 2 * h[r - 1]
  <2>1. r - 1 \in 0 .. n /\ h[r] = g[r - 1]
    OBVIOUS
  <2>2. CASE r = 1
    <3>0. 0 \in 0 .. n
      OBVIOUS
    <3>1. g[0] = 1
      BY <1>2, <3>0
    <3>2. r - 1 = 0
      BY <2>2
    <3>. QED BY <2>1, <2>2, <3>1, <3>2
  <2>3. CASE r # 1
    <3>1. r - 1 \in 1 .. n /\ r - 1 # 0 /\ (r - 1) - 1 \in 0 .. n
      BY <2>3
    <3>2. h[r - 1] = g[(r - 1) - 1]
      BY <3>1
    <3>3. g[r - 1] = d[g[(r - 1) - 1]]
      BY <1>2, <2>1, <3>1
    <3>4. d[g[(r - 1) - 1]] = 2 * g[(r - 1) - 1]
      BY <1>6, <3>1
    <3>. QED BY <2>1, <2>3, <3>2, <3>3, <3>4
  <2>. QED BY <2>2, <2>3
<1>8. Eq(h)
  <2>. DEFINE e == [r \in 1 .. n |-> IF r = 1 THEN 1 ELSE 2 * h[r - 1]]
  <2>1. h = [r \in 1 .. n |-> h[r]]
    OBVIOUS
  <2>2. \A r \in 1 .. n : h[r] = e[r]
    BY <1>7
  <2>. HIDE DEF h
  <2>3. h = e
    BY <2>1, <2>2
  <2>. QED BY <2>3
<1>. DEFINE c == CHOOSE x : Eq(x)
<1>9. Eq(c)
  <2>. HIDE DEF h
  <2>. QED BY <1>8
<1>10. LeastSize = c
  BY DEF LeastSize
<1>. HIDE DEF c, h, d, S
<1>11. \A r \in 1 .. n : LeastSize[r] = IF r = 1 THEN 1 ELSE 2 * LeastSize[r - 1]
  BY <1>9, <1>10
<1>. DEFINE Z == {k \in 0 .. n : k > 0 => LeastSize[k] \in Nat /\ LeastSize[k] >= k}
<1>12. 0 \in Z
  OBVIOUS
<1>13. ASSUME NEW k \in Nat, k < n, k \in Z
       PROVE  k + 1 \in Z
  <2>1. k + 1 \in 1 .. n /\ k + 1 \in 0 .. n /\ (k + 1) - 1 = k
    BY <1>13
  <2>2. LeastSize[k + 1] = IF k + 1 = 1 THEN 1 ELSE 2 * LeastSize[k]
    BY <1>11, <2>1
  <2>3. CASE k = 0
    BY <2>1, <2>2, <2>3
  <2>4. CASE k # 0
    <3>1. LeastSize[k] \in Nat /\ LeastSize[k] >= k /\ k > 0 /\ k + 1 # 1
      BY <1>13, <2>4
    <3>2. LeastSize[k + 1] \in Nat /\ LeastSize[k + 1] >= k + 1
      BY <2>2, <3>1
    <3>. QED BY <2>1, <3>2
  <2>. QED BY <2>3, <2>4
<1>14. \A k \in 0 .. n : k \in Z
  <2>. HIDE DEF Z
  <2>. QED BY <1>12, <1>13, StepByStep
<1>15. \A r \in 1 .. n : LeastSize[r] \in Nat /\ LeastSize[r] >= r
  <2>1. \A r \in 1 .. n : r \in 0 .. n /\ r > 0
    OBVIOUS
  <2>. QED BY <1>14, <2>1
<1>. QED BY <1>11, <1>15

-------------------------------------------------------------------------------
(* Forests.  R names the canonical element of every item that has a set.     *)

Budded(f) == {v \in Items : f[v] # n}

Forest(f, rk, R) ==
  /\ f \in [Items -> 0 .. n] /\ rk \in [Items -> 0 .. n]
  /\ R \in [Budded(f) -> Budded(f)]
  /\ \A v \in Budded(f) :
       /\ f[v] \in Budded(f) /\ rk[v] > 0
       /\ f[v] # v => rk[v] < rk[f[v]]
       /\ R[v] = IF f[v] = v THEN v ELSE R[f[v]]

Class(f, R, r) == {v \in Budded(f) : R[v] = r}

(* A set of rank r has at least 2^(r-1) elements.                            *)
Large(f, rk, R) ==
  \A r \in Budded(f) : f[r] = r => LeastSize[rk[r]] <= Cardinality(Class(f, R, r))

(* The links lead from an item to its canonical element, which is a root, in *)
(* at most n steps, since the ranks grow on the way.                         *)
LEMMA RootIs ==
  ASSUME n \in Nat, NEW f, NEW rk, NEW R, Forest(f, rk, R), NEW v \in Budded(f)
  PROVE  /\ Root(f, v) = R[v] /\ R[v] \in Budded(f) /\ f[R[v]] = R[v]
         /\ v # R[v] => rk[v] < rk[R[v]]
         /\ \A x \in Path(f, v) : x \in Budded(f) /\ R[x] = R[v]
<1>. DEFINE P == Up(f, v)
<1>1. P[0] = v /\ \A k \in 0 .. n : k < n => P[k + 1] = f[P[k]]
  BY UpLinks
<1>2. Root(f, v) = P[n] /\ Path(f, v) = {P[k] : k \in 0 .. n}
  BY DEF Root, Path
<1>. HIDE DEF P
<1>3. \A x \in Budded(f) :
        /\ x \in Items /\ rk[x] \in 0 .. n /\ rk[x] > 0
        /\ f[x] \in Budded(f)
        /\ f[x] # x => rk[x] < rk[f[x]]
        /\ R[x] = IF f[x] = x THEN x ELSE R[f[x]]
  BY DEF Forest, Budded
<1>. DEFINE S == {k \in 0 .. n :
                   /\ P[k] \in Budded(f) /\ R[P[k]] = R[v]
                   /\ f[P[k]] = P[k] \/ rk[P[k]] >= k + 1
                   /\ P[k] # v => rk[v] < rk[P[k]]}
<1>4. 0 \in S
  <2>1. 0 \in 0 .. n
    OBVIOUS
  <2>2. rk[v] >= 0 + 1
    BY <1>3
  <2>. QED BY <1>1, <2>1, <2>2
<1>5. ASSUME NEW k \in Nat, k < n, k \in S
      PROVE  k + 1 \in S
  <2>1. k \in 0 .. n /\ k + 1 \in 0 .. n
    BY <1>5
  <2>2. /\ P[k] \in Budded(f) /\ R[P[k]] = R[v]
        /\ f[P[k]] = P[k] \/ rk[P[k]] >= k + 1
        /\ P[k] # v => rk[v] < rk[P[k]]
    BY <1>5
  <2>3. P[k + 1] = f[P[k]]
    BY <1>1, <1>5, <2>1
  <2>4. CASE f[P[k]] = P[k]
    BY <2>1, <2>2, <2>3, <2>4
  <2>5. CASE f[P[k]] # P[k]
    <3>1. /\ P[k + 1] \in Budded(f) /\ R[P[k + 1]] = R[v]
          /\ rk[P[k]] < rk[P[k + 1]] /\ rk[P[k]] >= k + 1
      BY <1>3, <2>2, <2>3, <2>5
    <3>2. rk[P[k]] \in Nat /\ rk[P[k + 1]] \in Nat /\ rk[v] \in Nat
      BY <1>3, <2>2, <3>1
    <3>3. rk[P[k + 1]] >= (k + 1) + 1
      BY <3>1, <3>2
    <3>4. rk[v] < rk[P[k + 1]]
      BY <2>2, <3>1, <3>2
    <3>. QED BY <2>1, <3>1, <3>3, <3>4
  <2>. QED BY <2>4, <2>5
<1>6. \A k \in 0 .. n : k \in S
  <2>. HIDE DEF S
  <2>. QED BY <1>4, <1>5, StepByStep
<1>7. \A k \in 0 .. n : P[k] \in Budded(f) /\ R[P[k]] = R[v]
  BY <1>6
<1>8. n \in 0 .. n
  OBVIOUS
<1>9. f[P[n]] = P[n]
  <2>1. P[n] \in Budded(f) /\ (f[P[n]] = P[n] \/ rk[P[n]] >= n + 1)
    BY <1>6, <1>8
  <2>2. rk[P[n]] \in 0 .. n
    BY <1>3, <2>1
  <2>. QED BY <2>1, <2>2
<1>10. R[v] = P[n]
  BY <1>3, <1>7, <1>8, <1>9
<1>11. P[n] # v => rk[v] < rk[P[n]]
  BY <1>6, <1>8
<1>. QED BY <1>2, <1>7, <1>8, <1>9, <1>10, <1>11

(* Path compression keeps the forest, its roots and the sets.                *)
LEMMA CompressKeeps ==
  ASSUME n \in Nat, NEW f, NEW rk, NEW R, Forest(f, rk, R), NEW v \in Budded(f), NEW meth
  PROVE  /\ Budded(Compress(f, v, meth)) = Budded(f)
         /\ Forest(Compress(f, v, meth), rk, R)
         /\ \A r \in Budded(f) : Compress(f, v, meth)[r] = r <=> f[r] = r
         /\ Large(f, rk, R) => Large(Compress(f, v, meth), rk, R)
<1>. DEFINE g == Compress(f, v, meth)
<1>1. f \in [Items -> 0 .. n] /\ Budded(f) \subseteq Items /\ v \in Items
  BY DEF Forest, Budded
<1>2. CASE meth # 1
  BY <1>2 DEF Compress
<1>3. CASE meth = 1
  <2>1. g = [x \in Items |-> IF x \in Path(f, v) THEN R[v] ELSE f[x]]
    BY <1>3, RootIs DEF Compress
  <2>2. /\ R[v] \in Budded(f) /\ f[R[v]] = R[v]
        /\ \A x \in Path(f, v) : x \in Budded(f) /\ R[x] = R[v]
    BY RootIs
  <2>. HIDE DEF g
  <2>3. \A x \in Items : g[x] = IF x \in Path(f, v) THEN R[v] ELSE f[x]
    BY <2>1
  <2>4. Budded(g) = Budded(f)
    <3>1. R[v] # n /\ \A x \in Path(f, v) : f[x] # n
      BY <2>2 DEF Budded
    <3>. QED BY <2>2, <2>3, <3>1 DEF Budded
  <2>5. g \in [Items -> 0 .. n]
    <3>1. R[v] \in 0 .. n
      BY <2>2 DEF Budded, Items
    <3>. QED BY <1>1, <2>1, <3>1
  <2>6. R[R[v]] = R[v]
    BY <2>2 DEF Forest
  <2>7. ASSUME NEW x \in Budded(f)
        PROVE  /\ g[x] \in Budded(f) /\ rk[x] > 0
               /\ g[x] # x => rk[x] < rk[g[x]]
               /\ R[x] = IF g[x] = x THEN x ELSE R[g[x]]
               /\ g[x] = x <=> f[x] = x
    <3>1. /\ f[x] \in Budded(f) /\ rk[x] > 0
          /\ f[x] # x => rk[x] < rk[f[x]]
          /\ R[x] = IF f[x] = x THEN x ELSE R[f[x]]
      BY DEF Forest
    <3>2. CASE x \in Path(f, v)
      <4>1. g[x] = R[v] /\ R[x] = R[v]
        BY <1>1, <2>2, <2>3, <3>2
      <4>2. x # R[x] => rk[x] < rk[R[x]]
        BY RootIs
      <4>. QED BY <2>2, <2>6, <3>1, <4>1, <4>2
    <3>3. CASE x \notin Path(f, v)
      <4>1. g[x] = f[x]
        BY <1>1, <2>3, <3>3
      <4>. QED BY <3>1, <4>1
    <3>. QED BY <3>2, <3>3
  <2>8. Forest(g, rk, R)
    BY <2>4, <2>5, <2>7 DEF Forest
  <2>9. \A r : Class(g, R, r) = Class(f, R, r)
    BY <2>4 DEF Class
  <2>10. Large(f, rk, R) => Large(g, rk, R)
    BY <2>4, <2>7, <2>9 DEF Large
  <2>11. \A r \in Budded(f) : g[r] = r <=> f[r] = r
    BY <2>7
  <2>. QED BY <2>4, <2>8, <2>10, <2>11 DEF g
<1>. QED BY <1>2, <1>3

(* The items are finitely many, and so are those of a set.                   *)
LEMMA ClassFinite ==
  ASSUME n \in Nat, NEW f, NEW R, NEW r
  PROVE  /\ IsFiniteSet(Class(f, R, r)) /\ Cardinality(Class(f, R, r)) \in Nat
         /\ IsFiniteSet(Items) /\ Cardinality(Items) = n
<1>1. IsFiniteSet(Items) /\ Cardinality(Items) = n
  <2>1. 0 \in Int /\ n - 1 \in Int /\ (n - 1) - 0 + 1 = n /\ (0 > n - 1 => n = 0)
    OBVIOUS
  <2>. QED BY <2>1, FS_Interval DEF Items
<1>2. Class(f, R, r) \in SUBSET Items
  BY DEF Class, Budded
<1>3. IsFiniteSet(Class(f, R, r))
  BY <1>1, <1>2, FS_Subset
<1>. QED BY <1>1, <1>3, FS_CardinalityType

(* The forest, the ranks and the sets after the root u has been linked to    *)
(* the root w.                                                               *)
Linked(f, u, w) == [f EXCEPT ![u] = w]
RankAfter(rk, u, w) == IF rk[u] = rk[w] THEN [rk EXCEPT ![w] = @ + 1] ELSE rk
Joined(f, R, u, w) == [x \in Budded(f) |-> IF R[x] = u THEN w ELSE R[x]]

(* Merge links the root of smaller rank to the other one, or raises the rank *)
(* of the new root: either way the ranks still grow and the sets are large.  *)
LEMMA LinkKeeps ==
  ASSUME n \in Nat, NEW f, NEW rk, NEW R, Forest(f, rk, R), Large(f, rk, R),
         NEW u \in Budded(f), NEW w \in Budded(f), u # w, f[u] = u, f[w] = w,
         rk[u] <= rk[w]
  PROVE  /\ Budded(Linked(f, u, w)) = Budded(f)
         /\ Forest(Linked(f, u, w), RankAfter(rk, u, w), Joined(f, R, u, w))
         /\ Large(Linked(f, u, w), RankAfter(rk, u, w), Joined(f, R, u, w))
<1>. DEFINE g == Linked(f, u, w)
            sk == RankAfter(rk, u, w)
            T == Joined(f, R, u, w)
<1>1. /\ f \in [Items -> 0 .. n] /\ rk \in [Items -> 0 .. n]
      /\ R \in [Budded(f) -> Budded(f)]
      /\ Budded(f) \subseteq Items /\ n \notin Items
  <2>1. /\ f \in [Items -> 0 .. n] /\ rk \in [Items -> 0 .. n]
        /\ R \in [Budded(f) -> Budded(f)]
    BY DEF Forest
  <2>2. Budded(f) \subseteq Items
    BY DEF Budded
  <2>3. n \notin Items
    BY DEF Items
  <2>. QED BY <2>1, <2>2, <2>3
<1>2. /\ \A x \in Items : g[x] = IF x = u THEN w ELSE f[x]
      /\ g \in [Items -> 0 .. n]
  <2>1. w \in 0 .. n
    BY DEF Budded, Items
  <2>. QED BY <1>1, <2>1 DEF Linked
<1>3. \A x \in Budded(f) : T[x] = IF R[x] = u THEN w ELSE R[x]
  BY DEF Joined
<1>4. \A x \in Budded(f) : rk[x] \in 1 .. n /\ rk[x] \in Nat
  BY <1>1 DEF Forest
<1>5. R[u] = u /\ R[w] = w
  BY DEF Forest
<1>. DEFINE cu == Class(f, R, u)
            cw == Class(f, R, w)
<1>6. Class(g, T, w) = cu \union cw
  <2>1. Budded(g) = Budded(f)
    BY <1>1, <1>2 DEF Budded
  <2>. QED BY <1>3, <2>1 DEF Class
<1>7. /\ Cardinality(cu) \in Nat /\ Cardinality(cw) \in Nat
      /\ Cardinality(cu \union cw) = Cardinality(cu) + Cardinality(cw)
      /\ Cardinality(cu \union cw) <= n
  <2>1. /\ IsFiniteSet(cu) /\ IsFiniteSet(cw) /\ cu \intersect cw = {}
        /\ Cardinality(cu) \in Nat /\ Cardinality(cw) \in Nat
        /\ IsFiniteSet(Items) /\ Cardinality(Items) = n
    <3>1. cu \intersect cw = {}
      BY DEF Class
    <3>. QED BY <3>1, ClassFinite
  <2>2. Cardinality(cu \union cw) = Cardinality(cu) + Cardinality(cw) - Cardinality(cu \intersect cw)
    BY <2>1, FS_Union
  <2>3. Cardinality(cu \intersect cw) = 0
    BY <2>1, FS_EmptySet
  <2>4. cu \union cw \in SUBSET Items
    BY DEF Class, Budded
  <2>5. Cardinality(cu \union cw) <= n
    BY <2>1, <2>4, FS_Subset
  <2>. HIDE DEF cu, cw
  <2>. QED BY <2>1, <2>2, <2>3, <2>5
<1>8. /\ LeastSize[rk[u]] \in Nat /\ LeastSize[rk[u]] >= rk[u] /\ LeastSize[rk[u]] <= Cardinality(cu)
      /\ LeastSize[rk[w]] \in Nat /\ LeastSize[rk[w]] >= rk[w] /\ LeastSize[rk[w]] <= Cardinality(cw)
  BY <1>4, SizeDoubles DEF Large
<1>. HIDE DEF g, sk, T, cu, cw
<1>9. rk[u] = rk[w] => rk[w] + 1 \in 1 .. n /\ LeastSize[rk[w] + 1] <= Cardinality(cu \union cw)
  <2>. SUFFICES ASSUME rk[u] = rk[w]
                PROVE  rk[w] + 1 \in 1 .. n /\ LeastSize[rk[w] + 1] <= Cardinality(cu \union cw)
    OBVIOUS
  <2>1. rk[w] \in Nat /\ rk[w] >= 1 /\ LeastSize[rk[w]] + LeastSize[rk[w]] <= Cardinality(cu \union cw)
    BY <1>4, <1>7, <1>8
  <2>2. rk[w] + 1 \in 1 .. n
    BY <1>7, <1>8, <2>1
  <2>3. LeastSize[rk[w] + 1] = 2 * LeastSize[(rk[w] + 1) - 1]
    <3>1. rk[w] + 1 # 1
      BY <2>1
    <3>. QED BY <2>2, <3>1, SizeDoubles
  <2>4. (rk[w] + 1) - 1 = rk[w] /\ 2 * LeastSize[rk[w]] = LeastSize[rk[w]] + LeastSize[rk[w]]
    BY <1>8, <2>1
  <2>. QED BY <2>1, <2>2, <2>3, <2>4
<1>10. /\ sk \in [Items -> 0 .. n]
       /\ \A x \in Items : x # w => sk[x] = rk[x]
       /\ sk[w] = IF rk[u] = rk[w] THEN rk[w] + 1 ELSE rk[w]
       /\ rk[u] < sk[w] /\ rk[w] <= sk[w]
  <2>1. rk[u] = rk[w] => rk[w] + 1 \in 0 .. n
    BY <1>9
  <2>2. /\ sk \in [Items -> 0 .. n]
        /\ \A x \in Items : x # w => sk[x] = rk[x]
        /\ sk[w] = IF rk[u] = rk[w] THEN rk[w] + 1 ELSE rk[w]
    BY <1>1, <2>1 DEF sk, RankAfter
  <2>3. rk[u] < sk[w] /\ rk[w] <= sk[w]
    BY <1>4, <2>2
  <2>. QED BY <2>2, <2>3
<1>11. Budded(g) = Budded(f)
  BY <1>1, <1>2 DEF Budded
<1>12. T \in [Budded(f) -> Budded(f)]
  BY <1>1 DEF T, Joined
<1>13. ASSUME NEW x \in Budded(f)
       PROVE  /\ g[x] \in Budded(f) /\ sk[x] > 0
              /\ g[x] # x => sk[x] < sk[g[x]]
              /\ T[x] = IF g[x] = x THEN x ELSE T[g[x]]
              /\ g[x] = x <=> f[x] = x /\ x # u
  <2>1. /\ x \in Items /\ f[x] \in Budded(f) /\ f[x] \in Items
        /\ f[x] # x => rk[x] < rk[f[x]]
        /\ R[x] = IF f[x] = x THEN x ELSE R[f[x]]
    BY <1>1 DEF Forest
  <2>2. sk[x] \in Nat /\ rk[x] <= sk[x] /\ sk[x] > 0
    BY <1>1, <1>4, <1>10, <2>1
  <2>3. CASE x = u
    <3>1. g[x] = w /\ sk[x] = rk[u] /\ T[x] = w /\ T[w] = w
      BY <1>1, <1>2, <1>3, <1>5, <1>10, <2>1, <2>3
    <3>. QED BY <1>10, <2>2, <2>3, <3>1
  <2>4. CASE x # u
    <3>1. g[x] = f[x] /\ T[x] = (IF R[x] = u THEN w ELSE R[x])
          /\ T[f[x]] = (IF R[f[x]] = u THEN w ELSE R[f[x]])
      BY <1>2, <1>3, <2>1, <2>4
    <3>2. f[x] # x => sk[x] < sk[f[x]]
      <4>. SUFFICES ASSUME f[x] # x PROVE sk[x] < sk[f[x]]
        OBVIOUS
      <4>1. x # w /\ sk[x] = rk[x] /\ rk[x] < rk[f[x]]
        BY <1>10, <2>1
      <4>2. sk[f[x]] \in Nat /\ rk[f[x]] <= sk[f[x]] /\ rk[f[x]] \in Nat /\ rk[x] \in Nat
        BY <1>1, <1>4, <1>10, <2>1
      <4>. QED BY <4>1, <4>2
    <3>3. T[x] = IF g[x] = x THEN x ELSE T[g[x]]
      BY <2>1, <2>4, <3>1
    <3>. QED BY <2>1, <2>2, <2>4, <3>1, <3>2, <3>3
  <2>. QED BY <2>3, <2>4
<1>14. Forest(g, sk, T)
  BY <1>2, <1>10, <1>11, <1>12, <1>13 DEF Forest
<1>15. ASSUME NEW r \in Budded(f), g[r] = r
       PROVE  LeastSize[sk[r]] <= Cardinality(Class(g, T, r))
  <2>1. CASE r = w
    <3>1. CASE rk[u] = rk[w]
      BY <1>6, <1>9, <1>10, <2>1, <3>1
    <3>2. CASE rk[u] # rk[w]
      <4>1. sk[w] = rk[w]
        BY <1>10, <3>2
      <4>2. LeastSize[rk[w]] <= Cardinality(cu \union cw)
        BY <1>7, <1>8
      <4>. QED BY <1>6, <2>1, <4>1, <4>2
    <3>. QED BY <3>1, <3>2
  <2>2. CASE r # w
    <3>1. r # u /\ f[r] = r /\ sk[r] = rk[r]
      BY <1>1, <1>10, <1>13, <1>15, <2>2
    <3>2. Class(g, T, r) = Class(f, R, r)
      BY <1>3, <1>11, <2>2, <3>1 DEF Class
    <3>. QED BY <3>1, <3>2 DEF Large
  <2>. QED BY <2>1, <2>2
<1>16. Large(g, sk, T)
  BY <1>11, <1>15 DEF Large
<1>. QED BY <1>11, <1>14, <1>16 DEF g, sk, T

-------------------------------------------------------------------------------
(* The invariant is inductive.                                               *)

SetsInv(R) == Forest(B, rank, R) /\ Large(B, rank, R)
SetsAfter(R) == Forest(B', rank', R) /\ Large(B', rank', R)

(* The canonical elements when no item has a set.                            *)
NoSets == [x \in {} |-> x]

LEMMA NoSetsInv ==
  ASSUME NEW f, NEW rk, f = [v \in Items |-> n], rk \in [Items -> 0 .. n], n \in Nat
  PROVE  Budded(f) = {} /\ Forest(f, rk, NoSets) /\ Large(f, rk, NoSets)
<1>1. Budded(f) = {}
  BY DEF Budded
<1>2. NoSets \in [{} -> {}]
  BY DEF NoSets
<1>3. f \in [Items -> 0 .. n]
  <2>1. n \in 0 .. n
    OBVIOUS
  <2>. QED BY <2>1
<1>. QED BY <1>1, <1>2, <1>3 DEF Forest, Large

(* Bud makes a set of rank 1 of a new item.                                  *)
LEMMA BudKeeps ==
  ASSUME n \in Nat, NEW R, SetsInv(R), NEW v \in Items, Bud(v)
  PROVE  LET T == [x \in Budded(B) \union {v} |-> IF x = v THEN v ELSE R[x]]
         IN  SetsAfter(T) /\ v \notin Budded(B)
<1>. DEFINE T == [x \in Budded(B) \union {v} |-> IF x = v THEN v ELSE R[x]]
<1>1. Forest(B, rank, R) /\ Large(B, rank, R)
  BY DEF SetsInv
<1>2. B[v] = n /\ B' = [B EXCEPT ![v] = v] /\ rank' = [rank EXCEPT ![v] = 1]
  BY DEF Bud, UNDEFINED
<1>3. /\ B \in [Items -> 0 .. n] /\ rank \in [Items -> 0 .. n]
      /\ R \in [Budded(B) -> Budded(B)]
      /\ Budded(B) \subseteq Items /\ v \notin Budded(B)
  BY <1>1, <1>2 DEF Forest, Budded
<1>4. v \in 0 .. n /\ v # n /\ 1 \in 0 .. n /\ 1 \in 1 .. n
  BY DEF Items
<1>5. /\ B' \in [Items -> 0 .. n] /\ rank' \in [Items -> 0 .. n]
      /\ B'[v] = v /\ rank'[v] = 1
      /\ \A x \in Items : x # v => B'[x] = B[x] /\ rank'[x] = rank[x]
  BY <1>2, <1>3, <1>4
<1>6. Budded(B') = Budded(B) \union {v}
  BY <1>3, <1>4, <1>5 DEF Budded
<1>7. /\ T[v] = v /\ \A x \in Budded(B) : T[x] = R[x] /\ x # v
      /\ T \in [Budded(B') -> Budded(B')]
  BY <1>3, <1>6
<1>. HIDE DEF T
<1>8. ASSUME NEW x \in Budded(B')
      PROVE  /\ B'[x] \in Budded(B') /\ rank'[x] > 0
             /\ B'[x] # x => rank'[x] < rank'[B'[x]]
             /\ T[x] = IF B'[x] = x THEN x ELSE T[B'[x]]
  <2>1. CASE x = v
    BY <1>5, <1>6, <1>7, <2>1
  <2>2. CASE x # v
    <3>1. x \in Budded(B) /\ x \in Items
      BY <1>3, <1>6, <2>2
    <3>2. /\ B[x] \in Budded(B) /\ rank[x] > 0
          /\ B[x] # x => rank[x] < rank[B[x]]
          /\ R[x] = IF B[x] = x THEN x ELSE R[B[x]]
      BY <1>1, <3>1 DEF Forest
    <3>3. B[x] # v /\ B[x] \in Items
      BY <1>3, <3>2
    <3>. QED BY <1>5, <1>6, <1>7, <2>2, <3>1, <3>2, <3>3
  <2>. QED BY <2>1, <2>2
<1>9. Forest(B', rank', T)
  BY <1>5, <1>7, <1>8 DEF Forest
<1>10. ASSUME NEW r \in Budded(B'), B'[r] = r
       PROVE  LeastSize[rank'[r]] <= Cardinality(Class(B', T, r))
  <2>1. CASE r = v
    <3>1. Class(B', T, v) = {v}
      BY <1>3, <1>6, <1>7 DEF Class
    <3>2. LeastSize[1] = 1
      BY <1>4, SizeDoubles
    <3>3. Cardinality({v}) = 1
      BY FS_Singleton
    <3>. QED BY <1>5, <2>1, <3>1, <3>2, <3>3
  <2>2. CASE r # v
    <3>1. r \in Budded(B) /\ B[r] = r /\ rank'[r] = rank[r]
      BY <1>3, <1>5, <1>6, <1>10, <2>2
    <3>2. Class(B', T, r) = Class(B, R, r)
      BY <1>6, <1>7, <2>2 DEF Class
    <3>. QED BY <1>1, <3>1, <3>2 DEF Large
  <2>. QED BY <2>1, <2>2
<1>11. Large(B', rank', T)
  BY <1>10 DEF Large
<1>. QED BY <1>3, <1>9, <1>11 DEF SetsAfter, T

(* Merge joins two sets under one of their canonical elements.               *)
LEMMA MergeKeeps ==
  ASSUME n \in Nat, NEW R, SetsInv(R), NEW u \in Budded(B), NEW v \in Budded(B),
         NEW meth, Merge(u, v, meth)
  PROVE  \E c \in {R[u], R[v]} :
           LET T == [x \in Budded(B) |-> IF R[x] \in {R[u], R[v]} THEN c ELSE R[x]]
           IN  SetsAfter(T)
<1>. DEFINE g == Compress(B, u, meth)
            f == Compress(g, v, meth)
            ru == R[u]
            rv == R[v]
            T(c) == [x \in Budded(B) |-> IF R[x] \in {ru, rv} THEN c ELSE R[x]]
<1>1. Forest(B, rank, R) /\ Large(B, rank, R)
  BY DEF SetsInv
<1>2. /\ Budded(g) = Budded(B) /\ Forest(g, rank, R) /\ Large(g, rank, R)
      /\ \A r \in Budded(B) : g[r] = r <=> B[r] = r
  BY <1>1, CompressKeeps
<1>. HIDE DEF g
<1>3. /\ Budded(f) = Budded(B) /\ Forest(f, rank, R) /\ Large(f, rank, R)
      /\ \A r \in Budded(B) : f[r] = r <=> B[r] = r
  <2>1. v \in Budded(g)
    BY <1>2
  <2>2. /\ Budded(f) = Budded(g) /\ Forest(f, rank, R) /\ (Large(g, rank, R) => Large(f, rank, R))
        /\ \A r \in Budded(g) : f[r] = r <=> g[r] = r
    BY <1>2, <2>1, CompressKeeps
  <2>. HIDE DEF f
  <2>. QED BY <1>2, <2>2
<1>4. Root(B, u) = ru /\ ru \in Budded(B) /\ B[ru] = ru
  BY <1>1, RootIs
<1>5. Root(g, v) = rv /\ rv \in Budded(B) /\ B[rv] = rv
  <2>1. v \in Budded(g)
    BY <1>2
  <2>2. Root(g, v) = rv
    BY <1>2, <2>1, RootIs
  <2>. QED BY <1>1, <2>2, RootIs
<1>6. Link(f, ru, rv)
  <2>1. {u, v} \subseteq Defined
    BY DEF Defined, Budded, UNDEFINED
  <2>. QED BY <1>4, <1>5, <2>1 DEF Merge, g
<1>. HIDE DEF f, ru, rv
<1>7. rank[ru] \in Nat /\ rank[rv] \in Nat /\ f \in [Items -> 0 .. n] /\ ru \in Items /\ rv \in Items
      /\ rank \in [Items -> 0 .. n]
  BY <1>3, <1>4, <1>5 DEF Forest, Budded
<1>8. f[ru] = ru /\ f[rv] = rv
  BY <1>3, <1>4, <1>5
<1>9. CASE ru = rv
  <2>1. B' = f /\ rank' = rank
    <3>1. ~(rank[ru] < rank[rv])
      BY <1>7, <1>9
    <3>2. B' = [f EXCEPT ![rv] = ru] /\ rank' = rank
      BY <1>6, <1>9, <3>1 DEF Link
    <3>3. [f EXCEPT ![rv] = ru] = f
      BY <1>7, <1>8, <1>9
    <3>. QED BY <3>2, <3>3
  <2>2. T(ru) = R
    <3>1. R = [x \in Budded(B) |-> R[x]]
      BY <1>1 DEF Forest
    <3>. QED BY <1>9, <3>1
  <2>3. SetsAfter(T(ru))
    BY <1>3, <2>1, <2>2 DEF SetsAfter
  <2>. QED BY <2>3 DEF ru, rv
<1>10. CASE ru # rv /\ rank[ru] < rank[rv]
  <2>1. B' = Linked(f, ru, rv) /\ rank' = RankAfter(rank, ru, rv)
    BY <1>6, <1>7, <1>10 DEF Link, Linked, RankAfter
  <2>2. /\ Forest(Linked(f, ru, rv), RankAfter(rank, ru, rv), Joined(f, R, ru, rv))
        /\ Large(Linked(f, ru, rv), RankAfter(rank, ru, rv), Joined(f, R, ru, rv))
    BY <1>3, <1>4, <1>5, <1>7, <1>8, <1>10, LinkKeeps
  <2>3. Joined(f, R, ru, rv) = T(rv)
    BY <1>3 DEF Joined
  <2>4. SetsAfter(T(rv))
    BY <2>1, <2>2, <2>3 DEF SetsAfter
  <2>. QED BY <2>4 DEF ru, rv
<1>11. CASE ru # rv /\ ~(rank[ru] < rank[rv])
  <2>1. B' = Linked(f, rv, ru) /\ rank' = RankAfter(rank, rv, ru)
    BY <1>6, <1>7, <1>11 DEF Link, Linked, RankAfter
  <2>2. rank[rv] <= rank[ru]
    BY <1>7, <1>11
  <2>3. /\ Forest(Linked(f, rv, ru), RankAfter(rank, rv, ru), Joined(f, R, rv, ru))
        /\ Large(Linked(f, rv, ru), RankAfter(rank, rv, ru), Joined(f, R, rv, ru))
    BY <1>3, <1>4, <1>5, <1>8, <1>11, <2>2, LinkKeeps
  <2>4. Joined(f, R, rv, ru) = T(ru)
    BY <1>3 DEF Joined
  <2>5. SetsAfter(T(ru))
    BY <2>1, <2>3, <2>4 DEF SetsAfter
  <2>. QED BY <2>5 DEF ru, rv
<1>. QED BY <1>9, <1>10, <1>11

-------------------------------------------------------------------------------
(* What a call does to the canonical elements, and what it returns.          *)

CallDone(R, T) ==
  LET D == Budded(B) IN
  \/ T = R /\ UNCHANGED ret
  \/ T = NoSets /\ ret' = Ok
  \/ \E v \in Items :
       \/ /\ v \notin D /\ ret' = Ok
          /\ T = [x \in D \union {v} |-> IF x = v THEN v ELSE R[x]]
       \/ v \notin D /\ ret' = <<"ERRange", n>> /\ T = R
       \/ v \in D /\ ret' = <<"item", R[v]>> /\ T = R
       \/ \E u \in Items :
            /\ u \in D /\ v \in D /\ ret' = Ok
            /\ \E c \in {R[u], R[v]} :
                 T = [x \in D |-> IF R[x] \in {R[u], R[v]} THEN c ELSE R[x]]

LEMMA SetsStep ==
  ASSUME n \in Nat, NEW R, SetsInv(R), [Next]_vars
  PROVE  \E T : SetsAfter(T) /\ CallDone(R, T)
<1>0. Defined = Budded(B) /\ Budded(B) \subseteq Items
  BY DEF Defined, Budded, UNDEFINED
<1>1. CASE UNCHANGED vars
  <2>1. SetsAfter(R)
    BY <1>1 DEF vars, SetsInv, SetsAfter
  <2>2. CallDone(R, R)
    BY <1>1 DEF vars, CallDone
  <2>. QED BY <2>1, <2>2
<1>2. CASE Clear
  <2>1. B' = [v \in Items |-> n] /\ rank' = rank /\ ret' = Ok /\ rank \in [Items -> 0 .. n]
    BY <1>2 DEF Clear, UNDEFINED, SetsInv, Forest
  <2>2. SetsAfter(NoSets)
    BY <2>1, NoSetsInv DEF SetsAfter
  <2>3. CallDone(R, NoSets)
    BY <2>1 DEF CallDone
  <2>. QED BY <2>2, <2>3
<1>3. ASSUME NEW v \in Items, Bud(v)
      PROVE  \E T : SetsAfter(T) /\ CallDone(R, T)
  <2>. DEFINE T == [x \in Budded(B) \union {v} |-> IF x = v THEN v ELSE R[x]]
  <2>1. SetsAfter(T) /\ v \notin Budded(B)
    BY <1>3, BudKeeps
  <2>2. CallDone(R, T)
    BY <1>3, <2>1 DEF CallDone, Bud
  <2>. HIDE DEF T
  <2>. QED BY <2>1, <2>2
<1>4. ASSUME NEW v \in Items, NEW meth \in methDSU, Find(v, meth)
      PROVE  \E T : SetsAfter(T) /\ CallDone(R, T)
  <2>1. CASE v \in Budded(B)
    <3>1. B' = Compress(B, v, meth) /\ ret' = <<"item", Root(B, v)>> /\ rank' = rank
      BY <1>0, <1>4, <2>1 DEF Find
    <3>2. SetsAfter(R)
      BY <2>1, <3>1, CompressKeeps DEF SetsInv, SetsAfter
    <3>3. Root(B, v) = R[v]
      BY <2>1, RootIs DEF SetsInv
    <3>4. CallDone(R, R)
      BY <2>1, <3>1, <3>3 DEF CallDone
    <3>. QED BY <3>2, <3>4
  <2>2. CASE v \notin Budded(B)
    <3>1. ret' = <<"ERRange", n>> /\ B' = B /\ rank' = rank
      BY <1>0, <1>4, <2>2 DEF Find
    <3>2. SetsAfter(R)
      BY <3>1 DEF SetsInv, SetsAfter
    <3>3. CallDone(R, R)
      BY <2>2, <3>1 DEF CallDone
    <3>. QED BY <3>2, <3>3
  <2>. QED BY <2>1, <2>2
<1>5. ASSUME NEW v \in Items, NEW meth \in methDSU, NEW u \in Items, Merge(u, v, meth)
      PROVE  \E T : SetsAfter(T) /\ CallDone(R, T)
  <2>1. CASE u \in Budded(B) /\ v \in Budded(B)
    <3>1. PICK c \in {R[u], R[v]} :
            SetsAfter([x \in Budded(B) |-> IF R[x] \in {R[u], R[v]} THEN c ELSE R[x]])
      BY <1>5, <2>1, MergeKeeps
    <3>. DEFINE T == [x \in Budded(B) |-> IF R[x] \in {R[u], R[v]} THEN c ELSE R[x]]
    <3>2. ret' = Ok
      BY <1>0, <1>5, <2>1 DEF Merge
    <3>3. CallDone(R, T)
      BY <2>1, <3>2 DEF CallDone
    <3>. QED BY <3>1, <3>3
  <2>2. CASE ~(u \in Budded(B) /\ v \in Budded(B))
    <3>1. ret' = <<"ERRange", n>> /\ B' = B /\ rank' = rank
      BY <1>0, <1>5, <2>2 DEF Merge
    <3>2. SetsAfter(R)
      BY <3>1 DEF SetsInv, SetsAfter
    <3>3. CallDone(R, R)
      BY <2>2, <3>1 DEF CallDone
    <3>. QED BY <3>2, <3>3
  <2>. QED BY <2>1, <2>2
<1>. QED BY <1>1, <1>2, <1>3, <1>4, <1>5 DEF Next

FamilyInv == \E R : SetsInv(R)

LEMMA SetsInit ==
  ASSUME n \in Nat, Init
  PROVE  SetsInv(NoSets)
<1>1. B = [v \in Items |-> n] /\ rank \in [Items -> 0 .. n]
  BY DEF Init, UNDEFINED
<1>. QED BY <1>1, NoSetsInv DEF SetsInv

LEMMA SetsInductive == n \in Nat => (Spec => []FamilyInv)
<1>. SUFFICES ASSUME n \in Nat PROVE Spec => []FamilyInv
  OBVIOUS
<1>1. Init => FamilyInv
  BY SetsInit DEF FamilyInv
<1>2. FamilyInv /\ [Next]_vars => FamilyInv'
  <2>. SUFFICES ASSUME FamilyInv, [Next]_vars PROVE FamilyInv'
    OBVIOUS
  <2>1. PICK R : SetsInv(R)
    BY DEF FamilyInv
  <2>2. PICK T : SetsAfter(T)
    BY <2>1, SetsStep
  <2>3. SetsInv(T)'
    BY <2>2 DEF SetsAfter, SetsInv
  <2>. QED BY <2>3 DEF FamilyInv
<1>. QED BY <1>1, <1>2, PTL DEF Spec

(* For any number of items, links lead to items that have a set, and ranks   *)
(* stay in range.                                                            *)
THEOREM SetsTyped == n \in Nat => (Spec => []TypeOK)
<1>. SUFFICES ASSUME n \in Nat PROVE Spec => []TypeOK
  OBVIOUS
<1>1. FamilyInv => TypeOK
  BY DEF FamilyInv, SetsInv, Forest, TypeOK, Budded, Defined, UNDEFINED
<1>. QED BY <1>1, SetsInductive, PTL

(* For any number of items, ranks grow along the links and a set of rank r   *)
(* has at least 2^(r-1) elements, so that no Find follows more than          *)
(* logarithmically many links, however Merge and Find alternate.             *)
THEOREM SetsBalanced == n \in Nat => (Spec => []RankBounds)
<1>. SUFFICES ASSUME n \in Nat PROVE Spec => []RankBounds
  OBVIOUS
<1>1. FamilyInv => RankBounds
  <2>. SUFFICES ASSUME FamilyInv PROVE RankBounds
    OBVIOUS
  <2>1. PICK R : Forest(B, rank, R) /\ Large(B, rank, R)
    BY DEF FamilyInv, SetsInv
  <2>2. Defined = Budded(B)
    BY DEF Defined, Budded, UNDEFINED
  <2>3. \A v \in Budded(B) : Root(B, v) = R[v]
    BY <2>1, RootIs
  <2>4. \A r : {v \in Defined : Root(B, v) = r} = Class(B, R, r)
    BY <2>2, <2>3 DEF Class
  <2>5. \A v \in Defined : B[v] # v => rank[v] < rank[B[v]]
    BY <2>1, <2>2 DEF Forest
  <2>6. \A r \in Defined :
          B[r] = r => LeastSize[rank[r]] <= Cardinality({v \in Defined : Root(B, v) = r})
    BY <2>1, <2>2, <2>4 DEF Large
  <2>. QED BY <2>5, <2>6 DEF RankBounds
<1>. QED BY <1>1, SetsInductive, PTL

(* The canonical elements that Find returns are R.                           *)
LEMMA CanonIs ==
  ASSUME n \in Nat, NEW f, NEW rk, NEW R, Forest(f, rk, R)
  PROVE  [v \in Budded(f) |-> Root(f, v)] = R
<1>1. \A v \in Budded(f) : Root(f, v) = R[v]
  BY RootIs
<1>2. R = [v \in Budded(f) |-> R[v]]
  BY DEF Forest
<1>. QED BY <1>1, <1>2

(* For any number of items, the forest implements a family of disjoint sets: *)
(* Find names a set by one of its elements, the same one until the set is    *)
(* merged, and Merge joins exactly two sets.                                 *)
THEOREM SetsImplemented == n \in Nat => (Spec => Family!Spec)
<1>. SUFFICES ASSUME n \in Nat PROVE Spec => Family!Spec
  OBVIOUS
<1>. DEFINE canon == [v \in Defined |-> Root(B, v)]
<1>0. NoSets = <<>>
  BY DEF NoSets
<1>1. Init => Family!Init
  <2>. SUFFICES ASSUME Init PROVE Family!Init
    OBVIOUS
  <2>1. Forest(B, rank, NoSets)
    BY SetsInit DEF SetsInv
  <2>2. Defined = Budded(B)
    BY DEF Defined, Budded, UNDEFINED
  <2>3. canon = NoSets
    BY <2>1, <2>2, CanonIs
  <2>. QED BY <1>0, <2>3 DEF Init, Ok, Family!Init, Family!Ok
<1>2. FamilyInv /\ [Next]_vars => [Family!Next]_<<canon, ret>>
  <2>. SUFFICES ASSUME FamilyInv, [Next]_vars PROVE [Family!Next]_<<canon, ret>>
    OBVIOUS
  <2>1. PICK R : SetsInv(R)
    BY DEF FamilyInv
  <2>2. PICK T : SetsAfter(T) /\ CallDone(R, T)
    BY <2>1, SetsStep
  <2>3. canon = R /\ DOMAIN R = Budded(B)
    <3>1. Defined = Budded(B)
      BY DEF Defined, Budded, UNDEFINED
    <3>. QED BY <2>1, <3>1, CanonIs DEF SetsInv, Forest
  <2>4. canon' = T
    <3>1. Defined' = Budded(B')
      BY DEF Defined, Budded, UNDEFINED
    <3>2. [v \in Budded(B') |-> Root(B', v)] = T
      BY <2>2, CanonIs DEF SetsAfter
    <3>3. canon' = [v \in Defined' |-> Root(B', v)]
      BY DEF Root, Up
    <3>. QED BY <3>1, <3>2, <3>3
  <2>. HIDE DEF canon
  <2>. DEFINE D == Budded(B)
  <2>5. CASE T = R /\ UNCHANGED ret
    BY <2>3, <2>4, <2>5
  <2>6. CASE T = NoSets /\ ret' = Ok
    BY <1>0, <2>4, <2>6 DEF Family!Next, Family!Clear, Family!Ok, Ok, canon
  <2>7. ASSUME NEW v \in Items, v \notin D, ret' = Ok,
               T = [x \in D \union {v} |-> IF x = v THEN v ELSE R[x]]
        PROVE  Family!Bud(v)
    BY <2>3, <2>4, <2>7 DEF Family!Bud, Family!Elements, Family!Ok, Ok, canon
  <2>8. ASSUME NEW v \in Items, v \notin D, ret' = <<"ERRange", n>>, T = R
        PROVE  Family!NoElement(v)
    BY <2>3, <2>4, <2>8 DEF Family!NoElement, Family!Elements, canon
  <2>9. ASSUME NEW v \in Items, v \in D, ret' = <<"item", R[v]>>, T = R
        PROVE  Family!Find(v)
    BY <2>3, <2>4, <2>9 DEF Family!Find, Family!Elements, canon
  <2>10. ASSUME NEW v \in Items, NEW u \in Items, u \in D, v \in D, ret' = Ok,
                NEW c \in {R[u], R[v]},
                T = [x \in D |-> IF R[x] \in {R[u], R[v]} THEN c ELSE R[x]]
         PROVE  Family!Merge(u, v)
    BY <2>3, <2>4, <2>10 DEF Family!Merge, Family!Elements, Family!Ok, Ok, canon
  <2>. QED BY <2>2, <2>5, <2>6, <2>7, <2>8, <2>9, <2>10 DEF CallDone, Family!Next
<1>3. Spec => []FamilyInv
  BY SetsInductive
<1>. QED BY <1>1, <1>2, <1>3, PTL DEF Spec, Family!Spec
===============================================================================
