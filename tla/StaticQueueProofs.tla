-------------------------- MODULE StaticQueueProofs ---------------------------
(****************************************************************************)
(* The queues of a family keep to themselves, for any number of items and    *)
(* handles: membership and length are exact, and each queue behaves like a   *)
(* list of its own although they share one array of links.                   *)
(****************************************************************************)
EXTENDS StaticQueue, SequenceTheorems, FiniteSetTheorems, NaturalsInduction, WellFoundedInduction, TLAPS

(* A family of queues with its constants as the constructors leave them: the *)
(* master is a queue, and NoHandle names none.                               *)
IsFamily == n \in Nat /\ Master \in Queues /\ NoHandle \notin Queues

-------------------------------------------------------------------------------
(* Lists and links.                                                          *)

(* The links lead from i through the items of L, and the last one links to   *)
(* itself.                                                                   *)
Chain(links, i, L) ==
  /\ L \in Seq(Items)
  /\ \A j, k \in 1 .. Len(L) : L[j] = L[k] => j = k
  /\ i = IF L = <<>> THEN n ELSE L[1]
  /\ \A k \in 1 .. Len(L) : links[L[k]] = IF k = Len(L) THEN L[k] ELSE L[k + 1]

(* A set of numbers has a least one.                                         *)
LEMMA LeastNumber ==
  ASSUME NEW S \in SUBSET Nat, S # {}
  PROVE  \E x \in S : \A y \in S : x <= y
<1>1. PICK x \in S : \A y \in S : ~(<<y, x>> \in OpToRel(<, Nat))
  BY NatLessThanWellFounded, WFMin
<1>2. \A y \in S : ~(y < x)
  BY <1>1 DEF OpToRel
<1>. QED BY <1>2

(* A list without repetitions has at most n items.                           *)
LEMMA ShortList ==
  ASSUME n \in Nat, NEW L \in Seq(Items),
         \A j, k \in 1 .. Len(L) : L[j] = L[k] => j = k
  PROVE  Len(L) <= n
<1>1. Len(L) \in Nat /\ L \in [1 .. Len(L) -> Items]
  OBVIOUS
<1>2. L \in Injection(1 .. Len(L), Items)
  BY <1>1 DEF Injection, IsInjective
<1>3. IsFiniteSet(Items) /\ Cardinality(Items) = n
  <2>1. 0 \in Int /\ n - 1 \in Int /\ (n - 1) - 0 + 1 = n /\ (0 > n - 1 => n = 0)
    OBVIOUS
  <2>. QED BY <2>1, FS_Interval DEF Items
<1>4. Cardinality(1 .. Len(L)) = Len(L)
  <2>1. 1 \in Int /\ Len(L) \in Int /\ Len(L) - 1 + 1 = Len(L) /\ (1 > Len(L) => Len(L) = 0)
    BY <1>1
  <2>. QED BY <2>1, FS_Interval
<1>5. Cardinality(1 .. Len(L)) <= Cardinality(Items)
  BY <1>2, <1>3, FS_Injection
<1>. QED BY <1>3, <1>4, <1>5

(* Induction up to a bound.                                                  *)
LEMMA CountUp ==
  ASSUME NEW m \in Nat, NEW S, 0 \in S,
         \A k \in Nat : k < m /\ k \in S => k + 1 \in S
  PROVE  \A k \in 0 .. m : k \in S
<1>. SUFFICES ASSUME NEW k \in 0 .. m, k \notin S PROVE FALSE
  OBVIOUS
<1>. DEFINE T == {j \in 0 .. m : j \notin S}
<1>1. T \in SUBSET Nat /\ T # {}
  OBVIOUS
<1>2. PICK b \in T : \A j \in T : b <= j
  <2>. HIDE DEF T
  <2>. QED BY <1>1, LeastNumber
<1>3. b \in Nat /\ b <= m /\ b \notin S /\ b # 0
  BY <1>2
<1>4. b - 1 \in Nat /\ b - 1 < m /\ b - 1 \in 0 .. m /\ ~(b <= b - 1) /\ (b - 1) + 1 = b
  BY <1>3
<1>5. b - 1 \in S
  BY <1>2, <1>4
<1>. QED BY <1>3, <1>4, <1>5

(* What ItemsFrom computes: the items from x on, as far as k items go.       *)
Row(links, k, row) ==
  [x \in 0 .. n |-> IF k = 0 \/ x = n THEN <<>>
                    ELSE IF links[x] = x THEN <<x>>
                    ELSE <<x>> \o row[links[x]]]
Rows(links, m, f) == f = [k \in 0 .. m |-> Row(links, k, f[k - 1])]

LEMMA RowsExist ==
  ASSUME NEW links, NEW m \in Nat
  PROVE  \E f : Rows(links, m, f)
<1>. DEFINE S == {k \in Nat : \E f : Rows(links, k, f)}
<1>0. \A row1, row2 : Row(links, 0, row1) = Row(links, 0, row2)
  BY DEF Row
<1>1. 0 \in S
  <2>. DEFINE f == [j \in 0 .. 0 |-> Row(links, 0, 0)]
  <2>1. ASSUME NEW j \in 0 .. 0 PROVE f[j] = Row(links, j, f[j - 1])
    <3>1. j = 0
      OBVIOUS
    <3>2. f[j] = Row(links, 0, 0)
      OBVIOUS
    <3>3. Row(links, 0, 0) = Row(links, 0, f[j - 1])
      BY <1>0
    <3>. QED BY <3>1, <3>2, <3>3
  <2>2. f = [j \in 0 .. 0 |-> f[j]]
    OBVIOUS
  <2>. HIDE DEF f
  <2>3. Rows(links, 0, f)
    BY <2>1, <2>2 DEF Rows
  <2>. QED BY <2>3
<1>2. ASSUME NEW k \in Nat, k \in S
      PROVE  k + 1 \in S
  <2>1. PICK g : Rows(links, k, g)
    BY <1>2
  <2>. DEFINE h == [j \in 0 .. k + 1 |-> IF j = k + 1 THEN Row(links, k + 1, g[k]) ELSE g[j]]
  <2>2. ASSUME NEW j \in 0 .. k + 1
        PROVE  h[j] = Row(links, j, h[j - 1])
    <3>1. CASE j = k + 1
      <4>1. h[j] = Row(links, k + 1, g[k]) /\ j - 1 = k /\ k \in 0 .. k + 1 /\ k # k + 1
        BY <3>1
      <4>2. h[k] = g[k]
        BY <4>1
      <4>. QED BY <3>1, <4>1, <4>2
    <3>2. CASE j # k + 1
      <4>1. j \in 0 .. k /\ h[j] = g[j]
        BY <3>2
      <4>2. g[j] = Row(links, j, g[j - 1])
        BY <2>1, <4>1 DEF Rows
      <4>3. CASE j = 0
        <5>1. Row(links, 0, g[j - 1]) = Row(links, 0, h[j - 1])
          BY <1>0
        <5>. QED BY <4>1, <4>2, <4>3, <5>1
      <4>4. CASE j # 0
        <5>1. j - 1 \in 0 .. k + 1 /\ j - 1 # k + 1
          BY <4>1, <4>4
        <5>2. h[j - 1] = g[j - 1]
          BY <5>1
        <5>. QED BY <4>1, <4>2, <5>2
      <4>. QED BY <4>3, <4>4
    <3>. QED BY <3>1, <3>2
  <2>3. h = [j \in 0 .. k + 1 |-> h[j]]
    OBVIOUS
  <2>. HIDE DEF h
  <2>4. Rows(links, k + 1, h)
    BY <2>2, <2>3 DEF Rows
  <2>. QED BY <2>4
<1>. HIDE DEF S
<1>3. \A k \in 0 .. m : k \in S
  BY <1>1, <1>2, CountUp
<1>4. m \in S
  BY <1>3
<1>. QED BY <1>4 DEF S

(* The items that First and Successor find are those of the list.            *)
LEMMA ChainItems ==
  ASSUME n \in Nat, NEW links, NEW i, NEW L, Chain(links, i, L)
  PROVE  ItemsFrom(links, i) = L
<1>. DEFINE f == CHOOSE h : Rows(links, n, h)
            l == Len(L)
            Rest(j) == SubSeq(L, j, l)
<1>1. L \in Seq(Items) /\ l \in Nat /\ l <= n
  BY ShortList DEF Chain
<1>2. Rows(links, n, f)
  BY RowsExist
<1>3. ItemsFrom(links, i) = f[n][i]
  BY DEF ItemsFrom, Rows, Row
<1>. HIDE DEF f
<1>4. ASSUME NEW k \in 0 .. n, NEW x \in 0 .. n
      PROVE  f[k][x] = IF k = 0 \/ x = n THEN <<>>
                       ELSE IF links[x] = x THEN <<x>>
                       ELSE <<x>> \o f[k - 1][links[x]]
  <2>1. f[k] = Row(links, k, f[k - 1])
    BY <1>2 DEF Rows
  <2>. QED BY <2>1 DEF Row
<1>5. CASE L = <<>>
  <2>1. i = n /\ n \in 0 .. n
    BY <1>5 DEF Chain
  <2>. QED BY <1>3, <1>4, <1>5, <2>1
<1>6. CASE L # <<>>
  <2>1. i = L[1] /\ l > 0
    BY <1>1, <1>6 DEF Chain
  <2>2. ASSUME NEW j \in 1 .. l
        PROVE  L[j] \in 0 .. n /\ L[j] # n
    BY <1>1, <2>2 DEF Items
  <2>. DEFINE S == {d \in 0 .. l - 1 : \A k \in 0 .. n : k > d => f[k][L[l - d]] = Rest(l - d)}
  <2>3. 0 \in S
    <3>1. l \in 1 .. l /\ l - 0 = l
      BY <1>1, <2>1
    <3>2. links[L[l]] = L[l]
      BY <3>1 DEF Chain
    <3>3. Rest(l) = <<L[l]>>
      <4>1. Rest(l) = [m \in 1 .. 1 |-> L[l]]
        BY <1>1, <3>1
      <4>2. <<L[l]>> = [m \in 1 .. 1 |-> L[l]]
        OBVIOUS
      <4>. QED BY <4>1, <4>2
    <3>4. ASSUME NEW k \in 0 .. n, k > 0 PROVE f[k][L[l]] = Rest(l)
      <4>1. k # 0
        BY <3>4
      <4>. QED BY <1>4, <2>2, <3>1, <3>2, <3>3, <4>1
    <3>. QED BY <1>1, <2>1, <3>1, <3>4
  <2>4. ASSUME NEW d \in Nat, d < l - 1, d \in S
        PROVE  d + 1 \in S
    <3>. DEFINE j == l - (d + 1)
    <3>1. j \in 1 .. l /\ j # l /\ j + 1 \in 1 .. l /\ l - d = j + 1 /\ d + 1 \in 0 .. l - 1 /\ d \in 0 .. l - 1
      BY <1>1, <2>4
    <3>. HIDE DEF j
    <3>2. links[L[j]] = L[j + 1] /\ L[j + 1] # L[j]
      BY <1>1, <3>1 DEF Chain
    <3>3. Rest(j) = <<L[j]>> \o Rest(j + 1)
      <4>1. L[j] \in Items /\ \A m \in 1 .. l : L[m] \in Items
        BY <1>1, <3>1
      <4>2. /\ Rest(j + 1) \in Seq(Items) /\ Len(Rest(j + 1)) = l - j
            /\ \A m \in 1 .. l - j : Rest(j + 1)[m] = L[j + m]
        BY <1>1, <3>1
      <4>3. Rest(j) = [m \in 1 .. l - j + 1 |-> L[j + m - 1]]
        BY <1>1, <3>1
      <4>4. <<L[j]>> \in Seq(Items) /\ Len(<<L[j]>>) = 1 /\ <<L[j]>>[1] = L[j]
        BY <4>1
      <4>5. <<L[j]>> \o Rest(j + 1)
              = [m \in 1 .. l - j + 1 |-> IF m = 1 THEN L[j] ELSE Rest(j + 1)[m - 1]]
        <5>. DEFINE a == <<L[j]>>
                    u == Rest(j + 1)
        <5>1. a \in Seq(Items) /\ Len(a) = 1 /\ a[1] = L[j] /\ u \in Seq(Items) /\ Len(u) = l - j
          BY <4>2, <4>4
        <5>. HIDE DEF a, u
        <5>. DEFINE c == a \o u
        <5>6. c \in Seq(Items) /\ Len(c) = Len(a) + Len(u)
          BY <5>1, ConcatProperties
        <5>7. c = [m \in 1 .. Len(a) + Len(u) |-> c[m]]
          BY <5>6, LenProperties
        <5>8. \A m \in 1 .. Len(a) + Len(u) : c[m] = IF m <= Len(a) THEN a[m] ELSE u[m - Len(a)]
          BY <5>1, ConcatProperties
        <5>2. c = [m \in 1 .. Len(a) + Len(u) |-> IF m <= Len(a) THEN a[m] ELSE u[m - Len(a)]]
          <6>. HIDE DEF c
          <6>. QED BY <5>7, <5>8
        <5>3. Len(a) + Len(u) = l - j + 1
          BY <1>1, <3>1, <5>1
        <5>4. \A m \in 1 .. l - j + 1 :
                (IF m <= Len(a) THEN a[m] ELSE u[m - Len(a)]) = IF m = 1 THEN L[j] ELSE u[m - 1]
          BY <1>1, <3>1, <5>1
        <5>5. a \o u = [m \in 1 .. l - j + 1 |-> IF m = 1 THEN L[j] ELSE u[m - 1]]
          BY <5>2, <5>3, <5>4
        <5>. QED BY <5>5 DEF a, u
      <4>6. ASSUME NEW m \in 1 .. l - j + 1
            PROVE  L[j + m - 1] = IF m = 1 THEN L[j] ELSE Rest(j + 1)[m - 1]
        <5>1. CASE m = 1
          <6>1. j + m - 1 = j
            BY <1>1, <3>1, <5>1
          <6>. QED BY <5>1, <6>1
        <5>2. CASE m # 1
          <6>1. m - 1 \in 1 .. l - j /\ j + (m - 1) = j + m - 1
            BY <1>1, <3>1, <5>2
          <6>. QED BY <4>2, <5>2, <6>1
        <5>. QED BY <5>1, <5>2
      <4>. QED BY <4>3, <4>5, <4>6
    <3>4. ASSUME NEW k \in 0 .. n, k > d + 1 PROVE f[k][L[j]] = Rest(j)
      <4>1. k # 0 /\ k - 1 \in 0 .. n /\ k - 1 > d
        BY <2>4, <3>4
      <4>2. f[k - 1][L[j + 1]] = Rest(j + 1)
        BY <2>4, <3>1, <4>1
      <4>3. L[j] \in 0 .. n /\ L[j] # n
        BY <2>2, <3>1
      <4>4. f[k][L[j]] = <<L[j]>> \o f[k - 1][links[L[j]]]
        BY <1>4, <3>2, <4>1, <4>3
      <4>. QED BY <3>2, <3>3, <4>2, <4>4
    <3>5. \A k \in 0 .. n : k > d + 1 => f[k][L[l - (d + 1)]] = Rest(l - (d + 1))
      BY <3>4 DEF j
    <3>. QED BY <3>1, <3>5
  <2>5. \A d \in 0 .. l - 1 : d \in S
    <3>. HIDE DEF S
    <3>1. l - 1 \in Nat
      BY <1>1, <2>1
    <3>. QED BY <2>3, <2>4, <3>1, CountUp
  <2>6. l - 1 \in S /\ l - (l - 1) = 1 /\ n \in 0 .. n /\ n > l - 1
    <3>1. l - 1 \in 0 .. l - 1 /\ l - (l - 1) = 1 /\ n \in 0 .. n /\ n > l - 1
      BY <1>1, <2>1
    <3>. HIDE DEF S
    <3>. QED BY <2>5, <3>1
  <2>7. f[n][L[1]] = Rest(1)
    BY <2>6
  <2>8. Rest(1) = L
    BY <1>1
  <2>. QED BY <1>3, <2>1, <2>7, <2>8
<1>. QED BY <1>5, <1>6

-------------------------------------------------------------------------------
(* The inductive invariant: there are lists L that the links spell out.      *)

ArraysTyped ==
  /\ next \in [Items -> 0 .. n]
  /\ set = <<>> \/ set \in [Items -> Queues \union {NoHandle}]
  /\ first \in [Queues -> 0 .. n] /\ last \in [Queues -> 0 .. n]
  /\ length \in [Queues -> Nat]
  /\ open \subseteq Queues /\ Master \in open

(* Every queue is a chain of links with its end and its length; a queue that *)
(* has been destroyed is empty.                                              *)
ListsInv(L) ==
  /\ L \in [Queues -> Seq(Items)]
  /\ \A q \in Queues :
       /\ Chain(next, first[q], L[q])
       /\ L[q] # <<>> => last[q] = L[q][Len(L[q])]
       /\ length[q] = Len(L[q])
       /\ q \notin open => L[q] = <<>>

(* A link that is not null belongs to an item of exactly one queue, ...      *)
OwnerInv(L) ==
  /\ \A p, q \in Queues : p # q =>
       \A j \in 1 .. Len(L[p]), k \in 1 .. Len(L[q]) : L[p][j] # L[q][k]
  /\ \A i \in Items : next[i] # n => \E q \in Queues : \E k \in 1 .. Len(L[q]) : L[q][k] = i

(* ... which set names, once there is more than one queue.                   *)
SetInv(L) ==
  /\ set # <<>> => \A q \in Queues : \A k \in 1 .. Len(L[q]) : set[L[q][k]] = q
  /\ set = <<>> => n = 0 \/ open = {Master}

QueueInv(L) == ArraysTyped /\ ListsInv(L) /\ OwnerInv(L) /\ SetInv(L)

(* The lists are those that the members are asked for, and they are short.   *)
LEMMA ListsKnown ==
  ASSUME IsFamily, NEW L, QueueInv(L)
  PROVE  /\ [q \in Queues |-> ListOf(q)] = L
         /\ \A q \in Queues : ListOf(q) = L[q] /\ Len(L[q]) <= n
<1>1. ASSUME NEW q \in Queues
      PROVE  ListOf(q) = L[q] /\ Len(L[q]) <= n
  <2>1. Chain(next, first[q], L[q]) /\ n \in Nat
    BY DEF QueueInv, ListsInv, IsFamily
  <2>2. ListOf(q) = L[q]
    BY <2>1, ChainItems DEF ListOf
  <2>3. Len(L[q]) <= n
    BY <2>1, ShortList DEF Chain
  <2>. QED BY <2>2, <2>3
<1>2. L = [q \in Queues |-> L[q]]
  BY DEF QueueInv, ListsInv
<1>. QED BY <1>1, <1>2

(* An item has a link exactly if it is on a queue.                           *)
LEMMA LinkedItems ==
  ASSUME IsFamily, NEW L, QueueInv(L), NEW i \in Items
  PROVE  next[i] # n <=> \E q \in Queues : \E k \in 1 .. Len(L[q]) : L[q][k] = i
<1>1. ASSUME NEW q \in Queues, NEW k \in 1 .. Len(L[q]), L[q][k] = i
      PROVE  next[i] # n
  <2>1. Chain(next, first[q], L[q]) /\ n \in Nat
    BY DEF QueueInv, ListsInv, IsFamily
  <2>2. L[q] \in Seq(Items) /\ next[L[q][k]] = IF k = Len(L[q]) THEN L[q][k] ELSE L[q][k + 1]
    BY <2>1 DEF Chain
  <2>3. next[L[q][k]] \in Items
    <3>1. k = Len(L[q]) \/ k + 1 \in 1 .. Len(L[q])
      BY <2>2
    <3>. QED BY <2>2, <3>1
  <2>. QED BY <1>1, <2>1, <2>3 DEF Items
<1>. QED BY <1>1 DEF QueueInv, OwnerInv

(* TypeOK and MembersExact follow.                                           *)
LEMMA InvGivesMembers ==
  ASSUME IsFamily, NEW L, QueueInv(L)
  PROVE  TypeOK /\ MembersExact
<1>1. n \in Nat
  BY DEF IsFamily
<1>2. TypeOK
  <2>1. length \in [Queues -> 0 .. n]
    <3>1. \A q \in Queues : length[q] = Len(L[q]) /\ Len(L[q]) <= n /\ length[q] \in Nat
      BY ListsKnown DEF QueueInv, ListsInv, ArraysTyped
    <3>2. \A q \in Queues : length[q] \in 0 .. n
      BY <1>1, <3>1
    <3>. QED BY <3>2 DEF QueueInv, ArraysTyped
  <2>. QED BY <2>1 DEF QueueInv, ArraysTyped, TypeOK
<1>3. ASSUME NEW q \in open, NEW i \in Items
      PROVE  IsMember(q, i) <=> \E k \in 1 .. Len(L[q]) : L[q][k] = i
  <2>1. q \in Queues
    BY DEF QueueInv, ArraysTyped
  <2>2. next[i] # n <=> \E p \in Queues : \E k \in 1 .. Len(L[p]) : L[p][k] = i
    BY LinkedItems
  <2>3. CASE next[i] = n
    BY <2>1, <2>2, <2>3 DEF IsMember
  <2>4. CASE next[i] # n
    <3>1. PICK p \in Queues : \E k \in 1 .. Len(L[p]) : L[p][k] = i
      BY <2>2, <2>4
    <3>2. PICK k \in 1 .. Len(L[p]) : L[p][k] = i
      BY <3>1
    <3>3. p # q => ~ \E j \in 1 .. Len(L[q]) : L[q][j] = i
      BY <2>1, <3>2 DEF QueueInv, OwnerInv
    <3>4. CASE set = <<>>
      <4>1. p \in open
        <5>1. p \notin open => L[p] = <<>>
          BY DEF QueueInv, ListsInv
        <5>. QED BY <3>2, <5>1
      <4>2. n # 0
        BY <1>1 DEF Items
      <4>3. p = q
        BY <3>4, <4>1, <4>2 DEF QueueInv, SetInv
      <4>. QED BY <2>4, <3>2, <3>4, <4>3 DEF IsMember
    <3>5. CASE set # <<>>
      <4>1. set[i] = p
        BY <3>2, <3>5 DEF QueueInv, SetInv
      <4>. QED BY <2>4, <3>2, <3>3, <3>5, <4>1 DEF IsMember
    <3>. QED BY <3>4, <3>5
  <2>. QED BY <2>3, <2>4
<1>4. ASSUME NEW q \in open
      PROVE  q \in Queues /\ ListOf(q) = L[q] /\ length[q] = Len(L[q])
  BY ListsKnown DEF QueueInv, ArraysTyped, ListsInv
<1>5. MembersExact
  BY <1>3, <1>4 DEF MembersExact
<1>. QED BY <1>2, <1>5

-------------------------------------------------------------------------------
(* What the operations do to a chain.                                        *)

LEMMA AppendItems ==
  ASSUME NEW L \in Seq(Items), NEW w \in Items
  PROVE  /\ Append(L, w) \in Seq(Items) /\ Append(L, w) # <<>>
         /\ Len(L) \in Nat /\ Len(Append(L, w)) = Len(L) + 1
         /\ \A k \in 1 .. Len(L) : Append(L, w)[k] = L[k]
         /\ Append(L, w)[Len(L) + 1] = w
OBVIOUS

LEMMA TailItems ==
  ASSUME NEW L \in Seq(Items), L # <<>>
  PROVE  /\ Tail(L) \in Seq(Items)
         /\ Len(L) \in Nat \ {0} /\ Len(Tail(L)) = Len(L) - 1
         /\ \A k \in 1 .. Len(L) - 1 : Tail(L)[k] = L[k + 1]
         /\ Tail(L) = <<>> <=> Len(L) = 1
<1>1. Len(L) \in Nat \ {0}
  OBVIOUS
<1>2. Tail(L) \in Seq(Items) /\ Len(Tail(L)) = Len(L) - 1
  OBVIOUS
<1>3. \A k \in 1 .. Len(L) - 1 : Tail(L)[k] = L[k + 1]
  OBVIOUS
<1>4. \A s \in Seq(Items) : s = <<>> <=> Len(s) = 0
  OBVIOUS
<1>5. Tail(L) = <<>> <=> Len(Tail(L)) = 0
  BY <1>2, <1>4
<1>. QED BY <1>1, <1>2, <1>3, <1>5

(* A chain does not change with links of other items.                        *)
LEMMA ChainKept ==
  ASSUME NEW links, NEW links2, NEW i, NEW L, Chain(links, i, L),
         \A k \in 1 .. Len(L) : links2[L[k]] = links[L[k]]
  PROVE  Chain(links2, i, L)
BY DEF Chain

(* Insert links the last item to the new one, which links to itself.         *)
LEMMA ChainAppend ==
  ASSUME n \in Nat, NEW links, NEW links2, NEW i, NEW L, NEW w \in Items,
         Chain(links, i, L), \A k \in 1 .. Len(L) : L[k] # w,
         links2[w] = w,
         \A k \in 1 .. Len(L) : links2[L[k]] = IF k = Len(L) THEN w ELSE links[L[k]]
  PROVE  Chain(links2, IF L = <<>> THEN w ELSE i, Append(L, w))
<1>. DEFINE M == Append(L, w)
<1>1. L \in Seq(Items) /\ Len(L) \in Nat
  BY DEF Chain
<1>2. /\ M \in Seq(Items) /\ M # <<>> /\ Len(M) = Len(L) + 1
      /\ \A k \in 1 .. Len(L) : M[k] = L[k]
      /\ M[Len(L) + 1] = w
  BY <1>1, AppendItems
<1>. HIDE DEF M
<1>3. \A j, k \in 1 .. Len(M) : M[j] = M[k] => j = k
  <2>1. ASSUME NEW j \in 1 .. Len(M), NEW k \in 1 .. Len(M), M[j] = M[k]
        PROVE  j = k
    <3>1. j \in 1 .. Len(L) \/ j = Len(L) + 1
      BY <1>1, <1>2
    <3>2. k \in 1 .. Len(L) \/ k = Len(L) + 1
      BY <1>1, <1>2
    <3>3. \A x, y \in 1 .. Len(L) : L[x] = L[y] => x = y
      BY DEF Chain
    <3>. QED BY <1>2, <2>1, <3>1, <3>2, <3>3
  <2>. QED BY <2>1
<1>4. (IF L = <<>> THEN w ELSE i) = M[1]
  <2>1. CASE L = <<>>
    BY <1>2, <2>1
  <2>2. CASE L # <<>>
    <3>1. i = L[1] /\ 1 \in 1 .. Len(L)
      BY <1>1, <2>2 DEF Chain
    <3>. QED BY <1>2, <2>2, <3>1
  <2>. QED BY <2>1, <2>2
<1>5. ASSUME NEW k \in 1 .. Len(M)
      PROVE  links2[M[k]] = IF k = Len(M) THEN M[k] ELSE M[k + 1]
  <2>1. CASE k = Len(M)
    BY <1>2, <2>1
  <2>2. CASE k # Len(M)
    <3>1. k \in 1 .. Len(L) /\ k \in Nat
      BY <1>1, <1>2, <2>2
    <3>2. CASE k = Len(L)
      BY <1>2, <2>2, <3>1, <3>2
    <3>3. CASE k # Len(L)
      <4>1. k + 1 \in 1 .. Len(L)
        BY <1>1, <3>1, <3>3
      <4>2. links[L[k]] = L[k + 1]
        BY <3>1, <3>3 DEF Chain
      <4>. QED BY <1>2, <2>2, <3>1, <3>3, <4>1, <4>2
    <3>. QED BY <3>2, <3>3
  <2>. QED BY <2>1, <2>2
<1>6. Chain(links2, IF L = <<>> THEN w ELSE i, M)
  BY <1>2, <1>3, <1>4, <1>5 DEF Chain
<1>. QED BY <1>6 DEF M

(* Delete goes on to the second item, if there is one.                       *)
LEMMA ChainTail ==
  ASSUME n \in Nat, NEW links, NEW links2, NEW i, NEW L, Chain(links, i, L), L # <<>>,
         \A k \in 2 .. Len(L) : links2[L[k]] = links[L[k]]
  PROVE  Chain(links2, IF links[i] = i THEN n ELSE links[i], Tail(L))
<1>. DEFINE M == Tail(L)
<1>1. L \in Seq(Items) /\ Len(L) \in Nat \ {0} /\ i = L[1]
  BY DEF Chain
<1>2. /\ M \in Seq(Items) /\ Len(M) = Len(L) - 1
      /\ \A k \in 1 .. Len(L) - 1 : M[k] = L[k + 1]
      /\ M = <<>> <=> Len(L) = 1
  BY <1>1, TailItems
<1>. HIDE DEF M
<1>3. \A j, k \in 1 .. Len(M) : M[j] = M[k] => j = k
  <2>1. ASSUME NEW j \in 1 .. Len(M), NEW k \in 1 .. Len(M), M[j] = M[k]
        PROVE  j = k
    <3>1. j + 1 \in 1 .. Len(L) /\ k + 1 \in 1 .. Len(L) /\ j \in Nat /\ k \in Nat
      BY <1>1, <1>2
    <3>2. L[j + 1] = L[k + 1]
      BY <1>2, <2>1
    <3>3. j + 1 = k + 1
      BY <3>1, <3>2 DEF Chain
    <3>. QED BY <3>1, <3>3
  <2>. QED BY <2>1
<1>4. (IF links[i] = i THEN n ELSE links[i]) = IF M = <<>> THEN n ELSE M[1]
  <2>1. 1 \in 1 .. Len(L)
    BY <1>1
  <2>2. links[L[1]] = IF 1 = Len(L) THEN L[1] ELSE L[1 + 1]
    BY <2>1 DEF Chain
  <2>3. CASE Len(L) = 1
    BY <1>1, <1>2, <2>2, <2>3
  <2>4. CASE Len(L) # 1
    <3>1. 2 \in 1 .. Len(L) /\ 1 \in 1 .. Len(L) - 1 /\ 1 + 1 = 2
      BY <1>1, <2>4
    <3>2. L[2] # L[1]
      BY <2>1, <3>1 DEF Chain
    <3>. QED BY <1>1, <1>2, <2>2, <2>4, <3>1, <3>2
  <2>. QED BY <2>3, <2>4
<1>5. ASSUME NEW k \in 1 .. Len(M)
      PROVE  links2[M[k]] = IF k = Len(M) THEN M[k] ELSE M[k + 1]
  <2>1. /\ k \in Nat /\ k \in 1 .. Len(L) - 1 /\ k + 1 \in 1 .. Len(L) /\ k + 1 \in 2 .. Len(L)
        /\ (k = Len(M) <=> k + 1 = Len(L))
    BY <1>1, <1>2
  <2>2. links[L[k + 1]] = IF k + 1 = Len(L) THEN L[k + 1] ELSE L[(k + 1) + 1]
    BY <2>1 DEF Chain
  <2>3. M[k] = L[k + 1] /\ (k # Len(M) => M[k + 1] = L[(k + 1) + 1])
    <3>1. k # Len(M) => k + 1 \in 1 .. Len(L) - 1
      BY <1>1, <1>2, <2>1
    <3>. QED BY <1>2, <2>1, <3>1
  <2>. QED BY <2>1, <2>2, <2>3
<1>6. Chain(links2, IF links[i] = i THEN n ELSE links[i], M)
  BY <1>2, <1>3, <1>4, <1>5 DEF Chain
<1>. QED BY <1>6 DEF M

-------------------------------------------------------------------------------
(* The invariant is inductive.                                               *)

NoLists == [q \in Queues |-> <<>>]
Inserted(L, q, w) == [L EXCEPT ![q] = Append(@, w)]
Deleted(L, q) == [L EXCEPT ![q] = Tail(@)]
Destroyed(L, q) == [L EXCEPT ![q] = <<>>]

LEMMA QueueInit ==
  ASSUME IsFamily, Init
  PROVE  QueueInv(NoLists)
<1>1. n \in Nat /\ Master \in Queues
  BY DEF IsFamily
<1>2. ArraysTyped
  BY <1>1 DEF Init, ArraysTyped, Items
<1>3. /\ NoLists \in [Queues -> Seq(Items)]
      /\ \A q \in Queues : NoLists[q] = <<>> /\ Len(NoLists[q]) = 0 /\ NoLists[q] \in Seq(Items)
  BY DEF NoLists
<1>4. \A k \in 1 .. 0 : FALSE
  OBVIOUS
<1>5. ASSUME NEW q \in Queues
      PROVE  Chain(next, first[q], NoLists[q])
  <2>1. first[q] = n
    BY DEF Init
  <2>. QED BY <1>3, <1>4, <2>1 DEF Chain
<1>6. ListsInv(NoLists)
  BY <1>3, <1>5 DEF ListsInv, Init
<1>7. OwnerInv(NoLists)
  BY <1>3, <1>4 DEF OwnerInv, Init
<1>8. SetInv(NoLists)
  BY <1>3 DEF SetInv, Init
<1>. QED BY <1>2, <1>6, <1>7, <1>8 DEF QueueInv

LEMMA QueueStutter ==
  ASSUME NEW L, QueueInv(L), UNCHANGED <<next, set, first, last, length, open>>
  PROVE  QueueInv(L)'
BY DEF QueueInv, ArraysTyped, ListsInv, OwnerInv, SetInv

LEMMA QueueCopy ==
  ASSUME IsFamily, NEW L, QueueInv(L), NEW s \in Queues, NEW q \in Queues, Copy(s, q)
  PROVE  QueueInv(L)'
<1>1. n \in Nat /\ Master \in Queues
  BY DEF IsFamily
<1>2. ArraysTyped /\ ListsInv(L) /\ OwnerInv(L) /\ SetInv(L)
  BY DEF QueueInv
<1>3. /\ s \notin open /\ q \in open /\ open' = open \union {s}
      /\ next' = next /\ last' = last
      /\ first' = [first EXCEPT ![s] = n] /\ length' = [length EXCEPT ![s] = 0]
      /\ set' = IF set = <<>> /\ n > 0
                THEN [i \in Items |-> IF next[i] < n THEN q ELSE NoHandle] ELSE set
  BY DEF Copy
<1>4. ArraysTyped'
  <2>1. n \in 0 .. n /\ 0 \in Nat
    BY <1>1
  <2>2. first' \in [Queues -> 0 .. n] /\ length' \in [Queues -> Nat]
    BY <1>2, <1>3, <2>1 DEF ArraysTyped
  <2>3. set' = <<>> \/ set' \in [Items -> Queues \union {NoHandle}]
    BY <1>2, <1>3 DEF ArraysTyped
  <2>. QED BY <1>2, <1>3, <2>2, <2>3 DEF ArraysTyped
<1>5. ListsInv(L)'
  <2>1. ASSUME NEW p \in Queues
        PROVE  /\ Chain(next, first'[p], L[p])
               /\ L[p] # <<>> => last[p] = L[p][Len(L[p])]
               /\ length'[p] = Len(L[p])
               /\ p \notin open' => L[p] = <<>>
    <3>1. CASE p = s
      <4>1. L[s] = <<>> /\ Chain(next, first[s], L[s])
        BY <1>2, <1>3 DEF ListsInv
      <4>2. first[s] = n /\ first'[s] = n /\ length'[s] = 0
        BY <1>2, <1>3, <4>1 DEF Chain, ArraysTyped
      <4>. QED BY <3>1, <4>1, <4>2
    <3>2. CASE p # s
      <4>1. first'[p] = first[p] /\ length'[p] = length[p]
        BY <1>2, <1>3, <3>2 DEF ArraysTyped
      <4>. QED BY <1>2, <1>3, <4>1 DEF ListsInv
    <3>. QED BY <3>1, <3>2
  <2>. QED BY <1>2, <1>3, <2>1 DEF ListsInv
<1>6. OwnerInv(L)'
  BY <1>2, <1>3 DEF OwnerInv
<1>7. SetInv(L)'
  <2>1. CASE set = <<>> /\ n > 0
    <3>1. open = {Master} /\ q = Master
      BY <1>1, <1>2, <1>3, <2>1 DEF SetInv
    <3>2. ASSUME NEW p \in Queues, NEW k \in 1 .. Len(L[p])
          PROVE  set'[L[p][k]] = p
      <4>1. p = Master
        <5>1. p \notin open => L[p] = <<>>
          BY <1>2 DEF ListsInv
        <5>. QED BY <3>1, <5>1
      <4>2. L[p][k] \in Items
        BY <1>2 DEF ListsInv
      <4>3. next[L[p][k]] # n
        BY <4>2, LinkedItems
      <4>4. next[L[p][k]] < n
        <5>1. next[L[p][k]] \in 0 .. n
          BY <1>2, <4>2 DEF ArraysTyped
        <5>. QED BY <1>1, <4>3, <5>1
      <4>. QED BY <1>3, <2>1, <3>1, <4>1, <4>2, <4>4
    <3>3. set' # <<>>
      <4>1. 0 \in Items
        BY <1>1, <2>1 DEF Items
      <4>2. DOMAIN set' = Items
        BY <1>3, <2>1
      <4>. QED BY <4>1, <4>2
    <3>. QED BY <3>2, <3>3 DEF SetInv
  <2>2. CASE ~(set = <<>> /\ n > 0)
    <3>1. set' = set /\ (set = <<>> => n = 0)
      BY <1>1, <1>3, <2>2
    <3>. QED BY <1>2, <3>1 DEF SetInv
  <2>. QED BY <2>1, <2>2
<1>. QED BY <1>4, <1>5, <1>6, <1>7 DEF QueueInv

(* Insert of an item that is on no queue.                                    *)
LEMMA QueueInsert ==
  ASSUME IsFamily, NEW L, QueueInv(L), NEW q \in Queues, NEW w \in Items,
         NEW mode \in Modes, Insert(q, w, mode), next[w] = n
  PROVE  QueueInv(Inserted(L, q, w))'
<1>. DEFINE M == Inserted(L, q, w)
<1>1. n \in Nat /\ Master \in Queues
  BY DEF IsFamily
<1>2. ArraysTyped /\ ListsInv(L) /\ OwnerInv(L) /\ SetInv(L)
  BY DEF QueueInv
<1>3. /\ q \in open /\ open' = open
      /\ first' = IF first[q] = n THEN [first EXCEPT ![q] = w] ELSE first
      /\ last' = [last EXCEPT ![q] = w]
      /\ next' = [i \in Items |-> IF i = w \/ (first[q] # n /\ i = last[q]) THEN w ELSE next[i]]
      /\ length' = [length EXCEPT ![q] = @ + 1]
      /\ set' = IF set = <<>> THEN set ELSE [set EXCEPT ![w] = q]
  BY DEF Insert, Empty
<1>4. \A p \in Queues : L[p] \in Seq(Items) /\ Len(L[p]) \in Nat
                       /\ \A k \in 1 .. Len(L[p]) : L[p][k] \in Items /\ L[p][k] # w
  <2>1. \A p \in Queues : \A k \in 1 .. Len(L[p]) : L[p][k] # w
    BY LinkedItems
  <2>. QED BY <1>2, <2>1 DEF ListsInv
<1>5. /\ M \in [Queues -> Seq(Items)]
      /\ \A p \in Queues : p # q => M[p] = L[p]
      /\ M[q] = Append(L[q], w)
  BY <1>2 DEF ListsInv, Inserted
<1>6. /\ M[q] \in Seq(Items) /\ M[q] # <<>> /\ Len(M[q]) = Len(L[q]) + 1
      /\ \A k \in 1 .. Len(L[q]) : M[q][k] = L[q][k]
      /\ M[q][Len(L[q]) + 1] = w /\ M[q][Len(M[q])] = w
  BY <1>4, <1>5, AppendItems
<1>. HIDE DEF M
<1>7. first[q] = n <=> L[q] = <<>>
  <2>1. Chain(next, first[q], L[q])
    BY <1>2 DEF ListsInv
  <2>2. L[q] # <<>> => 1 \in 1 .. Len(L[q])
    BY <1>4
  <2>. QED BY <1>1, <1>4, <2>1, <2>2 DEF Chain, Items
<1>8. L[q] # <<>> => last[q] = L[q][Len(L[q])] /\ Len(L[q]) \in 1 .. Len(L[q])
  BY <1>2, <1>4 DEF ListsInv
<1>9. ArraysTyped'
  <2>1. w \in 0 .. n
    BY <1>1 DEF Items
  <2>2. next' \in [Items -> 0 .. n]
    BY <1>2, <1>3, <2>1 DEF ArraysTyped
  <2>3. first' \in [Queues -> 0 .. n] /\ last' \in [Queues -> 0 .. n]
    BY <1>2, <1>3, <2>1 DEF ArraysTyped
  <2>4. length' \in [Queues -> Nat]
    BY <1>2, <1>3 DEF ArraysTyped
  <2>5. set' = <<>> \/ set' \in [Items -> Queues \union {NoHandle}]
    BY <1>2, <1>3 DEF ArraysTyped
  <2>. QED BY <1>2, <1>3, <2>2, <2>3, <2>4, <2>5 DEF ArraysTyped
<1>10. ListsInv(M)'
  <2>1. ASSUME NEW p \in Queues
        PROVE  /\ Chain(next', first'[p], M[p])
               /\ M[p] # <<>> => last'[p] = M[p][Len(M[p])]
               /\ length'[p] = Len(M[p])
               /\ p \notin open' => M[p] = <<>>
    <3>1. CASE p = q
      <4>1. Chain(next, first[q], L[q])
        BY <1>2 DEF ListsInv
      <4>2. next'[w] = w
        BY <1>3
      <4>3. ASSUME NEW k \in 1 .. Len(L[q])
            PROVE  next'[L[q][k]] = IF k = Len(L[q]) THEN w ELSE next[L[q][k]]
        <5>1. L[q] # <<>> /\ L[q][k] \in Items /\ L[q][k] # w
          BY <1>4
        <5>2. L[q][k] = last[q] <=> k = Len(L[q])
          BY <1>8, <4>1, <5>1 DEF Chain
        <5>. QED BY <1>3, <1>7, <5>1, <5>2
      <4>4. Chain(next', IF L[q] = <<>> THEN w ELSE first[q], Append(L[q], w))
        BY <1>1, <1>4, <4>1, <4>2, <4>3, ChainAppend
      <4>5. first'[q] = IF L[q] = <<>> THEN w ELSE first[q]
        BY <1>2, <1>3, <1>7 DEF ArraysTyped
      <4>6. last'[q] = w /\ length'[q] = Len(L[q]) + 1
        BY <1>2, <1>3 DEF ArraysTyped, ListsInv
      <4>. QED BY <1>3, <1>5, <1>6, <3>1, <4>4, <4>5, <4>6
    <3>2. CASE p # q
      <4>1. ASSUME NEW k \in 1 .. Len(L[p])
            PROVE  next'[L[p][k]] = next[L[p][k]]
        <5>1. L[p][k] \in Items /\ L[p][k] # w
          BY <1>4
        <5>2. first[q] # n => L[p][k] # last[q]
          BY <1>2, <1>7, <1>8, <3>2 DEF OwnerInv
        <5>. QED BY <1>3, <5>1, <5>2
      <4>2. Chain(next', first[p], L[p])
        BY <1>2, <4>1, ChainKept DEF ListsInv
      <4>3. first'[p] = first[p] /\ last'[p] = last[p] /\ length'[p] = length[p]
        BY <1>2, <1>3, <3>2 DEF ArraysTyped
      <4>. QED BY <1>2, <1>3, <1>5, <3>2, <4>2, <4>3 DEF ListsInv
    <3>. QED BY <3>1, <3>2
  <2>. QED BY <1>5, <2>1 DEF ListsInv
<1>11. OwnerInv(M)'
  <2>1. ASSUME NEW p \in Queues, NEW j \in 1 .. Len(M[p])
        PROVE  (\E i \in 1 .. Len(L[p]) : M[p][j] = L[p][i]) \/ (p = q /\ M[p][j] = w)
    <3>1. CASE p # q
      BY <1>5, <3>1
    <3>2. CASE p = q
      <4>1. j \in 1 .. Len(L[q]) \/ j = Len(L[q]) + 1
        BY <1>4, <1>6, <3>2
      <4>. QED BY <1>6, <3>2, <4>1
    <3>. QED BY <3>1, <3>2
  <2>2. \A p, r \in Queues : p # r =>
          \A j \in 1 .. Len(M[p]), k \in 1 .. Len(M[r]) : M[p][j] # M[r][k]
    <3>1. ASSUME NEW p \in Queues, NEW r \in Queues, p # r,
                 NEW j \in 1 .. Len(M[p]), NEW k \in 1 .. Len(M[r])
          PROVE  M[p][j] # M[r][k]
      <4>1. \A x \in 1 .. Len(L[p]), y \in 1 .. Len(L[r]) : L[p][x] # L[r][y]
        BY <1>2, <3>1 DEF OwnerInv
      <4>2. (\E i \in 1 .. Len(L[p]) : M[p][j] = L[p][i]) \/ (p = q /\ M[p][j] = w)
        BY <2>1
      <4>3. (\E i \in 1 .. Len(L[r]) : M[r][k] = L[r][i]) \/ (r = q /\ M[r][k] = w)
        BY <2>1
      <4>. QED BY <1>4, <3>1, <4>1, <4>2, <4>3
    <3>. QED BY <3>1
  <2>3. ASSUME NEW i \in Items, next'[i] # n
        PROVE  \E p \in Queues : \E k \in 1 .. Len(M[p]) : M[p][k] = i
    <3>1. CASE i = w
      <4>1. Len(M[q]) \in 1 .. Len(M[q])
        BY <1>4, <1>6
      <4>. QED BY <1>6, <3>1, <4>1
    <3>2. CASE i # w
      <4>1. \E p \in Queues : \E k \in 1 .. Len(L[p]) : L[p][k] = i
        <5>1. CASE first[q] # n /\ i = last[q]
          BY <1>7, <1>8, <5>1
        <5>2. CASE ~(first[q] # n /\ i = last[q])
          <6>1. next[i] # n
            BY <1>3, <2>3, <3>2, <5>2
          <6>. QED BY <1>2, <6>1 DEF OwnerInv
        <5>. QED BY <5>1, <5>2
      <4>2. PICK p \in Queues : \E k \in 1 .. Len(L[p]) : L[p][k] = i
        BY <4>1
      <4>3. PICK k \in 1 .. Len(L[p]) : L[p][k] = i
        BY <4>2
      <4>4. k \in 1 .. Len(M[p]) /\ M[p][k] = i
        BY <1>4, <1>5, <1>6, <4>3
      <4>. QED BY <4>4
    <3>. QED BY <3>1, <3>2
  <2>. QED BY <2>2, <2>3 DEF OwnerInv
<1>12. SetInv(M)'
  <2>1. CASE set = <<>>
    BY <1>2, <1>3, <2>1 DEF SetInv
  <2>2. CASE set # <<>>
    <3>1. set \in [Items -> Queues \union {NoHandle}] /\ set' = [set EXCEPT ![w] = q]
      BY <1>2, <1>3, <2>2 DEF ArraysTyped
    <3>2. set' # <<>>
      <4>1. w \in DOMAIN set'
        BY <3>1
      <4>. QED BY <4>1
    <3>3. ASSUME NEW p \in Queues, NEW k \in 1 .. Len(M[p])
          PROVE  set'[M[p][k]] = p
      <4>1. CASE p = q /\ k = Len(M[q])
        BY <1>6, <3>1, <4>1
      <4>2. CASE ~(p = q /\ k = Len(M[q]))
        <5>1. k \in 1 .. Len(L[p]) /\ M[p][k] = L[p][k]
          BY <1>4, <1>5, <1>6, <4>2
        <5>2. set[L[p][k]] = p /\ L[p][k] \in Items /\ L[p][k] # w
          BY <1>2, <1>4, <2>2, <5>1 DEF SetInv
        <5>. QED BY <3>1, <5>1, <5>2
      <4>. QED BY <4>1, <4>2
    <3>. QED BY <3>2, <3>3 DEF SetInv
  <2>. QED BY <2>1, <2>2
<1>13. QueueInv(M)'
  BY <1>9, <1>10, <1>11, <1>12 DEF QueueInv
<1>. QED BY <1>13 DEF M

(* Delete from a queue that is not empty.                                    *)
LEMMA QueueDelete ==
  ASSUME IsFamily, NEW L, QueueInv(L), NEW q \in Queues, Delete(q), first[q] # n
  PROVE  /\ QueueInv(Deleted(L, q))'
         /\ L[q] # <<>> /\ ret' = <<"item", L[q][1]>>
<1>. DEFINE M == Deleted(L, q)
<1>1. n \in Nat /\ Master \in Queues
  BY DEF IsFamily
<1>2. ArraysTyped /\ ListsInv(L) /\ OwnerInv(L) /\ SetInv(L)
  BY DEF QueueInv
<1>3. /\ q \in open /\ open' = open /\ set' = set /\ last' = last
      /\ first' = [first EXCEPT ![q] = IF next[@] = @ THEN n ELSE next[@]]
      /\ next' = [next EXCEPT ![first[q]] = n]
      /\ length' = [length EXCEPT ![q] = @ - 1]
      /\ ret' = <<"item", first[q]>>
  BY DEF Delete, Empty
<1>4. \A p \in Queues : L[p] \in Seq(Items) /\ Len(L[p]) \in Nat
                       /\ \A k \in 1 .. Len(L[p]) : L[p][k] \in Items
  BY <1>2 DEF ListsInv
<1>5. Chain(next, first[q], L[q])
  BY <1>2 DEF ListsInv
<1>6. L[q] # <<>> /\ first[q] = L[q][1] /\ 1 \in 1 .. Len(L[q]) /\ first[q] \in Items
  <2>1. L[q] # <<>> /\ first[q] = L[q][1]
    BY <1>5 DEF Chain
  <2>2. 1 \in 1 .. Len(L[q])
    BY <1>4, <2>1
  <2>. QED BY <1>4, <2>1, <2>2
<1>7. /\ M \in [Queues -> Seq(Items)]
      /\ \A p \in Queues : p # q => M[p] = L[p]
      /\ M[q] = Tail(L[q])
  <2>1. Tail(L[q]) \in Seq(Items)
    BY <1>4, <1>6, TailItems
  <2>. QED BY <1>2, <2>1 DEF ListsInv, Deleted
<1>8. /\ Len(M[q]) = Len(L[q]) - 1
      /\ \A k \in 1 .. Len(L[q]) - 1 : M[q][k] = L[q][k + 1]
      /\ M[q] = <<>> <=> Len(L[q]) = 1
  BY <1>4, <1>6, <1>7, TailItems
<1>. HIDE DEF M
<1>9. ASSUME NEW p \in Queues, NEW k \in 1 .. Len(M[p])
      PROVE  /\ p = q => k + 1 \in 2 .. Len(L[q]) /\ M[p][k] = L[q][k + 1]
             /\ p # q => k \in 1 .. Len(L[p]) /\ M[p][k] = L[p][k]
             /\ \E j \in 1 .. Len(L[p]) : M[p][k] = L[p][j]
             /\ M[p][k] \in Items /\ M[p][k] # first[q]
  <2>1. CASE p = q
    <3>1. k \in 1 .. Len(L[q]) - 1 /\ k + 1 \in 2 .. Len(L[q]) /\ k + 1 \in 1 .. Len(L[q]) /\ k + 1 # 1
      BY <1>4, <1>8, <2>1
    <3>2. L[q][k + 1] # L[q][1]
      BY <1>5, <1>6, <3>1 DEF Chain
    <3>. QED BY <1>4, <1>6, <1>8, <2>1, <3>1, <3>2
  <2>2. CASE p # q
    <3>1. M[p] = L[p]
      BY <1>7, <2>2
    <3>2. L[p][k] # L[q][1]
      BY <1>2, <1>6, <2>2, <3>1 DEF OwnerInv
    <3>. QED BY <1>4, <1>6, <2>2, <3>1, <3>2
  <2>. QED BY <2>1, <2>2
<1>10. ArraysTyped'
  <2>1. n \in 0 .. n /\ next[first[q]] \in 0 .. n
    BY <1>1, <1>2, <1>6 DEF ArraysTyped
  <2>2. next' \in [Items -> 0 .. n] /\ first' \in [Queues -> 0 .. n]
    BY <1>2, <1>3, <2>1 DEF ArraysTyped
  <2>3. length' \in [Queues -> Nat]
    <3>1. length[q] = Len(L[q]) /\ length[q] - 1 \in Nat
      BY <1>2, <1>4, <1>6 DEF ListsInv
    <3>. QED BY <1>2, <1>3, <3>1 DEF ArraysTyped
  <2>. QED BY <1>2, <1>3, <2>2, <2>3 DEF ArraysTyped
<1>11. ListsInv(M)'
  <2>1. ASSUME NEW p \in Queues
        PROVE  /\ Chain(next', first'[p], M[p])
               /\ M[p] # <<>> => last'[p] = M[p][Len(M[p])]
               /\ length'[p] = Len(M[p])
               /\ p \notin open' => M[p] = <<>>
    <3>1. CASE p = q
      <4>1. ASSUME NEW k \in 2 .. Len(L[q])
            PROVE  next'[L[q][k]] = next[L[q][k]]
        <5>1. k \in 1 .. Len(L[q]) /\ k # 1
          BY <1>4
        <5>2. L[q][k] \in Items /\ L[q][k] # first[q]
          BY <1>4, <1>5, <1>6, <5>1 DEF Chain
        <5>. QED BY <1>2, <1>3, <5>2 DEF ArraysTyped
      <4>2. Chain(next', IF next[first[q]] = first[q] THEN n ELSE next[first[q]], Tail(L[q]))
        BY <1>1, <1>5, <1>6, <4>1, ChainTail
      <4>3. first'[q] = IF next[first[q]] = first[q] THEN n ELSE next[first[q]]
        BY <1>2, <1>3 DEF ArraysTyped
      <4>4. M[q] # <<>> => last[q] = M[q][Len(M[q])]
        <5>1. last[q] = L[q][Len(L[q])]
          BY <1>2, <1>6 DEF ListsInv
        <5>2. Len(L[q]) # 1 => Len(M[q]) \in 1 .. Len(L[q]) - 1 /\ Len(M[q]) + 1 = Len(L[q])
          BY <1>4, <1>6, <1>8
        <5>. QED BY <1>8, <5>1, <5>2
      <4>5. length'[q] = Len(M[q])
        BY <1>2, <1>3, <1>8 DEF ArraysTyped, ListsInv
      <4>. QED BY <1>3, <1>7, <3>1, <4>2, <4>3, <4>4, <4>5
    <3>2. CASE p # q
      <4>1. ASSUME NEW k \in 1 .. Len(L[p])
            PROVE  next'[L[p][k]] = next[L[p][k]]
        <5>1. M[p] = L[p]
          BY <1>7, <3>2
        <5>2. L[p][k] \in Items /\ L[p][k] # first[q]
          BY <1>9, <5>1
        <5>. QED BY <1>2, <1>3, <5>2 DEF ArraysTyped
      <4>2. Chain(next', first[p], L[p])
        BY <1>2, <4>1, ChainKept DEF ListsInv
      <4>3. first'[p] = first[p] /\ length'[p] = length[p]
        BY <1>2, <1>3, <3>2 DEF ArraysTyped
      <4>. QED BY <1>2, <1>3, <1>7, <3>2, <4>2, <4>3 DEF ListsInv
    <3>. QED BY <3>1, <3>2
  <2>. QED BY <1>7, <2>1 DEF ListsInv
<1>12. OwnerInv(M)'
  <2>1. \A p, r \in Queues : p # r =>
          \A j \in 1 .. Len(M[p]), k \in 1 .. Len(M[r]) : M[p][j] # M[r][k]
    <3>1. ASSUME NEW p \in Queues, NEW r \in Queues, p # r,
                 NEW j \in 1 .. Len(M[p]), NEW k \in 1 .. Len(M[r])
          PROVE  M[p][j] # M[r][k]
      <4>1. \A x \in 1 .. Len(L[p]), y \in 1 .. Len(L[r]) : L[p][x] # L[r][y]
        BY <1>2, <3>1 DEF OwnerInv
      <4>2. PICK x \in 1 .. Len(L[p]) : M[p][j] = L[p][x]
        BY <1>9
      <4>3. PICK y \in 1 .. Len(L[r]) : M[r][k] = L[r][y]
        BY <1>9
      <4>. QED BY <4>1, <4>2, <4>3
    <3>. QED BY <3>1
  <2>2. ASSUME NEW i \in Items, next'[i] # n
        PROVE  \E p \in Queues : \E k \in 1 .. Len(M[p]) : M[p][k] = i
    <3>1. i # first[q] /\ next[i] # n
      BY <1>2, <1>3, <1>6, <2>2 DEF ArraysTyped
    <3>2. PICK p \in Queues : \E k \in 1 .. Len(L[p]) : L[p][k] = i
      BY <1>2, <3>1 DEF OwnerInv
    <3>3. PICK k \in 1 .. Len(L[p]) : L[p][k] = i
      BY <3>2
    <3>4. CASE p = q
      <4>1. k # 1
        BY <1>6, <3>1, <3>3, <3>4
      <4>2. k - 1 \in 1 .. Len(L[q]) - 1 /\ k - 1 \in 1 .. Len(M[q]) /\ (k - 1) + 1 = k
        BY <1>4, <1>8, <3>4, <4>1
      <4>3. M[q][k - 1] = i
        BY <1>8, <3>3, <3>4, <4>2
      <4>. QED BY <4>2, <4>3
    <3>5. CASE p # q
      BY <1>7, <3>3, <3>5
    <3>. QED BY <3>4, <3>5
  <2>. QED BY <2>1, <2>2 DEF OwnerInv
<1>13. SetInv(M)'
  <2>1. ASSUME set # <<>>, NEW p \in Queues, NEW k \in 1 .. Len(M[p])
        PROVE  set[M[p][k]] = p
    <3>1. PICK j \in 1 .. Len(L[p]) : M[p][k] = L[p][j]
      BY <1>9
    <3>. QED BY <1>2, <2>1, <3>1 DEF SetInv
  <2>. QED BY <1>2, <1>3, <2>1 DEF SetInv
<1>14. QueueInv(M)'
  BY <1>10, <1>11, <1>12, <1>13 DEF QueueInv
<1>. QED BY <1>3, <1>6, <1>14 DEF M

(* The destructor of a slave.                                                *)
LEMMA QueueDestroy ==
  ASSUME IsFamily, NEW L, QueueInv(L), NEW q \in Queues, Destroy(q)
  PROVE  QueueInv(Destroyed(L, q))'
<1>. DEFINE M == Destroyed(L, q)
<1>1. n \in Nat /\ Master \in Queues
  BY DEF IsFamily
<1>2. ArraysTyped /\ ListsInv(L) /\ OwnerInv(L) /\ SetInv(L)
  BY DEF QueueInv
<1>3. /\ q \in open /\ q # Master /\ open' = open \ {q} /\ set' = set /\ last' = last
      /\ first' = [first EXCEPT ![q] = n]
      /\ next' = [i \in Items |-> IF \E k \in 1 .. Len(L[q]) : L[q][k] = i THEN n ELSE next[i]]
      /\ length' = [length EXCEPT ![q] = @ - Len(L[q])]
  <2>1. ListOf(q) = L[q]
    BY ListsKnown
  <2>. QED BY <2>1 DEF Destroy
<1>4. \A p \in Queues : L[p] \in Seq(Items) /\ Len(L[p]) \in Nat
                       /\ \A k \in 1 .. Len(L[p]) : L[p][k] \in Items
  BY <1>2 DEF ListsInv
<1>5. /\ M \in [Queues -> Seq(Items)]
      /\ \A p \in Queues : p # q => M[p] = L[p]
      /\ M[q] = <<>> /\ Len(M[q]) = 0
  BY <1>2 DEF ListsInv, Destroyed
<1>. HIDE DEF M
<1>6. \A p \in Queues : \A k \in 1 .. Len(M[p]) : p # q /\ M[p] = L[p] /\ k \in 1 .. Len(L[p])
  <2>1. \A k \in 1 .. 0 : FALSE
    OBVIOUS
  <2>. QED BY <1>5, <2>1
<1>7. ArraysTyped'
  <2>1. n \in 0 .. n
    BY <1>1
  <2>2. next' \in [Items -> 0 .. n] /\ first' \in [Queues -> 0 .. n]
    BY <1>2, <1>3, <2>1 DEF ArraysTyped
  <2>3. length' \in [Queues -> Nat]
    <3>1. length[q] = Len(L[q]) /\ length[q] - Len(L[q]) = 0
      BY <1>2, <1>4 DEF ListsInv
    <3>. QED BY <1>2, <1>3, <3>1 DEF ArraysTyped
  <2>. QED BY <1>2, <1>3, <2>2, <2>3 DEF ArraysTyped
<1>8. ListsInv(M)'
  <2>1. ASSUME NEW p \in Queues
        PROVE  /\ Chain(next', first'[p], M[p])
               /\ M[p] # <<>> => last'[p] = M[p][Len(M[p])]
               /\ length'[p] = Len(M[p])
               /\ p \notin open' => M[p] = <<>>
    <3>1. CASE p = q
      <4>1. first'[q] = n /\ length'[q] = 0
        BY <1>2, <1>3, <1>4 DEF ArraysTyped, ListsInv
      <4>2. Chain(next', n, <<>>)
        <5>1. <<>> \in Seq(Items) /\ Len(<<>>) = 0
          OBVIOUS
        <5>2. \A k \in 1 .. 0 : FALSE
          OBVIOUS
        <5>. QED BY <5>1, <5>2 DEF Chain
      <4>. QED BY <1>5, <3>1, <4>1, <4>2
    <3>2. CASE p # q
      <4>1. ASSUME NEW k \in 1 .. Len(L[p])
            PROVE  next'[L[p][k]] = next[L[p][k]]
        <5>1. \A j \in 1 .. Len(L[q]) : L[q][j] # L[p][k]
          BY <1>2, <3>2 DEF OwnerInv
        <5>. QED BY <1>3, <1>4, <5>1
      <4>2. Chain(next', first[p], L[p])
        BY <1>2, <4>1, ChainKept DEF ListsInv
      <4>3. first'[p] = first[p] /\ length'[p] = length[p]
        BY <1>2, <1>3, <3>2 DEF ArraysTyped
      <4>. QED BY <1>2, <1>3, <1>5, <3>2, <4>2, <4>3 DEF ListsInv
    <3>. QED BY <3>1, <3>2
  <2>. QED BY <1>5, <2>1 DEF ListsInv
<1>9. OwnerInv(M)'
  <2>1. \A p, r \in Queues : p # r =>
          \A j \in 1 .. Len(M[p]), k \in 1 .. Len(M[r]) : M[p][j] # M[r][k]
    BY <1>2, <1>6 DEF OwnerInv
  <2>2. ASSUME NEW i \in Items, next'[i] # n
        PROVE  \E p \in Queues : \E k \in 1 .. Len(M[p]) : M[p][k] = i
    <3>1. next[i] # n /\ ~ \E k \in 1 .. Len(L[q]) : L[q][k] = i
      BY <1>3, <2>2
    <3>2. PICK p \in Queues : \E k \in 1 .. Len(L[p]) : L[p][k] = i
      BY <1>2, <3>1 DEF OwnerInv
    <3>. QED BY <1>5, <3>1, <3>2
  <2>. QED BY <2>1, <2>2 DEF OwnerInv
<1>10. SetInv(M)'
  <2>1. set # <<>> => \A p \in Queues : \A k \in 1 .. Len(M[p]) : set[M[p][k]] = p
    BY <1>2, <1>6 DEF SetInv
  <2>2. set = <<>> => n = 0 \/ open' = {Master}
    BY <1>2, <1>3 DEF SetInv
  <2>. QED BY <1>3, <2>1, <2>2 DEF SetInv
<1>11. QueueInv(M)'
  BY <1>7, <1>8, <1>9, <1>10 DEF QueueInv
<1>. QED BY <1>11 DEF M

-------------------------------------------------------------------------------
(* Every call keeps the lists, or changes them as it should.                 *)

(* ListsKnown for the state after a step.                                    *)
LEMMA ListsKnownAfter ==
  ASSUME IsFamily, NEW L, QueueInv(L)'
  PROVE  [q \in Queues |-> ListOf(q)'] = L
<1>1. ASSUME NEW q \in Queues
      PROVE  ListOf(q)' = L[q]
  <2>1. Chain(next', first'[q], L[q]) /\ n \in Nat
    BY DEF QueueInv, ListsInv, IsFamily
  <2>2. ItemsFrom(next', first'[q]) = L[q]
    BY <2>1, ChainItems
  <2>. QED BY <2>2 DEF ListOf
<1>2. L = [q \in Queues |-> L[q]]
  BY DEF QueueInv, ListsInv
<1>. QED BY <1>1, <1>2

(* What a call does to the lists, and what it returns.                       *)
CallDone(L, M) ==
  \/ M = L /\ UNCHANGED <<open, ret>>
  \/ \E q \in Queues :
       \/ q \notin open /\ open' = open \union {q} /\ ret' = Ok /\ M = L
       \/ q \in open \ {Master} /\ open' = open \ {q} /\ ret' = Ok /\ M = Destroyed(L, q)
       \/ /\ q \in open /\ open' = open
          /\ \/ L[q] = <<>> /\ M = L /\ ret' = <<"ERRejected", n>>
             \/ L[q] # <<>> /\ M = Deleted(L, q) /\ ret' = <<"item", L[q][1]>>
             \/ \E w \in Items :
                  LET known == \E p \in Queues : \E k \in 1 .. Len(L[p]) : L[p][k] = w IN
                  \/ known /\ M = L /\ ret' \in {Ok, <<"ERCheck", n>>}
                  \/ ~known /\ M = Inserted(L, q, w) /\ ret' = Ok

LEMMA QueueStep ==
  ASSUME IsFamily, NEW L, QueueInv(L), [Next]_vars
  PROVE  \E M : QueueInv(M)' /\ CallDone(L, M)
<1>1. CASE UNCHANGED vars
  <2>1. QueueInv(L)'
    BY <1>1, QueueStutter DEF vars
  <2>2. CallDone(L, L)
    BY <1>1 DEF vars, CallDone
  <2>. QED BY <2>1, <2>2
<1>2. ASSUME NEW s \in Queues, NEW q \in Queues, Copy(s, q)
      PROVE  \E M : QueueInv(M)' /\ CallDone(L, M)
  <2>1. QueueInv(L)'
    BY <1>2, QueueCopy
  <2>2. CallDone(L, L)
    BY <1>2 DEF CallDone, Copy
  <2>. QED BY <2>1, <2>2
<1>3. ASSUME NEW q \in Queues, NEW w \in Items, NEW mode \in Modes, Insert(q, w, mode)
      PROVE  \E M : QueueInv(M)' /\ CallDone(L, M)
  <2>1. next[w] # n <=> \E p \in Queues : \E k \in 1 .. Len(L[p]) : L[p][k] = w
    BY LinkedItems
  <2>2. CASE next[w] = n
    <3>1. QueueInv(Inserted(L, q, w))'
      BY <1>3, <2>2, QueueInsert
    <3>2. q \in open /\ open' = open /\ ret' = Ok
      BY <1>3, <2>2 DEF Insert
    <3>3. CallDone(L, Inserted(L, q, w))
      BY <2>1, <2>2, <3>2 DEF CallDone
    <3>. QED BY <3>1, <3>3
  <2>3. CASE next[w] # n
    <3>1. /\ q \in open /\ ret' \in {Ok, <<"ERCheck", n>>}
          /\ UNCHANGED <<next, set, first, last, length, open>>
      BY <1>3, <2>3 DEF Insert
    <3>2. QueueInv(L)'
      BY <3>1, QueueStutter
    <3>3. CallDone(L, L)
      BY <2>1, <2>3, <3>1 DEF CallDone
    <3>. QED BY <3>2, <3>3
  <2>. QED BY <2>2, <2>3
<1>4. ASSUME NEW q \in Queues, Delete(q)
      PROVE  \E M : QueueInv(M)' /\ CallDone(L, M)
  <2>1. CASE first[q] = n
    <3>1. /\ q \in open /\ ret' = <<"ERRejected", n>>
          /\ UNCHANGED <<next, set, first, last, length, open>>
      BY <1>4, <2>1 DEF Delete, Empty
    <3>2. QueueInv(L)'
      BY <3>1, QueueStutter
    <3>3. L[q] = <<>>
      <4>1. Chain(next, first[q], L[q])
        BY DEF QueueInv, ListsInv
      <4>2. L[q] # <<>> => L[q][1] \in Items
        BY <4>1 DEF Chain
      <4>3. n \notin Items
        BY DEF IsFamily, Items
      <4>. QED BY <2>1, <4>1, <4>2, <4>3 DEF Chain
    <3>4. CallDone(L, L)
      BY <3>1, <3>3 DEF CallDone
    <3>. QED BY <3>2, <3>4
  <2>2. CASE first[q] # n
    <3>1. QueueInv(Deleted(L, q))' /\ L[q] # <<>> /\ ret' = <<"item", L[q][1]>>
      BY <1>4, <2>2, QueueDelete
    <3>2. q \in open /\ open' = open
      BY <1>4 DEF Delete
    <3>3. CallDone(L, Deleted(L, q))
      BY <3>1, <3>2 DEF CallDone
    <3>. QED BY <3>1, <3>3
  <2>. QED BY <2>1, <2>2
<1>5. ASSUME NEW q \in Queues, Destroy(q)
      PROVE  \E M : QueueInv(M)' /\ CallDone(L, M)
  <2>1. QueueInv(Destroyed(L, q))'
    BY <1>5, QueueDestroy
  <2>2. CallDone(L, Destroyed(L, q))
    BY <1>5 DEF CallDone, Destroy
  <2>. QED BY <2>1, <2>2
<1>. QED BY <1>1, <1>2, <1>3, <1>4, <1>5 DEF Next

(* The invariant for some lists.                                             *)
FamilyInv == \E L : QueueInv(L)

LEMMA QueueInductive == IsFamily => (Spec => []FamilyInv)
<1>. SUFFICES ASSUME IsFamily PROVE Spec => []FamilyInv
  OBVIOUS
<1>1. Init => FamilyInv
  BY QueueInit DEF FamilyInv
<1>2. FamilyInv /\ [Next]_vars => FamilyInv'
  <2>. SUFFICES ASSUME FamilyInv, [Next]_vars PROVE FamilyInv'
    OBVIOUS
  <2>1. PICK L : QueueInv(L)
    BY DEF FamilyInv
  <2>2. PICK M : QueueInv(M)'
    BY <2>1, QueueStep
  <2>. QED BY <2>2 DEF FamilyInv
<1>. QED BY <1>1, <1>2, PTL DEF Spec

(* For every family of static queues, the links, owners and counters stay in *)
(* range whatever the queues are asked to do.                                *)
THEOREM FamilyTypes == IsFamily => (Spec => []TypeOK)
<1>. SUFFICES ASSUME IsFamily PROVE Spec => []TypeOK
  OBVIOUS
<1>1. FamilyInv => TypeOK
  BY InvGivesMembers DEF FamilyInv
<1>. QED BY <1>1, QueueInductive, PTL

(* For every family of static queues, IsMember and the number of items agree *)
(* with the links of each queue, whichever queue an item was on before.      *)
THEOREM FamilyMembers == IsFamily => (Spec => []MembersExact)
<1>. SUFFICES ASSUME IsFamily PROVE Spec => []MembersExact
  OBVIOUS
<1>1. FamilyInv => MembersExact
  BY InvGivesMembers DEF FamilyInv
<1>. QED BY <1>1, QueueInductive, PTL

(* A family of static queues implements separate lists: a second insertion   *)
(* is noticed on whichever queue the item is, Delete returns the oldest item *)
(* of its own queue, and no call touches another queue.                      *)
THEOREM FamilyImplementsLists == IsFamily => (Spec => Lists!Spec)
<1>. SUFFICES ASSUME IsFamily PROVE Spec => Lists!Spec
  OBVIOUS
<1>1. Init => Lists!Init
  <2>. SUFFICES ASSUME Init PROVE Lists!Init
    OBVIOUS
  <2>1. [q \in Queues |-> ListOf(q)] = NoLists
    BY QueueInit, ListsKnown
  <2>. QED BY <2>1 DEF Lists!Init, Init, NoLists, Ok
<1>2. FamilyInv /\ [Next]_vars => [Lists!Next]_<<[q \in Queues |-> ListOf(q)], open, ret>>
  <2>. SUFFICES ASSUME FamilyInv, [Next]_vars
                PROVE  [Lists!Next]_<<[q \in Queues |-> ListOf(q)], open, ret>>
    OBVIOUS
  <2>1. PICK L : QueueInv(L)
    BY DEF FamilyInv
  <2>2. PICK M : QueueInv(M)' /\ CallDone(L, M)
    BY <2>1, QueueStep
  <2>3. [q \in Queues |-> ListOf(q)] = L
    BY <2>1, ListsKnown
  <2>4. [q \in Queues |-> ListOf(q)]' = M
    BY <2>2, ListsKnownAfter
  <2>5. L \in [Queues -> Seq(Items)]
    BY <2>1 DEF QueueInv, ListsInv
  <2>6. CASE M = L /\ UNCHANGED <<open, ret>>
    BY <2>3, <2>4, <2>6
  <2>7. ASSUME NEW q \in Queues, q \notin open, open' = open \union {q}, ret' = Ok, M = L
        PROVE  Lists!Open(q)
    BY <2>3, <2>4, <2>7 DEF Lists!Open, Ok
  <2>8. ASSUME NEW q \in Queues, q \in open \ {Master}, open' = open \ {q}, ret' = Ok,
               M = Destroyed(L, q)
        PROVE  Lists!Close(q)
    BY <2>3, <2>4, <2>8 DEF Lists!Close, Ok, Destroyed
  <2>9. ASSUME NEW q \in Queues, q \in open, open' = open, L[q] = <<>>, M = L,
               ret' = <<"ERRejected", n>>
        PROVE  Lists!DeleteEmpty(q)
    BY <2>3, <2>4, <2>9 DEF Lists!DeleteEmpty
  <2>10. ASSUME NEW q \in Queues, q \in open, open' = open, L[q] # <<>>, M = Deleted(L, q),
               ret' = <<"item", L[q][1]>>
         PROVE  Lists!Delete(q)
    <3>1. Head(L[q]) = L[q][1]
      BY <2>5, <2>10
    <3>2. ret'[1] = "item" /\ ret'[2] = Head(L[q])
      BY <2>10, <3>1
    <3>. QED BY <2>3, <2>4, <2>10, <3>2 DEF Lists!Delete, Deleted
  <2>11. ASSUME NEW w \in Items
         PROVE  Lists!OnSome(w) <=> \E p \in Queues : \E k \in 1 .. Len(L[p]) : L[p][k] = w
    BY <2>3 DEF Lists!OnSome
  <2>12. ASSUME NEW q \in Queues, q \in open, open' = open, NEW w \in Items,
                \E p \in Queues : \E k \in 1 .. Len(L[p]) : L[p][k] = w,
                M = L, ret' \in {Ok, <<"ERCheck", n>>}
         PROVE  Lists!InsertTwice(q, w)
    <3>1. Lists!OnSome(w)
      BY <2>11, <2>12
    <3>. QED BY <2>3, <2>4, <2>12, <3>1 DEF Lists!InsertTwice, Ok
  <2>13. ASSUME NEW q \in Queues, q \in open, open' = open, NEW w \in Items,
                ~ \E p \in Queues : \E k \in 1 .. Len(L[p]) : L[p][k] = w,
                M = Inserted(L, q, w), ret' = Ok
         PROVE  Lists!Insert(q, w)
    <3>1. ~Lists!OnSome(w)
      BY <2>11, <2>13
    <3>2. M = [L EXCEPT ![q] = IF FALSE THEN <<w>> \o @ ELSE Append(@, w)]
      BY <2>13 DEF Inserted
    <3>. QED BY <2>3, <2>4, <2>13, <3>1, <3>2 DEF Lists!Insert, Ok
  <2>. QED BY <2>2, <2>6, <2>7, <2>8, <2>9, <2>10, <2>12, <2>13 DEF CallDone, Lists!Next
<1>3. Spec => []FamilyInv
  BY QueueInductive
<1>. QED BY <1>1, <1>2, <1>3, PTL DEF Spec, Lists!Spec
===============================================================================
