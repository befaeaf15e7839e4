---------------------------- MODULE DisjointFamily -----------------------------
(****************************************************************************)
(* The disjoint set family of lib_src/disjointFamily.cpp: a forest B, whose  *)
(* roots link to themselves, union by rank, and path compression in Find if  *)
(* the option methDSU says so.  The option belongs to the controller and may *)
(* change between two calls.                                                 *)
(****************************************************************************)
EXTENDS Naturals, FiniteSets

CONSTANT n             \* the items are 0 .. n-1, n is UNDEFINED

Items == 0..(n - 1)
UNDEFINED == n
methDSU == {0, 1}

VARIABLES B, rank, ret
vars == <<B, rank, ret>>

Ok == <<"ok", n>>
Defined == {v \in Items : B[v] # UNDEFINED}

(* Where n links lead from v in the forest f; a root links to itself.        *)
Up(f, v) == LET up[k \in 0..n] == IF k = 0 THEN v ELSE f[up[k - 1]] IN up
Path(f, v) == {Up(f, v)[k] : k \in 0..n}
Root(f, v) == Up(f, v)[n]

(* Mutant: the items of the path are linked to the wrong end of it.          *)
CompressToFirst(f, v, meth) ==
  IF meth # 1 THEN f ELSE [x \in Items |-> IF x \in Path(f, v) THEN f[v] ELSE f[x]]
(* The forest after Find(v): the items of the path link to the root.         *)
Compress(f, v, meth) ==
  IF meth # 1 THEN f ELSE [x \in Items |-> IF x \in Path(f, v) THEN Root(f, v) ELSE f[x]]

(* The constructor; the ranks are uninitialised until Bud sets them.         *)
Init ==
  /\ B = [v \in Items |-> UNDEFINED]
  /\ rank = [v \in Items |-> 0]
  /\ ret = Ok

(* Mutant: the loop of Init() ends one item too early.                       *)
ClearShort ==
  /\ B' = [v \in Items |-> IF v = n - 1 THEN B[v] ELSE UNDEFINED]
  /\ ret' = Ok
  /\ UNCHANGED rank

(* Init().                                                                   *)
Clear ==
  /\ B' = [v \in Items |-> UNDEFINED]
  /\ ret' = Ok
  /\ UNCHANGED rank

(* A client calls Bud once for an item.                                      *)
Bud(v) ==
  /\ B[v] = UNDEFINED
  /\ B' = [B EXCEPT ![v] = v]
  /\ rank' = [rank EXCEPT ![v] = 1]
  /\ ret' = Ok

(* Mutant: the roots are linked without a look at their ranks.               *)
LinkAny(f, u, v) ==
  /\ B' = [f EXCEPT ![u] = v]
  /\ rank' = IF rank[v] = rank[u] /\ u # v THEN [rank EXCEPT ![v] = @ + 1] ELSE rank
(* Link the roots u and v of the forest f.                                   *)
Link(f, u, v) ==
  IF rank[u] < rank[v] THEN B' = [f EXCEPT ![u] = v] /\ UNCHANGED rank
  ELSE /\ B' = [f EXCEPT ![v] = u]
       /\ rank' = IF rank[v] = rank[u] /\ u # v THEN [rank EXCEPT ![u] = @ + 1] ELSE rank

Merge(u, v, meth) ==
  \/ /\ {u, v} \subseteq Defined
     /\ LET g == Compress(B, u, meth)
            f == Compress(g, v, meth)
        IN Link(f, Root(B, u), Root(g, v))
     /\ ret' = Ok
  \/ /\ ~({u, v} \subseteq Defined)
     /\ ret' = <<"ERRange", n>>
     /\ UNCHANGED <<B, rank>>

(* Warnings are on, so an item without a set is rejected.                    *)
Find(v, meth) ==
  \/ /\ v \in Defined
     /\ B' = Compress(B, v, meth)
     /\ ret' = <<"item", Root(B, v)>>
     /\ UNCHANGED rank
  \/ /\ v \notin Defined
     /\ ret' = <<"ERRange", n>>
     /\ UNCHANGED <<B, rank>>

Next ==
  \/ Clear
  \/ \E v \in Items :
       \/ Bud(v)
       \/ \E meth \in methDSU :
            Find(v, meth) \/ \E u \in Items : Merge(u, v, meth)

Spec == Init /\ [][Next]_vars

-------------------------------------------------------------------------------
(* Links lead to items with a set, never out of the family.                  *)
TypeOK ==
  /\ B \in [Items -> 0..n]
  /\ rank \in [Items -> 0..n]
  /\ \A v \in Defined : B[v] \in Defined /\ rank[v] > 0

(* 2^(r-1) for a rank r.                                                     *)
LeastSize[r \in 1..n] == IF r = 1 THEN 1 ELSE 2 * LeastSize[r - 1]

(* Ranks grow towards the root, so that Find ends, and a set of rank r has   *)
(* at least 2^(r-1) elements, so that Find takes a logarithmic number of     *)
(* calls however unions, compressed and uncompressed Finds alternate.        *)
RankBounds ==
  /\ \A v \in Defined : B[v] # v => rank[v] < rank[B[v]]
  /\ \A r \in Defined :
       B[r] = r => LeastSize[rank[r]] <= Cardinality({v \in Defined : Root(B, v) = r})

(* The forest is a family of disjoint sets with canonical elements.          *)
Family == INSTANCE SetFamily WITH
  NoItem <- n,
  canon <- [v \in Defined |-> Root(B, v)]
================================================================================
