------------------------------- MODULE Shrinking --------------------------------
(****************************************************************************)
(* How the arborescence procedures use a nested family: nodes and the cycles *)
(* that have been shrunk are items 0 .. 2n-1, around[x] is the set that x is *)
(* in, and each toplevel set may have one entering arc.  NestedFamily shows  *)
(* that nestedFamily behaves like this.                                      *)
(****************************************************************************)
EXTENDS Network

Item == 0 .. 2 * n - 1
Top == 2 * n                       \* no set is around an item

(* S.Set(x): the outermost set around x.                                     *)
Outermost(around, x) ==
  LET climb[y \in Item] == IF around[y] = Top THEN y ELSE climb[around[y]]
  IN climb[x]
TailSet(G, around, a) == Outermost(around, StartNode(G, a))

(* The items on the way back from x along the entering arcs, up to v.        *)
Way(G, around, inArc, x, v) ==
  LET back[w \in Item, k \in 0 .. 2 * n] ==
        IF w = v \/ inArc[w] = NoArc \/ k = 0 THEN {w}
        ELSE {w} \union back[TailSet(G, around, inArc[w]), k - 1]
  IN back[x, 2 * n]

(* S.Split(c): the members of c come to the top.                             *)
Members(around, c) == {x \in Item : around[x] = c}
Opened(around, c) == [x \in Item |-> IF around[x] = c THEN Top ELSE around[x]]
================================================================================
