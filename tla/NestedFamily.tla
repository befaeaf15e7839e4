----------------------------- MODULE NestedFamily ------------------------------
(****************************************************************************)
(* The shrinking family of lib_src/nestedFamily.cpp.  The indices 0 .. n-1   *)
(* are real items, n .. n+m-1 are sets.  B is a forest like that of a        *)
(* disjoint set family; in addition set names the set that a root stands     *)
(* for, canonical keeps the root of a finished set for the time when it is   *)
(* split, and first and next list its members; the last one links to itself. *)
(*                                                                           *)
(* Clients name only items and sets that are in use.  Between Block and      *)
(* UnBlock, which come in pairs, they only ask for sets (surfaceGraph.cpp).  *)
(****************************************************************************)
EXTENDS Naturals, Sequences, FiniteSets, SequencesExt

CONSTANTS n, m          \* numbers of items and of sets; n+m is UNDEFINED

Items == 0 .. n - 1
SetNames == n .. n + m - 1
Index == 0 .. n + m - 1
UNDEFINED == n + m

VARIABLES
  B, depth, set, canonical, first, next,
  compress,   \* methDSU, when the family was constructed
  blocked,    \* the sets that the client has blocked, the last one first
  ret
arrays == <<B, depth, set, canonical, first, next>>
vars == <<arrays, compress, blocked, ret>>

Says(tag) == ret' = <<tag, UNDEFINED>>
Rejected(tag) == Says(tag) /\ UNCHANGED <<arrays, blocked>>
InUse == {v \in Index : B[v] # UNDEFINED}

(* The nodes from v up to the root, in the forest f.                         *)
Path(f, v) ==
  LET up[k \in 0 .. n + m, x \in Index] ==
        {x} \union (IF k = 0 \/ f[x] = x THEN {} ELSE up[k - 1, f[x]])
  IN up[n + m, v]
Root(f, v) == CHOOSE x \in Path(f, v) : f[x] = x
(* The forest after Find(v).                                                 *)
Compress(f, v) ==
  IF compress THEN [x \in Index |-> IF x \in Path(f, v) THEN Root(f, v) ELSE f[x]] ELSE f

(* The members of s, in the order of the list.                               *)
Chain(s) ==
  LET from[k \in 0 .. n + m, x \in Index] ==
        <<x>> \o (IF k = 0 \/ next[x] \in {x, UNDEFINED} THEN <<>> ELSE from[k - 1, next[x]])
  IN IF first[s] = UNDEFINED THEN <<>> ELSE from[n + m, first[s]]
Members(s) == {Chain(s)[i] : i \in 1 .. Len(Chain(s))}
(* What Adjust(s,b) visits: everything inside s, at any depth.               *)
Inside(s) ==
  LET within[k \in 0 .. m, x \in SetNames] ==
        Members(x) \union (IF k = 0 THEN {}
                           ELSE UNION {within[k - 1, y] : y \in Members(x) \ Items})
  IN within[m, s]

-------------------------------------------------------------------------------
Empty ==
  /\ B' = [v \in Index |-> IF v \in Items THEN v ELSE UNDEFINED]
  /\ depth' = [v \in Index |-> 1]
  /\ set' = [v \in Index |-> v]
  /\ next' = [v \in Index |-> UNDEFINED]
  /\ canonical' = [s \in SetNames |-> UNDEFINED]
  /\ first' = [s \in SetNames |-> UNDEFINED]

(* The constructor; what belongs to a set has no value until MakeSet.        *)
Init ==
  /\ B = [v \in Index |-> IF v \in Items THEN v ELSE UNDEFINED]
  /\ depth = [v \in Index |-> 1]
  /\ set = [v \in Index |-> v]
  /\ next = [v \in Index |-> UNDEFINED]
  /\ canonical = [s \in SetNames |-> UNDEFINED]
  /\ first = [s \in SetNames |-> UNDEFINED]
  /\ compress \in BOOLEAN
  /\ blocked = <<>> /\ ret = <<"ok", UNDEFINED>>

(* Init(), with Bud for every item.  The values of unused sets are dead.     *)
Clear == blocked = <<>> /\ Empty /\ Says("ok") /\ UNCHANGED blocked

MakeSet ==
  \/ \E s \in SetNames \ InUse :
       /\ \A r \in SetNames : r < s => r \in InUse
       /\ B' = [B EXCEPT ![s] = s]
       /\ depth' = [depth EXCEPT ![s] = 1]
       /\ first' = [first EXCEPT ![s] = UNDEFINED]
       /\ next' = [next EXCEPT ![s] = UNDEFINED]
       /\ set' = [set EXCEPT ![s] = s]
       /\ canonical' = [canonical EXCEPT ![s] = UNDEFINED]
       /\ ret' = <<"item", s>>
       /\ UNCHANGED blocked
  \/ SetNames \subseteq InUse /\ Rejected("ERRejected")

(* Unite the trees of the roots u and w for the set s, in the forest f.      *)
Link(f, u, w, s) ==
  IF depth[u] < depth[w]
  THEN B' = [f EXCEPT ![u] = w] /\ set' = [set EXCEPT ![w] = s] /\ UNCHANGED depth
  ELSE /\ B' = [f EXCEPT ![w] = u] /\ set' = [set EXCEPT ![u] = s]
       /\ depth' = IF depth[w] = depth[u] THEN [depth EXCEPT ![u] = @ + 1] ELSE depth

(* The set is unfinished, v is at the top level and, if it is a set, finished. *)
Mergeable(s, v) ==
  /\ canonical[s] = UNDEFINED /\ next[v] = UNDEFINED
  /\ v \in SetNames => canonical[v] # UNDEFINED

Merge(s, v) ==
  \/ /\ Mergeable(s, v)
     /\ LET f == Compress(B, v)
        IN Link(Compress(f, s), Root(f, s), Root(B, v), s)
     /\ next' = [next EXCEPT ![v] = IF first[s] = UNDEFINED THEN v ELSE first[s]]
     /\ first' = [first EXCEPT ![s] = v]
     /\ Says("ok") /\ UNCHANGED <<canonical, blocked>>
  \/ ~Mergeable(s, v) /\ Rejected("ERRejected")

FixSet(s) ==
  \/ /\ canonical[s] = UNDEFINED /\ first[s] # UNDEFINED
     /\ B' = Compress(B, s)
     /\ canonical' = [canonical EXCEPT ![s] = Root(B, s)]
     /\ Says("ok") /\ UNCHANGED <<depth, set, first, next, blocked>>
  \/ /\ canonical[s] # UNDEFINED \/ first[s] = UNDEFINED
     /\ Rejected("ERRejected")

Set(v) ==
  /\ B' = Compress(B, v)
  /\ ret' = <<"item", set[Root(B, v)]>>
  /\ UNCHANGED <<depth, set, canonical, first, next, blocked>>

(* Mutant: the paths that were compressed beyond a set are left as they are. *)
ExposeShallow(f, v) ==
  IF v \in Items
  THEN [f EXCEPT !.B[v] = v, !.set[v] = IF compress THEN v ELSE @]
  ELSE LET x == canonical[v]
       IN [f EXCEPT !.B[v] = x, !.B[x] = x, !.set[x] = v]
(* Make the member v of a set a tree of its own: the loop of Split and Block. *)
Expose(f, v) ==
  IF v \in Items
  THEN [f EXCEPT !.B[v] = v, !.set[v] = IF compress THEN v ELSE @]
  ELSE LET x == canonical[v]
       IN [B |-> [y \in Index |-> IF y \in {v, x} \/ (compress /\ y \in Inside(v)) THEN x
                                  ELSE f.B[y]],
           set |-> [f.set EXCEPT ![x] = v]]
Exposed(f, s) == FoldLeft(Expose, [B |-> f, set |-> set], Chain(s))

(* The test for a toplevel set compresses the path of s.  What the arrays    *)
(* say about s afterwards is dead; it is given the values that MakeSet sets.  *)
Split(s) ==
  LET f == Compress(B, s)
      g == Exposed(f, s)
  IN IF first[s] = UNDEFINED THEN Rejected("ERRejected")
     ELSE IF set[Root(B, s)] # s \/ canonical[s] = UNDEFINED
     THEN B' = f /\ Says("ERRejected") /\ UNCHANGED <<depth, set, canonical, first, next, blocked>>
     ELSE /\ B' = [g.B EXCEPT ![s] = UNDEFINED]
          /\ set' = [g.set EXCEPT ![s] = s]
          /\ next' = [v \in Index |-> IF v \in Members(s) THEN UNDEFINED ELSE next[v]]
          /\ depth' = [depth EXCEPT ![s] = 1]
          /\ canonical' = [canonical EXCEPT ![s] = UNDEFINED]
          /\ first' = [first EXCEPT ![s] = UNDEFINED]
          /\ Says("ok") /\ UNCHANGED blocked

Block(s) ==
  /\ B' = Exposed(B, s).B /\ set' = Exposed(B, s).set
  /\ blocked' = <<s>> \o blocked
  /\ Says("ok") /\ UNCHANGED <<depth, canonical, first, next>>

(* Mutant: the members that are sets are forgotten.                          *)
UnBlockItems(s) ==
  /\ B' = [y \in Index |-> IF y \in Members(s) \intersect Items THEN canonical[s] ELSE B[y]]
  /\ set' = [set EXCEPT ![canonical[s]] = s]
  /\ blocked' = Tail(blocked)
  /\ Says("ok") /\ UNCHANGED <<depth, canonical, first, next>>
UnBlock(s) ==
  /\ B' = [y \in Index |->
             IF y \in Members(s) \intersect Items \/ \E v \in Members(s) \ Items : y = canonical[v]
             THEN canonical[s] ELSE B[y]]
  /\ set' = [set EXCEPT ![canonical[s]] = s]
  /\ blocked' = Tail(blocked)
  /\ Says("ok") /\ UNCHANGED <<depth, canonical, first, next>>

(* A client blocks a finished set whose outer sets, if any, are blocked.     *)
Hidden == {blocked[i] : i \in 1 .. Len(blocked)}
MayBlock(s) ==
  /\ canonical[s] # UNDEFINED /\ s \notin Hidden
  /\ next[s] = UNDEFINED \/ \E t \in Hidden : s \in Members(t)

Next ==
  /\ UNCHANGED compress
  /\ \/ \E v \in InUse \ Hidden : Set(v)
     \/ \E s \in InUse \intersect SetNames : MayBlock(s) /\ Block(s)
     \/ blocked # <<>> /\ UnBlock(Head(blocked))
     \/ /\ blocked = <<>>
        /\ \/ Clear \/ MakeSet
           \/ \E s \in InUse \intersect SetNames :
                FixSet(s) \/ Split(s) \/ \E v \in InUse : Merge(s, v)

Spec == Init /\ [][Next]_vars

-------------------------------------------------------------------------------
(* Every link leads to something in use or nowhere.                          *)
TypeOK ==
  /\ \A v \in InUse : B[v] \in InUse /\ next[v] \in InUse \union {UNDEFINED}
  /\ set \in [Index -> Index] /\ depth \in [Index -> 1 .. n + m]
  /\ \A s \in SetNames \intersect InUse :
       first[s] \in InUse \union {UNDEFINED} /\ canonical[s] \in InUse \union {UNDEFINED}

(* No item is in two sets, the lists end, Find ends at a root, and without   *)
(* blocked sets a root and only a root stands for a toplevel set; through    *)
(* any sequence of shrinking, splitting and blocking (nestedFamily.h:43).    *)
Shape ==
  /\ \A s, t \in SetNames \intersect InUse : s # t => Members(s) \intersect Members(t) = {}
  /\ \A v \in InUse : \E x \in Path(B, v) : B[x] = x
  /\ blocked = <<>> => \A v \in InUse :
       next[v] = UNDEFINED <=> \E x \in InUse : B[x] = x /\ set[x] = v /\ Root(B, v) = x

(* The arrays are a family of nested sets.                                   *)
Owner(v) ==
  IF \E s \in SetNames \intersect InUse : v \in Members(s)
  THEN CHOOSE s \in SetNames \intersect InUse : v \in Members(s) ELSE UNDEFINED
Nested == INSTANCE NestedSets WITH
  NoItem <- UNDEFINED,
  parent <- [v \in InUse |-> Owner(v)],
  fixed <- {s \in SetNames \intersect InUse : canonical[s] # UNDEFINED}
================================================================================
