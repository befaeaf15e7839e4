------------------------------ MODULE SparseGraph ------------------------------
(****************************************************************************)
(* The incidence lists of lib_src/sparseRepresentation.cpp: the start nodes  *)
(* SN, the links right to the next arc of a circular list, the arc first[v]  *)
(* where the list of v begins, and the links left, which are built when they *)
(* are asked for the first time and maintained from then on.  The graph has  *)
(* no layout points, no subgraph, no predecessor labels and no adjacency     *)
(* matrix, and is not referenced by other objects.  Calls with an index that *)
(* is out of range throw ERRange and change nothing; they are left out.      *)
(****************************************************************************)
EXTENDS Naturals, Sequences, FiniteSets

CONSTANTS
  MaxNode, MaxEdge,    \* bounds on nMax and on mAct,
  MaxSize,             \* on nAct+mAct,
  MaxDegree,           \* and on the length of a list
  NoNode, NoArc,
  AnySwap              \* SwapArcs is called for any two arcs

VARIABLES
  X,       \* the representation
  inc      \* auxiliary: the lists, as they are read by following the links
vars == <<X, inc>>

mAct(g) == Cardinality(DOMAIN g.SN) \div 2
Arcs(g) == 0 .. 2 * mAct(g) - 1
Edges(g) == 0 .. mAct(g) - 1
Nodes(g) == 0 .. g.nAct - 1
Rev(a) == IF a % 2 = 0 THEN a + 1 ELSE a - 1
Regular(g, a) == g.SN[a] # NoNode

(* The arcs from a on, until a link leads back to a; at most all arcs.       *)
Ring(g, a) ==
  LET at[k \in Nat] == IF k = 0 THEN a ELSE g.right[at[k - 1]]
      back == {k \in 1 .. 2 * mAct(g) : at[k] = a}
      len == IF back = {} THEN 2 * mAct(g) ELSE CHOOSE k \in back : \A l \in back : k <= l
  IN [k \in 1 .. len |-> at[k - 1]]
Members(s) == {s[i] : i \in DOMAIN s}
List(g, v) == IF g.first[v] = NoArc THEN <<>> ELSE Ring(g, g.first[v])
AllLists(g) == [v \in Nodes(g) |-> List(g, v)]

-------------------------------------------------------------------------------
(* Left(): the links to the left are generated on demand.                    *)
WithLeft(g) ==
  IF g.reverse THEN g
  ELSE [g EXCEPT !.reverse = TRUE,
                 !.left = [a \in Arcs(g) |-> IF \E b \in Arcs(g) : g.right[b] = a
                                             THEN CHOOSE b \in Arcs(g) : g.right[b] = a
                                             ELSE NoArc]]
Linked(g, a, b) == [g EXCEPT !.right[a] = b, !.left = IF g.reverse THEN [@ EXCEPT ![b] = a] ELSE @]

(* Mutant: the new arc is linked before the first one.                       *)
AttachBefore(g, v, a) ==
  LET f == g.first[v] h == IF f = NoArc THEN g ELSE WithLeft(g) IN
  IF f = NoArc THEN Linked([g EXCEPT !.first[v] = a], a, a)
  ELSE Linked(Linked([h EXCEPT !.first[v] = a], h.left[f], a), a, f)
(* SetRouting, for one arc: it comes right after First(v).                   *)
Attach(g, v, a) ==
  LET f == g.first[v] IN
  IF f = NoArc THEN Linked([g EXCEPT !.first[v] = a], a, a)
  ELSE Linked(Linked([g EXCEPT !.first[v] = a], a, g.right[f]), f, a)
SetRouting(g, a, u, v) ==
  Attach(Attach([g EXCEPT !.SN[a] = u, !.SN[Rev(a)] = v], u, a), v, Rev(a))

(* CancelArc, for one of the two arcs.                                       *)
Detach(g, a) ==
  LET v == g.SN[a]
      h == IF g.right[a] = a THEN [g EXCEPT !.first[v] = NoArc]
           ELSE [Linked(g, g.left[a], g.right[a]) EXCEPT
                   !.first[v] = IF @ = a THEN g.left[a] ELSE @]
  IN [h EXCEPT !.SN[a] = NoNode, !.right[a] = NoArc, !.left[a] = NoArc]

(* MarkExteriorFace: the lists of the nodes around the face on the left hand *)
(* side of an arc begin there.                                               *)
FaceFirst(g, a) ==
  LET at[k \in Nat] == IF k = 0 THEN a ELSE g.right[Rev(at[k - 1])]
      len == CHOOSE k \in 1 .. 2 * mAct(g) : at[k] = a /\ \A l \in 1 .. k - 1 : at[l] # a
      F[k \in 0 .. len] == IF k = 0 THEN g.first
                           ELSE [F[k - 1] EXCEPT ![g.SN[Rev(at[k - 1])]] = Rev(at[k - 1])]
  IN [g EXCEPT !.first = F[len]]

(* aExtNew!=ad^1 reads (aExtNew!=ad)^1: the exterior face is marked if the   *)
(* opposite arc is followed by the one that is cancelled.                    *)
CancelledArc(g, a) ==
  LET h == IF g.right[Rev(a)] = a THEN FaceFirst(g, a) ELSE g
  IN Detach(Detach(WithLeft(h), a), Rev(a))

(* CancelNode: while (first[v]!=NoArc) CancelArc(first[v]).                  *)
CancelledNode(g, v) ==
  LET C[k \in 0 .. mAct(g)] ==
        IF k = 0 THEN g
        ELSE LET h == C[k - 1] IN IF h.first[v] = NoArc THEN h ELSE CancelledArc(h, h.first[v])
  IN C[mAct(g)]

-------------------------------------------------------------------------------
(* SwapArcs, the links at one end of the two arcs.  The neighbours of a are  *)
(* relinked only if b is not alone, and vice versa.                          *)
SwappedLinks(g, a, b) ==
  LET al == g.left[a]  ar == g.right[a]  bl == g.left[b]  br == g.right[b]
      Put(h, x, l, r) == [h EXCEPT !.left[x] = l, !.right[x] = r]
      Meet(h, x, l, r) == IF r = NoArc THEN h ELSE [h EXCEPT !.left[r] = x, !.right[l] = x]
      h1 == IF b # br THEN Meet(Put(g, a, bl, br), b, al, ar) ELSE Put(g, a, a, a)
  IN IF al = b \/ bl = a THEN g
     ELSE IF a # ar THEN Meet(Put(h1, b, al, ar), a, bl, br) ELSE Put(h1, b, b, b)

SwappedFirst(g, a, b) ==
  LET u1 == g.SN[a]  v1 == g.SN[Rev(a)]  u2 == g.SN[b]  v2 == g.SN[Rev(b)]
      Begin(f, v, x, y) == IF v # NoNode /\ f[v] = x THEN [f EXCEPT ![v] = y] ELSE f
      f1 == Begin(Begin(g.first, u1, a, b), v1, Rev(a), Rev(b))
      f2 == IF u1 = u2 THEN f1 ELSE Begin(f1, u2, b, a)
  IN IF v1 = v2 THEN f2 ELSE Begin(f2, v2, Rev(b), Rev(a))

SwappedArcs(g, a, b) ==
  IF a = b THEN g
  ELSE LET h == WithLeft([g EXCEPT !.SN = [x \in Arcs(g) |->
                   CASE x = a -> g.SN[b] [] x = b -> g.SN[a]
                     [] x = Rev(a) -> g.SN[Rev(b)] [] x = Rev(b) -> g.SN[Rev(a)] [] OTHER -> g.SN[x]],
                 !.first = SwappedFirst(g, a, b)])
           k == SwappedLinks(h, a, b)
       IN IF b = Rev(a) THEN k ELSE SwappedLinks(k, Rev(a), Rev(b))

(* SwapNodes walks through both lists.                                       *)
SwappedNodes(g, u, v) ==
  LET us == Members(List(g, u))  vs == Members(List(g, v)) IN
  IF u = v THEN g
  ELSE [g EXCEPT !.SN = [a \in Arcs(g) |-> IF a \in us THEN v ELSE IF a \in vs THEN u ELSE @[a]],
                 !.first = [@ EXCEPT ![u] = g.first[v], ![v] = g.first[u]]]

-------------------------------------------------------------------------------
(* Mutant: the last edge is turned round when it takes the number.           *)
DeletedTurned(g, a) ==
  LET e == a - (a % 2)
      h == SwappedArcs(IF Regular(g, e) THEN CancelledArc(g, e) ELSE g, e + 1, 2 * mAct(g) - 2)
      Cut(f) == [x \in 0 .. 2 * mAct(g) - 3 |-> f[x]]
  IN [h EXCEPT !.SN = Cut(@), !.right = Cut(@), !.left = IF h.reverse THEN Cut(@) ELSE @]
(* DeleteArc: the last edge takes the number of the one that is deleted.     *)
DeletedArc(g, a) ==
  LET e == a - (a % 2)
      h == SwappedArcs(IF Regular(g, e) THEN CancelledArc(g, e) ELSE g, e, 2 * mAct(g) - 2)
      Cut(f) == [x \in 0 .. 2 * mAct(g) - 3 |-> f[x]]
  IN [h EXCEPT !.SN = Cut(@), !.right = Cut(@), !.left = IF h.reverse THEN Cut(@) ELSE @]

(* DeleteArcs: every turn of the loop deletes an edge, or goes on to another.*)
DeletedArcs(g) ==
  LET D[k \in 0 .. mAct(g)] ==
        IF k = 0 THEN <<0, g>>
        ELSE LET a == D[k - 1][1]  h == D[k - 1][2] IN
             IF Regular(h, a) THEN <<a + 2, h>> ELSE <<a, DeletedArc(h, a)>>
  IN D[mAct(g)][2]

DeletedNode(g, v) ==
  LET h == SwappedNodes(CancelledNode(g, v), v, g.nAct - 1)
  IN DeletedArcs([h EXCEPT !.nAct = @ - 1])

DeletedNodes(g) ==
  LET D[k \in 0 .. g.nAct] ==
        IF k = 0 THEN <<0, g>>
        ELSE LET v == D[k - 1][1]  h == D[k - 1][2] IN
             IF h.first[v] = NoArc THEN <<v, DeletedNode(h, v)>> ELSE <<v + 1, h>>
  IN D[g.nAct][2]

-------------------------------------------------------------------------------
(* All slots for nodes are empty, whether they are allocated yet or not.     *)
Empty(k) == [nAct |-> k, SN |-> <<>>, right |-> <<>>, left |-> <<>>, reverse |-> FALSE,
             first |-> [v \in 0 .. MaxNode - 1 |-> NoArc]]
Init == X \in {Empty(k) : k \in 1 .. MaxNode} /\ inc = AllLists(X)

(* InsertNode: a slot that was in use before is taken as it is.              *)
InsertNode ==
  /\ X.nAct < MaxNode /\ X.nAct + mAct(X) < MaxSize
  /\ X' = [X EXCEPT !.nAct = @ + 1]

InsertArc(u, v) ==
  LET Longer(f) == [a \in 0 .. 2 * mAct(X) + 1 |-> IF a \in Arcs(X) THEN f[a] ELSE NoArc] IN
  /\ mAct(X) < MaxEdge /\ X.nAct + mAct(X) < MaxSize
  /\ X' = SetRouting([X EXCEPT !.SN = Longer(@), !.right = Longer(@),
                               !.left = IF X.reverse THEN Longer(@) ELSE @], 2 * mAct(X), u, v)

CancelArc(a) == Regular(X, a) /\ X' = CancelledArc(X, a)
CancelNode(v) == X' = CancelledNode(X, v)
DeleteArc(a) == X' = DeletedArc(X, a)
DeleteNode(v) == X' = DeletedNode(X, v)
DeleteArcs == X' = DeletedArcs(X)
DeleteNodes == X' = DeletedNodes(X)

(* Both arcs are alone in their lists, or none is, at either end.            *)
Alike(a, b) == (X.right[a] = a) = (X.right[b] = b)
SwapArcs(a, b) ==
  /\ ~AnySwap => Alike(a, b) /\ Alike(Rev(a), Rev(b))
  /\ X' = SwappedArcs(X, a, b)
SwapNodes(u, v) == X' = SwappedNodes(X, u, v)

(* Mutant: the list is cut behind the arc that is contracted.                *)
ContractedShort(g, a) ==
  LET u == g.SN[a]  v == g.SN[Rev(a)]  s == Ring(g, Rev(a))
      h == [g EXCEPT !.SN = [x \in Arcs(g) |-> IF x \in Members(s) THEN u ELSE @[x]]]
  IN CancelledArc([Linked(Linked(h, Rev(a), g.right[a]), a, Rev(a)) EXCEPT !.first[v] = NoArc], a)
(* ContractArc: the list of the end node is inserted behind the arc, which   *)
(* is a loop then, and cancelled.                                            *)
Contracted(g, a) ==
  LET u == g.SN[a]  v == g.SN[Rev(a)]  s == Ring(g, Rev(a))
      h == [g EXCEPT !.SN = [x \in Arcs(g) |-> IF x \in Members(s) THEN u ELSE @[x]]]
  IN CancelledArc([Linked(Linked(h, s[Len(s)], g.right[a]), a, Rev(a)) EXCEPT !.first[v] = NoArc], a)
ContractArc(a) == X.SN[a] # X.SN[Rev(a)] /\ X' = Contracted(X, a)

(* IdentifyNodes: both nodes have arcs, and they are different.              *)
IdentifyNodes(u, v) ==
  LET s == List(X, v)
      h == [X EXCEPT !.SN = [x \in Arcs(X) |-> IF x \in Members(s) THEN u ELSE @[x]]]
  IN /\ u # v /\ X.first[u] # NoArc /\ X.first[v] # NoArc
     /\ X' = [Linked(Linked(h, s[Len(s)], X.right[X.first[u]]), X.first[u], X.first[v])
                EXCEPT !.first[v] = NoArc]

SetFirst(v, a) == X.SN[a] = v /\ X' = [X EXCEPT !.first[v] = a]

(* SetRight, for arcs that occur in this order.                              *)
SetRight(a1, a2, a3) ==
  LET g == WithLeft(X)
      s == Ring(X, a1)
      At(a) == CHOOSE i \in DOMAIN s : s[i] = a
  IN /\ Regular(X, a1) /\ a1 \notin {a2, a3}
     /\ X.SN[a1] = X.SN[a2] /\ X.SN[a1] = X.SN[a3]
     /\ At(a2) <= At(a3)
     /\ X' = IF g.right[a1] = a2 THEN g
             ELSE Linked(Linked(Linked(g, a1, a2), a3, g.right[a1]), g.left[a2], g.right[a3])

RouteArc(a, u, v) ==
  X' = IF X.SN[a] = u /\ X.SN[Rev(a)] = v THEN X
       ELSE SetRouting(IF Regular(X, a) THEN CancelledArc(X, a) ELSE X, a, u, v)

MarkExteriorFace(a) == Regular(X, a) /\ X' = FaceFirst(X, a)
Left == Arcs(X) # {} /\ ~X.reverse /\ X' = WithLeft(X)
ReleaseReverseIncidences == X.reverse /\ X' = [X EXCEPT !.reverse = FALSE, !.left = <<>>]

Step ==
  \/ InsertNode \/ DeleteArcs \/ DeleteNodes \/ Left \/ ReleaseReverseIncidences
  \/ \E u, v \in Nodes(X) : InsertArc(u, v) \/ SwapNodes(u, v) \/ IdentifyNodes(u, v)
  \/ \E v \in Nodes(X) : CancelNode(v) \/ DeleteNode(v) \/ \E a \in Arcs(X) : SetFirst(v, a)
  \/ \E a \in Arcs(X) : CancelArc(a) \/ DeleteArc(a) \/ ContractArc(a) \/ MarkExteriorFace(a)
  \/ \E a \in Arcs(X), u, v \in Nodes(X) : RouteArc(a, u, v)
  \/ \E e \in Edges(X), b \in Arcs(X) : SwapArcs(2 * e, b)
  \/ \E a, b \in Arcs(X) : \E c \in Arcs(X) : SetRight(a, b, c)
Next == Step /\ inc' = AllLists(X') /\ \A v \in DOMAIN inc' : Len(inc'[v]) <= MaxDegree

Spec == Init /\ [][Next]_vars

-------------------------------------------------------------------------------
(* Start nodes, links and first arcs are nodes and arcs of the graph; a      *)
(* cancelled arc has neither.                                                *)
TypeOK ==
  /\ X.nAct \in 0 .. MaxNode
  /\ X.first \in [0 .. MaxNode - 1 -> Arcs(X) \union {NoArc}]
  /\ X.SN \in [Arcs(X) -> Nodes(X) \union {NoNode}]
  /\ X.right \in [Arcs(X) -> Arcs(X) \union {NoArc}]
  /\ \A a \in Arcs(X) : (X.SN[a] = NoNode) = (X.right[a] = NoArc)

(* sparseRepresentation: every list of the graph is circular and has exactly *)
(* the arcs that start at its node, whatever is inserted, cancelled, moved,  *)
(* swapped, contracted and renumbered, the links to the left lead back, and  *)
(* the slots of nodes that have been deleted are empty.                      *)
ListsWhole ==
  /\ \A v \in Nodes(X) : /\ Members(inc[v]) = {a \in Arcs(X) : X.SN[a] = v}
                         /\ inc[v] # <<>> => X.right[inc[v][Len(inc[v])]] = X.first[v]
  /\ \A v \in DOMAIN X.first \ Nodes(X) : X.first[v] = NoArc
  /\ X.reverse => /\ DOMAIN X.left = Arcs(X)
                  /\ \A a \in Arcs(X) : IF Regular(X, a) THEN X.left[X.right[a]] = a
                                        ELSE X.left[a] = NoArc

(* The representation implements lists of arcs, one for every node.          *)
Lists == INSTANCE IncidenceLists WITH m <- mAct(X)
================================================================================
