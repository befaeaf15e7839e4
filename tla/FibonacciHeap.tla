----------------------------- MODULE FibonacciHeap -----------------------------
(****************************************************************************)
(* The Fibonacci heap of lib_src/fibonacciHeap.cpp.  The doubly linked list  *)
(* of the children of a node (first, next, previous) and the list of the     *)
(* roots (firstLink, nextLink) are sequences here, and pred[x] is the node   *)
(* on whose list x is.  bucket is only used within Restore(), which clears   *)
(* it first.  What the arrays hold for an item that is not queued is never   *)
(* read before Insert() writes it; here it is 0 or an empty list.            *)
(****************************************************************************)
EXTENDS Naturals, Sequences, SequencesExt

CONSTANTS
  n,             \* the items are 0 .. n-1, n is UNDEFINED
  Keys,          \* the keys that occur
  SparseFactor,  \* Init() empties a heap with fewer than n/SparseFactor items
                 \* item by item; the code has 100
  AnyChange      \* the client changes keys in any way, also such that another
                 \* root becomes the least one

Items == 0..(n - 1)
UNDEFINED == n

VARIABLES
  f,      \* children, rank and status of the nodes, roots, minimal, card
  key,
  ret

Ok == <<"ok", n>>
IsChild(h, w) == h.status[w] \in {"UNMARKED_CHILD", "MARKED_CHILD"}
IsRoot(h, w) == h.status[w] = "ROOT_NODE"

pred(h, x) == CHOOSE w \in Items : Contains(h.children[w], x)

EmptyHeap ==
  [children |-> [w \in Items |-> <<>>],
   rank |-> [w \in Items |-> 0],
   status |-> [w \in Items |-> "NOT_QUEUED"],
   roots |-> <<>>, minimal |-> UNDEFINED, card |-> 0]

(* The operators below take the heap h and the keys k.                       *)
Lesser(h, k, w) ==
  IF h.minimal = UNDEFINED \/ k[w] < k[h.minimal] THEN w ELSE h.minimal

(* v leaves its siblings and is pushed on the list of the roots.             *)
Detach(h, k, v) ==
  [h EXCEPT !.children[pred(h, v)] = Remove(@, v),
            !.status[v] = "ROOT_NODE",
            !.roots = <<v>> \o @,
            !.minimal = Lesser(h, k, v)]

(* Mutant: a cascading cut does not go on to correct the rank.               *)
RECURSIVE CutReturns(_, _, _)
CutReturns(h, k, v) ==
  LET x == pred(h, v)
      g == Detach(h, k, v)
  IN IF g.status[x] = "MARKED_CHILD" THEN CutReturns(g, k, x)
     ELSE [g EXCEPT !.rank[x] = @ - 1,
                    !.status[x] = IF @ = "UNMARKED_CHILD" THEN "MARKED_CHILD" ELSE @]

(* Split off the subtree of v; its former predecessor x loses a child, and   *)
(* is split off itself if it has lost one before.                            *)
RECURSIVE Cut(_, _, _)
Cut(h, k, v) ==
  LET x == pred(h, v)
      g == Detach(h, k, v)
      c == IF g.status[x] = "MARKED_CHILD" THEN Cut(g, k, x)
           ELSE IF g.status[x] = "UNMARKED_CHILD"
           THEN [g EXCEPT !.status[x] = "MARKED_CHILD"] ELSE g
  IN [c EXCEPT !.rank[x] = @ - 1]

(* Merge the trees of the roots v and w, which have equal rank, and go on if *)
(* the bucket of the next rank is occupied.  s is the heap and its buckets.  *)
RECURSIVE Link(_, _, _, _)
Link(s, k, v, w) ==
  LET lo == IF k[v] < k[w] THEN v ELSE w
      hi == IF k[v] < k[w] THEN w ELSE v
      r == s.h.rank[lo] + 1
      h == [s.h EXCEPT !.status[hi] = "UNMARKED_CHILD",
                       !.children[lo] = <<hi>> \o @, !.rank[lo] = r]
      b == [s.bucket EXCEPT ![r - 1] = IF @ \in {v, w} THEN UNDEFINED ELSE @]
  IN IF b[r] = UNDEFINED THEN [h |-> h, bucket |-> [b EXCEPT ![r] = lo]]
     ELSE Link([h |-> h, bucket |-> b], k, lo, b[r])

(* Put the root x into the bucket of its rank.                               *)
Consolidate(s, k, x) ==
  IF ~IsRoot(s.h, x) THEN s
  ELSE LET y == s.bucket[s.h.rank[x]] IN
       IF y = UNDEFINED THEN [s EXCEPT !.bucket[s.h.rank[x]] = x]
       ELSE Link(s, k, x, y)

(* Mutant: the minimum is kept while it is a member.                         *)
LeastRootKept(h, k) == IF h.minimal \in Items THEN h.minimal ELSE UNDEFINED
(* The first root of least key.                                              *)
LeastRoot(h, k) ==
  FoldLeft(LAMBDA best, x : IF best = UNDEFINED \/ k[x] < k[best] THEN x ELSE best,
           UNDEFINED, h.roots)

(* Consolidate the buckets, sweep the list of the roots, find the minimum.   *)
Restore(h, k) ==
  LET g == FoldLeft(LAMBDA s, x : Consolidate(s, k, x),
                    [h |-> h, bucket |-> [i \in Items |-> UNDEFINED]], h.roots).h
      swept == [g EXCEPT !.roots = SelectSeq(@, LAMBDA x : IsRoot(g, x))]
  IN [swept EXCEPT !.minimal = LeastRoot(swept, k)]

(* The children of w become roots.                                           *)
ChildrenCut(h, k, w) == FoldLeft(LAMBDA g, x : Cut(g, k, x), h, h.children[w])

(* Delete(w) of a member.                                                    *)
AfterDelete(h, k, w) ==
  LET g == ChildrenCut(h, k, w)
      c == IF IsChild(g, w) THEN Cut(g, k, w) ELSE g
  IN Restore([c EXCEPT !.status[w] = "NOT_QUEUED", !.card = @ - 1], k)

RECURSIVE DeleteAll(_, _)
DeleteAll(h, k) == IF h.card = 0 THEN h ELSE DeleteAll(AfterDelete(h, k, h.minimal), k)

(* Insert(w,alpha), with alpha in k already.                                 *)
AfterInsert(h, k, w) ==
  [h EXCEPT !.children[w] = <<>>, !.rank[w] = 0, !.status[w] = "ROOT_NODE",
            !.card = @ + 1, !.roots = <<w>> \o @, !.minimal = Lesser(h, k, w)]

NoKeys == [w \in Items |-> 0]

Init ==
  /\ f = EmptyHeap
  /\ key = NoKeys
  /\ ret = Ok

(* Init().                                                                   *)
Clear ==
  /\ f' = IF f.card * SparseFactor < n THEN DeleteAll(f, key) ELSE EmptyHeap
  /\ key' = NoKeys
  /\ ret' = Ok

Insert(w, alpha) ==
  \/ /\ f.status[w] # "NOT_QUEUED"
     /\ ret' = <<"ERRejected", n>>
     /\ UNCHANGED <<f, key>>
  \/ /\ f.status[w] = "NOT_QUEUED"
     /\ key' = [key EXCEPT ![w] = alpha]
     /\ f' = AfterInsert(f, key', w)
     /\ ret' = Ok

DeleteItem(w) ==
  \/ /\ f.status[w] = "NOT_QUEUED"
     /\ ret' = <<"ERRange", n>>
     /\ UNCHANGED <<f, key>>
  \/ /\ f.status[w] # "NOT_QUEUED"
     /\ f' = AfterDelete(f, key, w)
     /\ key' = [key EXCEPT ![w] = 0]
     /\ ret' = Ok

Delete ==
  \/ /\ f.card = 0
     /\ ret' = <<"ERRejected", n>>
     /\ UNCHANGED <<f, key>>
  \/ /\ f.card # 0
     /\ f' = AfterDelete(f, key, f.minimal)
     /\ key' = [key EXCEPT ![f.minimal] = 0]
     /\ ret' = <<"item", f.minimal>>

(* ChangeKey does not look at the other roots: it is up to the client that   *)
(* the minimum stays the least root.                                         *)
MinimumStays(w, alpha) ==
  \/ IsChild(f, w)
  \/ w = f.minimal /\ alpha <= key[w]
  \/ w # f.minimal /\ alpha >= key[f.minimal]

ChangeKey(w, alpha) ==
  \/ /\ f.status[w] = "NOT_QUEUED"
     /\ ret' = <<"ERRange", n>>
     /\ UNCHANGED <<f, key>>
  \/ /\ f.status[w] # "NOT_QUEUED"
     /\ AnyChange \/ MinimumStays(w, alpha)
     /\ LET k == [key EXCEPT ![w] = alpha]
            lesser == SelectSeq(f.children[w], LAMBDA x : k[x] < alpha)
        IN /\ key' = k
           /\ f' = IF alpha > key[w]
                   THEN FoldLeft(LAMBDA h, x : Cut(h, k, x), f, lesser)
                   ELSE IF IsChild(f, w) /\ k[pred(f, w)] > alpha THEN Cut(f, k, w)
                   ELSE f
     /\ ret' = Ok

Next ==
  \/ Clear \/ Delete
  \/ \E w \in Items :
       \/ DeleteItem(w)
       \/ \E alpha \in Keys : Insert(w, alpha) \/ ChangeKey(w, alpha)

-------------------------------------------------------------------------------
Queued == {w \in Items : f.status[w] # "NOT_QUEUED"}

(* The nodes hold items and the counters stay in range.                      *)
TypeOK ==
  /\ f.minimal \in 0..n /\ f.card \in 0..n
  /\ f.rank \in [Items -> 0..n]
  /\ f.roots \in Seq(Items)

(* What Display() asserts, and more: the queued nodes form a forest in heap  *)
(* order, every one is on exactly one list, the ranks count the children     *)
(* and card the nodes.                                                       *)
Forest ==
  LET lists == <<f.roots>> \o [i \in 1..n |->
                 IF i - 1 \in Queued THEN f.children[i - 1] ELSE <<>>]
      all == FlattenSeq(lists)
  IN /\ Len(all) = f.card /\ {all[i] : i \in 1..Len(all)} = Queued
     /\ \A w \in Queued :
          /\ IsRoot(f, w) <=> \E i \in 1..Len(f.roots) : f.roots[i] = w
          /\ f.rank[w] = Len(f.children[w])
          /\ \A i \in 1..Len(f.children[w]) :
               key[w] <= key[f.children[w][i]]

(* Peek() and Delete() take a member with the least key.                     *)
MinimalLeast ==
  Queued # {} => f.minimal \in Queued /\ \A w \in Queued : key[f.minimal] <= key[w]
================================================================================
