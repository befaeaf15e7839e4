------------------------------ MODULE BinaryHeap -------------------------------
(****************************************************************************)
(* The binary heap of lib_src/binaryHeap.cpp.  v is the heap, of which only  *)
(* the entries 1 .. maxIndex are ever read, index finds an item in v, and    *)
(* key holds the keys, stale ones included.                                  *)
(****************************************************************************)
EXTENDS Naturals, Sequences

CONSTANTS
  n,             \* the items are 0 .. n-1
  Keys,          \* the keys that occur
  SparseFactor,  \* Init() empties a heap with fewer than n/SparseFactor items
                 \* item by item; the code has 100
  AnyDelete      \* the client calls Delete(w) also for an item that is not
                 \* the last of v

Items == 0..(n - 1)
NoIndex == n + 1       \* UITEM_MAX(), beyond every index

VARIABLES v, index, key, ret
vars == <<v, index, key, ret>>

maxIndex == Len(v)
Ok == <<"ok", n>>
Heap == [v |-> v, index |-> index]

Swap(h, i, j) ==
  [v |-> [h.v EXCEPT ![i] = h.v[j], ![j] = h.v[i]],
   index |-> [h.index EXCEPT ![h.v[j]] = i, ![h.v[i]] = j]]

(* Both operators take the heap h, the keys k and the place i to start from. *)
RECURSIVE UpHeap(_, _, _)
UpHeap(h, k, i) ==
  IF i > 1 /\ k[h.v[i \div 2]] > k[h.v[i]]
  THEN UpHeap(Swap(h, i, i \div 2), k, i \div 2)
  ELSE [h EXCEPT !.index[h.v[i]] = i]

(* Mutant: either child is taken, not the lesser one.                        *)
RECURSIVE DownHeapOneChild(_, _, _)
DownHeapOneChild(h, k, i) ==
  LET down(j) == DownHeapOneChild(Swap(h, i, j), k, j)
      less(j) == j <= Len(h.v) /\ k[h.v[j]] < k[h.v[i]]
  IN IF less(2*i) THEN down(2*i) ELSE IF less(2*i + 1) THEN down(2*i + 1) ELSE h

RECURSIVE DownHeap(_, _, _)
DownHeap(h, k, i) ==
  LET try(g, j) == IF j <= Len(g.v) /\ k[g.v[j]] < k[g.v[i]]
                   THEN DownHeap(Swap(g, i, j), k, j) ELSE g
  IN try(try(h, 2*i), 2*i + 1)

(* Delete() on the heap h with keys k.                                       *)
AfterDelete(h, k) ==
  LET last == Len(h.v)
      w == h.v[1]
      x == h.v[last]
      taken == [h.index EXCEPT ![w] = NoIndex]
  IN IF last = 1 THEN [v |-> <<>>, index |-> taken]
     ELSE DownHeap([v |-> [i \in 1..(last - 1) |-> IF i = 1 THEN x ELSE h.v[i]],
                    index |-> [taken EXCEPT ![x] = 1]], k, 1)

RECURSIVE DeleteAll(_, _)
DeleteAll(h, k) == IF h.v = <<>> THEN h ELSE DeleteAll(AfterDelete(h, k), k)

(* The constructor leaves the keys uninitialised.                            *)
Init ==
  /\ v = <<>>
  /\ index = [w \in Items |-> NoIndex]
  /\ key \in [Items -> Keys]
  /\ ret = Ok

(* Init().                                                                   *)
Clear ==
  LET h == IF maxIndex * SparseFactor < n THEN DeleteAll(Heap, key)
           ELSE [v |-> <<>>, index |-> [w \in Items |-> NoIndex]]
  IN /\ v' = h.v /\ index' = h.index
     /\ ret' = Ok
     /\ UNCHANGED key

(* Mutant: the new item stays where it is put.                               *)
InsertUnsorted(w, alpha) ==
  /\ index[w] = NoIndex
  /\ key' = [key EXCEPT ![w] = alpha]
  /\ v' = Append(v, w) /\ index' = [index EXCEPT ![w] = maxIndex + 1]
  /\ ret' = Ok

(* Mutant: a full heap takes another item.                                   *)
InsertOverflow(w, alpha) ==
  /\ maxIndex >= n \/ index[w] = NoIndex
  /\ key' = [key EXCEPT ![w] = alpha]
  /\ v' = Append(v, w) /\ index' = [index EXCEPT ![w] = maxIndex + 1]
  /\ ret' = Ok

(* A client does not insert a member again; the heap only notices if it is   *)
(* full.                                                                     *)
Insert(w, alpha) ==
  \/ /\ maxIndex >= n
     /\ ret' = <<"ERRejected", n>>
     /\ UNCHANGED <<v, index, key>>
  \/ /\ maxIndex < n /\ index[w] = NoIndex
     /\ LET k == [key EXCEPT ![w] = alpha]
            h == UpHeap([v |-> Append(v, w),
                         index |-> [index EXCEPT ![w] = maxIndex + 1]], k, maxIndex + 1)
        IN key' = k /\ v' = h.v /\ index' = h.index
     /\ ret' = Ok

(* Delete(w), which does not move the index of the item it puts into the     *)
(* gap, and does not move that item upwards.                                 *)
DeleteItem(w) ==
  \/ /\ index[w] = NoIndex
     /\ ret' = <<"ERRange", n>>
     /\ UNCHANGED <<v, index, key>>
  \/ /\ index[w] # NoIndex /\ maxIndex > 0
     /\ AnyDelete \/ index[w] = maxIndex
     /\ LET rest == [i \in 1..(maxIndex - 1) |->
                       IF i = index[w] THEN v[maxIndex] ELSE v[i]]
            h == [v |-> rest, index |-> [index EXCEPT ![w] = NoIndex]]
            g == IF index[w] <= maxIndex - 1 THEN DownHeap(h, key, index[w]) ELSE h
        IN v' = g.v /\ index' = g.index
     /\ ret' = Ok
     /\ UNCHANGED key

Delete ==
  \/ /\ maxIndex = 0
     /\ ret' = <<"ERRejected", n>>
     /\ UNCHANGED <<v, index, key>>
  \/ /\ maxIndex > 0
     /\ LET h == AfterDelete(Heap, key) IN v' = h.v /\ index' = h.index
     /\ ret' = <<"item", v[1]>>
     /\ UNCHANGED key

(* UpHeap and DownHeap reject an index beyond the heap; the key is changed   *)
(* by then.                                                                  *)
ChangeKey(w, alpha) ==
  \/ /\ index[w] = NoIndex
     /\ ret' = <<"ERRange", n>>
     /\ UNCHANGED <<v, index, key>>
  \/ /\ index[w] # NoIndex
     /\ LET k == [key EXCEPT ![w] = alpha]
            known == index[w] <= maxIndex
            h == IF ~known THEN Heap
                 ELSE IF alpha > key[w] THEN DownHeap(Heap, k, index[w])
                 ELSE UpHeap(Heap, k, index[w])
        IN /\ key' = k /\ v' = h.v /\ index' = h.index
           /\ ret' = IF known THEN Ok ELSE <<"ERRange", n>>

Next ==
  \/ Clear \/ Delete
  \/ \E w \in Items :
       \/ DeleteItem(w)
       \/ \E alpha \in Keys : Insert(w, alpha) \/ ChangeKey(w, alpha)

Spec == Init /\ [][Next]_vars

-------------------------------------------------------------------------------
(* The heap holds items, the index holds places or NoIndex.                  *)
TypeOK ==
  /\ v \in Seq(Items) /\ maxIndex <= n
  /\ index \in [Items -> 0..NoIndex]
  /\ key \in [Items -> Keys]

(* What Display() asserts: v and index are inverse to each other.            *)
IndexConsistent == \A i \in 1..maxIndex : index[v[i]] = i

(* No item has a lesser key than its parent, whatever sequence of insertions *)
(* and key changes in both directions has led there, and exactly the items   *)
(* of the heap have an index.                                                *)
HeapOrder ==
  /\ \A i \in 2..maxIndex : key[v[i \div 2]] <= key[v[i]]
  /\ \A w \in Items : index[w] # NoIndex <=> \E i \in 1..maxIndex : v[i] = w

(* The heap is a priority queue.                                             *)
Queue == INSTANCE PriorityQueue WITH
  NoItem <- n,
  prio <- [w \in {v[i] : i \in 1..maxIndex} |-> key[w]]
QueueSpec == Queue!Spec
================================================================================
