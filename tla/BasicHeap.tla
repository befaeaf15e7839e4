------------------------------- MODULE BasicHeap -------------------------------
(****************************************************************************)
(* The naive priority queue of lib_src/basicHeap.cpp: an array v of items in *)
(* the order of descending keys, so that the least item is the last one.     *)
(* The key InfFloat says that an item is no member, but neither the          *)
(* constructor nor Init() writes it.                                         *)
(****************************************************************************)
EXTENDS Naturals, Sequences, SequencesExt

CONSTANTS
  n,          \* the items are 0 .. n-1
  Keys,       \* the keys that clients use
  InfFloat,   \* beyond every key
  Careful     \* clients name only members and items with the key InfFloat

Items == 0..(n - 1)

VARIABLES v, key, ret
vars == <<v, key, ret>>

maxIndex == Len(v)
Members == {v[i] : i \in 1..maxIndex}
Ok == <<"ok", n>>

(* The binary search of Insert and Delete, on the array a with the keys k:   *)
(* the pair of j and step when step is at most 1.                            *)
RECURSIVE Search(_, _, _, _, _)
Search(a, k, alpha, j, step) ==
  IF step <= 1 THEN <<j, step>>
  ELSE LET nextStep == step \div 2 IN
       IF k[a[j + nextStep + 1]] > alpha
       THEN Search(a, k, alpha, j + nextStep, step - nextStep)
       ELSE Search(a, k, alpha, j, nextStep)

(* The place, from 0, where an item with the key alpha goes.                 *)
PlaceFor(a, k, alpha) ==
  LET end == Search(a, k, alpha, 0, Len(a))
  IN IF end[2] > 0 /\ k[a[end[1] + 1]] > alpha THEN end[1] + 1 ELSE end[1]

AfterInsert(a, k, w, alpha) == InsertAt(a, PlaceFor(a, k, alpha) + 1, w)

(* Mutant: the scan does not start at the place that is found, but behind.   *)
ScanBehind(a, k, w) ==
  LET from == Search(a, k, k[w], 0, Len(a))[1]
  IN {i \in (from + 2)..Len(a) : a[i] = w}
(* The scan from the place that the search finds; it stops at a member only. *)
Scan(a, k, w) ==
  LET from == Search(a, k, k[w], 0, Len(a))[1]
  IN {i \in (from + 1)..Len(a) : a[i] = w}

(* The constructor leaves the keys uninitialised.                            *)
Init ==
  /\ v = <<>>
  /\ key \in [Items -> {InfFloat} \union Keys]
  /\ ret = Ok

(* Init().                                                                   *)
Clear ==
  /\ v' = <<>>
  /\ ret' = Ok
  /\ UNCHANGED key

(* A client does not insert a member again; the queue only notices if it is  *)
(* full.                                                                     *)
Insert(w, alpha) ==
  \/ /\ maxIndex >= n
     /\ ret' = <<"ERRejected", n>>
     /\ UNCHANGED <<v, key>>
  \/ /\ maxIndex < n /\ w \notin Members
     /\ v' = AfterInsert(v, key, w, alpha)
     /\ key' = [key EXCEPT ![w] = alpha]
     /\ ret' = Ok

Named(w) == Careful => w \in Members \/ key[w] = InfFloat

(* Where the scan finds nothing it runs beyond the array.                    *)
DeleteItem(w) ==
  /\ Named(w)
  /\ \/ /\ key[w] = InfFloat
        /\ ret' = <<"ERRejected", n>>
        /\ UNCHANGED <<v, key>>
     \/ /\ key[w] # InfFloat
        /\ LET hits == Scan(v, key, w) IN
           IF hits = {} THEN ret' = <<"fault", n>> /\ UNCHANGED <<v, key>>
           ELSE /\ v' = RemoveAt(v, CHOOSE i \in hits : \A j \in hits : i <= j)
                /\ key' = [key EXCEPT ![w] = InfFloat]
                /\ ret' = Ok

Delete ==
  \/ /\ maxIndex = 0
     /\ ret' = <<"ERRejected", n>>
     /\ UNCHANGED <<v, key>>
  \/ /\ maxIndex > 0
     /\ v' = Front(v)
     /\ key' = [key EXCEPT ![v[maxIndex]] = InfFloat]
     /\ ret' = <<"item", v[maxIndex]>>

(* Delete(w) and Insert(w,alpha).                                            *)
ChangeKey(w, alpha) ==
  /\ Named(w)
  /\ \/ /\ key[w] = InfFloat
        /\ ret' = <<"ERRejected", n>>
        /\ UNCHANGED <<v, key>>
     \/ /\ key[w] # InfFloat
        /\ LET hits == Scan(v, key, w)
               rest == RemoveAt(v, CHOOSE i \in hits : \A j \in hits : i <= j)
           IN IF hits = {} THEN ret' = <<"fault", n>> /\ UNCHANGED <<v, key>>
              ELSE /\ v' = AfterInsert(rest, key, w, alpha)
                   /\ key' = [key EXCEPT ![w] = alpha]
                   /\ ret' = Ok

Next ==
  \/ Clear \/ Delete
  \/ \E w \in Items :
       \/ DeleteItem(w)
       \/ \E alpha \in Keys : Insert(w, alpha) \/ ChangeKey(w, alpha)

Spec == Init /\ [][Next]_vars

-------------------------------------------------------------------------------
(* The array holds at most n items.                                          *)
TypeOK ==
  /\ v \in Seq(Items) /\ maxIndex <= n
  /\ key \in [Items -> {InfFloat} \union Keys]

(* The array is in the order of descending keys, on which the binary search  *)
(* relies, no item is there twice and no member counts as absent.            *)
Sorted ==
  /\ \A i, j \in 1..maxIndex : i < j => key[v[i]] >= key[v[j]] /\ v[i] # v[j]
  /\ \A w \in Members : key[w] # InfFloat

(* Delete(w) and ChangeKey(w,alpha) reject an item that is not a member, and *)
(* do not search for it beyond the array.                                    *)
ForeignRejected == ret # <<"fault", n>>

(* The array is a priority queue.                                            *)
Queue == INSTANCE PriorityQueue WITH
  NoItem <- n,
  prio <- [w \in Members |-> key[w]]
QueueSpec == Queue!Spec
================================================================================
