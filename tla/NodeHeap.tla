------------------------------- MODULE NodeHeap --------------------------------
(****************************************************************************)
(* The priority queue of a graph object (abstractMixedGraph::NewNodeHeap):   *)
(* the option methPQ chooses one of the implementations when the queue is    *)
(* created, and the solvers work with what they get.  All implementations    *)
(* use the same client operations, and share the variables they can.         *)
(****************************************************************************)
EXTENDS Naturals, Sequences

CONSTANTS
  nBasic, nBinary, nFibonacci,  \* the number of nodes, for each implementation
  Keys,          \* the keys that occur
  InfFloat,      \* beyond every key
  SparseFactor,  \* see BinaryHeap
  AnyDelete,     \* see BinaryHeap
  Careful,       \* see BasicHeap
  AnyChange      \* see FibonacciHeap

VARIABLES
  methPQ,              \* the implementation: 0, 1 or 2
  v, index, f,         \* its arrays; an unused one is empty
  key, ret

vars == <<methPQ, v, index, f, key, ret>>

Basic == INSTANCE BasicHeap WITH n <- nBasic
Binary == INSTANCE BinaryHeap WITH n <- nBinary
Fibonacci == INSTANCE FibonacciHeap WITH n <- nFibonacci

Init ==
  \/ methPQ = 0 /\ Basic!Init /\ index = <<>> /\ f = <<>>
  \/ methPQ = 1 /\ Binary!Init /\ f = <<>>
  \/ methPQ = 2 /\ Fibonacci!Init /\ v = <<>> /\ index = <<>>

Next ==
  /\ UNCHANGED methPQ
  /\ \/ methPQ = 0 /\ Basic!Next /\ UNCHANGED <<index, f>>
     \/ methPQ = 1 /\ Binary!Next /\ UNCHANGED f
     \/ methPQ = 2 /\ Fibonacci!Next /\ UNCHANGED <<v, index>>

Spec == Init /\ [][Next]_vars

-------------------------------------------------------------------------------
Members == IF methPQ = 2 THEN Fibonacci!Queued ELSE {v[i] : i \in 1..Len(v)}
Peek == CASE methPQ = 0 -> v[Len(v)] [] methPQ = 1 -> v[1] [] methPQ = 2 -> f.minimal

(* Whichever implementation it is, its arrays hold items and stay in bounds. *)
TypeOK ==
  /\ methPQ = 0 => Basic!TypeOK
  /\ methPQ = 1 => Binary!TypeOK
  /\ methPQ = 2 => Fibonacci!TypeOK

(* The arrays keep the order that Delete() relies on, descending or in heap  *)
(* order, whatever the sequence of insertions, deletions and key changes in  *)
(* both directions, and index is inverse to v, as binaryHeap::Display()      *)
(* asserts; the trees of the Fibonacci heap stay a forest in heap order,     *)
(* with every node on one list, through cuts and consolidations.             *)
Ordered ==
  /\ methPQ = 0 => Basic!Sorted
  /\ methPQ = 1 => Binary!HeapOrder /\ Binary!IndexConsistent
  /\ methPQ = 2 => Fibonacci!Forest

(* The search of basicHeap for an item ends within the array.                *)
SearchEnds == methPQ = 0 => Basic!ForeignRejected

(* Peek() names a member with the least key, the one that Delete() takes.    *)
PeekLeast == Members # {} => Peek \in Members /\ \A w \in Members : key[Peek] <= key[w]

(* Whatever methPQ says, a solver gets a priority queue: Delete() returns a  *)
(* member with the least key and every key is what was written last.         *)
NoItem == nBasic + nBinary + nFibonacci
Queue == INSTANCE PriorityQueue WITH
  Items <- 0..(NoItem - 1),
  prio <- [w \in Members |-> key[w]],
  ret <- IF ret[1] = "item" THEN ret ELSE <<ret[1], NoItem>>
QueueStep == Queue!Next \/ Queue!Same
================================================================================
