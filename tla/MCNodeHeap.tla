------------------------------ MODULE MCNodeHeap -------------------------------
(****************************************************************************)
(* The queues of NodeHeap with all sequences of calls, and besides, as the   *)
(* trees of small Fibonacci heaps are too flat for a cascading cut, all      *)
(* sequences of MaxOps calls on a large one.  It starts as the nodes of      *)
(* StartKeys have been inserted and one has been deleted, which leaves one   *)
(* tree.                                                                     *)
(****************************************************************************)
EXTENDS NodeHeap, SequencesExt

CONSTANTS
  nLarge,     \* nodes of the large heap; one of them is not queued at first
  MaxOps      \* bound on the calls for the large heap

VARIABLES g, gkey, gret, ops
gvars == <<g, gkey, gret, ops>>

Large == INSTANCE FibonacciHeap WITH
  n <- nLarge, f <- g, key <- gkey, ret <- gret, AnyChange <- FALSE

(* Key 1 for the node that is deleted, key 2 for the others.                 *)
StartKeys == [w \in 0..(nLarge - 1) |-> IF w = 0 THEN 1 ELSE 2]
StartHeap ==
  Large!AfterDelete(
    FoldLeft(LAMBDA h, i : Large!AfterInsert(h, StartKeys, i - 1),
             Large!EmptyHeap, [i \in 1..nLarge |-> i]),
    StartKeys, 0)

MCInit ==
  /\ Init
  /\ gret = Large!Ok /\ ops = 0
  /\ \/ methPQ = 2 /\ g = StartHeap /\ gkey = [StartKeys EXCEPT ![0] = 0]
     \/ methPQ # 2 /\ g = <<>> /\ gkey = <<>>

MCNext ==
  \/ ops = 0 /\ Next /\ UNCHANGED gvars
  \/ /\ methPQ = 2 /\ Members = {} /\ ret = Fibonacci!Ok /\ ops < MaxOps
     /\ Large!Next
     /\ ops' = ops + 1
     /\ UNCHANGED vars

MCSpec == MCInit /\ [][MCNext]_<<vars, gvars>>

-------------------------------------------------------------------------------
(* Whichever implementation it is, the order that Delete() relies on is kept *)
(* through every sequence of calls, and a search in the sorted array ends    *)
(* within it.  Cascading cuts, key changes and consolidations of trees with  *)
(* three levels keep every node of the large Fibonacci heap on one list, in  *)
(* heap order, with the least root known.                                    *)
OrderKept == Ordered /\ SearchEnds /\ (methPQ = 2 => Large!Forest /\ Large!MinimalLeast)
================================================================================
