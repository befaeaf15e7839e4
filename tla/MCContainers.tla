----------------------------- MODULE MCContainers ------------------------------
(****************************************************************************)
(* One instance each of the static queues, the static stacks, the priority   *)
(* queues, the hash table, the disjoint set family, the shrinking family and *)
(* the sparse representation of a graph.  They do not interact, so a         *)
(* behaviour works with one of them and leaves the others as they were       *)
(* constructed.                                                              *)
(****************************************************************************)
EXTENDS Naturals, Sequences

CONSTANTS
  nList,                \* items of the static queues and stacks
  Handles, Master,        \* the family of static queues, and of stacks
  NoHandle,
  nFamily,              \* items of the disjoint set family
  nNested, mNested,     \* items and sets of the shrinking family
  HashItems, HashKeys, defaultKey, nMaxInit,
  MaxNode, MaxEdge, MaxSize, MaxDegree,   \* bounds on the graph
  NoNode, NoArc, AnySwap,
  nBasic, nBinary, nFibonacci, Keys, InfFloat,      \* the priority queues
  SparseFactor, AnyDelete, Careful, AnyChange, nLarge, MaxOps

ASSUME ListsAssumption == nList \in Nat /\ Master \in Handles /\ NoHandle \notin Handles
ASSUME FamilyAssumption == nFamily \in Nat /\ nNested \in Nat /\ mNested \in Nat
ASSUME HashAssumption ==
  /\ HashItems \subseteq Nat /\ HashItems # {}
  /\ defaultKey \in HashKeys /\ nMaxInit \in Nat \ {0}
ASSUME GraphAssumption ==
  /\ {MaxNode, MaxEdge, MaxSize, MaxDegree} \subseteq Nat /\ AnySwap \in BOOLEAN
  /\ NoNode \in Nat /\ NoNode >= MaxNode /\ NoArc \in Nat /\ NoArc >= 2 * MaxEdge
ASSUME HeapAssumption ==
  /\ {nBasic, nBinary, nFibonacci, nLarge} \subseteq Nat \ {0}
  /\ {SparseFactor, MaxOps, InfFloat} \subseteq Nat
  /\ Keys \subseteq 0 .. InfFloat - 1
  /\ {AnyDelete, Careful, AnyChange} \subseteq BOOLEAN

VARIABLES
  kind,                                                       \* the one in use
  next, qset, first, last, length, qopen, qret,               \* static queues
  prev, sset, top, bottom, depth, sopen, sret,                \* static stacks
  t,                                                          \* hash table
  B, rank, fret,                                              \* set family
  NB, Ndepth, Nset, Ncanonical, Nfirst, Nnext, Ncompress, Nblocked, Nret,
                                                              \* shrinking family
  X, inc,                                                     \* graph
  methPQ, v, index, f, key, ret, g, gkey, gret, ops           \* priority queues

Queue == INSTANCE StaticQueue WITH
  n <- nList, Queues <- Handles, set <- qset, open <- qopen, ret <- qret
Stack == INSTANCE StaticStack WITH
  n <- nList, Stacks <- Handles, set <- sset, open <- sopen, ret <- sret
Hash == INSTANCE HashTable WITH Items <- HashItems, Keys <- HashKeys
Family == INSTANCE DisjointFamily WITH n <- nFamily, ret <- fret
Nested == INSTANCE NestedFamily WITH
  n <- nNested, m <- mNested, B <- NB, depth <- Ndepth, set <- Nset,
  canonical <- Ncanonical, first <- Nfirst, next <- Nnext,
  compress <- Ncompress, blocked <- Nblocked, ret <- Nret
Graph == INSTANCE SparseGraph
Heap == INSTANCE MCNodeHeap

queueVars == <<next, qset, first, last, length, qopen, qret>>
stackVars == <<prev, sset, top, bottom, depth, sopen, sret>>
familyVars == <<B, rank, fret>>
nestedVars == <<NB, Ndepth, Nset, Ncanonical, Nfirst, Nnext, Ncompress, Nblocked, Nret>>
graphVars == <<X, inc>>
heapVars == <<methPQ, v, index, f, key, ret, g, gkey, gret, ops>>

Init ==
  /\ kind \in {"queue", "stack", "hash", "family", "nested", "graph", "heap"}
  /\ Queue!Init /\ Stack!Init /\ Hash!Init /\ Family!Init /\ Nested!Init /\ Graph!Init /\ Heap!MCInit
  /\ kind # "nested" => ~Ncompress
  /\ kind # "graph" => X = Graph!Empty(1)
  /\ kind # "heap" => methPQ = 1 /\ \A w \in DOMAIN key : key[w] = CHOOSE k \in Keys : TRUE

Next ==
  /\ UNCHANGED kind
  /\ \/ kind = "queue" /\ Queue!Next /\ UNCHANGED <<stackVars, t, familyVars, nestedVars, graphVars, heapVars>>
     \/ kind = "stack" /\ Stack!Next /\ UNCHANGED <<queueVars, t, familyVars, nestedVars, graphVars, heapVars>>
     \/ kind = "hash" /\ Hash!Next /\ UNCHANGED <<queueVars, stackVars, familyVars, nestedVars, graphVars, heapVars>>
     \/ kind = "family" /\ Family!Next /\ UNCHANGED <<queueVars, stackVars, t, nestedVars, graphVars, heapVars>>
     \/ kind = "nested" /\ Nested!Next /\ UNCHANGED <<queueVars, stackVars, t, familyVars, graphVars, heapVars>>
     \/ kind = "graph" /\ Graph!Next /\ UNCHANGED <<queueVars, stackVars, t, familyVars, nestedVars, heapVars>>
     \/ kind = "heap" /\ Heap!MCNext /\ UNCHANGED <<queueVars, stackVars, t, familyVars, nestedVars, graphVars>>

vars == <<kind, queueVars, stackVars, t, familyVars, nestedVars, graphVars, heapVars>>
Spec == Init /\ [][Next]_vars

-------------------------------------------------------------------------------
(* Every link, index and counter of the one in use stays in bounds.          *)
TypeOK ==
  CASE kind = "queue" -> Queue!TypeOK
    [] kind = "stack" -> Stack!TypeOK
    [] kind = "hash" -> Hash!TypeOK
    [] kind = "family" -> Family!TypeOK
    [] kind = "nested" -> Nested!TypeOK
    [] kind = "graph" -> Graph!TypeOK
    [] kind = "heap" -> Heap!TypeOK

(* The linked structures stay whole.  staticQueue, staticStack: IsMember,    *)
(* the number of items, Empty and the bottom agree with the links, whichever *)
(* container of the family an item was on before, although a null link does  *)
(* not say that an item is free.  goblinHashTable: no cell is lost and       *)
(* none is on two chains, across collisions, removals and rescaling.         *)
(* disjointFamily: ranks grow towards the root and bound the size of a set   *)
(* from below, however compressed and uncompressed Finds alternate.          *)
(* nestedFamily: no item is in two sets, Find ends, and exactly one root     *)
(* stands for each toplevel set, however sets are shrunk, split and blocked. *)
(* sparseRepresentation: a list is circular and has exactly the arcs that    *)
(* start at its node, and left leads back, however arcs are inserted, moved, *)
(* swapped, contracted, cancelled and renumbered.                            *)
StructureWhole ==
  /\ kind = "queue" => Queue!MembersExact
  /\ kind = "stack" => Stack!MembersExact
  /\ kind = "hash" => Hash!CellsPartitioned
  /\ kind = "family" => Family!RankBounds
  /\ kind = "nested" => Nested!Shape
  /\ kind = "graph" => Graph!ListsWhole

(* Whichever priority queue it is, the order that Delete() relies on is kept *)
(* through every sequence of calls, and a search in the sorted array ends    *)
(* within it.  Cascading cuts, key changes and consolidations of trees with  *)
(* three levels keep every node of the large Fibonacci heap on one list, in  *)
(* heap order, with the least root known.                                    *)
OrderKept == kind = "heap" => Heap!OrderKept

(* Whatever methPQ says, a solver gets a priority queue: Delete() returns a  *)
(* member with the least key and every key is what was written last.         *)
QueueSpec == Heap!Queue!Init /\ [][kind = "heap" => Heap!QueueStep]_vars

(* Each of the others does what its abstract specification says.             *)
(* staticQueue, staticStack: containers that share their arrays behave like  *)
(* separate ones; a second insertion is detected across a family of queues,  *)
(* stacks must be kept disjoint by their client.  goblinHashTable: an entry  *)
(* is what ChangeKey wrote last, and nz counts the entries that are not the  *)
(* default.  disjointFamily: Find names a set by one element, which changes  *)
(* only when the set is merged.  nestedFamily: Set(v) is the outermost set   *)
(* around v that is not blocked, and Split restores what was there before,   *)
(* although Find has shortened paths across the boundaries of inner sets     *)
(* meanwhile.  sparseRepresentation: every node has a list of arcs; an       *)
(* operation changes the lists it is about, keeps the order of the others,   *)
(* and renumbers no more than it must.                                       *)
ContainersSpec ==
  /\ Queue!Lists!Init /\ Stack!Lists!Init /\ Hash!Vector!Init
  /\ Family!Family!Init /\ Nested!Nested!Init /\ Graph!Lists!Init
  /\ [][/\ kind = "queue" => Queue!Lists!Step
        /\ kind = "stack" => Stack!Lists!Step
        /\ kind = "hash" => Hash!Vector!Step
        /\ kind = "family" => Family!Family!Step
        /\ kind = "nested" => Nested!Nested!Step
        /\ kind = "graph" => Graph!Lists!Step]_vars
================================================================================
