-------------------------- MODULE ShortestPathProofs --------------------------
(****************************************************************************)
(* Proofs about the graph search procedures, for every graph, every call and *)
(* every order of the incidence lists: labels, queues and counters stay in   *)
(* their ranges, Dijkstra and BFS expand the nodes in the order of their     *)
(* distance, and labels, predecessors, negative cycles and exceptions are    *)
(* what the callers may expect.                                              *)
(****************************************************************************)
EXTENDS ShortestPath, SequenceTheorems, FiniteSetTheorems, NaturalsInduction, WellFoundedInduction, TLAPS

-------------------------------------------------------------------------------
(* The inductive invariant.                                                  *)

Base ==
  /\ call \in Calls /\ pc \in {"called", "search", "merge", "done"}
  /\ dist \in [Node -> Int] /\ pred \in [Node -> Arc \union {NoArc}]
  /\ colour \in [Node -> Node \union {NoNode}] /\ region \in [Node -> SUBSET Node]
  /\ queue \in Seq(Node) /\ active \subseteq Node
  /\ unread \in [Node -> SUBSET Arc] /\ \A v \in Node : unread[v] \subseteq Incidences(G, v)
  /\ u \in Node \union {NoNode} /\ idx \in Nat /\ flag \in BOOLEAN
  /\ idg \in [Node -> Nat] /\ root \in Node \union {NoNode}
(* No node is in the queue twice.                                            *)
QueueInv == \A i, j \in 1 .. Len(queue) : queue[i] = queue[j] => i = j
CountInv ==
  /\ count \in 0 .. 2 * n + 1
  /\ pc = "search" /\ call.proc \in {"BellmanFord", "FIFO"} => count \in 1 .. 2 * n
(* BFS: a label is less than the number of labelled nodes, and the queue     *)
(* holds at most two layers.                                                 *)
Known == {v \in Node : dist[v] # InfFloat}
BFSInv ==
  call.proc = "BFS" =>
    /\ \A i \in 1 .. Len(queue) : queue[i] \in Known
    /\ u # NoNode => u \in Known
    /\ \A v \in Known : dist[v] \in 0 .. Cardinality(Known) - 1
    /\ \A i, j \in 1 .. Len(queue) : i <= j =>
         dist[queue[i]] <= dist[queue[j]] /\ dist[queue[j]] <= dist[queue[i]] + 1
    /\ u # NoNode => \A i \in 1 .. Len(queue) :
         dist[u] <= dist[queue[i]] /\ dist[queue[i]] <= dist[u] + 1
(* Dijkstra: the node that is expanded is the farthest that has left the     *)
(* heap, and no member of the heap is nearer.                                *)
HeapInv ==
  call.proc = "Dijkstra" /\ pc = "search" =>
    /\ u = NoNode => \A v \in Node \ active : dist[v] = InfFloat
    /\ u # NoNode =>
         /\ u \notin active
         /\ \A v \in Node \ active : dist[v] # InfFloat => dist[v] <= dist[u]
         /\ \A w \in active : dist[u] <= dist[w]
(* DAG search: idg counts the entering arcs that have not been read, and     *)
(* every node is waiting for such an arc, in the queue or numbered.          *)
Entering(v) == {a \in Arc : Open(a) /\ End(a) = v /\ a \in unread[Start(a)]}
Waiting == {v \in Node : idg[v] # 0}
DAGInv ==
  call.proc = "DAGSearch" /\ pc = "search" =>
    /\ \A i \in 1 .. Len(queue) : idg[queue[i]] = 0
    /\ \A v \in Node : idg[v] = Cardinality(Entering(v))
    /\ count + Len(queue) + Cardinality(Waiting) = n
SearchInv == Base /\ QueueInv /\ CountInv /\ BFSInv /\ HeapInv /\ DAGInv

-------------------------------------------------------------------------------
(* Facts about graphs and queues.                                            *)

LEMMA NodeFacts ==
  /\ IsFiniteSet(Node) /\ Cardinality(Node) = n /\ n \in Nat \ {0} /\ Node \subseteq Nat
  /\ IsFiniteSet(Arc) /\ m \in Nat /\ Arc \subseteq Nat
  /\ NoNode \notin Node /\ NoArc \notin Arc /\ InfFloat \in Nat /\ n < InfFloat
<1>1. n \in Nat \ {0} /\ m \in Nat /\ InfFloat \in Nat /\ n < InfFloat
  BY SizeAssumption, InfAssumption
<1>2. IsFiniteSet(Node) /\ Cardinality(Node) = n
  <2>1. 0 \in Int /\ n - 1 \in Int /\ (IF 0 > n - 1 THEN 0 ELSE n - 1 - 0 + 1) = n
    BY <1>1
  <2>. QED BY <2>1, FS_Interval DEF Node
<1>3. IsFiniteSet(Arc)
  <2>1. 0 \in Int /\ 2 * m - 1 \in Int
    BY <1>1
  <2>. QED BY <2>1, FS_Interval DEF Arc
<1>4. Node \subseteq Nat /\ Arc \subseteq Nat /\ Node \subseteq 0 .. n /\ Arc \subseteq 0 .. 2 * m
  BY <1>1 DEF Node, Arc
<1>. QED BY <1>1, <1>2, <1>3, <1>4, UndefAssumption

(* The end nodes and the length of an arc.                                   *)
LEMMA EdgeFacts ==
  ASSUME NEW a \in Arc
  PROVE  EdgeOf(a) \in Edge /\ Twin(a) \in Arc
<1>1. m \in Nat /\ a \in 0 .. 2 * m - 1
  BY NodeFacts DEF Arc
<1>. QED BY <1>1 DEF EdgeOf, Edge, Twin, Backward, Arc

LEMMA GraphFacts ==
  ASSUME call \in Calls, NEW a \in Arc
  PROVE  /\ Start(a) \in Node /\ End(a) \in Node /\ Twin(a) \in Arc
         /\ Length(G, a) \in Int /\ l(a) \in Int
<1>1. IsGraph(G)
  BY CallsAssumption DEF G
<1>2. \A e \in Edge : G.ends[e][1] \in Node /\ G.ends[e][2] \in Node /\ G.length[e] \in Int
  BY <1>1 DEF IsGraph
<1>3. \A b \in Arc : StartNode(G, b) \in Node
  BY <1>2, EdgeFacts DEF StartNode
<1>4. Start(a) \in Node /\ End(a) \in Node /\ Twin(a) \in Arc
  BY <1>3, EdgeFacts DEF Start, End, EndNode
<1>5. Length(G, a) \in Int
  BY <1>2, EdgeFacts DEF Length
<1>6. \A v \in Node : Potential(G, v) \in Int
  BY <1>1 DEF Potential, IsGraph
<1>7. RedLength(G, a) \in Int
  <2>1. Potential(G, StartNode(G, a)) \in Int /\ Potential(G, EndNode(G, a)) \in Int
    BY <1>4, <1>6 DEF Start, End
  <2>. QED BY <1>5, <2>1 DEF RedLength
<1>8. l(a) \in Int
  BY <1>5, <1>7 DEF l, SearchLength
<1>. QED BY <1>4, <1>5, <1>8

(* The reader of an arc knows where it starts.                               *)
LEMMA IncidenceFacts ==
  ASSUME NEW v, NEW a \in Incidences(G, v)
  PROVE  a \in Arc /\ Start(a) = v
BY DEF Incidences, Start

(* A queue without repetitions is no longer than the number of nodes.        *)
LEMMA ShortQueue ==
  ASSUME NEW s \in Seq(Node), \A i, j \in 1 .. Len(s) : s[i] = s[j] => i = j
  PROVE  Len(s) \in 0 .. n
<1>1. Len(s) \in Nat /\ s \in [1 .. Len(s) -> Node]
  BY LenProperties
<1>2. s \in Injection(1 .. Len(s), Node)
  BY <1>1 DEF Injection, IsInjective
<1>3. Cardinality(1 .. Len(s)) <= n
  BY <1>2, FS_Injection, NodeFacts
<1>4. Cardinality(1 .. Len(s)) = Len(s)
  <2>1. 1 \in Int /\ Len(s) \in Int /\ (IF 1 > Len(s) THEN 0 ELSE Len(s) - 1 + 1) = Len(s)
    BY <1>1
  <2>. QED BY <2>1, FS_Interval
<1>. QED BY <1>1, <1>3, <1>4, NodeFacts

LEMMA TailFacts ==
  ASSUME NEW s \in Seq(Node), s # <<>>
  PROVE  /\ Head(s) \in Node /\ Head(s) = s[1] /\ 1 \in 1 .. Len(s)
         /\ Tail(s) \in Seq(Node) /\ Len(Tail(s)) = Len(s) - 1 /\ Len(s) \in Nat
         /\ \A i \in 1 .. Len(Tail(s)) : Tail(s)[i] = s[i + 1] /\ i + 1 \in 1 .. Len(s)
<1>1. Len(s) \in Nat \ {0} /\ Head(s) = s[1] /\ s[1] \in Node
  BY LenProperties, EmptySeq, HeadTailProperties
<1>2. /\ Tail(s) \in Seq(Node) /\ Len(Tail(s)) = Len(s) - 1
      /\ \A i \in 1 .. Len(Tail(s)) : Tail(s)[i] = s[i + 1]
  BY HeadTailProperties
<1>. QED BY <1>1, <1>2

LEMMA AppendFacts ==
  ASSUME NEW s \in Seq(Node), NEW x \in Node
  PROVE  /\ Append(s, x) \in Seq(Node) /\ Len(Append(s, x)) = Len(s) + 1 /\ Len(s) \in Nat
         /\ \A i \in 1 .. Len(s) : Append(s, x)[i] = s[i]
         /\ Append(s, x)[Len(s) + 1] = x
BY AppendProperties, LenProperties

(* The nodes of a set in increasing order.                                   *)
LEMMA InOrderFacts ==
  ASSUME NEW K \in SUBSET Node
  PROVE  /\ InOrder(K) \in Seq(Node) /\ Len(InOrder(K)) = Cardinality(K)
         /\ \A i \in 1 .. Len(InOrder(K)) : InOrder(K)[i] \in K
         /\ \A i, j \in 1 .. Len(InOrder(K)) : InOrder(K)[i] = InOrder(K)[j] => i = j
<1>. DEFINE Below(i) == {j \in K : j <= i}
            Rank == [i \in K |-> Cardinality(Below(i))]
            c == Cardinality(K)
            t == InOrder(K)
<1>1. IsFiniteSet(K) /\ c \in Nat /\ K \subseteq Nat
  BY NodeFacts, FS_Subset, FS_CardinalityType
<1>2. ASSUME NEW i \in K
      PROVE  IsFiniteSet(Below(i)) /\ Cardinality(Below(i)) \in 1 .. c
  <2>1. IsFiniteSet(Below(i)) /\ Cardinality(Below(i)) <= c
    BY <1>1, FS_Subset
  <2>2. Cardinality(Below(i)) \in Nat
    BY <2>1, FS_CardinalityType
  <2>3. Cardinality(Below(i)) # 0
    <3>1. i \in Below(i)
      BY <1>1
    <3>. QED BY <3>1, <2>1, FS_EmptySet
  <2>. QED BY <2>1, <2>2, <2>3, <1>1
<1>3. ASSUME NEW i \in K, NEW j \in K, i < j
      PROVE  Rank[i] # Rank[j]
  <2>1. Below(i) \in SUBSET Below(j) /\ Below(i) # Below(j)
    <3>1. j \in Below(j) /\ j \notin Below(i)
      BY <1>1, <1>3
    <3>2. ASSUME NEW k \in Below(i) PROVE k \in Below(j)
      BY <1>1, <1>3, <3>2
    <3>. QED BY <3>1, <3>2
  <2>2. Cardinality(Below(i)) # Cardinality(Below(j))
    BY <2>1, <1>2, FS_Subset
  <2>. QED BY <2>2
<1>4. Rank \in Injection(K, 1 .. c)
  <2>1. Rank \in [K -> 1 .. c]
    BY <1>2
  <2>2. ASSUME NEW i \in K, NEW j \in K, Rank[i] = Rank[j] PROVE i = j
    <3>1. ~(i < j) /\ ~(j < i)
      BY <2>2, <1>3
    <3>. QED BY <1>1, <3>1
  <2>. QED BY <2>1, <2>2 DEF Injection, IsInjective
<1>5. IsFiniteSet(1 .. c) /\ Cardinality(1 .. c) = c
  <2>1. 1 \in Int /\ c \in Int /\ (IF 1 > c THEN 0 ELSE c - 1 + 1) = c
    BY <1>1
  <2>. QED BY <2>1, FS_Interval
<1>6. Rank \in Surjection(K, 1 .. c)
  BY <1>4, <1>5, FS_Injection
<1>7. t = [k \in 1 .. c |-> CHOOSE v \in K : Cardinality({w \in K : w <= v}) = k]
  BY DEF InOrder
<1>8. ASSUME NEW k \in 1 .. c PROVE t[k] \in K /\ Cardinality(Below(t[k])) = k
  <2>1. \E i \in K : Rank[i] = k
    BY <1>6 DEF Surjection
  <2>2. \E i \in K : Cardinality({j \in K : j <= i}) = k
    BY <2>1
  <2>. QED BY <2>2, <1>7
<1>9. t \in Seq(Node) /\ Len(t) = c
  <2>1. t \in [1 .. c -> Node]
    BY <1>7, <1>8
  <2>2. t \in Seq(Node) /\ DOMAIN t = 1 .. c
    BY <1>1, <2>1, SeqDef
  <2>. QED BY <1>1, <2>2, LenProperties
<1>10. ASSUME NEW i \in 1 .. Len(t), NEW j \in 1 .. Len(t), t[i] = t[j] PROVE i = j
  <2>1. Cardinality(Below(t[i])) = i /\ Cardinality(Below(t[j])) = j
    BY <1>8, <1>9
  <2>. QED BY <2>1, <1>10
<1>. QED BY <1>8, <1>9, <1>10
-------------------------------------------------------------------------------
(* The steps.                                                                *)

LEMMA InitInv == Init => SearchInv
<1>. SUFFICES ASSUME Init PROVE SearchInv
  OBVIOUS
<1>1. /\ call \in Calls /\ pc = "called" /\ queue = <<>> /\ active = {} /\ count = 0
      /\ u = NoNode /\ idx = 0 /\ flag = TRUE /\ root = NoNode
  BY DEF Init
<1>2. /\ dist = [v \in Node |-> InfFloat] /\ pred = [v \in Node |-> NoArc]
      /\ colour = [v \in Node |-> NoNode] /\ region = [v \in Node |-> {v}]
      /\ unread = [v \in Node |-> {}] /\ idg = [v \in Node |-> 0]
  BY DEF Init
<1>3. queue \in Seq(Node) /\ Len(queue) = 0
  BY <1>1, EmptySeq
<1>4. Base
  BY <1>1, <1>2, <1>3, NodeFacts DEF Base
<1>5. QueueInv
  BY <1>3 DEF QueueInv
<1>6. CountInv
  BY <1>1, NodeFacts DEF CountInv
<1>7. BFSInv
  BY <1>1, <1>2, <1>3 DEF BFSInv, Known
<1>8. HeapInv /\ DAGInv
  BY <1>1 DEF HeapInv, DAGInv
<1>. QED BY <1>4, <1>5, <1>6, <1>7, <1>8 DEF SearchInv

(* A step that leaves labels, queue and counters alone.                      *)
LEMMA QuietInv ==
  ASSUME SearchInv,
         call' = call, dist' = dist, pred' = pred, colour' = colour, queue' = queue,
         active' = active, unread' = unread, u' = u, count' = count, flag' = flag,
         idg' = idg, root' = root,
         region' \in [Node -> SUBSET Node], idx' \in Nat,
         pc' # pc => pc' \in {"merge", "done"}
  PROVE  SearchInv'
<1>1. \A v : Entering(v)' = Entering(v)
  BY DEF Entering, Open, End, Start, G
<1>2. Known' = Known /\ Waiting' = Waiting
  BY DEF Known, Waiting
<1>3. Base'
  BY DEF SearchInv, Base, G
<1>4. QueueInv' /\ CountInv' /\ HeapInv'
  BY DEF SearchInv, QueueInv, CountInv, HeapInv
<1>5. BFSInv'
  BY <1>2 DEF SearchInv, BFSInv
<1>6. DAGInv'
  BY <1>1, <1>2 DEF SearchInv, DAGInv
<1>. QED BY <1>3, <1>4, <1>5, <1>6 DEF SearchInv

LEMMA RefuseInv == SearchInv /\ Refuse => SearchInv'
BY QuietInv DEF Refuse, SearchInv, Base

(* The procedures that end change nothing but the answer.                    *)
LEMMA ReturnInv ==
  SearchInv /\ (BFSReturn \/ DijkstraReturn \/ DAGReturn) => SearchInv'
<1>. SUFFICES ASSUME SearchInv, BFSReturn \/ DijkstraReturn \/ DAGReturn PROVE SearchInv'
  OBVIOUS
<1>1. /\ call' = call /\ dist' = dist /\ pred' = pred /\ colour' = colour /\ queue' = queue
      /\ active' = active /\ unread' = unread /\ u' = u /\ count' = count /\ flag' = flag
      /\ idg' = idg /\ root' = root /\ region' = region
      /\ pc' \in {"merge", "done"} /\ idx' \in {idx, 0}
  BY DEF BFSReturn, DijkstraReturn, DAGReturn, Return
<1>2. region' \in [Node -> SUBSET Node] /\ idx' \in Nat
  BY <1>1 DEF SearchInv, Base
<1>. QED BY <1>1, <1>2, QuietInv

LEMMA VoronoiInv == SearchInv /\ VoronoiMerge => SearchInv'
<1>. SUFFICES ASSUME SearchInv, VoronoiMerge PROVE SearchInv'
  OBVIOUS
<1>1. /\ call' = call /\ dist' = dist /\ pred' = pred /\ colour' = colour /\ queue' = queue
      /\ active' = active /\ unread' = unread /\ u' = u /\ count' = count /\ flag' = flag
      /\ idg' = idg /\ root' = root /\ (pc' # pc => pc' \in {"merge", "done"})
  BY DEF VoronoiMerge, Return
<1>2. /\ call \in Calls /\ idx \in Nat /\ region \in [Node -> SUBSET Node]
      /\ pred \in [Node -> Arc \union {NoArc}]
  BY DEF SearchInv, Base
<1>3. idx' \in Nat
  BY <1>2 DEF VoronoiMerge
<1>4. region' \in [Node -> SUBSET Node]
  <2>1. CASE region' = region
    BY <1>2, <2>1
  <2>2. CASE idx < n /\ pred[idx] # NoArc
    <3>1. idx \in Node
      BY <1>2, <2>2, NodeFacts DEF Node
    <3>2. pred[idx] \in Arc
      BY <1>2, <2>2, <3>1
    <3>3. Start(pred[idx]) \in Node
      BY <1>2, <3>2, GraphFacts
    <3>. DEFINE both == region[Start(pred[idx])] \union region[idx]
    <3>4. both \in SUBSET Node
      BY <1>2, <3>1, <3>3
    <3>5. region' = [v \in Node |-> IF v \in both THEN both ELSE region[v]]
      BY <2>2 DEF VoronoiMerge
    <3>. QED BY <1>2, <3>4, <3>5
  <2>. QED BY <2>1, <2>2 DEF VoronoiMerge
<1>. QED BY <1>1, <1>3, <1>4, QuietInv

(* What every search starts with.                                            *)
LEMMA EnterFacts ==
  ASSUME SearchInv, NEW labels, Enter(labels)
  PROVE  /\ pc' = "search" /\ dist' = labels /\ call' = call
         /\ pred' \in [Node -> Arc \union {NoArc}] /\ region' \in [Node -> SUBSET Node]
         /\ unread' \in [Node -> SUBSET Arc] /\ u' = NoNode /\ idx' = 0
         /\ unread' = [v \in Node |-> Incidences(G, v)]
         /\ (\A v \in Node : unread'[v] \subseteq Incidences(G, v)')
         /\ root' \in Node \union {NoNode}
<1>1. /\ pc' = "search" /\ dist' = labels /\ call' = call /\ pred' = [v \in Node |-> NoArc]
      /\ region' = region /\ root' = root /\ u' = NoNode /\ idx' = 0
      /\ unread' = [v \in Node |-> Incidences(G, v)]
  BY DEF Enter
<1>2. \A v \in Node : Incidences(G, v) \in SUBSET Arc /\ Incidences(G, v)' = Incidences(G, v)
  BY <1>1 DEF Incidences, G
<1>. QED BY <1>1, <1>2 DEF SearchInv, Base

LEMMA LabelledFacts ==
  ASSUME call \in Calls
  PROVE  /\ Labelled \in [Node -> Int] /\ call.S \subseteq Node
         /\ \A v \in Node : Labelled[v] = IF v \in call.S THEN 0 ELSE InfFloat
<1>1. call.S \subseteq Node
  BY CallsAssumption
<1>. QED BY <1>1, NodeFacts DEF Labelled

LEMMA DijkstraStartInv == SearchInv /\ DijkstraStart => SearchInv'
<1>. SUFFICES ASSUME SearchInv, DijkstraStart PROVE SearchInv'
  OBVIOUS
<1>1. /\ call.proc = "Dijkstra" /\ Enter(Labelled) /\ active' = call.S /\ queue' = queue
      /\ count' = count /\ colour' = colour /\ flag' = flag /\ idg' = idg
  BY DEF DijkstraStart, Called
<1>2. Base /\ QueueInv /\ CountInv /\ call \in Calls
  BY DEF SearchInv, Base
<1>3. Base'
  BY <1>1, <1>2, EnterFacts, LabelledFacts DEF Base
<1>4. QueueInv' /\ CountInv' /\ BFSInv' /\ DAGInv'
  BY <1>1, <1>2, EnterFacts DEF QueueInv, CountInv, BFSInv, DAGInv
<1>5. HeapInv'
  BY <1>1, <1>2, EnterFacts, LabelledFacts DEF HeapInv
<1>. QED BY <1>3, <1>4, <1>5 DEF SearchInv

LEMMA BellmanStartInv == SearchInv /\ BellmanStart => SearchInv'
<1>. SUFFICES ASSUME SearchInv, BellmanStart PROVE SearchInv'
  OBVIOUS
<1>1. /\ call.proc = "BellmanFord" /\ Enter(Labelled) /\ active' = active /\ queue' = queue
      /\ count' = 1 /\ colour' = colour /\ flag' = FALSE /\ idg' = idg
  BY DEF BellmanStart, Called
<1>2. Base /\ QueueInv /\ call \in Calls
  BY DEF SearchInv, Base
<1>3. Base'
  <2>1. flag' \in BOOLEAN
    BY <1>1
  <2>2. /\ active' \subseteq Node /\ queue' \in Seq(Node) /\ idg' \in [Node -> Nat]
        /\ colour' \in [Node -> Node \union {NoNode}] /\ dist' \in [Node -> Int]
    BY <1>1, <1>2, EnterFacts, LabelledFacts DEF Base
  <2>. QED BY <1>1, <1>2, <2>1, <2>2, EnterFacts DEF Base
<1>4. QueueInv' /\ BFSInv' /\ DAGInv' /\ HeapInv'
  BY <1>1, <1>2, EnterFacts DEF QueueInv, BFSInv, DAGInv, HeapInv
<1>5. CountInv'
  <2>1. n \in Nat \ {0}
    BY NodeFacts
  <2>2. 1 \in 0 .. 2 * n + 1 /\ 1 \in 1 .. 2 * n
    BY <2>1
  <2>. QED BY <1>1, <2>2 DEF CountInv
<1>. QED BY <1>3, <1>4, <1>5 DEF SearchInv

LEMMA FIFOStartInv == SearchInv /\ FIFOStart => SearchInv'
<1>. SUFFICES ASSUME SearchInv, FIFOStart PROVE SearchInv'
  OBVIOUS
<1>1. /\ call.proc = "FIFO" /\ Enter(Labelled) /\ active' = call.S /\ queue' = queue
      /\ count' = 1 /\ colour' = colour /\ flag' = FALSE /\ idg' = idg
  BY DEF FIFOStart, Called
<1>2. Base /\ QueueInv /\ call \in Calls
  BY DEF SearchInv, Base
<1>3. Base'
  <2>1. flag' \in BOOLEAN
    BY <1>1
  <2>2. /\ active' \subseteq Node /\ queue' \in Seq(Node) /\ idg' \in [Node -> Nat]
        /\ colour' \in [Node -> Node \union {NoNode}] /\ dist' \in [Node -> Int]
    BY <1>1, <1>2, EnterFacts, LabelledFacts DEF Base
  <2>. QED BY <1>1, <1>2, <2>1, <2>2, EnterFacts DEF Base
<1>4. QueueInv' /\ BFSInv' /\ DAGInv' /\ HeapInv'
  BY <1>1, <1>2, EnterFacts DEF QueueInv, BFSInv, DAGInv, HeapInv
<1>5. CountInv'
  <2>1. n \in Nat \ {0}
    BY NodeFacts
  <2>2. 1 \in 0 .. 2 * n + 1 /\ 1 \in 1 .. 2 * n
    BY <2>1
  <2>. QED BY <1>1, <2>2 DEF CountInv
<1>. QED BY <1>3, <1>4, <1>5 DEF SearchInv

LEMMA BFSStartInv == SearchInv /\ BFSStart => SearchInv'
<1>. SUFFICES ASSUME SearchInv, BFSStart PROVE SearchInv'
  OBVIOUS
<1>1. /\ call.proc = "BFS" /\ Enter(Labelled) /\ active' = active
      /\ count' = count /\ colour' = colour /\ flag' = TRUE /\ idg' = idg
  BY DEF BFSStart, Called
<1>2. Base /\ CountInv /\ call \in Calls
  BY DEF SearchInv, Base
<1>3. PICK s \in call.S : queue' = <<s>>
  BY DEF BFSStart
<1>4. s \in Node /\ call.S \subseteq Node
  BY <1>2, LabelledFacts
<1>5. queue' \in Seq(Node) /\ Len(queue') = 1 /\ queue'[1] = s
  BY <1>3, <1>4
<1>6. Base'
  BY <1>1, <1>2, <1>5, EnterFacts, LabelledFacts DEF Base
<1>7. QueueInv'
  BY <1>5 DEF QueueInv
<1>8. CountInv' /\ DAGInv' /\ HeapInv'
  BY <1>1, <1>2, EnterFacts DEF CountInv, DAGInv, HeapInv
<1>9. BFSInv'
  <2>1. dist' = Labelled /\ u' = NoNode /\ call' = call
    BY <1>1, EnterFacts
  <2>2. Known' = call.S /\ dist'[s] = 0 /\ \A v \in Known' : dist'[v] = 0
    <3>1. InfFloat # 0
      <4>1. n \in Nat \ {0} /\ InfFloat \in Nat /\ n < InfFloat
        BY NodeFacts
      <4>. QED BY <4>1
    <3>2. \A v \in Node : dist'[v] = IF v \in call.S THEN 0 ELSE InfFloat
      BY <1>2, <2>1, LabelledFacts
    <3>3. \A v \in Node : v \in Known' <=> v \in call.S
      BY <3>1, <3>2 DEF Known
    <3>4. Known' = call.S
      BY <1>4, <3>3 DEF Known
    <3>. QED BY <1>4, <3>2, <3>4
  <2>3. Cardinality(Known') \in Nat /\ Cardinality(Known') # 0
    <3>1. IsFiniteSet(Known') /\ Known' # {}
      BY <1>4, <2>2, NodeFacts, FS_Subset
    <3>. QED BY <3>1, FS_CardinalityType, FS_EmptySet
  <2>. QED BY <1>4, <1>5, <2>1, <2>2, <2>3 DEF BFSInv
<1>. QED BY <1>6, <1>7, <1>8, <1>9 DEF SearchInv

LEMMA DAGStartInv == SearchInv /\ DAGStart => SearchInv'
<1>. SUFFICES ASSUME SearchInv, DAGStart PROVE SearchInv'
  OBVIOUS
<1>1. /\ call.proc = "DAGSearch" /\ Enter(DAGLabels) /\ active' = active
      /\ count' = 0 /\ colour' = [v \in Node |-> NoNode] /\ flag' = flag
      /\ idg' = [v \in Node |-> InDegree(v)] /\ queue' = InOrder(Roots)
  BY DEF DAGStart, Called
<1>2. Base /\ call \in Calls
  BY DEF SearchInv, Base
<1>3. /\ queue' \in Seq(Node) /\ Len(queue') = Cardinality(Roots)
      /\ (\A i \in 1 .. Len(queue') : queue'[i] \in Roots)
      /\ \A i, j \in 1 .. Len(queue') : queue'[i] = queue'[j] => i = j
  <2>1. Roots \in SUBSET Node
    BY DEF Roots
  <2>. QED BY <1>1, <2>1, InOrderFacts
<1>4. \A v \in Node : InDegree(v) \in Nat
  <2>1. ASSUME NEW v \in Node PROVE IsFiniteSet({a \in Arc : Open(a) /\ End(a) = v})
    BY NodeFacts, FS_Subset
  <2>. QED BY <2>1, FS_CardinalityType DEF InDegree
<1>5. DAGLabels \in [Node -> Int]
  <2>1. dist \in [Node -> Int] /\ InfFloat \in Int /\ -InfFloat \in Int /\ 0 \in Int
    BY <1>2, NodeFacts DEF Base
  <2>2. CASE call.opt = "DAG_TOPSORT"
    BY <2>1, <2>2 DEF DAGLabels
  <2>3. CASE call.opt # "DAG_TOPSORT" /\ Critical
    BY <2>1, <2>3 DEF DAGLabels
  <2>4. CASE call.opt # "DAG_TOPSORT" /\ ~Critical
    BY <2>1, <2>4 DEF DAGLabels
  <2>. QED BY <2>2, <2>3, <2>4
<1>6. Base'
  BY <1>1, <1>2, <1>3, <1>4, <1>5, EnterFacts DEF Base
<1>7. QueueInv'
  BY <1>3 DEF QueueInv
<1>8. CountInv'
  BY <1>1, EnterFacts, NodeFacts DEF CountInv
<1>9. BFSInv' /\ HeapInv'
  BY <1>1, EnterFacts DEF BFSInv, HeapInv
<1>10. DAGInv'
  <2>1. \A i \in 1 .. Len(queue') : idg'[queue'[i]] = 0
    BY <1>1, <1>3 DEF Roots
  <2>2. ASSUME NEW v \in Node PROVE idg'[v] = Cardinality(Entering(v)')
    <3>1. call' = call /\ unread' = [w \in Node |-> Incidences(G, w)]
      BY <1>1, EnterFacts
    <3>2. ASSUME NEW a \in Arc PROVE a \in unread'[Start(a)]
      BY <1>2, <3>1, GraphFacts DEF Incidences, Start
    <3>3. Entering(v)' = {a \in Arc : Open(a) /\ End(a) = v /\ a \in unread'[Start(a)]}
      BY <3>1 DEF Entering, Open, End, Start, G
    <3>4. Entering(v)' = {a \in Arc : Open(a) /\ End(a) = v}
      BY <3>2, <3>3
    <3>. QED BY <1>1, <3>4 DEF InDegree
  <2>3. count' + Len(queue') + Cardinality(Waiting') = n
    <3>1. Waiting' = Node \ Roots
      BY <1>1 DEF Waiting, Roots
    <3>2. Node \cap Roots = Roots
      BY DEF Roots
    <3>3. Cardinality(Node \ Roots) = n - Cardinality(Roots)
      BY <3>2, NodeFacts, FS_Difference
    <3>4. Cardinality(Roots) \in Nat
      <4>1. IsFiniteSet(Roots)
        BY <3>2, NodeFacts, FS_Subset DEF Roots
      <4>. QED BY <4>1, FS_CardinalityType
    <3>. QED BY <1>1, <1>3, <3>1, <3>3, <3>4, NodeFacts
  <2>. QED BY <2>1, <2>2, <2>3 DEF DAGInv
<1>. QED BY <1>6, <1>7, <1>8, <1>9, <1>10 DEF SearchInv
(* A label and a predecessor arc are written.                                *)
LEMMA ImproveFacts ==
  ASSUME SearchInv, NEW a \in Arc, NEW label \in Int, Improve(a, label)
  PROVE  /\ dist' \in [Node -> Int] /\ pred' \in [Node -> Arc \union {NoArc}]
         /\ End(a) \in Node /\ dist'[End(a)] = label
         /\ \A v \in Node : v # End(a) => dist'[v] = dist[v]
<1>1. /\ call \in Calls /\ dist \in [Node -> Int] /\ pred \in [Node -> Arc \union {NoArc}]
  BY DEF SearchInv, Base
<1>2. End(a) \in Node
  BY <1>1, GraphFacts
<1>. QED BY <1>1, <1>2 DEF Improve

(* One arc is read.                                                          *)
LEMMA ReadFacts ==
  ASSUME SearchInv, NEW a, u # NoNode, Read(a), call' = call
  PROVE  /\ u \in Node /\ a \in Arc /\ Start(a) = u /\ End(a) \in Node /\ a \in unread[u]
         /\ dist[u] \in Int /\ l(a) \in Int /\ Length(G, a) \in Int
         /\ unread' \in [Node -> SUBSET Arc] /\ unread'[u] = unread[u] \ {a}
         /\ \A v \in Node : v # u => unread'[v] = unread[v]
         /\ \A v \in Node : unread'[v] \subseteq Incidences(G, v)'
<1>1. /\ call \in Calls /\ u \in Node /\ dist \in [Node -> Int]
      /\ unread \in [Node -> SUBSET Arc] /\ \A v \in Node : unread[v] \subseteq Incidences(G, v)
  BY DEF SearchInv, Base
<1>2. a \in unread[u] /\ unread' = [unread EXCEPT ![u] = @ \ {a}]
  BY DEF Read
<1>3. a \in Arc /\ Start(a) = u
  BY <1>1, <1>2, IncidenceFacts
<1>4. End(a) \in Node /\ l(a) \in Int /\ Length(G, a) \in Int /\ dist[u] \in Int
  BY <1>1, <1>3, GraphFacts
<1>5. /\ unread' \in [Node -> SUBSET Arc] /\ unread'[u] = unread[u] \ {a}
      /\ \A v \in Node : v # u => unread'[v] = unread[v]
  BY <1>1, <1>2
<1>6. \A v \in Node : Incidences(G, v)' = Incidences(G, v)
  BY DEF Incidences, G
<1>7. ASSUME NEW v \in Node PROVE unread'[v] \subseteq Incidences(G, v)'
  BY <1>1, <1>5, <1>6
<1>. QED BY <1>1, <1>2, <1>3, <1>4, <1>5, <1>7

LEMMA BFSDeleteInv == SearchInv /\ BFSDelete => SearchInv'
<1>. SUFFICES ASSUME SearchInv, BFSDelete PROVE SearchInv'
  OBVIOUS
<1>1. /\ call.proc = "BFS" /\ queue # <<>> /\ u' = Head(queue) /\ queue' = Tail(queue)
      /\ call' = call /\ pc' = pc /\ dist' = dist /\ pred' = pred /\ colour' = colour
      /\ region' = region /\ active' = active /\ unread' = unread /\ idx' = idx
      /\ count' = count /\ flag' = flag /\ idg' = idg /\ root' = root
  BY DEF BFSDelete, Between, Searching
<1>2. Base /\ QueueInv /\ CountInv /\ BFSInv
  BY DEF SearchInv
<1>3. /\ Head(queue) \in Node /\ Head(queue) = queue[1] /\ 1 \in 1 .. Len(queue)
      /\ queue' \in Seq(Node) /\ Len(queue') = Len(queue) - 1 /\ Len(queue) \in Nat
      /\ \A i \in 1 .. Len(queue') : queue'[i] = queue[i + 1] /\ i + 1 \in 1 .. Len(queue)
  BY <1>1, <1>2, TailFacts DEF Base
<1>4. Base'
  <2>1. \A v \in Node : Incidences(G, v)' = Incidences(G, v)
    BY <1>1 DEF Incidences, G
  <2>. QED BY <1>1, <1>2, <1>3, <2>1 DEF Base
<1>5. QueueInv'
  BY <1>2, <1>3 DEF QueueInv
<1>6. CountInv' /\ HeapInv' /\ DAGInv'
  BY <1>1, <1>2 DEF CountInv, HeapInv, DAGInv
<1>7. BFSInv'
  <2>1. Known' = Known
    BY <1>1 DEF Known
  <2>2. /\ (\A i \in 1 .. Len(queue) : queue[i] \in Known)
        /\ (\A v \in Known : dist[v] \in 0 .. Cardinality(Known) - 1)
        /\ \A i, j \in 1 .. Len(queue) : i <= j =>
             dist[queue[i]] <= dist[queue[j]] /\ dist[queue[j]] <= dist[queue[i]] + 1
    BY <1>1, <1>2 DEF BFSInv
  <2>3. \A i \in 1 .. Len(queue') : queue'[i] \in Known
    BY <1>3, <2>2
  <2>4. ASSUME NEW i \in 1 .. Len(queue'), NEW j \in 1 .. Len(queue'), i <= j
        PROVE  dist[queue'[i]] <= dist[queue'[j]] /\ dist[queue'[j]] <= dist[queue'[i]] + 1
    <3>1. i + 1 <= j + 1
      BY <1>3, <2>4
    <3>. QED BY <1>3, <2>2, <3>1
  <2>5. ASSUME NEW i \in 1 .. Len(queue')
        PROVE  dist[u'] <= dist[queue'[i]] /\ dist[queue'[i]] <= dist[u'] + 1
    <3>1. 1 <= i + 1
      OBVIOUS
    <3>. QED BY <1>1, <1>3, <2>2, <3>1
  <2>6. u' \in Known
    BY <1>1, <1>3, <2>2
  <2>. QED BY <1>1, <2>1, <2>2, <2>3, <2>4, <2>5, <2>6 DEF BFSInv
<1>. QED BY <1>4, <1>5, <1>6, <1>7 DEF SearchInv

LEMMA BFSReadInv ==
  ASSUME SearchInv, NEW a \in Arc, BFSRead(a)
  PROVE  SearchInv'
<1>1. /\ call.proc = "BFS" /\ u # NoNode /\ Read(a) /\ u' = u /\ call' = call
      /\ pc' = pc /\ colour' = colour /\ region' = region /\ active' = active
      /\ idx' = idx /\ count' = count /\ idg' = idg /\ root' = root
  BY DEF BFSRead, Expanding, Searching
<1>2. Base /\ QueueInv /\ CountInv /\ BFSInv
  BY DEF SearchInv
<1>3. /\ u \in Node /\ End(a) \in Node /\ dist[u] \in Int
      /\ unread' \in [Node -> SUBSET Arc]
      /\ \A v \in Node : unread'[v] \subseteq Incidences(G, v)'
  BY <1>1, ReadFacts
<1>4. CountInv' /\ HeapInv' /\ DAGInv'
  BY <1>1, <1>2 DEF CountInv, HeapInv, DAGInv
<1>5. CASE ~(dist[End(a)] = InfFloat /\ Open(a))
  <2>1. dist' = dist /\ pred' = pred /\ queue' = queue /\ flag' = flag
    BY <1>5 DEF BFSRead
  <2>2. Known' = Known
    BY <2>1 DEF Known
  <2>3. Base'
    BY <1>1, <1>2, <1>3, <2>1 DEF Base
  <2>4. QueueInv' /\ BFSInv'
    BY <1>1, <1>2, <2>1, <2>2 DEF QueueInv, BFSInv
  <2>. QED BY <1>4, <2>3, <2>4 DEF SearchInv
<1>6. CASE dist[End(a)] = InfFloat /\ Open(a)
  <2>. DEFINE w == End(a)
              d == dist[u] + 1
  <2>1. Improve(a, d) /\ queue' = Append(queue, w) /\ flag' = (flag /\ w \notin call.T)
    BY <1>6 DEF BFSRead
  <2>2. /\ dist' \in [Node -> Int] /\ pred' \in [Node -> Arc \union {NoArc}]
        /\ dist'[w] = d /\ \A v \in Node : v # w => dist'[v] = dist[v]
    <3>1. d \in Int
      BY <1>3
    <3>. QED BY <2>1, <3>1, ImproveFacts
  <2>3. /\ queue' \in Seq(Node) /\ Len(queue') = Len(queue) + 1 /\ Len(queue) \in Nat
        /\ (\A i \in 1 .. Len(queue) : queue'[i] = queue[i] /\ queue[i] \in Node)
        /\ queue'[Len(queue) + 1] = w
    BY <1>2, <1>3, <2>1, AppendFacts, LenProperties DEF Base
  <2>4. Base'
    <3>1. flag' \in BOOLEAN
      BY <2>1
    <3>. QED BY <1>1, <1>2, <1>3, <2>2, <2>3, <3>1 DEF Base
  <2>5. /\ (\A i \in 1 .. Len(queue) : queue[i] \in Known) /\ u \in Known
        /\ (\A v \in Known : dist[v] \in 0 .. Cardinality(Known) - 1)
        /\ (\A i, j \in 1 .. Len(queue) : i <= j =>
             dist[queue[i]] <= dist[queue[j]] /\ dist[queue[j]] <= dist[queue[i]] + 1)
        /\ \A i \in 1 .. Len(queue) : dist[u] <= dist[queue[i]] /\ dist[queue[i]] <= dist[u] + 1
    BY <1>1, <1>2 DEF BFSInv
  <2>6. w \notin Known /\ w # u
    BY <1>6, <2>5 DEF Known
  <2>7. IsFiniteSet(Known) /\ Cardinality(Known) \in 0 .. n - 1
    <3>1. IsFiniteSet(Known) /\ Cardinality(Known) <= n /\ (Cardinality(Known) = n => Known = Node)
      BY NodeFacts, FS_Subset DEF Known
    <3>2. Cardinality(Known) \in Nat
      BY <3>1, FS_CardinalityType
    <3>. QED BY <1>3, <2>6, <3>1, <3>2, NodeFacts
  <2>8. d \in 0 .. Cardinality(Known) /\ d # InfFloat
    <3>1. dist[u] \in 0 .. Cardinality(Known) - 1
      BY <2>5
    <3>2. n \in Nat /\ InfFloat \in Nat /\ n < InfFloat
      BY NodeFacts
    <3>. QED BY <2>7, <3>1, <3>2
  <2>9. Known' = Known \union {w}
    <3>1. ASSUME NEW v \in Node PROVE v \in Known' <=> v \in Known \union {w}
      BY <2>2, <2>8 DEF Known
    <3>. QED BY <1>3, <3>1 DEF Known
  <2>10. Cardinality(Known') = Cardinality(Known) + 1
    BY <2>6, <2>7, <2>9, FS_AddElement
  <2>11. ASSUME NEW i \in 1 .. Len(queue)
         PROVE  queue'[i] = queue[i] /\ queue'[i] \in Known /\ queue'[i] # w
                /\ dist'[queue'[i]] = dist[queue[i]]
    BY <2>2, <2>3, <2>5, <2>6
  <2>12. QueueInv'
    <3>. SUFFICES ASSUME NEW i \in 1 .. Len(queue'), NEW j \in 1 .. Len(queue'),
                         queue'[i] = queue'[j]
                  PROVE  i = j
      BY DEF QueueInv
    <3>1. CASE i \in 1 .. Len(queue) /\ j \in 1 .. Len(queue)
      BY <1>2, <2>11, <3>1 DEF QueueInv
    <3>2. CASE i = Len(queue) + 1 /\ j \in 1 .. Len(queue)
      BY <2>3, <2>11, <3>2
    <3>3. CASE j = Len(queue) + 1 /\ i \in 1 .. Len(queue)
      BY <2>3, <2>11, <3>3
    <3>4. CASE i = Len(queue) + 1 /\ j = Len(queue) + 1
      BY <3>4
    <3>5. /\ i \in 1 .. Len(queue) \/ i = Len(queue) + 1
          /\ j \in 1 .. Len(queue) \/ j = Len(queue) + 1
      BY <2>3
    <3>. QED BY <3>1, <3>2, <3>3, <3>4, <3>5
  <2>13. BFSInv'
    <3>1. \A i \in 1 .. Len(queue') : i \in 1 .. Len(queue) \/ i = Len(queue) + 1
      BY <2>3
    <3>2. ASSUME NEW i \in 1 .. Len(queue') PROVE queue'[i] \in Known'
      BY <2>3, <2>9, <2>11, <3>1
    <3>3. u' \in Known' /\ dist'[u'] = dist[u]
      BY <1>1, <1>3, <2>2, <2>5, <2>6, <2>9
    <3>4. ASSUME NEW v \in Known' PROVE dist'[v] \in 0 .. Cardinality(Known') - 1
      <4>1. CASE v = w
        BY <2>2, <2>7, <2>8, <2>10, <4>1
      <4>2. CASE v \in Known
        <5>1. dist'[v] = dist[v] /\ dist[v] \in 0 .. Cardinality(Known) - 1
          BY <2>2, <2>5, <2>6, <4>2 DEF Known
        <5>. QED BY <2>7, <2>10, <5>1
      <4>. QED BY <2>9, <4>1, <4>2
    <3>5. ASSUME NEW i \in 1 .. Len(queue')
          PROVE  dist[u] <= dist'[queue'[i]] /\ dist'[queue'[i]] <= dist[u] + 1
      <4>1. CASE i \in 1 .. Len(queue)
        BY <2>5, <2>11, <4>1
      <4>2. CASE i = Len(queue) + 1
        BY <1>3, <2>2, <2>3, <4>2
      <4>. QED BY <3>1, <4>1, <4>2
    <3>6. ASSUME NEW i \in 1 .. Len(queue'), NEW j \in 1 .. Len(queue'), i <= j
          PROVE  /\ dist'[queue'[i]] <= dist'[queue'[j]]
                 /\ dist'[queue'[j]] <= dist'[queue'[i]] + 1
      <4>1. CASE j = Len(queue) + 1
        <5>1. dist'[queue'[j]] = dist[u] + 1
          BY <2>2, <2>3, <4>1
        <5>2. dist'[queue'[i]] \in Int
          BY <2>2, <2>4, <3>2 DEF Known
        <5>. QED BY <1>3, <3>5, <5>1, <5>2
      <4>2. CASE j \in 1 .. Len(queue)
        <5>1. i \in 1 .. Len(queue)
          BY <2>3, <3>6, <4>2
        <5>. QED BY <2>5, <2>11, <3>6, <4>2, <5>1
      <4>. QED BY <3>1, <4>1, <4>2
    <3>. QED BY <1>1, <3>2, <3>3, <3>4, <3>5, <3>6 DEF BFSInv
  <2>. QED BY <1>4, <2>4, <2>12, <2>13 DEF SearchInv
<1>. QED BY <1>5, <1>6

LEMMA DijkstraDeleteInv == SearchInv /\ DijkstraDelete => SearchInv'
<1>. SUFFICES ASSUME SearchInv, DijkstraDelete PROVE SearchInv'
  OBVIOUS
<1>1. /\ call.proc = "Dijkstra" /\ pc = "search"
      /\ call' = call /\ dist' = dist /\ pred' = pred /\ colour' = colour
      /\ region' = region /\ queue' = queue /\ unread' = unread /\ idx' = idx
      /\ count' = count /\ flag' = flag /\ idg' = idg /\ root' = root
      /\ pc' \in {"search", "done"}
  BY DEF DijkstraDelete, Between, Searching, Return
<1>2. PICK v \in active : Least(v) /\ active' = active \ {v} /\ u' = v
  BY DEF DijkstraDelete
<1>3. Base /\ QueueInv /\ CountInv /\ HeapInv
  BY DEF SearchInv
<1>4. v \in Node /\ v # NoNode
  BY <1>3, NodeFacts DEF Base
<1>5. Base'
  <2>1. \A w \in Node : Incidences(G, w)' = Incidences(G, w)
    BY <1>1 DEF Incidences, G
  <2>. QED BY <1>1, <1>2, <1>3, <1>4, <2>1 DEF Base
<1>6. QueueInv' /\ CountInv' /\ BFSInv' /\ DAGInv'
  BY <1>1, <1>3 DEF QueueInv, CountInv, BFSInv, DAGInv
<1>7. HeapInv'
  <2>1. \A w \in active : dist[v] <= dist[w]
    BY <1>2 DEF Least
  <2>2. ASSUME NEW x \in Node \ active, dist[x] # InfFloat PROVE dist[x] <= dist[v]
    <3>1. u # NoNode
      BY <1>1, <1>3, <2>2 DEF HeapInv
    <3>2. dist[x] <= dist[u] /\ dist[u] <= dist[v]
      BY <1>1, <1>3, <2>2, <3>1 DEF HeapInv
    <3>3. dist[x] \in Int /\ dist[u] \in Int /\ dist[v] \in Int
      BY <1>3, <1>4, <3>1 DEF Base
    <3>. QED BY <3>2, <3>3
  <2>3. dist[v] <= dist[v]
    BY <1>3, <1>4 DEF Base
  <2>. QED BY <1>1, <1>2, <1>4, <2>1, <2>2, <2>3 DEF HeapInv
<1>. QED BY <1>5, <1>6, <1>7 DEF SearchInv

LEMMA DijkstraReadInv ==
  ASSUME SearchInv, NEW a \in Arc, DijkstraRead(a)
  PROVE  SearchInv'
<1>. DEFINE w == End(a)
            dd == dist[u] + l(a)
<1>1. /\ call.proc = "Dijkstra" /\ pc = "search" /\ u # NoNode /\ Read(a)
      /\ call' = call /\ colour' = colour /\ region' = region /\ queue' = queue
      /\ u' = u /\ idx' = idx /\ count' = count /\ flag' = flag /\ idg' = idg /\ root' = root
  BY DEF DijkstraRead, Expanding, Searching
<1>2. Base /\ QueueInv /\ CountInv /\ HeapInv
  BY DEF SearchInv
<1>3. /\ u \in Node /\ w \in Node /\ dist[u] \in Int /\ l(a) \in Int
      /\ unread' \in [Node -> SUBSET Arc]
      /\ \A v \in Node : unread'[v] \subseteq Incidences(G, v)'
  BY <1>1, ReadFacts
<1>4. pc' \in {"search", "done"}
  BY <1>1 DEF DijkstraRead, Return
<1>5. QueueInv' /\ CountInv' /\ BFSInv' /\ DAGInv'
  BY <1>1, <1>2, <1>4 DEF QueueInv, CountInv, BFSInv, DAGInv
<1>6. CASE dist' = dist /\ pred' = pred /\ active' = active
  <2>1. Base'
    BY <1>1, <1>2, <1>3, <1>4, <1>6 DEF Base
  <2>2. HeapInv'
    BY <1>1, <1>2, <1>6 DEF HeapInv
  <2>. QED BY <1>5, <2>1, <2>2 DEF SearchInv
<1>7. CASE /\ dist[w] > dd /\ ~(l(a) < 0) /\ HeapTakes(w)
           /\ Improve(a, dd) /\ active' = active \union {w}
  <2>1. dd \in Int /\ dist[u] <= dd /\ dist[w] \in Int /\ dist[u] < dist[w]
    BY <1>2, <1>3, <1>7 DEF Base
  <2>2. /\ dist' \in [Node -> Int] /\ pred' \in [Node -> Arc \union {NoArc}]
        /\ dist'[w] = dd /\ \A v \in Node : v # w => dist'[v] = dist[v]
    BY <1>7, <2>1, ImproveFacts
  <2>3. Base'
    BY <1>1, <1>2, <1>3, <1>4, <1>7, <2>2 DEF Base
  <2>4. /\ u \notin active
        /\ (\A v \in Node \ active : dist[v] # InfFloat => dist[v] <= dist[u])
        /\ \A x \in active : dist[u] <= dist[x]
    BY <1>1, <1>2 DEF HeapInv
  <2>5. w # u
    BY <1>3, <2>1
  <2>6. dist'[u] = dist[u] /\ u \notin active'
    BY <1>3, <1>7, <2>2, <2>4, <2>5
  <2>7. ASSUME NEW v \in Node \ active', dist'[v] # InfFloat PROVE dist'[v] <= dist[u]
    <3>1. v \in Node \ active /\ v # w
      BY <1>7
    <3>. QED BY <2>2, <2>4, <2>7, <3>1
  <2>8. ASSUME NEW x \in active' PROVE dist[u] <= dist'[x]
    <3>1. CASE x = w
      BY <2>1, <2>2, <3>1
    <3>2. CASE x # w
      BY <1>2, <1>7, <2>2, <2>4, <3>2 DEF Base
    <3>. QED BY <3>1, <3>2
  <2>9. HeapInv'
    BY <1>1, <2>6, <2>7, <2>8 DEF HeapInv
  <2>. QED BY <1>5, <2>3, <2>9 DEF SearchInv
<1>. QED BY <1>6, <1>7 DEF DijkstraRead
LEMMA BellmanArcInv == SearchInv /\ BellmanArc => SearchInv'
<1>. SUFFICES ASSUME SearchInv, BellmanArc PROVE SearchInv'
  OBVIOUS
<1>1. /\ call.proc = "BellmanFord" /\ idx \in Arc /\ idx' = idx + 1
      /\ call' = call /\ pc' = pc /\ colour' = colour /\ region' = region /\ queue' = queue
      /\ active' = active /\ unread' = unread /\ u' = u /\ count' = count /\ idg' = idg
      /\ root' = root
  BY DEF BellmanArc, Searching
<1>2. Base /\ QueueInv /\ CountInv
  BY DEF SearchInv
<1>3. idx' \in Nat
  BY <1>1, <1>2 DEF Base
<1>4. /\ dist' \in [Node -> Int] /\ pred' \in [Node -> Arc \union {NoArc}] /\ flag' \in BOOLEAN
  <2>1. CASE dist' = dist /\ pred' = pred /\ flag' = flag
    BY <1>2, <2>1 DEF Base
  <2>2. CASE Improve(idx, dist[Start(idx)] + l(idx)) /\ flag' = TRUE
    <3>1. dist[Start(idx)] + l(idx) \in Int
      <4>1. Start(idx) \in Node /\ l(idx) \in Int
        BY <1>1, <1>2, GraphFacts DEF Base
      <4>. QED BY <1>2, <4>1 DEF Base
    <3>2. flag' \in BOOLEAN
      BY <2>2
    <3>. QED BY <1>1, <2>2, <3>1, <3>2, ImproveFacts
  <2>. QED BY <2>1, <2>2 DEF BellmanArc
<1>5. Base'
  <2>1. \A v \in Node : Incidences(G, v)' = Incidences(G, v)
    BY <1>1 DEF Incidences, G
  <2>. QED BY <1>1, <1>2, <1>3, <1>4, <2>1 DEF Base
<1>6. QueueInv' /\ CountInv' /\ BFSInv' /\ HeapInv' /\ DAGInv'
  BY <1>1, <1>2 DEF QueueInv, CountInv, BFSInv, HeapInv, DAGInv
<1>. QED BY <1>5, <1>6 DEF SearchInv

LEMMA BellmanPassInv == SearchInv /\ BellmanPass => SearchInv'
<1>. SUFFICES ASSUME SearchInv, BellmanPass PROVE SearchInv'
  OBVIOUS
<1>1. /\ call.proc = "BellmanFord" /\ pc = "search" /\ count' = count + 1
      /\ call' = call /\ dist' = dist /\ pred' = pred /\ colour' = colour /\ region' = region
      /\ queue' = queue /\ active' = active /\ unread' = unread /\ u' = u /\ idg' = idg
      /\ root' = root
  BY DEF BellmanPass, Searching
<1>2. Base /\ QueueInv /\ CountInv /\ n \in Nat
  BY NodeFacts DEF SearchInv
<1>3. flag' \in BOOLEAN /\ idx' \in Nat
  <2>1. flag' = flag \/ flag' = FALSE
    BY DEF BellmanPass
  <2>2. idx' \in {idx, 0}
    BY DEF BellmanPass
  <2>3. flag \in BOOLEAN /\ idx \in Nat
    BY <1>2 DEF Base
  <2>4. idx' \in Nat
    BY <2>2, <2>3
  <2>5. flag' \in BOOLEAN
    BY <2>1, <2>3
  <2>. QED BY <2>4, <2>5
<1>4. count \in 1 .. 2 * n
  BY <1>1, <1>2 DEF CountInv
<1>5. pc' = "done" \/ (pc' = "search" /\ count + 1 < 2 * n)
  BY <1>1 DEF BellmanPass, Return
<1>6. Base'
  <2>1. \A v \in Node : Incidences(G, v)' = Incidences(G, v)
    BY <1>1 DEF Incidences, G
  <2>. QED BY <1>1, <1>2, <1>3, <1>5, <2>1 DEF Base
<1>7. CountInv'
  BY <1>1, <1>2, <1>4, <1>5 DEF CountInv
<1>8. QueueInv' /\ BFSInv' /\ HeapInv' /\ DAGInv'
  BY <1>1, <1>2 DEF QueueInv, BFSInv, HeapInv, DAGInv
<1>. QED BY <1>6, <1>7, <1>8 DEF SearchInv

LEMMA FIFONodeInv == SearchInv /\ (FIFONode \/ FIFOLeave) => SearchInv'
<1>. SUFFICES ASSUME SearchInv, FIFONode \/ FIFOLeave PROVE SearchInv'
  OBVIOUS
<1>1. /\ call.proc = "FIFO" /\ call' = call /\ pc' = pc /\ dist' = dist /\ pred' = pred
      /\ colour' = colour /\ region' = region /\ queue' = queue /\ count' = count
      /\ flag' = flag /\ idg' = idg /\ root' = root
  BY DEF FIFONode, FIFOLeave, Searching, Expanding
<1>2. Base /\ QueueInv /\ CountInv
  BY DEF SearchInv
<1>3. \A v \in Node : Incidences(G, v)' = Incidences(G, v) /\ Incidences(G, v) \in SUBSET Arc
  BY <1>1 DEF Incidences, G
<1>4. idx' \in Nat /\ active' \subseteq Node /\ u' \in Node \union {NoNode}
  BY <1>2 DEF FIFONode, FIFOLeave, Base
<1>5. unread' \in [Node -> SUBSET Arc] /\ \A v \in Node : unread'[v] \subseteq Incidences(G, v)'
  <2>1. CASE unread' = unread
    BY <1>2, <1>3, <2>1 DEF Base
  <2>2. CASE u # NoNode /\ unread' = [unread EXCEPT ![u] = Incidences(G, u)]
    BY <1>2, <1>3, <2>2 DEF Base
  <2>. QED BY <2>1, <2>2 DEF FIFONode, FIFOLeave, Expanding
<1>6. Base'
  BY <1>1, <1>2, <1>4, <1>5 DEF Base
<1>7. QueueInv' /\ CountInv' /\ BFSInv' /\ HeapInv' /\ DAGInv'
  BY <1>1, <1>2 DEF QueueInv, CountInv, BFSInv, HeapInv, DAGInv
<1>. QED BY <1>6, <1>7 DEF SearchInv

LEMMA FIFOReadInv ==
  ASSUME SearchInv, NEW a \in Arc, FIFORead(a)
  PROVE  SearchInv'
<1>. DEFINE label == dist[u] + l(a) + call.epsilon
<1>1. /\ call.proc = "FIFO" /\ u # NoNode /\ Read(a)
      /\ call' = call /\ pc' = pc /\ colour' = colour /\ region' = region /\ queue' = queue
      /\ u' = u /\ idx' = idx /\ count' = count /\ idg' = idg
  BY DEF FIFORead, Expanding, Searching
<1>2. Base /\ QueueInv /\ CountInv
  BY DEF SearchInv
<1>3. /\ u \in Node /\ End(a) \in Node /\ dist[u] \in Int /\ l(a) \in Int
      /\ unread' \in [Node -> SUBSET Arc]
      /\ \A v \in Node : unread'[v] \subseteq Incidences(G, v)'
  BY <1>1, ReadFacts
<1>4. label \in Int
  <2>1. call.epsilon \in Nat
    BY <1>2, CallsAssumption DEF Base
  <2>. QED BY <1>3, <2>1
<1>5. /\ dist' \in [Node -> Int] /\ pred' \in [Node -> Arc \union {NoArc}]
      /\ active' \subseteq Node
  <2>1. CASE dist' = dist /\ pred' = pred /\ active' = active
    BY <1>2, <2>1 DEF Base
  <2>2. CASE Improve(a, label) /\ active' = active \union {End(a)}
    BY <1>2, <1>3, <1>4, <2>2, ImproveFacts DEF Base
  <2>. QED BY <2>1, <2>2 DEF FIFORead
<1>6. root' \in Node \union {NoNode}
  BY <1>2, <1>3 DEF FIFORead, Base
<1>7. flag' \in BOOLEAN
  <2>1. flag' = flag \/ flag' = TRUE
    BY DEF FIFORead
  <2>. QED BY <1>2, <2>1 DEF Base
<1>8. Base'
  BY <1>1, <1>2, <1>3, <1>5, <1>6, <1>7 DEF Base
<1>9. QueueInv' /\ CountInv' /\ BFSInv' /\ HeapInv' /\ DAGInv'
  BY <1>1, <1>2 DEF QueueInv, CountInv, BFSInv, HeapInv, DAGInv
<1>. QED BY <1>8, <1>9 DEF SearchInv

LEMMA FIFOPassInv == SearchInv /\ FIFOPass => SearchInv'
<1>. SUFFICES ASSUME SearchInv, FIFOPass PROVE SearchInv'
  OBVIOUS
<1>1. /\ call.proc = "FIFO" /\ pc = "search" /\ count' = count + 1
      /\ call' = call /\ dist' = dist /\ pred' = pred /\ colour' = colour /\ region' = region
      /\ queue' = queue /\ active' = active /\ unread' = unread /\ u' = u /\ idg' = idg
      /\ root' = root
  BY DEF FIFOPass, Searching
<1>2. Base /\ QueueInv /\ CountInv /\ n \in Nat
  BY NodeFacts DEF SearchInv
<1>3. flag' \in BOOLEAN /\ idx' \in Nat
  <2>1. flag' = flag \/ flag' = FALSE
    BY DEF FIFOPass
  <2>2. idx' \in {idx, 0}
    BY DEF FIFOPass
  <2>3. flag \in BOOLEAN /\ idx \in Nat
    BY <1>2 DEF Base
  <2>4. idx' \in Nat
    BY <2>2, <2>3
  <2>5. flag' \in BOOLEAN
    BY <2>1, <2>3
  <2>. QED BY <2>4, <2>5
<1>4. count \in 1 .. 2 * n
  BY <1>1, <1>2 DEF CountInv
<1>5. pc' = "done" \/ (pc' = "search" /\ count + 1 <= 2 * n)
  BY <1>1 DEF FIFOPass, Return
<1>6. Base'
  <2>1. \A v \in Node : Incidences(G, v)' = Incidences(G, v)
    BY <1>1 DEF Incidences, G
  <2>. QED BY <1>1, <1>2, <1>3, <1>5, <2>1 DEF Base
<1>7. CountInv'
  BY <1>1, <1>2, <1>4, <1>5 DEF CountInv
<1>8. QueueInv' /\ BFSInv' /\ HeapInv' /\ DAGInv'
  BY <1>1, <1>2 DEF QueueInv, BFSInv, HeapInv, DAGInv
<1>. QED BY <1>6, <1>7, <1>8 DEF SearchInv

(* A node is numbered only while there are numbers left.                     *)
LEMMA DAGDeleteInv == SearchInv /\ DAGDelete => SearchInv'
<1>. SUFFICES ASSUME SearchInv, DAGDelete PROVE SearchInv'
  OBVIOUS
<1>1. /\ call.proc = "DAGSearch" /\ pc = "search" /\ queue # <<>>
      /\ u' = Head(queue) /\ queue' = Tail(queue) /\ count' = count + 1
      /\ colour' = IF Critical THEN colour ELSE [colour EXCEPT ![Head(queue)] = count]
      /\ call' = call /\ pc' = pc /\ dist' = dist /\ pred' = pred
      /\ region' = region /\ active' = active /\ unread' = unread /\ idx' = idx
      /\ flag' = flag /\ idg' = idg /\ root' = root
  BY DEF DAGDelete, Between, Searching
<1>2. Base /\ QueueInv /\ CountInv /\ DAGInv
  BY DEF SearchInv
<1>3. /\ Head(queue) \in Node /\ Head(queue) = queue[1] /\ 1 \in 1 .. Len(queue)
      /\ queue' \in Seq(Node) /\ Len(queue') = Len(queue) - 1 /\ Len(queue) \in Nat
      /\ \A i \in 1 .. Len(queue') : queue'[i] = queue[i + 1] /\ i + 1 \in 1 .. Len(queue)
  BY <1>1, <1>2, TailFacts DEF Base
<1>4. Cardinality(Waiting) \in Nat /\ n \in Nat /\ count \in Nat
  <2>1. IsFiniteSet(Waiting)
    BY NodeFacts, FS_Subset DEF Waiting
  <2>. QED BY <1>2, <2>1, FS_CardinalityType, NodeFacts DEF CountInv
<1>5. count + Len(queue) + Cardinality(Waiting) = n
  BY <1>1, <1>2 DEF DAGInv
<1>6. count < n
  BY <1>3, <1>4, <1>5
<1>7. count \in Node
  BY <1>4, <1>6 DEF Node
<1>8. Base'
  <2>1. \A v \in Node : Incidences(G, v)' = Incidences(G, v)
    BY <1>1 DEF Incidences, G
  <2>2. colour' \in [Node -> Node \union {NoNode}]
    BY <1>1, <1>2, <1>7 DEF Base
  <2>. QED BY <1>1, <1>2, <1>3, <2>1, <2>2 DEF Base
<1>9. QueueInv'
  BY <1>2, <1>3 DEF QueueInv
<1>10. CountInv'
  BY <1>1, <1>4, <1>6 DEF CountInv
<1>11. BFSInv' /\ HeapInv'
  BY <1>1 DEF BFSInv, HeapInv
<1>12. DAGInv'
  <2>1. \A v : Entering(v)' = Entering(v)
    BY <1>1 DEF Entering, Open, End, Start, G
  <2>2. Waiting' = Waiting
    BY <1>1 DEF Waiting
  <2>3. \A i \in 1 .. Len(queue') : idg[queue'[i]] = 0
    BY <1>1, <1>2, <1>3 DEF DAGInv
  <2>4. count' + Len(queue') + Cardinality(Waiting') = n
    BY <1>1, <1>3, <1>4, <1>5, <2>2
  <2>. QED BY <1>1, <1>2, <2>1, <2>3, <2>4 DEF DAGInv
<1>. QED BY <1>8, <1>9, <1>10, <1>11, <1>12 DEF SearchInv

(* The arc that is read has been counted, and so idg does not become         *)
(* negative; a node enters the queue when its last entering arc is read.     *)
LEMMA DAGReadInv ==
  ASSUME SearchInv, NEW a \in Arc, DAGRead(a)
  PROVE  SearchInv'
<1>. DEFINE w == End(a)
<1>1. /\ call.proc = "DAGSearch" /\ pc = "search" /\ u # NoNode /\ Read(a)
      /\ call' = call /\ pc' = pc /\ colour' = colour /\ region' = region /\ active' = active
      /\ u' = u /\ idx' = idx /\ count' = count /\ flag' = flag /\ root' = root
  BY DEF DAGRead, Expanding, Searching
<1>2. Base /\ QueueInv /\ CountInv /\ DAGInv
  BY DEF SearchInv
<1>3. /\ u \in Node /\ Start(a) = u /\ w \in Node /\ a \in unread[u] /\ dist[u] \in Int
      /\ Length(G, a) \in Int
      /\ unread' \in [Node -> SUBSET Arc] /\ unread'[u] = unread[u] \ {a}
      /\ (\A v \in Node : v # u => unread'[v] = unread[v])
      /\ \A v \in Node : unread'[v] \subseteq Incidences(G, v)'
  BY <1>1, ReadFacts
<1>4. /\ (\A i \in 1 .. Len(queue) : idg[queue[i]] = 0)
      /\ (\A v \in Node : idg[v] = Cardinality(Entering(v)))
      /\ count + Len(queue) + Cardinality(Waiting) = n
  BY <1>1, <1>2 DEF DAGInv
<1>5. CountInv' /\ BFSInv' /\ HeapInv'
  BY <1>1, <1>2 DEF CountInv, BFSInv, HeapInv
<1>6. \A b \in Arc : Start(b) \in Node
  BY <1>2, GraphFacts DEF Base
<1>7. \A v \in Node : Entering(v)' = {b \in Arc : Open(b) /\ End(b) = v /\ b \in unread'[Start(b)]}
  BY <1>1 DEF Entering, Open, End, Start, G
<1>8. \A b \in Arc : b \in unread'[Start(b)] <=> b \in unread[Start(b)] /\ b # a
  BY <1>3, <1>6
<1>9. CASE ~Open(a)
  <2>1. idg' = idg /\ dist' = dist /\ pred' = pred /\ queue' = queue
    BY <1>9 DEF DAGRead
  <2>2. Base'
    BY <1>1, <1>2, <1>3, <2>1 DEF Base
  <2>3. \A v \in Node : Entering(v)' = Entering(v)
    <3>1. ASSUME NEW v \in Node, NEW b \in Arc PROVE b \in Entering(v)' <=> b \in Entering(v)
      BY <1>7, <1>8, <1>9 DEF Entering
    <3>2. ASSUME NEW v \in Node PROVE Entering(v)' \subseteq Arc /\ Entering(v) \subseteq Arc
      BY <1>7 DEF Entering
    <3>. QED BY <3>1, <3>2
  <2>4. Waiting' = Waiting
    BY <2>1 DEF Waiting
  <2>5. QueueInv' /\ DAGInv'
    BY <1>1, <1>2, <1>4, <2>1, <2>3, <2>4 DEF QueueInv, DAGInv
  <2>. QED BY <1>5, <2>2, <2>5 DEF SearchInv
<1>10. CASE Open(a)
  <2>1. /\ idg' = [idg EXCEPT ![w] = @ - 1]
        /\ queue' = IF idg[w] = 1 THEN Append(queue, w) ELSE queue
        /\ IF DAGImproves(a) THEN Improve(a, dist[u] + Length(G, a)) ELSE UNCHANGED <<dist, pred>>
    BY <1>10 DEF DAGRead
  <2>2. dist' \in [Node -> Int] /\ pred' \in [Node -> Arc \union {NoArc}]
    <3>1. CASE Improve(a, dist[u] + Length(G, a))
      <4>1. dist[u] + Length(G, a) \in Int
        BY <1>3
      <4>. QED BY <3>1, <4>1, ImproveFacts
    <3>2. CASE dist' = dist /\ pred' = pred
      BY <1>2, <3>2 DEF Base
    <3>. QED BY <2>1, <3>1, <3>2
  <2>3. \A v \in Node : IsFiniteSet(Entering(v)) /\ Cardinality(Entering(v)) \in Nat
    <3>1. \A v \in Node : IsFiniteSet(Entering(v))
      BY NodeFacts, FS_Subset DEF Entering
    <3>. QED BY <3>1, FS_CardinalityType
  <2>4. a \in Entering(w)
    BY <1>3, <1>10 DEF Entering
  <2>5. idg[w] \in Nat /\ idg[w] # 0
    <3>1. Cardinality(Entering(w)) # 0
      BY <1>3, <2>3, <2>4, FS_EmptySet
    <3>. QED BY <1>3, <1>4, <2>3, <3>1
  <2>6. /\ idg' \in [Node -> Nat] /\ idg'[w] = idg[w] - 1
        /\ \A v \in Node : v # w => idg'[v] = idg[v]
    <3>1. idg[w] - 1 \in Nat
      BY <2>5
    <3>. QED BY <1>2, <1>3, <2>1, <3>1 DEF Base
  <2>7. ASSUME NEW v \in Node PROVE idg'[v] = Cardinality(Entering(v)')
    <3>1. Entering(v)' = Entering(v) \ {a}
      <4>1. ASSUME NEW b \in Arc PROVE b \in Entering(v)' <=> b \in Entering(v) \ {a}
        BY <1>7, <1>8 DEF Entering
      <4>2. Entering(v)' \subseteq Arc /\ Entering(v) \subseteq Arc
        BY <1>7 DEF Entering
      <4>. QED BY <4>1, <4>2
    <3>2. Cardinality(Entering(v)') =
            IF a \in Entering(v) THEN Cardinality(Entering(v)) - 1 ELSE Cardinality(Entering(v))
      BY <2>3, <3>1, FS_RemoveElement
    <3>3. CASE v = w
      BY <1>4, <2>4, <2>6, <3>2, <3>3
    <3>4. CASE v # w
      <4>1. a \notin Entering(v)
        BY <3>4 DEF Entering
      <4>. QED BY <1>4, <2>6, <3>2, <3>4, <4>1
    <3>. QED BY <3>3, <3>4
  <2>8. queue \in Seq(Node) /\ Len(queue) \in Nat /\ count \in Nat /\ n \in Nat
        /\ (\A i \in 1 .. Len(queue) : queue[i] \in Node /\ queue[i] # w)
    <3>1. queue \in Seq(Node) /\ Len(queue) \in Nat /\ \A i \in 1 .. Len(queue) : queue[i] \in Node
      BY <1>2, LenProperties DEF Base
    <3>2. \A i \in 1 .. Len(queue) : queue[i] # w
      BY <1>4, <2>5
    <3>. QED BY <1>2, <3>1, <3>2, NodeFacts DEF CountInv
  <2>9. IsFiniteSet(Waiting) /\ Cardinality(Waiting) \in Nat /\ w \in Waiting
    <3>1. IsFiniteSet(Waiting)
      BY NodeFacts, FS_Subset DEF Waiting
    <3>. QED BY <1>3, <2>5, <3>1, FS_CardinalityType DEF Waiting
  <2>10. CASE idg[w] # 1
    <3>1. queue' = queue
      BY <2>1, <2>10
    <3>2. Waiting' = Waiting
      <4>1. ASSUME NEW v \in Node PROVE idg'[v] # 0 <=> idg[v] # 0
        BY <2>5, <2>6, <2>10
      <4>. QED BY <4>1 DEF Waiting
    <3>3. Base'
      BY <1>1, <1>2, <1>3, <2>2, <2>6, <3>1 DEF Base
    <3>4. \A i \in 1 .. Len(queue') : idg'[queue'[i]] = 0
      BY <1>4, <2>6, <2>8, <3>1
    <3>5. QueueInv' /\ DAGInv'
      BY <1>1, <1>2, <1>4, <2>7, <3>1, <3>2, <3>4 DEF QueueInv, DAGInv
    <3>. QED BY <1>5, <3>3, <3>5 DEF SearchInv
  <2>11. CASE idg[w] = 1
    <3>1. /\ queue' \in Seq(Node) /\ Len(queue') = Len(queue) + 1
          /\ (\A i \in 1 .. Len(queue) : queue'[i] = queue[i]) /\ queue'[Len(queue) + 1] = w
      BY <1>3, <2>1, <2>8, <2>11, AppendFacts
    <3>2. idg'[w] = 0
      BY <2>6, <2>11
    <3>3. Waiting' = Waiting \ {w}
      <4>1. ASSUME NEW v \in Node PROVE idg'[v] # 0 <=> idg[v] # 0 /\ v # w
        BY <2>6, <3>2
      <4>. QED BY <4>1 DEF Waiting
    <3>4. Cardinality(Waiting') = Cardinality(Waiting) - 1
      BY <2>9, <3>3, FS_RemoveElement
    <3>5. Base'
      BY <1>1, <1>2, <1>3, <2>2, <2>6, <3>1 DEF Base
    <3>6. \A i \in 1 .. Len(queue') : i \in 1 .. Len(queue) \/ i = Len(queue) + 1
      BY <2>8, <3>1
    <3>7. ASSUME NEW i \in 1 .. Len(queue') PROVE idg'[queue'[i]] = 0
      <4>1. CASE i \in 1 .. Len(queue)
        BY <1>4, <2>6, <2>8, <3>1, <4>1
      <4>2. CASE i = Len(queue) + 1
        BY <3>1, <3>2, <4>2
      <4>. QED BY <3>6, <4>1, <4>2
    <3>8. QueueInv'
      <4>. SUFFICES ASSUME NEW i \in 1 .. Len(queue'), NEW j \in 1 .. Len(queue'),
                           queue'[i] = queue'[j]
                    PROVE  i = j
        BY DEF QueueInv
      <4>1. CASE i \in 1 .. Len(queue) /\ j \in 1 .. Len(queue)
        BY <1>2, <3>1, <4>1 DEF QueueInv
      <4>2. CASE i = Len(queue) + 1 /\ j \in 1 .. Len(queue)
        BY <2>8, <3>1, <4>2
      <4>3. CASE j = Len(queue) + 1 /\ i \in 1 .. Len(queue)
        BY <2>8, <3>1, <4>3
      <4>4. CASE i = Len(queue) + 1 /\ j = Len(queue) + 1
        BY <4>4
      <4>. QED BY <3>6, <4>1, <4>2, <4>3, <4>4
    <3>9. count' + Len(queue') + Cardinality(Waiting') = n
      BY <1>1, <1>4, <2>8, <2>9, <3>1, <3>4
    <3>10. DAGInv'
      BY <1>1, <2>7, <3>7, <3>9 DEF DAGInv
    <3>. QED BY <1>5, <3>5, <3>8, <3>10 DEF SearchInv
  <2>. QED BY <2>10, <2>11
<1>. QED BY <1>9, <1>10

-------------------------------------------------------------------------------
LEMMA SearchInvariant == Spec => []SearchInv
<1>1. SearchInv /\ [Next]_vars => SearchInv'
  <2>. SUFFICES ASSUME SearchInv, [Next]_vars PROVE SearchInv'
    OBVIOUS
  <2>1. CASE Refuse
    BY <2>1, RefuseInv
  <2>2. CASE BFSStart \/ DijkstraStart \/ BellmanStart \/ FIFOStart \/ DAGStart
    BY <2>2, BFSStartInv, DijkstraStartInv, BellmanStartInv, FIFOStartInv, DAGStartInv
  <2>3. CASE BFSReturn \/ DijkstraReturn \/ DAGReturn
    BY <2>3, ReturnInv
  <2>4. CASE VoronoiMerge
    BY <2>4, VoronoiInv
  <2>5. CASE BFSDelete \/ DijkstraDelete \/ DAGDelete
    BY <2>5, BFSDeleteInv, DijkstraDeleteInv, DAGDeleteInv
  <2>6. CASE BellmanArc \/ BellmanPass \/ FIFONode \/ FIFOLeave \/ FIFOPass
    BY <2>6, BellmanArcInv, BellmanPassInv, FIFONodeInv, FIFOPassInv
  <2>7. CASE \E a \in Arc : BFSRead(a) \/ DijkstraRead(a) \/ FIFORead(a) \/ DAGRead(a)
    BY <2>7, BFSReadInv, DijkstraReadInv, FIFOReadInv, DAGReadInv
  <2>8. CASE UNCHANGED vars
    <3>1. region' \in [Node -> SUBSET Node] /\ idx' \in Nat /\ pc' = pc
      BY <2>8 DEF vars, SearchInv, Base
    <3>. QED BY <2>8, <3>1, QuietInv DEF vars
  <2>. QED BY <2>1, <2>2, <2>3, <2>4, <2>5, <2>6, <2>7, <2>8 DEF Next
<1>. QED BY InitInv, <1>1, PTL DEF Spec

(* Labels, predecessors and counters of every procedure stay in their        *)
(* ranges; in particular, a static queue with room for n nodes suffices for  *)
(* BFS and for the DAG search, topological numbers are nodes, and the passes *)
(* of the label correcting methods are limited.                              *)
THEOREM SearchTypes == Spec => []TypeOK
<1>1. SearchInv => TypeOK
  <2>. SUFFICES ASSUME SearchInv PROVE TypeOK
    OBVIOUS
  <2>1. Len(queue) <= n
    <3>1. Len(queue) \in 0 .. n
      BY ShortQueue DEF SearchInv, Base, QueueInv
    <3>. QED BY <3>1, NodeFacts
  <2>2. count \in 0 .. 2 * n + 1
    BY DEF SearchInv, CountInv
  <2>. QED BY <2>1, <2>2 DEF SearchInv, Base, TypeOK
<1>. QED BY <1>1, SearchInvariant, PTL

(* Dijkstra and BFS expand the nodes in the order of their labels, in every  *)
(* graph: a node that has left the heap is no farther than one that has not, *)
(* and the queue of a BFS holds two layers at most, the nearer one in front. *)
THEOREM NearestExpandedFirst == Spec => []NearestFirst
<1>1. SearchInv => NearestFirst
  <2>. SUFFICES ASSUME SearchInv PROVE NearestFirst
    OBVIOUS
  <2>1. SettledFirst
    <3>. SUFFICES ASSUME call.proc = "Dijkstra", pc = "search", NEW v \in Node \ active,
                         NEW w \in active, dist[v] # InfFloat
                  PROVE  dist[v] <= dist[w]
      BY DEF SettledFirst
    <3>1. u # NoNode
      BY DEF SearchInv, HeapInv
    <3>2. dist[v] <= dist[u] /\ dist[u] <= dist[w]
      BY <3>1 DEF SearchInv, HeapInv
    <3>3. dist[v] \in Int /\ dist[u] \in Int /\ dist[w] \in Int
      BY <3>1 DEF SearchInv, Base
    <3>. QED BY <3>2, <3>3
  <2>2. LayersInOrder
    BY DEF SearchInv, BFSInv, LayersInOrder
  <2>. QED BY <2>1, <2>2 DEF NearestFirst
<1>. QED BY <1>1, SearchInvariant, PTL

-------------------------------------------------------------------------------
(* The labels of BFS and of the Dijkstra method are the distances: the       *)
(* inductive invariant.                                                      *)

(* The labelled nodes that wait in the queue or in the heap, and the others. *)
Queued == IF call.proc = "BFS" THEN {queue[i] : i \in 1 .. Len(queue)} ELSE active
Settled == Known \ Queued
Lengths(k) == WalkLengths(call, call.S, k)

(* Every label is the length of a walk.  The number of arcs is bounded by    *)
(* the label (BFS) or by the number of settled nodes (Dijkstra).             *)
WalkInv ==
  \A v \in Known :
    /\ call.proc = "BFS" => dist[v] \in Lengths(dist[v])[v]
    /\ call.proc = "Dijkstra" =>
         /\ dist[v] \in Lengths(Cardinality(Settled))[v]
         /\ v \in Settled => dist[v] \in Lengths(Cardinality(Settled) - 1)[v]

(* The arcs that have been read cannot improve a label.                      *)
ReadInv ==
  /\ \A v \in Node : dist[v] <= InfFloat
  /\ \A s \in call.S : dist[s] <= 0
  /\ Queued \subseteq Known
  /\ u # NoNode => u \in Settled
  /\ \A v \in Settled :
       /\ u # NoNode
       /\ v # u => unread[v] = {}
       /\ call.proc = "BFS" => dist[v] <= dist[u]
  /\ \A v \in Node \ Settled : unread[v] = Incidences(G, v)
  /\ \A v \in Settled : \A a \in Incidences(G, v) \ unread[v] :
       Open(a) => dist[End(a)] <= dist[v] + StepLength(call, a)

(* When the search ends, every labelled node has been settled and its arcs   *)
(* have been read, or the target is as near.                                 *)
Finished(v) == v \in Settled /\ unread[v] = {}
StopInv ==
  /\ call.proc = "BFS" /\ ~flag =>
       u # NoNode /\ \E t \in call.T : dist[t] # InfFloat /\ dist[t] <= dist[u] + 1
  /\ pc \in {"merge", "done"} =>
       \/ \A v \in Known : Finished(v)
       \/ \E t \in call.T :
            /\ dist[t] # InfFloat
            /\ \A v \in Known : Finished(v) \/
                 dist[t] <= IF call.proc = "BFS" THEN dist[v] + 1 ELSE dist[v]

(* The predecessor arcs are tight and lead to settled nodes, settled earlier *)
(* for another settled node, which a numbering shows.                        *)
TreeArc(v) ==
  /\ pred[v] # NoArc =>
       /\ v \in Known /\ Open(pred[v]) /\ End(pred[v]) = v /\ Start(pred[v]) \in Settled
       /\ dist[v] = dist[Start(pred[v])] + StepLength(call, pred[v])
  /\ pred[v] = NoArc /\ v \in Known => v \in Sources
Numbering(r) ==
  \A v \in Settled : /\ r[v] < Cardinality(Settled)
                     /\ pred[v] # NoArc => r[Start(pred[v])] < r[v]
TreeInv == (\A v \in Node : TreeArc(v)) /\ \E r \in [Node -> Nat] : Numbering(r)

LabelInv ==
  /\ pc # "done" => ~Fails
  /\ call.proc \in {"BFS", "Dijkstra"} /\ pc # "called" /\ ~Fails =>
       WalkInv /\ ReadInv /\ StopInv /\ TreeInv

-------------------------------------------------------------------------------
(* Facts about walks.                                                        *)

(* A set of natural numbers has a least element.                             *)
LEMMA LeastNumber ==
  ASSUME NEW S \in SUBSET Nat, S # {}
  PROVE  \E k \in S : \A j \in S : k <= j
<1>1. PICK k \in S : \A j \in S : <<j, k>> \notin OpToRel(<, Nat)
  BY NatLessThanWellFounded, WFMin
<1>2. ASSUME NEW j \in S PROVE k <= j
  <2>1. ~(j < k)
    BY <1>1 DEF OpToRel
  <2>2. k \in Nat /\ j \in Nat
    OBVIOUS
  <2>. QED BY <2>1, <2>2
<1>. QED BY <1>2

NoArcs(X) == [v \in Node |-> IF v \in X THEN {0} ELSE {}]
Layers(c, X, k, f) == f = [i \in 0 .. k |->
  IF i = 0 THEN NoArcs(X) ELSE OneArcMore(c, f[i - 1])]

(* The recursive definition has a solution, and only one.                    *)
LEMMA LayersExist ==
  ASSUME NEW c, NEW X, NEW k \in Nat
  PROVE  \E f : Layers(c, X, k, f)
<1>. DEFINE Bad == {j \in Nat : ~ \E f : Layers(c, X, j, f)}
<1>. SUFFICES ASSUME Bad # {} PROVE FALSE
  OBVIOUS
<1>1. PICK j \in Bad : \A i \in Bad : j <= i
  BY LeastNumber
<1>2. CASE j = 0
  <2>. DEFINE f == [i \in 0 .. 0 |-> NoArcs(X)]
  <2>1. Layers(c, X, 0, f)
    BY DEF Layers
  <2>. HIDE DEF f
  <2>. QED BY <1>2, <2>1
<1>3. CASE j # 0
  <2>1. j \in Nat /\ j - 1 \in Nat /\ ~(j <= j - 1)
    BY <1>3
  <2>2. PICK f : Layers(c, X, j - 1, f)
    BY <1>1, <2>1
  <2>. DEFINE g == [i \in 0 .. j |-> IF i = j THEN OneArcMore(c, f[j - 1]) ELSE f[i]]
  <2>3. ASSUME NEW i \in 0 .. j
        PROVE  g[i] = IF i = 0 THEN NoArcs(X) ELSE OneArcMore(c, g[i - 1])
    <3>1. CASE i = j
      <4>1. g[i] = OneArcMore(c, f[j - 1]) /\ g[i - 1] = f[j - 1] /\ i # 0
        BY <1>3, <2>1, <3>1
      <4>. QED BY <4>1
    <3>2. CASE i # j
      <4>1. i \in 0 .. j - 1 /\ g[i] = f[i]
        BY <2>1, <3>2
      <4>2. f[i] = IF i = 0 THEN NoArcs(X) ELSE OneArcMore(c, f[i - 1])
        BY <2>2, <4>1 DEF Layers
      <4>3. CASE i = 0
        BY <4>1, <4>2, <4>3
      <4>4. CASE i # 0
        <5>1. g[i - 1] = f[i - 1]
          BY <2>1, <3>2, <4>4
        <5>. QED BY <4>1, <4>2, <4>4, <5>1
      <4>. QED BY <4>3, <4>4
    <3>. QED BY <3>1, <3>2
  <2>4. g = [i \in 0 .. j |-> IF i = 0 THEN NoArcs(X) ELSE OneArcMore(c, g[i - 1])]
    <3>. DEFINE h == [i \in 0 .. j |-> IF i = 0 THEN NoArcs(X) ELSE OneArcMore(c, g[i - 1])]
    <3>1. \A i \in 0 .. j : g[i] = h[i]
      BY <2>3
    <3>. QED BY <3>1
  <2>5. Layers(c, X, j, g)
    BY <2>4 DEF Layers
  <2>. HIDE DEF g
  <2>. QED BY <2>5
<1>. QED BY <1>2, <1>3

LEMMA LayersUnique ==
  ASSUME NEW c, NEW X, NEW k \in Nat, NEW j \in Nat, NEW f, NEW g,
         Layers(c, X, k, f), Layers(c, X, j, g), j <= k
  PROVE  \A i \in 0 .. j : f[i] = g[i]
<1>. DEFINE Bad == {i \in 0 .. j : f[i] # g[i]}
<1>. SUFFICES ASSUME Bad # {} PROVE FALSE
  OBVIOUS
<1>1. Bad \in SUBSET Nat
  OBVIOUS
<1>2. PICK i \in Bad : \A h \in Bad : i <= h
  BY <1>1, LeastNumber
<1>3. i \in 0 .. j /\ i \in 0 .. k /\ f[i] # g[i]
  OBVIOUS
<1>4. /\ f[i] = IF i = 0 THEN NoArcs(X) ELSE OneArcMore(c, f[i - 1])
      /\ g[i] = IF i = 0 THEN NoArcs(X) ELSE OneArcMore(c, g[i - 1])
  BY <1>3 DEF Layers
<1>5. i # 0
  BY <1>3, <1>4
<1>6. i - 1 \in 0 .. j /\ ~(i <= i - 1)
  BY <1>3, <1>5
<1>7. f[i - 1] = g[i - 1]
  BY <1>2, <1>6
<1>. QED BY <1>3, <1>4, <1>5, <1>7

(* WalkLengths is what its definition says.                                  *)
LEMMA WalkLayers ==
  ASSUME NEW c, NEW X, NEW k \in Nat, NEW f, Layers(c, X, k, f)
  PROVE  WalkLengths(c, X, k) = f[k]
<1>. DEFINE W == CHOOSE W : Layers(c, X, k, W)
<1>1. Layers(c, X, k, W)
  OBVIOUS
<1>2. W[k] = f[k]
  BY <1>1, LayersUnique
<1>3. WalkLengths(c, X, k) = W[k]
  BY DEF WalkLengths, Layers, NoArcs
<1>. QED BY <1>2, <1>3

LEMMA WalkStep ==
  ASSUME NEW c, NEW X
  PROVE  /\ WalkLengths(c, X, 0) = NoArcs(X)
         /\ \A k \in Nat : WalkLengths(c, X, k + 1) = OneArcMore(c, WalkLengths(c, X, k))
<1>1. WalkLengths(c, X, 0) = NoArcs(X)
  <2>1. PICK f : Layers(c, X, 0, f)
    BY LayersExist
  <2>2. f[0] = NoArcs(X)
    BY <2>1 DEF Layers
  <2>. QED BY <2>1, <2>2, WalkLayers
<1>2. ASSUME NEW k \in Nat
      PROVE  WalkLengths(c, X, k + 1) = OneArcMore(c, WalkLengths(c, X, k))
  <2>1. k + 1 \in Nat /\ k <= k + 1 /\ k \in 0 .. k /\ k + 1 \in 0 .. k + 1 /\ k + 1 # 0
        /\ (k + 1) - 1 = k
    OBVIOUS
  <2>2. PICK f : Layers(c, X, k + 1, f)
    BY <2>1, LayersExist
  <2>3. PICK g : Layers(c, X, k, g)
    BY LayersExist
  <2>4. f[k] = g[k]
    BY <2>1, <2>2, <2>3, LayersUnique
  <2>5. f[k + 1] = OneArcMore(c, f[k])
    BY <2>1, <2>2 DEF Layers
  <2>. QED BY <2>1, <2>2, <2>3, <2>4, <2>5, WalkLayers
<1>. QED BY <1>1, <1>2
(* A walk with at most k + 1 arcs has at most k arcs, or a last arc.         *)
Extends(c, a, v, x, d) ==
  Eligible(c.G, c.chr, a) /\ EndNode(c.G, a) = v /\ d = x + StepLength(c, a)

LEMMA WalkZero ==
  ASSUME NEW c, NEW X, NEW v \in Node
  PROVE  WalkLengths(c, X, 0)[v] = IF v \in X THEN {0} ELSE {}
BY WalkStep DEF NoArcs

LEMMA WalkMore ==
  ASSUME NEW c, NEW X, NEW k \in Nat, NEW v \in Node, NEW d
  PROVE  d \in WalkLengths(c, X, k + 1)[v] <=>
           \/ d \in WalkLengths(c, X, k)[v]
           \/ \E a \in Arc : \E x \in WalkLengths(c, X, k)[StartNode(c.G, a)] :
                Extends(c, a, v, x, d)
<1>. DEFINE W == WalkLengths(c, X, k)
<1>1. WalkLengths(c, X, k + 1) = OneArcMore(c, W)
  BY WalkStep
<1>. HIDE DEF W
<1>. DEFINE In == {b \in Arc : Eligible(c.G, c.chr, b) /\ EndNode(c.G, b) = v}
<1>2. OneArcMore(c, W)[v] = W[v] \union
        UNION {{x + StepLength(c, a) : x \in W[StartNode(c.G, a)]} : a \in In}
  BY DEF OneArcMore
<1>3. d \in OneArcMore(c, W)[v] <=>
        d \in W[v] \/ \E a \in In : d \in {x + StepLength(c, a) : x \in W[StartNode(c.G, a)]}
  BY <1>2
<1>4. d \in OneArcMore(c, W)[v] <=>
        d \in W[v] \/ \E a \in In : \E x \in W[StartNode(c.G, a)] : d = x + StepLength(c, a)
  BY <1>3
<1>5. d \in OneArcMore(c, W)[v] <=>
        d \in W[v] \/ \E a \in Arc : \E x \in W[StartNode(c.G, a)] : Extends(c, a, v, x, d)
  BY <1>4 DEF Extends
<1>. QED BY <1>1, <1>5 DEF W

LEMMA WalkSplit ==
  ASSUME NEW c, NEW X, NEW v \in Node, NEW k \in Nat, k # 0, NEW d \in WalkLengths(c, X, k)[v]
  PROVE  \/ d \in WalkLengths(c, X, k - 1)[v]
         \/ \E a \in Arc : \E x \in WalkLengths(c, X, k - 1)[StartNode(c.G, a)] :
              Extends(c, a, v, x, d)
<1>1. k - 1 \in Nat /\ (k - 1) + 1 = k
  OBVIOUS
<1>2. d \in WalkLengths(c, X, (k - 1) + 1)[v]
  BY <1>1
<1>. QED BY <1>1, <1>2, WalkMore, Zenon

LEMMA WalkExtend ==
  ASSUME NEW c, NEW X, NEW k \in Nat, NEW a \in Arc, EndNode(c.G, a) \in Node,
         Eligible(c.G, c.chr, a), NEW x \in WalkLengths(c, X, k)[StartNode(c.G, a)]
  PROVE  x + StepLength(c, a) \in WalkLengths(c, X, k + 1)[EndNode(c.G, a)]
<1>1. Extends(c, a, EndNode(c.G, a), x, x + StepLength(c, a))
  BY DEF Extends
<1>. QED BY <1>1, WalkMore, Zenon

(* The arcs of the graph of a call.                                          *)
LEMMA CallFacts ==
  ASSUME NEW c \in Calls, NEW a \in Arc
  PROVE  /\ StartNode(c.G, a) \in Node /\ EndNode(c.G, a) \in Node
         /\ StepLength(c, a) \in Int /\ StepLength(c, a) <= MaxLength
<1>1. IsGraph(c.G) /\ c.epsilon \in Nat /\ StepLength(c, a) <= MaxLength
  BY CallsAssumption
<1>2. \A e \in Edge : c.G.ends[e][1] \in Node /\ c.G.ends[e][2] \in Node /\ c.G.length[e] \in Int
  BY <1>1 DEF IsGraph
<1>3. \A b \in Arc : StartNode(c.G, b) \in Node
  BY <1>2, EdgeFacts DEF StartNode
<1>4. EndNode(c.G, a) \in Node
  BY <1>3, EdgeFacts DEF EndNode
<1>5. Length(c.G, a) \in Int
  BY <1>2, EdgeFacts DEF Length
<1>6. \A v \in Node : Potential(c.G, v) \in Int
  BY <1>1 DEF Potential, IsGraph
<1>7. RedLength(c.G, a) \in Int
  <2>1. Potential(c.G, StartNode(c.G, a)) \in Int /\ Potential(c.G, EndNode(c.G, a)) \in Int
    BY <1>3, <1>4, <1>6
  <2>. QED BY <1>5, <2>1 DEF RedLength
<1>8. SearchLength(c.G, c.chr, a) \in Int
  BY <1>5, <1>7 DEF SearchLength
<1>9. StepLength(c, a) \in Int
  BY <1>1, <1>8 DEF StepLength
<1>. QED BY <1>1, <1>3, <1>4, <1>9

(* A walk is no longer than its number of arcs allows.                       *)
LEMMA WalkBound ==
  ASSUME NEW c \in Calls, NEW X, NEW k \in Nat, NEW v \in Node,
         NEW d \in WalkLengths(c, X, k)[v]
  PROVE  d \in Int /\ d <= k * MaxLength
<1>. DEFINE Fits(j) == \A w \in Node : \A x \in WalkLengths(c, X, j)[w] : x \in Int /\ x <= j * MaxLength
<1>. DEFINE Bad == {j \in Nat : ~Fits(j)}
<1>0. MaxLength \in Nat
  BY LengthAssumption
<1>1. Bad = {}
  <2>. SUFFICES ASSUME Bad # {} PROVE FALSE
    OBVIOUS
  <2>1. PICK j \in Bad : \A i \in Bad : j <= i
    BY LeastNumber
  <2>2. j # 0
    <3>1. ASSUME NEW w \in Node, NEW x \in WalkLengths(c, X, 0)[w] PROVE x \in Int /\ x <= 0 * MaxLength
      <4>1. x = 0
        BY WalkZero
      <4>. QED BY <1>0, <4>1
    <3>. QED BY <2>1, <3>1
  <2>3. j - 1 \in Nat /\ ~(j <= j - 1) /\ (j - 1) + 1 = j
    BY <2>2
  <2>4. Fits(j - 1)
    BY <2>1, <2>3
  <2>5. (j - 1) * MaxLength \in Int /\ j * MaxLength \in Int /\ j * MaxLength = (j - 1) * MaxLength + MaxLength
    <3>1. \A p, q \in Nat : p * q \in Int /\ (p + 1) * q = p * q + q
      OBVIOUS
    <3>2. j \in Nat
      OBVIOUS
    <3>. QED BY <1>0, <2>3, <3>1, <3>2
  <2>6. ASSUME NEW w \in Node, NEW x \in WalkLengths(c, X, j)[w] PROVE x \in Int /\ x <= j * MaxLength
    <3>1. \/ x \in WalkLengths(c, X, j - 1)[w]
          \/ \E a \in Arc : \E y \in WalkLengths(c, X, j - 1)[StartNode(c.G, a)] : Extends(c, a, w, y, x)
      <4>1. j \in Nat
        OBVIOUS
      <4>. QED BY <2>2, <4>1, WalkSplit
    <3>2. CASE x \in WalkLengths(c, X, j - 1)[w]
      BY <1>0, <2>4, <2>5, <3>2
    <3>3. ASSUME NEW a \in Arc, NEW y \in WalkLengths(c, X, j - 1)[StartNode(c.G, a)], Extends(c, a, w, y, x)
          PROVE  x \in Int /\ x <= j * MaxLength
      <4>1. y \in Int /\ y <= (j - 1) * MaxLength
        BY <2>4, CallFacts
      <4>2. StepLength(c, a) \in Int /\ StepLength(c, a) <= MaxLength /\ x = y + StepLength(c, a)
        BY <3>3, CallFacts DEF Extends
      <4>. QED BY <1>0, <2>5, <4>1, <4>2
    <3>. QED BY <3>1, <3>2, <3>3
  <2>. QED BY <2>1, <2>6
<1>2. Fits(k)
  BY <1>1
<1>. QED BY <1>2

LEMMA PathsFinite ==
  ASSUME NEW c \in Calls, NEW X, NEW k \in 0 .. n, NEW v \in Node,
         NEW d \in WalkLengths(c, X, k)[v]
  PROVE  d \in Int /\ d < InfFloat
<1>1. k \in Nat /\ n \in Nat /\ k <= n /\ MaxLength \in Nat /\ n * MaxLength < InfFloat /\ InfFloat \in Nat
  BY NodeFacts, LengthAssumption
<1>2. d \in Int /\ d <= k * MaxLength
  BY <1>1, WalkBound
<1>3. k * MaxLength \in Nat /\ n * MaxLength \in Nat /\ k * MaxLength <= n * MaxLength
  <2>1. \A p, q, r \in Nat : p <= q => p * r \in Nat /\ q * r \in Nat /\ p * r <= q * r
    OBVIOUS
  <2>. QED BY <1>1, <2>1
<1>. QED BY <1>1, <1>2, <1>3

(* A walk with few arcs has at most as many arcs as a larger bound allows.   *)
LEMMA WalkMonotone ==
  ASSUME NEW c, NEW X, NEW v \in Node, NEW i \in Nat, NEW k \in Nat, i <= k,
         NEW d \in WalkLengths(c, X, i)[v]
  PROVE  d \in WalkLengths(c, X, k)[v]
<1>. DEFINE Bad == {j \in Nat : i <= j /\ d \notin WalkLengths(c, X, j)[v]}
<1>1. Bad = {}
  <2>. SUFFICES ASSUME Bad # {} PROVE FALSE
    OBVIOUS
  <2>1. PICK j \in Bad : \A h \in Bad : j <= h
    BY LeastNumber
  <2>2. j \in Nat /\ i <= j /\ j # i
    OBVIOUS
  <2>3. j - 1 \in Nat /\ i <= j - 1 /\ ~(j <= j - 1) /\ (j - 1) + 1 = j
    BY <2>2
  <2>4. d \in WalkLengths(c, X, j - 1)[v]
    BY <2>1, <2>3
  <2>5. d \in WalkLengths(c, X, (j - 1) + 1)[v]
    BY <2>3, <2>4, WalkMore, Zenon
  <2>. QED BY <2>3, <2>5
<1>. QED BY <1>1

(* A set of integers with a lower bound has a minimum.                       *)
LEMMA LeastInteger ==
  ASSUME NEW S \in SUBSET Int, S # {}, NEW b \in Int, \A x \in S : b <= x
  PROVE  Min(S) \in S /\ \A y \in S : Min(S) <= y
<1>. DEFINE R == {x - b : x \in S}
<1>1. R \in SUBSET Nat /\ R # {}
  <2>1. ASSUME NEW x \in S PROVE x - b \in Nat
    <3>1. x \in Int /\ b <= x
      OBVIOUS
    <3>. QED BY <3>1
  <2>. QED BY <2>1
<1>2. PICK r \in R : \A q \in R : r <= q
  BY <1>1, LeastNumber
<1>3. PICK x \in S : r = x - b
  OBVIOUS
<1>4. ASSUME NEW y \in S PROVE x <= y
  <2>1. y - b \in R
    OBVIOUS
  <2>2. x - b <= y - b
    BY <1>2, <1>3, <2>1
  <2>. QED BY <2>2
<1>5. \E z \in S : \A y \in S : z <= y
  BY <1>4
<1>. QED BY <1>5 DEF Min

(* No walk is shorter than the label of its last node, except those that are *)
(* not shorter than a bound b, if no arc that has a labelled start node      *)
(* could still lead to a smaller label below b.                              *)
Certified(c, D, X, b) ==
  /\ \A v \in Node : v \in X => D[v] <= 0
  /\ \A a \in Arc : Eligible(c.G, c.chr, a) /\ D[StartNode(c.G, a)] # InfFloat =>
       \/ D[EndNode(c.G, a)] <= D[StartNode(c.G, a)] + StepLength(c, a)
       \/ b <= D[StartNode(c.G, a)] + StepLength(c, a)
  /\ b = InfFloat \/ \A a \in Arc : Eligible(c.G, c.chr, a) => StepLength(c, a) >= 0

LEMMA NoShorterWalk ==
  ASSUME NEW c \in Calls, NEW D \in [Node -> Int], NEW X, NEW b \in Int, Certified(c, D, X, b),
         NEW k \in 0 .. n, NEW v \in Node, NEW d \in WalkLengths(c, X, k)[v]
  PROVE  D[v] <= d \/ b <= d
<1>. DEFINE Holds(j) == \A w \in Node : \A x \in WalkLengths(c, X, j)[w] : D[w] <= x \/ b <= x
<1>. DEFINE Bad == {j \in 0 .. n : ~Holds(j)}
<1>0. n \in Nat /\ InfFloat \in Nat
  BY NodeFacts
<1>1. Bad = {}
  <2>. SUFFICES ASSUME Bad # {} PROVE FALSE
    OBVIOUS
  <2>1. Bad \in SUBSET Nat
    BY <1>0
  <2>2. PICK j \in Bad : \A i \in Bad : j <= i
    BY <2>1, LeastNumber
  <2>3. j \in 0 .. n /\ j \in Nat /\ ~Holds(j)
    BY <1>0
  <2>4. j # 0
    <3>1. ASSUME NEW w \in Node, NEW x \in WalkLengths(c, X, 0)[w] PROVE D[w] <= x
      <4>1. w \in X /\ x = 0
        BY WalkZero
      <4>. QED BY <4>1 DEF Certified
    <3>. QED BY <2>3, <3>1
  <2>5. j - 1 \in Nat /\ j - 1 \in 0 .. n /\ ~(j <= j - 1)
    BY <1>0, <2>3, <2>4
  <2>6. Holds(j - 1)
    BY <2>2, <2>5
  <2>7. ASSUME NEW w \in Node, NEW x \in WalkLengths(c, X, j)[w] PROVE D[w] <= x \/ b <= x
    <3>1. CASE x \in WalkLengths(c, X, j - 1)[w]
      BY <2>6, <3>1
    <3>2. ASSUME NEW a \in Arc, NEW y \in WalkLengths(c, X, j - 1)[StartNode(c.G, a)],
                 Extends(c, a, w, y, x)
          PROVE  D[w] <= x \/ b <= x
      <4>. DEFINE z == StartNode(c.G, a)
                  step == StepLength(c, a)
      <4>1. z \in Node /\ step \in Int /\ D[z] \in Int /\ D[w] \in Int
        BY CallFacts
      <4>2. y \in Int /\ y < InfFloat
        BY <2>5, <4>1, PathsFinite
      <4>3. Eligible(c.G, c.chr, a) /\ EndNode(c.G, a) = w /\ x = y + step
        BY <3>2 DEF Extends
      <4>4. D[z] <= y \/ b <= y
        BY <2>6, <4>1
      <4>. HIDE DEF z, step
      <4>5. CASE b <= y
        <5>1. b # InfFloat
          BY <1>0, <4>2, <4>5
        <5>2. step >= 0
          BY <4>3, <5>1 DEF Certified, step
        <5>. QED BY <4>1, <4>2, <4>3, <4>5, <5>2
      <4>6. CASE D[z] <= y
        <5>1. D[z] # InfFloat
          BY <1>0, <4>1, <4>2, <4>6
        <5>2. D[w] <= D[z] + step \/ b <= D[z] + step
          BY <4>3, <5>1 DEF Certified, z, step
        <5>. QED BY <4>1, <4>2, <4>3, <4>6, <5>2
      <4>. QED BY <4>4, <4>5, <4>6
    <3>. QED BY <2>3, <2>4, <3>1, <3>2, WalkSplit
  <2>. QED BY <2>3, <2>7
<1>2. Holds(k)
  BY <1>1
<1>. QED BY <1>2

(* Labels that are lengths of paths are then the distances.                  *)
LEMMA LabelsAreDistances ==
  ASSUME NEW c \in Calls, NEW D \in [Node -> Int], NEW X, NEW b \in Int, Certified(c, D, X, b),
         b <= InfFloat, \A v \in Node : D[v] <= InfFloat,
         \A v \in Node : D[v] # InfFloat => D[v] \in WalkLengths(c, X, n - 1)[v],
         NEW v \in Node
  PROVE  /\ Distances(c, X)[v] \in Int
         /\ \/ D[v] = Distances(c, X)[v]
            \/ D[v] > Distances(c, X)[v] /\ b <= Distances(c, X)[v] /\ b # InfFloat
<1>. DEFINE W == WalkLengths(c, X, n - 1)[v]
<1>0. n - 1 \in 0 .. n /\ InfFloat \in Nat /\ D[v] \in Int
  BY NodeFacts
<1>1. \A d \in W : d \in Int /\ d < InfFloat /\ (D[v] <= d \/ b <= d)
  BY <1>0, PathsFinite, NoShorterWalk
<1>2. Distances(c, X)[v] = IF W = {} THEN InfFloat ELSE Min(W)
  BY DEF Distances
<1>3. D[v] # InfFloat => D[v] \in W
  OBVIOUS
<1>4. D[v] <= InfFloat
  OBVIOUS
<1>. HIDE DEF W
<1>5. CASE W = {}
  BY <1>0, <1>2, <1>3, <1>5
<1>6. CASE W # {}
  <2>. DEFINE bound == IF D[v] <= b THEN D[v] ELSE b
  <2>1. bound \in Int /\ \A d \in W : bound <= d
    BY <1>0, <1>1
  <2>2. W \in SUBSET Int
    BY <1>1
  <2>3. Min(W) \in W /\ \A d \in W : Min(W) <= d
    BY <1>6, <2>1, <2>2, LeastInteger
  <2>4. /\ Min(W) \in Int /\ Min(W) < InfFloat /\ (D[v] <= Min(W) \/ b <= Min(W))
    BY <1>1, <2>3
  <2>5. D[v] # InfFloat => Min(W) <= D[v]
    BY <1>3, <2>3
  <2>6. Distances(c, X)[v] = Min(W)
    BY <1>2, <1>6
  <2>7. Min(W) <= D[v]
    BY <1>0, <1>4, <2>4, <2>5
  <2>8. CASE D[v] = Min(W)
    BY <2>4, <2>6, <2>8
  <2>9. CASE D[v] # Min(W)
    <3>1. D[v] > Min(W)
      BY <1>0, <2>4, <2>7, <2>9
    <3>2. b <= Min(W) /\ b # InfFloat
      BY <1>0, <2>4, <3>1
    <3>. QED BY <2>4, <2>6, <3>1, <3>2
  <2>. QED BY <2>8, <2>9
<1>. QED BY <1>5, <1>6

-------------------------------------------------------------------------------
(* The steps of a search.                                                    *)

LEMMA SettledFacts ==
  ASSUME SearchInv
  PROVE  /\ Known \subseteq Node /\ Settled \subseteq Known /\ IsFiniteSet(Settled)
         /\ Cardinality(Settled) \in 0 .. n
         /\ Settled # {} => Cardinality(Settled) - 1 \in 0 .. n - 1
         /\ Settled # Node => Cardinality(Settled) \in 0 .. n - 1
<1>1. Known \subseteq Node /\ Settled \subseteq Known /\ Settled \subseteq Node
  BY DEF Known, Settled
<1>2. /\ IsFiniteSet(Settled) /\ Cardinality(Settled) <= Cardinality(Node)
      /\ (Cardinality(Settled) = Cardinality(Node) => Settled = Node)
  BY <1>1, NodeFacts, FS_Subset
<1>3. Cardinality(Settled) \in Nat /\ (Settled # {} => Cardinality(Settled) # 0)
  BY <1>2, FS_CardinalityType, FS_EmptySet
<1>4. n \in Nat /\ Cardinality(Node) = n
  BY NodeFacts
<1>. QED BY <1>1, <1>2, <1>3, <1>4

(* The sources belong to the call.                                           *)
LEMMA SameSources ==
  ASSUME call' = call
  PROVE  Sources' = Sources
<1>1. Roots' = Roots
  BY DEF Roots, InDegree, Open, End, G
<1>. QED BY <1>1 DEF Sources

(* The labels of the invariant, spelled out.                                 *)
LEMMA StepFacts ==
  ASSUME SearchInv, NEW a \in Arc
  PROVE  /\ StepLength(call, a) \in Int
         /\ call.proc = "BFS" => StepLength(call, a) = 1
         /\ call.proc = "Dijkstra" => StepLength(call, a) = l(a)
         /\ Open(a) <=> Eligible(call.G, call.chr, a)
         /\ Start(a) = StartNode(call.G, a) /\ End(a) = EndNode(call.G, a)
<1>1. call \in Calls
  BY DEF SearchInv, Base
<1>2. call.proc = "Dijkstra" => call.epsilon = 0
  BY <1>1, CallsAssumption
<1>3. l(a) \in Int /\ StepLength(call, a) \in Int
  BY <1>1, GraphFacts, CallFacts
<1>4. call.proc = "Dijkstra" => StepLength(call, a) = l(a) + 0
  BY <1>2 DEF StepLength, l, G
<1>. QED BY <1>3, <1>4 DEF StepLength, Open, Start, End, G

(* Reading an arc of u, with or without a smaller label for its end node.    *)
LEMMA ReadKeeps ==
  ASSUME SearchInv, ReadInv, NEW a, u # NoNode, Read(a), call' = call, u' = u,
         Settled' = Settled, Queued' \subseteq Known', dist' \in [Node -> Int],
         \A v \in Node : dist'[v] <= dist[v],
         \A v \in Settled : dist'[v] = dist[v],
         Open(a) => dist'[End(a)] <= dist[u] + StepLength(call, a)
  PROVE  ReadInv'
<1>1. /\ u \in Node /\ a \in Arc /\ unread'[u] = unread[u] \ {a}
      /\ \A v \in Node : v # u => unread'[v] = unread[v]
  BY ReadFacts
<1>2. /\ call \in Calls /\ dist \in [Node -> Int] /\ InfFloat \in Nat /\ call.S \subseteq Node
  BY CallsAssumption, NodeFacts DEF SearchInv, Base
<1>3. Settled \subseteq Node /\ u \in Settled
  BY SettledFacts DEF ReadInv
<1>4. \A v \in Node : dist'[v] <= InfFloat
  <2>1. \A v \in Node : dist[v] \in Int /\ dist'[v] \in Int /\ dist[v] <= InfFloat
    BY <1>2 DEF ReadInv
  <2>. QED BY <1>2, <2>1
<1>5. \A s \in call.S : dist'[s] <= 0
  <2>1. \A v \in call.S : dist[v] \in Int /\ dist'[v] \in Int /\ dist[v] <= 0 /\ dist'[v] <= dist[v]
    BY <1>2 DEF ReadInv
  <2>. QED BY <2>1
<1>6. ASSUME NEW v \in Settled
      PROVE  (v # u => unread'[v] = {}) /\ (call.proc = "BFS" => dist'[v] <= dist'[u])
  BY <1>1, <1>3 DEF ReadInv
<1>7. \A v \in Node : Incidences(G, v)' = Incidences(G, v)
  BY DEF Incidences, G
<1>8. ASSUME NEW v \in Node \ Settled PROVE unread'[v] = Incidences(G, v)
  BY <1>1, <1>3 DEF ReadInv
<1>9. ASSUME NEW v \in Settled, NEW b \in Incidences(G, v) \ unread'[v], Open(b)
      PROVE  dist'[End(b)] <= dist'[v] + StepLength(call, b)
  <2>1. b \in Arc /\ End(b) \in Node /\ v \in Node /\ dist'[v] = dist[v]
    BY <1>2, <1>3, IncidenceFacts, GraphFacts
  <2>2. CASE b = a
    <3>1. v = u
      BY <1>9, <2>2, IncidenceFacts, ReadFacts
    <3>. QED BY <1>9, <2>1, <2>2, <3>1
  <2>3. CASE b # a
    <3>1. b \in Incidences(G, v) \ unread[v]
      BY <1>1, <1>9, <2>1, <2>3
    <3>2. dist[End(b)] <= dist[v] + StepLength(call, b)
      BY <1>9, <3>1 DEF ReadInv
    <3>3. /\ dist[End(b)] \in Int /\ dist'[End(b)] \in Int /\ dist[v] \in Int
          /\ dist'[End(b)] <= dist[End(b)] /\ StepLength(call, b) \in Int
      BY <1>2, <2>1, StepFacts
    <3>. QED BY <2>1, <3>2, <3>3
  <2>. QED BY <2>2, <2>3
<1>10. \A b : (Open(b)' <=> Open(b)) /\ End(b)' = End(b) /\ StepLength(call, b)' = StepLength(call, b)
  BY DEF Open, End, G
<1>11. \A v \in Settled : \A b \in Incidences(G, v)' \ unread'[v] :
         Open(b)' => dist'[End(b)'] <= dist'[v] + StepLength(call', b)
  BY <1>3, <1>7, <1>9, <1>10
<1>. QED BY <1>3, <1>4, <1>5, <1>6, <1>7, <1>8, <1>11 DEF ReadInv

LEMMA LabelStart ==
  ASSUME SearchInv, BFSStart \/ DijkstraStart
  PROVE  WalkInv' /\ ReadInv' /\ StopInv' /\ TreeInv'
<1>1. /\ Enter(Labelled) /\ call.proc \in {"BFS", "Dijkstra"} /\ pc = "called"
  BY DEF BFSStart, DijkstraStart, Called
<1>2. /\ pc' = "search" /\ dist' = Labelled /\ call' = call /\ u' = NoNode
      /\ unread' = [v \in Node |-> Incidences(G, v)]
  BY <1>1, EnterFacts
<1>3. call \in Calls /\ call.S \subseteq Node /\ InfFloat \in Nat /\ 0 # InfFloat
  <2>1. call \in Calls
    BY DEF SearchInv, Base
  <2>2. InfFloat \in Nat /\ n \in Nat /\ n < InfFloat
    BY NodeFacts
  <2>. QED BY <2>1, <2>2, CallsAssumption
<1>4. \A v \in Node : dist'[v] = IF v \in call.S THEN 0 ELSE InfFloat
  BY <1>2, <1>3, LabelledFacts
<1>5. Known' = call.S
  <2>1. Known' = {v \in Node : dist'[v] # InfFloat}
    BY DEF Known
  <2>. QED BY <1>3, <1>4, <2>1
<1>6. Queued' = call.S
  <2>1. CASE BFSStart
    <3>1. PICK s \in call.S : queue' = <<s>>
      BY <2>1 DEF BFSStart
    <3>2. call.proc = "BFS"
      BY <2>1 DEF BFSStart, Called
    <3>3. call.S = {s}
      <4>1. \E r \in Node : call.S = {r}
        BY <1>3, <3>2, CallsAssumption
      <4>. QED BY <3>1, <4>1
    <3>4. {queue'[i] : i \in 1 .. Len(queue')} = {s}
      BY <3>1
    <3>. QED BY <1>2, <3>2, <3>3, <3>4 DEF Queued
  <2>2. CASE DijkstraStart
    BY <1>2, <2>2 DEF DijkstraStart, Called, Queued
  <2>. QED BY <2>1, <2>2
<1>7. Settled' = {}
  BY <1>5, <1>6 DEF Settled
<1>8. WalkInv'
  <2>1. ASSUME NEW v \in call.S
        PROVE  dist'[v] = 0 /\ 0 \in WalkLengths(call, call.S, 0)[v]
    BY <1>3, <1>4, WalkZero
  <2>2. Cardinality({}) = 0
    BY FS_EmptySet
  <2>. QED BY <1>2, <1>5, <1>7, <2>1, <2>2 DEF WalkInv, Lengths
<1>9. ReadInv'
  <2>1. \A v \in Node : Incidences(G, v)' = Incidences(G, v)
    BY <1>2 DEF Incidences, G
  <2>2. \A v \in Node : dist'[v] <= InfFloat
    BY <1>3, <1>4
  <2>3. \A s \in call.S : dist'[s] <= 0
    BY <1>3, <1>4
  <2>. QED BY <1>2, <1>5, <1>6, <1>7, <2>1, <2>2, <2>3 DEF ReadInv
<1>10. StopInv'
  <2>1. call.proc = "BFS" => flag'
    BY DEF BFSStart, DijkstraStart, Called
  <2>. QED BY <1>2, <2>1 DEF StopInv
<1>11. TreeInv'
  <2>1. \A v \in Node : pred'[v] = NoArc
    BY <1>1 DEF Enter
  <2>2. \A v \in Node : TreeArc(v)'
    <3>1. Sources' = call.S
      <4>1. call'.proc # "DAGSearch" /\ call' = call
        BY <1>2 DEF BFSStart, DijkstraStart, Called
      <4>. QED BY <4>1 DEF Sources
    <3>. QED BY <1>2, <1>5, <2>1, <3>1 DEF TreeArc
  <2>3. \A r : Numbering(r)'
    BY <1>7 DEF Numbering
  <2>4. [v \in Node |-> 0] \in [Node -> Nat]
    OBVIOUS
  <2>. QED BY <2>2, <2>3, <2>4 DEF TreeInv
<1>. QED BY <1>8, <1>9, <1>10, <1>11

(* A step that changes neither labels nor queues.                            *)
LEMMA LabelQuiet ==
  ASSUME call' = call, dist' = dist, queue' = queue, active' = active, unread' = unread,
         u' = u, flag' = flag, pred' = pred
  PROVE  /\ Known' = Known /\ Queued' = Queued /\ Settled' = Settled
         /\ TreeInv => TreeInv'
         /\ WalkInv => WalkInv'
         /\ ReadInv => ReadInv'
         /\ \A v : Finished(v)' <=> Finished(v)
         /\ StopInv /\ (pc' = pc \/ pc \in {"merge", "done"}) => StopInv'
<1>1. Known' = Known /\ Queued' = Queued
  BY DEF Known, Queued
<1>2. Settled' = Settled
  BY <1>1 DEF Settled
<1>3. WalkInv => WalkInv'
  BY <1>1, <1>2 DEF WalkInv, Lengths
<1>4. \A v : Incidences(G, v)' = Incidences(G, v)
  BY DEF Incidences, G
<1>5. \A b : (Open(b)' <=> Open(b)) /\ End(b)' = End(b) /\ StepLength(call, b)' = StepLength(call, b)
  BY DEF Open, End, G
<1>6. ReadInv => ReadInv'
  BY <1>1, <1>2, <1>4, <1>5 DEF ReadInv
<1>7. \A v : Finished(v)' <=> Finished(v)
  BY <1>2 DEF Finished
<1>8. StopInv /\ (pc' = pc \/ pc \in {"merge", "done"}) => StopInv'
  BY <1>1, <1>7 DEF StopInv
<1>9. TreeInv => TreeInv'
  <2>1. \A b : Start(b)' = Start(b)
    BY DEF Start, G
  <2>2. \A v : TreeArc(v) => TreeArc(v)'
    <3>1. Sources' = Sources
      BY SameSources
    <3>. QED BY <1>1, <1>2, <1>5, <2>1, <3>1 DEF TreeArc
  <2>3. \A r : Numbering(r) => Numbering(r)'
    BY <1>2, <2>1 DEF Numbering
  <2>. QED BY <2>2, <2>3 DEF TreeInv
<1>. QED BY <1>1, <1>2, <1>3, <1>6, <1>7, <1>8, <1>9

(* All arcs of a settled node are read before the next one is settled.       *)
LEMMA BetweenFinished ==
  ASSUME ReadInv, IF u = NoNode THEN TRUE ELSE unread[u] = {}
  PROVE  \A v \in Settled : Finished(v)
BY DEF ReadInv, Finished

LEMMA LabelReturn ==
  ASSUME SearchInv, WalkInv, ReadInv, StopInv, TreeInv, BFSReturn \/ DijkstraReturn
  PROVE  WalkInv' /\ ReadInv' /\ StopInv' /\ TreeInv'
<1>1. /\ call' = call /\ dist' = dist /\ queue' = queue /\ active' = active /\ unread' = unread
      /\ u' = u /\ flag' = flag /\ pred' = pred
      /\ IF u = NoNode THEN TRUE ELSE unread[u] = {}
  BY DEF BFSReturn, DijkstraReturn, Between
<1>2. /\ WalkInv' /\ ReadInv' /\ TreeInv' /\ Known' = Known /\ Settled' = Settled
      /\ \A v : Finished(v)' <=> Finished(v)
  BY <1>1, LabelQuiet
<1>3. \A v \in Settled : Finished(v)
  BY <1>1, BetweenFinished
<1>4. CASE Queued = {}
  <2>1. \A v \in Known : Finished(v)
    BY <1>3, <1>4 DEF Settled
  <2>. QED BY <1>1, <1>2, <2>1 DEF StopInv
<1>5. CASE Queued # {}
  <2>1. BFSReturn /\ call.proc = "BFS" /\ ~flag
    <3>1. CASE DijkstraReturn
      BY <1>5, <3>1 DEF DijkstraReturn, Between, Searching, Queued
    <3>2. CASE BFSReturn /\ queue = <<>>
      <4>1. Len(queue) = 0
        BY <3>2
      <4>2. 1 .. Len(queue) = {}
        BY <4>1
      <4>. QED BY <1>5, <3>2, <4>2 DEF BFSReturn, Between, Searching, Queued
    <3>. QED BY <3>1, <3>2 DEF BFSReturn, Between, Searching
  <2>2. PICK t \in call.T : u # NoNode /\ dist[t] # InfFloat /\ dist[t] <= dist[u] + 1
    BY <2>1 DEF StopInv
  <2>3. t \in Node /\ u \in Node /\ dist \in [Node -> Int]
    BY <2>2, CallsAssumption DEF SearchInv, Base
  <2>4. ASSUME NEW v \in Known PROVE Finished(v) \/ dist[t] <= dist[v] + 1
    <3>1. CASE v \in Settled
      BY <1>3, <3>1
    <3>2. CASE v \notin Settled
      <4>1. PICK i \in 1 .. Len(queue) : v = queue[i]
        BY <2>1, <3>2 DEF Settled, Queued
      <4>2. dist[u] <= dist[v]
        BY <2>1, <2>2, <4>1 DEF SearchInv, BFSInv
      <4>3. dist[u] \in Int /\ dist[v] \in Int /\ dist[t] \in Int
        BY <2>3 DEF Known
      <4>. QED BY <2>2, <4>2, <4>3
    <3>. QED BY <3>1, <3>2
  <2>5. \E r \in call.T : dist[r] # InfFloat /\ \A v \in Known : Finished(v) \/ dist[r] <= dist[v] + 1
    BY <2>2, <2>4
  <2>. QED BY <1>1, <1>2, <2>1, <2>2, <2>5 DEF StopInv
<1>. QED BY <1>4, <1>5, <1>2

(* A node leaves the queue or the heap and is expanded next.                 *)
LEMMA DeleteKeeps ==
  ASSUME SearchInv, ReadInv, NEW v \in Queued, call' = call, dist' = dist, unread' = unread,
         u' = v, Queued' = Queued \ {v}, IF u = NoNode THEN TRUE ELSE unread[u] = {},
         call.proc = "BFS" => \A w \in Settled : dist[w] <= dist[v]
  PROVE  /\ ReadInv' /\ Settled' = Settled \union {v} /\ Known' = Known /\ v \notin Settled
         /\ \A w \in Settled : Finished(w)'
<1>1. Known' = Known /\ v \in Known /\ v \in Node /\ v # NoNode /\ Queued \subseteq Known
  BY NodeFacts DEF Known, ReadInv
<1>2. Settled' = Settled \union {v} /\ v \notin Settled
  BY <1>1 DEF Settled
<1>3. \A w \in Settled : unread[w] = {}
  BY BetweenFinished DEF Finished
<1>4. unread[v] = Incidences(G, v)
  BY <1>1, <1>2 DEF ReadInv
<1>5. \A w : Incidences(G, w)' = Incidences(G, w)
  BY DEF Incidences, G
<1>6. \A b : (Open(b)' <=> Open(b)) /\ End(b)' = End(b) /\ StepLength(call, b)' = StepLength(call, b)
  BY DEF Open, End, G
<1>7. \A w \in Settled' : /\ u' # NoNode
                          /\ w # u' => unread'[w] = {}
                          /\ call.proc = "BFS" => dist'[w] <= dist'[u']
  <2>1. dist[v] \in Int /\ dist[v] <= dist[v]
    BY <1>1 DEF SearchInv, Base
  <2>. QED BY <1>1, <1>2, <1>3, <2>1
<1>8. \A w \in Node \ Settled' : unread'[w] = Incidences(G, w)'
  BY <1>2, <1>5 DEF ReadInv
<1>9. \A w \in Settled' : \A b \in Incidences(G, w)' \ unread'[w] :
        Open(b)' => dist'[End(b)'] <= dist'[w] + StepLength(call', b)
  BY <1>2, <1>4, <1>5, <1>6 DEF ReadInv
<1>10. ReadInv'
  <2>1. Queued' \subseteq Known' /\ u' \in Settled'
    BY <1>1, <1>2
  <2>2. (\A w \in Node : dist'[w] <= InfFloat) /\ \A s \in call'.S : dist'[s] <= 0
    BY DEF ReadInv
  <2>. QED BY <1>7, <1>8, <1>9, <2>1, <2>2 DEF ReadInv
<1>11. \A w \in Settled : Finished(w)'
  BY <1>2, <1>3 DEF Finished
<1>. QED BY <1>1, <1>2, <1>10, <1>11

LEMMA DeleteTree ==
  ASSUME SearchInv, TreeInv, NEW v \in Known, call' = call, dist' = dist, pred' = pred,
         Known' = Known, Settled' = Settled \union {v}, v \notin Settled
  PROVE  TreeInv'
<1>1. \A b : /\ (Open(b)' <=> Open(b)) /\ End(b)' = End(b) /\ Start(b)' = Start(b)
            /\ StepLength(call, b)' = StepLength(call, b)
  BY DEF Open, End, Start, G
<1>2. \A w \in Node : TreeArc(w)'
  <2>1. ASSUME NEW w \in Node PROVE TreeArc(w) => TreeArc(w)'
    BY <1>1, SameSources DEF TreeArc
  <2>. QED BY <2>1 DEF TreeInv
<1>3. /\ IsFiniteSet(Settled) /\ Cardinality(Settled) \in Nat /\ Settled \subseteq Node /\ v \in Node
      /\ Cardinality(Settled') = Cardinality(Settled) + 1
  <2>1. IsFiniteSet(Settled) /\ Cardinality(Settled) \in Nat /\ Settled \subseteq Node
    BY SettledFacts, FS_CardinalityType
  <2>. QED BY <2>1, FS_AddElement DEF Known
<1>4. PICK r \in [Node -> Nat] : Numbering(r)
  BY DEF TreeInv
<1>5. PICK k \in Nat : k = Cardinality(Settled)
  BY <1>3
<1>. DEFINE s == [r EXCEPT ![v] = k]
<1>6. s \in [Node -> Nat] /\ s[v] = k /\ \A w \in Node : w # v => s[w] = r[w]
  BY <1>3, <1>4, <1>5
<1>. HIDE DEF s
<1>7. ASSUME NEW w \in Settled'
      PROVE  /\ s[w] < k + 1
             /\ pred[w] # NoArc => s[Start(pred[w])] < s[w]
  <2>1. w \in Node
    BY <1>3
  <2>2. pred[w] # NoArc => Start(pred[w]) \in Settled /\ Start(pred[w]) # v
    BY <2>1 DEF TreeInv, TreeArc
  <2>3. \A x \in Settled : s[x] = r[x] /\ s[x] < k /\ s[x] \in Nat
    BY <1>3, <1>4, <1>5, <1>6 DEF Numbering
  <2>4. CASE w = v
    BY <1>5, <1>6, <2>2, <2>3, <2>4
  <2>5. CASE w \in Settled
    <3>1. s[w] = r[w] /\ s[w] < k /\ s[w] \in Nat
      BY <2>3, <2>5
    <3>2. pred[w] # NoArc => r[Start(pred[w])] < r[w]
      BY <1>4, <2>5 DEF Numbering
    <3>3. s[w] < k + 1
      BY <1>5, <3>1
    <3>. QED BY <2>2, <2>3, <3>1, <3>2, <3>3
  <2>. QED BY <2>4, <2>5
<1>8. Numbering(s)'
  BY <1>1, <1>3, <1>5, <1>7 DEF Numbering
<1>. QED BY <1>2, <1>6, <1>8 DEF TreeInv

LEMMA SameTree ==
  ASSUME TreeInv, call' = call, dist' = dist, pred' = pred, Known' = Known, Settled' = Settled
  PROVE  TreeInv'
<1>1. \A b : /\ (Open(b)' <=> Open(b)) /\ End(b)' = End(b) /\ Start(b)' = Start(b)
            /\ StepLength(call, b)' = StepLength(call, b)
  BY DEF Open, End, Start, G
<1>2. \A v : TreeArc(v) => TreeArc(v)'
  BY <1>1, SameSources DEF TreeArc
<1>3. \A r : Numbering(r) => Numbering(r)'
  BY <1>1 DEF Numbering
<1>. QED BY <1>2, <1>3 DEF TreeInv

(* A new label for a node that is not settled, from a settled node.          *)
LEMMA ImproveTree ==
  ASSUME SearchInv, TreeInv, NEW a \in Arc, call' = call, Settled' = Settled, Open(a),
         Start(a) \in Settled, End(a) \notin Settled, Known' = Known \union {End(a)},
         NEW label \in Int, label = dist[Start(a)] + StepLength(call, a), Improve(a, label)
  PROVE  TreeInv'
<1>. DEFINE w == End(a)
<1>1. \A b : /\ (Open(b)' <=> Open(b)) /\ End(b)' = End(b) /\ Start(b)' = Start(b)
            /\ StepLength(call, b)' = StepLength(call, b)
  BY DEF Open, End, Start, G
<1>2. w \in Node /\ dist'[w] = label /\ \A v \in Node : v # w => dist'[v] = dist[v]
  BY ImproveFacts
<1>3. pred'[w] = a /\ a # NoArc /\ \A v \in Node : v # w => pred'[v] = pred[v]
  BY <1>2, NodeFacts DEF SearchInv, Base, Improve
<1>4. \A v \in Settled : v # w /\ v \in Node /\ dist'[v] = dist[v]
  BY <1>2, SettledFacts
<1>5. ASSUME NEW v \in Node PROVE TreeArc(v)'
  <2>1. CASE v = w
    <3>1. dist'[Start(a)] = dist[Start(a)]
      BY <1>4
    <3>. QED BY <1>1, <1>2, <1>3, <2>1, <3>1 DEF TreeArc
  <2>2. CASE v # w
    <3>1. TreeArc(v) /\ pred'[v] = pred[v] /\ dist'[v] = dist[v] /\ (v \in Known' <=> v \in Known)
      BY <1>2, <1>3, <2>2 DEF TreeInv
    <3>2. pred[v] # NoArc => dist'[Start(pred[v])] = dist[Start(pred[v])]
      BY <1>4, <3>1 DEF TreeArc
    <3>. QED BY <1>1, <3>1, <3>2, SameSources DEF TreeArc
  <2>. QED BY <2>1, <2>2
<1>6. PICK r \in [Node -> Nat] : Numbering(r)
  BY DEF TreeInv
<1>7. Numbering(r)'
  BY <1>1, <1>3, <1>4, <1>6 DEF Numbering
<1>. QED BY <1>5, <1>6, <1>7 DEF TreeInv

LEMMA LabelBFSDelete ==
  ASSUME SearchInv, WalkInv, ReadInv, StopInv, TreeInv, BFSDelete
  PROVE  WalkInv' /\ ReadInv' /\ StopInv' /\ TreeInv'
<1>1. /\ call.proc = "BFS" /\ queue # <<>> /\ u' = Head(queue) /\ queue' = Tail(queue)
      /\ call' = call /\ pc' = pc /\ pc = "search" /\ dist' = dist /\ unread' = unread
      /\ pred' = pred /\ flag' = flag /\ flag /\ IF u = NoNode THEN TRUE ELSE unread[u] = {}
  BY DEF BFSDelete, Between, Searching
<1>2. /\ Head(queue) \in Node /\ Head(queue) = queue[1] /\ 1 \in 1 .. Len(queue)
      /\ queue' \in Seq(Node) /\ Len(queue') = Len(queue) - 1 /\ Len(queue) \in Nat
      /\ \A i \in 1 .. Len(queue') : queue'[i] = queue[i + 1] /\ i + 1 \in 1 .. Len(queue)
  BY <1>1, TailFacts DEF SearchInv, Base
<1>3. Queued = {queue[i] : i \in 1 .. Len(queue)} /\ Queued' = {queue'[i] : i \in 1 .. Len(queue')}
  BY <1>1 DEF Queued
<1>4. Head(queue) \in Queued
  BY <1>2, <1>3
<1>5. Queued' = Queued \ {Head(queue)}
  <2>1. ASSUME NEW x \in Queued' PROVE x \in Queued \ {Head(queue)}
    <3>1. PICK i \in 1 .. Len(queue') : x = queue'[i]
      BY <1>3
    <3>2. x = queue[i + 1] /\ i + 1 \in 1 .. Len(queue) /\ i + 1 # 1
      BY <1>2, <3>1
    <3>3. queue[i + 1] # queue[1]
      BY <1>2, <3>2 DEF SearchInv, QueueInv
    <3>. QED BY <1>2, <1>3, <3>2, <3>3
  <2>2. ASSUME NEW x \in Queued \ {Head(queue)} PROVE x \in Queued'
    <3>1. PICK i \in 1 .. Len(queue) : x = queue[i]
      BY <1>3
    <3>2. i # 1
      BY <1>2, <3>1
    <3>3. i - 1 \in 1 .. Len(queue') /\ (i - 1) + 1 = i
      BY <1>2, <3>2
    <3>4. queue'[i - 1] = x
      BY <1>2, <3>1, <3>3
    <3>. QED BY <1>3, <3>3, <3>4
  <2>. QED BY <2>1, <2>2
<1>6. ASSUME NEW w \in Settled PROVE dist[w] <= dist[Head(queue)]
  <2>1. u # NoNode /\ dist[w] <= dist[u]
    BY <1>1 DEF ReadInv
  <2>2. dist[u] <= dist[Head(queue)]
    BY <1>1, <1>2, <2>1 DEF SearchInv, BFSInv
  <2>3. dist[u] \in Int /\ dist[w] \in Int /\ dist[Head(queue)] \in Int
    BY <1>2, <2>1, SettledFacts DEF SearchInv, Base
  <2>. QED BY <2>1, <2>2, <2>3
<1>7. /\ ReadInv' /\ Known' = Known /\ Settled' = Settled \union {Head(queue)}
      /\ Head(queue) \notin Settled
  BY <1>1, <1>4, <1>5, <1>6, DeleteKeeps
<1>8. WalkInv'
  BY <1>1, <1>7 DEF WalkInv, Lengths
<1>9. StopInv'
  BY <1>1 DEF StopInv
<1>10. TreeInv'
  <2>1. Head(queue) \in Known
    BY <1>4 DEF ReadInv
  <2>. QED BY <1>1, <1>7, <2>1, DeleteTree
<1>. QED BY <1>7, <1>8, <1>9, <1>10

LEMMA LabelDijkstraDelete ==
  ASSUME SearchInv, WalkInv, ReadInv, StopInv, TreeInv, DijkstraDelete
  PROVE  WalkInv' /\ ReadInv' /\ StopInv' /\ TreeInv'
<1>1. /\ call.proc = "Dijkstra" /\ pc = "search"
      /\ call' = call /\ dist' = dist /\ pred' = pred /\ unread' = unread
      /\ IF u = NoNode THEN TRUE ELSE unread[u] = {}
  BY DEF DijkstraDelete, Between, Searching
<1>2. PICK v \in active :
        /\ Least(v) /\ active' = active \ {v} /\ u' = v
        /\ v \in call.T \/ pc' = pc
  BY DEF DijkstraDelete
<1>3. Queued = active /\ Queued' = active'
  BY <1>1 DEF Queued
<1>4. /\ ReadInv' /\ Settled' = Settled \union {v} /\ Known' = Known /\ v \notin Settled
      /\ \A w \in Settled : Finished(w)'
  <2>1. call.proc # "BFS"
    BY <1>1
  <2>. QED BY <1>1, <1>2, <1>3, <2>1, DeleteKeeps
<1>5. /\ IsFiniteSet(Settled) /\ Cardinality(Settled) \in Nat
      /\ Cardinality(Settled') = Cardinality(Settled) + 1
  <2>1. IsFiniteSet(Settled) /\ Cardinality(Settled) \in Nat
    BY SettledFacts, FS_CardinalityType
  <2>. QED BY <1>4, <2>1, FS_AddElement
<1>6. WalkInv'
  <2>. DEFINE k == Cardinality(Settled)
  <2>1. k \in Nat /\ k + 1 \in Nat /\ k <= k + 1 /\ Cardinality(Settled') = k + 1 /\ (k + 1) - 1 = k
    BY <1>5
  <2>. HIDE DEF k
  <2>2. ASSUME NEW w \in Known PROVE dist[w] \in Lengths(k)[w] /\ dist[w] \in Lengths(k + 1)[w]
    <3>1. dist[w] \in Lengths(k)[w] /\ w \in Node
      BY <1>1 DEF WalkInv, Known, k
    <3>. QED BY <2>1, <3>1, WalkMonotone DEF Lengths
  <2>. QED BY <1>1, <1>4, <2>1, <2>2 DEF WalkInv, Lengths
<1>7. StopInv'
  <2>1. CASE pc' = pc
    BY <1>1, <2>1 DEF StopInv
  <2>2. CASE v \in call.T
    <3>1. v \in Known /\ dist[v] \in Int
      BY <1>3 DEF ReadInv, Known, SearchInv, Base
    <3>2. ASSUME NEW w \in Known PROVE Finished(w)' \/ dist[v] <= dist[w]
      <4>1. CASE w \in Settled
        BY <1>4, <4>1
      <4>2. CASE w \notin Settled
        <5>1. w \in active
          BY <1>3, <4>2 DEF Settled
        <5>. QED BY <1>2, <5>1 DEF Least
      <4>. QED BY <4>1, <4>2
    <3>3. dist'[v] # InfFloat /\ \A w \in Known' : Finished(w)' \/ dist'[v] <= dist'[w]
      BY <1>1, <1>4, <3>1, <3>2 DEF Known
    <3>. QED BY <1>1, <2>2, <3>3 DEF StopInv
  <2>. QED BY <1>2, <2>1, <2>2
<1>8. TreeInv'
  <2>1. v \in Known
    BY <1>3 DEF ReadInv
  <2>. QED BY <1>1, <1>4, <2>1, DeleteTree
<1>. QED BY <1>4, <1>6, <1>7, <1>8

LEMMA LabelBFSRead ==
  ASSUME SearchInv, WalkInv, ReadInv, StopInv, TreeInv, NEW a \in Arc, BFSRead(a)
  PROVE  WalkInv' /\ ReadInv' /\ StopInv' /\ TreeInv'
<1>. DEFINE w == End(a)
            d == dist[u] + 1
<1>1. /\ call.proc = "BFS" /\ u # NoNode /\ Read(a) /\ u' = u /\ call' = call /\ pc' = pc
      /\ pc = "search"
  BY DEF BFSRead, Expanding, Searching
<1>2. u \in Node /\ Start(a) = u /\ w \in Node /\ dist[u] \in Int
  BY <1>1, ReadFacts
<1>3. call \in Calls /\ dist \in [Node -> Int] /\ u \in Settled /\ u \in Known
  BY <1>1, SettledFacts DEF SearchInv, Base, ReadInv
<1>4. StepLength(call, a) = 1 /\ (Open(a) <=> Eligible(call.G, call.chr, a))
      /\ Start(a) = StartNode(call.G, a) /\ w = EndNode(call.G, a)
  BY <1>1, StepFacts
<1>5. CASE ~(dist[w] = InfFloat /\ Open(a))
  <2>1. dist' = dist /\ pred' = pred /\ queue' = queue /\ flag' = flag
    BY <1>5 DEF BFSRead
  <2>2. Known' = Known /\ Queued' = Queued
    BY <1>1, <2>1 DEF Known, Queued
  <2>3. Settled' = Settled
    BY <2>2 DEF Settled
  <2>4. ASSUME Open(a) PROVE dist[w] <= dist[u] + 1
    <3>1. w \in Known
      BY <1>2, <1>5, <2>4 DEF Known
    <3>2. CASE w \in Settled
      <4>1. dist[w] <= dist[u] /\ dist[w] \in Int
        BY <1>1, <1>2, <1>3, <3>2 DEF ReadInv
      <4>. QED BY <1>2, <4>1
    <3>3. CASE w \notin Settled
      <4>1. PICK i \in 1 .. Len(queue) : w = queue[i]
        BY <1>1, <3>1, <3>3 DEF Settled, Queued
      <4>. QED BY <1>1, <4>1 DEF SearchInv, BFSInv
    <3>. QED BY <3>2, <3>3
  <2>5. \A v \in Node : dist'[v] <= dist[v]
    <3>1. \A v \in Node : dist[v] \in Int
      BY <1>3
    <3>. QED BY <2>1, <3>1
  <2>6. ReadInv'
    <3>1. Queued' \subseteq Known'
      BY <2>2 DEF ReadInv
    <3>2. Open(a) => dist'[End(a)] <= dist[u] + StepLength(call, a)
      BY <1>4, <2>1, <2>4
    <3>. QED BY <1>1, <1>3, <2>1, <2>3, <2>5, <3>1, <3>2, ReadKeeps
  <2>7. WalkInv'
    BY <1>1, <2>1, <2>2 DEF WalkInv, Lengths
  <2>8. StopInv'
    BY <1>1, <2>1 DEF StopInv
  <2>9. TreeInv'
    BY <1>1, <2>1, <2>2, <2>3, SameTree
  <2>. QED BY <2>6, <2>7, <2>8, <2>9
<1>6. CASE dist[w] = InfFloat /\ Open(a)
  <2>1. Improve(a, d) /\ queue' = Append(queue, w) /\ flag' = (flag /\ w \notin call.T)
    BY <1>6 DEF BFSRead
  <2>2. d \in Nat /\ dist[u] \in Nat /\ d < InfFloat
    <3>1. dist[u] \in 0 .. Cardinality(Known) - 1
      BY <1>1, <1>3 DEF SearchInv, BFSInv
    <3>2. IsFiniteSet(Known) /\ Cardinality(Known) <= n
      BY NodeFacts, FS_Subset DEF Known
    <3>3. Cardinality(Known) \in Nat /\ n \in Nat /\ InfFloat \in Nat /\ n < InfFloat
      BY <3>2, FS_CardinalityType, NodeFacts
    <3>. QED BY <3>1, <3>2, <3>3
  <2>3. dist' \in [Node -> Int] /\ dist'[w] = d /\ \A v \in Node : v # w => dist'[v] = dist[v]
    <3>1. d \in Int
      BY <2>2
    <3>. QED BY <2>1, <3>1, ImproveFacts
  <2>4. w \notin Known /\ Known' = Known \union {w}
    <3>1. d # InfFloat
      BY <2>2, NodeFacts
    <3>2. ASSUME NEW v \in Node PROVE v \in Known' <=> v \in Known \union {w}
      BY <2>3, <3>1 DEF Known
    <3>. QED BY <1>2, <1>6, <3>2 DEF Known
  <2>5. Queued' = Queued \union {w}
    <3>1. /\ Len(queue') = Len(queue) + 1 /\ Len(queue) \in Nat
          /\ (\A i \in 1 .. Len(queue) : queue'[i] = queue[i])
          /\ queue'[Len(queue) + 1] = w
      BY <1>2, <2>1, AppendFacts, LenProperties DEF SearchInv, Base
    <3>2. 1 .. Len(queue') = (1 .. Len(queue)) \union {Len(queue) + 1}
      BY <3>1
    <3>3. {queue'[i] : i \in 1 .. Len(queue')} = {queue[i] : i \in 1 .. Len(queue)} \union {w}
      BY <3>1, <3>2
    <3>. QED BY <1>1, <3>3 DEF Queued
  <2>6. Settled' = Settled
    BY <2>4, <2>5 DEF Settled
  <2>7. ReadInv'
    <3>1. Queued' \subseteq Known'
      BY <2>4, <2>5 DEF ReadInv
    <3>2. Open(a) => dist'[End(a)] <= dist[u] + StepLength(call, a)
      BY <1>4, <2>2, <2>3
    <3>3. \A v \in Node : dist'[v] <= dist[v]
      <4>1. \A v \in Node : dist[v] \in Int
        BY <1>3
      <4>2. InfFloat \in Nat
        BY NodeFacts
      <4>. QED BY <1>6, <2>2, <2>3, <4>1, <4>2
    <3>4. \A v \in Settled : dist'[v] = dist[v]
      BY <2>3, <2>4, SettledFacts
    <3>. QED BY <1>1, <2>3, <2>6, <3>1, <3>2, <3>3, <3>4, ReadKeeps
  <2>8. WalkInv'
    <3>1. dist[u] \in Lengths(dist[u])[u]
      BY <1>1, <1>3 DEF WalkInv
    <3>2. d \in Lengths(d)[w]
      BY <1>2, <1>4, <1>6, <2>2, <3>1, WalkExtend DEF Lengths
    <3>3. ASSUME NEW v \in Known' PROVE dist'[v] \in Lengths(dist'[v])[v]
      <4>1. CASE v = w
        BY <2>3, <3>2, <4>1
      <4>2. CASE v # w
        <5>1. v \in Known /\ dist'[v] = dist[v]
          BY <2>3, <2>4, <4>2 DEF Known
        <5>. QED BY <1>1, <5>1 DEF WalkInv
      <4>. QED BY <4>1, <4>2
    <3>. QED BY <1>1, <3>3 DEF WalkInv, Lengths
  <2>9. StopInv'
    <3>1. dist'[u] = dist[u] /\ call.T \subseteq Node
      BY <1>2, <1>3, <2>3, <2>4, CallsAssumption
    <3>2. ASSUME ~flag' PROVE \E t \in call.T : dist'[t] # InfFloat /\ dist'[t] <= dist[u] + 1
      <4>1. CASE w \in call.T
        <5>1. dist'[w] # InfFloat /\ dist'[w] <= dist[u] + 1
          BY <2>2, <2>3, NodeFacts
        <5>. QED BY <4>1, <5>1
      <4>2. CASE w \notin call.T
        <5>1. ~flag
          BY <2>1, <3>2, <4>2
        <5>2. PICK t \in call.T : dist[t] # InfFloat /\ dist[t] <= dist[u] + 1
          BY <1>1, <5>1 DEF StopInv
        <5>3. dist'[t] = dist[t]
          BY <2>3, <3>1, <4>2
        <5>. QED BY <5>2, <5>3
      <4>. QED BY <4>1, <4>2
    <3>. QED BY <1>1, <3>1, <3>2 DEF StopInv
  <2>10. TreeInv'
    <3>1. d \in Int /\ d = dist[Start(a)] + StepLength(call, a) /\ w \notin Settled
      BY <1>2, <1>4, <2>2, <2>4, SettledFacts
    <3>. QED BY <1>1, <1>2, <1>3, <1>6, <2>1, <2>4, <2>6, <3>1, ImproveTree
  <2>. QED BY <2>7, <2>8, <2>9, <2>10
<1>. QED BY <1>5, <1>6

LEMMA LabelDijkstraRead ==
  ASSUME SearchInv, WalkInv, ReadInv, StopInv, TreeInv, NEW a \in Arc, DijkstraRead(a), ~Fails'
  PROVE  WalkInv' /\ ReadInv' /\ StopInv' /\ TreeInv'
<1>. DEFINE w == End(a)
            dd == dist[u] + l(a)
<1>1. /\ call.proc = "Dijkstra" /\ pc = "search" /\ u # NoNode /\ Read(a)
      /\ call' = call /\ u' = u
  BY DEF DijkstraRead, Expanding, Searching
<1>2. u \in Node /\ Start(a) = u /\ w \in Node /\ dist[u] \in Int /\ l(a) \in Int
  BY <1>1, ReadFacts
<1>3. call \in Calls /\ dist \in [Node -> Int] /\ u \in Settled /\ u \in Known
  BY <1>1, SettledFacts DEF SearchInv, Base, ReadInv
<1>4. StepLength(call, a) = l(a) /\ (Open(a) <=> Eligible(call.G, call.chr, a))
      /\ Start(a) = StartNode(call.G, a) /\ w = EndNode(call.G, a)
  BY <1>1, StepFacts
<1>5. Queued = active /\ Queued' = active'
  BY <1>1 DEF Queued
<1>6. CASE ~(dist[w] > dd /\ Open(a))
  <2>1. dist' = dist /\ pred' = pred /\ active' = active /\ pc' = pc
    BY <1>6 DEF DijkstraRead
  <2>2. Known' = Known /\ Settled' = Settled
    BY <1>5, <2>1 DEF Known, Settled
  <2>3. \A v \in Node : dist'[v] <= dist[v]
    <3>1. \A v \in Node : dist[v] \in Int
      BY <1>3
    <3>. QED BY <2>1, <3>1
  <2>4. ReadInv'
    <3>1. Queued' \subseteq Known'
      BY <1>5, <2>1, <2>2 DEF ReadInv
    <3>2. Open(a) => dist'[End(a)] <= dist[u] + StepLength(call, a)
      BY <1>2, <1>3, <1>4, <1>6, <2>1
    <3>. QED BY <1>1, <1>3, <2>1, <2>2, <2>3, <3>1, <3>2, ReadKeeps
  <2>5. WalkInv'
    BY <1>1, <2>1, <2>2 DEF WalkInv, Lengths
  <2>6. StopInv'
    BY <1>1, <2>1 DEF StopInv
  <2>7. TreeInv'
    BY <1>1, <2>1, <2>2, SameTree
  <2>. QED BY <2>4, <2>5, <2>6, <2>7
<1>7. CASE dist[w] > dd /\ Open(a)
  <2>1. /\ ~(l(a) < 0) /\ HeapTakes(w) /\ Improve(a, dd) /\ active' = active \union {w}
        /\ pc' = pc
    <3>1. l(a) < 0 \/ ~HeapTakes(w) => Fails'
      BY <1>7 DEF DijkstraRead, Return, Fails
    <3>. QED BY <1>7, <3>1 DEF DijkstraRead
  <2>2. dd \in Int /\ dist[w] \in Int /\ dd < InfFloat
    <3>1. dist[w] \in Int /\ dist[w] <= InfFloat
      BY <1>2, <1>3 DEF ReadInv
    <3>2. InfFloat \in Nat
      BY NodeFacts
    <3>3. dd \in Int /\ dd < dist[w]
      BY <1>2, <1>7, <3>1
    <3>. QED BY <3>1, <3>2, <3>3
  <2>3. dist' \in [Node -> Int] /\ dist'[w] = dd /\ \A v \in Node : v # w => dist'[v] = dist[v]
    BY <2>1, <2>2, ImproveFacts
  <2>4. w \notin Settled
    BY <1>5, <2>1 DEF HeapTakes, Settled, Known
  <2>5. Known' = Known \union {w}
    <3>1. dd # InfFloat
      BY <2>2, NodeFacts
    <3>2. ASSUME NEW v \in Node PROVE v \in Known' <=> v \in Known \union {w}
      BY <2>3, <3>1 DEF Known
    <3>. QED BY <1>2, <3>2 DEF Known
  <2>6. Settled' = Settled
    BY <1>5, <2>1, <2>4, <2>5 DEF Settled
  <2>7. ReadInv'
    <3>1. Queued' \subseteq Known'
      BY <1>5, <2>1, <2>5 DEF ReadInv
    <3>2. Open(a) => dist'[End(a)] <= dist[u] + StepLength(call, a)
      BY <1>4, <2>2, <2>3
    <3>3. \A v \in Node : dist'[v] <= dist[v]
      <4>1. \A v \in Node : dist[v] \in Int
        BY <1>3
      <4>. QED BY <1>7, <2>2, <2>3, <4>1
    <3>4. \A v \in Settled : dist'[v] = dist[v]
      BY <2>3, <2>4, SettledFacts
    <3>. QED BY <1>1, <2>3, <2>6, <3>1, <3>2, <3>3, <3>4, ReadKeeps
  <2>8. WalkInv'
    <3>. DEFINE k == Cardinality(Settled) - 1
    <3>1. k \in Nat /\ Cardinality(Settled) = k + 1
      <4>1. k \in 0 .. n - 1 /\ Cardinality(Settled) \in 0 .. n /\ n \in Nat
        BY <1>3, SettledFacts, NodeFacts
      <4>. QED BY <4>1
    <3>2. dist[u] \in Lengths(k)[u]
      BY <1>1, <1>3 DEF WalkInv
    <3>. HIDE DEF k
    <3>3. dd \in Lengths(k + 1)[w]
      BY <1>2, <1>4, <1>7, <3>1, <3>2, WalkExtend DEF Lengths
    <3>4. ASSUME NEW v \in Known', v # w PROVE v \in Known /\ dist'[v] = dist[v]
      BY <2>3, <2>5, <3>4 DEF Known
    <3>5. ASSUME NEW v \in Known' PROVE dist'[v] \in Lengths(Cardinality(Settled))[v]
      <4>1. CASE v = w
        BY <2>3, <3>1, <3>3, <4>1
      <4>2. CASE v # w
        BY <1>1, <3>4, <4>2 DEF WalkInv
      <4>. QED BY <4>1, <4>2
    <3>6. ASSUME NEW v \in Known', v \in Settled
          PROVE  dist'[v] \in Lengths(Cardinality(Settled) - 1)[v]
      BY <1>1, <2>4, <3>4, <3>6 DEF WalkInv
    <3>. QED BY <1>1, <2>6, <3>5, <3>6 DEF WalkInv, Lengths
  <2>9. StopInv'
    BY <1>1, <2>1 DEF StopInv
  <2>10. TreeInv'
    <3>1. dd = dist[Start(a)] + StepLength(call, a)
      BY <1>2, <1>4
    <3>. QED BY <1>1, <1>2, <1>3, <1>7, <2>1, <2>2, <2>4, <2>5, <2>6, <3>1, ImproveTree
  <2>. QED BY <2>7, <2>8, <2>9, <2>10
<1>. QED BY <1>6, <1>7

(* A call that has not returned has not failed.                              *)
LEMMA AnswerStep ==
  ASSUME pc # "done" => ~Fails, [Next]_vars
  PROVE  (pc' # "done" => ~Fails') /\ (pc = "done" => UNCHANGED vars)
<1>1. CASE UNCHANGED vars
  BY <1>1 DEF vars, Fails
<1>2. CASE out' = out /\ pc # "done"
  BY <1>2 DEF Fails
<1>3. CASE pc # "done" /\ pc' = "done"
  BY <1>3
<1>4. CASE Refuse
  BY <1>3, <1>4 DEF Refuse
<1>5. CASE BFSStart \/ DijkstraStart \/ BellmanStart \/ FIFOStart \/ DAGStart
  BY <1>2, <1>5 DEF BFSStart, DijkstraStart, BellmanStart, FIFOStart, DAGStart, Enter, Called
<1>6. CASE BFSReturn \/ DijkstraReturn \/ DAGReturn
  BY <1>2, <1>3, <1>6 DEF BFSReturn, DijkstraReturn, DAGReturn, Return, Between, Searching
<1>7. CASE VoronoiMerge
  BY <1>2, <1>3, <1>7 DEF VoronoiMerge, Return
<1>8. CASE BFSDelete \/ DijkstraDelete \/ DAGDelete
  BY <1>2, <1>3, <1>8 DEF BFSDelete, DijkstraDelete, DAGDelete, Return, Between, Searching
<1>9. CASE BellmanArc \/ BellmanPass
  BY <1>2, <1>3, <1>9 DEF BellmanArc, BellmanPass, Return, Searching
<1>10. CASE FIFONode \/ FIFOLeave \/ FIFOPass
  BY <1>2, <1>3, <1>10 DEF FIFONode, FIFOLeave, FIFOPass, Return, Searching, Expanding
<1>11. CASE \E a \in Arc : BFSRead(a) \/ DijkstraRead(a) \/ FIFORead(a) \/ DAGRead(a)
  BY <1>2, <1>3, <1>11 DEF BFSRead, DijkstraRead, FIFORead, DAGRead, Return, Searching, Expanding
<1>. QED BY <1>1, <1>4, <1>5, <1>6, <1>7, <1>8, <1>9, <1>10, <1>11 DEF Next

LEMMA LabelInvariant == Spec => []LabelInv
<1>1. Init => LabelInv
  BY DEF Init, LabelInv, Fails
<1>2. SearchInv /\ LabelInv /\ [Next]_vars => LabelInv'
  <2>. SUFFICES ASSUME SearchInv, LabelInv, [Next]_vars PROVE LabelInv'
    OBVIOUS
  <2>1. (pc' # "done" => ~Fails') /\ (pc = "done" => UNCHANGED vars)
    BY AnswerStep DEF LabelInv
  <2>. SUFFICES ASSUME call'.proc \in {"BFS", "Dijkstra"}, pc' # "called", ~Fails'
                PROVE  WalkInv' /\ ReadInv' /\ StopInv' /\ TreeInv'
    BY <2>1 DEF LabelInv
  <2>2. CASE BFSStart \/ DijkstraStart
    BY <2>2, LabelStart
  <2>3. CASE UNCHANGED vars
    <3>1. WalkInv /\ ReadInv /\ StopInv /\ TreeInv
      BY <2>3 DEF vars, LabelInv, Fails
    <3>. QED BY <2>3, <3>1, LabelQuiet DEF vars
  <2>4. CASE Refuse
    BY <2>4 DEF Refuse, Fails
  <2>5. CASE Next /\ pc \in {"search", "merge"}
    <3>1. call' = call
      BY <2>5 DEF Next, Refuse, BFSStart, DijkstraStart, BellmanStart, FIFOStart, DAGStart, Enter,
        BFSReturn, DijkstraReturn, DAGReturn, VoronoiMerge, BFSDelete, DijkstraDelete, DAGDelete,
        BellmanArc, BellmanPass, FIFONode, FIFOLeave, FIFOPass, BFSRead, DijkstraRead, FIFORead, DAGRead
    <3>2. WalkInv /\ ReadInv /\ StopInv /\ TreeInv /\ call.proc \in {"BFS", "Dijkstra"}
      BY <2>5, <3>1 DEF LabelInv
    <3>3. CASE VoronoiMerge
      <4>1. /\ call' = call /\ dist' = dist /\ queue' = queue /\ active' = active
            /\ unread' = unread /\ u' = u /\ flag' = flag /\ pred' = pred /\ pc = "merge"
        BY <3>3 DEF VoronoiMerge
      <4>. QED BY <3>2, <4>1, LabelQuiet
    <3>4. CASE BFSReturn \/ DijkstraReturn
      BY <3>2, <3>4, LabelReturn
    <3>5. CASE BFSDelete
      BY <3>2, <3>5, LabelBFSDelete
    <3>6. CASE DijkstraDelete
      BY <3>2, <3>6, LabelDijkstraDelete
    <3>7. CASE \E a \in Arc : BFSRead(a) \/ DijkstraRead(a)
      BY <3>2, <3>7, LabelBFSRead, LabelDijkstraRead
    <3>8. ~(DAGReturn \/ DAGDelete \/ BellmanArc \/ BellmanPass \/ FIFONode \/ FIFOLeave \/ FIFOPass)
          /\ \A a \in Arc : ~FIFORead(a) /\ ~DAGRead(a)
      BY <3>2 DEF DAGReturn, DAGDelete, BellmanArc, BellmanPass, FIFONode, FIFOLeave, FIFOPass,
        FIFORead, DAGRead, Between, Expanding, Searching
    <3>9. ~(BFSStart \/ DijkstraStart \/ BellmanStart \/ FIFOStart \/ DAGStart \/ Refuse)
      BY <2>5 DEF BFSStart, DijkstraStart, BellmanStart, FIFOStart, DAGStart, Refuse, Called
    <3>. QED BY <2>5, <3>3, <3>4, <3>5, <3>6, <3>7, <3>8, <3>9 DEF Next
  <2>6. CASE Next /\ pc = "called" /\ ~Refuse
    <3>1. BFSStart \/ DijkstraStart \/ BellmanStart \/ FIFOStart \/ DAGStart
      BY <2>6 DEF Next, BFSReturn, DijkstraReturn, DAGReturn, VoronoiMerge, BFSDelete,
        DijkstraDelete, DAGDelete, BellmanArc, BellmanPass, FIFONode, FIFOLeave, FIFOPass,
        BFSRead, DijkstraRead, FIFORead, DAGRead, Between, Expanding, Searching
    <3>2. ~(BellmanStart \/ FIFOStart \/ DAGStart)
      BY DEF BellmanStart, FIFOStart, DAGStart, Called, Enter
    <3>. QED BY <2>2, <3>1, <3>2
  <2>7. pc \in {"called", "search", "merge", "done"}
    BY DEF SearchInv, Base
  <2>. QED BY <2>1, <2>2, <2>3, <2>4, <2>5, <2>6, <2>7
<1>. QED BY <1>1, <1>2, SearchInvariant, PTL DEF Spec

(* Every label is the length of a walk with fewer arcs than there are nodes. *)
LEMMA LabelWalk ==
  ASSUME SearchInv, WalkInv, call.proc \in {"BFS", "Dijkstra"}, NEW w \in Known
  PROVE  dist[w] \in WalkLengths(call, call.S, n - 1)[w]
<1>0. n \in Nat /\ n - 1 \in Nat /\ w \in Node
  BY NodeFacts DEF Known
<1>1. CASE call.proc = "BFS"
  <2>1. dist[w] \in 0 .. Cardinality(Known) - 1
    BY <1>1 DEF SearchInv, BFSInv
  <2>2. IsFiniteSet(Known) /\ Cardinality(Known) <= n
    BY NodeFacts, FS_Subset DEF Known
  <2>3. Cardinality(Known) \in Nat
    BY <2>2, FS_CardinalityType
  <2>4. dist[w] \in Nat /\ dist[w] <= n - 1
    BY <1>0, <2>1, <2>2, <2>3
  <2>5. dist[w] \in WalkLengths(call, call.S, dist[w])[w]
    BY <1>1 DEF WalkInv, Lengths
  <2>. QED BY <1>0, <2>4, <2>5, WalkMonotone
<1>2. CASE call.proc = "Dijkstra" /\ w \in Settled
  <2>. DEFINE k == Cardinality(Settled) - 1
  <2>1. k \in 0 .. n - 1
    BY <1>2, SettledFacts
  <2>2. dist[w] \in WalkLengths(call, call.S, k)[w]
    BY <1>2 DEF WalkInv, Lengths
  <2>. HIDE DEF k
  <2>3. k \in Nat /\ k <= n - 1
    BY <1>0, <2>1
  <2>. QED BY <1>0, <2>2, <2>3, WalkMonotone
<1>3. CASE call.proc = "Dijkstra" /\ w \notin Settled
  <2>1. Cardinality(Settled) \in 0 .. n - 1
    BY <1>0, <1>3, SettledFacts
  <2>2. dist[w] \in WalkLengths(call, call.S, Cardinality(Settled))[w]
    BY <1>3 DEF WalkInv, Lengths
  <2>. QED BY <1>0, <2>1, <2>2, WalkMonotone
<1>. QED BY <1>1, <1>2, <1>3

(* No arc of a node that is finished improves a label.                       *)
LEMMA ReadArc ==
  ASSUME SearchInv, ReadInv, NEW a \in Arc, Eligible(call.G, call.chr, a),
         Finished(StartNode(call.G, a))
  PROVE  dist[EndNode(call.G, a)] <= dist[StartNode(call.G, a)] + StepLength(call, a)
<1>1. Open(a) /\ Start(a) = StartNode(call.G, a) /\ End(a) = EndNode(call.G, a)
  BY StepFacts
<1>2. a \in Incidences(G, Start(a)) \ unread[Start(a)] /\ Start(a) \in Settled
  BY <1>1 DEF Incidences, Finished, Start
<1>. QED BY <1>1, <1>2 DEF ReadInv

(* If all labelled nodes are finished, the labels are below all walks.       *)
LEMMA FinishedCertified ==
  ASSUME SearchInv, ReadInv, \A w \in Known : Finished(w)
  PROVE  Certified(call, dist, call.S, InfFloat)
<1>0. call \in Calls /\ \A w \in Node : w \in call.S => dist[w] <= 0
  BY DEF SearchInv, Base, ReadInv
<1>1. ASSUME NEW a \in Arc, Eligible(call.G, call.chr, a), dist[StartNode(call.G, a)] # InfFloat
      PROVE  dist[EndNode(call.G, a)] <= dist[StartNode(call.G, a)] + StepLength(call, a)
  <2>1. StartNode(call.G, a) \in Known
    BY <1>0, <1>1, CallFacts DEF Known
  <2>. QED BY <1>1, <2>1, ReadArc
<1>. QED BY <1>0, <1>1 DEF Certified

(* Breadth first search and the Dijkstra method return the distances from    *)
(* the sources, in every graph and for every order of the incidence lists,   *)
(* for plain, subgraph and residual searches: every label is the length of a *)
(* shortest path, and if the search has stopped at its target, the labels    *)
(* that are too large belong to nodes that are no nearer than the target.    *)
THEOREM SearchLabelsExact == Spec => [](call.proc \in {"BFS", "Dijkstra"} => LabelsExact)
<1>1. SearchInv /\ LabelInv => (call.proc \in {"BFS", "Dijkstra"} => LabelsExact)
  <2>. SUFFICES ASSUME SearchInv, LabelInv, call.proc \in {"BFS", "Dijkstra"}, Done, Correct,
                       NEW v \in Node
                PROVE  \/ dist[v] = Distances(call, Sources)[v]
                       \/ /\ dist[v] > Distances(call, Sources)[v]
                          /\ \E t \in call.T : /\ dist[t] = Distances(call, Sources)[t]
                                               /\ Distances(call, Sources)[v] >= Distances(call, Sources)[t]
                                               /\ Distances(call, Sources)[t] # InfFloat
    BY DEF LabelsExact
  <2>. DEFINE S == call.S
              T == call.T
              D == Distances(call, S)
  <2>1. WalkInv /\ ReadInv /\ StopInv /\ TreeInv /\ Sources = S
    BY DEF LabelInv, Correct, Done, Sources
  <2>2. /\ call \in Calls /\ dist \in [Node -> Int] /\ S \subseteq Node /\ T \subseteq Node
    BY CallsAssumption DEF SearchInv, Base
  <2>3. n \in Nat /\ n - 1 \in Nat /\ InfFloat \in Nat /\ n < InfFloat
    BY NodeFacts
  <2>4. ASSUME NEW w \in Node, dist[w] # InfFloat PROVE dist[w] \in WalkLengths(call, S, n - 1)[w]
    BY <2>1, <2>4, LabelWalk DEF Known
  <2>5. ASSUME NEW a \in Arc, Eligible(call.G, call.chr, a), Finished(StartNode(call.G, a))
        PROVE  dist[EndNode(call.G, a)] <= dist[StartNode(call.G, a)] + StepLength(call, a)
    BY <2>1, <2>5, ReadArc
  <2>6. \A w \in Node : dist[w] <= InfFloat /\ (w \in S => dist[w] <= 0)
    BY <2>1 DEF ReadInv
  <2>7. CASE \A w \in Known : Finished(w)
    <3>1. Certified(call, dist, S, InfFloat)
      BY <2>1, <2>7, FinishedCertified
    <3>2. InfFloat \in Int /\ InfFloat <= InfFloat
      BY <2>3
    <3>. QED BY <2>1, <2>2, <2>4, <2>6, <3>1, <3>2, LabelsAreDistances
  <2>8. ASSUME NEW t \in T, dist[t] # InfFloat,
               \A w \in Known : Finished(w) \/
                 dist[t] <= IF call.proc = "BFS" THEN dist[w] + 1 ELSE dist[w]
        PROVE  \/ dist[v] = D[v]
               \/ dist[v] > D[v] /\ dist[t] = D[t] /\ D[v] >= D[t] /\ D[t] # InfFloat
    <3>1. t \in Node /\ dist[t] \in Int /\ dist[t] <= InfFloat
      BY <2>2, <2>6
    <3>2. ASSUME NEW a \in Arc, Eligible(call.G, call.chr, a)
          PROVE  StepLength(call, a) >= 0 /\ (call.proc = "BFS" => StepLength(call, a) = 1)
      <4>1. CASE call.proc = "BFS"
        BY <4>1, StepFacts
      <4>2. CASE call.proc = "Dijkstra"
        <5>1. l(a) >= 0
          BY <3>2, <4>2, StepFacts DEF Correct
        <5>. QED BY <4>2, <5>1, StepFacts
      <4>. QED BY <4>1, <4>2
    <3>3. Certified(call, dist, S, dist[t])
      <4>1. ASSUME NEW a \in Arc, Eligible(call.G, call.chr, a), dist[StartNode(call.G, a)] # InfFloat
            PROVE  \/ dist[EndNode(call.G, a)] <= dist[StartNode(call.G, a)] + StepLength(call, a)
                   \/ dist[t] <= dist[StartNode(call.G, a)] + StepLength(call, a)
        <5>. DEFINE w == StartNode(call.G, a)
        <5>1. w \in Known /\ dist[w] \in Int /\ StepLength(call, a) \in Int
          BY <2>2, <4>1, CallFacts DEF Known
        <5>2. CASE Finished(w)
          BY <2>5, <4>1, <5>2
        <5>3. CASE dist[t] <= IF call.proc = "BFS" THEN dist[w] + 1 ELSE dist[w]
          <6>1. CASE call.proc = "BFS"
            <7>1. dist[t] <= dist[w] + 1 /\ StepLength(call, a) = 1
              BY <3>2, <4>1, <5>3, <6>1
            <7>. QED BY <7>1
          <6>2. CASE call.proc # "BFS"
            <7>1. dist[t] <= dist[w] /\ StepLength(call, a) >= 0
              BY <3>2, <4>1, <5>3, <6>2
            <7>2. dist[t] <= dist[w] + StepLength(call, a)
              BY <3>1, <5>1, <7>1
            <7>. QED BY <7>2
          <6>. QED BY <6>1, <6>2
        <5>. QED BY <2>8, <5>1, <5>2, <5>3
      <4>. QED BY <2>6, <3>2, <4>1 DEF Certified
    <3>4. ASSUME NEW w \in Node
          PROVE  D[w] \in Int /\ (dist[w] = D[w] \/ (dist[w] > D[w] /\ dist[t] <= D[w]))
      BY <2>2, <2>4, <2>6, <3>1, <3>3, LabelsAreDistances
    <3>5. dist[t] = D[t]
      <4>1. CASE dist[t] > D[t] /\ dist[t] <= D[t]
        <5>1. D[t] \in Int
          BY <3>1, <3>4
        <5>. QED BY <3>1, <4>1, <5>1
      <4>. QED BY <3>1, <3>4, <4>1
    <3>. QED BY <2>8, <3>4, <3>5
  <2>9. CASE \E t \in T : /\ dist[t] # InfFloat
                          /\ \A w \in Known : Finished(w) \/
                               dist[t] <= IF call.proc = "BFS" THEN dist[w] + 1 ELSE dist[w]
    BY <2>1, <2>8, <2>9
  <2>. QED BY <2>1, <2>7, <2>9 DEF StopInv, Done
<1>. QED BY <1>1, SearchInvariant, LabelInvariant, PTL
-------------------------------------------------------------------------------
(* The way back to a source.                                                 *)

Previous(v) == IF v = NoNode \/ pred[v] = NoArc THEN NoNode ELSE Start(pred[v])
WayBack(v, k, f) == f = [j \in 0 .. k |-> IF j = 0 THEN v ELSE Previous(f[j - 1])]

LEMMA WayBackExists ==
  ASSUME NEW v, NEW k \in Nat
  PROVE  \E f : WayBack(v, k, f)
<1>. DEFINE Bad == {j \in Nat : ~ \E f : WayBack(v, j, f)}
<1>. SUFFICES ASSUME Bad # {} PROVE FALSE
  OBVIOUS
<1>1. PICK j \in Bad : \A i \in Bad : j <= i
  BY LeastNumber
<1>2. CASE j = 0
  <2>. DEFINE f == [i \in 0 .. 0 |-> v]
  <2>1. WayBack(v, 0, f)
    BY DEF WayBack
  <2>. HIDE DEF f
  <2>. QED BY <1>2, <2>1
<1>3. CASE j # 0
  <2>1. j \in Nat /\ j - 1 \in Nat /\ ~(j <= j - 1)
    BY <1>3
  <2>2. PICK f : WayBack(v, j - 1, f)
    BY <1>1, <2>1
  <2>. DEFINE g == [i \in 0 .. j |-> IF i = j THEN Previous(f[j - 1]) ELSE f[i]]
              h == [i \in 0 .. j |-> IF i = 0 THEN v ELSE Previous(g[i - 1])]
  <2>3. ASSUME NEW i \in 0 .. j PROVE g[i] = h[i]
    <3>1. CASE i = j
      <4>1. g[i] = Previous(f[j - 1]) /\ g[i - 1] = f[j - 1] /\ i # 0
        BY <1>3, <2>1, <3>1
      <4>. QED BY <4>1
    <3>2. CASE i # j
      <4>1. i \in 0 .. j - 1 /\ g[i] = f[i]
        BY <2>1, <3>2
      <4>2. f[i] = IF i = 0 THEN v ELSE Previous(f[i - 1])
        BY <2>2, <4>1 DEF WayBack
      <4>3. CASE i = 0
        BY <4>1, <4>2, <4>3
      <4>4. CASE i # 0
        <5>1. g[i - 1] = f[i - 1]
          BY <2>1, <3>2, <4>4
        <5>. QED BY <4>1, <4>2, <4>4, <5>1
      <4>. QED BY <4>3, <4>4
    <3>. QED BY <3>1, <3>2
  <2>4. g = h
    BY <2>3
  <2>5. WayBack(v, j, g)
    BY <2>4 DEF WayBack
  <2>. HIDE DEF g
  <2>. QED BY <2>5
<1>. QED BY <1>2, <1>3

(* The predecessor arcs lead from every labelled node to a source: n steps   *)
(* back are too many.                                                        *)
LEMMA BackEnds ==
  ASSUME SearchInv, TreeInv, NEW v \in Known
  PROVE  Back(v) = NoNode
<1>0. n \in Nat /\ Known \subseteq Node /\ NoNode \notin Node
  BY NodeFacts, SettledFacts
<1>1. PICK r \in [Node -> Nat] : Numbering(r)
  BY DEF TreeInv
<1>2. PICK s \in Nat : s = Cardinality(Settled)
  BY SettledFacts
<1>. DEFINE rank(x) == IF x \in Settled THEN r[x] ELSE s
<1>3. ASSUME NEW x \in Known PROVE rank(x) \in Nat /\ rank(x) <= n - 1
  <2>1. CASE x \in Settled
    <3>1. r[x] \in Nat /\ r[x] < s
      BY <1>0, <1>1, <1>2, <2>1 DEF Numbering
    <3>2. s <= n
      <4>1. Cardinality(Settled) \in 0 .. n
        BY SettledFacts
      <4>. QED BY <1>0, <1>2, <4>1
    <3>. QED BY <1>0, <2>1, <3>1, <3>2
  <2>2. CASE x \notin Settled
    <3>1. Cardinality(Settled) \in 0 .. n - 1
      BY <1>0, <2>2, SettledFacts
    <3>. QED BY <1>0, <1>2, <2>2, <3>1
  <2>. QED BY <2>1, <2>2
<1>4. ASSUME NEW x \in Known, pred[x] # NoArc
      PROVE  Start(pred[x]) \in Known /\ rank(Start(pred[x])) < rank(x)
  <2>1. Start(pred[x]) \in Settled /\ Start(pred[x]) \in Known
    BY <1>0, <1>4, SettledFacts DEF TreeInv, TreeArc
  <2>2. CASE x \in Settled
    BY <1>1, <1>4, <2>1, <2>2 DEF Numbering
  <2>3. CASE x \notin Settled
    BY <1>1, <1>2, <2>1, <2>3 DEF Numbering
  <2>. QED BY <2>1, <2>2, <2>3
<1>. HIDE DEF rank
<1>5. ASSUME NEW f, WayBack(v, n, f) PROVE f[n] = NoNode
  <2>. DEFINE Near(j) == f[j] = NoNode \/ (f[j] \in Known /\ rank(f[j]) + j <= n - 1)
              Bad == {j \in 0 .. n : ~Near(j)}
  <2>1. Bad = {}
    <3>. SUFFICES ASSUME Bad # {} PROVE FALSE
      OBVIOUS
    <3>1. Bad \in SUBSET Nat
      BY <1>0
    <3>2. PICK j \in Bad : \A i \in Bad : j <= i
      BY <3>1, LeastNumber
    <3>3. j \in 0 .. n /\ j \in Nat /\ ~Near(j)
      BY <1>0
    <3>4. f[j] = IF j = 0 THEN v ELSE Previous(f[j - 1])
      BY <1>5, <3>3 DEF WayBack
    <3>5. CASE j = 0
      BY <1>0, <1>3, <3>3, <3>4, <3>5
    <3>6. CASE j # 0
      <4>1. j - 1 \in 0 .. n /\ ~(j <= j - 1)
        BY <1>0, <3>3, <3>6
      <4>2. Near(j - 1) /\ f[j] = Previous(f[j - 1])
        BY <3>2, <3>4, <3>6, <4>1
      <4>. DEFINE x == f[j - 1]
      <4>3. x # NoNode /\ pred[x] # NoArc /\ f[j] = Start(pred[x])
        BY <3>3, <4>2 DEF Previous
      <4>4. x \in Known /\ rank(x) + (j - 1) <= n - 1
        BY <4>2, <4>3
      <4>. HIDE DEF x
      <4>5. f[j] \in Known /\ rank(f[j]) < rank(x)
        BY <1>4, <4>3, <4>4
      <4>6. rank(x) \in Nat /\ rank(f[j]) \in Nat
        BY <1>3, <4>4, <4>5
      <4>7. rank(f[j]) + j <= n - 1
        BY <1>0, <3>3, <4>4, <4>5, <4>6
      <4>. QED BY <3>3, <4>5, <4>7
    <3>. QED BY <3>5, <3>6
  <2>2. Near(n)
    <3>1. n \in 0 .. n
      BY <1>0
    <3>. QED BY <2>1, <3>1
  <2>3. CASE f[n] \in Known /\ rank(f[n]) + n <= n - 1
    <3>1. rank(f[n]) \in Nat
      BY <1>3, <2>3
    <3>. QED BY <1>0, <2>3, <3>1
  <2>. QED BY <2>2, <2>3
<1>. DEFINE W == CHOOSE W : WayBack(v, n, W)
<1>6. WayBack(v, n, W)
  BY <1>0, WayBackExists
<1>7. Back(v) = W[n]
  BY DEF Back, WayBack, Previous
<1>8. W[n] = NoNode
  BY <1>5, <1>6
<1>. QED BY <1>7, <1>8
-------------------------------------------------------------------------------
(* What the caller is told.                                                  *)

(* A Dijkstra search has not settled a target, or it would have returned.    *)
(* It fails only because of a negative arc.  A call answers "true" if its    *)
(* target is labelled, and "false" after all labelled nodes are finished.    *)
AnswerInv ==
  /\ pc # "done" => out = <<"none", NoNode>>
  /\ call.proc = "Dijkstra" =>
       /\ pc = "search" => call.T \intersect Settled = {}
       /\ Fails /\ ~Refused => \E a \in Arc : Open(a) /\ l(a) < 0
  /\ call.proc \in {"BFS", "Dijkstra"} =>
       /\ out[1] # "ERRange"
       /\ out[1] = "true" => pc = "done" /\ call.T \subseteq Known
       /\ out[1] = "false" => /\ pc = "done" /\ call.T \intersect Known = {}
                             /\ \A v \in Known : Finished(v)

(* A procedure that has not returned tells nothing.                          *)
LEMMA AnswerQuiet ==
  ASSUME AnswerInv, pc # "done", call' = call, out' = out,
         call.proc = "Dijkstra" /\ pc' = "search" => call.T \intersect Settled' = {}
  PROVE  AnswerInv'
<1>1. out' = <<"none", NoNode>> /\ out'[1] = "none"
  BY DEF AnswerInv
<1>. QED BY <1>1 DEF AnswerInv, Fails

LEMMA OneTarget ==
  ASSUME SearchInv, call.hub \/ call.proc # "Dijkstra", NEW t \in call.T
  PROVE  call.T = {t}
<1>1. call \in Calls
  BY DEF SearchInv, Base
<1>. QED BY <1>1, CallsAssumption

LEMMA AnswerBFS ==
  ASSUME SearchInv, WalkInv, ReadInv, StopInv, AnswerInv, BFSReturn
  PROVE  AnswerInv'
<1>1. /\ call' = call /\ dist' = dist /\ queue' = queue /\ active' = active /\ unread' = unread
      /\ u' = u /\ pred' = pred /\ flag' = flag
      /\ call.proc = "BFS" /\ pc' = "done" /\ out' = Bool(Reached)
      /\ queue = <<>> \/ ~flag
      /\ IF u = NoNode THEN TRUE ELSE unread[u] = {}
  BY DEF BFSReturn, Between, Searching, Return
<1>2. Known' = Known /\ (\A v : Finished(v)' <=> Finished(v))
  BY <1>1, LabelQuiet
<1>3. call.T \subseteq Node /\ call \in Calls
  BY CallsAssumption DEF SearchInv, Base
<1>4. call.T # {} => Target \in call.T
  BY DEF Target
<1>5. CASE Reached
  <2>1. Target \in call.T /\ dist[Target] # InfFloat
    BY <1>4, <1>5 DEF Reached
  <2>2. call.T = {Target}
    BY <1>1, <2>1, OneTarget
  <2>3. call.T \subseteq Known
    BY <1>3, <2>1, <2>2 DEF Known
  <2>4. out'[1] = "true"
    BY <1>1, <1>5 DEF Bool
  <2>. QED BY <1>1, <1>2, <2>3, <2>4 DEF AnswerInv, Fails
<1>6. CASE ~Reached
  <2>1. \A t \in call.T : dist[t] = InfFloat
    <3>. SUFFICES ASSUME NEW t \in call.T PROVE dist[t] = InfFloat
      OBVIOUS
    <3>1. Target = t
      BY <1>1, <1>4, OneTarget
    <3>. QED BY <1>6, <3>1 DEF Reached
  <2>2. queue = <<>>
    BY <1>1, <2>1 DEF StopInv
  <2>3. Known = Settled
    <3>1. Queued = {}
      BY <1>1, <2>2 DEF Queued
    <3>. QED BY <3>1 DEF Settled
  <2>4. \A v \in Known : Finished(v)
    BY <1>1, <2>3, BetweenFinished
  <2>5. call.T \intersect Known = {}
    BY <2>1 DEF Known
  <2>6. out'[1] = "false"
    BY <1>1, <1>6 DEF Bool
  <2>. QED BY <1>1, <1>2, <2>4, <2>5, <2>6 DEF AnswerInv, Fails
<1>. QED BY <1>5, <1>6

LEMMA AnswerDelete ==
  ASSUME SearchInv, ReadInv, AnswerInv, DijkstraDelete
  PROVE  AnswerInv'
<1>1. PICK v \in active :
        /\ active' = active \ {v}
        /\ IF v \in call.T THEN Return(IF call.hub THEN Bool(TRUE) ELSE <<"node", v>>)
                           ELSE UNCHANGED <<pc, out>>
  BY DEF DijkstraDelete
<1>2. /\ call' = call /\ dist' = dist /\ unread' = unread /\ call.proc = "Dijkstra"
      /\ pc = "search"
  BY DEF DijkstraDelete, Between, Searching
<1>3. Known' = Known /\ v \in Known
  BY <1>2 DEF Known, ReadInv, Queued
<1>4. CASE v \in call.T
  <2>1. call.hub => call.T = {v}
    BY <1>4, OneTarget
  <2>2. pc' = "done" /\ out' = IF call.hub THEN Bool(TRUE) ELSE <<"node", v>>
    BY <1>1, <1>4 DEF Return
  <2>3. CASE call.hub
    <3>1. out'[1] = "true"
      BY <2>2, <2>3 DEF Bool
    <3>. QED BY <1>2, <1>3, <2>1, <2>2, <2>3, <3>1 DEF AnswerInv, Fails
  <2>4. CASE ~call.hub
    <3>1. out'[1] = "node"
      BY <2>2, <2>4
    <3>. QED BY <1>2, <2>2, <3>1 DEF AnswerInv, Fails
  <2>. QED BY <2>3, <2>4
<1>5. CASE v \notin call.T
  <2>1. pc' = pc /\ out' = out
    BY <1>1, <1>5
  <2>2. Settled' \subseteq Settled \union {v}
    BY <1>1, <1>2, <1>3 DEF Settled, Queued
  <2>. QED BY <1>2, <1>5, <2>1, <2>2, AnswerQuiet DEF AnswerInv
<1>. QED BY <1>4, <1>5

LEMMA AnswerRead ==
  ASSUME SearchInv, ReadInv, AnswerInv, NEW a \in Arc, DijkstraRead(a)
  PROVE  AnswerInv'
<1>. DEFINE v == End(a)
            dd == dist[u] + l(a)
<1>1. /\ call' = call /\ call.proc = "Dijkstra" /\ pc = "search" /\ u # NoNode
      /\ IF dist[v] > dd /\ Open(a)
         THEN IF l(a) < 0 \/ ~HeapTakes(v)
              THEN Return(<<"ERRejected", NoNode>>) /\ UNCHANGED <<dist, pred, active>>
              ELSE /\ Improve(a, dd) /\ active' = active \union {v}
                   /\ UNCHANGED <<pc, out>>
         ELSE UNCHANGED <<dist, pred, active, pc, out>>
  BY DEF DijkstraRead, Expanding, Searching
<1>2. /\ v \in Node /\ l(a) \in Int /\ u \in Node /\ dist \in [Node -> Int] /\ dist[u] \in Int
      /\ dist[v] \in Int
  BY <1>1, GraphFacts DEF SearchInv, Base
<1>3. CASE dist[v] > dd /\ Open(a) /\ (l(a) < 0 \/ ~HeapTakes(v))
  <2>1. l(a) < 0
    <3>. SUFFICES ASSUME ~HeapTakes(v), ~(l(a) < 0) PROVE FALSE
      BY <1>3
    <3>1. v \in Node \ active /\ dist[v] # InfFloat
      BY <1>2 DEF HeapTakes
    <3>2. dist[v] <= dist[u]
      BY <1>1, <3>1 DEF SearchInv, HeapInv
    <3>3. dist[u] <= dist[u] + l(a)
      BY <1>2
    <3>. QED BY <1>2, <1>3, <3>2, <3>3
  <2>2. pc' = "done" /\ out'[1] = "ERRejected"
    BY <1>1, <1>3 DEF Return
  <2>3. Open(a)' /\ l(a)' < 0
    BY <1>1, <1>3, <2>1 DEF Open, G, l
  <2>. QED BY <1>1, <2>2, <2>3 DEF AnswerInv
<1>4. CASE ~(dist[v] > dd /\ Open(a) /\ (l(a) < 0 \/ ~HeapTakes(v)))
  <2>1. pc' = pc /\ out' = out
    BY <1>1, <1>4
  <2>2. Settled' \subseteq Settled
    <3>1. CASE dist' = dist /\ active' = active
      BY <1>1, <3>1 DEF Settled, Known, Queued
    <3>2. CASE dist' = [dist EXCEPT ![v] = dd] /\ active' = active \union {v}
      BY <1>1, <1>2, <3>2 DEF Settled, Known, Queued
    <3>. QED BY <1>1, <1>4, <3>1, <3>2 DEF Improve
  <2>. QED BY <1>1, <2>1, <2>2, AnswerQuiet DEF AnswerInv
<1>. QED BY <1>3, <1>4

LEMMA AnswerReturn ==
  ASSUME SearchInv, ReadInv, AnswerInv, DijkstraReturn
  PROVE  AnswerInv'
<1>1. /\ call' = call /\ dist' = dist /\ queue' = queue /\ active' = active /\ unread' = unread
      /\ u' = u /\ pred' = pred /\ flag' = flag
      /\ call.proc = "Dijkstra" /\ pc = "search" /\ active = {}
      /\ IF u = NoNode THEN TRUE ELSE unread[u] = {}
      /\ IF call.opt = "VORONOI" THEN pc' = "merge" /\ out' = out
         ELSE Return(IF call.hub THEN Bool(FALSE) ELSE <<"node", NoNode>>)
  BY DEF DijkstraReturn, Between, Searching
<1>2. Known' = Known /\ (\A v : Finished(v)' <=> Finished(v))
  BY <1>1, LabelQuiet
<1>3. Known = Settled
  BY <1>1 DEF Settled, Queued
<1>4. \A v \in Known : Finished(v)
  BY <1>1, <1>3, BetweenFinished
<1>5. call.T \intersect Known = {}
  BY <1>1, <1>3 DEF AnswerInv
<1>6. CASE call.opt = "VORONOI"
  BY <1>1, <1>6, AnswerQuiet
<1>7. CASE call.opt # "VORONOI"
  <2>1. pc' = "done" /\ out'[1] \in {"false", "node"}
    BY <1>1, <1>7 DEF Return, Bool
  <2>. QED BY <1>1, <1>2, <1>4, <1>5, <2>1 DEF AnswerInv, Fails
<1>. QED BY <1>6, <1>7

LEMMA AnswerInvariant == Spec => []AnswerInv
<1>1. Init => AnswerInv
  BY DEF Init, AnswerInv, Fails
<1>2. SearchInv /\ LabelInv /\ AnswerInv /\ [Next]_vars => AnswerInv'
  <2>. SUFFICES ASSUME SearchInv, LabelInv, AnswerInv, [Next]_vars PROVE AnswerInv'
    OBVIOUS
  <2>1. pc = "done" => UNCHANGED vars
    BY AnswerStep DEF LabelInv
  <2>2. CASE UNCHANGED vars
    <3>1. /\ call' = call /\ dist' = dist /\ queue' = queue /\ active' = active /\ unread' = unread
          /\ u' = u /\ pred' = pred /\ flag' = flag /\ pc' = pc /\ out' = out
      BY <2>2 DEF vars
    <3>2. Known' = Known /\ Settled' = Settled /\ (\A v : Finished(v)' <=> Finished(v))
      BY <3>1, LabelQuiet
    <3>3. /\ Refused' <=> Refused
          /\ \A a : (Open(a)' <=> Open(a)) /\ l(a)' = l(a)
      BY <3>1 DEF Refused, Open, l, G
    <3>. QED BY <3>1, <3>2, <3>3 DEF AnswerInv, Fails
  <2>. SUFFICES ASSUME Next, pc # "done" PROVE AnswerInv'
    BY <2>1, <2>2
  <2>3. CASE Refuse
    <3>1. call' = call /\ pc' = "done" /\ out'[1] = "ERRejected" /\ Refused'
      BY <2>3 DEF Refuse, Refused, G
    <3>. QED BY <3>1 DEF AnswerInv
  <2>4. CASE BFSStart \/ DijkstraStart
    <3>1. call' = call /\ out' = out /\ dist' = Labelled
          /\ (call.proc = "Dijkstra" => active' = call.S)
      BY <2>4 DEF BFSStart, DijkstraStart, Called, Enter
    <3>2. call.proc = "Dijkstra" => Settled' = {}
      <4>1. \A v \in Node : Labelled[v] = IF v \in call.S THEN 0 ELSE InfFloat
        BY LabelledFacts DEF SearchInv, Base
      <4>. QED BY <3>1, <4>1 DEF Settled, Known, Queued
    <3>. QED BY <3>1, <3>2, AnswerQuiet
  <2>5. CASE call.proc \notin {"BFS", "Dijkstra"} /\ ~Refuse
    <3>1. call' = call
      BY <2>5 DEF Next, BFSStart, DijkstraStart, BellmanStart, FIFOStart, DAGStart, Enter,
        BFSReturn, DijkstraReturn, DAGReturn, VoronoiMerge, BFSDelete, DijkstraDelete, DAGDelete,
        BellmanArc, BellmanPass, FIFONode, FIFOLeave, FIFOPass, BFSRead, DijkstraRead, FIFORead, DAGRead
    <3>2. pc' # "done" => out' = out
      <4>1. CASE BFSStart \/ DijkstraStart \/ BellmanStart \/ FIFOStart \/ DAGStart
        BY <4>1 DEF BFSStart, DijkstraStart, BellmanStart, FIFOStart, DAGStart, Enter
      <4>2. CASE BFSReturn \/ DijkstraReturn \/ DAGReturn \/ VoronoiMerge
        BY <4>2 DEF BFSReturn, DijkstraReturn, DAGReturn, Return, VoronoiMerge
      <4>3. CASE BFSDelete \/ DijkstraDelete \/ DAGDelete
        BY <4>3 DEF BFSDelete, DijkstraDelete, DAGDelete, Return
      <4>4. CASE BellmanArc \/ BellmanPass
        BY <4>4 DEF BellmanArc, BellmanPass, Return
      <4>5. CASE FIFONode \/ FIFOLeave \/ FIFOPass
        BY <4>5 DEF FIFONode, FIFOLeave, FIFOPass, Return
      <4>6. CASE \E a \in Arc : BFSRead(a) \/ DijkstraRead(a) \/ FIFORead(a) \/ DAGRead(a)
        BY <4>6 DEF BFSRead, DijkstraRead, FIFORead, DAGRead, Return
      <4>. QED BY <2>5, <4>1, <4>2, <4>3, <4>4, <4>5, <4>6 DEF Next
    <3>. QED BY <2>5, <3>1, <3>2 DEF AnswerInv
  <2>6. CASE call.proc \in {"BFS", "Dijkstra"} /\ pc # "called"
    <3>1. WalkInv /\ ReadInv /\ StopInv
      BY <2>6 DEF LabelInv
    <3>2. CASE VoronoiMerge
      <4>1. call' = call /\ \/ pc' = "merge" /\ out' = out
                            \/ pc' = "done" /\ out'[1] = "count"
        <5>1. CASE idx < n
          BY <3>2, <5>1 DEF VoronoiMerge
        <5>2. CASE ~(idx < n)
          <6>1. call' = call /\ Return(<<"count", Cardinality(call.S)>>)
            BY <3>2, <5>2 DEF VoronoiMerge
          <6>. QED BY <6>1 DEF Return
        <5>. QED BY <5>1, <5>2
      <4>2. CASE pc' = "merge" /\ out' = out
        BY <4>1, <4>2, AnswerQuiet
      <4>3. CASE pc' = "done" /\ out'[1] = "count"
        BY <4>1, <4>3 DEF AnswerInv, Fails
      <4>. QED BY <4>1, <4>2, <4>3
    <3>3. CASE BFSReturn
      BY <3>1, <3>3, AnswerBFS
    <3>4. CASE DijkstraReturn
      BY <3>1, <3>4, AnswerReturn
    <3>5. CASE BFSDelete \/ \E a \in Arc : BFSRead(a)
      <4>1. call' = call /\ out' = out /\ call.proc = "BFS"
        BY <3>5 DEF BFSDelete, BFSRead, Between, Expanding, Searching
      <4>. QED BY <4>1, AnswerQuiet
    <3>6. CASE DijkstraDelete
      BY <3>1, <3>6, AnswerDelete
    <3>7. CASE \E a \in Arc : DijkstraRead(a)
      BY <3>1, <3>7, AnswerRead
    <3>8. ~(DAGReturn \/ DAGDelete \/ BellmanArc \/ BellmanPass \/ FIFONode \/ FIFOLeave \/ FIFOPass)
          /\ \A a \in Arc : ~FIFORead(a) /\ ~DAGRead(a)
      BY <2>6 DEF DAGReturn, DAGDelete, BellmanArc, BellmanPass, FIFONode, FIFOLeave, FIFOPass,
        FIFORead, DAGRead, Between, Expanding, Searching
    <3>9. ~(BFSStart \/ DijkstraStart \/ BellmanStart \/ FIFOStart \/ DAGStart \/ Refuse)
      BY <2>6 DEF BFSStart, DijkstraStart, BellmanStart, FIFOStart, DAGStart, Refuse, Called
    <3>. QED BY <3>2, <3>3, <3>4, <3>5, <3>6, <3>7, <3>8, <3>9 DEF Next
  <2>7. CASE call.proc \in {"BFS", "Dijkstra"} /\ pc = "called" /\ ~Refuse
    <3>1. BFSStart \/ DijkstraStart \/ BellmanStart \/ FIFOStart \/ DAGStart
      BY <2>7 DEF Next, BFSReturn, DijkstraReturn, DAGReturn, VoronoiMerge, BFSDelete,
        DijkstraDelete, DAGDelete, BellmanArc, BellmanPass, FIFONode, FIFOLeave, FIFOPass,
        BFSRead, DijkstraRead, FIFORead, DAGRead, Between, Expanding, Searching
    <3>2. ~(BellmanStart \/ FIFOStart \/ DAGStart)
      BY <2>7 DEF BellmanStart, FIFOStart, DAGStart, Called, Enter
    <3>. QED BY <2>4, <3>1, <3>2
  <2>. QED BY <2>3, <2>5, <2>6, <2>7
<1>. QED BY <1>1, <1>2, SearchInvariant, LabelInvariant, PTL DEF Spec

(* What BFS, the Dijkstra method and ShortestPath on top of them tell their  *)
(* caller is true: "true" or "false" is the reachability of the target, and  *)
(* a Dijkstra search is rejected only if an arc of negative length exists,   *)
(* never because the heap misses a node (solveSPTree.cpp, SPX_Dijkstra).     *)
THEOREM SearchAnswersTrue == Spec => [](call.proc \in {"BFS", "Dijkstra"} => AnswersTrue)
<1>1. SearchInv /\ LabelInv /\ AnswerInv => (call.proc \in {"BFS", "Dijkstra"} => AnswersTrue)
  <2>. SUFFICES ASSUME SearchInv, LabelInv, AnswerInv, call.proc \in {"BFS", "Dijkstra"}
                PROVE  ExceptionsTrue
    BY DEF AnswersTrue, CycleExported, CycleNode
  <2>0. /\ call \in Calls /\ dist \in [Node -> Int] /\ call.T \subseteq Node
        /\ n \in Nat /\ n - 1 \in Nat /\ n - 1 <= n /\ InfFloat \in Int /\ n \in 0 .. n
    BY CallsAssumption, NodeFacts DEF SearchInv, Base
  <2>1. ASSUME out[1] = "true" PROVE call.T \subseteq Reachable(call.S)
    <3>1. WalkInv /\ call.T \subseteq Known
      BY <2>1 DEF LabelInv, AnswerInv, Fails
    <3>2. ASSUME NEW v \in call.T PROVE WalkLengths(call, call.S, n)[v] # {}
      <4>1. dist[v] \in WalkLengths(call, call.S, n - 1)[v]
        BY <3>1, <3>2, LabelWalk
      <4>. QED BY <2>0, <3>2, <4>1, WalkMonotone
    <3>. QED BY <2>0, <3>2 DEF Reachable
  <2>2. ASSUME out[1] = "false" PROVE call.T \intersect Reachable(call.S) = {}
    <3>1. ReadInv /\ call.T \intersect Known = {} /\ \A v \in Known : Finished(v)
      BY <2>2 DEF LabelInv, AnswerInv, Fails
    <3>2. Certified(call, dist, call.S, InfFloat)
      BY <3>1, FinishedCertified
    <3>3. ASSUME NEW v \in call.T, NEW d \in WalkLengths(call, call.S, n)[v] PROVE FALSE
      <4>1. d \in Int /\ d < InfFloat
        BY <2>0, <3>3, PathsFinite
      <4>2. dist[v] <= d \/ InfFloat <= d
        BY <2>0, <3>2, <3>3, NoShorterWalk
      <4>3. dist[v] # InfFloat /\ v \in Node
        BY <2>0, <3>3, <4>1, <4>2
      <4>. QED BY <3>1, <3>3, <4>3 DEF Known
    <3>. QED BY <3>3 DEF Reachable
  <2>. QED BY <2>1, <2>2 DEF AnswerInv, ExceptionsTrue
<1>. QED BY <1>1, SearchInvariant, LabelInvariant, AnswerInvariant, PTL
-------------------------------------------------------------------------------
(* The node partition of VoronoiRegions.                                     *)

(* The sets of nodes that contain all nodes of a tree or none.               *)
Trees == {C \in SUBSET Node : \A v \in Node :
            pred[v] # NoArc => (v \in C <=> Start(pred[v]) \in C)}

(* The regions are disjoint sets, none goes beyond its tree, and the nodes   *)
(* before i are in the regions of their predecessors.                        *)
Merged(i) ==
  /\ \A v \in Node : v \in region[v] /\ \A w \in region[v] : region[w] = region[v]
  /\ \A C \in Trees : \A v \in C : region[v] \subseteq C
  /\ \A j \in Node : j < i /\ pred[j] # NoArc => Start(pred[j]) \in region[j]

(* Labels are not negative, so that terminals keep their labels.             *)
TerminalInv == (\A v \in Node : dist[v] >= 0) /\ \A s \in call.S : pred[s] = NoArc

RegionInv ==
  call.opt = "VORONOI" =>
    /\ pc \in {"called", "search"} => region = [v \in Node |-> {v}]
    /\ pc # "called" /\ ~Fails => TerminalInv
    /\ pc = "merge" => Merged(idx)
    /\ pc = "done" /\ ~Fails => Merged(n)

LEMMA RegionStart ==
  ASSUME SearchInv, RegionInv, DijkstraStart, call.opt = "VORONOI"
  PROVE  RegionInv'
<1>1. /\ call' = call /\ pc = "called" /\ pc' = "search" /\ region' = region /\ dist' = Labelled
      /\ pred' = [v \in Node |-> NoArc]
  BY DEF DijkstraStart, Called, Enter
<1>2. /\ call.S \subseteq Node
      /\ \A v \in Node : Labelled[v] = IF v \in call.S THEN 0 ELSE InfFloat
  BY LabelledFacts DEF SearchInv, Base
<1>3. \A v \in Node : dist'[v] >= 0
  <2>1. InfFloat \in Nat /\ InfFloat >= 0 /\ 0 >= 0
    BY NodeFacts
  <2>. QED BY <1>1, <1>2, <2>1
<1>4. TerminalInv'
  BY <1>1, <1>2, <1>3 DEF TerminalInv
<1>. QED BY <1>1, <1>4 DEF RegionInv

LEMMA RegionRead ==
  ASSUME SearchInv, RegionInv, ReadInv, pc # "done" => ~Fails, NEW a \in Arc, DijkstraRead(a),
         call.opt = "VORONOI"
  PROVE  RegionInv'
<1>. DEFINE v == End(a)
            dd == dist[u] + l(a)
<1>1. /\ call' = call /\ pc = "search" /\ u # NoNode /\ region' = region
      /\ IF dist[v] > dd /\ Open(a)
         THEN IF l(a) < 0 \/ ~HeapTakes(v)
              THEN Return(<<"ERRejected", NoNode>>) /\ UNCHANGED <<dist, pred, active>>
              ELSE /\ Improve(a, dd) /\ active' = active \union {v}
                   /\ UNCHANGED <<pc, out>>
         ELSE UNCHANGED <<dist, pred, active, pc, out>>
  BY DEF DijkstraRead, Expanding, Searching
<1>2. /\ v \in Node /\ l(a) \in Int /\ u \in Node /\ dist \in [Node -> Int] /\ dist[u] \in Int
      /\ dist[v] \in Int /\ pred \in [Node -> Arc \union {NoArc}] /\ call \in Calls
  BY <1>1, GraphFacts DEF SearchInv, Base
<1>3. TerminalInv /\ region = [x \in Node |-> {x}]
  BY <1>1 DEF RegionInv
<1>4. CASE dist[v] > dd /\ Open(a) /\ (l(a) < 0 \/ ~HeapTakes(v))
  <2>1. pc' = "done" /\ out'[1] = "ERRejected"
    BY <1>1, <1>4 DEF Return
  <2>. QED BY <1>1, <2>1 DEF RegionInv, Fails
<1>5. CASE dist[v] > dd /\ Open(a) /\ ~(l(a) < 0 \/ ~HeapTakes(v))
  <2>1. /\ dist' = [dist EXCEPT ![v] = dd] /\ pred' = [pred EXCEPT ![v] = a] /\ pc' = pc
    BY <1>1, <1>5 DEF Improve
  <2>2. dist[u] >= 0 /\ dd >= 0
    <3>1. dist[u] >= 0
      BY <1>2, <1>3 DEF TerminalInv
    <3>2. dd >= 0
      BY <1>2, <1>5, <3>1
    <3>. QED BY <3>1, <3>2
  <2>3. \A x \in Node : dist'[x] >= 0
    BY <1>2, <1>3, <2>1, <2>2 DEF TerminalInv
  <2>4. v \notin call.S
    <3>. SUFFICES ASSUME v \in call.S PROVE FALSE
      OBVIOUS
    <3>1. dist[v] <= 0
      BY DEF ReadInv
    <3>. QED BY <1>2, <1>5, <2>2, <3>1
  <2>5. call.S \subseteq Node
    BY <1>2, CallsAssumption
  <2>6. \A s \in call.S : pred'[s] = NoArc
    BY <1>2, <1>3, <2>1, <2>4, <2>5 DEF TerminalInv
  <2>. QED BY <1>1, <1>3, <2>1, <2>3, <2>6 DEF RegionInv, TerminalInv
<1>6. CASE ~(dist[v] > dd /\ Open(a))
  <2>1. dist' = dist /\ pred' = pred /\ pc' = pc
    BY <1>1, <1>6
  <2>. QED BY <1>1, <1>3, <2>1 DEF RegionInv, TerminalInv
<1>. QED BY <1>4, <1>5, <1>6

LEMMA RegionReturn ==
  ASSUME SearchInv, RegionInv, pc # "done" => ~Fails, DijkstraReturn, call.opt = "VORONOI"
  PROVE  RegionInv'
<1>1. /\ call' = call /\ pc = "search" /\ pc' = "merge" /\ idx' = 0 /\ region' = region
      /\ dist' = dist /\ pred' = pred
  BY DEF DijkstraReturn, Between, Searching
<1>2. TerminalInv' /\ region' = [x \in Node |-> {x}]
  BY <1>1 DEF RegionInv, TerminalInv
<1>3. \A j \in Node : ~(j < idx')
  BY <1>1, NodeFacts
<1>4. Merged(idx)'
  <2>1. \A x \in Node : region'[x] = {x}
    BY <1>2
  <2>2. \A C \in Trees' : C \subseteq Node
    BY DEF Trees
  <2>. QED BY <1>3, <2>1, <2>2 DEF Merged
<1>. QED BY <1>1, <1>2, <1>4 DEF RegionInv

(* One step of the loop: two regions of one tree become one.                 *)
LEMMA RegionMerge ==
  ASSUME SearchInv, RegionInv, pc # "done" => ~Fails, TreeInv, VoronoiMerge,
         call.opt = "VORONOI"
  PROVE  RegionInv'
<1>1. /\ call' = call /\ pc = "merge" /\ dist' = dist /\ pred' = pred
  BY DEF VoronoiMerge
<1>2. /\ TerminalInv /\ Merged(idx) /\ idx \in Nat /\ region \in [Node -> SUBSET Node]
      /\ n \in Nat /\ pred \in [Node -> Arc \union {NoArc}] /\ call \in Calls
  BY <1>1, NodeFacts DEF RegionInv, SearchInv, Base
<1>3. /\ TerminalInv' /\ Trees' = Trees /\ \A b : Start(b)' = Start(b)
  BY <1>1, <1>2 DEF TerminalInv, Trees, Start, G
<1>4. CASE ~(idx < n)
  <2>1. pc' = "done" /\ region' = region
    BY <1>4 DEF VoronoiMerge, Return
  <2>2. \A j \in Node : j < n /\ j < idx
    BY <1>2, <1>4 DEF Node
  <2>3. Merged(n)'
    BY <1>1, <1>2, <1>3, <2>1, <2>2 DEF Merged
  <2>. QED BY <1>1, <1>3, <2>1, <2>3 DEF RegionInv
<1>5. CASE idx < n /\ pred[idx] = NoArc
  <2>1. pc' = pc /\ region' = region /\ idx' = idx + 1
    BY <1>5 DEF VoronoiMerge
  <2>2. \A j \in Node : j < idx' => j < idx \/ j = idx
    BY <1>2, <2>1 DEF Node
  <2>3. Merged(idx)'
    BY <1>1, <1>2, <1>3, <1>5, <2>1, <2>2 DEF Merged
  <2>. QED BY <1>1, <1>3, <2>1, <2>3 DEF RegionInv
<1>6. CASE idx < n /\ pred[idx] # NoArc
  <2>. DEFINE p == Start(pred[idx])
              both == region[p] \union region[idx]
  <2>1. pc' = pc /\ idx' = idx + 1 /\ region' = [v \in Node |-> IF v \in both THEN both ELSE region[v]]
    BY <1>6 DEF VoronoiMerge
  <2>2. idx \in Node
    BY <1>2, <1>6 DEF Node
  <2>3. p \in Node /\ both \subseteq Node
    <3>1. pred[idx] \in Arc
      BY <1>2, <1>6, <2>2
    <3>2. p \in Node
      BY <1>2, <3>1, GraphFacts
    <3>. QED BY <1>2, <2>2, <3>2
  <2>. HIDE DEF p
  <2>4. p \in region[p] /\ idx \in region[idx] /\ p \in both /\ idx \in both
    BY <1>2, <2>2, <2>3 DEF Merged
  <2>5. \A v \in both : region[v] \subseteq both
    BY <1>2, <2>2, <2>3 DEF Merged
  <2>6. \A v \in Node \ both : region[v] \intersect both = {}
    <3>. SUFFICES ASSUME NEW v \in Node \ both, NEW w \in region[v], w \in both PROVE FALSE
      OBVIOUS
    <3>1. region[w] = region[v] /\ v \in region[v]
      BY <1>2 DEF Merged
    <3>2. region[w] \subseteq both
      BY <2>5
    <3>. QED BY <3>1, <3>2
  <2>. HIDE DEF both
  <2>7. \A v \in Node : v \in region'[v] /\ \A w \in region'[v] : region'[w] = region'[v]
    <3>. SUFFICES ASSUME NEW v \in Node
                  PROVE  v \in region'[v] /\ \A w \in region'[v] : region'[w] = region'[v]
      OBVIOUS
    <3>1. CASE v \in both
      BY <2>1, <2>3, <3>1
    <3>2. CASE v \notin both
      <4>1. region'[v] = region[v] /\ region[v] \subseteq Node
        BY <1>2, <2>1, <3>2
      <4>2. \A w \in region[v] : w \notin both
        BY <2>6, <3>2
      <4>3. \A w \in region[v] : region'[w] = region[w]
        BY <2>1, <4>1, <4>2
      <4>. QED BY <1>2, <4>1, <4>3 DEF Merged
    <3>. QED BY <3>1, <3>2
  <2>8. \A C \in Trees : \A v \in C : region'[v] \subseteq C
    <3>. SUFFICES ASSUME NEW C \in Trees, NEW v \in C PROVE region'[v] \subseteq C
      OBVIOUS
    <3>1. C \subseteq Node /\ (idx \in C <=> p \in C)
      BY <1>6, <2>2 DEF Trees, p
    <3>2. \A x \in C : region[x] \subseteq C
      BY <1>2 DEF Merged
    <3>3. CASE v \in both
      <4>1. p \in C
        <5>1. CASE v \in region[p]
          <6>1. region[v] = region[p]
            BY <1>2, <2>3, <5>1 DEF Merged
          <6>. QED BY <2>4, <3>2, <6>1
        <5>2. CASE v \in region[idx]
          <6>1. region[v] = region[idx]
            BY <1>2, <2>2, <5>2 DEF Merged
          <6>. QED BY <2>4, <3>1, <3>2, <6>1
        <5>. QED BY <3>3, <5>1, <5>2 DEF both
      <4>2. both \subseteq C
        BY <3>1, <3>2, <4>1 DEF both
      <4>. QED BY <2>1, <3>1, <3>3, <4>2
    <3>4. CASE v \notin both
      BY <2>1, <3>1, <3>2, <3>4
    <3>. QED BY <3>3, <3>4
  <2>9. \A j \in Node : j < idx' /\ pred[j] # NoArc => Start(pred[j]) \in region'[j]
    <3>. SUFFICES ASSUME NEW j \in Node, j < idx', pred[j] # NoArc
                  PROVE  Start(pred[j]) \in region'[j]
      OBVIOUS
    <3>1. CASE j = idx
      BY <2>1, <2>2, <2>4, <3>1 DEF p
    <3>2. CASE j < idx
      <4>1. Start(pred[j]) \in region[j] /\ region[j] \subseteq region'[j]
        BY <1>2, <2>1, <2>5, <3>2 DEF Merged
      <4>. QED BY <4>1
    <3>3. j < idx \/ j = idx
      BY <1>2, <2>1 DEF Node
    <3>. QED BY <3>1, <3>2, <3>3
  <2>10. Merged(idx)'
    BY <1>1, <1>3, <2>7, <2>8, <2>9 DEF Merged
  <2>. QED BY <1>1, <1>3, <2>1, <2>10 DEF RegionInv
<1>. QED BY <1>4, <1>5, <1>6
LEMMA RegionInvariant == Spec => []RegionInv
<1>1. Init => RegionInv
  BY DEF Init, RegionInv
<1>2. SearchInv /\ LabelInv /\ RegionInv /\ [Next]_vars => RegionInv'
  <2>. SUFFICES ASSUME SearchInv, LabelInv, RegionInv, [Next]_vars PROVE RegionInv'
    OBVIOUS
  <2>1. (pc # "done" => ~Fails) /\ (pc = "done" => UNCHANGED vars)
    BY AnswerStep DEF LabelInv
  <2>2. CASE UNCHANGED vars
    BY <2>2 DEF vars, RegionInv, TerminalInv, Merged, Trees, Start, G, Fails
  <2>. SUFFICES ASSUME Next, pc # "done" PROVE RegionInv'
    BY <2>1, <2>2
  <2>3. call' = call /\ call \in Calls
    BY DEF Next, Refuse, BFSStart, DijkstraStart, BellmanStart, FIFOStart, DAGStart, Enter,
      BFSReturn, DijkstraReturn, DAGReturn, VoronoiMerge, BFSDelete, DijkstraDelete, DAGDelete,
      BellmanArc, BellmanPass, FIFONode, FIFOLeave, FIFOPass, BFSRead, DijkstraRead, FIFORead,
      DAGRead, SearchInv, Base
  <2>. SUFFICES ASSUME call.opt = "VORONOI" PROVE RegionInv'
    BY <2>3 DEF RegionInv
  <2>4. call.proc = "Dijkstra" /\ call.T = {}
    BY <2>3, CallsAssumption
  <2>5. CASE Refuse
    BY <2>5 DEF Refuse, RegionInv, Fails
  <2>6. CASE DijkstraStart
    BY <2>6, RegionStart
  <2>7. CASE DijkstraDelete
    <3>1. /\ pc = "search" /\ pc' = pc /\ region' = region /\ dist' = dist /\ pred' = pred
      BY <2>4, <2>7 DEF DijkstraDelete, Between, Searching
    <3>. QED BY <2>1, <2>3, <3>1 DEF RegionInv, TerminalInv
  <2>8. CASE \E a \in Arc : DijkstraRead(a)
    <3>1. pc = "search"
      BY <2>8 DEF DijkstraRead, Expanding, Searching
    <3>2. ReadInv
      BY <2>1, <2>4, <3>1 DEF LabelInv
    <3>. QED BY <2>1, <2>8, <3>2, RegionRead
  <2>9. CASE DijkstraReturn
    BY <2>1, <2>9, RegionReturn
  <2>10. CASE VoronoiMerge
    <3>1. pc = "merge"
      BY <2>10 DEF VoronoiMerge
    <3>2. TreeInv
      BY <2>1, <2>4, <3>1 DEF LabelInv
    <3>. QED BY <2>1, <2>10, <3>2, RegionMerge
  <2>11. ~(BFSStart \/ BellmanStart \/ FIFOStart \/ DAGStart)
    BY <2>4 DEF BFSStart, BellmanStart, FIFOStart, DAGStart, Called
  <2>12. ~(BFSDelete \/ BFSReturn \/ DAGReturn \/ DAGDelete \/ BellmanArc \/ BellmanPass
           \/ FIFONode \/ FIFOLeave \/ FIFOPass)
         /\ \A a \in Arc : ~BFSRead(a) /\ ~FIFORead(a) /\ ~DAGRead(a)
    BY <2>4 DEF BFSDelete, BFSReturn, DAGReturn, DAGDelete, BellmanArc, BellmanPass, FIFONode,
      FIFOLeave, FIFOPass, BFSRead, FIFORead, DAGRead, Between, Expanding, Searching
  <2>. QED BY <2>5, <2>6, <2>7, <2>8, <2>9, <2>10, <2>11, <2>12 DEF Next
<1>. QED BY <1>1, <1>2, SearchInvariant, LabelInvariant, PTL DEF Spec

(* The terminal of every settled node, which its predecessors lead to.       *)
Leads(R, r, k) ==
  \A v \in Settled : r[v] < k =>
    R[v] = IF pred[v] = NoArc THEN v ELSE R[Start(pred[v])]

LEMMA TerminalsExist ==
  ASSUME SearchInv, TreeInv, NEW r \in [Node -> Nat], Numbering(r), NEW k \in Nat
  PROVE  \E R \in [Node -> Node] : Leads(R, r, k)
<1>. DEFINE Bad == {j \in Nat : ~\E R \in [Node -> Node] : Leads(R, r, j)}
<1>. SUFFICES ASSUME Bad # {} PROVE FALSE
  OBVIOUS
<1>1. PICK j \in Bad : \A i \in Bad : j <= i
  BY LeastNumber
<1>2. Settled \subseteq Node
  BY SettledFacts
<1>3. j # 0
  <2>. SUFFICES ASSUME j = 0 PROVE FALSE
    OBVIOUS
  <2>. DEFINE Same == [v \in Node |-> v]
  <2>1. Same \in [Node -> Node]
    OBVIOUS
  <2>2. \A v \in Settled : ~(r[v] < 0)
    BY <1>2
  <2>3. Leads(Same, r, 0)
    BY <2>2 DEF Leads
  <2>. QED BY <1>1, <2>1, <2>3
<1>4. j - 1 \in Nat /\ j - 1 \notin Bad
  BY <1>1, <1>3
<1>5. PICK R \in [Node -> Node] : Leads(R, r, j - 1)
  BY <1>4
<1>. DEFINE Next1(v) == IF pred[v] = NoArc THEN v ELSE R[Start(pred[v])]
            Q == [v \in Node |-> IF v \in Settled /\ r[v] = j - 1 THEN Next1(v) ELSE R[v]]
<1>6. ASSUME NEW v \in Settled, pred[v] # NoArc
      PROVE  Start(pred[v]) \in Settled /\ r[Start(pred[v])] < r[v]
  BY <1>2, <1>6 DEF TreeInv, TreeArc, Numbering
<1>7. Q \in [Node -> Node]
  BY <1>2, <1>6
<1>8. Leads(Q, r, j)
  <2>. SUFFICES ASSUME NEW v \in Settled, r[v] < j
                PROVE  Q[v] = IF pred[v] = NoArc THEN v ELSE Q[Start(pred[v])]
    BY DEF Leads
  <2>1. v \in Node /\ r[v] \in Nat /\ j \in Nat
    BY <1>2
  <2>2. Q[v] = Next1(v)
    <3>1. CASE r[v] = j - 1
      BY <2>1, <3>1
    <3>2. CASE r[v] < j - 1
      <4>1. R[v] = Next1(v)
        BY <1>5, <3>2 DEF Leads
      <4>2. r[v] # j - 1
        BY <2>1, <3>2
      <4>. QED BY <2>1, <4>1, <4>2
    <3>. QED BY <2>1, <3>1, <3>2
  <2>3. ASSUME pred[v] # NoArc PROVE Q[Start(pred[v])] = R[Start(pred[v])]
    <3>. DEFINE p == Start(pred[v])
    <3>1. p \in Settled /\ r[p] < r[v] /\ p \in Node /\ r[p] \in Nat
      BY <1>2, <1>6, <2>3
    <3>. HIDE DEF p
    <3>2. r[p] # j - 1
      BY <2>1, <3>1
    <3>3. Q[p] = R[p]
      BY <3>1, <3>2
    <3>. QED BY <3>3 DEF p
  <2>. HIDE DEF Q
  <2>. QED BY <2>2, <2>3
<1>. HIDE DEF Q
<1>. QED BY <1>1, <1>7, <1>8

(* If an invariant of nodes passes from predecessors to settled nodes, all   *)
(* settled nodes have it.                                                    *)
LEMMA AlongTrees ==
  ASSUME SearchInv, TreeInv, NEW r \in [Node -> Nat], Numbering(r), NEW X,
         \A v \in Settled : (pred[v] # NoArc => Start(pred[v]) \in X) => v \in X
  PROVE  Settled \subseteq X
<1>. DEFINE Bad == {r[v] : v \in Settled \ X}
<1>. SUFFICES ASSUME Bad # {} PROVE FALSE
  OBVIOUS
<1>0. Settled \subseteq Node
  BY SettledFacts
<1>1. Bad \subseteq Nat
  BY <1>0
<1>2. PICK k \in Bad : \A i \in Bad : k <= i
  BY <1>1, LeastNumber
<1>3. PICK v \in Settled \ X : k = r[v]
  BY <1>2
<1>4. pred[v] # NoArc /\ Start(pred[v]) \notin X
  BY <1>3
<1>. DEFINE p == Start(pred[v])
<1>5. p \in Settled /\ r[p] < r[v]
  BY <1>0, <1>3, <1>4 DEF TreeInv, TreeArc, Numbering
<1>6. r[v] <= r[p] /\ r[p] \in Nat /\ r[v] \in Nat
  BY <1>0, <1>2, <1>3, <1>4, <1>5
<1>. QED BY <1>5, <1>6

(* A label that is below all walks and the length of one of them is the      *)
(* distance, also from some of the sources.                                  *)
LEMMA CertifiedDistance ==
  ASSUME SearchInv, Certified(call, dist, call.S, InfFloat), NEW X \in SUBSET call.S,
         NEW v \in Node, dist[v] \in WalkLengths(call, X, n - 1)[v]
  PROVE  Distances(call, X)[v] = dist[v]
<1>. DEFINE W == WalkLengths(call, X, n - 1)[v]
<1>1. /\ call \in Calls /\ dist \in [Node -> Int] /\ n - 1 \in 0 .. n /\ InfFloat \in Int
  BY NodeFacts DEF SearchInv, Base
<1>2. Certified(call, dist, X, InfFloat)
  BY DEF Certified
<1>3. \A d \in W : d \in Int /\ dist[v] <= d
  <2>. SUFFICES ASSUME NEW d \in W PROVE d \in Int /\ dist[v] <= d
    OBVIOUS
  <2>1. d \in Int /\ d < InfFloat
    BY <1>1, PathsFinite
  <2>2. dist[v] <= d \/ InfFloat <= d
    BY <1>1, <1>2, NoShorterWalk
  <2>. QED BY <1>1, <2>1, <2>2
<1>4. dist[v] \in W /\ dist[v] \in Int
  BY <1>1
<1>5. Distances(call, X)[v] = Min(W)
  BY <1>4 DEF Distances
<1>. HIDE DEF W
<1>6. Min(W) \in W /\ \A y \in W : Min(W) <= y
  BY <1>3, <1>4, LeastInteger
<1>7. Min(W) <= dist[v] /\ dist[v] <= Min(W) /\ Min(W) \in Int
  BY <1>3, <1>4, <1>6
<1>8. Min(W) = dist[v]
  BY <1>4, <1>7
<1>. QED BY <1>5, <1>8

(* VoronoiRegions returns the regions of the terminals, in every graph.      *)
LEMMA RegionsExact ==
  ASSUME SearchInv, LabelInv, RegionInv
  PROVE  RegionsNearest
<1>. SUFFICES ASSUME Done, call.opt = "VORONOI", ~Fails, NEW v \in Node
              PROVE  /\ dist[v] = InfFloat => region[v] = {v}
                     /\ dist[v] # InfFloat => \E x \in call.S :
                          /\ region[v] \intersect call.S = {x}
                          /\ Distances(call, {x})[v] = Distances(call, call.S)[v]
  BY DEF RegionsNearest
<1>1. /\ call \in Calls /\ dist \in [Node -> Int] /\ region \in [Node -> SUBSET Node]
      /\ pred \in [Node -> Arc \union {NoArc}]
  BY DEF SearchInv, Base
<1>2. call.proc = "Dijkstra" /\ call.T = {} /\ call.S \subseteq Node
  BY <1>1, CallsAssumption
<1>3. WalkInv /\ ReadInv /\ StopInv /\ TreeInv /\ TerminalInv /\ Merged(n)
  BY <1>2 DEF LabelInv, RegionInv, Done
<1>4. \A w \in Known : Finished(w)
  BY <1>2, <1>3 DEF StopInv, Done
<1>5. Known = Settled /\ Settled \subseteq Node
  BY <1>4, SettledFacts DEF Finished
<1>6. \A w \in Node : TreeArc(w)
  BY <1>3 DEF TreeInv
<1>7. ASSUME dist[v] = InfFloat PROVE region[v] = {v}
  <2>1. v \notin Known
    BY <1>7 DEF Known
  <2>2. {v} \in Trees
    <3>1. ASSUME NEW w \in Node, pred[w] # NoArc PROVE w # v /\ Start(pred[w]) # v
      BY <1>5, <1>6, <2>1, <3>1 DEF TreeArc
    <3>. QED BY <3>1 DEF Trees
  <2>. QED BY <1>3, <2>2 DEF Merged
<1>8. ASSUME dist[v] # InfFloat
      PROVE  \E x \in call.S : /\ region[v] \intersect call.S = {x}
                               /\ Distances(call, {x})[v] = Distances(call, call.S)[v]
  <2>1. v \in Settled
    BY <1>5, <1>8 DEF Known
  <2>2. PICK r \in [Node -> Nat] : Numbering(r)
    BY <1>3 DEF TreeInv
  <2>3. Cardinality(Settled) \in Nat
    BY SettledFacts
  <2>4. PICK R \in [Node -> Node] : Leads(R, r, Cardinality(Settled))
    BY <1>3, <2>2, <2>3, TerminalsExist
  <2>5. \A w \in Settled : R[w] = IF pred[w] = NoArc THEN w ELSE R[Start(pred[w])]
    BY <2>2, <2>4 DEF Leads, Numbering
  <2>6. ASSUME NEW w \in Settled, pred[w] = NoArc PROVE w \in call.S /\ dist[w] = 0
    <3>1. w \in call.S
      <4>1. w \in Sources
        BY <1>5, <1>6, <2>6 DEF TreeArc
      <4>. QED BY <1>2, <4>1 DEF Sources
    <3>2. dist[w] <= 0 /\ dist[w] >= 0 /\ dist[w] \in Int
      BY <1>1, <1>3, <1>5, <3>1 DEF ReadInv, TerminalInv
    <3>. QED BY <3>1, <3>2
  <2>7. ASSUME NEW w \in Settled, pred[w] # NoArc
        PROVE  /\ pred[w] \in Arc /\ Start(pred[w]) \in Settled /\ Start(pred[w]) \in Node
               /\ Open(pred[w]) /\ End(pred[w]) = w
               /\ dist[w] = dist[Start(pred[w])] + StepLength(call, pred[w])
               /\ r[Start(pred[w])] < r[w]
    BY <1>1, <1>5, <1>6, <2>2, <2>7 DEF TreeArc, Numbering
  <2>8. R[v] \in call.S
    <3>. DEFINE X == {w \in Settled : R[w] \in call.S}
    <3>1. ASSUME NEW w \in Settled, pred[w] # NoArc => Start(pred[w]) \in X PROVE w \in X
      BY <2>5, <2>6, <3>1
    <3>2. Settled \subseteq X
      BY <1>3, <2>2, <3>1, AlongTrees
    <3>. QED BY <2>1, <3>2
  <2>9. R[v] \in region[v]
    <3>. DEFINE X == {w \in Settled : R[w] \in region[w]}
    <3>1. ASSUME NEW w \in Settled, pred[w] # NoArc => Start(pred[w]) \in X PROVE w \in X
      <4>0. w \in Node /\ w \in region[w]
        BY <1>3, <1>5 DEF Merged
      <4>1. CASE pred[w] = NoArc
        BY <2>5, <4>0, <4>1
      <4>2. CASE pred[w] # NoArc
        <5>. DEFINE p == Start(pred[w])
        <5>1. R[w] = R[p] /\ R[p] \in region[p]
          BY <2>5, <3>1, <4>2
        <5>2. w < n
          BY <4>0, NodeFacts DEF Node
        <5>3. p \in region[w]
          BY <1>3, <4>0, <4>2, <5>2 DEF Merged
        <5>4. region[p] = region[w]
          BY <1>3, <4>0, <5>3 DEF Merged
        <5>. QED BY <5>1, <5>4
      <4>. QED BY <4>1, <4>2
    <3>2. Settled \subseteq X
      BY <1>3, <2>2, <3>1, AlongTrees
    <3>. QED BY <2>1, <3>2
  <2>10. \A w \in region[v] \intersect call.S : w = R[v]
    <3>. DEFINE C == {w \in Settled : R[w] = R[v]}
    <3>1. C \in Trees
      <4>1. ASSUME NEW w \in Node, pred[w] # NoArc PROVE w \in C <=> Start(pred[w]) \in C
        <5>1. w \in Settled
          BY <1>5, <1>6, <4>1 DEF TreeArc
        <5>2. R[w] = R[Start(pred[w])] /\ Start(pred[w]) \in Settled
          BY <2>5, <2>7, <4>1, <5>1
        <5>. QED BY <5>1, <5>2
      <4>. QED BY <1>5, <4>1 DEF Trees
    <3>2. region[v] \subseteq C
      BY <1>3, <2>1, <3>1 DEF Merged
    <3>3. \A w \in C \intersect call.S : R[w] = w
      BY <1>3, <2>5 DEF TerminalInv
    <3>. QED BY <3>2, <3>3
  <2>11. dist[v] \in WalkLengths(call, {R[v]}, r[v])[v]
    <3>. DEFINE X == {w \in Settled : dist[w] \in WalkLengths(call, {R[w]}, r[w])[w]}
    <3>1. ASSUME NEW w \in Settled, pred[w] # NoArc => Start(pred[w]) \in X PROVE w \in X
      <4>0. w \in Node /\ r[w] \in Nat
        BY <1>5
      <4>1. CASE pred[w] = NoArc
        <5>1. R[w] = w /\ dist[w] = 0
          BY <2>5, <2>6, <4>1
        <5>2. dist[w] \in WalkLengths(call, {R[w]}, 0)[w]
          BY <4>0, <5>1, WalkZero
        <5>3. 0 \in Nat /\ 0 <= r[w]
          BY <4>0
        <5>. QED BY <4>0, <5>2, <5>3, WalkMonotone
      <4>2. CASE pred[w] # NoArc
        <5>. DEFINE b == pred[w]
                    p == Start(b)
        <5>1. b \in Arc /\ p \in Node /\ End(b) = w /\ r[p] < r[w] /\ r[p] \in Nat
              /\ Open(b) /\ dist[w] = dist[p] + StepLength(call, b) /\ R[w] = R[p]
          BY <2>5, <2>7, <4>2
        <5>2. dist[p] \in WalkLengths(call, {R[w]}, r[p])[p]
          BY <3>1, <4>2, <5>1
        <5>3. /\ Eligible(call.G, call.chr, b) /\ p = StartNode(call.G, b)
              /\ w = EndNode(call.G, b)
          BY <5>1, StepFacts
        <5>. HIDE DEF b, p
        <5>4. dist[w] \in WalkLengths(call, {R[w]}, r[p] + 1)[w]
          BY <4>0, <5>1, <5>2, <5>3, WalkExtend
        <5>5. r[p] + 1 \in Nat /\ r[p] + 1 <= r[w]
          BY <4>0, <5>1
        <5>. QED BY <4>0, <5>4, <5>5, WalkMonotone
      <4>. QED BY <4>1, <4>2
    <3>2. Settled \subseteq X
      BY <1>3, <2>2, <3>1, AlongTrees
    <3>. QED BY <2>1, <3>2
  <2>12. r[v] \in Nat /\ n - 1 \in Nat /\ r[v] <= n - 1
    <3>1. r[v] < Cardinality(Settled) /\ r[v] \in Nat
      BY <1>5, <2>1, <2>2 DEF Numbering
    <3>2. Cardinality(Settled) \in 0 .. n /\ n \in Nat
      BY SettledFacts, NodeFacts
    <3>. QED BY <3>1, <3>2
  <2>13. dist[v] \in WalkLengths(call, {R[v]}, n - 1)[v]
    BY <2>11, <2>12, WalkMonotone
  <2>14. dist[v] \in WalkLengths(call, call.S, n - 1)[v]
    BY <1>2, <1>3, <1>5, <2>1, LabelWalk
  <2>15. Certified(call, dist, call.S, InfFloat)
    BY <1>3, <1>4, FinishedCertified
  <2>16. Distances(call, {R[v]})[v] = dist[v] /\ Distances(call, call.S)[v] = dist[v]
    BY <2>8, <2>13, <2>14, <2>15, CertifiedDistance
  <2>. QED BY <2>8, <2>9, <2>10, <2>16
<1>. QED BY <1>7, <1>8

(* The results of BFS and of the Dijkstra method as the run checks them: the *)
(* labels are the distances, the predecessor arcs are tight, and they lead   *)
(* back to a source from every labelled node, also along arcs of length 0;   *)
(* every region of VoronoiRegions has one terminal, and this is a nearest    *)
(* one for all of its nodes (solveSPTree.cpp, BFS, SPX_Dijkstra,             *)
(* VoronoiRegions).                                                          *)
THEOREM SearchResultsExact == Spec => [](call.proc \in {"BFS", "Dijkstra"} => ResultsExact)
<1>1. SearchInv /\ LabelInv /\ RegionInv /\ (call.proc \in {"BFS", "Dijkstra"} => LabelsExact) =>
        (call.proc \in {"BFS", "Dijkstra"} => ResultsExact)
  <2>. SUFFICES ASSUME SearchInv, LabelInv, RegionInv, LabelsExact,
                       call.proc \in {"BFS", "Dijkstra"}
                PROVE  PathsLeadBack /\ DAGResults /\ RegionsNearest
    BY DEF ResultsExact
  <2>1. DAGResults /\ RegionsNearest
    BY RegionsExact DEF DAGResults
  <2>2. ASSUME Done, Correct, NEW v \in Node
        PROVE  /\ pred[v] # NoArc =>
                    /\ Open(pred[v]) /\ End(pred[v]) = v
                    /\ dist[v] = dist[Start(pred[v])] + StepLength(call, pred[v])
               /\ dist[v] # InfFloat => Back(v) = NoNode
               /\ dist[v] # InfFloat /\ pred[v] = NoArc => v \in Sources
    <3>1. TreeInv /\ Sources = call.S
      BY <2>2 DEF LabelInv, Correct, Done, Sources
    <3>2. TreeArc(v)
      BY <3>1 DEF TreeInv
    <3>3. dist[v] # InfFloat => v \in Known
      BY DEF Known
    <3>. QED BY <3>1, <3>2, <3>3, BackEnds DEF TreeArc
  <2>3. PathsLeadBack
    BY <2>2 DEF PathsLeadBack
  <2>. QED BY <2>1, <2>3
<1>. QED BY <1>1, SearchInvariant, LabelInvariant, RegionInvariant,
        SearchLabelsExact, PTL

-------------------------------------------------------------------------------
(* The label correcting methods and the search of acyclic digraphs: labels   *)
(* that may still be corrected.                                              *)

(* No label is larger than a path may be, and each is the length of a walk.  *)
LabelBounds ==
  /\ \A v \in Node : dist[v] <= InfFloat
  /\ \A v \in Known : dist[v] <= (Cardinality(Known) - 1) * MaxLength
  /\ \A s \in Sources : dist[s] <= 0
WalkLabels == \A v \in Known : \E k \in Nat : dist[v] \in WalkLengths(call, Sources, k)[v]

(* A predecessor arc explains a label, or a larger one: the label of its     *)
(* start node may have been improved since.                                  *)
LooseArc(v) ==
  /\ pred[v] # NoArc =>
       /\ v \in Known /\ Open(pred[v]) /\ End(pred[v]) = v /\ Start(pred[v]) \in Known
       /\ dist[v] >= dist[Start(pred[v])] + StepLength(call, pred[v])
  /\ pred[v] = NoArc /\ v \in Known => v \in Sources /\ dist[v] = 0

(* A cycle of predecessor arcs has an arc that no longer explains a label.   *)
Explained(v) == dist[v] = dist[Start(pred[v])] + StepLength(call, pred[v])
TightCycle(C) == \A v \in C : pred[v] # NoArc /\ Start(pred[v]) \in C /\ Explained(v)

LooseInv ==
  /\ LabelBounds /\ WalkLabels
  /\ \A v \in Node : LooseArc(v)
  /\ \A C \in SUBSET Node : C # {} => ~TightCycle(C)

(* A path of k arcs is shorter than InfFloat.                                *)
LEMMA PathBound ==
  ASSUME NEW k \in 0 .. n
  PROVE  /\ k \in Int /\ k * MaxLength \in Int /\ k * MaxLength < InfFloat
         /\ (k - 1) * MaxLength \in Int /\ k * MaxLength = (k - 1) * MaxLength + MaxLength
         /\ MaxLength \in Nat /\ (k - 1) * MaxLength <= k * MaxLength
<1>1. n \in Nat /\ MaxLength \in Nat /\ n * MaxLength \in Nat /\ InfFloat \in Nat
      /\ n * MaxLength < InfFloat /\ k \in Nat /\ k <= n
  BY NodeFacts, LengthAssumption
<1>2. \A i, j, d \in Nat : i <= j => i * d <= j * d /\ i * d \in Nat
  OBVIOUS
<1>3. k * MaxLength <= n * MaxLength /\ k * MaxLength \in Nat
  BY <1>1, <1>2
<1>4. \A i, d \in Nat : (i - 1) * d \in Int /\ i * d = (i - 1) * d + d
  OBVIOUS
<1>5. (k - 1) * MaxLength \in Int /\ k * MaxLength = (k - 1) * MaxLength + MaxLength
  BY <1>1, <1>4
<1>. QED BY <1>1, <1>3, <1>5

LEMMA KnownFacts ==
  ASSUME SearchInv
  PROVE  /\ Known \subseteq Node /\ IsFiniteSet(Known) /\ Cardinality(Known) \in 0 .. n
         /\ Known # Node => Cardinality(Known) < n
<1>1. Known \subseteq Node /\ IsFiniteSet(Node) /\ Cardinality(Node) = n /\ n \in Nat
  BY NodeFacts DEF Known
<1>2. /\ IsFiniteSet(Known) /\ Cardinality(Known) <= Cardinality(Node)
      /\ Cardinality(Known) = Cardinality(Node) => Known = Node
  BY <1>1, FS_Subset
<1>3. Cardinality(Known) \in Nat
  BY <1>2, FS_CardinalityType
<1>. QED BY <1>1, <1>2, <1>3
(* What belongs to the call does not change.                                 *)
LEMMA SameCall ==
  ASSUME call' = call
  PROVE  /\ Sources' = Sources
         /\ \A b : /\ (Open(b)' <=> Open(b)) /\ End(b)' = End(b) /\ Start(b)' = Start(b)
                   /\ StepLength(call, b)' = StepLength(call, b)
         /\ \A v : Incidences(G, v)' = Incidences(G, v)
<1>1. \A b : /\ (Open(b)' <=> Open(b)) /\ End(b)' = End(b) /\ Start(b)' = Start(b)
             /\ StepLength(call, b)' = StepLength(call, b)
  BY DEF Open, End, Start, G
<1>2. \A v : Incidences(G, v)' = Incidences(G, v)
  BY DEF Incidences, G
<1>. QED BY <1>1, <1>2, SameSources

LEMMA LooseQuiet ==
  ASSUME LooseInv, call' = call, dist' = dist, pred' = pred
  PROVE  LooseInv' /\ Known' = Known
<1>1. Known' = Known
  BY DEF Known
<1>2. LabelBounds' /\ WalkLabels'
  BY <1>1, SameCall DEF LooseInv, LabelBounds, WalkLabels
<1>3. \A v \in Node : LooseArc(v)'
  BY <1>1, SameCall DEF LooseInv, LooseArc
<1>4. ASSUME NEW C PROVE TightCycle(C)' <=> TightCycle(C)
  BY SameCall DEF TightCycle, Explained
<1>. QED BY <1>1, <1>2, <1>3, <1>4 DEF LooseInv

(* A label is improved and its predecessor arc written.                      *)
LEMMA LooseImprove ==
  ASSUME SearchInv, LooseInv, call' = call, NEW a \in Arc, Open(a), Start(a) \in Known,
         NEW label \in Int, label = dist[Start(a)] + StepLength(call, a),
         label < dist[End(a)], Improve(a, label)
  PROVE  LooseInv' /\ Known' = Known \union {End(a)}
<1>. DEFINE v == End(a)
            w == Start(a)
            k == Cardinality(Known)
<1>1. /\ call \in Calls /\ dist \in [Node -> Int] /\ pred \in [Node -> Arc \union {NoArc}]
      /\ InfFloat \in Int /\ NoArc \notin Arc /\ v \in Node /\ w \in Node
      /\ StepLength(call, a) \in Int /\ StepLength(call, a) <= MaxLength
  <2>1. call \in Calls /\ dist \in [Node -> Int] /\ pred \in [Node -> Arc \union {NoArc}]
    BY DEF SearchInv, Base
  <2>2. InfFloat \in Int /\ NoArc \notin Arc
    BY NodeFacts
  <2>3. v \in Node /\ w \in Node
    BY <2>1, GraphFacts
  <2>4. StepLength(call, a) \in Int /\ StepLength(call, a) <= MaxLength
    BY <2>1, CallFacts
  <2>. QED BY <2>1, <2>2, <2>3, <2>4
<1>2. /\ dist' \in [Node -> Int] /\ dist'[v] = label /\ pred'[v] = a
      /\ \A x \in Node : x # v => dist'[x] = dist[x] /\ pred'[x] = pred[x]
      /\ \A x \in Node : dist'[x] <= dist[x]
  BY <1>1 DEF Improve
<1>3. /\ \A x \in Node : dist[x] <= InfFloat
      /\ \A x \in Known : dist[x] <= (k - 1) * MaxLength
      /\ \A x \in Sources : dist[x] <= 0
      /\ \A x \in Node : LooseArc(x)
      /\ \A C \in SUBSET Node : C # {} => ~TightCycle(C)
      /\ WalkLabels
  BY DEF LooseInv, LabelBounds
<1>4. Known \subseteq Node /\ IsFiniteSet(Known) /\ k \in 0 .. n
  BY KnownFacts
<1>5. /\ k \in Int /\ (k - 1) * MaxLength \in Int /\ k * MaxLength \in Int /\ MaxLength \in Nat
      /\ k * MaxLength = (k - 1) * MaxLength + MaxLength /\ k * MaxLength < InfFloat
  BY <1>4, PathBound
<1>6. label <= k * MaxLength
  BY <1>1, <1>3, <1>5
<1>7. label < InfFloat
  BY <1>1, <1>5, <1>6
<1>8. Known' = Known \union {v}
  BY <1>1, <1>2, <1>7 DEF Known
<1>. HIDE DEF v, w
<1>9. LabelBounds'
  <2>1. \A x \in Node : dist'[x] <= InfFloat
    BY <1>1, <1>2, <1>3
  <2>2. \A s \in Sources' : dist'[s] <= 0
    <3>1. Sources' = Sources /\ Sources \subseteq Node
      <4>1. call.S \subseteq Node
        BY <1>1, CallsAssumption
      <4>. QED BY <4>1, SameCall DEF Sources, Roots
    <3>. QED BY <1>1, <1>2, <1>3, <3>1
  <2>3. ASSUME NEW x \in Known' PROVE dist'[x] <= (Cardinality(Known') - 1) * MaxLength
    <3>1. CASE v \in Known
      <4>1. Known' = Known
        BY <1>8, <3>1
      <4>2. x \in Known /\ x \in Node
        BY <1>4, <2>3, <4>1
      <4>. QED BY <1>1, <1>2, <1>3, <1>5, <4>1, <4>2
    <3>2. CASE v \notin Known
      <4>1. Cardinality(Known') - 1 = k
        <5>1. Cardinality(Known \union {v}) = k + 1
          BY <1>4, <3>2, FS_AddElement
        <5>. QED BY <1>5, <1>8, <5>1
      <4>2. dist'[x] <= k * MaxLength
        <5>1. CASE x = v
          BY <1>2, <1>6, <5>1
        <5>2. CASE x # v
          <6>1. x \in Known /\ x \in Node
            BY <1>4, <1>8, <2>3, <5>2
          <6>2. dist'[x] \in Int /\ dist'[x] <= (k - 1) * MaxLength
            BY <1>2, <1>3, <5>2, <6>1
          <6>. QED BY <1>5, <6>2
        <5>. QED BY <5>1, <5>2
      <4>. QED BY <4>1, <4>2
    <3>. QED BY <3>1, <3>2
  <2>. QED BY <2>1, <2>2, <2>3 DEF LabelBounds
<1>10. WalkLabels'
  <2>1. ASSUME NEW x \in Known' PROVE \E j \in Nat : dist'[x] \in WalkLengths(call, Sources, j)[x]
    <3>1. CASE x = v
      <4>1. PICK j \in Nat : dist[w] \in WalkLengths(call, Sources, j)[w]
        BY <1>3 DEF WalkLabels, w
      <4>2. dist[w] + StepLength(call, a) \in WalkLengths(call, Sources, j + 1)[v]
        <5>1. Eligible(call.G, call.chr, a) /\ StartNode(call.G, a) = w /\ EndNode(call.G, a) = v
          BY StepFacts DEF v, w
        <5>. QED BY <1>1, <4>1, <5>1, WalkExtend
      <4>3. dist'[v] = dist[w] + StepLength(call, a) /\ j + 1 \in Nat
        BY <1>2 DEF w
      <4>. QED BY <3>1, <4>2, <4>3
    <3>2. CASE x # v
      <4>1. x \in Known /\ dist'[x] = dist[x]
        BY <1>2, <1>4, <1>8, <2>1, <3>2
      <4>. QED BY <1>3, <4>1 DEF WalkLabels
    <3>. QED BY <3>1, <3>2
  <2>. QED BY <2>1, SameCall DEF WalkLabels
<1>11. ASSUME NEW x \in Node PROVE LooseArc(x)'
  <2>1. CASE x = v
    <3>1. dist'[w] <= dist[w] /\ dist'[w] \in Int /\ dist[w] \in Int
      BY <1>1, <1>2
    <3>2. label = dist[w] + StepLength(call, a) /\ w \in Known' /\ v \in Known'
      BY <1>8 DEF w
    <3>3. dist'[v] >= dist'[w] + StepLength(call, a)
      BY <1>1, <1>2, <3>1, <3>2
    <3>4. Open(a)' /\ End(a)' = v /\ Start(a)' = w /\ StepLength(call, a)' = StepLength(call, a)
      BY SameCall DEF v, w
    <3>. QED BY <1>1, <1>2, <2>1, <3>2, <3>3, <3>4 DEF LooseArc
  <2>2. CASE x # v
    <3>1. LooseArc(x) /\ dist'[x] = dist[x] /\ pred'[x] = pred[x] /\ (x \in Known' <=> x \in Known)
      BY <1>2, <1>3, <1>8, <2>2
    <3>2. CASE pred[x] = NoArc
      BY <3>1, <3>2, SameCall DEF LooseArc
    <3>3. CASE pred[x] # NoArc
      <4>0. PICK b \in Arc : b = pred[x]
        BY <1>1, <3>3
      <4>1. Start(b) \in Node /\ StepLength(call, b) \in Int
        BY <1>1, GraphFacts, CallFacts
      <4>2. /\ x \in Known /\ Open(b) /\ End(b) = x /\ Start(b) \in Known
            /\ dist[x] >= dist[Start(b)] + StepLength(call, b)
        BY <3>1, <3>3, <4>0 DEF LooseArc
      <4>3. dist'[Start(b)] <= dist[Start(b)] /\ dist'[Start(b)] \in Int /\ dist[Start(b)] \in Int
            /\ dist[x] \in Int
        BY <1>1, <1>2, <4>1
      <4>4. dist'[x] >= dist'[Start(b)] + StepLength(call, b)
        BY <3>1, <4>1, <4>2, <4>3
      <4>5. x \in Known' /\ Start(b) \in Known' /\ pred'[x] = b /\ pred'[x] # NoArc
        BY <1>8, <3>1, <3>3, <4>0, <4>2
      <4>6. Open(b)' /\ End(b)' = x /\ Start(b)' = Start(b) /\ StepLength(call, b)' = StepLength(call, b)
        BY <4>2, SameCall
      <4>. QED BY <4>4, <4>5, <4>6 DEF LooseArc
    <3>. QED BY <3>2, <3>3
  <2>. QED BY <2>1, <2>2
<1>12. ASSUME NEW C \in SUBSET Node, C # {}, TightCycle(C)' PROVE FALSE
  <2>1. \A x \in C : /\ pred'[x] # NoArc /\ Start(pred'[x]) \in C
                     /\ dist'[x] = dist'[Start(pred'[x])] + StepLength(call, pred'[x])
    BY <1>12, SameCall DEF TightCycle, Explained
  <2>2. ASSUME NEW D \in SUBSET C, v \notin D, D # {}, \A x \in D : Start(pred'[x]) \in D PROVE FALSE
    <3>1. ASSUME NEW x \in D PROVE pred[x] # NoArc /\ Start(pred[x]) \in D /\ Explained(x)
      <4>1. x # v /\ x \in Node /\ x \in C
        BY <2>2
      <4>2. pred'[x] = pred[x] /\ dist'[x] = dist[x]
        BY <1>2, <4>1
      <4>3. Start(pred[x]) \in D
        BY <2>2, <3>1, <4>2
      <4>4. Start(pred[x]) # v /\ Start(pred[x]) \in Node
        BY <2>2, <4>3
      <4>5. dist'[Start(pred[x])] = dist[Start(pred[x])]
        BY <1>2, <4>4
      <4>. QED BY <2>1, <4>1, <4>2, <4>3, <4>5 DEF Explained
    <3>2. TightCycle(D) /\ D \in SUBSET Node
      BY <3>1 DEF TightCycle
    <3>. QED BY <1>3, <2>2, <3>2
  <2>3. v \in C
    BY <1>12, <2>1, <2>2
  <2>4. ASSUME NEW x \in C PROVE Start(pred'[x]) # v
    <3>. SUFFICES ASSUME Start(pred'[x]) = v PROVE FALSE
      OBVIOUS
    <3>0. x \in Node /\ pred'[x] # NoArc /\ dist'[x] = label + StepLength(call, pred'[x])
      BY <1>2, <2>1
    <3>1. CASE x = v
      <4>1. w = v /\ dist'[x] = label
        BY <1>2, <3>1 DEF w
      <4>2. label = label + StepLength(call, a)
        BY <1>2, <3>0, <3>1, <4>1
      <4>3. label = dist[v] + StepLength(call, a) /\ label < dist[v] /\ dist[v] \in Int
        BY <1>1, <4>1 DEF v, w
      <4>. QED BY <1>1, <4>2, <4>3
    <3>2. CASE x # v
      <4>1. pred'[x] = pred[x] /\ dist'[x] = dist[x] /\ pred[x] # NoArc /\ Start(pred[x]) = v
        BY <1>2, <3>0, <3>2
      <4>2. dist[x] >= dist[v] + StepLength(call, pred[x])
        BY <1>3, <3>0, <4>1 DEF LooseArc
      <4>3. pred[x] \in Arc /\ StepLength(call, pred[x]) \in Int
        BY <1>1, <3>0, <4>1, CallFacts
      <4>4. label < dist[v] /\ dist[v] \in Int /\ dist[x] = label + StepLength(call, pred[x])
        BY <1>1, <3>0, <4>1 DEF v
      <4>. QED BY <4>2, <4>3, <4>4
    <3>. QED BY <3>1, <3>2
  <2>5. \A x \in C \ {v} : Start(pred'[x]) \in C \ {v}
    BY <2>1, <2>4
  <2>6. C \ {v} = {}
    <3>1. C \ {v} \in SUBSET C /\ v \notin C \ {v}
      OBVIOUS
    <3>. QED BY <2>2, <2>5, <3>1
  <2>7. Start(pred'[v]) \in C /\ Start(pred'[v]) # v
    BY <2>1, <2>3, <2>4
  <2>. QED BY <2>6, <2>7
<1>. QED
  <2>1. LooseInv'
    BY <1>9, <1>10, <1>11, <1>12 DEF LooseInv
  <2>. QED BY <1>8, <2>1 DEF v
-------------------------------------------------------------------------------
(* Labels that no arc improves.                                              *)

Safe(a) == Open(a) /\ Start(a) \in Known => dist[End(a)] <= dist[Start(a)] + StepLength(call, a)
Final == LooseInv /\ active = {} /\ call.proc # "BFS" /\ \A a \in Arc : Safe(a)

(* A set of nodes with their predecessors, numbered along the arcs.          *)
Numbered(X, r) ==
  \A v \in X : /\ r[v] < Cardinality(X)
               /\ pred[v] # NoArc => Start(pred[v]) \in X /\ r[Start(pred[v])] < r[v]

(* Then the predecessor arcs are tight, and since they have no tight cycle,  *)
(* the nodes can be numbered: the largest set that can be is the set of all  *)
(* labelled nodes.                                                           *)
LEMMA FinalTree ==
  ASSUME SearchInv, Final
  PROVE  TreeInv /\ Settled = Known
<1>0. /\ LooseInv /\ active = {} /\ call.proc # "BFS" /\ (\A a \in Arc : Safe(a))
      /\ (\A v \in Node : LooseArc(v)) /\ \A C \in SUBSET Node : C # {} => ~TightCycle(C)
  BY DEF Final, LooseInv
<1>1. Settled = Known /\ Known \subseteq Node /\ IsFiniteSet(Known) /\ n \in Nat
  BY <1>0, KnownFacts, NodeFacts DEF Settled, Queued
<1>2. /\ call \in Calls /\ dist \in [Node -> Int] /\ pred \in [Node -> Arc \union {NoArc}]
  BY DEF SearchInv, Base
<1>3. ASSUME NEW v \in Node, pred[v] # NoArc PROVE Explained(v) /\ Start(pred[v]) \in Known
  <2>1. pred[v] \in Arc /\ StepLength(call, pred[v]) \in Int /\ Start(pred[v]) \in Node
    BY <1>2, <1>3, CallFacts, GraphFacts
  <2>2. /\ Open(pred[v]) /\ End(pred[v]) = v /\ Start(pred[v]) \in Known
        /\ dist[v] >= dist[Start(pred[v])] + StepLength(call, pred[v])
    BY <1>0, <1>3 DEF LooseArc
  <2>3. dist[v] <= dist[Start(pred[v])] + StepLength(call, pred[v])
    BY <1>0, <2>1, <2>2 DEF Safe
  <2>4. dist[v] \in Int /\ dist[Start(pred[v])] \in Int
    BY <1>2, <2>1
  <2>5. \A x, y, z \in Int : x >= y + z /\ x <= y + z => x = y + z
    OBVIOUS
  <2>6. dist[v] = dist[Start(pred[v])] + StepLength(call, pred[v])
    BY <2>1, <2>2, <2>3, <2>4, <2>5
  <2>. QED BY <2>2, <2>6 DEF Explained
<1>4. \A v \in Node : TreeArc(v)
  BY <1>0, <1>1, <1>3 DEF TreeArc, LooseArc, Explained
<1>5. \E r \in [Node -> Nat] : Numbered(Known, r)
  <2>. DEFINE Sizes == {n - Cardinality(X) : X \in {Y \in SUBSET Known : \E r \in [Node -> Nat] : Numbered(Y, r)}}
  <2>1. \A X \in SUBSET Known : /\ IsFiniteSet(X) /\ Cardinality(X) \in Nat
                                /\ n - Cardinality(X) \in Nat
    <3>1. ASSUME NEW X \in SUBSET Known
          PROVE  IsFiniteSet(X) /\ Cardinality(X) \in Nat /\ n - Cardinality(X) \in Nat
      <4>1. IsFiniteSet(X) /\ Cardinality(X) <= Cardinality(Known) /\ Cardinality(Known) \in 0 .. n
        BY <1>1, KnownFacts, FS_Subset
      <4>2. Cardinality(X) \in Nat
        BY <4>1, FS_CardinalityType
      <4>. QED BY <1>1, <4>1, <4>2
    <3>. QED BY <3>1
  <2>2. Sizes \in SUBSET Nat
    BY <2>1
  <2>3. Sizes # {}
    <3>1. [x \in Node |-> 0] \in [Node -> Nat] /\ Numbered({}, [x \in Node |-> 0])
      BY DEF Numbered
    <3>. QED BY <3>1
  <2>4. PICK k \in Sizes : \A j \in Sizes : k <= j
    BY <2>2, <2>3, LeastNumber
  <2>5. PICK X \in SUBSET Known, r \in [Node -> Nat] : Numbered(X, r) /\ k = n - Cardinality(X)
    BY <2>4
  <2>6. X = Known
    <3>. SUFFICES ASSUME X # Known PROVE FALSE
      OBVIOUS
    <3>. DEFINE C == Known \ X
    <3>1. C # {} /\ C \in SUBSET Node
      BY <1>1
    <3>2. PICK v \in C : ~(pred[v] # NoArc /\ Start(pred[v]) \in C /\ Explained(v))
      BY <1>0, <3>1 DEF TightCycle
    <3>3. v \in Node /\ v \in Known /\ v \notin X
      BY <1>1
    <3>4. pred[v] # NoArc => Start(pred[v]) \in X
      BY <1>3, <3>2, <3>3
    <3>. DEFINE q == [r EXCEPT ![v] = Cardinality(X)]
                Y == X \union {v}
    <3>5. q \in [Node -> Nat] /\ q[v] = Cardinality(X) /\ \A x \in X : x \in Node /\ q[x] = r[x]
      BY <1>1, <2>1, <3>3
    <3>6. Y \in SUBSET Known /\ Cardinality(Y) = Cardinality(X) + 1 /\ Cardinality(X) \in Nat
      BY <2>1, <3>3, FS_AddElement
    <3>7. \A x \in X : r[x] < Cardinality(X) /\ (pred[x] # NoArc => Start(pred[x]) \in X /\ r[Start(pred[x])] < r[x])
      BY <2>5 DEF Numbered
    <3>. HIDE DEF q
    <3>8. ASSUME NEW x \in Y
          PROVE  /\ q[x] < Cardinality(Y)
                 /\ pred[x] # NoArc => Start(pred[x]) \in Y /\ q[Start(pred[x])] < q[x]
      <4>1. CASE x = v
        <5>1. q[x] < Cardinality(Y)
          BY <3>5, <3>6, <4>1
        <5>2. ASSUME pred[x] # NoArc PROVE Start(pred[x]) \in X /\ q[Start(pred[x])] < q[x]
          <6>1. Start(pred[x]) \in X
            BY <3>4, <4>1, <5>2
          <6>. QED BY <3>5, <3>7, <4>1, <6>1
        <5>. QED BY <5>1, <5>2
      <4>2. CASE x \in X
        <5>1. q[x] = r[x] /\ r[x] \in Nat /\ r[x] < Cardinality(X)
          BY <3>5, <3>7, <4>2
        <5>2. pred[x] # NoArc => Start(pred[x]) \in X /\ q[Start(pred[x])] < q[x]
          BY <3>5, <3>7, <4>2
        <5>. QED BY <3>6, <5>1, <5>2
      <4>. QED BY <4>1, <4>2
    <3>9. Numbered(Y, q)
      BY <3>8 DEF Numbered
    <3>10. n - Cardinality(Y) \in Sizes
      BY <3>5, <3>6, <3>9
    <3>11. n - Cardinality(X) <= n - Cardinality(Y)
      BY <2>4, <2>5, <3>10
    <3>. HIDE DEF Y
    <3>. QED BY <1>1, <3>6, <3>11
  <2>. QED BY <2>5, <2>6
<1>6. \E r \in [Node -> Nat] : Numbering(r)
  BY <1>1, <1>5 DEF Numbering, Numbered
<1>. QED BY <1>1, <1>4, <1>6 DEF TreeInv

(* The labels are then the lengths of paths, and no walk is shorter.         *)
LEMMA FinalWalks ==
  ASSUME SearchInv, Final
  PROVE  /\ \A v \in Known : dist[v] \in WalkLengths(call, Sources, n - 1)[v]
         /\ Certified(call, dist, Sources, InfFloat)
<1>0. /\ LooseInv /\ (\A a \in Arc : Safe(a)) /\ (\A s \in Sources : dist[s] <= 0)
      /\ TreeInv /\ Settled = Known
  BY FinalTree DEF Final, LooseInv, LabelBounds
<1>1. /\ call \in Calls /\ dist \in [Node -> Int] /\ pred \in [Node -> Arc \union {NoArc}]
  BY DEF SearchInv, Base
<1>2. Known \subseteq Node /\ n \in Nat /\ Cardinality(Known) \in 0 .. n /\ n - 1 \in Nat
  BY KnownFacts, NodeFacts
<1>3. PICK r \in [Node -> Nat] : Numbering(r)
  BY <1>0 DEF TreeInv
<1>. DEFINE X == {v \in Known : dist[v] \in WalkLengths(call, Sources, r[v])[v]}
<1>4. ASSUME NEW v \in Known, pred[v] # NoArc => Start(pred[v]) \in X PROVE v \in X
  <2>0. v \in Node /\ r[v] \in Nat /\ TreeArc(v)
    BY <1>0, <1>2 DEF TreeInv
  <2>1. CASE pred[v] = NoArc
    <3>1. v \in Sources
      BY <1>0, <1>4, <2>0, <2>1 DEF TreeArc
    <3>2. dist[v] = 0
      BY <1>0, <1>4, <2>0, <2>1 DEF LooseInv, LooseArc
    <3>3. 0 \in WalkLengths(call, Sources, 0)[v]
      BY <2>0, <3>1, WalkZero
    <3>4. 0 \in Nat /\ 0 <= r[v]
      BY <2>0
    <3>5. 0 \in WalkLengths(call, Sources, r[v])[v]
      BY <2>0, <3>3, <3>4, WalkMonotone
    <3>. QED BY <3>2, <3>5
  <2>2. CASE pred[v] # NoArc
    <3>. DEFINE b == pred[v]
                x == Start(b)
    <3>1. b \in Arc /\ x \in Node /\ x \in X /\ x \in Known /\ Open(b) /\ End(b) = v
          /\ dist[v] = dist[x] + StepLength(call, b)
      BY <1>1, <1>2, <1>4, <2>0, <2>2 DEF TreeArc
    <3>2. r[x] < r[v] /\ r[x] \in Nat /\ r[x] + 1 \in Nat /\ r[x] + 1 <= r[v]
      <4>1. r[x] < r[v]
        BY <1>0, <1>3, <2>2 DEF Numbering
      <4>2. r[x] \in Nat
        BY <3>1
      <4>. QED BY <2>0, <4>1, <4>2
    <3>3. dist[v] \in WalkLengths(call, Sources, r[x] + 1)[v]
      <4>1. Eligible(call.G, call.chr, b) /\ StartNode(call.G, b) = x /\ EndNode(call.G, b) = v
        BY <3>1, StepFacts
      <4>. HIDE DEF b, x
      <4>. QED BY <2>0, <3>1, <3>2, <4>1, WalkExtend
    <3>4. dist[v] \in WalkLengths(call, Sources, r[v])[v]
      BY <2>0, <3>2, <3>3, WalkMonotone
    <3>. QED BY <3>4
  <2>. QED BY <2>1, <2>2
<1>5. Known \subseteq X
  BY <1>0, <1>3, <1>4, AlongTrees
<1>6. ASSUME NEW v \in Known PROVE dist[v] \in WalkLengths(call, Sources, n - 1)[v]
  <2>1. v \in Node /\ r[v] \in Nat /\ r[v] < Cardinality(Known)
    BY <1>0, <1>2, <1>3 DEF Numbering
  <2>2. r[v] <= n - 1
    BY <1>2, <2>1
  <2>3. dist[v] \in WalkLengths(call, Sources, r[v])[v]
    BY <1>5
  <2>. QED BY <1>2, <2>1, <2>2, <2>3, WalkMonotone
<1>7. ASSUME NEW a \in Arc, Eligible(call.G, call.chr, a), dist[StartNode(call.G, a)] # InfFloat
      PROVE  dist[EndNode(call.G, a)] <= dist[StartNode(call.G, a)] + StepLength(call, a)
  <2>1. Open(a) /\ Start(a) = StartNode(call.G, a) /\ End(a) = EndNode(call.G, a) /\ Start(a) \in Known
    BY <1>1, <1>7, StepFacts, CallFacts DEF Known
  <2>. QED BY <1>0, <2>1 DEF Safe
<1>8. Certified(call, dist, Sources, InfFloat)
  BY <1>0, <1>7 DEF Certified
<1>. QED BY <1>6, <1>8

(* So the labels are the distances, and predecessors lead back to a source.  *)
LEMMA FinalExact ==
  ASSUME SearchInv, Final
  PROVE  /\ \A v \in Node : dist[v] = Distances(call, Sources)[v]
         /\ PathsLeadBack
<1>0. /\ LooseInv /\ TreeInv /\ Settled = Known /\ Certified(call, dist, Sources, InfFloat)
      /\ (\A v \in Known : dist[v] \in WalkLengths(call, Sources, n - 1)[v])
      /\ (\A v \in Node : dist[v] <= InfFloat)
  BY FinalTree, FinalWalks DEF Final, LooseInv, LabelBounds
<1>1. /\ call \in Calls /\ dist \in [Node -> Int] /\ InfFloat \in Int /\ InfFloat <= InfFloat
  BY NodeFacts DEF SearchInv, Base
<1>2. ASSUME NEW v \in Node PROVE dist[v] = Distances(call, Sources)[v]
  <2>1. \A x \in Node : dist[x] # InfFloat => dist[x] \in WalkLengths(call, Sources, n - 1)[x]
    BY <1>0 DEF Known
  <2>. QED BY <1>0, <1>1, <2>1, LabelsAreDistances
<1>3. ASSUME NEW v \in Node
      PROVE  /\ pred[v] # NoArc =>
                  /\ Open(pred[v]) /\ End(pred[v]) = v
                  /\ dist[v] = dist[Start(pred[v])] + StepLength(call, pred[v])
             /\ dist[v] # InfFloat => Back(v) = NoNode
             /\ dist[v] # InfFloat /\ pred[v] = NoArc => v \in Sources
  <2>1. TreeArc(v) /\ (dist[v] # InfFloat => v \in Known)
    BY <1>0 DEF TreeInv, Known
  <2>2. v \in Known => Back(v) = NoNode
    BY <1>0, BackEnds
  <2>. QED BY <2>1, <2>2 DEF TreeArc
<1>. QED BY <1>2, <1>3 DEF PathsLeadBack
-------------------------------------------------------------------------------
(* The label correcting methods: labels and predecessors.                    *)

Correcting == call.proc \in {"BellmanFord", "FIFO"}

(* The first labels.                                                         *)
LEMMA LooseStart ==
  ASSUME SearchInv, call' = call, pred' = [v \in Node |-> NoArc],
         dist' = [v \in Node |-> IF v \in Sources THEN 0 ELSE InfFloat]
  PROVE  LooseInv' /\ Known' = Sources /\ Sources \subseteq Node
<1>1. call \in Calls /\ InfFloat \in Nat /\ 0 # InfFloat /\ n \in Nat /\ MaxLength \in Nat
  BY NodeFacts, LengthAssumption DEF SearchInv, Base
<1>2. Sources \subseteq Node
  <2>1. call.S \subseteq Node
    BY <1>1, CallsAssumption
  <2>. QED BY <2>1 DEF Sources, Roots
<1>3. /\ \A v \in Node : dist'[v] = IF v \in Sources THEN 0 ELSE InfFloat
      /\ \A v \in Node : pred'[v] = NoArc
  OBVIOUS
<1>4. Known' = Sources
  BY <1>1, <1>2, <1>3 DEF Known
<1>5. Sources' = Sources
  BY SameCall
<1>6. ASSUME NEW v \in Sources PROVE 0 <= (Cardinality(Sources) - 1) * MaxLength
  <2>1. IsFiniteSet(Sources)
    BY <1>2, NodeFacts, FS_Subset
  <2>2. Cardinality(Sources) \in Nat /\ Cardinality(Sources) # 0
    BY <1>6, <2>1, FS_CardinalityType, FS_EmptySet
  <2>3. \A i, d \in Nat : 0 <= i * d
    OBVIOUS
  <2>. QED BY <1>1, <2>2, <2>3
<1>7. LabelBounds'
  <2>1. \A v \in Node : dist'[v] <= InfFloat
    BY <1>1, <1>3
  <2>2. \A v \in Known' : dist'[v] <= (Cardinality(Known') - 1) * MaxLength
    BY <1>2, <1>3, <1>4, <1>6
  <2>3. \A s \in Sources' : dist'[s] <= 0
    BY <1>2, <1>3, <1>5
  <2>. QED BY <2>1, <2>2, <2>3 DEF LabelBounds
<1>8. WalkLabels'
  <2>1. ASSUME NEW v \in Sources PROVE dist'[v] \in WalkLengths(call, Sources, 0)[v] /\ 0 \in Nat
    BY <1>2, <1>3, WalkZero
  <2>. QED BY <1>4, <1>5, <2>1 DEF WalkLabels
<1>9. \A v \in Node : LooseArc(v)'
  BY <1>2, <1>3, <1>4, <1>5 DEF LooseArc
<1>10. \A C \in SUBSET Node : C # {} => ~TightCycle(C)'
  BY <1>3 DEF TightCycle
<1>. QED BY <1>2, <1>4, <1>7, <1>8, <1>9, <1>10 DEF LooseInv

(* An arc that goes back along a predecessor arc cannot improve a label, so  *)
(* that the test for it makes no difference.                                 *)
LEMMA TwinSafe ==
  ASSUME SearchInv, LooseInv, Correcting, NEW a \in Arc, Open(a), Start(a) \in Known,
         pred[Start(a)] = Twin(a)
  PROVE  dist[End(a)] <= dist[Start(a)] + StepLength(call, a)
<1>1. call \in Calls /\ dist \in [Node -> Int] /\ NoArc \notin Arc
  BY NodeFacts DEF SearchInv, Base
<1>. DEFINE b == Twin(a)
            v == Start(a)
<1>2. /\ b \in Arc /\ v \in Node /\ End(a) \in Node
      /\ StepLength(call, a) \in Int /\ StepLength(call, b) \in Int
  BY <1>1, GraphFacts, CallFacts
<1>3. Start(b) = End(a)
  BY DEF Start, End, EndNode
<1>4. LooseArc(v) /\ pred[v] = b
  BY <1>2 DEF LooseInv
<1>5. Open(b) /\ dist[v] >= dist[End(a)] + StepLength(call, b)
  BY <1>1, <1>2, <1>3, <1>4 DEF LooseArc
<1>6. StepLength(call, a) + StepLength(call, b) >= 0
  <2>1. Eligible(call.G, call.chr, a) /\ Eligible(call.G, call.chr, b)
    BY <1>2, <1>5, StepFacts
  <2>. QED BY <1>1, <2>1, CallsAssumption DEF Correcting
<1>7. dist[v] \in Int /\ dist[End(a)] \in Int
  BY <1>1, <1>2
<1>8. \A x, y, p, q \in Int : x >= y + q /\ p + q >= 0 => y <= x + p
  OBVIOUS
<1>. QED BY <1>2, <1>5, <1>6, <1>7, <1>8

(* One arc is looked at.                                                     *)
Looked(a) ==
  LET label == dist[Start(a)] + StepLength(call, a) IN
  IF label < dist[End(a)] /\ pred[Start(a)] # Twin(a) /\ Open(a)
  THEN Improve(a, label) ELSE UNCHANGED <<dist, pred>>

LEMMA LookedFacts ==
  ASSUME SearchInv, LooseInv, Correcting, call' = call, NEW a \in Arc, Start(a) \in Known, Looked(a)
  PROVE  /\ LooseInv' /\ Known \subseteq Known' /\ dist' \in [Node -> Int]
         /\ \A v \in Node : dist'[v] <= dist[v]
         /\ \A v \in Node : v # End(a) => dist'[v] = dist[v] /\ pred'[v] = pred[v]
         /\ Open(a) => dist'[End(a)] <= dist[Start(a)] + StepLength(call, a)
         /\ \/ UNCHANGED <<dist, pred>>
            \/ Known' = Known \union {End(a)} /\ pred'[End(a)] = a
<1>. DEFINE label == dist[Start(a)] + StepLength(call, a)
<1>1. /\ call \in Calls /\ dist \in [Node -> Int] /\ pred \in [Node -> Arc \union {NoArc}]
      /\ Start(a) \in Node /\ End(a) \in Node /\ StepLength(call, a) \in Int
  <2>1. call \in Calls /\ dist \in [Node -> Int] /\ pred \in [Node -> Arc \union {NoArc}]
    BY DEF SearchInv, Base
  <2>. QED BY <2>1, GraphFacts, CallFacts
<1>2. label \in Int
  BY <1>1
<1>3. CASE label < dist[End(a)] /\ pred[Start(a)] # Twin(a) /\ Open(a)
  <2>1. Improve(a, label)
    BY <1>3 DEF Looked
  <2>. HIDE DEF label
  <2>2. LooseInv' /\ Known' = Known \union {End(a)}
    <3>1. label = dist[Start(a)] + StepLength(call, a)
      BY DEF label
    <3>. QED BY <1>2, <1>3, <2>1, <3>1, LooseImprove
  <2>3. /\ dist' \in [Node -> Int] /\ dist'[End(a)] = label /\ pred'[End(a)] = a
        /\ \A v \in Node : v # End(a) => dist'[v] = dist[v] /\ pred'[v] = pred[v]
    BY <1>1, <1>2, <2>1 DEF Improve
  <2>4. \A v \in Node : dist'[v] <= dist[v]
    BY <1>1, <1>2, <1>3, <2>3
  <2>5. dist'[End(a)] <= label
    BY <1>2, <2>3
  <2>. QED BY <2>2, <2>3, <2>4, <2>5 DEF label
<1>4. CASE ~(label < dist[End(a)] /\ pred[Start(a)] # Twin(a) /\ Open(a))
  <2>1. dist' = dist /\ pred' = pred
    BY <1>4 DEF Looked
  <2>2. LooseInv' /\ Known' = Known
    BY <2>1, LooseQuiet
  <2>3. \A v \in Node : dist'[v] <= dist[v]
    BY <1>1, <2>1
  <2>4. ASSUME Open(a) PROVE dist[End(a)] <= label
    <3>1. CASE pred[Start(a)] = Twin(a)
      BY <2>4, <3>1, TwinSafe
    <3>2. CASE ~(label < dist[End(a)])
      BY <1>1, <1>2, <3>2
    <3>. QED BY <1>4, <2>4, <3>1, <3>2
  <2>. QED BY <1>1, <2>1, <2>2, <2>3, <2>4
<1>. QED BY <1>3, <1>4
(* Bellman-Ford: as long as a pass has changed nothing, the arcs it has      *)
(* looked at are safe.  FIFO: the arcs of a node that is not active are      *)
(* safe, except those of u that have not been read; a pass that has changed  *)
(* nothing leaves no active node behind.                                     *)
BellmanInv == active = {} /\ count < 2 * n /\ (~flag => \A a \in Arc : a < idx => Safe(a))
FIFOInv ==
  /\ active \subseteq Known
  /\ u # NoNode => u \in Known /\ u = idx
  /\ \A v \in Node : v # u => unread[v] = Incidences(G, v)
  /\ \A v \in Known \ active : \A a \in Incidences(G, v) : (v = u /\ a \in unread[v]) \/ Safe(a)
  /\ flag => count < 2 * n
  /\ ~flag /\ root = NoNode => \A v \in active : v >= idx /\ v # u

ScanInv ==
  /\ pc = "called" => active = {} /\ root = NoNode
  /\ pc = "merge" => call.proc = "Dijkstra"
  /\ Correcting /\ pc = "search" =>
       /\ LooseInv
       /\ call.proc = "BellmanFord" => BellmanInv
       /\ call.proc = "FIFO" => FIFOInv
  /\ Correcting /\ pc = "done" /\ ~Fails /\ ~CycleNode => Final

LEMMA CorrectingStep ==
  ASSUME SearchInv, Correcting, NEW a \in Arc
  PROVE  /\ StepLength(call, a) = l(a) + call.epsilon /\ StepLength(call, a) \in Int
         /\ l(a) \in Int /\ call.epsilon \in Nat
         /\ call.proc = "BellmanFord" => StepLength(call, a) = l(a)
         /\ Sources = call.S
<1>1. call \in Calls
  BY DEF SearchInv, Base
<1>2. l(a) \in Int /\ StepLength(call, a) \in Int /\ call.epsilon \in Nat
      /\ (call.proc # "FIFO" => call.epsilon = 0)
  BY <1>1, GraphFacts, CallFacts, CallsAssumption
<1>3. StepLength(call, a) = l(a) + call.epsilon
  BY DEF StepLength, l, Correcting, G
<1>. QED BY <1>2, <1>3 DEF Correcting, Sources

(* An arc stays safe if no label changes.                                    *)
LEMMA SafeQuiet ==
  ASSUME call' = call, dist' = dist
  PROVE  (\A a : Safe(a)' <=> Safe(a)) /\ Known' = Known
BY SameCall DEF Safe, Known

LEMMA BellmanStartScan ==
  ASSUME SearchInv, ScanInv, BellmanStart
  PROVE  ScanInv'
<1>1. /\ pc = "called" /\ call.proc = "BellmanFord" /\ call' = call /\ pc' = "search"
      /\ dist' = Labelled /\ pred' = [v \in Node |-> NoArc] /\ idx' = 0 /\ active' = active
      /\ count' = 1
  BY DEF BellmanStart, Called, Enter
<1>2. active' = {}
  BY <1>1 DEF ScanInv
<1>3. LooseInv'
  <2>1. Sources = call.S
    BY <1>1 DEF Sources
  <2>2. dist' = [v \in Node |-> IF v \in Sources THEN 0 ELSE InfFloat]
    BY <1>1, <2>1 DEF Labelled
  <2>. QED BY <1>1, <2>2, LooseStart
<1>4. BellmanInv'
  <2>1. (\A a \in Arc : ~(a < 0)) /\ 1 < 2 * n
    BY NodeFacts
  <2>. QED BY <1>1, <1>2, <2>1 DEF BellmanInv
<1>. QED BY <1>1, <1>3, <1>4 DEF ScanInv

LEMMA BellmanArcScan ==
  ASSUME SearchInv, ScanInv, BellmanArc
  PROVE  ScanInv' /\ (idx \in Arc /\ Start(idx) \in Known => Looked(idx))
                  /\ (idx \in Arc /\ Start(idx) \notin Known => UNCHANGED <<dist, pred>>)
<1>. DEFINE label == dist[Start(idx)] + l(idx)
            Better == dist[End(idx)] > label /\ dist[Start(idx)] # InfFloat
                      /\ pred[Start(idx)] # Twin(idx) /\ Open(idx)
<1>1. /\ pc = "search" /\ call.proc = "BellmanFord" /\ idx \in Arc /\ idx' = idx + 1
      /\ call' = call /\ pc' = pc /\ active' = active /\ count' = count
      /\ IF Better THEN Improve(idx, label) /\ flag' = TRUE ELSE UNCHANGED <<dist, pred, flag>>
  BY DEF BellmanArc, Searching
<1>2. LooseInv /\ BellmanInv /\ Correcting
  BY <1>1 DEF ScanInv, Correcting
<1>3. call \in Calls /\ dist \in [Node -> Int] /\ flag \in BOOLEAN
  BY DEF SearchInv, Base
<1>4. Start(idx) \in Node /\ End(idx) \in Node /\ StepLength(call, idx) = l(idx) /\ l(idx) \in Int
  BY <1>1, <1>2, <1>3, GraphFacts, CorrectingStep
<1>5. Start(idx) \in Known <=> dist[Start(idx)] # InfFloat
  BY <1>4 DEF Known
<1>6. label \in Int /\ (dist[End(idx)] > label <=> label < dist[End(idx)])
  BY <1>3, <1>4
<1>7. Start(idx) \in Known => Looked(idx)
  <2>. HIDE DEF label
  <2>1. label = dist[Start(idx)] + StepLength(call, idx)
    BY <1>4 DEF label
  <2>. QED BY <1>1, <1>5, <1>6, <2>1 DEF Looked
<1>8. Start(idx) \notin Known => UNCHANGED <<dist, pred>>
  BY <1>1, <1>5
<1>9. LooseInv'
  <2>1. CASE Start(idx) \in Known
    BY <1>1, <1>2, <1>7, <2>1, LookedFacts
  <2>2. CASE Start(idx) \notin Known
    BY <1>1, <1>2, <1>8, <2>2, LooseQuiet
  <2>. QED BY <2>1, <2>2
<1>10. ASSUME ~flag', NEW a \in Arc, a < idx' PROVE Safe(a)'
  <2>1. dist' = dist /\ pred' = pred /\ ~flag
    BY <1>1, <1>10
  <2>2. Safe(a)' <=> Safe(a)
    BY <1>1, <2>1, SafeQuiet
  <2>3. CASE a < idx
    BY <1>2, <2>1, <2>2, <2>3 DEF BellmanInv
  <2>4. CASE a = idx
    <3>1. Open(idx) /\ Start(idx) \in Known => dist[End(idx)] <= dist[Start(idx)] + StepLength(call, idx)
      BY <1>1, <1>2, <1>7, <2>1, LookedFacts
    <3>. QED BY <2>2, <2>4, <3>1 DEF Safe
  <2>5. a < idx \/ a = idx
    BY <1>1, <1>10, NodeFacts
  <2>. QED BY <2>3, <2>4, <2>5
<1>11. BellmanInv'
  BY <1>1, <1>2, <1>10 DEF BellmanInv
<1>. QED BY <1>1, <1>7, <1>8, <1>9, <1>11 DEF ScanInv

LEMMA BellmanPassScan ==
  ASSUME SearchInv, ScanInv, BellmanPass
  PROVE  ScanInv'
<1>1. /\ pc = "search" /\ call.proc = "BellmanFord" /\ idx = 2 * m /\ count' = count + 1
      /\ call' = call /\ dist' = dist /\ pred' = pred /\ active' = active
      /\ IF flag /\ count + 1 < 2 * n
         THEN idx' = 0 /\ flag' = FALSE /\ pc' = pc /\ out' = out
         ELSE Return(IF count + 1 = 2 * n THEN <<"ERCheck", NoNode>> ELSE Bool(Reached))
  BY DEF BellmanPass, Searching
<1>2. LooseInv /\ BellmanInv
  BY <1>1 DEF ScanInv, Correcting
<1>3. LooseInv'
  BY <1>1, <1>2, LooseQuiet
<1>4. CASE flag /\ count + 1 < 2 * n
  <2>1. \A a \in Arc : ~(a < 0)
    BY NodeFacts
  <2>2. BellmanInv'
    BY <1>1, <1>2, <1>4, <2>1 DEF BellmanInv
  <2>. QED BY <1>1, <1>3, <1>4, <2>2 DEF ScanInv
<1>5. CASE ~(flag /\ count + 1 < 2 * n)
  <2>1. pc' = "done" /\ out' = IF count + 1 = 2 * n THEN <<"ERCheck", NoNode>> ELSE Bool(Reached)
    BY <1>1, <1>5 DEF Return
  <2>2. ASSUME ~Fails' PROVE Final'
    <3>1. count + 1 # 2 * n
      BY <2>1, <2>2 DEF Fails
    <3>2. count \in 1 .. 2 * n /\ n \in Nat /\ count < 2 * n
      BY <1>1, <1>2, NodeFacts DEF SearchInv, CountInv, BellmanInv
    <3>3. count + 1 < 2 * n
      BY <3>1, <3>2
    <3>4. \A a \in Arc : Safe(a)'
      <4>1. ~flag
        BY <1>5, <3>3
      <4>2. \A a \in Arc : a < idx
        BY <1>1, NodeFacts DEF Arc
      <4>. QED BY <1>1, <1>2, <4>1, <4>2, SafeQuiet DEF BellmanInv
    <3>. QED BY <1>1, <1>2, <1>3, <3>4 DEF Final, BellmanInv
  <2>. QED BY <1>1, <2>1, <2>2 DEF ScanInv
<1>. QED BY <1>4, <1>5
LEMMA FIFOStartScan ==
  ASSUME SearchInv, ScanInv, FIFOStart
  PROVE  ScanInv'
<1>1. /\ pc = "called" /\ call.proc = "FIFO" /\ call' = call /\ pc' = "search"
      /\ dist' = Labelled /\ pred' = [v \in Node |-> NoArc] /\ idx' = 0 /\ active' = call.S
      /\ unread' = [v \in Node |-> Incidences(G, v)] /\ u' = NoNode /\ root' = root
      /\ flag' = FALSE
  BY DEF FIFOStart, Called, Enter
<1>2. Sources = call.S
  BY <1>1 DEF Sources
<1>3. LooseInv' /\ Known' = call.S /\ call.S \subseteq Node
  <2>1. dist' = [v \in Node |-> IF v \in Sources THEN 0 ELSE InfFloat]
    BY <1>1, <1>2 DEF Labelled
  <2>. QED BY <1>1, <1>2, <2>1, LooseStart
<1>4. FIFOInv'
  <2>1. \A v \in Node : unread'[v] = Incidences(G, v)'
    BY <1>1, SameCall
  <2>2. \A v \in call.S : v >= 0 /\ v # NoNode
    <3>1. Node \subseteq Nat /\ NoNode \notin Node
      BY NodeFacts
    <3>2. ASSUME NEW v \in call.S PROVE v >= 0
      <4>1. v \in Node
        BY <1>3
      <4>2. v \in Nat
        BY <3>1, <4>1
      <4>. QED BY <4>2
    <3>. QED BY <1>3, <3>1, <3>2
  <2>. QED BY <1>1, <1>3, <2>1, <2>2 DEF FIFOInv
<1>. QED BY <1>1, <1>3, <1>4 DEF ScanInv

(* A node is taken, or is passed over because it is not active.              *)
LEMMA FIFONodeScan ==
  ASSUME SearchInv, ScanInv, FIFONode
  PROVE  ScanInv'
<1>1. /\ pc = "search" /\ call.proc = "FIFO" /\ u = NoNode /\ idx \in Node
      /\ IF idx \in active THEN u' = idx /\ active' = active \ {idx} /\ idx' = idx
         ELSE idx' = idx + 1 /\ u' = u /\ active' = active
      /\ call' = call /\ pc' = pc /\ dist' = dist /\ pred' = pred /\ unread' = unread
      /\ flag' = flag /\ root' = root /\ count' = count
  BY DEF FIFONode, Searching
<1>2. LooseInv /\ FIFOInv
  BY <1>1 DEF ScanInv, Correcting
<1>3. LooseInv' /\ Known' = Known /\ (\A a : Safe(a)' <=> Safe(a))
      /\ \A v : Incidences(G, v)' = Incidences(G, v)
  BY <1>1, <1>2, LooseQuiet, SafeQuiet, SameCall
<1>4. NoNode \notin Node /\ Node \subseteq Nat /\ active \subseteq Node /\ Known \subseteq Node
  BY NodeFacts, KnownFacts DEF SearchInv, Base
<1>5. FIFOInv'
  <2>1. active' \subseteq Known' /\ (u' # NoNode => u' \in Known' /\ u' = idx')
    BY <1>1, <1>2, <1>3 DEF FIFOInv
  <2>2. \A v \in Node : unread'[v] = Incidences(G, v)'
    BY <1>1, <1>2, <1>3, <1>4 DEF FIFOInv
  <2>3. ASSUME NEW v \in Known' \ active', NEW a \in Incidences(G, v)'
        PROVE  (v = u' /\ a \in unread'[v]) \/ Safe(a)'
    <3>1. CASE v \in active
      BY <1>1, <1>3, <1>4, <2>2, <2>3, <3>1
    <3>2. CASE v \notin active
      BY <1>1, <1>2, <1>3, <1>4, <2>3, <3>2 DEF FIFOInv
    <3>. QED BY <3>1, <3>2
  <2>4. flag' => count' < 2 * n
    BY <1>1, <1>2 DEF FIFOInv
  <2>5. ASSUME ~flag', root' = NoNode, NEW v \in active' PROVE v >= idx' /\ v # u'
    <3>1. v \in active /\ v >= idx /\ v \in Nat /\ idx \in Nat
      BY <1>1, <1>2, <1>4, <2>5 DEF FIFOInv
    <3>2. CASE idx \in active
      BY <1>1, <2>5, <3>1, <3>2
    <3>3. CASE idx \notin active
      <4>1. v # idx
        BY <3>1, <3>3
      <4>. QED BY <1>1, <1>4, <3>1, <3>3, <4>1
    <3>. QED BY <3>2, <3>3
  <2>. QED BY <2>1, <2>2, <2>3, <2>4, <2>5 DEF FIFOInv
<1>. QED BY <1>1, <1>3, <1>5 DEF ScanInv

LEMMA FIFOLeaveScan ==
  ASSUME SearchInv, ScanInv, FIFOLeave
  PROVE  ScanInv'
<1>1. /\ pc = "search" /\ call.proc = "FIFO" /\ u # NoNode /\ unread[u] = {}
      /\ unread' = [unread EXCEPT ![u] = Incidences(G, u)] /\ u' = NoNode /\ idx' = idx + 1
      /\ call' = call /\ pc' = pc /\ dist' = dist /\ pred' = pred
      /\ active' = active /\ flag' = flag /\ root' = root /\ count' = count
  BY DEF FIFOLeave, Expanding, Searching
<1>2. LooseInv /\ FIFOInv
  BY <1>1 DEF ScanInv, Correcting
<1>3. LooseInv' /\ Known' = Known /\ (\A a : Safe(a)' <=> Safe(a))
      /\ \A v : Incidences(G, v)' = Incidences(G, v)
  BY <1>1, <1>2, LooseQuiet, SafeQuiet, SameCall
<1>4. /\ Node \subseteq Nat /\ active \subseteq Node /\ u \in Node /\ idx \in Nat
      /\ unread \in [Node -> SUBSET Arc]
  BY <1>1, NodeFacts DEF SearchInv, Base
<1>5. \A v \in Node : unread'[v] = Incidences(G, v)'
  BY <1>1, <1>2, <1>3, <1>4 DEF FIFOInv
<1>6. ASSUME NEW v \in Known' \ active', NEW a \in Incidences(G, v)' PROVE Safe(a)'
  <2>1. v \in Known \ active /\ a \in Incidences(G, v) /\ ~(v = u /\ a \in unread[v])
    BY <1>1, <1>3, <1>6
  <2>2. Safe(a)
    BY <1>2, <2>1 DEF FIFOInv
  <2>. QED BY <1>3, <2>2
<1>7. ASSUME ~flag', root' = NoNode, NEW v \in active' PROVE v >= idx' /\ v # u'
  <2>1. v >= idx /\ v # u /\ u = idx /\ v \in Nat
    BY <1>1, <1>2, <1>4, <1>7 DEF FIFOInv
  <2>2. v # NoNode
    BY <1>1, <1>4, <1>7, NodeFacts
  <2>. QED BY <1>1, <1>4, <2>1, <2>2
<1>8. active' \subseteq Known' /\ (flag' => count' < 2 * n)
  BY <1>1, <1>2, <1>3 DEF FIFOInv
<1>9. FIFOInv'
  BY <1>1, <1>5, <1>6, <1>7, <1>8 DEF FIFOInv
<1>. QED BY <1>1, <1>3, <1>9 DEF ScanInv

(* What reading an arc does, in terms of Looked.                             *)
LEMMA FIFOReadFacts ==
  ASSUME SearchInv, ScanInv, NEW a \in Arc, FIFORead(a)
  PROVE  /\ pc = "search" /\ call.proc = "FIFO" /\ Correcting /\ LooseInv /\ FIFOInv
         /\ call' = call /\ pc' = pc /\ u' = u /\ idx' = idx /\ count' = count
         /\ u \in Node /\ u # NoNode /\ Start(a) = u /\ End(a) \in Node /\ a \in unread[u] /\ u \in Known
         /\ unread'[u] = unread[u] \ {a} /\ \A v \in Node : v # u => unread'[v] = unread[v]
         /\ Looked(a)
         /\ \/ UNCHANGED <<dist, pred, active, flag, root>>
            \/ /\ dist'[End(a)] < dist[End(a)]
               /\ Open(a) /\ pred'[End(a)] = a /\ active' = active \union {End(a)}
               /\ IF count < 2 * n THEN flag' = TRUE /\ root' = root ELSE root' = u /\ flag' = flag
<1>. DEFINE label == dist[u] + l(a) + call.epsilon
            Better == dist[End(a)] > label /\ pred[u] # Twin(a) /\ Open(a)
<1>1. /\ pc = "search" /\ call.proc = "FIFO" /\ u # NoNode /\ Read(a)
      /\ call' = call /\ pc' = pc /\ u' = u /\ idx' = idx /\ count' = count
      /\ IF Better
         THEN /\ Improve(a, label) /\ active' = active \union {End(a)}
              /\ IF count < 2 * n THEN flag' = TRUE /\ root' = root ELSE root' = u /\ flag' = flag
         ELSE UNCHANGED <<dist, pred, active, flag, root>>
  BY DEF FIFORead, Expanding, Searching
<1>2. LooseInv /\ FIFOInv /\ Correcting
  BY <1>1 DEF ScanInv, Correcting
<1>3. /\ u \in Node /\ Start(a) = u /\ End(a) \in Node /\ a \in unread[u]
      /\ unread'[u] = unread[u] \ {a} /\ \A v \in Node : v # u => unread'[v] = unread[v]
  BY <1>1, ReadFacts
<1>4. u \in Known
  BY <1>1, <1>2 DEF FIFOInv
<1>5. /\ dist \in [Node -> Int] /\ pred \in [Node -> Arc \union {NoArc}]
      /\ StepLength(call, a) = l(a) + call.epsilon
      /\ l(a) \in Int /\ call.epsilon \in Nat
  BY <1>2, CorrectingStep DEF SearchInv, Base
<1>6. label = dist[Start(a)] + StepLength(call, a) /\ label \in Int
  BY <1>3, <1>5
<1>. HIDE DEF label
<1>7. dist[End(a)] > label <=> label < dist[End(a)]
  BY <1>3, <1>5, <1>6
<1>8. Looked(a)
  BY <1>1, <1>3, <1>6, <1>7 DEF Looked
<1>9. ASSUME Better PROVE dist'[End(a)] < dist[End(a)] /\ pred'[End(a)] = a
  BY <1>1, <1>3, <1>5, <1>6, <1>7, <1>9 DEF Improve
<1>. QED BY <1>1, <1>2, <1>3, <1>4, <1>8, <1>9

LEMMA FIFOReadScan ==
  ASSUME SearchInv, ScanInv, NEW a \in Arc, FIFORead(a)
  PROVE  ScanInv'
<1>1. /\ pc = "search" /\ call.proc = "FIFO" /\ Correcting /\ LooseInv /\ FIFOInv
      /\ call' = call /\ pc' = pc /\ u' = u /\ idx' = idx /\ count' = count
      /\ u \in Node /\ u # NoNode /\ Start(a) = u /\ End(a) \in Node /\ a \in unread[u] /\ u \in Known
      /\ unread'[u] = unread[u] \ {a} /\ \A v \in Node : v # u => unread'[v] = unread[v]
      /\ Looked(a)
  BY FIFOReadFacts
<1>2. \/ UNCHANGED <<dist, pred, active, flag, root>>
      \/ /\ dist'[End(a)] < dist[End(a)] /\ active' = active \union {End(a)}
         /\ IF count < 2 * n THEN flag' = TRUE /\ root' = root ELSE root' = u /\ flag' = flag
  BY FIFOReadFacts
<1>3. /\ LooseInv' /\ Known \subseteq Known' /\ dist' \in [Node -> Int]
      /\ \A v \in Node : dist'[v] <= dist[v]
      /\ \A v \in Node : v # End(a) => dist'[v] = dist[v]
      /\ Open(a) => dist'[End(a)] <= dist[u] + StepLength(call, a)
      /\ UNCHANGED <<dist, pred>> \/ Known' = Known \union {End(a)}
  BY <1>1, LookedFacts
<1>4. /\ call \in Calls /\ dist \in [Node -> Int] /\ Known \subseteq Node
  BY KnownFacts DEF SearchInv, Base
<1>5. active' \subseteq Known' /\ Known' \subseteq Known \union {End(a)}
  <2>1. active \subseteq Known
    BY <1>1 DEF FIFOInv
  <2>2. CASE UNCHANGED <<dist, pred, active, flag, root>>
    BY <2>1, <2>2 DEF Known
  <2>3. CASE dist'[End(a)] < dist[End(a)] /\ active' = active \union {End(a)}
    <3>1. dist' # dist
      BY <1>1, <1>4, <2>3
    <3>. QED BY <1>3, <2>1, <2>3, <3>1
  <2>. QED BY <1>2, <2>2, <2>3
<1>6. ASSUME NEW b \in Arc, Start(b) # End(a) \/ dist' = dist, Safe(b) PROVE Safe(b)'
  <2>. SUFFICES ASSUME Open(b), Start(b) \in Known'
                PROVE  dist'[End(b)] <= dist'[Start(b)] + StepLength(call, b)
    BY <1>1, SameCall DEF Safe
  <2>1. Start(b) \in Node /\ End(b) \in Node /\ StepLength(call, b) \in Int
    BY <1>4, GraphFacts, CallFacts
  <2>2. Start(b) \in Known /\ dist'[Start(b)] = dist[Start(b)]
    BY <1>3, <1>5, <1>6, <2>1 DEF Known
  <2>3. dist[End(b)] <= dist[Start(b)] + StepLength(call, b)
    BY <1>6, <2>2 DEF Safe
  <2>4. dist'[End(b)] <= dist[End(b)] /\ dist'[End(b)] \in Int /\ dist[End(b)] \in Int /\ dist[Start(b)] \in Int
    BY <1>3, <1>4, <2>1
  <2>. QED BY <2>1, <2>2, <2>3, <2>4
<1>7. ASSUME NEW v \in Known' \ active', NEW b \in Incidences(G, v)'
      PROVE  (v = u' /\ b \in unread'[v]) \/ Safe(b)'
  <2>1. b \in Incidences(G, v) /\ b \in Arc /\ Start(b) = v
    BY <1>1, <1>7, SameCall DEF Incidences, Start
  <2>2. v # End(a) \/ dist' = dist
    BY <1>2, <1>7
  <2>3. v \in Known \ active
    BY <1>2, <1>5, <1>7, <2>2 DEF Known
  <2>4. CASE Safe(b)
    BY <1>6, <2>1, <2>2, <2>4
  <2>5. CASE v = u /\ b \in unread[v] /\ b # a
    BY <1>1, <2>5
  <2>6. CASE b = a
    <3>1. v = u /\ dist'[u] = dist[u]
      BY <1>1, <1>3, <2>1, <2>2, <2>6
    <3>2. Safe(a)'
      BY <1>1, <1>3, <3>1, SameCall DEF Safe
    <3>. QED BY <2>6, <3>2
  <2>7. Safe(b) \/ (v = u /\ b \in unread[v])
    BY <1>1, <2>1, <2>3 DEF FIFOInv
  <2>. QED BY <2>4, <2>5, <2>6, <2>7
<1>8. \A v \in Node : v # u' => unread'[v] = Incidences(G, v)'
  BY <1>1, SameCall DEF FIFOInv
<1>9. flag' => count' < 2 * n
  BY <1>1, <1>2 DEF FIFOInv
<1>10. ASSUME ~flag', root' = NoNode PROVE \A v \in active' : v >= idx' /\ v # u'
  BY <1>1, <1>2, <1>10 DEF FIFOInv
<1>11. u' # NoNode => u' \in Known' /\ u' = idx'
  BY <1>1, <1>3 DEF FIFOInv
<1>12. FIFOInv'
  BY <1>5, <1>7, <1>8, <1>9, <1>10, <1>11 DEF FIFOInv
<1>. QED BY <1>1, <1>3, <1>12 DEF ScanInv

LEMMA FIFOPassScan ==
  ASSUME SearchInv, ScanInv, FIFOPass
  PROVE  ScanInv'
<1>1. /\ pc = "search" /\ call.proc = "FIFO" /\ u = NoNode /\ idx = n /\ count' = count + 1
      /\ call' = call /\ dist' = dist /\ pred' = pred /\ active' = active /\ unread' = unread
      /\ u' = u /\ root' = root
      /\ IF flag /\ count + 1 <= 2 * n
         THEN idx' = 0 /\ flag' = FALSE /\ pc' = pc /\ out' = out
         ELSE pc' = "done" /\ out' = FIFOResult
  BY DEF FIFOPass, Searching, Return
<1>2. LooseInv /\ FIFOInv
  BY <1>1 DEF ScanInv, Correcting
<1>3. LooseInv' /\ Known' = Known /\ (\A a : Safe(a)' <=> Safe(a))
      /\ \A v : Incidences(G, v)' = Incidences(G, v)
  BY <1>1, <1>2, LooseQuiet, SafeQuiet, SameCall
<1>4. /\ NoNode \notin Node /\ n \in Nat /\ active \subseteq Node /\ Node \subseteq Nat
      /\ count \in Nat
  BY <1>1, NodeFacts DEF SearchInv, Base, CountInv
<1>5. CASE flag /\ count + 1 <= 2 * n
  <2>1. \A v \in active' : v >= idx' /\ v # u'
    BY <1>1, <1>4, <1>5
  <2>2. FIFOInv'
    BY <1>1, <1>2, <1>3, <1>5, <2>1 DEF FIFOInv
  <2>. QED BY <1>1, <1>3, <1>5, <2>2 DEF ScanInv
<1>6. CASE ~(flag /\ count + 1 <= 2 * n)
  <2>1. pc' = "done" /\ out' = FIFOResult
    BY <1>1, <1>6
  <2>2. ASSUME ~Fails', ~CycleNode' PROVE Final'
    <3>1. root = NoNode
      <4>. SUFFICES ASSUME root # NoNode PROVE FALSE
        OBVIOUS
      <4>1. CASE Back(root) = NoNode
        BY <2>1, <2>2, <4>1 DEF FIFOResult, Fails
      <4>2. CASE Back(root) # NoNode
        BY <1>1, <2>1, <2>2, <4>2 DEF FIFOResult, Fails, CycleNode
      <4>. QED BY <4>1, <4>2
    <3>2. ~flag
      BY <1>2, <1>4, <1>6 DEF FIFOInv
    <3>3. active = {}
      <4>1. \A v \in active : v \in Node /\ v >= n
        BY <1>1, <1>2, <1>4, <3>1, <3>2 DEF FIFOInv
      <4>2. \A v \in Node : ~(v >= n)
        BY <1>4 DEF Node
      <4>. QED BY <4>1, <4>2
    <3>4. ASSUME NEW a \in Arc PROVE Safe(a)'
      <4>1. a \in Incidences(G, Start(a))
        BY DEF Incidences, Start
      <4>2. Start(a) \in Known => Safe(a)
        <5>1. Known \subseteq Node
          BY KnownFacts
        <5>. QED BY <1>1, <1>2, <1>4, <3>3, <4>1, <5>1 DEF FIFOInv
      <4>. QED BY <1>3, <4>2 DEF Safe
    <3>. QED BY <1>1, <1>3, <3>3, <3>4 DEF Final
  <2>. QED BY <1>1, <2>1, <2>2 DEF ScanInv
<1>. QED BY <1>5, <1>6
(* The steps of every procedure.                                             *)
LEMMA StepsOf ==
  ASSUME pc = "merge" => call.proc = "Dijkstra", Next
  PROVE  /\ call' = call /\ pc # "done" /\ pc' # "called"
         /\ pc' = "merge" => call.proc = "Dijkstra"
         /\ call.proc = "BellmanFord" => Refuse \/ BellmanStart \/ BellmanArc \/ BellmanPass
         /\ call.proc = "FIFO" => \/ Refuse \/ FIFOStart \/ FIFONode \/ FIFOLeave \/ FIFOPass
                                  \/ \E a \in Arc : FIFORead(a)
         /\ call.proc = "DAGSearch" => \/ Refuse \/ DAGStart \/ DAGDelete \/ DAGReturn
                                       \/ \E a \in Arc : DAGRead(a)
<1>1. CASE Refuse
  BY <1>1 DEF Refuse
<1>2. CASE BFSStart \/ DijkstraStart \/ BellmanStart \/ FIFOStart \/ DAGStart
  BY <1>2 DEF BFSStart, DijkstraStart, BellmanStart, FIFOStart, DAGStart, Called, Enter
<1>3. CASE BFSDelete \/ BFSReturn \/ DijkstraDelete \/ \E a \in Arc : BFSRead(a) \/ DijkstraRead(a)
  BY <1>3 DEF BFSDelete, BFSReturn, DijkstraDelete, BFSRead, DijkstraRead, Between, Expanding,
    Searching, Return
<1>4. CASE DijkstraReturn \/ VoronoiMerge
  BY <1>4 DEF DijkstraReturn, VoronoiMerge, Between, Searching, Return
<1>5. CASE BellmanArc \/ BellmanPass
  BY <1>5 DEF BellmanArc, BellmanPass, Searching, Return
<1>6. CASE FIFONode \/ FIFOLeave \/ FIFOPass \/ \E a \in Arc : FIFORead(a)
  BY <1>6 DEF FIFONode, FIFOLeave, FIFOPass, FIFORead, Expanding, Searching, Return
<1>7. CASE DAGDelete \/ DAGReturn \/ \E a \in Arc : DAGRead(a)
  BY <1>7 DEF DAGDelete, DAGReturn, DAGRead, Between, Expanding, Searching, Return
<1>. QED BY <1>1, <1>2, <1>3, <1>4, <1>5, <1>6, <1>7 DEF Next

LEMMA ScanInvariant == Spec => []ScanInv
<1>1. Init => ScanInv
  BY DEF Init, ScanInv
<1>2. SearchInv /\ ScanInv /\ [Next]_vars => ScanInv'
  <2>. SUFFICES ASSUME SearchInv, ScanInv, [Next]_vars PROVE ScanInv'
    OBVIOUS
  <2>1. CASE UNCHANGED vars
    <3>1. /\ call' = call /\ pc' = pc /\ dist' = dist /\ pred' = pred /\ active' = active
          /\ unread' = unread /\ u' = u /\ idx' = idx /\ count' = count /\ flag' = flag
          /\ root' = root /\ out' = out
      BY <2>1 DEF vars
    <3>2. /\ (LooseInv => LooseInv') /\ Known' = Known /\ (\A a : Safe(a)' <=> Safe(a))
          /\ \A v : Incidences(G, v)' = Incidences(G, v)
      BY <3>1, LooseQuiet, SafeQuiet, SameCall
    <3>3. (BellmanInv => BellmanInv') /\ (FIFOInv => FIFOInv')
      BY <3>1, <3>2 DEF BellmanInv, FIFOInv
    <3>4. Final => Final'
      BY <3>1, <3>2 DEF Final
    <3>5. (Fails' <=> Fails) /\ (CycleNode' <=> CycleNode) /\ (Correcting' <=> Correcting)
      BY <3>1 DEF Fails, CycleNode, Correcting
    <3>. QED BY <3>1, <3>2, <3>3, <3>4, <3>5 DEF ScanInv
  <2>2. CASE Next
    <3>1. /\ call' = call /\ pc # "done" /\ pc' # "called"
          /\ pc' = "merge" => call.proc = "Dijkstra"
          /\ call.proc = "BellmanFord" => Refuse \/ BellmanStart \/ BellmanArc \/ BellmanPass
          /\ call.proc = "FIFO" => \/ Refuse \/ FIFOStart \/ FIFONode \/ FIFOLeave \/ FIFOPass
                                   \/ \E a \in Arc : FIFORead(a)
      BY <2>2, StepsOf DEF ScanInv
    <3>2. CASE ~Correcting
      BY <3>1, <3>2 DEF ScanInv, Correcting
    <3>3. CASE Refuse
      <4>1. pc' = "done" /\ Fails'
        BY <3>3 DEF Refuse, Fails
      <4>. QED BY <4>1 DEF ScanInv
    <3>4. CASE Correcting /\ ~Refuse
      BY <3>1, <3>4, BellmanStartScan, BellmanArcScan, BellmanPassScan, FIFOStartScan,
        FIFONodeScan, FIFOLeaveScan, FIFOReadScan, FIFOPassScan DEF Correcting
    <3>. QED BY <3>2, <3>3, <3>4
  <2>. QED BY <2>1, <2>2
<1>. QED BY <1>1, <1>2, SearchInvariant, PTL DEF Spec
-------------------------------------------------------------------------------
(* Walks without negative cycles.                                            *)

(* A walk of k arcs: its nodes, and the lengths of its parts.                *)
Trace(c, X, k, p, s) ==
  /\ p \in [0 .. k -> Node] /\ s \in [0 .. k -> Int] /\ p[0] \in X /\ s[0] = 0
  /\ \A i \in 0 .. k - 1 : \E a \in Arc :
       /\ Eligible(c.G, c.chr, a) /\ StartNode(c.G, a) = p[i] /\ EndNode(c.G, a) = p[i + 1]
       /\ s[i + 1] = s[i] + StepLength(c, a)
Traced(c, X, k, v, d) ==
  \E j \in 0 .. k : \E p \in [0 .. j -> Node], s \in [0 .. j -> Int] :
    Trace(c, X, j, p, s) /\ p[j] = v /\ s[j] = d

LEMMA TraceExists ==
  ASSUME NEW c \in Calls, NEW X, NEW k \in Nat, NEW v \in Node, NEW d \in WalkLengths(c, X, k)[v]
  PROVE  Traced(c, X, k, v, d)
<1>. DEFINE Good(j) == \A w \in Node : \A x \in WalkLengths(c, X, j)[w] : Traced(c, X, j, w, x)
            Bad == {j \in Nat : ~Good(j)}
<1>1. Bad = {}
  <2>. SUFFICES ASSUME Bad # {} PROVE FALSE
    OBVIOUS
  <2>1. PICK j \in Bad : \A i \in Bad : j <= i
    BY LeastNumber
  <2>2a. PICK w \in Node : \E x \in WalkLengths(c, X, j)[w] : ~Traced(c, X, j, w, x)
    BY <2>1
  <2>2. PICK x \in WalkLengths(c, X, j)[w] : ~Traced(c, X, j, w, x)
    BY <2>2a
  <2>3. j \in Nat /\ x \in Int
    BY WalkBound
  <2>4. CASE j = 0
    <3>1. w \in X /\ x = 0
      BY <2>2, <2>4, WalkZero
    <3>. DEFINE p == [i \in 0 .. 0 |-> w]
                s == [i \in 0 .. 0 |-> 0]
    <3>2. p \in [0 .. 0 -> Node] /\ s \in [0 .. 0 -> Int] /\ p[0] = w /\ s[0] = 0
      OBVIOUS
    <3>3. \A i \in 0 .. 0 - 1 : FALSE
      OBVIOUS
    <3>. HIDE DEF p, s
    <3>4. Trace(c, X, 0, p, s)
      BY <3>1, <3>2, <3>3 DEF Trace
    <3>5. 0 \in 0 .. j
      BY <2>4
    <3>6. Traced(c, X, j, w, x)
      BY <3>1, <3>2, <3>4, <3>5 DEF Traced
    <3>. QED BY <2>2, <3>6
  <2>5. CASE j # 0
    <3>1. j - 1 \in Nat /\ ~(j <= j - 1)
      BY <2>3, <2>5
    <3>2. Good(j - 1)
      BY <2>1, <3>1
    <3>3. \/ x \in WalkLengths(c, X, j - 1)[w]
          \/ \E a \in Arc : \E y \in WalkLengths(c, X, j - 1)[StartNode(c.G, a)] : Extends(c, a, w, y, x)
      BY <2>3, <2>5, WalkSplit
    <3>4. CASE x \in WalkLengths(c, X, j - 1)[w]
      <4>1. Traced(c, X, j - 1, w, x) /\ 0 .. j - 1 \subseteq 0 .. j
        BY <2>3, <3>2, <3>4
      <4>2. Traced(c, X, j, w, x)
        BY <4>1 DEF Traced
      <4>. QED BY <2>2, <4>2
    <3>5. ASSUME NEW a \in Arc, NEW y \in WalkLengths(c, X, j - 1)[StartNode(c.G, a)],
                 Extends(c, a, w, y, x)
          PROVE  FALSE
      <4>1. StartNode(c.G, a) \in Node /\ Traced(c, X, j - 1, StartNode(c.G, a), y)
        BY <3>2, CallFacts
      <4>2a. PICK h \in 0 .. j - 1 : \E p \in [0 .. h -> Node], s \in [0 .. h -> Int] :
              Trace(c, X, h, p, s) /\ p[h] = StartNode(c.G, a) /\ s[h] = y
        BY <4>1 DEF Traced
      <4>2. PICK p \in [0 .. h -> Node], s \in [0 .. h -> Int] :
              Trace(c, X, h, p, s) /\ p[h] = StartNode(c.G, a) /\ s[h] = y
        BY <4>2a
      <4>3. h \in Nat /\ h + 1 \in 0 .. j /\ (h + 1) - 1 = h
        BY <2>3, <3>1
      <4>. DEFINE q == [i \in 0 .. h + 1 |-> IF i <= h THEN p[i] ELSE w]
                  t == [i \in 0 .. h + 1 |-> IF i <= h THEN s[i] ELSE x]
      <4>4. /\ q \in [0 .. h + 1 -> Node] /\ t \in [0 .. h + 1 -> Int]
            /\ (\A i \in 0 .. h : q[i] = p[i] /\ t[i] = s[i])
            /\ q[h + 1] = w /\ t[h + 1] = x
        <5>1. \A i \in 0 .. h + 1 : i <= h => i \in 0 .. h
          BY <4>3
        <5>2. \A i \in 0 .. h : i \in 0 .. h + 1 /\ i <= h
          BY <4>3
        <5>3. h + 1 \in 0 .. h + 1 /\ ~(h + 1 <= h)
          BY <4>3
        <5>. QED BY <2>3, <5>1, <5>2, <5>3
      <4>. HIDE DEF q, t
      <4>5. ASSUME NEW i \in 0 .. (h + 1) - 1
            PROVE  \E b \in Arc : /\ Eligible(c.G, c.chr, b) /\ StartNode(c.G, b) = q[i]
                                  /\ EndNode(c.G, b) = q[i + 1] /\ t[i + 1] = t[i] + StepLength(c, b)
        <5>1. CASE i = h
          <6>1. Eligible(c.G, c.chr, a) /\ EndNode(c.G, a) = w /\ x = y + StepLength(c, a)
            BY <3>5 DEF Extends
          <6>2. h \in 0 .. h
            BY <4>3
          <6>3. q[i] = StartNode(c.G, a) /\ t[i] = y /\ q[i + 1] = w /\ t[i + 1] = x
            BY <4>2, <4>4, <5>1, <6>2
          <6>. QED BY <6>1, <6>3
        <5>2. CASE i # h
          <6>1. i \in 0 .. h - 1 /\ i \in 0 .. h /\ i + 1 \in 0 .. h
            BY <4>3, <5>2
          <6>2. \E b \in Arc : /\ Eligible(c.G, c.chr, b) /\ StartNode(c.G, b) = p[i]
                               /\ EndNode(c.G, b) = p[i + 1] /\ s[i + 1] = s[i] + StepLength(c, b)
            BY <4>2, <6>1 DEF Trace
          <6>. QED BY <4>4, <6>1, <6>2
        <5>. QED BY <5>1, <5>2
      <4>6. q[0] \in X /\ t[0] = 0
        <5>1. 0 \in 0 .. h
          BY <4>3
        <5>. QED BY <4>2, <4>4, <5>1 DEF Trace
      <4>7. Trace(c, X, h + 1, q, t)
        BY <4>4, <4>5, <4>6 DEF Trace
      <4>8. Traced(c, X, j, w, x)
        BY <4>3, <4>4, <4>7 DEF Traced
      <4>. QED BY <2>2, <4>8
    <3>. QED BY <3>3, <3>4, <3>5
  <2>. QED BY <2>4, <2>5
<1>2. Good(k)
  BY <1>1
<1>. QED BY <1>2

(* A walk to a node of a trace goes on along the trace.                      *)
LEMMA TraceAlong ==
  ASSUME NEW c \in Calls, NEW X, NEW k \in Nat, NEW p, NEW s, Trace(c, X, k, p, s),
         NEW i \in 0 .. k, NEW Y, NEW h \in Nat, NEW e \in WalkLengths(c, Y, h)[p[i]],
         NEW t \in i .. k
  PROVE  e + (s[t] - s[i]) \in WalkLengths(c, Y, h + (t - i))[p[t]]
<1>. DEFINE Good(j) == e + (s[j] - s[i]) \in WalkLengths(c, Y, h + (j - i))[p[j]]
            Bad == {j \in i .. k : ~Good(j)}
<1>0. /\ i \in Nat /\ i .. k \subseteq Nat /\ i .. k \subseteq 0 .. k
      /\ p \in [0 .. k -> Node] /\ s \in [0 .. k -> Int]
  BY DEF Trace
<1>1. e \in Int
  BY <1>0, WalkBound
<1>2. Bad = {}
  <2>. SUFFICES ASSUME Bad # {} PROVE FALSE
    OBVIOUS
  <2>1. Bad \in SUBSET Nat
    BY <1>0
  <2>2. PICK j \in Bad : \A x \in Bad : j <= x
    BY <2>1, LeastNumber
  <2>3. j \in i .. k /\ j \in Nat /\ j \in 0 .. k /\ ~Good(j)
    BY <1>0
  <2>4. CASE j = i
    <3>1. s[i] \in Int
      BY <1>0
    <3>2. e + (s[j] - s[i]) = e /\ h + (j - i) = h
      BY <1>0, <1>1, <2>4, <3>1
    <3>. QED BY <2>3, <2>4, <3>2
  <2>5. CASE j # i
    <3>0. i \in Nat /\ j \in Nat /\ k \in Nat /\ h \in Nat /\ i < j /\ j <= k
      BY <1>0, <2>3, <2>5
    <3>1. /\ j - 1 \in i .. k /\ ~(j <= j - 1) /\ j - 1 \in 0 .. k - 1 /\ (j - 1) + 1 = j
          /\ j - 1 \in 0 .. k
          /\ h + (j - 1 - i) \in Nat /\ h + (j - i) = (h + (j - 1 - i)) + 1
      <4>. HIDE DEF Good, Bad
      <4>. QED BY <3>0
    <3>2. Good(j - 1)
      BY <2>2, <3>1
    <3>3. PICK a \in Arc : /\ Eligible(c.G, c.chr, a) /\ StartNode(c.G, a) = p[j - 1] /\ EndNode(c.G, a) = p[j]
                           /\ s[j] = s[j - 1] + StepLength(c, a)
      <4>. HIDE DEF Good, Bad
      <4>. DEFINE prior == j - 1
      <4>1. prior \in 0 .. k - 1 /\ prior + 1 = j
        BY <3>1
      <4>2. \A q \in 0 .. k - 1 : \E b \in Arc : /\ Eligible(c.G, c.chr, b) /\ StartNode(c.G, b) = p[q]
                                               /\ EndNode(c.G, b) = p[q + 1]
                                               /\ s[q + 1] = s[q] + StepLength(c, b)
        BY DEF Trace
      <4>. HIDE DEF prior
      <4>3. \E b \in Arc : /\ Eligible(c.G, c.chr, b) /\ StartNode(c.G, b) = p[prior]
                           /\ EndNode(c.G, b) = p[j] /\ s[j] = s[prior] + StepLength(c, b)
        BY <4>1, <4>2
      <4>. QED BY <4>3 DEF prior
    <3>4. p[j] \in Node /\ s[j] \in Int /\ s[j - 1] \in Int /\ s[i] \in Int /\ StepLength(c, a) \in Int
      <4>1. i \in 0 .. k
        OBVIOUS
      <4>2. StepLength(c, a) \in Int
        BY CallFacts
      <4>. QED BY <1>0, <2>3, <3>1, <4>1, <4>2
    <3>5. (e + (s[j - 1] - s[i])) + StepLength(c, a) \in WalkLengths(c, Y, (h + (j - 1 - i)) + 1)[p[j]]
      BY <3>1, <3>2, <3>3, <3>4, WalkExtend
    <3>6. (e + (s[j - 1] - s[i])) + StepLength(c, a) = e + (s[j] - s[i])
      BY <1>1, <3>3, <3>4
    <3>. QED BY <2>3, <3>1, <3>5, <3>6
  <2>. QED BY <2>4, <2>5
<1>. QED BY <1>2

(* n steps visit a node twice.                                               *)
LEMMA VisitedTwice ==
  ASSUME NEW f, \A i \in 0 .. n : f[i] \in Node
  PROVE  \E i, j \in 0 .. n : i < j /\ f[i] = f[j]
<1>. DEFINE g == [i \in 0 .. n |-> f[i]]
<1>1. IsFiniteSet(0 .. n) /\ Cardinality(0 .. n) = n + 1 /\ n \in Nat
  <2>1. n \in Nat /\ 0 \in Int /\ n \in Int /\ (IF 0 > n THEN 0 ELSE n - 0 + 1) = n + 1
    BY NodeFacts
  <2>. QED BY <2>1, FS_Interval
<1>2. IsFiniteSet(Node) /\ Cardinality(Node) = n /\ g \in [0 .. n -> Node]
  BY NodeFacts
<1>3. PICK i, j \in 0 .. n : i # j /\ g[i] = g[j]
  <2>. HIDE DEF g
  <2>1. Cardinality(Node) < Cardinality(0 .. n)
    BY <1>1, <1>2
  <2>. QED BY <1>1, <1>2, <2>1, FS_PigeonHole
<1>4. f[i] = f[j] /\ (i < j \/ j < i)
  BY <1>1, <1>3
<1>. QED BY <1>4

(* Without a closed walk of negative length no walk is shorter than every    *)
(* path: a walk of n arcs visits a node twice, and what lies between is no   *)
(* gain.                                                                     *)
NoGain(c, X) ==
  \A v \in Node : WalkLengths(c, X, n)[v] # {} => \A d \in WalkLengths(c, {v}, n)[v] : d >= 0

LEMMA ShortWalks ==
  ASSUME NEW c \in Calls, NEW X \in SUBSET Node, NoGain(c, X), NEW k \in Nat, NEW v \in Node,
         NEW d \in WalkLengths(c, X, k)[v]
  PROVE  \E e \in WalkLengths(c, X, n - 1)[v] : e <= d
<1>. DEFINE Short(w, x) == \E e \in WalkLengths(c, X, n - 1)[w] : e <= x
            Good(j) == \A w \in Node : \A x \in WalkLengths(c, X, j)[w] : Short(w, x)
            Bad == {j \in Nat : ~Good(j)}
<1>0. n \in Nat /\ n - 1 \in Nat /\ n - 1 \in 0 .. n
  BY NodeFacts
<1>1. Bad = {}
  <2>. SUFFICES ASSUME Bad # {} PROVE FALSE
    OBVIOUS
  <2>1. PICK j \in Bad : \A i \in Bad : j <= i
    BY LeastNumber
  <2>2. PICK w \in Node : \E x \in WalkLengths(c, X, j)[w] : ~Short(w, x)
    BY <2>1
  <2>3. PICK x \in WalkLengths(c, X, j)[w] : ~Short(w, x)
    BY <2>2
  <2>4. j \in Nat /\ x \in Int /\ \A i \in Nat : i < j => Good(i)
    BY <2>1, WalkBound
  <2>. HIDE DEF Short, Bad
  <2>5. PICK h \in 0 .. j : \E p \in [0 .. h -> Node], s \in [0 .. h -> Int] :
          Trace(c, X, h, p, s) /\ p[h] = w /\ s[h] = x
    <3>1. Traced(c, X, j, w, x)
      BY <2>4, TraceExists
    <3>. QED BY <3>1 DEF Traced
  <2>6. PICK p \in [0 .. h -> Node], s \in [0 .. h -> Int] :
          Trace(c, X, h, p, s) /\ p[h] = w /\ s[h] = x
    BY <2>5
  <2>7. h \in Nat /\ h <= j
    BY <2>4
  (* The part of a walk up to its node number i.                             *)
  <2>8. ASSUME NEW i \in 0 .. h
        PROVE  s[i] \in WalkLengths(c, X, i)[p[i]]
    <3>1. 0 \in 0 .. h /\ i \in 0 .. h /\ 0 + (i - 0) = i /\ i \in 0 .. h
      BY <2>7
    <3>2. 0 \in WalkLengths(c, X, 0)[p[0]] /\ s[0] = 0 /\ s[i] \in Int
      BY <2>6, <3>1, WalkZero DEF Trace
    <3>3. 0 + (s[i] - s[0]) \in WalkLengths(c, X, 0 + (i - 0))[p[i]]
      BY <2>6, <2>7, <3>1, <3>2, TraceAlong
    <3>4. 0 + (s[i] - s[0]) = s[i]
      BY <3>2
    <3>. QED BY <3>1, <3>3, <3>4
  <2>9. CASE h <= n - 1
    <3>1. h \in 0 .. h
      BY <2>7
    <3>2. x \in WalkLengths(c, X, h)[w]
      BY <2>6, <2>8, <3>1
    <3>3. x \in WalkLengths(c, X, n - 1)[w]
      BY <1>0, <2>7, <2>9, <3>2, WalkMonotone
    <3>4. Short(w, x)
      BY <2>4, <3>3 DEF Short
    <3>. QED BY <2>3, <3>4
  <2>10. CASE ~(h <= n - 1)
    <3>1. \A i \in 0 .. n : i \in 0 .. h
      BY <1>0, <2>7, <2>10
    <3>2. PICK i, t \in 0 .. n : i < t /\ p[i] = p[t]
      BY <2>6, <3>1, VisitedTwice
    <3>3. /\ i \in 0 .. h /\ t \in 0 .. h /\ i \in Nat /\ t \in Nat /\ t \in i .. h /\ h \in t .. h
          /\ 0 + (t - i) \in Nat /\ 0 + (t - i) <= n /\ i <= n
          /\ i + (h - t) \in Nat /\ i + (h - t) < j
      <4>1. i \in Nat /\ t \in Nat /\ i <= n /\ t <= n /\ t <= h /\ i <= h
        BY <1>0, <2>7, <3>1
      <4>. QED BY <1>0, <2>4, <2>7, <3>1, <3>2, <4>1
    <3>4. p[i] \in Node /\ s[i] \in Int /\ s[t] \in Int
      BY <2>6, <3>3
    <3>5. s[i] \in WalkLengths(c, X, n)[p[i]]
      BY <1>0, <2>8, <3>3, <3>4, WalkMonotone
    <3>6. s[t] - s[i] >= 0
      <4>. DEFINE Y == {p[i]}
      <4>0. p[i] \in Y
        OBVIOUS
      <4>. HIDE DEF Y
      <4>1. 0 \in WalkLengths(c, Y, 0)[p[i]]
        BY <3>4, <4>0, WalkZero
      <4>2. 0 + (s[t] - s[i]) \in WalkLengths(c, Y, 0 + (t - i))[p[t]]
        <5>1. 0 \in Nat
          OBVIOUS
        <5>. QED BY <2>6, <2>7, <3>3, <4>1, <5>1, TraceAlong
      <4>3. 0 + (s[t] - s[i]) \in WalkLengths(c, Y, n)[p[i]]
        <5>. DEFINE y == 0 + (s[t] - s[i])
        <5>1. y \in WalkLengths(c, Y, 0 + (t - i))[p[i]]
          BY <3>2, <4>2
        <5>. HIDE DEF y
        <5>2. y \in WalkLengths(c, Y, n)[p[i]]
          BY <1>0, <3>3, <3>4, <5>1, WalkMonotone
        <5>. QED BY <5>2 DEF y
      <4>4. 0 + (s[t] - s[i]) >= 0
        BY <3>4, <3>5, <4>3 DEF NoGain, Y
      <4>. QED BY <3>4, <4>4
    <3>7. s[i] + (s[h] - s[t]) \in WalkLengths(c, X, i + (h - t))[p[h]]
      <4>1. s[i] \in WalkLengths(c, X, i)[p[t]]
        BY <2>8, <3>2, <3>3
      <4>. QED BY <2>6, <2>7, <3>3, <4>1, TraceAlong
    <3>8. Short(w, s[i] + (x - s[t]))
      BY <2>4, <2>6, <3>3, <3>7
    <3>9. PICK e \in WalkLengths(c, X, n - 1)[w] : e <= s[i] + (x - s[t])
      BY <3>8 DEF Short
    <3>10. e \in Int
      BY <1>0, WalkBound
    <3>11. e <= x
      BY <2>4, <3>4, <3>6, <3>9, <3>10
    <3>12. Short(w, x)
      BY <3>11 DEF Short
    <3>. QED BY <2>3, <3>12
  <2>. QED BY <2>9, <2>10
<1>2. Good(k)
  BY <1>1
<1>. QED BY <1>2
(* Labels that no arc improves certify that there is no negative cycle: they *)
(* serve as node potentials.                                                 *)
LEMMA FinalNoGain ==
  ASSUME SearchInv, Final
  PROVE  /\ NoGain(call, Sources)
         /\ \A v \in Node : WalkLengths(call, Sources, n)[v] # {} <=> v \in Known
<1>0. /\ LooseInv /\ LabelBounds /\ (\A a \in Arc : Safe(a)) /\ Certified(call, dist, Sources, InfFloat)
      /\ (\A v \in Known : dist[v] \in WalkLengths(call, Sources, n - 1)[v])
  BY FinalWalks DEF Final, LooseInv
<1>1. /\ call \in Calls /\ dist \in [Node -> Int] /\ InfFloat \in Int /\ n \in Nat /\ n - 1 \in Nat
      /\ n - 1 <= n /\ n \in 0 .. n
  BY NodeFacts DEF SearchInv, Base
<1>2. ASSUME NEW v \in Node PROVE WalkLengths(call, Sources, n)[v] # {} <=> v \in Known
  <2>1. ASSUME NEW d \in WalkLengths(call, Sources, n)[v] PROVE v \in Known
    <3>1. dist[v] <= d \/ InfFloat <= d
      BY <1>0, <1>1, NoShorterWalk
    <3>2. d \in Int /\ d < InfFloat
      BY <1>1, PathsFinite
    <3>3. dist[v] \in Int /\ dist[v] # InfFloat
      BY <1>1, <3>1, <3>2
    <3>. QED BY <3>3 DEF Known
  <2>2. ASSUME v \in Known PROVE WalkLengths(call, Sources, n)[v] # {}
    <3>1. dist[v] \in WalkLengths(call, Sources, n)[v]
      BY <1>0, <1>1, <2>2, WalkMonotone
    <3>. QED BY <3>1
  <2>. QED BY <2>1, <2>2
<1>3. ASSUME NEW v \in Known, NEW d \in WalkLengths(call, {v}, n)[v] PROVE d >= 0
  <2>. DEFINE Y == {v}
              Good(j) == \A w \in Node : \A x \in WalkLengths(call, Y, j)[w] :
                           w \in Known /\ dist[w] <= dist[v] + x
              Bad == {j \in Nat : ~Good(j)}
  <2>0. v \in Node /\ dist[v] \in Int
    BY <1>1, KnownFacts
  <2>1. Bad = {}
    <3>. SUFFICES ASSUME Bad # {} PROVE FALSE
      OBVIOUS
    <3>1. PICK j \in Bad : \A i \in Bad : j <= i
      BY LeastNumber
    <3>2. PICK w \in Node : \E x \in WalkLengths(call, Y, j)[w] :
            ~(w \in Known /\ dist[w] <= dist[v] + x)
      BY <3>1
    <3>3. PICK x \in WalkLengths(call, Y, j)[w] : ~(w \in Known /\ dist[w] <= dist[v] + x)
      BY <3>2
    <3>4. j \in Nat /\ x \in Int /\ dist[w] \in Int
      BY <1>1, WalkBound
    <3>5. j # 0
      <4>. SUFFICES ASSUME j = 0 PROVE FALSE
        OBVIOUS
      <4>1. x = 0 /\ w \in Y
        BY WalkZero
      <4>2. w = v
        BY <4>1
      <4>. QED BY <2>0, <3>3, <4>1, <4>2
    <3>6. j - 1 \in Nat /\ ~(j <= j - 1)
      BY <3>4, <3>5
    <3>7. Good(j - 1)
      BY <3>1, <3>6
    <3>8. x \notin WalkLengths(call, Y, j - 1)[w]
      BY <3>3, <3>7
    <3>. HIDE DEF Y, Bad, Good
    <3>9. PICK a \in Arc : \E y \in WalkLengths(call, Y, j - 1)[StartNode(call.G, a)] :
            Extends(call, a, w, y, x)
      BY <3>4, <3>5, <3>8, WalkSplit
    <3>10. PICK y \in WalkLengths(call, Y, j - 1)[StartNode(call.G, a)] : Extends(call, a, w, y, x)
      BY <3>9
    <3>11. /\ Open(a) /\ End(a) = w /\ Start(a) = StartNode(call.G, a) /\ Start(a) \in Node
           /\ x = y + StepLength(call, a) /\ StepLength(call, a) \in Int /\ StepLength(call, a) <= MaxLength
      BY <1>1, <3>10, StepFacts, CallFacts DEF Extends
    <3>12. y \in Int
      BY <1>1, <3>6, <3>11, WalkBound
    <3>13. Start(a) \in Known /\ dist[Start(a)] <= dist[v] + y
      BY <3>7, <3>11 DEF Good
    <3>14. dist[w] <= dist[Start(a)] + StepLength(call, a)
      BY <1>0, <3>11, <3>13 DEF Safe
    <3>15. dist[Start(a)] \in Int
      BY <1>1, <3>11
    <3>16. w \in Known
      <4>. SUFFICES ASSUME w \notin Known PROVE FALSE
        OBVIOUS
      <4>1. dist[w] = InfFloat
        BY DEF Known
      <4>2. Cardinality(Known) \in 0 .. n
        BY KnownFacts
      <4>. DEFINE K == Cardinality(Known)
      <4>3. dist[Start(a)] <= (K - 1) * MaxLength
        BY <1>0, <3>13 DEF LabelBounds
      <4>. HIDE DEF K
      <4>4. /\ K * MaxLength \in Int /\ K * MaxLength < InfFloat /\ (K - 1) * MaxLength \in Int
            /\ K * MaxLength = (K - 1) * MaxLength + MaxLength /\ MaxLength \in Nat
        BY <4>2, PathBound DEF K
      <4>. QED BY <1>1, <3>11, <3>14, <3>15, <4>1, <4>3, <4>4
    <3>17. dist[w] <= dist[v] + x
      BY <2>0, <3>4, <3>11, <3>12, <3>13, <3>14, <3>15
    <3>. QED BY <3>3, <3>16, <3>17
  <2>2. Good(n)
    BY <1>1, <2>1
  <2>3. dist[v] <= dist[v] + d /\ d \in Int
    BY <1>1, <2>0, <2>2, WalkBound
  <2>. QED BY <2>0, <2>3
<1>. QED BY <1>2, <1>3 DEF NoGain

(* What the answers say of negative cycles is said in terms of walks.        *)
LEMMA NegativeCycles ==
  ASSUME NEW X
  PROVE  /\ NegativeCycleFrom(X) <=> \E v \in Node : WalkLengths(call, X, n)[v] # {} /\
                                       \E d \in WalkLengths(call, {v}, n)[v] : d < 0
         /\ Reachable(X) = {v \in Node : WalkLengths(call, X, n)[v] # {}}
<1>1. Reachable(X) = {v \in Node : WalkLengths(call, X, n)[v] # {}}
  BY DEF Reachable
<1>. QED BY <1>1 DEF NegativeCycleFrom

LEMMA NoGainMeans ==
  ASSUME SearchInv, NEW X
  PROVE  NoGain(call, X) <=> ~NegativeCycleFrom(X)
<1>1. call \in Calls /\ n \in Nat
  BY NodeFacts DEF SearchInv, Base
<1>2. \A v \in Node : \A d \in WalkLengths(call, {v}, n)[v] : d \in Int /\ (d >= 0 <=> ~(d < 0))
  <2>. TAKE v \in Node
  <2>. DEFINE Y == {v}
  <2>. HIDE DEF Y
  <2>1. \A d \in WalkLengths(call, Y, n)[v] : d \in Int
    BY <1>1, WalkBound
  <2>2. \A d \in WalkLengths(call, Y, n)[v] : d \in Int /\ (d >= 0 <=> ~(d < 0))
    BY <2>1
  <2>. QED BY <2>2 DEF Y
<1>. QED BY <1>2, NegativeCycles DEF NoGain
-------------------------------------------------------------------------------
(* The label correcting methods: passes and negative cycles.                 *)

(* After a pass no label exceeds the length of a walk with one more arc; the *)
(* arcs that a pass has been through have done their part already.           *)
Rounds == IF count <= n THEN count - 1 ELSE n - 1
Passed(a) ==
  IF call.proc = "BellmanFord" THEN a < idx
  ELSE Start(a) < idx \/ (Start(a) = u /\ a \notin unread[Start(a)])
PassInv ==
  /\ \A v \in Node : \A d \in Lengths(Rounds)[v] : dist[v] <= d
  /\ \A a \in Arc : Open(a) /\ Passed(a) =>
       \A d \in Lengths(Rounds)[Start(a)] : dist[End(a)] <= d + StepLength(call, a)

(* Without negative cycles n - 1 passes suffice.                             *)
LimitInv ==
  NoGain(call, call.S) =>
    /\ call.proc = "BellmanFord" => count <= n /\ (flag => count < n)
    /\ call.proc = "FIFO" => root = NoNode

LEMMA RoundFacts ==
  ASSUME SearchInv, Correcting, pc = "search"
  PROVE  /\ count \in Nat /\ 1 <= count /\ count <= 2 * n /\ n \in Nat /\ 1 <= n
         /\ Rounds \in Nat /\ Rounds \in 0 .. n
         /\ \A v \in Node : \A d \in Lengths(Rounds)[v] : d \in Int /\ d < InfFloat
<1>1. /\ count \in Nat /\ 1 <= count /\ count <= 2 * n /\ n \in Nat /\ 1 <= n
  <2>1. count \in 1 .. 2 * n
    BY DEF SearchInv, CountInv, Correcting
  <2>. QED BY <2>1, NodeFacts
<1>2. Rounds \in Nat /\ Rounds \in 0 .. n
  BY <1>1 DEF Rounds
<1>3. call \in Calls
  BY DEF SearchInv, Base
<1>4. \A v \in Node : \A d \in Lengths(Rounds)[v] : d \in Int /\ d < InfFloat
  BY <1>2, <1>3, PathsFinite DEF Lengths
<1>. QED BY <1>1, <1>2, <1>4

LEMMA PassKeeps ==
  ASSUME SearchInv, Correcting, pc = "search", PassInv, call' = call, count' = count,
         dist' \in [Node -> Int], \A v \in Node : dist'[v] <= dist[v],
         \A a \in Arc : Open(a) /\ Passed(a)' => Passed(a) \/
           \A d \in Lengths(Rounds)[Start(a)] : dist'[End(a)] <= d + StepLength(call, a)
  PROVE  PassInv'
<1>1. /\ dist \in [Node -> Int] /\ call \in Calls
  BY DEF SearchInv, Base
<1>2. Rounds' = Rounds /\ Lengths(Rounds)' = Lengths(Rounds)
  BY DEF Rounds, Lengths
<1>3. ASSUME NEW v \in Node, NEW d \in Lengths(Rounds)[v] PROVE dist'[v] <= d
  <2>1. dist[v] <= d /\ d \in Int /\ dist[v] \in Int /\ dist'[v] \in Int /\ dist'[v] <= dist[v]
    BY <1>1, RoundFacts DEF PassInv
  <2>. QED BY <2>1
<1>4. ASSUME NEW a \in Arc, Open(a), Passed(a)', NEW d \in Lengths(Rounds)[Start(a)]
      PROVE  dist'[End(a)] <= d + StepLength(call, a)
  <2>1. CASE \A x \in Lengths(Rounds)[Start(a)] : dist'[End(a)] <= x + StepLength(call, a)
    BY <2>1
  <2>2. CASE Passed(a)
    <3>1. /\ Start(a) \in Node /\ End(a) \in Node /\ StepLength(call, a) \in Int
      BY <1>1, GraphFacts, CallFacts
    <3>2. /\ dist[End(a)] <= d + StepLength(call, a) /\ d \in Int /\ dist[End(a)] \in Int
          /\ dist'[End(a)] \in Int /\ dist'[End(a)] <= dist[End(a)]
      BY <1>1, <1>4, <2>2, <3>1, RoundFacts DEF PassInv
    <3>. QED BY <3>1, <3>2
  <2>. QED BY <1>4, <2>1, <2>2
<1>. QED BY <1>2, <1>3, <1>4, SameCall DEF PassInv

(* A pass that has been through all arcs.                                    *)
LEMMA PassNext ==
  ASSUME SearchInv, Correcting, pc = "search", PassInv, call' = call, count' = count + 1,
         dist' = dist, \A a \in Arc : Open(a) => Passed(a) /\ ~Passed(a)'
  PROVE  PassInv'
<1>1. /\ dist \in [Node -> Int] /\ call \in Calls
  BY DEF SearchInv, Base
<1>2. Rounds' = Rounds \/ Rounds' = Rounds + 1
  BY RoundFacts DEF Rounds
<1>3. Lengths(Rounds)' = WalkLengths(call, call.S, Rounds')
  BY DEF Lengths
<1>4. ASSUME NEW v \in Node, NEW d \in Lengths(Rounds)'[v] PROVE dist[v] <= d
  <2>1. CASE d \in Lengths(Rounds)[v]
    BY <2>1 DEF PassInv
  <2>2. CASE d \notin Lengths(Rounds)[v]
    <3>1. Rounds' = Rounds + 1 /\ d \in WalkLengths(call, call.S, Rounds + 1)[v]
      BY <1>2, <1>3, <1>4, <2>2 DEF Lengths
    <3>2. PICK a \in Arc : \E x \in Lengths(Rounds)[StartNode(call.G, a)] : Extends(call, a, v, x, d)
      BY <2>2, <3>1, RoundFacts, WalkMore DEF Lengths
    <3>3. PICK x \in Lengths(Rounds)[StartNode(call.G, a)] : Extends(call, a, v, x, d)
      BY <3>2
    <3>4. Open(a) /\ End(a) = v /\ Start(a) = StartNode(call.G, a) /\ d = x + StepLength(call, a)
      BY <3>3, StepFacts DEF Extends
    <3>. QED BY <3>3, <3>4 DEF PassInv
  <2>. QED BY <2>1, <2>2
<1>. QED BY <1>4, SameCall DEF PassInv

(* A pass after the first n - 1 finds nothing to improve.                    *)
LEMMA NoUpdate ==
  ASSUME SearchInv, LooseInv, Correcting, pc = "search", PassInv, NoGain(call, call.S),
         n <= count, NEW a \in Arc
  PROVE  Safe(a)
<1>. SUFFICES ASSUME Open(a), Start(a) \in Known
              PROVE  dist[End(a)] <= dist[Start(a)] + StepLength(call, a)
  BY DEF Safe
<1>1. /\ dist \in [Node -> Int] /\ call \in Calls /\ call.S \in SUBSET Node
  BY CallsAssumption DEF SearchInv, Base
<1>2. Sources = call.S
  BY CorrectingStep
<1>3. PICK k \in Nat : dist[Start(a)] \in WalkLengths(call, call.S, k)[Start(a)]
  BY <1>2 DEF LooseInv, WalkLabels
<1>4. /\ Start(a) \in Node /\ End(a) \in Node /\ StepLength(call, a) \in Int
      /\ Start(a) = StartNode(call.G, a) /\ End(a) = EndNode(call.G, a) /\ Eligible(call.G, call.chr, a)
      /\ dist[Start(a)] \in Int /\ dist[End(a)] \in Int
  BY <1>1, GraphFacts, StepFacts
<1>5. dist[Start(a)] + StepLength(call, a) \in WalkLengths(call, call.S, k + 1)[End(a)]
  BY <1>3, <1>4, WalkExtend
<1>. DEFINE y == dist[Start(a)] + StepLength(call, a)
<1>6. y \in WalkLengths(call, call.S, k + 1)[End(a)] /\ k + 1 \in Nat /\ y \in Int
  BY <1>4, <1>5
<1>. HIDE DEF y
<1>7. PICK e \in WalkLengths(call, call.S, n - 1)[End(a)] : e <= y
  BY <1>1, <1>4, <1>6, ShortWalks
<1>8. Rounds = n - 1
  BY RoundFacts DEF Rounds
<1>9. dist[End(a)] <= e /\ e \in Int
  BY <1>4, <1>7, <1>8, RoundFacts DEF PassInv, Lengths
<1>10. dist[End(a)] <= y
  BY <1>4, <1>6, <1>7, <1>9
<1>. QED BY <1>10 DEF y
(* What an arc that has been looked at has done for the pass.                *)
LEMMA PassArc ==
  ASSUME SearchInv, Correcting, pc = "search", PassInv, NEW a \in Arc, NEW D \in [Node -> Int],
         Start(a) \in Known => D[End(a)] <= dist[Start(a)] + StepLength(call, a)
  PROVE  \A d \in Lengths(Rounds)[Start(a)] : D[End(a)] <= d + StepLength(call, a)
<1>1. /\ Start(a) \in Node /\ End(a) \in Node /\ StepLength(call, a) \in Int
      /\ dist[Start(a)] \in Int /\ InfFloat \in Int
  <2>1. call \in Calls /\ dist \in [Node -> Int]
    BY DEF SearchInv, Base
  <2>2. Start(a) \in Node /\ End(a) \in Node
    BY <2>1, GraphFacts
  <2>3. StepLength(call, a) \in Int
    BY StepFacts
  <2>4. dist[Start(a)] \in Int
    BY <2>1, <2>2
  <2>5. InfFloat \in Int
    BY NodeFacts
  <2>. QED BY <2>2, <2>3, <2>4, <2>5
<1>. TAKE d \in Lengths(Rounds)[Start(a)]
<1>2. dist[Start(a)] <= d /\ d \in Int /\ d < InfFloat
  BY <1>1, RoundFacts DEF PassInv
<1>3. Start(a) \in Known
  BY <1>1, <1>2 DEF Known
<1>4. D[End(a)] \in Int /\ D[End(a)] <= dist[Start(a)] + StepLength(call, a)
  BY <1>1, <1>3
<1>. QED BY <1>1, <1>2, <1>4

(* What the answers are made of.                                             *)
Told ==
  /\ NoGain(call, call.S) => /\ call.proc = "BellmanFord" /\ n > 1 => out[1] # "ERCheck"
                             /\ call.proc = "FIFO" => root = NoNode
  /\ call.proc = "BellmanFord" => out \in {<<"ERCheck", NoNode>>, Bool(Reached)}
  /\ call.proc = "FIFO" => out = FIFOResult
RoundInv ==
  /\ Correcting /\ pc = "search" => PassInv /\ LimitInv
  /\ Correcting /\ pc = "done" /\ ~Refused => Told

LEMMA RoundStart ==
  ASSUME SearchInv, ScanInv, BellmanStart \/ FIFOStart
  PROVE  RoundInv'
<1>1. /\ call' = call /\ count' = 1 /\ idx' = 0 /\ u' = NoNode /\ flag' = FALSE /\ pc' = "search"
      /\ dist' = Labelled /\ root' = root /\ pc = "called" /\ Correcting
  BY DEF BellmanStart, FIFOStart, Enter, Called, Correcting
<1>2. root' = NoNode
  BY <1>1 DEF ScanInv
<1>3. Rounds' = 0 /\ n \in Nat /\ 1 <= n
  BY <1>1, NodeFacts DEF Rounds
<1>4. \A v \in Node : \A d \in (Lengths(Rounds)')[v] : dist'[v] <= d
  <2>. TAKE v \in Node
  <2>. TAKE d \in (Lengths(Rounds)')[v]
  <2>1. d \in WalkLengths(call, call.S, 0)[v]
    BY <1>1, <1>3 DEF Lengths
  <2>2. v \in call.S /\ d = 0
    BY <2>1, WalkZero
  <2>3. dist'[v] = 0
    BY <1>1, <2>2 DEF Labelled
  <2>. QED BY <2>2, <2>3
<1>5. \A a \in Arc : ~Passed(a)'
  <2>. TAKE a \in Arc
  <2>1. Start(a) \in Node /\ Start(a)' = Start(a) /\ a \in Nat /\ Start(a) \in Nat /\ Start(a) # NoNode
    BY <1>1, GraphFacts, SameCall, NodeFacts DEF SearchInv, Base
  <2>2. ~(a < 0) /\ ~(Start(a) < 0)
    BY <2>1
  <2>. QED BY <1>1, <2>1, <2>2 DEF Passed
<1>6. PassInv'
  BY <1>4, <1>5 DEF PassInv
<1>7. LimitInv'
  BY <1>1, <1>2, <1>3 DEF LimitInv
<1>8. pc' # "done"
  BY <1>1
<1>. QED BY <1>6, <1>7, <1>8 DEF RoundInv

LEMMA RoundBellmanArc ==
  ASSUME SearchInv, ScanInv, RoundInv, BellmanArc
  PROVE  RoundInv'
<1>. DEFINE a == idx
<1>1. /\ pc = "search" /\ call.proc = "BellmanFord" /\ call' = call /\ count' = count
      /\ idx \in Arc /\ idx' = idx + 1 /\ pc' = pc /\ Correcting
  BY DEF BellmanArc, Searching, Correcting
<1>2. PassInv /\ LimitInv /\ LooseInv
  BY <1>1 DEF RoundInv, ScanInv
<1>3. /\ Start(a) \in Known => Looked(a)
      /\ Start(a) \notin Known => UNCHANGED <<dist, pred>>
  BY <1>1, BellmanArcScan
<1>. HIDE DEF a
<1>4. a \in Arc /\ a = idx
  BY <1>1 DEF a
<1>5. /\ dist' \in [Node -> Int] /\ (\A v \in Node : dist'[v] <= dist[v])
      /\ Open(a) /\ Start(a) \in Known => dist'[End(a)] <= dist[Start(a)] + StepLength(call, a)
  <2>1. CASE Start(a) \in Known
    BY <1>1, <1>2, <1>3, <1>4, <2>1, LookedFacts
  <2>2. CASE Start(a) \notin Known
    <3>1. dist \in [Node -> Int]
      BY DEF SearchInv, Base
    <3>. QED BY <1>3, <2>2, <3>1
  <2>. QED BY <2>1, <2>2
<1>6. PassInv'
  <2>1. ASSUME NEW b \in Arc, Open(b), Passed(b)'
        PROVE  Passed(b) \/ \A d \in Lengths(Rounds)[Start(b)] : dist'[End(b)] <= d + StepLength(call, b)
    <3>1. b < idx \/ b = a
      <4>1. b < idx + 1 /\ b \in Nat /\ idx \in Nat
        BY <1>1, <2>1, NodeFacts DEF Passed
      <4>. QED BY <1>4, <4>1
    <3>2. CASE b < idx
      BY <1>1, <3>2 DEF Passed
    <3>3. CASE b = a
      BY <1>1, <1>2, <1>4, <1>5, <2>1, <3>3, PassArc
    <3>. QED BY <3>1, <3>2, <3>3
  <2>. QED BY <1>1, <1>2, <1>5, <2>1, PassKeeps
<1>7. LimitInv'
  <2>. SUFFICES ASSUME NoGain(call, call.S) PROVE count <= n /\ (flag' => count < n)
    BY <1>1 DEF LimitInv
  <2>1. count <= n /\ (flag => count < n)
    BY <1>1, <1>2 DEF LimitInv
  <2>2. n <= count => flag' = flag
    <3>. SUFFICES ASSUME n <= count, flag' # flag PROVE FALSE
      OBVIOUS
    <3>1. Safe(a)
      BY <1>1, <1>2, <1>4, NoUpdate
    <3>2. /\ dist[End(a)] > dist[Start(a)] + l(a) /\ dist[Start(a)] # InfFloat /\ Open(a)
      BY <1>4 DEF BellmanArc
    <3>3. Start(a) \in Node /\ End(a) \in Node /\ StepLength(call, a) = l(a) /\ l(a) \in Int
      BY <1>1, <1>4, GraphFacts, CorrectingStep DEF SearchInv, Base
    <3>4. Start(a) \in Known
      BY <3>2, <3>3 DEF Known
    <3>5. dist[End(a)] <= dist[Start(a)] + l(a)
      BY <3>1, <3>2, <3>3, <3>4 DEF Safe
    <3>6. dist[End(a)] \in Int /\ dist[Start(a)] \in Int
      BY <3>3 DEF SearchInv, Base
    <3>. QED BY <3>2, <3>3, <3>5, <3>6
  <2>3. count \in Nat /\ n \in Nat
    BY <1>1, RoundFacts
  <2>. QED BY <2>1, <2>2, <2>3
<1>. QED BY <1>1, <1>6, <1>7 DEF RoundInv

LEMMA RoundBellmanPass ==
  ASSUME SearchInv, ScanInv, RoundInv, BellmanPass
  PROVE  RoundInv'
<1>1. /\ pc = "search" /\ call.proc = "BellmanFord" /\ call' = call /\ count' = count + 1
      /\ idx = 2 * m /\ Correcting /\ dist' = dist
  BY DEF BellmanPass, Searching, Correcting
<1>2. PassInv /\ LimitInv
  BY <1>1 DEF RoundInv
<1>3. count \in Nat /\ n \in Nat /\ 1 <= n
  BY <1>1, RoundFacts
<1>4. CASE flag /\ count + 1 < 2 * n
  <2>1. idx' = 0 /\ flag' = FALSE /\ pc' = "search"
    BY <1>1, <1>4 DEF BellmanPass
  <2>2. ASSUME NEW a \in Arc PROVE Passed(a) /\ ~Passed(a)'
    <3>1. a \in 0 .. 2 * m - 1 /\ m \in Nat
      BY NodeFacts DEF Arc
    <3>2. a < 2 * m /\ ~(a < 0)
      BY <3>1
    <3>. QED BY <1>1, <2>1, <3>2 DEF Passed
  <2>3. PassInv'
    BY <1>1, <1>2, <2>2, PassNext
  <2>4. LimitInv'
    BY <1>1, <1>2, <1>3, <1>4, <2>1 DEF LimitInv
  <2>. QED BY <2>1, <2>3, <2>4 DEF RoundInv
<1>5. CASE ~(flag /\ count + 1 < 2 * n)
  <2>1. pc' = "done" /\ out' = IF count + 1 = 2 * n THEN <<"ERCheck", NoNode>> ELSE Bool(Reached)
    BY <1>5 DEF BellmanPass, Return
  <2>2. Bool(Reached)' = Bool(Reached)
    BY <1>1 DEF Bool, Reached, Target
  <2>3. NoGain(call, call.S) /\ n > 1 => out'[1] # "ERCheck"
    <3>. SUFFICES ASSUME NoGain(call, call.S), n > 1 PROVE out'[1] # "ERCheck"
      OBVIOUS
    <3>1. count <= n
      BY <1>1, <1>2 DEF LimitInv
    <3>2. count + 1 # 2 * n
      BY <1>3, <3>1
    <3>. QED BY <2>1, <3>2 DEF Bool
  <2>4. Told'
    BY <1>1, <2>1, <2>2, <2>3 DEF Told
  <2>. QED BY <2>1, <2>4 DEF RoundInv
<1>. QED BY <1>4, <1>5
LEMMA RoundFIFONode ==
  ASSUME SearchInv, ScanInv, RoundInv, FIFONode \/ FIFOLeave
  PROVE  RoundInv'
<1>1. /\ pc = "search" /\ call.proc = "FIFO" /\ call' = call /\ count' = count /\ Correcting
      /\ dist' = dist /\ root' = root /\ pc' = pc
  BY DEF FIFONode, FIFOLeave, Searching, Expanding, Correcting
<1>2. PassInv /\ LimitInv /\ FIFOInv /\ dist \in [Node -> Int] /\ idx \in Nat /\ call \in Calls
      /\ unread \in [Node -> SUBSET Arc] /\ u \in Node \union {NoNode}
  BY <1>1 DEF RoundInv, ScanInv, SearchInv, Base
<1>3. LimitInv'
  BY <1>1, <1>2 DEF LimitInv
<1>4. ASSUME NEW b \in Arc, Open(b), Passed(b)'
      PROVE  Passed(b) \/ \A d \in Lengths(Rounds)[Start(b)] : dist[End(b)] <= d + StepLength(call, b)
  <2>1. /\ Start(b) \in Node /\ Start(b)' = Start(b) /\ Start(b) \in Nat /\ Start(b) # NoNode
        /\ b \in Incidences(G, Start(b))
    BY <1>1, <1>2, GraphFacts, SameCall, NodeFacts DEF Incidences, Start
  <2>2. Start(b) < idx' \/ (Start(b) = u' /\ b \notin unread'[Start(b)])
    BY <1>1, <1>4, <2>1 DEF Passed
  <2>3. CASE Start(b) < idx
    BY <1>1, <2>3 DEF Passed
  <2>4. CASE ~(Start(b) < idx) /\ FIFONode
    <3>1. u = NoNode /\ unread' = unread /\ unread[Start(b)] = Incidences(G, Start(b))
      BY <1>2, <2>1, <2>4 DEF FIFONode, FIFOInv
    <3>2. ~(Start(b) = u' /\ b \notin unread'[Start(b)])
      BY <2>1, <3>1
    <3>3. idx' = idx + 1 /\ idx \notin active
      BY <2>2, <2>4, <3>2 DEF FIFONode
    <3>4. Start(b) = idx
      BY <1>2, <2>1, <2>2, <2>4, <3>2, <3>3
    <3>5. Start(b) \in Known => Safe(b)
      BY <1>2, <2>1, <3>1, <3>3, <3>4 DEF FIFOInv
    <3>6. Start(b) \in Known => dist[End(b)] <= dist[Start(b)] + StepLength(call, b)
      BY <1>4, <3>5 DEF Safe
    <3>. QED BY <1>1, <1>2, <3>6, PassArc
  <2>5. CASE ~(Start(b) < idx) /\ FIFOLeave
    <3>1. u # NoNode /\ u = idx /\ u' = NoNode /\ idx' = idx + 1 /\ unread[u] = {}
      BY <1>2, <2>5 DEF FIFOLeave, Expanding, FIFOInv
    <3>2. Start(b) = idx
      BY <1>2, <2>1, <2>2, <2>5, <3>1
    <3>. QED BY <1>1, <3>1, <3>2 DEF Passed
  <2>. QED BY <2>3, <2>4, <2>5
<1>5. \A v \in Node : dist'[v] <= dist[v]
  BY <1>1, <1>2
<1>6. PassInv'
  BY <1>1, <1>2, <1>4, <1>5, PassKeeps
<1>. QED BY <1>1, <1>3, <1>6 DEF RoundInv

LEMMA RoundFIFORead ==
  ASSUME SearchInv, ScanInv, RoundInv, NEW a \in Arc, FIFORead(a)
  PROVE  RoundInv'
<1>1. /\ pc = "search" /\ call.proc = "FIFO" /\ Correcting /\ LooseInv /\ FIFOInv
      /\ call' = call /\ pc' = pc /\ u' = u /\ idx' = idx /\ count' = count
      /\ u \in Node /\ u # NoNode /\ Start(a) = u /\ End(a) \in Node /\ u \in Known
      /\ unread'[u] = unread[u] \ {a}
      /\ Looked(a)
      /\ \/ UNCHANGED <<dist, pred, active, flag, root>>
         \/ /\ dist'[End(a)] < dist[End(a)]
            /\ Open(a) /\ pred'[End(a)] = a /\ active' = active \union {End(a)}
            /\ IF count < 2 * n THEN flag' = TRUE /\ root' = root ELSE root' = u /\ flag' = flag
  BY FIFOReadFacts
<1>2. PassInv /\ LimitInv /\ dist \in [Node -> Int] /\ call \in Calls
  BY <1>1 DEF RoundInv, SearchInv, Base
<1>3. /\ dist' \in [Node -> Int] /\ (\A v \in Node : dist'[v] <= dist[v])
      /\ Open(a) => dist'[End(a)] <= dist[Start(a)] + StepLength(call, a)
  BY <1>1, LookedFacts
<1>4. ASSUME NEW b \in Arc, Open(b), Passed(b)'
      PROVE  Passed(b) \/ \A d \in Lengths(Rounds)[Start(b)] : dist'[End(b)] <= d + StepLength(call, b)
  <2>1. /\ Start(b) \in Node /\ Start(b)' = Start(b)
    BY <1>1, <1>2, GraphFacts, SameCall
  <2>2. Start(b) < idx \/ (Start(b) = u /\ b \notin unread'[Start(b)])
    BY <1>1, <1>4, <2>1 DEF Passed
  <2>3. CASE b = a
    BY <1>1, <1>2, <1>3, <1>4, <2>3, PassArc
  <2>4. CASE b # a
    BY <1>1, <2>2, <2>4 DEF Passed
  <2>. QED BY <2>3, <2>4
<1>5. PassInv'
  BY <1>1, <1>2, <1>3, <1>4, PassKeeps
<1>6. LimitInv'
  <2>. SUFFICES ASSUME NoGain(call, call.S) PROVE root' = NoNode
    BY <1>1 DEF LimitInv
  <2>1. root = NoNode
    BY <1>1, <1>2 DEF LimitInv
  <2>2. CASE root' = root
    BY <2>1, <2>2
  <2>3. CASE root' # root
    <3>1. ~(count < 2 * n) /\ dist'[End(a)] < dist[End(a)] /\ Open(a)
      BY <1>1, <2>3
    <3>2. n <= count
      BY <1>1, <3>1, RoundFacts
    <3>3. Safe(a)
      BY <1>1, <1>2, <3>2, NoUpdate
    <3>4. dist[End(a)] <= dist[Start(a)] + StepLength(call, a)
      BY <1>1, <3>1, <3>3 DEF Safe
    <3>5. /\ StepLength(call, a) \in Int /\ dist[End(a)] \in Int /\ dist[Start(a)] \in Int
      BY <1>1, <1>2, CorrectingStep
    <3>6. UNCHANGED <<dist, pred>>
      <4>1. ~(dist[Start(a)] + StepLength(call, a) < dist[End(a)])
        BY <3>4, <3>5
      <4>. QED BY <1>1, <4>1 DEF Looked
    <3>7. ~(dist[End(a)] < dist[End(a)])
      BY <3>5
    <3>. QED BY <3>1, <3>6, <3>7
  <2>. QED BY <2>2, <2>3
<1>. QED BY <1>1, <1>5, <1>6 DEF RoundInv

LEMMA RoundFIFOPass ==
  ASSUME SearchInv, ScanInv, RoundInv, FIFOPass
  PROVE  RoundInv'
<1>1. /\ pc = "search" /\ call.proc = "FIFO" /\ call' = call /\ count' = count + 1 /\ Correcting
      /\ idx = n /\ u = NoNode /\ u' = u /\ dist' = dist /\ pred' = pred /\ root' = root
  BY DEF FIFOPass, Searching, Correcting
<1>2. PassInv /\ LimitInv /\ call \in Calls
  BY <1>1 DEF RoundInv, SearchInv, Base
<1>3. CASE flag /\ count + 1 <= 2 * n
  <2>1. idx' = 0 /\ flag' = FALSE /\ pc' = "search"
    BY <1>1, <1>3 DEF FIFOPass
  <2>2. ASSUME NEW a \in Arc PROVE Passed(a) /\ ~Passed(a)'
    <3>1. Start(a) \in 0 .. n - 1 /\ n \in Nat /\ Start(a) # NoNode /\ Start(a)' = Start(a)
      BY <1>1, <1>2, GraphFacts, SameCall, NodeFacts DEF Node
    <3>2. Start(a) < n /\ ~(Start(a) < 0)
      BY <3>1
    <3>. QED BY <1>1, <2>1, <3>1, <3>2 DEF Passed
  <2>3. PassInv'
    BY <1>1, <1>2, <2>2, PassNext
  <2>4. LimitInv'
    BY <1>1, <1>2 DEF LimitInv
  <2>. QED BY <2>1, <2>3, <2>4 DEF RoundInv
<1>4. CASE ~(flag /\ count + 1 <= 2 * n)
  <2>1. pc' = "done" /\ out' = FIFOResult
    BY <1>4 DEF FIFOPass, Return
  <2>2. Bool(Reached)' = Bool(Reached) /\ Back(root)' = Back(root)
    BY <1>1 DEF Bool, Reached, Target, Back, Start, G
  <2>3. FIFOResult' = FIFOResult
    BY <1>1, <2>2 DEF FIFOResult
  <2>4. Told'
    BY <1>1, <1>2, <2>1, <2>3 DEF Told, LimitInv
  <2>. QED BY <2>1, <2>4 DEF RoundInv
<1>. QED BY <1>3, <1>4

LEMMA RoundInvariant == Spec => []RoundInv
<1>1. Init => RoundInv
  BY DEF Init, RoundInv
<1>2. RoundInv /\ SearchInv /\ ScanInv /\ [Next]_vars => RoundInv'
  <2>. SUFFICES ASSUME RoundInv, SearchInv, ScanInv, [Next]_vars PROVE RoundInv'
    OBVIOUS
  <2>1. CASE UNCHANGED vars
    <3>1. /\ call' = call /\ pc' = pc /\ dist' = dist /\ pred' = pred
          /\ unread' = unread /\ u' = u /\ idx' = idx /\ count' = count /\ flag' = flag
          /\ root' = root /\ out' = out
      BY <2>1 DEF vars
    <3>2. PassInv => PassInv'
      BY <3>1, SameCall DEF PassInv, Rounds, Passed, Lengths
    <3>3. LimitInv => LimitInv'
      BY <3>1 DEF LimitInv
    <3>4. Bool(Reached)' = Bool(Reached) /\ Back(root)' = Back(root) /\ (Refused' <=> Refused)
      BY <3>1 DEF Bool, Reached, Target, Back, Start, G, Refused
    <3>5. FIFOResult' = FIFOResult
      BY <3>1, <3>4 DEF FIFOResult
    <3>6. Told => Told'
      BY <3>1, <3>4, <3>5 DEF Told
    <3>. QED BY <3>1, <3>2, <3>3, <3>4, <3>6 DEF RoundInv, Correcting
  <2>2. CASE Next
    <3>1. /\ call' = call
          /\ call.proc = "BellmanFord" => Refuse \/ BellmanStart \/ BellmanArc \/ BellmanPass
          /\ call.proc = "FIFO" => \/ Refuse \/ FIFOStart \/ FIFONode \/ FIFOLeave \/ FIFOPass
                                   \/ \E a \in Arc : FIFORead(a)
      BY <2>2, StepsOf DEF ScanInv
    <3>2. CASE ~Correcting
      BY <3>1, <3>2 DEF RoundInv, Correcting
    <3>3. CASE Refuse
      <4>1. pc' = "done" /\ Refused'
        BY <3>1, <3>3 DEF Refuse, Refused, G
      <4>. QED BY <4>1 DEF RoundInv
    <3>4. CASE Correcting /\ ~Refuse
      BY <3>1, <3>4, RoundStart, RoundBellmanArc, RoundBellmanPass, RoundFIFONode,
        RoundFIFORead, RoundFIFOPass DEF Correcting
    <3>. QED BY <3>2, <3>3, <3>4
  <2>. QED BY <2>1, <2>2
<1>. QED BY <1>1, <1>2, SearchInvariant, ScanInvariant, PTL DEF Spec
-------------------------------------------------------------------------------
(* FIFO: the way back from a label that still improves is long.              *)

(* The level of a node is the pass that labelled it last.  Levels fall by at *)
(* most one along a predecessor arc, and only nodes of level 0 have none.    *)
Leveled(lev) ==
  /\ \A v \in Node : /\ lev[v] <= count
                     /\ pred[v] = NoArc => lev[v] = 0
                     /\ pred[v] # NoArc => lev[v] <= lev[Start(pred[v])] + 1
  /\ root # NoNode => 2 * n <= lev[root] + 1
Leading(lev) ==
  /\ \A v \in active : count <= lev[v] + 1 /\ (v < idx \/ v = u => count <= lev[v])
  /\ u # NoNode => count <= lev[u] + 1
LevelInv ==
  call.proc = "FIFO" =>
    /\ pc = "search" => \E lev \in [Node -> Nat] : Leveled(lev) /\ Leading(lev)
    /\ pc = "done" /\ ~Refused => LooseInv /\ \E lev \in [Node -> Nat] : Leveled(lev)

LEMMA LevelStart ==
  ASSUME SearchInv, ScanInv, FIFOStart
  PROVE  LevelInv'
<1>1. /\ call' = call /\ count' = 1 /\ u' = NoNode /\ pc' = "search" /\ pc = "called"
      /\ pred' = [v \in Node |-> NoArc] /\ root' = root /\ active' = call.S
  BY DEF FIFOStart, Enter, Called
<1>2. root' = NoNode /\ call.S \subseteq Node /\ idx' = 0 /\ \A v \in Node : ~(v < 0)
  <2>1. call \in Calls
    BY DEF SearchInv, Base
  <2>. QED BY <1>1, <2>1, CallsAssumption, NodeFacts DEF ScanInv, FIFOStart, Enter
<1>. DEFINE lev == [v \in Node |-> 0]
<1>3. lev \in [Node -> Nat] /\ \A v \in Node : lev[v] = 0
  OBVIOUS
<1>. HIDE DEF lev
<1>4. Leveled(lev)'
  BY <1>1, <1>2, <1>3 DEF Leveled
<1>5. Leading(lev)'
  <2>1. \A v \in call.S : v # NoNode /\ ~(v < 0) /\ lev[v] = 0
    BY <1>2, <1>3, NodeFacts
  <2>. QED BY <1>1, <1>2, <2>1 DEF Leading
<1>. QED BY <1>1, <1>3, <1>4, <1>5 DEF LevelInv

LEMMA LevelNode ==
  ASSUME SearchInv, ScanInv, LevelInv, FIFONode \/ FIFOLeave
  PROVE  LevelInv'
<1>1. /\ pc = "search" /\ call.proc = "FIFO" /\ call' = call /\ count' = count /\ Correcting
      /\ pred' = pred /\ root' = root /\ pc' = pc
  BY DEF FIFONode, FIFOLeave, Searching, Expanding, Correcting
<1>2. FIFOInv /\ idx \in Nat /\ active \subseteq Node /\ Node \subseteq Nat /\ NoNode \notin Node
  BY <1>1, NodeFacts DEF ScanInv, SearchInv, Base
<1>3. PICK lev \in [Node -> Nat] : Leveled(lev) /\ Leading(lev)
  BY <1>1 DEF LevelInv
<1>4. Leveled(lev)'
  BY <1>1, <1>3, SameCall DEF Leveled
<1>5. Leading(lev)'
  <2>1. CASE FIFOLeave
    <3>1. u' = NoNode /\ idx' = idx + 1 /\ active' = active /\ u = idx
      BY <1>2, <2>1 DEF FIFOLeave, Expanding, FIFOInv
    <3>2. \A v \in active : v < idx + 1 => v < idx \/ v = u
      BY <1>2, <3>1
    <3>3. \A v \in active : v # NoNode
      BY <1>2
    <3>. QED BY <1>1, <1>3, <3>1, <3>2, <3>3 DEF Leading
  <2>2. CASE FIFONode /\ idx \in active
    <3>1. u' = idx /\ active' = active \ {idx} /\ idx' = idx
      BY <2>2 DEF FIFONode
    <3>. QED BY <1>1, <1>3, <2>2, <3>1 DEF Leading
  <2>3. CASE FIFONode /\ idx \notin active
    <3>1. u' = u /\ u = NoNode /\ active' = active /\ idx' = idx + 1
      BY <2>3 DEF FIFONode
    <3>2. \A v \in active : v < idx + 1 => v < idx
      BY <1>2, <2>3
    <3>3. \A v \in active : v # NoNode
      BY <1>2
    <3>. QED BY <1>1, <1>3, <3>1, <3>2, <3>3 DEF Leading
  <2>. QED BY <2>1, <2>2, <2>3
<1>. QED BY <1>1, <1>3, <1>4, <1>5 DEF LevelInv

LEMMA LevelRead ==
  ASSUME SearchInv, ScanInv, LevelInv, NEW a \in Arc, FIFORead(a)
  PROVE  LevelInv'
<1>1. /\ pc = "search" /\ call.proc = "FIFO" /\ Correcting /\ LooseInv
      /\ call' = call /\ pc' = pc /\ u' = u /\ idx' = idx /\ count' = count
      /\ u \in Node /\ u # NoNode /\ Start(a) = u /\ End(a) \in Node /\ u \in Known
      /\ Looked(a)
      /\ \/ UNCHANGED <<dist, pred, active, flag, root>>
         \/ /\ dist'[End(a)] < dist[End(a)]
            /\ Open(a) /\ pred'[End(a)] = a /\ active' = active \union {End(a)}
            /\ IF count < 2 * n THEN flag' = TRUE /\ root' = root ELSE root' = u /\ flag' = flag
  BY FIFOReadFacts
<1>2. PICK lev \in [Node -> Nat] : Leveled(lev) /\ Leading(lev)
  BY <1>1 DEF LevelInv
<1>3. CASE UNCHANGED <<dist, pred, active, flag, root>>
  <2>1. Leveled(lev)' /\ Leading(lev)'
    BY <1>1, <1>2, <1>3, SameCall DEF Leveled, Leading
  <2>. QED BY <1>1, <1>2, <2>1 DEF LevelInv
<1>4. CASE ~UNCHANGED <<dist, pred, active, flag, root>>
  <2>1. /\ pred'[End(a)] = a /\ active' = active \union {End(a)}
        /\ root' = root \/ (root' = u /\ ~(count < 2 * n))
        /\ \A v \in Node : v # End(a) => pred'[v] = pred[v]
    BY <1>1, <1>4, LookedFacts
  <2>2. /\ count \in Nat /\ n \in Nat /\ NoArc \notin Arc /\ root \in Node \union {NoNode}
        /\ pred \in [Node -> Arc \union {NoArc}] /\ active \subseteq Node /\ call \in Calls
        /\ NoNode \notin Node
    BY <1>1, RoundFacts, NodeFacts DEF SearchInv, Base
  <2>3. PICK new \in [Node -> Nat] : new[End(a)] = count /\ \A v \in Node : v # End(a) => new[v] = lev[v]
    <3>1. [lev EXCEPT ![End(a)] = count] \in [Node -> Nat]
      BY <1>1, <2>2
    <3>2. /\ [lev EXCEPT ![End(a)] = count][End(a)] = count
          /\ \A v \in Node : v # End(a) => [lev EXCEPT ![End(a)] = count][v] = lev[v]
      BY <1>1, <2>2
    <3>. QED BY <3>1, <3>2
  <2>4. \A v \in Node : lev[v] <= new[v] /\ new[v] <= count /\ lev[v] \in Nat /\ new[v] \in Nat
    <3>. TAKE v \in Node
    <3>1. lev[v] \in Nat /\ new[v] \in Nat /\ lev[v] <= count
      BY <1>2, <2>3 DEF Leveled
    <3>. QED BY <2>2, <2>3, <3>1
  <2>5. count <= lev[u] + 1
    BY <1>1, <1>2 DEF Leading
  <2>6. ASSUME NEW v \in Node
        PROVE  /\ pred'[v] = NoArc => new[v] = 0
               /\ pred'[v] # NoArc => new[v] <= new[Start(pred'[v])] + 1
    <3>1. CASE v = End(a)
      <4>1. pred'[v] = a /\ a # NoArc /\ Start(pred'[v]) = u /\ new[v] = count
        BY <1>1, <2>1, <2>2, <2>3, <3>1
      <4>2. lev[u] <= new[u] /\ lev[u] \in Nat /\ new[u] \in Nat
        BY <1>1, <2>4
      <4>3. count <= new[u] + 1
        BY <2>2, <2>5, <4>2
      <4>. QED BY <4>1, <4>3
    <3>2. CASE v # End(a)
      <4>1. pred'[v] = pred[v] /\ new[v] = lev[v]
        BY <2>1, <2>3, <3>2
      <4>2. CASE pred[v] = NoArc
        BY <1>2, <4>1, <4>2 DEF Leveled
      <4>3. CASE pred[v] # NoArc
        <5>1. PICK b \in Arc : b = pred[v]
          BY <2>2, <4>3
        <5>2. Start(b) \in Node /\ lev[v] <= lev[Start(b)] + 1
          BY <1>2, <2>2, <4>3, <5>1, GraphFacts DEF Leveled
        <5>3. lev[Start(b)] <= new[Start(b)] /\ lev[v] \in Nat /\ lev[Start(b)] \in Nat
              /\ new[Start(b)] \in Nat
          BY <2>4, <5>2
        <5>4. lev[v] <= new[Start(b)] + 1
          BY <5>2, <5>3
        <5>. QED BY <4>1, <4>3, <5>1, <5>4
      <4>. QED BY <4>2, <4>3
    <3>. QED BY <3>1, <3>2
  <2>7. root' # NoNode => 2 * n <= new[root'] + 1
    <3>. SUFFICES ASSUME root' # NoNode PROVE 2 * n <= new[root'] + 1
      OBVIOUS
    <3>1. root' \in Node /\ 2 * n <= lev[root'] + 1
      <4>1. CASE root' = root
        BY <1>2, <2>2, <4>1 DEF Leveled
      <4>2. CASE root' = u /\ ~(count < 2 * n)
        <5>1. lev[u] \in Nat
          BY <1>1, <2>4
        <5>2. 2 * n <= lev[u] + 1
          BY <2>2, <2>5, <4>2, <5>1
        <5>. QED BY <1>1, <4>2, <5>2
      <4>. QED BY <2>1, <4>1, <4>2
    <3>2. lev[root'] <= new[root'] /\ lev[root'] \in Nat /\ new[root'] \in Nat
      BY <2>4, <3>1
    <3>. QED BY <2>2, <3>1, <3>2
  <2>8. Leveled(new)'
    <3>1. \A b : Start(b)' = Start(b)
      BY <1>1, SameCall
    <3>2. ASSUME NEW v \in Node
          PROVE  /\ new[v] <= count'
                 /\ pred'[v] = NoArc => new[v] = 0
                 /\ pred'[v] # NoArc => new[v] <= new[Start(pred[v])'] + 1
      BY <1>1, <2>4, <2>6, <3>1
    <3>. QED BY <2>7, <3>2 DEF Leveled
  <2>9. ASSUME NEW v \in active' PROVE count <= new[v] + 1 /\ (v < idx \/ v = u => count <= new[v])
    <3>1. CASE v = End(a)
      BY <2>2, <2>3, <3>1
    <3>2. CASE v # End(a)
      <4>1. v \in active /\ v \in Node
        BY <2>1, <2>2, <2>9, <3>2
      <4>2. count <= lev[v] + 1 /\ (v < idx \/ v = u => count <= lev[v]) /\ new[v] = lev[v]
        BY <1>2, <2>3, <3>2, <4>1 DEF Leading
      <4>. QED BY <4>2
    <3>. QED BY <3>1, <3>2
  <2>10. count <= new[u] + 1
    BY <1>1, <2>2, <2>4, <2>5
  <2>11. Leading(new)'
    <3>1. \A v \in active' : count' <= new[v] + 1 /\ (v < idx' \/ v = u' => count' <= new[v])
      BY <1>1, <2>9
    <3>2. count' <= new[u'] + 1
      BY <1>1, <2>10
    <3>. QED BY <3>1, <3>2 DEF Leading
  <2>12. pc' # "done"
    BY <1>1
  <2>13. \E k \in [Node -> Nat] : Leveled(k)' /\ Leading(k)'
    BY <2>3, <2>8, <2>11
  <2>. QED BY <2>12, <2>13 DEF LevelInv
<1>. QED BY <1>3, <1>4

LEMMA LevelPass ==
  ASSUME SearchInv, ScanInv, LevelInv, FIFOPass
  PROVE  LevelInv'
<1>1. /\ pc = "search" /\ call.proc = "FIFO" /\ call' = call /\ count' = count + 1 /\ Correcting
      /\ idx = n /\ u = NoNode /\ u' = u /\ dist' = dist /\ pred' = pred /\ root' = root
      /\ active' = active
  BY DEF FIFOPass, Searching, Correcting
<1>2. PICK lev \in [Node -> Nat] : Leveled(lev) /\ Leading(lev)
  BY <1>1 DEF LevelInv
<1>3. count \in Nat /\ n \in Nat /\ active \subseteq Node
  BY <1>1, RoundFacts DEF SearchInv, Base
<1>4. Leveled(lev)'
  <2>1. \A v \in Node : lev[v] <= count + 1
    <3>1. \A v \in Node : lev[v] \in Nat /\ lev[v] <= count
      BY <1>2 DEF Leveled
    <3>. QED BY <1>3, <3>1
  <2>. QED BY <1>1, <1>2, <2>1, SameCall DEF Leveled
<1>5. LooseInv'
  BY <1>1, LooseQuiet DEF ScanInv
<1>6. CASE pc' = "search"
  <2>1. idx' = 0
    BY <1>6 DEF FIFOPass, Return
  <2>2. ASSUME NEW v \in active PROVE count + 1 <= lev[v] + 1 /\ ~(v < 0) /\ v # NoNode
    <3>1. v \in 0 .. n - 1 /\ v # NoNode /\ lev[v] \in Nat
      BY <1>2, <1>3, NodeFacts DEF Node
    <3>2. v < idx
      BY <1>1, <1>3, <3>1
    <3>3. count <= lev[v]
      BY <1>2, <3>2 DEF Leading
    <3>. QED BY <1>3, <3>1, <3>3
  <2>3. Leading(lev)'
    BY <1>1, <2>1, <2>2 DEF Leading
  <2>. QED BY <1>2, <1>4, <1>6, <2>3 DEF LevelInv
<1>7. CASE pc' # "search"
  BY <1>2, <1>4, <1>5, <1>7 DEF LevelInv
<1>. QED BY <1>6, <1>7

LEMMA LevelInvariant == Spec => []LevelInv
<1>1. Init => LevelInv
  BY DEF Init, LevelInv
<1>2. LevelInv /\ SearchInv /\ ScanInv /\ [Next]_vars => LevelInv'
  <2>. SUFFICES ASSUME LevelInv, SearchInv, ScanInv, [Next]_vars PROVE LevelInv'
    OBVIOUS
  <2>1. CASE UNCHANGED vars
    <3>1. /\ call' = call /\ pc' = pc /\ dist' = dist /\ pred' = pred /\ active' = active
          /\ u' = u /\ idx' = idx /\ count' = count /\ root' = root
      BY <2>1 DEF vars
    <3>2. \A lev : (Leveled(lev) => Leveled(lev)') /\ (Leading(lev) => Leading(lev)')
      BY <3>1, SameCall DEF Leveled, Leading
    <3>3. (LooseInv => LooseInv') /\ (Refused' <=> Refused)
      BY <3>1, LooseQuiet DEF Refused, G
    <3>. QED BY <3>1, <3>2, <3>3 DEF LevelInv
  <2>2. CASE Next
    <3>1. /\ call' = call
          /\ call.proc = "FIFO" => \/ Refuse \/ FIFOStart \/ FIFONode \/ FIFOLeave \/ FIFOPass
                                   \/ \E a \in Arc : FIFORead(a)
      BY <2>2, StepsOf DEF ScanInv
    <3>2. CASE call.proc # "FIFO"
      BY <3>1, <3>2 DEF LevelInv
    <3>3. CASE Refuse
      <4>1. pc' = "done" /\ Refused'
        BY <3>1, <3>3 DEF Refuse, Refused, G
      <4>. QED BY <4>1 DEF LevelInv
    <3>4. CASE call.proc = "FIFO" /\ ~Refuse
      BY <3>1, <3>4, LevelStart, LevelNode, LevelRead, LevelPass
    <3>. QED BY <3>2, <3>3, <3>4
  <2>. QED BY <2>1, <2>2
<1>. QED BY <1>1, <1>2, SearchInvariant, ScanInvariant, PTL DEF Spec
(* So n steps back from the root end on a cycle of predecessor arcs.         *)
OnCycle(p, g) ==
  /\ g[p] = g[0]
  /\ \A i \in 0 .. p - 1 : pred[g[i]] # NoArc /\ g[i + 1] = Start(pred[g[i]])

LEMMA CycleBack ==
  ASSUME SearchInv, NEW lev \in [Node -> Nat], Leveled(lev), root # NoNode
  PROVE  /\ Back(root) \in Node
         /\ \E p \in 1 .. n : \E g \in [0 .. p -> Node] : g[0] = Back(root) /\ OnCycle(p, g)
<1>0. /\ n \in Nat /\ 1 <= n /\ 2 * n \in Nat /\ n <= 2 * n /\ NoNode \notin Node /\ root \in Node
      /\ pred \in [Node -> Arc \union {NoArc}] /\ call \in Calls
  BY NodeFacts DEF SearchInv, Base
<1>1. PICK f : WayBack(root, 2 * n, f)
  BY <1>0, WayBackExists
<1>2. f[0] = root /\ \A k \in 1 .. 2 * n : f[k] = Previous(f[k - 1])
  <2>1. 0 \in 0 .. 2 * n /\ \A k \in 1 .. 2 * n : k \in 0 .. 2 * n /\ k # 0
    BY <1>0
  <2>2. f[0] = root
    BY <1>1, <2>1 DEF WayBack
  <2>3. ASSUME NEW k \in 1 .. 2 * n PROVE f[k] = Previous(f[k - 1])
    BY <1>1, <2>1 DEF WayBack
  <2>. QED BY <2>2, <2>3
<1>3. Back(root) = f[n]
  <2>. DEFINE W == CHOOSE W : WayBack(root, n, W)
  <2>1. WayBack(root, n, W)
    BY <1>0, WayBackExists
  <2>2. Back(root) = W[n]
    BY DEF Back, WayBack, Previous
  <2>. HIDE DEF W
  <2>. DEFINE Bad == {k \in 0 .. n : W[k] # f[k]}
  <2>3. Bad = {}
    <3>. SUFFICES ASSUME Bad # {} PROVE FALSE
      OBVIOUS
    <3>1. Bad \in SUBSET Nat
      BY <1>0
    <3>2. PICK k \in Bad : \A i \in Bad : k <= i
      BY <3>1, LeastNumber
    <3>3. k \in 0 .. n /\ k \in Nat /\ W[k] # f[k]
      BY <1>0
    <3>4. W[k] = IF k = 0 THEN root ELSE Previous(W[k - 1])
      BY <2>1, <3>3 DEF WayBack
    <3>5. k # 0
      BY <1>2, <3>3, <3>4
    <3>6. k - 1 \in 0 .. n /\ ~(k <= k - 1) /\ k \in 1 .. 2 * n
      BY <1>0, <3>3, <3>5
    <3>7. W[k - 1] = f[k - 1]
      BY <3>2, <3>6
    <3>. QED BY <1>2, <3>3, <3>4, <3>5, <3>6, <3>7
  <2>4. n \in 0 .. n
    BY <1>0
  <2>. QED BY <2>2, <2>3, <2>4
<1>4. ASSUME NEW k \in 1 .. 2 * n, f[k - 1] \in Node, f[k] # NoNode
      PROVE  pred[f[k - 1]] # NoArc /\ f[k] = Start(pred[f[k - 1]]) /\ f[k] \in Node
  <2>1. pred[f[k - 1]] # NoArc /\ f[k] = Start(pred[f[k - 1]])
    BY <1>2, <1>4 DEF Previous
  <2>2. pred[f[k - 1]] \in Arc
    BY <1>0, <1>4, <2>1
  <2>. QED BY <1>0, <2>1, <2>2, GraphFacts
<1>5. \A k \in 0 .. n : f[k] \in Node
  <2>. DEFINE Good(k) == f[k] \in Node /\ 2 * n <= lev[f[k]] + 1 + k
              Bad == {k \in 0 .. n : ~Good(k)}
  <2>1. Bad = {}
    <3>. SUFFICES ASSUME Bad # {} PROVE FALSE
      OBVIOUS
    <3>1. Bad \in SUBSET Nat
      BY <1>0
    <3>2. PICK k \in Bad : \A i \in Bad : k <= i
      BY <3>1, LeastNumber
    <3>3. k \in 0 .. n /\ k \in Nat /\ ~Good(k)
      BY <1>0
    <3>4. k # 0
      <4>1. lev[root] \in Nat /\ 2 * n <= lev[root] + 1
        BY <1>0 DEF Leveled
      <4>2. 2 * n <= lev[root] + 1 + 0
        BY <1>0, <4>1
      <4>. QED BY <1>0, <1>2, <3>3, <4>2
    <3>5. k - 1 \in 0 .. n /\ ~(k <= k - 1) /\ k \in 1 .. 2 * n /\ k <= n
      BY <1>0, <3>3, <3>4
    <3>6. Good(k - 1)
      BY <3>2, <3>5
    <3>7. PICK x \in Node : x = f[k - 1]
      BY <3>6
    <3>8. lev[x] \in Nat /\ 2 * n <= lev[x] + 1 + (k - 1)
      BY <3>6, <3>7
    <3>9. lev[x] # 0
      BY <1>0, <3>3, <3>5, <3>8
    <3>10. pred[x] # NoArc
      BY <3>9 DEF Leveled
    <3>11. PICK b \in Arc : b = pred[x]
      BY <1>0, <3>10
    <3>12. f[k] = Start(b) /\ f[k] \in Node
      <4>1. f[k] = Start(b)
        BY <1>0, <1>2, <3>5, <3>7, <3>10, <3>11 DEF Previous
      <4>. QED BY <1>0, <4>1, GraphFacts
    <3>13. lev[x] <= lev[f[k]] + 1 /\ lev[f[k]] \in Nat
      BY <3>10, <3>11, <3>12 DEF Leveled
    <3>14. 2 * n <= lev[f[k]] + 1 + k
      BY <1>0, <3>3, <3>8, <3>13
    <3>. QED BY <3>3, <3>12, <3>14
  <2>. QED BY <2>1
<1>6. PICK i, j \in 0 .. n : i < j /\ f[i] = f[j]
  BY <1>5, VisitedTwice
<1>7. i \in Nat /\ j \in Nat /\ i < j /\ j <= n
  BY <1>0, <1>6
<1>8. \A t \in 0 .. 2 * n - j : f[i + t] = f[j + t]
  <2>. DEFINE Bad == {t \in 0 .. 2 * n - j : f[i + t] # f[j + t]}
  <2>1. Bad = {}
    <3>. SUFFICES ASSUME Bad # {} PROVE FALSE
      OBVIOUS
    <3>1. Bad \in SUBSET Nat
      BY <1>0, <1>7
    <3>2. PICK t \in Bad : \A s \in Bad : t <= s
      BY <3>1, LeastNumber
    <3>3. t \in 0 .. 2 * n - j /\ t \in Nat /\ f[i + t] # f[j + t]
      BY <1>0, <1>7
    <3>4. t # 0
      <4>1. i + 0 = i /\ j + 0 = j
        BY <1>7
      <4>. QED BY <1>6, <3>3, <4>1
    <3>5. /\ t - 1 \in 0 .. 2 * n - j /\ ~(t <= t - 1) /\ i + t \in 1 .. 2 * n /\ j + t \in 1 .. 2 * n
          /\ (i + t) - 1 = i + (t - 1) /\ (j + t) - 1 = j + (t - 1)
      BY <1>0, <1>7, <3>3, <3>4
    <3>6. f[i + (t - 1)] = f[j + (t - 1)]
      BY <3>2, <3>5
    <3>. QED BY <1>2, <3>3, <3>5, <3>6
  <2>. QED BY <2>1
<1>9. \A k \in 0 .. 2 * n : f[k] \in Node
  <2>. DEFINE Bad == {k \in 0 .. 2 * n : f[k] \notin Node}
  <2>1. Bad = {}
    <3>. SUFFICES ASSUME Bad # {} PROVE FALSE
      OBVIOUS
    <3>1. Bad \in SUBSET Nat
      BY <1>0
    <3>2. PICK k \in Bad : \A s \in Bad : k <= s
      BY <3>1, LeastNumber
    <3>3. k \in 0 .. 2 * n /\ k \in Nat /\ f[k] \notin Node
      BY <1>0
    <3>4. k > n
      BY <1>0, <1>5, <3>3
    <3>5. /\ k - j \in 0 .. 2 * n - j /\ j + (k - j) = k /\ i + (k - j) \in 0 .. 2 * n
          /\ ~(k <= i + (k - j))
      BY <1>0, <1>7, <3>3, <3>4
    <3>6. f[i + (k - j)] = f[k]
      BY <1>8, <3>5
    <3>7. i + (k - j) \in Bad
      BY <3>3, <3>5, <3>6
    <3>. QED BY <3>2, <3>5, <3>7
  <2>. QED BY <2>1
<1>. DEFINE p == j - i
            g == [k \in 0 .. p |-> f[n + k]]
<1>10. /\ p \in 1 .. n /\ p \in Nat /\ n - i \in 0 .. 2 * n - j /\ i + (n - i) = n /\ j + (n - i) = n + p
       /\ \A k \in 0 .. p : n + k \in 0 .. 2 * n
  BY <1>0, <1>7
<1>. HIDE DEF p
<1>11. g \in [0 .. p -> Node] /\ \A k \in 0 .. p : g[k] = f[n + k]
  BY <1>9, <1>10
<1>. HIDE DEF g
<1>12. g[0] = f[n] /\ g[p] = g[0]
  <2>1. 0 \in 0 .. p /\ p \in 0 .. p /\ n + 0 = n
    BY <1>0, <1>10
  <2>2. f[n] = f[n + p]
    BY <1>8, <1>10
  <2>. QED BY <1>11, <2>1, <2>2
<1>13. ASSUME NEW k \in 0 .. p - 1 PROVE pred[g[k]] # NoArc /\ g[k + 1] = Start(pred[g[k]])
  <2>1. k \in 0 .. p /\ k + 1 \in 0 .. p /\ n + (k + 1) \in 1 .. 2 * n /\ (n + (k + 1)) - 1 = n + k
    BY <1>0, <1>10
  <2>2. g[k] = f[n + k] /\ g[k + 1] = f[n + (k + 1)] /\ f[n + k] \in Node /\ f[n + (k + 1)] \in Node
    BY <1>9, <1>10, <1>11, <2>1
  <2>3. f[n + (k + 1)] # NoNode
    BY <1>0, <2>2
  <2>. QED BY <1>4, <2>1, <2>2, <2>3
<1>14. OnCycle(p, g)
  BY <1>12, <1>13 DEF OnCycle
<1>15. f[n] \in Node
  <2>1. n \in 0 .. n
    BY <1>0
  <2>. QED BY <1>5, <2>1
<1>. QED BY <1>3, <1>10, <1>11, <1>12, <1>14, <1>15
(* The nodes on the way back, each with the length of the way.               *)
LengthBack(v, k, f) ==
  f = [j \in 0 .. k |->
         IF j = 0 THEN <<v, 0>>
         ELSE <<Start(pred[f[j - 1][1]]), f[j - 1][2] + StepLength(call, pred[f[j - 1][1]])>>]

LEMMA LengthBackExists ==
  ASSUME NEW v, NEW k \in Nat
  PROVE  \E f : LengthBack(v, k, f)
<1>. DEFINE Longer(x) == <<Start(pred[x[1]]), x[2] + StepLength(call, pred[x[1]])>>
            Bad == {j \in Nat : ~ \E f : LengthBack(v, j, f)}
<1>. HIDE DEF Longer
<1>0. \A j, f : LengthBack(v, j, f) <=> f = [i \in 0 .. j |-> IF i = 0 THEN <<v, 0>> ELSE Longer(f[i - 1])]
  BY DEF LengthBack, Longer
<1>. SUFFICES ASSUME Bad # {} PROVE FALSE
  OBVIOUS
<1>1. PICK j \in Bad : \A i \in Bad : j <= i
  BY LeastNumber
<1>2. CASE j = 0
  <2>. DEFINE f == [i \in 0 .. 0 |-> <<v, 0>>]
  <2>1. f = [i \in 0 .. 0 |-> IF i = 0 THEN <<v, 0>> ELSE Longer(f[i - 1])]
    OBVIOUS
  <2>. HIDE DEF f
  <2>. QED BY <1>0, <1>2, <2>1
<1>3. CASE j # 0
  <2>1. j \in Nat /\ j - 1 \in Nat /\ ~(j <= j - 1)
    BY <1>3
  <2>2. PICK f : f = [i \in 0 .. j - 1 |-> IF i = 0 THEN <<v, 0>> ELSE Longer(f[i - 1])]
    BY <1>0, <1>1, <2>1
  <2>. DEFINE g == [i \in 0 .. j |-> IF i = j THEN Longer(f[j - 1]) ELSE f[i]]
              h == [i \in 0 .. j |-> IF i = 0 THEN <<v, 0>> ELSE Longer(g[i - 1])]
  <2>3. ASSUME NEW i \in 0 .. j PROVE g[i] = h[i]
    <3>1. CASE i = j
      <4>1. g[i] = Longer(f[j - 1]) /\ g[i - 1] = f[j - 1] /\ i # 0
        BY <1>3, <2>1, <3>1
      <4>. QED BY <4>1
    <3>2. CASE i # j
      <4>1. i \in 0 .. j - 1 /\ g[i] = f[i]
        BY <2>1, <3>2
      <4>2. f[i] = IF i = 0 THEN <<v, 0>> ELSE Longer(f[i - 1])
        BY <2>2, <4>1
      <4>3. CASE i = 0
        BY <4>1, <4>2, <4>3
      <4>4. CASE i # 0
        <5>1. g[i - 1] = f[i - 1]
          BY <2>1, <3>2, <4>4
        <5>. QED BY <4>1, <4>2, <4>4, <5>1
      <4>. QED BY <4>3, <4>4
    <3>. QED BY <3>1, <3>2
  <2>4. g = h
    BY <2>3
  <2>5. LengthBack(v, j, g)
    BY <1>0, <2>4
  <2>. HIDE DEF g, h
  <2>. QED BY <2>5
<1>. QED BY <1>2, <1>3

(* Along a cycle of predecessor arcs the labels explain every arc, or more,  *)
(* and some arc is not tight: the length of the cycle is negative.           *)
LEMMA CycleNegative ==
  ASSUME SearchInv, LooseInv, NEW p \in 1 .. n, NEW g \in [0 .. p -> Node], OnCycle(p, g),
         NEW f, LengthBack(g[0], n, f)
  PROVE  \E k \in 1 .. n : f[k][1] = g[0] /\ f[k][2] < 0
<1>0. /\ n \in Nat /\ p \in Nat /\ 1 <= p /\ p <= n
      /\ pred \in [Node -> Arc \union {NoArc}] /\ dist \in [Node -> Int] /\ call \in Calls
  BY NodeFacts DEF SearchInv, Base
<1>. DEFINE Along(k) ==
       /\ f[k][1] = g[k] /\ f[k][2] \in Int /\ f[k][2] <= dist[g[0]] - dist[g[k]]
       /\ f[k][2] = dist[g[0]] - dist[g[k]] => \A i \in 0 .. k - 1 : Explained(g[i])
            Bad == {k \in 0 .. p : ~Along(k)}
<1>1. Bad = {}
  <2>. SUFFICES ASSUME Bad # {} PROVE FALSE
    OBVIOUS
  <2>1. Bad \in SUBSET Nat
    BY <1>0
  <2>2. PICK k \in Bad : \A i \in Bad : k <= i
    BY <2>1, LeastNumber
  <2>3. k \in 0 .. p /\ k \in Nat /\ ~Along(k) /\ k \in 0 .. n
    BY <1>0
  <2>4. CASE k = 0
    <3>0. 0 \in 0 .. n
      BY <1>0
    <3>1. f[0] = <<g[0], 0>>
      BY <3>0 DEF LengthBack
    <3>2. f[0][1] = g[0] /\ f[0][2] = 0 /\ 0 \in 0 .. p
      BY <1>0, <3>1
    <3>3. dist[g[0]] \in Int
      BY <1>0, <3>2
    <3>4. 0 <= dist[g[0]] - dist[g[0]] /\ \A i \in 0 .. 0 - 1 : FALSE
      BY <3>3
    <3>. QED BY <2>3, <2>4, <3>2, <3>4
  <2>5. CASE k # 0
    <3>1. k - 1 \in 0 .. p /\ ~(k <= k - 1) /\ k - 1 \in 0 .. p - 1 /\ (k - 1) + 1 = k /\ 0 \in 0 .. p
      <4>1. k \in Nat /\ k <= p /\ k # 0 /\ p \in Nat
        BY <1>0, <2>3, <2>5
      <4>. HIDE DEF Along, Bad
      <4>. QED BY <4>1
    <3>2. Along(k - 1)
      BY <2>2, <3>1
    <3>3. PICK x \in Node : x = g[k - 1]
      BY <3>1
    <3>4. pred[x] # NoArc /\ g[k] = Start(pred[x])
      BY <3>1, <3>3 DEF OnCycle
    <3>5. PICK b \in Arc : b = pred[x]
      BY <1>0, <3>4
    <3>6. f[k] = <<Start(pred[f[k - 1][1]]), f[k - 1][2] + StepLength(call, pred[f[k - 1][1]])>>
      BY <2>3, <2>5 DEF LengthBack
    <3>7. f[k - 1][1] = x
      BY <3>2, <3>3
    <3>8. f[k][1] = g[k] /\ f[k][2] = f[k - 1][2] + StepLength(call, b)
      BY <3>4, <3>5, <3>6, <3>7
    <3>9. dist[x] >= dist[g[k]] + StepLength(call, b)
      BY <3>4, <3>5 DEF LooseInv, LooseArc
    <3>10. /\ StepLength(call, b) \in Int /\ dist[x] \in Int /\ dist[g[k]] \in Int /\ dist[g[0]] \in Int
           /\ f[k - 1][2] \in Int /\ f[k - 1][2] <= dist[g[0]] - dist[x]
      BY <1>0, <2>3, <3>1, <3>2, <3>3, StepFacts
    <3>11. PICK s \in Int, e \in Int, y \in Int, z \in Int, t \in Int :
             /\ s = f[k - 1][2] /\ e = StepLength(call, b) /\ y = dist[x] /\ z = dist[g[k]]
             /\ t = dist[g[0]]
      BY <3>10
    <3>12. s <= t - y /\ y >= z + e /\ f[k][2] = s + e
      BY <3>8, <3>9, <3>10, <3>11
    <3>13. f[k][2] \in Int /\ f[k][2] <= dist[g[0]] - dist[g[k]]
      <4>1. s + e \in Int /\ s + e <= t - z
        BY <3>12
      <4>. QED BY <3>11, <3>12, <4>1
    <3>14. ASSUME f[k][2] = dist[g[0]] - dist[g[k]], NEW i \in 0 .. k - 1
           PROVE  Explained(g[i])
      <4>1. f[k - 1][2] = dist[g[0]] - dist[x] /\ dist[x] = dist[g[k]] + StepLength(call, b)
        <5>1. s + e = t - z
          BY <3>14, <3>11, <3>12
        <5>2. s = t - y /\ y = z + e
          BY <3>12, <5>1
        <5>. QED BY <3>11, <5>2
      <4>2. CASE i = k - 1
        BY <3>3, <3>4, <3>5, <4>1, <4>2 DEF Explained
      <4>3. CASE i # k - 1
        <5>1. i \in 0 .. (k - 1) - 1
          BY <2>3, <4>3
        <5>. QED BY <3>2, <3>3, <4>1, <5>1
      <4>. QED BY <4>2, <4>3
    <3>. QED BY <2>3, <3>8, <3>13, <3>14
  <2>. QED BY <2>4, <2>5
<1>2. Along(p) /\ p \in 0 .. p /\ 0 \in 0 .. p
  <2>1. p \in 0 .. p /\ 0 \in 0 .. p
    BY <1>0
  <2>. QED BY <1>1, <2>1
<1>3. g[p] = g[0] /\ dist[g[0]] \in Int
  BY <1>0, <1>2 DEF OnCycle
<1>4. f[p][1] = g[0] /\ f[p][2] <= 0 /\ f[p][2] \in Int
  BY <1>2, <1>3
<1>5. f[p][2] # 0
  <2>. SUFFICES ASSUME f[p][2] = 0 PROVE FALSE
    OBVIOUS
  <2>1. \A i \in 0 .. p - 1 : Explained(g[i])
    BY <1>2, <1>3
  <2>. DEFINE C == {g[i] : i \in 0 .. p - 1}
  <2>2. 0 \in 0 .. p - 1 /\ 0 .. p - 1 \subseteq 0 .. p
    BY <1>0
  <2>3. C # {} /\ C \in SUBSET Node
    BY <2>2
  <2>4. ASSUME NEW i \in 0 .. p - 1
        PROVE  pred[g[i]] # NoArc /\ Start(pred[g[i]]) \in C /\ Explained(g[i])
    <3>1. pred[g[i]] # NoArc /\ Start(pred[g[i]]) = g[i + 1]
      BY DEF OnCycle
    <3>2. i + 1 \in 0 .. p - 1 \/ i + 1 = p
      BY <1>0
    <3>3. g[i + 1] \in C
      BY <1>3, <2>2, <3>2
    <3>. QED BY <2>1, <3>1, <3>3
  <2>5. TightCycle(C)
    BY <2>4 DEF TightCycle
  <2>. HIDE DEF C
  <2>. QED BY <2>3, <2>5 DEF LooseInv
<1>6. f[p][2] < 0
  BY <1>4, <1>5
<1>. QED BY <1>4, <1>6
-------------------------------------------------------------------------------
(* What the label correcting methods leave behind, and what they tell.       *)

(* A call that is refused does nothing else.                                 *)
RefusedInv == Refused => pc = "called" \/ (pc = "done" /\ out = <<"ERRejected", NoNode>>)

LEMMA RefusedInvariant == Spec => []RefusedInv
<1>1. Init => RefusedInv
  BY DEF Init, RefusedInv
<1>2. RefusedInv /\ ScanInv /\ LabelInv /\ [Next]_vars => RefusedInv'
  <2>. SUFFICES ASSUME RefusedInv, ScanInv, LabelInv, [Next]_vars, Refused' PROVE RefusedInv'
    BY DEF RefusedInv
  <2>1. CASE UNCHANGED vars
    BY <2>1 DEF vars, RefusedInv, Refused, G
  <2>2. CASE Next
    <3>1. call' = call /\ pc # "done"
      BY <2>2, StepsOf DEF ScanInv
    <3>2. Refused /\ pc = "called"
      BY <3>1 DEF RefusedInv, Refused, G
    <3>3. CASE Refuse
      BY <3>3 DEF Refuse, RefusedInv
    <3>4. CASE BFSStart \/ DijkstraStart \/ BellmanStart \/ FIFOStart \/ DAGStart
      BY <3>2, <3>4 DEF BFSStart, DijkstraStart, BellmanStart, FIFOStart, DAGStart, Called
    <3>5. CASE BFSDelete \/ BFSReturn \/ DijkstraDelete \/ DijkstraReturn \/ VoronoiMerge
                 \/ DAGDelete \/ DAGReturn
      BY <3>2, <3>5 DEF BFSDelete, BFSReturn, DijkstraDelete, DijkstraReturn, VoronoiMerge,
        DAGDelete, DAGReturn, Between, Searching
    <3>6. CASE BellmanArc \/ BellmanPass \/ FIFONode \/ FIFOLeave \/ FIFOPass
      BY <3>2, <3>6 DEF BellmanArc, BellmanPass, FIFONode, FIFOLeave, FIFOPass, Expanding, Searching
    <3>7. CASE \E a \in Arc : BFSRead(a) \/ DijkstraRead(a) \/ FIFORead(a) \/ DAGRead(a)
      BY <3>2, <3>7 DEF BFSRead, DijkstraRead, FIFORead, DAGRead, Expanding, Searching
    <3>. QED BY <2>2, <3>3, <3>4, <3>5, <3>6, <3>7 DEF Next
  <2>. QED BY <2>1, <2>2
<1>. QED BY <1>1, <1>2, ScanInvariant, LabelInvariant, PTL DEF Spec

LEMMA CorrectingResults ==
  ASSUME SearchInv, ScanInv, Correcting
  PROVE  ResultsExact
<1>1. ASSUME Done, Correct PROVE Final
  BY <1>1 DEF ScanInv, Done, Correct
<1>2. LabelsExact
  <2>. SUFFICES ASSUME Done, Correct, NEW v \in Node PROVE dist[v] = Distances(call, Sources)[v]
    BY DEF LabelsExact
  <2>. QED BY <1>1, FinalExact
<1>3. PathsLeadBack
  BY <1>1, FinalExact DEF PathsLeadBack
<1>4. call \in Calls
  BY DEF SearchInv, Base
<1>5. DAGResults /\ RegionsNearest
  BY <1>4, CallsAssumption DEF DAGResults, RegionsNearest, Correcting
<1>. QED BY <1>2, <1>3, <1>5 DEF ResultsExact

(* The answer yes or no is read off the label of the target.                 *)
LEMMA ReachedTrue ==
  ASSUME SearchInv, Final, call.proc # "Dijkstra", Sources = call.S
  PROVE  /\ Bool(Reached)[1] = "true" => call.T \subseteq Reachable(call.S)
         /\ Bool(Reached)[1] = "false" => call.T \intersect Reachable(call.S) = {}
         /\ Bool(Reached)[1] \in {"true", "false"}
<1>1. call \in Calls /\ call.T \subseteq Node
  BY CallsAssumption DEF SearchInv, Base
<1>2. Reachable(call.S) = Known
  BY FinalNoGain, NegativeCycles DEF Known
<1>3. Bool(Reached)[1] \in {"true", "false"} /\ (Bool(Reached)[1] = "true" <=> Reached)
  BY DEF Bool
<1>4. \A t \in call.T : call.T = {t}
  BY OneTarget
<1>5. call.T # {} => Target \in call.T
  BY DEF Target
<1>6. ASSUME Reached PROVE call.T \subseteq Known
  BY <1>1, <1>4, <1>5, <1>6 DEF Reached, Known
<1>7. ASSUME ~Reached PROVE call.T \intersect Known = {}
  BY <1>1, <1>4, <1>5, <1>7 DEF Reached, Known
<1>. QED BY <1>2, <1>3, <1>6, <1>7

LEMMA CorrectingAnswers ==
  ASSUME SearchInv, ScanInv, RoundInv, LevelInv, RefusedInv, Correcting,
         n > 1 \/ call.proc = "FIFO"
  PROVE  AnswersTrue
<1>. SUFFICES ASSUME Done PROVE AnswersTrue
  BY DEF AnswersTrue, ExceptionsTrue, CycleExported
<1>1. pc = "done" /\ Sources = call.S /\ call \in Calls
  BY CorrectingStep DEF Done, SearchInv, Base, Sources, Correcting
<1>2. CASE Refused
  <2>1. out[1] = "ERRejected"
    BY <1>1, <1>2 DEF RefusedInv
  <2>. QED BY <1>2, <2>1 DEF AnswersTrue, ExceptionsTrue, CycleExported, CycleNode
<1>3. CASE ~Refused
  <2>1. Told
    BY <1>1, <1>3 DEF RoundInv
  <2>2. call.proc = "FIFO" /\ root # NoNode =>
          /\ Back(root) \in Node
          /\ \E p \in 1 .. n : \E g \in [0 .. p -> Node] : g[0] = Back(root) /\ OnCycle(p, g)
    BY <1>1, <1>3, CycleBack DEF LevelInv
  <2>3. NoNode \notin Node
    BY NodeFacts
  <2>4. call.proc = "FIFO" =>
          out = IF root # NoNode
                THEN IF call.hub THEN <<"ERCheck", NoNode>> ELSE <<"node", Back(root)>>
                ELSE IF call.hub THEN Bool(Reached) ELSE <<"node", NoNode>>
    BY <2>1, <2>2, <2>3 DEF Told, FIFOResult
  <2>5. Bool(Reached)[1] \in {"true", "false"}
    BY DEF Bool
  <2>6. /\ out[1] # "ERRange" /\ out[1] # "ERRejected"
        /\ out[1] = "ERCheck" \/ CycleNode => ~NoGain(call, call.S)
        /\ out[1] \in {"true", "false"} => out = Bool(Reached)
    <3>1. CASE call.proc = "BellmanFord"
      BY <2>1, <2>5, <3>1 DEF Told, CycleNode
    <3>2. CASE call.proc = "FIFO"
      BY <2>1, <2>4, <2>5, <3>2 DEF Told, CycleNode
    <3>. QED BY <3>1, <3>2 DEF Correcting
  <2>7. Fails => out[1] = "ERCheck"
    BY <2>6 DEF Fails
  <2>8. ASSUME ~(out[1] = "ERCheck" \/ CycleNode) PROVE Final /\ NoGain(call, call.S)
    <3>1. Final
      BY <1>1, <2>7, <2>8 DEF ScanInv
    <3>. QED BY <1>1, <3>1, FinalNoGain
  <2>9. (out[1] = "ERCheck" \/ CycleNode) <=> NegativeCycleFrom(Sources)
    BY <1>1, <2>6, <2>8, NoGainMeans
  <2>10. ASSUME out[1] \in {"true", "false"} PROVE Final /\ out = Bool(Reached)
    BY <2>6, <2>8, <2>10 DEF CycleNode
  <2>11. /\ out[1] = "true" => call.T \subseteq Reachable(call.S)
         /\ out[1] = "false" => call.T \intersect Reachable(call.S) = {}
    BY <1>1, <2>10, ReachedTrue DEF Correcting
  <2>12. ExceptionsTrue
    BY <2>6, <2>9, <2>11 DEF ExceptionsTrue, Correcting
  <2>13. CycleExported
    <3>. SUFFICES ASSUME CycleNode PROVE CycleExported
      BY DEF CycleExported
    <3>1. call.proc = "FIFO" /\ root # NoNode /\ out[2] = Back(root)
      BY <2>4, <2>5 DEF CycleNode
    <3>2. PICK p \in 1 .. n : \E g \in [0 .. p -> Node] : g[0] = Back(root) /\ OnCycle(p, g)
      BY <2>2, <3>1
    <3>3. PICK g \in [0 .. p -> Node] : g[0] = Back(root) /\ OnCycle(p, g)
      BY <3>2
    <3>4. LooseInv
      BY <1>1, <1>3, <3>1 DEF LevelInv
    <3>. DEFINE W == CHOOSE W : LengthBack(out[2], n, W)
    <3>5. LengthBack(g[0], n, W)
      <4>1. n \in Nat
        BY NodeFacts
      <4>2. LengthBack(out[2], n, W)
        BY <4>1, LengthBackExists
      <4>. QED BY <3>1, <3>3, <4>2
    <3>. HIDE DEF W
    <3>6. \E k \in 1 .. n : W[k][1] = g[0] /\ W[k][2] < 0
      BY <3>3, <3>4, <3>5, CycleNegative
    <3>7. \E k \in 1 .. n : W[k][1] = out[2] /\ W[k][2] < 0
      BY <3>1, <3>3, <3>6
    <3>. QED BY <3>7 DEF CycleExported, W, LengthBack
  <2>. QED BY <2>12, <2>13 DEF AnswersTrue
<1>. QED BY <1>2, <1>3

-------------------------------------------------------------------------------
(* The search of acyclic digraphs: the nodes that have been numbered.        *)

Line == {queue[i] : i \in 1 .. Len(queue)}
Taken == {v \in Node : idg[v] = 0} \ Line

(* The arcs of a numbered node are read, the last one's are being read.      *)
ReadOrder ==
  /\ u # NoNode => u \in Taken
  /\ \A v \in Taken : v # u => unread[v] = {}
  /\ \A v \in Node \ Taken : unread[v] = Incidences(G, v)

(* Numbers grow along the arcs.  In a critical path search, which colours no *)
(* node, a label is the length of a walk with no more arcs than the number.  *)
Ranked(r) ==
  /\ \A v \in Taken : r[v] < count
  /\ \A a \in Arc : Open(a) /\ End(a) \in Taken => Start(a) \in Taken /\ r[Start(a)] < r[End(a)]
  /\ ~Critical => \A v \in Node : colour[v] = IF v \in Taken THEN r[v] ELSE NoNode
  /\ Critical => \A v \in Taken : dist[v] \in WalkLengths(call, Roots, r[v])[v]

(* The arcs that have been read cannot improve a label.                      *)
HasRead(a) == Start(a) \in Taken /\ a \notin unread[Start(a)]
ShortOrder ==
  call.opt = "DAG_SPTREE" => LooseInv /\ \A a \in Arc : HasRead(a) => Safe(a)
LongOrder ==
  Critical =>
    /\ \A v \in Roots : dist[v] >= 0
    /\ \A v \in Node \ Taken : dist[v] = -InfFloat \/ dist[v] \in WalkLengths(call, Roots, count)[v]
    /\ \A a \in Arc : HasRead(a) /\ Open(a) => dist[End(a)] >= dist[Start(a)] + StepLength(call, a)

Ordered ==
  /\ call.chr = "PLAIN" /\ active = {}
  /\ ReadOrder /\ ShortOrder /\ LongOrder
  /\ \E r \in [Node -> Nat] : Ranked(r)
OrderInv ==
  call.proc = "DAGSearch" =>
    /\ pc = "search" => Ordered
    /\ pc = "done" /\ ~Refused =>
         /\ Ordered /\ queue = <<>> /\ (\A v \in Taken : unread[v] = {})
         /\ count = Cardinality(Taken) /\ (\A v \in Node : idg[v] = Cardinality(Entering(v)))
         /\ out = DAGResult

(* The numbered nodes are the ones that neither wait nor stand in the queue. *)
LEMMA TakenFacts ==
  ASSUME SearchInv, call.proc = "DAGSearch", pc = "search"
  PROVE  /\ Taken \subseteq Node /\ Line \subseteq Node /\ Cardinality(Taken) = count
         /\ \A v \in Line : idg[v] = 0 /\ v \notin Taken
<1>1. /\ queue \in Seq(Node) /\ Len(queue) \in Nat /\ queue \in [1 .. Len(queue) -> Node]
      /\ idg \in [Node -> Nat] /\ count \in Nat /\ n \in Nat
  BY LenProperties, NodeFacts DEF SearchInv, Base, CountInv
<1>2. /\ \A i \in 1 .. Len(queue) : idg[queue[i]] = 0
      /\ count + Len(queue) + Cardinality(Waiting) = n
  BY DEF SearchInv, DAGInv
<1>3. Taken \subseteq Node /\ Line \subseteq Node /\ \A v \in Line : idg[v] = 0 /\ v \notin Taken
  BY <1>1, <1>2 DEF Taken, Line
<1>4. IsFiniteSet(Line) /\ Cardinality(Line) = Len(queue)
  <2>1. IsFiniteSet(1 .. Len(queue)) /\ Cardinality(1 .. Len(queue)) = Len(queue)
    <3>1. 1 \in Int /\ Len(queue) \in Int
          /\ (IF 1 > Len(queue) THEN 0 ELSE Len(queue) - 1 + 1) = Len(queue)
      BY <1>1
    <3>. QED BY <3>1, FS_Interval
  <2>2. queue \in [1 .. Len(queue) -> Line]
    BY <1>1 DEF Line
  <2>3. queue \in Surjection(1 .. Len(queue), Line)
    BY <2>2 DEF Surjection, Line
  <2>4. queue \in Injection(1 .. Len(queue), Line)
    BY <2>2 DEF Injection, IsInjective, SearchInv, QueueInv
  <2>. QED BY <2>1, <2>3, <2>4, FS_Surjection
<1>5. IsFiniteSet(Waiting) /\ Cardinality(Waiting) \in Nat /\ Waiting \subseteq Node
  <2>1. IsFiniteSet(Waiting)
    BY NodeFacts, FS_Subset DEF Waiting
  <2>. QED BY <2>1, FS_CardinalityType DEF Waiting
<1>6. Line \intersect Waiting = {}
  BY <1>3 DEF Waiting
<1>7. IsFiniteSet(Line \union Waiting) /\ Cardinality(Line \union Waiting) = Len(queue) + Cardinality(Waiting)
  <2>1. Cardinality(Line \intersect Waiting) = 0
    BY <1>6, FS_EmptySet
  <2>2. IsFiniteSet(Line \union Waiting) /\ Cardinality(Line \union Waiting) =
          Cardinality(Line) + Cardinality(Waiting) - Cardinality(Line \intersect Waiting)
    BY <1>4, <1>5, FS_Union
  <2>. QED BY <1>1, <1>4, <1>5, <2>1, <2>2
<1>8. Taken = Node \ (Line \union Waiting) /\ Node \intersect (Line \union Waiting) = Line \union Waiting
  BY <1>3, <1>5 DEF Taken, Waiting
<1>9. Cardinality(Taken) = n - (Len(queue) + Cardinality(Waiting))
  <2>. DEFINE Rest == Line \union Waiting
  <2>1. IsFiniteSet(Node) /\ Cardinality(Node) = n
    BY NodeFacts
  <2>2. Taken = Node \ Rest /\ Node \intersect Rest = Rest /\ Cardinality(Rest) = Len(queue) + Cardinality(Waiting)
    BY <1>7, <1>8
  <2>. HIDE DEF Rest
  <2>3. Cardinality(Node \ Rest) = Cardinality(Node) - Cardinality(Node \intersect Rest)
    BY <2>1, FS_Difference
  <2>. QED BY <2>1, <2>2, <2>3
<1>10. Cardinality(Taken) = count
  BY <1>1, <1>2, <1>5, <1>9
<1>. QED BY <1>3, <1>10

(* Length labels are read as they are.                                       *)
LEMMA PlainStep ==
  ASSUME SearchInv, call.proc = "DAGSearch", call.chr = "PLAIN", NEW a \in Arc
  PROVE  /\ StepLength(call, a) = Length(G, a) /\ StepLength(call, a) \in Int
         /\ Length(G, a) \in Int /\ Start(a) \in Node /\ End(a) \in Node
         /\ Critical => -MaxLength <= StepLength(call, a)
<1>1. /\ call \in Calls /\ call.epsilon = 0
      /\ Critical => -MaxLength <= StepLength(call, a)
  BY CallsAssumption DEF SearchInv, Base, Critical
<1>2. Length(G, a) \in Int /\ Start(a) \in Node /\ End(a) \in Node
  BY <1>1, GraphFacts
<1>3. StepLength(call, a) = Length(G, a) + 0
  BY <1>1 DEF StepLength, SearchLength, G
<1>. QED BY <1>1, <1>2, <1>3

LEMMA SameRoots ==
  ASSUME call' = call
  PROVE  Roots' = Roots /\ (Critical' <=> Critical)
BY DEF Roots, InDegree, Open, End, G, Critical

LEMMA OrderStart ==
  ASSUME SearchInv, ScanInv, DAGStart
  PROVE  OrderInv'
<1>1. /\ call.proc = "DAGSearch" /\ pc = "called" /\ ~Refused /\ Enter(DAGLabels)
      /\ idg' = [v \in Node |-> InDegree(v)] /\ queue' = InOrder(Roots) /\ count' = 0
      /\ colour' = [v \in Node |-> NoNode] /\ active' = active
  BY DEF DAGStart, Called
<1>2. /\ call' = call /\ pc' = "search" /\ dist' = DAGLabels /\ pred' = [v \in Node |-> NoArc]
      /\ unread' = [v \in Node |-> Incidences(G, v)] /\ u' = NoNode
  BY <1>1 DEF Enter
<1>3. call \in Calls /\ Roots \in SUBSET Node /\ NoNode \notin Node
  BY NodeFacts DEF SearchInv, Base, Roots
<1>4. call.chr = "PLAIN" /\ active' = {}
  BY <1>1, <1>3, CallsAssumption DEF Refused, ScanInv
<1>5. Line' = Roots
  <2>. DEFINE q == InOrder(Roots)
  <2>1. /\ q \in Seq(Node) /\ Len(q) = Cardinality(Roots)
        /\ (\A i \in 1 .. Len(q) : q[i] \in Roots)
        /\ \A i, j \in 1 .. Len(q) : q[i] = q[j] => i = j
    BY <1>3, InOrderFacts
  <2>. HIDE DEF q
  <2>2. IsFiniteSet(Roots) /\ Cardinality(Roots) \in Nat
    BY <1>3, NodeFacts, FS_Subset, FS_CardinalityType
  <2>3. q \in [1 .. Len(q) -> Roots]
    BY <2>1, LenProperties
  <2>4. q \in Injection(1 .. Len(q), Roots)
    BY <2>1, <2>3 DEF Injection, IsInjective
  <2>5. Cardinality(1 .. Len(q)) = Cardinality(Roots)
    <3>1. 1 \in Int /\ Len(q) \in Int /\ (IF 1 > Len(q) THEN 0 ELSE Len(q) - 1 + 1) = Len(q)
      BY <2>1, <2>2
    <3>. QED BY <2>1, <3>1, FS_Interval
  <2>6. q \in Surjection(1 .. Len(q), Roots)
    BY <2>2, <2>4, <2>5, FS_Injection
  <2>7. {q[i] : i \in 1 .. Len(q)} = Roots
    BY <2>1, <2>6 DEF Surjection
  <2>. QED BY <1>1, <2>7 DEF Line, q
<1>6. Taken' = {}
  BY <1>1, <1>5 DEF Taken, Roots
<1>7. ReadOrder'
  BY <1>2, <1>6, SameCall DEF ReadOrder
<1>8. \A a : ~HasRead(a)'
  BY <1>6 DEF HasRead
<1>9. ShortOrder'
  <2>. SUFFICES ASSUME call.opt = "DAG_SPTREE" PROVE LooseInv'
    BY <1>2, <1>8 DEF ShortOrder
  <2>1. \A v : v \in Sources <=> v \in call.S \/ (call.S = {} /\ v \in Roots)
    BY <1>1 DEF Sources
  <2>2. dist' = [v \in Node |-> IF v \in Sources THEN 0 ELSE InfFloat]
    BY <1>2, <2>1 DEF DAGLabels, Critical
  <2>. QED BY <1>2, <2>2, LooseStart
<1>10. LongOrder'
  <2>. SUFFICES ASSUME Critical
                PROVE  /\ \A v \in Roots : dist'[v] >= 0
                       /\ \A v \in Node : dist'[v] = -InfFloat \/
                            dist'[v] \in WalkLengths(call, Roots, 0)[v]
    BY <1>1, <1>2, <1>6, <1>8, SameRoots DEF LongOrder
  <2>1. dist' = [v \in Node |-> IF v \in Roots THEN 0 ELSE -InfFloat]
    BY <1>2 DEF DAGLabels, Critical
  <2>2. \A v \in Node : v \in Roots => 0 \in WalkLengths(call, Roots, 0)[v]
    BY WalkZero
  <2>. QED BY <1>3, <2>1, <2>2
<1>11. \E r \in [Node -> Nat] : Ranked(r)'
  <2>. DEFINE r == [v \in Node |-> 0]
  <2>1. r \in [Node -> Nat]
    OBVIOUS
  <2>. HIDE DEF r
  <2>2. Ranked(r)'
    BY <1>1, <1>6 DEF Ranked
  <2>. QED BY <2>1, <2>2
<1>12. Ordered'
  BY <1>2, <1>4, <1>7, <1>9, <1>10, <1>11 DEF Ordered
<1>. QED BY <1>2, <1>12 DEF OrderInv
(* Reading an arc numbers no node, and leads to one that has no number.      *)
LEMMA OrderReadFacts ==
  ASSUME SearchInv, OrderInv, NEW a \in Arc, DAGRead(a)
  PROVE  /\ call.proc = "DAGSearch" /\ pc = "search" /\ Ordered
         /\ call' = call /\ pc' = pc /\ colour' = colour /\ active' = active /\ u' = u /\ count' = count
         /\ Taken' = Taken /\ u \in Taken /\ u \in Node /\ Start(a) = u /\ End(a) \in Node
         /\ Open(a) => End(a) \notin Taken
         /\ a \in unread[u]
         /\ \A b \in Arc : HasRead(b)' <=> HasRead(b) \/ b = a
         /\ ReadOrder'
         /\ IF Open(a) /\ DAGImproves(a) THEN Improve(a, dist[u] + Length(G, a))
                                         ELSE dist' = dist /\ pred' = pred
<1>1. /\ call.proc = "DAGSearch" /\ pc = "search" /\ u # NoNode /\ Read(a)
      /\ call' = call /\ pc' = pc /\ colour' = colour /\ active' = active /\ u' = u /\ count' = count
  BY DEF DAGRead, Expanding, Searching
<1>2. Ordered /\ ReadOrder
  BY <1>1 DEF OrderInv, Ordered
<1>3. /\ u \in Node /\ Start(a) = u /\ End(a) \in Node /\ a \in unread[u]
      /\ unread'[u] = unread[u] \ {a}
      /\ \A v \in Node : v # u => unread'[v] = unread[v]
  BY <1>1, ReadFacts
<1>4. u \in Taken
  BY <1>1, <1>2 DEF ReadOrder
<1>5. /\ queue \in Seq(Node) /\ Len(queue) \in Nat /\ idg \in [Node -> Nat] /\ call \in Calls
  BY LenProperties DEF SearchInv, Base
<1>6. Open(a) => idg[End(a)] # 0
  <2>. SUFFICES ASSUME Open(a) PROVE idg[End(a)] # 0
    OBVIOUS
  <2>1. a \in Entering(End(a)) /\ idg[End(a)] = Cardinality(Entering(End(a)))
    BY <1>1, <1>3 DEF Entering, SearchInv, DAGInv
  <2>2. IsFiniteSet(Entering(End(a)))
    BY NodeFacts, FS_Subset DEF Entering
  <2>. QED BY <2>1, <2>2, FS_EmptySet
<1>7. Taken' = Taken
  <2>1. CASE ~Open(a)
    BY <2>1 DEF DAGRead, Taken, Line
  <2>2. CASE Open(a)
    <3>1. /\ idg' = [idg EXCEPT ![End(a)] = @ - 1]
          /\ queue' = IF idg[End(a)] = 1 THEN Append(queue, End(a)) ELSE queue
      BY <2>2 DEF DAGRead
    <3>2. idg[End(a)] \in Nat /\ idg[End(a)] # 0
      BY <1>3, <1>5, <1>6, <2>2
    <3>3. idg'[End(a)] = idg[End(a)] - 1 /\ \A v \in Node : v # End(a) => idg'[v] = idg[v]
      BY <1>3, <1>5, <3>1
    <3>4. CASE idg[End(a)] # 1
      <4>1. idg'[End(a)] # 0 /\ Line' = Line
        BY <3>1, <3>2, <3>3, <3>4 DEF Line
      <4>2. \A v \in Node : idg'[v] = 0 <=> idg[v] = 0
        BY <3>2, <3>3, <4>1
      <4>. QED BY <4>1, <4>2 DEF Taken
    <3>5. CASE idg[End(a)] = 1
      <4>1. /\ Len(queue') = Len(queue) + 1
            /\ (\A i \in 1 .. Len(queue) : queue'[i] = queue[i]) /\ queue'[Len(queue) + 1] = End(a)
        BY <1>3, <1>5, <3>1, <3>5, AppendFacts
      <4>2. \A i : i \in 1 .. Len(queue') <=> i \in 1 .. Len(queue) \/ i = Len(queue) + 1
        BY <1>5, <4>1
      <4>3. Line' = Line \union {End(a)}
        BY <4>1, <4>2 DEF Line
      <4>4. \A v \in Node : idg'[v] = 0 <=> idg[v] = 0 \/ v = End(a)
        BY <3>2, <3>3, <3>5
      <4>. QED BY <3>2, <4>3, <4>4 DEF Taken
    <3>. QED BY <3>4, <3>5
  <2>. QED BY <2>1, <2>2
<1>8. Open(a) => End(a) \notin Taken
  BY <1>6 DEF Taken
<1>9. Taken \subseteq Node /\ \A b \in Arc : Start(b) \in Node
  BY <1>5, GraphFacts DEF Taken
<1>10. \A b \in Arc : HasRead(b)' <=> HasRead(b) \/ b = a
  <2>. SUFFICES ASSUME NEW b \in Arc PROVE HasRead(b)' <=> HasRead(b) \/ b = a
    OBVIOUS
  <2>1. Start(b)' = Start(b)
    BY <1>1, SameCall
  <2>2. HasRead(b)' <=> Start(b) \in Taken /\ b \notin unread'[Start(b)]
    BY <1>7, <2>1 DEF HasRead
  <2>. QED BY <1>3, <1>4, <1>9, <2>2 DEF HasRead
<1>11. ReadOrder'
  <2>1. \A v : Incidences(G, v)' = Incidences(G, v)
    BY <1>1, SameCall
  <2>2. \A v \in Taken' : v # u' => unread'[v] = {}
    BY <1>1, <1>2, <1>3, <1>7, <1>9 DEF ReadOrder
  <2>3. \A v \in Node \ Taken' : unread'[v] = Incidences(G, v)'
    BY <1>2, <1>3, <1>4, <1>7, <2>1 DEF ReadOrder
  <2>. QED BY <1>1, <1>4, <1>7, <2>2, <2>3 DEF ReadOrder
<1>12. IF Open(a) /\ DAGImproves(a) THEN Improve(a, dist[u] + Length(G, a))
                                    ELSE dist' = dist /\ pred' = pred
  BY DEF DAGRead
<1>. QED BY <1>1, <1>2, <1>3, <1>4, <1>7, <1>8, <1>10, <1>11, <1>12
(* An arc that has been read may have improved the label of its end node;    *)
(* the labels of the numbered nodes do not change.                           *)
LEMMA OrderReadLabels ==
  ASSUME SearchInv, OrderInv, NEW a \in Arc, DAGRead(a)
  PROVE  /\ \A v \in Taken : dist'[v] = dist[v]
         /\ \A v \in Node : v # End(a) => dist'[v] = dist[v]
         /\ dist \in [Node -> Int] /\ dist' \in [Node -> Int]
         /\ dist[u] + StepLength(call, a) \in Int
         /\ Open(a) /\ DAGImproves(a) => /\ dist'[End(a)] = dist[u] + StepLength(call, a)
                                         /\ Improve(a, dist[u] + StepLength(call, a))
         /\ ~(Open(a) /\ DAGImproves(a)) => dist' = dist /\ pred' = pred
         /\ DAGImproves(a) <=>
              \/ call.opt = "DAG_SPTREE" /\ dist[u] < InfFloat /\ dist[End(a)] > dist[u] + StepLength(call, a)
              \/ Critical /\ dist[End(a)] < dist[u] + StepLength(call, a)
<1>1. /\ call.proc = "DAGSearch" /\ Ordered /\ u \in Node /\ (Open(a) => End(a) \notin Taken)
      /\ IF Open(a) /\ DAGImproves(a) THEN Improve(a, dist[u] + Length(G, a))
                                      ELSE dist' = dist /\ pred' = pred
  BY OrderReadFacts
<1>2. call.chr = "PLAIN" /\ dist \in [Node -> Int]
  BY <1>1 DEF Ordered, SearchInv, Base
<1>3. StepLength(call, a) = Length(G, a) /\ Length(G, a) \in Int /\ End(a) \in Node
  BY <1>1, <1>2, PlainStep
<1>4. dist[u] + Length(G, a) \in Int
  BY <1>1, <1>2, <1>3
<1>5. ASSUME Open(a), DAGImproves(a)
      PROVE  /\ dist' \in [Node -> Int] /\ dist'[End(a)] = dist[u] + Length(G, a)
             /\ \A v \in Node : v # End(a) => dist'[v] = dist[v]
  BY <1>1, <1>4, <1>5, ImproveFacts
<1>6. dist' \in [Node -> Int] /\ \A v \in Node : v # End(a) => dist'[v] = dist[v]
  BY <1>1, <1>2, <1>5
<1>7. \A v \in Taken : dist'[v] = dist[v]
  BY <1>1, <1>6 DEF Taken
<1>8. DAGImproves(a) <=>
        \/ call.opt = "DAG_SPTREE" /\ dist[u] < InfFloat /\ dist[End(a)] > dist[u] + StepLength(call, a)
        \/ Critical /\ dist[End(a)] < dist[u] + StepLength(call, a)
  BY <1>3 DEF DAGImproves
<1>. QED BY <1>1, <1>2, <1>3, <1>4, <1>5, <1>6, <1>7, <1>8

LEMMA ShortRead ==
  ASSUME SearchInv, OrderInv, NEW a \in Arc, DAGRead(a)
  PROVE  ShortOrder'
<1>1. /\ call.proc = "DAGSearch" /\ Ordered /\ call' = call /\ u \in Taken /\ u \in Node /\ Start(a) = u
      /\ End(a) \in Node /\ (Open(a) => End(a) \notin Taken)
      /\ \A b \in Arc : HasRead(b)' <=> HasRead(b) \/ b = a
  BY OrderReadFacts
<1>2. /\ (\A v \in Node : v # End(a) => dist'[v] = dist[v])
      /\ dist \in [Node -> Int] /\ dist' \in [Node -> Int]
      /\ dist[u] + StepLength(call, a) \in Int
      /\ Open(a) /\ DAGImproves(a) => /\ dist'[End(a)] = dist[u] + StepLength(call, a)
                                      /\ Improve(a, dist[u] + StepLength(call, a))
      /\ ~(Open(a) /\ DAGImproves(a)) => dist' = dist /\ pred' = pred
      /\ DAGImproves(a) <=>
           \/ call.opt = "DAG_SPTREE" /\ dist[u] < InfFloat /\ dist[End(a)] > dist[u] + StepLength(call, a)
           \/ Critical /\ dist[End(a)] < dist[u] + StepLength(call, a)
  BY OrderReadLabels
<1>3. InfFloat \in Int /\ \A b \in Arc : StepLength(call, b) \in Int /\ Start(b) \in Node /\ End(b) \in Node
  <2>1. call \in Calls
    BY DEF SearchInv, Base
  <2>. QED BY <1>1, <2>1, PlainStep, NodeFacts DEF Ordered
<1>. SUFFICES ASSUME call.opt = "DAG_SPTREE"
              PROVE  LooseInv' /\ \A b \in Arc : HasRead(b)' => Safe(b)'
  BY <1>1 DEF ShortOrder
<1>4. /\ LooseInv /\ (\A b \in Arc : HasRead(b) => Safe(b)) /\ (\A v \in Node : dist[v] <= InfFloat)
      /\ ~Critical
  BY <1>1 DEF Ordered, ShortOrder, LooseInv, LabelBounds, Critical
<1>5. CASE Open(a) /\ DAGImproves(a)
  <2>1. /\ u \in Known /\ dist[u] + StepLength(call, a) < dist[End(a)]
        /\ dist'[End(a)] = dist[u] + StepLength(call, a)
        /\ Improve(a, dist[u] + StepLength(call, a))
    BY <1>1, <1>2, <1>3, <1>4, <1>5 DEF Known
  <2>2. LooseInv' /\ Known' = Known \union {End(a)}
    <3>1. /\ call' = call /\ LooseInv /\ Open(a) /\ Start(a) \in Known /\ dist[u] + StepLength(call, a) \in Int
          /\ dist[u] + StepLength(call, a) = dist[Start(a)] + StepLength(call, a)
      BY <1>1, <1>2, <1>4, <1>5, <2>1
    <3>. QED BY <2>1, <3>1, LooseImprove
  <2>3. ASSUME NEW b \in Arc, HasRead(b)' PROVE Safe(b)'
    <3>. SUFFICES ASSUME Open(b), Start(b) \in Known'
                  PROVE  dist'[End(b)] <= dist'[Start(b)] + StepLength(call, b)
      BY <1>1, SameCall DEF Safe
    <3>0. Start(b) \in Taken
      BY <1>1, <2>3 DEF HasRead
    <3>1. Start(b) # End(a) /\ Start(b) \in Known /\ dist'[Start(b)] = dist[Start(b)]
      BY <1>1, <1>2, <1>3, <1>5, <2>2, <3>0
    <3>2. CASE b = a
      BY <1>1, <1>2, <2>1, <3>1, <3>2
    <3>3. CASE HasRead(b)
      <4>1. dist[End(b)] <= dist[Start(b)] + StepLength(call, b)
        BY <1>4, <3>1, <3>3 DEF Safe
      <4>2. dist'[End(b)] <= dist[End(b)] /\ dist'[End(b)] \in Int /\ dist[End(b)] \in Int
            /\ dist[Start(b)] \in Int
        BY <1>2, <1>3, <2>1
      <4>. QED BY <1>3, <3>1, <4>1, <4>2
    <3>. QED BY <1>1, <2>3, <3>2, <3>3
  <2>. QED BY <2>2, <2>3
<1>6. CASE ~(Open(a) /\ DAGImproves(a))
  <2>1. dist' = dist /\ pred' = pred
    BY <1>2, <1>6
  <2>2. LooseInv' /\ \A b : Safe(b)' <=> Safe(b)
    BY <1>1, <1>4, <2>1, LooseQuiet, SafeQuiet
  <2>3. Safe(a)
    <3>. SUFFICES ASSUME Open(a), u \in Known
                  PROVE  dist[End(a)] <= dist[u] + StepLength(call, a)
      BY <1>1 DEF Safe
    <3>1. dist[u] \in Int /\ dist[End(a)] \in Int /\ dist[u] # InfFloat /\ dist[u] <= InfFloat
      BY <1>1, <1>2, <1>4 DEF Known
    <3>2. dist[u] < InfFloat
      BY <1>3, <3>1
    <3>. QED BY <1>2, <1>6, <3>1, <3>2
  <2>. QED BY <1>1, <1>4, <2>2, <2>3
<1>. QED BY <1>5, <1>6

LEMMA LongRead ==
  ASSUME SearchInv, OrderInv, NEW a \in Arc, DAGRead(a)
  PROVE  LongOrder'
<1>1. /\ call.proc = "DAGSearch" /\ Ordered /\ call' = call /\ count' = count /\ Taken' = Taken
      /\ u \in Taken /\ u \in Node /\ Start(a) = u
      /\ End(a) \in Node /\ (Open(a) => End(a) \notin Taken)
      /\ \A b \in Arc : HasRead(b)' <=> HasRead(b) \/ b = a
  BY OrderReadFacts
<1>2. /\ (\A v \in Node : v # End(a) => dist'[v] = dist[v])
      /\ (\A v \in Taken : dist'[v] = dist[v])
      /\ dist \in [Node -> Int] /\ dist' \in [Node -> Int]
      /\ dist[u] + StepLength(call, a) \in Int
      /\ Open(a) /\ DAGImproves(a) => dist'[End(a)] = dist[u] + StepLength(call, a)
      /\ ~(Open(a) /\ DAGImproves(a)) => dist' = dist
      /\ DAGImproves(a) <=>
           \/ call.opt = "DAG_SPTREE" /\ dist[u] < InfFloat /\ dist[End(a)] > dist[u] + StepLength(call, a)
           \/ Critical /\ dist[End(a)] < dist[u] + StepLength(call, a)
  BY OrderReadLabels
<1>3. /\ call \in Calls /\ count \in Nat
      /\ \A b \in Arc : StepLength(call, b) \in Int /\ Start(b) \in Node /\ End(b) \in Node
  <2>1. call \in Calls /\ count \in Nat
    BY DEF SearchInv, Base, CountInv
  <2>. QED BY <1>1, <2>1, PlainStep DEF Ordered
<1>. SUFFICES ASSUME Critical
              PROVE  /\ \A v \in Roots : dist'[v] >= 0
                     /\ \A v \in Node \ Taken :
                          dist'[v] = -InfFloat \/ dist'[v] \in WalkLengths(call, Roots, count)[v]
                     /\ \A b \in Arc : HasRead(b)' /\ Open(b) =>
                          dist'[End(b)] >= dist'[Start(b)] + StepLength(call, b)
  BY <1>1, SameRoots, SameCall DEF LongOrder
<1>4. /\ (\A v \in Roots : dist[v] >= 0)
      /\ (\A v \in Node \ Taken : dist[v] = -InfFloat \/ dist[v] \in WalkLengths(call, Roots, count)[v])
      /\ (\A b \in Arc : HasRead(b) /\ Open(b) => dist[End(b)] >= dist[Start(b)] + StepLength(call, b))
      /\ call.opt # "DAG_SPTREE" /\ Roots \subseteq Node
  BY <1>1 DEF Ordered, LongOrder, Critical, Roots
<1>5. /\ dist'[End(a)] >= dist[End(a)]
      /\ Open(a) => dist'[End(a)] >= dist[u] + StepLength(call, a)
  <2>1. dist[End(a)] \in Int /\ dist'[End(a)] \in Int
    BY <1>1, <1>2
  <2>. QED BY <1>2, <1>4, <2>1
<1>6. \A v \in Node : dist'[v] \in Int /\ dist[v] \in Int /\ dist'[v] >= dist[v]
  BY <1>2, <1>5
<1>7. ASSUME NEW v \in Roots PROVE dist'[v] >= 0
  <2>1. v \in Node /\ dist[v] >= 0
    BY <1>4
  <2>. QED BY <1>6, <2>1
<1>8. ASSUME NEW v \in Node \ Taken
      PROVE  dist'[v] = -InfFloat \/ dist'[v] \in WalkLengths(call, Roots, count)[v]
  <2>1. CASE v = End(a) /\ Open(a) /\ DAGImproves(a)
    <3>1. PICK r \in [Node -> Nat] : Ranked(r)
      BY <1>1 DEF Ordered
    <3>2. r[u] \in Nat /\ r[u] < count /\ dist[u] \in WalkLengths(call, Roots, r[u])[u]
      BY <1>1, <3>1 DEF Ranked
    <3>3. /\ EndNode(call.G, a) = v /\ StartNode(call.G, a) = u /\ Eligible(call.G, call.chr, a)
          /\ EndNode(call.G, a) \in Node
      BY <1>1, <2>1 DEF Start, End, Open, G
    <3>4. dist[u] + StepLength(call, a) \in WalkLengths(call, Roots, r[u] + 1)[v]
      BY <3>2, <3>3, WalkExtend
    <3>5. r[u] + 1 \in Nat /\ r[u] + 1 <= count
      BY <1>3, <3>2
    <3>6. dist[u] + StepLength(call, a) \in WalkLengths(call, Roots, count)[v]
      BY <1>3, <3>4, <3>5, WalkMonotone
    <3>. QED BY <1>2, <2>1, <3>6
  <2>2. CASE ~(v = End(a) /\ Open(a) /\ DAGImproves(a))
    <3>1. dist'[v] = dist[v]
      BY <1>2, <2>2
    <3>. QED BY <1>4, <3>1
  <2>. QED BY <2>1, <2>2
<1>9. ASSUME NEW b \in Arc, HasRead(b)', Open(b)
      PROVE  dist'[End(b)] >= dist'[Start(b)] + StepLength(call, b)
  <2>0. Start(b) \in Taken
    BY <1>1, <1>9 DEF HasRead
  <2>1. dist'[Start(b)] = dist[Start(b)] /\ dist[Start(b)] \in Int
    BY <1>2, <1>3, <2>0
  <2>2. CASE b = a
    BY <1>1, <1>5, <1>9, <2>1, <2>2
  <2>3. CASE HasRead(b)
    <3>1. dist[End(b)] >= dist[Start(b)] + StepLength(call, b)
      BY <1>4, <1>9, <2>3
    <3>2. dist'[End(b)] >= dist[End(b)] /\ dist'[End(b)] \in Int /\ dist[End(b)] \in Int
      BY <1>3, <1>6
    <3>. QED BY <1>3, <2>1, <3>1, <3>2
  <2>. QED BY <1>1, <1>9, <2>2, <2>3
<1>. QED BY <1>7, <1>8, <1>9

LEMMA OrderRead ==
  ASSUME SearchInv, OrderInv, NEW a \in Arc, DAGRead(a)
  PROVE  OrderInv'
<1>1. /\ pc = "search" /\ Ordered /\ call' = call /\ pc' = pc /\ colour' = colour /\ active' = active
      /\ count' = count /\ Taken' = Taken /\ ReadOrder'
  BY OrderReadFacts
<1>2. ShortOrder' /\ LongOrder' /\ \A v \in Taken : dist'[v] = dist[v]
  BY ShortRead, LongRead, OrderReadLabels
<1>3. PICK r \in [Node -> Nat] : Ranked(r)
  BY <1>1 DEF Ordered
<1>4. Roots' = Roots /\ (Critical' <=> Critical)
  BY <1>1, SameRoots
<1>5. Ranked(r)'
  BY <1>1, <1>2, <1>3, <1>4, SameCall DEF Ranked
<1>6. Ordered'
  BY <1>1, <1>2, <1>3, <1>5 DEF Ordered
<1>. QED BY <1>1, <1>6 DEF OrderInv
(* A walk is no shorter than its number of arcs allows.                      *)
LEMMA WalkLower ==
  ASSUME NEW c \in Calls, \A a \in Arc : -MaxLength <= StepLength(c, a), NEW X, NEW k \in Nat,
         NEW v \in Node, NEW d \in WalkLengths(c, X, k)[v]
  PROVE  -(k * MaxLength) <= d
<1>. DEFINE Fits(j) == \A w \in Node : \A x \in WalkLengths(c, X, j)[w] : x \in Int /\ -(j * MaxLength) <= x
            Bad == {j \in Nat : ~Fits(j)}
<1>0. MaxLength \in Nat
  BY LengthAssumption
<1>1. Bad = {}
  <2>. SUFFICES ASSUME Bad # {} PROVE FALSE
    OBVIOUS
  <2>1. PICK j \in Bad : \A i \in Bad : j <= i
    BY LeastNumber
  <2>2. j # 0
    <3>1. ASSUME NEW w \in Node, NEW x \in WalkLengths(c, X, 0)[w] PROVE x \in Int /\ -(0 * MaxLength) <= x
      <4>1. x = 0
        BY WalkZero
      <4>. QED BY <1>0, <4>1
    <3>. QED BY <2>1, <3>1
  <2>3. j - 1 \in Nat /\ ~(j <= j - 1) /\ (j - 1) + 1 = j
    BY <2>2
  <2>4. Fits(j - 1)
    BY <2>1, <2>3
  <2>5. (j - 1) * MaxLength \in Int /\ j * MaxLength \in Int /\ j * MaxLength = (j - 1) * MaxLength + MaxLength
    <3>1. \A p, q \in Nat : p * q \in Int /\ (p + 1) * q = p * q + q
      OBVIOUS
    <3>2. j \in Nat
      OBVIOUS
    <3>. QED BY <1>0, <2>3, <3>1, <3>2
  <2>6. ASSUME NEW w \in Node, NEW x \in WalkLengths(c, X, j)[w] PROVE x \in Int /\ -(j * MaxLength) <= x
    <3>1. \/ x \in WalkLengths(c, X, j - 1)[w]
          \/ \E a \in Arc : \E y \in WalkLengths(c, X, j - 1)[StartNode(c.G, a)] : Extends(c, a, w, y, x)
      <4>1. j \in Nat
        OBVIOUS
      <4>. QED BY <2>2, <4>1, WalkSplit
    <3>2. CASE x \in WalkLengths(c, X, j - 1)[w]
      BY <1>0, <2>4, <2>5, <3>2
    <3>3. ASSUME NEW a \in Arc, NEW y \in WalkLengths(c, X, j - 1)[StartNode(c.G, a)], Extends(c, a, w, y, x)
          PROVE  x \in Int /\ -(j * MaxLength) <= x
      <4>1. y \in Int /\ -((j - 1) * MaxLength) <= y
        BY <2>4, CallFacts
      <4>2. StepLength(c, a) \in Int /\ -MaxLength <= StepLength(c, a) /\ x = y + StepLength(c, a)
        BY <3>3, CallFacts DEF Extends
      <4>. QED BY <1>0, <2>5, <4>1, <4>2
    <3>. QED BY <3>1, <3>2, <3>3
  <2>. QED BY <2>1, <2>6
<1>2. Fits(k)
  BY <1>1
<1>. QED BY <1>2

(* A node leaves the queue when all its entering arcs have been read.        *)
LEMMA EntersRead ==
  ASSUME SearchInv, call.proc = "DAGSearch", pc = "search", ReadOrder, NEW a \in Arc,
         Open(a), idg[End(a)] = 0
  PROVE  HasRead(a)
<1>1. call \in Calls /\ Start(a) \in Node /\ End(a) \in Node
  <2>1. call \in Calls
    BY DEF SearchInv, Base
  <2>. QED BY <2>1, GraphFacts
<1>2. a \notin unread[Start(a)]
  <2>1. Cardinality(Entering(End(a))) = 0
    BY <1>1 DEF SearchInv, DAGInv
  <2>2. IsFiniteSet(Entering(End(a)))
    BY NodeFacts, FS_Subset DEF Entering
  <2>3. Entering(End(a)) = {}
    BY <2>1, <2>2, FS_EmptySet
  <2>. QED BY <2>3 DEF Entering
<1>3. a \in Incidences(G, Start(a))
  BY DEF Incidences, Start
<1>. QED BY <1>1, <1>2, <1>3 DEF ReadOrder, HasRead

(* The first node of the queue gets the next number.                         *)
LEMMA OrderDeleteFacts ==
  ASSUME SearchInv, OrderInv, DAGDelete
  PROVE  /\ call.proc = "DAGSearch" /\ pc = "search" /\ Ordered
         /\ call' = call /\ pc' = pc /\ active' = active /\ dist' = dist /\ pred' = pred
         /\ count' = count + 1 /\ count \in Nat /\ count < n
         /\ Head(queue) \in Node \ Taken /\ idg[Head(queue)] = 0 /\ Taken' = Taken \union {Head(queue)}
         /\ colour' = IF Critical THEN colour ELSE [colour EXCEPT ![Head(queue)] = count]
         /\ \A b \in Arc : HasRead(b)' <=> HasRead(b)
         /\ ReadOrder'
<1>1. /\ call.proc = "DAGSearch" /\ pc = "search" /\ queue # <<>>
      /\ (IF u = NoNode THEN TRUE ELSE unread[u] = {})
      /\ u' = Head(queue) /\ queue' = Tail(queue) /\ count' = count + 1
      /\ colour' = IF Critical THEN colour ELSE [colour EXCEPT ![Head(queue)] = count]
      /\ call' = call /\ pc' = pc /\ dist' = dist /\ pred' = pred
      /\ active' = active /\ unread' = unread /\ idg' = idg
  BY DEF DAGDelete, Between, Searching
<1>2. Ordered /\ ReadOrder
  BY <1>1 DEF OrderInv, Ordered
<1>3. /\ Head(queue) \in Node /\ Head(queue) = queue[1] /\ 1 \in 1 .. Len(queue)
      /\ Len(queue') = Len(queue) - 1 /\ Len(queue) \in Nat
      /\ \A i \in 1 .. Len(queue') : queue'[i] = queue[i + 1] /\ i + 1 \in 1 .. Len(queue)
  BY <1>1, TailFacts DEF SearchInv, Base
<1>4. Taken \subseteq Node /\ Head(queue) \in Line /\ idg[Head(queue)] = 0 /\ Head(queue) \notin Taken
  <2>1. Head(queue) \in Line
    BY <1>3 DEF Line
  <2>. QED BY <1>1, <2>1, TakenFacts
<1>5. Line' = Line \ {Head(queue)}
  <2>1. \A x : x \in Line' <=> \E i \in 1 .. Len(queue') : x = queue'[i]
    BY DEF Line
  <2>2. \A x : x \in Line <=> \E i \in 1 .. Len(queue) : x = queue[i]
    BY DEF Line
  <2>3. ASSUME NEW x \in Line' PROVE x \in Line /\ x # Head(queue)
    <3>1. PICK i \in 1 .. Len(queue') : x = queue'[i]
      BY <2>1
    <3>2. x = queue[i + 1] /\ i + 1 \in 1 .. Len(queue) /\ i + 1 # 1
      BY <1>3, <3>1
    <3>. QED BY <1>3, <2>2, <3>2 DEF SearchInv, QueueInv
  <2>4. ASSUME NEW x \in Line, x # Head(queue) PROVE x \in Line'
    <3>1. PICK i \in 1 .. Len(queue) : x = queue[i]
      BY <2>2
    <3>2. i - 1 \in 1 .. Len(queue') /\ (i - 1) + 1 = i
      BY <1>3, <2>4, <3>1
    <3>. QED BY <1>3, <2>1, <3>1, <3>2
  <2>. QED BY <2>3, <2>4
<1>6. Taken' = Taken \union {Head(queue)}
  BY <1>1, <1>3, <1>4, <1>5 DEF Taken
<1>7. count \in Nat /\ count < n
  <2>1. IsFiniteSet(Waiting)
    BY NodeFacts, FS_Subset DEF Waiting
  <2>2. Cardinality(Waiting) \in Nat /\ n \in Nat /\ count \in Nat
    BY <2>1, FS_CardinalityType, NodeFacts DEF SearchInv, CountInv
  <2>3. count + Len(queue) + Cardinality(Waiting) = n
    BY <1>1 DEF SearchInv, DAGInv
  <2>. QED BY <1>3, <2>2, <2>3
<1>8. ASSUME NEW b \in Arc PROVE HasRead(b)' <=> HasRead(b)
  <2>1. HasRead(b)' <=> Start(b) \in Taken \union {Head(queue)} /\ b \notin unread[Start(b)]
    BY <1>1, <1>6, SameCall DEF HasRead
  <2>2. Start(b) = Head(queue) => b \in unread[Start(b)]
    <3>1. unread[Head(queue)] = Incidences(G, Head(queue))
      BY <1>2, <1>3, <1>4 DEF ReadOrder
    <3>. QED BY <3>1 DEF Incidences, Start
  <2>. QED BY <2>1, <2>2 DEF HasRead
<1>9. ReadOrder'
  <2>1. NoNode \notin Node
    BY NodeFacts
  <2>2. ASSUME NEW v \in Taken', v # u' PROVE unread'[v] = {}
    <3>1. v \in Taken /\ v \in Node
      BY <1>1, <1>4, <1>6, <2>2
    <3>. QED BY <1>1, <1>2, <2>1, <3>1 DEF ReadOrder
  <2>3. \A v \in Node \ Taken' : unread'[v] = Incidences(G, v)'
    BY <1>1, <1>2, <1>6, SameCall DEF ReadOrder
  <2>. QED BY <1>1, <1>6, <2>2, <2>3 DEF ReadOrder
<1>. QED BY <1>1, <1>2, <1>3, <1>4, <1>6, <1>7, <1>8, <1>9

(* In a critical path search it has a label.                                 *)
LEMMA LongDelete ==
  ASSUME SearchInv, OrderInv, DAGDelete, Critical
  PROVE  dist[Head(queue)] \in WalkLengths(call, Roots, count)[Head(queue)]
<1>. DEFINE h == Head(queue)
<1>1. /\ call.proc = "DAGSearch" /\ pc = "search" /\ Ordered /\ ReadOrder /\ count \in Nat /\ count < n
      /\ h \in Node \ Taken /\ idg[h] = 0 /\ call.chr = "PLAIN"
  BY OrderDeleteFacts DEF Ordered
<1>. HIDE DEF h
<1>2. /\ (\A v \in Roots : dist[v] >= 0)
      /\ (\A v \in Node \ Taken : dist[v] = -InfFloat \/ dist[v] \in WalkLengths(call, Roots, count)[v])
      /\ \A b \in Arc : HasRead(b) /\ Open(b) => dist[End(b)] >= dist[Start(b)] + StepLength(call, b)
  BY <1>1 DEF Ordered, LongOrder
<1>3. /\ call \in Calls /\ dist \in [Node -> Int] /\ InfFloat \in Nat /\ InfFloat # 0
      /\ \A a \in Arc : -MaxLength <= StepLength(call, a)
  BY NodeFacts, CallsAssumption, <1>1 DEF SearchInv, Base, Critical
<1>4. dist[h] # -InfFloat
  <2>1. CASE h \in Roots
    <3>1. dist[h] >= 0 /\ dist[h] \in Int
      BY <1>1, <1>2, <1>3, <2>1
    <3>. QED BY <1>3, <3>1
  <2>2. CASE h \notin Roots
    <3>1. InDegree(h) # 0
      BY <1>1, <2>2 DEF Roots
    <3>2. PICK a \in Arc : Open(a) /\ End(a) = h
      BY <3>1, FS_EmptySet DEF InDegree
    <3>3. HasRead(a) /\ Start(a) \in Taken
      <4>1. HasRead(a)
        BY <1>1, <3>2, EntersRead
      <4>. QED BY <4>1 DEF HasRead
    <3>4. PICK r \in [Node -> Nat] : Ranked(r)
      BY <1>1 DEF Ordered
    <3>. DEFINE s == Start(a)
    <3>5. s \in Node /\ StepLength(call, a) \in Int /\ -MaxLength <= StepLength(call, a)
      BY <1>1, <1>3, PlainStep
    <3>6. r[s] \in Nat /\ r[s] < count /\ dist[s] \in WalkLengths(call, Roots, r[s])[s]
      BY <3>3, <3>4, <3>5 DEF Ranked
    <3>7. -(r[s] * MaxLength) <= dist[s]
      BY <1>3, <3>5, <3>6, WalkLower
    <3>8. dist[h] >= dist[s] + StepLength(call, a) /\ dist[s] \in Int /\ dist[h] \in Int
      BY <1>1, <1>2, <1>3, <3>2, <3>3, <3>5
    <3>. HIDE DEF s
    <3>9. r[s] + 1 \in 0 .. n /\ (r[s] + 1) - 1 = r[s]
      <4>1. n \in Nat
        BY NodeFacts
      <4>. QED BY <1>1, <3>6, <4>1
    <3>10. /\ (r[s] + 1) * MaxLength \in Int /\ (r[s] + 1) * MaxLength < InfFloat
           /\ (r[s] + 1) * MaxLength = r[s] * MaxLength + MaxLength /\ r[s] * MaxLength \in Int
           /\ MaxLength \in Nat
      BY <3>9, PathBound
    <3>. QED BY <1>3, <3>5, <3>7, <3>8, <3>10
  <2>. QED BY <2>1, <2>2
<1>. QED BY <1>1, <1>2, <1>4 DEF h

LEMMA OrderDelete ==
  ASSUME SearchInv, OrderInv, DAGDelete
  PROVE  OrderInv'
<1>1. PICK h \in Node \ Taken : h = Head(queue)
  BY OrderDeleteFacts
<1>2. /\ call.proc = "DAGSearch" /\ pc = "search" /\ Ordered /\ ReadOrder
      /\ call' = call /\ pc' = pc /\ active' = active /\ dist' = dist /\ pred' = pred
      /\ count' = count + 1 /\ count \in Nat /\ count < n
      /\ idg[h] = 0 /\ Taken' = Taken \union {h}
      /\ colour' = IF Critical THEN colour ELSE [colour EXCEPT ![h] = count]
      /\ (\A b \in Arc : HasRead(b)' <=> HasRead(b))
      /\ ReadOrder'
  BY <1>1, OrderDeleteFacts DEF Ordered
<1>3. ShortOrder'
  BY <1>2, LooseQuiet, SafeQuiet DEF Ordered, ShortOrder
<1>4. Roots' = Roots /\ (Critical' <=> Critical)
  BY <1>2, SameRoots
<1>5. LongOrder'
  <2>. SUFFICES ASSUME Critical
                PROVE  /\ \A v \in Roots : dist[v] >= 0
                       /\ \A v \in Node \ Taken :
                            dist[v] = -InfFloat \/ dist[v] \in WalkLengths(call, Roots, count + 1)[v]
                       /\ \A b \in Arc : HasRead(b) /\ Open(b) =>
                            dist[End(b)] >= dist[Start(b)] + StepLength(call, b)
    BY <1>2, <1>4, SameCall DEF LongOrder
  <2>1. /\ (\A v \in Roots : dist[v] >= 0)
        /\ (\A v \in Node \ Taken : dist[v] = -InfFloat \/ dist[v] \in WalkLengths(call, Roots, count)[v])
        /\ \A b \in Arc : HasRead(b) /\ Open(b) => dist[End(b)] >= dist[Start(b)] + StepLength(call, b)
    BY <1>2 DEF Ordered, LongOrder
  <2>2. ASSUME NEW v \in Node, dist[v] \in WalkLengths(call, Roots, count)[v]
        PROVE  dist[v] \in WalkLengths(call, Roots, count + 1)[v]
    <3>1. count + 1 \in Nat /\ count <= count + 1
      BY <1>2
    <3>. QED BY <1>2, <2>2, <3>1, WalkMonotone
  <2>. QED BY <2>1, <2>2
<1>6. PICK r \in [Node -> Nat] : Ranked(r)
  BY <1>2 DEF Ordered
<1>7. PICK t \in [Node -> Nat] : t = [r EXCEPT ![h] = count]
  BY <1>2, <1>6
<1>8. t[h] = count /\ (\A v \in Node : v # h => t[v] = r[v]) /\ Taken \subseteq Node
  BY <1>6, <1>7 DEF Taken
<1>9. Ranked(t)'
  <2>1. \A v \in Taken' : t[v] < count'
    <3>1. ASSUME NEW v \in Taken PROVE t[v] < count + 1
      <4>1. t[v] = r[v] /\ r[v] < count /\ r[v] \in Nat
        BY <1>1, <1>6, <1>8 DEF Ranked
      <4>. QED BY <1>2, <4>1
    <3>. QED BY <1>2, <1>8, <3>1
  <2>2. ASSUME NEW a \in Arc, Open(a), End(a) \in Taken'
        PROVE  Start(a) \in Taken' /\ t[Start(a)] < t[End(a)]
    <3>1. CASE End(a) = h
      <4>1. Start(a) \in Taken
        <5>1. HasRead(a)
          BY <1>2, <2>2, <3>1, EntersRead
        <5>. QED BY <5>1 DEF HasRead
      <4>2. t[Start(a)] = r[Start(a)] /\ r[Start(a)] < count
        BY <1>1, <1>6, <1>8, <4>1 DEF Ranked
      <4>. QED BY <1>2, <1>8, <3>1, <4>1, <4>2
    <3>2. CASE End(a) # h
      <4>1. End(a) \in Taken
        BY <1>2, <2>2, <3>2
      <4>2. Start(a) \in Taken /\ r[Start(a)] < r[End(a)]
        BY <1>6, <2>2, <4>1 DEF Ranked
      <4>. QED BY <1>1, <1>2, <1>8, <4>1, <4>2
    <3>. QED BY <3>1, <3>2
  <2>3. ASSUME ~Critical, NEW v \in Node PROVE colour'[v] = IF v \in Taken' THEN t[v] ELSE NoNode
    <3>1. colour \in [Node -> Node \union {NoNode}]
      BY DEF SearchInv, Base
    <3>2. colour[v] = IF v \in Taken THEN r[v] ELSE NoNode
      BY <1>6, <2>3 DEF Ranked
    <3>3. CASE v = h
      BY <1>2, <1>8, <2>3, <3>1, <3>3
    <3>4. CASE v # h
      BY <1>2, <1>8, <2>3, <3>1, <3>2, <3>4
    <3>. QED BY <3>3, <3>4
  <2>4. ASSUME Critical, NEW v \in Taken' PROVE dist[v] \in WalkLengths(call, Roots, t[v])[v]
    <3>1. CASE v = h
      BY <1>1, <1>8, <2>4, <3>1, LongDelete
    <3>2. CASE v \in Taken
      BY <1>1, <1>6, <1>8, <2>4, <3>2 DEF Ranked
    <3>. QED BY <1>2, <2>4, <3>1, <3>2
  <2>5. /\ \A a : (Open(a)' <=> Open(a)) /\ End(a)' = End(a) /\ Start(a)' = Start(a)
    BY <1>2, SameCall
  <2>. QED BY <1>2, <1>4, <2>1, <2>2, <2>3, <2>4, <2>5 DEF Ranked
<1>10. Ordered'
  BY <1>2, <1>3, <1>5, <1>7, <1>9 DEF Ordered
<1>. QED BY <1>2, <1>10 DEF OrderInv
LEMMA OrderQuiet ==
  ASSUME UNCHANGED <<call, dist, pred, colour, queue, active, unread, u, count, idg>>
  PROVE  /\ Taken' = Taken /\ (Ordered => Ordered') /\ DAGResult' = DAGResult
         /\ \A v : Entering(v)' = Entering(v)
<1>1. /\ call' = call /\ dist' = dist /\ pred' = pred /\ colour' = colour /\ queue' = queue
      /\ active' = active /\ unread' = unread /\ u' = u /\ count' = count /\ idg' = idg
  OBVIOUS
<1>2. Taken' = Taken
  BY <1>1 DEF Taken, Line
<1>3. \A v : Entering(v)' = Entering(v)
  BY <1>1 DEF Entering, Open, End, Start, G
<1>4. Roots' = Roots /\ (Critical' <=> Critical)
  BY <1>1, SameRoots
<1>5. DAGResult' = DAGResult
  BY <1>1 DEF DAGResult, FirstUncoloured, FirstLongest, Critical, Reached, Target, Bool
<1>6. ASSUME Ordered PROVE Ordered'
  <2>1. PICK r \in [Node -> Nat] : Ranked(r)
    BY <1>6 DEF Ordered
  <2>2. Ranked(r)'
    BY <1>1, <1>2, <1>4, <2>1, SameCall DEF Ranked
  <2>3. \A b : HasRead(b)' <=> HasRead(b)
    BY <1>1, <1>2, SameCall DEF HasRead
  <2>4. ReadOrder'
    BY <1>1, <1>2, <1>6, SameCall DEF Ordered, ReadOrder
  <2>5. ShortOrder'
    BY <1>1, <1>6, <2>3, LooseQuiet, SafeQuiet DEF Ordered, ShortOrder
  <2>6. LongOrder'
    BY <1>1, <1>2, <1>4, <1>6, <2>3, SameCall DEF Ordered, LongOrder
  <2>. QED BY <1>1, <1>6, <2>1, <2>2, <2>4, <2>5, <2>6 DEF Ordered
<1>. QED BY <1>2, <1>3, <1>5, <1>6

LEMMA OrderReturn ==
  ASSUME SearchInv, OrderInv, DAGReturn
  PROVE  OrderInv'
<1>1. /\ call.proc = "DAGSearch" /\ pc = "search" /\ queue = <<>> /\ pc' = "done" /\ out' = DAGResult
      /\ (IF u = NoNode THEN TRUE ELSE unread[u] = {})
      /\ UNCHANGED <<call, dist, pred, colour, queue, active, unread, u, count, idg>>
  BY DEF DAGReturn, Between, Searching, Return
<1>2. /\ Taken' = Taken /\ (Ordered => Ordered') /\ DAGResult' = DAGResult
      /\ \A v : Entering(v)' = Entering(v)
  BY <1>1, OrderQuiet
<1>3. Ordered /\ ReadOrder
  BY <1>1 DEF OrderInv, Ordered
<1>4. \A v \in Taken : unread[v] = {}
  <2>1. NoNode \notin Node /\ Taken \subseteq Node
    BY NodeFacts DEF Taken
  <2>. QED BY <1>1, <1>3, <2>1 DEF ReadOrder
<1>5. Cardinality(Taken) = count /\ \A v \in Node : idg[v] = Cardinality(Entering(v))
  BY <1>1, TakenFacts DEF SearchInv, DAGInv
<1>. QED BY <1>1, <1>2, <1>3, <1>4, <1>5 DEF OrderInv

LEMMA OrderInvariant == Spec => []OrderInv
<1>1. Init => OrderInv
  BY DEF Init, OrderInv
<1>2. SearchInv /\ ScanInv /\ OrderInv /\ [Next]_vars => OrderInv'
  <2>. SUFFICES ASSUME SearchInv, ScanInv, OrderInv, [Next]_vars, call'.proc = "DAGSearch"
                PROVE  OrderInv'
    BY DEF OrderInv
  <2>1. CASE UNCHANGED vars
    <3>1. /\ UNCHANGED <<call, dist, pred, colour, queue, active, unread, u, count, idg>>
          /\ pc' = pc /\ out' = out /\ call' = call /\ queue' = queue /\ unread' = unread
          /\ count' = count /\ idg' = idg
      BY <2>1 DEF vars
    <3>2. /\ Taken' = Taken /\ (Ordered => Ordered') /\ DAGResult' = DAGResult
          /\ \A v : Entering(v)' = Entering(v)
      BY <3>1, OrderQuiet
    <3>3. Refused' <=> Refused
      BY <3>1 DEF Refused, G
    <3>. QED BY <3>1, <3>2, <3>3 DEF OrderInv
  <2>2. CASE Next
    <3>1. /\ call' = call
          /\ call.proc = "DAGSearch" => \/ Refuse \/ DAGStart \/ DAGDelete \/ DAGReturn
                                        \/ \E a \in Arc : DAGRead(a)
      BY <2>2, StepsOf DEF ScanInv
    <3>2. CASE Refuse
      BY <3>2 DEF Refuse, Refused, OrderInv, G
    <3>3. CASE DAGStart
      BY <3>3, OrderStart
    <3>4. CASE DAGDelete
      BY <3>4, OrderDelete
    <3>5. CASE DAGReturn
      BY <3>5, OrderReturn
    <3>6. CASE \E a \in Arc : DAGRead(a)
      BY <3>6, OrderRead
    <3>. QED BY <3>1, <3>2, <3>3, <3>4, <3>5, <3>6
  <2>. QED BY <2>1, <2>2
<1>. QED BY <1>1, <1>2, SearchInvariant, ScanInvariant, PTL DEF Spec
-------------------------------------------------------------------------------
(* What the search of acyclic digraphs leaves behind.                        *)

LEMMA OrderDone ==
  ASSUME SearchInv, OrderInv, call.proc = "DAGSearch", Done, ~Refused
  PROVE  /\ Ordered /\ out = DAGResult /\ Taken = {v \in Node : idg[v] = 0} /\ n \in Nat
         /\ count \in 0 .. n /\ (count = n <=> Taken = Node)
         /\ count = n => \A a \in Arc : HasRead(a)
<1>1. /\ Ordered /\ queue = <<>> /\ (\A v \in Taken : unread[v] = {})
      /\ count = Cardinality(Taken) /\ out = DAGResult
  BY DEF OrderInv, Done
<1>2. Line = {}
  <2>1. Len(queue) = 0
    BY <1>1
  <2>. QED BY <2>1 DEF Line
<1>3. Taken = {v \in Node : idg[v] = 0}
  BY <1>2 DEF Taken
<1>4. /\ IsFiniteSet(Node) /\ Cardinality(Node) = n /\ n \in Nat /\ Taken \subseteq Node
  BY <1>3, NodeFacts
<1>5. /\ IsFiniteSet(Taken) /\ Cardinality(Taken) <= n /\ Cardinality(Taken) \in Nat
      /\ Cardinality(Taken) = n => Taken = Node
  BY <1>4, FS_Subset, FS_CardinalityType
<1>6. count \in 0 .. n /\ (count = n <=> Taken = Node)
  BY <1>1, <1>4, <1>5
<1>7. ASSUME count = n, NEW a \in Arc PROVE HasRead(a)
  <2>1. call \in Calls
    BY DEF SearchInv, Base
  <2>2. Start(a) \in Node
    BY <2>1, GraphFacts
  <2>. QED BY <1>1, <1>6, <1>7, <2>2 DEF HasRead
<1>. QED BY <1>1, <1>3, <1>4, <1>6, <1>7

(* Numbers grow along walks.                                                 *)
LEMMA GrowAlong ==
  ASSUME NEW c \in Calls, NEW r \in [Node -> Nat], NEW x \in Node, NEW k \in Nat, NEW v \in Node,
         WalkLengths(c, {x}, k)[v] # {},
         \A a \in Arc : Eligible(c.G, c.chr, a) => r[StartNode(c.G, a)] < r[EndNode(c.G, a)]
  PROVE  r[x] <= r[v]
<1>. DEFINE Good(j) == \A w \in Node : \A d \in WalkLengths(c, {x}, j)[w] : r[x] <= r[w]
            Bad == {j \in Nat : ~Good(j)}
<1>1. Bad = {}
  <2>. SUFFICES ASSUME Bad # {} PROVE FALSE
    OBVIOUS
  <2>1. PICK j \in Bad : \A i \in Bad : j <= i
    BY LeastNumber
  <2>2. j # 0
    <3>1. ASSUME NEW w \in Node, NEW d \in WalkLengths(c, {x}, 0)[w] PROVE r[x] <= r[w]
      <4>1. w = x
        BY WalkZero
      <4>. QED BY <4>1
    <3>. QED BY <2>1, <3>1
  <2>3. j \in Nat /\ j - 1 \in Nat /\ ~(j <= j - 1)
    BY <2>2
  <2>4. Good(j - 1)
    BY <2>1, <2>3
  <2>5. ASSUME NEW w \in Node, NEW d \in WalkLengths(c, {x}, j)[w] PROVE r[x] <= r[w]
    <3>1. \/ d \in WalkLengths(c, {x}, j - 1)[w]
          \/ \E a \in Arc : \E y \in WalkLengths(c, {x}, j - 1)[StartNode(c.G, a)] : Extends(c, a, w, y, d)
      BY <2>2, <2>3, WalkSplit
    <3>2. CASE d \in WalkLengths(c, {x}, j - 1)[w]
      BY <2>4, <3>2
    <3>3. ASSUME NEW a \in Arc, NEW y \in WalkLengths(c, {x}, j - 1)[StartNode(c.G, a)], Extends(c, a, w, y, d)
          PROVE  r[x] <= r[w]
      <4>1. StartNode(c.G, a) \in Node
        BY CallFacts
      <4>2. r[x] <= r[StartNode(c.G, a)]
        BY <2>4, <4>1
      <4>3. r[StartNode(c.G, a)] < r[w]
        BY <3>3 DEF Extends
      <4>4. r[x] \in Nat /\ r[w] \in Nat /\ r[StartNode(c.G, a)] \in Nat
        BY <4>1
      <4>. QED BY <4>2, <4>3, <4>4
    <3>. QED BY <3>1, <3>2, <3>3
  <2>. QED BY <2>1, <2>5
<1>2. Good(k)
  BY <1>1
<1>. QED BY <1>2

(* A set of nodes that are all entered from the set contains a cycle.        *)
StepsBack(k, f) ==
  \A i \in 0 .. k - 1 : \E a \in Arc : Open(a) /\ Start(a) = f[i + 1] /\ End(a) = f[i]

LEMMA BackwardExists ==
  ASSUME NEW U, U # {}, \A v \in U : \E a \in Arc : Open(a) /\ End(a) = v /\ Start(a) \in U,
         NEW k \in Nat
  PROVE  \E f \in [0 .. k -> U] : StepsBack(k, f)
<1>. DEFINE Good(j) == \E f \in [0 .. j -> U] : StepsBack(j, f)
            Bad == {j \in Nat : ~Good(j)}
<1>1. Bad = {}
  <2>. SUFFICES ASSUME Bad # {} PROVE FALSE
    OBVIOUS
  <2>1. PICK j \in Bad : \A i \in Bad : j <= i
    BY LeastNumber
  <2>2. j # 0
    <3>1. PICK v \in U : TRUE
      OBVIOUS
    <3>2. [i \in 0 .. 0 |-> v] \in [0 .. 0 -> U] /\ StepsBack(0, [i \in 0 .. 0 |-> v])
      BY DEF StepsBack
    <3>. QED BY <2>1, <3>2
  <2>3. j \in Nat /\ j - 1 \in Nat /\ ~(j <= j - 1)
    BY <2>2
  <2>4. Good(j - 1)
    BY <2>1, <2>3
  <2>5. PICK f \in [0 .. j - 1 -> U] : StepsBack(j - 1, f)
    BY <2>4
  <2>6. f[j - 1] \in U
    BY <2>3
  <2>7. PICK a \in Arc : Open(a) /\ End(a) = f[j - 1] /\ Start(a) \in U
    BY <2>6
  <2>8. PICK g \in [0 .. j -> U] : g = [i \in 0 .. j |-> IF i = j THEN Start(a) ELSE f[i]]
    <3>1. \A i \in 0 .. j : (IF i = j THEN Start(a) ELSE f[i]) \in U
      <4>1. \A i \in 0 .. j : i # j => i \in 0 .. j - 1
        BY <2>3
      <4>. QED BY <2>7, <4>1
    <3>. QED BY <3>1
  <2>9. StepsBack(j, g)
    <3>. SUFFICES ASSUME NEW i \in 0 .. j - 1
                  PROVE  \E b \in Arc : Open(b) /\ Start(b) = g[i + 1] /\ End(b) = g[i]
      BY DEF StepsBack
    <3>1. i \in 0 .. j /\ i + 1 \in 0 .. j /\ i # j /\ g[i] = f[i]
      BY <2>3, <2>8
    <3>2. CASE i = j - 1
      <4>1. i + 1 = j
        BY <2>3, <3>2
      <4>2. g[i + 1] = Start(a)
        BY <2>8, <3>1, <4>1
      <4>. QED BY <2>7, <3>1, <3>2, <4>2
    <3>3. CASE i # j - 1
      <4>1. i \in 0 .. (j - 1) - 1 /\ i + 1 # j
        BY <2>3, <3>3
      <4>2. g[i + 1] = f[i + 1]
        BY <2>8, <3>1, <4>1
      <4>. QED BY <2>5, <3>1, <4>1, <4>2 DEF StepsBack
    <3>. QED BY <3>2, <3>3
  <2>10. Good(j)
    BY <2>9
  <2>. QED BY <2>1, <2>10
<1>. QED BY <1>1

LEMMA BackwardReaches ==
  ASSUME SearchInv, NEW U \in SUBSET Node, NEW k \in Nat, NEW f \in [0 .. k -> U], StepsBack(k, f),
         NEW j \in 0 .. k, NEW i \in 0 .. j
  PROVE  WalkLengths(call, {f[j]}, j - i)[f[i]] # {}
<1>. DEFINE Good(h) == h <= j => WalkLengths(call, {f[j]}, h)[f[j - h]] # {}
            Bad == {h \in Nat : ~Good(h)}
<1>1. j \in Nat /\ i \in Nat /\ f[j] \in Node /\ call \in Calls
  BY DEF SearchInv, Base
<1>2. Bad = {}
  <2>. SUFFICES ASSUME Bad # {} PROVE FALSE
    OBVIOUS
  <2>1. PICK h \in Bad : \A t \in Bad : h <= t
    BY LeastNumber
  <2>2. h # 0
    <3>1. 0 \in WalkLengths(call, {f[j]}, 0)[f[j]] /\ j - 0 = j
      BY <1>1, WalkZero
    <3>. QED BY <2>1, <3>1
  <2>3. h \in Nat /\ h - 1 \in Nat /\ ~(h <= h - 1) /\ h <= j /\ h - 1 <= j /\ (h - 1) + 1 = h
    BY <1>1, <2>1, <2>2
  <2>4. Good(h - 1)
    BY <2>1, <2>3
  <2>5. PICK x : x \in WalkLengths(call, {f[j]}, h - 1)[f[j - (h - 1)]]
    BY <2>3, <2>4
  <2>6. j - h \in 0 .. k - 1 /\ j - (h - 1) = (j - h) + 1 /\ j - h \in 0 .. k
    BY <1>1, <2>3
  <2>7. PICK a \in Arc : Open(a) /\ Start(a) = f[(j - h) + 1] /\ End(a) = f[j - h]
    BY <2>6 DEF StepsBack
  <2>8. /\ Eligible(call.G, call.chr, a) /\ StartNode(call.G, a) = f[(j - h) + 1]
        /\ EndNode(call.G, a) = f[j - h] /\ EndNode(call.G, a) \in Node
        /\ x \in WalkLengths(call, {f[j]}, h - 1)[StartNode(call.G, a)]
    BY <2>5, <2>6, <2>7 DEF Open, Start, End, G
  <2>9. x + StepLength(call, a) \in WalkLengths(call, {f[j]}, (h - 1) + 1)[EndNode(call.G, a)]
    BY <2>3, <2>8, WalkExtend
  <2>10. x + StepLength(call, a) \in WalkLengths(call, {f[j]}, h)[f[j - h]]
    BY <2>3, <2>8, <2>9
  <2>. QED BY <2>1, <2>10
<1>3. j - i \in Nat /\ j - i <= j /\ j - (j - i) = i
  BY <1>1
<1>4. Good(j - i)
  BY <1>2, <1>3
<1>. QED BY <1>3, <1>4

(* The nodes that get no number are the ones behind a cycle.                 *)
LEMMA CyclesFound ==
  ASSUME SearchInv, OrderInv, call.proc = "DAGSearch", Done, ~Refused
  PROVE  count < n <=> Recurrent
<1>1. /\ Ordered /\ Taken = {v \in Node : idg[v] = 0} /\ n \in Nat
      /\ count \in 0 .. n /\ (count = n <=> Taken = Node) /\ call \in Calls
  BY OrderDone DEF SearchInv, Base
<1>2. ASSUME Recurrent, count = n PROVE FALSE
  <2>1. PICK r \in [Node -> Nat] : Ranked(r)
    BY <1>1 DEF Ordered
  <2>2. PICK v \in Node, a \in Arc : Open(a) /\ Start(a) = v /\ v \in Reachable({End(a)})
    BY <1>2 DEF Recurrent
  <2>3. \A b \in Arc : End(b) \in Node
    BY <1>1, GraphFacts
  <2>4. \A b \in Arc : Open(b) => r[Start(b)] < r[End(b)]
    BY <1>1, <1>2, <2>1, <2>3 DEF Ranked
  <2>5. \A b \in Arc : Eligible(call.G, call.chr, b) => r[StartNode(call.G, b)] < r[EndNode(call.G, b)]
    BY <2>4 DEF Open, Start, End, G
  <2>6. WalkLengths(call, {End(a)}, n)[v] # {}
    BY <2>2 DEF Reachable
  <2>7. r[End(a)] <= r[v]
    BY <1>1, <2>3, <2>5, <2>6, GrowAlong
  <2>8. r[v] < r[End(a)] /\ r[v] \in Nat /\ r[End(a)] \in Nat
    BY <2>2, <2>3, <2>4
  <2>. QED BY <2>7, <2>8
<1>3. ASSUME count < n PROVE Recurrent
  <2>. DEFINE U == Node \ Taken
  <2>1. U # {} /\ U \in SUBSET Node
    BY <1>1, <1>3
  <2>2. ASSUME NEW v \in U PROVE \E a \in Arc : Open(a) /\ End(a) = v /\ Start(a) \in U
    <3>1. (\A w \in Taken : unread[w] = {}) /\ idg[v] = Cardinality(Entering(v)) /\ idg[v] # 0
      BY <1>1 DEF OrderInv, Done
    <3>2. Entering(v) # {}
      BY <3>1, FS_EmptySet
    <3>3. PICK a \in Arc : Open(a) /\ End(a) = v /\ a \in unread[Start(a)]
      BY <3>2 DEF Entering
    <3>4. Start(a) \in Node
      BY <1>1, GraphFacts
    <3>. QED BY <3>1, <3>3, <3>4
  <2>. HIDE DEF U
  <2>3. PICK f \in [0 .. n -> U] : StepsBack(n, f)
    BY <1>1, <2>1, <2>2, BackwardExists
  <2>4. PICK i, j \in 0 .. n : i < j /\ f[i] = f[j]
    <3>1. \A i \in 0 .. n : f[i] \in Node
      BY <2>1
    <3>. QED BY <3>1, VisitedTwice
  <2>5. j - 1 \in 0 .. n - 1 /\ j - 1 \in 0 .. n /\ i \in 0 .. j - 1 /\ (j - 1) + 1 = j
        /\ (j - 1) - i \in Nat /\ (j - 1) - i <= n
    BY <1>1, <2>4
  <2>6. PICK a \in Arc : Open(a) /\ Start(a) = f[(j - 1) + 1] /\ End(a) = f[j - 1]
    BY <2>3, <2>5 DEF StepsBack
  <2>7. WalkLengths(call, {f[j - 1]}, (j - 1) - i)[f[i]] # {}
    BY <1>1, <2>1, <2>3, <2>5, BackwardReaches
  <2>8. f[j] \in Node /\ Start(a) = f[j] /\ f[i] = f[j] /\ f[i] \in Node
    BY <2>1, <2>4, <2>5, <2>6
  <2>9. WalkLengths(call, {End(a)}, n)[f[j]] # {}
    <3>1. PICK d : d \in WalkLengths(call, {f[j - 1]}, (j - 1) - i)[f[i]]
      BY <2>7
    <3>2. d \in WalkLengths(call, {f[j - 1]}, n)[f[i]]
      BY <1>1, <2>5, <2>8, <3>1, WalkMonotone
    <3>. QED BY <2>6, <2>8, <3>2
  <2>10. f[j] \in Reachable({End(a)})
    BY <2>8, <2>9 DEF Reachable
  <2>. QED BY <2>6, <2>8, <2>10 DEF Recurrent
<1>. QED BY <1>1, <1>2, <1>3
(* No walk from a root node is longer than the label of its last node.       *)
LEMMA NoLongerWalk ==
  ASSUME NEW c \in Calls, NEW D \in [Node -> Int], NEW X, NEW k \in Nat, NEW v \in Node,
         NEW d \in WalkLengths(c, X, k)[v],
         \A w \in Node : w \in X => D[w] >= 0,
         \A a \in Arc : Eligible(c.G, c.chr, a) =>
           D[EndNode(c.G, a)] >= D[StartNode(c.G, a)] + StepLength(c, a)
  PROVE  d <= D[v]
<1>. DEFINE Good(j) == \A w \in Node : \A x \in WalkLengths(c, X, j)[w] : x <= D[w]
            Bad == {j \in Nat : ~Good(j)}
<1>1. Bad = {}
  <2>. SUFFICES ASSUME Bad # {} PROVE FALSE
    OBVIOUS
  <2>1. PICK j \in Bad : \A i \in Bad : j <= i
    BY LeastNumber
  <2>2. j # 0
    <3>1. ASSUME NEW w \in Node, NEW x \in WalkLengths(c, X, 0)[w] PROVE x <= D[w]
      <4>1. x = 0 /\ w \in X
        BY WalkZero
      <4>2. D[w] >= 0 /\ D[w] \in Int
        BY <4>1
      <4>. QED BY <4>1, <4>2
    <3>. QED BY <2>1, <3>1
  <2>3. j \in Nat /\ j - 1 \in Nat /\ ~(j <= j - 1)
    BY <2>2
  <2>4. Good(j - 1)
    BY <2>1, <2>3
  <2>5. ASSUME NEW w \in Node, NEW x \in WalkLengths(c, X, j)[w] PROVE x <= D[w]
    <3>1. \/ x \in WalkLengths(c, X, j - 1)[w]
          \/ \E a \in Arc : \E y \in WalkLengths(c, X, j - 1)[StartNode(c.G, a)] : Extends(c, a, w, y, x)
      BY <2>2, <2>3, WalkSplit
    <3>2. CASE x \in WalkLengths(c, X, j - 1)[w]
      BY <2>4, <3>2
    <3>3. ASSUME NEW a \in Arc, NEW y \in WalkLengths(c, X, j - 1)[StartNode(c.G, a)], Extends(c, a, w, y, x)
          PROVE  x <= D[w]
      <4>1. StartNode(c.G, a) \in Node /\ StepLength(c, a) \in Int
        BY CallFacts
      <4>2. y \in Int /\ y <= D[StartNode(c.G, a)]
        BY <2>3, <2>4, <4>1, WalkBound
      <4>3. x = y + StepLength(c, a) /\ D[w] >= D[StartNode(c.G, a)] + StepLength(c, a)
        BY <3>3 DEF Extends
      <4>4. D[w] \in Int /\ D[StartNode(c.G, a)] \in Int
        BY <4>1
      <4>. QED BY <4>1, <4>2, <4>3, <4>4
    <3>. QED BY <3>1, <3>2, <3>3
  <2>. QED BY <2>1, <2>5
<1>2. Good(k)
  BY <1>1
<1>. QED BY <1>2

(* A node with the largest label, and the first one.                         *)
LEMMA LongestExists ==
  ASSUME dist \in [Node -> Int]
  PROVE  FirstLongest \in Node /\ \A v \in Node : dist[v] <= dist[FirstLongest]
<1>1. n \in Nat /\ n # 0 /\ Node = 0 .. n - 1
  BY NodeFacts DEF Node
<1>. DEFINE Good(k) == \E v \in 0 .. k : \A w \in 0 .. k : dist[w] <= dist[v]
            Bad == {k \in 0 .. n - 1 : ~Good(k)}
<1>2. Bad = {}
  <2>. SUFFICES ASSUME Bad # {} PROVE FALSE
    OBVIOUS
  <2>1. PICK k \in Bad : \A i \in Bad : k <= i
    <3>1. Bad \in SUBSET Nat
      OBVIOUS
    <3>. QED BY <3>1, LeastNumber
  <2>2. k \in 0 .. n - 1 /\ k \in Nat /\ \A w \in 0 .. k : dist[w] \in Int
    BY <1>1
  <2>3. k # 0
    <3>1. 0 \in 0 .. 0 /\ \A w \in 0 .. 0 : w = 0
      OBVIOUS
    <3>2. k = 0 => Good(k)
      BY <2>2, <3>1
    <3>. QED BY <2>1, <3>2
  <2>4. k - 1 \in 0 .. n - 1 /\ ~(k <= k - 1)
    BY <1>1, <2>2, <2>3
  <2>5. Good(k - 1)
    BY <2>1, <2>4
  <2>6. PICK v \in 0 .. k - 1 : \A w \in 0 .. k - 1 : dist[w] <= dist[v]
    BY <2>5
  <2>7. v \in 0 .. k /\ k \in 0 .. k /\ \A w \in 0 .. k : w \in 0 .. k - 1 \/ w = k
    BY <2>2, <2>4
  <2>8. CASE dist[k] <= dist[v]
    <3>1. \A w \in 0 .. k : dist[w] <= dist[v]
      BY <2>6, <2>7, <2>8
    <3>. QED BY <2>1, <2>7, <3>1
  <2>9. CASE ~(dist[k] <= dist[v])
    <3>1. ASSUME NEW w \in 0 .. k PROVE dist[w] <= dist[k]
      BY <2>2, <2>6, <2>7, <2>9
    <3>. QED BY <2>1, <2>7, <3>1
  <2>. QED BY <2>8, <2>9
<1>3. PICK m1 \in Node : \A w \in Node : dist[w] <= dist[m1]
  <2>1. n - 1 \in 0 .. n - 1
    BY <1>1
  <2>2. Good(n - 1)
    BY <1>2, <2>1
  <2>. QED BY <1>1, <2>2
<1>. DEFINE L == {v \in Node : \A w \in Node : dist[w] <= dist[v]}
<1>4. L \in SUBSET Nat /\ L # {}
  BY <1>1, <1>3
<1>5. PICK v \in L : \A w \in L : v <= w
  BY <1>4, LeastNumber
<1>6. ASSUME NEW w \in 0 .. v - 1 PROVE dist[w] < dist[v]
  <2>1. v \in Node /\ w \in Node /\ ~(v <= w)
    BY <1>1, <1>5
  <2>2. w \notin L
    BY <1>5, <2>1
  <2>3. PICK x \in Node : ~(dist[x] <= dist[w])
    BY <2>1, <2>2
  <2>4. dist[x] <= dist[v]
    BY <1>5
  <2>. QED BY <2>1, <2>3, <2>4
<1>7. \E x \in Node : (\A w \in Node : dist[w] <= dist[x]) /\ (\A w \in 0 .. x - 1 : dist[w] < dist[x])
  BY <1>5, <1>6
<1>. QED BY <1>7 DEF FirstLongest

LEMMA OrderedResults ==
  ASSUME SearchInv, OrderInv, call.proc = "DAGSearch", Done, ~Refused, count = n
  PROVE  /\ call.opt = "DAG_SPTREE" => Final
         /\ Critical => \A v \in Node : dist[v] = Max(WalkLengths(call, Roots, n)[v])
         /\ ~Critical => \A a \in Arc : Open(a) => colour[Start(a)] < colour[End(a)]
<1>1. /\ Ordered /\ Taken = Node /\ n \in Nat /\ (\A a \in Arc : HasRead(a))
      /\ call \in Calls /\ dist \in [Node -> Int]
  BY OrderDone DEF SearchInv, Base
<1>2. ASSUME call.opt = "DAG_SPTREE" PROVE Final
  BY <1>1, <1>2 DEF Ordered, ShortOrder, Final
<1>3. PICK r \in [Node -> Nat] : Ranked(r)
  BY <1>1 DEF Ordered
<1>4. ASSUME Critical, NEW v \in Node PROVE dist[v] = Max(WalkLengths(call, Roots, n)[v])
  <2>. DEFINE W == WalkLengths(call, Roots, n)[v]
  <2>1. dist[v] \in W
    <3>1. r[v] \in Nat /\ r[v] <= n /\ dist[v] \in WalkLengths(call, Roots, r[v])[v]
      BY <1>1, <1>3, <1>4 DEF Ranked
    <3>. QED BY <1>1, <3>1, WalkMonotone
  <2>2. ASSUME NEW d \in W PROVE d <= dist[v] /\ d \in Int
    <3>1. \A w \in Node : w \in Roots => dist[w] >= 0
      BY <1>1, <1>4 DEF Ordered, LongOrder
    <3>2. \A a \in Arc : Open(a) => dist[End(a)] >= dist[Start(a)] + StepLength(call, a)
      BY <1>1, <1>4 DEF Ordered, LongOrder
    <3>3. \A a \in Arc : Eligible(call.G, call.chr, a) =>
            dist[EndNode(call.G, a)] >= dist[StartNode(call.G, a)] + StepLength(call, a)
      BY <3>2 DEF Open, Start, End, G
    <3>4. d <= dist[v]
      BY <1>1, <3>1, <3>3, NoLongerWalk
    <3>. QED BY <1>1, <3>4, WalkBound
  <2>3. \A d \in W : d <= dist[v] /\ d \in Int
    BY <2>2
  <2>. HIDE DEF W
  <2>4. Max(W) \in W /\ \A y \in W : Max(W) >= y
    <3>1. \E x \in W : \A y \in W : x >= y
      BY <1>1, <2>1, <2>3
    <3>. QED BY <3>1 DEF Max
  <2>5. dist[v] = Max(W)
    BY <1>1, <2>1, <2>3, <2>4
  <2>. QED BY <2>5 DEF W
<1>5. ASSUME ~Critical, NEW a \in Arc, Open(a) PROVE colour[Start(a)] < colour[End(a)]
  <2>1. Start(a) \in Node /\ End(a) \in Node
    BY <1>1, GraphFacts
  <2>2. colour[Start(a)] = r[Start(a)] /\ colour[End(a)] = r[End(a)]
    BY <1>1, <1>3, <1>5, <2>1 DEF Ranked
  <2>. QED BY <1>1, <1>3, <1>5, <2>1, <2>2 DEF Ranked
<1>. QED BY <1>2, <1>4, <1>5

LEMMA OrderResults ==
  ASSUME SearchInv, OrderInv, RefusedInv, call.proc = "DAGSearch"
  PROVE  ResultsExact
<1>1. Done /\ ~Fails => ~Refused
  BY DEF RefusedInv, Fails, Done
<1>2. call \in Calls /\ dist \in [Node -> Int] /\ call.opt # "VORONOI"
  BY CallsAssumption DEF SearchInv, Base
<1>3. ASSUME Done, Correct PROVE Final
  BY <1>1, <1>3, OrderedResults DEF Correct
<1>4. LabelsExact
  <2>. SUFFICES ASSUME Done, Correct, NEW v \in Node PROVE dist[v] = Distances(call, Sources)[v]
    BY DEF LabelsExact
  <2>. QED BY <1>3, FinalExact
<1>5. PathsLeadBack
  BY <1>3, FinalExact DEF PathsLeadBack
<1>6. ASSUME Done, ~Fails, count = n, Critical PROVE \A v \in Node : dist[v] <= dist[out[2]]
  <2>1. out = DAGResult
    BY <1>1, <1>6, OrderDone
  <2>2. n \in Nat
    BY NodeFacts
  <2>3. out = <<"node", FirstLongest>>
    BY <1>6, <2>1, <2>2 DEF DAGResult
  <2>. QED BY <1>2, <2>3, LongestExists
<1>7. DAGResults
  BY <1>1, <1>6, OrderedResults DEF DAGResults
<1>8. RegionsNearest
  BY <1>2 DEF RegionsNearest
<1>. QED BY <1>4, <1>5, <1>7, <1>8 DEF ResultsExact

LEMMA OrderAnswers ==
  ASSUME SearchInv, OrderInv, call.proc = "DAGSearch"
  PROVE  AnswersTrue
<1>1. CycleExported
  BY DEF CycleExported, CycleNode
<1>2. ASSUME Done, ~Refused PROVE ExceptionsTrue
  <2>1. count < n <=> Recurrent
    BY <1>2, CyclesFound
  <2>2. out = DAGResult /\ n \in Nat /\ count \in 0 .. n /\ call \in Calls
    BY <1>2, OrderDone DEF SearchInv, Base
  <2>3. /\ out[1] \in {"node", "ERRejected", "true", "false"}
        /\ out[1] \in {"true", "false"} =>
             count = n /\ ~Critical /\ call.hub /\ out = Bool(call.T = {} \/ Reached)
    <3>1. CASE count < n
      BY <2>2, <3>1 DEF DAGResult
    <3>2. CASE count = n
      BY <2>2, <3>2 DEF DAGResult, Bool
    <3>. QED BY <2>2, <3>1, <3>2
  <2>4. ASSUME out[1] \in {"true", "false"}
        PROVE  /\ out[1] = "true" => call.T \subseteq Reachable(call.S)
               /\ out[1] = "false" => call.T \intersect Reachable(call.S) = {}
    <3>1. CASE call.T = {}
      BY <3>1
    <3>2. CASE call.T # {}
      <4>1. out = Bool(Reached) /\ call.opt = "DAG_SPTREE" /\ call.S # {}
        BY <2>2, <2>3, <2>4, <3>2, CallsAssumption DEF Bool
      <4>2. Sources = call.S
        BY <4>1 DEF Sources
      <4>3. Final
        BY <1>2, <2>3, <2>4, <4>1, OrderedResults
      <4>. QED BY <4>1, <4>2, <4>3, ReachedTrue
    <3>. QED BY <3>1, <3>2
  <2>. QED BY <2>1, <2>3, <2>4 DEF ExceptionsTrue
<1>3. ExceptionsTrue
  BY <1>2 DEF ExceptionsTrue
<1>. QED BY <1>1, <1>3 DEF AnswersTrue

-------------------------------------------------------------------------------
(* When a call returns without an exception, its labels are the distances    *)
(* from the sources, the predecessor arcs form shortest paths, a DAG search  *)
(* leaves longest path lengths or topological numbers, and VoronoiRegions    *)
(* the regions nearest to the terminals: for every procedure of              *)
(* solveSPTree.cpp, every graph and every order of the incidence lists.      *)
THEOREM AllResultsExact == Spec => []ResultsExact
<1>1. /\ SearchInv /\ ScanInv /\ OrderInv /\ RefusedInv
      /\ (call.proc \in {"BFS", "Dijkstra"} => ResultsExact)
      => ResultsExact
  <2>1. SearchInv => call.proc \in Procedures
    BY CallsAssumption DEF SearchInv, Base
  <2>. QED BY <2>1, CorrectingResults, OrderResults DEF Procedures, Correcting
<1>. QED BY <1>1, SearchInvariant, ScanInvariant, OrderInvariant, RefusedInvariant,
  SearchResultsExact, PTL

(* What a caller is told is true: an exception or a cycle if and only if     *)
(* there is a negative cycle that can be reached, or a directed cycle in a   *)
(* DAG search; the node that NegativeCycle returns lies on a negative cycle; *)
(* and the answer of ShortestPath is the reachability of the target.  The    *)
(* exception is a graph with a single node, where SPX_BellmanFord always     *)
(* raises ERCheck, because its first pass is also the last one.              *)
THEOREM AllAnswersTrue == Spec => [](n > 1 \/ call.proc # "BellmanFord" => AnswersTrue)
<1>1. /\ SearchInv /\ ScanInv /\ RoundInv /\ LevelInv /\ OrderInv /\ RefusedInv
      /\ (call.proc \in {"BFS", "Dijkstra"} => AnswersTrue)
      => (n > 1 \/ call.proc # "BellmanFord" => AnswersTrue)
  <2>1. SearchInv => call.proc \in Procedures
    BY CallsAssumption DEF SearchInv, Base
  <2>. QED BY <2>1, CorrectingAnswers, OrderAnswers DEF Procedures, Correcting
<1>. QED BY <1>1, SearchInvariant, ScanInvariant, RoundInvariant, LevelInvariant, OrderInvariant,
  RefusedInvariant, SearchAnswersTrue, PTL
===============================================================================
