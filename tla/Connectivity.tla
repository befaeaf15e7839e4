----------------------------- MODULE Connectivity ------------------------------
(****************************************************************************)
(* solveComponents.cpp: the depth first searches Connected,                  *)
(* StronglyConnected, CutNodes, Biconnected and STNumbering, and the methods *)
(* EdgeConnected and StronglyEdgeConnected, which split the graph by cuts.   *)
(*                                                                           *)
(* One behaviour is one call, and a step reads one arc, or splits one        *)
(* component.  Incidence lists are read in any order.  The graph is a value  *)
(* of its own size: n nodes, and edges with ends, capacities and             *)
(* orientations as in Network; ext is the exterior arc, or NoArc.  There are *)
(* no loops, which CutNodes and STNumbering do not expect at the root.       *)
(****************************************************************************)
EXTENDS Network, Sequences, FiniteSetsExt

CONSTANT Queries     \* the calls that are considered

(* proc    the procedure;  G: the graph object                               *)
(* rootArc, source, target   the parameters of CutNodes and STNumbering      *)
(* k       the connectivity that EdgeConnected is asked about                *)
(* methMCC the method for minimum cuts: "MAXFLOW", or "PREFLOW" for the two  *)
(*         variants of MCC_HaoOrlin, one of which is the default             *)

VARIABLES
  query,     \* the call
  conf,      \* rootArc, source and target as CutNodes gets them
  stage,     \* where it stands
  colour, edgeColour, pred,   \* the registers of the graph object
  unread,    \* the investigator: the arcs of every node not read yet
  r, u,      \* the root of the current search (in Biconnected, the edge of
             \* the loop), and the current node
  S,         \* the stack of nodes, its top last
  marked,    \* StronglyConnected: nodes that wait for the second search
  dfs,       \* order, low and lowArc of every node
  cnt,       \* counters: i, nBlocks, nLeafs, nComponents, nrVertex, nrPath
  part,      \* Biconnected: the node partition
  path,      \* STNumbering: Q[v], an arc of the paths so far that enters v
  split,     \* EdgeConnected: cNext, cCurrent, nMerged, the bounds of the
             \* timer, whether the solver is running, and whether no
             \* cut has been broken off
  answer     \* what the call returned

vars == <<query, conf, stage, colour, edgeColour, pred, unread, r, u, S, marked, dfs, cnt, part, path, split, answer>>
registers == <<colour, edgeColour, pred>>
search == <<marked, dfs, cnt, part, path, split>>

G == query.G
Nodes == 0 .. G.n - 1
Edges == DOMAIN G.ends
Arcs == {2 * e : e \in Edges} \union {2 * e + 1 : e \in Edges}
Start(a) == StartNode(G, a)
End(a) == EndNode(G, a)
Around(v) == {a \in Arcs : Start(a) = v}
Parent(v) == Start(pred[v])

CONN_CUT_NODE == 0
Is(proc) == query.proc = proc
ByCuts == query.proc \in {"EdgeConnected", "StronglyEdgeConnected"}
WithBlocks == query.proc \in {"CutNodes", "Biconnected", "STNumbering"}

(* StronglyConnected leaves graphs without directed edges to Connected.      *)
Simple == Is("Connected") \/ (Is("StronglyConnected") /\ \A e \in Edges : G.orientation[e] = 0)

Begin(q) ==
  LET size == 0 .. q.G.n - 1 IN
  /\ query = q /\ stage = "called"
  /\ conf = [rootArc |-> q.rootArc, source |-> q.source, target |-> q.target]
  /\ colour = [v \in size |-> NoNode] /\ pred = [v \in size |-> NoArc]
  /\ edgeColour = [e \in DOMAIN q.G.ends |-> NoArc]
  /\ unread = [v \in size |-> {}] /\ r = 0 /\ u = NoNode /\ S = <<>> /\ marked = {}
  /\ dfs = [order |-> [v \in size |-> 0], low |-> [v \in size |-> 0], lowArc |-> [v \in size |-> NoArc]]
  /\ cnt = [i |-> 0, nBlocks |-> 0, nLeafs |-> 0, nComponents |-> 0, nrVertex |-> 0, nrPath |-> 0]
  /\ part = [v \in size |-> {v}] /\ path = [v \in size |-> NoArc] /\ answer = "none"
  /\ split = [cNext |-> 1, cCurrent |-> 0, nMerged |-> 0, lower |-> 1, upper |-> q.G.n,
              running |-> TRUE, whole |-> TRUE]
Init == \E q \in Queries : Begin(q)

AllUnread == [v \in Nodes |-> Around(v)]
Read(a) == a \in unread[u] /\ unread' = [unread EXCEPT ![u] = @ \ {a}]
Exhausted == unread[u] = {}
Reset(v) == unread' = [unread EXCEPT ![v] = Around(v)]
Return(result) == stage' = "done" /\ answer' = result
Bool(b) == IF b THEN "true" ELSE "false"

(* The next root: the first node from k on that has no colour, or n.         *)
Uncoloured(k) ==
  CHOOSE v \in k .. G.n : /\ v < G.n => colour[v] = NoNode
                          /\ \A w \in k .. v - 1 : colour[w] # NoNode

Descend(a) == pred' = [pred EXCEPT ![End(a)] = a] /\ u' = End(a)

-------------------------------------------------------------------------------
(*                    Connected and StronglyConnected                        *)
ComponentsStart ==
  /\ stage = "called" /\ ~WithBlocks /\ ~ByCuts
  /\ stage' = "root" /\ unread' = AllUnread
  /\ UNCHANGED <<query, conf, registers, r, u, S, search, answer>>

ComponentsRoot ==
  /\ stage = "root" /\ ~WithBlocks
  /\ r' = Uncoloured(r)
  /\ IF r' = G.n
     THEN Return(Bool(cnt.i <= 1)) /\ UNCHANGED u
     ELSE stage' = "search" /\ u' = r' /\ UNCHANGED answer
  /\ UNCHANGED <<query, conf, registers, unread, S, search>>

ConnectedRead(a) ==
  /\ stage = "search" /\ Simple /\ Read(a)
  /\ IF UCap(G, a) > 0 /\ pred[End(a)] = NoArc /\ End(a) # r
     THEN Descend(a) ELSE UNCHANGED <<pred, u>>
  /\ UNCHANGED <<query, conf, stage, colour, edgeColour, r, S, search, answer>>

ConnectedBack ==
  /\ stage = "search" /\ Simple /\ Exhausted
  /\ colour' = [colour EXCEPT ![u] = cnt.i]
  /\ IF u = r
     THEN stage' = "root" /\ cnt' = [cnt EXCEPT !.i = @ + 1] /\ UNCHANGED u
     ELSE u' = Parent(u) /\ UNCHANGED <<stage, cnt>>
  /\ UNCHANGED <<query, conf, edgeColour, pred, unread, r, S, marked, dfs, part, path, split, answer>>

Passable(a) == UCap(G, a) > 0 /\ ~Blocking(G, a)

(* The first search runs against the arcs, and stacks nodes as it leaves.    *)
ForwardRead(a) ==
  /\ stage = "search" /\ Is("StronglyConnected") /\ ~Simple /\ Read(a)
  /\ IF Passable(Twin(a)) /\ pred[End(a)] = NoArc /\ colour[End(a)] = NoNode /\ End(a) # r
     THEN Descend(a) ELSE UNCHANGED <<pred, u>>
  /\ UNCHANGED <<query, conf, stage, colour, edgeColour, r, S, search, answer>>

(* Mutant: the stack is filled as nodes are left, but in reverse.            *)
ForwardBackBelow ==
  /\ stage = "search" /\ Is("StronglyConnected") /\ ~Simple /\ Exhausted
  /\ S' = <<u>> \o S /\ marked' = marked \union {u} /\ Reset(u)
  /\ IF u = r
     THEN stage' = "pop" /\ pred' = [v \in Nodes |-> NoArc] /\ UNCHANGED u
     ELSE u' = Parent(u) /\ UNCHANGED <<stage, pred>>
  /\ UNCHANGED <<query, conf, colour, edgeColour, r, dfs, cnt, part, path, split, answer>>
(* The predecessor arcs of this search are released at its end.              *)
ForwardBack ==
  /\ stage = "search" /\ Is("StronglyConnected") /\ ~Simple /\ Exhausted
  /\ S' = Append(S, u) /\ marked' = marked \union {u} /\ Reset(u)
  /\ IF u = r
     THEN stage' = "pop" /\ pred' = [v \in Nodes |-> NoArc] /\ UNCHANGED u
     ELSE u' = Parent(u) /\ UNCHANGED <<stage, pred>>
  /\ UNCHANGED <<query, conf, colour, edgeColour, r, dfs, cnt, part, path, split, answer>>

(* The search continues with the node that was left last.  The node that the *)
(* second search starts from is the value of u, and the bottom of S.         *)
StrongPop ==
  /\ stage = "pop"
  /\ IF S = <<>> THEN stage' = "root" /\ r' = r + 1 /\ UNCHANGED <<S, u>>
     ELSE /\ UNCHANGED r
          /\ IF colour[S[Len(S)]] = NoNode /\ S[Len(S)] \in marked
             THEN stage' = "collect" /\ u' = S[Len(S)] /\ UNCHANGED S
             ELSE S' = SubSeq(S, 1, Len(S) - 1) /\ UNCHANGED <<stage, u>>
  /\ UNCHANGED <<query, conf, registers, unread, search, answer>>

CollectRead(a) ==
  /\ stage = "collect" /\ Read(a)
  /\ IF Passable(a) /\ colour[End(a)] = NoNode /\ End(a) \in marked /\ End(a) # S[Len(S)]
     THEN Descend(a) /\ marked' = marked \ {End(a)} ELSE UNCHANGED <<pred, u, marked>>
  /\ UNCHANGED <<query, conf, stage, colour, edgeColour, r, S, dfs, cnt, part, path, split, answer>>

CollectBack ==
  /\ stage = "collect" /\ Exhausted
  /\ colour' = [colour EXCEPT ![u] = cnt.i] /\ Reset(u)
  /\ IF u = S[Len(S)]
     THEN /\ stage' = "pop" /\ cnt' = [cnt EXCEPT !.i = @ + 1]
          /\ S' = SubSeq(S, 1, Len(S) - 1) /\ pred' = [v \in Nodes |-> NoArc] /\ UNCHANGED u
     ELSE u' = Parent(u) /\ UNCHANGED <<stage, cnt, S, pred>>
  /\ UNCHANGED <<query, conf, edgeColour, r, marked, dfs, part, path, split, answer>>

-------------------------------------------------------------------------------
(*                               CutNodes                                    *)
(* The parameters that STNumbering settles on; Biconnected has none.         *)
Settled ==
  LET Config(a, s) == [rootArc |-> a, source |-> s,
                       target |-> IF query.target \in {NoNode, s} THEN End(a) ELSE query.target]
  IN CASE ~Is("STNumbering") -> {conf}
       [] query.rootArc # NoArc ->
            {[rootArc |-> query.rootArc, source |-> Start(query.rootArc), target |-> End(query.rootArc)]}
       [] query.rootArc = NoArc /\ query.source # NoNode -> {Config(a, query.source) : a \in Around(query.source)}
       [] OTHER -> IF G.ext # NoArc THEN {Config(G.ext, Start(G.ext))} ELSE {Config(a, 0) : a \in Around(0)}

(* Without a root arc, it is the first arc of the first node that has one.   *)
LocalRootArcs(a) ==
  IF a # NoArc THEN {a}
  ELSE Around(CHOOSE v \in Nodes : Around(v) # {} /\ \A w \in 0 .. v - 1 : Around(w) = {})

BlocksVoid ==
  /\ stage = "called" /\ Is("CutNodes") /\ Edges = {}
  /\ Return(IF G.n <= 1 THEN "BICONNECTED" ELSE "DISCONNECTED")
  /\ UNCHANGED <<query, conf, registers, unread, r, u, S, search>>

(* The root arc is the first tree arc.                                       *)
BlocksStart ==
  /\ stage = "called" /\ WithBlocks /\ Edges # {}
  /\ \E c \in Settled : \E a \in LocalRootArcs(c.rootArc) :
       /\ conf' = c /\ r' = Start(a) /\ u' = End(a)
       /\ S' = <<Start(a), End(a)>> /\ pred' = [pred EXCEPT ![End(a)] = a]
       /\ dfs' = [dfs EXCEPT !.order[Start(a)] = 1, !.low[Start(a)] = 1,
                             !.order[End(a)] = 2, !.low[End(a)] = 2]
  /\ cnt' = [cnt EXCEPT !.i = 3, !.nComponents = 1]
  /\ stage' = "search" /\ unread' = AllUnread
  /\ UNCHANGED <<query, colour, edgeColour, marked, part, path, split, answer>>

(* Mutant: the arc to the predecessor counts as a backward arc.              *)
BackwardAny(a) == dfs.low[u] > dfs.order[End(a)]
BackwardArc(a) == pred[u] # Twin(a) /\ dfs.low[u] > dfs.order[End(a)]

BlocksRead(a) ==
  /\ stage = "search" /\ WithBlocks /\ Read(a)
  /\ \/ /\ UCap(G, a) > 0 /\ pred[End(a)] = NoArc /\ End(a) # r
        /\ Descend(a) /\ S' = Append(S, End(a))
        /\ dfs' = [dfs EXCEPT !.order[End(a)] = cnt.i, !.low[End(a)] = cnt.i, !.lowArc[End(a)] = NoArc]
        /\ cnt' = [cnt EXCEPT !.i = @ + 1]
     \/ /\ ~(UCap(G, a) > 0 /\ pred[End(a)] = NoArc /\ End(a) # r)
        /\ dfs' = IF UCap(G, a) > 0 /\ BackwardArc(a)
                  THEN [dfs EXCEPT !.low[u] = dfs.order[End(a)], !.lowArc[u] = a] ELSE dfs
        /\ UNCHANGED <<pred, u, S, cnt>>
  /\ UNCHANGED <<query, conf, stage, colour, edgeColour, r, marked, part, path, split, answer>>

(* Edges at the nodes of V that have no colour yet get the colour c.         *)
Painted(V, c) ==
  [e \in Edges |-> IF edgeColour[e] = NoArc /\ {G.ends[e][1], G.ends[e][2]} \intersect V # {}
                   THEN c ELSE edgeColour[e]]

LowBack ==
  LET w == Parent(u) IN
  /\ stage = "search" /\ WithBlocks /\ Exhausted /\ u # r
  /\ dfs.low[u] < dfs.order[w]
  /\ dfs' = IF dfs.low[w] > dfs.low[u]
            THEN [dfs EXCEPT !.low[w] = dfs.low[u], !.lowArc[w] = dfs.lowArc[u]] ELSE dfs
  /\ u' = w
  /\ UNCHANGED <<query, conf, stage, registers, unread, r, S, marked, cnt, part, path, split, answer>>

(* Mutant: the root is a cut node like the others.                           *)
BlockRootCut(w, c) == CONN_CUT_NODE
(* The node where a block has been left: the root is no cut node before a    *)
(* second block ends there.                                                  *)
BlockRoot(w, c) == IF w = r /\ colour[r] = NoNode THEN c ELSE CONN_CUT_NODE

(* A block is complete: the nodes on the stack down to u, and Parent(u).     *)
BlockBack ==
  LET w == Parent(u)
      c == cnt.nBlocks + 1
      below == CHOOSE k \in DOMAIN S : S[k] = u
      block == {S[k] : k \in below .. Len(S)}
  IN /\ stage = "search" /\ WithBlocks /\ Exhausted /\ u # r
     /\ dfs.low[u] >= dfs.order[w]
     /\ S' = SubSeq(S, 1, below - 1)
     /\ colour' = [v \in Nodes |-> IF v \in block /\ colour[v] = NoNode THEN c
                                   ELSE IF v = w THEN BlockRoot(w, c) ELSE colour[v]]
     /\ edgeColour' = Painted(block, c)
     /\ cnt' = [cnt EXCEPT !.nBlocks = c,
                           !.nLeafs = IF \A v \in block : colour[v] = NoNode THEN @ + 1 ELSE @]
     /\ u' = w
     /\ UNCHANGED <<query, conf, stage, pred, unread, r, marked, dfs, part, path, split, answer>>

(* The first root may have any number, and the others are tried from 0 on.   *)
RootBack ==
  /\ stage = "search" /\ WithBlocks /\ Exhausted /\ u = r
  /\ edgeColour' = Painted({r}, cnt.nBlocks)
  /\ stage' = "root" /\ r' = IF cnt.nComponents = 1 THEN 0 ELSE r + 1
  /\ UNCHANGED <<query, conf, colour, pred, unread, u, S, search, answer>>

RetDFS ==
  CASE cnt.nComponents > 1 -> "DISCONNECTED"
    [] cnt.nComponents <= 1 /\ cnt.nBlocks = 1 -> "BICONNECTED"
    [] OTHER -> IF cnt.nLeafs > 1 \/ conf.rootArc = NoArc THEN "MULTIPLE_BLOCKS"
                ELSE IF colour[Start(conf.rootArc)] = CONN_CUT_NODE THEN "MULTIPLE_BLOCKS"
                ELSE "ALMOST_BICONNECTED"

BlocksRoot ==
  /\ stage = "root" /\ WithBlocks
  /\ IF Uncoloured(r) < G.n
     THEN /\ r' = Uncoloured(r) /\ u' = r' /\ stage' = "search"
          /\ cnt' = [cnt EXCEPT !.i = @ + 1, !.nComponents = @ + 1]
          /\ dfs' = [dfs EXCEPT !.order[r'] = cnt.i, !.low[r'] = cnt.i]
          /\ UNCHANGED answer
     ELSE /\ IF Is("CutNodes") THEN Return(RetDFS)
             ELSE stage' = (IF Is("Biconnected") THEN "merge" ELSE "check") /\ UNCHANGED answer
          /\ r' = 0 /\ UNCHANGED <<u, cnt, dfs>>
  /\ UNCHANGED <<query, conf, registers, unread, S, marked, part, path, split>>

-------------------------------------------------------------------------------
(*                             Biconnected                                   *)
(* Edge e joins nodes of a 2-edge connected component: it is no tree edge,   *)
(* or an arc leads from below it to a node above.                            *)
Bypassed(v) == dfs.lowArc[v] # NoArc /\ dfs.order[End(dfs.lowArc[v])] < dfs.order[v]
Joins(e) ==
  LET v == Start(2 * e)  w == End(2 * e) IN
  \/ colour[v] = colour[w] /\ colour[v] # CONN_CUT_NODE
  \/ pred[w] # 2 * e /\ pred[v] # 2 * e + 1
  \/ pred[w] = 2 * e /\ Bypassed(w)
  \/ pred[v] = 2 * e + 1 /\ Bypassed(v)

Merge ==
  /\ stage = "merge" /\ r \in Edges
  /\ LET both == part[Start(2 * r)] \union part[End(2 * r)] IN
     part' = IF Joins(r) THEN [v \in Nodes |-> IF v \in both THEN both ELSE part[v]] ELSE part
  /\ r' = r + 1
  /\ UNCHANGED <<query, conf, stage, registers, unread, u, S, marked, dfs, cnt, path, split, answer>>

(* A set is named by one of its nodes, which gives its colour to the others. *)
Classes == {part[v] : v \in Nodes}
MergeReturn ==
  /\ stage = "merge" /\ r \notin Edges
  /\ \E Find \in {f \in [Classes -> Nodes] : \A C \in Classes : f[C] \in C} :
       colour' = [v \in Nodes |-> colour[Find[part[v]]]]
  /\ Return(Bool(Cardinality(Classes) = 1))
  /\ UNCHANGED <<query, conf, edgeColour, pred, unread, r, u, S, search>>

-------------------------------------------------------------------------------
(*                             STNumbering                                   *)
(* The blocks of source and target have at most one cut node each.           *)
CutNodesOf(c) == {Start(a) : a \in {b \in Arcs : colour[Start(b)] = CONN_CUT_NODE /\ edgeColour[EdgeOf(b)] = c}}
Feasible ==
  LET s == colour[conf.source]  t == colour[conf.target] IN
  \/ RetDFS = "BICONNECTED"
  \/ /\ RetDFS = "ALMOST_BICONNECTED"
     /\ s # t /\ CONN_CUT_NODE \notin {s, t}
     /\ Cardinality(CutNodesOf(s)) <= 1 /\ Cardinality(CutNodesOf(t)) <= 1

(* The nodes from w to t against the arcs that q names.                      *)
Walk(q, w, t) ==
  LET Back == [v \in Nodes |-> IF v = t THEN t ELSE Start(q[v])]
      At[k \in 0 .. G.n] == IF k = 0 THEN w ELSE Back[At[k - 1]]
      length == CHOOSE k \in 0 .. G.n : At[k] = t /\ \A j \in 0 .. k - 1 : At[j] # t
  IN [k \in 1 .. length + 1 |-> At[k - 1]]
Inner(p) == SubSeq(p, 2, Len(p) - 1)
On(p) == {p[k] : k \in DOMAIN p}
EdgesOn(q, p) == {EdgeOf(q[p[k]]) : k \in 1 .. Len(p) - 1}

(* The first path is the one from source to target in the search tree.       *)
EarsStart ==
  LET p == Walk(pred, conf.target, conf.source) IN
  /\ stage = "check"
  /\ IF Feasible
     THEN /\ stage' = "ears" /\ u' = NoNode /\ unread' = AllUnread
          /\ colour' = [v \in Nodes |-> NoNode]
          /\ edgeColour' = [e \in Edges |-> IF e \in EdgesOn(pred, p) THEN 0 ELSE NoArc]
          /\ path' = [v \in Nodes |-> IF v = conf.source THEN Twin(pred[p[Len(p) - 1]])
                                      ELSE IF v \in On(p) THEN pred[v] ELSE NoArc]
          /\ S' = Tail(p) /\ cnt' = [cnt EXCEPT !.nrPath = 1]
          /\ UNCHANGED answer
     ELSE Return("false") /\ UNCHANGED <<u, unread, colour, edgeColour, path, S, cnt>>
  /\ UNCHANGED <<query, conf, pred, r, marked, dfs, part, split>>

EarsPop ==
  /\ stage = "ears" /\ u = NoNode
  /\ IF S # <<>>
     THEN /\ u' = S[Len(S)] /\ S' = SubSeq(S, 1, Len(S) - 1)
          /\ UNCHANGED <<colour, stage, answer>>
     ELSE /\ colour' = [colour EXCEPT ![conf.target] = cnt.nrVertex]
          /\ Return("true") /\ UNCHANGED <<u, S>>
  /\ UNCHANGED <<query, conf, edgeColour, pred, unread, r, search>>

(* Mutant: only nodes without a label are labelled on the way up.            *)
EarDown(a, w, p) == [x \in Nodes |-> IF x = End(a) THEN a ELSE path[x]]
(* The labels of the tree path p from the end of arc a to its first labelled *)
(* node w, which is used downwards.                                          *)
EarUp(a, w, p) ==
  [x \in Nodes |-> IF x = End(a) THEN a
                   ELSE IF x \in On(p) THEN Twin(pred[p[(CHOOSE k \in DOMAIN p : p[k] = x) - 1]])
                   ELSE path[x]]

(* A path from u along a to a node w that has been visited: by the tree arc  *)
(* a, tree arcs and the lowest arc out of the subtree; by an arc to a        *)
(* descendant, and tree arcs back; or by a alone.  w, and the new labels.    *)
Ear(a) ==
  LET v == End(a)
      b == dfs.lowArc[v]
      Visited(w) == path[w] # NoArc
      Above == [x \in Nodes |-> IF Visited(x) THEN x ELSE Parent(x)]
      Up[k \in 0 .. G.n] == IF k = 0 THEN v ELSE Above[Up[k - 1]]
  IN CASE pred[v] = a ->
            [w |-> End(b),
             q |-> LET p == Walk(pred, Start(b), u) IN
                   [x \in Nodes |-> IF x \in On(p) \ {u} THEN pred[x]
                                    ELSE IF x = End(b) THEN b ELSE path[x]]]
       [] pred[v] # a /\ dfs.order[v] > dfs.order[u] ->
            [w |-> Up[G.n], q |-> EarUp(a, Up[G.n], Walk(pred, v, Up[G.n]))]
       [] OTHER -> [w |-> v, q |-> [path EXCEPT ![v] = a]]

(* The nodes on the way back from w to u are visited next, the last first.   *)
EarsRead(a) ==
  /\ stage = "ears" /\ u # NoNode /\ Read(a)
  /\ IF pred[u] = Twin(a) \/ edgeColour[EdgeOf(a)] # NoArc
     THEN UNCHANGED <<edgeColour, S, cnt, path>>
     ELSE \E ear \in {Ear(a)} : \E p \in {Walk(ear.q, ear.w, u)} :
            /\ path' = ear.q /\ S' = S \o Inner(p)
            /\ edgeColour' = [e \in Edges |-> IF e \in EdgesOn(ear.q, p) THEN cnt.nrPath ELSE edgeColour[e]]
            /\ cnt' = [cnt EXCEPT !.nrPath = @ + 1]
  /\ UNCHANGED <<query, conf, stage, colour, pred, r, u, marked, dfs, part, split, answer>>

EarsNumber ==
  /\ stage = "ears" /\ u # NoNode
  /\ Exhausted
  /\ colour' = [colour EXCEPT ![u] = cnt.nrVertex] /\ u' = NoNode
  /\ cnt' = [cnt EXCEPT !.nrVertex = @ + 1]
  /\ UNCHANGED <<query, conf, stage, edgeColour, pred, unread, r, S, marked, dfs, part, path, split, answer>>

-------------------------------------------------------------------------------
(*               EdgeConnected and StronglyEdgeConnected                     *)
SplitStart ==
  /\ stage = "called" /\ ByCuts
  /\ stage' = "split" /\ colour' = [v \in Nodes |-> 0]
  /\ UNCHANGED <<query, conf, edgeColour, pred, unread, r, u, S, search, answer>>

(* The subgraph of the nodes X: the capacity of the edges that leave X \ R   *)
(* for R, or connect them.                                                   *)
CutValue(X, R) ==
  LET across == {e \in Edges : \/ G.ends[e][1] \in X \ R /\ G.ends[e][2] \in R
                               \/ Is("EdgeConnected") /\ G.ends[e][1] \in R /\ G.ends[e][2] \in X \ R}
  IN MapThenSumSet(LAMBDA e : G.ucap[e], across)
Sides(X) == SUBSET X \ {{}, X}
(* The right hand sides of the cuts that EdgeConnectivity() and              *)
(* StrongEdgeConnectivity() may return.  The series of maximum flows gives   *)
(* minimum cuts, and StronglyEdgeConnected has no other method but for a     *)
(* class without arcs, all of whose cuts are minimum.                        *)
(* MCC_HaoOrlin gives a cut and its value, but not always a minimum one (see *)
(* the module HaoOrlin): any cut is possible here.                           *)
Exact == Is("StronglyEdgeConnected") \/ query.methMCC = "MAXFLOW"
MinCuts(X) == {R \in Sides(X) : \A Q \in Sides(X) : CutValue(X, R) <= CutValue(X, Q)}
Cuts(X) == IF Exact THEN MinCuts(X) ELSE Sides(X)

(* A component is finished: n - nMerged + cCurrent bounds their number.      *)
BoundAfter(X) ==
  LET bound == G.n - split.nMerged - Cardinality(X) + split.cCurrent + 1
  IN IF bound >= split.lower THEN bound ELSE split.upper
ClassDone(X) ==
  /\ split' = [split EXCEPT !.nMerged = @ + Cardinality(X), !.cCurrent = @ + 1, !.upper = BoundAfter(X)]
  /\ UNCHANGED colour

(* Mutant: the left hand side becomes another component, too.                *)
SplitOffAll(X, R) ==
  /\ colour' = [v \in Nodes |-> IF v \in X THEN split.cNext ELSE colour[v]]
  /\ split' = [split EXCEPT !.cNext = @ + 1,
                            !.lower = IF split.cNext + 1 <= split.upper THEN split.cNext + 1 ELSE @]
(* The right hand side becomes another component.                            *)
LowerAfter == IF split.cNext + 1 <= split.upper THEN split.cNext + 1 ELSE split.lower
SplitOff(X, R) ==
  /\ colour' = [v \in Nodes |-> IF v \in R THEN split.cNext ELSE colour[v]]
  /\ split' = [split EXCEPT !.cNext = @ + 1, !.lower = LowerAfter]

Split ==
  LET X == {v \in Nodes : colour[v] = split.cCurrent} IN
  /\ stage = "split" /\ split.cCurrent < split.cNext /\ split.running
  /\ IF Cardinality(X) > 1
     THEN \E R \in Cuts(X) : IF CutValue(X, R) >= query.k THEN ClassDone(X) ELSE SplitOff(X, R)
     ELSE ClassDone(X)
  /\ UNCHANGED <<query, conf, stage, edgeColour, pred, unread, r, u, S, marked, dfs, cnt, part, path, answer>>

(* The user stops the solver in the midst of a maximum flow: the value is    *)
(* that of an unfinished flow, or infinite if it was the first one, and the  *)
(* colours come from its labels.  MCC_HaoOrlin cannot be stopped.            *)
SplitBrokenOff ==
  LET X == {v \in Nodes : colour[v] = split.cCurrent}
      Stopped == [split EXCEPT !.running = FALSE, !.whole = FALSE]
  IN /\ stage = "split" /\ split.cCurrent < split.cNext /\ split.running /\ Exact
     /\ Cardinality(X) > 1
     /\ \/ /\ split' = [Stopped EXCEPT !.nMerged = @ + Cardinality(X), !.cCurrent = @ + 1,
                                       !.upper = BoundAfter(X)]
           /\ UNCHANGED colour
        \/ \E R \in SUBSET X :
             /\ colour' = [v \in Nodes |-> IF v \in R THEN split.cNext ELSE colour[v]]
             /\ split' = [Stopped EXCEPT !.cNext = @ + 1, !.lower = LowerAfter]
     /\ UNCHANGED <<query, conf, stage, edgeColour, pred, unread, r, u, S, marked, dfs, cnt, part, path, answer>>

SplitReturn ==
  /\ stage = "split" /\ (split.cCurrent >= split.cNext \/ ~split.running)
  /\ Return(Bool(split.cNext = 1))
  /\ UNCHANGED <<query, conf, registers, unread, r, u, S, search>>

(* The user stops the solver between two cuts.                               *)
Stop ==
  /\ stage = "split" /\ split.running
  /\ split' = [split EXCEPT !.running = FALSE]
  /\ UNCHANGED <<query, conf, stage, registers, unread, r, u, S, marked, dfs, cnt, part, path, answer>>

-------------------------------------------------------------------------------
Reads(a) == ConnectedRead(a) \/ ForwardRead(a) \/ CollectRead(a) \/ BlocksRead(a) \/ EarsRead(a)
Step ==
  \/ ComponentsStart \/ ComponentsRoot \/ ConnectedBack \/ ForwardBack \/ StrongPop \/ CollectBack
  \/ BlocksVoid \/ BlocksStart \/ LowBack \/ BlockBack \/ RootBack \/ BlocksRoot
  \/ Merge \/ MergeReturn \/ EarsStart \/ EarsPop \/ EarsNumber
  \/ SplitStart \/ Split \/ SplitReturn
  \/ \E a \in Arcs : Reads(a)

Next == Step \/ Stop \/ SplitBrokenOff
Spec == Init /\ [][Next]_vars /\ WF_vars(Step)

-------------------------------------------------------------------------------
(*                       What the results stand for                          *)
(* The nodes that v reaches along the arcs of A.                             *)
Reach(v, A) ==
  LET R[k \in 0 .. G.n] ==
        IF k = 0 THEN {v}
        ELSE LET X == R[k - 1] IN X \union {End(a) : a \in {b \in A : Start(b) \in X}}
  IN R[G.n]
Usable == {a \in Arcs : UCap(G, a) > 0}
Avoiding(A, v) == {a \in A : v \notin {Start(a), End(a)}}

SameClasses(f, Related(_, _)) == \A v, w \in DOMAIN f : (f[v] = f[w]) = Related(v, w)
JoinedNodes(v, w) == w \in Reach(v, Usable)
StrongNodes(v, w) ==
  LET A == {a \in Arcs : Passable(a)} IN w \in Reach(v, A) /\ v \in Reach(w, A)

(* Cut nodes separate neighbours of theirs, and blocks are sets of edges     *)
(* that no node separates.                                                   *)
IsCutNode(v) ==
  LET near == {End(a) : a \in {b \in Usable : Start(b) = v}} IN
  \E x \in near : ~(near \subseteq Reach(x, Avoiding(Usable, v)))
EndsOf(e) == {G.ends[e][1], G.ends[e][2]}
SameBlock(d, e) ==
  d = e \/ \A v \in Nodes : \E x \in EndsOf(d) \ {v}, y \in EndsOf(e) \ {v} : y \in Reach(x, Avoiding(Usable, v))
OneComponent == \A v \in Nodes : JoinedNodes(0, v)

(* No edge separates v and w.                                                *)
TwoEdgeJoined(v, w) ==
  JoinedNodes(v, w) /\ \A e \in Edges : w \in Reach(v, {a \in Usable : EdgeOf(a) # e})

(* The ends of an edge that is a connected component of its own.             *)
Isolated(e) == \A a \in Arcs : EdgeOf(a) # e => Start(a) \notin EndsOf(e)
LonePair(v, w) == v # w /\ \E e \in Edges : Isolated(e) /\ EndsOf(e) = {v, w}

(* With another edge between v and w, no node separates the graph.           *)
RepairedBy(v, w) ==
  \A x \in Nodes : UNION {Reach(z, Avoiding(Usable, x)) : z \in {v, w} \ {x}} = Nodes \ {x}

(* An st-numbering: other nodes have neighbours with lower, and with higher  *)
(* numbers.                                                                  *)
Numbering(f) ==
  /\ f[conf.source] = 0 /\ f[conf.target] = G.n - 1
  /\ {f[v] : v \in Nodes} = Nodes
  /\ \A v \in Nodes \ {conf.source, conf.target} :
       \E a, b \in Around(v) : f[End(a)] < f[v] /\ f[v] < f[End(b)]
(* Every path has two different ends on earlier ones, and is new between.    *)
OpenEars(f) ==
  \A c \in 1 .. cnt.nrPath - 1 :
    LET Count(v) == Cardinality({a \in Around(v) : f[EdgeOf(a)] = c})
        Old(v) == \E a \in Around(v) : f[EdgeOf(a)] < c
    IN /\ Cardinality({v \in Nodes : Count(v) = 1}) = 2
       /\ \A v \in Nodes : IF Old(v) THEN Count(v) <= 1 ELSE Count(v) \in {0, 2}

-------------------------------------------------------------------------------
(* The stack never holds a node twice: staticStack::Insert would throw.      *)
ConnectTypeOK ==
  /\ r \in 0 .. G.n + Cardinality(Edges) /\ u \in Nodes \union {NoNode} /\ marked \subseteq Nodes
  /\ colour \in [Nodes -> 0 .. G.n \union {NoNode}]
  /\ edgeColour \in [Edges -> 0 .. Cardinality(Edges) \union {NoArc}]
  /\ pred \in [Nodes -> Arcs \union {NoArc}] /\ path \in [Nodes -> Arcs \union {NoArc}]
  /\ \A v \in Nodes : unread[v] \subseteq Around(v)
  /\ \A j, k \in DOMAIN S : S[j] = S[k] => j = k

(* Connected, StronglyConnected: equal colours are equal components.         *)
ComponentsFound ==
  (stage = "done" /\ ~WithBlocks /\ ~ByCuts) =>
    LET Same(v, w) == IF Simple THEN JoinedNodes(v, w) ELSE StrongNodes(v, w) IN
    SameClasses(colour, Same) /\ answer = Bool(\A v, w \in Nodes : Same(v, w))

(* CutNodes: colour 0 means a cut node, as soon as it is given and at the    *)
(* end; the other colours are blocks; the answer is right about them.        *)
BlocksFound ==
  /\ (stage \in {"search", "root"} /\ WithBlocks) => \A v \in Nodes : colour[v] = CONN_CUT_NODE => IsCutNode(v)
  /\ (stage = "done" /\ Is("CutNodes") /\ Edges # {}) =>
       /\ \A v \in Nodes : (colour[v] = CONN_CUT_NODE) = IsCutNode(v)
       /\ SameClasses(edgeColour, SameBlock)
       /\ \A a \in Arcs : colour[Start(a)] \in {CONN_CUT_NODE, edgeColour[EdgeOf(a)]}
       /\ answer = IF ~OneComponent THEN "DISCONNECTED"
                   ELSE IF \A d, e \in Edges : SameBlock(d, e) THEN "BICONNECTED"
                   ELSE IF conf.rootArc = NoArc THEN "MULTIPLE_BLOCKS"
                   ELSE IF \E w \in Nodes : RepairedBy(Start(conf.rootArc), w) THEN "ALMOST_BICONNECTED"
                   ELSE "MULTIPLE_BLOCKS"

(* Biconnected: nodes that no edge separates have equal colours, and the     *)
(* answer is right, unless the graph is a single edge.  The converse that is *)
(* documented (abstractMixedGraph.h, 2541: equally coloured nodes are in the *)
(* same component) is claimed with the exceptions the code makes: sets named *)
(* after a cut node all keep the colour of cut nodes, isolated nodes have no *)
(* colour, and an edge that is a connected component of its own counts as    *)
(* 2-edge connected, for its ends are in one block.                          *)
BridgesFound ==
  (stage = "done" /\ Is("Biconnected")) =>
    /\ \A v, w \in Nodes : TwoEdgeJoined(v, w) => colour[v] = colour[w]
    /\ \A v, w \in Nodes : (colour[v] = colour[w] /\ ~TwoEdgeJoined(v, w)) =>
         colour[v] \in {CONN_CUT_NODE, NoNode} \/ LonePair(v, w)
    /\ answer = Bool(\A v, w \in Nodes : TwoEdgeJoined(v, w) \/ LonePair(v, w))

(* STNumbering: it finds a numbering, and paths, if there is a numbering.    *)
NumberingFound ==
  (stage = "done" /\ Is("STNumbering")) =>
    IF answer = "true" THEN Numbering(colour) /\ OpenEars(edgeColour)
    ELSE \A f \in [Nodes -> Nodes] : ~Numbering(f)

(* EdgeConnected, StronglyEdgeConnected, if they are not broken off within a *)
(* maximum flow: components (nodes of a subgraph without a cut below k) are  *)
(* never torn, and their number is at least the lower bound, whatever the    *)
(* method and whether it finds minimum cuts.  With minimum cuts the upper    *)
(* bound holds as well, and without a stop equal colours are equal           *)
(* components.  With MCC_HaoOrlin, the default of EdgeConnected, a class may *)
(* be taken for connected although a smaller cut splits it: nothing more is  *)
(* true of it.                                                               *)
CutClass(v, w) ==
  v = w \/ \E X \in SUBSET Nodes : {v, w} \subseteq X /\ \A R \in Sides(X) : CutValue(X, R) >= query.k
ClassesFound ==
  (ByCuts /\ stage # "called" /\ split.whole) =>
    LET number == Cardinality({{w \in Nodes : CutClass(v, w)} : v \in Nodes}) IN
    /\ split.lower <= number
    /\ \A v, w \in Nodes : CutClass(v, w) => colour[v] = colour[w]
    /\ Exact => number <= split.upper
    /\ (Exact /\ stage = "done" /\ split.running) =>
         SameClasses(colour, CutClass) /\ answer = Bool(number = 1) /\ split.lower = split.upper
================================================================================
