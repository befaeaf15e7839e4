------------------------------- MODULE SetFamily -------------------------------
(****************************************************************************)
(* What a disjoint set family promises (goblinDisjointSetSystem): its sets   *)
(* grow by merging only, and each is named by one of its elements, the       *)
(* canonical one, which does not change unless the set is merged.            *)
(****************************************************************************)
EXTENDS Naturals

CONSTANTS Items, NoItem

VARIABLES
  canon,   \* the canonical element of the set of every element
  ret      \* the outcome of the last operation: a tag and an item

Ok == <<"ok", NoItem>>
Elements == DOMAIN canon

Init == canon = <<>> /\ ret = Ok

Clear == canon' = <<>> /\ ret' = Ok

Bud(v) ==
  /\ v \notin Elements
  /\ canon' = [x \in Elements \union {v} |-> IF x = v THEN v ELSE canon[x]]
  /\ ret' = Ok

Merge(u, v) ==
  /\ u \in Elements /\ v \in Elements
  /\ \E c \in {canon[u], canon[v]} :
       canon' = [x \in Elements |-> IF canon[x] \in {canon[u], canon[v]} THEN c
                                    ELSE canon[x]]
  /\ ret' = Ok

Find(v) ==
  /\ v \in Elements
  /\ ret' = <<"item", canon[v]>>
  /\ UNCHANGED canon

NoElement(v) ==
  /\ v \notin Elements
  /\ ret' = <<"ERRange", NoItem>>
  /\ UNCHANGED canon

Next ==
  \/ Clear
  \/ \E v \in Items : Bud(v) \/ Find(v) \/ NoElement(v) \/ \E u \in Items : Merge(u, v)

Step == Next \/ UNCHANGED <<canon, ret>>
Spec == Init /\ [][Next]_<<canon, ret>>
================================================================================
