----------------------------- MODULE PriorityQueue -----------------------------
(****************************************************************************)
(* What every priority queue of the library promises (goblinQueue.h): a set *)
(* of items with keys, from which the item with the least key is deleted.    *)
(* Which of several least items it is stays open.                            *)
(****************************************************************************)
EXTENDS Naturals, FiniteSets

CONSTANTS Items, NoItem, Keys

VARIABLES
  prio,    \* the keys of the members, as a function on the set of members
  ret      \* the outcome of the last operation: a tag and an item

Members == DOMAIN prio
Without(w) == [i \in Members \ {w} |-> prio[i]]
With(w, alpha) == [i \in Members \union {w} |-> IF i = w THEN alpha ELSE prio[i]]
Ok == <<"ok", NoItem>>
Errors == {<<"ERRange", NoItem>>, <<"ERRejected", NoItem>>}

Init == prio = <<>> /\ ret = Ok

Clear == prio' = <<>> /\ ret' = Ok

Insert(w, alpha) ==
  /\ w \notin Members
  /\ prio' = With(w, alpha) /\ ret' = Ok

(* A second insertion is no good use, and an error where it is noticed.      *)
InsertTwice(w) == w \in Members /\ ret' \in Errors /\ UNCHANGED prio

DeleteMin ==
  \E w \in Members :
    /\ \A i \in Members : prio[w] <= prio[i]
    /\ prio' = Without(w) /\ ret' = <<"item", w>>

DeleteEmpty == Members = {} /\ ret' \in Errors /\ UNCHANGED prio

DeleteItem(w) == w \in Members /\ prio' = Without(w) /\ ret' = Ok

ChangeKey(w, alpha) == w \in Members /\ prio' = With(w, alpha) /\ ret' = Ok

NotMember(w) == w \notin Members /\ ret' \in Errors /\ UNCHANGED prio

Next ==
  \/ Clear \/ DeleteMin \/ DeleteEmpty
  \/ \E w \in Items :
       \/ InsertTwice(w) \/ DeleteItem(w) \/ NotMember(w)
       \/ \E alpha \in Keys : Insert(w, alpha) \/ ChangeKey(w, alpha)

(* A step of the implementation that the client does not see.                *)
Same == UNCHANGED <<prio, ret>>

Spec == Init /\ [][Next]_<<prio, ret>>
================================================================================
