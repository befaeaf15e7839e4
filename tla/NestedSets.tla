------------------------------ MODULE NestedSets -------------------------------
(****************************************************************************)
(* What a shrinking family promises (nestedFamily): real items, and sets that *)
(* are filled with items and finished sets, then fixed, and may be split     *)
(* again into what they were made of.  Set(v) is the outermost set around v. *)
(* Blocking hides a set for a while, last blocked, first unblocked.          *)
(****************************************************************************)
EXTENDS Naturals, Sequences

CONSTANTS Items, SetNames, NoItem

VARIABLES
  parent,   \* the set around each item and each set in use, NoItem if there is none
  fixed,    \* the sets that are finished
  blocked,  \* the sets that are hidden, the innermost first
  ret       \* the outcome of the last operation: a tag and an item

InUse == DOMAIN parent
Hidden == {blocked[i] : i \in 1 .. Len(blocked)}
Members(s) == {v \in InUse : parent[v] = s}

Outermost(v) ==
  LET climb[x \in InUse] ==
        IF parent[x] = NoItem \/ parent[x] \in Hidden THEN x ELSE climb[parent[x]]
  IN climb[v]

Init ==
  /\ parent = [v \in Items |-> NoItem]
  /\ fixed = {} /\ blocked = <<>> /\ ret = <<"ok", NoItem>>

Says(tag) == ret' = <<tag, NoItem>>
Rejected == (Says("ERRejected") \/ Says("ERRange")) /\ UNCHANGED <<parent, fixed, blocked>>

Clear ==
  /\ Says("ok") /\ blocked' = <<>> /\ fixed' = {}
  /\ parent' = [v \in Items |-> NoItem]

MakeSet ==
  \/ \E s \in SetNames \ InUse :
       /\ ret' = <<"item", s>>
       /\ UNCHANGED <<fixed, blocked>>
       /\ parent' = [v \in InUse \union {s} |-> IF v = s THEN NoItem ELSE parent[v]]
  \/ SetNames \subseteq InUse /\ Rejected

Merge(s, v) ==
  IF s \notin fixed /\ parent[v] = NoItem /\ (v \in Items \/ v \in fixed)
  THEN Says("ok") /\ UNCHANGED <<fixed, blocked>> /\ parent' = [parent EXCEPT ![v] = s]
  ELSE Rejected

FixSet(s) ==
  IF s \notin fixed /\ Members(s) # {}
  THEN Says("ok") /\ fixed' = fixed \union {s} /\ UNCHANGED <<blocked, parent>>
  ELSE Rejected

Split(s) ==
  IF s \in fixed /\ parent[s] = NoItem
  THEN /\ Says("ok") /\ fixed' = fixed \ {s} /\ UNCHANGED blocked
       /\ parent' = [v \in InUse \ {s} |-> IF parent[v] = s THEN NoItem ELSE parent[v]]
  ELSE Rejected

Set(v) ==
  /\ ret'[1] = "item" /\ UNCHANGED <<blocked, fixed, parent>>
  /\ ret'[2] = Outermost(v)

Block(s) ==
  /\ blocked' = <<s>> \o blocked
  /\ s \in fixed \ Hidden /\ Outermost(s) = s
  /\ Says("ok") /\ UNCHANGED <<parent, fixed>>

UnBlock ==
  /\ blocked # <<>> /\ blocked' = Tail(blocked)
  /\ Says("ok") /\ UNCHANGED <<parent, fixed>>

Next ==
  \/ Clear \/ MakeSet \/ UnBlock \/ Rejected
  \/ \E v \in InUse \ Hidden : Set(v)
  \/ \E s \in InUse \intersect SetNames :
       FixSet(s) \/ Split(s) \/ Block(s) \/ \E v \in InUse : Merge(s, v)

Step == Next \/ UNCHANGED <<parent, fixed, blocked, ret>>
Spec == Init /\ [][Next]_<<parent, fixed, blocked, ret>>
================================================================================
