------------------------------ MODULE SharedLists ------------------------------
(****************************************************************************)
(* What a family of static containers that share their memory promises: each *)
(* container is a list of items, the lists are disjoint, and an operation    *)
(* returns what a list of its own would return.                              *)
(****************************************************************************)
EXTENDS Naturals, Sequences

CONSTANTS
  Items, NoItem,
  Containers, Master,
  AtFront              \* insert in front (a stack) or at the end (a queue)

VARIABLES
  list,    \* the items of each container
  open,    \* the containers that exist
  ret      \* the outcome of the last operation: a tag and an item

OnSome(i) == \E c \in Containers : \E k \in 1..Len(list[c]) : list[c][k] = i

Init ==
  /\ list = [c \in Containers |-> <<>>]
  /\ open = {Master}
  /\ ret = <<"ok", NoItem>>

Open(c) ==
  /\ c \notin open
  /\ open' = open \union {c}
  /\ ret' = <<"ok", NoItem>>
  /\ UNCHANGED list

Close(c) ==
  /\ c \in open \ {Master}
  /\ open' = open \ {c}
  /\ list' = [list EXCEPT ![c] = <<>>]
  /\ ret' = <<"ok", NoItem>>

Insert(c, i) ==
  /\ c \in open /\ UNCHANGED open
  /\ ret' = <<"ok", NoItem>>
  /\ ~OnSome(i)
  /\ list' = [list EXCEPT ![c] = IF AtFront THEN <<i>> \o @ ELSE Append(@, i)]

(* A second insertion is an error, or ignored if the caller says so.         *)
InsertTwice(c, i) ==
  /\ c \in open /\ UNCHANGED open
  /\ ret' \in {<<"ERCheck", NoItem>>, <<"ok", NoItem>>}
  /\ OnSome(i) /\ UNCHANGED list

Delete(c) ==
  /\ c \in open /\ UNCHANGED open
  /\ ret'[1] = "item" /\ list[c] # <<>> /\ ret'[2] = Head(list[c])
  /\ list' = [list EXCEPT ![c] = Tail(@)]

DeleteEmpty(c) ==
  /\ c \in open /\ UNCHANGED open
  /\ ret' = <<"ERRejected", NoItem>>
  /\ list[c] = <<>> /\ UNCHANGED list

Next == \E c \in Containers :
  \/ Open(c) \/ Close(c) \/ Delete(c) \/ DeleteEmpty(c)
  \/ \E i \in Items : Insert(c, i) \/ InsertTwice(c, i)

Step == Next \/ UNCHANGED <<list, open, ret>>
Spec == Init /\ [][Next]_<<list, open, ret>>
================================================================================
