------------------------------ MODULE StaticQueue ------------------------------
(****************************************************************************)
(* A family of static queues (lib_src/staticQueue.cpp): a master, which owns *)
(* the arrays next and set, and slaves, which are copy-constructed from it   *)
(* and share them.  next[w] = n says that w is on no queue of the family;    *)
(* the last item of a queue links to itself.  set, which is allocated with   *)
(* the first slave, tells whose an item is.                                  *)
(****************************************************************************)
EXTENDS Naturals, Sequences

CONSTANTS
  n,          \* the items are 0 .. n-1, n itself is the null index
  Queues,     \* the handles of the queues
  Master,     \* the one that owns the arrays
  NoHandle    \* the handle of no object

Items == 0..(n - 1)
Modes == {"INSERT_TWICE_THROW", "INSERT_NO_THROW"}

VARIABLES
  next,                  \* shared by the family
  set,                   \* shared by the family; <<>> while it is not allocated
  first, last, length,   \* per queue
  open,                  \* the queues that exist
  ret                    \* what the last call has returned or thrown

vars == <<next, set, first, last, length, open, ret>>

Ok == <<"ok", n>>
Empty(q) == first[q] = n

(* The constructor of the master.                                            *)
Init ==
  /\ next = [i \in Items |-> n]
  /\ set = <<>>
  /\ first = [q \in Queues |-> n]
  /\ last = [q \in Queues |-> n]
  /\ length = [q \in Queues |-> 0]
  /\ open = {Master}
  /\ ret = Ok

(* The copy constructor, applied to any queue q of the family.               *)
Copy(s, q) ==
  /\ s \notin open /\ q \in open
  /\ first' = [first EXCEPT ![s] = n]
  /\ length' = [length EXCEPT ![s] = 0]
  /\ set' = IF set = <<>> /\ n > 0
            THEN [i \in Items |-> IF next[i] < n THEN q ELSE NoHandle] ELSE set
  /\ open' = open \union {s}
  /\ ret' = Ok
  /\ UNCHANGED <<next, last>>

(* Mutant: the owner is not recorded.                                        *)
InsertAnonymous(q, w, mode) ==
  /\ q \in open
  /\ next[w] = n
  /\ first' = IF Empty(q) THEN [first EXCEPT ![q] = w] ELSE first
  /\ last' = [last EXCEPT ![q] = w]
  /\ next' = [i \in Items |-> IF i = w \/ (~Empty(q) /\ i = last[q]) THEN w ELSE next[i]]
  /\ length' = [length EXCEPT ![q] = @ + 1]
  /\ ret' = Ok
  /\ UNCHANGED <<set, open>>

Insert(q, w, mode) ==
  /\ q \in open
  /\ \/ /\ next[w] # n
        /\ ret' = IF mode = "INSERT_NO_THROW" THEN Ok ELSE <<"ERCheck", n>>
        /\ UNCHANGED <<next, set, first, last, length, open>>
     \/ /\ next[w] = n
        /\ first' = IF Empty(q) THEN [first EXCEPT ![q] = w] ELSE first
        /\ last' = [last EXCEPT ![q] = w]
        /\ next' = [i \in Items |->
                     IF i = w \/ (~Empty(q) /\ i = last[q]) THEN w ELSE next[i]]
        /\ length' = [length EXCEPT ![q] = @ + 1]
        /\ set' = IF set = <<>> THEN set ELSE [set EXCEPT ![w] = q]
        /\ ret' = Ok
        /\ UNCHANGED open

Delete(q) ==
  /\ q \in open
  /\ \/ /\ Empty(q)
        /\ ret' = <<"ERRejected", n>>
        /\ UNCHANGED <<next, first, length>>
     \/ /\ ~Empty(q)
        /\ first' = [first EXCEPT ![q] = IF next[@] = @ THEN n ELSE next[@]]
        /\ next' = [next EXCEPT ![first[q]] = n]
        /\ length' = [length EXCEPT ![q] = @ - 1]
        /\ ret' = <<"item", first[q]>>
  /\ UNCHANGED <<set, last, open>>

IsMember(q, i) == IF set # <<>> /\ next[i] # n THEN set[i] = q ELSE next[i] # n

(* The items from i on, following at most n links; a list ends with an item  *)
(* that links to itself.                                                     *)
ItemsFrom(links, i) ==
  LET from[k \in 0..n] ==
        [x \in 0..n |-> IF k = 0 \/ x = n THEN <<>>
                        ELSE IF links[x] = x THEN <<x>>
                        ELSE <<x>> \o from[k - 1][links[x]]]
  IN from[n][i]
ListOf(q) == ItemsFrom(next, first[q])

(* The destructor of a slave deletes its items one by one.                   *)
Destroy(s) ==
  /\ s \in open \ {Master}
  /\ next' = [i \in Items |-> IF \E k \in 1..Len(ListOf(s)) : ListOf(s)[k] = i THEN n
                              ELSE next[i]]
  /\ first' = [first EXCEPT ![s] = n]
  /\ length' = [length EXCEPT ![s] = @ - Len(ListOf(s))]
  /\ open' = open \ {s}
  /\ ret' = Ok
  /\ UNCHANGED <<set, last>>

Next == \E q \in Queues :
  \/ \E p \in Queues : Copy(q, p)
  \/ \E w \in Items, mode \in Modes : Insert(q, w, mode)
  \/ Delete(q)
  \/ Destroy(q)

Spec == Init /\ [][Next]_vars

-------------------------------------------------------------------------------
(* The arrays hold indices, and set holds handles.                           *)
TypeOK ==
  /\ next \in [Items -> 0..n]
  /\ set = <<>> \/ set \in [Items -> Queues \union {NoHandle}]
  /\ first \in [Queues -> 0..n] /\ last \in [Queues -> 0..n]
  /\ length \in [Queues -> 0..n]
  /\ open \subseteq Queues

(* IsMember, Cardinality and Empty agree with the links, whichever queue of  *)
(* the family an item was on before, and an item is on one queue only.       *)
MembersExact ==
  \A q \in open :
    LET items == ListOf(q) IN
    /\ length[q] = Len(items)
    /\ \A i \in Items : IsMember(q, i) <=> \E k \in 1..Len(items) : items[k] = i

(* The queues of a family behave like disjoint lists of their own.           *)
Lists == INSTANCE SharedLists WITH
  NoItem <- n, Containers <- Queues, AtFront <- FALSE,
  list <- [q \in Queues |-> ListOf(q)]
================================================================================
