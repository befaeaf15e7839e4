------------------------------ MODULE StaticStack ------------------------------
(****************************************************************************)
(* A family of static stacks (lib_src/staticStack.cpp): a master, which owns *)
(* the arrays prev and set, and slaves, which share them.  Other than in a   *)
(* static queue, the null link prev[w] = n does not say that w is free: it   *)
(* may be the bottom of some stack.  Insert only asks for the bottom of its  *)
(* own stack, so the client must keep the stacks of a family disjoint, as    *)
(* the manual demands.                                                       *)
(****************************************************************************)
EXTENDS Naturals, Sequences

CONSTANTS
  n,          \* the items are 0 .. n-1, n itself is the null index
  Stacks,     \* the handles of the stacks
  Master,     \* the one that owns the arrays
  NoHandle    \* the handle of no object

Items == 0..(n - 1)
Modes == {"INSERT_TWICE_THROW", "INSERT_NO_THROW"}

VARIABLES
  prev,                  \* shared by the family
  set,                   \* shared by the family; <<>> while it is not allocated
  top, bottom, depth,    \* per stack
  open,                  \* the stacks that exist
  ret                    \* what the last call has returned or thrown

vars == <<prev, set, top, bottom, depth, open, ret>>

Ok == <<"ok", n>>
Empty(s) == top[s] = n

(* The items from i downwards, following at most k links.                    *)
ItemsFrom[k \in 0..n, i \in 0..n] ==
  IF k = 0 \/ i = n THEN <<>> ELSE <<i>> \o ItemsFrom[k - 1, prev[i]]
ListOf(s) == ItemsFrom[n, top[s]]
On(s, i) == \E k \in 1..Len(ListOf(s)) : ListOf(s)[k] = i

(* The constructor of the master.                                            *)
Init ==
  /\ prev = [i \in Items |-> n]
  /\ set = <<>>
  /\ top = [s \in Stacks |-> n]
  /\ bottom = [s \in Stacks |-> n]
  /\ depth = [s \in Stacks |-> 0]
  /\ open = {Master}
  /\ ret = Ok

(* The owners of the items when set is allocated by a copy of p.             *)
SetAtCopy(p) == [i \in Items |-> IF prev[i] < n \/ i = bottom[p] THEN p ELSE NoHandle]

(* The copy constructor, applied to any stack p of the family.               *)
Copy(s, p) ==
  /\ s \notin open /\ p \in open
  /\ top' = [top EXCEPT ![s] = n]
  /\ bottom' = [bottom EXCEPT ![s] = n]
  /\ depth' = [depth EXCEPT ![s] = 0]
  /\ set' = IF set = <<>> /\ n > 0 THEN SetAtCopy(p) ELSE set
  /\ open' = open \union {s}
  /\ ret' = Ok
  /\ UNCHANGED prev

(* Mutant: the bottom of the stack is not recognised.                        *)
KnownNoBottom(s, w) == prev[w] # n
(* The test of Insert for a repetition.                                      *)
Known(s, w) == prev[w] # n \/ w = bottom[s]

(* The client does not insert what is on another stack of the family.        *)
Insert(s, w, mode) ==
  /\ s \in open
  /\ \A t \in open \ {s} : ~On(t, w)
  /\ \/ /\ Known(s, w)
        /\ ret' = IF mode = "INSERT_NO_THROW" THEN Ok ELSE <<"ERCheck", n>>
        /\ UNCHANGED <<prev, set, top, bottom, depth, open>>
     \/ /\ ~Known(s, w)
        /\ prev' = [prev EXCEPT ![w] = top[s]]
        /\ top' = [top EXCEPT ![s] = w]
        /\ depth' = [depth EXCEPT ![s] = @ + 1]
        /\ bottom' = IF depth[s] + 1 = 1 THEN [bottom EXCEPT ![s] = w] ELSE bottom
        /\ set' = IF set = <<>> THEN set ELSE [set EXCEPT ![w] = s]
        /\ ret' = Ok
        /\ UNCHANGED open

(* The bottom after a Delete.                                                *)
BottomAfterDelete(s) == IF depth[s] - 1 = 0 THEN [bottom EXCEPT ![s] = n] ELSE bottom

Delete(s) ==
  /\ s \in open
  /\ \/ /\ Empty(s)
        /\ ret' = <<"ERRejected", n>>
        /\ UNCHANGED <<prev, top, bottom, depth>>
     \/ /\ ~Empty(s)
        /\ top' = [top EXCEPT ![s] = prev[@]]
        /\ prev' = [prev EXCEPT ![top[s]] = n]
        /\ depth' = [depth EXCEPT ![s] = @ - 1]
        /\ bottom' = BottomAfterDelete(s)
        /\ ret' = <<"item", top[s]>>
  /\ UNCHANGED <<set, open>>

IsMember(s, i) ==
  \/ i = bottom[s]
  \/ prev[i] # n /\ (set = <<>> \/ set[i] = s)

(* The destructor of a slave deletes its items one by one.                   *)
Destroy(s) ==
  /\ s \in open \ {Master}
  /\ prev' = [i \in Items |-> IF On(s, i) THEN n ELSE prev[i]]
  /\ top' = [top EXCEPT ![s] = n]
  /\ bottom' = [bottom EXCEPT ![s] = n]
  /\ depth' = [depth EXCEPT ![s] = @ - Len(ListOf(s))]
  /\ open' = open \ {s}
  /\ ret' = Ok
  /\ UNCHANGED set

Next == \E s \in Stacks :
  \/ \E p \in Stacks : Copy(s, p)
  \/ \E w \in Items, mode \in Modes : Insert(s, w, mode)
  \/ Delete(s)
  \/ Destroy(s)

Spec == Init /\ [][Next]_vars

-------------------------------------------------------------------------------
(* The arrays hold indices, set holds handles and depth stays in range.      *)
TypeOK ==
  /\ prev \in [Items -> 0..n]
  /\ set = <<>> \/ set \in [Items -> Stacks \union {NoHandle}]
  /\ top \in [Stacks -> 0..n] /\ bottom \in [Stacks -> 0..n]
  /\ depth \in [Stacks -> 0..n]
  /\ open \subseteq Stacks

(* IsMember, the depth and the bottom agree with the links, although neither *)
(* a null link nor an entry of set says by itself whether an item is free.   *)
MembersExact ==
  \A s \in open :
    LET items == ListOf(s) IN
    /\ depth[s] = Len(items)
    /\ bottom[s] = IF items = <<>> THEN n ELSE items[Len(items)]
    /\ \A i \in Items : IsMember(s, i) <=> On(s, i)

(* The stacks of a family behave like disjoint stacks of their own.          *)
Lists == INSTANCE SharedLists WITH
  NoItem <- n, Containers <- Stacks, AtFront <- TRUE,
  list <- [s \in Stacks |-> ListOf(s)]
================================================================================
