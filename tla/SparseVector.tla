----------------------------- MODULE SparseVector ------------------------------
(****************************************************************************)
(* What a hash table promises: a vector of keys, indexed by items, and the   *)
(* number of entries that are not the default.                               *)
(****************************************************************************)
EXTENDS Naturals, FiniteSets

CONSTANTS Items, Keys, defaultKey

VARIABLES vec, nonzeros

Count(f) == Cardinality({w \in Items : f[w] # defaultKey})

Init == vec = [w \in Items |-> defaultKey] /\ nonzeros = 0

ChangeKey(w, alpha) ==
  /\ vec' = [vec EXCEPT ![w] = alpha]
  /\ nonzeros' = Count(vec')

Clear == vec' = [w \in Items |-> defaultKey] /\ nonzeros' = 0

Next == Clear \/ \E w \in Items, alpha \in Keys : ChangeKey(w, alpha)

Step == Next \/ UNCHANGED <<vec, nonzeros>>
Spec == Init /\ [][Next]_<<vec, nonzeros>>
================================================================================
