------------------------------- MODULE MCBranch --------------------------------
(****************************************************************************)
(* Limits for the branch and bound scheme: a search that changes between     *)
(* depth first and best first steps, one that reaches the limit on active    *)
(* subproblems, one that reaches the limit on iterations, and one for which  *)
(* there is no estimate of the depth.                                        *)
(****************************************************************************)
EXTENDS BranchScheme

MCSettings ==
  {[depth |-> 6, nodes |-> 12, iterations |-> 99],
   [depth |-> 2, nodes |-> 3, iterations |-> 99],
   [depth |-> 3, nodes |-> 9, iterations |-> 5],
   [depth |-> 0, nodes |-> 9, iterations |-> 99]}
================================================================================
