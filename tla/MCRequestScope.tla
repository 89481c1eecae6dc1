--------------------------- MODULE MCRequestScope ---------------------------
(***************************************************************************)
(* RequestScope on a small instance; tasks but the root are alike.         *)
(***************************************************************************)
EXTENDS RequestScope, TLC

Alike == Permutations(Tasks \ {Root})
=============================================================================
