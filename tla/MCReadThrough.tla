--------------------------- MODULE MCReadThrough ----------------------------
(***************************************************************************)
(* ReadThrough on small instances.  Calls are interchangeable, and so are  *)
(* scopes.                                                                 *)
(***************************************************************************)
EXTENDS ReadThrough, TLC

Interchangeable == Permutations(Calls) \cup Permutations(Scopes)
=============================================================================
