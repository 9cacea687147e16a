------------------------------- MODULE MCAccess -------------------------------
(***************************************************************************)
(* Instances of Access for TLC.  Calls, sessions and the tokens that have  *)
(* credentials are interchangeable: no definition distinguishes one.       *)
(***************************************************************************)
EXTENDS Access, TLC

Symmetry ==
  Permutations(Requests) \union Permutations(Sessions)
    \union Permutations(Tokens \ Orphans) \union Permutations(Orphans)
=============================================================================
