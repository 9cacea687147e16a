------------------------- MODULE MCActivationHistory -------------------------
(***************************************************************************)
(* Instances of ActivationHistory for TLC.  Requests are interchangeable.  *)
(***************************************************************************)
EXTENDS ActivationHistory, ActivationGraphs, TLC

Symmetry == Permutations(Requests)
=============================================================================
