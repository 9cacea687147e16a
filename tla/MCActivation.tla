---------------------------- MODULE MCActivation ----------------------------
(***************************************************************************)
(* Instances of Activation for TLC.                                        *)
(***************************************************************************)
EXTENDS Activation, ActivationGraphs
=============================================================================
