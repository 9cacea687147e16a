---------------------------- MODULE MCInvitations ----------------------------
(***************************************************************************)
(* Instances of Invitations for TLC.  Calls, invitation ids and the users  *)
(* that are no admin are interchangeable: no definition distinguishes one. *)
(* The admin of one company is a stranger to the other.                    *)
(***************************************************************************)
EXTENDS Invitations, TLC
CONSTANTS Company, Admin

FirstAdmins == [c \in Companies |-> IF c = Company THEN {Admin} ELSE {}]

Symmetry ==
  Permutations(Requests) \union Permutations(Invitations)
    \union Permutations(Users \ {Admin})
=============================================================================
