-------------------------- MODULE ActivationLedger --------------------------
(***************************************************************************)
(* What the activation services promise about core.company_modules and the *)
(* facts recorded for it, seen from the database alone: every committed    *)
(* change of a module's status is one of four outcomes, and commits        *)
(* together with the audit and outbox fact that names it.  Requests,       *)
(* transactions, locks, the mirror and restarts do not appear.             *)
(***************************************************************************)
CONSTANT Modules

VARIABLES
  status,  \* "missing", "active", "failed" or "disabled"
  fact     \* the last recorded fact

Init ==
  /\ status = [m \in Modules |-> "missing"]
  /\ fact = [m \in Modules |-> "none"]

Outcome(m, s, f) ==
  /\ status' = [status EXCEPT ![m] = s]
  /\ fact' = [fact EXCEPT ![m] = f]

Activated(m) == Outcome(m, "active", "activated")

ActivationFailed(m) == Outcome(m, "failed", "activation_failed")

(* Only a module that has been active can be disabled: its row exists.     *)
Deactivated(m) == status[m] # "missing" /\ Outcome(m, "disabled", "deactivated")

(* A failed deactivation is a fact about a module that is and stays active. *)
DeactivationFailed(m) ==
  status[m] = "active" /\ Outcome(m, "active", "deactivation_failed")

Next ==
  \E m \in Modules :
    Activated(m) \/ ActivationFailed(m) \/ Deactivated(m) \/ DeactivationFailed(m)

Spec == Init /\ [][Next]_<<status, fact>>
=============================================================================
