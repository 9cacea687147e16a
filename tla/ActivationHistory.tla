-------------------------- MODULE ActivationHistory --------------------------
(***************************************************************************)
(* Activation with two history variables, which no step of Activation      *)
(* reads: why the mirror shows something else than the rows, and why an    *)
(* active module may lack the active modules it requires.  Requests        *)
(* overlap in every way that Activation allows; the properties name the    *)
(* overlaps that do harm, and say that nothing else does.                  *)
(***************************************************************************)
EXTENDS Activation

VARIABLES
  stale,    \* modules of which the mirror is wrong, or will be made wrong,
            \* since a commit that was overtaken or whose reply was lost
  outdated  \* outdated[q]: modules whose row is not, or no longer, what the
            \* checks of request q were made of

hvars == <<vars, stale, outdated>>

-----------------------------------------------------------------------------
(* What request p has still to do to the entry of m in the mirror.           *)
WillRemove(p, m) ==
  \/ pc[p] = "deact_mark" /\ target[p] = m
  \/ pc[p] = "hydrate_replace" /\ m \notin plan[p]

WillAdd(p, m) ==
  \/ pc[p] = "act_mark" /\ target[p] = m
  \/ pc[p] = "hydrate_replace" /\ m \in plan[p]

(* A failed activation leaves the entry of the module alone.                 *)
MayShow(m) == IsActive(m) \/ row[m].status = "failed"

(* The entry of m is right, and nobody is about to change that.              *)
Right(m) ==
  /\ IsActive(m) => m \in mirror /\ \A p \in Requests : ~WillRemove(p, m)
  /\ m \in mirror \/ (\E p \in Requests : WillAdd(p, m)) => MayShow(m)

(* This step commits a row of m while another request is about to do the     *)
(* opposite to the mirror, with what it has committed or read before; or it  *)
(* commits it unheard.                                                       *)
Overtakes(m) ==
  /\ row'[m] # row[m]
  /\ \/ IsActive(m)' /\ \E p \in Requests : WillRemove(p, m)
     \/ row'[m].status = "disabled" /\ \E p \in Requests : WillAdd(p, m)
     \/ \E q \in Requests : CommitUnheard(q) /\ target[q] = m

(* A restart forgets the mirror; otherwise an entry stays stale until it is  *)
(* right.                                                                    *)
NextStale ==
  IF host' = "starting" THEN {}
  ELSE {m \in Modules : (m \in stale \/ Overtakes(m)) /\ ~Right(m)'}

Changed == (ActiveRows \ ActiveRows') \union (ActiveRows' \ ActiveRows)

(* A deactivation has checked nothing before checkActiveDependents.  An      *)
(* activation believes the mirror while it checks.                           *)
NextOutdated(q) ==
  IF pc[q] \in {"idle", "deact_dependents"} THEN {}
  ELSE outdated[q] \union Changed
         \union (IF pc[q] = "act_check" THEN mirror \ ActiveRows ELSE {})

HInit ==
  /\ Init
  /\ stale = {}
  /\ outdated = [q \in Requests |-> {}]

HNext ==
  /\ Next
  /\ stale' = NextStale
  /\ outdated' = [q \in Requests |-> NextOutdated(q)]

HSpec == HInit /\ [][HNext]_hvars

-----------------------------------------------------------------------------
(* Properties *)

HTypeOK ==
  /\ TypeOK
  /\ stale \subseteq Modules
  /\ outdated \in [Requests -> SUBSET Modules]

(* Once the requests have returned, a hydrated mirror shows every active row *)
(* and otherwise only rows whose latest activation failed (a repeated        *)
(* activation that fails leaves the mirror alone), except for a module two   *)
(* of whose changes overtook each other between commit and mirror, or whose  *)
(* COMMIT was not heard of, since its entry was last right: no other order   *)
(* of requests, hydrations, failures and restarts spoils an entry, and no    *)
(* overlap spoils the entry of another module (service.ts:138,               *)
(* deactivation-service.ts:187, startup-hydration.ts:104).                   *)
MirrorCovers ==
  Quiescent /\ hydrated =>
    \A m \in Modules \ stale :
      /\ IsActive(m) => m \in mirror
      /\ m \in mirror => MayShow(m)

Unprovided(d, r) == IsActive(d) /\ r \cap ActiveRows = {}

(* A step takes from an active module the last active module that satisfies  *)
(* one of its requirements, or makes it active without one, only if it is    *)
(* the commit of an activation or a deactivation some of whose checks were   *)
(* outdated by then, or a re-activation that fails: the checks of            *)
(* service.ts:142 and deactivation-service.ts:205 allow nothing that the     *)
(* rows they were made of forbid, for alternative providers and releases     *)
(* without one of them too.                                                  *)
KeepsProviders ==
  \A d \in Modules : \A r \in Requires[d] :
    Unprovided(d, r)' /\ ~Unprovided(d, r) =>
      \E q \in Requests :
        /\ pc'[q] # pc[q]
        /\ \/ pc[q] = "act_hook" /\ target[q] = d /\ r \cap outdated[q] # {}
           \/ /\ pc[q] = "deact_update" /\ target[q] \in r
              /\ ({d} \union (r \ {target[q]})) \cap outdated[q] # {}
           \/ pc[q] = "act_fail" /\ target[q] \in r

ProvidersKept == [][KeepsProviders]_hvars
=============================================================================
