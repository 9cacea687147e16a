----------------------------- MODULE Activation -----------------------------
(***************************************************************************)
(* Tenant activation of modules: ModuleActivationService,                  *)
(* ModuleDeactivationService, ActivationRegistryHydrator and the startup   *)
(* hydration of packages/core, for the rows of ONE company (every query of *)
(* the code is filtered by company, and the mirror is kept per company).   *)
(*                                                                         *)
(* Two copies of the truth exist.  core.company_modules (row) is changed   *)
(* inside PostgreSQL transactions at READ COMMITTED; the registry's        *)
(* in-memory mirror is changed after the transaction, behind an await.     *)
(* Several requests of the one runtime process interleave at every await.  *)
(*                                                                         *)
(* A request that is refused (module not registered, not active, ...)      *)
(* changes nothing, and is a stuttering step unless it already holds a pc. *)
(***************************************************************************)
CONSTANTS
  Modules,            \* module ids
  Requests,           \* requests in flight at most at the same time
  Deployments,        \* the sets of modules a process start may register
  Requires,           \* Requires[m]: the requirements of m; a requirement is
                      \* the set of modules whose manifest satisfies it (key in
                      \* provides or provides_optional, version in the range)
  PlatformReady,      \* modules whose platform capabilities are all available
  ActivateMayFail,    \* modules whose activate hook may fail or throw
  DeactivateMayFail,  \* modules whose deactivate hook may fail or throw
  MayLoseReply,       \* may the reply to a COMMIT be lost?
  NoRequest,          \* no holder of a row lock
  NoModule            \* target of an idle request

ASSUME ActivationAssumption ==
  /\ Deployments \subseteq SUBSET Modules
  /\ Deployments # {}
  /\ Requires \in [Modules -> SUBSET (SUBSET Modules)]
  /\ PlatformReady \subseteq Modules
  /\ ActivateMayFail \subseteq Modules
  /\ DeactivateMayFail \subseteq Modules
  /\ MayLoseReply \in BOOLEAN
  /\ NoRequest \notin Requests
  /\ NoModule \notin Modules

VARIABLES
  row,         \* committed core.company_modules row of each module
  fact,        \* the last outcome recorded in audit and outbox for each module
  lock,        \* the request whose open transaction holds the row's lock
  registered,  \* ids in the process's registry
  mirror,      \* #activeByCompany of the registry
  host,        \* "starting" until composeRuntime returns, then "serving"
  hydrated,    \* history: the last hydration of this process was ready
  activated,   \* history: modules with a committed successful activation
  pc, target,  \* where each request is, and the module it is about
  todo,        \* requirements the request has still to check
  plan         \* set the request's hydration is about to install

database == <<row, fact, lock>>
process  == <<registered, mirror, host, hydrated>>
request  == <<pc, target, todo, plan>>
vars == <<row, fact, lock, registered, mirror, host, hydrated, activated,
          pc, target, todo, plan>>

Statuses == {"missing", "pending", "active", "failed", "disabled"}
Facts == {"none", "activated", "activation_failed", "deactivated",
          "deactivation_failed"}
Steps == {"idle", "act_check", "act_begin", "act_hook", "act_fail", "act_mark",
          "deact_dependents", "deact_hook", "deact_update", "deact_fail",
          "deact_mark", "hydrate_replace", "hydrate_clear"}

(* reason: failure_reason is not NULL *)
Row == [status : Statuses, enabled : BOOLEAN, reason : BOOLEAN]
MissingRow  == [status |-> "missing",  enabled |-> FALSE, reason |-> FALSE]
ActiveRow   == [status |-> "active",   enabled |-> TRUE,  reason |-> FALSE]
FailedRow   == [status |-> "failed",   enabled |-> FALSE, reason |-> TRUE]
DisabledRow == [status |-> "disabled", enabled |-> FALSE, reason |-> FALSE]

IsActive(m) == row[m].status = "active" /\ row[m].enabled
ActiveRows == {m \in Modules : IsActive(m)}
Inconsistent(m) == row[m].enabled # (row[m].status = "active")

Providers(r) == r \cap registered

-----------------------------------------------------------------------------
Init ==
  /\ row = [m \in Modules |-> MissingRow]
  /\ fact = [m \in Modules |-> "none"]
  /\ lock = [m \in Modules |-> NoRequest]
  /\ registered \in Deployments
  /\ mirror = {}
  /\ host = "starting"
  /\ hydrated = FALSE
  /\ activated = {}
  /\ pc = [q \in Requests |-> "idle"]
  /\ target = [q \in Requests |-> NoModule]
  /\ todo = [q \in Requests |-> {}]
  /\ plan = [q \in Requests |-> {}]

Goto(q, step) == pc' = [pc EXCEPT ![q] = step]

(* The request returns, or its promise is rejected. *)
Finish(q) ==
  /\ Goto(q, "idle")
  /\ target' = [target EXCEPT ![q] = NoModule]
  /\ todo' = [todo EXCEPT ![q] = {}]
  /\ plan' = [plan EXCEPT ![q] = {}]

(* row[m] and the audit and outbox rows of #recordOutcome commit together. *)
Record(m, r, f) ==
  /\ row' = [row EXCEPT ![m] = r]
  /\ fact' = [fact EXCEPT ![m] = f]

-----------------------------------------------------------------------------
(* activate() *)

(* registry.find and the platform part of #checkRequirements.  Activating a *)
(* module that is already active is not refused.                            *)
ActivateStart(q, m) ==
  /\ host = "serving" /\ pc[q] = "idle"
  /\ m \in registered \cap PlatformReady
  /\ Goto(q, "act_check")
  /\ target' = [target EXCEPT ![q] = m]
  /\ todo' = [todo EXCEPT ![q] = Requires[m]]
  /\ UNCHANGED <<database, process, activated, plan>>

(* One turn of the loop of #checkRequirements: it asks the mirror, outside   *)
(* any transaction, and awaits between two requirements.                     *)
CheckRequirement(q) ==
  /\ pc[q] = "act_check"
  /\ \E r \in todo[q] :
       IF Providers(r) \cap mirror # {}
       THEN /\ todo' = [todo EXCEPT ![q] = @ \ {r}]
            /\ UNCHANGED <<pc, target, plan>>
       ELSE Finish(q)
  /\ UNCHANGED <<database, process, activated>>

RequirementsMet(q) ==
  /\ pc[q] = "act_check"
  /\ todo[q] = {}
  /\ Goto(q, "act_begin")
  /\ UNCHANGED <<database, process, activated, target, todo, plan>>

(* Variant: the pending row is committed by a transaction of its own.        *)
PendingCommitted(q) ==
  /\ pc[q] = "act_begin"
  /\ lock[target[q]] = NoRequest
  /\ row' = [row EXCEPT ![target[q]].status = "pending"]
  /\ lock' = [lock EXCEPT ![target[q]] = q]
  /\ Goto(q, "act_hook")
  /\ UNCHANGED <<fact, process, activated, target, todo, plan>>

(* BEGIN and the upsert of #writePending: the row is locked, and its pending *)
(* value is seen by nobody until COMMIT.                                     *)
WritePending(q) ==
  /\ pc[q] = "act_begin"
  /\ lock[target[q]] = NoRequest
  /\ lock' = [lock EXCEPT ![target[q]] = q]
  /\ Goto(q, "act_hook")
  /\ UNCHANGED <<row, fact, process, activated, target, todo, plan>>

(* The hook succeeds; the UPDATE to active, #recordOutcome and COMMIT.       *)
CommitActivation(q) ==
  /\ pc[q] = "act_hook"
  /\ Record(target[q], ActiveRow, "activated")
  /\ lock' = [lock EXCEPT ![target[q]] = NoRequest]
  /\ activated' = activated \union {target[q]}
  /\ Goto(q, "act_mark")
  /\ UNCHANGED <<process, target, todo, plan>>

(* Variant: no ROLLBACK.                                                     *)
HookFailsWithoutRollback(q) ==
  /\ pc[q] = "act_hook"
  /\ target[q] \in ActivateMayFail
  /\ Goto(q, "act_fail")
  /\ UNCHANGED <<database, process, activated, target, todo, plan>>

(* Variant: the error of the hook is swallowed after the ROLLBACK.           *)
HookErrorSwallowed(q) ==
  /\ pc[q] = "act_hook"
  /\ target[q] \in ActivateMayFail
  /\ lock' = [lock EXCEPT ![target[q]] = NoRequest]
  /\ Goto(q, "act_mark")
  /\ UNCHANGED <<row, fact, process, activated, target, todo, plan>>

(* ActivationHookFailure: ROLLBACK restores the row as it was.               *)
ActivationHookFails(q) ==
  /\ pc[q] = "act_hook"
  /\ target[q] \in ActivateMayFail
  /\ lock' = [lock EXCEPT ![target[q]] = NoRequest]
  /\ Goto(q, "act_fail")
  /\ UNCHANGED <<row, fact, process, activated, target, todo, plan>>

(* #recordFailure: an upsert in a transaction of its own, whatever the row   *)
(* was; the mirror is left alone.                                            *)
RecordActivationFailure(q) ==
  /\ pc[q] = "act_fail"
  /\ lock[target[q]] = NoRequest
  /\ Record(target[q], FailedRow, "activation_failed")
  /\ Finish(q)
  /\ UNCHANGED <<lock, process, activated>>

(* Variant: the request is forgotten before the mirror is changed.           *)
MarkAfterFinish(q) ==
  /\ pc[q] = "act_mark"
  /\ Finish(q)
  /\ mirror' = mirror \union {target'[q]}
  /\ UNCHANGED <<database, registered, host, hydrated, activated>>

MarkActive(q) ==
  /\ pc[q] = "act_mark"
  /\ mirror' = mirror \union {target[q]}
  /\ Finish(q)
  /\ UNCHANGED <<database, registered, host, hydrated, activated>>

-----------------------------------------------------------------------------
(* deactivate() *)

(* registry.find, BEGIN and the first SELECT.  A row that is missing,        *)
(* inconsistent, pending or failed refuses the request.                      *)
DeactivateRead(q, m) ==
  /\ host = "serving" /\ pc[q] = "idle"
  /\ m \in registered
  /\ ~Inconsistent(m)
  /\ \/ row[m].status = "disabled" /\ Goto(q, "deact_mark")
     \/ row[m].status = "active"   /\ Goto(q, "deact_dependents")
  /\ target' = [target EXCEPT ![q] = m]
  /\ UNCHANGED <<database, process, activated, todo, plan>>

(* Variant: the module to be deactivated counts as its own alternative.      *)
BlockedWithoutAlternative(m) ==
  \E d \in ActiveRows \ {m} :
    \/ d \notin registered
    \/ \E r \in Requires[d] : m \in r /\ Providers(r) \cap ActiveRows = {}

(* Some active module cannot be looked up, or needs m and has no other       *)
(* active provider.                                                          *)
Blocked(m) ==
  \E d \in ActiveRows \ {m} :
    \/ d \notin registered
    \/ \E r \in Requires[d] :
         m \in r /\ (Providers(r) \ {m}) \cap ActiveRows = {}

(* #checkActiveDependents, a second statement of the same transaction: it    *)
(* sees what has been committed by now and locks nothing.                    *)
CheckActiveDependents(q) ==
  /\ pc[q] = "deact_dependents"
  /\ IF Blocked(target[q])
     THEN Finish(q)
     ELSE Goto(q, "deact_hook") /\ UNCHANGED <<target, todo, plan>>
  /\ UNCHANGED <<database, process, activated>>

DeactivationHook(q) ==
  /\ pc[q] = "deact_hook"
  /\ \/ Goto(q, "deact_update")
     \/ target[q] \in DeactivateMayFail /\ Goto(q, "deact_fail")
  /\ UNCHANGED <<database, process, activated, target, todo, plan>>

(* The UPDATE by id waits for the row's lock and tests no status; then       *)
(* #recordOutcome and COMMIT.                                                *)
CommitDeactivation(q) ==
  /\ pc[q] = "deact_update"
  /\ lock[target[q]] = NoRequest
  /\ Record(target[q], DisabledRow, "deactivated")
  /\ Goto(q, "deact_mark")
  /\ UNCHANGED <<lock, process, activated, target, todo, plan>>

(* Variant: the failure is recorded whatever the row is by now.              *)
RecordFailureUnconditionally(q) ==
  /\ pc[q] = "deact_fail"
  /\ lock[target[q]] = NoRequest
  /\ Record(target[q], [row[target[q]] EXCEPT !.reason = TRUE],
            "deactivation_failed")
  /\ Finish(q)
  /\ UNCHANGED <<lock, process, activated>>

(* #recordFailure after the rollback: only a row that is still active takes  *)
(* the failure; otherwise the call throws.                                   *)
RecordDeactivationFailure(q) ==
  /\ pc[q] = "deact_fail"
  /\ lock[target[q]] = NoRequest
  /\ IF IsActive(target[q])
     THEN Record(target[q], [row[target[q]] EXCEPT !.reason = TRUE],
                 "deactivation_failed")
     ELSE UNCHANGED <<row, fact>>
  /\ Finish(q)
  /\ UNCHANGED <<lock, process, activated>>

(* Variant: the mirror is not told of the deactivation.                      *)
MarkForgotten(q) ==
  /\ pc[q] = "deact_mark"
  /\ Finish(q)
  /\ UNCHANGED <<database, process, activated>>

MarkInactive(q) ==
  /\ pc[q] = "deact_mark"
  /\ mirror' = mirror \ {target[q]}
  /\ Finish(q)
  /\ UNCHANGED <<database, registered, host, hydrated, activated>>

-----------------------------------------------------------------------------
(* Hydration *)

(* hydrateCompanyRows finds no diagnostic in the committed rows.             *)
Hydratable ==
  /\ \A m \in Modules : ~Inconsistent(m)
  /\ \A m \in ActiveRows :
       /\ m \in registered \cap PlatformReady
       /\ \A r \in Requires[m] : Providers(r) \cap ActiveRows # {}

(* hydrateCompany, or another startup pass, on a serving process: the rows   *)
(* are read, and the registry is changed after the await.  A diagnostic, or  *)
(* a company whose rows cannot be listed, clears its mirror.                 *)
HydrateRead(q) ==
  /\ host = "serving" /\ pc[q] = "idle"
  /\ \/ /\ Hydratable
        /\ Goto(q, "hydrate_replace")
        /\ plan' = [plan EXCEPT ![q] = ActiveRows]
     \/ Goto(q, "hydrate_clear") /\ UNCHANGED plan
  /\ UNCHANGED <<database, process, activated, target, todo>>

HydrateReplace(q) ==
  /\ \/ pc[q] = "hydrate_replace" /\ mirror' = plan[q] /\ hydrated' = TRUE
     \/ pc[q] = "hydrate_clear" /\ mirror' = {} /\ hydrated' = FALSE
  /\ Finish(q)
  /\ UNCHANGED <<database, registered, host, activated>>

(* composeRuntime: hydrateAllCompanies before any request, or not at all     *)
(* (hydration switched off, or a query of the startup pass failed).          *)
ComposeRuntime ==
  /\ host = "starting"
  /\ host' = "serving"
  /\ \/ Hydratable /\ mirror' = ActiveRows /\ hydrated' = TRUE
     \/ UNCHANGED <<mirror, hydrated>>
  /\ UNCHANGED <<database, registered, activated, request>>

-----------------------------------------------------------------------------
(* A statement fails: the transaction is rolled back, the error propagates.  *)
DatabaseError(q) ==
  /\ pc[q] \in {"act_begin", "act_hook", "act_fail", "deact_dependents",
                "deact_update", "deact_fail"}
  /\ lock' = [m \in Modules |-> IF lock[m] = q THEN NoRequest ELSE lock[m]]
  /\ Finish(q)
  /\ UNCHANGED <<row, fact, process, activated>>

(* COMMIT is done and its reply is lost, with the connection: the driver's   *)
(* error propagates, and the mirror is not told.  (After a recorded failure  *)
(* nothing but the answer differs from RecordActivationFailure and           *)
(* RecordDeactivationFailure.)                                               *)
CommitUnheard(q) ==
  /\ MayLoseReply
  /\ \/ /\ pc[q] = "act_hook"
        /\ Record(target[q], ActiveRow, "activated")
        /\ lock' = [lock EXCEPT ![target[q]] = NoRequest]
        /\ activated' = activated \union {target[q]}
     \/ /\ pc[q] = "deact_update"
        /\ lock[target[q]] = NoRequest
        /\ Record(target[q], DisabledRow, "deactivated")
        /\ UNCHANGED <<lock, activated>>
  /\ Finish(q)
  /\ UNCHANGED process

(* The process dies, open transactions are rolled back by the server, and a  *)
(* new process registers the modules of some deployment.                     *)
Restart ==
  /\ registered' \in Deployments
  /\ host' = "starting"
  /\ mirror' = {}
  /\ hydrated' = FALSE
  /\ lock' = [m \in Modules |-> NoRequest]
  /\ pc' = [q \in Requests |-> "idle"]
  /\ target' = [q \in Requests |-> NoModule]
  /\ todo' = [q \in Requests |-> {}]
  /\ plan' = [q \in Requests |-> {}]
  /\ UNCHANGED <<row, fact, activated>>

Begin(q) ==
  \/ \E m \in Modules : ActivateStart(q, m) \/ DeactivateRead(q, m)
  \/ HydrateRead(q)

Proceed(q) ==
  \/ CheckRequirement(q) \/ RequirementsMet(q) \/ WritePending(q)
  \/ CommitActivation(q) \/ ActivationHookFails(q)
  \/ RecordActivationFailure(q) \/ MarkActive(q)
  \/ CheckActiveDependents(q) \/ DeactivationHook(q)
  \/ CommitDeactivation(q) \/ RecordDeactivationFailure(q) \/ MarkInactive(q)
  \/ HydrateReplace(q)

Next ==
  \/ \E q \in Requests : Begin(q) \/ Proceed(q) \/ DatabaseError(q) \/ CommitUnheard(q)
  \/ ComposeRuntime
  \/ Restart

Spec == Init /\ [][Next]_vars

(* Awaited hooks and statements return, and PostgreSQL grants a row lock in  *)
(* the order of the waiters, so a request that waits for one again and again *)
(* gets it.                                                                  *)
FairSpec == Spec /\ \A q \in Requests : SF_vars(Proceed(q))

-----------------------------------------------------------------------------
(* Properties *)

TypeOK ==
  /\ row \in [Modules -> Row]
  /\ fact \in [Modules -> Facts]
  /\ lock \in [Modules -> Requests \union {NoRequest}]
  /\ registered \in Deployments
  /\ mirror \subseteq Modules
  /\ host \in {"starting", "serving"}
  /\ hydrated \in BOOLEAN
  /\ activated \subseteq Modules
  /\ pc \in [Requests -> Steps]
  /\ target \in [Requests -> Modules \union {NoModule}]
  /\ \A q \in Requests : pc[q] \notin {"idle", "hydrate_replace", "hydrate_clear"}
                           => target[q] \in Modules
  /\ todo \in [Requests -> SUBSET (SUBSET Modules)]
  /\ plan \in [Requests -> SUBSET Modules]

(* The row that replaying the recorded facts arrives at.                     *)
RowAfter(f) ==
  CASE f = "none"                -> MissingRow
    [] f = "activated"           -> ActiveRow
    [] f = "activation_failed"   -> FailedRow
    [] f = "deactivated"         -> DisabledRow
    [] f = "deactivation_failed" -> [ActiveRow EXCEPT !.reason = TRUE]

(* The committed row is what the last recorded fact says: whoever replays    *)
(* audit or outbox facts arrives at the row, whichever transactions were     *)
(* rolled back or overlapped.  In particular no row is ever left "pending",  *)
(* enabled goes with status active, and the failure reason with a failure    *)
(* (service.ts and deactivation-service.ts write both in one transaction).   *)
RowMatchesFact == \A m \in Modules : row[m] = RowAfter(fact[m])

(* Persist before mirror (docs/architecture/04, "before the in-memory        *)
(* registry mirror changes"): a module appears in the mirror only if a       *)
(* successful activation of it has been committed, in whatever order the     *)
(* requests, hydrations and restarts ran.                                    *)
MirrorPersisted == mirror \subseteq activated

Quiescent == host = "serving" /\ \A q \in Requests : pc[q] = "idle"

(* "Mirrors core.company_modules": once the requests have returned, a        *)
(* hydrated mirror is exactly the set of active rows.                        *)
MirrorExact == Quiescent /\ hydrated => mirror = ActiveRows

(* Every requirement of an active module is satisfied by an active module,   *)
(* the condition without which hydration clears the company's whole mirror   *)
(* (#checkActiveDependents and #checkRequirements are there to keep it).     *)
DependentsProvided ==
  \A d \in ActiveRows : \A r \in Requires[d] : r \cap ActiveRows # {}

(* The row and fact variables implement ActivationLedger: with the status    *)
(* column of the committed row as its status, each transaction of activate   *)
(* and deactivate that commits is one of its outcomes, and nothing else      *)
(* changes either.                                                           *)
Ledger == INSTANCE ActivationLedger WITH
            status <- [m \in Modules |-> row[m].status]

ImplementsLedger == Ledger!Spec

(* No request waits for ever: each one that began returns, though requests   *)
(* queue for the same row and hooks and statements fail.                     *)
RequestsFinish == \A q \in Requests : pc[q] # "idle" ~> pc[q] = "idle"
=============================================================================
