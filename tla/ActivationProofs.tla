-------------------------- MODULE ActivationProofs --------------------------
(***************************************************************************)
(* Theorems of Activation and ActivationHistory, for every set of modules,  *)
(* requests and deployments, every requirement graph and every choice of   *)
(* failing hooks.                                                          *)
EXTENDS ActivationHistory, TLAPS

USE ActivationAssumption DEF ActivationAssumption

(* The state kept per request, and what a lookup in it returns.            *)
LEMMA TypeInit == Init => TypeOK
<1> SUFFICES ASSUME Init PROVE TypeOK
  OBVIOUS
<1>1. MissingRow \in Row
  BY DEF MissingRow, Row, Statuses
<1>2. /\ row \in [Modules -> Row]
      /\ fact \in [Modules -> Facts]
      /\ lock \in [Modules -> Requests \union {NoRequest}]
  BY <1>1 DEF Init, Facts
<1>3. /\ pc \in [Requests -> Steps]
      /\ target \in [Requests -> Modules \union {NoModule}]
      /\ todo \in [Requests -> SUBSET (SUBSET Modules)]
      /\ plan \in [Requests -> SUBSET Modules]
  BY DEF Init, Steps
<1> QED
  BY <1>2, <1>3 DEF Init, TypeOK

LEMMA TypeNext == TypeOK /\ [Next]_vars => TypeOK'
<1> SUFFICES ASSUME TypeOK, [Next]_vars
             PROVE  TypeOK'
  OBVIOUS
<1> USE DEF TypeOK, Row, Statuses, Facts, Steps
<1>1. ASSUME NEW q \in Requests, NEW m \in Modules, ActivateStart(q, m)
      PROVE  TypeOK'
  BY <1>1 DEF ActivateStart, Goto, database, process
<1>2. ASSUME NEW q \in Requests, CheckRequirement(q)
      PROVE  TypeOK'
  <2>1. UNCHANGED <<database, process, activated>>
    BY <1>2 DEF CheckRequirement
  <2>2. PICK r \in todo[q] :
          \/ /\ todo' = [todo EXCEPT ![q] = @ \ {r}]
             /\ UNCHANGED <<pc, target, plan>>
          \/ Finish(q)
    BY <1>2, Zenon DEF CheckRequirement
  <2>3. CASE /\ todo' = [todo EXCEPT ![q] = @ \ {r}]
             /\ UNCHANGED <<pc, target, plan>>
    <3>1. todo[q] \ {r} \in SUBSET (SUBSET Modules)
      OBVIOUS
    <3>2. todo' \in [Requests -> SUBSET (SUBSET Modules)]
      BY <2>3, <3>1, Zenon
    <3> QED
      BY <2>1, <2>3, <3>2 DEF database, process
  <2>4. CASE Finish(q)
    BY <2>1, <2>4 DEF Goto, Finish, database, process
  <2> QED
    BY <2>2, <2>3, <2>4
<1>3. ASSUME NEW q \in Requests, RequirementsMet(q)
      PROVE  TypeOK'
  BY <1>3 DEF RequirementsMet, Goto, database, process
<1>4. ASSUME NEW q \in Requests, WritePending(q)
      PROVE  TypeOK'
  BY <1>4 DEF WritePending, Goto, process
<1>5. ASSUME NEW q \in Requests, CommitActivation(q)
      PROVE  TypeOK'
  BY <1>5 DEF CommitActivation, Goto, Record, ActiveRow, process
<1>6. ASSUME NEW q \in Requests, ActivationHookFails(q)
      PROVE  TypeOK'
  BY <1>6 DEF ActivationHookFails, Goto, process
<1>7. ASSUME NEW q \in Requests, RecordActivationFailure(q)
      PROVE  TypeOK'
  BY <1>7 DEF RecordActivationFailure, Goto, Finish, Record, FailedRow, process
<1>8. ASSUME NEW q \in Requests, MarkActive(q)
      PROVE  TypeOK'
  BY <1>8 DEF MarkActive, Goto, Finish, database
<1>9. ASSUME NEW q \in Requests, NEW m \in Modules, DeactivateRead(q, m)
      PROVE  TypeOK'
  <2>1. /\ \/ Goto(q, "deact_mark")
           \/ Goto(q, "deact_dependents")
        /\ target' = [target EXCEPT ![q] = m]
        /\ UNCHANGED <<database, process, activated, todo, plan>>
    BY <1>9, Zenon DEF DeactivateRead
  <2>2. CASE Goto(q, "deact_mark")
    BY <2>1, <2>2 DEF Goto, database, process
  <2>3. CASE Goto(q, "deact_dependents")
    BY <2>1, <2>3 DEF Goto, database, process
  <2> QED
    BY <2>1, <2>2, <2>3
<1>10. ASSUME NEW q \in Requests, CheckActiveDependents(q)
       PROVE  TypeOK'
  <2>1. /\ pc[q] = "deact_dependents"
        /\ UNCHANGED <<database, process, activated>>
        /\ \/ Finish(q)
           \/ Goto(q, "deact_hook") /\ UNCHANGED <<target, todo, plan>>
    BY <1>10, Zenon DEF CheckActiveDependents
  <2>2. CASE Finish(q)
    BY <2>1, <2>2 DEF Goto, Finish, database, process
  <2>3. CASE Goto(q, "deact_hook") /\ UNCHANGED <<target, todo, plan>>
    BY <2>1, <2>3 DEF Goto, database, process
  <2> QED
    BY <2>1, <2>2, <2>3
<1>11. ASSUME NEW q \in Requests, DeactivationHook(q)
       PROVE  TypeOK'
  <2>1. /\ pc[q] = "deact_hook"
        /\ \/ Goto(q, "deact_update")
           \/ Goto(q, "deact_fail")
        /\ UNCHANGED <<database, process, activated, target, todo, plan>>
    BY <1>11, Zenon DEF DeactivationHook
  <2>2. CASE Goto(q, "deact_update")
    BY <2>1, <2>2 DEF Goto, database, process
  <2>3. CASE Goto(q, "deact_fail")
    BY <2>1, <2>3 DEF Goto, database, process
  <2> QED
    BY <2>1, <2>2, <2>3
<1>12. ASSUME NEW q \in Requests, CommitDeactivation(q)
       PROVE  TypeOK'
  BY <1>12 DEF CommitDeactivation, Goto, Record, DisabledRow, process
<1>13. ASSUME NEW q \in Requests, RecordDeactivationFailure(q)
       PROVE  TypeOK'
  <2>1. CASE IsActive(target[q])
    <3>1. /\ Record(target[q], [row[target[q]] EXCEPT !.reason = TRUE],
                    "deactivation_failed")
          /\ pc[q] = "deact_fail"
          /\ Finish(q)
          /\ UNCHANGED <<lock, process, activated>>
      BY <1>13, <2>1, Zenon DEF RecordDeactivationFailure
    <3>2. target[q] \in Modules
      BY <3>1
    <3>3. [row[target[q]] EXCEPT !.reason = TRUE] \in Row
      <4>1. row[target[q]] \in Row
        BY <3>2
      <4>2. ASSUME NEW v \in Row
            PROVE  [v EXCEPT !.reason = TRUE] \in Row
        OBVIOUS
      <4> HIDE DEF Row
      <4> QED
        BY <4>1, <4>2
    <3>4. row' \in [Modules -> Row] /\ fact' \in [Modules -> Facts]
      BY <3>1, <3>2, <3>3 DEF Record
    <3> QED
      BY <3>1, <3>4 DEF Goto, Finish, process
  <2>2. CASE ~IsActive(target[q])
    BY <1>13, <2>2 DEF RecordDeactivationFailure, Goto, Finish, process
  <2> QED
    BY <2>1, <2>2
<1>14. ASSUME NEW q \in Requests, MarkInactive(q)
       PROVE  TypeOK'
  BY <1>14 DEF MarkInactive, Goto, Finish, database
<1>15. ASSUME NEW q \in Requests, HydrateRead(q)
       PROVE  TypeOK'
  <2>1. /\ pc[q] = "idle"
        /\ \/ /\ Goto(q, "hydrate_replace")
              /\ plan' = [plan EXCEPT ![q] = ActiveRows]
           \/ Goto(q, "hydrate_clear") /\ UNCHANGED plan
        /\ UNCHANGED <<database, process, activated, target, todo>>
    BY <1>15, Zenon DEF HydrateRead
  <2>2. CASE /\ Goto(q, "hydrate_replace")
             /\ plan' = [plan EXCEPT ![q] = ActiveRows]
    BY <2>1, <2>2 DEF Goto, ActiveRows, database, process
  <2>3. CASE Goto(q, "hydrate_clear") /\ UNCHANGED plan
    BY <2>1, <2>3 DEF Goto, database, process
  <2> QED
    BY <2>1, <2>2, <2>3
<1>16. ASSUME NEW q \in Requests, HydrateReplace(q)
       PROVE  TypeOK'
  BY <1>16 DEF HydrateReplace, Goto, Finish, database
<1>17. ASSUME ComposeRuntime
       PROVE  TypeOK'
  BY <1>17 DEF ComposeRuntime, ActiveRows, database, request
<1>18. ASSUME NEW q \in Requests, DatabaseError(q)
       PROVE  TypeOK'
  BY <1>18 DEF DatabaseError, Goto, Finish, process
<1>19. ASSUME Restart
       PROVE  TypeOK'
  BY <1>19 DEF Restart
<1>20. CASE UNCHANGED vars
  BY <1>20 DEF vars
<1>21. ASSUME NEW q \in Requests, CommitUnheard(q)
       PROVE  TypeOK'
  <2>1. target[q] \in Modules
    BY <1>21 DEF CommitUnheard
  <2>2. /\ row' \in [Modules -> Row] /\ fact' \in [Modules -> Facts]
        /\ lock' \in [Modules -> Requests \union {NoRequest}]
        /\ activated' \subseteq Modules
    <3>1. CASE pc[q] = "act_hook"
      <4>1. /\ Record(target[q], ActiveRow, "activated")
            /\ lock' = [lock EXCEPT ![target[q]] = NoRequest]
            /\ activated' = activated \union {target[q]}
        BY <1>21, <3>1 DEF CommitUnheard
      <4> QED
        BY <2>1, <4>1 DEF Record, ActiveRow
    <3>2. CASE pc[q] = "deact_update"
      <4>1. /\ Record(target[q], DisabledRow, "deactivated")
            /\ UNCHANGED <<lock, activated>>
        BY <1>21, <3>2 DEF CommitUnheard
      <4> QED
        BY <2>1, <4>1 DEF Record, DisabledRow
    <3> QED
      BY <1>21, <3>1, <3>2 DEF CommitUnheard
  <2>3. UNCHANGED process /\ Finish(q)
    BY <1>21 DEF CommitUnheard
  <2>4. /\ pc' \in [Requests -> Steps] /\ pc'[q] = "idle"
        /\ target' \in [Requests -> Modules \union {NoModule}]
        /\ todo' \in [Requests -> SUBSET (SUBSET Modules)]
        /\ plan' \in [Requests -> SUBSET Modules]
        /\ \A p \in Requests \ {q} : pc'[p] = pc[p] /\ target'[p] = target[p]
    BY <2>3 DEF Goto, Finish
  <2> QED
    BY <2>2, <2>3, <2>4 DEF process
<1> QED
  BY <1>1, <1>2, <1>3, <1>4, <1>5, <1>6, <1>7, <1>8, <1>9, <1>10, <1>11,
     <1>12, <1>13, <1>14, <1>15, <1>16, <1>17, <1>18, <1>19, <1>20, <1>21
     DEF Next, Begin, Proceed

(* Type correctness of every variable the services and the registry keep.  *)
THEOREM TypeCorrect == Spec => []TypeOK
<1>1. Init => TypeOK
  BY TypeInit
<1>2. TypeOK /\ [Next]_vars => TypeOK'
  BY TypeNext
<1> QED
  BY <1>1, <1>2, PTL DEF Spec
-----------------------------------------------------------------------------
(* The only steps that commit a row and a fact.                            *)
Commits(q) ==
  \/ CommitActivation(q)
  \/ RecordActivationFailure(q)
  \/ CommitDeactivation(q)
  \/ RecordDeactivationFailure(q)
  \/ CommitUnheard(q)

LEMMA OnlyCommitsWrite ==
  [Next]_vars => UNCHANGED <<row, fact>> \/ \E q \in Requests : Commits(q)
  BY DEF Next, vars, Begin, Proceed, Commits, ActivateStart, CheckRequirement,
         RequirementsMet, WritePending, ActivationHookFails, MarkActive,
         DeactivateRead, CheckActiveDependents, DeactivationHook, MarkInactive,
         HydrateRead, HydrateReplace, ComposeRuntime, DatabaseError, Restart,
         database

LEMMA CommitTarget ==
  ASSUME TypeOK, NEW q \in Requests, Commits(q)
  PROVE  target[q] \in Modules
  BY DEF TypeOK, Commits, CommitActivation, RecordActivationFailure,
         CommitDeactivation, RecordDeactivationFailure, CommitUnheard, Steps

(* Each commit writes the row that its fact stands for.                    *)
LEMMA CommitsWriteMatchingRow ==
  ASSUME TypeOK, RowMatchesFact, NEW q \in Requests, Commits(q)
  PROVE  RowMatchesFact'
<1> DEFINE t == target[q]
<1>1. t \in Modules
  BY CommitTarget
<1>2. ASSUME NEW r, NEW f, Record(t, r, f), r = RowAfter(f)
      PROVE  RowMatchesFact'
  <2> HIDE DEF t
  <2>1. ASSUME NEW m \in Modules
        PROVE  row'[m] = RowAfter(fact'[m])
    BY <1>1, <1>2 DEF Record, TypeOK, RowMatchesFact
  <2> QED
    BY <2>1 DEF RowMatchesFact
<1>3. CASE CommitActivation(q)
  BY <1>2, <1>3 DEF CommitActivation, RowAfter
<1>4. CASE RecordActivationFailure(q)
  BY <1>2, <1>4 DEF RecordActivationFailure, RowAfter
<1>5. CASE CommitDeactivation(q)
  BY <1>2, <1>5 DEF CommitDeactivation, RowAfter
<1>6. CASE RecordDeactivationFailure(q)
  <2>1. CASE ~IsActive(t)
    BY <1>6, <2>1 DEF RecordDeactivationFailure, RowMatchesFact
  <2>2. CASE IsActive(t)
    <3>1. Record(t, [row[t] EXCEPT !.reason = TRUE], "deactivation_failed")
      BY <1>6, <2>2, Zenon DEF RecordDeactivationFailure
    <3>2. row[t] = RowAfter(fact[t]) /\ fact[t] \in Facts
      BY <1>1 DEF RowMatchesFact, TypeOK
    <3>3. [row[t] EXCEPT !.reason = TRUE] = RowAfter("deactivation_failed")
      <4>1. row[t] = ActiveRow \/ row[t] = [ActiveRow EXCEPT !.reason = TRUE]
        BY <2>2, <3>2 DEF IsActive, RowAfter, Facts, MissingRow, ActiveRow,
                          FailedRow, DisabledRow
      <4>2. [row[t] EXCEPT !.reason = TRUE] = [ActiveRow EXCEPT !.reason = TRUE]
        BY <4>1 DEF ActiveRow
      <4> QED
        BY <4>2 DEF RowAfter
    <3> QED
      BY <1>2, <3>1, <3>3
  <2> QED
    BY <2>1, <2>2
<1>7. CASE CommitUnheard(q)
  BY <1>2, <1>7 DEF CommitUnheard, RowAfter
<1> QED
  BY <1>3, <1>4, <1>5, <1>6, <1>7 DEF Commits

(* The committed rows are what the recorded facts say, whichever           *)
(* transactions overlap, fail or are cut off by a restart.                 *)
THEOREM RowsMatchFacts == Spec => []RowMatchesFact
<1>1. Init => RowMatchesFact
  BY DEF Init, RowMatchesFact, RowAfter
<1>2. TypeOK /\ RowMatchesFact /\ [Next]_vars => RowMatchesFact'
  <2> SUFFICES ASSUME TypeOK, RowMatchesFact, [Next]_vars
               PROVE  RowMatchesFact'
    OBVIOUS
  <2>1. CASE UNCHANGED <<row, fact>>
    BY <2>1 DEF RowMatchesFact
  <2>2. CASE \E q \in Requests : Commits(q)
    BY <2>2, CommitsWriteMatchingRow
  <2> QED
    BY <2>1, <2>2, OnlyCommitsWrite
<1> QED
  BY <1>1, <1>2, TypeCorrect, PTL DEF Spec
-----------------------------------------------------------------------------
TakesStep(q) == Begin(q) \/ Proceed(q) \/ DatabaseError(q) \/ CommitUnheard(q)

(* A request changes no other request.                                     *)
Frame(q) ==
  /\ pc'[q] = pc[q] /\ target'[q] = target[q]
  /\ todo'[q] = todo[q] /\ plan'[q] = plan[q]

LEMMA FinishFrame ==
  ASSUME TypeOK, NEW p \in Requests, NEW q \in Requests, p # q, Finish(p)
  PROVE  Frame(q)
  BY DEF TypeOK, Finish, Goto, Frame

LEMMA OthersUnchanged ==
  ASSUME TypeOK, NEW p \in Requests, NEW q \in Requests, p # q,
         TakesStep(p)
  PROVE  Frame(q)
<1> USE FinishFrame DEF TypeOK, Goto, Frame
<1>1. ASSUME NEW m \in Modules, ActivateStart(p, m) PROVE Frame(q)
  BY <1>1 DEF ActivateStart
<1>2. ASSUME NEW m \in Modules, DeactivateRead(p, m) PROVE Frame(q)
  BY <1>2 DEF DeactivateRead
<1>3. CASE CheckRequirement(p)
  <2>1. \/ Finish(p)
        \/ /\ UNCHANGED <<pc, target, plan>>
           /\ \E r \in todo[p] : todo' = [todo EXCEPT ![p] = @ \ {r}]
    BY <1>3, Zenon DEF CheckRequirement
  <2> QED
    BY <2>1
<1>4. CASE RequirementsMet(p)
  BY <1>4 DEF RequirementsMet
<1>5. CASE WritePending(p)
  BY <1>5 DEF WritePending
<1>6. CASE CommitActivation(p)
  BY <1>6 DEF CommitActivation
<1>7. CASE ActivationHookFails(p)
  BY <1>7 DEF ActivationHookFails
<1>8. CASE RecordActivationFailure(p)
  BY <1>8 DEF RecordActivationFailure
<1>9. CASE MarkActive(p)
  BY <1>9 DEF MarkActive
<1>10. CASE CheckActiveDependents(p)
  <2>1. \/ Finish(p)
        \/ Goto(p, "deact_hook") /\ UNCHANGED <<target, todo, plan>>
    BY <1>10, Zenon DEF CheckActiveDependents
  <2> QED
    BY <2>1
<1>11. CASE DeactivationHook(p)
  BY <1>11 DEF DeactivationHook
<1>12. CASE CommitDeactivation(p)
  BY <1>12 DEF CommitDeactivation
<1>13. CASE RecordDeactivationFailure(p)
  BY <1>13 DEF RecordDeactivationFailure
<1>14. CASE MarkInactive(p)
  BY <1>14 DEF MarkInactive
<1>15. CASE HydrateReplace(p)
  BY <1>15 DEF HydrateReplace
<1>16. CASE HydrateRead(p)
  BY <1>16 DEF HydrateRead
<1>17. CASE DatabaseError(p) \/ CommitUnheard(p)
  BY <1>17 DEF DatabaseError, CommitUnheard
<1> QED
  BY <1>1, <1>2, <1>3, <1>4, <1>5, <1>6, <1>7, <1>8, <1>9, <1>10, <1>11, <1>12, <1>13, <1>14, <1>15, <1>16, <1>17
     DEF TakesStep, Begin, Proceed

-----------------------------------------------------------------------------
(* MirrorPersisted is not inductive: what a request is about to put into    *)
(* the mirror, and what a hydration can read, must have been activated too. *)
PersistedInv ==
  /\ MirrorPersisted
  /\ ActiveRows \subseteq activated
  /\ \A q \in Requests : pc[q] = "act_mark" => target[q] \in activated
  /\ \A q \in Requests : plan[q] \subseteq activated

LEMMA CommitsKeepActivated ==
  ASSUME TypeOK, ActiveRows \subseteq activated,
         NEW q \in Requests, Commits(q)
  PROVE  ActiveRows' \subseteq activated' /\ activated \subseteq activated'
<1>1. target[q] \in Modules
  BY CommitTarget
<1>2. CASE CommitActivation(q)
  BY <1>1, <1>2 DEF CommitActivation, Record, ActiveRows, IsActive, TypeOK
<1>3. CASE RecordActivationFailure(q)
  BY <1>1, <1>3 DEF RecordActivationFailure, Record, FailedRow, ActiveRows,
                    IsActive, TypeOK
<1>4. CASE CommitDeactivation(q)
  BY <1>1, <1>4 DEF CommitDeactivation, Record, DisabledRow, ActiveRows,
                    IsActive, TypeOK
<1>5. CASE RecordDeactivationFailure(q)
  <2>1. activated' = activated
    BY <1>5 DEF RecordDeactivationFailure
  <2>2. CASE ~IsActive(target[q])
    BY <1>5, <2>1, <2>2 DEF RecordDeactivationFailure, ActiveRows, IsActive
  <2>3. CASE IsActive(target[q])
    <3>1. row' = [row EXCEPT ![target[q]] = [row[target[q]] EXCEPT !.reason = TRUE]]
      BY <1>5, <2>3, Zenon DEF RecordDeactivationFailure, Record
    <3>2. \A m \in Modules : m # target[q] => row'[m] = row[m]
      BY <3>1, <1>1 DEF TypeOK
    <3>3. ActiveRows' \subseteq ActiveRows
      BY <2>3, <3>2, <1>1 DEF ActiveRows, IsActive
    <3> QED
      BY <2>1, <3>3
  <2> QED
    BY <2>2, <2>3
<1>6. CASE CommitUnheard(q)
  BY <1>1, <1>6 DEF CommitUnheard, Record, ActiveRow, DisabledRow, ActiveRows,
                    IsActive, TypeOK
<1> QED
  BY <1>2, <1>3, <1>4, <1>5, <1>6 DEF Commits

LEMMA PersistedNext ==
  TypeOK /\ PersistedInv /\ [Next]_vars => PersistedInv'
<1> SUFFICES ASSUME TypeOK, PersistedInv, [Next]_vars
             PROVE  PersistedInv'
  OBVIOUS
<1>1. ActiveRows' \subseteq activated' /\ activated \subseteq activated'
  <2>1. CASE UNCHANGED <<row, fact>>
    <3>1. activated \subseteq activated'
      BY DEF Next, vars, Begin, Proceed, ActivateStart, CheckRequirement,
             RequirementsMet, WritePending, CommitActivation,
             ActivationHookFails, RecordActivationFailure, MarkActive,
             DeactivateRead, CheckActiveDependents, DeactivationHook,
             CommitDeactivation, RecordDeactivationFailure, MarkInactive,
             HydrateRead, HydrateReplace, ComposeRuntime, DatabaseError, CommitUnheard, Restart
    <3> QED
      BY <2>1, <3>1 DEF PersistedInv, ActiveRows, IsActive
  <2>2. CASE \E q \in Requests : Commits(q)
    BY <2>2, CommitsKeepActivated DEF PersistedInv
  <2> QED
    BY <2>1, <2>2, OnlyCommitsWrite
<1>2. mirror' \subseteq activated'
  <2>1. \/ mirror' \subseteq mirror
        \/ \E q \in Requests : pc[q] = "act_mark" /\ mirror' = mirror \union {target[q]}
        \/ \E q \in Requests : mirror' = plan[q]
        \/ mirror' = ActiveRows
    BY DEF Next, vars, Begin, Proceed, ActivateStart, CheckRequirement,
           RequirementsMet, WritePending, CommitActivation,
           ActivationHookFails, RecordActivationFailure, MarkActive,
           DeactivateRead, CheckActiveDependents, DeactivationHook,
           CommitDeactivation, RecordDeactivationFailure, MarkInactive,
           HydrateRead, HydrateReplace, ComposeRuntime, DatabaseError, CommitUnheard, Restart,
           process
  <2> QED
    BY <1>1, <2>1 DEF PersistedInv, MirrorPersisted
<1>3. ASSUME NEW q \in Requests
      PROVE  /\ pc'[q] = "act_mark" => target'[q] \in activated'
             /\ plan'[q] \subseteq activated'
  <2>1. CASE UNCHANGED <<pc, target, plan>>
    BY <1>1, <2>1 DEF PersistedInv
  <2>2. CASE Finish(q)
    BY <2>2 DEF Finish, Goto, TypeOK
  <2>3. CASE CommitActivation(q)
    BY <1>1, <2>3 DEF CommitActivation, PersistedInv
  <2>4. CASE HydrateRead(q)
    BY <1>1, <2>4 DEF HydrateRead, Goto, PersistedInv, TypeOK
  <2>5. CASE pc'[q] # "act_mark" /\ plan' = plan
    BY <1>1, <2>5 DEF PersistedInv
  <2>6. CASE Frame(q)
    BY <1>1, <2>6 DEF Frame, PersistedInv
  <2>7. CASE TakesStep(q)
    <3>1. CASE CheckRequirement(q) \/ CheckActiveDependents(q)
      <4>1. \/ Finish(q)
            \/ pc[q] # "act_mark" /\ UNCHANGED <<pc, plan>>
            \/ Goto(q, "deact_hook") /\ UNCHANGED plan
        BY <3>1, Zenon DEF CheckRequirement, CheckActiveDependents
      <4> QED
        BY <4>1, <2>2, <2>5 DEF Goto, TypeOK
    <3>2. CASE ~(CheckRequirement(q) \/ CheckActiveDependents(q))
      <4>1. \/ Finish(q) \/ CommitActivation(q) \/ HydrateRead(q)
            \/ \E s \in Steps \ {"act_mark"} : Goto(q, s) /\ UNCHANGED plan
        BY <2>7, <3>2
           DEF TakesStep, Begin, Proceed, Steps, ActivateStart, RequirementsMet,
               WritePending, ActivationHookFails, RecordActivationFailure,
               MarkActive, DeactivateRead, DeactivationHook,
               CommitDeactivation, RecordDeactivationFailure, MarkInactive,
               HydrateReplace, DatabaseError, CommitUnheard
      <4> QED
        BY <4>1, <2>2, <2>3, <2>4, <2>5 DEF Goto, TypeOK
    <3> QED
      BY <3>1, <3>2
  <2>8. CASE Restart
    BY <2>8 DEF Restart
  <2>9. CASE ComposeRuntime
    BY <2>1, <2>9 DEF ComposeRuntime, request
  <2>10. CASE \E p \in Requests \ {q} : TakesStep(p)
    BY <2>6, <2>10, OthersUnchanged
  <2> QED
    BY <2>1, <2>7, <2>8, <2>9, <2>10 DEF Next, TakesStep, vars
<1> QED
  BY <1>1, <1>2, <1>3 DEF PersistedInv, MirrorPersisted

(* The mirror never shows a module that no committed activation backs.     *)
THEOREM PersistBeforeMirror == Spec => []MirrorPersisted
<1>1. Init => PersistedInv
  BY DEF Init, PersistedInv, MirrorPersisted, ActiveRows, IsActive, MissingRow
<1>2. PersistedInv => MirrorPersisted
  BY DEF PersistedInv
<1> QED
  BY <1>1, <1>2, PersistedNext, TypeCorrect, PTL DEF Spec
-----------------------------------------------------------------------------
(* A deactivation under way is about a row that exists: rows are never      *)
(* deleted, so its UPDATE finds the row that its SELECT found.              *)
Deactivating == {"deact_dependents", "deact_hook", "deact_update"}

RowExistsInv ==
  \A q \in Requests :
    pc[q] \in Deactivating => row[target[q]].status # "missing"

LEMMA RowsStay ==
  ASSUME TypeOK, [Next]_vars, NEW m \in Modules, row[m].status # "missing"
  PROVE  row'[m].status # "missing"
<1>1. CASE UNCHANGED <<row, fact>>
  BY <1>1
<1>2. ASSUME NEW q \in Requests, Commits(q)
      PROVE  row'[m].status # "missing"
  <2>1. target[q] \in Modules
    BY <1>2, CommitTarget
  <2>2. CASE \/ CommitActivation(q) \/ RecordActivationFailure(q)
           \/ CommitDeactivation(q) \/ CommitUnheard(q)
    BY <2>1, <2>2
       DEF CommitActivation, RecordActivationFailure, CommitDeactivation,
           CommitUnheard, Record, ActiveRow, FailedRow, DisabledRow, TypeOK
  <2>3. CASE RecordDeactivationFailure(q)
    <3>1. \/ row' = row
          \/ row' = [row EXCEPT ![target[q]] = [row[target[q]] EXCEPT !.reason = TRUE]]
      BY <2>3, Zenon DEF RecordDeactivationFailure, Record
    <3> QED
      BY <3>1, <2>1 DEF TypeOK, Row
  <2> QED
    BY <1>2, <2>2, <2>3 DEF Commits
<1> QED
  BY <1>1, <1>2, OnlyCommitsWrite

LEMMA RowExistsNext ==
  TypeOK /\ RowExistsInv /\ [Next]_vars => RowExistsInv'
<1> SUFFICES ASSUME TypeOK, RowExistsInv, [Next]_vars, NEW q \in Requests,
                    pc'[q] \in Deactivating
             PROVE  row'[target'[q]].status # "missing"
  BY DEF RowExistsInv
<1>1. CASE pc[q] \in Deactivating /\ target'[q] = target[q]
  <2>1. target[q] \in Modules
    BY <1>1 DEF TypeOK, Deactivating
  <2> QED
    BY <1>1, <2>1, RowsStay DEF RowExistsInv
<1>2. ASSUME NEW m \in Modules, DeactivateRead(q, m)
      PROVE  row'[target'[q]].status # "missing"
  BY <1>2 DEF DeactivateRead, database, Goto, TypeOK, Deactivating
<1>3. ASSUME TakesStep(q),
             \A m \in Modules : ~DeactivateRead(q, m)
      PROVE  pc[q] \in Deactivating /\ target'[q] = target[q]
  <2>1. ~Finish(q)
    BY DEF Finish, Goto, TypeOK, Deactivating
  <2>2. CASE CheckRequirement(q) \/ CheckActiveDependents(q)
    <3>1. \/ UNCHANGED <<pc, target>> /\ pc[q] = "act_check"
          \/ UNCHANGED target /\ pc[q] = "deact_dependents"
      BY <2>1, <2>2, Zenon DEF CheckRequirement, CheckActiveDependents
    <3> QED
      BY <3>1 DEF Deactivating
  <2>3. CASE ~(CheckRequirement(q) \/ CheckActiveDependents(q))
    <3>1. \/ \E s \in Steps \ Deactivating : Goto(q, s)
          \/ DeactivationHook(q)
      BY <1>3, <2>1, <2>3
         DEF TakesStep, Begin, Proceed, Steps, Deactivating, ActivateStart,
             RequirementsMet, WritePending, CommitActivation,
             ActivationHookFails, RecordActivationFailure, MarkActive,
             CommitDeactivation, RecordDeactivationFailure, MarkInactive,
             HydrateReplace, HydrateRead, DatabaseError, CommitUnheard
    <3> QED
      BY <3>1 DEF DeactivationHook, Goto, TypeOK, Deactivating
  <2> QED
    BY <2>2, <2>3
<1>4. CASE Restart
  BY <1>4 DEF Restart, Deactivating
<1>5. CASE UNCHANGED vars \/ ComposeRuntime
  BY <1>1, <1>5 DEF vars, ComposeRuntime, request
<1>6. CASE \E p \in Requests \ {q} : TakesStep(p)
  BY <1>1, <1>6, OthersUnchanged DEF Frame
<1> QED
  BY <1>1, <1>2, <1>3, <1>4, <1>5, <1>6 DEF Next, TakesStep

(* A commit is one of the outcomes of the abstract specification.          *)
LEMMA CommitsAreOutcomes ==
  ASSUME TypeOK, RowExistsInv, NEW q \in Requests, Commits(q)
  PROVE  Ledger!Next \/ UNCHANGED <<row, fact>>
<1> DEFINE status == [m \in Modules |-> row[m].status]
<1>1. PICK t \in Modules : t = target[q]
  BY CommitTarget
<1>2. ASSUME NEW r, NEW f, Record(t, r, f)
      PROVE  Ledger!Outcome(t, r.status, f)
  <2>1. status' = [status EXCEPT ![t] = r.status]
    BY <1>1, <1>2 DEF Record, TypeOK
  <2> QED
    BY <1>2, <2>1 DEF Record, Ledger!Outcome
<1>3. CASE CommitActivation(q)
  <2>1. Ledger!Activated(t)
    BY <1>1, <1>2, <1>3 DEF CommitActivation, ActiveRow, Ledger!Activated
  <2> QED
    BY <1>1, <2>1 DEF Ledger!Next
<1>4. CASE RecordActivationFailure(q)
  <2>1. Ledger!ActivationFailed(t)
    BY <1>1, <1>2, <1>4 DEF RecordActivationFailure, FailedRow, Ledger!ActivationFailed
  <2> QED
    BY <1>1, <2>1 DEF Ledger!Next
<1>5. CASE CommitDeactivation(q)
  <2>1. row[t].status # "missing"
    BY <1>1, <1>5 DEF RowExistsInv, CommitDeactivation, Deactivating
  <2>2. Ledger!Deactivated(t)
    BY <1>1, <1>2, <1>5, <2>1 DEF CommitDeactivation, DisabledRow, Ledger!Deactivated
  <2> QED
    BY <1>1, <2>2 DEF Ledger!Next
<1>6. CASE RecordDeactivationFailure(q)
  <2>1. CASE ~IsActive(t)
    BY <1>1, <1>6, <2>1 DEF RecordDeactivationFailure
  <2>2. CASE IsActive(t)
    <3>1. Record(t, [row[t] EXCEPT !.reason = TRUE], "deactivation_failed")
      BY <1>1, <1>6, <2>2, Zenon DEF RecordDeactivationFailure
    <3>2. [row[t] EXCEPT !.reason = TRUE].status = "active"
      BY <1>1, <2>2 DEF IsActive, TypeOK, Row
    <3>3. Ledger!Outcome(t, "active", "deactivation_failed")
      <4>1. Ledger!Outcome(t, [row[t] EXCEPT !.reason = TRUE].status,
                           "deactivation_failed")
        BY <1>2, <3>1
      <4> QED
        BY <3>2, <4>1 DEF Ledger!Outcome
    <3>4. Ledger!DeactivationFailed(t)
      BY <1>1, <2>2, <3>3 DEF IsActive, Ledger!DeactivationFailed
    <3> QED
      BY <1>1, <3>4 DEF Ledger!Next
  <2> QED
    BY <2>1, <2>2
<1>7. CASE CommitUnheard(q)
  <2>1. CASE pc[q] = "act_hook"
    <3>1. Record(t, ActiveRow, "activated")
      BY <1>1, <1>7, <2>1 DEF CommitUnheard
    <3>2. Ledger!Activated(t)
      BY <1>2, <3>1 DEF ActiveRow, Ledger!Activated
    <3> QED
      BY <1>1, <3>2 DEF Ledger!Next
  <2>2. CASE pc[q] = "deact_update"
    <3>1. Record(t, DisabledRow, "deactivated") /\ row[t].status # "missing"
      BY <1>1, <1>7, <2>2 DEF RowExistsInv, CommitUnheard, Deactivating
    <3>2. Ledger!Deactivated(t)
      BY <1>2, <3>1 DEF DisabledRow, Ledger!Deactivated
    <3> QED
      BY <1>1, <3>2 DEF Ledger!Next
  <2> QED
    BY <1>7, <2>1, <2>2 DEF CommitUnheard
<1> QED
  BY <1>3, <1>4, <1>5, <1>6, <1>7 DEF Commits

(* The services implement the ledger: seen from the database, an activation *)
(* history is a history of the four outcomes and nothing else.              *)
THEOREM ImplementsTheLedger == Spec => ImplementsLedger
<1>1. Init => RowExistsInv /\ Ledger!Init
  BY DEF Init, RowExistsInv, Deactivating, Ledger!Init, MissingRow
<1>2. TypeOK /\ RowExistsInv /\ [Next]_vars
        => [Ledger!Next]_<<[m \in Modules |-> row[m].status], fact>>
  BY CommitsAreOutcomes, OnlyCommitsWrite
<1> QED
  BY <1>1, <1>2, RowExistsNext, TypeCorrect, PTL
     DEF Spec, ImplementsLedger, Ledger!Spec
-----------------------------------------------------------------------------
(* How the set of active rows changes.                                     *)
LEMMA ActiveUnchanged == row' = row => ActiveRows' = ActiveRows
  BY DEF ActiveRows, IsActive

LEMMA ActiveRecorded ==
  ASSUME TypeOK, NEW t \in Modules, NEW r \in Row, NEW f, Record(t, r, f)
  PROVE  ActiveRows' = IF r.status = "active" /\ r.enabled
                       THEN ActiveRows \union {t} ELSE ActiveRows \ {t}
<1>1. \A m \in Modules : row'[m] = IF m = t THEN r ELSE row[m]
  BY DEF Record, TypeOK
<1>2. \A m \in Modules : IsActive(m)' <=> IF m = t THEN r.status = "active" /\ r.enabled
                                                  ELSE IsActive(m)
  BY <1>1 DEF IsActive
<1> HIDE DEF IsActive
<1> QED
  BY <1>2 DEF ActiveRows
-----------------------------------------------------------------------------
(* The history variables.                                                   *)

LEMMA HistorySteps ==
  ASSUME TypeOK, [HNext]_hvars
  PROVE  /\ [Next]_vars /\ TypeOK'
         /\ \/ /\ stale' = NextStale
               /\ outdated' = [q \in Requests |-> NextOutdated(q)]
            \/ UNCHANGED hvars
  BY TypeNext DEF HNext, hvars

LEMMA HistoryTypes == HSpec => []TypeOK
<1>1. HInit => TypeOK
  BY TypeInit DEF HInit
<1>2. TypeOK /\ [HNext]_hvars => TypeOK'
  BY HistorySteps
<1> QED
  BY <1>1, <1>2, PTL DEF HSpec

(* Type correctness of the history variables, with all the others.          *)
THEOREM HistoryTypeCorrect == HSpec => []HTypeOK
<1>1. HInit => HTypeOK
  BY TypeInit DEF HInit, HTypeOK
<1>2. HTypeOK /\ [HNext]_hvars => HTypeOK'
  <2> SUFFICES ASSUME HTypeOK, [HNext]_hvars
               PROVE  HTypeOK'
    OBVIOUS
  <2>1. CASE UNCHANGED hvars
    BY <2>1, HistorySteps DEF HTypeOK, hvars
  <2>2. CASE /\ stale' = NextStale
             /\ outdated' = [q \in Requests |-> NextOutdated(q)]
    <3>1. ASSUME NEW q \in Requests
          PROVE  NextOutdated(q) \subseteq Modules
      BY HistorySteps DEF HTypeOK, TypeOK, NextOutdated, Changed, ActiveRows
    <3>2. NextStale \subseteq Modules
      BY DEF NextStale
    <3>3. outdated' \in [Requests -> SUBSET Modules]
      BY <2>2, <3>1
    <3> QED
      BY <2>2, <3>2, <3>3, HistorySteps DEF HTypeOK
  <2> QED
    BY <2>1, <2>2, HistorySteps DEF HTypeOK
<1> QED
  BY <1>1, <1>2, PTL DEF HSpec

(* What each commit makes of its row.                                       *)
LEMMA CommitEffect ==
  ASSUME TypeOK, NEW q \in Requests, Commits(q)
  PROVE  /\ pc'[q] # pc[q]
         /\ \/ /\ pc[q] = "act_hook"
               /\ ActiveRows' = ActiveRows \union {target[q]}
            \/ /\ pc[q] \in {"deact_update", "act_fail"}
               /\ ActiveRows' = ActiveRows \ {target[q]}
            \/ /\ pc[q] = "deact_fail"
               /\ ActiveRows' = ActiveRows
<1> DEFINE t == target[q]
<1>1. t \in Modules
  BY CommitTarget
<1>2. /\ ActiveRow \in Row /\ ActiveRow.status = "active" /\ ActiveRow.enabled
      /\ FailedRow \in Row /\ FailedRow.status = "failed"
      /\ DisabledRow \in Row /\ DisabledRow.status = "disabled"
  BY DEF ActiveRow, FailedRow, DisabledRow, Row, Statuses
<1> HIDE DEF t
<1>3. ASSUME Record(t, ActiveRow, "activated")
      PROVE  ActiveRows' = ActiveRows \union {t}
  BY <1>1, <1>2, <1>3, ActiveRecorded
<1>4. ASSUME Record(t, DisabledRow, "deactivated")
      PROVE  ActiveRows' = ActiveRows \ {t}
  BY <1>1, <1>2, <1>4, ActiveRecorded
<1>5. ASSUME Record(t, FailedRow, "activation_failed")
      PROVE  ActiveRows' = ActiveRows \ {t}
  BY <1>1, <1>2, <1>5, ActiveRecorded
<1>6. CASE CommitActivation(q)
  BY <1>3, <1>6 DEF CommitActivation, Goto, TypeOK, t
<1>7. CASE RecordActivationFailure(q)
  BY <1>5, <1>7 DEF RecordActivationFailure, Finish, Goto, TypeOK, t
<1>8. CASE CommitDeactivation(q)
  BY <1>4, <1>8 DEF CommitDeactivation, Goto, TypeOK, t
<1>9. CASE RecordDeactivationFailure(q)
  <2>1. pc[q] = "deact_fail" /\ pc'[q] = "idle"
    BY <1>9 DEF RecordDeactivationFailure, Finish, Goto, TypeOK
  <2>2. CASE ~IsActive(t)
    <3>1. row' = row
      BY <1>9, <2>2, Zenon DEF RecordDeactivationFailure, t
    <3> QED
      BY <2>1, <3>1, ActiveUnchanged
  <2>3. CASE IsActive(t)
    <3> DEFINE r == [row[t] EXCEPT !.reason = TRUE]
    <3>1. Record(t, r, "deactivation_failed")
      BY <1>9, <2>3, Zenon DEF RecordDeactivationFailure, t
    <3>2. row[t] \in Row
      BY <1>1 DEF TypeOK
    <3>3. r \in Row /\ r.status = "active" /\ r.enabled
      BY <2>3, <3>2 DEF Row, IsActive
    <3> HIDE DEF r
    <3>4. ActiveRows' = ActiveRows \union {t}
      BY <1>1, <3>1, <3>3, ActiveRecorded
    <3>5. t \in ActiveRows
      BY <1>1, <2>3 DEF ActiveRows
    <3> QED
      BY <2>1, <3>4, <3>5
  <2> QED
    BY <2>2, <2>3
<1>10. CASE CommitUnheard(q)
  <2>1. pc'[q] = "idle"
    BY <1>10 DEF CommitUnheard, Finish, Goto, TypeOK
  <2> QED
    BY <2>1, <1>3, <1>4, <1>10 DEF CommitUnheard, t
<1> QED
  BY <1>6, <1>7, <1>8, <1>9, <1>10 DEF Commits
-----------------------------------------------------------------------------
(* What the checks of request q have found is still there, or the request   *)
(* is outdated.                                                             *)
Covered(q, r) == r \cap (ActiveRows \union outdated[q]) # {}

Backed(q, d, r) ==
  \/ (r \ {target[q]}) \cap ActiveRows # {}
  \/ ({d} \union (r \ {target[q]})) \cap outdated[q] # {}

ChecksOf(q) ==
  /\ pc[q] = "act_check" =>
       \A r \in Requires[target[q]] \ todo[q] : Covered(q, r)
  /\ pc[q] \in {"act_begin", "act_hook"} =>
       \A r \in Requires[target[q]] : Covered(q, r)
  /\ pc[q] \in {"deact_hook", "deact_update"} =>
       \A d \in ActiveRows \ {target[q]} : \A r \in Requires[d] :
         target[q] \in r => Backed(q, d, r)

ChecksInv == \A q \in Requests : ChecksOf(q)

Checking(q) == pc[q] \in {"act_check", "act_begin", "act_hook",
                          "deact_hook", "deact_update"}

(* Every row that has changed since the checks outdates them.               *)
LEMMA OutdatedGrows ==
  ASSUME NEW q \in Requests, Checking(q),
         outdated' = [p \in Requests |-> NextOutdated(p)]
  PROVE  /\ outdated[q] \subseteq outdated'[q]
         /\ ActiveRows \subseteq ActiveRows' \union outdated'[q]
         /\ ActiveRows' \subseteq ActiveRows \union outdated'[q]
         /\ pc[q] = "act_check" => mirror \subseteq ActiveRows \union outdated'[q]
  BY DEF Checking, NextOutdated, Changed

LEMMA CoveredStays ==
  ASSUME NEW q \in Requests, Checking(q),
         outdated' = [p \in Requests |-> NextOutdated(p)],
         NEW r, Covered(q, r)
  PROVE  Covered(q, r)'
<1>1. PICK m \in r : m \in ActiveRows \union outdated[q]
  BY DEF Covered
<1>2. m \in ActiveRows' \union outdated'[q]
  BY <1>1, OutdatedGrows
<1> QED
  BY <1>1, <1>2 DEF Covered

LEMMA BackedStays ==
  ASSUME NEW q \in Requests, Checking(q), target'[q] = target[q],
         outdated' = [p \in Requests |-> NextOutdated(p)],
         NEW d \in ActiveRows', NEW r,
         d \in ActiveRows => Backed(q, d, r)
  PROVE  Backed(q, d, r)'
<1>1. CASE d \notin ActiveRows
  <2>1. d \in outdated'[q]
    BY <1>1, OutdatedGrows
  <2> QED
    BY <2>1 DEF Backed
<1>2. CASE (r \ {target[q]}) \cap ActiveRows # {}
  <2>1. PICK m \in r \ {target[q]} : m \in ActiveRows
    BY <1>2
  <2>2. m \in ActiveRows' \/ m \in outdated'[q]
    BY <2>1, OutdatedGrows
  <2> QED
    BY <2>1, <2>2 DEF Backed
<1>3. CASE ({d} \union (r \ {target[q]})) \cap outdated[q] # {}
  <2>1. PICK m \in {d} \union (r \ {target[q]}) : m \in outdated[q]
    BY <1>3
  <2>2. m \in outdated'[q]
    BY <2>1, OutdatedGrows
  <2> QED
    BY <2>1, <2>2 DEF Backed
<1> QED
  BY <1>1, <1>2, <1>3 DEF Backed

(* A step that leaves request q where it is.                                *)
LEMMA ChecksFramed ==
  ASSUME TypeOK, NEW q \in Requests, ChecksOf(q), Frame(q),
         outdated' = [p \in Requests |-> NextOutdated(p)]
  PROVE  ChecksOf(q)'
<1>1. CASE ~Checking(q)
  BY <1>1 DEF Checking, ChecksOf, Frame
<1>2. CASE Checking(q)
  <2>1. ASSUME NEW r, Covered(q, r)
        PROVE  Covered(q, r)'
    BY <1>2, <2>1, CoveredStays
  <2>2. ASSUME NEW d \in ActiveRows', NEW r, d \in ActiveRows => Backed(q, d, r)
        PROVE  Backed(q, d, r)'
    BY <1>2, <2>2, BackedStays DEF Frame
  <2>3. pc[q] = "act_check" =>
          \A r \in Requires[target[q]] \ todo[q] : Covered(q, r)'
    BY <2>1 DEF ChecksOf
  <2>4. pc[q] \in {"act_begin", "act_hook"} =>
          \A r \in Requires[target[q]] : Covered(q, r)'
    BY <2>1 DEF ChecksOf
  <2>5. pc[q] \in {"deact_hook", "deact_update"} =>
          \A d \in ActiveRows' \ {target[q]} : \A r \in Requires[d] :
            target[q] \in r => Backed(q, d, r)'
    BY <2>2 DEF ChecksOf
  <2> QED
    BY <2>3, <2>4, <2>5, Zenon DEF ChecksOf, Frame
<1> QED
  BY <1>1, <1>2

(* A step of request q itself.                                              *)
LEMMA ChecksOwnStep ==
  ASSUME TypeOK, NEW q \in Requests, ChecksOf(q), TakesStep(q),
         outdated' = [p \in Requests |-> NextOutdated(p)]
  PROVE  ChecksOf(q)'
<1> USE DEF TypeOK, Goto
<1>1. ASSUME ~Checking(q)'
      PROVE  ChecksOf(q)'
  BY <1>1 DEF Checking, ChecksOf
<1>2. ASSUME NEW m \in Modules, ActivateStart(q, m)
      PROVE  ChecksOf(q)'
  BY <1>2 DEF ActivateStart, ChecksOf
<1>3. CASE CheckRequirement(q)
  <2>1. PICK r \in todo[q] :
          \/ /\ todo' = [todo EXCEPT ![q] = @ \ {r}]
             /\ UNCHANGED <<pc, target, plan>>
             /\ Providers(r) \cap mirror # {}
          \/ Finish(q)
    BY <1>3, Zenon DEF CheckRequirement
  <2>2. pc[q] = "act_check" /\ row' = row
    BY <1>3 DEF CheckRequirement, database
  <2>3. CASE Finish(q)
    BY <1>1, <2>3 DEF Finish, Checking
  <2>4. CASE /\ todo' = [todo EXCEPT ![q] = @ \ {r}]
             /\ UNCHANGED <<pc, target, plan>>
             /\ Providers(r) \cap mirror # {}
    <3>1. Covered(q, r)'
      <4>1. PICK m \in r : m \in mirror
        BY <2>4 DEF Providers
      <4>2. m \in ActiveRows' \union outdated'[q]
        BY <2>2, <4>1, OutdatedGrows, ActiveUnchanged DEF Checking
      <4> QED
        BY <4>1, <4>2 DEF Covered
    <3>2. ASSUME NEW s \in Requires[target[q]] \ todo'[q]
          PROVE  Covered(q, s)'
      <4>1. todo'[q] = todo[q] \ {r}
        BY <2>4
      <4>2. CASE s \in todo[q]
        <5>1. s = r
          BY <3>2, <4>1, <4>2
        <5> QED
          BY <3>1, <5>1
      <4>3. CASE s \notin todo[q]
        <5>1. Covered(q, s)
          BY <2>2, <3>2, <4>3 DEF ChecksOf
        <5> QED
          BY <2>2, <5>1, CoveredStays DEF Checking
      <4> QED
        BY <4>2, <4>3
    <3>3. pc'[q] = "act_check" /\ target'[q] = target[q]
      BY <2>2, <2>4
    <3> QED
      BY <3>2, <3>3, Zenon DEF ChecksOf
  <2> QED
    BY <2>1, <2>3, <2>4
<1>4. CASE RequirementsMet(q) \/ WritePending(q)
  <2>1. /\ pc'[q] \in {"act_begin", "act_hook"} /\ target'[q] = target[q]
        /\ Checking(q)
        /\ \A r \in Requires[target[q]] : Covered(q, r)
    BY <1>4 DEF RequirementsMet, WritePending, ChecksOf, Checking
  <2>2. \A r \in Requires[target[q]] : Covered(q, r)'
    BY <2>1, CoveredStays
  <2> QED
    BY <2>1, <2>2 DEF ChecksOf
<1>5. CASE CheckActiveDependents(q)
  <2>1. /\ pc[q] = "deact_dependents" /\ row' = row
        /\ \/ Finish(q)
           \/ /\ ~Blocked(target[q])
              /\ Goto(q, "deact_hook") /\ UNCHANGED <<target, todo, plan>>
    BY <1>5, Zenon DEF CheckActiveDependents, database
  <2>2. CASE Finish(q)
    BY <1>1, <2>2 DEF Finish, Checking
  <2>3. CASE /\ ~Blocked(target[q])
             /\ Goto(q, "deact_hook") /\ UNCHANGED <<target, todo, plan>>
    <3>1. pc'[q] = "deact_hook" /\ target'[q] = target[q]
      BY <2>3
    <3>2. ASSUME NEW d \in ActiveRows \ {target[q]}, NEW r \in Requires[d],
                 target[q] \in r
          PROVE  (r \ {target[q]}) \cap ActiveRows # {}
      BY <2>3, <3>2 DEF Blocked, Providers
    <3>3. ActiveRows' = ActiveRows
      BY <2>1, ActiveUnchanged
    <3> QED
      BY <3>1, <3>2, <3>3 DEF ChecksOf, Backed
  <2> QED
    BY <2>1, <2>2, <2>3
<1>6. CASE DeactivationHook(q)
  <2>1. /\ pc[q] = "deact_hook" /\ target'[q] = target[q]
        /\ pc'[q] \in {"deact_update", "deact_fail"}
    BY <1>6 DEF DeactivationHook
  <2>2. ASSUME NEW d \in ActiveRows' \ {target[q]}, NEW r \in Requires[d],
               target[q] \in r
        PROVE  Backed(q, d, r)'
    <3>1. d \in ActiveRows => Backed(q, d, r)
      BY <2>1, <2>2 DEF ChecksOf
    <3> QED
      BY <2>1, <3>1, BackedStays DEF Checking
  <2> QED
    BY <2>1, <2>2, Zenon DEF ChecksOf
<1>7. CASE \/ CommitActivation(q) \/ ActivationHookFails(q)
           \/ RecordActivationFailure(q) \/ MarkActive(q)
           \/ CommitDeactivation(q) \/ RecordDeactivationFailure(q)
           \/ MarkInactive(q) \/ HydrateReplace(q)
           \/ DatabaseError(q) \/ CommitUnheard(q)
  <2>1. ~Checking(q)'
    BY <1>7 DEF CommitActivation, ActivationHookFails, RecordActivationFailure,
                MarkActive, CommitDeactivation, RecordDeactivationFailure,
                MarkInactive, HydrateReplace, DatabaseError, CommitUnheard,
                Finish, Checking
  <2> QED
    BY <1>1, <2>1
<1>8. CASE HydrateRead(q) \/ \E m \in Modules : DeactivateRead(q, m)
  <2>1. ~Checking(q)'
    BY <1>8 DEF HydrateRead, DeactivateRead, Checking
  <2> QED
    BY <1>1, <2>1
<1> QED
  BY <1>2, <1>3, <1>4, <1>5, <1>6, <1>7, <1>8 DEF TakesStep, Begin, Proceed

LEMMA ChecksNext ==
  ASSUME TypeOK, ChecksInv, [HNext]_hvars
  PROVE  ChecksInv'
<1>1. CASE UNCHANGED hvars
  BY <1>1 DEF hvars, vars, ChecksInv, ChecksOf, Covered, Backed, ActiveRows,
              IsActive
<1>2. CASE /\ Next
           /\ outdated' = [p \in Requests |-> NextOutdated(p)]
  <2> SUFFICES ASSUME NEW q \in Requests
               PROVE  ChecksOf(q)'
    BY DEF ChecksInv
  <2>1. ChecksOf(q)
    BY DEF ChecksInv
  <2>2. CASE TakesStep(q)
    BY <1>2, <2>1, <2>2, ChecksOwnStep
  <2>3. CASE \E p \in Requests \ {q} : TakesStep(p)
    BY <1>2, <2>1, <2>3, OthersUnchanged, ChecksFramed
  <2>4. CASE ComposeRuntime
    BY <1>2, <2>1, <2>4, ChecksFramed DEF ComposeRuntime, request, Frame
  <2>5. CASE Restart
    BY <2>5 DEF Restart, ChecksOf
  <2> QED
    BY <1>2, <2>2, <2>3, <2>4, <2>5 DEF Next, TakesStep
<1> QED
  BY <1>1, <1>2 DEF HNext

(* Overlapping requests, failing hooks and restarts leave an active module  *)
(* without an active provider only in the ways that ProvidersKept names:    *)
(* the checks allow nothing that the rows they were made of forbid.         *)
THEOREM ProvidersAreKept == HSpec => ProvidersKept
<1>1. HInit => ChecksInv
  BY DEF HInit, Init, ChecksInv, ChecksOf
<1>2. TypeOK /\ ChecksInv /\ [HNext]_hvars => [KeepsProviders]_hvars
  <2> SUFFICES ASSUME TypeOK, ChecksInv, [HNext]_hvars,
                      NEW d \in Modules, NEW r \in Requires[d],
                      Unprovided(d, r)', ~Unprovided(d, r)
               PROVE  \E q \in Requests :
                        /\ pc'[q] # pc[q]
                        /\ \/ /\ pc[q] = "act_hook" /\ target[q] = d
                              /\ r \cap outdated[q] # {}
                           \/ /\ pc[q] = "deact_update" /\ target[q] \in r
                              /\ ({d} \union (r \ {target[q]})) \cap outdated[q] # {}
                           \/ pc[q] = "act_fail" /\ target[q] \in r
    BY DEF KeepsProviders
  <2>1. /\ d \in ActiveRows' /\ r \cap ActiveRows' = {}
        /\ d \notin ActiveRows \/ r \cap ActiveRows # {}
    BY DEF Unprovided, ActiveRows
  <2>2. PICK q \in Requests : Commits(q)
    BY <2>1, HistorySteps, OnlyCommitsWrite, ActiveUnchanged
  <2>3. pc'[q] # pc[q] /\ ChecksOf(q)
    BY <2>2, CommitEffect DEF ChecksInv
  <2>4. CASE /\ pc[q] = "act_hook"
             /\ ActiveRows' = ActiveRows \union {target[q]}
    <3>1. d = target[q] /\ r \cap ActiveRows = {}
      BY <2>1, <2>4
    <3>2. Covered(q, r)
      BY <2>3, <2>4, <3>1 DEF ChecksOf
    <3>3. r \cap outdated[q] # {}
      BY <3>1, <3>2 DEF Covered
    <3> QED
      BY <2>3, <2>4, <3>1, <3>3
  <2>5. CASE /\ pc[q] \in {"deact_update", "act_fail"}
             /\ ActiveRows' = ActiveRows \ {target[q]}
    <3>1. /\ d \in ActiveRows \ {target[q]} /\ target[q] \in r
          /\ (r \ {target[q]}) \cap ActiveRows = {}
      BY <2>1, <2>5
    <3>2. pc[q] = "deact_update" => Backed(q, d, r)
      BY <2>3, <3>1 DEF ChecksOf
    <3> QED
      BY <2>3, <2>5, <3>1, <3>2 DEF Backed
  <2> QED
    BY <2>1, <2>2, <2>4, <2>5, CommitEffect
<1> QED
  BY <1>1, <1>2, ChecksNext, HistoryTypes, PTL DEF HSpec, ProvidersKept
-----------------------------------------------------------------------------
(* MirrorCovers is not inductive: what the requests are about to do to the  *)
(* entry of a module that is not stale agrees with its row, and an entry    *)
(* that is wrong for the moment is about to be corrected.                   *)
MarkDue(s, m) == \E p \in Requests : pc[p] = s /\ target[p] = m

Entry(m) ==
  /\ IsActive(m) => \A p \in Requests : ~WillRemove(p, m)
  /\ (\E p \in Requests : WillAdd(p, m)) => MayShow(m)
  /\ hydrated => /\ IsActive(m) => m \in mirror \/ MarkDue("act_mark", m)
                 /\ m \in mirror => MayShow(m) \/ MarkDue("deact_mark", m)

EntriesInv ==
  /\ host = "starting" => ~hydrated /\ \A q \in Requests : pc[q] = "idle"
  /\ \A m \in Modules \ stale : Entry(m)

(* A step after which no request has more to do to the entry of m, nor      *)
(* less to mark, and which leaves row and entry alone.                      *)
LEMMA EntryUntouched ==
  ASSUME NEW m \in Modules, Entry(m), row'[m] = row[m], hydrated' = hydrated,
         (m \in mirror') <=> (m \in mirror),
         \A p \in Requests : /\ WillRemove(p, m)' => WillRemove(p, m)
                             /\ WillAdd(p, m)' => WillAdd(p, m)
                             /\ pc[p] \in {"act_mark", "deact_mark"}
                                  /\ target[p] = m =>
                                  pc'[p] = pc[p] /\ target'[p] = m
  PROVE  Entry(m)'
<1>1. (IsActive(m)' <=> IsActive(m)) /\ (MayShow(m)' <=> MayShow(m))
  BY DEF IsActive, MayShow
<1>2. /\ MarkDue("act_mark", m) => MarkDue("act_mark", m)'
      /\ MarkDue("deact_mark", m) => MarkDue("deact_mark", m)'
  BY DEF MarkDue
<1>3. (\E p \in Requests : WillAdd(p, m)') => \E p \in Requests : WillAdd(p, m)
  OBVIOUS
<1> HIDE DEF IsActive, MayShow, WillAdd, WillRemove, MarkDue
<1> QED
  BY <1>1, <1>2, <1>3 DEF Entry

LEMMA WillsFramed ==
  ASSUME NEW p \in Requests, NEW m \in Modules, Frame(p)
  PROVE  /\ WillRemove(p, m)' <=> WillRemove(p, m)
         /\ WillAdd(p, m)' <=> WillAdd(p, m)
  BY DEF Frame, WillRemove, WillAdd

(* A step of request q that has nothing to do with the entry of m.          *)
ConcernsEntry(q, m) ==
  \/ pc[q] = "hydrate_replace"
  \/ pc[q] \in {"act_mark", "deact_mark"} /\ target[q] = m

LEMMA EntryApart ==
  ASSUME TypeOK, NEW m \in Modules, Entry(m),
         NEW q \in Requests, TakesStep(q),
         row'[m] = row[m], hydrated' = hydrated,
         (m \in mirror') <=> (m \in mirror),
         ~ConcernsEntry(q, m), ~ConcernsEntry(q, m)'
  PROVE  Entry(m)'
<1> SUFFICES ASSUME NEW p \in Requests
             PROVE  /\ WillRemove(p, m)' => WillRemove(p, m)
                    /\ WillAdd(p, m)' => WillAdd(p, m)
                    /\ pc[p] \in {"act_mark", "deact_mark"}
                         /\ target[p] = m =>
                         pc'[p] = pc[p] /\ target'[p] = m
  BY EntryUntouched
<1>1. CASE p = q
  BY <1>1 DEF ConcernsEntry, WillRemove, WillAdd
<1>2. CASE p # q
  BY <1>2, OthersUnchanged, WillsFramed DEF Frame
<1> QED
  BY <1>1, <1>2

(* What the others do stays the same.                                       *)
LEMMA OthersWill ==
  ASSUME TypeOK, NEW m \in Modules, NEW q \in Requests, TakesStep(q)
  PROVE  \A p \in Requests \ {q} :
           /\ WillRemove(p, m)' <=> WillRemove(p, m)
           /\ WillAdd(p, m)' <=> WillAdd(p, m)
  BY OthersUnchanged, WillsFramed

(* The commit of q makes m active, and q is about to add it.                *)
LEMMA EntryOfActivated ==
  ASSUME TypeOK, NEW m \in Modules, Entry(m), ~Overtakes(m),
         NEW q \in Requests, CommitActivation(q), target[q] = m
  PROVE  Entry(m)'
<1>1. /\ row'[m] = ActiveRow /\ mirror' = mirror /\ hydrated' = hydrated
      /\ pc[q] = "act_hook" /\ pc'[q] = "act_mark" /\ target'[q] = m
      /\ TakesStep(q)
  BY DEF CommitActivation, Record, Goto, process, TypeOK, TakesStep, Proceed
<1>2. IsActive(m)' /\ MayShow(m)'
  BY <1>1 DEF IsActive, MayShow, ActiveRow
<1>3. ASSUME NEW p \in Requests
      PROVE  ~WillRemove(p, m)
  <2>1. CASE row'[m] = row[m]
    <3>1. IsActive(m)
      BY <1>2, <2>1 DEF IsActive
    <3> QED
      BY <3>1 DEF Entry
  <2>2. CASE row'[m] # row[m]
    BY <1>2, <2>2, Zenon DEF Overtakes
  <2> QED
    BY <2>1, <2>2
<1>4. ASSUME NEW p \in Requests
      PROVE  ~WillRemove(p, m)'
  <2>1. CASE p = q
    BY <1>1, <2>1 DEF WillRemove
  <2>2. CASE p # q
    BY <1>1, <1>3, <2>2, OthersWill
  <2> QED
    BY <2>1, <2>2
<1>5. MarkDue("act_mark", m)'
  BY <1>1 DEF MarkDue
<1> QED
  BY <1>2, <1>4, <1>5, Zenon DEF Entry

(* The commit of q disables m, and q is about to remove it.                 *)
LEMMA EntryOfDeactivated ==
  ASSUME TypeOK, NEW m \in Modules, Entry(m), ~Overtakes(m),
         NEW q \in Requests, CommitDeactivation(q), target[q] = m
  PROVE  Entry(m)'
<1>1. /\ row'[m] = DisabledRow /\ mirror' = mirror /\ hydrated' = hydrated
      /\ pc[q] = "deact_update" /\ pc'[q] = "deact_mark" /\ target'[q] = m
      /\ TakesStep(q)
  BY DEF CommitDeactivation, Record, Goto, process, TypeOK, TakesStep, Proceed
<1>2. row'[m].status = "disabled" /\ ~IsActive(m)' /\ ~MayShow(m)'
  BY <1>1 DEF IsActive, MayShow, DisabledRow
<1>3. ASSUME NEW p \in Requests
      PROVE  ~WillAdd(p, m)
  <2>1. CASE row'[m] = row[m]
    <3>1. ~MayShow(m)
      BY <1>2, <2>1 DEF MayShow, IsActive
    <3> QED
      BY <3>1 DEF Entry
  <2>2. CASE row'[m] # row[m]
    BY <1>2, <2>2, Zenon DEF Overtakes
  <2> QED
    BY <2>1, <2>2
<1>4. ASSUME NEW p \in Requests
      PROVE  ~WillAdd(p, m)'
  <2>1. CASE p = q
    BY <1>1, <2>1 DEF WillAdd
  <2>2. CASE p # q
    BY <1>1, <1>3, <2>2, OthersWill
  <2> QED
    BY <2>1, <2>2
<1>5. MarkDue("deact_mark", m)'
  BY <1>1 DEF MarkDue
<1> QED
  BY <1>2, <1>4, <1>5, Zenon DEF Entry

(* The failed activation of m: the entry may stay or come.                  *)
LEMMA EntryOfFailed ==
  ASSUME TypeOK, NEW m \in Modules, Entry(m),
         NEW q \in Requests, RecordActivationFailure(q), target[q] = m
  PROVE  Entry(m)'
<1>1. row'[m] = FailedRow
  BY DEF RecordActivationFailure, Record, TypeOK
<1>2. ~IsActive(m)' /\ MayShow(m)'
  BY <1>1 DEF IsActive, MayShow, FailedRow
<1> QED
  BY <1>2, Zenon DEF Entry

(* The failed deactivation of m: it stays active.                           *)
LEMMA EntryOfFailedDeactivation ==
  ASSUME TypeOK, NEW m \in Modules, Entry(m),
         NEW q \in Requests, RecordDeactivationFailure(q)
  PROVE  Entry(m)'
<1>1. /\ pc[q] = "deact_fail" /\ pc'[q] = "idle" /\ TakesStep(q)
      /\ mirror' = mirror /\ hydrated' = hydrated
  BY DEF RecordDeactivationFailure, Finish, Goto, process, TypeOK, TakesStep, Proceed
<1>2. (IsActive(m)' <=> IsActive(m)) /\ (MayShow(m)' <=> MayShow(m))
  <2>1. CASE ~IsActive(target[q])
    BY <2>1, Zenon DEF RecordDeactivationFailure, IsActive, MayShow
  <2>2. CASE IsActive(target[q])
    <3>1. /\ row' = [row EXCEPT ![target[q]] = [row[target[q]] EXCEPT !.reason = TRUE]]
      BY <2>2, Zenon DEF RecordDeactivationFailure, Record
    <3>2. row[m] \in Row
      BY DEF TypeOK
    <3>3. /\ row'[m].status = row[m].status
          /\ row'[m].enabled = row[m].enabled
      BY <3>1, <3>2 DEF TypeOK, Row
    <3> QED
      BY <3>3 DEF IsActive, MayShow
  <2> QED
    BY <2>1, <2>2
<1>3. ASSUME NEW p \in Requests
      PROVE  /\ WillRemove(p, m)' <=> WillRemove(p, m)
             /\ WillAdd(p, m)' <=> WillAdd(p, m)
             /\ pc[p] \in {"act_mark", "deact_mark"} => Frame(p)
  <2>1. CASE p = q
    BY <1>1, <2>1 DEF WillRemove, WillAdd
  <2>2. CASE p # q
    BY <1>1, <2>2, OthersUnchanged, OthersWill
  <2> QED
    BY <2>1, <2>2
<1>4. /\ MarkDue("act_mark", m) => MarkDue("act_mark", m)'
      /\ MarkDue("deact_mark", m) => MarkDue("deact_mark", m)'
  BY <1>3 DEF MarkDue, Frame
<1>5. (\E p \in Requests : WillAdd(p, m)') => \E p \in Requests : WillAdd(p, m)
  BY <1>3
<1> QED
  BY <1>1, <1>2, <1>3, <1>4, <1>5, Zenon DEF Entry

(* The marks themselves.                                                    *)
LEMMA EntryMarked ==
  ASSUME TypeOK, NEW m \in Modules, Entry(m),
         NEW q \in Requests, MarkActive(q) \/ MarkInactive(q), target[q] = m
  PROVE  Entry(m)'
<1>1. /\ row' = row /\ hydrated' = hydrated /\ pc'[q] = "idle" /\ TakesStep(q)
  BY DEF MarkActive, MarkInactive, Finish, Goto, database, TypeOK, TakesStep, Proceed
<1>2. (IsActive(m)' <=> IsActive(m)) /\ (MayShow(m)' <=> MayShow(m))
  BY <1>1 DEF IsActive, MayShow
<1>3. ASSUME NEW p \in Requests
      PROVE  /\ WillRemove(p, m)' => WillRemove(p, m)
             /\ WillAdd(p, m)' => WillAdd(p, m)
  <2>1. CASE p = q
    BY <1>1, <2>1 DEF WillRemove, WillAdd
  <2>2. CASE p # q
    BY <1>1, <2>2, OthersWill
  <2> QED
    BY <2>1, <2>2
<1>4. /\ IsActive(m)' => \A p \in Requests : ~WillRemove(p, m)'
      /\ (\E p \in Requests : WillAdd(p, m)') => MayShow(m)'
  BY <1>2, <1>3 DEF Entry
<1>5. CASE MarkActive(q)
  <2>1. m \in mirror' /\ WillAdd(q, m)
    BY <1>5 DEF MarkActive, WillAdd
  <2>2. MayShow(m)'
    BY <1>2, <2>1 DEF Entry
  <2> QED
    BY <1>4, <2>1, <2>2, Zenon DEF Entry
<1>6. CASE MarkInactive(q)
  <2>1. m \notin mirror' /\ WillRemove(q, m)
    BY <1>6 DEF MarkInactive, WillRemove
  <2>2. ~IsActive(m)'
    BY <1>2, <2>1 DEF Entry
  <2> QED
    BY <1>4, <2>1, <2>2, Zenon DEF Entry
<1> QED
  BY <1>5, <1>6

(* A hydration plans the active rows, or a deactivation of a disabled row   *)
(* is about to mark it.                                                     *)
LEMMA EntryRead ==
  ASSUME TypeOK, NEW m \in Modules, Entry(m), NEW q \in Requests,
         HydrateRead(q) \/ DeactivateRead(q, m)
  PROVE  Entry(m)'
<1>1. /\ row' = row /\ mirror' = mirror /\ hydrated' = hydrated
      /\ pc[q] = "idle" /\ TakesStep(q)
  BY DEF HydrateRead, DeactivateRead, database, process, TakesStep, Begin
<1>2. (IsActive(m)' <=> IsActive(m)) /\ (MayShow(m)' <=> MayShow(m))
  BY <1>1 DEF IsActive, MayShow
<1>3. /\ WillRemove(q, m)' => ~IsActive(m)
      /\ WillAdd(q, m)' => MayShow(m)
  <2>1. CASE HydrateRead(q)
    <3>1. /\ pc'[q] \in {"hydrate_replace", "hydrate_clear"}
          /\ pc'[q] = "hydrate_replace" => plan'[q] = ActiveRows
      BY <2>1 DEF HydrateRead, Goto, TypeOK
    <3> QED
      BY <3>1 DEF WillRemove, WillAdd, ActiveRows, MayShow
  <2>2. CASE DeactivateRead(q, m)
    <3>1. /\ pc'[q] \in {"deact_mark", "deact_dependents"}
          /\ pc'[q] = "deact_mark" => row[m].status = "disabled"
      BY <2>2 DEF DeactivateRead, Goto, TypeOK
    <3> QED
      BY <3>1 DEF WillRemove, WillAdd, IsActive
  <2> QED
    BY <2>1, <2>2
<1>4. ASSUME NEW p \in Requests
      PROVE  /\ IsActive(m) => ~WillRemove(p, m)'
             /\ WillAdd(p, m)' => MayShow(m)
  <2>1. CASE p = q
    BY <1>3, <2>1
  <2>2. CASE p # q
    BY <1>1, <2>2, OthersWill DEF Entry
  <2> QED
    BY <2>1, <2>2
<1>5. ASSUME NEW p \in Requests, pc[p] \in {"act_mark", "deact_mark"}
      PROVE  Frame(p)
  BY <1>1, <1>5, OthersUnchanged
<1>6. /\ MarkDue("act_mark", m) => MarkDue("act_mark", m)'
      /\ MarkDue("deact_mark", m) => MarkDue("deact_mark", m)'
  BY <1>5 DEF MarkDue, Frame
<1> QED
  BY <1>1, <1>2, <1>4, <1>6, Zenon DEF Entry

(* A hydration installs its plan, or clears the mirror.                     *)
LEMMA EntryReplaced ==
  ASSUME TypeOK, NEW m \in Modules, Entry(m), NEW q \in Requests,
         HydrateReplace(q)
  PROVE  Entry(m)'
<1>1. row' = row /\ pc'[q] = "idle" /\ TakesStep(q)
  BY DEF HydrateReplace, Finish, Goto, database, TypeOK, TakesStep, Proceed
<1>2. (IsActive(m)' <=> IsActive(m)) /\ (MayShow(m)' <=> MayShow(m))
  BY <1>1 DEF IsActive, MayShow
<1>3. ASSUME NEW p \in Requests
      PROVE  /\ WillRemove(p, m)' => WillRemove(p, m)
             /\ WillAdd(p, m)' => WillAdd(p, m)
  <2>1. CASE p = q
    BY <1>1, <2>1 DEF WillRemove, WillAdd
  <2>2. CASE p # q
    BY <1>1, <2>2, OthersWill
  <2> QED
    BY <2>1, <2>2
<1>4. /\ IsActive(m)' => \A p \in Requests : ~WillRemove(p, m)'
      /\ (\E p \in Requests : WillAdd(p, m)') => MayShow(m)'
  BY <1>2, <1>3 DEF Entry
<1>5. CASE pc[q] = "hydrate_replace"
  <2>1. mirror' = plan[q]
    BY <1>5 DEF HydrateReplace
  <2>2. /\ IsActive(m) => m \in mirror'
        /\ m \in mirror' => MayShow(m)
    BY <1>5, <2>1 DEF Entry, WillRemove, WillAdd
  <2> QED
    BY <1>2, <1>4, <2>2, Zenon DEF Entry
<1>6. CASE pc[q] # "hydrate_replace"
  <2>1. ~hydrated'
    BY <1>6 DEF HydrateReplace
  <2> QED
    BY <1>4, <2>1, Zenon DEF Entry
<1> QED
  BY <1>5, <1>6

(* The commit of q is not heard of: it changed nothing, or it overtakes.    *)
LEMMA EntryUnheard ==
  ASSUME TypeOK, NEW m \in Modules, Entry(m), ~Overtakes(m),
         NEW q \in Requests, CommitUnheard(q)
  PROVE  Entry(m)'
<1>1. /\ mirror' = mirror /\ hydrated' = hydrated
      /\ pc[q] \in {"act_hook", "deact_update"} /\ pc'[q] = "idle"
      /\ TakesStep(q)
      /\ \A n \in Modules \ {target[q]} : row'[n] = row[n]
  BY DEF CommitUnheard, Record, Finish, Goto, process, TypeOK, TakesStep
<1>2. row'[m] = row[m]
  BY <1>1, Zenon DEF Overtakes
<1>3. ~ConcernsEntry(q, m) /\ ~ConcernsEntry(q, m)'
  BY <1>1 DEF ConcernsEntry
<1> QED
  BY <1>1, <1>2, <1>3, EntryApart

(* The steps that change neither the row of m nor its entry.                *)
LEMMA EntryOfOthers ==
  ASSUME TypeOK, NEW m \in Modules, Entry(m), NEW q \in Requests,
         TakesStep(q), ~CommitUnheard(q),
         ~RecordDeactivationFailure(q), ~HydrateRead(q), ~HydrateReplace(q),
         ~DeactivateRead(q, m),
         target[q] = m => /\ ~CommitActivation(q) /\ ~CommitDeactivation(q)
                          /\ ~RecordActivationFailure(q)
                          /\ ~MarkActive(q) /\ ~MarkInactive(q)
  PROVE  Entry(m)'
<1> USE DEF TypeOK, Goto
<1>1. ASSUME NEW n \in Modules, ActivateStart(q, n) \/ (DeactivateRead(q, n) /\ n # m)
      PROVE  Entry(m)'
  <2>1. /\ row' = row /\ mirror' = mirror /\ hydrated' = hydrated
        /\ pc[q] = "idle" /\ pc'[q] \in {"act_check", "deact_mark", "deact_dependents"}
        /\ pc'[q] = "deact_mark" => target'[q] # m
    BY <1>1 DEF ActivateStart, DeactivateRead, database, process
  <2>2. ~ConcernsEntry(q, m) /\ ~ConcernsEntry(q, m)'
    BY <2>1 DEF ConcernsEntry
  <2> QED
    BY <2>1, <2>2, EntryApart
<1>2. CASE CheckRequirement(q) \/ CheckActiveDependents(q)
  <2>1. /\ row' = row /\ mirror' = mirror /\ hydrated' = hydrated
        /\ pc[q] \in {"act_check", "deact_dependents"}
        /\ Finish(q) \/ Goto(q, "deact_hook") \/ pc' = pc
    BY <1>2, Zenon DEF CheckRequirement, CheckActiveDependents, database, process
  <2>2. ~ConcernsEntry(q, m) /\ ~ConcernsEntry(q, m)'
    BY <2>1 DEF ConcernsEntry, Finish
  <2> QED
    BY <2>1, <2>2, EntryApart
<1>3. CASE RequirementsMet(q) \/ WritePending(q) \/ ActivationHookFails(q)
           \/ DeactivationHook(q) \/ DatabaseError(q)
  <2>1. /\ row' = row /\ mirror' = mirror /\ hydrated' = hydrated
        /\ pc[q] \notin {"act_mark", "deact_mark", "hydrate_replace"}
        /\ pc'[q] \notin {"act_mark", "deact_mark", "hydrate_replace"}
    BY <1>3 DEF RequirementsMet, WritePending, ActivationHookFails,
                DeactivationHook, DatabaseError, Finish, database, process
  <2>2. ~ConcernsEntry(q, m) /\ ~ConcernsEntry(q, m)'
    BY <2>1 DEF ConcernsEntry
  <2> QED
    BY <2>1, <2>2, EntryApart
<1>4. CASE CommitActivation(q) \/ CommitDeactivation(q) \/ RecordActivationFailure(q)
  <2>1. /\ target[q] # m /\ row'[m] = row[m]
        /\ mirror' = mirror /\ hydrated' = hydrated
        /\ pc[q] \in {"act_hook", "deact_update", "act_fail"}
        /\ pc'[q] = "idle" \/ target'[q] = target[q]
        /\ pc'[q] # "hydrate_replace"
    BY <1>4 DEF CommitActivation, CommitDeactivation, RecordActivationFailure,
                Record, Finish, process
  <2>2. ~ConcernsEntry(q, m) /\ ~ConcernsEntry(q, m)'
    BY <2>1 DEF ConcernsEntry
  <2> QED
    BY <1>4, <2>1, <2>2, EntryApart
<1>5. CASE MarkActive(q) \/ MarkInactive(q)
  <2>1. /\ target[q] # m /\ row' = row /\ hydrated' = hydrated
        /\ (m \in mirror') <=> (m \in mirror)
        /\ pc[q] \in {"act_mark", "deact_mark"} /\ pc'[q] = "idle"
    BY <1>5 DEF MarkActive, MarkInactive, Finish, database
  <2>2. ~ConcernsEntry(q, m) /\ ~ConcernsEntry(q, m)'
    BY <2>1 DEF ConcernsEntry
  <2> QED
    BY <2>1, <2>2, EntryApart
<1> QED
  BY <1>1, <1>2, <1>3, <1>4, <1>5, Zenon DEF TakesStep, Begin, Proceed

LEMMA EntryNext ==
  ASSUME TypeOK, NEW m \in Modules, Entry(m), ~Overtakes(m), Next
  PROVE  Entry(m)'
<1>1. ASSUME NEW q \in Requests, TakesStep(q)
      PROVE  Entry(m)'
  BY <1>1, EntryOfOthers, EntryUnheard, EntryOfFailedDeactivation, EntryRead,
     EntryReplaced, EntryMarked, EntryOfFailed, EntryOfActivated,
     EntryOfDeactivated, Zenon
<1>2. CASE ComposeRuntime
  <2>1. /\ row' = row /\ pc' = pc /\ target' = target /\ plan' = plan
        /\ mirror' = ActiveRows \/ (mirror' = mirror /\ hydrated' = hydrated)
    BY <1>2 DEF ComposeRuntime, database, request
  <2>2. (IsActive(m)' <=> IsActive(m)) /\ (MayShow(m)' <=> MayShow(m))
    BY <2>1 DEF IsActive, MayShow
  <2>3. /\ \A p \in Requests : /\ WillRemove(p, m)' <=> WillRemove(p, m)
                               /\ WillAdd(p, m)' <=> WillAdd(p, m)
        /\ \A s \in Steps : MarkDue(s, m)' <=> MarkDue(s, m)
    BY <2>1 DEF WillRemove, WillAdd, MarkDue
  <2>4. m \in ActiveRows <=> IsActive(m)
    BY DEF ActiveRows
  <2> QED
    BY <2>1, <2>2, <2>3, <2>4 DEF Entry, MayShow, Steps
<1>3. CASE Restart
  <2>1. /\ ~hydrated'
        /\ \A p \in Requests : ~WillRemove(p, m)' /\ ~WillAdd(p, m)'
    BY <1>3 DEF Restart, WillRemove, WillAdd
  <2> QED
    BY <2>1, Zenon DEF Entry
<1> QED
  BY <1>1, <1>2, <1>3 DEF Next, TakesStep

LEMMA StartsIdle ==
  ASSUME TypeOK, host = "starting" => ~hydrated /\ \A q \in Requests : pc[q] = "idle",
         [Next]_vars, host' = "starting"
  PROVE  ~hydrated' /\ \A q \in Requests : pc'[q] = "idle"
<1>1. CASE Restart
  BY <1>1 DEF Restart
<1>2. CASE UNCHANGED vars
  BY <1>2 DEF vars
<1>3. CASE ComposeRuntime
  BY <1>3 DEF ComposeRuntime
<1>4. ASSUME NEW q \in Requests, TakesStep(q)
      PROVE  FALSE
  <2>1. host = "starting"
    BY <1>4 DEF TakesStep, Begin, Proceed, process, ActivateStart,
       CheckRequirement, RequirementsMet, WritePending, CommitActivation,
       ActivationHookFails, RecordActivationFailure, MarkActive, DeactivateRead,
       CheckActiveDependents, DeactivationHook, CommitDeactivation,
       RecordDeactivationFailure, MarkInactive, HydrateRead, HydrateReplace,
       DatabaseError, CommitUnheard
  <2>2. pc[q] = "idle"
    BY <2>1
  <2> QED
    BY <1>4, <2>1, <2>2 DEF TakesStep, Begin, Proceed, ActivateStart,
       CheckRequirement, RequirementsMet, WritePending, CommitActivation,
       ActivationHookFails, RecordActivationFailure, MarkActive, DeactivateRead,
       CheckActiveDependents, DeactivationHook, CommitDeactivation,
       RecordDeactivationFailure, MarkInactive, HydrateRead, HydrateReplace,
       DatabaseError, CommitUnheard
<1> QED
  BY <1>1, <1>2, <1>3, <1>4 DEF Next, TakesStep

LEMMA EntriesNext ==
  ASSUME TypeOK, EntriesInv, [HNext]_hvars
  PROVE  EntriesInv'
<1>1. host' = "starting" => ~hydrated' /\ \A q \in Requests : pc'[q] = "idle"
  BY HistorySteps, StartsIdle DEF EntriesInv
<1>2. CASE UNCHANGED hvars
  BY <1>2 DEF hvars, vars, EntriesInv, Entry, MarkDue, WillRemove, WillAdd,
              MayShow, IsActive
<1>3. CASE Next /\ stale' = NextStale
  <2>1. ASSUME NEW m \in Modules, m \notin stale'
        PROVE  Entry(m)'
    <3>1. CASE host' = "starting"
      BY <1>1, <3>1 DEF Entry, WillRemove, WillAdd
    <3>2. CASE host' # "starting"
      <4>1. Right(m)' \/ (m \notin stale /\ ~Overtakes(m))
        BY <1>3, <2>1, <3>2, Zenon DEF NextStale
      <4>2. CASE Right(m)'
        BY <4>2 DEF Right, Entry
      <4>3. CASE m \notin stale /\ ~Overtakes(m)
        BY <1>3, <4>3, EntryNext DEF EntriesInv
      <4> QED
        BY <4>1, <4>2, <4>3
    <3> QED
      BY <3>1, <3>2
  <2> QED
    BY <1>1, <2>1 DEF EntriesInv
<1> QED
  BY <1>2, <1>3 DEF HNext

(* Whatever overlaps, fails or restarts, the mirror of a process at rest    *)
(* that was hydrated differs from the rows only in modules whose changes    *)
(* overtook each other, or whose COMMIT was not heard of, and in failed     *)
(* repeated activations.                                                    *)
THEOREM MirrorIsCovered == HSpec => []MirrorCovers
<1>1. HInit => EntriesInv
  BY DEF HInit, Init, EntriesInv, Entry, WillRemove, WillAdd
<1>2. EntriesInv => MirrorCovers
  <2> SUFFICES ASSUME EntriesInv, Quiescent, hydrated, NEW m \in Modules \ stale
               PROVE  /\ IsActive(m) => m \in mirror
                      /\ m \in mirror => MayShow(m)
    BY DEF MirrorCovers
  <2>1. Entry(m) /\ ~MarkDue("act_mark", m) /\ ~MarkDue("deact_mark", m)
    BY DEF EntriesInv, Quiescent, MarkDue
  <2> QED
    BY <2>1 DEF Entry
<1> QED
  BY <1>1, <1>2, EntriesNext, HistoryTypes, PTL DEF HSpec
-----------------------------------------------------------------------------
(* The row locks.  The only transaction that holds one while the code runs  *)
(* elsewhere is that of an activation, whose hook is awaited between the    *)
(* upsert of the pending row and COMMIT; every other statement that needs   *)
(* the row commits in the step that gets it.                                *)
LocksHeld ==
  /\ \A m \in Modules :
       lock[m] # NoRequest =>
         lock[m] \in Requests /\ pc[lock[m]] = "act_hook" /\ target[lock[m]] = m
  /\ \A q \in Requests : pc[q] = "act_hook" => lock[target[q]] = q

(* The steps that wait for the row's lock.                                  *)
WaitsForRow(q) == pc[q] \in {"act_begin", "act_fail", "deact_update", "deact_fail"}

NobodyHoldsWhileWaiting ==
  /\ \A p, q \in Requests :
       pc[p] = "act_hook" /\ pc[q] = "act_hook" /\ target[p] = target[q] => p = q
  /\ \A q \in Requests : WaitsForRow(q) =>
       /\ \A m \in Modules : lock[m] # q
       /\ \/ lock[target[q]] = NoRequest
          \/ pc[lock[target[q]]] = "act_hook"

(* A step that neither takes nor gives back a lock and leaves the requests  *)
(* inside a hook alone.                                                     *)
LEMMA LocksUntouched ==
  ASSUME TypeOK, LocksHeld, lock' = lock,
         \A q \in Requests : /\ pc[q] = "act_hook" =>
                                  pc'[q] = "act_hook" /\ target'[q] = target[q]
                             /\ pc'[q] = "act_hook" =>
                                  pc[q] = "act_hook" /\ target'[q] = target[q]
  PROVE  LocksHeld'
BY DEF LocksHeld

(* A step of a request that is not in a hook before or after it.            *)
LEMMA LocksOutsideHook ==
  ASSUME TypeOK, LocksHeld, NEW p \in Requests,
         TakesStep(p),
         lock' = lock, pc[p] # "act_hook", pc'[p] # "act_hook"
  PROVE  LocksHeld'
<1>1. ASSUME NEW q \in Requests, q # p
      PROVE  pc'[q] = pc[q] /\ target'[q] = target[q]
  BY <1>1, OthersUnchanged DEF Frame
<1> QED
  BY <1>1, LocksUntouched

(* A step that gives back every lock of p, which leaves the hook if it was  *)
(* inside one.                                                              *)
LEMMA LocksReleased ==
  ASSUME TypeOK, LocksHeld, NEW p \in Requests,
         TakesStep(p), pc'[p] # "act_hook",
         \A m \in Modules : lock'[m] = IF lock[m] = p THEN NoRequest ELSE lock[m]
  PROVE  LocksHeld'
<1>1. ASSUME NEW q \in Requests, q # p
      PROVE  pc'[q] = pc[q] /\ target'[q] = target[q]
  BY <1>1, OthersUnchanged DEF Frame
<1>2. ASSUME NEW m \in Modules, lock'[m] # NoRequest
      PROVE  lock'[m] \in Requests /\ pc'[lock'[m]] = "act_hook" /\ target'[lock'[m]] = m
  BY <1>1, <1>2 DEF LocksHeld
<1>3. ASSUME NEW q \in Requests, pc'[q] = "act_hook"
      PROVE  lock'[target'[q]] = q
  <2>1. q # p /\ pc[q] = "act_hook" /\ target'[q] = target[q]
    BY <1>1, <1>3
  <2>2. target[q] \in Modules /\ lock[target[q]] = q
    BY <2>1 DEF TypeOK, LocksHeld
  <2> QED
    BY <2>1, <2>2
<1> QED
  BY <1>2, <1>3 DEF LocksHeld

(* The transaction of p takes the lock of its row.                          *)
LEMMA LockTaken ==
  ASSUME TypeOK, LocksHeld, NEW p \in Requests, WritePending(p)
  PROVE  LocksHeld'
<1> DEFINE t == target[p]
<1>1. /\ t \in Modules /\ lock[t] = NoRequest /\ pc[p] = "act_begin"
      /\ lock' = [lock EXCEPT ![t] = p]
      /\ pc' = [pc EXCEPT ![p] = "act_hook"] /\ target' = target
  BY DEF WritePending, Goto, TypeOK
<1> HIDE DEF t
<1>2. pc'[p] = "act_hook" /\ \A q \in Requests \ {p} : pc'[q] = pc[q]
  BY <1>1 DEF TypeOK
<1>3. lock'[t] = p /\ \A m \in Modules \ {t} : lock'[m] = lock[m]
  BY <1>1 DEF TypeOK
<1>4. ASSUME NEW m \in Modules, lock'[m] # NoRequest
      PROVE  lock'[m] \in Requests /\ pc'[lock'[m]] = "act_hook" /\ target'[lock'[m]] = m
  <2>1. CASE m = t
    BY <2>1, <1>1, <1>2, <1>3 DEF t
  <2>2. CASE m # t
    BY <2>2, <1>1, <1>2, <1>3, <1>4 DEF LocksHeld
  <2> QED
    BY <2>1, <2>2
<1>5. ASSUME NEW q \in Requests, pc'[q] = "act_hook"
      PROVE  lock'[target'[q]] = q
  <2>1. CASE q = p
    BY <2>1, <1>1, <1>3 DEF t
  <2>2. CASE q # p
    <3>1. pc[q] = "act_hook" /\ target[q] \in Modules /\ lock[target[q]] = q
      BY <2>2, <1>2, <1>5 DEF TypeOK, LocksHeld
    <3> QED
      BY <3>1, <1>1, <1>3
  <2> QED
    BY <2>1, <2>2
<1> QED
  BY <1>4, <1>5 DEF LocksHeld

LEMMA LocksHeldNext == TypeOK /\ LocksHeld /\ [Next]_vars => LocksHeld'
<1> SUFFICES ASSUME TypeOK, LocksHeld, [Next]_vars
             PROVE  LocksHeld'
  OBVIOUS
<1>1. ASSUME NEW p \in Requests, NEW m \in Modules,
             ActivateStart(p, m) \/ DeactivateRead(p, m)
      PROVE  LocksHeld'
  <2>1. lock' = lock /\ pc[p] # "act_hook" /\ pc'[p] # "act_hook"
    BY <1>1 DEF ActivateStart, DeactivateRead, Goto, database, TypeOK
  <2> QED
    BY <1>1, <2>1, LocksOutsideHook DEF TakesStep, Begin
<1>2. ASSUME NEW p \in Requests, CheckRequirement(p) \/ CheckActiveDependents(p)
      PROVE  LocksHeld'
  <2>1. /\ lock' = lock /\ pc[p] \notin {"act_hook"}
        /\ Finish(p) \/ Goto(p, "deact_hook") \/ pc' = pc
    BY <1>2, Zenon DEF CheckRequirement, CheckActiveDependents, database
  <2>2. pc'[p] # "act_hook"
    BY <2>1 DEF Finish, Goto, TypeOK
  <2> QED
    BY <1>2, <2>1, <2>2, LocksOutsideHook DEF TakesStep, Proceed
<1>3. ASSUME NEW p \in Requests,
             \/ RequirementsMet(p) \/ RecordActivationFailure(p) \/ MarkActive(p)
             \/ DeactivationHook(p) \/ CommitDeactivation(p)
             \/ RecordDeactivationFailure(p) \/ MarkInactive(p) \/ HydrateReplace(p)
      PROVE  LocksHeld'
  <2>1. lock' = lock /\ pc[p] # "act_hook" /\ pc'[p] # "act_hook"
    BY <1>3 DEF RequirementsMet, RecordActivationFailure, MarkActive,
                DeactivationHook, CommitDeactivation, RecordDeactivationFailure,
                MarkInactive, HydrateReplace, Finish, Goto, database, TypeOK
  <2> QED
    BY <1>3, <2>1, LocksOutsideHook DEF TakesStep, Proceed
<1>4. ASSUME NEW p \in Requests, HydrateRead(p)
      PROVE  LocksHeld'
  <2>1. lock' = lock /\ pc[p] # "act_hook" /\ pc'[p] # "act_hook"
    BY <1>4 DEF HydrateRead, Goto, database, TypeOK
  <2> QED
    BY <1>4, <2>1, LocksOutsideHook DEF TakesStep, Begin
<1>5. ASSUME NEW p \in Requests, WritePending(p)
      PROVE  LocksHeld'
  BY <1>5, LockTaken
<1>6. ASSUME NEW p \in Requests, CommitActivation(p) \/ ActivationHookFails(p)
      PROVE  LocksHeld'
  <2>1. /\ pc[p] = "act_hook" /\ pc'[p] # "act_hook"
        /\ lock' = [lock EXCEPT ![target[p]] = NoRequest]
    BY <1>6 DEF CommitActivation, ActivationHookFails, Goto, TypeOK
  <2>2. target[p] \in Modules /\ \A m \in Modules : lock[m] = p <=> m = target[p]
    BY <2>1 DEF TypeOK, LocksHeld
  <2>3. \A m \in Modules : lock'[m] = IF lock[m] = p THEN NoRequest ELSE lock[m]
    BY <2>1, <2>2 DEF TypeOK
  <2> QED
    BY <1>6, <2>1, <2>3, LocksReleased DEF TakesStep, Proceed
<1>7. ASSUME NEW p \in Requests, DatabaseError(p)
      PROVE  LocksHeld'
  <2>1. /\ pc'[p] # "act_hook"
        /\ \A m \in Modules : lock'[m] = IF lock[m] = p THEN NoRequest ELSE lock[m]
    BY <1>7 DEF DatabaseError, Finish, Goto, TypeOK
  <2> QED
    BY <1>7, <2>1, LocksReleased DEF TakesStep
<1>8. CASE ComposeRuntime \/ UNCHANGED vars
  <2>1. lock' = lock /\ pc' = pc /\ target' = target
    BY <1>8 DEF ComposeRuntime, vars, database, request
  <2> QED
    BY <2>1, LocksUntouched
<1>9. CASE Restart
  BY <1>9 DEF Restart, LocksHeld
<1>10. ASSUME NEW p \in Requests, CommitUnheard(p), pc[p] = "act_hook"
       PROVE  LocksHeld'
  <2>1. pc'[p] # "act_hook" /\ lock' = [lock EXCEPT ![target[p]] = NoRequest]
    BY <1>10 DEF CommitUnheard, Finish, Goto, TypeOK
  <2>2. target[p] \in Modules /\ \A m \in Modules : lock[m] = p <=> m = target[p]
    BY <1>10 DEF TypeOK, LocksHeld
  <2>3. \A m \in Modules : lock'[m] = IF lock[m] = p THEN NoRequest ELSE lock[m]
    BY <2>1, <2>2 DEF TypeOK
  <2> QED
    BY <1>10, <2>1, <2>3, LocksReleased DEF TakesStep
<1>11. ASSUME NEW p \in Requests, CommitUnheard(p), pc[p] # "act_hook"
       PROVE  LocksHeld'
  <2>1. lock' = lock /\ pc'[p] # "act_hook"
    BY <1>11 DEF CommitUnheard, Finish, Goto, TypeOK
  <2> QED
    BY <1>11, <2>1, LocksOutsideHook DEF TakesStep
<1> QED
  BY <1>1, <1>2, <1>3, <1>4, <1>5, <1>6, <1>7, <1>8, <1>9, <1>10, <1>11
     DEF Next, Begin, Proceed

(* The activate hooks of one module never overlap, and a request that waits  *)
(* for a row holds none: it waits for nobody, or for a request inside its    *)
(* activate hook, which needs no row to go on.  The requests cannot wait for *)
(* each other in a circle (service.ts awaits the hook with the row locked).  *)
THEOREM NoCircularWait == Spec => []NobodyHoldsWhileWaiting
<1>1. Init => LocksHeld
  BY DEF Init, LocksHeld
<1>2. TypeOK /\ LocksHeld => NobodyHoldsWhileWaiting
  BY DEF TypeOK, LocksHeld, NobodyHoldsWhileWaiting, WaitsForRow
<1> QED
  BY <1>1, <1>2, LocksHeldNext, TypeCorrect, PTL DEF Spec
-----------------------------------------------------------------------------
(* What can still come after each step of a request before it returns.      *)
Later(s) ==
  CASE s = "act_check"        -> {"act_begin", "act_hook", "act_fail", "act_mark"}
    [] s = "act_begin"        -> {"act_hook", "act_fail", "act_mark"}
    [] s = "act_hook"         -> {"act_fail", "act_mark"}
    [] s = "deact_dependents" -> {"deact_hook", "deact_update", "deact_fail",
                                  "deact_mark"}
    [] s = "deact_hook"       -> {"deact_update", "deact_fail", "deact_mark"}
    [] s = "deact_update"     -> {"deact_mark"}
    [] OTHER                  -> {}

(* The request returns, goes on to a later step for the same module, or has *)
(* one requirement less to check.                                           *)
GoesOn(q) ==
  \/ pc'[q] = "idle"
  \/ pc'[q] \in Later(pc[q]) /\ target'[q] = target[q]
  \/ /\ pc'[q] = pc[q] /\ target'[q] = target[q]
     /\ todo'[q] \subseteq todo[q] /\ todo'[q] # todo[q]

OnlyForward ==
  /\ \A q \in Requests : pc[q] # "idle" => GoesOn(q) \/ Frame(q)
  /\ \A q \in Requests : Proceed(q) => GoesOn(q)

LEMMA ProceedGoesOn ==
  ASSUME TypeOK, NEW q \in Requests, Proceed(q)
  PROVE  GoesOn(q)
<1> USE DEF GoesOn, Later, Goto, TypeOK
<1>1. Finish(q) => GoesOn(q)
  BY DEF Finish
<1>2. CASE CheckRequirement(q)
  <2>1. \/ Finish(q)
        \/ /\ UNCHANGED <<pc, target, plan>>
           /\ \E r \in todo[q] : todo' = [todo EXCEPT ![q] = @ \ {r}]
    BY <1>2, Zenon DEF CheckRequirement
  <2>2. ASSUME NEW r \in todo[q], todo' = [todo EXCEPT ![q] = @ \ {r}]
        PROVE  todo'[q] \subseteq todo[q] /\ todo'[q] # todo[q]
    <3>1. todo'[q] = todo[q] \ {r}
      BY <2>2
    <3> QED
      BY <3>1, Zenon
  <2> QED
    BY <1>1, <2>1, <2>2
<1>3. CASE CheckActiveDependents(q)
  <2>1. /\ pc[q] = "deact_dependents"
        /\ Finish(q) \/ (Goto(q, "deact_hook") /\ UNCHANGED <<target, todo, plan>>)
    BY <1>3, Zenon DEF CheckActiveDependents
  <2> QED
    BY <1>1, <2>1
<1>4. CASE RequirementsMet(q) \/ WritePending(q) \/ CommitActivation(q)
           \/ ActivationHookFails(q)
  BY <1>4 DEF RequirementsMet, WritePending, CommitActivation, ActivationHookFails
<1>5. CASE DeactivationHook(q) \/ CommitDeactivation(q)
  BY <1>5 DEF DeactivationHook, CommitDeactivation
<1>6. CASE RecordActivationFailure(q) \/ MarkActive(q)
           \/ RecordDeactivationFailure(q) \/ MarkInactive(q) \/ HydrateReplace(q)
  BY <1>1, <1>6 DEF RecordActivationFailure, MarkActive, RecordDeactivationFailure,
                    MarkInactive, HydrateReplace
<1> QED
  BY <1>2, <1>3, <1>4, <1>5, <1>6 DEF Proceed

(* No request ever goes back: whatever happens around it, a request that has *)
(* begun only returns, goes on to a later step for the same module or checks *)
(* off a requirement, and each step of its own does one of these.  Activate  *)
(* and deactivate retry nothing, so a request takes a bounded number of      *)
(* steps (RequestsFinish without the fairness that makes it take them).      *)
THEOREM RequestsGoForward == Spec => [][OnlyForward]_vars
<1>1. TypeOK /\ [Next]_vars => [OnlyForward]_vars
  <2> SUFFICES ASSUME TypeOK, Next
               PROVE  OnlyForward
    OBVIOUS
  <2>1. ASSUME NEW q \in Requests, pc[q] # "idle"
        PROVE  GoesOn(q) \/ Frame(q)
    <3>1. CASE Proceed(q)
      BY <3>1, ProceedGoesOn
    <3>2. CASE DatabaseError(q) \/ CommitUnheard(q) \/ Restart
      BY <3>2 DEF DatabaseError, CommitUnheard, Restart, Finish, Goto, GoesOn, TypeOK
    <3>3. CASE Begin(q)
      BY <3>3, <2>1 DEF Begin, ActivateStart, DeactivateRead, HydrateRead
    <3>4. CASE ComposeRuntime
      BY <3>4 DEF ComposeRuntime, request, Frame
    <3>5. CASE \E p \in Requests \ {q} : TakesStep(p)
      BY <3>5, OthersUnchanged
    <3> QED
      BY <3>1, <3>2, <3>3, <3>4, <3>5 DEF Next, TakesStep
  <2> QED
    BY <2>1, ProceedGoesOn DEF OnlyForward
<1> QED
  BY <1>1, TypeCorrect, PTL DEF Spec
=============================================================================
