---------------------------- MODULE OutboxProofs ----------------------------
(***************************************************************************)
(* Theorems about OutboxPublisher, for any number of publishers, events    *)
(* and subscriptions, any batch size and any number of attempts.           *)
(***************************************************************************)
EXTENDS OutboxPublisher, FiniteSetTheorems, WellFoundedInduction, TLAPS

USE OutboxAssumption DEF OutboxAssumption

LEMMA MatchingType == Matching \in [Events -> SUBSET Subscriptions]
BY DEF Matching

USE MatchingType

(* Where a run is within its batch.                                        *)
RunShape ==
  \A p \in Publishers :
    /\ current[p] # NoEvent => /\ current[p] \in batch[p] \ Malformed
                               /\ todo[p] \subseteq Matching[current[p]]
    /\ current[p] = NoEvent => todo[p] = {}

(* What is known of the event a run is dispatching: a subscription that must *)
(* get it has still to be run, has thrown, or has handled it.                *)
Accounted ==
  \A p \in Publishers :
    current[p] # NoEvent =>
      \A s \in Audience[current[p]] :
        \/ s \in todo[p] \union failures[p]
        \/ <<current[p], s>> \in delivered

(* Only a failed row has used up its attempts.                             *)
AttemptsLeft ==
  \A e \in Events :
    /\ status[e] # "failed" => attempts[e] < MaxAttempts
    /\ status[e] = "failed" => e \in Malformed \/ attempts[e] = MaxAttempts

(* The attempts column counts the dispatches that are over; a row in a batch *)
(* may be in one more.                                                       *)
CallsCounted ==
  \A e \in Events, s \in Subscriptions :
    /\ calls[e][s] <= MaxAttempts
    /\ status[e] \in {"unwritten", "pending"} => calls[e][s] <= attempts[e]
    /\ \A p \in Publishers :
         e \in batch[p] =>
           /\ calls[e][s] <= attempts[e] + 1
           /\ current[p] # e \/ s \in todo[p] => calls[e][s] <= attempts[e]

IInv == /\ TypeOK
        /\ ClaimsExclusive
        /\ RunShape
        /\ Accounted
        /\ AttemptsLeft
        /\ CallsCounted

-----------------------------------------------------------------------------
(* The four ways a run settles a row are one action with a few conditions.  *)

Settles(p, e, s, n) ==
  /\ Settle(p, e, s, n)
  /\ current[p] \in {e, NoEvent} /\ todo[p] = {}
  /\ s \in {"pending", "failed"} => n = attempts[e] + 1
  /\ s = "pending" => n < MaxAttempts
  /\ s = "failed" => e \in Malformed \/ n = MaxAttempts
  /\ s = "published" => /\ n = attempts[e]
                        /\ current[p] = e /\ failures[p] = {}

LEMMA SettleCases ==
  ASSUME IInv, NEW p \in Publishers,
         \/ \E e \in Events : RejectMalformed(p, e)
         \/ MarkPublished(p) \/ MarkFailed(p) \/ Requeue(p)
  PROVE  \E e \in batch[p], s \in {"pending", "published", "failed"},
            n \in 0 .. MaxAttempts : Settles(p, e, s, n)
<1>1. /\ \A e \in batch[p] : /\ e \in Events /\ status[e] = "processing"
                             /\ claimed[p][e] = attempts[e]
      /\ \A e \in Events : attempts[e] \in 0 .. MaxAttempts
  BY DEF IInv, TypeOK, ClaimsExclusive
<1>2. \A e \in batch[p] : attempts[e] < MaxAttempts
  BY <1>1 DEF IInv, AttemptsLeft
<1>3. \A e \in batch[p] : /\ NextAttempts(p, e) = attempts[e] + 1
                          /\ NextAttempts(p, e) \in 0 .. MaxAttempts
  <2> TAKE e \in batch[p]
  <2>1. /\ attempts[e] \in 0 .. MaxAttempts
        /\ attempts[e] < MaxAttempts
        /\ NextAttempts(p, e) = attempts[e] + 1
    BY <1>1, <1>2 DEF NextAttempts
  <2>2. ASSUME NEW n \in 0 .. MaxAttempts, n < MaxAttempts
        PROVE  n + 1 \in 0 .. MaxAttempts
    BY <2>2
  <2> QED
    BY <2>1, <2>2
<1>4. ASSUME NEW e \in Events, RejectMalformed(p, e)
      PROVE  e \in batch[p] /\ Settles(p, e, "failed", NextAttempts(p, e))
  BY <1>4, <1>3 DEF RejectMalformed, Settles, IInv, RunShape
<1>5. ASSUME Dispatched(p)
      PROVE  current[p] \in batch[p] /\ todo[p] = {}
  BY <1>5 DEF Dispatched, IInv, RunShape
<1>6. CASE MarkPublished(p)
  <2>1. Settles(p, current[p], "published", attempts[current[p]])
    BY <1>6, <1>5 DEF MarkPublished, Settles
  <2> QED
    BY <2>1, <1>1, <1>5, <1>6 DEF MarkPublished
<1>7. CASE MarkFailed(p)
  <2>1. NextAttempts(p, current[p]) = MaxAttempts
    BY <1>7, <1>2, <1>3, <1>5, <1>1 DEF MarkFailed
  <2>2. Settles(p, current[p], "failed", NextAttempts(p, current[p]))
    BY <1>7, <2>1, <1>3, <1>5 DEF MarkFailed, Settles
  <2> QED
    BY <2>2, <1>3, <1>5, <1>7 DEF MarkFailed
<1>8. CASE Requeue(p)
  <2>1. Settles(p, current[p], "pending", NextAttempts(p, current[p]))
    BY <1>8, <1>3, <1>5 DEF Requeue, Settles
  <2> QED
    BY <2>1, <1>3, <1>5, <1>8 DEF Requeue
<1> QED
  BY <1>3, <1>4, <1>6, <1>7, <1>8

(* Every step is one of these.                                             *)
Step ==
  \/ \E e \in Events : Commit(e)
  \/ \E p \in Publishers :
       \/ Claim(p) \/ Stop(p)
       \/ \E e \in Events : Dispatch(p, e)
       \/ \E s \in Subscriptions : Handle(p, s)
       \/ \E e \in batch[p], s \in {"pending", "published", "failed"},
             n \in 0 .. MaxAttempts : Settles(p, e, s, n)

LEMMA StepCases ==
  ASSUME IInv, Next
  PROVE  Step
<1>1. CASE \E e \in Events : Commit(e)
  BY <1>1 DEF Step
<1>2. CASE \E p \in Publishers : Proceed(p) \/ Stop(p)
  <2>1. PICK p \in Publishers : Proceed(p) \/ Stop(p)
    BY <1>2
  <2>2. CASE \/ \E e \in Events : RejectMalformed(p, e)
             \/ MarkPublished(p) \/ MarkFailed(p) \/ Requeue(p)
    BY <2>2, SettleCases DEF Step
  <2> QED
    BY <2>1, <2>2 DEF Proceed, Step
<1> QED
  BY <1>1, <1>2 DEF Next

-----------------------------------------------------------------------------
(* What each step does to one run, one row, one count.                     *)

LEMMA ClaimFacts ==
  ASSUME IInv, NEW p \in Publishers, Claim(p)
  PROVE  \E S \in SUBSET Pending :
           /\ batch[p] = {} /\ current[p] = NoEvent
           /\ status' = [e \in Events |->
                           IF e \in S THEN "processing" ELSE status[e]]
           /\ batch' = [batch EXCEPT ![p] = S]
           /\ claimed' = [claimed EXCEPT ![p] = attempts]
           /\ UNCHANGED <<attempts, current, todo, failures, delivered, calls>>
<1>1. current[p] = NoEvent
  BY DEF Claim, IInv, RunShape
<1> QED
  BY <1>1 DEF Claim, Oldest, history

(* A turn of the dispatch loop counts at most one call, of that subscription. *)
LEMMA CallCounts ==
  ASSUME TypeOK, NEW p \in Publishers, NEW s \in Subscriptions, Handle(p, s),
         current[p] \in Events
  PROVE  /\ calls' \in [Events -> [Subscriptions -> Nat]]
         /\ \A e \in Events, t \in Subscriptions :
              \/ calls'[e][t] = calls[e][t]
              \/ e = current[p] /\ t = s /\ calls'[e][t] = calls[e][t] + 1
<1>1. calls \in [Events -> [Subscriptions -> Nat]]
  BY DEF TypeOK
<1>2. CASE calls' = calls
  BY <1>1, <1>2
<1>3. CASE calls' = [calls EXCEPT ![current[p]][s] = @ + 1]
  <2>1. PICK c \in [Subscriptions -> Nat] : c = calls[current[p]]
    BY <1>1
  <2>2. [c EXCEPT ![s] = c[s] + 1] \in [Subscriptions -> Nat]
    OBVIOUS
  <2> DEFINE d == [c EXCEPT ![s] = c[s] + 1]
  <2>3. calls' = [calls EXCEPT ![current[p]] = d]
    BY <1>1, <1>3, <2>1, <2>2
  <2> QED
    BY <1>1, <2>1, <2>2, <2>3
<1> QED
  BY <1>2, <1>3 DEF Handle, Skip, Return, Throw, history

LEMMA TypeNext ==
  ASSUME IInv, Step
  PROVE  TypeOK'
<1> USE DEF IInv, TypeOK
<1>1. ASSUME NEW e \in Events, Commit(e)
      PROVE  TypeOK'
  BY <1>1 DEF Commit, Statuses, run, history
<1>2. ASSUME NEW p \in Publishers, Claim(p)
      PROVE  TypeOK'
  <2>1. PICK S \in SUBSET Pending :
          /\ status' = [e \in Events |->
                          IF e \in S THEN "processing" ELSE status[e]]
          /\ batch' = [batch EXCEPT ![p] = S]
          /\ claimed' = [claimed EXCEPT ![p] = attempts]
          /\ UNCHANGED <<attempts, current, todo, failures, delivered, calls>>
    BY <1>2, ClaimFacts
  <2>2. S \subseteq Events
    BY DEF Pending
  <2> QED
    BY <2>1, <2>2 DEF Statuses
<1>3. ASSUME NEW p \in Publishers, NEW e \in Events, Dispatch(p, e)
      PROVE  TypeOK'
  BY <1>3 DEF Dispatch, table, history
<1>4. ASSUME NEW p \in Publishers, NEW s \in Subscriptions, Handle(p, s)
      PROVE  TypeOK'
  <2>1. current[p] \in Events
    BY <1>4 DEF Handle, RunShape
  <2>2. UNCHANGED <<status, attempts, batch, claimed, current>>
    BY <1>4 DEF Handle, table
  <2>3. todo' \in [Publishers -> SUBSET Subscriptions]
    BY <1>4 DEF Handle
  <2>4. /\ failures' \in [Publishers -> SUBSET Subscriptions]
        /\ delivered' \subseteq Events \X Subscriptions
    BY <1>4, <2>1 DEF Handle, Skip, Return, Throw, history
  <2>5. calls' \in [Events -> [Subscriptions -> Nat]]
    BY <1>4, <2>1, CallCounts
  <2> QED
    BY <2>2, <2>3, <2>4, <2>5
<1>5. ASSUME NEW p \in Publishers, NEW e \in batch[p],
             NEW s \in {"pending", "published", "failed"},
             NEW n \in 0 .. MaxAttempts, Settles(p, e, s, n)
      PROVE  TypeOK'
  BY <1>5 DEF Settles, Settle, Statuses, history
<1>6. ASSUME NEW p \in Publishers, Stop(p)
      PROVE  TypeOK'
  BY <1>6 DEF Stop, table, history
<1> HIDE DEF IInv, TypeOK
<1> QED
  BY <1>1, <1>2, <1>3, <1>4, <1>5, <1>6 DEF Step

LEMMA ExclusiveNext ==
  ASSUME IInv, Step
  PROVE  ClaimsExclusive'
<1> USE DEF IInv, TypeOK
<1>1. ASSUME NEW e \in Events, Commit(e)
      PROVE  ClaimsExclusive'
  BY <1>1 DEF Commit, run, ClaimsExclusive
<1>2. ASSUME NEW p \in Publishers, Claim(p)
      PROVE  ClaimsExclusive'
  <2>1. PICK S \in SUBSET Pending :
          /\ status' = [e \in Events |->
                          IF e \in S THEN "processing" ELSE status[e]]
          /\ batch' = [batch EXCEPT ![p] = S]
          /\ claimed' = [claimed EXCEPT ![p] = attempts]
          /\ attempts' = attempts
    BY <1>2, ClaimFacts
  <2>2. \A e \in S : e \in Events /\ status[e] = "pending"
    BY DEF Pending
  <2>3. \A o \in Publishers : \A e \in batch[o] : e \notin S
    BY <2>2 DEF ClaimsExclusive
  <2> QED
    BY <2>1, <2>2, <2>3 DEF ClaimsExclusive
<1>3. ASSUME NEW p \in Publishers, NEW e \in Events, Dispatch(p, e)
      PROVE  ClaimsExclusive'
  BY <1>3 DEF Dispatch, table, ClaimsExclusive
<1>4. ASSUME NEW p \in Publishers, NEW s \in Subscriptions, Handle(p, s)
      PROVE  ClaimsExclusive'
  BY <1>4 DEF Handle, table, ClaimsExclusive
<1>5. ASSUME NEW p \in Publishers, NEW e \in batch[p],
             NEW s \in {"pending", "published", "failed"},
             NEW n \in 0 .. MaxAttempts, Settles(p, e, s, n)
      PROVE  ClaimsExclusive'
  <2>1. \A o \in Publishers : /\ batch'[o] \subseteq batch[o]
                              /\ e \notin batch'[o]
    BY <1>5 DEF Settles, Settle, ClaimsExclusive
  <2>2. /\ \A d \in Events \ {e} : status'[d] = status[d] /\ attempts'[d] = attempts[d]
        /\ claimed' = claimed
    BY <1>5 DEF Settles, Settle
  <2> QED
    BY <2>1, <2>2 DEF ClaimsExclusive
<1>6. ASSUME NEW p \in Publishers, Stop(p)
      PROVE  ClaimsExclusive'
  BY <1>6 DEF Stop, table, ClaimsExclusive
<1> HIDE DEF IInv, TypeOK
<1> QED
  BY <1>1, <1>2, <1>3, <1>4, <1>5, <1>6 DEF Step

LEMMA ShapeNext ==
  ASSUME IInv, Step
  PROVE  RunShape'
<1> USE DEF IInv, TypeOK
<1>1. ASSUME NEW e \in Events, Commit(e)
      PROVE  RunShape'
  BY <1>1 DEF Commit, run, RunShape
<1>2. ASSUME NEW p \in Publishers, Claim(p)
      PROVE  RunShape'
  <2>1. PICK S \in SUBSET Pending :
          /\ batch[p] = {} /\ current[p] = NoEvent
          /\ batch' = [batch EXCEPT ![p] = S]
          /\ UNCHANGED <<current, todo>>
    BY <1>2, ClaimFacts
  <2> QED
    BY <2>1 DEF RunShape
<1>3. ASSUME NEW p \in Publishers, NEW e \in Events, Dispatch(p, e)
      PROVE  RunShape'
  BY <1>3 DEF Dispatch, RunShape
<1>4. ASSUME NEW p \in Publishers, NEW s \in Subscriptions, Handle(p, s)
      PROVE  RunShape'
  BY <1>4 DEF Handle, RunShape
<1>5. ASSUME NEW p \in Publishers, NEW e \in batch[p],
             NEW s \in {"pending", "published", "failed"},
             NEW n \in 0 .. MaxAttempts, Settles(p, e, s, n)
      PROVE  RunShape'
  BY <1>5 DEF Settles, Settle, RunShape
<1>6. ASSUME NEW p \in Publishers, Stop(p)
      PROVE  RunShape'
  BY <1>6 DEF Stop, RunShape
<1> HIDE DEF IInv, TypeOK
<1> QED
  BY <1>1, <1>2, <1>3, <1>4, <1>5, <1>6 DEF Step

LEMMA AccountedNext ==
  ASSUME IInv, Step
  PROVE  Accounted'
<1> USE DEF IInv, TypeOK
<1>1. ASSUME NEW e \in Events, Commit(e)
      PROVE  Accounted'
  BY <1>1 DEF Commit, run, history, Accounted
<1>2. ASSUME NEW p \in Publishers, Claim(p)
      PROVE  Accounted'
  BY <1>2, ClaimFacts DEF Accounted
<1>3. ASSUME NEW p \in Publishers, NEW e \in Events, Dispatch(p, e)
      PROVE  Accounted'
  BY <1>3 DEF Dispatch, Accounted, Audience, history
<1>4. ASSUME NEW p \in Publishers, NEW s \in Subscriptions, Handle(p, s)
      PROVE  Accounted'
  <2>1. /\ current' = current /\ current[p] \in Events
        /\ todo' = [todo EXCEPT ![p] = @ \ {s}]
    BY <1>4 DEF Handle, RunShape
  <2>2. /\ delivered \subseteq delivered'
        /\ \A o \in Publishers : failures[o] \subseteq failures'[o]
    BY <1>4 DEF Handle, Skip, Return, Throw, history
  <2>3. ASSUME s \in Audience[current[p]]
        PROVE  s \in failures'[p] \/ <<current[p], s>> \in delivered'
    <3>1. current[p] \notin System
      BY <2>1, <2>3 DEF Audience
    <3> QED
      BY <1>4, <3>1 DEF Handle, Skip, Return, Throw, history
  <2> QED
    BY <2>1, <2>2, <2>3 DEF Accounted
<1>5. ASSUME NEW p \in Publishers, NEW e \in batch[p],
             NEW s \in {"pending", "published", "failed"},
             NEW n \in 0 .. MaxAttempts, Settles(p, e, s, n)
      PROVE  Accounted'
  BY <1>5 DEF Settles, Settle, Accounted, history
<1>6. ASSUME NEW p \in Publishers, Stop(p)
      PROVE  Accounted'
  BY <1>6 DEF Stop, Accounted, history
<1> HIDE DEF IInv, TypeOK
<1> QED
  BY <1>1, <1>2, <1>3, <1>4, <1>5, <1>6 DEF Step

LEMMA AttemptsNext ==
  ASSUME IInv, Step
  PROVE  AttemptsLeft'
<1> USE DEF IInv, TypeOK
<1>1. ASSUME NEW e \in Events, Commit(e)
      PROVE  AttemptsLeft'
  BY <1>1 DEF Commit, AttemptsLeft
<1>2. ASSUME NEW p \in Publishers, Claim(p)
      PROVE  AttemptsLeft'
  <2>1. PICK S \in SUBSET Pending :
          /\ status' = [e \in Events |->
                          IF e \in S THEN "processing" ELSE status[e]]
          /\ attempts' = attempts
    BY <1>2, ClaimFacts
  <2>2. \A e \in S : e \in Events /\ status[e] = "pending"
    BY DEF Pending
  <2> QED
    BY <2>1, <2>2 DEF AttemptsLeft
<1>3. ASSUME NEW p \in Publishers, NEW e \in batch[p],
             NEW s \in {"pending", "published", "failed"},
             NEW n \in 0 .. MaxAttempts, Settles(p, e, s, n)
      PROVE  AttemptsLeft'
  <2>1. /\ e \in Events /\ attempts[e] < MaxAttempts
        /\ attempts \in [Events -> 0 .. MaxAttempts]
    BY DEF ClaimsExclusive, AttemptsLeft
  <2> QED
    BY <1>3, <2>1 DEF Settles, Settle, AttemptsLeft
<1>4. ASSUME UNCHANGED table
      PROVE  AttemptsLeft'
  BY <1>4 DEF table, AttemptsLeft
<1> HIDE DEF IInv, TypeOK
<1> QED
  BY <1>1, <1>2, <1>3, <1>4 DEF Step, Dispatch, Handle, Stop

LEMMA CallsNext ==
  ASSUME IInv, Step
  PROVE  CallsCounted'
<1>0. /\ status \in [Events -> Statuses]
      /\ attempts \in [Events -> 0 .. MaxAttempts]
      /\ attempts \in [Events -> Nat]
      /\ batch \in [Publishers -> SUBSET Events]
      /\ current \in [Publishers -> Events \union {NoEvent}]
      /\ todo \in [Publishers -> SUBSET Subscriptions]
      /\ calls \in [Events -> [Subscriptions -> Nat]]
      /\ CallsCounted
  BY DEF IInv, TypeOK
<1>1. ASSUME NEW e \in Events, Commit(e)
      PROVE  CallsCounted'
  BY <1>0, <1>1 DEF Commit, run, history, CallsCounted
<1>2. ASSUME NEW p \in Publishers, Claim(p)
      PROVE  CallsCounted'
  <2>1. PICK S \in SUBSET Pending :
          /\ status' = [e \in Events |->
                          IF e \in S THEN "processing" ELSE status[e]]
          /\ batch' = [batch EXCEPT ![p] = S]
          /\ UNCHANGED <<attempts, current, todo, calls>>
    BY <1>2, ClaimFacts
  <2>2. \A e \in S : e \in Events /\ status[e] = "pending"
    BY DEF Pending
  <2>3. \A e \in S, s \in Subscriptions : calls[e][s] <= attempts[e]
    BY <1>0, <2>2 DEF CallsCounted
  <2> QED
    BY <1>0, <2>1, <2>2, <2>3 DEF CallsCounted
<1>3. ASSUME NEW p \in Publishers, NEW e \in Events, Dispatch(p, e)
      PROVE  CallsCounted'
  <2>1. /\ UNCHANGED <<status, attempts, batch, calls>>
        /\ current[p] = NoEvent
        /\ \A o \in Publishers \ {p} : current'[o] = current[o] /\ todo'[o] = todo[o]
    BY <1>0, <1>3 DEF Dispatch, table, history
  <2> QED
    BY <1>0, <2>1 DEF CallsCounted
<1>4. ASSUME NEW p \in Publishers, NEW s \in Subscriptions, Handle(p, s)
      PROVE  CallsCounted'
  <2>1. /\ current[p] \in batch[p] /\ current[p] \in Events /\ s \in todo[p]
        /\ status[current[p]] = "processing"
        /\ \A o \in Publishers \ {p} : current[p] \notin batch[o]
        /\ attempts[current[p]] < MaxAttempts
    <3>1. s \in todo[p]
      BY <1>4, Zenon DEF Handle
    <3>2. current[p] \in batch[p]
      BY <3>1, Zenon DEF IInv, RunShape
    <3>3. /\ status[current[p]] = "processing"
          /\ \A o \in Publishers \ {p} : current[p] \notin batch[o]
      BY <3>2, Zenon DEF IInv, ClaimsExclusive
    <3>4. current[p] \in Events
      BY <1>0, <3>2
    <3>5. attempts[current[p]] < MaxAttempts
      BY <3>3, <3>4 DEF IInv, AttemptsLeft
    <3> QED
      BY <3>1, <3>2, <3>3, <3>4, <3>5
  <2>2. /\ UNCHANGED <<status, attempts, batch, current>>
        /\ todo' = [todo EXCEPT ![p] = @ \ {s}]
    BY <1>4 DEF Handle, table
  <2>3. ASSUME NEW e \in Events, NEW t \in Subscriptions, calls'[e][t] = calls[e][t]
        PROVE  /\ calls'[e][t] <= MaxAttempts
               /\ status'[e] \in {"unwritten", "pending"} => calls'[e][t] <= attempts'[e]
               /\ \A o \in Publishers :
                    e \in batch'[o] =>
                      /\ calls'[e][t] <= attempts'[e] + 1
                      /\ current'[o] # e \/ t \in todo'[o]
                           => calls'[e][t] <= attempts'[e]
    BY <1>0, <2>2, <2>3 DEF CallsCounted
  <2>4. ASSUME calls'[current[p]][s] = calls[current[p]][s] + 1
        PROVE  /\ calls'[current[p]][s] <= attempts[current[p]] + 1
               /\ calls'[current[p]][s] <= MaxAttempts
    <3>1. calls[current[p]][s] <= attempts[current[p]]
      BY <1>0, <2>1 DEF CallsCounted
    <3>2. calls[current[p]] \in [Subscriptions -> Nat]
      BY <1>0, <2>1
    <3>3. calls[current[p]][s] \in Nat
      BY <3>2
    <3>4. attempts[current[p]] \in Nat /\ MaxAttempts \in Nat
      BY <1>0, <2>1
    <3> QED
      BY <2>1, <2>4, <3>1, <3>3, <3>4
  <2>5. s \notin todo'[p]
    BY <1>0, <2>2
  <2>6. \A e \in Events, t \in Subscriptions :
          \/ calls'[e][t] = calls[e][t]
          \/ /\ e = current[p] /\ t = s
             /\ calls'[current[p]][s] = calls[current[p]][s] + 1
    BY <1>4, <2>1, CallCounts DEF IInv
  <2>7. ASSUME calls'[current[p]][s] = calls[current[p]][s] + 1
        PROVE  /\ status'[current[p]] = "processing"
               /\ \A o \in Publishers :
                    current[p] \in batch'[o] =>
                      o = p /\ current'[o] = current[p] /\ s \notin todo'[o]
    BY <2>1, <2>2, <2>5
  <2>8. ASSUME calls'[current[p]][s] = calls[current[p]][s] + 1
        PROVE  /\ calls'[current[p]][s] <= MaxAttempts
               /\ status'[current[p]] \notin {"unwritten", "pending"}
               /\ \A o \in Publishers :
                    current[p] \in batch'[o] =>
                      /\ calls'[current[p]][s] <= attempts'[current[p]] + 1
                      /\ ~(current'[o] # current[p] \/ s \in todo'[o])
    BY <2>2, <2>4, <2>7, <2>8
  <2>9. ASSUME NEW e \in Events, NEW t \in Subscriptions
        PROVE  /\ calls'[e][t] <= MaxAttempts
               /\ status'[e] \in {"unwritten", "pending"} => calls'[e][t] <= attempts'[e]
               /\ \A o \in Publishers :
                    e \in batch'[o] =>
                      /\ calls'[e][t] <= attempts'[e] + 1
                      /\ current'[o] # e \/ t \in todo'[o]
                           => calls'[e][t] <= attempts'[e]
    <3>1. CASE calls'[e][t] = calls[e][t]
      BY <2>3, <3>1
    <3>2. CASE /\ e = current[p] /\ t = s
               /\ calls'[current[p]][s] = calls[current[p]][s] + 1
      BY <2>8, <3>2, Zenon
    <3> QED
      BY <2>6, <3>1, <3>2
  <2> QED
    BY <2>9 DEF CallsCounted
<1>5. ASSUME NEW p \in Publishers, NEW e \in batch[p],
             NEW s \in {"pending", "published", "failed"},
             NEW n \in 0 .. MaxAttempts, Settles(p, e, s, n)
      PROVE  CallsCounted'
  <2>1. \A o \in Publishers : /\ batch'[o] \subseteq batch[o]
                              /\ e \notin batch'[o]
    BY <1>5 DEF Settles, Settle, IInv, TypeOK, ClaimsExclusive
  <2>2. /\ \A d \in Events \ {e} : status'[d] = status[d] /\ attempts'[d] = attempts[d]
        /\ e \in Events /\ status'[e] = s /\ attempts'[e] = n
        /\ \A d \in Events \ {e} : current'[p] = d => current[p] = d
        /\ \A o \in Publishers \ {p} : current'[o] = current[o]
        /\ current'[p] = NoEvent /\ current[p] \in {e, NoEvent}
        /\ UNCHANGED <<todo, calls>>
    BY <1>0, <1>5 DEF Settles, Settle, history
  <2>3. s = "pending" => \A t \in Subscriptions : calls[e][t] <= attempts'[e]
    <3>1. \A t \in Subscriptions : calls[e][t] <= attempts[e] + 1
      BY <1>0, <2>2, Zenon DEF CallsCounted
    <3>2. s = "pending" => n = attempts[e] + 1
      BY <1>5, Zenon DEF Settles
    <3>3. attempts'[e] = n
      BY <2>2, Zenon
    <3> QED
      BY <3>1, <3>2, <3>3
  <2> QED
    BY <1>0, <2>1, <2>2, <2>3 DEF CallsCounted
<1>6. ASSUME NEW p \in Publishers, Stop(p)
      PROVE  CallsCounted'
  <2>1. /\ UNCHANGED <<status, attempts, calls>>
        /\ batch'[p] = {}
        /\ \A o \in Publishers \ {p} : /\ current'[o] = current[o]
                                        /\ todo'[o] = todo[o]
                                        /\ batch'[o] = batch[o]
    BY <1>0, <1>6 DEF Stop, table, history
  <2> QED
    BY <1>0, <2>1 DEF CallsCounted
<1> QED
  BY <1>1, <1>2, <1>3, <1>4, <1>5, <1>6 DEF Step

-----------------------------------------------------------------------------
LEMMA IInvInit == Init => IInv
  BY DEF Init, IInv, TypeOK, ClaimsExclusive, RunShape, Accounted, AttemptsLeft,
         CallsCounted, Statuses

LEMMA IInvNext == IInv /\ [Next]_vars => IInv'
<1>1. ASSUME IInv, Next
      PROVE  IInv'
  BY <1>1, StepCases, TypeNext, ExclusiveNext, ShapeNext, AccountedNext,
     AttemptsNext, CallsNext DEF IInv
<1>2. ASSUME IInv, UNCHANGED vars
      PROVE  IInv'
  BY <1>2 DEF vars, IInv, TypeOK, ClaimsExclusive, RunShape, Accounted,
              AttemptsLeft, CallsCounted
<1> QED
  BY <1>1, <1>2

LEMMA Invariance == Spec => []IInv
  BY IInvInit, IInvNext, PTL DEF Spec

-----------------------------------------------------------------------------
(* Type correctness of the table, the runs and the histories.              *)
THEOREM TypeCorrect == Spec => []TypeOK
  BY Invariance, PTL DEF IInv

(* Runs that overlap, in one process or in several, never hold the same row, *)
(* and settle each row with the attempts it has: without a status test or a  *)
(* lock held across the handlers.                                            *)
THEOREM RunsAreExclusive == Spec => []ClaimsExclusive
  BY Invariance, PTL DEF IInv

(* However handlers fail, runs overlap and processes die, no handler is      *)
(* called for one event more than MaxAttempts times.                         *)
THEOREM CallsAreBounded == Spec => []CallsBounded
<1>1. IInv => CallsBounded
  BY DEF IInv, CallsCounted, CallsBounded
<1> QED
  BY <1>1, Invariance, PTL

(* An event is given up only after its last attempt, and never waits for an  *)
(* attempt it does not have.                                                 *)
THEOREM GivenUpAtTheLast == Spec => []GivenUpLast
<1>1. IInv => GivenUpLast
  BY DEF IInv, AttemptsLeft, GivenUpLast
<1> QED
  BY <1>1, Invariance, PTL

(* Each step of the outbox is a step of OutboxDelivery or changes nothing of *)
(* it: published means that every handler of the event has returned, and the *)
(* ends are final.                                                           *)
State == [e \in Events |->
            CASE status[e] = "unwritten" -> "absent"
              [] status[e] \in {"pending", "processing"} -> "queued"
              [] OTHER -> status[e]]

LEMMA StateOf ==
  ASSUME NEW e \in Events, TypeOK
  PROVE  /\ State[e] = "absent" <=> status[e] = "unwritten"
         /\ State[e] = "queued" <=> status[e] \in {"pending", "processing"}
         /\ State[e] = "published" <=> status[e] = "published"
         /\ State[e] = "failed" <=> status[e] = "failed"
         /\ State[e] \in {"absent", "queued", "published", "failed"}
<1>1. status[e] \in Statuses
  BY DEF TypeOK
<1>2. CASE status[e] = "unwritten"
  BY <1>2 DEF State
<1>3. CASE status[e] \in {"pending", "processing"}
  BY <1>3 DEF State
<1>4. CASE status[e] \in {"published", "failed"}
  BY <1>4 DEF State
<1> QED
  BY <1>1, <1>2, <1>3, <1>4 DEF Statuses

LEMMA StateMoves ==
  ASSUME TypeOK, TypeOK', NEW e \in Events,
         \A d \in Events \ {e} : status'[d] = status[d],
         NEW from, NEW to, State[e] = from, State'[e] = to
  PROVE  State' = [State EXCEPT ![e] = to]
<1>1. \A d \in Events \ {e} : State'[d] = State[d]
  BY DEF State
<1>2. State \in [Events -> {"absent", "queued", "published", "failed"}]
  BY StateOf DEF State
<1>3. State' = [d \in Events |-> State'[d]]
  BY DEF State
<1> QED
  BY <1>1, <1>2, <1>3

LEMMA StepDelivers ==
  ASSUME IInv, IInv', Step
  PROVE  [Delivery!Next]_<<State, delivered>>
<1> TypeOK /\ TypeOK'
  BY DEF IInv
<1>1. ASSUME NEW e \in Events, Commit(e)
      PROVE  Delivery!Write(e)
  <2>1. State[e] = "absent" /\ State'[e] = "queued"
    BY <1>1, StateOf DEF Commit, TypeOK, State
  <2>2. \A d \in Events \ {e} : status'[d] = status[d]
    BY <1>1 DEF Commit, TypeOK
  <2> QED
    BY <1>1, <2>1, <2>2, StateMoves
       DEF Delivery!Write, Delivery!Move, State, Commit, history
<1>2. ASSUME NEW p \in Publishers, Claim(p)
      PROVE  UNCHANGED <<State, delivered>>
  <2>1. PICK S \in SUBSET Pending :
          /\ status' = [e \in Events |->
                          IF e \in S THEN "processing" ELSE status[e]]
          /\ delivered' = delivered
    BY <1>2, ClaimFacts
  <2>2. ASSUME NEW e \in Events
        PROVE  /\ status'[e] = "unwritten" <=> status[e] = "unwritten"
               /\ status'[e] \in {"pending", "processing"}
                    <=> status[e] \in {"pending", "processing"}
               /\ status'[e] \notin {"pending", "processing"}
                    => status'[e] = status[e]
    BY <2>1 DEF Pending
  <2> QED
    BY <2>1, <2>2 DEF State
<1>3. ASSUME NEW p \in Publishers, NEW s \in Subscriptions, Handle(p, s)
      PROVE  \/ UNCHANGED <<State, delivered>>
             \/ Delivery!Deliver(current[p], s) /\ current[p] \in Events
  <2>1. State' = State
    BY <1>3 DEF Handle, table, State
  <2>2. /\ current[p] \in Events /\ s \in Matching[current[p]]
        /\ status[current[p]] = "processing"
    <3>1. s \in todo[p]
      BY <1>3 DEF Handle
    <3>2. current[p] \in batch[p] /\ s \in Matching[current[p]]
      BY <3>1 DEF IInv, RunShape
    <3> QED
      BY <3>2 DEF IInv, TypeOK, ClaimsExclusive
  <2>3. CASE delivered' = delivered
    BY <2>1, <2>3
  <2>4. CASE Return(p, s)
    <3>1. State[current[p]] = "queued" /\ s \in Audience[current[p]]
      BY <2>2, <2>4, StateOf DEF Return, Audience
    <3> QED
      BY <2>1, <2>2, <2>4, <3>1 DEF Delivery!Deliver, Return, State
  <2> QED
    BY <1>3, <2>3, <2>4 DEF Handle, Skip, Throw, history
<1>4. ASSUME NEW p \in Publishers, NEW e \in batch[p],
             NEW s \in {"pending", "published", "failed"},
             NEW n \in 0 .. MaxAttempts, Settles(p, e, s, n)
      PROVE  /\ e \in Events
             /\ \/ UNCHANGED <<State, delivered>>
                \/ Delivery!Publish(e)
                \/ Delivery!GiveUp(e)
  <2>1. /\ e \in Events /\ status[e] = "processing" /\ status'[e] = s
        /\ \A d \in Events \ {e} : status'[d] = status[d]
        /\ delivered' = delivered
    <3>1. status' = [status EXCEPT ![e] = s] /\ delivered' = delivered
      BY <1>4 DEF Settles, Settle, history
    <3>2. e \in Events /\ status[e] = "processing"
      BY DEF IInv, TypeOK, ClaimsExclusive
    <3>3. DOMAIN status = Events
      BY DEF IInv, TypeOK
    <3> QED
      BY <3>1, <3>2, <3>3
  <2>2. State[e] = "queued"
    BY <2>1, StateOf
  <2>3. CASE s = "pending"
    <3>1. State'[e] = "queued"
      BY <2>1, <2>3 DEF State
    <3> QED
      BY <2>1, <2>2, <3>1 DEF State
  <2>4. CASE s = "failed"
    <3>1. State'[e] = "failed"
      BY <2>1, <2>4 DEF State
    <3> QED
      BY <2>1, <2>2, <3>1, StateMoves DEF Delivery!GiveUp, Delivery!Move, State
  <2>5. CASE s = "published"
    <3>1. State'[e] = "published"
      BY <2>1, <2>5 DEF State
    <3>2. \A t \in Audience[e] : <<e, t>> \in delivered
      BY <1>4, <2>1, <2>5 DEF Settles, IInv, Accounted
    <3> QED
      BY <2>1, <2>2, <3>1, <3>2, StateMoves
         DEF Delivery!Publish, Delivery!Move, State
  <2> QED
    BY <2>1, <2>3, <2>4, <2>5
<1>5. ASSUME NEW p \in Publishers, Stop(p) \/ \E e \in Events : Dispatch(p, e)
      PROVE  UNCHANGED <<State, delivered>>
  BY <1>5 DEF Stop, Dispatch, table, history, State
<1>6. ASSUME NEW e \in Events, Delivery!Write(e) \/ Delivery!Publish(e) \/ Delivery!GiveUp(e)
      PROVE  Delivery!Next
  BY <1>6 DEF Delivery!Next
<1>7. ASSUME NEW e \in Events, NEW s \in Subscriptions, Delivery!Deliver(e, s)
      PROVE  Delivery!Next
  BY <1>7 DEF Delivery!Next
<1> QED
  BY <1>1, <1>2, <1>3, <1>4, <1>5, <1>6, <1>7 DEF Step

THEOREM ImplementsTheDelivery == Spec => ImplementsDelivery
<1>1. Init => Delivery!Init
  BY DEF Init, Delivery!Init
<1>2. IInv /\ IInv' /\ [Next]_vars => [Delivery!Next]_<<State, delivered>>
  <2>1. ASSUME IInv, IInv', Next
        PROVE  [Delivery!Next]_<<State, delivered>>
    BY <2>1, StepCases, StepDelivers
  <2>2. ASSUME UNCHANGED vars
        PROVE  UNCHANGED <<State, delivered>>
    BY <2>2 DEF vars, State
  <2> QED
    BY <2>1, <2>2
<1> QED
  BY <1>1, <1>2, Invariance, PTL DEF Spec, ImplementsDelivery, Delivery!Spec, State

-----------------------------------------------------------------------------
(* Progress, but for the fairness that makes it happen.                     *)

(* The life of a row: committed, claimed, and settled or tried once more.   *)
RowAdvances(e) ==
  \/ status[e] = "unwritten" /\ status'[e] = "pending" /\ attempts'[e] = attempts[e]
  \/ status[e] = "pending" /\ status'[e] = "processing" /\ attempts'[e] = attempts[e]
  \/ status[e] = "processing" /\ status'[e] = "published" /\ attempts'[e] = attempts[e]
  \/ /\ status[e] = "processing" /\ attempts'[e] = attempts[e] + 1
     /\ \/ status'[e] = "pending" /\ attempts'[e] < MaxAttempts
        \/ status'[e] = "failed"

RowsGoForward ==
  \A e \in Events :
    RowAdvances(e) \/ (status'[e] = status[e] /\ attempts'[e] = attempts[e])

(* A run claims rows, takes up one of them, calls one handler less, or has  *)
(* one row less to settle.                                                  *)
RunAdvances(p) ==
  \/ batch[p] = {} /\ batch'[p] # {}
  \/ \E e \in batch[p] : batch'[p] = batch[p] \ {e}
  \/ /\ batch'[p] = batch[p]
     /\ \/ current[p] = NoEvent /\ current'[p] \in batch[p]
        \/ /\ current'[p] = current[p]
           /\ \E s \in todo[p] : todo'[p] = todo[p] \ {s}

RunsGoForward == \A p \in Publishers : Proceed(p) => RunAdvances(p)

LEMMA RowsStep ==
  ASSUME IInv, Step
  PROVE  RowsGoForward
<1> USE DEF RowsGoForward, RowAdvances
<1>t. TypeOK
  BY DEF IInv
<1>1. ASSUME NEW e \in Events, Commit(e)
      PROVE  RowsGoForward
  BY <1>1, <1>t DEF Commit, TypeOK
<1>2. ASSUME NEW p \in Publishers, Claim(p)
      PROVE  RowsGoForward
  BY <1>2, ClaimFacts DEF Pending
<1>3. ASSUME NEW p \in Publishers,
             \/ Stop(p) \/ \E e \in Events : Dispatch(p, e)
             \/ \E s \in Subscriptions : Handle(p, s)
      PROVE  RowsGoForward
  BY <1>3 DEF Stop, Dispatch, Handle, table
<1>4. ASSUME NEW p \in Publishers, NEW e \in batch[p],
             NEW s \in {"pending", "published", "failed"},
             NEW n \in 0 .. MaxAttempts, Settles(p, e, s, n)
      PROVE  RowsGoForward
  <2>1. e \in Events /\ status[e] = "processing"
    BY <1>t DEF IInv, TypeOK, ClaimsExclusive
  <2>2. /\ status'[e] = s /\ attempts'[e] = n
        /\ \A d \in Events \ {e} : status'[d] = status[d] /\ attempts'[d] = attempts[d]
    BY <1>4, <2>1, <1>t DEF Settles, Settle, TypeOK
  <2>3. /\ s \in {"pending", "failed"} => n = attempts[e] + 1
        /\ s = "pending" => n < MaxAttempts
        /\ s = "published" => n = attempts[e]
    BY <1>4 DEF Settles
  <2> QED
    BY <2>1, <2>2, <2>3
<1> QED
  BY <1>1, <1>2, <1>3, <1>4 DEF Step

(* Whatever fails, overlaps or dies, a row only moves forward: each time it  *)
(* comes back it has used up an attempt and has one left, so it is claimed   *)
(* at most MaxAttempts times, and an end is final.                           *)
THEOREM RowsOnlyGoForward == Spec => [][RowsGoForward]_vars
<1>1. IInv /\ [Next]_vars => [RowsGoForward]_vars
  BY StepCases, RowsStep
<1> QED
  BY <1>1, Invariance, PTL DEF Spec

LEMMA ClaimTakes ==
  ASSUME IInv, NEW p \in Publishers, Claim(p)
  PROVE  batch[p] = {} /\ batch'[p] # {}
<1>1. PICK S \in SUBSET Pending : Oldest(S) /\ batch' = [batch EXCEPT ![p] = S]
  BY DEF Claim
<1>2. batch[p] = {} /\ batch'[p] = S
  BY <1>1 DEF Claim, IInv, TypeOK
<1>3. S # {}
  <2> SUFFICES ASSUME S = {} PROVE FALSE
    OBVIOUS
  <2>1. Cardinality(S) = BatchSize
    BY <1>1 DEF Claim, Oldest
  <2>2. Cardinality(S) = 0
    BY FS_EmptySet
  <2> QED
    BY <2>1, <2>2, OutboxAssumption
<1> QED
  BY <1>2, <1>3

(* Each step that a run takes brings it nearer to the end of its batch: no   *)
(* handler or row is gone through twice in one batch.                        *)
THEOREM RunsOnlyGoForward == Spec => [][RunsGoForward]_vars
<1>1. IInv => RunsGoForward
  <2> SUFFICES ASSUME IInv, NEW p \in Publishers, Proceed(p)
               PROVE  RunAdvances(p)
    BY DEF RunsGoForward
  <2>t. TypeOK
    BY DEF IInv
  <2>1. CASE Claim(p)
    BY <2>1, ClaimTakes DEF RunAdvances
  <2>2. ASSUME NEW e \in Events, Dispatch(p, e)
        PROVE  RunAdvances(p)
    BY <2>2, <2>t DEF Dispatch, RunAdvances, TypeOK
  <2>3. ASSUME NEW s \in Subscriptions, Handle(p, s)
        PROVE  RunAdvances(p)
    BY <2>3, <2>t DEF Handle, RunAdvances, TypeOK
  <2>4. CASE \/ \E e \in Events : RejectMalformed(p, e)
             \/ MarkPublished(p) \/ MarkFailed(p) \/ Requeue(p)
    <3>1. PICK e \in batch[p] : batch' = [batch EXCEPT ![p] = @ \ {e}]
      BY <2>4, SettleCases DEF Settles, Settle
    <3> QED
      BY <3>1, <2>t DEF RunAdvances, TypeOK
  <2> QED
    BY <2>1, <2>2, <2>3, <2>4 DEF Proceed
<1> QED
  BY <1>1, Invariance, PTL

(* A row in processing is in the batch of a run.                            *)
InSomeBatch ==
  \A e \in Events : status[e] = "processing" => \E p \in Publishers : e \in batch[p]

LEMMA InSomeBatchNext ==
  ASSUME MayStop = {}, IInv, InSomeBatch, Step
  PROVE  InSomeBatch'
<1>t. TypeOK
  BY DEF IInv
<1>1. ASSUME NEW e \in Events, Commit(e)
      PROVE  InSomeBatch'
  BY <1>1, <1>t DEF Commit, run, InSomeBatch, TypeOK
<1>2. ASSUME NEW p \in Publishers, Claim(p)
      PROVE  InSomeBatch'
  <2>1. PICK S \in SUBSET Pending :
          /\ batch[p] = {}
          /\ status' = [e \in Events |-> IF e \in S THEN "processing" ELSE status[e]]
          /\ batch' = [batch EXCEPT ![p] = S]
    BY <1>2, ClaimFacts
  <2>2. batch'[p] = S /\ \A q \in Publishers \ {p} : batch'[q] = batch[q]
    BY <2>1, <1>t DEF TypeOK
  <2> QED
    BY <2>1, <2>2 DEF InSomeBatch
<1>3. ASSUME NEW p \in Publishers,
             \/ \E e \in Events : Dispatch(p, e)
             \/ \E s \in Subscriptions : Handle(p, s)
      PROVE  InSomeBatch'
  BY <1>3 DEF Dispatch, Handle, table, InSomeBatch
<1>4. ASSUME NEW p \in Publishers, NEW e \in batch[p],
             NEW s \in {"pending", "published", "failed"},
             NEW n \in 0 .. MaxAttempts, Settles(p, e, s, n)
      PROVE  InSomeBatch'
  <2>1. /\ status' = [status EXCEPT ![e] = s] /\ batch' = [batch EXCEPT ![p] = @ \ {e}]
        /\ e \in Events /\ s # "processing"
    BY <1>4, <1>t DEF Settles, Settle, TypeOK
  <2>2. ASSUME NEW d \in Events, status'[d] = "processing"
        PROVE  \E q \in Publishers : d \in batch'[q]
    <3>1. d # e /\ status[d] = "processing"
      BY <2>1, <2>2, <1>t DEF TypeOK
    <3>2. PICK q \in Publishers : d \in batch[q]
      BY <3>1 DEF InSomeBatch
    <3>3. d \in batch'[q]
      BY <2>1, <3>1, <3>2, <1>t DEF TypeOK
    <3> QED
      BY <3>3
  <2> QED
    BY <2>2 DEF InSomeBatch
<1>5. ASSUME NEW p \in Publishers
      PROVE  ~Stop(p)
  BY DEF Stop
<1> QED
  BY <1>1, <1>2, <1>3, <1>4, <1>5 DEF Step

(* If no run dies or loses a statement, no row is ever stranded: the claim   *)
(* of a dead run is the only way to lose an event (EventsEnd is violated     *)
(* only because of it).                                                      *)
THEOREM OnlyTheDeadStrand ==
  ASSUME MayStop = {}
  PROVE  Spec => [](\A e \in Events : ~Stranded(e))
<1>1. Init => InSomeBatch
  BY DEF Init, InSomeBatch
<1>2. IInv /\ InSomeBatch /\ [Next]_vars => InSomeBatch'
  <2>1. ASSUME IInv, InSomeBatch, Next
        PROVE  InSomeBatch'
    BY <2>1, StepCases, InSomeBatchNext
  <2>2. ASSUME InSomeBatch, UNCHANGED vars
        PROVE  InSomeBatch'
    BY <2>2 DEF vars, InSomeBatch
  <2> QED
    BY <2>1, <2>2
<1>3. InSomeBatch => \A e \in Events : ~Stranded(e)
  BY DEF InSomeBatch, Stranded
<1> QED
  BY <1>1, <1>2, <1>3, Invariance, PTL DEF Spec

-----------------------------------------------------------------------------
(* What a claim takes *)

(* Sets of natural numbers have a least element, by the library's theorem on *)
(* minimal elements of well-founded relations.                               *)
LEMMA LeastNumber ==
  ASSUME NEW S \in SUBSET Nat, S # {}
  PROVE  \E m \in S : \A k \in S : m <= k
<1> DEFINE R == OpToRel(<, Nat)
<1>1. IsWellFoundedOn(R, Nat)
  BY NatLessThanWellFounded
<1>2. \A x, y \in Nat : <<x, y>> \in R <=> x < y
  BY DEF OpToRel
<1> HIDE DEF R
<1>3. PICK x \in S : \A y \in S : ~(<<y, x>> \in R)
  BY <1>1, WFMin
<1>4. ASSUME NEW k \in S
      PROVE  x <= k
  <2>1. x \in Nat /\ k \in Nat
    OBVIOUS
  <2>2. ~(k < x)
    BY <1>2, <1>3, <2>1
  <2> QED
    BY <2>1, <2>2
<1> QED
  BY <1>4

(* The oldest rows of P, n of them or all.                                   *)
OldestOf(P, n, S) ==
  /\ S \in SUBSET P /\ IsFiniteSet(S) /\ Cardinality(S) <= n
  /\ S # P => Cardinality(S) = n
  /\ \A e \in S, d \in P \ S : e < d

LEMMA OneMore ==
  ASSUME NEW P \in SUBSET Nat, NEW n \in Nat, NEW S, OldestOf(P, n, S)
  PROVE  \E T : OldestOf(P, n + 1, T)
<1>1. CASE S = P
  <2>1. Cardinality(S) \in Nat /\ Cardinality(S) <= n
    BY FS_CardinalityType DEF OldestOf
  <2>2. OldestOf(P, n + 1, S)
    BY <1>1, <2>1 DEF OldestOf
  <2> QED
    BY <2>2
<1>2. CASE S # P
  <2>1. P \ S \in SUBSET Nat /\ P \ S # {}
    BY <1>2 DEF OldestOf
  <2>2. PICK m \in P \ S : \A k \in P \ S : m <= k
    BY <2>1, LeastNumber
  <2> DEFINE T == S \union {m}
  <2>3. IsFiniteSet(T) /\ Cardinality(T) = n + 1
    BY <1>2, FS_AddElement DEF OldestOf
  <2>4. ASSUME NEW e \in T, NEW d \in P \ T
        PROVE  e < d
    <3>1. CASE e \in S
      BY <3>1 DEF OldestOf
    <3>2. CASE e = m
      BY <2>2, <3>2
    <3> QED
      BY <3>1, <3>2
  <2>5. T \in SUBSET P
    BY DEF OldestOf
  <2> HIDE DEF T
  <2>6. OldestOf(P, n + 1, T)
    BY <2>3, <2>4, <2>5 DEF OldestOf
  <2> QED
    BY <2>6
<1> QED
  BY <1>1, <1>2

(* By induction on n: a least number that had no such set would be neither   *)
(* zero nor the successor of one that has.                                   *)
LEMMA OldestExist ==
  ASSUME NEW P \in SUBSET Nat, NEW n \in Nat
  PROVE  \E S : OldestOf(P, n, S)
<1> DEFINE without == {k \in Nat : ~\E S : OldestOf(P, k, S)}
<1> SUFFICES ASSUME without # {}
             PROVE  FALSE
  OBVIOUS
<1>1. without \in SUBSET Nat
  OBVIOUS
<1>2. PICK k \in without : \A j \in without : k <= j
  <2> HIDE DEF without
  <2> QED
    BY <1>1, LeastNumber
<1>3. k # 0
  <2>1. OldestOf(P, 0, {})
    BY FS_EmptySet DEF OldestOf
  <2> QED
    BY <2>1
<1>4. k - 1 \in Nat /\ k - 1 \notin without /\ (k - 1) + 1 = k
  BY <1>2, <1>3
<1>5. PICK S : OldestOf(P, k - 1, S)
  BY <1>4
<1>6. \E T : OldestOf(P, (k - 1) + 1, T)
  BY <1>4, <1>5, OneMore
<1> QED
  BY <1>4, <1>6

(* Whatever rows are pending and whatever the batch size, there is a batch    *)
(* that the statement of #claim can take, and no such batch is empty: a run   *)
(* that claims no row found none pending, which is when Claim is not enabled. *)
THEOREM ClaimHasABatch ==
  ASSUME Pending # {}
  PROVE  /\ \E S \in SUBSET Pending : Oldest(S)
         /\ \A S : Oldest(S) => S # {}
<1>1. Pending \in SUBSET Nat
  BY DEF Pending
<1>2. PICK S : OldestOf(Pending, BatchSize, S)
  BY <1>1, OldestExist
<1>3. S \in SUBSET Pending /\ Oldest(S)
  BY <1>2 DEF OldestOf, Oldest
<1>4. Cardinality({}) = 0
  BY FS_EmptySet
<1> QED
  BY <1>3, <1>4 DEF Oldest

-----------------------------------------------------------------------------
(* The pattern matcher *)

(* Patterns and types of any length match as the comment of matcher.ts says: *)
(* "*" for one segment, "**" at the end for one or more.                     *)
THEOREM MatcherDescribed ==
  ASSUME NEW S, NEW pattern \in Seq(S), NEW type \in Seq(S)
  PROVE  Matches(pattern, type) <=> Describes(pattern, type)
<1> DEFINE last == Len(pattern)
           stops(i) == pattern[i] = "**" \/ ~Takes(pattern[i], type[i])
           ends == {i \in 1 .. last : i <= Len(type) /\ stops(i)}
           trailing == last > 0 /\ pattern[last] = "**"
<1>1. last \in Nat /\ Len(type) \in Nat
  OBVIOUS
<1>2. Matches(pattern, type) <=>
        IF ends = {} THEN last = Len(type)
        ELSE pattern[last] = "**" /\ last \in ends /\ \A i \in ends : last <= i
  BY DEF Matches
<1>3. Describes(pattern, type) <=>
        /\ IF trailing THEN Len(type) >= last ELSE Len(type) = last
        /\ \A i \in 1 .. (IF trailing THEN last - 1 ELSE last) : ~stops(i)
  BY DEF Describes
<1>4. trailing => stops(last)
  OBVIOUS
<1> HIDE DEF stops
<1>5. CASE trailing
  <2>1. Matches(pattern, type) <=> last <= Len(type) /\ \A i \in ends : last <= i
    BY <1>1, <1>2, <1>4, <1>5
  <2>2. last <= Len(type) =>
          ((\A i \in ends : last <= i) <=> \A i \in 1 .. last - 1 : ~stops(i))
    BY <1>1
  <2>3. Len(type) >= last <=> last <= Len(type)
    BY <1>1
  <2> QED
    BY <1>3, <1>5, <2>1, <2>2, <2>3
<1>6. CASE ~trailing
  <2>1. Matches(pattern, type) <=> ends = {} /\ last = Len(type)
    BY <1>1, <1>2, <1>6
  <2>2. last = Len(type) => (ends = {} <=> \A i \in 1 .. last : ~stops(i))
    BY <1>1
  <2> QED
    BY <1>3, <1>6, <2>1, <2>2
<1> QED
  BY <1>5, <1>6
=============================================================================
