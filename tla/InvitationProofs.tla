--------------------------- MODULE InvitationProofs ---------------------------
(***************************************************************************)
(* Theorems of Invitations, for any number of calls, companies,            *)
(* invitations, users and addresses, with and without the policies.        *)
(***************************************************************************)
EXTENDS Invitations, TLAPS

USE InvitationsAssumption DEF InvitationsAssumption

(* A call that has committed its first statement finds the row as it left    *)
(* it.                                                                       *)
CallsHold ==
  \A q \in Requests :
    /\ pc[q] = "create_event" =>
         status[subject[q]] # "absent" /\ context[q] = company[subject[q]]
    /\ pc[q] \in {"membership", "accept_event"} =>
         /\ status[subject[q]] = "accepted"
         /\ acceptedBy[subject[q]] = actor[q] /\ acceptedIn[subject[q]] = context[q]
    /\ pc[q] = "revoke_event" =>
         status[subject[q]] = "revoked" /\ context[q] = company[subject[q]]

(* accepted_by is set with the status, in the context of some company.       *)
AcceptedSet ==
  \A i \in Invitations :
    status[i] = "accepted" => acceptedBy[i] \in Users /\ acceptedIn[i] \in Companies

(* Who is about to tell, where OutcomesTold asks for any call.               *)
SettledTold ==
  \A i \in Invitations :
    status[i] \in {"accepted", "revoked"} =>
      \/ Committed(i) \in told[i]
      \/ \E q \in Requests : subject[q] = i /\ pc[q] \in Settled
      \/ i \in cut

IInv ==
  /\ TypeOK /\ CallsHold /\ AcceptedSet /\ SettledTold
  /\ MembershipsAccepted /\ TellsCommitted /\ OutcomesToldOnce

-----------------------------------------------------------------------------
LEMMA InvInit == Init => IInv
<1> SUFFICES ASSUME Init PROVE IInv
  OBVIOUS
<1>1. TypeOK
  BY DEF Init, TypeOK, Statuses, Roles, Steps
<1>2. CallsHold /\ AcceptedSet /\ SettledTold /\ TellsCommitted /\ OutcomesToldOnce
  BY DEF Init, CallsHold, AcceptedSet, SettledTold, TellsCommitted, OutcomesToldOnce,
         Settled
<1>3. MembershipsAccepted
  BY DEF Init, MembershipsAccepted, Entitled
<1> QED
  BY <1>1, <1>2, <1>3 DEF IInv

(* What a call goes on with, or Finish, leaves of the others.                *)
LEMMA ContinueTyped ==
  ASSUME TypeOK, NEW q \in Requests, NEW step \in Steps,
         NEW i \in Invitations \union {None}, NEW c \in Companies \union {None},
         NEW u \in Users \union {None}, Continue(q, step, i, c, u)
  PROVE  /\ pc' \in [Requests -> Steps] /\ pc'[q] = step
         /\ subject' \in [Requests -> Invitations \union {None}] /\ subject'[q] = i
         /\ context' \in [Requests -> Companies \union {None}] /\ context'[q] = c
         /\ actor' \in [Requests -> Users \union {None}] /\ actor'[q] = u
         /\ \A o \in Requests \ {q} :
              /\ pc'[o] = pc[o] /\ subject'[o] = subject[o]
              /\ context'[o] = context[o] /\ actor'[o] = actor[o]
  BY DEF TypeOK, Continue

LEMMA FinishTyped ==
  ASSUME TypeOK, NEW q \in Requests, Finish(q)
  PROVE  /\ pc' \in [Requests -> Steps] /\ pc'[q] = "idle"
         /\ subject' \in [Requests -> Invitations \union {None}] /\ subject'[q] = None
         /\ context' \in [Requests -> Companies \union {None}]
         /\ actor' \in [Requests -> Users \union {None}]
         /\ \A o \in Requests \ {q} :
              /\ pc'[o] = pc[o] /\ subject'[o] = subject[o]
              /\ context'[o] = context[o] /\ actor'[o] = actor[o]
  BY ContinueTyped DEF Finish, Steps

(* An accepted invitation that keeps its status, user, company and role      *)
(* entitles its user to it for good.                                         *)
LEMMA EntitledGrows ==
  ASSUME \A i \in Invitations : status[i] = "accepted" =>
           /\ status'[i] = "accepted" /\ acceptedBy'[i] = acceptedBy[i]
           /\ acceptedIn'[i] = acceptedIn[i] /\ role'[i] = role[i]
  PROVE  \A c \in Companies, u \in Users : Entitled(c, u) \subseteq Entitled(c, u)'
<1> SUFFICES ASSUME NEW c \in Companies, NEW u \in Users, NEW x \in Entitled(c, u)
             PROVE  x \in Entitled(c, u)'
  OBVIOUS
<1>1. CASE x = IF u \in Admins[c] THEN "admin" ELSE "none"
  BY <1>1 DEF Entitled
<1>2. CASE \E i \in Invitations :
             /\ status[i] = "accepted" /\ acceptedBy[i] = u /\ acceptedIn[i] = c
             /\ x = role[i]
  BY <1>2 DEF Entitled
<1> QED
  BY <1>1, <1>2 DEF Entitled

LEMMA CreateKeeps ==
  ASSUME IInv, NEW q \in Requests, NEW c \in Companies, NEW i \in Invitations,
         NEW e \in Emails, NEW r \in Roles, Create(q, c, i, e, r)
  PROVE  IInv'
<1>1. /\ status[i] = "absent" /\ pc[q] = "idle"
      /\ status' = [status EXCEPT ![i] = "pending"]
      /\ company' = [company EXCEPT ![i] = c]
      /\ email' = [email EXCEPT ![i] = e] /\ role' = [role EXCEPT ![i] = r]
      /\ UNCHANGED <<expired, acceptedBy, acceptedIn, member, told, policed, cut>>
  BY DEF Create
<1>2. /\ pc' \in [Requests -> Steps] /\ pc'[q] = "create_event"
      /\ subject' \in [Requests -> Invitations \union {None}] /\ subject'[q] = i
      /\ context' \in [Requests -> Companies \union {None}] /\ context'[q] = c
      /\ actor' \in [Requests -> Users \union {None}] /\ actor'[q] = None
      /\ \A o \in Requests \ {q} :
           /\ pc'[o] = pc[o] /\ subject'[o] = subject[o]
           /\ context'[o] = context[o] /\ actor'[o] = actor[o]
  BY ContinueTyped DEF IInv, Create, Steps
<1>3. \A j \in Invitations : status[j] # "absent" =>
        status'[j] = status[j] /\ company'[j] = company[j] /\ Committed(j)' = Committed(j)
  BY <1>1 DEF IInv, TypeOK, Committed
<1>4. TypeOK'
  BY <1>1, <1>2 DEF IInv, TypeOK, Statuses
<1>5. CallsHold'
  BY <1>1, <1>2 DEF IInv, TypeOK, CallsHold
<1>6. AcceptedSet' /\ TellsCommitted'
  BY <1>1, <1>3 DEF IInv, TypeOK, AcceptedSet, TellsCommitted
<1>7. SettledTold' /\ OutcomesToldOnce'
  <2>1. \A o \in Requests : pc'[o] \in Settled => 
          o # q /\ pc[o] \in Settled /\ subject'[o] = subject[o]
    BY <1>2 DEF Settled
  <2>2. \A o \in Requests : pc[o] \in Settled =>
          subject[o] \in Invitations /\ status[subject[o]] # "absent"
    BY DEF IInv, TypeOK, CallsHold, Settled
  <2>3. OutcomesToldOnce'
    BY <1>1, <1>3, <2>1, <2>2 DEF IInv, OutcomesToldOnce
  <2>4. SettledTold'
    <3> SUFFICES ASSUME NEW j \in Invitations, status'[j] \in {"accepted", "revoked"}
                 PROVE  \/ Committed(j)' \in told'[j]
                        \/ \E o \in Requests : subject'[o] = j /\ pc'[o] \in Settled
                        \/ j \in cut'
      BY DEF SettledTold
    <3>1. status[j] = status'[j] /\ Committed(j)' = Committed(j) /\ told'[j] = told[j]
      BY <1>1, <1>3 DEF IInv, TypeOK
    <3>2. \A o \in Requests : pc[o] \in Settled =>
            pc'[o] \in Settled /\ subject'[o] = subject[o]
      BY <1>1, <1>2 DEF Settled
    <3> QED
      BY <1>1, <3>1, <3>2 DEF IInv, SettledTold
  <2> QED
    BY <2>3, <2>4
<1>8. MembershipsAccepted'
  <2>1. \A d \in Companies, u \in Users : Entitled(d, u) \subseteq Entitled(d, u)'
    BY <1>1, EntitledGrows DEF IInv, TypeOK
  <2> QED
    BY <1>1, <2>1 DEF IInv, MembershipsAccepted
<1> QED
  BY <1>4, <1>5, <1>6, <1>7, <1>8 DEF IInv

(* Nobody is about to tell anything but the creation of a pending            *)
(* invitation, nor has told anything else of it.                             *)
LEMMA PendingUnsettled ==
  ASSUME IInv, NEW i \in Invitations, status[i] = "pending"
  PROVE  /\ \A q \in Requests : pc[q] \in Settled => subject[q] # i
         /\ \A outcome \in told[i] : outcome = <<"created", None, company[i]>>
  BY DEF IInv, CallsHold, TellsCommitted, Settled

(* The first statement of an acceptance and that of a revocation: the row is *)
(* settled, and the call is about to tell it.                                *)
LEMMA SettleKeeps ==
  ASSUME IInv, NEW q \in Requests, NEW c \in Companies, NEW i \in Invitations,
         NEW u \in Users \union {None}, NEW step \in Settled, status[i] = "pending",
         pc[q] = "idle", Continue(q, step, i, c, u),
         UNCHANGED <<company, expired, email, role, member, told, policed, cut>>,
         \/ /\ step = "membership" /\ u \in Users
            /\ status' = [status EXCEPT ![i] = "accepted"]
            /\ acceptedBy' = [acceptedBy EXCEPT ![i] = u]
            /\ acceptedIn' = [acceptedIn EXCEPT ![i] = c]
         \/ /\ step = "revoke_event" /\ company[i] = c
            /\ status' = [status EXCEPT ![i] = "revoked"]
            /\ UNCHANGED <<acceptedBy, acceptedIn>>
  PROVE  IInv'
<1>1. /\ pc' \in [Requests -> Steps] /\ pc'[q] = step
      /\ subject' \in [Requests -> Invitations \union {None}] /\ subject'[q] = i
      /\ context' \in [Requests -> Companies \union {None}] /\ context'[q] = c
      /\ actor' \in [Requests -> Users \union {None}] /\ actor'[q] = u
      /\ \A o \in Requests \ {q} :
           /\ pc'[o] = pc[o] /\ subject'[o] = subject[o]
           /\ context'[o] = context[o] /\ actor'[o] = actor[o]
  BY ContinueTyped DEF IInv, Settled, Steps
<1>2. /\ status'[i] \in {"accepted", "revoked"}
      /\ \A j \in Invitations \ {i} :
           /\ status'[j] = status[j] /\ acceptedBy'[j] = acceptedBy[j]
           /\ acceptedIn'[j] = acceptedIn[j] /\ Committed(j)' = Committed(j)
  BY DEF IInv, TypeOK, Committed
<1>3. Committed(i)' # <<"created", None, company[i]>>
  BY <1>2 DEF Committed
<1>4. TypeOK' /\ AcceptedSet'
  <2>1. /\ status' \in [Invitations -> Statuses]
        /\ acceptedBy' \in [Invitations -> Users \union {None}]
        /\ acceptedIn' \in [Invitations -> Companies \union {None}]
        /\ status'[i] = "accepted" => acceptedBy'[i] \in Users /\ acceptedIn'[i] \in Companies
    <3>1. CASE step = "membership"
      <4>1. /\ status' = [status EXCEPT ![i] = "accepted"] /\ u \in Users
            /\ acceptedBy' = [acceptedBy EXCEPT ![i] = u]
            /\ acceptedIn' = [acceptedIn EXCEPT ![i] = c]
        BY <3>1
      <4>2. c \in Companies
        OBVIOUS
      <4> QED
        BY <4>1, <4>2 DEF IInv, TypeOK, Statuses
    <3>2. CASE step = "revoke_event"
      BY <3>2 DEF IInv, TypeOK, Statuses
    <3> QED
      BY <3>1, <3>2
  <2>2. step \in {"membership", "accept_event"} => u \in Users
    OBVIOUS
  <2>3. \A o \in Requests :
          /\ pc'[o] # "idle" => subject'[o] \in Invitations /\ context'[o] \in Companies
          /\ pc'[o] \in {"membership", "accept_event"} => actor'[o] \in Users
    BY <1>1, <2>2 DEF IInv, TypeOK
  <2>4. AcceptedSet'
    BY <1>2, <2>1 DEF IInv, AcceptedSet
  <2> QED
    BY <1>1, <2>1, <2>3, <2>4 DEF IInv, TypeOK
<1>5. CallsHold'
  <2>1. CASE step = "membership"
    BY <1>1, <2>1 DEF IInv, TypeOK, CallsHold
  <2>2. CASE step = "revoke_event"
    BY <1>1, <2>2 DEF IInv, TypeOK, CallsHold
  <2> QED
    BY <2>1, <2>2
<1>6. TellsCommitted'
  BY <1>2, PendingUnsettled DEF IInv, TellsCommitted
<1>7. SettledTold'
  BY <1>1, <1>2 DEF IInv, SettledTold, Settled
<1>8. OutcomesToldOnce'
  <2>1. \A o \in Requests \ {q} : pc[o] \in Settled => subject[o] \in Invitations \ {i}
    BY PendingUnsettled DEF IInv, TypeOK, Settled
  <2>2. Committed(i)' \notin told'[i]
    BY <1>3, PendingUnsettled
  <2> QED
    BY <1>1, <1>2, <2>1, <2>2 DEF IInv, OutcomesToldOnce
<1>9. MembershipsAccepted'
  <2>1. \A d \in Companies, v \in Users : Entitled(d, v) \subseteq Entitled(d, v)'
    BY <1>2, EntitledGrows DEF IInv, TypeOK
  <2> QED
    BY <2>1 DEF IInv, MembershipsAccepted
<1> QED
  BY <1>4, <1>5, <1>6, <1>7, <1>8, <1>9 DEF IInv

LEMMA ConsumeKeeps ==
  ASSUME IInv, NEW q \in Requests, NEW c \in Companies, NEW i \in Invitations,
         NEW u \in Users, Consume(q, c, i, u)
  PROVE  IInv'
  BY SettleKeeps DEF Consume, Settled

LEMMA RevokeKeeps ==
  ASSUME IInv, NEW q \in Requests, NEW c \in Companies, NEW i \in Invitations,
         Revoke(q, c, i)
  PROVE  IInv'
  BY SettleKeeps DEF Revoke, Settled

(* A role, once the invitation is accepted, is its user's.                   *)
LEMMA InsertMembershipKeeps ==
  ASSUME IInv, NEW q \in Requests, InsertMembership(q)
  PROVE  IInv'
<1> DEFINE i == subject[q]
           c == context[q]
           u == actor[q]
<1>1. /\ pc[q] = "membership"
      /\ member' = [member EXCEPT ![c][u] = IF @ = "none" THEN role[i] ELSE @]
      /\ UNCHANGED <<status, company, expired, email, role, acceptedBy, acceptedIn, told,
                     policed, cut>>
  BY DEF InsertMembership, invitation
<1>2. i \in Invitations /\ c \in Companies /\ u \in Users
  BY <1>1 DEF IInv, TypeOK
<1>3. /\ pc' \in [Requests -> Steps] /\ pc'[q] = "accept_event"
      /\ subject' \in [Requests -> Invitations \union {None}] /\ subject'[q] = i
      /\ context' \in [Requests -> Companies \union {None}] /\ context'[q] = c
      /\ actor' \in [Requests -> Users \union {None}] /\ actor'[q] = u
      /\ \A o \in Requests \ {q} :
           /\ pc'[o] = pc[o] /\ subject'[o] = subject[o]
           /\ context'[o] = context[o] /\ actor'[o] = actor[o]
  BY <1>2, ContinueTyped DEF IInv, InsertMembership, Steps
<1>4. member' \in [Companies -> [Users -> Roles \union {"none"}]]
  BY <1>1, <1>2 DEF IInv, TypeOK
<1>5. TypeOK'
  BY <1>1, <1>2, <1>3, <1>4 DEF IInv, TypeOK
<1>6. CallsHold'
  BY <1>1, <1>3 DEF IInv, CallsHold
<1>7. AcceptedSet' /\ TellsCommitted'
  BY <1>1 DEF IInv, AcceptedSet, TellsCommitted, Committed
<1>8. SettledTold' /\ OutcomesToldOnce'
  <2>1. \A o \in Requests :
          (pc'[o] \in Settled <=> pc[o] \in Settled) /\ subject'[o] = subject[o]
    BY <1>1, <1>3 DEF Settled
  <2>2. \A j : Committed(j)' = Committed(j)
    BY <1>1 DEF Committed
  <2> QED
    BY <1>1, <2>1, <2>2 DEF IInv, SettledTold, OutcomesToldOnce
<1>9. MembershipsAccepted'
  <2>1. \A d \in Companies, v \in Users : Entitled(d, v)' = Entitled(d, v)
    BY <1>1 DEF Entitled
  <2>2. role[i] \in Entitled(c, u)
    BY <1>1, <1>2 DEF IInv, CallsHold, Entitled
  <2> QED
    BY <1>1, <1>2, <2>1, <2>2 DEF IInv, TypeOK, MembershipsAccepted
<1> QED
  BY <1>5, <1>6, <1>7, <1>8, <1>9 DEF IInv

(* An event that tells what is committed, and was told by nobody else.       *)
LEMMA EmitKeeps ==
  ASSUME IInv, NEW q \in Requests, EmitCreated(q) \/ EmitAccepted(q) \/ EmitRevoked(q)
  PROVE  IInv'
<1> DEFINE i == subject[q]
           creation == <<"created", None, company[i]>>
<1>1. /\ pc[q] # "idle" /\ Finish(q)
      /\ UNCHANGED <<status, company, expired, email, role, acceptedBy, acceptedIn,
                     member, policed, cut>>
  BY DEF EmitCreated, EmitAccepted, EmitRevoked, Emit, invitation
<1>2. i \in Invitations /\ context[q] \in Companies
  BY <1>1 DEF IInv, TypeOK
<1>3. PICK outcome \in Outcomes :
        /\ \/ pc[q] = "create_event" /\ outcome = creation /\ status[i] # "absent"
           \/ /\ pc[q] \in Settled /\ outcome = Committed(i)
              /\ status[i] \in {"accepted", "revoked"}
        /\ told' = [told EXCEPT ![i] = @ \union {outcome}]
  <2>1. CASE EmitCreated(q)
    BY <1>2, <2>1 DEF EmitCreated, Emit, Outcomes, IInv, CallsHold
  <2>2. CASE EmitAccepted(q)
    <3>1. actor[q] \in Users /\ Committed(i) = <<"accepted", actor[q], context[q]>>
      BY <2>2 DEF EmitAccepted, Emit, IInv, TypeOK, CallsHold, Committed
    <3> QED
      BY <1>2, <2>2, <3>1 DEF EmitAccepted, Emit, Outcomes, Settled, IInv, CallsHold
  <2>3. CASE EmitRevoked(q)
    <3>1. Committed(i) = <<"revoked", None, context[q]>>
      BY <2>3 DEF EmitRevoked, Emit, IInv, CallsHold, Committed
    <3> QED
      BY <1>2, <2>3, <3>1 DEF EmitRevoked, Emit, Outcomes, Settled, IInv, CallsHold
  <2> QED
    BY <2>1, <2>2, <2>3
<1>4. \A j \in Invitations : Committed(j)' = Committed(j) /\ Committed(j)[1] # "created"
  BY <1>1 DEF Committed
<1>5. /\ told'[i] = told[i] \union {outcome}
      /\ \A j \in Invitations \ {i} : told'[j] = told[j]
  BY <1>2, <1>3 DEF IInv, TypeOK
<1>6. /\ pc'[q] = "idle"
      /\ \A o \in Requests \ {q} :
           /\ pc'[o] = pc[o] /\ subject'[o] = subject[o]
           /\ context'[o] = context[o] /\ actor'[o] = actor[o]
  BY <1>1, FinishTyped DEF IInv
<1>7. TypeOK'
  BY <1>1, <1>2, <1>3, FinishTyped DEF IInv, TypeOK
<1>8. CallsHold'
  BY <1>1, <1>6 DEF IInv, CallsHold
<1>9. AcceptedSet' /\ TellsCommitted'
  BY <1>1, <1>3, <1>4, <1>5 DEF IInv, AcceptedSet, TellsCommitted
<1>10. SettledTold'
  <2> SUFFICES ASSUME NEW j \in Invitations, status[j] \in {"accepted", "revoked"}
               PROVE  \/ Committed(j) \in told'[j]
                      \/ \E o \in Requests : subject'[o] = j /\ pc'[o] \in Settled
                      \/ j \in cut
    BY <1>1, <1>4 DEF SettledTold
  <2>1. CASE j = i /\ pc[q] \in Settled
    BY <1>3, <1>5, <2>1 DEF Settled
  <2>2. CASE ~(j = i /\ pc[q] \in Settled)
    BY <1>5, <1>6, <2>2 DEF IInv, SettledTold
  <2> QED
    BY <2>1, <2>2
<1>11. OutcomesToldOnce'
  <2> SUFFICES ASSUME NEW o \in Requests, pc'[o] \in Settled
               PROVE  /\ Committed(subject[o])' \notin told'[subject'[o]]
                      /\ \A p \in Requests \ {o} :
                           pc'[p] \in Settled => subject'[p] # subject'[o]
    BY DEF OutcomesToldOnce
  <2>0. /\ o # q /\ pc[o] \in Settled /\ subject'[o] = subject[o]
        /\ \A p \in Requests \ {o} :
             pc'[p] \in Settled => subject'[p] # subject[o]
        /\ Committed(subject[o])' = Committed(subject[o])
    BY <1>1, <1>6 DEF Committed, IInv, OutcomesToldOnce, Settled
  <2>1. subject[o] \in Invitations /\ Committed(subject[o]) \notin told[subject[o]]
    BY <2>0 DEF IInv, TypeOK, OutcomesToldOnce, Settled
  <2>2. CASE subject[o] = i
    <3>1. pc[q] \notin Settled
      BY <2>0, <2>2 DEF IInv, OutcomesToldOnce
    <3>2. outcome[1] = "created"
      BY <1>3, <3>1
    <3> QED
      <4>1. Committed(subject[o])[1] # "created"
        BY <1>4, <2>1
      <4> QED
        BY <1>5, <2>0, <2>1, <2>2, <3>2, <4>1
  <2>3. CASE subject[o] # i
    BY <1>5, <2>0, <2>1, <2>3
  <2> QED
    BY <2>2, <2>3
<1>12. MembershipsAccepted'
  BY <1>1 DEF IInv, MembershipsAccepted, Entitled
<1> QED
  BY <1>7, <1>8, <1>9, <1>10, <1>11, <1>12 DEF IInv

(* A call that ends before it has told leaves its invitation in cut.         *)
LEMMA CutKeeps ==
  ASSUME IInv, NEW q \in Requests, MembershipDenied(q) \/ Abandon(q)
  PROVE  IInv'
<1>1. /\ pc[q] # "idle" /\ Finish(q)
      /\ cut' = cut \union {subject[q]}
      /\ UNCHANGED <<status, company, expired, email, role, acceptedBy, acceptedIn,
                     member, told, policed>>
  BY DEF MembershipDenied, Abandon, invitation
<1>2. TypeOK'
  BY <1>1, FinishTyped DEF IInv, TypeOK
<1>3. CallsHold'
  BY <1>1, FinishTyped DEF IInv, CallsHold
<1>4. AcceptedSet' /\ TellsCommitted'
  BY <1>1 DEF IInv, AcceptedSet, TellsCommitted, Committed
<1>5. SettledTold' /\ OutcomesToldOnce'
  BY <1>1, FinishTyped DEF IInv, SettledTold, OutcomesToldOnce, Settled, Committed
<1>6. MembershipsAccepted'
  BY <1>1 DEF IInv, MembershipsAccepted, Entitled
<1> QED
  BY <1>2, <1>3, <1>4, <1>5, <1>6 DEF IInv

LEMMA ExpireKeeps ==
  ASSUME IInv, NEW i \in Invitations, Expire(i)
  PROVE  IInv'
  BY DEF Expire, call, IInv, TypeOK, CallsHold, AcceptedSet, SettledTold,
         MembershipsAccepted, Entitled, TellsCommitted, OutcomesToldOnce, Committed

LEMMA InvNext == IInv /\ [Next]_vars => IInv'
<1> SUFFICES ASSUME IInv, [Next]_vars PROVE IInv'
  OBVIOUS
<1>1. CASE UNCHANGED vars
  BY <1>1 DEF vars, IInv, TypeOK, CallsHold, AcceptedSet, SettledTold,
              MembershipsAccepted, Entitled, TellsCommitted, OutcomesToldOnce, Committed
<1>2. CASE Next
  BY <1>2, CreateKeeps, ConsumeKeeps, RevokeKeeps, InsertMembershipKeeps, EmitKeeps,
     CutKeeps, ExpireKeeps DEF Next
<1> QED
  BY <1>1, <1>2

LEMMA Invariance == Spec => []IInv
BY InvInit, InvNext, PTL DEF Spec

-----------------------------------------------------------------------------
(* Type correctness.                                                         *)
THEOREM TypeCorrect == Spec => []TypeOK
<1>1. IInv => TypeOK
  BY DEF IInv
<1> QED
  BY <1>1, Invariance, PTL

(* Each committed acceptance and revocation is told once at most, and makes  *)
(* one attempt at a membership.                                              *)
THEOREM ToldOnceAtMost == Spec => []OutcomesToldOnce
<1>1. IInv => OutcomesToldOnce
  BY DEF IInv
<1> QED
  BY <1>1, Invariance, PTL

(* Exactly one acceptance or revocation of an invitation wins, for good.     *)
THEOREM OneWins == Spec => OutcomeFinal
<1>1. ASSUME TypeOK, Next PROVE KeepsOutcomes
  <2> SUFFICES ASSUME NEW i \in Invitations, status[i] \in {"accepted", "revoked"}
               PROVE  /\ status'[i] = status[i]
                      /\ acceptedBy'[i] = acceptedBy[i] /\ acceptedIn'[i] = acceptedIn[i]
    BY DEF KeepsOutcomes
  <2>1. ASSUME NEW q \in Requests, NEW c \in Companies, NEW j \in Invitations,
               \/ \E e \in Emails, r \in Roles : Create(q, c, j, e, r)
               \/ \E u \in Users : Consume(q, c, j, u)
               \/ Revoke(q, c, j)
        PROVE  /\ status'[i] = status[i]
               /\ acceptedBy'[i] = acceptedBy[i] /\ acceptedIn'[i] = acceptedIn[i]
    BY <1>1, <2>1 DEF TypeOK, Create, Consume, Revoke
  <2>2. ASSUME NEW q \in Requests,
               \/ InsertMembership(q) \/ MembershipDenied(q) \/ EmitCreated(q)
               \/ EmitAccepted(q) \/ EmitRevoked(q) \/ Abandon(q)
        PROVE  UNCHANGED <<status, acceptedBy, acceptedIn>>
    BY <2>2 DEF InsertMembership, MembershipDenied, EmitCreated, EmitAccepted,
                EmitRevoked, Emit, Abandon, invitation
  <2>3. ASSUME NEW j \in Invitations, Expire(j)
        PROVE  UNCHANGED <<status, acceptedBy, acceptedIn>>
    BY <2>3 DEF Expire
  <2> QED
    BY <1>1, <2>1, <2>2, <2>3 DEF Next
<1>2. TypeOK /\ [Next]_vars => [KeepsOutcomes]_vars
  BY <1>1
<1> QED
  BY <1>2, TypeCorrect, PTL DEF Spec, OutcomeFinal

(* Nobody gets a role in a company but of an invitation, of this company or  *)
(* another, that they accepted in the context of this company.               *)
THEOREM MembersAccepted == Spec => []MembershipsAccepted
<1>1. IInv => MembershipsAccepted
  BY DEF IInv
<1> QED
  BY <1>1, Invariance, PTL

(* Events tell what is committed, and by whom.                               *)
THEOREM EventsTellTheTruth == Spec => []TellsCommitted
<1>1. IInv => TellsCommitted
  BY DEF IInv
<1> QED
  BY <1>1, Invariance, PTL

(* What is committed is told, unless a call was cut short.                   *)
THEOREM OutcomesAreTold == Spec => []OutcomesTold
<1>1. IInv => OutcomesTold
  BY DEF IInv, SettledTold, OutcomesTold
<1> QED
  BY <1>1, Invariance, PTL

-----------------------------------------------------------------------------
(* Acceptance and membership *)

MemberOf(i) == member[acceptedIn[i]][acceptedBy[i]] # "none"

(* Who accepted is a member of the company of that call's context, or a call *)
(* is about to make them one, unless a call about that invitation was cut    *)
(* short.                                                                    *)
MemberOrCut ==
  \A i \in Invitations :
    status[i] = "accepted" =>
      \/ MemberOf(i)
      \/ \E q \in Requests : pc[q] = "membership" /\ subject[q] = i
      \/ i \in cut

LEMMA MemberOrCutNext == IInv /\ MemberOrCut /\ [Next]_vars => MemberOrCut'
<1> SUFFICES ASSUME IInv, MemberOrCut, [Next]_vars PROVE MemberOrCut'
  OBVIOUS
<1> USE DEF IInv, TypeOK
<1>1. ASSUME NEW q \in Requests, NEW c \in Companies, NEW i \in Invitations,
             NEW step \in Steps, pc[q] = "idle", Continue(q, step, i, c, None),
             UNCHANGED <<acceptedBy, acceptedIn, member, cut>>,
             \A j \in Invitations : status'[j] = "accepted" => status[j] = "accepted"
      PROVE  MemberOrCut'
  <2>1. \A o \in Requests \ {q} : pc'[o] = pc[o] /\ subject'[o] = subject[o]
    BY <1>1, ContinueTyped
  <2>2. \A o \in Requests : pc[o] = "membership" => o # q
    BY <1>1
  <2> QED
    BY <1>1, <2>1, <2>2 DEF MemberOrCut, MemberOf
<1>2. ASSUME NEW q \in Requests, NEW c \in Companies, NEW i \in Invitations,
             NEW u \in Users, Consume(q, c, i, u)
      PROVE  MemberOrCut'
  <2>1. /\ pc'[q] = "membership" /\ subject'[q] = i
        /\ \A o \in Requests \ {q} : pc'[o] = pc[o] /\ subject'[o] = subject[o]
    BY <1>2, ContinueTyped DEF Consume, Steps
  <2>2. pc[q] = "idle"
    BY <1>2 DEF Consume
  <2>3. /\ UNCHANGED <<member, cut>>
        /\ \A j \in Invitations \ {i} :
             /\ status'[j] = status[j]
             /\ acceptedBy'[j] = acceptedBy[j] /\ acceptedIn'[j] = acceptedIn[j]
    BY <1>2 DEF Consume
  <2>4. \A o \in Requests : pc[o] = "membership" => pc'[o] = "membership" /\ subject'[o] = subject[o]
    BY <2>1, <2>2
  <2> QED
    BY <2>1, <2>3, <2>4 DEF MemberOrCut, MemberOf
<1>3. ASSUME NEW q \in Requests, InsertMembership(q) PROVE MemberOrCut'
  <2>1. /\ pc[q] = "membership" /\ subject[q] \in Invitations
        /\ context[q] \in Companies /\ actor[q] \in Users
        /\ member' = [member EXCEPT ![context[q]][actor[q]] =
                        IF @ = "none" THEN role[subject[q]] ELSE @]
        /\ Continue(q, "accept_event", subject[q], context[q], actor[q])
        /\ UNCHANGED <<status, acceptedBy, acceptedIn, cut>>
    BY <1>3 DEF InsertMembership, invitation
  <2>2. \A o \in Requests \ {q} : pc'[o] = pc[o] /\ subject'[o] = subject[o]
    BY <2>1, ContinueTyped DEF Steps
  <2>3. /\ acceptedBy[subject[q]] = actor[q] /\ acceptedIn[subject[q]] = context[q]
        /\ status[subject[q]] = "accepted"
    BY <2>1 DEF CallsHold
  <2>4. \A d \in Companies, v \in Users :
          member[d][v] # "none" => member'[d][v] = member[d][v]
    BY <2>1
  <2>5. member'[context[q]][actor[q]] # "none"
    BY <2>1 DEF Roles
  <2>6. \A j \in Invitations :
          status[j] = "accepted" /\ (MemberOf(j) \/ j = subject[q]) => MemberOf(j)'
    <3> SUFFICES ASSUME NEW j \in Invitations, status[j] = "accepted",
                        MemberOf(j) \/ j = subject[q]
                 PROVE  member'[acceptedIn[j]][acceptedBy[j]] # "none"
      BY <2>1 DEF MemberOf
    <3>1. acceptedIn[j] \in Companies /\ acceptedBy[j] \in Users
      BY DEF AcceptedSet
    <3> QED
      BY <2>3, <2>4, <2>5, <3>1 DEF MemberOf
  <2>7. \A j \in Invitations \ {subject[q]}, o \in Requests :
          pc[o] = "membership" /\ subject[o] = j => o # q
    OBVIOUS
  <2> QED
    BY <2>1, <2>2, <2>6, <2>7 DEF MemberOrCut
<1>4. ASSUME NEW q \in Requests, EmitCreated(q) \/ EmitAccepted(q) \/ EmitRevoked(q)
      PROVE  MemberOrCut'
  <2>1. pc[q] # "membership" /\ Finish(q) /\ UNCHANGED <<status, acceptedBy, acceptedIn, member, cut>>
    BY <1>4 DEF EmitCreated, EmitAccepted, EmitRevoked, Emit, invitation
  <2> QED
    BY <2>1, FinishTyped DEF MemberOrCut, MemberOf
<1>5. ASSUME NEW q \in Requests, MembershipDenied(q) \/ Abandon(q) PROVE MemberOrCut'
  <2>1. /\ Finish(q) /\ cut' = cut \union {subject[q]}
        /\ UNCHANGED <<status, acceptedBy, acceptedIn, member>>
    BY <1>5 DEF MembershipDenied, Abandon, invitation
  <2> QED
    BY <2>1, FinishTyped DEF MemberOrCut, MemberOf
<1>6. ASSUME NEW q \in Requests, NEW c \in Companies, NEW i \in Invitations,
             (\E e \in Emails, r \in Roles : Create(q, c, i, e, r)) \/ Revoke(q, c, i)
      PROVE  MemberOrCut'
  <2>1. PICK step \in {"create_event", "revoke_event"} : Continue(q, step, i, c, None)
    BY <1>6 DEF Create, Revoke
  <2>2. /\ pc[q] = "idle" /\ UNCHANGED <<acceptedBy, acceptedIn, member, cut>>
        /\ \A j \in Invitations : status'[j] = "accepted" => status[j] = "accepted"
    BY <1>6 DEF Create, Revoke
  <2> QED
    BY <1>1, <2>1, <2>2 DEF Steps
<1>7. ASSUME UNCHANGED vars \/ \E i \in Invitations : Expire(i) PROVE MemberOrCut'
  <2>1. UNCHANGED <<status, acceptedBy, acceptedIn, member, cut, pc, subject>>
    BY <1>7 DEF vars, invitation, call, Expire
  <2> QED
    BY <2>1 DEF MemberOrCut, MemberOf
<1> QED
  BY <1>2, <1>3, <1>4, <1>5, <1>6, <1>7 DEF Next

(* Where the connection bypasses the policies and nothing fails, everybody   *)
(* who accepted becomes a member of the company in whose context they did:   *)
(* the policy on core.memberships, or a failure, is the only reason for what *)
(* the run InvitationsOnboarding shows.  Of the company that invited they    *)
(* become one only if that is the same.                                      *)
THEOREM AcceptedUnpoliced ==
  ASSUME Policed = {FALSE}, MayFail = FALSE
  PROVE  Spec => []AcceptedAreMembers
<1> DEFINE Uncut == ~policed /\ cut = {}
<1>1. Init => MemberOrCut /\ Uncut
  BY DEF Init, MemberOrCut
<1>2. Uncut /\ [Next]_vars => Uncut'
  <2> SUFFICES ASSUME Uncut, [Next]_vars PROVE Uncut'
    OBVIOUS
  <2>1. ASSUME NEW q \in Requests, NEW c \in Companies, NEW i \in Invitations,
               \/ \E e \in Emails, r \in Roles : Create(q, c, i, e, r)
               \/ \E u \in Users : Consume(q, c, i, u)
               \/ Revoke(q, c, i)
        PROVE  UNCHANGED <<policed, cut>>
    BY <2>1 DEF Create, Consume, Revoke
  <2>2. ASSUME NEW q \in Requests,
               InsertMembership(q) \/ EmitCreated(q) \/ EmitAccepted(q) \/ EmitRevoked(q)
        PROVE  UNCHANGED <<policed, cut>>
    BY <2>2 DEF InsertMembership, EmitCreated, EmitAccepted, EmitRevoked, Emit
  <2>3. ASSUME NEW q \in Requests PROVE ~MembershipDenied(q) /\ ~Abandon(q)
    BY DEF MembershipDenied, MayInsertMembership, Abandon
  <2>4. ASSUME UNCHANGED vars \/ \E i \in Invitations : Expire(i)
        PROVE  UNCHANGED <<policed, cut>>
    BY <2>4 DEF vars, Expire
  <2> QED
    BY <2>1, <2>2, <2>3, <2>4 DEF Next
<1>3. MemberOrCut /\ Uncut => AcceptedAreMembers
  BY DEF MemberOrCut, MemberOf, AcceptedAreMembers, Quiescent
<1> HIDE DEF Uncut
<1> QED
  BY <1>1, <1>2, <1>3, Invariance, MemberOrCutNext, PTL DEF Spec
=============================================================================
