----------------------------- MODULE Invitations -----------------------------
(***************************************************************************)
(* Invitations (modules/module-iam): createInvitation, acceptInvitation    *)
(* and revokeInvitation, each called in the context of some company, with  *)
(* the constraints of module_iam.invitations and the RLS policy of         *)
(* core.memberships.  A creation and a revocation are about an invitation  *)
(* of that company; an acceptance finds the row by its token only, so that *)
(* the company of its context may be another one.                          *)
(*                                                                         *)
(* Every call is a sequence of statements that commit one by one, each     *)
(* awaited: the invitation's row, for an acceptance the membership, then   *)
(* the event.  Calls interleave between them, and a call may end there.    *)
(* The invitation statements run on systemDb, which is taken to bypass RLS *)
(* as context.ts says.  A refused call reads and changes nothing.          *)
(***************************************************************************)
CONSTANTS
  Requests,        \* calls in flight at most at the same time
  Companies,
  Invitations,     \* ids the database may give to invitations
  Emails,          \* invited addresses
  Users,           \* users that may accept
  Admins,          \* Admins[c]: those that are owner or admin of c at first
  Policed,         \* may tenantDb be subject to the RLS policies, as app_tenant
                   \* is?  Integration tests pass one that bypasses them
  MayFail,         \* statements may fail and processes may die
  None             \* no email, user, invitation, company

ASSUME InvitationsAssumption ==
  /\ Admins \in [Companies -> SUBSET Users]
  /\ Policed \subseteq BOOLEAN
  /\ MayFail \in BOOLEAN
  /\ None \notin Users \union Emails \union Invitations \union Companies

VARIABLES
  status,      \* invitations.status, "absent" before the insert
  company,     \* invitations.company_id
  expired,     \* invitations whose expires_at has passed
  email,       \* invitations.invited_email
  role,        \* invitations.invited_role
  acceptedBy,  \* invitations.accepted_by
  acceptedIn,  \* history: the company in whose context it was accepted
  member,      \* member[c][u]: role of core.memberships, or "none"
  told,        \* told[i]: outcomes of i for which an event was emitted
  pc, subject, \* where each call is, and the invitation it is about
  context,     \* the company of the call's context, ctx.companyId
  actor,       \* the accepting user of the call
  policed,     \* the policies apply to tenantDb
  cut          \* history: invitations of calls that ended by an exception
               \* or a crash

invitation == <<status, company, expired, email, role, acceptedBy, acceptedIn>>
call == <<pc, subject, context, actor>>
vars == <<status, company, expired, email, role, acceptedBy, acceptedIn, member, told,
          pc, subject, context, actor, policed, cut>>

(* Of the four roles owner is modelled as admin, and viewer as member.       *)
Roles == {"member", "admin"}
Statuses == {"absent", "pending", "accepted", "revoked"}
Steps == {"idle", "create_event", "membership", "accept_event", "revoke_event"}
(* An event names the company of the call's context.                         *)
Outcomes == {"created", "accepted", "revoked"} \X (Users \union {None}) \X Companies

-----------------------------------------------------------------------------
Init ==
  /\ status = [i \in Invitations |-> "absent"]
  /\ company = [i \in Invitations |-> None]
  /\ expired = {}
  /\ email = [i \in Invitations |-> None]
  /\ role = [i \in Invitations |-> "member"]
  /\ acceptedBy = [i \in Invitations |-> None]
  /\ acceptedIn = [i \in Invitations |-> None]
  /\ member = [c \in Companies |->
                 [u \in Users |-> IF u \in Admins[c] THEN "admin" ELSE "none"]]
  /\ told = [i \in Invitations |-> {}]
  /\ pc = [q \in Requests |-> "idle"]
  /\ subject = [q \in Requests |-> None]
  /\ context = [q \in Requests |-> None]
  /\ actor = [q \in Requests |-> None]
  /\ policed \in Policed
  /\ cut = {}

Continue(q, step, i, c, u) ==
  /\ pc' = [pc EXCEPT ![q] = step]
  /\ subject' = [subject EXCEPT ![q] = i]
  /\ context' = [context EXCEPT ![q] = c]
  /\ actor' = [actor EXCEPT ![q] = u]

Finish(q) == Continue(q, "idle", None, None, None)

(* invitations_single_pending_idx: of one address in one company, one row is *)
(* pending.  The index does not look at expires_at.                          *)
PendingFor(c, e) ==
  \E i \in Invitations : status[i] = "pending" /\ company[i] = c /\ email[i] = e

Create(q, c, i, e, r) ==
  /\ pc[q] = "idle"
  /\ status[i] = "absent"
  /\ ~PendingFor(c, e)
  /\ status' = [status EXCEPT ![i] = "pending"]
  /\ company' = [company EXCEPT ![i] = c]
  /\ email' = [email EXCEPT ![i] = e]
  /\ role' = [role EXCEPT ![i] = r]
  /\ Continue(q, "create_event", i, c, None)
  /\ UNCHANGED <<expired, acceptedBy, acceptedIn, member, told, policed, cut>>

(* expires_at passes.                                                        *)
Expire(i) ==
  /\ status[i] # "absent"
  /\ i \notin expired
  /\ expired' = expired \union {i}
  /\ UNCHANGED <<status, company, email, role, acceptedBy, acceptedIn, member, told,
                 call, policed, cut>>

(* Variant: the UPDATE tests no status.  invitations_guard_status refuses    *)
(* only a change of status.                                                  *)
ConsumeAgain(q, c, i, u) ==
  /\ pc[q] = "idle"
  /\ status[i] \in {"pending", "accepted"} /\ i \notin expired
  /\ status' = [status EXCEPT ![i] = "accepted"]
  /\ acceptedBy' = [acceptedBy EXCEPT ![i] = u]
  /\ acceptedIn' = [acceptedIn EXCEPT ![i] = c]
  /\ Continue(q, "membership", i, c, u)
  /\ UNCHANGED <<company, expired, email, role, member, told, policed, cut>>

(* Variant: a call that consumed nothing goes on.                            *)
ConsumeOrNot(q, c, i, u) ==
  /\ pc[q] = "idle"
  /\ status[i] # "absent"
  /\ IF status[i] = "pending" /\ i \notin expired
     THEN /\ status' = [status EXCEPT ![i] = "accepted"]
          /\ acceptedBy' = [acceptedBy EXCEPT ![i] = u]
          /\ acceptedIn' = [acceptedIn EXCEPT ![i] = c]
     ELSE UNCHANGED <<status, acceptedBy, acceptedIn>>
  /\ Continue(q, "membership", i, c, u)
  /\ UNCHANGED <<company, expired, email, role, member, told, policed, cut>>

(* The "atomic consume": one UPDATE that tests the token, the status and the *)
(* expiry, and no company: c, the company of the context, may be another one *)
(* than the invitation's.                                                    *)
Consume(q, c, i, u) ==
  /\ pc[q] = "idle"
  /\ status[i] = "pending" /\ i \notin expired
  /\ status' = [status EXCEPT ![i] = "accepted"]
  /\ acceptedBy' = [acceptedBy EXCEPT ![i] = u]
  /\ acceptedIn' = [acceptedIn EXCEPT ![i] = c]
  /\ Continue(q, "membership", i, c, u)
  /\ UNCHANGED <<company, expired, email, role, member, told, policed, cut>>

(* memberships_insert_in_company: the current user, who is the one that      *)
(* accepts, must be owner or admin of the company of the context.            *)
MayInsertMembership(c, u) == policed => member[c][u] = "admin"

(* Variant: the user is lost before the event.                               *)
InsertMembershipForgetsUser(q) ==
  /\ pc[q] = "membership"
  /\ MayInsertMembership(context[q], actor[q])
  /\ member' = [member EXCEPT ![context[q]][actor[q]] =
                  IF @ = "none" THEN role[subject[q]] ELSE @]
  /\ Continue(q, "accept_event", subject[q], context[q], None)
  /\ UNCHANGED <<invitation, told, policed, cut>>

(* Variant: a conflict, nothing inserted, ends the call.                     *)
InsertMembershipOnce(q) ==
  /\ pc[q] = "membership"
  /\ MayInsertMembership(context[q], actor[q])
  /\ member' = [member EXCEPT ![context[q]][actor[q]] =
                  IF @ = "none" THEN role[subject[q]] ELSE @]
  /\ IF member[context[q]][actor[q]] = "none"
     THEN Continue(q, "accept_event", subject[q], context[q], actor[q])
     ELSE Finish(q)
  /\ UNCHANGED <<invitation, told, policed, cut>>

(* A transaction of its own, in the company of the context.  ON CONFLICT  *)
(* DO NOTHING keeps the role of a member.                                    *)
InsertMembership(q) ==
  /\ pc[q] = "membership"
  /\ MayInsertMembership(context[q], actor[q])
  /\ member' = [member EXCEPT ![context[q]][actor[q]] =
                  IF @ = "none" THEN role[subject[q]] ELSE @]
  /\ Continue(q, "accept_event", subject[q], context[q], actor[q])
  /\ UNCHANGED <<invitation, told, policed, cut>>

(* The policy's error leaves acceptInvitation as an exception.               *)
MembershipDenied(q) ==
  /\ pc[q] = "membership"
  /\ ~MayInsertMembership(context[q], actor[q])
  /\ cut' = cut \union {subject[q]}
  /\ Finish(q)
  /\ UNCHANGED <<invitation, member, told, policed>>

(* Variant: a revocation does not test the status it finds, only the trigger *)
(* does.                                                                     *)
RevokeAgain(q, c, i) ==
  /\ pc[q] = "idle"
  /\ status[i] \in {"pending", "revoked", "accepted"} /\ company[i] = c
  /\ status' = [status EXCEPT ![i] = IF @ = "accepted" THEN @ ELSE "revoked"]
  /\ Continue(q, "revoke_event", i, c, None)
  /\ UNCHANGED <<company, expired, email, role, acceptedBy, acceptedIn, member, told,
                 policed, cut>>

(* One UPDATE that tests the company and the status, and not the expiry.     *)
Revoke(q, c, i) ==
  /\ pc[q] = "idle"
  /\ status[i] = "pending" /\ company[i] = c
  /\ status' = [status EXCEPT ![i] = "revoked"]
  /\ Continue(q, "revoke_event", i, c, None)
  /\ UNCHANGED <<company, expired, email, role, acceptedBy, acceptedIn, member, told,
                 policed, cut>>

Emit(q, step, outcome) ==
  /\ pc[q] = step
  /\ told' = [told EXCEPT ![subject[q]] = @ \union {outcome}]
  /\ Finish(q)
  /\ UNCHANGED <<invitation, member, policed, cut>>

EmitCreated(q) == Emit(q, "create_event", <<"created", None, context[q]>>)
EmitAccepted(q) == Emit(q, "accept_event", <<"accepted", actor[q], context[q]>>)
EmitRevoked(q) == Emit(q, "revoke_event", <<"revoked", None, context[q]>>)

(* The next statement fails and the error propagates, or the process dies.   *)
Abandon(q) ==
  /\ MayFail
  /\ pc[q] # "idle"
  /\ cut' = cut \union {subject[q]}
  /\ Finish(q)
  /\ UNCHANGED <<invitation, member, told, policed>>

Next ==
  \/ \E q \in Requests :
       \/ \E c \in Companies, i \in Invitations :
            \/ \E e \in Emails, r \in Roles : Create(q, c, i, e, r)
            \/ \E u \in Users : Consume(q, c, i, u)
            \/ Revoke(q, c, i)
       \/ InsertMembership(q) \/ MembershipDenied(q)
       \/ EmitCreated(q) \/ EmitAccepted(q) \/ EmitRevoked(q)
       \/ Abandon(q)
  \/ \E i \in Invitations : Expire(i)

Spec == Init /\ [][Next]_vars

-----------------------------------------------------------------------------
(* Properties *)

TypeOK ==
  /\ status \in [Invitations -> Statuses]
  /\ company \in [Invitations -> Companies \union {None}]
  /\ expired \subseteq Invitations
  /\ email \in [Invitations -> Emails \union {None}]
  /\ role \in [Invitations -> Roles]
  /\ acceptedBy \in [Invitations -> Users \union {None}]
  /\ acceptedIn \in [Invitations -> Companies \union {None}]
  /\ member \in [Companies -> [Users -> Roles \union {"none"}]]
  /\ told \in [Invitations -> SUBSET Outcomes]
  /\ pc \in [Requests -> Steps]
  /\ subject \in [Requests -> Invitations \union {None}]
  /\ context \in [Requests -> Companies \union {None}]
  /\ actor \in [Requests -> Users \union {None}]
  /\ \A q \in Requests :
       pc[q] # "idle" => subject[q] \in Invitations /\ context[q] \in Companies
  /\ \A q \in Requests :
       pc[q] \in {"membership", "accept_event"} => actor[q] \in Users
  /\ policed \in BOOLEAN
  /\ cut \subseteq Invitations

(* "Concurrent accept of same invitation: exactly one wins": an invitation   *)
(* that was accepted or revoked keeps its status, the user that accepted it  *)
(* and the company it was accepted in.                                       *)
KeepsOutcomes ==
  \A i \in Invitations :
    status[i] \in {"accepted", "revoked"} =>
      /\ status'[i] = status[i]
      /\ acceptedBy'[i] = acceptedBy[i] /\ acceptedIn'[i] = acceptedIn[i]

OutcomeFinal == [][KeepsOutcomes]_vars

(* The role that u held first in c, and every role of an invitation that u   *)
(* accepted in the context of c.                                             *)
Entitled(c, u) ==
  {IF u \in Admins[c] THEN "admin" ELSE "none"} \union
  {role[i] : i \in {j \in Invitations : /\ status[j] = "accepted"
                                        /\ acceptedBy[j] = u /\ acceptedIn[j] = c}}

(* A membership is one of the company's first, or has the role of an         *)
(* invitation that this user, and no other, has accepted in the context of   *)
(* this company, and of no other: an invitation makes one member at most, of *)
(* one company, which need not be the company that invited.                  *)
MembershipsAccepted ==
  \A c \in Companies, u \in Users : member[c][u] \in Entitled(c, u)

(* What is committed of an accepted or revoked invitation.                   *)
Committed(i) ==
  IF status[i] = "accepted" THEN <<"accepted", acceptedBy[i], acceptedIn[i]>>
                            ELSE <<"revoked", None, company[i]>>

(* Consumers of the events are told of at most one outcome of an invitation, *)
(* and of that which is committed, by the user and in the company that       *)
(* committed it.                                                             *)
TellsCommitted ==
  \A i \in Invitations : \A outcome \in told[i] :
    \/ outcome = <<"created", None, company[i]>> /\ status[i] # "absent"
    \/ outcome = Committed(i) /\ status[i] \in {"accepted", "revoked"}

(* Where a call is whose acceptance or revocation is committed.              *)
Settled == {"membership", "accept_event", "revoke_event"}

(* No outcome is told twice, nor a second membership tried, whichever calls  *)
(* overlap: what a call is about to tell of an acceptance or a revocation    *)
(* was not told before, and no other call is about to tell it.               *)
OutcomesToldOnce ==
  \A q \in Requests :
    pc[q] \in Settled =>
      /\ Committed(subject[q]) \notin told[subject[q]]
      /\ \A o \in Requests \ {q} :
           pc[o] \in Settled => subject[o] # subject[q]

Quiescent == \A q \in Requests : pc[q] = "idle"

(* "Invitation acceptance uses the tenant DB path and core RLS to create     *)
(* membership state": once the calls have returned, who accepted is a member *)
(* of the company in whose context they accepted.                            *)
AcceptedAreMembers ==
  Quiescent =>
    \A i \in Invitations :
      status[i] = "accepted" => member[acceptedIn[i]][acceptedBy[i]] # "none"

(* Each committed acceptance and revocation has its event, or a call that    *)
(* will emit it, unless a call about that invitation was cut short.          *)
OutcomesTold ==
  \A i \in Invitations :
    status[i] \in {"accepted", "revoked"} =>
      \/ Committed(i) \in told[i]
      \/ \E q \in Requests : subject[q] = i
      \/ i \in cut
=============================================================================
