-------------------------- MODULE MCTenantIsolation --------------------------
(***************************************************************************)
(* An instance of TenantIsolation for TLC.                                 *)
(***************************************************************************)
EXTENDS TenantIsolation, TLC

CONSTANTS A, B, u1, u2, r1, r2, c1, c2,
          admin1, member2, free, module, audit, auditSystem, outbox, session,
          companyB, user1, user2, credential

Is(k, u) == [company |-> k, user |-> u, admin |-> FALSE, value |-> "old"]
New(row) == [row EXCEPT !.value = "new"]
Admin(k, u) == [Is(k, u) EXCEPT !.admin = TRUE]

Tabled ==
  [i \in Rows |->
     CASE i \in {admin1, member2, free} -> "memberships"
       [] i = module -> "company_modules"
       [] i \in {audit, auditSystem} -> "audit_logs"
       [] i = outbox -> "outbox_events"
       [] i = session -> "sessions"
       [] i = companyB -> "companies"
       [] i \in {user1, user2} -> "users"
       [] i = credential -> "credentials"]

(* In company A, u1 is admin and u2 a member.                                *)
Seeded ==
  [i \in Rows |->
     CASE i = admin1 -> Admin(A, u1)
       [] i = member2 -> Is(A, u2)
       [] i \in {module, outbox} -> Is(A, Nobody)
       [] i = session -> Is(A, u2)
       [] i = auditSystem -> Is(Nobody, Nobody)
       [] i = companyB -> Is(B, Nobody)
       [] i \in {user1, credential} -> Is(Nobody, u1)
       [] i = user2 -> Is(Nobody, u2)
       [] i \in {free, audit} -> Absent]

(* Roles change, rows are moved to another company, users to another id.     *)
Tried ==
  [i \in Rows |->
     CASE i = admin1 -> {Is(A, u1), Admin(B, u1)}
       [] i = member2 -> {Admin(A, u2), Is(B, u2)}
       [] i = free -> {Admin(B, u1), Admin(A, u2)}
       [] i = module -> {New(Is(A, Nobody)), Is(B, Nobody)}
       [] i = audit -> {Is(A, Nobody), Is(B, Nobody)}
       [] i = auditSystem -> {New(Is(Nobody, Nobody))}
       [] i = outbox -> {New(Is(A, Nobody))}
       [] i = session -> {New(Is(A, u2)), Is(B, u2)}
       [] i = companyB -> {New(Is(B, Nobody))}
       [] i = user1 -> {New(Is(Nobody, u1))}
       [] i \in {user2, credential} -> {New(Seeded[i])}]

Symmetry == Permutations({r1, r2}) \union Permutations({c1, c2})
=============================================================================
