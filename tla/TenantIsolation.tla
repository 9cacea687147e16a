--------------------------- MODULE TenantIsolation ---------------------------
(***************************************************************************)
(* withTenantContext over a pool of app_tenant connections (packages/db),  *)
(* and the row-level security policies of core and module_iam that read    *)
(* the settings it makes.                                                  *)
(*                                                                         *)
(* A request is one call of withTenantContext: a transaction that binds a  *)
(* company and a user and then runs statements, at READ COMMITTED.  Other  *)
(* transactions commit between its statements.  The system role            *)
(* (withSystemContext) has connections of its own, which bypass the        *)
(* policies but not the triggers.                                          *)
(***************************************************************************)
EXTENDS Naturals, FiniteSets

CONSTANTS
  Companies, Users, Requests,
  Connections,     \* of the tenant client's pool
  Nobody,          \* SQL NULL, for a company or a user
  Absent,          \* a row that is not there
  Rows, TableOf,   \* rows that exist or may be inserted, and their tables
  Seed,            \* the rows at first
  Writable,        \* Writable[i]: what statements try to put in row i
  MaxStatements,   \* writes tried by one request
  MaxSystem        \* writes of the system role

Tables == {"companies", "users", "memberships", "company_modules", "audit_logs",
           "outbox_events", "credentials", "sessions", "invitations",
           "password_reset_tokens"}

(* A row, as far as the policies tell: its company and user, and, for a      *)
(* membership, whether its role is owner or admin.                           *)
Record == [company : Companies \union {Nobody}, user : Users \union {Nobody},
           admin : BOOLEAN, value : {"old", "new"}]

(* current_setting(name, true) of a name no transaction of the session has   *)
(* set is NULL; once one has, it is the empty string between transactions.   *)
Unset == "unset"
Empty == ""
NoConnection == "none"

ASSUME TenantAssumption ==
  /\ Nobody \notin Companies \union Users
  /\ {Unset, Empty} \cap (Companies \union Users \union {Nobody}) = {}
  /\ NoConnection \notin Connections
  /\ Absent \notin Record
  /\ TableOf \in [Rows -> Tables]
  /\ Seed \in [Rows -> Record \union {Absent}]
  /\ Writable \in [Rows -> SUBSET Record]
  /\ MaxStatements \in Nat /\ MaxSystem \in Nat

VARIABLES
  db,        \* the committed rows
  setting,   \* the two settings of each connection: Unset, "" or an id
  pc,        \* where each request is
  on,        \* the connection of each request
  company, user,   \* its TenantContext
  pending,   \* the rows its transaction has written
  target,    \* the statement under way: its verb, row and new record
  may,       \* app.current_user_has, as the statement under way sees it
  done,      \* statements it has run
  admins,    \* history: who was committed as admin of which company
  system     \* writes of the system role so far

vars == <<db, setting, pc, on, company, user, pending, target, may, done,
          admins, system>>
context == <<on, company, user>>
statement == <<target, may, done>>

Settings(S) == S \union {Unset, Empty}
NoStatement == [verb |-> "none", row |-> Absent, new |-> Absent]

(* What a request may send: an INSERT, an UPDATE or a DELETE of one row.     *)
Statements ==
  UNION {   [verb : {"insert", "update"}, row : {i}, new : Writable[i]]
         \union {[verb |-> "delete", row |-> i, new |-> Absent]} : i \in Rows}

-----------------------------------------------------------------------------
(* What a statement sees: the committed rows and its transaction's own.      *)

Sees(r) == [i \in Rows |-> IF i \in DOMAIN pending[r] THEN pending[r][i] ELSE db[i]]

(* Variant: an empty setting is cast to uuid, which is an error.             *)
CurrentOrEmpty(s) == IF s = Unset THEN Nobody ELSE s

(* app.current_company_id(), app.current_user_id(): NULLIF(setting, '').     *)
Current(s) == IF s \in {Unset, Empty} THEN Nobody ELSE s

(* Variant: NULL is taken for a value (IS NOT DISTINCT FROM).                *)
NotDistinct(x, y) == x = y

(* SQL equality: NULL equals nothing.                                        *)
Equal(x, y) == x # Nobody /\ x = y

CompanyOf(c) == Current(setting[c].company)
UserOf(c) == Current(setting[c].user)

(* app.current_user_has: every permission is "owner or admin of the current  *)
(* company".                                                                 *)
CurrentUserHas(c, rows) ==
  \E i \in Rows :
    /\ TableOf[i] = "memberships" /\ rows[i] # Absent
    /\ Equal(rows[i].user, UserOf(c))
    /\ Equal(rows[i].company, CompanyOf(c))
    /\ rows[i].admin

InCompany(c, row) == Equal(row.company, CompanyOf(c))
Own(c, row) == Equal(row.user, UserOf(c))

Peer(c, row, rows) ==
  \E i \in Rows :
    /\ TableOf[i] = "memberships" /\ rows[i] # Absent
    /\ InCompany(c, rows[i])
    /\ Equal(rows[i].user, row.user)

(* FOR SELECT ... USING.  The row of a company has its id as company, that of *)
(* a user its id as user.                                                     *)
Selectable(c, table, row, rows) ==
  \/ /\ table \in {"companies", "memberships", "company_modules", "audit_logs",
                   "outbox_events", "invitations"}
     /\ InCompany(c, row)
  \/ table = "users" /\ (Own(c, row) \/ Peer(c, row, rows))
  \/ table = "sessions" /\ Own(c, row) /\ InCompany(c, row)

Administered == {"memberships", "company_modules", "invitations"}

(* Variant: any member may insert in the tables of the company.              *)
InsertableByMembers(c, table, row, has) ==
  table \in Administered \union {"audit_logs", "outbox_events"} /\ InCompany(c, row)

(* FOR INSERT ... WITH CHECK                                                  *)
Insertable(c, table, row, has) ==
  /\ InCompany(c, row)
  /\ \/ table \in Administered /\ has
     \/ table \in {"audit_logs", "outbox_events"}

(* FOR UPDATE ... USING                                                       *)
Updatable(c, table, row) ==
  \/ table \in Administered /\ InCompany(c, row)
  \/ table = "users" /\ Own(c, row)
  \/ table = "sessions" /\ Own(c, row) /\ InCompany(c, row)

(* Variant: the new row is not checked for its company.                      *)
UpdatableToAnywhere(c, table, row, has) ==
  \/ table \in Administered /\ has
  \/ table = "users" /\ Own(c, row)
  \/ table = "sessions" /\ Own(c, row)

(* FOR UPDATE ... WITH CHECK                                                  *)
UpdatableTo(c, table, row, has) ==
  \/ table \in Administered /\ InCompany(c, row) /\ has
  \/ table = "users" /\ Own(c, row)
  \/ table = "sessions" /\ Own(c, row) /\ InCompany(c, row)

(* FOR DELETE ... USING                                                       *)
Deletable(c, table, row, has) ==
  table \in {"memberships", "company_modules"} /\ InCompany(c, row) /\ has

(* Variant: the trigger is on UPDATE only.                                   *)
BlockUpdateOnly(table, new) == table = "audit_logs" /\ new # Absent

(* audit_logs_block_update and audit_logs_block_delete raise for every role.  *)
BlockMutation(table, new) == table = "audit_logs"

-----------------------------------------------------------------------------
(* Variant: a setting outlives the transaction (set_config(..., false)).      *)
Kept(s) == s

(* What set_config(name, value, true) leaves when the transaction has ended.  *)
Reverted(s) == Empty

AdminsOf(rows) ==
  {<<rows[i].user, rows[i].company>> :
     i \in {j \in Rows : TableOf[j] = "memberships" /\ rows[j] # Absent /\ rows[j].admin}}

Init ==
  /\ db = Seed
  /\ setting = [c \in Connections |-> [company |-> Unset, user |-> Unset]]
  /\ pc = [r \in Requests |-> "new"]
  /\ on = [r \in Requests |-> NoConnection]
  /\ company = [r \in Requests |-> Nobody]
  /\ user = [r \in Requests |-> Nobody]
  /\ pending = [r \in Requests |-> <<>>]
  /\ target = [r \in Requests |-> NoStatement]
  /\ may = [r \in Requests |-> FALSE]
  /\ done = [r \in Requests |-> 0]
  /\ admins = AdminsOf(Seed)
  /\ system = 0

Goto(r, at) == pc' = [pc EXCEPT ![r] = at]

(* CompanyIdSchema.parse or UserIdSchema.parse throws before a connection is *)
(* taken.                                                                    *)
Malformed(r) ==
  /\ pc[r] = "new"
  /\ Goto(r, "done")
  /\ UNCHANGED <<db, setting, context, pending, statement, admins, system>>

(* BEGIN and both set_config, for whatever company and user the caller       *)
(* passes.                                                                   *)
Bind(r, c, k, u) ==
  /\ pc[r] = "new"
  /\ \A o \in Requests : on[o] # c
  /\ on' = [on EXCEPT ![r] = c]
  /\ company' = [company EXCEPT ![r] = k]
  /\ user' = [user EXCEPT ![r] = u]
  /\ setting' = [setting EXCEPT ![c] = [company |-> k, user |-> u]]
  /\ Goto(r, "bound")
  /\ UNCHANGED <<db, pending, statement, admins, system>>

(* The row that an UPDATE or DELETE finds.  Rows that a policy hides from it *)
(* are not there, without an error; those of SELECT hide no others.          *)
Finds(r, t, has) ==
  LET row == Sees(r)[t.row]
      table == TableOf[t.row]
  IN /\ row # Absent
     /\ IF t.verb = "update" THEN Updatable(on[r], table, row)
                             ELSE Deletable(on[r], table, row, has)

(* WITH CHECK, and the triggers, which raise for every role.                  *)
Admitted(r, t, has) ==
  LET table == TableOf[t.row] IN
  /\ t.verb = "insert" => Insertable(on[r], table, t.new, has)
  /\ t.verb = "update" => UpdatableTo(on[r], table, t.new, has)
  /\ t.verb # "insert" => ~BlockMutation(table, t.new)

(* fn sends a statement: its snapshot is taken.  One that is not admitted is *)
(* an error, which leaves nothing but Rollback.                              *)
Send(r, t) ==
  /\ pc[r] = "bound"
  /\ done[r] < MaxStatements
  /\ LET has == CurrentUserHas(on[r], Sees(r)) IN
       /\ t.verb = "insert" \/ Finds(r, t, has)
       /\ Admitted(r, t, has)
       /\ may' = [may EXCEPT ![r] = has]
  /\ target' = [target EXCEPT ![r] = t]
  /\ done' = [done EXCEPT ![r] = @ + 1]
  /\ Goto(r, "running")
  /\ UNCHANGED <<db, setting, context, pending, admins, system>>

(* memberships_user_company_unique: what t puts in its row and row j.        *)
Clash(t, j, row) ==
  /\ j # t.row /\ TableOf[j] = "memberships" /\ TableOf[t.row] = "memberships"
  /\ t.verb # "delete" /\ row # Absent
  /\ row.company = t.new.company /\ row.user = t.new.user

(* It waits for another transaction that has written the row, or one that it *)
(* clashes with.                                                             *)
Waits(r, t) ==
  \E o \in Requests \ {r} : \E j \in DOMAIN pending[o] :
    j = t.row \/ Clash(t, j, pending[o][j]) \/ Clash(t, j, db[j])

Duplicate(rows, t) ==
  \/ t.verb = "insert" /\ rows[t.row] # Absent
  \/ \E j \in Rows : Clash(t, j, rows[j])

(* The statement has the row's lock and looks at its newest version, but     *)
(* still with the permission of its snapshot.                                *)
Write(r) ==
  LET t == target[r] IN
  /\ pc[r] = "running"
  /\ ~Waits(r, t)
  /\ t.verb = "insert" \/ Finds(r, t, may[r])
  /\ ~Duplicate(Sees(r), t)
  /\ pending' = [pending EXCEPT ![r] =
                   [i \in DOMAIN @ \union {t.row} |-> IF i = t.row THEN t.new ELSE @[i]]]
  /\ Goto(r, "bound")
  /\ target' = [target EXCEPT ![r] = NoStatement]
  /\ may' = [may EXCEPT ![r] = FALSE]
  /\ UNCHANGED <<db, setting, context, done, admins, system>>

(* The newest version is hidden from it: no row is affected.                 *)
FindNothing(r) ==
  /\ pc[r] = "running"
  /\ ~Waits(r, target[r])
  /\ target[r].verb # "insert" /\ ~Finds(r, target[r], may[r])
  /\ Goto(r, "bound")
  /\ target' = [target EXCEPT ![r] = NoStatement]
  /\ may' = [may EXCEPT ![r] = FALSE]
  /\ UNCHANGED <<db, setting, context, pending, done, admins, system>>

(* Variant: the connection is not given back to the pool.                    *)
NotReleased(r) == on

Released(r) == [on EXCEPT ![r] = NoConnection]

(* The transaction is over, and its connection back in the pool.             *)
End(r) ==
  /\ setting' = [setting EXCEPT ![on[r]] =
                   [company |-> Reverted(@.company), user |-> Reverted(@.user)]]
  /\ on' = Released(r)
  /\ company' = [company EXCEPT ![r] = Nobody]
  /\ user' = [user EXCEPT ![r] = Nobody]
  /\ pending' = [pending EXCEPT ![r] = <<>>]
  /\ target' = [target EXCEPT ![r] = NoStatement]
  /\ may' = [may EXCEPT ![r] = FALSE]
  /\ done' = [done EXCEPT ![r] = 0]
  /\ Goto(r, "done")
  /\ UNCHANGED system

Commit(r) ==
  /\ pc[r] = "bound"
  /\ db' = Sees(r)
  /\ admins' = admins \union AdminsOf(Sees(r))
  /\ End(r)

(* fn throws, or its statement is refused, times out or is the victim of a   *)
(* deadlock.                                                                 *)
Rollback(r) ==
  /\ pc[r] \in {"bound", "running"}
  /\ End(r)
  /\ UNCHANGED <<db, admins>>

(* A statement of withSystemContext: BYPASSRLS.  No code deletes companies or *)
(* users, whose deletion cascades.                                           *)
SystemWrite(t) ==
  /\ system < MaxSystem
  /\ t.verb = "delete" => TableOf[t.row] \notin {"companies", "users"}
  /\ \A r \in Requests : t.row \notin DOMAIN pending[r]
  /\ \A j \in Rows :
       /\ ~Clash(t, j, db[j])
       /\ \A r \in Requests : j \in DOMAIN pending[r] => ~Clash(t, j, pending[r][j])
  /\ db[t.row] = Absent <=> t.verb = "insert"
  /\ t.verb # "insert" => ~BlockMutation(TableOf[t.row], t.new)
  /\ db' = [db EXCEPT ![t.row] = t.new]
  /\ admins' = admins \union AdminsOf([db EXCEPT ![t.row] = t.new])
  /\ system' = system + 1
  /\ UNCHANGED <<setting, pc, context, pending, statement>>

-----------------------------------------------------------------------------
Next ==
  \/ \E r \in Requests :
       \/ Malformed(r)
       \/ \E c \in Connections, k \in Companies, u \in Users : Bind(r, c, k, u)
       \/ \E t \in Statements : Send(r, t)
       \/ Write(r) \/ FindNothing(r) \/ Commit(r) \/ Rollback(r)
  \/ \E t \in Statements : SystemWrite(t)

Spec == Init /\ [][Next]_vars

-----------------------------------------------------------------------------
(* Properties *)

TypeOK ==
  /\ db \in [Rows -> Record \union {Absent}]
  /\ setting \in [Connections -> [company : Settings(Companies), user : Settings(Users)]]
  /\ pc \in [Requests -> {"new", "bound", "running", "done"}]
  /\ on \in [Requests -> Connections \union {NoConnection}]
  /\ company \in [Requests -> Companies \union {Nobody}]
  /\ user \in [Requests -> Users \union {Nobody}]
  /\ \A r \in Requests :
       /\ DOMAIN pending[r] \subseteq Rows
       /\ \A i \in DOMAIN pending[r] : pending[r][i] \in Record \union {Absent}
       /\ pc[r] = "running" <=> target[r] # NoStatement
       /\ pc[r] \in {"bound", "running"} <=> on[r] # NoConnection
       /\ \A q \in Requests \ {r} : on[q] = on[r] => on[r] = NoConnection
  /\ target \in [Requests -> Statements \union {NoStatement}]
  /\ may \in [Requests -> BOOLEAN]
  /\ done \in [Requests -> 0 .. MaxStatements]
  /\ admins \subseteq (Users \union {Nobody}) \X (Companies \union {Nobody})
  /\ system \in 0 .. MaxSystem

(* "The context can't leak between requests on a pooled connection", and      *)
(* "missing context => zero rows", never an error: a query sent at any moment *)
(* on a connection returns rows of the company of the request that holds it,  *)
(* of its user or of a peer, and none when no request does.                  *)
SeesOwnCompany ==
  \A c \in Connections :
    LET holders == {r \in Requests : on[r] = c}
        rows == IF holders = {} THEN db ELSE Sees(CHOOSE r \in holders : TRUE)
    IN /\ CompanyOf(c) # Empty /\ UserOf(c) # Empty
       /\ \A i \in Rows :
            rows[i] # Absent /\ Selectable(c, TableOf[i], rows[i], rows) =>
              \E r \in holders :
                \/ rows[i].company = company[r] /\ TableOf[i] # "users"
                \/ TableOf[i] = "users" /\ rows[i].user = user[r]
                \/ /\ TableOf[i] = "users"
                   /\ \E j \in Rows : /\ TableOf[j] = "memberships" /\ rows[j] # Absent
                                       /\ rows[j].company = company[r]
                                       /\ rows[j].user = rows[i].user

Commits(r) == pc[r] = "bound" /\ pc'[r] = "done" /\ db' = Sees(r)
Changed(i) == db'[i] # db[i]

(* "Cross-tenant rows are unreachable ... for write", nor can an UPDATE move  *)
(* a row there: what a request commits concerns only rows that were and are   *)
(* of its own company, or its own user row.                                  *)
StaysInCompany ==
  \A r \in Requests : Commits(r) =>
    \A i \in Rows : Changed(i) =>
      \A row \in {db[i], db'[i]} \ {Absent} :
        IF TableOf[i] = "users" THEN row.user = user[r] ELSE row.company = company[r]

WritesOwnCompany == [][StaysInCompany]_vars

(* Memberships, module activations and invitations of a company change only   *)
(* through a request of someone who was committed as owner or admin of it at  *)
(* some time: nobody becomes one by a sequence of requests of their own.      *)
ByAdmin ==
  \A r \in Requests : Commits(r) =>
    \A i \in Rows : Changed(i) /\ TableOf[i] \in Administered =>
      <<user[r], company[r]>> \in admins

AdministeredByAdmins == [][ByAdmin]_vars

(* "The audit table is APPEND-ONLY", for every role, and "a tenant cannot     *)
(* retry, advance status, or rewrite envelopes" of outbox events.             *)
Appends ==
  \A i \in Rows : Changed(i) /\ db[i] # Absent =>
    /\ TableOf[i] # "audit_logs"
    /\ TableOf[i] = "outbox_events" => system' # system

AppendOnly == [][Appends]_vars
=============================================================================
