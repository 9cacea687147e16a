---------------------------- MODULE TenantProofs ----------------------------
(***************************************************************************)
(* Theorems of TenantIsolation, for any number of requests, connections,   *)
(* companies, users and rows, and whatever statements are sent.            *)
(***************************************************************************)
EXTENDS TenantIsolation, TLAPS

USE TenantAssumption DEF TenantAssumption

(* What concerns the request r alone: a row of its company, its user's row.  *)
Scope(r, i, row) ==
  IF TableOf[i] = "users" THEN row.user = user[r] ELSE row.company = company[r]

(* A connection has the settings of the request that holds it, and none      *)
(* between transactions.                                                     *)
ContextsBound ==
  /\ \A r \in Requests : on[r] # NoConnection =>
       /\ company[r] \in Companies /\ user[r] \in Users
       /\ setting[on[r]] = [company |-> company[r], user |-> user[r]]
  /\ \A c \in Connections : (\A r \in Requests : on[r] # c) =>
       setting[c].company \in {Unset, Empty} /\ setting[c].user \in {Unset, Empty}

(* What the policies have let pass of the statement under way.               *)
TargetsAdmitted ==
  \A r \in Requests : pc[r] = "running" =>
    LET t == target[r] IN
    /\ t.new # Absent => Scope(r, t.row, t.new)
    /\ TableOf[t.row] \in Administered => may[r]
    /\ TableOf[t.row] \in {"audit_logs", "outbox_events"} => t.verb = "insert"

(* Rows that r has written are locked by it, and were and are r's to write.  *)
WritesScoped ==
  \A r \in Requests : \A i \in DOMAIN pending[r] :
    /\ \A o \in Requests \ {r} : i \notin DOMAIN pending[o]
    /\ \A row \in {db[i], pending[r][i]} \ {Absent} : Scope(r, i, row)
    /\ TableOf[i] \in Administered => <<user[r], company[r]>> \in admins
    /\ TableOf[i] \in {"audit_logs", "outbox_events"} => db[i] = Absent

(* Whoever has the permission has been committed as admin.                   *)
AdminsKnown ==
  /\ AdminsOf(db) \subseteq admins
  /\ \A r \in Requests : may[r] => <<user[r], company[r]>> \in admins

(* A request without a transaction has written nothing.                      *)
NothingLeft ==
  /\ DOMAIN pending = Requests
  /\ \A r \in Requests : on[r] = NoConnection => DOMAIN pending[r] = {} /\ ~may[r]

IInv ==
  /\ TypeOK /\ ContextsBound /\ TargetsAdmitted /\ WritesScoped /\ AdminsKnown
  /\ NothingLeft

-----------------------------------------------------------------------------
LEMMA StatementShape ==
  ASSUME NEW t \in Statements
  PROVE  /\ t.verb \in {"insert", "update", "delete"}
         /\ t.row \in Rows
         /\ t.new \in Record \union {Absent}
         /\ t.verb = "delete" <=> t.new = Absent
         /\ t # NoStatement
<1>1. PICK i \in Rows :
        \/ t \in [verb : {"insert", "update"}, row : {i}, new : Writable[i]]
        \/ t \in {[verb |-> "delete", row |-> i, new |-> Absent]}
  BY DEF Statements
<1>2. Writable[i] \subseteq Record
  OBVIOUS
<1> QED
  BY <1>1, <1>2 DEF NoStatement

LEMMA SeesTyped ==
  ASSUME TypeOK, NEW r \in Requests
  PROVE  Sees(r) \in [Rows -> Record \union {Absent}]
BY DEF TypeOK, Sees

(* The settings of the connection of r say who r is.                         *)
LEMMA HoldersContext ==
  ASSUME IInv, NEW r \in Requests, on[r] # NoConnection
  PROVE  /\ on[r] \in Connections
         /\ CompanyOf(on[r]) = company[r] /\ company[r] \in Companies
         /\ UserOf(on[r]) = user[r] /\ user[r] \in Users
<1>1. on[r] \in Connections
  BY DEF IInv, TypeOK
<1>2. /\ company[r] \in Companies /\ user[r] \in Users
      /\ setting[on[r]] = [company |-> company[r], user |-> user[r]]
  BY DEF IInv, ContextsBound
<1>3. company[r] \notin {Unset, Empty} /\ user[r] \notin {Unset, Empty}
  BY <1>2
<1> QED
  BY <1>1, <1>2, <1>3 DEF CompanyOf, UserOf, Current

(* An owner or admin, as r sees it, is one that was committed.               *)
LEMMA PermissionCommitted ==
  ASSUME IInv, NEW r \in Requests, on[r] # NoConnection,
         CurrentUserHas(on[r], Sees(r))
  PROVE  <<user[r], company[r]>> \in admins
<1>1. PICK i \in Rows :
        /\ TableOf[i] = "memberships" /\ Sees(r)[i] # Absent
        /\ Sees(r)[i].user = user[r]
        /\ Sees(r)[i].company = company[r]
        /\ Sees(r)[i].admin
  BY HoldersContext DEF CurrentUserHas, Equal
<1>2. CASE i \in DOMAIN pending[r]
  BY <1>1, <1>2 DEF IInv, WritesScoped, Administered
<1>3. CASE i \notin DOMAIN pending[r]
  <2>1. Sees(r)[i] = db[i]
    BY <1>3 DEF Sees
  <2>2. <<db[i].user, db[i].company>> \in AdminsOf(db)
    BY <1>1, <2>1 DEF AdminsOf
  <2> QED
    BY <1>1, <2>1, <2>2 DEF IInv, AdminsKnown
<1> QED
  BY <1>2, <1>3

-----------------------------------------------------------------------------
LEMMA InvInit == Init => IInv
<1> SUFFICES ASSUME Init PROVE IInv
  OBVIOUS
<1>1. AdminsOf(Seed) \subseteq (Users \union {Nobody}) \X (Companies \union {Nobody})
  BY DEF AdminsOf, Record
<1>2. TypeOK
  BY <1>1 DEF Init, TypeOK, Settings
<1>3. DOMAIN <<>> = {}
  OBVIOUS
<1> QED
  BY <1>2, <1>3 DEF Init, IInv, ContextsBound, TargetsAdmitted, WritesScoped,
                    AdminsKnown, NothingLeft

LEMMA BindKeeps ==
  ASSUME IInv, NEW r \in Requests, NEW c \in Connections, NEW k \in Companies,
         NEW u \in Users, Bind(r, c, k, u)
  PROVE  IInv'
<1>1. TypeOK /\ on[r] = NoConnection
  BY DEF IInv, TypeOK, Bind
<1>2. /\ on'[r] = c /\ company'[r] = k /\ user'[r] = u
      /\ setting'[c] = [company |-> k, user |-> u]
      /\ \A q \in Requests \ {r} :
           on'[q] = on[q] /\ company'[q] = company[q] /\ user'[q] = user[q]
             /\ on[q] # c
      /\ \A d \in Connections \ {c} : setting'[d] = setting[d]
  BY <1>1 DEF Bind, TypeOK
<1>3. TypeOK'
  BY <1>1 DEF Bind, Goto, TypeOK, Settings, statement
<1>4. ContextsBound'
  <2>1. ASSUME NEW q \in Requests, on'[q] # NoConnection
        PROVE  /\ company'[q] \in Companies /\ user'[q] \in Users
               /\ setting'[on'[q]] = [company |-> company'[q], user |-> user'[q]]
    <3>1. CASE q = r
      BY <1>2, <3>1
    <3>2. CASE q # r
      <4>1. on'[q] = on[q] /\ on[q] \in Connections \ {c}
        BY <1>1, <1>2, <2>1, <3>2 DEF TypeOK
      <4> QED
        BY <1>2, <2>1, <3>2, <4>1 DEF IInv, ContextsBound
    <3> QED
      BY <3>1, <3>2
  <2>2. ASSUME NEW d \in Connections, \A q \in Requests : on'[q] # d
        PROVE  setting'[d].company \in {Unset, Empty} /\ setting'[d].user \in {Unset, Empty}
    <3>1. d # c /\ setting'[d] = setting[d]
      BY <1>2, <2>2
    <3>2. \A q \in Requests : on[q] # d
      BY <1>1, <1>2, <2>2
    <3> QED
      BY <3>1, <3>2 DEF IInv, ContextsBound
  <2> QED
    BY <2>1, <2>2 DEF ContextsBound
<1>5. TargetsAdmitted'
  BY <1>1, <1>2 DEF IInv, TargetsAdmitted, Bind, Goto, TypeOK, statement, Scope
<1>6. WritesScoped'
  BY <1>1, <1>2 DEF IInv, WritesScoped, NothingLeft, Bind, Scope
<1>7. AdminsKnown' /\ NothingLeft'
  BY <1>1, <1>2 DEF IInv, AdminsKnown, NothingLeft, Bind, statement
<1> QED
  BY <1>3, <1>4, <1>5, <1>6, <1>7 DEF IInv

LEMMA MalformedKeeps ==
  ASSUME IInv, NEW r \in Requests, Malformed(r)
  PROVE  IInv'
<1>1. TypeOK'
  BY DEF IInv, TypeOK, Malformed, Goto, context, statement
<1> QED
  BY <1>1 DEF IInv, TypeOK, Malformed, Goto, context, statement, ContextsBound,
              TargetsAdmitted, WritesScoped, AdminsKnown, NothingLeft, Scope

(* A transaction ends and leaves its connection as it found it.              *)
LEMMA EndEffect ==
  ASSUME IInv, NEW r \in Requests, pc[r] \in {"bound", "running"}, End(r)
  PROVE  /\ on[r] \in Connections /\ on'[r] = NoConnection
         /\ setting'[on[r]] = [company |-> Empty, user |-> Empty]
         /\ \A d \in Connections \ {on[r]} : setting'[d] = setting[d]
         /\ company'[r] = Nobody /\ user'[r] = Nobody
         /\ pc'[r] = "done" /\ target'[r] = NoStatement /\ ~may'[r]
         /\ DOMAIN pending' = Requests /\ DOMAIN pending'[r] = {}
         /\ \A q \in Requests \ {r} :
              /\ on'[q] = on[q] /\ company'[q] = company[q] /\ user'[q] = user[q]
              /\ pending'[q] = pending[q] /\ target'[q] = target[q]
              /\ may'[q] = may[q] /\ pc'[q] = pc[q]
<1>1. DOMAIN <<>> = {}
  OBVIOUS
<1>2. on[r] \in Connections
  BY DEF IInv, TypeOK
<1>3. /\ setting'[on[r]] = [company |-> Empty, user |-> Empty]
      /\ \A d \in Connections \ {on[r]} : setting'[d] = setting[d]
  BY <1>2 DEF IInv, TypeOK, End, Reverted
<1>4. /\ DOMAIN pending' = Requests /\ DOMAIN pending'[r] = {}
      /\ \A q \in Requests \ {r} : pending'[q] = pending[q]
  BY <1>1 DEF IInv, NothingLeft, End
<1>5. /\ on'[r] = NoConnection /\ company'[r] = Nobody /\ user'[r] = Nobody
      /\ pc'[r] = "done" /\ target'[r] = NoStatement /\ ~may'[r]
      /\ \A q \in Requests \ {r} :
           /\ on'[q] = on[q] /\ company'[q] = company[q] /\ user'[q] = user[q]
           /\ may'[q] = may[q] /\ pc'[q] = pc[q] /\ target'[q] = target[q]
  BY DEF IInv, TypeOK, End, Released, Goto
<1> QED
  BY <1>2, <1>3, <1>4, <1>5

LEMMA EndTyped ==
  ASSUME IInv, NEW r \in Requests, pc[r] \in {"bound", "running"}, End(r),
         db' \in [Rows -> Record \union {Absent}],
         admins' \subseteq (Users \union {Nobody}) \X (Companies \union {Nobody})
  PROVE  TypeOK'
<1>1. DOMAIN <<>> = {}
  OBVIOUS
<1>2. setting' \in [Connections -> [company : Settings(Companies), user : Settings(Users)]]
  BY DEF IInv, TypeOK, End, Reverted, Settings
<1>3. /\ pc' \in [Requests -> {"new", "bound", "running", "done"}]
      /\ on' \in [Requests -> Connections \union {NoConnection}]
      /\ company' \in [Requests -> Companies \union {Nobody}]
      /\ user' \in [Requests -> Users \union {Nobody}]
      /\ target' \in [Requests -> Statements \union {NoStatement}]
      /\ may' \in [Requests -> BOOLEAN]
      /\ done' \in [Requests -> 0 .. MaxStatements]
      /\ system' \in 0 .. MaxSystem
  BY DEF IInv, TypeOK, End, Released, Goto
<1>4. \A q \in Requests :
        /\ DOMAIN pending'[q] \subseteq Rows
        /\ \A i \in DOMAIN pending'[q] : pending'[q][i] \in Record \union {Absent}
        /\ pc'[q] = "running" <=> target'[q] # NoStatement
        /\ pc'[q] \in {"bound", "running"} <=> on'[q] # NoConnection
        /\ \A o \in Requests \ {q} : on'[o] = on'[q] => on'[q] = NoConnection
  <2> TAKE q \in Requests
  <2>1. CASE q = r
    BY <2>1, EndEffect DEF IInv, TypeOK
  <2>2. CASE q # r
    BY <2>2, EndEffect DEF IInv, TypeOK
  <2> QED
    BY <2>1, <2>2
<1> QED
  BY <1>2, <1>3, <1>4 DEF TypeOK

LEMMA EndUnbinds ==
  ASSUME IInv, NEW r \in Requests, pc[r] \in {"bound", "running"}, End(r)
  PROVE  ContextsBound'
<1>1. ASSUME NEW q \in Requests, on'[q] # NoConnection
      PROVE  /\ company'[q] \in Companies /\ user'[q] \in Users
             /\ setting'[on'[q]] = [company |-> company'[q], user |-> user'[q]]
  <2>1. q # r /\ on'[q] = on[q] /\ on[q] \in Connections \ {on[r]}
    BY <1>1, EndEffect DEF IInv, TypeOK
  <2> QED
    BY <1>1, <2>1, EndEffect DEF IInv, ContextsBound
<1>2. ASSUME NEW d \in Connections, \A q \in Requests : on'[q] # d
      PROVE  setting'[d].company \in {Unset, Empty} /\ setting'[d].user \in {Unset, Empty}
  <2>1. CASE d = on[r]
    BY <2>1, EndEffect
  <2>2. CASE d # on[r]
    <3>1. \A q \in Requests : on[q] # d
      BY <1>2, <2>2, EndEffect
    <3> QED
      BY <2>2, <3>1, EndEffect DEF IInv, ContextsBound
  <2> QED
    BY <2>1, <2>2
<1> QED
  BY <1>1, <1>2 DEF ContextsBound

LEMMA RollbackKeeps ==
  ASSUME IInv, NEW r \in Requests, Rollback(r)
  PROVE  IInv'
<1>1. pc[r] \in {"bound", "running"} /\ End(r) /\ UNCHANGED <<db, admins>>
  BY DEF Rollback
<1>2. TypeOK' /\ ContextsBound'
  BY <1>1, EndTyped, EndUnbinds DEF IInv, TypeOK
<1>3. TargetsAdmitted'
  BY <1>1, EndEffect DEF IInv, TargetsAdmitted, Scope
<1>4. WritesScoped'
  BY <1>1, EndEffect DEF IInv, WritesScoped, Scope
<1>5. AdminsKnown' /\ NothingLeft'
  BY <1>1, EndEffect DEF IInv, AdminsKnown, NothingLeft
<1> QED
  BY <1>2, <1>3, <1>4, <1>5 DEF IInv

LEMMA CommitKeeps ==
  ASSUME IInv, NEW r \in Requests, Commit(r)
  PROVE  IInv'
<1>1. /\ pc[r] = "bound" /\ End(r)
      /\ db' = Sees(r) /\ admins' = admins \union AdminsOf(Sees(r))
  BY DEF Commit
<1>2. Sees(r) \in [Rows -> Record \union {Absent}]
  BY SeesTyped DEF IInv
<1>3. AdminsOf(Sees(r)) \subseteq (Users \union {Nobody}) \X (Companies \union {Nobody})
  BY <1>2 DEF AdminsOf, Record
<1>4. TypeOK' /\ ContextsBound'
  BY <1>1, <1>2, <1>3, EndTyped, EndUnbinds DEF IInv, TypeOK
<1>5. TargetsAdmitted'
  BY <1>1, EndEffect DEF IInv, TargetsAdmitted, Scope
<1>6. WritesScoped'
  <2> SUFFICES ASSUME NEW q \in Requests, NEW i \in DOMAIN pending'[q]
               PROVE  /\ \A o \in Requests \ {q} : i \notin DOMAIN pending'[o]
                      /\ \A row \in {db'[i], pending'[q][i]} \ {Absent} : Scope(q, i, row)'
                      /\ TableOf[i] \in Administered => <<user'[q], company'[q]>> \in admins'
                      /\ TableOf[i] \in {"audit_logs", "outbox_events"} => db'[i] = Absent
    BY DEF WritesScoped
  <2>1. q # r /\ pending'[q] = pending[q]
    BY <1>1, EndEffect
  <2>2. i \in Rows /\ i \notin DOMAIN pending[r]
    BY <2>1 DEF IInv, WritesScoped, TypeOK
  <2>3. db'[i] = db[i]
    BY <1>1, <2>2 DEF Sees
  <2> QED
    BY <1>1, <2>1, <2>3, EndEffect DEF IInv, WritesScoped, Scope
<1>7. AdminsKnown' /\ NothingLeft'
  BY <1>1, EndEffect DEF IInv, AdminsKnown, NothingLeft
<1> QED
  BY <1>4, <1>5, <1>6, <1>7 DEF IInv

-----------------------------------------------------------------------------
(* What the policies let a statement put in a row, and on which tables.      *)
LEMMA AdmittedInScope ==
  ASSUME IInv, NEW r \in Requests, on[r] # NoConnection, NEW t \in Statements,
         NEW has \in BOOLEAN, t.verb = "insert" \/ Finds(r, t, has),
         Admitted(r, t, has)
  PROVE  /\ t.new # Absent => Scope(r, t.row, t.new)
         /\ TableOf[t.row] \in Administered => has
         /\ TableOf[t.row] \in {"audit_logs", "outbox_events"} => t.verb = "insert"
<1>1. CASE t.verb = "insert"
  <2>1. Insertable(on[r], TableOf[t.row], t.new, has)
    BY <1>1 DEF Admitted
  <2> QED
    BY <1>1, <2>1, HoldersContext
       DEF Insertable, InCompany, Equal, Scope, Administered
<1>2. CASE t.verb = "update"
  <2>1. UpdatableTo(on[r], TableOf[t.row], t.new, has)
    BY <1>2 DEF Admitted
  <2> QED
    BY <2>1, HoldersContext
       DEF UpdatableTo, InCompany, Own, Equal, Scope, Administered
<1>3. CASE t.verb = "delete"
  <2>1. Deletable(on[r], TableOf[t.row], Sees(r)[t.row], has)
    BY <1>3 DEF Finds
  <2> QED
    BY <1>3, <2>1, StatementShape DEF Deletable
<1> QED
  BY <1>1, <1>2, <1>3, StatementShape

(* A row that an UPDATE or DELETE finds is in the scope of its request.      *)
LEMMA FoundInScope ==
  ASSUME IInv, NEW r \in Requests, on[r] # NoConnection, NEW t \in Statements,
         NEW has \in BOOLEAN, Finds(r, t, has)
  PROVE  Scope(r, t.row, Sees(r)[t.row])
<1>1. \/ Updatable(on[r], TableOf[t.row], Sees(r)[t.row])
      \/ Deletable(on[r], TableOf[t.row], Sees(r)[t.row], has)
  BY DEF Finds
<1> QED
  BY <1>1, HoldersContext
     DEF Updatable, Deletable, InCompany, Own, Equal, Scope, Administered

LEMMA SendKeeps ==
  ASSUME IInv, NEW r \in Requests, NEW t \in Statements, Send(r, t)
  PROVE  IInv'
<1> DEFINE has == CurrentUserHas(on[r], Sees(r))
<1>1. /\ TypeOK /\ pc[r] = "bound" /\ on[r] # NoConnection /\ has \in BOOLEAN
      /\ t.verb = "insert" \/ Finds(r, t, has)
      /\ Admitted(r, t, has)
      /\ may' = [may EXCEPT ![r] = has] /\ target' = [target EXCEPT ![r] = t]
      /\ pc' = [pc EXCEPT ![r] = "running"]
      /\ done[r] < MaxStatements /\ done' = [done EXCEPT ![r] = @ + 1]
      /\ UNCHANGED <<db, setting, context, pending, admins, system>>
  BY DEF IInv, TypeOK, Send, Goto, CurrentUserHas
<1> HIDE DEF has
<1>2. done' \in [Requests -> 0 .. MaxStatements]
  BY <1>1 DEF TypeOK
<1>3. TypeOK'
  BY <1>1, <1>2, StatementShape DEF TypeOK, context
<1>4. ContextsBound'
  BY <1>1 DEF IInv, ContextsBound, context
<1>5. TargetsAdmitted'
  <2>1. /\ t.new # Absent => Scope(r, t.row, t.new)
        /\ TableOf[t.row] \in Administered => has
        /\ TableOf[t.row] \in {"audit_logs", "outbox_events"} => t.verb = "insert"
    BY <1>1, AdmittedInScope
  <2> QED
    BY <1>1, <2>1 DEF IInv, TargetsAdmitted, TypeOK, Scope, context
<1>6. WritesScoped'
  BY <1>1 DEF IInv, WritesScoped, Scope, context
<1>7. AdminsKnown' /\ NothingLeft'
  <2>1. has => <<user[r], company[r]>> \in admins
    BY <1>1, PermissionCommitted DEF has
  <2> QED
    BY <1>1, <2>1 DEF IInv, AdminsKnown, NothingLeft, TypeOK, context
<1> QED
  BY <1>3, <1>4, <1>5, <1>6, <1>7 DEF IInv

(* The statement under way is done, and r may send another.                  *)
LEMMA StatementEnds ==
  ASSUME IInv, NEW r \in Requests, pc[r] = "running",
         pc' = [pc EXCEPT ![r] = "bound"],
         target' = [target EXCEPT ![r] = NoStatement],
         may' = [may EXCEPT ![r] = FALSE],
         UNCHANGED <<db, setting, context, done, admins, system>>
  PROVE  /\ \A q \in Requests :
              /\ pc'[q] = "running" <=> target'[q] # NoStatement
              /\ pc'[q] \in {"bound", "running"} <=> on'[q] # NoConnection
         /\ pc' \in [Requests -> {"new", "bound", "running", "done"}]
         /\ target' \in [Requests -> Statements \union {NoStatement}]
         /\ may' \in [Requests -> BOOLEAN]
         /\ ContextsBound' /\ TargetsAdmitted' /\ AdminsKnown'
<1>1. ContextsBound'
  BY DEF IInv, ContextsBound, context
<1>2. TargetsAdmitted'
  BY DEF IInv, TypeOK, TargetsAdmitted, Scope, context
<1>3. AdminsKnown'
  BY DEF IInv, TypeOK, AdminsKnown, context
<1> QED
  BY <1>1, <1>2, <1>3 DEF IInv, TypeOK, context

LEMMA FindNothingKeeps ==
  ASSUME IInv, NEW r \in Requests, FindNothing(r)
  PROVE  IInv'
<1>1. /\ pc[r] = "running" /\ pc' = [pc EXCEPT ![r] = "bound"]
      /\ target' = [target EXCEPT ![r] = NoStatement]
      /\ may' = [may EXCEPT ![r] = FALSE]
      /\ UNCHANGED <<db, setting, context, pending, done, admins, system>>
  BY DEF FindNothing, Goto
<1>2. TypeOK'
  BY <1>1, StatementEnds DEF IInv, TypeOK, context
<1>3. WritesScoped' /\ NothingLeft'
  BY <1>1 DEF IInv, TypeOK, WritesScoped, NothingLeft, Scope, context
<1> QED
  BY <1>1, <1>2, <1>3, StatementEnds DEF IInv

LEMMA WriteKeeps ==
  ASSUME IInv, NEW r \in Requests, Write(r)
  PROVE  IInv'
<1> DEFINE t == target[r]
<1>1. /\ pc[r] = "running" /\ pc' = [pc EXCEPT ![r] = "bound"]
      /\ target' = [target EXCEPT ![r] = NoStatement]
      /\ may' = [may EXCEPT ![r] = FALSE]
      /\ UNCHANGED <<db, setting, context, done, admins, system>>
      /\ ~Waits(r, t) /\ ~Duplicate(Sees(r), t)
      /\ t.verb = "insert" \/ Finds(r, t, may[r])
  BY DEF Write, Goto
<1>2. /\ t \in Statements /\ t.row \in Rows /\ t.new \in Record \union {Absent}
      /\ on[r] # NoConnection /\ may[r] \in BOOLEAN
  BY <1>1, StatementShape DEF IInv, TypeOK
<1>3. /\ DOMAIN pending' = Requests
      /\ DOMAIN pending'[r] = DOMAIN pending[r] \union {t.row}
      /\ pending'[r][t.row] = t.new
      /\ \A i \in DOMAIN pending[r] \ {t.row} : pending'[r][i] = pending[r][i]
      /\ \A q \in Requests \ {r} : pending'[q] = pending[q]
  BY DEF IInv, NothingLeft, Write
<1>4. \A o \in Requests \ {r} : t.row \notin DOMAIN pending[o]
  BY <1>1 DEF Waits
<1> HIDE DEF t
<1>5. TypeOK'
  <2>1. \A q \in Requests :
          /\ DOMAIN pending'[q] \subseteq Rows
          /\ \A i \in DOMAIN pending'[q] : pending'[q][i] \in Record \union {Absent}
    <3> TAKE q \in Requests
    <3>1. /\ DOMAIN pending[q] \subseteq Rows
          /\ \A i \in DOMAIN pending[q] : pending[q][i] \in Record \union {Absent}
      BY DEF IInv, TypeOK
    <3>2. CASE q # r
      BY <1>3, <3>1, <3>2
    <3>3. CASE q = r
      <4>1. DOMAIN pending'[q] \subseteq Rows
        BY <1>2, <1>3, <3>1, <3>3
      <4>2. ASSUME NEW i \in DOMAIN pending'[q]
            PROVE  pending'[q][i] \in Record \union {Absent}
        <5>1. CASE i = t.row
          BY <1>2, <1>3, <3>3, <5>1
        <5>2. CASE i # t.row
          BY <1>3, <3>1, <3>3, <4>2, <5>2
        <5> QED
          BY <5>1, <5>2
      <4> QED
        BY <4>1, <4>2
    <3> QED
      BY <3>2, <3>3
  <2> QED
    BY <1>1, <2>1, StatementEnds DEF IInv, TypeOK, context
<1>6. WritesScoped'
  <2>1. /\ t.new # Absent => Scope(r, t.row, t.new)
        /\ TableOf[t.row] \in Administered => <<user[r], company[r]>> \in admins
        /\ TableOf[t.row] \in {"audit_logs", "outbox_events"} => t.verb = "insert"
    BY <1>1 DEF IInv, TargetsAdmitted, AdminsKnown, t
  <2>2. t.verb = "insert" => Sees(r)[t.row] = Absent
    BY <1>1 DEF Duplicate
  <2>3. /\ db[t.row] # Absent => Scope(r, t.row, db[t.row])
        /\ TableOf[t.row] \in {"audit_logs", "outbox_events"} => db[t.row] = Absent
    <3>1. CASE t.row \in DOMAIN pending[r]
      BY <3>1 DEF IInv, WritesScoped
    <3>2. CASE t.row \notin DOMAIN pending[r]
      <4>1. Sees(r)[t.row] = db[t.row]
        BY <1>2, <3>2 DEF Sees
      <4>2. CASE t.verb = "insert"
        BY <2>2, <4>1, <4>2
      <4>3. CASE t.verb # "insert"
        BY <1>1, <1>2, <2>1, <4>1, <4>3, FoundInScope
      <4> QED
        BY <4>2, <4>3
    <3> QED
      BY <3>1, <3>2
  <2> SUFFICES ASSUME NEW q \in Requests, NEW i \in DOMAIN pending'[q]
               PROVE  /\ \A o \in Requests \ {q} : i \notin DOMAIN pending'[o]
                      /\ \A row \in {db[i], pending'[q][i]} \ {Absent} : Scope(q, i, row)
                      /\ TableOf[i] \in Administered => <<user[q], company[q]>> \in admins
                      /\ TableOf[i] \in {"audit_logs", "outbox_events"} => db[i] = Absent
    BY <1>1 DEF WritesScoped, Scope, context
  <2>4. CASE q = r /\ i = t.row
    BY <1>3, <1>4, <2>1, <2>3, <2>4
  <2>5. CASE q # r \/ i # t.row
    <3>1. i \in DOMAIN pending[q] /\ pending'[q][i] = pending[q][i]
      BY <1>3, <2>5
    <3>2. \A o \in Requests \ {q} : i \notin DOMAIN pending[o]
      BY <3>1 DEF IInv, WritesScoped
    <3>3. \A o \in Requests \ {q} : i \notin DOMAIN pending'[o]
      <4>1. CASE q = r
        BY <1>3, <3>2, <4>1
      <4>2. CASE q # r
        <5>1. i # t.row
          BY <1>4, <3>1, <4>2
        <5> QED
          BY <1>3, <3>2, <5>1
      <4> QED
        BY <4>1, <4>2
    <3> QED
      BY <3>1, <3>3 DEF IInv, WritesScoped
  <2> QED
    BY <2>4, <2>5
<1>7. NothingLeft'
  BY <1>1, <1>2, <1>3 DEF IInv, TypeOK, NothingLeft, context
<1> QED
  BY <1>1, <1>5, <1>6, <1>7, StatementEnds DEF IInv

LEMMA SystemWriteKeeps ==
  ASSUME IInv, NEW t \in Statements, SystemWrite(t)
  PROVE  IInv'
<1>1. /\ t.row \in Rows /\ t.new \in Record \union {Absent}
      /\ \A r \in Requests : t.row \notin DOMAIN pending[r]
      /\ db' = [db EXCEPT ![t.row] = t.new]
      /\ admins' = admins \union AdminsOf(db')
      /\ system < MaxSystem /\ system' = system + 1
      /\ UNCHANGED <<setting, pc, context, pending, statement>>
  BY StatementShape DEF SystemWrite
<1>2. db' \in [Rows -> Record \union {Absent}]
  BY <1>1 DEF IInv, TypeOK
<1>3. AdminsOf(db') \subseteq (Users \union {Nobody}) \X (Companies \union {Nobody})
  BY <1>2 DEF AdminsOf, Record
<1>4. system' \in 0 .. MaxSystem
  BY <1>1 DEF IInv, TypeOK
<1>5. TypeOK'
  BY <1>1, <1>2, <1>3, <1>4 DEF IInv, TypeOK, context, statement
<1>6. ContextsBound' /\ TargetsAdmitted' /\ NothingLeft'
  BY <1>1 DEF IInv, ContextsBound, TargetsAdmitted, NothingLeft, Scope, context, statement
<1>7. WritesScoped'
  <2>1. \A r \in Requests : \A i \in DOMAIN pending[r] : db'[i] = db[i]
    BY <1>1 DEF IInv, TypeOK
  <2> QED
    BY <1>1, <2>1 DEF IInv, WritesScoped, Scope, context
<1>8. AdminsKnown'
  BY <1>1 DEF IInv, AdminsKnown, context, statement
<1> QED
  BY <1>5, <1>6, <1>7, <1>8 DEF IInv

LEMMA InvNext == IInv /\ [Next]_vars => IInv'
<1> SUFFICES ASSUME IInv, [Next]_vars PROVE IInv'
  OBVIOUS
<1>1. CASE UNCHANGED vars
  BY <1>1 DEF IInv, TypeOK, ContextsBound, TargetsAdmitted, WritesScoped, AdminsKnown,
              NothingLeft, Scope, vars
<1>2. CASE Next
  BY <1>2, MalformedKeeps, BindKeeps, SendKeeps, WriteKeeps, FindNothingKeeps,
     CommitKeeps, RollbackKeeps, SystemWriteKeeps DEF Next
<1> QED
  BY <1>1, <1>2

LEMMA Invariance == Spec => []IInv
BY InvInit, InvNext, PTL DEF Spec

-----------------------------------------------------------------------------
(* Type correctness.                                                         *)
THEOREM TypeCorrect == Spec => []TypeOK
<1>1. IInv => TypeOK
  BY DEF IInv
<1> QED
  BY <1>1, Invariance, PTL

(* No query, sent at whatever moment on whatever connection of the pool,     *)
(* sees rows of another company than that of the request that holds it, and  *)
(* none at all if no request does.                                           *)
THEOREM ContextsStayApart == Spec => []SeesOwnCompany
<1>1. IInv => SeesOwnCompany
  <2> SUFFICES ASSUME IInv, NEW c \in Connections
               PROVE  SeesOwnCompany!(c)
    BY DEF SeesOwnCompany
  <2> DEFINE holders == {r \in Requests : on[r] = c}
             rows == IF holders = {} THEN db ELSE Sees(CHOOSE r \in holders : TRUE)
  <2>1. CASE holders = {}
    <3>1. CompanyOf(c) = Nobody /\ UserOf(c) = Nobody
      BY <2>1 DEF IInv, ContextsBound, CompanyOf, UserOf, Current
    <3>2. \A i \in Rows : ~Selectable(c, TableOf[i], rows[i], rows)
      BY <3>1 DEF Selectable, InCompany, Own, Peer, Equal
    <3> QED
      BY <3>1, <3>2
  <2>2. CASE holders # {}
    <3>1. PICK r \in Requests : on[r] = c
      BY <2>2
    <3>2. on[r] # NoConnection
      BY <3>1
    <3>3. /\ CompanyOf(c) = company[r] /\ UserOf(c) = user[r]
          /\ company[r] \in Companies /\ user[r] \in Users
      BY <3>1, <3>2, HoldersContext
    <3>4. ASSUME NEW i \in Rows, rows[i] # Absent,
                 Selectable(c, TableOf[i], rows[i], rows)
          PROVE  \/ rows[i].company = company[r] /\ TableOf[i] # "users"
                 \/ TableOf[i] = "users" /\ rows[i].user = user[r]
                 \/ /\ TableOf[i] = "users"
                    /\ \E j \in Rows : /\ TableOf[j] = "memberships" /\ rows[j] # Absent
                                        /\ rows[j].company = company[r]
                                        /\ rows[j].user = rows[i].user
      <4> HIDE DEF rows
      <4> QED
        BY <3>3, <3>4 DEF Selectable, InCompany, Own, Peer, Equal
    <3>5. CompanyOf(c) # Empty /\ UserOf(c) # Empty
      BY <3>3
    <3> QED
      BY <3>1, <3>4, <3>5
  <2> QED
    BY <2>1, <2>2
<1> QED
  BY <1>1, Invariance, PTL

(* What a commit changes is what its request has written.                    *)
LEMMA CommitChanges ==
  ASSUME NEW r \in Requests, Commits(r), NEW i \in Rows, Changed(i)
  PROVE  i \in DOMAIN pending[r] /\ db'[i] = pending[r][i]
<1>1. db'[i] = IF i \in DOMAIN pending[r] THEN pending[r][i] ELSE db[i]
  BY DEF Commits, Sees
<1> QED
  BY <1>1 DEF Changed

(* What a request commits was and is of its own company, or its user's row.  *)
THEOREM WritesStayInCompany == Spec => WritesOwnCompany
<1>1. ASSUME IInv, NEW r \in Requests, Commits(r), NEW i \in Rows, Changed(i),
             NEW row \in {db[i], db'[i]} \ {Absent}
      PROVE  IF TableOf[i] = "users" THEN row.user = user[r]
                                     ELSE row.company = company[r]
  BY <1>1, CommitChanges DEF IInv, WritesScoped, Scope
<1>2. IInv => StaysInCompany
  BY <1>1 DEF StaysInCompany
<1> QED
  BY <1>2, Invariance, PTL DEF WritesOwnCompany

(* Rows that an administrator's permission guards change only for whoever    *)
(* was committed as one.                                                     *)
THEOREM NobodyPromotesThemselves == Spec => AdministeredByAdmins
<1>1. ASSUME IInv, NEW r \in Requests, Commits(r), NEW i \in Rows, Changed(i),
             TableOf[i] \in Administered
      PROVE  <<user[r], company[r]>> \in admins
  BY <1>1, CommitChanges DEF IInv, WritesScoped
<1>2. IInv => ByAdmin
  BY <1>1 DEF ByAdmin
<1> QED
  BY <1>2, Invariance, PTL DEF AdministeredByAdmins

(* No transaction changes or deletes an audit row, and none of a tenant an   *)
(* outbox row.                                                               *)
THEOREM AuditsStay == Spec => AppendOnly
<1>1. ASSUME IInv, [Next]_vars, NEW i \in Rows, Changed(i), db[i] # Absent
      PROVE  /\ TableOf[i] # "audit_logs"
             /\ TableOf[i] = "outbox_events" => system' # system
  <2>1. CASE \E r \in Requests : Commit(r)
    <3>1. PICK r \in Requests : Commit(r)
      BY <2>1
    <3>2. db'[i] = IF i \in DOMAIN pending[r] THEN pending[r][i] ELSE db[i]
      BY <3>1 DEF Commit, Sees
    <3>3. i \in DOMAIN pending[r]
      BY <1>1, <3>2 DEF Changed
    <3> QED
      BY <1>1, <3>3 DEF IInv, WritesScoped
  <2>2. CASE \E t \in Statements : SystemWrite(t)
    <3>1. PICK t \in Statements : SystemWrite(t)
      BY <2>2
    <3>2. i = t.row /\ system' # system
      BY <1>1, <3>1 DEF SystemWrite, Changed, IInv, TypeOK
    <3> QED
      BY <1>1, <3>1, <3>2 DEF SystemWrite, BlockMutation
  <2>3. CASE db' = db
    BY <1>1, <2>3 DEF Changed
  <2> QED
    BY <1>1, <2>1, <2>2, <2>3 DEF Next, vars, Malformed, Bind, Send, Write,
       FindNothing, Rollback
<1>2. IInv /\ [Next]_vars => Appends
  BY <1>1 DEF Appends
<1> QED
  BY <1>2, Invariance, PTL DEF Spec, AppendOnly
=============================================================================
