-------------------------------- MODULE Access --------------------------------
(***************************************************************************)
(* Access of one user to one company (modules/module-iam): login with its  *)
(* lockout counter, logout, revokeSession, revokeAllSessions and the       *)
(* password reset.                                                         *)
(*                                                                         *)
(* Every call awaits between its statements, and an event is emitted after *)
(* the statement that it reports has committed.  validateSession and       *)
(* listSessions, and calls that are refused, only read.                    *)
(***************************************************************************)
EXTENDS Naturals

CONSTANTS
  Requests,    \* calls in flight at most at the same time
  Sessions,    \* ids that login may give
  Tokens,      \* reset tokens that may be issued
  Orphans,     \* those issued to a member that has no credentials
  Threshold,   \* LOCKOUT_THRESHOLD
  MaxWrong,    \* bound: wrong passwords given
  MayFail,     \* statements may fail and processes may die
  None

ASSUME AccessAssumption ==
  /\ Orphans \subseteq Tokens
  /\ Threshold \in Nat \ {0}
  /\ MaxWrong \in Nat
  /\ MayFail \in BOOLEAN
  /\ None \notin Requests \union Tokens

VARIABLES
  failed, locked,  \* credentials.failed_attempts, and locked_until in future
  session,         \* module_iam.sessions: "none" before the insert
  token,           \* module_iam.password_reset_tokens
  lock,            \* the transaction that holds a token's row lock
  pc,
  snapshot,        \* failed_attempts as the call read it
  subject,         \* token of a reset
  untold,          \* sessions whose revocation is the call's to emit
  wrong,           \* history: wrong passwords given
  changes,         \* history: password changes made with each token
  told,            \* history: sessions whose revocation was emitted
  cut              \* history: sessions whose revocation a call that ended by
                   \* an exception or a crash had to emit

credentials == <<failed, locked>>
call == <<pc, snapshot, subject, untold>>
history == <<wrong, changes, told, cut>>
vars == <<failed, locked, session, token, lock, pc, snapshot, subject, untold,
          wrong, changes, told, cut>>

Steps == {"idle", "verify", "emit_failed", "emit_last", "revoke",
          "emit_revoked", "reset"}

Live == {s \in Sessions : session[s] = "live"}

Goto(q, step) == pc' = [pc EXCEPT ![q] = step]

Finish(q) ==
  /\ Goto(q, "idle")
  /\ snapshot' = [snapshot EXCEPT ![q] = 0]
  /\ subject' = [subject EXCEPT ![q] = None]
  /\ untold' = [untold EXCEPT ![q] = {}]

-----------------------------------------------------------------------------
Init ==
  /\ failed = 0 /\ locked = FALSE
  /\ session = [s \in Sessions |-> "none"]
  /\ token = [t \in Tokens |-> "none"]
  /\ lock = [t \in Tokens |-> None]
  /\ pc = [q \in Requests |-> "idle"]
  /\ snapshot = [q \in Requests |-> 0]
  /\ subject = [q \in Requests |-> None]
  /\ untold = [q \in Requests |-> {}]
  /\ wrong = 0
  /\ changes = [t \in Tokens |-> 0]
  /\ told = {} /\ cut = {}

(* login() reads the credentials; a locked account is refused.               *)
LoginRead(q) ==
  /\ pc[q] = "idle"
  /\ ~locked
  /\ snapshot' = [snapshot EXCEPT ![q] = failed]
  /\ Goto(q, "verify")
  /\ UNCHANGED <<credentials, session, token, lock, subject, untold, history>>

(* Variant: one attempt early.                                               *)
LocksEarly(n) == n + 2 >= Threshold

(* nextLockoutState, after n failed attempts.                                *)
Locks(n) == n + 1 >= Threshold

(* Variant: the attempt is counted twice.                                    *)
WrongPasswordTwice(q) ==
  /\ pc[q] = "verify"
  /\ wrong < MaxWrong
  /\ wrong' = wrong + 1
  /\ failed' = snapshot[q] + 2
  /\ locked' = Locks(snapshot[q] + 1)
  /\ Goto(q, "emit_failed")
  /\ UNCHANGED <<session, token, lock, snapshot, subject, untold, changes, told, cut>>

(* The password does not verify: what was read, plus one, is written.        *)
WrongPassword(q) ==
  /\ pc[q] = "verify"
  /\ wrong < MaxWrong
  /\ wrong' = wrong + 1
  /\ failed' = snapshot[q] + 1
  /\ locked' = Locks(snapshot[q])
  /\ Goto(q, "emit_failed")
  /\ UNCHANGED <<session, token, lock, snapshot, subject, untold, changes, told, cut>>

(* AUTH_FAILED; CREDENTIAL_LOCKED follows if the attempt has locked.         *)
EmitFailed(q) ==
  /\ pc[q] = "emit_failed"
  /\ IF Locks(snapshot[q])
     THEN Goto(q, "emit_last") /\ UNCHANGED <<snapshot, subject, untold>>
     ELSE Finish(q)
  /\ UNCHANGED <<credentials, session, token, lock, history>>

(* The password verifies: the reset of the lockout and the new session       *)
(* commit together.                                                          *)
LoginSucceeds(q, s) ==
  /\ pc[q] = "verify"
  /\ session[s] = "none"
  /\ session' = [session EXCEPT ![s] = "live"]
  /\ failed' = 0 /\ locked' = FALSE
  /\ Goto(q, "emit_last")
  /\ UNCHANGED <<token, lock, snapshot, subject, untold, history>>

(* locked_until passes; the attempts stay.                                   *)
LockExpires ==
  /\ locked
  /\ locked' = FALSE
  /\ UNCHANGED <<failed, session, token, lock, call, history>>

-----------------------------------------------------------------------------
(* Revocation *)

(* logout() finds the session, and it is not revoked.                        *)
LogoutRead(q, s) ==
  /\ pc[q] = "idle"
  /\ s \in Live
  /\ untold' = [untold EXCEPT ![q] = {s}]
  /\ Goto(q, "revoke")
  /\ UNCHANGED <<credentials, session, token, lock, snapshot, subject, history>>

(* Variant: the event comes before the UPDATE.                               *)
LogoutTellsFirst(q) ==
  /\ pc[q] = "revoke"
  /\ told' = told \union untold[q]
  /\ Goto(q, "emit_revoked")
  /\ UNCHANGED <<credentials, session, token, lock, snapshot, subject, untold,
                 wrong, changes, cut>>

Revoked(S) == [s \in Sessions |-> IF s \in S THEN "revoked" ELSE session[s]]

(* An UPDATE by id alone.                                                    *)
LogoutRevoke(q) ==
  /\ pc[q] = "revoke"
  /\ session' = Revoked(untold[q])
  /\ Goto(q, "emit_revoked")
  /\ UNCHANGED <<credentials, token, lock, snapshot, subject, untold, history>>

(* One UPDATE of the sessions of S that are not revoked yet, and returns     *)
(* those.                                                                    *)
RevokeLive(q, S) ==
  /\ pc[q] = "idle"
  /\ S \cap Live # {}
  /\ session' = Revoked(S \cap Live)
  /\ untold' = [untold EXCEPT ![q] = S \cap Live]
  /\ Goto(q, "emit_revoked")
  /\ UNCHANGED <<credentials, token, lock, snapshot, subject, history>>

RevokeSession(q, s) == RevokeLive(q, {s})

RevokeAllSessions(q) == RevokeLive(q, Sessions)

(* One event per session; revokeAllSessions emits them in any order.         *)
EmitRevoked(q, s) ==
  /\ pc[q] = "emit_revoked"
  /\ s \in untold[q]
  /\ told' = told \union {s}
  /\ IF untold[q] = {s}
     THEN Finish(q)
     ELSE /\ untold' = [untold EXCEPT ![q] = @ \ {s}]
          /\ UNCHANGED <<pc, snapshot, subject>>
  /\ UNCHANGED <<credentials, session, token, lock, wrong, changes, cut>>

-----------------------------------------------------------------------------
(* Password reset *)

RequestPasswordReset(q, t) ==
  /\ pc[q] = "idle"
  /\ token[t] = "none"
  /\ token' = [token EXCEPT ![t] = "issued"]
  /\ Goto(q, "emit_last")
  /\ UNCHANGED <<credentials, session, lock, snapshot, subject, untold, history>>

(* expires_at passes.                                                        *)
TokenExpires(t) ==
  /\ token[t] = "issued"
  /\ token' = [token EXCEPT ![t] = "expired"]
  /\ UNCHANGED <<credentials, session, lock, call, history>>

(* Variant: SELECT without FOR UPDATE.                                       *)
ResetReadUnlocked(q, t) ==
  /\ pc[q] = "idle"
  /\ token[t] = "issued"
  /\ subject' = [subject EXCEPT ![q] = t]
  /\ Goto(q, "reset")
  /\ UNCHANGED <<credentials, session, token, lock, snapshot, untold, history>>

(* consumePasswordReset(): SELECT ... FOR UPDATE finds an unspent token.     *)
ResetRead(q, t) ==
  /\ pc[q] = "idle"
  /\ lock[t] = None
  /\ token[t] = "issued"
  /\ lock' = [lock EXCEPT ![t] = q]
  /\ subject' = [subject EXCEPT ![q] = t]
  /\ Goto(q, "reset")
  /\ UNCHANGED <<credentials, session, token, snapshot, untold, history>>

(* Token and credentials commit together; the sessions stay as they are.     *)
ResetCommit(q) ==
  /\ pc[q] = "reset"
  /\ subject[q] \notin Orphans
  /\ token' = [token EXCEPT ![subject[q]] = "consumed"]
  /\ changes' = [changes EXCEPT ![subject[q]] = @ + 1]
  /\ failed' = 0 /\ locked' = FALSE
  /\ lock' = [lock EXCEPT ![subject[q]] = None]
  /\ Goto(q, "emit_last")
  /\ UNCHANGED <<session, snapshot, subject, untold, wrong, told, cut>>

(* No credentials to update: the transaction returns an error, which commits *)
(* it.                                                                       *)
ResetOrphan(q) ==
  /\ pc[q] = "reset"
  /\ subject[q] \in Orphans
  /\ token' = [token EXCEPT ![subject[q]] = "consumed"]
  /\ lock' = [lock EXCEPT ![subject[q]] = None]
  /\ Finish(q)
  /\ UNCHANGED <<credentials, session, history>>

-----------------------------------------------------------------------------
(* The last event of a call, and its return.                                 *)
EmitLast(q) ==
  /\ pc[q] = "emit_last"
  /\ Finish(q)
  /\ UNCHANGED <<credentials, session, token, lock, history>>

(* The next statement fails and the error propagates, or the process dies;   *)
(* an open transaction is rolled back.                                       *)
Abandon(q) ==
  /\ MayFail
  /\ pc[q] # "idle"
  /\ lock' = [t \in Tokens |-> IF lock[t] = q THEN None ELSE lock[t]]
  /\ cut' = IF pc[q] = "emit_revoked" THEN cut \union untold[q] ELSE cut
  /\ Finish(q)
  /\ UNCHANGED <<credentials, session, token, wrong, changes, told>>

Next ==
  \/ \E q \in Requests :
       \/ LoginRead(q) \/ WrongPassword(q) \/ EmitFailed(q)
       \/ \E s \in Sessions :
            LoginSucceeds(q, s) \/ LogoutRead(q, s) \/ RevokeSession(q, s)
              \/ EmitRevoked(q, s)
       \/ LogoutRevoke(q) \/ RevokeAllSessions(q)
       \/ \E t \in Tokens : RequestPasswordReset(q, t) \/ ResetRead(q, t)
       \/ ResetCommit(q) \/ ResetOrphan(q)
       \/ EmitLast(q) \/ Abandon(q)
  \/ LockExpires
  \/ \E t \in Tokens : TokenExpires(t)

Spec == Init /\ [][Next]_vars

-----------------------------------------------------------------------------
(* Properties *)

TypeOK ==
  /\ failed \in 0 .. MaxWrong
  /\ locked \in BOOLEAN
  /\ session \in [Sessions -> {"none", "live", "revoked"}]
  /\ token \in [Tokens -> {"none", "issued", "expired", "consumed"}]
  /\ lock \in [Tokens -> Requests \union {None}]
  /\ pc \in [Requests -> Steps]
  /\ snapshot \in [Requests -> 0 .. MaxWrong]
  /\ subject \in [Requests -> Tokens \union {None}]
  /\ \A q \in Requests : pc[q] = "reset" => subject[q] \in Tokens
  /\ untold \in [Requests -> SUBSET Sessions]
  /\ wrong \in 0 .. MaxWrong
  /\ changes \in [Tokens -> Nat]
  /\ told \union cut \subseteq Sessions

(* However logins, resets and expiring locks overlap, though each writes     *)
(* back a count it read earlier: an account is locked only with Threshold    *)
(* attempts counted, and none is counted that was not made.                  *)
LockEarned ==
  /\ locked => failed >= Threshold
  /\ failed <= wrong

(* "Single-use tokens", "prevents double-consume race": a token changes the  *)
(* password at most once, and is spent in the same commit; its row is locked *)
(* only while a reset of it is running.                                      *)
TokenSpentOnce ==
  \A t \in Tokens :
    /\ changes[t] = IF token[t] = "consumed" /\ t \notin Orphans THEN 1 ELSE 0
    /\ lock[t] # None => pc[lock[t]] = "reset" /\ subject[lock[t]] = t

(* iam.session.revoked is emitted only for a session that is revoked, and    *)
(* for each one that is, unless the call that revoked it was cut short:      *)
(* however logouts, single and bulk revocations of a session overlap.        *)
RevocationsTold ==
  \A s \in Sessions :
    /\ s \in told => session[s] = "revoked"
    /\ session[s] = "revoked" =>
         \/ s \in told \union cut
         \/ \E q \in Requests : pc[q] = "emit_revoked" /\ s \in untold[q]
=============================================================================
