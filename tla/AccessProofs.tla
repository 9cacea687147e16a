----------------------------- MODULE AccessProofs -----------------------------
(***************************************************************************)
(* Theorems of Access, for any number of calls, sessions and tokens, and   *)
(* any threshold.                                                          *)
(***************************************************************************)
EXTENDS Access, TLAPS

USE AccessAssumption DEF AccessAssumption

(* A login has read a count of attempts that were made.                      *)
CountsMade ==
  /\ LockEarned
  /\ \A q \in Requests : snapshot[q] <= wrong

(* A reset holds the lock of its token, which nobody has spent since.        *)
TokensLocked ==
  /\ TokenSpentOnce
  /\ \A q \in Requests : pc[q] = "reset" =>
       /\ lock[subject[q]] = q
       /\ token[subject[q]] \in {"issued", "expired"}

(* A revocation to be emitted is one of a session that exists, and that is   *)
(* revoked once the UPDATE has committed.                                    *)
UntoldRevoked ==
  /\ RevocationsTold
  /\ \A q \in Requests : \A s \in untold[q] :
       /\ session[s] # "none"
       /\ pc[q] = "emit_revoked" => session[s] = "revoked"

IInv == TypeOK /\ CountsMade /\ TokensLocked /\ UntoldRevoked

-----------------------------------------------------------------------------
LEMMA InvInit == Init => IInv
<1> SUFFICES ASSUME Init PROVE IInv
  OBVIOUS
<1>1. TypeOK
  <2>1. locked \in BOOLEAN
    BY Zenon DEF Init
  <2>2. failed \in 0 .. MaxWrong /\ wrong \in 0 .. MaxWrong
    BY DEF Init
  <2> QED
    BY <2>1, <2>2 DEF Init, TypeOK, Steps
<1>2. CountsMade /\ TokensLocked /\ UntoldRevoked
  BY DEF Init, CountsMade, LockEarned, TokensLocked, TokenSpentOnce, UntoldRevoked,
         RevocationsTold
<1> QED
  BY <1>1, <1>2 DEF IInv

(* The end of a call, whatever it was.                                       *)
LEMMA FinishTyped ==
  ASSUME TypeOK, NEW q \in Requests, Finish(q)
  PROVE  /\ pc' \in [Requests -> Steps] /\ pc'[q] = "idle"
         /\ snapshot' \in [Requests -> 0 .. MaxWrong] /\ snapshot'[q] = 0
         /\ subject' \in [Requests -> Tokens \union {None}]
         /\ untold' \in [Requests -> SUBSET Sessions] /\ untold'[q] = {}
         /\ \A o \in Requests \ {q} :
              /\ pc'[o] = pc[o] /\ snapshot'[o] = snapshot[o]
              /\ subject'[o] = subject[o] /\ untold'[o] = untold[o]
  BY DEF TypeOK, Finish, Goto, Steps

LEMMA LoginKeeps ==
  ASSUME IInv, NEW q \in Requests,
         \/ LoginRead(q) \/ WrongPassword(q) \/ EmitFailed(q)
         \/ \E s \in Sessions : LoginSucceeds(q, s)
  PROVE  IInv'
<1>1. CASE LoginRead(q)
  <2>1. TypeOK'
    BY <1>1 DEF IInv, TypeOK, LoginRead, Goto, Steps, credentials, history
  <2>2. CountsMade'
    BY <1>1 DEF IInv, TypeOK, CountsMade, LockEarned, LoginRead, credentials, history
  <2>3. TokensLocked'
    BY <1>1 DEF IInv, TypeOK, TokensLocked, TokenSpentOnce, LoginRead, Goto, history
  <2>4. UntoldRevoked'
    BY <1>1 DEF IInv, TypeOK, UntoldRevoked, RevocationsTold, LoginRead, Goto, history
  <2> QED
    BY <2>1, <2>2, <2>3, <2>4 DEF IInv
<1>2. CASE WrongPassword(q)
  <2>1. CountsMade'
    <3>1. failed' = snapshot[q] + 1 /\ wrong' = wrong + 1 /\ snapshot' = snapshot
      BY <1>2 DEF WrongPassword
    <3>2. locked' => snapshot[q] + 1 >= Threshold
      BY <1>2 DEF WrongPassword, Locks
    <3> QED
      BY <3>1, <3>2 DEF IInv, TypeOK, CountsMade, LockEarned
  <2>2. TypeOK'
    <3>1. locked' \in BOOLEAN
      <4>1. Locks(snapshot[q]) \in BOOLEAN
        BY DEF Locks
      <4>2. locked' = Locks(snapshot[q])
        BY <1>2 DEF WrongPassword
      <4> QED
        BY <4>1, <4>2, Zenon
    <3>2. wrong' \in 0 .. MaxWrong
      BY <1>2 DEF IInv, TypeOK, WrongPassword
    <3>3. failed' \in 0 .. MaxWrong
      BY <1>2, <3>2 DEF IInv, TypeOK, CountsMade, WrongPassword
    <3> QED
      BY <1>2, <3>1, <3>2, <3>3 DEF IInv, TypeOK, WrongPassword, Goto, Steps
  <2>3. TokensLocked'
    BY <1>2 DEF IInv, TypeOK, TokensLocked, TokenSpentOnce, WrongPassword, Goto
  <2>4. UntoldRevoked'
    BY <1>2 DEF IInv, TypeOK, UntoldRevoked, RevocationsTold, WrongPassword, Goto
  <2> QED
    BY <2>1, <2>2, <2>3, <2>4 DEF IInv
<1>3. CASE EmitFailed(q)
  <2>1. CASE Goto(q, "emit_last") /\ UNCHANGED <<snapshot, subject, untold>>
    <3>1. TypeOK'
      BY <1>3, <2>1 DEF IInv, TypeOK, EmitFailed, Goto, Steps, credentials, history
    <3>2. CountsMade'
      BY <1>3, <2>1 DEF IInv, CountsMade, LockEarned, EmitFailed, credentials, history
    <3>3. TokensLocked' /\ UntoldRevoked'
      BY <1>3, <2>1 DEF IInv, TypeOK, TokensLocked, TokenSpentOnce, UntoldRevoked,
         RevocationsTold, EmitFailed, Goto, history
    <3> QED
      BY <3>1, <3>2, <3>3 DEF IInv
  <2>2. CASE Finish(q)
    <3>1. TypeOK'
      BY <1>3, <2>2, FinishTyped DEF IInv, TypeOK, EmitFailed, credentials, history
    <3>2. CountsMade'
      BY <1>3, <2>2, FinishTyped DEF IInv, TypeOK, CountsMade, LockEarned, EmitFailed,
         credentials, history
    <3>3. TokensLocked' /\ UntoldRevoked'
      BY <1>3, <2>2, FinishTyped DEF IInv, TypeOK, TokensLocked, TokenSpentOnce,
         UntoldRevoked, RevocationsTold, EmitFailed, history
    <3> QED
      BY <3>1, <3>2, <3>3 DEF IInv
  <2> QED
    BY <1>3, <2>1, <2>2 DEF EmitFailed
<1>4. ASSUME NEW s \in Sessions, LoginSucceeds(q, s) PROVE IInv'
  <2>1. TypeOK'
    <3>1. locked' \in BOOLEAN
      BY <1>4, Zenon DEF LoginSucceeds
    <3>2. failed' \in 0 .. MaxWrong
      BY <1>4 DEF LoginSucceeds
    <3> QED
      BY <1>4, <3>1, <3>2 DEF IInv, TypeOK, LoginSucceeds, Goto, Steps, history
  <2>2. CountsMade'
    BY <1>4 DEF IInv, TypeOK, CountsMade, LockEarned, LoginSucceeds, history
  <2>3. TokensLocked'
    BY <1>4 DEF IInv, TypeOK, TokensLocked, TokenSpentOnce, LoginSucceeds, Goto, history
  <2>4. UntoldRevoked'
    BY <1>4 DEF IInv, TypeOK, UntoldRevoked, RevocationsTold, LoginSucceeds, Goto,
       history
  <2> QED
    BY <2>1, <2>2, <2>3, <2>4 DEF IInv
<1> QED
  BY <1>1, <1>2, <1>3, <1>4

LEMMA LockExpiresKeeps == IInv /\ LockExpires => IInv'
<1> SUFFICES ASSUME IInv, LockExpires PROVE IInv'
  OBVIOUS
<1>1. locked' \in BOOLEAN
  BY Zenon DEF LockExpires
<1>2. TypeOK'
  BY <1>1 DEF IInv, TypeOK, LockExpires, call, history
<1>3. CountsMade' /\ TokensLocked' /\ UntoldRevoked'
  BY DEF IInv, CountsMade, LockEarned, TokensLocked, TokenSpentOnce, UntoldRevoked,
         RevocationsTold, LockExpires, call, history
<1> QED
  BY <1>2, <1>3 DEF IInv

LEMMA RevocationKeeps ==
  ASSUME IInv, NEW q \in Requests,
         \/ LogoutRevoke(q) \/ RevokeAllSessions(q)
         \/ \E s \in Sessions : LogoutRead(q, s) \/ RevokeSession(q, s) \/ EmitRevoked(q, s)
  PROVE  IInv'
<1>1. ASSUME NEW s \in Sessions, LogoutRead(q, s) PROVE IInv'
  <2>1. TypeOK'
    BY <1>1 DEF IInv, TypeOK, LogoutRead, Goto, Steps, credentials, history
  <2>2. CountsMade'
    BY <1>1 DEF IInv, CountsMade, LockEarned, LogoutRead, credentials, history
  <2>3. TokensLocked'
    BY <1>1 DEF IInv, TypeOK, TokensLocked, TokenSpentOnce, LogoutRead, Goto, history
  <2>4. UntoldRevoked'
    BY <1>1 DEF IInv, TypeOK, UntoldRevoked, RevocationsTold, LogoutRead, Live, Goto,
       history
  <2> QED
    BY <2>1, <2>2, <2>3, <2>4 DEF IInv
<1>2. CASE LogoutRevoke(q)
  <2>1. TypeOK'
    BY <1>2 DEF IInv, TypeOK, LogoutRevoke, Revoked, Goto, Steps, credentials, history
  <2>2. CountsMade'
    BY <1>2 DEF IInv, CountsMade, LockEarned, LogoutRevoke, credentials, history
  <2>3. TokensLocked'
    BY <1>2 DEF IInv, TypeOK, TokensLocked, TokenSpentOnce, LogoutRevoke, Goto, history
  <2>4. UntoldRevoked'
    BY <1>2 DEF IInv, TypeOK, UntoldRevoked, RevocationsTold, LogoutRevoke, Revoked,
       Goto, history
  <2> QED
    BY <2>1, <2>2, <2>3, <2>4 DEF IInv
<1>3. ASSUME NEW S \in SUBSET Sessions, RevokeLive(q, S) PROVE IInv'
  <2>1. TypeOK'
    BY <1>3 DEF IInv, TypeOK, RevokeLive, Revoked, Goto, Steps, credentials, history
  <2>2. CountsMade'
    BY <1>3 DEF IInv, CountsMade, LockEarned, RevokeLive, credentials, history
  <2>3. TokensLocked'
    BY <1>3 DEF IInv, TypeOK, TokensLocked, TokenSpentOnce, RevokeLive, Goto, history
  <2>4. UntoldRevoked'
    BY <1>3 DEF IInv, TypeOK, UntoldRevoked, RevocationsTold, RevokeLive, Revoked,
       Goto, Live, history
  <2> QED
    BY <2>1, <2>2, <2>3, <2>4 DEF IInv
<1>4. ASSUME NEW s \in Sessions, EmitRevoked(q, s) PROVE IInv'
  <2>1. CASE Finish(q) /\ untold[q] = {s}
    <3>1. TypeOK'
      BY <1>4, <2>1, FinishTyped DEF IInv, TypeOK, EmitRevoked, credentials
    <3>2. CountsMade' /\ TokensLocked'
      BY <1>4, <2>1, FinishTyped DEF IInv, TypeOK, CountsMade, LockEarned,
         TokensLocked, TokenSpentOnce, EmitRevoked, credentials
    <3>3. UntoldRevoked'
      BY <1>4, <2>1, FinishTyped DEF IInv, TypeOK, UntoldRevoked, RevocationsTold,
         EmitRevoked
    <3> QED
      BY <3>1, <3>2, <3>3 DEF IInv
  <2>2. CASE /\ untold' = [untold EXCEPT ![q] = @ \ {s}]
             /\ UNCHANGED <<pc, snapshot, subject>>
    <3>1. TypeOK'
      BY <1>4, <2>2 DEF IInv, TypeOK, EmitRevoked, credentials
    <3>2. CountsMade' /\ TokensLocked'
      BY <1>4, <2>2 DEF IInv, CountsMade, LockEarned, TokensLocked, TokenSpentOnce,
         EmitRevoked, credentials
    <3>3. UntoldRevoked'
      BY <1>4, <2>2 DEF IInv, TypeOK, UntoldRevoked, RevocationsTold, EmitRevoked
    <3> QED
      BY <3>1, <3>2, <3>3 DEF IInv
  <2> QED
    BY <1>4, <2>1, <2>2 DEF EmitRevoked
<1> QED
  BY <1>1, <1>2, <1>3, <1>4 DEF RevokeSession, RevokeAllSessions

LEMMA ResetKeeps ==
  ASSUME IInv, NEW q \in Requests,
         \/ \E t \in Tokens : RequestPasswordReset(q, t) \/ ResetRead(q, t)
         \/ ResetCommit(q) \/ ResetOrphan(q)
  PROVE  IInv'
<1>1. ASSUME NEW t \in Tokens, RequestPasswordReset(q, t) PROVE IInv'
  <2>1. TypeOK'
    BY <1>1 DEF IInv, TypeOK, RequestPasswordReset, Goto, Steps, credentials, history
  <2>2. CountsMade' /\ UntoldRevoked'
    BY <1>1 DEF IInv, TypeOK, CountsMade, LockEarned, UntoldRevoked, RevocationsTold,
       RequestPasswordReset, Goto, credentials, history
  <2>3. TokensLocked'
    BY <1>1 DEF IInv, TypeOK, TokensLocked, TokenSpentOnce, RequestPasswordReset, Goto,
       history
  <2> QED
    BY <2>1, <2>2, <2>3 DEF IInv
<1>2. ASSUME NEW t \in Tokens, ResetRead(q, t) PROVE IInv'
  <2>1. TypeOK'
    BY <1>2 DEF IInv, TypeOK, ResetRead, Goto, Steps, credentials, history
  <2>2. CountsMade' /\ UntoldRevoked'
    BY <1>2 DEF IInv, TypeOK, CountsMade, LockEarned, UntoldRevoked, RevocationsTold,
       ResetRead, Goto, credentials, history
  <2>3. TokensLocked'
    BY <1>2 DEF IInv, TypeOK, TokensLocked, TokenSpentOnce, ResetRead, Goto, history
  <2> QED
    BY <2>1, <2>2, <2>3 DEF IInv
<1>3. CASE ResetCommit(q)
  <2>1. TypeOK'
    <3>1. locked' \in BOOLEAN
      BY <1>3, Zenon DEF ResetCommit
    <3>2. failed' \in 0 .. MaxWrong
      BY <1>3 DEF ResetCommit
    <3> QED
      BY <1>3, <3>1, <3>2 DEF IInv, TypeOK, ResetCommit, Goto, Steps
  <2>2. CountsMade' /\ UntoldRevoked'
    BY <1>3 DEF IInv, TypeOK, CountsMade, LockEarned, UntoldRevoked, RevocationsTold,
       ResetCommit, Goto
  <2>3. TokensLocked'
    BY <1>3 DEF IInv, TypeOK, TokensLocked, TokenSpentOnce, ResetCommit, Goto
  <2> QED
    BY <2>1, <2>2, <2>3 DEF IInv
<1>4. CASE ResetOrphan(q)
  <2>1. TypeOK'
    BY <1>4, FinishTyped DEF IInv, TypeOK, ResetOrphan, credentials, history
  <2>2. CountsMade' /\ UntoldRevoked'
    BY <1>4, FinishTyped DEF IInv, TypeOK, CountsMade, LockEarned, UntoldRevoked,
       RevocationsTold, ResetOrphan, credentials, history
  <2>3. TokensLocked'
    BY <1>4, FinishTyped DEF IInv, TypeOK, TokensLocked, TokenSpentOnce, ResetOrphan,
       history
  <2> QED
    BY <2>1, <2>2, <2>3 DEF IInv
<1> QED
  BY <1>1, <1>2, <1>3, <1>4

LEMMA TokenExpiresKeeps ==
  ASSUME IInv, NEW t \in Tokens, TokenExpires(t)
  PROVE  IInv'
<1>1. TypeOK'
  BY DEF IInv, TypeOK, TokenExpires, credentials, call, history
<1>2. CountsMade' /\ UntoldRevoked'
  BY DEF IInv, CountsMade, LockEarned, UntoldRevoked, RevocationsTold, TokenExpires,
         credentials, call, history
<1>3. TokensLocked'
  BY DEF IInv, TypeOK, TokensLocked, TokenSpentOnce, TokenExpires, call, history
<1> QED
  BY <1>1, <1>2, <1>3 DEF IInv

LEMMA EndKeeps ==
  ASSUME IInv, NEW q \in Requests, EmitLast(q) \/ Abandon(q)
  PROVE  IInv'
<1>1. Finish(q)
  BY DEF EmitLast, Abandon
<1>2. CASE EmitLast(q)
  <2>1. TypeOK'
    BY <1>1, <1>2, FinishTyped DEF IInv, TypeOK, EmitLast, credentials, history
  <2>2. CountsMade' /\ TokensLocked' /\ UntoldRevoked'
    BY <1>1, <1>2, FinishTyped DEF IInv, TypeOK, CountsMade, LockEarned, TokensLocked,
       TokenSpentOnce, UntoldRevoked, RevocationsTold, EmitLast, credentials, history
  <2> QED
    BY <2>1, <2>2 DEF IInv
<1>3. CASE Abandon(q)
  <2>1. TypeOK'
    BY <1>1, <1>3, FinishTyped DEF IInv, TypeOK, Abandon, credentials
  <2>2. CountsMade'
    BY <1>1, <1>3, FinishTyped DEF IInv, TypeOK, CountsMade, LockEarned, Abandon,
       credentials
  <2>3. TokensLocked'
    BY <1>1, <1>3, FinishTyped DEF IInv, TypeOK, TokensLocked, TokenSpentOnce, Abandon
  <2>4. UntoldRevoked'
    BY <1>1, <1>3, FinishTyped DEF IInv, TypeOK, UntoldRevoked, RevocationsTold, Abandon
  <2> QED
    BY <2>1, <2>2, <2>3, <2>4 DEF IInv
<1> QED
  BY <1>2, <1>3

LEMMA InvNext == IInv /\ [Next]_vars => IInv'
<1> SUFFICES ASSUME IInv, [Next]_vars PROVE IInv'
  OBVIOUS
<1>1. CASE UNCHANGED vars
  BY <1>1 DEF IInv, TypeOK, CountsMade, LockEarned, TokensLocked, TokenSpentOnce,
              UntoldRevoked, RevocationsTold, vars
<1>2. CASE Next
  BY <1>2, LoginKeeps, LockExpiresKeeps, RevocationKeeps, ResetKeeps,
     TokenExpiresKeeps, EndKeeps DEF Next
<1> QED
  BY <1>1, <1>2

LEMMA Invariance == Spec => []IInv
BY InvInit, InvNext, PTL DEF Spec

-----------------------------------------------------------------------------
(* Type correctness.                                                         *)
THEOREM TypeCorrect == Spec => []TypeOK
<1>1. IInv => TypeOK
  BY DEF IInv
<1> QED
  BY <1>1, Invariance, PTL

(* An account is locked only with Threshold attempts counted, none of which  *)
(* was not made, however many logins write back a count they read earlier.   *)
THEOREM LocksAreEarned == Spec => []LockEarned
<1>1. IInv => LockEarned
  BY DEF IInv, CountsMade
<1> QED
  BY <1>1, Invariance, PTL

(* However many resets of a token overlap, one changes the password.         *)
THEOREM TokensAreSpentOnce == Spec => []TokenSpentOnce
<1>1. IInv => TokenSpentOnce
  BY DEF IInv, TokensLocked
<1> QED
  BY <1>1, Invariance, PTL

(* Revocations are told of, and nothing else is, however many overlap.       *)
THEOREM RevocationsAreTold == Spec => []RevocationsTold
<1>1. IInv => RevocationsTold
  BY DEF IInv, UntoldRevoked
<1> QED
  BY <1>1, Invariance, PTL
=============================================================================
