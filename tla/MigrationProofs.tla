--------------------------- MODULE MigrationProofs ---------------------------
(***************************************************************************)
(* Theorems of MigrationRunner, for any number of runners, checkouts and   *)
(* deaths.                                                                 *)
(***************************************************************************)
EXTENDS MigrationRunner, WellFoundedInduction, TLAPS

USE MigrationAssumption DEF MigrationAssumption

(* What the exits and the steps to a next file do to the state of a runner. *)
LEMMA ExitEffect ==
  ASSUME TypeOK, NEW r \in Runners, Exit(r)
  PROVE  /\ pc' \in [Runners -> {"idle", "run", "record"}]
         /\ known' \in [Runners -> [Names -> Versions \union {None}]]
         /\ todo' \in [Runners -> SUBSET Files]
         /\ pc'[r] = "idle" /\ todo'[r] = {} /\ known'[r] = Empty
         /\ \A s \in Runners \ {r} :
              pc'[s] = pc[s] /\ todo'[s] = todo[s] /\ known'[s] = known[s]
<1>1. Empty \in [Names -> Versions \union {None}]
  BY DEF Empty
<1> QED
  BY <1>1 DEF Exit, TypeOK

LEMMA AdvanceEffect ==
  ASSUME TypeOK, NEW r \in Runners, NEW f, Advance(r, f)
  PROVE  /\ pc' \in [Runners -> {"idle", "run", "record"}]
         /\ known' = known
         /\ todo' \in [Runners -> SUBSET Files]
         /\ pc'[r] = "run" /\ todo'[r] = todo[r] \ {f}
         /\ \A s \in Runners \ {r} : pc'[s] = pc[s] /\ todo'[s] = todo[s]
<1>1. todo[r] \ {f} \in SUBSET Files
  BY DEF TypeOK
<1> QED
  BY <1>1 DEF Advance, TypeOK

LEMMA FileFacts ==
  ASSUME NEW f \in Files
  PROVE  Name(f) \in Names /\ f.version \in Versions /\ f.version # None
BY DEF Names, Versions

LEMMA InvInit == Init => IInv
<1> SUFFICES ASSUME Init PROVE IInv
  OBVIOUS
<1>1. Empty \in [Names -> Versions \union {None}]
  BY DEF Empty
<1>2. TypeOK
  BY <1>1 DEF Init, TypeOK
<1>3. SnapshotTrue
  BY DEF Init, SnapshotTrue, Empty
<1> QED
  BY <1>2, <1>3 DEF Init, IInv, RecordsExecuted, PrefixRecorded, LedgerTruthful, Empty

(* A step of runner r that changes neither ledger nor executed, and leaves  *)
(* r idle: it exits or dies.                                                *)
LEMMA ExitKeeps ==
  ASSUME IInv, NEW r \in Runners, Exit(r), UNCHANGED <<checkout, ledger, executed>>,
         torn' \subseteq Files, deaths' \in 0..MaxDeaths
  PROVE  IInv'
<1>1. TypeOK
  BY DEF IInv
<1>2. TypeOK'
  BY <1>1, ExitEffect DEF TypeOK
<1>3. SnapshotTrue'
  BY <1>1, ExitEffect DEF IInv, SnapshotTrue, Empty
<1>4. RecordsExecuted'
  BY <1>1, ExitEffect DEF IInv, RecordsExecuted
<1>5. PrefixRecorded'
  BY <1>1, ExitEffect DEF IInv, PrefixRecorded
<1> QED
  BY <1>2, <1>3, <1>4, <1>5 DEF IInv, LedgerTruthful

(* A step of runner r past its file f, which is in the ledger then: a skip, *)
(* or one that inserts the row.                                             *)
LEMMA AdvanceKeeps ==
  ASSUME IInv, NEW r \in Runners, NEW f \in todo[r], Advance(r, f),
         pc[r] # "idle",
         ledger' \in [Names -> Versions \union {None}],
         executed' \in [Names -> SUBSET Versions],
         \A n \in Names : executed[n] \subseteq executed'[n],
         \A n \in Names : ledger[n] # None => ledger'[n] = ledger[n],
         \A n \in Names : ledger'[n] # None => ledger'[n] \in executed'[n],
         ledger'[Name(f)] = f.version,
         UNCHANGED <<checkout, torn, deaths>>
  PROVE  IInv'
<1>1. TypeOK
  BY DEF IInv
<1>f. /\ \A s \in Runners : checkout[s] \subseteq Files
      /\ \A g \in Files : Name(g) \in Names /\ g.version # None
  <2>1. \A s \in Runners : checkout[s] \in Checkouts
    BY <1>1 DEF TypeOK
  <2> QED
    BY <2>1, FileFacts DEF Files
<1>2. TypeOK'
  BY <1>1, AdvanceEffect DEF TypeOK
<1>3. SnapshotTrue'
  <2> SUFFICES ASSUME NEW s \in Runners, NEW n \in Names, known[s][n] # None
               PROVE  ledger'[n] = known[s][n]
    BY <1>1, AdvanceEffect DEF SnapshotTrue
  <2> QED
    BY DEF IInv, SnapshotTrue
<1>4. RecordsExecuted'
  <2> SUFFICES ASSUME NEW s \in Runners, pc'[s] = "record",
                      NEW g \in todo'[s], g = First(todo'[s])
               PROVE  g.version \in executed'[Name(g)]
    BY DEF RecordsExecuted
  <2>1. s # r /\ pc[s] = "record" /\ todo'[s] = todo[s]
    BY <1>1, AdvanceEffect
  <2>2. g.version \in executed[Name(g)] /\ Name(g) \in Names
    BY <1>1, <2>1, FileFacts DEF IInv, RecordsExecuted, TypeOK
  <2> QED
    BY <2>2
<1>5. PrefixRecorded'
  <2> SUFFICES ASSUME NEW s \in Runners, pc'[s] # "idle",
                      NEW g \in checkout[s] \ todo'[s]
               PROVE  ledger'[Name(g)] = g.version
    BY DEF PrefixRecorded
  <2>1. g \in Files /\ Name(g) \in Names /\ g.version # None
    BY <1>f
  <2>2. CASE s = r /\ g = f
    BY <2>2
  <2>3. CASE ~(s = r /\ g = f)
    <3>1. pc[s] # "idle" /\ g \in checkout[s] \ todo[s]
      BY <1>1, <2>3, AdvanceEffect
    <3>2. ledger[Name(g)] = g.version
      BY <3>1 DEF IInv, PrefixRecorded
    <3> QED
      BY <2>1, <3>2
  <2> QED
    BY <2>2, <2>3
<1> QED
  BY <1>2, <1>3, <1>4, <1>5 DEF IInv, LedgerTruthful

LEMMA InvNext == IInv /\ [Next]_vars => IInv'
<1> SUFFICES ASSUME IInv, [Next]_vars PROVE IInv'
  OBVIOUS
<1> USE DEF IInv
<1>t. TypeOK
  OBVIOUS
<1>f. \A r \in Runners : \A f \in todo[r] :
        f \in Files /\ Name(f) \in Names /\ f.version \in Versions /\ f.version # None
  BY <1>t, FileFacts DEF TypeOK
<1>1. ASSUME NEW r \in Runners, Start(r)
      PROVE  IInv'
  <2>1. checkout[r] \subseteq Files
    BY <1>t DEF TypeOK, Files
  <2>2. TypeOK'
    BY <1>1, <1>t, <2>1 DEF Start, TypeOK
  <2>3. SnapshotTrue'
    BY <1>1, <1>t DEF Start, SnapshotTrue, TypeOK
  <2>4. RecordsExecuted'
    BY <1>1, <1>t DEF Start, RecordsExecuted, TypeOK
  <2>5. PrefixRecorded'
    BY <1>1, <1>t DEF Start, PrefixRecorded, TypeOK
  <2>6. LedgerTruthful'
    BY <1>1 DEF Start, LedgerTruthful
  <2> QED
    BY <2>2, <2>3, <2>4, <2>5, <2>6
<1>2. ASSUME NEW r \in Runners, NEW f \in todo[r], Skip(r, f)
      PROVE  IInv'
  <2>1. pc[r] # "idle" /\ Advance(r, f) /\ UNCHANGED <<checkout, ledger, executed, torn, deaths>>
    BY <1>2 DEF Skip, At
  <2>2. ledger[Name(f)] = f.version
    BY <1>2, <1>f DEF Skip, SnapshotTrue
  <2> QED
    BY <2>1, <2>2, <1>t, AdvanceKeeps DEF TypeOK, LedgerTruthful
<1>3. ASSUME NEW r \in Runners, NEW f \in todo[r], Refuse(r, f)
      PROVE  IInv'
  BY <1>3, <1>t, ExitKeeps DEF Refuse, TypeOK
<1>4. ASSUME NEW r \in Runners, NEW f \in todo[r], Execute(r, f)
      PROVE  IInv'
  <2>1. CASE Exit(r) /\ UNCHANGED executed
    BY <1>4, <2>1, <1>t, ExitKeeps DEF Execute, TypeOK
  <2>2. CASE /\ executed' = [executed EXCEPT ![Name(f)] = @ \union {f.version}]
             /\ pc' = [pc EXCEPT ![r] = "record"]
             /\ UNCHANGED <<known, todo>>
    <3>1. UNCHANGED <<checkout, ledger, torn, deaths>> /\ At(r, f)
      BY <1>4 DEF Execute
    <3>2. /\ executed' \in [Names -> SUBSET Versions]
          /\ \A n \in Names : executed[n] \subseteq executed'[n]
          /\ f.version \in executed'[Name(f)]
      BY <2>2, <1>t, <1>f DEF TypeOK
    <3>3. TypeOK'
      BY <2>2, <3>1, <3>2, <1>t DEF TypeOK, At
    <3>4. SnapshotTrue'
      BY <2>2, <3>1 DEF SnapshotTrue
    <3>5. RecordsExecuted'
      <4> SUFFICES ASSUME NEW s \in Runners, pc'[s] = "record",
                          NEW g \in todo[s], g = First(todo[s])
                   PROVE  g.version \in executed'[Name(g)]
        BY <2>2 DEF RecordsExecuted
      <4>1. CASE s = r
        BY <4>1, <3>1, <3>2 DEF At
      <4>2. CASE s # r
        BY <4>2, <2>2, <3>2, <1>t, <1>f DEF RecordsExecuted, TypeOK
      <4> QED
        BY <4>1, <4>2
    <3>6. PrefixRecorded'
      BY <2>2, <3>1, <1>t DEF PrefixRecorded, TypeOK, At
    <3>7. LedgerTruthful'
      BY <3>1, <3>2 DEF LedgerTruthful
    <3> QED
      BY <3>3, <3>4, <3>5, <3>6, <3>7
  <2> QED
    BY <1>4, <2>1, <2>2 DEF Execute
<1>5. ASSUME NEW r \in Runners, NEW f \in todo[r], Record(r, f)
      PROVE  IInv'
  <2>1. CASE Exit(r) /\ UNCHANGED ledger
    BY <1>5, <2>1, <1>t, ExitKeeps DEF Record, TypeOK
  <2>2. CASE /\ ledger[Name(f)] = None
             /\ ledger' = [ledger EXCEPT ![Name(f)] = f.version]
             /\ Advance(r, f)
    <3>1. f.version \in executed[Name(f)] /\ pc[r] = "record"
      BY <1>5 DEF Record, RecordsExecuted
    <3>2. UNCHANGED <<checkout, executed, torn, deaths>>
      BY <1>5 DEF Record
    <3>3. /\ ledger' \in [Names -> Versions \union {None}]
          /\ ledger'[Name(f)] = f.version
          /\ \A n \in Names : ledger[n] # None => ledger'[n] = ledger[n]
          /\ \A n \in Names : ledger'[n] # None => ledger'[n] \in executed[n]
      BY <2>2, <3>1, <1>t, <1>f DEF TypeOK, LedgerTruthful
    <3> QED
      BY <2>2, <3>1, <3>2, <3>3, <1>t, AdvanceKeeps DEF TypeOK
  <2> QED
    BY <1>5, <2>1, <2>2 DEF Record
<1>6. ASSUME NEW r \in Runners, NEW f \in todo[r], ApplyWhole(r, f)
      PROVE  IInv'
  <2>1. CASE Exit(r) /\ UNCHANGED <<executed, ledger>>
    BY <1>6, <2>1, <1>t, ExitKeeps DEF ApplyWhole, TypeOK
  <2>2. CASE /\ ledger[Name(f)] = None
             /\ executed' = [executed EXCEPT ![Name(f)] = @ \union {f.version}]
             /\ ledger' = [ledger EXCEPT ![Name(f)] = f.version]
             /\ Advance(r, f)
    <3>1. pc[r] # "idle" /\ UNCHANGED <<checkout, torn, deaths>>
      BY <1>6 DEF ApplyWhole, At
    <3>2. /\ executed' \in [Names -> SUBSET Versions]
          /\ \A n \in Names : executed[n] \subseteq executed'[n]
          /\ f.version \in executed'[Name(f)]
      BY <2>2, <1>t, <1>f DEF TypeOK
    <3>3. /\ ledger' \in [Names -> Versions \union {None}]
          /\ ledger'[Name(f)] = f.version
          /\ \A n \in Names : ledger[n] # None => ledger'[n] = ledger[n]
          /\ \A n \in Names : ledger'[n] # None => ledger'[n] \in executed'[n]
      BY <2>2, <3>2, <1>t, <1>f DEF TypeOK, LedgerTruthful
    <3> QED
      BY <2>2, <3>1, <3>2, <3>3, AdvanceKeeps
  <2> QED
    BY <1>6, <2>1, <2>2 DEF ApplyWhole
<1>7. ASSUME NEW r \in Runners, Done(r)
      PROVE  IInv'
  BY <1>7, <1>t, ExitKeeps DEF Done, TypeOK
<1>8. ASSUME NEW r \in Runners, Die(r)
      PROVE  IInv'
  <2>1. Exit(r) /\ UNCHANGED <<checkout, ledger, executed>>
    BY <1>8 DEF Die
  <2>2. torn' \subseteq Files
    BY <1>8, <1>t DEF Die, TypeOK
  <2>3. deaths' \in 0..MaxDeaths
    BY <1>8, <1>t DEF Die, TypeOK
  <2> QED
    BY <2>1, <2>2, <2>3, ExitKeeps
<1>9. CASE UNCHANGED vars
  BY <1>9 DEF vars, TypeOK, SnapshotTrue, RecordsExecuted, PrefixRecorded, LedgerTruthful
<1> QED
  BY <1>1, <1>2, <1>3, <1>4, <1>5, <1>6, <1>7, <1>8, <1>9 DEF Next, Proceed

LEMMA Invariant == Spec => []IInv
BY InvInit, InvNext, PTL DEF Spec

(* The variables keep their types, and what a runner has still to do is part *)
(* of its checkout, whatever it is at.                                       *)
THEOREM TypeCorrect == Spec => []TypeOK
<1>1. IInv => TypeOK
  BY DEF IInv
<1> QED
  BY <1>1, Invariant, PTL

(* No run gets past a file that the ledger does not have with its text,      *)
(* though it reads the ledger only once, before overlapping runs change it.  *)
THEOREM RunsLeaveNoGap == Spec => []PrefixRecorded
<1>1. IInv => PrefixRecorded
  BY DEF IInv
<1> QED
  BY <1>1, Invariant, PTL

(* The ledger names texts that were executed, though the row of a file that  *)
(* commits itself is written outside of the transaction that executed it.    *)
THEOREM LedgerTellsTheTruth == Spec => []LedgerTruthful
<1>1. IInv => LedgerTruthful
  BY DEF IInv
<1> QED
  BY <1>1, Invariant, PTL
-----------------------------------------------------------------------------
(* Why a run fails.  Statements that have committed are in the ledger, or   *)
(* their row is still to come, or the runner that owed it has died; and a   *)
(* runner that owes a row read none for its file.                           *)
Owes(r, n) == pc[r] = "record" /\ Name(First(todo[r])) = n

Explained(n) ==
  \/ ledger[n] # None
  \/ \E r \in Runners : Owes(r, n)
  \/ \E g \in torn : Name(g) = n

ExecutedExplained == \A n \in Names : executed[n] # {} => Explained(n)

DebtsOpen ==
  \A r \in Runners : pc[r] = "record" =>
    First(todo[r]) \in todo[r] /\ known[r][Name(First(todo[r]))] = None

DebtInv == IInv /\ ExecutedExplained /\ DebtsOpen

(* Nothing of the ledger or of what the database went through is undone.    *)
OnlyGrows ==
  \A n \in Names : /\ ledger[n] # None => ledger'[n] = ledger[n]
                   /\ executed[n] \subseteq executed'[n]

(* The files of r are in the ledger; or its next one was edited after it    *)
(* was applied, was recorded by another run since r read the ledger, or     *)
(* cannot be executed on what is there: it is in the ledger under another   *)
(* name, or another run has just executed it, or one that died before it    *)
(* recorded it.                                                             *)
Reason(r) ==
  \/ \A f \in checkout[r] : ledger[Name(f)] = f.version
  \/ \E f \in todo[r] :
       LET n == Name(f) IN
       \/ ledger[n] \notin {None, f.version}
       \/ ledger[n] # known[r][n]
       \/ /\ ~f.repeatable
          /\ \E g \in Alike(f) :
               \/ Name(g) # n /\ ledger[Name(g)] # None
               \/ \E o \in Runners \ {r} : Owes(o, Name(g))
               \/ \E h \in torn : Name(h) = Name(g)

EndsForAReason ==
  \A r \in Runners :
    pc[r] # "idle" /\ pc'[r] = "idle" /\ deaths' = deaths => Reason(r)

(* What the types say of a file that a runner is at.                        *)
LEMMA StepEffect ==
  ASSUME IInv, NEW r \in Runners, NEW f \in todo[r]
  PROVE  /\ f \in Files /\ Name(f) \in Names
         /\ f.version \in Versions /\ f.version # None
BY FileFacts DEF IInv, TypeOK

(* A step of r that executes nothing, after which r owes nothing and what it *)
(* owed before is explained.                                                 *)
LEMMA NothingExecuted ==
  ASSUME DebtInv, NEW r \in Runners, executed' = executed,
         \A s \in Runners \ {r} :
           pc'[s] = pc[s] /\ todo'[s] = todo[s] /\ known'[s] = known[s],
         pc'[r] # "record", torn \subseteq torn',
         \A n \in Names : ledger[n] # None => ledger'[n] # None,
         \A n \in Names : Owes(r, n) => ledger'[n] # None \/ \E g \in torn' : Name(g) = n
  PROVE  ExecutedExplained' /\ DebtsOpen'
<1>1. ASSUME NEW n \in Names, Explained(n)
      PROVE  Explained(n)'
  <2>1. CASE ledger[n] # None \/ \E g \in torn : Name(g) = n
    BY <2>1 DEF Explained
  <2>2. ASSUME NEW s \in Runners, Owes(s, n)
        PROVE  Explained(n)'
    <3>1. CASE s = r
      BY <2>2, <3>1 DEF Explained
    <3>2. CASE s # r
      <4>1. Owes(s, n)'
        BY <2>2, <3>2 DEF Owes
      <4> QED
        BY <4>1 DEF Explained
    <3> QED
      BY <3>1, <3>2
  <2> QED
    BY <1>1, <2>1, <2>2 DEF Explained
<1>2. ExecutedExplained'
  BY <1>1 DEF DebtInv, ExecutedExplained
<1>3. DebtsOpen'
  BY DEF DebtInv, DebtsOpen
<1> QED
  BY <1>2, <1>3

(* Runner r ends, or goes past the file whose row it owed, if it owed one.   *)
LEMMA RunnerEnds ==
  ASSUME DebtInv, NEW r \in Runners, Exit(r), executed' = executed,
         ledger' = ledger, torn \subseteq torn',
         \A n \in Names : Owes(r, n) => ledger[n] # None \/ \E g \in torn' : Name(g) = n
  PROVE  ExecutedExplained' /\ DebtsOpen'
<1>1. TypeOK
  BY DEF DebtInv, IInv
<1> QED
  BY <1>1, ExitEffect, NothingExecuted

LEMMA DebtNext == DebtInv /\ [Next]_vars => DebtInv'
<1> SUFFICES ASSUME DebtInv, [Next]_vars
             PROVE  ExecutedExplained' /\ DebtsOpen'
  BY InvNext DEF DebtInv
<1>t. TypeOK /\ IInv
  BY DEF DebtInv, IInv
<1>1. ASSUME NEW r \in Runners, Start(r)
      PROVE  ExecutedExplained' /\ DebtsOpen'
  <2>1. /\ pc[r] = "idle" /\ pc'[r] = "run"
        /\ \A s \in Runners \ {r} :
             pc'[s] = pc[s] /\ todo'[s] = todo[s] /\ known'[s] = known[s]
        /\ UNCHANGED <<ledger, executed, torn>>
    BY <1>1, <1>t DEF Start, TypeOK
  <2> QED
    BY <2>1, NothingExecuted DEF Owes
<1>2. ASSUME NEW r \in Runners, NEW f \in todo[r], Skip(r, f)
      PROVE  ExecutedExplained' /\ DebtsOpen'
  <2>1. pc[r] = "run" /\ Advance(r, f) /\ UNCHANGED <<ledger, executed, torn>>
    BY <1>2 DEF Skip, At
  <2> QED
    BY <2>1, <1>t, AdvanceEffect, NothingExecuted DEF Owes
<1>3. ASSUME NEW r \in Runners, NEW f \in todo[r], Refuse(r, f)
      PROVE  ExecutedExplained' /\ DebtsOpen'
  BY <1>3, RunnerEnds DEF Refuse, At, Owes
<1>4. ASSUME NEW r \in Runners, NEW f \in todo[r], Execute(r, f)
      PROVE  ExecutedExplained' /\ DebtsOpen'
  <2>1. CASE Exit(r) /\ UNCHANGED executed
    BY <1>4, <2>1, RunnerEnds DEF Execute, At, Owes
  <2>2. CASE /\ executed' = [executed EXCEPT ![Name(f)] = @ \union {f.version}]
             /\ pc' = [pc EXCEPT ![r] = "record"]
             /\ UNCHANGED <<known, todo>>
    <3>1. /\ UNCHANGED <<ledger, torn>> /\ pc[r] = "run" /\ f = First(todo[r])
          /\ known[r][Name(f)] = None
      BY <1>4 DEF Execute, At
    <3>2. Owes(r, Name(f))' /\ \A s \in Runners \ {r} : pc'[s] = pc[s]
      BY <2>2, <3>1, <1>t DEF TypeOK, Owes
    <3>3. ASSUME NEW n \in Names, executed'[n] # {}
          PROVE  Explained(n)'
      <4>1. CASE n = Name(f)
        BY <4>1, <3>2 DEF Explained
      <4>2. CASE n # Name(f)
        <5>1. Explained(n)
          BY <4>2, <3>3, <2>2, <1>t DEF TypeOK, DebtInv, ExecutedExplained
        <5>2. \A s \in Runners : Owes(s, n) => Owes(s, n)'
          BY <2>2, <3>1, <3>2 DEF Owes
        <5> QED
          BY <5>1, <5>2, <3>1 DEF Explained
      <4> QED
        BY <4>1, <4>2
    <3>4. DebtsOpen'
      BY <2>2, <3>1, <3>2 DEF DebtInv, DebtsOpen
    <3> QED
      BY <3>3, <3>4 DEF ExecutedExplained
  <2> QED
    BY <1>4, <2>1, <2>2 DEF Execute
<1>5. ASSUME NEW r \in Runners, NEW f \in todo[r], Record(r, f)
      PROVE  ExecutedExplained' /\ DebtsOpen'
  <2>1. \A n \in Names : Owes(r, n) => n = Name(f)
    BY <1>5 DEF Record, Owes
  <2>2. CASE ledger[Name(f)] # None /\ Exit(r) /\ UNCHANGED ledger
    BY <1>5, <2>1, <2>2, RunnerEnds DEF Record
  <2>3. CASE /\ ledger[Name(f)] = None
             /\ ledger' = [ledger EXCEPT ![Name(f)] = f.version]
             /\ Advance(r, f)
    <3>1. /\ ledger'[Name(f)] # None
          /\ \A n \in Names : ledger[n] # None => ledger'[n] # None
      BY <2>3, <1>t, StepEffect DEF TypeOK
    <3>2. UNCHANGED <<executed, torn>>
      BY <1>5 DEF Record
    <3> QED
      BY <2>1, <2>3, <3>1, <3>2, <1>t, AdvanceEffect, NothingExecuted
  <2> QED
    BY <1>5, <2>2, <2>3 DEF Record
<1>6. ASSUME NEW r \in Runners, NEW f \in todo[r], ApplyWhole(r, f)
      PROVE  ExecutedExplained' /\ DebtsOpen'
  <2>1. CASE Exit(r) /\ UNCHANGED <<executed, ledger>>
    BY <1>6, <2>1, RunnerEnds DEF ApplyWhole, At, Owes
  <2>2. CASE /\ executed' = [executed EXCEPT ![Name(f)] = @ \union {f.version}]
             /\ ledger' = [ledger EXCEPT ![Name(f)] = f.version]
             /\ Advance(r, f)
    <3>1. pc[r] = "run" /\ torn' = torn
      BY <1>6 DEF ApplyWhole, At
    <3>2. /\ ledger'[Name(f)] # None
          /\ \A n \in Names : ledger[n] # None => ledger'[n] # None
          /\ \A n \in Names \ {Name(f)} : executed'[n] = executed[n]
      BY <2>2, <1>t, StepEffect DEF TypeOK
    <3>3. /\ pc'[r] = "run"
          /\ \A s \in Runners \ {r} :
               pc'[s] = pc[s] /\ todo'[s] = todo[s] /\ known'[s] = known[s]
      BY <2>2, <1>t, AdvanceEffect
    <3>4. ASSUME NEW n \in Names, executed'[n] # {}
          PROVE  Explained(n)'
      <4>1. CASE n = Name(f)
        BY <4>1, <3>2 DEF Explained
      <4>2. CASE n # Name(f)
        <5>1. Explained(n)
          BY <4>2, <3>2, <3>4 DEF DebtInv, ExecutedExplained
        <5>2. \A s \in Runners : Owes(s, n) => Owes(s, n)'
          BY <3>1, <3>3 DEF Owes
        <5> QED
          BY <5>1, <5>2, <3>1, <3>2 DEF Explained
      <4> QED
        BY <4>1, <4>2
    <3>5. DebtsOpen'
      BY <3>3 DEF DebtInv, DebtsOpen
    <3> QED
      BY <3>4, <3>5 DEF ExecutedExplained
  <2> QED
    BY <1>6, <2>1, <2>2 DEF ApplyWhole
<1>7. ASSUME NEW r \in Runners, Done(r)
      PROVE  ExecutedExplained' /\ DebtsOpen'
  BY <1>7, RunnerEnds DEF Done, Owes
<1>8. ASSUME NEW r \in Runners, Die(r)
      PROVE  ExecutedExplained' /\ DebtsOpen'
  <2>1. Exit(r) /\ UNCHANGED <<ledger, executed>> /\ torn \subseteq torn'
    BY <1>8 DEF Die
  <2>2. ASSUME NEW n \in Names, Owes(r, n)
        PROVE  \E g \in torn' : Name(g) = n
    <3>1. First(todo[r]) \in todo[r] /\ pc[r] = "record" /\ Name(First(todo[r])) = n
      BY <2>2 DEF Owes, DebtInv, DebtsOpen
    <3>2. First(todo[r]) \in torn'
      BY <1>8, <3>1 DEF Die
    <3> QED
      BY <3>1, <3>2
  <2> QED
    BY <2>1, <2>2, RunnerEnds
<1>9. CASE UNCHANGED vars
  <2>1. UNCHANGED <<ledger, executed, torn, pc, todo, known>>
    BY <1>9 DEF vars
  <2> QED
    BY <2>1 DEF DebtInv, ExecutedExplained, Explained, Owes, DebtsOpen
<1> QED
  BY <1>1, <1>2, <1>3, <1>4, <1>5, <1>6, <1>7, <1>8, <1>9 DEF Next, Proceed

LEMMA Debts == Spec => []DebtInv
<1>1. Init => DebtInv
  BY InvInit DEF Init, DebtInv, ExecutedExplained, DebtsOpen
<1> QED
  BY <1>1, DebtNext, PTL DEF Spec

(* The ledger and what has been executed only grow: no runner rewrites a row *)
(* or forgets a text, though runners of older checkouts keep running.        *)
THEOREM LedgerOnlyGrows == Spec => [][OnlyGrows]_vars
<1>1. IInv /\ [Next]_vars => [OnlyGrows]_vars
  <2> SUFFICES ASSUME IInv, Next PROVE OnlyGrows
    OBVIOUS
  <2>1. \/ UNCHANGED <<ledger, executed>>
        \/ \E r \in Runners : \E f \in todo[r] :
             \/ /\ executed' = [executed EXCEPT ![Name(f)] = @ \union {f.version}]
                /\ \/ ledger' = ledger
                   \/ /\ ledger[Name(f)] = None
                      /\ ledger' = [ledger EXCEPT ![Name(f)] = f.version]
             \/ /\ executed' = executed /\ ledger[Name(f)] = None
                /\ ledger' = [ledger EXCEPT ![Name(f)] = f.version]
    BY DEF Next, Proceed, Start, Skip, Refuse, Execute, Record, ApplyWhole, Done, Die
  <2> QED
    BY <2>1, StepEffect DEF OnlyGrows, IInv, TypeOK
<1> QED
  BY <1>1, Invariant, PTL DEF Spec

(* A file that cannot be applied: who is in the way.                         *)
LEMMA NotApplicable ==
  ASSUME DebtInv, NEW r \in Runners, NEW f \in todo[r], pc[r] = "run",
         known[r][Name(f)] = None, ~Applies(f)
  PROVE  Reason(r)
<1>1. ~f.repeatable /\ \E g \in Alike(f) : executed[Name(g)] # {}
  BY DEF Applies
<1>2. PICK g \in Alike(f) : executed[Name(g)] # {}
  BY <1>1
<1>3. Name(g) \in Names /\ Explained(Name(g))
  BY <1>2, FileFacts DEF Alike, DebtInv, ExecutedExplained
<1>4. \A o \in Runners : Owes(o, Name(g)) => o # r
  BY DEF Owes
<1> QED
  BY <1>1, <1>3, <1>4 DEF Explained, Reason

(* A run that was not interrupted ends with all its files in the ledger, or  *)
(* for one of the reasons above: overlapping runs, deaths and old checkouts  *)
(* leave no other state that the command fails on.  This is what Migrated    *)
(* rests on, without the fairness that makes somebody run it again.          *)
THEOREM RunsEndForAReason == Spec => [][EndsForAReason]_vars
<1>1. DebtInv /\ [Next]_vars => [EndsForAReason]_vars
  <2> SUFFICES ASSUME DebtInv, Next, NEW r \in Runners,
                      pc[r] # "idle", pc'[r] = "idle", deaths' = deaths
               PROVE  Reason(r)
    BY DEF EndsForAReason
  <2>t. TypeOK /\ IInv
    BY DEF DebtInv, IInv
  <2>1. ASSUME NEW s \in Runners, Proceed(s)
        PROVE  s = r
    <3>1. \/ Start(s) /\ \A q \in Runners \ {s} : pc'[q] = pc[q]
          \/ Exit(s) \/ \E f \in todo[s] : Advance(s, f)
          \/ pc' = [pc EXCEPT ![s] = "record"]
      BY <2>1, <2>t DEF Proceed, Skip, Refuse, Execute, Record, ApplyWhole, Done,
                        Start, TypeOK
    <3>2. \A q \in Runners \ {s} : pc'[q] = pc[q]
      BY <3>1, <2>t, ExitEffect, AdvanceEffect DEF TypeOK
    <3> QED
      BY <3>2
  <2>2. ASSUME NEW s \in Runners
        PROVE  ~Die(s)
    BY <2>t DEF Die, TypeOK
  <2>3. Proceed(r)
    BY <2>1, <2>2 DEF Next
  <2>4. ASSUME NEW f \in todo[r], Advance(r, f)
        PROVE  FALSE
    BY <2>4, <2>t, AdvanceEffect
  <2>5. ~Start(r) /\ pc' # [pc EXCEPT ![r] = "record"]
    BY <2>t DEF Start, TypeOK
  <2>6. ASSUME NEW f \in todo[r], Refuse(r, f)
        PROVE  Reason(r)
    <3>1. known[r][Name(f)] \notin {None, f.version} /\ Name(f) \in Names
      BY <2>6, <2>t, StepEffect DEF Refuse
    <3>2. ledger[Name(f)] \notin {None, f.version}
      BY <3>1, <2>t DEF IInv, SnapshotTrue
    <3> QED
      BY <3>2 DEF Reason
  <2>7. ASSUME NEW f \in todo[r], Execute(r, f)
        PROVE  Reason(r)
    BY <2>5, <2>7, NotApplicable DEF Execute, At
  <2>8. ASSUME NEW f \in todo[r], Record(r, f)
        PROVE  Reason(r)
    <3>1. ledger[Name(f)] # None /\ pc[r] = "record" /\ f = First(todo[r])
      BY <2>4, <2>8 DEF Record
    <3>2. known[r][Name(f)] = None
      BY <3>1 DEF DebtInv, DebtsOpen
    <3> QED
      BY <3>1, <3>2 DEF Reason
  <2>9. ASSUME NEW f \in todo[r], ApplyWhole(r, f)
        PROVE  Reason(r)
    <3>1. /\ pc[r] = "run" /\ known[r][Name(f)] = None
          /\ ~Applies(f) \/ ledger[Name(f)] # None
      BY <2>4, <2>9 DEF ApplyWhole, At
    <3>2. CASE ~Applies(f)
      BY <3>1, <3>2, NotApplicable
    <3>3. CASE ledger[Name(f)] # None
      BY <3>1, <3>3 DEF Reason
    <3> QED
      BY <3>1, <3>2, <3>3
  <2>10. CASE Done(r)
    BY <2>10, <2>t DEF Done, IInv, PrefixRecorded, Reason
  <2> QED
    BY <2>3, <2>4, <2>5, <2>6, <2>7, <2>8, <2>9, <2>10 DEF Proceed, Skip
<1> QED
  BY <1>1, Debts, PTL DEF Spec
-----------------------------------------------------------------------------
(* The order of the plan.  Sets of natural numbers have a least element, by  *)
(* the library's theorem on minimal elements of well-founded relations.      *)
LEMMA LeastNumber ==
  ASSUME NEW S \in SUBSET Nat, S # {}
  PROVE  \E m \in S : \A k \in S : m <= k
<1> DEFINE R == OpToRel(<, Nat)
<1>1. IsWellFoundedOn(R, Nat)
  BY NatLessThanWellFounded
<1>2. \A x, y \in Nat : <<x, y>> \in R <=> x < y
  BY DEF OpToRel
<1> HIDE DEF R
<1>3. PICK x \in S : \A y \in S : ~(<<y, x>> \in R)
  BY <1>1, WFMin
<1>4. ASSUME NEW k \in S
      PROVE  x <= k
  <2>1. x \in Nat /\ k \in Nat
    OBVIOUS
  <2>2. ~(k < x)
    BY <1>2, <1>3, <2>1
  <2> QED
    BY <2>1, <2>2
<1> QED
  BY <1>4

LEMMA RankType ==
  ASSUME NEW f
  PROVE  Rank(f) \in {0, 1, 2}
BY DEF Rank

(* In what discovery accepts, two files are never level.                     *)
LEMMA PlanIsTotal ==
  ASSUME NEW files \in SUBSET Files, Prepared(files),
         NEW f \in files, NEW g \in files, f # g
  PROVE  Before(f, g) \/ Before(g, f)
<1>1. f.sequence \in Nat /\ g.sequence \in Nat /\ Rank(f) \in {0, 1, 2} /\ Rank(g) \in {0, 1, 2}
  BY RankType
<1>2. CASE Rank(f) = Rank(g) /\ f.sequence = g.sequence
  <2> DEFINE group == {h \in files : h.sequence = f.sequence}
  <2>1. group # {f} /\ f \in group /\ g \in group
    BY <1>2
  <2>2. LegacyCollision(group)
    BY <2>1 DEF Prepared
  <2> HIDE DEF group
  <2>3. PICK x, y \in group :
          /\ group = {x, y} /\ x.sequence \in 1..3
          /\ x.owner = "core" /\ y.owner = "sfos.iam"
    BY <2>2 DEF LegacyCollision
  <2>4. (f = x /\ g = y) \/ (f = y /\ g = x)
    BY <2>1, <2>3
  <2>5. x.sequence <= 3 /\ y.sequence <= 3
    BY <2>3, <2>4, <1>2
  <2>6. Rank(x) = 0 /\ Rank(y) = 1
    BY <2>3, <2>5 DEF Rank
  <2> QED
    BY <2>4, <2>6, <1>2
<1> QED
  BY <1>1, <1>2 DEF Before

(* The part of a plan that is still to come has a first file.                *)
LEMMA PlanHasFirst ==
  ASSUME NEW files \in SUBSET Files, Prepared(files),
         NEW T \in SUBSET files, T # {}
  PROVE  First(T) \in T /\ \A g \in T \ {First(T)} : Before(First(T), g)
<1>1. PICK n \in {Rank(f) : f \in T} : \A k \in {Rank(f) : f \in T} : n <= k
  <2>1. {Rank(f) : f \in T} \in SUBSET Nat /\ {Rank(f) : f \in T} # {}
    BY RankType
  <2> QED
    BY <2>1, LeastNumber
<1> DEFINE U == {f \in T : Rank(f) = n}
      sequences == {f.sequence : f \in U}
<1>2. sequences \in SUBSET Nat /\ sequences # {}
  BY <1>1
<1>3. PICK s \in sequences : \A k \in sequences : s <= k
  <2> HIDE DEF sequences
  <2> QED
    BY <1>2, LeastNumber
<1>4. PICK f \in U : f.sequence = s
  BY <1>3
<1>5. ASSUME NEW g \in T \ {f}
      PROVE  Before(f, g)
  <2>1. /\ Rank(f) <= Rank(g) /\ (Rank(g) = Rank(f) => f.sequence <= g.sequence)
    BY <1>1, <1>3, <1>4
  <2>2. /\ f.sequence \in Nat /\ g.sequence \in Nat
        /\ Rank(f) \in {0, 1, 2} /\ Rank(g) \in {0, 1, 2}
    BY RankType
  <2>3. ~Before(g, f)
    BY <2>1, <2>2 DEF Before
  <2> QED
    BY <2>3, PlanIsTotal
<1>6. \E f1 \in T : \A g \in T \ {f1} : Before(f1, g)
  BY <1>4, <1>5
<1> QED
  BY <1>6 DEF First

(* A run goes through its files in the planned order and always knows which  *)
(* is next: the file it is at precedes all that are to come, those it has    *)
(* gone past precede it.                                                     *)
PlanFollowed ==
  \A r \in Runners : pc[r] # "idle" =>
    /\ todo[r] # {} => First(todo[r]) \in todo[r]
    /\ \A g \in todo[r] \ {First(todo[r])} : Before(First(todo[r]), g)
    /\ \A f \in checkout[r] \ todo[r], g \in todo[r] : Before(f, g)

PlanInv ==
  \A r \in Runners : pc[r] # "idle" =>
    /\ Prepared(checkout[r])
    /\ \A f \in checkout[r] \ todo[r], g \in todo[r] : Before(f, g)

LEMMA PlanOf ==
  ASSUME TypeOK, NEW r \in Runners
  PROVE  checkout[r] \in SUBSET Files /\ todo[r] \in SUBSET checkout[r]
BY DEF TypeOK, Files

LEMMA PlanNext == TypeOK /\ PlanInv /\ [Next]_vars => PlanInv'
<1> SUFFICES ASSUME TypeOK, PlanInv, [Next]_vars,
                    NEW r \in Runners, pc'[r] # "idle"
             PROVE  /\ Prepared(checkout'[r])
                    /\ \A f \in checkout'[r] \ todo'[r], g \in todo'[r] : Before(f, g)
  BY DEF PlanInv
<1>0. checkout' = checkout
  BY DEF Next, Proceed, Start, Skip, Refuse, Execute, Record, ApplyWhole, Done, Die, vars
<1>1. CASE pc[r] # "idle" /\ todo'[r] = todo[r]
  BY <1>0, <1>1 DEF PlanInv
<1>2. CASE Start(r)
  <2>1. Prepared(checkout[r]) /\ todo'[r] = checkout[r]
    BY <1>2 DEF Start, TypeOK
  <2> QED
    BY <2>1, <1>0
<1>3. ASSUME NEW f \in todo[r], f = First(todo[r]), pc[r] # "idle", Advance(r, f)
      PROVE  /\ Prepared(checkout[r])
             /\ \A h \in checkout[r] \ todo'[r], g \in todo'[r] : Before(h, g)
  <2>1. Prepared(checkout[r]) /\ todo'[r] = todo[r] \ {f}
    BY <1>3, AdvanceEffect DEF PlanInv
  <2>2. \A g \in todo[r] \ {f} : Before(f, g)
    BY <1>3, <2>1, PlanOf, PlanHasFirst
  <2> QED
    BY <1>3, <2>1, <2>2 DEF PlanInv
<1>4. ASSUME NEW s \in Runners, s # r, Proceed(s) \/ Die(s)
      PROVE  pc'[r] = pc[r] /\ todo'[r] = todo[r]
  <2>1. \/ Exit(s) \/ \E f \in todo[s] : Advance(s, f)
        \/ pc' = [pc EXCEPT ![s] = "record"] /\ todo' = todo
        \/ pc' = [pc EXCEPT ![s] = "run"] /\ todo' = [todo EXCEPT ![s] = checkout[s]]
    BY <1>4 DEF Proceed, Start, Skip, Refuse, Execute, Record, ApplyWhole, Done, Die
  <2> QED
    BY <2>1, <1>4, ExitEffect, AdvanceEffect DEF TypeOK
<1>5. ~Exit(r)
  BY ExitEffect
<1>6. ASSUME NEW f \in todo[r],
             Skip(r, f) \/ Refuse(r, f) \/ Execute(r, f) \/ Record(r, f) \/ ApplyWhole(r, f)
      PROVE  /\ f = First(todo[r]) /\ pc[r] # "idle"
             /\ Advance(r, f) \/ todo'[r] = todo[r]
  BY <1>5, <1>6 DEF Skip, Refuse, Execute, Record, ApplyWhole, At
<1>7. CASE UNCHANGED vars
  BY <1>1, <1>7 DEF vars
<1>8. CASE \E s \in Runners \ {r} : Proceed(s) \/ Die(s)
  BY <1>1, <1>4, <1>8
<1>9. CASE Proceed(r) \/ Die(r)
  <2>1. ~Done(r) /\ ~Die(r)
    BY <1>5 DEF Done, Die
  <2>2. CASE \E f \in todo[r] : Skip(r, f) \/ Refuse(r, f) \/ Execute(r, f)
                                  \/ Record(r, f) \/ ApplyWhole(r, f)
    BY <2>2, <1>0, <1>1, <1>3, <1>6
  <2> QED
    BY <1>2, <1>9, <2>1, <2>2 DEF Proceed
<1> QED
  BY <1>7, <1>8, <1>9 DEF Next

(* Whatever the checkouts and the legacy collision of core and IAM: discovery *)
(* lets only plans pass in which every file has its place, and runs follow   *)
(* them; no run stands before files of which it cannot choose the next one.  *)
THEOREM RunsFollowThePlan == Spec => []PlanFollowed
<1>1. Init => PlanInv
  BY DEF Init, PlanInv
<1>2. TypeOK /\ PlanInv => PlanFollowed
  <2> SUFFICES ASSUME TypeOK, PlanInv, NEW r \in Runners, pc[r] # "idle"
               PROVE  /\ todo[r] # {} => First(todo[r]) \in todo[r]
                      /\ \A g \in todo[r] \ {First(todo[r])} : Before(First(todo[r]), g)
                      /\ \A f \in checkout[r] \ todo[r], g \in todo[r] : Before(f, g)
    BY DEF PlanFollowed
  <2>1. Prepared(checkout[r])
    BY DEF PlanInv
  <2>2. todo[r] # {} => /\ First(todo[r]) \in todo[r]
                        /\ \A g \in todo[r] \ {First(todo[r])} : Before(First(todo[r]), g)
    BY <2>1, PlanOf, PlanHasFirst
  <2> QED
    BY <2>2 DEF PlanInv
<1> QED
  BY <1>1, <1>2, PlanNext, TypeCorrect, PTL DEF Spec
=============================================================================
