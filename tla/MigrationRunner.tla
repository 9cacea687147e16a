--------------------------- MODULE MigrationRunner ---------------------------
(***************************************************************************)
(* The migration runner, packages/db/scripts: migrate.ts with the discovery *)
(* of migration-plan.ts and the ownership check of migration-ownership.ts. *)
(*                                                                         *)
(* Several runs of the command may overlap on one database, each with a    *)
(* checkout of its own, and each ends early on any error.  A file that     *)
(* carries BEGIN and COMMIT, as all files of the repository do, ends the   *)
(* transaction of sql.begin itself: its ledger row is then a statement     *)
(* that commits on its own.                                                *)
(***************************************************************************)
EXTENDS Integers

CONSTANTS Runners,    \* processes that run the command, again and again
          Checkouts,  \* sets of files: what a process may find on its disk
          MaxDeaths,  \* bound: processes that die, or lose a statement
          None        \* no version: a name that the ledger does not have

Files == UNION Checkouts
Versions == {f.version : f \in Files}

(* A file: its owner (core or a module, whose schema bears the same name),  *)
(* its name, as the number in front and what follows it, the schemas its    *)
(* statements name (Unqualified for a statement without one), the hash of   *)
(* its text, whether its statements succeed a second time, and whether it   *)
(* commits itself.                                                          *)
ASSUME MigrationAssumption ==
  /\ Files \subseteq
       [owner : STRING, sequence : Nat, name : STRING, targets : SUBSET STRING,
        version : Versions, repeatable : BOOLEAN, commits : BOOLEAN]
  /\ {} \notin Checkouts  \* a directory without files is an error
  /\ MaxDeaths \in Nat
  /\ None \notin Versions

(* The name in the ledger: the owner's prefix, and the whole file name.      *)
Name(f) == <<f.owner, f.sequence, f.name>>
Names == {Name(f) : f \in Files}

Unqualified == "(unqualified)"
Foreign(f) ==
  f.targets \ IF f.owner = "core" THEN {"core", "app", Unqualified} ELSE {f.owner}

LegacyCollision(group) ==
  \E f, g \in group : /\ group = {f, g} /\ f.sequence \in 1..3
                      /\ f.owner = "core" /\ g.owner = "sfos.iam"

(* What discovery and the ownership check accept; otherwise nothing runs.   *)
Prepared(files) ==
  /\ \A f \in files : Foreign(f) = {}
  /\ \A f \in files :
       LET group == {g \in files : g.sequence = f.sequence}
       IN  group = {f} \/ LegacyCollision(group)

(* The first files of core, then those of the IAM module, then all others   *)
(* by their global sequence.                                                *)
Rank(f) ==
  CASE f.sequence <= 3 /\ f.owner = "core"     -> 0
    [] f.sequence <= 3 /\ f.owner = "sfos.iam" -> 1
    [] OTHER                                   -> 2

Before(f, g) ==
  Rank(f) < Rank(g) \/ (Rank(f) = Rank(g) /\ f.sequence < g.sequence)

First(files) == CHOOSE f \in files : \A g \in files \ {f} : Before(f, g)

-----------------------------------------------------------------------------
VARIABLES
  checkout,  \* checkout[r]: the files of runner r
  ledger,    \* ledger[n]: the hash in app.drizzle_migrations, or None
  executed,  \* executed[n]: the versions of n whose statements have committed
  pc,        \* pc[r]: "idle", "run", or "record" when a file has committed
  known,     \* known[r]: the ledger as r read it at its start
  todo,      \* todo[r]: the files that r has not come to, or is at
  torn,      \* history: files whose runner died before the ledger row
  deaths     \* how many processes have died

vars == <<checkout, ledger, executed, pc, known, todo, torn, deaths>>

TypeOK ==
  /\ checkout \in [Runners -> Checkouts]
  /\ ledger \in [Names -> Versions \union {None}]
  /\ executed \in [Names -> SUBSET Versions]
  /\ pc \in [Runners -> {"idle", "run", "record"}]
  /\ known \in [Runners -> [Names -> Versions \union {None}]]
  /\ todo \in [Runners -> SUBSET Files]
  /\ \A r \in Runners : /\ todo[r] \subseteq checkout[r]
                        /\ pc[r] = "idle" => todo[r] = {}
                        /\ pc[r] = "record" => todo[r] # {}
  /\ torn \subseteq Files
  /\ deaths \in 0..MaxDeaths

Empty == [n \in Names |-> None]

Init ==
  /\ checkout \in [Runners -> Checkouts]
  /\ ledger = Empty
  /\ executed = [n \in Names |-> {}]
  /\ pc = [r \in Runners |-> "idle"]
  /\ known = [r \in Runners |-> Empty]
  /\ todo = [r \in Runners |-> {}]
  /\ torn = {}
  /\ deaths = 0

(* The process ends: after its last file, or at an error.                   *)
Exit(r) ==
  /\ pc' = [pc EXCEPT ![r] = "idle"]
  /\ known' = [known EXCEPT ![r] = Empty]
  /\ todo' = [todo EXCEPT ![r] = {}]

(* All files are read and checked, then the ledger is read once.            *)
Start(r) ==
  /\ pc[r] = "idle"
  /\ Prepared(checkout[r])
  /\ pc' = [pc EXCEPT ![r] = "run"]
  /\ known' = [known EXCEPT ![r] = ledger]
  /\ todo' = [todo EXCEPT ![r] = checkout[r]]
  /\ UNCHANGED <<checkout, ledger, executed, torn, deaths>>

At(r, f) == pc[r] = "run" /\ todo[r] # {} /\ f = First(todo[r])

Advance(r, f) ==
  /\ pc' = [pc EXCEPT ![r] = "run"]
  /\ todo' = [todo EXCEPT ![r] = @ \ {f}]
  /\ UNCHANGED known

(* Variant: a file is skipped by its name, without comparing hashes.        *)
SkipByName(r, f) ==
  /\ At(r, f) /\ known[r][Name(f)] # None
  /\ Advance(r, f)
  /\ UNCHANGED <<checkout, ledger, executed, torn, deaths>>

(* The file is in the ledger as it was read at the start, with its hash ... *)
Skip(r, f) ==
  /\ At(r, f) /\ known[r][Name(f)] = f.version
  /\ Advance(r, f)
  /\ UNCHANGED <<checkout, ledger, executed, torn, deaths>>

(* ... or with another hash: it has been edited after it was applied.       *)
Refuse(r, f) ==
  /\ At(r, f) /\ known[r][Name(f)] \notin {None, f.version}
  /\ Exit(r)
  /\ UNCHANGED <<checkout, ledger, executed, torn, deaths>>

(* A file at other commits, edited or renamed: it creates the same objects. *)
Alike(f) == {g \in Files : g.owner = f.owner /\ g.sequence = f.sequence}

(* The statements of a file find nothing that they cannot create again.     *)
Applies(f) == f.repeatable \/ \A g \in Alike(f) : executed[Name(g)] = {}

(* Variant: a file counts as done before its ledger row is written.         *)
ExecuteDone(r, f) ==
  /\ At(r, f) /\ known[r][Name(f)] = None /\ f.commits /\ Applies(f)
  /\ executed' = [executed EXCEPT ![Name(f)] = @ \union {f.version}]
  /\ pc' = [pc EXCEPT ![r] = "record"]
  /\ todo' = [todo EXCEPT ![r] = @ \ {f}]
  /\ UNCHANGED <<checkout, ledger, known, torn, deaths>>

(* Variant: errors of objects that exist already are swallowed.             *)
ExecuteTolerant(r, f) ==
  /\ At(r, f) /\ known[r][Name(f)] = None /\ f.commits
  /\ executed' = IF Applies(f)
                 THEN [executed EXCEPT ![Name(f)] = @ \union {f.version}] ELSE executed
  /\ pc' = [pc EXCEPT ![r] = "record"]
  /\ UNCHANGED <<checkout, ledger, known, todo, torn, deaths>>

(* Variant: nothing is inserted behind a file that commits itself.          *)
ExecuteUnrecorded(r, f) ==
  /\ At(r, f) /\ known[r][Name(f)] = None /\ f.commits
  /\ \/ /\ Applies(f)
        /\ executed' = [executed EXCEPT ![Name(f)] = @ \union {f.version}]
        /\ Advance(r, f)
     \/ ~Applies(f) /\ Exit(r) /\ UNCHANGED executed
  /\ UNCHANGED <<checkout, ledger, torn, deaths>>

(* A file with a COMMIT of its own: its statements commit, or none does.    *)
Execute(r, f) ==
  /\ At(r, f) /\ known[r][Name(f)] = None /\ f.commits
  /\ \/ /\ Applies(f)
        /\ executed' = [executed EXCEPT ![Name(f)] = @ \union {f.version}]
        /\ pc' = [pc EXCEPT ![r] = "record"]
        /\ UNCHANGED <<known, todo>>
     \/ ~Applies(f) /\ Exit(r) /\ UNCHANGED executed
  /\ UNCHANGED <<checkout, ledger, torn, deaths>>

(* The INSERT behind it, which the unique name of a row may reject.         *)
Record(r, f) ==
  /\ pc[r] = "record" /\ f = First(todo[r])
  /\ \/ /\ ledger[Name(f)] = None
        /\ ledger' = [ledger EXCEPT ![Name(f)] = f.version]
        /\ Advance(r, f)
     \/ ledger[Name(f)] # None /\ Exit(r) /\ UNCHANGED ledger
  /\ UNCHANGED <<checkout, executed, torn, deaths>>

(* A file without a COMMIT: statements and ledger row are one transaction.  *)
ApplyWhole(r, f) ==
  /\ At(r, f) /\ known[r][Name(f)] = None /\ ~f.commits
  /\ \/ /\ Applies(f) /\ ledger[Name(f)] = None
        /\ executed' = [executed EXCEPT ![Name(f)] = @ \union {f.version}]
        /\ ledger' = [ledger EXCEPT ![Name(f)] = f.version]
        /\ Advance(r, f)
     \/ /\ ~(Applies(f) /\ ledger[Name(f)] = None)
        /\ Exit(r)
        /\ UNCHANGED <<executed, ledger>>
  /\ UNCHANGED <<checkout, torn, deaths>>

Done(r) ==
  /\ pc[r] = "run" /\ todo[r] = {}
  /\ Exit(r)
  /\ UNCHANGED <<checkout, ledger, executed, torn, deaths>>

(* The process dies, or a statement is rejected for another reason.         *)
Die(r) ==
  /\ pc[r] # "idle" /\ deaths < MaxDeaths
  /\ deaths' = deaths + 1
  /\ torn' = torn \union {f \in todo[r] : pc[r] = "record" /\ f = First(todo[r])}
  /\ Exit(r)
  /\ UNCHANGED <<checkout, ledger, executed>>

Proceed(r) ==
  \/ Start(r)
  \/ \E f \in todo[r] :
       Skip(r, f) \/ Refuse(r, f) \/ Execute(r, f) \/ Record(r, f) \/ ApplyWhole(r, f)
  \/ Done(r)

Next == \E r \in Runners : Proceed(r) \/ Die(r)

(* The command is run again after it has failed, and statements return.     *)
Spec == Init /\ [][Next]_vars
FairSpec == Spec /\ \A r \in Runners : WF_vars(Proceed(r))

-----------------------------------------------------------------------------
(* A run never gets past a file that the ledger does not have with the text *)
(* of its own checkout, whatever other runs have applied meanwhile and      *)
(* whatever its early snapshot of the ledger said.                          *)
PrefixRecorded ==
  \A r \in Runners : pc[r] # "idle" =>
    \A f \in checkout[r] \ todo[r] : ledger[Name(f)] = f.version

(* The hash in the ledger is that of a text the database went through, even *)
(* when runners of different checkouts overlap or repeat a file after a     *)
(* death: the check for edited files compares with what has been executed.  *)
LedgerTruthful == \A n \in Names : ledger[n] # None => ledger[n] \in executed[n]

(* If some checkout is acceptable, the database is in the end migrated to   *)
(* one: neither overlapping runs nor deaths stop that, but for a death      *)
(* between a file's own COMMIT and its ledger row, when the file cannot be  *)
(* executed a second time.                                                  *)
Migrated ==
  (\E r \in Runners : Prepared(checkout[r])) =>
    <>(\/ \E f \in torn : ~f.repeatable
       \/ \E r \in Runners : /\ Prepared(checkout[r])
                             /\ \A f \in checkout[r] : ledger[Name(f)] = f.version)

(* What the invariants rest on: a snapshot of the ledger stays true, because *)
(* nothing changes a row of it, and a file whose row is about to be written  *)
(* has been executed with the text that the row will name.                   *)
SnapshotTrue ==
  \A r \in Runners : \A n \in Names : known[r][n] # None => ledger[n] = known[r][n]

RecordsExecuted ==
  \A r \in Runners : pc[r] = "record" =>
    \A f \in todo[r] : f = First(todo[r]) => f.version \in executed[Name(f)]

IInv == TypeOK /\ SnapshotTrue /\ RecordsExecuted /\ PrefixRecorded /\ LedgerTruthful
=============================================================================
