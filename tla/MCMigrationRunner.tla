-------------------------- MODULE MCMigrationRunner --------------------------
(***************************************************************************)
(* Instances of MigrationRunner for TLC: checkouts of one repository at    *)
(* different commits.                                                      *)
(***************************************************************************)
EXTENDS MigrationRunner

CONSTANTS v1, v2

File(owner, sequence, target) ==
  [owner |-> owner, sequence |-> sequence, name |-> "a", targets |-> {target}, version |-> v1,
   repeatable |-> FALSE, commits |-> TRUE]

InitSchemas == [File("core", 0, "core") EXCEPT !.repeatable = TRUE]
CoreTables == File("core", 1, "core")
IamSchema == File("sfos.iam", 1, "sfos.iam")
ActivationStatus == File("core", 4, Unqualified)
Generated == [File("sfos.crm", 5, "sfos.crm") EXCEPT !.commits = FALSE]

Old == {InitSchemas, CoreTables, IamSchema}
New == Old \union {ActivationStatus, Generated}
Edited == (New \ {CoreTables}) \union {[CoreTables EXCEPT !.version = v2]}
Duplicate == New \union {File("sfos.iam", 4, "sfos.iam")}
Renamed ==
  (New \ {ActivationStatus}) \union {[ActivationStatus EXCEPT !.name = "b"]}
Trespassing == Old \union {File("sfos.crm", 5, "core")}

History == {Old, New, Edited, Renamed, Duplicate, Trespassing}
=============================================================================
