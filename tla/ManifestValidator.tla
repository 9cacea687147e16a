--------------------------- MODULE ManifestValidator ---------------------------
(***************************************************************************)
(* The two checks of the modules directory that run before a deployment,   *)
(* tools/manifest-validator and tools/event-catalog, as predicates on the  *)
(* set of modules they discover, and the checks of the same facts in       *)
(* packages/contracts, packages/events and packages/core at run time.      *)
(*                                                                         *)
(* A discovered module is a record of                                      *)
(*   dir, package       the slugs of its directory and its package name    *)
(*   id, segment        its id, and the last segment of that               *)
(*   flaws              what of its manifest has not the right format, and *)
(*                      what of its files is missing                       *)
(*   namespace          the slug after module_ in its schema's name        *)
(*   provides, optional the capability keys it provides                    *)
(*   permissions, events    declared, in sequence                          *)
(*   permissionConstants, eventConstants    exported by its code           *)
(* An event type is its first segment, the owner, and the rest.            *)
(***************************************************************************)
EXTENDS Sequences, FiniteSets, SequencesExt

CONSTANT NoSlug    \* of a directory that is not named module-<slug>

(* What the schema demands a format of, and what only the validator does.    *)
SchemaFormats == {"identity", "platform", "provided_key", "namespace",
                  "permission_key", "event_type", "metadata"}
OtherFormats == {"required_key", "platform_key", "table_name"}
Files == {"MODULE.md", "OWNERSHIP.md", "migrations", "free of @sfos/core"}

ManifestSchema(m) == m.flaws \cap SchemaFormats = {}

NoDuplicates(s) == \A i, j \in DOMAIN s : s[i] = s[j] => i = j

(* validateManifestRecords, one record.                                      *)
ManifestAccepted(m) ==
  /\ m.dir # NoSlug /\ m.package = m.dir
  /\ ManifestSchema(m)
  /\ m.namespace = m.dir
  /\ m.flaws \cap (OtherFormats \union Files) = {}
  /\ NoDuplicates(m.permissions) /\ NoDuplicates(m.events)
  /\ m.provides \cap m.optional = {}
  /\ ToSet(m.permissions) = m.permissionConstants

(* Variant: nothing is compared across modules.                              *)
EachAccepted(records) ==
  records # {} /\ \A m \in records : ManifestAccepted(m)

(* runManifestValidation reports nothing.                                    *)
ManifestsAccepted(records) ==
  /\ records # {}
  /\ \A m \in records : ManifestAccepted(m)
  /\ \A m, o \in records : m # o =>
       /\ m.id # o.id
       /\ ToSet(m.permissions) \cap ToSet(o.permissions) = {}
       /\ ToSet(m.events) \cap ToSet(o.events) = {}
       /\ (m.provides \union m.optional) \cap (o.provides \union o.optional) = {}

(* assertOwnership                                                           *)
Owns(m, type) == type.owner = m.segment

(* runEventValidation reports nothing.  The formats are those of the schema. *)
EventsAccepted(records) ==
  /\ ManifestsAccepted(records)
  /\ \A m \in records :
       /\ ToSet(m.events) = m.eventConstants
       /\ \A type \in ToSet(m.events) : Owns(m, type)

-----------------------------------------------------------------------------
(* buildEnvelope, for a type that m owns; and the check of the emitter that  *)
(* a module gets for its events.                                             *)
Envelope(m, type, company) ==
  [type |-> type, source_module |-> m.id, company_id |-> company]

Emits(m, envelope, company) ==
  /\ envelope.source_module = m.id
  /\ envelope.type \in ToSet(m.events)
  /\ envelope.company_id = company

MayEmit(m, type, company) ==
  Owns(m, type) /\ Emits(m, Envelope(m, type, company), company)
=============================================================================
