----------------------------- MODULE RuntimeHost -----------------------------
(***************************************************************************)
(* One run of the runtime host (apps/runtime-host): the command line, the  *)
(* client for hydration, composeRuntime with bootstrap and the startup     *)
(* hydration of every company, the report, and the exit code.              *)
(*                                                                         *)
(* bootstrap is the module Bootstrap.  While companies are hydrated, other *)
(* processes change rows of core.company_modules.                          *)
(***************************************************************************)
EXTENDS Bootstrap, ManifestValidator

CONSTANTS
  Companies,
  Launches,     \* command line, database URL, modules and rows of a run
  MaxChanges,   \* rows changed by other processes
  NoCode        \* the exit code of a run that has none yet

Arguments == {"--hydrate", "--no-hydrate", "--json", "--pretty",
              "--fail-on-degraded", "--help"}

(* A row of core.company_modules: not there, active, not active, or with an  *)
(* enabled that contradicts its status.                                      *)
RowStates == {"absent", "active", "inactive", "inconsistent"}
Rows == [Ids -> RowStates]

NoCompany == "none"

(* A module shipped is a record of ManifestValidator and a candidate of      *)
(* Bootstrap; supported says that its platform range and runtime modes fit,  *)
(* platform that it requires a platform capability, of which the command     *)
(* line offers none.  Two modules do not share a directory.                  *)
ASSUME HostAssumption ==
  /\ MaxChanges \in Nat /\ NoCode \notin Nat
  /\ NoCompany \notin Companies
  /\ {l.input : l \in Launches} = Inputs
  /\ \A l \in Launches :
       /\ l.url \in {"missing", "malformed", "valid"}
       /\ l.rows \in [Companies -> Rows]
  /\ \A input \in Inputs : \A m \in ToSet(input) :
       /\ m.loads <=> ManifestSchema(m) /\ m.supported
       /\ \A o \in ToSet(input) : m.dir = o.dir /\ m.dir # NoSlug => m = o

VARIABLES
  launch,      \* what this run was started with
  at,          \* where runCli is
  client,      \* the client for hydration
  code,        \* the exit code so far
  rows,        \* core.company_modules, committed
  enumerated,  \* outcome of the enumeration of companies
  unvisited,   \* companies still to be hydrated
  read,        \* rows of each company as its query returned them
  hydrating,   \* the company whose rows have been read
  failed,      \* history: companies whose query failed
  report,      \* the result of each company
  mirror,      \* the registry's mirror
  changes      \* rows changed so far by other processes

hydration == <<enumerated, unvisited, read, hydrating, failed, report, mirror>>
hostVars == <<launch, at, client, code, rows, hydration, changes>>
allVars == <<vars, hostVars>>

Places == {"start", "connect", "bootstrap", "enumerate", "hydrate", "report",
           "close", "exited"}

-----------------------------------------------------------------------------
(* parseCliArgs: of --hydrate and --no-hydrate the last one counts.          *)

Argv == launch.argv
Given(argument) == argument \in ToSet(Argv)
Unknown == ToSet(Argv) \ Arguments # {}

Hydrates ==
  \E i \in DOMAIN Argv :
    Argv[i] = "--hydrate" /\ \A j \in DOMAIN Argv : Argv[j] = "--no-hydrate" => j < i

HostInit ==
  /\ launch \in Launches
  /\ unread = launch.input
  /\ Idle
  /\ at = "start" /\ client = "none" /\ code = NoCode
  /\ rows = launch.rows
  /\ enumerated = "no" /\ unvisited = {}
  /\ read = [k \in Companies |-> [i \in Ids |-> "absent"]]
  /\ hydrating = NoCompany
  /\ failed = {}
  /\ report = [k \in Companies |-> "none"]
  /\ mirror = [k \in Companies |-> {}]
  /\ changes = 0

Exit(n) == at' = "exited" /\ code' = n
Return(n) == at' = "close" /\ code' = n

(* Returns before a client is asked for.                                     *)
ParseArguments ==
  /\ at = "start"
  /\ \/ Unknown /\ Exit(1)
     \/ ~Unknown /\ Given("--help") /\ Exit(0)
     \/ ~Unknown /\ ~Given("--help") /\ at' = "connect" /\ UNCHANGED code
  /\ UNCHANGED <<vars, launch, client, rows, hydration, changes>>

(* createAdminClient throws on a URL that it cannot parse.                   *)
Connect ==
  /\ at = "connect"
  /\ \/ ~Hydrates /\ at' = "bootstrap" /\ UNCHANGED <<client, code>>
     \/ /\ Hydrates /\ launch.url = "valid"
        /\ at' = "bootstrap" /\ client' = "open" /\ UNCHANGED code
     \/ Hydrates /\ launch.url # "valid" /\ Return(1) /\ UNCHANGED client
  /\ UNCHANGED <<vars, launch, rows, hydration, changes>>

Bootstrapping(step) ==
  /\ at = "bootstrap"
  /\ step
  /\ UNCHANGED hostVars

(* composeRuntime hydrates when it is given a client.                        *)
Bootstrapped ==
  /\ at = "bootstrap"
  /\ \/ phase = "thrown" /\ Return(1)
     \/ /\ phase = "done"
        /\ at' = IF client = "open" THEN "enumerate" ELSE "report"
        /\ UNCHANGED code
  /\ UNCHANGED <<vars, launch, client, rows, hydration, changes>>

-----------------------------------------------------------------------------
(* hydrateAllCompanies *)

Enumerate ==
  /\ at = "enumerate"
  /\ \/ /\ enumerated' = "done" /\ unvisited' = Companies
        /\ at' = "hydrate"
     \/ /\ enumerated' = "failed" /\ UNCHANGED unvisited
        /\ at' = "report"
  /\ UNCHANGED <<vars, launch, client, code, rows, read, hydrating, failed, report,
                 mirror, changes>>

(* The companies come in the order of their slugs, which may be any.         *)
ReadRows(k) ==
  /\ at = "hydrate" /\ hydrating = NoCompany
  /\ k \in unvisited
  /\ hydrating' = k
  /\ read' = [read EXCEPT ![k] = rows[k]]
  /\ UNCHANGED <<vars, launch, at, client, code, rows, enumerated, unvisited, failed,
                 report, mirror, changes>>

(* Variant: the loop ends at the first query that fails.                     *)
QueryFailsLast(k) ==
  /\ at = "hydrate" /\ hydrating = NoCompany
  /\ k \in unvisited
  /\ unvisited' = {}
  /\ failed' = failed \union {k}
  /\ mirror' = [mirror EXCEPT ![k] = {}]
  /\ report' = [report EXCEPT ![k] = "degraded"]
  /\ UNCHANGED <<vars, launch, at, client, code, rows, enumerated, read, hydrating,
                 changes>>

QueryFails(k) ==
  /\ at = "hydrate" /\ hydrating = NoCompany
  /\ k \in unvisited
  /\ unvisited' = unvisited \ {k}
  /\ failed' = failed \union {k}
  /\ mirror' = [mirror EXCEPT ![k] = {}]
  /\ report' = [report EXCEPT ![k] = "degraded"]
  /\ UNCHANGED <<vars, launch, at, client, code, rows, enumerated, read, hydrating,
                 changes>>

Active(company) == {i \in Ids : company[i] = "active"}
Registered == {m \in Loaded : m.id \in ToSet(list)}

(* findByCapability, of the version required, and active.                    *)
ActiveProviders(r, active) ==
  {p \in Registered : r.key \in p.provides \union p.optional /\ p.id \in r.accepts \cap active}

(* hydrateCompanyRows finds something wrong with the rows: one such row, and *)
(* the company has no active module.                                         *)
Diagnosed(company) ==
  \/ \E i \in Ids : company[i] = "inconsistent"
  \/ \E i \in Active(company) : i \notin ToSet(list)
  \/ \E m \in Registered :
       /\ m.id \in Active(company)
       /\ m.platform \/ \E r \in m.requires : ActiveProviders(r, Active(company)) = {}

HydrateCompany ==
  /\ at = "hydrate" /\ hydrating # NoCompany
  /\ LET company == read[hydrating] IN
       /\ mirror' = [mirror EXCEPT ![hydrating] =
                       IF Diagnosed(company) THEN {} ELSE Active(company)]
       /\ report' = [report EXCEPT ![hydrating] =
                       IF Diagnosed(company) THEN "degraded" ELSE "ready"]
  /\ unvisited' = unvisited \ {hydrating}
  /\ hydrating' = NoCompany
  /\ UNCHANGED <<vars, launch, at, client, code, rows, enumerated, read, failed, changes>>

Hydrated ==
  /\ at = "hydrate" /\ unvisited = {}
  /\ at' = "report"
  /\ UNCHANGED <<vars, launch, client, code, rows, hydration, changes>>

(* An activation or a deactivation in another process.  An earlier change is *)
(* one of the rows at first, and a later one is read by nobody.              *)
ChangeRow(k, i) ==
  /\ at = "hydrate" /\ changes < MaxChanges
  /\ rows' = [rows EXCEPT ![k][i] = IF @ = "active" THEN "inactive" ELSE "active"]
  /\ changes' = changes + 1
  /\ UNCHANGED <<vars, launch, at, client, code, hydration>>

-----------------------------------------------------------------------------
(* StartupHydrationReport.ready                                              *)
HydrationReady ==
  enumerated = "done" /\ \A k \in Companies : report[k] = "ready"

(* Variant: the report of the hydration is not asked.                        *)
BootstrapDegraded == ~ready

(* isDegraded, and the status of the view that is printed.                   *)
Degraded == ~ready \/ (client = "open" /\ ~HydrationReady)

Report ==
  /\ at = "report"
  /\ Return(IF Given("--fail-on-degraded") /\ Degraded THEN 2 ELSE 0)
  /\ UNCHANGED <<vars, launch, client, rows, hydration, changes>>

(* Variant: not in finally, but after a run that succeeded.                   *)
CloseAfterSuccess ==
  /\ at = "close"
  /\ Exit(code)
  /\ client' = IF client = "open" /\ code = 0 THEN "closed" ELSE client
  /\ UNCHANGED <<vars, launch, rows, hydration, changes>>

(* finally: close() may reject, which makes runCli reject and node exit      *)
(* with 1.                                                                   *)
Close ==
  /\ at = "close"
  /\ \/ /\ Exit(code)
        /\ client' = IF client = "open" THEN "closed" ELSE client
     \/ /\ client = "open" /\ client' = "closed"
        /\ Exit(1)
  /\ UNCHANGED <<vars, launch, rows, hydration, changes>>

HostProceed ==
  \/ ParseArguments \/ Connect \/ Bootstrapping(Proceed) \/ Bootstrapped
  \/ Enumerate \/ HydrateCompany \/ Hydrated \/ Report \/ Close
  \/ \E k \in Companies : ReadRows(k) \/ QueryFails(k)

HostNext ==
  \/ HostProceed
  \/ Bootstrapping(Subscribe)
  \/ \E k \in Companies, i \in Ids : ChangeRow(k, i)

HostSpec == HostInit /\ [][HostNext]_allVars

(* The hooks and queries it awaits return, and so does close(), which has a  *)
(* timeout.                                                                  *)
HostFairSpec == HostSpec /\ WF_allVars(HostProceed)

-----------------------------------------------------------------------------
(* Properties *)

HostTypeOK ==
  /\ TypeOK
  /\ at \in Places
  /\ client \in {"none", "open", "closed"}
  /\ code \in {NoCode, 0, 1, 2}
  /\ rows \in [Companies -> Rows] /\ read \in [Companies -> Rows]
  /\ enumerated \in {"no", "done", "failed"}
  /\ unvisited \subseteq Companies /\ failed \subseteq Companies
  /\ hydrating \in unvisited \union {NoCompany}
  /\ report \in [Companies -> {"none", "ready", "degraded"}]
  /\ mirror \in [Companies -> SUBSET Ids]
  /\ changes \in 0 .. MaxChanges

(* A set of modules that can serve a company: each is registered, and has a  *)
(* provider of each of its requirements in the set.                          *)
Closed(active) ==
  /\ active \subseteq ToSet(list)
  /\ \A m \in Loaded : m.id \in active =>
       \A r \in m.requires : \E p \in Loaded :
         /\ p.id \in active \cap r.accepts
         /\ r.key \in p.provides \union p.optional

(* One company's failure stays its own: once the hydration is over, the      *)
(* mirror of a company whose query returned is what its own rows say, all of *)
(* the active ones or, if they do not add up, none, whatever happened to the *)
(* others, and none is passed over; and at no time can it show a module      *)
(* without its providers.                                                    *)
MirrorsAsRead ==
  /\ \A k \in Companies : Closed(mirror[k])
  /\ enumerated = "done" /\ at # "hydrate" =>
       \A k \in Companies \ failed :
         /\ report[k] # "none"
         /\ mirror[k] \in {{}, Active(read[k])}
         /\ (\A m \in Loaded : m.id \in Active(read[k]) => ~m.platform)
              /\ Closed(Active(read[k])) /\ (\A i \in Ids : read[k][i] # "inconsistent")
              => mirror[k] = Active(read[k])

(* Everything that the run was started with is up: each module that was read *)
(* is initialized, has one provider of each requirement, and was initialized *)
(* after it; and each company, if hydrated, has the modules its rows say.    *)
Serves ==
  /\ \A i \in LoadedIds \union (issues \ {NoId}) : state[i] = "initialized"
  /\ \A m \in Loaded : \A r \in m.requires : Resolved(r)
  /\ \A i \in 1 .. Len(list) : Edges[list[i]] \subseteq Before(i)
  /\ Hydrates =>
       /\ enumerated = "done" /\ failed = {}
       /\ \A k \in Companies :
            /\ mirror[k] = Active(read[k])
            /\ \A i \in Ids : read[k][i] # "inconsistent"
            /\ \A i \in mirror[k] : state[i] = "initialized"

(* "Exit non-zero when startup diagnostics are degraded": with               *)
(* --fail-on-degraded, code 0 can be relied on and code 2 is never a false   *)
(* alarm.                                                                    *)
ExitServes ==
  at = "exited" /\ Given("--fail-on-degraded") /\ ~Given("--help") =>
    /\ code = 0 => Serves
    /\ code = 2 => ~Serves

(* What the validators accept, a runtime can load: no id is taken twice, no  *)
(* requirement has two providers, and each event a module's code names is    *)
(* one that it, and no other module, may emit.                               *)
AcceptedServes ==
  LET shipped == ToSet(launch.input) IN
  phase = "done" /\ EventsAccepted(shipped) =>
    /\ \A m \in shipped : m.supported => m \in Loaded
    /\ \A m \in Loaded : \A r \in m.requires : Cardinality(Matches(r)) <= 1
    /\ \A m, o \in shipped : m.namespace = o.namespace => m = o
    /\ \A m, o \in shipped, k \in Companies : \A type \in m.eventConstants :
         MayEmit(o, type, k) <=> o = m

(* The run ends with a code, and with no client left open.                   *)
Exits == <>(at = "exited" /\ code # NoCode /\ client # "open")
=============================================================================
