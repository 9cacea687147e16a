# SmartFactory OS: specifications and proofs

TLA+ models of the runtime core of SmartFactory OS, TLC configurations that
check them on small instances, and TLAPS proofs of the theorems that hold for
every size. All paths below are relative to `src/`, the root of the repository.

    tlc -workers 2 -config ActivationConcurrent.cfg MCActivation
    tlapm ActivationProofs.tla

`PROJECT.json` lists, for each definition, the source lines it models, every
run, for each checked property a plausible bug (the operators commented
"Variant:") that breaks it, the hazards, the findings and the theorems.

## The system

SmartFactory OS is a modular monolith in TypeScript: one runtime process loads
modules, wires their capabilities, and lets companies (tenants) activate them.
PostgreSQL holds the truth; nothing else is shared between processes.

| Component | State | Operations | Interacts with |
|---|---|---|---|
| Bootstrap (`packages/core/src/runtime/bootstrap.ts`) with manifest loader, capability graph, lifecycle engine, registry | lifecycle state per module, the ordered registry, subscriptions on the bus, `diagnostics.ready` | one call of `bootstrap()` | module hooks `preFlight`, `register`; event bus |
| Activation services (`packages/core/src/activation/`) | rows of `core.company_modules`; the registry's per-company mirror | `activate`, `deactivate`, `hydrateCompany`, `hydrateAllCompanies` at start | row locks of PostgreSQL; hooks `activate`, `deactivate`; audit and outbox tables, in the same transaction |
| Outbox publisher and event bus (`packages/core/src/outbox`, `events/bus.ts`) | status and attempts of `core.outbox_events`; the batch of each run | `run`: claim, dispatch, settle; `EventBus.dispatch` | handlers of modules |
| IAM invitations (`modules/module-iam/src/server/api/invitations.ts`) | `module_iam.invitations`, `core.memberships` | create, accept, revoke, expiry | RLS policies; events |
| IAM access (`auth.ts`, `sessions.ts`, `password.ts`) | credentials with the lockout counter, sessions, reset tokens | `login`, `logout`, `revokeSession`, `revokeAllSessions`, `requestPasswordReset`, `consumePasswordReset` | row lock of a token; events |
| Migration runner (`packages/db/scripts`) | the ledger of applied files, what the database has executed | one run of `db:migrate`: discover, check, skip, execute, record | SQL files of core and modules, most with a BEGIN and COMMIT of their own |
| Runtime host (`apps/runtime-host/src`: `cli.ts`, `index.ts`, `diagnostics.ts`) with startup hydration (`packages/db/src/hydration.ts`) | the run's client, exit code, report; the mirror of every company | one run from the command line to the exit code | bootstrap; one query per company, while other processes change rows |
| Tenant context and row-level security (`packages/db/src/context.ts`, `drizzle/`, `module-iam/src/migrations`) | settings of pooled connections; the rows of the core and IAM tables | `withTenantContext`, `withSystemContext`; policies and triggers of each statement | every transaction of a request |
| Manifest validator, event catalog (`tools/`), contracts, event ownership (`packages/contracts`, `packages/events`, `packages/core/src/events`) | none | predicates on the modules shipped, before a deployment and at run time | bootstrap, the emitter of a module |
| Audit sink | append-only | an insert in the transaction of an activation | |
| RLS checker, module template, ESLint and dependency-cruiser rules | none | scans of text | |

What makes each correct:

- **Activation.** The row, the recorded facts and the mirror tell one story;
  an active module has active providers; nobody waits for ever for a row.
- **Outbox.** A row is handled by one run at a time, retried a bounded number of
  times, published only when every handler has succeeded, and ends.
- **Bootstrap.** One module's failure stays its own, providers come before their
  consumers, the call returns and does not throw.
- **Invitations.** One outcome per invitation, memberships only from accepted
  invitations, events that tell what was committed.
- **Migrations.** The ledger tells what the database went through, no run leaves
  a gap before a file it applies, and the database gets migrated.
- **Runtime host.** Code 0 of a strict run can be relied on, code 2 is never a
  false alarm, the client is closed, and one company's failure stays its own.
- **Tenant isolation.** A query sees one company's rows and a transaction writes
  them, whoever used the connection before; nobody makes themselves admin; audit
  rows stay.
- **Validators.** What they accept, a runtime loads.
- **Access.** Locks are earned, reset tokens are spent once, revocations are told.

What is hard to test is the same everywhere: TypeScript code that awaits between
a read and the write that relies on it. `withTenantContext` opens one
transaction per call at READ COMMITTED, a SELECT without FOR UPDATE locks
nothing, several statements of one operation often commit one by one, and
hooks of modules run, fail and throw in the middle. `PROJECT.json` lists each
such place under `hazards`.

## Modules

| Module | Models |
|---|---|
| `Activation` | both activation services, both hydrations, restarts |
| `ActivationLedger` | abstract: a committed change is one of four outcomes |
| `ActivationHistory` | `Activation` with two history variables, for what overlapping requests may spoil |
| `ActivationGraphs` | the capability graphs and deployments of its instances |
| `ActivationProofs` | theorems about `Activation` and `ActivationHistory` |
| `OutboxPublisher` | `OutboxPublisher.run` and `EventBus.dispatch` |
| `EventMatcher` | `matches` of the event bus |
| `OutboxDelivery` | abstract: what the outbox promises about an event |
| `OutboxProofs` | theorems about `OutboxPublisher` |
| `Bootstrap` | `bootstrap()` with loader, graph, engine and registry |
| `BootstrapProofs` | theorems about `Bootstrap` |
| `CycleDetection` | `tarjanSCC` of the capability graph, the algorithm itself |
| `ManifestValidator` | the manifest validator, the event catalog, the schema and the emitter's checks, as predicates |
| `RuntimeHost` | a run of the runtime host: extends `Bootstrap` and `ManifestValidator` |
| `RuntimeHostProofs` | theorems about `RuntimeHost` |
| `Invitations`, `Access` | the state-changing operations of module-iam |
| `InvitationProofs`, `AccessProofs` | theorems about them |
| `TenantIsolation` | tenant contexts on pooled connections, policies and triggers |
| `TenantProofs` | theorems about `TenantIsolation` |
| `MigrationRunner` | `migrate.ts` with its discovery and ownership check |
| `MigrationProofs` | theorems about `MigrationRunner` |
| `MC...` | the instances TLC checks |

### Activation

One company: every statement of the code is filtered by company and the mirror
is kept per company; that companies do not interact at startup is
`MirrorsAsRead` of `RuntimeHost`, and in the database `TenantIsolation`. `row` is the committed
`core.company_modules` row of a module (status, enabled, whether
`failure_reason` is set); `lock` the request whose open transaction has
written it; `mirror` the registry's `#activeByCompany`; `registered` what the
process registered at start; `fact` the last outcome written to audit and
outbox, in the transaction that writes the row.

A request goes through `pc`. For `activate`: `ActivateStart`, one
`CheckRequirement` per turn of the loop of `#checkRequirements` (it asks the
mirror, outside any transaction, and awaits in between), `WritePending` (BEGIN
and the upsert, which takes the row lock), the hook, `CommitActivation` or
`ActivationHookFails` (rollback) followed by `RecordActivationFailure` in a
transaction of its own, and `MarkActive`, the change of the mirror after the
commit. For `deactivate`: `DeactivateRead`, `CheckActiveDependents` (a later
statement, which sees later commits), `DeactivationHook`, `CommitDeactivation`
(an UPDATE by id that waits for the lock and tests no status),
`MarkInactive`; or `RecordDeactivationFailure`. A hydration reads the rows and
replaces the mirror after the await. `DatabaseError` fails any statement;
`CommitUnheard` is a COMMIT whose reply is lost: the driver's error
propagates past `markActive` and `markInactive`, and the row is changed all the
same. (In the other models a lost reply is the end of a call, a run or a process
right after the statement: `Abandon`, `Stop`, `Die`.) `Restart` kills the process, rolls back open transactions and starts another
deployment; `ComposeRuntime` hydrates before requests are served, or not.

A refused request changes nothing and is not a step. The pending value of a row
is never committed, so it appears only as a lock. Events that a hook emits
into the activation's transaction commit or roll back with it and are left out.
A requirement is the set of modules that satisfy it (key and version range). A
bootstrapped registry never has two providers of one requirement of a
registered consumer; the deployment of all three modules in `ActivationCauses`
is a registry filled by hand, as the tests of the services do, and exercises
the search for an alternative provider.

The mirror does not always agree with the rows, and active modules are not
always provided: two findings, below. `ActivationHistory` says how far that
goes. It adds two variables that no step reads. `stale` has the modules whose
row was committed while another request was about to do the opposite to the
mirror (`Overtakes`: a mark of an earlier commit, a hydration's replacement), or
committed unheard, until the entry is right again and nobody is about to
change that (`Right`). `outdated[q]` has the modules whose rows are not, or no
longer, what the checks of request `q` were made of: changed since, or shown
active by a mirror that was wrong. `MirrorCovers` and `ProvidersKept` say that
nothing else does harm. They are tight: with any of the causes they name left
out, TLC finds a behaviour that violates them.

### Outbox

`Events` are numbered by `recorded_at`; each becomes pending when its
transaction commits, in any order. A publisher is one `run()` in progress.
`Claim` is the one statement with FOR UPDATE SKIP LOCKED: it takes the oldest
pending rows, up to `BatchSize`. Two concurrent claims may in truth skip
each other's rows; the model lets one take them first, which reaches the same
batches. `RETURNING` promises no order, so `Dispatch` takes any row of the
batch. `Handle` is one turn of the loop of `EventBus.dispatch`, and the wrapper
that bootstrap puts around a module's handler returns at once for an event
without a company (`Skip`). `MarkPublished`, `Requeue`, `MarkFailed` and
`RejectMalformed` are the four ends of a row in a batch, each an UPDATE by id
with the attempts that the claim returned. `Stop` is a rejected statement or the
death of the process: the batch is forgotten. `Matching` is
computed from patterns and types by `EventMatcher`, the loop of
`events/matcher.ts`; an assumption of `MCOutboxPublisher` compares it with what
that file's comment says, for all patterns and types of up to three segments,
and `MatcherDescribed` proves it for those of any length.

### Bootstrap

`bootstrap()` is sequential; what varies is its input and what each hook does.
`Load` reads one candidate, `Validate` resolves, `SortNext` is one turn of
Kahn's algorithm in `topoSort`, then the failures of unresolved and cyclic
modules, registration, and `HooksSucceed`, `HookFails` and `Subscribe` for one
module after the other. In the state machine Tarjan's components are what they
are (mutual reachability); the algorithm is `CycleDetection`, and an assumption
of `MCRuntimeHost` compares both on every graph of three modules, with the
requirements in any order, and every graph of four without self-requirements.
Each change of a lifecycle state
goes through `Transition`, which checks the engine's matrix: an illegal one
throws out of `bootstrap()`. The instance TLC checks runs it inside of `RuntimeHost`.

### Runtime host

`at` is where `runCli` is. `ParseArguments` decides among its early returns;
`Connect` opens the client that hydration asks for, or fails on its URL;
`Bootstrapping(step)` is a step of `Bootstrap`; `Enumerate` lists the companies
or fails. For one company after the other, `ReadRows` reads its rows in a
transaction of its own and `HydrateCompany` sets its mirror after the await, or
`QueryFails`; `ChangeRow`, an activation or deactivation in another process, may
come anywhere between. `Diagnosed` is what `hydrateCompanyRows` finds wrong.
`Report` gives the code, and `Close` is the `finally`: `close()` may be
rejected, and then node exits with 1 whatever the code was.

A module shipped is a record that the validators judge and that bootstrap loads.
What may be wrong with its manifest or files is a set of flaws, one for each
check of a format; duplicates and relations between modules are modelled as
they are. `AcceptedServes` relates both sides: what `ManifestValidator` accepts,
`Bootstrap` loads and the emitter lets emit.

### Tenant isolation

`setting` holds the two settings of each pooled connection: unset, empty (what a
local setting leaves after its transaction), or an id. A request binds a company
and a user (`Bind`), sends statements, and ends in `Commit` or `Rollback`.
`Send` takes the statement's snapshot: `may` is `app.current_user_has` as that
snapshot has it. `Write` comes later, when nobody else holds the row or a row
that clashes with it in the unique index, and tests the policies again on
the newest version of the row, as READ COMMITTED does, or finds nothing
(`FindNothing`). `pending` holds uncommitted versions and thereby locks.
`Selectable`, `Insertable`, `Updatable`, `UpdatableTo` and `Deletable` are the
policies of all tables, `BlockMutation` the audit triggers. `SystemWrite` is a
statement of the system role, which bypasses the policies but not the triggers.
A row is a company, a user and, for a membership, whether it administers.

### IAM

Each call is a sequence of statements that commit one by one, so each action is
one statement, and calls interleave between them. `Abandon` is a failing
statement or a crash, and the history variable `cut` remembers what it left
unsaid. In `Invitations`, `policed` says whether the connection passed as
`tenantDb` is subject to row-level security: the runtime's is (`app_tenant`),
the one of the integration tests is not. `systemDb` is taken to bypass RLS, as
`modules/module-iam/src/server/context.ts` says. Each call is made in the
`context` of a company, which names the company of the membership and of the
event. A creation and a revocation concern an invitation of that company
(`invitations.ts:98`, `:151`); the UPDATE of an acceptance (`:78-86`) tests the
token, the status and the expiry, and no company, so that `Consume` takes an
invitation of any company, and the history variable `acceptedIn` keeps where it
was accepted. Of the four roles, owner acts as admin and
viewer as member. In `Access`, for one user and one company, `snapshot` is the
count of failed attempts that a login read before the password was verified,
and wrote back plus one. Expiry of sessions affects reads only and is left out.

### Migrations

A runner is a process that runs `db:migrate` again and again on its `checkout`,
a set of files. `Prepared` is what discovery and the ownership check accept
before the database is opened: no statement on a foreign schema, no sequence
used twice but the frozen ones of core and IAM. `First` is the plan's order.
`Start` reads the ledger once (`known`); each file is then skipped, refused
because its text has changed, or executed. All SQL files of the repository carry
BEGIN and COMMIT, so the COMMIT ends the transaction of `sql.begin` and the
ledger row is a statement of its own: `Execute`, then `Record`. The module
template's file has none: `ApplyWhole`. Statements that find their objects
there already fail, except in a repeatable file (`0000_init_schemas.sql`). `Die`
is a death or a statement rejected for any other reason; both end the process.
The ledger knows a file by the prefix of its owner and its file name (`Name`):
a renamed file is a new one to it, though it creates the same objects (`Alike`).

## Runs

| Run | Checks | Instance |
|---|---|---|
| `ActivationConcurrent` | `TypeOK RowMatchesFact MirrorPersisted ImplementsLedger RequestsFinish` | a consumer and its provider, two requests, every hook may fail, replies to COMMIT may be lost, restarts (76 thousand states) |
| `ActivationCauses` | `MirrorCovers ProvidersKept` | three modules, two of them alternative providers, three deployments, two requests, a provider whose activation may fail, replies to COMMIT may be lost (1.8 million states) |
| `OutboxShared` | `TypeOK ClaimsExclusive CallsBounded GivenUpLast ImplementsDelivery EventsSettle` | two publishers, one of which may die, four events (two handlers, one handler, system, malformed), batches of two, two attempts (400 thousand states) |
| `RuntimeStartup` | `HostTypeOK NeverThrows ProvidersFirstOffCycles FailuresIsolated AcceptedServes MirrorsAsRead ExitServes Exits` | all graphs over three modules, those around a cycle of four, ambiguous providers, duplicate and broken candidates, a pair of modules with one thing wrong; two companies with rows of six kinds, seven command lines, three URLs (410 thousand states) |
| `InvitationsOverlap` | `TypeOK MembershipsAccepted TellsCommitted OutcomesTold OutcomesToldOnce OutcomeFinal` | two calls in the contexts of two companies, two invitations of two addresses, an admin of one company and two users, with and without the policies (790 thousand states) |
| `MigrationOverlap` | `TypeOK PrefixRecorded LedgerTruthful Migrated` | two runners, each on one of six commits (an old one, a newer one, one with an edited file, one with a renamed file, one with a duplicate sequence, one with a file on a foreign schema), two deaths (86 thousand states) |
| `AccessOverlaps` | `TypeOK LockEarned TokenSpentOnce RevocationsTold` | two calls, two sessions, two tokens (one without credentials), threshold 2, three wrong passwords |
| `TenantContexts` | `TypeOK SeesOwnCompany WritesOwnCompany AdministeredByAdmins AppendOnly` | two requests on two connections, two companies, an admin and a member, twelve rows of eight tables, two writes tried by a request, one by the system role (640 thousand states) |

Four runs show where the code does not do what the repository says of it, each
with the shortest behaviour that gets there:

| Run | Property | What happens |
|---|---|---|
| `ActivationWriteSkew` | `DependentsProvided` | a consumer is activated and its provider deactivated at the same time; both checks pass, both commit |
| `ActivationReactivation` | `MirrorExact` | a repeated activation fails in its hook; the row is failed, the mirror still shows the module |
| `OutboxStranded` | `EventsEnd` | a run dies with claimed rows; nothing ever returns them from processing |
| `InvitationsOnboarding` | `AcceptedAreMembers` | an invited user accepts; the policy on `core.memberships` refuses the row; the invitation stays spent |

### Why the bounds are enough

- Two requests, publishers or calls: every hazard listed is between two actors,
  and a third would only repeat one of them. The proofs hold for any number.
- Two modules in the concurrent activation run are a dependency, the smallest
  thing that can be violated; the third of `ActivationCauses` is the alternative
  provider that `#checkActiveDependents` looks for. There only one module fails
  in its activate hook, the provider, whose failure takes something from
  another.
- Two companies for invitations: the one that invited and another. An admin of
  one is a stranger to the other.
- `BatchSize = 2` and `MaxAttempts = 2` (32 and 5 in the code): a claim leaves
  rows behind, rows of one batch end differently, and an event has a first and a
  last attempt. `OutboxProofs` covers every value.
- A graph of three modules has every shape of dependency but a module behind a
  cycle of others, which the four-module graphs add.
- Two companies at a startup hydration: one that fails and one that must not
  notice. One changed row (`MaxChanges`) suffices, since each row is read once.
- `MaxStatements = 2`, `MaxSystem = 1`: an attempt to write rows in one statement
  that a first one has made writable, and a row that is changed under a
  statement that waits. Rows are put into the other company, users into roles.
- Modules with one thing wrong: the validators test each of these by itself, and
  each test is met.
- Two deaths let both runners tear the repeatable and another file from its
  ledger row; the six commits bring each reason to refuse, an edit that meets
  the ledger row of the original, a renamed file that meets its own objects, and files added at the end.
- `Threshold = 2` with three wrong passwords: the counter passes the
  threshold through overlapping logins, and once more after a lock expired.

Runs that name `CHECK_DEADLOCK FALSE` model something that may stop: an outbox
whose events have all ended, a host that has exited, requests that are done,
invitation and session ids that are used up, runners whose checkouts are
refused. Publishers, calls, ids, connections and users are symmetric where a run
uses SYMMETRY, and no such run checks liveness.

### Fairness

- `Activation!FairSpec`: strong fairness of a request's own steps. Awaited hooks
  and statements return, and PostgreSQL grants a row lock in the order of the
  waiters; a request that competes with others for a row is enabled again and
  again, so weak fairness would not do. Nothing is assumed of starting requests,
  errors or restarts.
- `OutboxPublisher!FairSpec`: weak fairness of each publisher. `run()` is called
  again and again by whoever schedules it (`publisher.ts` leaves the interval to
  the runtime), and handlers return. In `OutboxShared` and `OutboxStranded` a
  publisher that dies does so for good, and the other keeps running:
  `EventsSettle` says that each event ends, or was in the batch of one that died.
- `RuntimeHost!HostFairSpec`: weak fairness of the run. Hooks and queries return,
  and `close()` has a timeout of five seconds.
- `MigrationRunner!FairSpec`: weak fairness of each runner. Its statements
  return, and an operator runs the command again after it has failed.

## Proofs

Eight modules hold theorems: `ActivationProofs`, `OutboxProofs`,
`InvitationProofs`, `AccessProofs`, `MigrationProofs`, `TenantProofs`,
`BootstrapProofs` and `RuntimeHostProofs`. They hold for any sets of modules,
requests, publishers, events, invitations, tokens, runners, connections,
companies, rows, any graph of requirements and so on,
from the one assumption about the constants that each module declares
(`ActivationAssumption`, `OutboxAssumption`, `InvitationsAssumption`,
`AccessAssumption`, `MigrationAssumption`, `TenantAssumption`; `RuntimeHost` has
`BootstrapAssumption` and `HostAssumption`) alone, except where stated.

Liveness itself cannot be proved here, but what it rests on can, and is for four
components: no step goes back, a measure falls, nobody waits in a circle.
What is left to the fairness, and to TLC, is that the steps are taken.

`Activation`:

- `TypeCorrect`: `TypeOK` is inductive.
- `RowsMatchFacts`: inductive with `TypeOK`, because every transaction that
  changes a row records a fact in it (`Record`); the one conditional writer,
  `RecordDeactivationFailure`, changes nothing unless the row is active.
- `PersistBeforeMirror`: what is in the mirror, in a hydration's plan, in an
  active row, or about to be marked was activated by a committed transaction.
  The invariant needs all four, since a mirror is filled from any of the others.
- `ImplementsTheLedger`: every step is an outcome of `ActivationLedger` or
  leaves rows and facts alone. That a module to be disabled has a row comes from
  an invariant about requests between `DeactivateRead` and the UPDATE.
- `ProvidersAreKept`: `ProvidersKept` for any number of overlapping requests,
  without an assumption on the hooks. `ChecksInv` says what a request knows of
  the rows after its checks: each requirement of the module it activates has an
  active provider, or one of its modules is outdated; each active module that
  needs the one it deactivates has another provider, or is outdated itself, or
  a provider of it is. Every changed row outdates the requests under way, so
  the invariant survives the steps of others; at the commit it says which row
  was not what the checks saw. `ActivationWriteSkew` is one of the behaviours that
  are left, and a failing re-activation the other kind (`act_fail`).
- `MirrorIsCovered`: `MirrorCovers` for any number of overlapping requests.
  `EntriesInv` says of each module that is not stale that nobody is about to
  remove it while it is active, nor to add it while it is neither active nor
  failed, and that an entry which is wrong for the moment is about to be marked.
  A commit keeps this of its module unless it overtakes somebody (`Overtakes`),
  and of the others always. `ActivationReactivation` is about the failed rows
  that it excuses. `HistoryTypeCorrect` is the typing of both.
- `NoCircularWait`: the activate hooks of a module never overlap, and a request
  that waits for a row holds none. `LocksHeld` says that a lock is held by
  exactly the request inside the activate hook of that module: it is the only
  transaction the code awaits anything in after it has written. So whoever
  waits does so for a request that needs no row to go on.
- `RequestsGoForward`: a request that has begun returns, goes on to a later step
  for the same module, or checks off a requirement, whatever others do and
  whatever fails; each of its own steps does one of these. There is no loop to
  be caught in, so `RequestsFinish` needs no more than that steps are taken.

`OutboxPublisher`: `TypeCorrect`, `RunsAreExclusive`, `CallsAreBounded`,
`GivenUpAtTheLast` and `ImplementsTheDelivery` follow from one invariant,
`IInv`. `ClaimsExclusive` keeps the attempts of a claimed row equal to what the
claim returned, which an UPDATE by id without a test relies on; `RunShape` says
which handlers of the current dispatch are still to run; `Accounted` that each
handler that matches the current event is still to run, has returned or has
thrown, which makes a row without failures publishable; `AttemptsLeft` and
`CallsCounted` tie the calls of a handler to the attempts of the row.
From the same invariant: `RowsOnlyGoForward` (a row that comes back has used up
one attempt and has another, an end is final) and `RunsOnlyGoForward` (each step
of a run shortens what is left of its batch), the two measures behind
`EventsSettle`. `OnlyTheDeadStrand`: where no run may stop (`MayStop = {}`) a row
in processing is always in somebody's batch, so a death between claim and
settlement is all that `OutboxStranded` shows. `ClaimHasABatch`: while a row is
pending there is a batch to claim, and it is not empty, so the `\E` of `Claim`
holds no run back. `MatcherDescribed` says that the
loop of `EventMatcher` does what its comment says, for any pattern and type.

`TenantIsolation`: `TypeCorrect`, `ContextsStayApart`, `WritesStayInCompany`,
`NobodyPromotesThemselves` and `AuditsStay` follow from one `IInv`.
`ContextsBound` says that a connection has the settings of its holder, and none
between transactions: this is what a local setting buys. A statement is judged
twice, at its snapshot and on the row it writes, and commits later still, so
`TargetsAdmitted` says what the policies have let pass of the statement under
way and `WritesScoped` what is true of rows written and not committed: they are
locked, and both versions are the writer's to write. `AdminsKnown` closes the
circle for permissions: a request may be permitted by a membership that it has
written itself, but only if it was permitted to write that, hence by one that
was committed. `NothingLeft` says that a request without a transaction holds no
rows and no permission.

`Invitations`: `TypeCorrect`, `ToldOnceAtMost`, `OneWins`, `MembersAccepted`,
`EventsTellTheTruth` and `OutcomesAreTold`, for any companies and contexts. Each call commits statement by
statement, so `CallsHold` says that a call finds the status it has set, which no
other call can change once it is final; `AcceptedBySet` ties `accepted_by` to
that status; `SettledTold` names the call that is about to tell an outcome, where
`OutcomesTold` only asks for one. `AcceptedUnpoliced` assumes a connection that
no policy binds and no failing statement (`Policed = {FALSE}`, `MayFail =
FALSE`), and proves what `InvitationsOnboarding` refutes without: whoever
accepted is a member of the company in whose context they accepted, be it the
one that invited or not, so the policy on `core.memberships` or an abandoned call
is the only way to lose the membership. `MemberOrCut` names the call that is
about to write it.

`Access`: `TypeCorrect`, `LocksAreEarned`, `TokensAreSpentOnce` and
`RevocationsAreTold`. `CountsMade` bounds the counter a login has read by the
wrong passwords tried since, so that what it writes back is earned however many
logins overlap; `TokensLocked` says that a reset holds the row lock of a
token that is still unspent; `UntoldRevoked` that what a call is to emit has been
revoked.

`MigrationRunner`: `TypeCorrect`, `RunsLeaveNoGap` and `LedgerTellsTheTruth`
follow from its `IInv`. A runner acts on a snapshot that others have outdated;
`SnapshotTrue` says why that is safe to skip by: rows of the ledger are never
changed, so what the snapshot has stays true. `RecordsExecuted` says that a file
whose row is about to be written was executed with the text that row will name.
`LedgerOnlyGrows` is the action property behind `SnapshotTrue`.
`RunsEndForAReason` says what an uninterrupted run can fail on: an edited file, or
one that is in the ledger under another name, or
one that another run recorded, or executed, since this one read the ledger, or
that a dead run executed and never recorded. `ExecutedExplained` is the
invariant it needs (statements that have committed are in the ledger, or owed by
a runner, or torn), with `DebtsOpen`: who owes a row read none for that file.
Of these, only an edited or renamed file and a torn one that cannot be repeated
are still in the way when the other runs have ended; the latter is what `Migrated` excepts.
`RunsFollowThePlan` says that the order in which the model takes the files is
one: discovery accepts no two files that are level (`PlanIsTotal`), so that what
is left of a plan has one `First`, and the files a run has gone past precede it.

`ClaimHasABatch` and `RunsFollowThePlan` rest on `LeastNumber`: a set of natural
numbers has a least element, from the library's theorem on minimal elements of
well-founded relations.

`RuntimeHost`: `RunsBootstrap` is a refinement: every step of a run of the host
is a step of `bootstrap()` or leaves it alone, so whatever holds of `Spec` holds
of it when a host runs it. `MirrorsFollowRows` says that one company's mirror
comes from that company's rows as read, whatever the others do; `MirrorInv` adds
which companies are still to be visited and what is known of the one whose rows
have been read. `AcceptedLoads` says that what the validators accept, bootstrap
loads; `LoadInv` follows the candidates from the input through the loop of the
loader to the registry.

`HostIsTyped` and `CodeIsTrue` concern the exit code. `Course` ties where `runCli`
is to what the client, the enumeration and the report are by then, so code 0 and
2 of a strict run come from a report on a bootstrap that has ended;
`ReadyModules` and `ReadyCompanies` say what a ready report says of each module
and company. `AcceptedStarts` goes on from `AcceptedLoads`: with modules that the
validators accept and the runtime supports, `diagnostics.ready` is false only for
an unresolved requirement, a cycle or a failed hook. `IssueInv` follows the
loader: an id among its issues is a broken candidate's, or one that is loaded. `HostEnds` (for
finitely many companies) gives each step of the run a measure that falls.

`Bootstrap`: `BootstrapTyped`, `BootstrapReturns`, `ProvidersInOrder`,
`FailuresStay` and `BootstrapEnds` follow from one `IInv` in five parts.
`LoadedOnce`: the loaded modules have distinct ids, so the order can be reasoned
about as a set. `Ordering`: the modules that Kahn's algorithm has queued or
emitted are those without an edge to one it has not emitted, and in what it has
emitted each provider precedes its consumers. `Lifecycles` gives the state of each module in each phase, from
which every transition the code asks for is one the engine's matrix has; this is
`BootstrapReturns`. `Registry` says that the list keeps the order and has exactly
the modules that were valid, and `Diagnostics` what is known of `ready`. The step
that a test can hardly reach is the end of the sort: `StuckDependOnCycle` shows
that whatever Kahn's algorithm passes over depends on a cycle, so nothing else
is appended in input order. `BootstrapEnds` gives each step a measure in the
natural numbers that falls.

Only model-checked: liveness (`RequestsFinish`, `EventsSettle`, `EventsEnd`,
`Exits`, `Migrated`), because ENABLED and fairness are beyond the installed
backends; that `CycleDetection` finds what it should, because it is recursive;
and the four violations, which are behaviours. Every invariant and every action property of a passing run is the
conclusion of a theorem.

## Other places where code and documentation differ

Met while modelling and visible in the models, without a run of their own:

- Two overlapping deactivations both write, audit and emit
  (`deactivation-service.ts:172`), where `packages/core/docs/lifecycle.md:99-100`
  calls a repeated deactivation a no-op.
- A requeued event is published after later ones;
  `packages/db/src/schema/outbox-events.ts:28-29` speaks of `created_at` order.
- A module that subscribes and then fails in its hook stays subscribed;
  the comment at `bootstrap.ts:28-29` says it is excluded from event handling.
  It also stays in `list()` (`packages/core/docs/lifecycle.md:53-56`).
- Modules behind a cycle are initialized in input order (`graph.ts:142`), which
  is why `ProvidersFirstOffCycles` excludes them.
- A module that requires what it provides gets no edge to itself and is
  initialized; `packages/core/docs/capabilities.md:78-79` says it is rejected.
- `diagnostics.ready` does not see a rejected candidate without a readable id or
  with the id of a loaded module; `Serves`, in `ExitServes`, says what it does
  promise.
- The lifecycle state `degraded` is never entered by the code, though
  `packages/core/docs/lifecycle.md:76` describes when it is.
- `acceptInvitation` looks at the company neither before nor after it consumes an
  invitation (`invitations.ts:78-86`), while the refusal behind it (`:98`) and the
  revocation (`:151`) do: in the context of another company, an invitation is
  spent, and the role is given, and the event names it, there (`:117`, `:127`);
  `docs/architecture/05-security-iam-rls.md:40` says "Cross-tenant rows are not
  visible or writable". What `MembershipsAccepted` and `TellsCommitted` promise is
  therefore about the company of the context.
- An expired pending invitation blocks another to the same address
  (`0002_iam_tables.sql:82-84`), and no code sets the status `expired`.
- `logout` reads `revoked_at` and updates by id alone (`auth.ts:165`): a
  revocation that commits in between is repeated, and told twice.
- A consumer is initialized after the preFlight or register hook of its provider
  has failed (`bootstrap.ts:136`); `packages/core/docs/capabilities.md:6-7` says
  that a provider is always ready before its consumers.
- `migrate.ts:4-6` says that each file is applied "inside its own transaction" and
  recorded "so the next run skips it". A runner that dies between the file's
  COMMIT and its ledger row leaves a file that the next run executes again,
  and, unless it is repeatable, no run gets past (`torn` in `Migrated`).
- `packages/db/drizzle/README.md:58-59` promises a single linear order. A file
  with a lower sequence that arrives in a later commit is applied after those
  that are in the ledger already.
- `0000_init_schemas.sql:5-6` says not to run it again once it is recorded; a run
  that read the ledger earlier does.
- A password reset leaves the sessions of the user as they are.
- `packages/module-sdk/src/lifecycle.ts:21` says that an Err of `preFlight`
  prevents a module from being available to any tenant. Hydration mirrors an
  active row of a module that is registered, whatever its hooks returned
  (`HydrateCompany`); such a run is degraded.
- An exception of `close()` leaves the `finally` of `runCli` (`cli.ts:165`): node
  then exits with 1, whatever the code was to be (`Close`).
- `modules/module-iam/src/server/context.ts:11` says that the connection
  `systemDb` bypasses RLS; `0001_iam_schema.sql:13` creates its role
  `module_iam_role` with NOBYPASSRLS.
- `packages/core/src/events/ownership.ts:10-13` and `bus.ts:61-62` say that RLS
  on `core.outbox_events` checks `source_module`, once modules have their own
  roles; its insert policy tests the company only.
- `0003_rls_policies.sql:57` says that the email of a user changes elsewhere; the
  policy below it, `users_update_self`, lets any column of the row change.
- `0003_rls_policies.sql:10` calls the audit table append-only; its triggers are
  FOR EACH ROW, which TRUNCATE does not fire. `AppendOnly` is about statements
  on rows, the only ones the code sends.

## Not modelled

- The RLS checker, the event catalog's output, the module template, and the ESLint
  and dependency-cruiser rules: they scan or produce text, and keep no state.
- Formats: of the manifest's fields, of envelopes, of identifiers and versions.
  The validators' checks of them are flaws of a manifest, by kind; a range of
  versions is the set of modules that satisfy it.
- The text of diagnostics, its formatting and redaction; the history of the
  lifecycle engine and the durations of its phases.
- Reads that change nothing (`validateSession`, `listSessions`), and the expiry of
  sessions, which only such reads look at.
- The ids, keys and payloads of audit and outbox rows, and what a hook writes
  into the transaction of an activation.
- Columns of rows other than those the policies look at.
- The adapters and fixtures of the tests.
- That a COMMIT whose reply is lost may have been of a recorded failure: its row
  is the same as `RecordActivationFailure` writes, and only the answer differs.

## Plan

All that was planned is done: the modules, runs and proofs above, with the
safety half of each liveness property. What could come next: the abstract
specifications that invitations and reset tokens would implement, of which
`OutcomeFinal`, `OutcomesToldOnce` and `TokenSpentOnce` are the safety.
