-------------------------- MODULE RuntimeHostProofs --------------------------
(***************************************************************************)
(* Theorems of RuntimeHost, for any modules shipped, companies, rows and   *)
(* command lines, and any number of changes by other processes.            *)
(***************************************************************************)
EXTENDS RuntimeHost, BootstrapProofs

USE BootstrapAssumption, HostAssumption

-----------------------------------------------------------------------------
LEMMA HostStep == [HostNext]_allVars => [Next]_vars
<1> SUFFICES ASSUME HostNext PROVE [Next]_vars
  BY DEF allVars
<1>1. CASE Bootstrapping(Proceed) \/ Bootstrapping(Subscribe)
  BY <1>1 DEF Bootstrapping, Next
<1>2. CASE ~(Bootstrapping(Proceed) \/ Bootstrapping(Subscribe))
  BY <1>2 DEF HostNext, HostProceed, ParseArguments, Connect, Bootstrapped, Enumerate,
     HydrateCompany, Hydrated, Report, Close, ReadRows, QueryFails, ChangeRow
<1> QED
  BY <1>1, <1>2

(* The host runs bootstrap() as it is: its steps are those of Bootstrap, or  *)
(* leave that alone.                                                         *)
THEOREM RunsBootstrap == HostSpec => Spec
<1>1. HostInit => Init
  BY DEF HostInit, Init, HostAssumption
<1> QED
  BY <1>1, HostStep, PTL DEF HostSpec, Spec

-----------------------------------------------------------------------------
(* Hydration *)

(* Where the mirror is filled from, and what the loop over the companies has *)
(* done so far.                                                              *)
Visited(k) ==
  /\ report[k] = IF Diagnosed(read[k]) THEN "degraded" ELSE "ready"
  /\ mirror[k] = IF Diagnosed(read[k]) THEN {} ELSE Active(read[k])

MirrorInv ==
  /\ mirror \in [Companies -> SUBSET Ids]
  /\ DOMAIN report = Companies /\ DOMAIN read = Companies
  /\ unvisited \subseteq Companies
  /\ hydrating \in unvisited \union {NoCompany}
  /\ at \in {"start", "connect", "bootstrap", "enumerate"} => enumerated = "no"
  /\ at = "hydrate" => enumerated = "done"
  /\ enumerated = "done" /\ at # "hydrate" => unvisited = {}
  /\ enumerated = "no" => failed = {}
  /\ failed \cap unvisited = {}
  /\ \A k \in failed : report[k] = "degraded"
  /\ \A k \in Companies :
       IF enumerated # "done" \/ k \in unvisited \union failed
       THEN mirror[k] = {}
       ELSE Visited(k)

(* Rows that add up can be served, and conversely.                           *)
LEMMA DiagnosedOrClosed ==
  ASSUME NEW rs
  PROVE  /\ ~Diagnosed(rs) => Closed(Active(rs))
         /\ /\ \A m \in Loaded : m.id \in Active(rs) => ~m.platform
            /\ Closed(Active(rs))
            /\ \A i \in Ids : rs[i] # "inconsistent"
            => ~Diagnosed(rs)
<1> DEFINE active == Active(rs)
<1>1. ASSUME ~Diagnosed(rs) PROVE Closed(active)
  <2>1. active \subseteq ToSet(list)
    BY <1>1 DEF Diagnosed, Active
  <2>2. ASSUME NEW m \in Loaded, m.id \in active, NEW r \in m.requires
        PROVE  \E p \in Loaded : /\ p.id \in active \cap r.accepts
                                 /\ r.key \in p.provides \union p.optional
    <3>1. m \in Registered
      BY <2>1, <2>2 DEF Registered
    <3>2. ActiveProviders(r, active) # {}
      BY <1>1, <2>2, <3>1 DEF Diagnosed
    <3> QED
      BY <3>2 DEF ActiveProviders, Registered
  <2> QED
    BY <2>1, <2>2 DEF Closed
<1>2. ASSUME \A m \in Loaded : m.id \in active => ~m.platform, Closed(active),
             \A i \in Ids : rs[i] # "inconsistent"
      PROVE  ~Diagnosed(rs)
  <2>1. ASSUME NEW m \in Registered, m.id \in active, NEW r \in m.requires
        PROVE  ActiveProviders(r, active) # {}
    <3>1. PICK p \in Loaded : /\ p.id \in active \cap r.accepts
                              /\ r.key \in p.provides \union p.optional
      BY <1>2, <2>1 DEF Closed, Registered
    <3>2. p \in Registered
      BY <1>2, <3>1 DEF Closed, Registered
    <3> QED
      BY <3>1, <3>2 DEF ActiveProviders
  <2> QED
    BY <1>2, <2>1 DEF Diagnosed, Closed, Registered
<1> QED
  BY <1>1, <1>2

(* What the mirror is judged by stays once bootstrap() has returned.         *)
LEMMA JudgedAlike ==
  ASSUME UNCHANGED vars
  PROVE  /\ \A rs : Diagnosed(rs)' = Diagnosed(rs)
         /\ \A active : Closed(active)' = Closed(active)
  BY DEF vars, Diagnosed, Closed, Registered, ActiveProviders, Loaded

LEMMA MirrorInvInit == HostInit => MirrorInv
  BY DEF HostInit, MirrorInv

LEMMA MirrorInvNext == MirrorInv /\ [HostNext]_allVars => MirrorInv'
<1> SUFFICES ASSUME MirrorInv, [HostNext]_allVars PROVE MirrorInv'
  OBVIOUS
<1>1. CASE Bootstrapping(Proceed) \/ Bootstrapping(Subscribe)
  <2>1. UNCHANGED hostVars /\ at = "bootstrap"
    BY <1>1 DEF Bootstrapping
  <2> QED
    BY <2>1 DEF MirrorInv, hostVars, hydration
<1>2. CASE ParseArguments \/ Connect \/ Bootstrapped \/ Report \/ Close \/ UNCHANGED allVars
  <2>1. UNCHANGED hydration /\ UNCHANGED vars
    BY <1>2 DEF ParseArguments, Connect, Bootstrapped, Report, Close, allVars, hostVars
  <2>2. \/ at' = at
        \/ /\ at \in {"start", "connect", "bootstrap", "report", "close"}
           /\ at' \in {"connect", "bootstrap", "enumerate", "report", "close", "exited"}
           /\ at \in {"report", "close"} => at' \in {"close", "exited"}
    BY <1>2 DEF ParseArguments, Connect, Bootstrapped, Report, Close, Exit, Return,
                allVars, hostVars
  <2>3. \A k \in Companies : Visited(k)' <=> Visited(k)
    BY <2>1, JudgedAlike DEF Visited, hydration
  <2> QED
    BY <2>1, <2>2, <2>3 DEF MirrorInv, hydration
<1>3. CASE Enumerate
  <2>1. /\ at = "enumerate" /\ UNCHANGED <<read, hydrating, failed, report, mirror>>
        /\ \/ enumerated' = "done" /\ unvisited' = Companies /\ at' = "hydrate"
           \/ enumerated' = "failed" /\ unvisited' = unvisited /\ at' = "report"
    BY <1>3 DEF Enumerate
  <2> QED
    BY <2>1 DEF MirrorInv
<1>4. ASSUME NEW k \in Companies, ReadRows(k) PROVE MirrorInv'
  <2>1. /\ at = "hydrate" /\ k \in unvisited /\ hydrating' = k
        /\ read' = [read EXCEPT ![k] = rows[k]]
        /\ UNCHANGED <<at, enumerated, unvisited, failed, report, mirror>>
        /\ UNCHANGED vars
    BY <1>4 DEF ReadRows
  <2>2. \A o \in Companies \ {k} : Visited(o)' <=> Visited(o)
    BY <2>1, JudgedAlike DEF Visited, MirrorInv
  <2> QED
    BY <2>1, <2>2 DEF MirrorInv
<1>5. ASSUME NEW k \in Companies, QueryFails(k) PROVE MirrorInv'
  <2>1. /\ at = "hydrate" /\ hydrating = NoCompany /\ k \in unvisited
        /\ unvisited' = unvisited \ {k} /\ failed' = failed \union {k}
        /\ mirror' = [mirror EXCEPT ![k] = {}]
        /\ report' = [report EXCEPT ![k] = "degraded"]
        /\ UNCHANGED <<at, enumerated, read, hydrating>>
        /\ UNCHANGED vars
    BY <1>5 DEF QueryFails
  <2>2. \A o \in Companies \ {k} : Visited(o)' <=> Visited(o)
    BY <2>1, JudgedAlike DEF Visited, MirrorInv
  <2> QED
    BY <2>1, <2>2 DEF MirrorInv
<1>6. CASE HydrateCompany
  <2>0. PICK k \in Companies : hydrating = k
    BY <1>6 DEF HydrateCompany, MirrorInv
  <2> DEFINE rs == read[k]
  <2>1. /\ at = "hydrate" /\ k # NoCompany
        /\ mirror' = [mirror EXCEPT ![k] = IF Diagnosed(rs) THEN {} ELSE Active(rs)]
        /\ report' = [report EXCEPT ![k] = IF Diagnosed(rs) THEN "degraded" ELSE "ready"]
        /\ unvisited' = unvisited \ {k} /\ hydrating' = NoCompany
        /\ UNCHANGED <<at, enumerated, read, failed>>
        /\ UNCHANGED vars
    BY <1>6, <2>0 DEF HydrateCompany
  <2>2. k \in unvisited /\ Active(rs) \subseteq Ids
    BY <2>0, <2>1 DEF MirrorInv, Active
  <2>3. \A o \in Companies \ {k} : Visited(o)' <=> Visited(o)
    BY <2>1, JudgedAlike DEF Visited, MirrorInv
  <2>4. Visited(k)'
    BY <2>1, <2>2, JudgedAlike DEF Visited, MirrorInv
  <2> QED
    BY <2>1, <2>2, <2>3, <2>4 DEF MirrorInv
<1>7. CASE Hydrated
  <2>1. /\ at = "hydrate" /\ unvisited = {} /\ at' = "report"
        /\ UNCHANGED hydration /\ UNCHANGED vars
    BY <1>7 DEF Hydrated
  <2>2. \A k \in Companies : Visited(k)' <=> Visited(k)
    BY <2>1, JudgedAlike DEF Visited, hydration
  <2> QED
    BY <2>1, <2>2 DEF MirrorInv, hydration
<1>8. ASSUME NEW k \in Companies, NEW i \in Ids, ChangeRow(k, i) PROVE MirrorInv'
  <2>1. UNCHANGED at /\ UNCHANGED hydration /\ UNCHANGED vars
    BY <1>8 DEF ChangeRow
  <2>2. \A o \in Companies : Visited(o)' <=> Visited(o)
    BY <2>1, JudgedAlike DEF Visited, hydration
  <2> QED
    BY <2>1, <2>2 DEF MirrorInv, hydration
<1> QED
  BY <1>1, <1>2, <1>3, <1>4, <1>5, <1>6, <1>7, <1>8 DEF HostNext, HostProceed

(* Whatever queries fail and other processes change, a company's mirror is   *)
(* what its own rows were when they were read, and can be served.            *)
THEOREM MirrorsFollowRows == HostSpec => []MirrorsAsRead
<1>1. ASSUME MirrorInv PROVE MirrorsAsRead
  <2>1. ASSUME NEW k \in Companies PROVE Closed(mirror[k])
    <3>1. CASE mirror[k] = {}
      BY <3>1 DEF Closed
    <3>2. CASE mirror[k] # {}
      BY <1>1, <3>2, DiagnosedOrClosed DEF MirrorInv, Visited
    <3> QED
      BY <3>1, <3>2
  <2>2. ASSUME enumerated = "done", at # "hydrate", NEW k \in Companies \ failed
        PROVE  Visited(k)
    BY <1>1, <2>2 DEF MirrorInv
  <2> QED
    BY <2>1, <2>2, DiagnosedOrClosed DEF MirrorsAsRead, Visited
<1> QED
  BY <1>1, MirrorInvInit, MirrorInvNext, PTL DEF HostSpec

-----------------------------------------------------------------------------
(* What is accepted, is loaded                                               *)

(* No candidate is passed over: one that loads has its turn, or its id is    *)
(* taken.                                                                    *)
LoadInv ==
  /\ launch \in Launches
  /\ unread \in Seq(ToSet(launch.input)) /\ valid \in Seq(ToSet(launch.input))
  /\ \A m \in ToSet(launch.input) : m.loads => m \in ToSet(unread) \/ m.id \in LoadedIds
  /\ phase \notin {"load", "thrown"} => unread = <<>>

LEMMA LoadInvInit == HostInit => LoadInv
<1> SUFFICES ASSUME HostInit PROVE LoadInv
  OBVIOUS
<1>1. launch \in Launches /\ unread = launch.input /\ valid = <<>> /\ phase = "load"
  BY DEF HostInit, Idle
<1>2. launch.input \in Seq(ToSet(launch.input))
  BY <1>1 DEF BootstrapAssumption, HostAssumption
<1> QED
  BY <1>1, <1>2 DEF LoadInv

LEMMA LoadTakesTurns == LoadInv /\ Load /\ UNCHANGED launch => LoadInv'
<1> SUFFICES ASSUME LoadInv, Load, UNCHANGED launch PROVE LoadInv'
  OBVIOUS
<1> DEFINE shipped == ToSet(launch.input)
           candidate == Head(unread)
<1>1. unread \in Seq(shipped) /\ valid \in Seq(shipped) /\ unread # <<>>
      /\ unread' = Tail(unread)
  BY DEF LoadInv, Load
<1>2. /\ candidate \in shipped /\ Tail(unread) \in Seq(shipped)
      /\ ToSet(unread) = {candidate} \union ToSet(Tail(unread))
  <2>1. /\ candidate \in ToSet(unread) /\ Tail(unread) \in Seq(shipped)
        /\ ToSet(unread) = {candidate} \union ToSet(Tail(unread))
    BY <1>1, HeadAndTail
  <2>2. ToSet(unread) \subseteq shipped
    BY <1>1 DEF ToSet
  <2> QED
    BY <2>1, <2>2
<1>3. phase' \in {"load", "thrown"}
  BY DEF Load, Transition
<1>4. CASE candidate.loads /\ candidate.id \notin LoadedIds
  <2>1. valid' = Append(valid, candidate)
    BY <1>4 DEF Load
  <2>2. valid' \in Seq(shipped) /\ Loaded' = Loaded \union {candidate}
    BY <1>1, <1>2, <2>1, AppendTo DEF Loaded
  <2>3. LoadedIds' = LoadedIds \union {candidate.id}
    BY <2>2 DEF LoadedIds
  <2> QED
    BY <1>1, <1>2, <1>3, <2>2, <2>3 DEF LoadInv
<1>5. CASE ~(candidate.loads /\ candidate.id \notin LoadedIds)
  <2>1. valid' = valid
    BY <1>5 DEF Load
  <2>2. LoadedIds' = LoadedIds
    BY <2>1 DEF LoadedIds, Loaded
  <2> QED
    BY <1>1, <1>2, <1>3, <1>5, <2>1, <2>2 DEF LoadInv
<1> QED
  BY <1>4, <1>5

LEMMA LoadInvNext == LoadInv /\ [HostNext]_allVars => LoadInv'
<1> SUFFICES ASSUME LoadInv, [HostNext]_allVars PROVE LoadInv'
  OBVIOUS
<1>1. UNCHANGED launch
  BY DEF HostNext, HostProceed, ParseArguments, Connect, Bootstrapping, Bootstrapped,
     Enumerate, HydrateCompany, Hydrated, Report, Close, ReadRows, QueryFails,
     ChangeRow, hostVars, allVars
<1>2. [Next]_vars
  BY HostStep
<1>3. CASE Load
  BY <1>1, <1>3, LoadTakesTurns
<1>4. CASE ~Load
  <2>1. UNCHANGED <<unread, valid>>
    BY <1>2, <1>4 DEF Next, Proceed, Validate, StartSort, SortNext, FinishSort,
       FailUnresolved, FailCycles, Register, HooksSucceed, HookFails, Snapshot,
       Subscribe, vars
  <2>2. phase \in {"load", "thrown"} /\ phase' \notin {"load", "thrown"} => unread = <<>>
    BY <1>2, <1>4 DEF Next, Proceed, Validate, StartSort, SortNext, FinishSort,
       FailUnresolved, FailCycles, Register, HooksSucceed, HookFails, Snapshot,
       Subscribe, Running, vars
  <2>3. LoadedIds' = LoadedIds
    BY <2>1 DEF LoadedIds, Loaded
  <2> QED
    BY <1>1, <2>1, <2>2, <2>3 DEF LoadInv
<1> QED
  BY <1>3, <1>4

(* Of two modules that the validators accept together, each key, each event  *)
(* and each id is one's, and a module's events are its own to emit.          *)
LEMMA AcceptedApart ==
  ASSUME NEW records, EventsAccepted(records), NEW m \in records, NEW o \in records,
         m # o
  PROVE  /\ m.id # o.id
         /\ ToSet(m.events) \cap ToSet(o.events) = {}
         /\ (m.provides \union m.optional) \cap (o.provides \union o.optional) = {}
  BY DEF EventsAccepted, ManifestsAccepted

(* A set whose members are all the same has at most one.                     *)
LEMMA AtMostOne ==
  ASSUME NEW S, \A x, y \in S : x = y
  PROVE  Cardinality(S) <= 1
<1>1. CASE S = {}
  BY <1>1, FS_EmptySet
<1>2. CASE S # {}
  <2>1. PICK x \in S : TRUE
    BY <1>2
  <2>2. S = {x}
    BY <2>1
  <2>3. Cardinality({x}) = 1
    BY FS_Singleton
  <2> QED
    BY <2>2, <2>3
<1> QED
  BY <1>1, <1>2

(* A runtime can load whatever both validators accept.                       *)
THEOREM AcceptedLoads == HostSpec => []AcceptedServes
<1>1. ASSUME LoadInv PROVE AcceptedServes
  <2> DEFINE shipped == ToSet(launch.input)
  <2> SUFFICES ASSUME phase = "done", EventsAccepted(shipped)
               PROVE  /\ \A m \in shipped : m.supported => m \in Loaded
                      /\ \A m \in Loaded : \A r \in m.requires : Cardinality(Matches(r)) <= 1
                      /\ \A m, o \in shipped : m.namespace = o.namespace => m = o
                      /\ \A m, o \in shipped, k \in Companies : \A type \in m.eventConstants :
                           MayEmit(o, type, k) <=> o = m
    BY DEF AcceptedServes
  <2>1. Loaded \subseteq shipped /\ unread = <<>> /\ launch.input \in Inputs
    BY <1>1 DEF LoadInv, Loaded, ToSet, HostAssumption
  <2>2. ASSUME NEW m \in shipped, m.supported PROVE m \in Loaded
    <3>1. m.loads
      BY <2>1, <2>2 DEF HostAssumption, EventsAccepted, ManifestsAccepted,
         ManifestAccepted
    <3>2. m.id \in LoadedIds
      BY <1>1, <2>1, <2>2, <3>1 DEF LoadInv, ToSet
    <3>3. PICK d \in Loaded : d.id = m.id
      BY <3>2 DEF LoadedIds
    <3> QED
      BY <2>1, <2>2, <3>3, AcceptedApart
  <2>3. ASSUME NEW r PROVE Cardinality(Matches(r)) <= 1
    <3>1. ASSUME NEW x \in Matches(r), NEW y \in Matches(r) PROVE x = y
      <4>1. PICK c \in Loaded : \/ x = <<c.id, FALSE>> /\ r.key \in c.provides
                                \/ x = <<c.id, TRUE>> /\ r.key \in c.optional
        BY <3>1 DEF Matches
      <4>2. PICK d \in Loaded : \/ y = <<d.id, FALSE>> /\ r.key \in d.provides
                                \/ y = <<d.id, TRUE>> /\ r.key \in d.optional
        BY <3>1 DEF Matches
      <4>3. c = d
        BY <2>1, <4>1, <4>2, AcceptedApart
      <4>4. c.provides \cap c.optional = {}
        BY <2>1 DEF EventsAccepted, ManifestsAccepted, ManifestAccepted
      <4> QED
        BY <4>1, <4>2, <4>3, <4>4
    <3> QED
      BY <3>1, AtMostOne
  <2>4. ASSUME NEW m \in shipped, NEW o \in shipped, m.namespace = o.namespace
        PROVE  m = o
    BY <2>1, <2>4 DEF HostAssumption, EventsAccepted, ManifestsAccepted,
       ManifestAccepted
  <2>5. ASSUME NEW m \in shipped, NEW o \in shipped, NEW k \in Companies,
               NEW type \in m.eventConstants
        PROVE  MayEmit(o, type, k) <=> o = m
    <3>1. type \in ToSet(m.events) /\ Owns(m, type)
      BY DEF EventsAccepted
    <3>2. MayEmit(m, type, k)
      BY <3>1 DEF MayEmit, Emits, Envelope
    <3>3. MayEmit(o, type, k) => type \in ToSet(o.events)
      BY DEF MayEmit, Emits, Envelope
    <3> QED
      BY <3>1, <3>2, <3>3, AcceptedApart
  <2> QED
    BY <2>1, <2>2, <2>3, <2>4, <2>5
<1> QED
  BY <1>1, LoadInvInit, LoadInvNext, PTL DEF HostSpec

-----------------------------------------------------------------------------
(* The exit code                                                             *)

LEMMA BootstrapInvariant == HostSpec => []IInv
  BY RunsBootstrap, Invariant

(* What the host itself keeps.                                               *)
HostTyped ==
  /\ launch \in Launches
  /\ at \in Places
  /\ client \in {"none", "open", "closed"}
  /\ code \in {NoCode, 0, 1, 2}
  /\ rows \in [Companies -> Rows] /\ read \in [Companies -> Rows]
  /\ enumerated \in {"no", "done", "failed"}
  /\ failed \subseteq Companies
  /\ report \in [Companies -> {"none", "ready", "degraded"}]
  /\ changes \in 0 .. MaxChanges

LEMMA HostTypedInit == HostInit => HostTyped
<1> SUFFICES ASSUME HostInit PROVE HostTyped
  OBVIOUS
<1>1. launch \in Launches /\ rows = launch.rows
  BY DEF HostInit
<1>2. rows \in [Companies -> Rows]
  BY <1>1 DEF HostAssumption
<1>3. read \in [Companies -> Rows]
  BY DEF HostInit, Rows, RowStates
<1>4. changes \in 0 .. MaxChanges
  BY DEF HostInit, HostAssumption
<1> QED
  BY <1>1, <1>2, <1>3, <1>4 DEF HostInit, HostTyped, Places

LEMMA HostTypedNext == HostTyped /\ MirrorInv /\ [HostNext]_allVars => HostTyped'
<1> SUFFICES ASSUME HostTyped, MirrorInv, [HostNext]_allVars PROVE HostTyped'
  OBVIOUS
<1>1. CASE Bootstrapping(Proceed) \/ Bootstrapping(Subscribe) \/ UNCHANGED allVars
  BY <1>1 DEF Bootstrapping, HostTyped, hostVars, allVars, hydration
<1>2. CASE ParseArguments \/ Connect \/ Bootstrapped
  BY <1>2 DEF ParseArguments, Connect, Bootstrapped, Exit, Return, HostTyped, Places,
     hydration
<1>3. CASE Report \/ Close
  BY <1>3 DEF Report, Close, Exit, Return, HostTyped, Places, hydration
<1>4. CASE Enumerate \/ Hydrated
  BY <1>4 DEF Enumerate, Hydrated, HostTyped, Places, hydration
<1>5. ASSUME NEW k \in Companies, ReadRows(k) PROVE HostTyped'
  BY <1>5 DEF ReadRows, HostTyped
<1>6. ASSUME NEW k \in Companies, QueryFails(k) PROVE HostTyped'
  BY <1>6 DEF QueryFails, HostTyped
<1>7. CASE HydrateCompany
  BY <1>7 DEF HydrateCompany, HostTyped
<1>8. ASSUME NEW k \in Companies, NEW i \in Ids, ChangeRow(k, i) PROVE HostTyped'
  <2>1. /\ changes < MaxChanges /\ changes' = changes + 1
        /\ rows' = [rows EXCEPT ![k][i] = IF @ = "active" THEN "inactive" ELSE "active"]
        /\ UNCHANGED <<launch, at, client, code, read, enumerated, failed, report>>
    BY <1>8 DEF ChangeRow, hydration
  <2>2. changes' \in 0 .. MaxChanges
    BY <2>1 DEF HostTyped, HostAssumption
  <2>3. rows' \in [Companies -> Rows]
    BY <2>1 DEF HostTyped, Rows, RowStates
  <2> QED
    BY <2>1, <2>2, <2>3 DEF HostTyped
<1> QED
  BY <1>1, <1>2, <1>3, <1>4, <1>5, <1>6, <1>7, <1>8 DEF HostNext, HostProceed

LEMMA HostInvariant == HostSpec => [](IInv /\ MirrorInv /\ HostTyped)
  BY BootstrapInvariant, MirrorInvInit, MirrorInvNext, HostTypedInit, HostTypedNext,
     PTL DEF HostSpec

(* The state of a run stays well-formed, bootstrap's included: only a        *)
(* company still to be hydrated is being hydrated, and its mirror is made of *)
(* modules.                                                                  *)
THEOREM HostIsTyped == HostSpec => []HostTypeOK
<1>1. IInv /\ MirrorInv /\ HostTyped => HostTypeOK
  BY InvTyped DEF MirrorInv, HostTyped, HostTypeOK
<1> QED
  BY <1>1, HostInvariant, PTL

(* How runCli came where it is, and what a code other than 1 was decided by. *)
Course ==
  /\ at \in {"start", "connect"} => client = "none"
  /\ at \in {"bootstrap", "enumerate", "hydrate", "report"} =>
       client = IF Hydrates THEN "open" ELSE "none"
  /\ at \in {"enumerate", "hydrate", "report"} => phase = "done"
  /\ at \in {"close", "exited"} /\ code # 1 /\ ~Given("--help") =>
       /\ phase = "done"
       /\ Given("--fail-on-degraded") =>
            (code = 2 <=> ~ready \/ (Hydrates /\ ~HydrationReady))

LEMMA CourseInit == HostInit => Course
  BY DEF HostInit, Course

LEMMA CourseNext == Course /\ [HostNext]_allVars => Course'
<1> SUFFICES ASSUME Course, [HostNext]_allVars PROVE Course'
  OBVIOUS
<1>0. UNCHANGED launch
  BY DEF HostNext, HostProceed, ParseArguments, Connect, Bootstrapping, Bootstrapped,
     Enumerate, HydrateCompany, Hydrated, Report, Close, ReadRows, QueryFails,
     ChangeRow, hostVars, allVars
<1>1. /\ Hydrates' <=> Hydrates
      /\ \A argument : Given(argument)' <=> Given(argument)
  BY <1>0 DEF Hydrates, Given, Argv
<1>2. CASE Bootstrapping(Proceed) \/ Bootstrapping(Subscribe)
  BY <1>1, <1>2 DEF Bootstrapping, Course, hostVars
<1>3. CASE ParseArguments
  BY <1>1, <1>3 DEF ParseArguments, Exit, Course
<1>4. CASE Connect
  BY <1>1, <1>4 DEF Connect, Return, Course
<1>5. CASE Bootstrapped
  BY <1>1, <1>5 DEF Bootstrapped, Return, Course, vars
<1>6. CASE \/ Enumerate \/ Hydrated \/ HydrateCompany
           \/ \E k \in Companies : ReadRows(k) \/ QueryFails(k)
           \/ \E k \in Companies, i \in Ids : ChangeRow(k, i)
  <2>1. /\ at \in {"enumerate", "hydrate"} /\ at' \in {"hydrate", "report"}
        /\ UNCHANGED <<phase, client>>
    BY <1>6 DEF Enumerate, Hydrated, HydrateCompany, ReadRows, QueryFails, ChangeRow, vars
  <2> QED
    BY <1>1, <2>1 DEF Course
<1>7. CASE Report
  <2>1. /\ at = "report" /\ at' = "close" /\ UNCHANGED <<phase, ready, enumerated, report>>
        /\ code' = IF Given("--fail-on-degraded") /\ Degraded THEN 2 ELSE 0
    BY <1>7 DEF Report, Return, vars, hydration
  <2>2. Degraded <=> ~ready \/ (Hydrates /\ ~HydrationReady)
    BY <2>1 DEF Degraded, Course
  <2>3. HydrationReady' <=> HydrationReady
    BY <2>1 DEF HydrationReady
  <2> QED
    BY <1>1, <2>1, <2>2, <2>3 DEF Course
<1>8. CASE Close
  <2>1. /\ at = "close" /\ at' = "exited" /\ code' \in {code, 1}
        /\ UNCHANGED <<phase, ready, enumerated, report>>
    BY <1>8 DEF Close, Exit, vars, hydration
  <2>2. HydrationReady' <=> HydrationReady
    BY <2>1 DEF HydrationReady
  <2> QED
    BY <1>1, <2>1, <2>2 DEF Course
<1>9. CASE UNCHANGED allVars
  <2>1. UNCHANGED <<at, client, code, phase, ready, enumerated, report>>
    BY <1>9 DEF allVars, vars, hostVars, hydration
  <2>2. HydrationReady' <=> HydrationReady
    BY <2>1 DEF HydrationReady
  <2> QED
    BY <1>1, <2>1, <2>2 DEF Course
<1> QED
  BY <1>2, <1>3, <1>4, <1>5, <1>6, <1>7, <1>8, <1>9 DEF HostNext, HostProceed

(* A diagnosis without errors means that each module is up, its requirements *)
(* resolved, its providers before it, and conversely.                        *)
ModulesUp ==
  /\ \A i \in LoadedIds \union (issues \ {NoId}) : state[i] = "initialized"
  /\ \A m \in Loaded : \A r \in m.requires : Resolved(r)
  /\ \A i \in 1 .. Len(list) : Edges[list[i]] \subseteq Before(i)

LEMMA ReadyModules ==
  ASSUME IInv, phase = "done"
  PROVE  /\ ready <=> ModulesUp
         /\ ready => ToSet(list) = LoadedIds
<1>1. /\ \A i \in Ids \ LoadedIds : state[i] = "unknown"
      /\ \A i \in LoadedIds : i \in Unstarted => state[i] = "failed"
      /\ issues \subseteq Ids \union {NoId}
      /\ ready <=> /\ \A i \in LoadedIds : state[i] = "initialized"
                   /\ issues \subseteq LoadedIds \union {NoId}
  BY DEF IInv, Lifecycles, Diagnostics
<1>2. ASSUME ready PROVE ModulesUp /\ ToSet(list) = LoadedIds
  <2>1. Unresolved = {} /\ OnCycle = {}
    BY <1>1, <1>2, GraphTyped DEF Unstarted
  <2>2. ASSUME NEW m \in Loaded, NEW r \in m.requires PROVE Resolved(r)
    <3>1. SUFFICES ASSUME ~Resolved(r) PROVE m.id \in Unresolved
      BY <2>1
    <3>2. m \in {d \in Loaded : \E q \in d.requires : ~Resolved(q)}
      BY <3>1
    <3> QED
      BY <3>2 DEF Unresolved
  <2>3. ToSet(list) = LoadedIds
    BY <2>1 DEF IInv, Registry, Unstarted
  <2>4. ASSUME NEW i \in 1 .. Len(list) PROVE Edges[list[i]] \subseteq Before(i)
    <3>1. DependsOn(list[i]) \cap OnCycle = {}
      BY <2>1
    <3>2. Edges[list[i]] \cap ToSet(list) \subseteq Before(i)
      BY <3>1, RegistryInOrder
    <3>3. list[i] \in LoadedIds
      BY <2>3 DEF IInv, Registry, ToSet
    <3> QED
      BY <2>3, <3>2, <3>3, GraphTyped
  <2> QED
    BY <1>1, <1>2, <2>2, <2>3, <2>4 DEF ModulesUp
<1>3. ASSUME ModulesUp PROVE ready
  BY <1>1, <1>3 DEF ModulesUp
<1> QED
  BY <1>2, <1>3

(* The same of the hydration: every company has the modules its rows say.    *)
CompaniesUp ==
  /\ enumerated = "done" /\ failed = {}
  /\ \A k \in Companies :
       /\ mirror[k] = Active(read[k])
       /\ \A i \in Ids : read[k][i] # "inconsistent"
       /\ \A i \in mirror[k] : state[i] = "initialized"

LEMMA ReadyCompanies ==
  ASSUME MirrorInv, HostTyped, at \in {"close", "exited"}, ready, IInv, phase = "done"
  PROVE  HydrationReady <=> CompaniesUp
<1>1. /\ ToSet(list) = LoadedIds
      /\ \A i \in LoadedIds : state[i] = "initialized"
  BY ReadyModules DEF ModulesUp
<1>2. enumerated = "done" => /\ unvisited = {}
                             /\ \A k \in failed : report[k] = "degraded"
                             /\ \A k \in Companies \ failed : Visited(k)
  BY DEF MirrorInv
<1>3. ASSUME HydrationReady PROVE CompaniesUp
  <2>1. enumerated = "done" /\ failed = {}
    BY <1>2, <1>3 DEF HydrationReady, HostTyped
  <2>2. ASSUME NEW k \in Companies
        PROVE  /\ mirror[k] = Active(read[k])
               /\ \A i \in Ids : read[k][i] # "inconsistent"
               /\ \A i \in mirror[k] : state[i] = "initialized"
    <3>1. ~Diagnosed(read[k]) /\ mirror[k] = Active(read[k])
      BY <1>2, <1>3, <2>1 DEF HydrationReady, Visited
    <3>2. \A i \in Active(read[k]) : i \in ToSet(list)
      BY <3>1 DEF Diagnosed
    <3>3. \A i \in Ids : read[k][i] # "inconsistent"
      BY <3>1 DEF Diagnosed
    <3> QED
      BY <1>1, <3>1, <3>2, <3>3
  <2> QED
    BY <2>1, <2>2 DEF CompaniesUp
<1>4. ASSUME CompaniesUp PROVE HydrationReady
  <2>1. ASSUME NEW k \in Companies PROVE report[k] = "ready"
    <3>1. Visited(k) /\ mirror[k] = Active(read[k])
      BY <1>2, <1>4 DEF CompaniesUp
    <3>2. ~Diagnosed(read[k])
      <4>1. CASE Active(read[k]) = {}
        BY <1>4, <4>1 DEF Diagnosed, CompaniesUp
      <4>2. CASE Active(read[k]) # {}
        BY <3>1, <4>2 DEF Visited
      <4> QED
        BY <4>1, <4>2
    <3> QED
      BY <3>1, <3>2 DEF Visited
  <2> QED
    BY <1>4, <2>1 DEF CompaniesUp, HydrationReady
<1> QED
  BY <1>3, <1>4

LEMMA CodeServes ==
  ASSUME IInv, MirrorInv, HostTyped, Course
  PROVE  ExitServes
<1> SUFFICES ASSUME at = "exited", Given("--fail-on-degraded"), ~Given("--help"),
                    code \in {0, 2}
             PROVE  code = 0 <=> Serves
  BY DEF ExitServes
<1>1. code # 1 /\ (code = 0 <=> code # 2)
  OBVIOUS
<1>2. phase = "done" /\ (code = 0 <=> ready /\ (Hydrates => HydrationReady))
  BY <1>1 DEF Course
<1>3. Serves <=> ModulesUp /\ (Hydrates => CompaniesUp)
  BY Zenon DEF Serves, ModulesUp, CompaniesUp
<1>4. ready <=> ModulesUp
  BY <1>2, ReadyModules
<1>5. ready => (HydrationReady <=> CompaniesUp)
  BY <1>2, ReadyCompanies
<1> QED
  BY <1>2, <1>3, <1>4, <1>5

(* For any deployment, rows and failures: with --fail-on-degraded, code 0    *)
(* means that everything the run was started with is up, and code 2 that it  *)
(* is not.                                                                   *)
THEOREM CodeIsTrue == HostSpec => []ExitServes
  BY HostInvariant, CourseInit, CourseNext, CodeServes, PTL DEF HostSpec

-----------------------------------------------------------------------------
(* Termination: what can be said of it without fairness *)

Turn ==
  CASE at = "start" -> 0 [] at = "connect" -> 1 [] at = "bootstrap" -> 2
    [] at = "enumerate" -> 3 [] at = "hydrate" -> 4 [] at = "report" -> 5
    [] at = "close" -> 6 [] OTHER -> 7

(* A query and a mirror for each company still to be hydrated, and no query  *)
(* for one whose rows have been read.                                        *)
Waiting == 2 * Cardinality(unvisited) - IF hydrating = NoCompany THEN 0 ELSE 1

HostAdvances ==
  \/ Turn' > Turn
  \/ Turn' = Turn /\ at = "bootstrap" /\ Advances
  \/ Turn' = Turn /\ at = "hydrate" /\ Waiting' < Waiting

LEMMA UnvisitedCount ==
  ASSUME IsFiniteSet(Companies), MirrorInv
  PROVE  /\ IsFiniteSet(unvisited) /\ Cardinality(unvisited) \in Nat
         /\ Waiting \in Nat
         /\ \A k \in unvisited : Cardinality(unvisited \ {k}) = Cardinality(unvisited) - 1
<1>1. IsFiniteSet(unvisited) /\ Cardinality(unvisited) \in Nat
  BY FS_Subset, FS_CardinalityType DEF MirrorInv
<1>2. \A k \in unvisited : Cardinality(unvisited \ {k}) = Cardinality(unvisited) - 1
  BY <1>1, FS_RemoveElement
<1>3. hydrating # NoCompany => Cardinality(unvisited) # 0
  BY <1>1, FS_EmptySet DEF MirrorInv
<1> QED
  BY <1>1, <1>2, <1>3 DEF Waiting

LEMMA HostProceedAdvances ==
  ASSUME IsFiniteSet(Companies), IInv, IInv', MirrorInv, HostProceed
  PROVE  HostAdvances
<1>1. CASE Bootstrapping(Proceed)
  <2>1. at = "bootstrap" /\ at' = at /\ Proceed
    BY <1>1 DEF Bootstrapping, hostVars
  <2> QED
    BY <2>1, ProceedAdvances DEF HostAdvances, Turn
<1>2. CASE ParseArguments \/ Connect \/ Bootstrapped \/ Enumerate \/ Hydrated \/ Report \/ Close
  BY <1>2 DEF ParseArguments, Connect, Bootstrapped, Enumerate, Hydrated, Report, Close,
     Exit, Return, HostAdvances, Turn
<1>3. ASSUME NEW k \in Companies, ReadRows(k) PROVE HostAdvances
  <2>1. /\ at = "hydrate" /\ at' = at /\ hydrating = NoCompany /\ hydrating' # NoCompany
        /\ unvisited' = unvisited
    BY <1>3 DEF ReadRows, HostAssumption
  <2>2. Waiting' < Waiting
    BY <2>1, UnvisitedCount DEF Waiting
  <2> QED
    BY <2>1, <2>2 DEF HostAdvances, Turn
<1>4. ASSUME NEW k \in Companies, QueryFails(k) \/ HydrateCompany PROVE HostAdvances
  <2>1. /\ at = "hydrate" /\ at' = at /\ hydrating' = NoCompany
        /\ \E o \in unvisited : unvisited' = unvisited \ {o}
    BY <1>4 DEF QueryFails, HydrateCompany, MirrorInv
  <2>2. Cardinality(unvisited') = Cardinality(unvisited) - 1 /\ Cardinality(unvisited) \in Nat
    BY <2>1, UnvisitedCount
  <2>3. Waiting' < Waiting
    BY <2>1, <2>2 DEF Waiting
  <2> QED
    BY <2>1, <2>3 DEF HostAdvances, Turn
<1>5. CASE HydrateCompany
  <2>1. hydrating \in Companies
    BY <1>5 DEF HydrateCompany, MirrorInv
  <2> QED
    BY <1>4, <1>5, <2>1
<1> QED
  BY <1>1, <1>2, <1>3, <1>4, <1>5 DEF HostProceed

(* With finitely many companies, a run can take only so many steps of its    *)
(* own, whatever else happens: it never comes back to where it was.          *)
THEOREM HostEnds ==
  ASSUME IsFiniteSet(Companies)
  PROVE  HostSpec => /\ [](Turn \in 0 .. 7 /\ Left \in Nat /\ Waiting \in Nat)
                     /\ [][HostProceed => HostAdvances]_allVars
<1>1. IInv /\ MirrorInv => Turn \in 0 .. 7 /\ Left \in Nat /\ Waiting \in Nat
  BY LeftIsNatural, UnvisitedCount DEF Turn
<1>2. (IInv /\ MirrorInv /\ HostTyped) /\ (IInv /\ MirrorInv /\ HostTyped)'
        /\ [HostNext]_allVars => [HostProceed => HostAdvances]_allVars
  BY HostProceedAdvances
<1> QED
  BY <1>1, <1>2, HostInvariant, PTL DEF HostSpec

-----------------------------------------------------------------------------
(* What is accepted, starts *)

(* An id among the load issues is a broken candidate's, or taken.            *)
IssueInv ==
  issues \subseteq LoadedIds \union {c.id : c \in {d \in ToSet(launch.input) : ~d.loads}}

LEMMA IssueInvNext == LoadInv /\ IssueInv /\ IInv /\ [HostNext]_allVars => IssueInv'
<1> SUFFICES ASSUME LoadInv, IssueInv, IInv, [HostNext]_allVars PROVE IssueInv'
  OBVIOUS
<1> DEFINE broken == {c.id : c \in {d \in ToSet(launch.input) : ~d.loads}}
<1>1. UNCHANGED launch
  BY DEF HostNext, HostProceed, ParseArguments, Connect, Bootstrapping, Bootstrapped,
     Enumerate, HydrateCompany, Hydrated, Report, Close, ReadRows, QueryFails,
     ChangeRow, hostVars, allVars
<1>2. [Next]_vars
  BY HostStep
<1>3. CASE Load
  <2>1. unread \in Seq(ToSet(launch.input)) /\ unread # <<>>
    BY <1>3 DEF LoadInv, Load
  <2>2. Head(unread) \in ToSet(launch.input)
    BY <2>1
  <2>3. \/ LoadedIds' = LoadedIds \union {Head(unread).id} /\ issues' = issues
        \/ /\ UNCHANGED valid /\ issues' = issues \union {Head(unread).id}
           /\ ~Head(unread).loads \/ Head(unread).id \in LoadedIds
    BY <1>3, LoadKeepsOnce DEF Load
  <2>4. Head(unread).loads \/ Head(unread).id \in broken
    BY <2>2
  <2> HIDE DEF broken
  <2>5. issues \subseteq LoadedIds \union broken
    BY DEF IssueInv, broken
  <2>6. issues' \subseteq LoadedIds' \union broken
    BY <2>3, <2>4, <2>5, GraphUnchanged
  <2> QED
    BY <1>1, <2>6 DEF IssueInv, broken
<1>4. CASE ~Load
  <2>1. UNCHANGED <<valid, issues>>
    BY <1>2, <1>4 DEF Next, Proceed, Validate, StartSort, SortNext, FinishSort,
       FailUnresolved, FailCycles, Register, HooksSucceed, HookFails, Snapshot,
       Subscribe, vars
  <2> QED
    BY <1>1, <2>1, GraphUnchanged DEF IssueInv
<1> QED
  BY <1>3, <1>4

(* Of modules that the validators accept and the runtime supports, nothing   *)
(* but the graph and the hooks can keep bootstrap() from being ready.        *)
ReadyUnlessGraphOrHooks ==
  phase = "done" /\ EventsAccepted(ToSet(launch.input))
    /\ (\A m \in ToSet(launch.input) : m.supported)
    => (ready <=> Unresolved \union OnCycle \union hookFailed = {})

(* For any deployment: the validators leave the runtime three reasons not to *)
(* be ready, a requirement nobody provides, a cycle and a failed hook.       *)
THEOREM AcceptedStarts == HostSpec => []ReadyUnlessGraphOrHooks
<1>1. ASSUME IInv, LoadInv, IssueInv PROVE ReadyUnlessGraphOrHooks
  <2> SUFFICES ASSUME phase = "done", EventsAccepted(ToSet(launch.input)),
                      \A m \in ToSet(launch.input) : m.supported
               PROVE  ready <=> Unresolved \union OnCycle \union hookFailed = {}
    BY DEF ReadyUnlessGraphOrHooks
  <2>1. \A m \in ToSet(launch.input) : m.loads
    <3>1. launch.input \in Inputs
      BY <1>1 DEF LoadInv, HostAssumption
    <3> QED
      BY <3>1 DEF HostAssumption, EventsAccepted, ManifestsAccepted, ManifestAccepted
  <2>2. issues \subseteq LoadedIds
    BY <1>1, <2>1 DEF IssueInv
  <2>3. ready <=> \A i \in LoadedIds : state[i] = "initialized"
    BY <1>1, <2>2 DEF IInv, Diagnostics
  <2>4. \A i \in LoadedIds :
          state[i] = IF i \in Unresolved \union OnCycle \union hookFailed
                     THEN "failed" ELSE "initialized"
    BY <1>1, InvIsolated DEF FailuresIsolated
  <2>5. Unresolved \union OnCycle \union hookFailed \subseteq LoadedIds
    BY <1>1, InvTyped, GraphTyped DEF TypeOK
  <2> QED
    BY <2>3, <2>4, <2>5
<1>2. HostInit => IssueInv
  BY DEF HostInit, Idle, IssueInv
<1> QED
  BY <1>1, <1>2, LoadInvInit, LoadInvNext, IssueInvNext, BootstrapInvariant, PTL
  DEF HostSpec
=============================================================================
