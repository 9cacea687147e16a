------------------------------ MODULE Bootstrap ------------------------------
(***************************************************************************)
(* bootstrap() of packages/core: manifests are loaded, capabilities are    *)
(* resolved, modules are registered in topological order, and the preFlight *)
(* and register hooks of each run in that order.                           *)
(*                                                                         *)
(* bootstrap is one sequential call.  What may vary are its input, what    *)
(* each hook does (subscribe, succeed, return an error, throw), and, while *)
(* a hook is awaited, events dispatched on a bus already in use.           *)
(*                                                                         *)
(* Kahn's algorithm is modelled step by step; the strongly connected       *)
(* components of tarjanSCC by what they are.                               *)
(***************************************************************************)
EXTENDS Naturals, Sequences, FiniteSets, SequencesExt

CONSTANTS
  Ids,       \* module ids
  NoId,      \* the id of a candidate whose manifest has no readable id
  Inputs     \* the sequences of candidates bootstrap may be called with

(* A candidate: its id; whether its manifest passes the schema, platform and *)
(* runtime mode checks; the capability keys it provides and provides         *)
(* optionally; and its requirements, each a key and the set of ids whose     *)
(* package version lies in the requirement's range.                          *)
ASSUME BootstrapAssumption ==
  /\ NoId \notin Ids
  /\ \A input \in Inputs : input \in Seq(ToSet(input))
  /\ \A input \in Inputs : \A c \in ToSet(input) :
       /\ c.loads \in BOOLEAN
       /\ c.id \in Ids \union (IF c.loads THEN {} ELSE {NoId})
       /\ \A r \in c.requires : r.accepts \subseteq Ids

VARIABLES
  phase,       \* where bootstrap() is
  unread,      \* candidates not loaded yet
  valid,       \* modules loaded
  issues,      \* ids of the load issues
  state,       \* the lifecycle engine's state of each module
  remaining,   \* topoSort: providers each module still waits for
  queue,       \* topoSort: modules that wait for none
  order,       \* topoSort: the order so far
  list,        \* the registry, in the order of list()
  next,        \* index in list of the module whose hooks run
  subscribed,  \* modules with a subscription on the bus
  hookFailed,  \* history: modules one of whose hooks failed
  ready        \* diagnostics.ready

vars == <<phase, unread, valid, issues, state, remaining, queue, order, list,
          next, subscribed, hookFailed, ready>>
sorting == <<remaining, queue, order>>
hooks == <<list, next, subscribed, hookFailed, ready>>

Phases == {"load", "index", "sort", "fail_unresolved", "fail_cycles", "register",
           "initialize", "done", "thrown"}

States == {"unknown", "discovered", "validated", "registered", "initialized",
           "degraded", "failed", "disabled"}

(* The engine's matrix; "unknown" is a module that was not introduced.     *)
Transitions(from) ==
  CASE from = "unknown"     -> {"discovered"}
    [] from = "discovered"  -> {"validated", "failed", "disabled"}
    [] from = "validated"   -> {"registered", "failed", "disabled"}
    [] from = "registered"  -> {"initialized", "failed", "disabled"}
    [] from = "initialized" -> {"degraded", "failed", "disabled"}
    [] from = "degraded"    -> {"initialized", "failed", "disabled"}
    [] from = "failed"      -> {"disabled"}
    [] from = "disabled"    -> {}

(* engine.transition (or introduce) for each module of S; one that is illegal *)
(* throws, out of bootstrap().                                                *)
Transition(S, to, then) ==
  IF \A i \in S : to \in Transitions(state[i])
  THEN /\ state' = [i \in Ids |-> IF i \in S THEN to ELSE state[i]]
       /\ phase' = then
  ELSE /\ phase' = "thrown"
       /\ UNCHANGED state

-----------------------------------------------------------------------------
(* The capability graph *)

Loaded == ToSet(valid)
LoadedIds == {c.id : c \in Loaded}
IdsInOrder == [i \in 1 .. Len(valid) |-> valid[i].id]

(* The elements of s that are in S, in the order of s.                       *)
Filter(s, S) ==
  LET kept == {i \in DOMAIN s : s[i] \in S}
      Rank(i) == Cardinality({j \in kept : j <= i})
  IN  [k \in 1 .. Cardinality(kept) |-> s[CHOOSE i \in kept : Rank(i) = k]]

(* A module that lists a key under provides and provides_optional is in the  *)
(* provider index twice.                                                     *)
Matches(r) ==
  {<<c.id, FALSE>> : c \in {d \in Loaded : r.key \in d.provides /\ d.id \in r.accepts}}
  \union
  {<<c.id, TRUE>> : c \in {d \in Loaded : r.key \in d.optional /\ d.id \in r.accepts}}

(* A requirement must have exactly one provider.                             *)
Resolved(r) == Cardinality(Matches(r)) = 1

Unresolved == {c.id : c \in {d \in Loaded : \E r \in d.requires : ~Resolved(r)}}

(* The edges of the graph: a module that provides what it requires gets none *)
(* for it.                                                                   *)
ProvidersOf(c) ==
  {m[1] : m \in UNION {Matches(r) : r \in {s \in c.requires : Resolved(s)}}}
    \ {c.id}

Edges == [i \in LoadedIds |-> ProvidersOf(CHOOSE c \in Loaded : c.id = i)]

(* The modules that i depends on, directly or not.                           *)
DependsOn(i) ==
  {j \in LoadedIds :
     \A S \in SUBSET LoadedIds :
       Edges[i] \subseteq S /\ (\A k \in S : Edges[k] \subseteq S) => j \in S}

(* tarjanSCC: the members of its components of more than one module, or with *)
(* a self-edge.                                                              *)
OnCycle == {i \in LoadedIds : i \in DependsOn(i)}

-----------------------------------------------------------------------------
Idle ==
  /\ phase = "load"
  /\ valid = <<>>
  /\ issues = {}
  /\ state = [i \in Ids |-> "unknown"]
  /\ remaining = <<>> /\ queue = <<>> /\ order = <<>>
  /\ list = <<>> /\ next = 1
  /\ subscribed = {} /\ hookFailed = {}
  /\ ready = FALSE

Init == unread \in Inputs /\ Idle

(* Variant: ids are not deduplicated.                                        *)
LoadDuplicates ==
  /\ phase = "load" /\ unread # <<>>
  /\ LET candidate == Head(unread) IN
       IF candidate.loads
       THEN /\ valid' = Append(valid, candidate)
            /\ Transition({candidate.id}, "discovered", "load")
            /\ UNCHANGED issues
       ELSE /\ issues' = issues \union {candidate.id}
            /\ UNCHANGED <<valid, state, phase>>
  /\ unread' = Tail(unread)
  /\ UNCHANGED <<sorting, hooks>>

(* loadModules, one candidate: the first with an id wins.  Its module is     *)
(* introduced to the engine.                                                 *)
Load ==
  /\ phase = "load" /\ unread # <<>>
  /\ LET candidate == Head(unread) IN
       IF candidate.loads /\ candidate.id \notin LoadedIds
       THEN /\ valid' = Append(valid, candidate)
            /\ Transition({candidate.id}, "discovered", "load")
            /\ UNCHANGED issues
       ELSE /\ issues' = issues \union {candidate.id}
            /\ UNCHANGED <<valid, state, phase>>
  /\ unread' = Tail(unread)
  /\ UNCHANGED <<sorting, hooks>>

Validate ==
  /\ phase = "load" /\ unread = <<>>
  /\ Transition(LoadedIds, "validated", "index")
  /\ UNCHANGED <<unread, valid, issues, sorting, hooks>>

(* topoSort up to its loop.                                                  *)
StartSort ==
  /\ phase = "index"
  /\ remaining' = Edges
  /\ queue' = Filter(IdsInOrder, {i \in LoadedIds : Edges[i] = {}})
  /\ phase' = "sort"
  /\ UNCHANGED <<unread, valid, issues, state, order, hooks>>

(* Variant: a module is queued when one of its providers has been ordered.   *)
SortNextAfterAny ==
  /\ phase = "sort" /\ queue # <<>>
  /\ LET v == Head(queue)
         freed == Filter(IdsInOrder, {w \in LoadedIds : v \in remaining[w]})
     IN /\ order' = Append(order, v)
        /\ remaining' = [w \in DOMAIN remaining |->
                           IF v \in remaining[w] THEN {} ELSE remaining[w]]
        /\ queue' = Tail(queue) \o freed
  /\ UNCHANGED <<phase, unread, valid, issues, state, hooks>>

(* One turn of its loop: v is ordered, and those that waited only for v are  *)
(* queued in input order.                                                    *)
SortNext ==
  /\ phase = "sort" /\ queue # <<>>
  /\ LET v == Head(queue)
         freed == Filter(IdsInOrder, {w \in LoadedIds : remaining[w] = {v}})
     IN /\ order' = Append(order, v)
        /\ remaining' = [w \in DOMAIN remaining |-> remaining[w] \ {v}]
        /\ queue' = Tail(queue) \o freed
  /\ UNCHANGED <<phase, unread, valid, issues, state, hooks>>

(* What is not ordered is on a cycle or depends on one: appended as given.   *)
FinishSort ==
  /\ phase = "sort" /\ queue = <<>>
  /\ order' = order \o Filter(IdsInOrder, LoadedIds \ ToSet(order))
  /\ phase' = "fail_unresolved"
  /\ UNCHANGED <<unread, valid, issues, state, remaining, queue, hooks>>

FailUnresolved ==
  /\ phase = "fail_unresolved"
  /\ Transition(Unresolved, "failed", "fail_cycles")
  /\ UNCHANGED <<unread, valid, issues, sorting, hooks>>

(* Variant: a module that is unresolved as well is failed again.             *)
FailAllCycles ==
  /\ phase = "fail_cycles"
  /\ Transition(OnCycle, "failed", "register")
  /\ UNCHANGED <<unread, valid, issues, sorting, hooks>>

FailCycles ==
  /\ phase = "fail_cycles"
  /\ Transition({i \in OnCycle : state[i] = "validated"}, "failed", "register")
  /\ UNCHANGED <<unread, valid, issues, sorting, hooks>>

(* registry.register for the modules still valid, then setOrder.             *)
Register ==
  /\ phase = "register"
  /\ LET still == {i \in LoadedIds : state[i] = "validated"} IN
       /\ list' = Filter(order, still)
       /\ Transition(still, "registered", "initialize")
  /\ UNCHANGED <<unread, valid, issues, sorting, next, subscribed, hookFailed, ready>>

-----------------------------------------------------------------------------
(* preFlight and register of the module list[next] *)

Running == phase = "initialize" /\ next <= Len(list)

(* A hook subscribes a handler; the bus has no way to take it back.          *)
Subscribe ==
  /\ Running
  /\ subscribed' = subscribed \union {list[next]}
  /\ UNCHANGED <<phase, unread, valid, issues, state, sorting, list, next,
                 hookFailed, ready>>

HooksSucceed ==
  /\ Running
  /\ Transition({list[next]}, "initialized", "initialize")
  /\ next' = next + 1
  /\ UNCHANGED <<unread, valid, issues, sorting, list, subscribed, hookFailed, ready>>

(* Variant: a failed hook ends the initialization.                           *)
HookFailureStopsBootstrap ==
  /\ Running
  /\ Transition({list[next]}, "failed", "initialize")
  /\ next' = Len(list) + 1
  /\ hookFailed' = hookFailed \union {list[next]}
  /\ UNCHANGED <<unread, valid, issues, sorting, list, subscribed, ready>>

(* Variant: the loop stays at the module that failed.                        *)
HookFailsAgain ==
  /\ Running
  /\ Transition({list[next]}, "failed", "initialize")
  /\ hookFailed' = hookFailed \union {list[next]}
  /\ UNCHANGED <<unread, valid, issues, sorting, list, next, subscribed, ready>>

(* One of them returns Err or throws; the other modules go on.               *)
HookFails ==
  /\ Running
  /\ Transition({list[next]}, "failed", "initialize")
  /\ next' = next + 1
  /\ hookFailed' = hookFailed \union {list[next]}
  /\ UNCHANGED <<unread, valid, issues, sorting, list, subscribed, ready>>

(* The entries of diagnostics.modules: what loaded, and as failed the other  *)
(* ids that a load issue could read.                                         *)
Snapshot ==
  /\ phase = "initialize" /\ next > Len(list)
  /\ ready' = /\ \A i \in LoadedIds : state[i] \in {"initialized", "disabled"}
              /\ issues \subseteq LoadedIds \union {NoId}
  /\ phase' = "done"
  /\ UNCHANGED <<unread, valid, issues, state, sorting, list, next, subscribed,
                 hookFailed>>

Proceed ==
  \/ Load \/ Validate \/ StartSort \/ SortNext \/ FinishSort
  \/ FailUnresolved \/ FailCycles \/ Register
  \/ HooksSucceed \/ HookFails \/ Snapshot

Next == Proceed \/ Subscribe

Spec == Init /\ [][Next]_vars

-----------------------------------------------------------------------------
(* Properties *)

TypeOK ==
  /\ phase \in Phases
  /\ LoadedIds \subseteq Ids
  /\ Len(valid) = Cardinality(LoadedIds)
  /\ issues \subseteq Ids \union {NoId}
  /\ state \in [Ids -> States]
  /\ ToSet(queue) \union ToSet(order) \union ToSet(list) \subseteq LoadedIds
  /\ next \in 1 .. Len(list) + 1
  /\ subscribed \union hookFailed \subseteq ToSet(list)
  /\ ready \in BOOLEAN

(* "The bootstrap as a whole does NOT throw": whatever the input and the     *)
(* hooks, no transition it asks of the lifecycle engine is refused.          *)
NeverThrows == phase # "thrown"

(* The modules whose hooks have run when those of list[i] start.              *)
Before(i) == {list[k] : k \in 1 .. i - 1}

(* "A provider is always ready before its consumers", for every module that  *)
(* neither is on a cycle nor depends on one: no such module's hooks run      *)
(* before those of a registered module it depends on.                        *)
ProvidersFirstOffCycles ==
  phase = "done" =>
    LET cyclic == OnCycle IN
    \A i \in 1 .. Len(list) :
      DependsOn(list[i]) \cap cyclic = {} =>
        Edges[list[i]] \cap ToSet(list) \subseteq Before(i)

(* Failure isolation: when bootstrap returns, a module has failed if and     *)
(* only if a requirement of it is unresolved, it is on a cycle or one of its *)
(* own hooks failed; every other loaded module is initialized.  Of those     *)
(* that failed, only the last kind can have subscribed to events.            *)
FailuresIsolated ==
  phase = "done" =>
    LET unstarted == Unresolved \union OnCycle IN
    /\ \A i \in LoadedIds :
         state[i] = IF i \in unstarted \union hookFailed
                    THEN "failed" ELSE "initialized"
    /\ subscribed \cap unstarted = {}
=============================================================================
