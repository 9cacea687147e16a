---------------------------- MODULE MCRuntimeHost ----------------------------
(***************************************************************************)
(* Instances of RuntimeHost for TLC: what may be shipped, and what a run   *)
(* may be started with.                                                    *)
(***************************************************************************)
EXTENDS RuntimeHost

CONSTANTS a, b, c, d, shared, A, B

(* Shipped as the input'th module of a deployment, from a directory of its   *)
(* own, with nothing else wrong than what m says.                            *)
Plain ==
  [provides |-> {}, optional |-> {}, requires |-> {}, flaws |-> {},
   supported |-> TRUE, platform |-> FALSE, permissions |-> <<>>,
   permissionConstants |-> {}, events |-> <<>>, eventConstants |-> {}]

Shipped(input) ==
  [k \in DOMAIN input |->
     LET m == input[k] @@ Plain IN
     m @@ [loads |-> ManifestSchema(m) /\ m.supported,
           segment |-> m.id, dir |-> k, package |-> k, namespace |-> k]]

Module(i, requires) ==
  [id |-> i, provides |-> {i},
   requires |-> {[key |-> k, accepts |-> Ids] : k \in requires}]

(* Every graph over a, b, c: each provides a key of its own and requires any *)
(* of the three.                                                             *)
Graphs == {<<Module(a, x), Module(b, y), Module(c, z)>> :
             x \in SUBSET {a, b, c}, y \in SUBSET {a, b, c}, z \in SUBSET {a, b, c}}

(* Every graph without self-requirements over four modules in which the      *)
(* first and the last depend on each other: everything around a cycle.       *)
AroundCycle ==
  {<<Module(d, {c} \union w), Module(a, x), Module(b, y), Module(c, {d} \union z)>> :
     w \in SUBSET {a, b}, x \in SUBSET {b, c}, y \in SUBSET {a, d}, z \in SUBSET {a}}

(* A consumer that depends on a module that depends on a cycle, given before *)
(* it.                                                                       *)
BehindCycle == {<<Module(a, {b}), Module(b, {c}), Module(c, {d}), Module(d, {c})>>}

(* Two modules that may share a key, under provides, provides_optional or    *)
(* both, and a consumer whose range takes one or both of them.               *)
Sharing(i, p, o) ==
  [id |-> i, provides |-> IF p THEN {shared} ELSE {},
   optional |-> IF o THEN {shared} ELSE {}]

Consumer(ids) == [id |-> c, requires |-> {[key |-> shared, accepts |-> ids]}]

Ambiguous ==
  {<<Consumer(ids), Sharing(a, p, o), Sharing(b, q, r)>> :
     ids \in SUBSET {a, b}, p, o, q, r \in BOOLEAN}

(* Candidates that do not load, without an id or with one, duplicates, and   *)
(* modules that are unresolved (nobody provides c), on a cycle, or both.     *)
Rejected ==
  {<<x, y, z>> : x, y, z \in {Module(a, {}), Module(a, {b}), Module(a, {b, c}),
                              Module(b, {}), Module(b, {a}),
                              [id |-> a, flaws |-> {"metadata"}],
                              [id |-> NoId, flaws |-> {"identity"}]}}

(* A provider and its consumer with events and permissions, well made but    *)
(* for one thing.                                                            *)
Happens(i) == [owner |-> i, name |-> "happened"]
Complete(i, requires) ==
  Module(i, requires) @@
  [events |-> <<Happens(i)>>, eventConstants |-> {Happens(i)},
   permissions |-> <<i>>, permissionConstants |-> {i}]

Edits ==
       {[flaws |-> {f}] : f \in SchemaFormats \union OtherFormats \union Files}
  \union {[supported |-> FALSE], [dir |-> NoSlug], [package |-> 1], [namespace |-> 1],
          [id |-> a], [segment |-> a], [provides |-> {a, b}], [optional |-> {b}]}
  \union {[events |-> e, eventConstants |-> t] :
            e \in {<<Happens(b)>>, <<Happens(a)>>, <<Happens(b), Happens(b)>>},
            t \in {{Happens(b)}, {Happens(a)}, {}}}
  \union {[events |-> <<Happens(a)>>, eventConstants |-> {Happens(a)}, segment |-> a]}
  \union {[permissions |-> p] : p \in {<<a>>, <<b, b>>, <<>>}}

Made == {<<Complete(a, {}), e @@ Complete(b, {a})>> : e \in Edits}

(* A provider and its consumer; one that needs a platform capability; one    *)
(* whose provider does not load.                                             *)
Pair == Shipped(<<Module(a, {}), Module(b, {a})>>)
Pairs ==
  {Pair} \union
  {Shipped(input) : input \in
     {<<Module(a, {}), Module(b, {a}) @@ [platform |-> TRUE]>>,
      <<Module(b, {a}), [supported |-> FALSE] @@ Module(a, {})>>}}

AllInputs ==
  Pairs \union
  {Shipped(input) : input \in
     Graphs \union AroundCycle \union BehindCycle \union Ambiguous \union Rejected \union Made}

-----------------------------------------------------------------------------
(* Companies whose rows have nothing, a provider, its consumer, both, an     *)
(* unknown module, and a contradiction.                                      *)
ActiveIn(S) == [i \in Ids |-> IF i \in S THEN "active" ELSE "absent"]
SomeRows ==
  {ActiveIn(S) : S \in {{}, {a}, {b}, {a, b}, {d}}}
    \union {[ActiveIn({b}) EXCEPT ![a] = "inconsistent"]}
SameRows == {[k \in Companies |-> r] : r \in SomeRows}
NoRows == [k \in Companies |-> ActiveIn({})]

Lines ==
  {<<>>, <<"--help", "--hydrate">>, <<"--hydrate", "--no-hydrate">>,
   <<"--no-hydrate", "--json", "--hydrate", "--fail-on-degraded">>, <<"--force">>,
   <<"--hydrate", "--pretty">>}

AllLaunches ==
       {[input |-> input, argv |-> <<"--fail-on-degraded">>, url |-> "missing",
         rows |-> NoRows] : input \in AllInputs}
  \union {[input |-> input, argv |-> <<"--hydrate", "--fail-on-degraded">>,
           url |-> "valid", rows |-> r] : input \in Pairs, r \in SameRows}
  \union {[input |-> Pair, argv |-> <<"--hydrate", "--fail-on-degraded">>,
           url |-> "valid", rows |-> r] : r \in [Companies -> SomeRows]}
  \union {[input |-> Pair, argv |-> v, url |-> u, rows |-> [k \in Companies |-> ActiveIn({b})]] :
           v \in Lines, u \in {"missing", "malformed", "valid"}}

-----------------------------------------------------------------------------
(* tarjanSCC finds the cycles that OnCycle of Bootstrap stands for: on every *)
(* graph of three modules, whatever the order of the requirements, and on    *)
(* every graph of four whose modules do not require themselves.              *)
Tarjan == INSTANCE CycleDetection

Orders(S) == UNION {Tarjan!SetToSeqs(T) : T \in SUBSET S}
OneOrder(S) == {Tarjan!SetToSeq(T) : T \in SUBSET S}

ThreeModules == [1 .. 3 -> Orders(1 .. 3)]
FourModules ==
  {e \in [1 .. 4 -> OneOrder(1 .. 4)] : \A v \in 1 .. 4 : v \notin ToSet(e[v])}

ASSUME TarjanFindsCycles ==
  /\ \A e \in ThreeModules :
       Tarjan!tarjanSCC(<<1, 2, 3>>, e) = Tarjan!Cycles(<<1, 2, 3>>, e)
  /\ \A e \in FourModules :
       Tarjan!tarjanSCC(<<1, 2, 3, 4>>, e) = Tarjan!Cycles(<<1, 2, 3, 4>>, e)
=============================================================================
