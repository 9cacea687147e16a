---------------------------- MODULE CycleDetection ----------------------------
(***************************************************************************)
(* tarjanSCC of packages/core: the algorithm itself.  Bootstrap takes its   *)
(* result by what it is, the modules that depend on themselves; an          *)
(* assumption of MCRuntimeHost compares both on all small graphs.           *)
(***************************************************************************)
EXTENDS Naturals, SequencesExt

(* s: the maps indices and lowlink (whose domain are the nodes visited), the *)
(* stack and the components found.  edges[v] lists what v depends on, in the *)
(* order of its requirements, and may name a node twice.                     *)
Unvisited == [indices |-> <<>>, lowlink |-> <<>>, stack |-> <<>>, sccs |-> <<>>]

Lower(s, v, n) == [s EXCEPT !.lowlink[v] = IF n < @ THEN n ELSE @]

Enter(s, v) ==
  LET index == v :> Cardinality(DOMAIN s.indices) IN
  [s EXCEPT !.indices = @ @@ index, !.lowlink = @ @@ index, !.stack = Append(@, v)]

(* v is the root of a component: the stack from v on.                        *)
Pop(s, v) ==
  LET root == CHOOSE k \in DOMAIN s.stack : s.stack[k] = v IN
  [s EXCEPT !.stack = SubSeq(@, 1, root - 1),
            !.sccs = Append(@, ToSet(SubSeq(s.stack, root, Len(s.stack))))]

RECURSIVE strongconnect(_, _, _)
strongconnect(s, v, edges) ==
  LET Follow(t, w) ==
        IF w \notin DOMAIN t.indices
        THEN LET u == strongconnect(t, w, edges) IN Lower(u, v, u.lowlink[w])
        ELSE IF w \in ToSet(t.stack) THEN Lower(t, v, t.indices[w])
        ELSE t
      left == FoldLeft(Follow, Enter(s, v), edges[v])
  IN  IF left.lowlink[v] = left.indices[v] THEN Pop(left, v) ELSE left

(* The components of more than one node, or with a self-edge.                *)
tarjanSCC(ids, edges) ==
  LET Visit(s, v) == IF v \in DOMAIN s.indices THEN s ELSE strongconnect(s, v, edges)
      sccs == ToSet(FoldLeft(Visit, Unvisited, ids).sccs)
  IN  {c \in sccs : Cardinality(c) > 1 \/ \E v \in c : v \in ToSet(edges[v])}

-----------------------------------------------------------------------------
(* The reference: what v depends on, directly or not, is in every set that   *)
(* has what v depends on and is closed.                                      *)
Reached(ids, edges, v) ==
  LET closed == {S \in SUBSET ToSet(ids) :
                   ToSet(edges[v]) \subseteq S /\ \A k \in S : ToSet(edges[k]) \subseteq S}
  IN  {j \in ToSet(ids) : \A S \in closed : j \in S}

Cycles(ids, edges) ==
  LET reached == [v \in ToSet(ids) |-> Reached(ids, edges, v)]
      component == [v \in ToSet(ids) |-> {w \in reached[v] : v \in reached[w]}]
  IN  {component[v] : v \in {w \in ToSet(ids) : w \in reached[w]}}
=============================================================================
