-------------------------- MODULE MCOutboxPublisher --------------------------
(***************************************************************************)
(* Instances of OutboxPublisher for TLC, with the patterns and types of    *)
(* the comment in matcher.ts: event 2 goes to one handler, the others to   *)
(* both.                                                                   *)
(***************************************************************************)
EXTENDS OutboxPublisher

CONSTANTS p1, p2

Patterns == <<<<"warehouse", "stock", "*">>, <<"warehouse", "**">>>>
Types == [e \in Events |-> <<"warehouse", "stock", "received">> \o
                            IF e = 2 THEN <<"cancelled">> ELSE <<>>]

(* The matcher does what its comment says, for all patterns and types of up *)
(* to three segments, misplaced and lone wildcards included.                *)
Sequences3(S) == UNION {[1 .. n -> S] : n \in 0 .. 3}

ASSUME MatcherAsDescribed ==
  \A pattern \in Sequences3({"a", "b", "*", "**"}), type \in Sequences3({"a", "b"}) :
    Matches(pattern, type) = Describes(pattern, type)
=============================================================================
