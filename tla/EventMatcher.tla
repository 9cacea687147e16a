---------------------------- MODULE EventMatcher ----------------------------
(***************************************************************************)
(* The pattern matcher of the event bus, packages/core/src/events/         *)
(* matcher.ts.  A pattern and a type are sequences of segments.            *)
(***************************************************************************)
EXTENDS Naturals, Sequences

Takes(segment, name) == segment = "*" \/ segment = name

(* matchSegments compares from the left until one of the two is used up; the *)
(* first "**" and the first segment that differs end it.                     *)
Matches(pattern, type) ==
  LET last == Len(pattern)
      ends == {i \in 1 .. last :
                 /\ i <= Len(type)
                 /\ pattern[i] = "**" \/ ~Takes(pattern[i], type[i])}
  IN  IF ends = {} THEN last = Len(type)
      ELSE pattern[last] = "**" /\ last \in ends /\ \A i \in ends : last <= i

(* What the comment of matcher.ts says: "*" stands for one segment, "**" at  *)
(* the end for one or more.                                                  *)
Describes(pattern, type) ==
  LET last == Len(pattern)
      trailing == last > 0 /\ pattern[last] = "**"
      exact == IF trailing THEN last - 1 ELSE last
  IN  /\ IF trailing THEN Len(type) >= last ELSE Len(type) = last
      /\ \A i \in 1 .. exact : pattern[i] # "**" /\ Takes(pattern[i], type[i])
=============================================================================
