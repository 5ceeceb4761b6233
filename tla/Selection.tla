------------------------------- MODULE Selection -------------------------------
(***************************************************************************)
(* The elements of a sequence at some of its places, in their order: what  *)
(* a loop makes that appends some of what it ranges over.                  *)
(*                                                                         *)
(* SelectSeq selects by a predicate.  Here the places are a set, a value   *)
(* like any other, so that lemmas about a selection can be stated for all  *)
(* of them, and proved by induction.                                       *)
(***************************************************************************)
EXTENDS Integers, Sequences

Selected(s, places) ==
  LET upTo[n \in 0..Len(s)] ==
        IF n = 0 THEN << >> ELSE IF n \in places THEN Append(upTo[n - 1], s[n]) ELSE upTo[n - 1]
  IN  upTo[Len(s)]
===============================================================================
