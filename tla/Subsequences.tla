---------------------------- MODULE Subsequences ----------------------------
(***************************************************************************)
(* What a filter keeps of a sequence: SelectSeq by the positions that pass *)
(* instead of a test, in a form that can be reasoned about.                *)
(***************************************************************************)
EXTENDS Naturals, Sequences

(* The elements of s at the positions in I, in their order. *)
Kept(s, I) ==
    LET upTo[n \in 0 .. Len(s)] ==
          IF n = 0 THEN << >>
          ELSE IF n \in I THEN Append(upTo[n - 1], s[n])
          ELSE upTo[n - 1]
    IN upTo[Len(s)]
=============================================================================
