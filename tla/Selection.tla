------------------------------ MODULE Selection ------------------------------
(***************************************************************************)
(* What a retain or a filter keeps of a list.                              *)
(***************************************************************************)
EXTENDS Naturals, Sequences

\* The elements of a sequence that lie in a set, in their order.
SelectIn(s, S) ==
  LET kept[i \in 0..Len(s)] ==
        IF i = 0 THEN << >>
        ELSE IF s[i] \in S THEN Append(kept[i - 1], s[i]) ELSE kept[i - 1]
  IN kept[Len(s)]
=============================================================================
