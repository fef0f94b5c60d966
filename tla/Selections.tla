----------------------------- MODULE Selections -----------------------------
(***************************************************************************)
(* What Vec::retain and Iterator::filter keep of a sequence.  (SelectSeq   *)
(* says the same; the provers can unfold this one.)                        *)
(***************************************************************************)
EXTENDS Naturals, Sequences

\* The elements of s that are in good, in their order.
Selected(s, good) ==
  LET from[i \in 0..Len(s)] ==
        IF i = 0 THEN <<>> ELSE IF s[i] \in good THEN Append(from[i - 1], s[i]) ELSE from[i - 1]
  IN  from[Len(s)]
=============================================================================
