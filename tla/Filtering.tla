------------------------------ MODULE Filtering ------------------------------
(***************************************************************************)
(* The loops of the code that copy what passes a test from one slice into  *)
(* another.  SelectSeq means the same, but is unknown to the provers.      *)
(***************************************************************************)
EXTENDS Naturals, Sequences

\* The elements of s that are in S, in their order.
OnlyIn(s, S) ==
    LET upTo[n \in 0 .. Len(s)] ==
          IF n = 0 THEN <<>>
          ELSE IF s[n] \in S THEN Append(upTo[n - 1], s[n]) ELSE upTo[n - 1]
    IN  upTo[Len(s)]
=============================================================================
