------------------------------ MODULE BestOfN ------------------------------
(***************************************************************************)
(* What the result collector of the sampling search promises: of all the   *)
(* results offered, it keeps the best one of each of the N best networks.  *)
(***************************************************************************)
EXTENDS Integers, FiniteSets

CONSTANTS N, Nets, Scores   \* Scores: positive numbers, Nets: a finite set

VARIABLES best,   \* the best score offered for each network, Unoffered if none was
          kept    \* the networks kept

Unoffered == 0

\* A legal choice of the networks kept for the scores b: as many as fit, and
\* none left out that is better than one kept.
Right(b, s) ==
  LET known == {k \in Nets : b[k] # Unoffered}
  IN  /\ s \subseteq known
      /\ Cardinality(s) = IF Cardinality(known) < N THEN Cardinality(known) ELSE N
      /\ \A k \in s, l \in known \ s : b[k] <= b[l]

Init == best = [k \in Nets |-> Unoffered] /\ kept = {}

\* A result is offered.
Offer(k, ms) ==
  /\ best' = [best EXCEPT ![k] = IF @ = Unoffered \/ ms < @ THEN ms ELSE @]
  /\ kept' \in {s \in SUBSET Nets : Right(best', s)}

Next == \E k \in Nets, ms \in Scores : Offer(k, ms)

Spec == Init /\ [][Next]_<<best, kept>>
=============================================================================
