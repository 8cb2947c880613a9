--------------------------- MODULE ProbeContract ----------------------------
(***************************************************************************)
(* What a probe run promises to whoever watches its events and controls it *)
(* (docs/dev/behavior-baseline.md, docs/reference/api-contracts.md):       *)
(* it ends at most once; it does not end as completed after a cancel was   *)
(* accepted nor while an accepted pause is in force; it ends as cancelled  *)
(* only if a cancel was accepted; and once it has ended as completed no    *)
(* cancel and no pause is accepted any more.                               *)
(***************************************************************************)
EXTENDS Sequences

CONSTANT Runs

VARIABLES
    fate,      \* the terminal events published for each run
    promised,  \* the runs for which a cancel was accepted
    held       \* the runs with an accepted pause that was not taken back

vars == <<fate, promised, held>>

TerminalEvents == {"completed", "cancelled", "failed"}

Init ==
    /\ fate = [r \in Runs |-> <<>>]
    /\ promised = {}
    /\ held = {}

\* A cancel is accepted: it is never taken back, and it lifts a pause.
Promise(r) ==
    /\ fate[r] # <<"completed">>
    /\ promised' = promised \cup {r}
    /\ held' = held \ {r}
    /\ UNCHANGED fate

Hold(r) ==
    /\ fate[r] # <<"completed">>
    /\ held' = held \cup {r}
    /\ UNCHANGED <<fate, promised>>

Release(r) ==
    /\ held' = held \ {r}
    /\ UNCHANGED <<fate, promised>>

End(r, e) ==
    /\ fate[r] = <<>>
    /\ e = "completed" => r \notin promised \cup held
    /\ e = "cancelled" => r \in promised
    /\ fate' = [fate EXCEPT ![r] = <<e>>]
    /\ UNCHANGED <<promised, held>>

Next ==
    \E r \in Runs :
      \/ Promise(r)
      \/ Hold(r)
      \/ Release(r)
      \/ \E e \in TerminalEvents : End(r, e)

Spec == Init /\ [][Next]_vars
=============================================================================
