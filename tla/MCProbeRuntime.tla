--------------------------- MODULE MCProbeRuntime ---------------------------
(***************************************************************************)
(* Small instances of ProbeRuntime.  Callers and workers are               *)
(* interchangeable, and so are task ids.                                   *)
(***************************************************************************)
EXTENDS ProbeRuntime, TLC

Symmetry ==
    Permutations(Callers) \cup Permutations(Workers) \cup Permutations(Tasks)
=============================================================================
