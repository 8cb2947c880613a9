-------------------------- MODULE MCProbeLifecycle --------------------------
(***************************************************************************)
(* Small instances of ProbeLifecycle: a call of StartProbe and one of      *)
(* RunProbe, each with a task id of its own; and two calls with one id.    *)
(***************************************************************************)
EXTENDS ProbeLifecycle, TLC

CONSTANTS r1, r2, a, b

OwnTask == r1 :> a @@ r2 :> b

SharedTask == r1 :> a @@ r2 :> a

ASSUME OwnTaskIsUnique ==
    TaskOf \in {OwnTask, SharedTask} /\ (TaskOf = OwnTask => UniqueTaskIDs)
=============================================================================
