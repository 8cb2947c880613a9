---------------------------- MODULE MCTaskStore -----------------------------
(***************************************************************************)
(* Small instances of TaskStore: one reader and one input source beside    *)
(* the runner and the user.  The cfg gives the bounds.                     *)
(***************************************************************************)
EXTENDS TaskStore, TLC
=============================================================================
