---------------------------- MODULE ProbeControl ----------------------------
(***************************************************************************)
(* The control block of appcore.ProbeRuntime: which task holds the one     *)
(* probe slot of a Service, and which of pause, cancel and completion is   *)
(* in force for it.  Every operator below is one critical section of       *)
(* probe_runtime.go under r.mu and is TRUE of a step exactly when that     *)
(* method takes the branch it names.  ProbeRuntime and ProbeLifecycle      *)
(* extend this module, each with the goroutines it is about.               *)
(***************************************************************************)

CONSTANTS
    Tasks,    \* the task ids callers may name
    NoTask    \* the empty task id

ASSUME NoTaskAssumption == NoTask \notin Tasks

VARIABLES
    currentTaskID,        \* the task holding the slot, or NoTask
    pausedTaskID,         \* the task a pause was requested for, or NoTask
    pauseRequested,
    cancelRequested,
    pendingCancelTaskID,  \* a cancel that came before its task was started
    terminalCommitted     \* the run has committed to completing

controlVars == <<currentTaskID, pausedTaskID, pauseRequested,
                 cancelRequested, pendingCancelTaskID, terminalCommitted>>

ControlTypeOK ==
    /\ currentTaskID \in Tasks \cup {NoTask}
    /\ pausedTaskID \in Tasks \cup {NoTask}
    /\ pauseRequested \in BOOLEAN
    /\ cancelRequested \in BOOLEAN
    /\ pendingCancelTaskID \in Tasks \cup {NoTask}
    /\ terminalCommitted \in BOOLEAN

ControlInit ==
    /\ currentTaskID = NoTask
    /\ pausedTaskID = NoTask
    /\ pauseRequested = FALSE
    /\ cancelRequested = FALSE
    /\ pendingCancelTaskID = NoTask
    /\ terminalCommitted = FALSE

-----------------------------------------------------------------------------

\* The condition WaitWhilePaused loops on.
Paused(t) == currentTaskID = t /\ pauseRequested /\ pausedTaskID = t

IsCancelRequested(t) == currentTaskID = t /\ cancelRequested

\* Start, the slot being free.  A queued cancel for t is consumed here.
StartRun(t) ==
    /\ currentTaskID = NoTask
    /\ currentTaskID' = t
    /\ pausedTaskID' = NoTask
    /\ pauseRequested' = FALSE
    /\ cancelRequested' = (pendingCancelTaskID = t)
    /\ pendingCancelTaskID' = IF pendingCancelTaskID = t
                              THEN NoTask ELSE pendingCancelTaskID
    /\ terminalCommitted' = FALSE

\* QueueCancel: one slot, so a second cancel replaces a first one.
QueueCancelRun(t) ==
    /\ currentTaskID = NoTask
    /\ pendingCancelTaskID' = t
    /\ UNCHANGED <<currentTaskID, pausedTaskID, pauseRequested,
                   cancelRequested, terminalCommitted>>

\* Clear, t holding the slot.  For any other task Clear does nothing.
ClearRun(t) ==
    /\ currentTaskID = t
    /\ currentTaskID' = NoTask
    /\ pausedTaskID' = NoTask
    /\ pauseRequested' = FALSE
    /\ cancelRequested' = FALSE
    /\ terminalCommitted' = FALSE
    /\ UNCHANGED pendingCancelTaskID

\* Mutant: a pause is accepted after the commit.
CanPauseAnyTime(t) == currentTaskID = t

\* Pause accepts a task that holds the slot and has not committed; it does
\* not look at cancelRequested.
CanPause(t) == currentTaskID = t /\ ~terminalCommitted

PauseRun(t) ==
    /\ CanPause(t)
    /\ pauseRequested' = TRUE
    /\ pausedTaskID' = t
    /\ UNCHANGED <<currentTaskID, cancelRequested, pendingCancelTaskID,
                   terminalCommitted>>

\* Mutant: a resume makes the run go on as if nothing had been asked of it.
ResumeRunAfresh(t) ==
    /\ pausedTaskID = t
    /\ pauseRequested
    /\ pauseRequested' = FALSE
    /\ pausedTaskID' = NoTask
    /\ cancelRequested' = FALSE
    /\ UNCHANGED <<currentTaskID, pendingCancelTaskID, terminalCommitted>>

ResumeRun(t) ==
    /\ pausedTaskID = t
    /\ pauseRequested
    /\ pauseRequested' = FALSE
    /\ pausedTaskID' = NoTask
    /\ UNCHANGED <<currentTaskID, cancelRequested, pendingCancelTaskID,
                   terminalCommitted>>

CanCancel(t) == currentTaskID = t /\ ~terminalCommitted

\* Cancel also lifts a pause, so that a paused run can see it.
CancelRun(t) ==
    /\ CanCancel(t)
    /\ cancelRequested' = TRUE
    /\ pauseRequested' = FALSE
    /\ pausedTaskID' = NoTask
    /\ UNCHANGED <<currentTaskID, pendingCancelTaskID, terminalCommitted>>

\* Mutant: the commit does not look at the cancel.
CanCommitDespiteCancel(t) ==
    /\ currentTaskID = t
    /\ ~Paused(t)
    /\ ~terminalCommitted

\* TryCommitCompletion: the branch that commits, the one that asks the caller
\* to wait for a resume and try again, and the one that tells it to cancel
\* (a commit made before is reported like a lost slot, with active = false).
CanCommit(t) ==
    /\ currentTaskID = t
    /\ ~cancelRequested
    /\ ~Paused(t)
    /\ ~terminalCommitted

CommitRun(t) ==
    /\ CanCommit(t)
    /\ terminalCommitted' = TRUE
    /\ UNCHANGED <<currentTaskID, pausedTaskID, pauseRequested,
                   cancelRequested, pendingCancelTaskID>>

CommitMustWait(t) ==
    /\ currentTaskID = t
    /\ ~cancelRequested
    /\ Paused(t)

CommitRefused(t) ==
    \/ currentTaskID # t
    \/ cancelRequested
    \/ ~Paused(t) /\ terminalCommitted
=============================================================================
