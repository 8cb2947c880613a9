--------------------------- MODULE ProbeLifecycle ---------------------------
(***************************************************************************)
(* A probe run from the call that starts it to the release of its slot:    *)
(* appcore.Service.StartProbe (asynchronous, the runner is a goroutine)    *)
(* and Service.RunProbe (synchronous), executeProbe with its safe points,  *)
(* the terminal-event guard of PublishProbeEvent, and the user's pause,    *)
(* resume and cancel, which may come between any two steps.                *)
(*                                                                         *)
(* A run is one such call.  Runs that reach executeProbe hold probeMu.     *)
(* A context is cancelled in the step that takes it out of the runtime;    *)
(* ProbeRuntime is about the moment between the two.                       *)
(***************************************************************************)
EXTENDS ProbeControl, Integers, Sequences

CONSTANTS
    Runs,           \* calls of StartProbe and RunProbe
    NoRun,          \* nobody
    SyncRuns,       \* those that are calls of RunProbe
    TaskOf,         \* the task id each call is made with
    MaxSafePoints   \* bound: safe points passed in one phase of a run

ASSUME RunAssumption ==
    /\ NoRun \notin Runs
    /\ SyncRuns \subseteq Runs
    /\ TaskOf \in [Runs -> Tasks]
    /\ MaxSafePoints \in Nat

\* How the frontend, the scheduler and prepareProbePayload make task ids.  The
\* command interface does not enforce it: an id may be used again.
UniqueTaskIDs == \A r, s \in Runs : TaskOf[r] = TaskOf[s] => r = s

VARIABLES
    pc,              \* where each run is
    left,            \* safe points it still passes in its present phase
    runErr,          \* whether its runner returned an error
    probeMu,         \* the run inside executeProbe, or NoRun
    ended,           \* the runs whose context has been cancelled
    terminalEvents,  \* the tasks with a terminal event on record
    owner,           \* history: the run that holds the slot, or NoRun
    emitted,         \* history: the terminal events each run published
    promised,        \* history: the runs for which a cancel was accepted
    held             \* history: the runs with an accepted pause in force

runVars == <<pc, left, runErr, probeMu, ended>>
eventVars == <<terminalEvents, emitted>>
userVars == <<promised, held>>
vars == <<controlVars, runVars, eventVars, owner, userVars>>

\* The phases in which the runner works for a bounded number of safe points.
Phases == {"reading", "groups", "pushing"}

\* Inside executeProbe, before the run's terminal event.
Undecided == {"sources", "reading", "preprocess", "groups", "checkGroups",
              "pushWait", "pushing", "checkPush", "persistWait", "persisting",
              "checkPersist", "commitWait", "tryCommit"}

Ending == {"committed", "completing", "cancelOut", "failOut", "unlock"}

Locked == Undecided \cup Ending

PCs == {"new", "refused", "started", "accepted", "failing", "clearing",
        "done"}
         \cup Locked

TypeOK ==
    /\ ControlTypeOK
    /\ pc \in [Runs -> PCs]
    /\ left \in [Runs -> 0 .. MaxSafePoints]
    /\ runErr \in [Runs -> BOOLEAN]
    /\ probeMu \in Runs \cup {NoRun}
    /\ ended \subseteq Runs
    /\ terminalEvents \subseteq Tasks
    /\ owner \in Runs \cup {NoRun}
    /\ emitted \in [Runs -> Seq({"completed", "cancelled", "failed"})]
    /\ promised \subseteq Runs
    /\ held \subseteq Runs

Init ==
    /\ ControlInit
    /\ pc = [r \in Runs |-> "new"]
    /\ left = [r \in Runs |-> 0]
    /\ runErr = [r \in Runs |-> FALSE]
    /\ probeMu = NoRun
    /\ ended = {}
    /\ terminalEvents = {}
    /\ owner = NoRun
    /\ emitted = [r \in Runs |-> <<>>]
    /\ promised = {}
    /\ held = {}

-----------------------------------------------------------------------------
(* Pieces of a runner's step.                                              *)

GoTo(r, p) == pc' = [pc EXCEPT ![r] = p]

\* A step of the runner that touches nothing but its own position.
Move(r, from, to) ==
    /\ pc[r] = from
    /\ GoTo(r, to)
    /\ UNCHANGED <<controlVars, left, runErr, probeMu, ended, eventVars,
                   owner, userVars>>

\* A runner enters a phase; how many safe points it has there depends on
\* sources, candidates and providers.
EnterPhase(r, from, to) ==
    /\ pc[r] = from
    /\ GoTo(r, to)
    /\ \E n \in 0 .. MaxSafePoints : left' = [left EXCEPT ![r] = n]
    /\ UNCHANGED <<controlVars, runErr, probeMu, ended, eventVars, owner,
                   userVars>>

\* Mutant: a terminal event is published whatever went before.
PublishAlways(r, e) ==
    /\ terminalEvents' = terminalEvents \cup {TaskOf[r]}
    /\ emitted' = [emitted EXCEPT ![r] = Append(@, e)]

\* PublishProbeEvent of a terminal event: dropped if the task has one.
Publish(r, e) ==
    IF TaskOf[r] \in terminalEvents
    THEN UNCHANGED eventVars
    ELSE /\ terminalEvents' = terminalEvents \cup {TaskOf[r]}
         /\ emitted' = [emitted EXCEPT ![r] = Append(@, e)]

\* Mutant: Clear does not compare task ids.
ClearAny(r) ==
    IF currentTaskID # NoTask
    THEN /\ ClearRun(currentTaskID)
         /\ owner' = NoRun
         /\ ended' = ended \cup {owner}
    ELSE UNCHANGED <<controlVars, owner, ended>>

\* Clear(taskID): compares task ids, not runs, and cancels the context of the
\* run it finds.
Clear(r) ==
    IF currentTaskID = TaskOf[r]
    THEN /\ ClearRun(TaskOf[r])
         /\ owner' = NoRun
         /\ ended' = ended \cup {owner}
    ELSE UNCHANGED <<controlVars, owner, ended>>

\* Service.probeCancelled
ProbeCancelled(r) == r \in ended \/ IsCancelRequested(TaskOf[r])

-----------------------------------------------------------------------------
(* Starting.                                                               *)

\* runtime.Start succeeds.  A cancel queued for the task becomes a cancel of
\* this run.
Start(r) ==
    /\ pc[r] = "new"
    /\ StartRun(TaskOf[r])
    /\ GoTo(r, "started")
    /\ owner' = r
    /\ LET queued == IF pendingCancelTaskID = TaskOf[r] THEN {r} ELSE {}
       IN /\ ended' = ended \cup queued
          /\ promised' = promised \cup queued
    /\ UNCHANGED <<left, runErr, probeMu, eventVars, held>>

\* PROBE_ALREADY_RUNNING: StartProbe just answers, RunProbe also publishes a
\* failure for the task id it was called with.
Refuse(r) ==
    /\ pc[r] = "new"
    /\ currentTaskID # NoTask
    /\ runErr' = [runErr EXCEPT ![r] = r \in SyncRuns]
    /\ GoTo(r, IF r \in SyncRuns THEN "failing" ELSE "refused")
    /\ UNCHANGED <<controlVars, left, probeMu, ended, eventVars, owner,
                   userVars>>

\* resetProbeEventState and the accepted snapshot.
ResetEvents(r) ==
    /\ pc[r] = "started"
    /\ terminalEvents' = terminalEvents \ {TaskOf[r]}
    /\ GoTo(r, "accepted")
    /\ UNCHANGED <<controlVars, left, runErr, probeMu, ended, emitted, owner,
                   userVars>>

\* Mutant: executeProbe does not take probeMu.
LockNot(r) ==
    /\ pc[r] = "accepted"
    /\ probeMu' = r
    /\ GoTo(r, "sources")
    /\ UNCHANGED <<controlVars, left, runErr, ended, eventVars, owner,
                   userVars>>

Lock(r) ==
    /\ pc[r] = "accepted"
    /\ probeMu = NoRun
    /\ probeMu' = r
    /\ GoTo(r, "sources")
    /\ UNCHANGED <<controlVars, left, runErr, ended, eventVars, owner,
                   userVars>>

-----------------------------------------------------------------------------
(* executeProbe.                                                           *)

BeginSources(r) ==
    ~Paused(TaskOf[r]) /\ EnterPhase(r, "sources", "reading")

\* Mutant: the candidates left are not counted.
SafePointUncounted(r) ==
    /\ pc[r] \in Phases
    /\ ~Paused(TaskOf[r])
    /\ left' = [left EXCEPT ![r] = @ - 1]
    /\ UNCHANGED <<controlVars, pc, runErr, probeMu, ended, eventVars, owner,
                   userVars>>

\* A source, a candidate or a provider passes its safe point.
SafePoint(r) ==
    /\ pc[r] \in Phases
    /\ left[r] > 0
    /\ ~Paused(TaskOf[r])
    /\ left' = [left EXCEPT ![r] = @ - 1]
    /\ UNCHANGED <<controlVars, pc, runErr, probeMu, ended, eventVars, owner,
                   userVars>>

\* PrepareSources returns at once when the context is cancelled, even with
\* sources held at a safe point; else when every source is read.
ReadSources(r) ==
    \/ ProbeCancelled(r) /\ Move(r, "reading", "cancelOut")
    \/ /\ left[r] = 0
       /\ ~ProbeCancelled(r)
       /\ Move(r, "reading", "preprocess")

\* probe.preprocessed, then either a fatal source error or the port groups.
Preprocess(r) ==
    \/ Move(r, "preprocess", "failOut")
    \/ EnterPhase(r, "preprocess", "groups")

\* runProbePortGroups.  The engine looks for a cancel after each safe point,
\* so one that comes with a pause is seen only after the pause.  An error
\* other than the cancel may win over it.
RunGroups(r) ==
    /\ ~Paused(TaskOf[r])
    /\ \/ /\ ProbeCancelled(r)
          /\ Move(r, "groups", "cancelOut")
       \/ Move(r, "groups", "failOut")
       \/ /\ left[r] = 0
          /\ ~ProbeCancelled(r)
          /\ Move(r, "groups", "checkGroups")

\* if s.probeCancelled(ctx, taskID): the three checks of executeProbe.
CheckCancelled(r, from, to) ==
    IF ProbeCancelled(r)
    THEN Move(r, from, "cancelOut")
    ELSE Move(r, from, to)

CheckGroups(r) == CheckCancelled(r, "checkGroups", "pushWait")

BeginPush(r) ==
    ~Paused(TaskOf[r]) /\ EnterPhase(r, "pushWait", "pushing")

\* processPostProbePush: its checkpoints return early on a cancelled context,
\* and otherwise wait while paused.  Its errors are only warnings.
Push(r) ==
    /\ left[r] = 0 \/ ProbeCancelled(r)
    /\ Move(r, "pushing", "checkPush")

CheckPush(r) == CheckCancelled(r, "checkPush", "persistWait")

BeginPersist(r) ==
    ~Paused(TaskOf[r]) /\ Move(r, "persistWait", "persisting")

\* PersistCompletedProbe; an error is only a warning.
Persist(r) == Move(r, "persisting", "checkPersist")

CheckPersist(r) == CheckCancelled(r, "checkPersist", "commitWait")

BeginCommit(r) == ~Paused(TaskOf[r]) /\ Move(r, "commitWait", "tryCommit")

\* TryCommitCompletion: commit, go round the loop, or give up as cancelled.
TryCommit(r) ==
    \/ /\ pc[r] = "tryCommit"
       /\ CommitRun(TaskOf[r])
       /\ GoTo(r, "committed")
       /\ UNCHANGED <<left, runErr, probeMu, ended, eventVars, owner,
                       userVars>>
    \/ /\ CommitMustWait(TaskOf[r])
       /\ Move(r, "tryCommit",
               IF r \in ended THEN "cancelOut" ELSE "commitWait")
    \/ CommitRefused(TaskOf[r]) /\ Move(r, "tryCommit", "cancelOut")

\* The slot is given up before the completion is published.
Release(r) ==
    /\ pc[r] = "committed"
    /\ Clear(r)
    /\ GoTo(r, "completing")
    /\ UNCHANGED <<left, runErr, probeMu, eventVars, userVars>>

PublishCompleted(r) ==
    /\ pc[r] = "completing"
    /\ Publish(r, "completed")
    /\ GoTo(r, "unlock")
    /\ UNCHANGED <<controlVars, left, runErr, probeMu, ended, owner,
                   userVars>>

\* publishProbeCancelled and publishProbeFailure, and return with an error.
PublishAndFail(r, from, e) ==
    /\ pc[r] = from
    /\ Publish(r, e)
    /\ runErr' = [runErr EXCEPT ![r] = TRUE]
    /\ GoTo(r, "unlock")
    /\ UNCHANGED <<controlVars, left, probeMu, ended, owner, userVars>>

PublishCancelled(r) == PublishAndFail(r, "cancelOut", "cancelled")

PublishFailure(r) == PublishAndFail(r, "failOut", "failed")

\* The runner goroutine panics where it does work that may; the deferred
\* calls unlock probeMu and turn the panic into an error.
Panic(r) ==
    /\ pc[r] \in Phases \cup {"preprocess", "persisting"}
    /\ runErr' = [runErr EXCEPT ![r] = TRUE]
    /\ GoTo(r, "unlock")
    /\ UNCHANGED <<controlVars, left, probeMu, ended, eventVars, owner,
                   userVars>>

-----------------------------------------------------------------------------
(* Back in runProbeWithRunner and startProbeWithRunner.                    *)

\* Mutant: probeMu is released on the way out of a completed run only.
UnlockCompleted(r) ==
    /\ pc[r] = "unlock"
    /\ probeMu' = IF runErr[r] THEN probeMu ELSE NoRun
    /\ GoTo(r, IF runErr[r] /\ r \notin SyncRuns
               THEN "failing" ELSE "clearing")
    /\ UNCHANGED <<controlVars, left, runErr, ended, eventVars, owner,
                   userVars>>

\* StartProbe's goroutine publishes the failure, then clears the slot;
\* RunProbe clears it first.
Unlock(r) ==
    /\ pc[r] = "unlock"
    /\ probeMu' = NoRun
    /\ GoTo(r, IF runErr[r] /\ r \notin SyncRuns
               THEN "failing" ELSE "clearing")
    /\ UNCHANGED <<controlVars, left, runErr, ended, eventVars, owner,
                   userVars>>

ReportError(r) ==
    /\ pc[r] = "failing"
    /\ Publish(r, "failed")
    /\ GoTo(r, IF r \in SyncRuns THEN "done" ELSE "clearing")
    /\ UNCHANGED <<controlVars, left, runErr, probeMu, ended, owner,
                   userVars>>

ClearSlot(r) ==
    /\ pc[r] = "clearing"
    /\ Clear(r)
    /\ GoTo(r, IF runErr[r] /\ r \in SyncRuns THEN "failing" ELSE "done")
    /\ UNCHANGED <<left, runErr, probeMu, eventVars, userVars>>

-----------------------------------------------------------------------------
(* The user.  The events these publish are not terminal.                   *)

PauseProbe(t) ==
    /\ PauseRun(t)
    /\ held' = held \cup {owner}
    /\ UNCHANGED <<runVars, eventVars, owner, promised>>

ResumeProbe(t) ==
    /\ ResumeRun(t)
    /\ held' = held \ {owner}
    /\ UNCHANGED <<runVars, eventVars, owner, promised>>

CancelProbe(t) ==
    /\ CancelRun(t)
    /\ ended' = ended \cup {owner}
    /\ promised' = promised \cup {owner}
    /\ held' = held \ {owner}
    /\ UNCHANGED <<pc, left, runErr, probeMu, eventVars, owner>>

QueueCancel(t) ==
    /\ QueueCancelRun(t)
    /\ UNCHANGED <<runVars, eventVars, owner, userVars>>

UserNext ==
    \E t \in Tasks :
      PauseProbe(t) \/ ResumeProbe(t) \/ CancelProbe(t) \/ QueueCancel(t)

RunnerNext(r) ==
    \/ ResetEvents(r)
    \/ Lock(r)
    \/ BeginSources(r)
    \/ SafePoint(r)
    \/ ReadSources(r)
    \/ Preprocess(r)
    \/ RunGroups(r)
    \/ CheckGroups(r)
    \/ BeginPush(r)
    \/ Push(r)
    \/ CheckPush(r)
    \/ BeginPersist(r)
    \/ Persist(r)
    \/ CheckPersist(r)
    \/ BeginCommit(r)
    \/ TryCommit(r)
    \/ Release(r)
    \/ PublishCompleted(r)
    \/ PublishCancelled(r)
    \/ PublishFailure(r)
    \/ Unlock(r)
    \/ ReportError(r)
    \/ ClearSlot(r)

Next ==
    \/ \E r \in Runs : Start(r) \/ Refuse(r) \/ Panic(r) \/ RunnerNext(r)
    \/ UserNext

\* A run that was started goes on, wherever nothing holds it.  The user and
\* the callers owe nothing.
Fairness == \A r \in Runs : WF_vars(RunnerNext(r))

Spec == Init /\ [][Next]_vars /\ Fairness

-----------------------------------------------------------------------------
(* Properties.  The first six are of runs with UniqueTaskIDs.              *)

\* From Start until the slot is given up, a run is the one that holds it: no
\* other run's Clear, which is keyed by task id and called twice, frees it
\* (probe_service.go:190, task_service.go:62, 86; probe_runtime.go:95).
HoldsSlot(r) ==
    pc[r] \in Undecided \cup {"started", "accepted", "committed",
                              "cancelOut", "failOut"}

RunHoldsSlot ==
    \A r \in Runs : HoldsSlot(r) => currentTaskID = TaskOf[r] /\ owner = r

\* executeProbe never runs twice at the same time, though the slot is free
\* before a completed run has published and unlocked
\* (probe_service.go:106, 190-191).
OneInsideExecute ==
    \A r \in Runs : pc[r] \in Locked => probeMu = r

\* An accepted run is over only after exactly one terminal event, whichever
\* of executeProbe, the panic handler and RunProbe published it
\* (service.go:209-216; probe_service.go:45-47; task_service.go:87-108).
ExactlyOneEnd == \A r \in Runs : pc[r] = "done" => Len(emitted[r]) = 1

\* The detailed run implements the contract of ProbeContract.
Contract == INSTANCE ProbeContract WITH fate <- emitted

ImplementsContract == Contract!Spec

\* A run that was started ends, unless the user keeps pausing it: every exit
\* of executeProbe, a panic included, leads to the release of the slot.
RunsEnd ==
    \A r \in Runs :
      (<>[]~Paused(TaskOf[r]))
        => (pc[r] = "started" ~> pc[r] = "done" /\ Len(emitted[r]) = 1)

\* docs/reference/limits-and-code-location.md:11: a cancel ends up as the
\* terminal event of the run it was accepted for, if the user at some point
\* stops pausing and resuming it.
CancelLeadsToEnd ==
    \A r \in Runs :
      (<>[](r \in held) \/ <>[](r \notin held))
        => (r \in promised ~> emitted[r] # <<>>)

\* docs/reference/capabilities-and-flows.md:138: executeProbe does not publish
\* a failure for a run whose cancel was accepted.
CancelledRunNeverFails ==
    [][\A r \in Runs :
         r \in promised /\ pc[r] = "failOut"
           => emitted'[r] # <<"failed">>]_vars

\* docs/reference/api-contracts.md:257: probe.cancelled is the end of a run
\* that the user cancelled.
CancelledOnlyByUser ==
    \A r \in Runs : emitted[r] = <<"cancelled">> => r \in promised
=============================================================================
