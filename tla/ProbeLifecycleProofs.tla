------------------------ MODULE ProbeLifecycleProofs ------------------------
(***************************************************************************)
(* Proofs about ProbeLifecycle, for any calls of StartProbe and RunProbe,  *)
(* any task ids and any number of safe points.  The types, the ownership   *)
(* of the slot and the lock of executeProbe need nothing else; the rest is *)
(* of calls with task ids of their own (UniqueTaskIDs), without which it   *)
(* is false.                                                               *)
(***************************************************************************)
EXTENDS ProbeLifecycle, TLAPS

-----------------------------------------------------------------------------
(* The inductive invariants.                                               *)

\* The history variable owner tells whose run holds the slot.
OwnerOK ==
    /\ owner = NoRun <=> currentTaskID = NoTask
    /\ owner # NoRun => currentTaskID = TaskOf[owner]

\* A run at work owns the slot, and gives it up for good.
SlotKept ==
    \A r \in Runs :
      /\ HoldsSlot(r) => owner = r
      /\ owner = r => pc[r] \notin {"new", "refused", "completing", "done"}
      /\ owner = r /\ pc[r] = "failing" => r \notin SyncRuns

\* What the runtime remembers was asked of its run is what was asked of it.
RequestsKept ==
    /\ cancelRequested <=> owner \in promised
    /\ owner \in held => pauseRequested /\ pausedTaskID = TaskOf[owner]
    /\ terminalCommitted => owner \in Runs /\ pc[owner] = "committed"

\* A run is cancelled because somebody asked for it, and completes because
\* nobody asked it to stop.
ReasonsKept ==
    \A r \in Runs :
      /\ pc[r] = "new" => r \notin promised \cup held \cup ended
      /\ HoldsSlot(r) /\ r \in ended => r \in promised
      /\ pc[r] = "cancelOut" => r \in promised
      /\ pc[r] = "committed" => terminalCommitted
      /\ pc[r] \in {"committed", "completing"} => r \notin promised \cup held

\* Where a run has not published its end.
Silent == Undecided \cup {"new", "refused", "started", "accepted",
                          "committed", "completing", "cancelOut", "failOut"}

Fates == {<<>>, <<"completed">>, <<"cancelled">>, <<"failed">>}

\* The guard of PublishProbeEvent knows of a run's end, and no run is over
\* without one.
EndsKept ==
    \A r \in Runs :
      /\ emitted[r] \in Fates
      /\ TaskOf[r] \in terminalEvents <=> emitted[r] # <<>>
      /\ pc[r] \in Silent => emitted[r] = <<>>
      /\ \/ pc[r] = "unlock" /\ ~runErr[r]
         \/ pc[r] = "clearing" /\ ~(runErr[r] /\ r \in SyncRuns)
         \/ pc[r] = "done"
         => emitted[r] # <<>>

\* The end a run was given is the one its contract allows.
FatesEarned ==
    \A r \in Runs :
      /\ emitted[r] = <<"completed">>
           => owner # r /\ r \notin promised \cup held
      /\ emitted[r] = <<"cancelled">> => r \in promised

IInv ==
    /\ TypeOK
    /\ OwnerOK
    /\ SlotKept
    /\ RequestsKept
    /\ ReasonsKept
    /\ EndsKept
    /\ FatesEarned

-----------------------------------------------------------------------------
(* The steps of a run that only take it from one place to the next.        *)

\* The steps of executeProbe before the run's end is decided, without the
\* commit.
Work(r) ==
    \/ BeginSources(r) \/ SafePoint(r) \/ ReadSources(r) \/ Preprocess(r)
    \/ RunGroups(r) \/ CheckGroups(r) \/ BeginPush(r) \/ Push(r)
    \/ CheckPush(r) \/ BeginPersist(r) \/ Persist(r) \/ CheckPersist(r)
    \/ BeginCommit(r)
    \/ /\ CommitMustWait(TaskOf[r])
       /\ Move(r, "tryCommit",
               IF r \in ended THEN "cancelOut" ELSE "commitWait")
    \/ CommitRefused(TaskOf[r]) /\ Move(r, "tryCommit", "cancelOut")

Commit(r) ==
    /\ pc[r] = "tryCommit"
    /\ CommitRun(TaskOf[r])
    /\ GoTo(r, "committed")
    /\ UNCHANGED <<left, runErr, probeMu, ended, eventVars, owner, userVars>>

\* What such a step does to a run and leaves alone of everything else.
Works(r, q) ==
    /\ pc[r] \in Undecided
    /\ q \in Undecided \cup {"cancelOut", "failOut"}
    /\ pc' = [pc EXCEPT ![r] = q]
    /\ left' \in [Runs -> 0 .. MaxSafePoints]
    /\ UNCHANGED <<controlVars, runErr, probeMu, ended, eventVars, owner,
                   userVars>>

\* Why a step may take a run to its cancelled end.
Cause(r) ==
    ProbeCancelled(r) \/ r \in ended \/ CommitRefused(TaskOf[r])

\* Every such step is one, and leads to the cancelled end for a cause only.
LEMMA WorkSteps ==
    ASSUME TypeOK, NEW r \in Runs, Work(r)
    PROVE  \E q \in PCs : Works(r, q) /\ (q = "cancelOut" => Cause(r))
<1> USE RunAssumption DEF Works, Undecided, PCs, Locked, Ending
<1>1. ASSUME NEW p \in Undecided,
             NEW q \in Undecided \cup {"cancelOut", "failOut"},
             Move(r, p, q), q = "cancelOut" => Cause(r)
      PROVE  \E k \in PCs : Works(r, k) /\ (k = "cancelOut" => Cause(r))
  <2>1. Works(r, q)
    BY <1>1 DEF TypeOK, Move, GoTo
  <2> QED
    BY <1>1, <2>1
<1>2. ASSUME NEW p \in Undecided, NEW q \in Undecided, EnterPhase(r, p, q)
      PROVE  \E k \in PCs : Works(r, k) /\ (k = "cancelOut" => Cause(r))
  <2>1. Works(r, q)
    BY <1>2 DEF TypeOK, EnterPhase, GoTo
  <2> QED
    BY <2>1
<1>3. CASE SafePoint(r)
  <2>1. pc' = [pc EXCEPT ![r] = pc[r]] /\ pc[r] \in Undecided
    BY <1>3 DEF SafePoint, TypeOK, Phases
  <2>2. left' \in [Runs -> 0 .. MaxSafePoints]
    BY <1>3 DEF SafePoint, TypeOK
  <2>3. Works(r, pc[r]) /\ pc[r] # "cancelOut"
    BY <1>3, <2>1, <2>2 DEF SafePoint
  <2> QED
    BY <2>1, <2>3
<1>4. CASE BeginSources(r) \/ BeginPush(r)
  BY <1>4, <1>2 DEF BeginSources, BeginPush
<1>5. CASE ReadSources(r)
  BY <1>5, <1>1 DEF ReadSources, Cause
<1>6. CASE Preprocess(r)
  BY <1>6, <1>1, <1>2 DEF Preprocess
<1>7. CASE RunGroups(r)
  BY <1>7, <1>1 DEF RunGroups, Cause
<1>8. CASE CheckGroups(r) \/ CheckPush(r) \/ CheckPersist(r)
  BY <1>8, <1>1 DEF CheckGroups, CheckPush, CheckPersist, CheckCancelled,
                    Cause
<1>9. CASE Push(r) \/ BeginPersist(r) \/ Persist(r) \/ BeginCommit(r)
  BY <1>9, <1>1 DEF Push, BeginPersist, Persist, BeginCommit
<1>10. CASE /\ CommitMustWait(TaskOf[r])
            /\ Move(r, "tryCommit",
                    IF r \in ended THEN "cancelOut" ELSE "commitWait")
  BY <1>10, <1>1 DEF Cause
<1>11. CASE CommitRefused(TaskOf[r]) /\ Move(r, "tryCommit", "cancelOut")
  BY <1>11, <1>1 DEF Cause
<1> QED
  BY <1>3, <1>4, <1>5, <1>6, <1>7, <1>8, <1>9, <1>10, <1>11 DEF Work

\* The steps of the specification, those that only move a run taken together.
LEMMA StepCases ==
    ASSUME [Next]_vars
    PROVE  \/ \E r \in Runs :
                \/ Work(r) \/ Start(r) \/ Refuse(r) \/ ResetEvents(r)
                \/ Lock(r) \/ Commit(r) \/ Release(r) \/ PublishCompleted(r)
                \/ PublishCancelled(r) \/ PublishFailure(r) \/ Panic(r)
                \/ Unlock(r) \/ ReportError(r) \/ ClearSlot(r)
           \/ \E t \in Tasks : \/ PauseProbe(t) \/ ResumeProbe(t)
                               \/ CancelProbe(t) \/ QueueCancel(t)
           \/ UNCHANGED vars
  BY DEF Next, RunnerNext, UserNext, Work, Commit, TryCommit

-----------------------------------------------------------------------------
(* Type correctness and the owner of the slot.                             *)

\* Every critical section keeps the control block well typed.
LEMMA ControlTypes ==
    ASSUME ControlTypeOK, NEW t \in Tasks,
           \/ StartRun(t) \/ QueueCancelRun(t) \/ ClearRun(t) \/ PauseRun(t)
           \/ ResumeRun(t) \/ CancelRun(t) \/ CommitRun(t)
           \/ UNCHANGED controlVars
    PROVE  ControlTypeOK'
  BY DEF ControlTypeOK, StartRun, QueueCancelRun, ClearRun, PauseRun,
         ResumeRun, CancelRun, CommitRun, controlVars

\* Clear ends the context of the run that owns the slot, and only that.
LEMMA ClearKeepsTypes ==
    ASSUME TypeOK, OwnerOK, NEW r \in Runs, Clear(r)
    PROVE  /\ ControlTypeOK'
           /\ ended' \subseteq Runs
           /\ owner' \in Runs \cup {NoRun}
           /\ OwnerOK'
<1> TaskOf[r] \in Tasks /\ TaskOf[r] # NoTask /\ TaskOf \in [Runs -> Tasks]
  BY RunAssumption, NoTaskAssumption
<1>1. CASE currentTaskID = TaskOf[r]
  <2>1. owner \in Runs
    BY <1>1 DEF OwnerOK, TypeOK
  <2>2. ControlTypeOK'
    BY <1>1, ControlTypes DEF Clear, TypeOK
  <2> QED
    BY <1>1, <2>1, <2>2 DEF Clear, TypeOK, OwnerOK, ClearRun
<1>2. CASE currentTaskID # TaskOf[r]
  BY <1>2, ControlTypes DEF Clear, TypeOK, OwnerOK, controlVars
<1> QED
  BY <1>1, <1>2

\* What PublishProbeEvent does to the record of the ends.
LEMMA PublishTypes ==
    ASSUME TypeOK, NEW r \in Runs,
           NEW e \in {"completed", "cancelled", "failed"}, Publish(r, e)
    PROVE  /\ terminalEvents' \subseteq Tasks
           /\ emitted' \in [Runs -> Seq({"completed", "cancelled", "failed"})]
<1> TaskOf[r] \in Tasks
  BY RunAssumption
<1>1. Append(emitted[r], e) \in Seq({"completed", "cancelled", "failed"})
  BY DEF TypeOK
<1> QED
  BY <1>1 DEF Publish, TypeOK, eventVars

\* Nothing has happened yet.
LEMMA TypeInit == Init => TypeOK /\ OwnerOK
<1> SUFFICES ASSUME Init PROVE TypeOK /\ OwnerOK
  OBVIOUS
<1>1. ControlTypeOK
  BY DEF Init, ControlInit, ControlTypeOK
<1>2. emitted \in [Runs -> Seq({"completed", "cancelled", "failed"})]
  BY DEF Init
<1> QED
  BY RunAssumption, <1>1, <1>2 DEF Init, ControlInit, TypeOK, OwnerOK, PCs

\* Every step keeps the types and the owner.
LEMMA TypeNext == TypeOK /\ OwnerOK /\ [Next]_vars => TypeOK' /\ OwnerOK'
<1> SUFFICES ASSUME TypeOK, OwnerOK, [Next]_vars PROVE TypeOK' /\ OwnerOK'
  OBVIOUS
<1> USE RunAssumption, NoTaskAssumption DEF PCs, Locked, Ending
<1>0. \A t \in Tasks : currentTaskID = t => owner \in Runs
  BY DEF OwnerOK, TypeOK
<1>1. ASSUME NEW r \in Runs, Work(r) PROVE TypeOK' /\ OwnerOK'
  <2>1. PICK q \in PCs : Works(r, q)
    BY <1>1, WorkSteps
  <2>2. ControlTypeOK'
    BY <2>1 DEF Works, TypeOK, ControlTypeOK, controlVars
  <2> QED
    BY <2>1, <2>2 DEF Works, TypeOK, OwnerOK, controlVars, eventVars,
                      userVars
<1>2. ASSUME NEW r \in Runs, Start(r) PROVE TypeOK' /\ OwnerOK'
  <2>1. ControlTypeOK'
    BY <1>2, ControlTypes DEF Start, TypeOK
  <2> QED
    BY <1>2, <2>1 DEF Start, StartRun, GoTo, TypeOK, OwnerOK, eventVars
<1>3. ASSUME NEW r \in Runs, Refuse(r) PROVE TypeOK' /\ OwnerOK'
  BY <1>3 DEF Refuse, GoTo, TypeOK, ControlTypeOK, OwnerOK, controlVars,
              eventVars, userVars
<1>4. ASSUME NEW r \in Runs, ResetEvents(r) PROVE TypeOK' /\ OwnerOK'
  BY <1>4 DEF ResetEvents, GoTo, TypeOK, ControlTypeOK, OwnerOK, controlVars,
              userVars
<1>5. ASSUME NEW r \in Runs, Lock(r) PROVE TypeOK' /\ OwnerOK'
  BY <1>5 DEF Lock, GoTo, TypeOK, ControlTypeOK, OwnerOK, Undecided,
              controlVars, eventVars, userVars
<1>6. ASSUME NEW r \in Runs, Commit(r) PROVE TypeOK' /\ OwnerOK'
  <2>1. ControlTypeOK'
    BY <1>6, ControlTypes DEF Commit, TypeOK
  <2> QED
    BY <1>6, <2>1 DEF Commit, CommitRun, GoTo, TypeOK, OwnerOK, eventVars,
                      userVars
<1>7. ASSUME NEW r \in Runs, Release(r) \/ ClearSlot(r)
      PROVE  TypeOK' /\ OwnerOK'
  <2>1. Clear(r)
    BY <1>7 DEF Release, ClearSlot
  <2> QED
    BY <1>7, <2>1, ClearKeepsTypes DEF Release, ClearSlot, GoTo, TypeOK,
                                       eventVars, userVars
<1>8. ASSUME NEW r \in Runs,
             \/ PublishCompleted(r) \/ PublishCancelled(r)
             \/ PublishFailure(r) \/ ReportError(r)
      PROVE  TypeOK' /\ OwnerOK'
  <2>1. \E e \in {"completed", "cancelled", "failed"} : Publish(r, e)
    BY <1>8 DEF PublishCompleted, PublishCancelled, PublishFailure,
                PublishAndFail, ReportError
  <2>2. ControlTypeOK'
    BY <1>8 DEF PublishCompleted, PublishCancelled, PublishFailure,
                PublishAndFail, ReportError, TypeOK, ControlTypeOK,
                controlVars
  <2> QED
    BY <1>8, <2>1, <2>2, PublishTypes
    DEF PublishCompleted, PublishCancelled, PublishFailure, PublishAndFail,
        ReportError, GoTo, TypeOK, OwnerOK, controlVars, userVars
<1>9. ASSUME NEW r \in Runs, Panic(r) \/ Unlock(r) PROVE TypeOK' /\ OwnerOK'
  BY <1>9 DEF Panic, Unlock, GoTo, TypeOK, ControlTypeOK, OwnerOK,
              controlVars, eventVars, userVars
<1>10. ASSUME NEW t \in Tasks,
              \/ PauseProbe(t) \/ ResumeProbe(t) \/ CancelProbe(t)
              \/ QueueCancel(t)
       PROVE  TypeOK' /\ OwnerOK'
  <2>1. ControlTypeOK'
    BY <1>10, ControlTypes DEF PauseProbe, ResumeProbe, CancelProbe,
                               QueueCancel, TypeOK
  <2> QED
    BY <1>10, <1>0, <2>1
    DEF PauseProbe, PauseRun, CanPause, ResumeProbe, ResumeRun, CancelProbe,
        CancelRun, CanCancel, QueueCancel, QueueCancelRun, TypeOK, OwnerOK,
        runVars, eventVars, userVars
<1>11. CASE UNCHANGED vars
  BY <1>11 DEF vars, TypeOK, ControlTypeOK, OwnerOK, controlVars, runVars,
               eventVars, userVars
<1> QED
  BY <1>1, <1>2, <1>3, <1>4, <1>5, <1>6, <1>7, <1>8, <1>9, <1>10, <1>11,
     StepCases

\* The state of the calls and of the runtime always has its types, whoever
\* may use a task id again.
THEOREM TypeCorrect == Spec => []TypeOK
<1>1. TypeOK /\ OwnerOK /\ [Next]_vars => (TypeOK /\ OwnerOK)'
  BY TypeNext
<1> QED
  BY TypeInit, <1>1, PTL DEF Spec

-----------------------------------------------------------------------------
(* executeProbe runs once at a time.                                       *)

\* No step puts a second run inside executeProbe.
LEMMA InsideNext ==
    ASSUME TypeOK, OneInsideExecute, [Next]_vars
    PROVE  OneInsideExecute'
<1> USE RunAssumption DEF OneInsideExecute, TypeOK, Locked, Ending, Undecided
<1>1. ASSUME NEW r \in Runs, Work(r) PROVE OneInsideExecute'
  <2>1. PICK q \in PCs : Works(r, q)
    BY <1>1, WorkSteps
  <2> QED
    BY <2>1 DEF Works
<1>2. ASSUME NEW r \in Runs,
             Start(r) \/ Refuse(r) \/ ResetEvents(r) \/ Lock(r) \/ Commit(r)
      PROVE  OneInsideExecute'
  BY <1>2 DEF Start, Refuse, ResetEvents, Lock, Commit, GoTo
<1>3. ASSUME NEW r \in Runs,
             \/ Release(r) \/ PublishCompleted(r) \/ PublishCancelled(r)
             \/ PublishFailure(r) \/ Panic(r)
      PROVE  OneInsideExecute'
  BY <1>3 DEF Release, PublishCompleted, PublishCancelled, PublishFailure,
              PublishAndFail, Panic, Phases, GoTo
<1>4. ASSUME NEW r \in Runs, Unlock(r) \/ ReportError(r) \/ ClearSlot(r)
      PROVE  OneInsideExecute'
  BY <1>4 DEF Unlock, ReportError, ClearSlot, GoTo
<1>5. ASSUME NEW t \in Tasks,
             \/ PauseProbe(t) \/ ResumeProbe(t) \/ CancelProbe(t)
             \/ QueueCancel(t)
      PROVE  OneInsideExecute'
  BY <1>5 DEF PauseProbe, ResumeProbe, CancelProbe, QueueCancel, runVars
<1>6. CASE UNCHANGED vars
  BY <1>6 DEF vars, runVars
<1> QED
  BY <1>1, <1>2, <1>3, <1>4, <1>5, <1>6, StepCases

\* executeProbe never runs twice at the same time, though a completed run
\* gives up the slot before it has left, and even with a task id used twice.
THEOREM OneInside == Spec => []OneInsideExecute
<1>1. Init => OneInsideExecute
  BY DEF Init, OneInsideExecute, Locked, Undecided, Ending
<1>2. TypeOK /\ OneInsideExecute /\ [Next]_vars => OneInsideExecute'
  BY InsideNext
<1> QED
  BY <1>1, <1>2, TypeCorrect, PTL DEF Spec

-----------------------------------------------------------------------------
(* Runs with task ids of their own: what a cause and a Clear mean.         *)

\* A run goes to its cancelled end only if somebody asked for it.
LEMMA CauseIsPromise ==
    ASSUME IInv, NEW r \in Runs, pc[r] \in Undecided, Cause(r)
    PROVE  r \in promised
<1>1. owner = r /\ currentTaskID = TaskOf[r] /\ pc[r] # "committed"
  BY RunAssumption
  DEF IInv, SlotKept, OwnerOK, TypeOK, HoldsSlot, Undecided
<1>2. CASE r \in ended
  BY <1>2 DEF IInv, ReasonsKept, HoldsSlot
<1>3. CASE cancelRequested
  BY <1>1, <1>3 DEF IInv, RequestsKept
<1>4. ~terminalCommitted
  BY <1>1 DEF IInv, RequestsKept
<1> QED
  BY <1>1, <1>2, <1>3, <1>4
  DEF Cause, ProbeCancelled, IsCancelRequested, CommitRefused

\* A Clear frees the slot of the run that calls it, or does nothing.
LEMMA ClearIsOwn ==
    ASSUME UniqueTaskIDs, TypeOK, OwnerOK, NEW r \in Runs, Clear(r)
    PROVE  \/ /\ owner = r
              /\ owner' = NoRun
              /\ ended' = ended \cup {r}
              /\ cancelRequested' = FALSE
              /\ pauseRequested' = FALSE
              /\ terminalCommitted' = FALSE
           \/ /\ owner # r
              /\ UNCHANGED <<controlVars, owner, ended>>
<1>1. TaskOf[r] # NoTask
  BY RunAssumption, NoTaskAssumption
<1>2. CASE currentTaskID = TaskOf[r]
  <2>1. owner \in Runs /\ TaskOf[owner] = TaskOf[r]
    BY <1>1, <1>2 DEF OwnerOK, TypeOK
  <2>2. owner = r
    BY <2>1 DEF UniqueTaskIDs
  <2> QED
    BY <1>2, <2>2 DEF Clear, ClearRun
<1>3. CASE currentTaskID # TaskOf[r]
  BY <1>3, RunAssumption DEF Clear, OwnerOK
<1> QED
  BY <1>2, <1>3

\* A command of the user is about the run that owns the slot.
LEMMA CommandsAreToOwner ==
    ASSUME TypeOK, OwnerOK, NEW t \in Tasks, currentTaskID = t
    PROVE  owner \in Runs /\ TaskOf[owner] = t
  BY NoTaskAssumption DEF TypeOK, OwnerOK

\* What a step of a run that only publishes, unlocks or moves leaves alone.
Aside(r) ==
    \/ Refuse(r) \/ ResetEvents(r) \/ Lock(r) \/ PublishCompleted(r)
    \/ PublishCancelled(r) \/ PublishFailure(r) \/ Panic(r) \/ Unlock(r)
    \/ ReportError(r)

LEMMA AsideLeaves ==
    ASSUME NEW r \in Runs, Aside(r)
    PROVE  UNCHANGED <<controlVars, ended, owner, userVars>>
  BY DEF Aside, Refuse, ResetEvents, Lock, PublishCompleted,
         PublishCancelled, PublishFailure, PublishAndFail, Panic, Unlock,
         ReportError

\* Where such a step takes a run.
Goes(r, p, q) == pc[r] = p /\ pc'[r] = q

LEMMA AsideMoves ==
    ASSUME TypeOK, NEW r \in Runs, Aside(r)
    PROVE  /\ pc' = [pc EXCEPT ![r] = pc'[r]]
           /\ \/ Goes(r, "new", "refused")
              \/ Goes(r, "new", "failing") /\ r \in SyncRuns
              \/ Goes(r, "started", "accepted")
              \/ Goes(r, "accepted", "sources")
              \/ Goes(r, "completing", "unlock")
              \/ Goes(r, "cancelOut", "unlock")
              \/ Goes(r, "failOut", "unlock")
              \/ Goes(r, "unlock", "failing") /\ r \notin SyncRuns
              \/ Goes(r, "unlock", "clearing")
              \/ Goes(r, "failing", "clearing")
              \/ Goes(r, "failing", "done") /\ r \in SyncRuns
              \/ pc[r] \in Undecided /\ pc'[r] = "unlock"
<1> USE DEF PCs, Locked, Ending, Undecided, GoTo, TypeOK, Goes
<1>1. CASE Refuse(r) \/ ResetEvents(r) \/ Lock(r)
  BY <1>1 DEF Refuse, ResetEvents, Lock
<1>2. CASE PublishCompleted(r) \/ PublishCancelled(r) \/ PublishFailure(r)
  BY <1>2 DEF PublishCompleted, PublishCancelled, PublishFailure,
              PublishAndFail
<1>3. CASE Panic(r)
  BY <1>3 DEF Panic, Phases
<1>4. CASE Unlock(r) \/ ReportError(r)
  BY <1>4 DEF Unlock, ReportError
<1> QED
  BY <1>1, <1>2, <1>3, <1>4 DEF Aside

-----------------------------------------------------------------------------
(* Runs with task ids of their own: each conjunct of the invariant.        *)

\* A run at work keeps the slot, and gets it back from no one.
LEMMA SlotNext ==
    ASSUME UniqueTaskIDs, IInv, [Next]_vars
    PROVE  SlotKept'
<1> TypeOK /\ OwnerOK /\ SlotKept
  BY DEF IInv
<1> USE RunAssumption, NoTaskAssumption
    DEF SlotKept, HoldsSlot, Undecided, PCs, Locked, Ending
<1>1. ASSUME NEW r \in Runs, Work(r) PROVE SlotKept'
  <2>1. PICK q \in PCs : Works(r, q)
    BY <1>1, WorkSteps
  <2> QED
    BY <2>1 DEF Works, TypeOK
<1>2. ASSUME NEW r \in Runs, Aside(r) PROVE SlotKept'
  <2>1. UNCHANGED owner
    BY <1>2, AsideLeaves
  <2>2. pc' = [pc EXCEPT ![r] = pc'[r]]
    BY <1>2, AsideMoves
  <2>3. owner = r
          => /\ pc'[r] \notin {"new", "refused", "completing", "done"}
             /\ pc'[r] = "failing" => r \notin SyncRuns
    BY <1>2, AsideMoves DEF Goes
  <2>4. HoldsSlot(r)' => HoldsSlot(r)
    <3>1. \/ pc'[r] \in {"refused", "failing", "unlock", "clearing", "done"}
          \/ pc[r] \in {"started", "accepted"}
      BY <1>2, AsideMoves DEF Goes
    <3> QED
      BY <3>1
  <2> QED
    BY <2>1, <2>2, <2>3, <2>4 DEF TypeOK
<1>3. ASSUME NEW r \in Runs, Start(r) PROVE SlotKept'
  BY <1>3 DEF Start, StartRun, GoTo, TypeOK, OwnerOK
<1>4. ASSUME NEW r \in Runs, Commit(r) PROVE SlotKept'
  BY <1>4 DEF Commit, GoTo, TypeOK
<1>5. ASSUME NEW r \in Runs, Release(r) \/ ClearSlot(r) PROVE SlotKept'
  <2>1. /\ Clear(r)
        /\ pc[r] \in {"committed", "clearing"}
        /\ \E q \in {"completing", "failing", "done"} :
             pc' = [pc EXCEPT ![r] = q]
    BY <1>5 DEF Release, ClearSlot, GoTo
  <2>2. owner' # r
    BY <2>1, ClearIsOwn
  <2>3. \A s \in Runs \ {r} : pc'[s] = pc[s] /\ (owner = s <=> owner' = s)
    BY <2>1, ClearIsOwn DEF TypeOK
  <2> QED
    BY <2>1, <2>2, <2>3 DEF TypeOK
<1>6. ASSUME NEW t \in Tasks,
             \/ PauseProbe(t) \/ ResumeProbe(t) \/ CancelProbe(t)
             \/ QueueCancel(t)
      PROVE  SlotKept'
  BY <1>6 DEF PauseProbe, ResumeProbe, CancelProbe, QueueCancel, runVars
<1>7. CASE UNCHANGED vars
  BY <1>7 DEF vars, runVars
<1> QED
  BY <1>1, <1>2, <1>3, <1>4, <1>5, <1>6, <1>7, StepCases DEF Aside

\* The flags of the runtime go on saying what was asked of the run.
LEMMA RequestsNext ==
    ASSUME UniqueTaskIDs, IInv, [Next]_vars
    PROVE  RequestsKept'
<1> /\ TypeOK /\ OwnerOK /\ SlotKept /\ RequestsKept /\ ReasonsKept
    /\ TaskOf \in [Runs -> Tasks] /\ NoRun \notin Runs
  BY RunAssumption DEF IInv
<1> USE DEF RequestsKept
<1>1. ASSUME NEW r \in Runs, Work(r) PROVE RequestsKept'
  <2>1. PICK q \in PCs : Works(r, q)
    BY <1>1, WorkSteps
  <2> QED
    BY <2>1 DEF Works, TypeOK, Undecided, controlVars, userVars
<1>2. ASSUME NEW r \in Runs, Aside(r) PROVE RequestsKept'
  <2>1. UNCHANGED <<controlVars, owner, userVars>>
    BY <1>2, AsideLeaves
  <2>2. pc' = [pc EXCEPT ![r] = pc'[r]] /\ pc[r] # "committed"
    BY <1>2, AsideMoves DEF Goes, Undecided
  <2> QED
    BY <2>1, <2>2 DEF TypeOK, controlVars, userVars
<1>3. ASSUME NEW r \in Runs, Start(r) PROVE RequestsKept'
  <2>1. r \notin promised /\ r \notin held
    BY <1>3 DEF Start, ReasonsKept
  <2> QED
    BY <1>3, <2>1 DEF Start, StartRun, TypeOK
<1>4. ASSUME NEW r \in Runs, Commit(r) PROVE RequestsKept'
  <2>1. owner = r
    BY <1>4 DEF Commit, SlotKept, HoldsSlot, Undecided
  <2> QED
    BY <1>4, <2>1 DEF Commit, CommitRun, GoTo, TypeOK, userVars
<1>5. ASSUME NEW r \in Runs, Release(r) \/ ClearSlot(r) PROVE RequestsKept'
  <2>1. Clear(r) /\ UNCHANGED userVars
    BY <1>5 DEF Release, ClearSlot
  <2>2. CASE owner = r
    BY <2>1, <2>2, ClearIsOwn DEF TypeOK, userVars
  <2>3. CASE owner # r
    BY <1>5, <2>1, <2>3, ClearIsOwn
    DEF Release, ClearSlot, GoTo, TypeOK, controlVars, userVars
  <2> QED
    BY <2>2, <2>3
<1>6. ASSUME NEW t \in Tasks, PauseProbe(t) PROVE RequestsKept'
  <2>1. owner \in Runs /\ TaskOf[owner] = t
    BY <1>6, CommandsAreToOwner DEF PauseProbe, PauseRun, CanPause
  <2> QED
    BY <1>6, <2>1 DEF PauseProbe, PauseRun, CanPause, runVars
<1>7. ASSUME NEW t \in Tasks, ResumeProbe(t) PROVE RequestsKept'
  BY <1>7 DEF ResumeProbe, ResumeRun, runVars
<1>8. ASSUME NEW t \in Tasks, CancelProbe(t) PROVE RequestsKept'
  BY <1>8 DEF CancelProbe, CancelRun, CanCancel
<1>9. ASSUME NEW t \in Tasks, QueueCancel(t) PROVE RequestsKept'
  BY <1>9 DEF QueueCancel, QueueCancelRun, runVars, userVars
<1>10. CASE UNCHANGED vars
  BY <1>10 DEF vars, controlVars, runVars, userVars
<1> QED
  BY <1>1, <1>2, <1>3, <1>4, <1>5, <1>6, <1>7, <1>8, <1>9, <1>10, StepCases
  DEF Aside

\* No run comes to its end without the reason for it.
LEMMA ReasonsNext ==
    ASSUME UniqueTaskIDs, IInv, [Next]_vars
    PROVE  ReasonsKept'
<1> /\ TypeOK /\ OwnerOK /\ SlotKept /\ RequestsKept /\ ReasonsKept
    /\ TaskOf \in [Runs -> Tasks] /\ NoRun \notin Runs
  BY RunAssumption DEF IInv
<1> USE DEF ReasonsKept, HoldsSlot
<1>1. ASSUME NEW r \in Runs, Work(r) PROVE ReasonsKept'
  <2>1. PICK q \in PCs : Works(r, q) /\ (q = "cancelOut" => Cause(r))
    BY <1>1, WorkSteps
  <2>2. q = "cancelOut" => r \in promised
    BY <2>1, CauseIsPromise DEF Works
  <2>3. q \notin {"new", "committed", "completing"}
    BY <2>1 DEF Works, Undecided
  <2>4. HoldsSlot(r)
    BY <2>1 DEF Works
  <2> QED
    BY <2>1, <2>2, <2>3, <2>4
    DEF Works, TypeOK, controlVars, userVars
<1>2. ASSUME NEW r \in Runs, Aside(r) PROVE ReasonsKept'
  <2>1. UNCHANGED <<controlVars, owner, ended, userVars>>
    BY <1>2, AsideLeaves
  <2>2. pc' = [pc EXCEPT ![r] = pc'[r]]
    BY <1>2, AsideMoves
  <2>3. pc'[r] \in {"refused", "failing", "accepted", "sources", "unlock",
                    "clearing", "done"}
    BY <1>2, AsideMoves DEF Goes
  <2>4. HoldsSlot(r)' => HoldsSlot(r)
    BY <1>2, <2>3, AsideMoves DEF Goes, Undecided
  <2> QED
    BY <2>1, <2>2, <2>3, <2>4
    DEF TypeOK, Undecided, controlVars, userVars
<1>3. ASSUME NEW r \in Runs, Start(r) PROVE ReasonsKept'
  BY <1>3 DEF Start, StartRun, GoTo, TypeOK, OwnerOK, SlotKept, Undecided
<1>4. ASSUME NEW r \in Runs, Commit(r) PROVE ReasonsKept'
  <2>1. owner = r
    BY <1>4 DEF Commit, SlotKept, Undecided
  <2>2. r \notin promised
    BY <1>4, <2>1 DEF Commit, CommitRun, CanCommit, RequestsKept
  <2>3. r \notin held
    BY <1>4, <2>1
    DEF Commit, CommitRun, CanCommit, Paused, RequestsKept
  <2> QED
    BY <1>4, <2>1, <2>2, <2>3
    DEF Commit, CommitRun, GoTo, TypeOK, Undecided, userVars
<1>5. ASSUME NEW r \in Runs, Release(r) \/ ClearSlot(r) PROVE ReasonsKept'
  <2>1. /\ Clear(r) /\ UNCHANGED userVars
        /\ \/ pc[r] = "committed" /\ pc' = [pc EXCEPT ![r] = "completing"]
           \/ /\ pc[r] = "clearing"
              /\ \E q \in {"failing", "done"} : pc' = [pc EXCEPT ![r] = q]
    BY <1>5 DEF Release, ClearSlot, GoTo
  <2>2. \A s \in Runs \ {r} :
          /\ pc'[s] = pc[s]
          /\ s \in ended' <=> s \in ended
          /\ HoldsSlot(s) => owner = s
    BY <2>1, ClearIsOwn DEF TypeOK, SlotKept
  <2>3. \A s \in Runs \ {r} : pc[s] = "committed" => terminalCommitted'
    <3> SUFFICES ASSUME NEW s \in Runs \ {r}, pc[s] = "committed"
                 PROVE  terminalCommitted'
      OBVIOUS
    <3>1. owner # r
      BY <2>2
    <3>2. UNCHANGED controlVars
      BY <2>1, <3>1, ClearIsOwn
    <3> QED
      BY <3>2 DEF controlVars
  <2>4. pc'[r] \in {"completing", "failing", "done"}
    BY <2>1 DEF TypeOK
  <2>5. pc'[r] = "completing" => r \notin promised \cup held
    BY <2>1 DEF TypeOK
  <2> QED
    BY <2>1, <2>2, <2>3, <2>4, <2>5 DEF Undecided, userVars
<1>6. ASSUME NEW t \in Tasks,
             PauseProbe(t) \/ ResumeProbe(t) \/ CancelProbe(t)
      PROVE  ReasonsKept'
  <2>0. UNCHANGED <<pc, terminalCommitted>>
    BY <1>6 DEF PauseProbe, PauseRun, ResumeProbe, ResumeRun, CancelProbe,
                CancelRun, runVars
  <2>1. /\ promised' \in {promised, promised \cup {owner}}
        /\ held' \in {held, held \cup {owner}, held \ {owner}}
        /\ \/ ended' = ended
           \/ ended' = ended \cup {owner} /\ promised' = promised \cup {owner}
    <3>1. CASE PauseProbe(t)
      BY <3>1 DEF PauseProbe, runVars
    <3>2. CASE ResumeProbe(t)
      BY <3>2 DEF ResumeProbe, runVars
    <3>3. CASE CancelProbe(t)
      BY <3>3 DEF CancelProbe
    <3> QED
      BY <1>6, <3>1, <3>2, <3>3
  <2>2. \/ held' \subseteq held /\ promised' = promised
        \/ ~terminalCommitted
    BY <1>6 DEF PauseProbe, PauseRun, CanPause, ResumeProbe, CancelProbe,
                CancelRun, CanCancel
  <2>3. \A r \in Runs : owner = r => pc[r] \notin {"new", "completing"}
    BY DEF SlotKept
  <2> QED
    BY <2>0, <2>1, <2>2, <2>3
<1>7. ASSUME NEW t \in Tasks, QueueCancel(t) PROVE ReasonsKept'
  BY <1>7 DEF QueueCancel, QueueCancelRun, runVars, userVars
<1>8. CASE UNCHANGED vars
  BY <1>8 DEF vars, controlVars, runVars, userVars
<1> QED
  BY <1>1, <1>2, <1>3, <1>4, <1>5, <1>6, <1>7, <1>8, StepCases DEF Aside

\* Appending to nothing.
LEMMA FirstEnd ==
    ASSUME NEW e PROVE Append(<<>>, e) = <<e>> /\ <<e>> # <<>>
  OBVIOUS

\* A terminal event is published once.
LEMMA PublishOnce ==
    ASSUME UniqueTaskIDs, TypeOK, EndsKept, NEW r \in Runs,
           NEW e \in {"completed", "cancelled", "failed"}, Publish(r, e)
    PROVE  /\ \/ UNCHANGED emitted
              \/ emitted[r] = <<>> /\ emitted' = [emitted EXCEPT ![r] = <<e>>]
           /\ emitted'[r] # <<>>
           /\ \A s \in Runs : /\ emitted'[s] \in Fates
                              /\ TaskOf[s] \in terminalEvents'
                                   <=> emitted'[s] # <<>>
<1> USE DEF Publish, TypeOK, EndsKept, Fates
<1>1. CASE TaskOf[r] \in terminalEvents
  BY <1>1 DEF eventVars
<1>2. CASE TaskOf[r] \notin terminalEvents
  <2>1. emitted[r] = <<>> /\ emitted' = [emitted EXCEPT ![r] = <<e>>]
    BY <1>2, FirstEnd
  <2>2. \A s \in Runs : s # r => TaskOf[s] # TaskOf[r]
    BY DEF UniqueTaskIDs
  <2> QED
    BY <1>2, <2>1, <2>2, FirstEnd
<1> QED
  BY <1>1, <1>2

\* What a publishing step publishes.
LEMMA Publishers ==
    ASSUME TypeOK, NEW r \in Runs,
           \/ PublishCompleted(r) \/ PublishCancelled(r)
           \/ PublishFailure(r) \/ ReportError(r)
    PROVE  \E e \in {"completed", "cancelled", "failed"} :
             /\ Publish(r, e)
             /\ e = "completed" => pc[r] = "completing"
             /\ e = "cancelled" => pc[r] = "cancelOut"
             /\ pc'[r] \in {"unlock", "clearing", "done"}
  BY DEF PublishCompleted, PublishCancelled, PublishFailure, PublishAndFail,
         ReportError, GoTo, TypeOK

\* A run is over only with its end on record.
LEMMA EndsNext ==
    ASSUME UniqueTaskIDs, IInv, [Next]_vars
    PROVE  EndsKept'
<1> /\ TypeOK /\ EndsKept
    /\ TaskOf \in [Runs -> Tasks] /\ NoRun \notin Runs
  BY RunAssumption DEF IInv
<1> USE DEF EndsKept, Silent
<1>1. ASSUME NEW r \in Runs, Work(r) PROVE EndsKept'
  <2>1. PICK q \in PCs : Works(r, q)
    BY <1>1, WorkSteps
  <2> QED
    BY <2>1 DEF Works, TypeOK, Undecided, eventVars
<1>2. ASSUME NEW r \in Runs,
             Start(r) \/ Refuse(r) \/ Lock(r) \/ Commit(r) \/ Panic(r)
      PROVE  EndsKept'
  <2>1. UNCHANGED eventVars
    BY <1>2 DEF Start, Refuse, Lock, Commit, Panic
  <2>2. \/ pc[r] \in {"new"} \cup Undecided \cup {"accepted"}
             /\ pc'[r] \in {"started", "refused", "failing", "sources",
                            "committed"}
        \/ pc'[r] = "unlock" /\ runErr'[r] = TRUE
    BY <1>2 DEF Start, Refuse, Lock, Commit, Panic, GoTo, TypeOK, Undecided
  <2>3. \A s \in Runs \ {r} : pc'[s] = pc[s] /\ runErr'[s] = runErr[s]
    BY <1>2 DEF Start, Refuse, Lock, Commit, Panic, GoTo, TypeOK
  <2> QED
    BY <2>1, <2>2, <2>3 DEF Undecided, eventVars
<1>3. ASSUME NEW r \in Runs, ResetEvents(r) PROVE EndsKept'
  <2>1. emitted[r] = <<>>
    BY <1>3 DEF ResetEvents
  <2>2. \A s \in Runs : s # r => TaskOf[s] # TaskOf[r]
    BY DEF UniqueTaskIDs
  <2> QED
    BY <1>3, <2>1, <2>2 DEF ResetEvents, GoTo, TypeOK, Undecided
<1>4. ASSUME NEW r \in Runs,
             \/ PublishCompleted(r) \/ PublishCancelled(r)
             \/ PublishFailure(r) \/ ReportError(r)
      PROVE  EndsKept'
  <2>1. PICK e \in {"completed", "cancelled", "failed"} :
          Publish(r, e) /\ pc'[r] \in {"unlock", "clearing", "done"}
    BY <1>4, Publishers
  <2>2. \A s \in Runs \ {r} : pc'[s] = pc[s] /\ runErr'[s] = runErr[s]
    BY <1>4
    DEF PublishCompleted, PublishCancelled, PublishFailure, PublishAndFail,
        ReportError, GoTo, TypeOK
  <2>3. \A s \in Runs \ {r} : emitted'[s] = emitted[s]
    BY <2>1, PublishOnce DEF TypeOK
  <2> QED
    BY <2>1, <2>2, <2>3, PublishOnce DEF Undecided
<1>5. ASSUME NEW r \in Runs, Unlock(r) PROVE EndsKept'
  <2>1. \/ pc'[r] = "failing"
        \/ pc'[r] = "clearing" /\ ((runErr[r] /\ r \in SyncRuns) \/ ~runErr[r])
    BY <1>5 DEF Unlock, GoTo, TypeOK
  <2> QED
    BY <1>5, <2>1 DEF Unlock, GoTo, TypeOK, Undecided, eventVars
<1>6. ASSUME NEW r \in Runs, Release(r) PROVE EndsKept'
  BY <1>6 DEF Release, GoTo, TypeOK, Undecided, eventVars
<1>7. ASSUME NEW r \in Runs, ClearSlot(r) PROVE EndsKept'
  <2>1. pc'[r] = "failing" \/ (pc'[r] = "done" /\ emitted[r] # <<>>)
    BY <1>7 DEF ClearSlot, GoTo, TypeOK
  <2> QED
    BY <1>7, <2>1 DEF ClearSlot, GoTo, TypeOK, Undecided, eventVars
<1>8. ASSUME NEW t \in Tasks,
             \/ PauseProbe(t) \/ ResumeProbe(t) \/ CancelProbe(t)
             \/ QueueCancel(t)
      PROVE  EndsKept'
  BY <1>8 DEF PauseProbe, ResumeProbe, CancelProbe, QueueCancel, runVars,
              eventVars
<1>9. CASE UNCHANGED vars
  BY <1>9 DEF vars, runVars, eventVars
<1> QED
  BY <1>1, <1>2, <1>3, <1>4, <1>5, <1>6, <1>7, <1>8, <1>9, StepCases

\* The ends are earned.
LEMMA FatesNext ==
    ASSUME UniqueTaskIDs, IInv, [Next]_vars
    PROVE  FatesEarned'
<1> /\ TypeOK /\ OwnerOK /\ SlotKept /\ RequestsKept /\ ReasonsKept
    /\ EndsKept /\ FatesEarned
    /\ TaskOf \in [Runs -> Tasks] /\ NoRun \notin Runs
  BY RunAssumption DEF IInv
<1> USE DEF FatesEarned
<1>1. ASSUME NEW r \in Runs, Work(r) PROVE FatesEarned'
  <2>1. PICK q \in PCs : Works(r, q)
    BY <1>1, WorkSteps
  <2> QED
    BY <2>1 DEF Works, eventVars, userVars
<1>2. ASSUME NEW r \in Runs,
             \/ Refuse(r) \/ ResetEvents(r) \/ Lock(r) \/ Panic(r)
             \/ Unlock(r) \/ Commit(r)
      PROVE  FatesEarned'
  BY <1>2 DEF Refuse, ResetEvents, Lock, Panic, Unlock, Commit, eventVars,
              userVars
<1>3. ASSUME NEW r \in Runs, Start(r) PROVE FatesEarned'
  <2>1. emitted[r] = <<>>
    BY <1>3 DEF Start, EndsKept, Silent
  <2>2. /\ owner' = r /\ emitted' = emitted /\ held' = held
        /\ promised \subseteq promised' /\ promised' \subseteq promised \cup {r}
    BY <1>3 DEF Start, eventVars
  <2> QED
    BY <2>1, <2>2
<1>4. ASSUME NEW r \in Runs,
             \/ PublishCompleted(r) \/ PublishCancelled(r)
             \/ PublishFailure(r) \/ ReportError(r)
      PROVE  FatesEarned'
  <2>1. PICK e \in {"completed", "cancelled", "failed"} :
          /\ Publish(r, e)
          /\ e = "completed" => pc[r] = "completing"
          /\ e = "cancelled" => pc[r] = "cancelOut"
    BY <1>4, Publishers
  <2>2. UNCHANGED <<owner, userVars>>
    BY <1>4, AsideLeaves DEF Aside
  <2>3. emitted' = emitted \/ emitted' = [emitted EXCEPT ![r] = <<e>>]
    BY <2>1, PublishOnce
  <2>4. e = "completed" => owner # r /\ r \notin promised \cup held
    BY <2>1 DEF SlotKept, ReasonsKept
  <2>5. e = "cancelled" => r \in promised
    BY <2>1 DEF ReasonsKept
  <2>6. /\ <<e>> = <<"completed">> => e = "completed"
        /\ <<e>> = <<"cancelled">> => e = "cancelled"
    OBVIOUS
  <2> QED
    BY <2>2, <2>3, <2>4, <2>5, <2>6 DEF userVars, TypeOK
<1>5. ASSUME NEW r \in Runs, Release(r) \/ ClearSlot(r) PROVE FatesEarned'
  <2>1. Clear(r) /\ UNCHANGED <<eventVars, userVars>>
    BY <1>5 DEF Release, ClearSlot
  <2>2. owner' = NoRun \/ owner' = owner
    BY <2>1, ClearIsOwn
  <2> QED
    BY <2>1, <2>2 DEF eventVars, userVars
<1>6. ASSUME NEW t \in Tasks,
             \/ PauseProbe(t) \/ ResumeProbe(t) \/ CancelProbe(t)
             \/ QueueCancel(t)
      PROVE  FatesEarned'
  <2>1. /\ UNCHANGED <<eventVars, owner>>
        /\ promised \subseteq promised' /\ promised' \subseteq promised \cup {owner}
        /\ held' \subseteq held \cup {owner}
    BY <1>6 DEF PauseProbe, ResumeProbe, CancelProbe, QueueCancel, userVars
  <2> QED
    BY <2>1 DEF eventVars
<1>7. CASE UNCHANGED vars
  BY <1>7 DEF vars, eventVars, userVars
<1> QED
  BY <1>1, <1>2, <1>3, <1>4, <1>5, <1>6, <1>7, StepCases

-----------------------------------------------------------------------------
(* What follows from the invariant.                                        *)

LEMMA InitIInv == Init => IInv
<1> SUFFICES ASSUME Init PROVE IInv
  OBVIOUS
<1>1. TypeOK /\ OwnerOK
  BY TypeInit
<1>2. SlotKept
  BY RunAssumption DEF Init, SlotKept, HoldsSlot, Undecided
<1>3. RequestsKept
  BY DEF Init, ControlInit, RequestsKept
<1>4. ReasonsKept
  BY DEF Init, ReasonsKept, HoldsSlot
<1>5. EndsKept
  BY DEF Init, EndsKept, Fates
<1>6. FatesEarned
  <2>1. <<>> # <<"completed">> /\ <<>> # <<"cancelled">>
    OBVIOUS
  <2> QED
    BY <2>1 DEF Init, FatesEarned
<1> QED
  BY <1>1, <1>2, <1>3, <1>4, <1>5, <1>6 DEF IInv

\* With task ids of their own, runs keep the slot, the runtime's flags, the
\* record of the ends and what was asked of them in agreement.
THEOREM Agreement == ASSUME UniqueTaskIDs PROVE Spec => []IInv
<1>1. IInv /\ [Next]_vars => IInv'
  BY TypeNext, SlotNext, RequestsNext, ReasonsNext, EndsNext, FatesNext
  DEF IInv
<1> QED
  BY InitIInv, <1>1, PTL DEF Spec

\* From its start until it gives the slot up a run holds it: neither Clear of
\* another run, which only knows task ids, nor its own second one takes it.
THEOREM SlotHeld == ASSUME UniqueTaskIDs PROVE Spec => []RunHoldsSlot
<1>1. IInv => RunHoldsSlot
  BY RunAssumption DEF IInv, SlotKept, OwnerOK, TypeOK, RunHoldsSlot
<1> QED
  BY <1>1, Agreement, PTL

\* Whatever of executeProbe, the panic handler and RunProbe publishes its
\* end, a run is over with exactly one.
THEOREM OneEnd == ASSUME UniqueTaskIDs PROVE Spec => []ExactlyOneEnd
<1>1. IInv => ExactlyOneEnd
  <2>1. \A s \in Fates \ {<<>>} : Len(s) = 1
    BY DEF Fates
  <2> QED
    BY <2>1 DEF IInv, EndsKept, ExactlyOneEnd
<1> QED
  BY <1>1, Agreement, PTL

\* A run that ends as cancelled was cancelled by somebody; this is what is
\* lost when a task id is used again.
THEOREM CancelledByUser ==
    ASSUME UniqueTaskIDs PROVE Spec => []CancelledOnlyByUser
<1>1. IInv => CancelledOnlyByUser
  BY DEF IInv, FatesEarned, CancelledOnlyByUser
<1> QED
  BY <1>1, Agreement, PTL

-----------------------------------------------------------------------------
(* The runs implement the contract, step by step.                          *)

\* The run that owns the slot has not been told to be complete.
LEMMA OwnerIsOpen ==
    ASSUME IInv, NEW t \in Tasks, currentTaskID = t
    PROVE  owner \in Runs /\ emitted[owner] # <<"completed">>
<1>1. owner \in Runs
  BY CommandsAreToOwner DEF IInv
<1> QED
  BY <1>1 DEF IInv, FatesEarned

\* A published end is one the contract allows, and a dropped one no step.
LEMMA PublishContract ==
    ASSUME UniqueTaskIDs, IInv, NEW r \in Runs,
           \/ PublishCompleted(r) \/ PublishCancelled(r)
           \/ PublishFailure(r) \/ ReportError(r)
    PROVE  [Contract!Next]_(Contract!vars)
<1>1. PICK e \in {"completed", "cancelled", "failed"} :
        /\ Publish(r, e)
        /\ e = "completed" => pc[r] = "completing"
        /\ e = "cancelled" => pc[r] = "cancelOut"
  BY Publishers DEF IInv
<1>2. UNCHANGED <<promised, held>>
  BY AsideLeaves DEF Aside, userVars
<1>3. CASE UNCHANGED emitted
  BY <1>2, <1>3 DEF Contract!vars
<1>4. CASE emitted[r] = <<>> /\ emitted' = [emitted EXCEPT ![r] = <<e>>]
  <2>1. e = "completed" => r \notin promised \cup held
    BY <1>1 DEF IInv, ReasonsKept
  <2>2. e = "cancelled" => r \in promised
    BY <1>1 DEF IInv, ReasonsKept
  <2>3. Contract!End(r, e)
    BY <1>2, <1>4, <2>1, <2>2 DEF Contract!End
  <2> QED
    BY <2>3 DEF Contract!Next, Contract!TerminalEvents
<1> QED
  BY <1>1, <1>3, <1>4, PublishOnce DEF IInv

\* Every step of a run, of the user and of the runtime is a step of the
\* contract or none.
LEMMA StepContract ==
    ASSUME UniqueTaskIDs, IInv, [Next]_vars
    PROVE  [Contract!Next]_(Contract!vars)
<1>1. ASSUME NEW r \in Runs, Work(r) PROVE UNCHANGED Contract!vars
  <2>1. PICK q \in PCs : Works(r, q)
    BY <1>1, WorkSteps DEF IInv
  <2> QED
    BY <2>1 DEF Works, Contract!vars, eventVars, userVars
<1>2. ASSUME NEW r \in Runs,
             \/ Refuse(r) \/ ResetEvents(r) \/ Lock(r) \/ Commit(r)
             \/ Release(r) \/ Panic(r) \/ Unlock(r) \/ ClearSlot(r)
      PROVE  UNCHANGED Contract!vars
  BY <1>2 DEF Refuse, ResetEvents, Lock, Commit, Release, Panic, Unlock,
              ClearSlot, Contract!vars, eventVars, userVars
<1>3. ASSUME NEW r \in Runs, Start(r) PROVE [Contract!Next]_(Contract!vars)
  <2>1. r \notin held /\ emitted[r] = <<>> /\ <<>> # <<"completed">>
    BY <1>3 DEF Start, IInv, ReasonsKept, EndsKept, Silent
  <2>2. UNCHANGED <<emitted, held>>
    BY <1>3 DEF Start, eventVars
  <2>3. promised' = promised \/ promised' = promised \cup {r}
    BY <1>3 DEF Start
  <2>4. held \ {r} = held
    BY <2>1
  <2> QED
    BY <2>1, <2>2, <2>3, <2>4
    DEF Contract!Next, Contract!Promise, Contract!vars
<1>4. ASSUME NEW t \in Tasks, PauseProbe(t)
      PROVE  [Contract!Next]_(Contract!vars)
  <2>1. owner \in Runs /\ emitted[owner] # <<"completed">>
    BY <1>4, OwnerIsOpen DEF PauseProbe, PauseRun, CanPause
  <2>2. Contract!Hold(owner)
    BY <1>4, <2>1 DEF PauseProbe, Contract!Hold, eventVars
  <2> QED
    BY <2>1, <2>2 DEF Contract!Next
<1>5. ASSUME NEW t \in Tasks, ResumeProbe(t)
      PROVE  [Contract!Next]_(Contract!vars)
  <2>1. /\ UNCHANGED <<emitted, promised>>
        /\ held' = held \ {owner}
    BY <1>5 DEF ResumeProbe, eventVars
  <2>2. CASE owner \in Runs
    BY <2>1, <2>2 DEF Contract!Next, Contract!Release
  <2>3. CASE owner \notin Runs
    BY <2>1, <2>3 DEF IInv, TypeOK, Contract!vars
  <2> QED
    BY <2>2, <2>3
<1>6. ASSUME NEW t \in Tasks, CancelProbe(t)
      PROVE  [Contract!Next]_(Contract!vars)
  <2>1. owner \in Runs /\ emitted[owner] # <<"completed">>
    BY <1>6, OwnerIsOpen DEF CancelProbe, CancelRun, CanCancel
  <2>2. Contract!Promise(owner)
    BY <1>6, <2>1 DEF CancelProbe, Contract!Promise, eventVars
  <2> QED
    BY <2>1, <2>2 DEF Contract!Next
<1>7. ASSUME NEW t \in Tasks, QueueCancel(t) PROVE UNCHANGED Contract!vars
  BY <1>7 DEF QueueCancel, Contract!vars, eventVars, userVars
<1>8. CASE UNCHANGED vars
  BY <1>8 DEF vars, Contract!vars, eventVars, userVars
<1> QED
  BY <1>1, <1>2, <1>3, <1>4, <1>5, <1>6, <1>7, <1>8, StepCases,
     PublishContract

\* With task ids of their own, runs keep the contract: one end at most, none
\* as completed against an accepted cancel or pause, none as cancelled
\* unasked, and no cancel or pause accepted after the completion.
THEOREM ContractKept == ASSUME UniqueTaskIDs PROVE Spec => ImplementsContract
<1>1. Init => Contract!Init
  BY DEF Init, Contract!Init
<1>2. IInv /\ [Next]_vars => [Contract!Next]_(Contract!vars)
  BY StepContract
<1> QED
  BY <1>1, <1>2, Agreement, PTL DEF Spec, ImplementsContract, Contract!Spec
=============================================================================
