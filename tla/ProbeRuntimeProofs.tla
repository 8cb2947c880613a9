------------------------- MODULE ProbeRuntimeProofs -------------------------
(***************************************************************************)
(* Proofs about ProbeRuntime, for any tasks, callers and workers and any   *)
(* bounds.  Two task ids are told apart only from NoTask; nothing is       *)
(* assumed about how ids are chosen, so they may be used again.            *)
(***************************************************************************)
EXTENDS ProbeRuntime, TLAPS

-----------------------------------------------------------------------------
(* Type correctness.                                                       *)

\* The record of an idle caller and of a worker that does not exist.
LEMMA RestTypes ==
    /\ Idle \in [pc : {"idle", "captured", "queue"},
                 task : Tasks \cup {NoTask},
                 ctx : 0 .. MaxRuns, fns : SUBSET Seqs]
    /\ Gone \in [pc : {"gone", "check", "announce", "blocked", "ready",
                       "request"},
                 task : Tasks \cup {NoTask}, run : 0 .. MaxRuns,
                 seq : 0 .. MaxSeq, announced : BOOLEAN]
  BY BoundsAssumption DEF Idle, Gone, Seqs

\* Waking the waiters changes their position only.
LEMMA BroadcastTypes ==
    ASSUME WorkerTypeOK, Broadcast
    PROVE  WorkerTypeOK'
  BY DEF WorkerTypeOK, Broadcast

\* A caller that leaves a critical section holds a context and interrupts.
LEMMA CapturesTypes ==
    ASSUME CallerTypeOK, NEW c \in Callers,
           NEW ctx \in 0 .. MaxRuns, NEW fns \in SUBSET Seqs,
           Captures(c, ctx, fns)
    PROVE  CallerTypeOK'
  BY RestTypes DEF CallerTypeOK, Captures, Idle

\* Every critical section keeps the control block well typed.
LEMMA ControlTypes ==
    ASSUME ControlTypeOK, NEW t \in Tasks,
           \/ StartRun(t) \/ QueueCancelRun(t) \/ ClearRun(t) \/ PauseRun(t)
           \/ ResumeRun(t) \/ CancelRun(t) \/ CommitRun(t)
           \/ UNCHANGED controlVars
    PROVE  ControlTypeOK'
  BY DEF ControlTypeOK, StartRun, QueueCancelRun, ClearRun, PauseRun,
         ResumeRun, CancelRun, CommitRun, controlVars

\* NewProbeRuntime is well typed.
LEMMA TypeInit == Init => TypeOK
<1> SUFFICES ASSUME Init PROVE TypeOK
  OBVIOUS
<1>1. ControlTypeOK
  BY DEF Init, ControlInit, ControlTypeOK
<1>2. CallerTypeOK
  BY RestTypes DEF Init, CallerTypeOK
<1>3. WorkerTypeOK
  BY RestTypes DEF Init, WorkerTypeOK
<1>4. 0 \in 0 .. MaxRuns /\ 0 \in 0 .. MaxSeq
  BY BoundsAssumption
<1> QED
  BY <1>1, <1>2, <1>3, <1>4 DEF Init, TypeOK

\* Every step of a caller, a worker or an interrupt keeps the types.
LEMMA TypeNext == TypeOK /\ [Next]_vars => TypeOK'
<1> SUFFICES ASSUME TypeOK, [Next]_vars PROVE TypeOK'
  OBVIOUS
<1> USE BoundsAssumption
<1>1. ASSUME NEW c \in Callers, NEW t \in Tasks, Start(c, t) PROVE TypeOK'
  <2>1. ControlTypeOK'
    BY <1>1, ControlTypes DEF TypeOK, Start
  <2>2. WorkerTypeOK'
    BY <1>1, BroadcastTypes DEF TypeOK, Start
  <2> QED
    BY <1>1, <2>1, <2>2 DEF TypeOK, Start, CallerTypeOK, Runs, Seqs
<1>2. ASSUME NEW c \in Callers, NEW t \in Tasks, Clear(c, t) PROVE TypeOK'
  <2>1. ControlTypeOK'
    BY <1>2, ControlTypes DEF TypeOK, Clear
  <2>2. WorkerTypeOK'
    BY <1>2, BroadcastTypes DEF TypeOK, Clear
  <2>3. CallerTypeOK'
    BY <1>2, CapturesTypes DEF TypeOK, Clear
  <2> QED
    BY <1>2, <2>1, <2>2, <2>3 DEF TypeOK, Clear
<1>3. ASSUME NEW c \in Callers, NEW t \in Tasks, Pause(c, t) PROVE TypeOK'
  <2>1. ControlTypeOK'
    BY <1>3, ControlTypes DEF TypeOK, Pause
  <2>2. WorkerTypeOK'
    BY <1>3, BroadcastTypes DEF TypeOK, Pause
  <2>3. CallerTypeOK'
    BY <1>3, CapturesTypes DEF TypeOK, Pause
  <2> QED
    BY <1>3, <2>1, <2>2, <2>3 DEF TypeOK, Pause, runtimeVars
<1>4. ASSUME NEW c \in Callers, NEW t \in Tasks, Resume(c, t) PROVE TypeOK'
  <2>1. ControlTypeOK'
    BY <1>4, ControlTypes DEF TypeOK, Resume
  <2>2. WorkerTypeOK'
    BY <1>4, BroadcastTypes DEF TypeOK, Resume
  <2> QED
    BY <1>4, <2>1, <2>2 DEF TypeOK, Resume, runtimeVars, CallerTypeOK
<1>5. ASSUME NEW c \in Callers, NEW t \in Tasks, Cancel(c, t) PROVE TypeOK'
  <2>1. ControlTypeOK'
    BY <1>5, ControlTypes DEF TypeOK, Cancel
  <2>2. WorkerTypeOK'
    BY <1>5, BroadcastTypes DEF TypeOK, Cancel
  <2>3. CallerTypeOK'
    BY <1>5, CapturesTypes DEF TypeOK, Cancel
  <2> QED
    BY <1>5, <2>1, <2>2, <2>3 DEF TypeOK, Cancel, runtimeVars
<1>6. ASSUME NEW c \in Callers, NEW t \in Tasks, CancelMisses(c, t)
      PROVE  TypeOK'
  <2>1. CallerTypeOK'
    BY <1>6, RestTypes DEF TypeOK, CancelMisses, CallerTypeOK, Idle
  <2> QED
    BY <1>6, <2>1 DEF TypeOK, CancelMisses, ControlTypeOK, WorkerTypeOK,
                      controlVars, runtimeVars
<1>7. ASSUME NEW c \in Callers, CancelQueues(c) PROVE TypeOK'
  <2>1. CallerTypeOK'
    BY <1>7, RestTypes DEF TypeOK, CancelQueues, CallerTypeOK
  <2>2. caller[c].task \in Tasks \cup {NoTask}
    BY DEF TypeOK, CallerTypeOK
  <2>3. ControlTypeOK'
    BY <1>7, <2>2
    DEF TypeOK, CancelQueues, ControlTypeOK, QueueCancelRun, controlVars
  <2> QED
    BY <1>7, <2>1, <2>3 DEF TypeOK, CancelQueues, WorkerTypeOK, runtimeVars
<1>8. ASSUME NEW c \in Callers, NEW t \in Tasks, Commit(c, t) PROVE TypeOK'
  <2>1. ControlTypeOK'
    BY <1>8, ControlTypes DEF TypeOK, Commit
  <2> QED
    BY <1>8, <2>1 DEF TypeOK, Commit, runtimeVars, CallerTypeOK, WorkerTypeOK
<1>9. ASSUME NEW c \in Callers, CancelContext(c) PROVE TypeOK'
  <2>1. caller[c].ctx \in 0 .. MaxRuns /\ caller[c].fns \in SUBSET Seqs
    BY DEF TypeOK, CallerTypeOK
  <2>2. CallerTypeOK'
    BY <1>9, <2>1, CapturesTypes DEF TypeOK, CancelContext
  <2>3. ended' \subseteq Runs
    <3>1. caller[c].ctx \in Runs
      BY <1>9, <2>1 DEF CancelContext, Runs
    <3> QED
      BY <1>9, <3>1 DEF TypeOK, CancelContext
  <2> QED
    BY <1>9, <2>2, <2>3
    DEF TypeOK, CancelContext, ControlTypeOK, WorkerTypeOK, controlVars
<1>10. ASSUME NEW c \in Callers, CallInterrupt(c) PROVE TypeOK'
  <2>1. caller[c].fns \in SUBSET Seqs
    BY DEF TypeOK, CallerTypeOK
  <2>2. PICK s \in caller[c].fns : /\ hit' = hit \cup {s}
                                   /\ Captures(c, 0, caller[c].fns \ {s})
    BY <1>10 DEF CallInterrupt
  <2>3. CallerTypeOK'
    BY <2>1, <2>2, CapturesTypes DEF TypeOK
  <2> QED
    BY <1>10, <2>1, <2>2, <2>3
    DEF TypeOK, CallInterrupt, ControlTypeOK, WorkerTypeOK, controlVars
<1>11. ASSUME NEW w \in Workers,
              Spawn(w) \/ WorkerWait(w) \/ Exit(w)
       PROVE  TypeOK'
  <2>1. WorkerTypeOK'
    <3>1. CASE Spawn(w)
      <4>1. currentTaskID \in Tasks \cup {NoTask} /\ run \in 0 .. MaxRuns
        BY DEF TypeOK, ControlTypeOK
      <4>2. 0 \in 0 .. MaxSeq
        OBVIOUS
      <4> QED
        BY <3>1, <4>1, <4>2 DEF TypeOK, WorkerTypeOK, Spawn, Gone
    <3>2. CASE Check(w)
      BY <3>2 DEF TypeOK, WorkerTypeOK, Check, Moves
    <3>3. CASE Announced(w)
      BY <3>3 DEF TypeOK, WorkerTypeOK, Announced
    <3>4. CASE Exit(w)
      BY <3>4, RestTypes DEF TypeOK, WorkerTypeOK, Exit
    <3> QED
      BY <1>11, <3>1, <3>2, <3>3, <3>4 DEF WorkerWait
  <2> QED
    BY <1>11, <2>1
    DEF TypeOK, ControlTypeOK, CallerTypeOK, controlVars, runtimeVars, Spawn,
        WorkerWait, Check, Announced, Exit
<1>12. ASSUME NEW w \in Workers, Register(w) PROVE TypeOK'
  <2>1. WorkerTypeOK'
    BY <1>12 DEF TypeOK, WorkerTypeOK, Register
  <2>2. /\ interruptSeq' \in 0 .. MaxSeq
        /\ interrupts' \subseteq Seqs
        /\ firing' \subseteq Seqs
    BY <1>12 DEF TypeOK, Register, Seqs
  <2> QED
    BY <1>12, <2>1, <2>2
    DEF TypeOK, Register, ControlTypeOK, CallerTypeOK, controlVars
<1>13. ASSUME NEW w \in Workers, RequestAborted(w) \/ RequestAnswered(w)
       PROVE  TypeOK'
  <2>1. Unregister(w)
    BY <1>13 DEF RequestAborted, RequestAnswered
  <2>2. WorkerTypeOK'
    <3>1. 0 \in 0 .. MaxSeq
      OBVIOUS
    <3> QED
      BY <2>1, <3>1 DEF TypeOK, WorkerTypeOK, Unregister
  <2> QED
    BY <2>1, <2>2 DEF TypeOK, Unregister, ControlTypeOK, CallerTypeOK,
                      controlVars
<1>14. CASE FireInterrupt
  BY <1>14 DEF TypeOK, FireInterrupt, ControlTypeOK, CallerTypeOK,
               WorkerTypeOK, controlVars
<1>15. CASE UNCHANGED vars
  BY <1>15 DEF TypeOK, vars, controlVars, runtimeVars, ControlTypeOK,
               CallerTypeOK, WorkerTypeOK
<1> QED
  BY <1>1, <1>2, <1>3, <1>4, <1>5, <1>6, <1>7, <1>8, <1>9, <1>10, <1>11,
     <1>12, <1>13, <1>14, <1>15
  DEF Next, CallerNext, CallerStep, WorkerNext

\* Type correctness of the runtime and of every goroutine that uses it.
THEOREM RuntimeTypeCorrect == Spec => []TypeOK
  BY TypeInit, TypeNext, PTL DEF Spec

-----------------------------------------------------------------------------
(* The inductive invariant, one lemma for each of its parts.               *)

\* Every step takes at most one of the critical sections.
LEMMA ControlSteps ==
    ASSUME TypeOK, [Next]_vars
    PROVE  \/ UNCHANGED controlVars
           \/ \E t \in Tasks \cup {NoTask} : QueueCancelRun(t)
           \/ \E t \in Tasks : CommitRun(t)
           \/ Broadcast /\ \E t \in Tasks :
                StartRun(t) \/ ClearRun(t) \/ PauseRun(t) \/ ResumeRun(t)
                  \/ CancelRun(t)
<1>1. ASSUME NEW c \in Callers, CallerNext(c)
      PROVE  \/ UNCHANGED controlVars
             \/ \E t \in Tasks \cup {NoTask} : QueueCancelRun(t)
             \/ \E t \in Tasks : CommitRun(t)
             \/ Broadcast /\ \E t \in Tasks :
                  StartRun(t) \/ ClearRun(t) \/ PauseRun(t) \/ ResumeRun(t)
                    \/ CancelRun(t)
  <2>1. caller[c].task \in Tasks \cup {NoTask}
    BY DEF TypeOK, CallerTypeOK
  <2> QED
    BY <1>1, <2>1 DEF CallerNext, CallerStep, Start, Clear, Pause, Resume,
       Cancel, CancelMisses, Commit, CancelQueues, CancelContext,
       CallInterrupt
<1>2. ASSUME NEW w \in Workers, WorkerNext(w) PROVE UNCHANGED controlVars
  BY <1>2 DEF WorkerNext, WorkerWait, Spawn, Check, Announced, Register,
     RequestAborted, RequestAnswered, Unregister, Exit
<1>3. CASE FireInterrupt
  BY <1>3 DEF FireInterrupt
<1>4. CASE UNCHANGED vars
  BY <1>4 DEF vars
<1> QED
  BY <1>1, <1>2, <1>3, <1>4 DEF Next

\* A pause belongs to the task that holds the slot, a free slot has no flag set,
\* and a commit excludes pause and cancel: every critical section keeps this.
LEMMA ControlNext ==
    ASSUME TypeOK, ControlInv, CommitExcludesControl, [Next]_vars
    PROVE  ControlInv' /\ CommitExcludesControl'
<1> USE NoTaskAssumption DEF TypeOK, ControlTypeOK, ControlInv,
                             CommitExcludesControl
<1>1. CASE UNCHANGED controlVars
  BY <1>1 DEF controlVars
<1>2. ASSUME NEW t \in Tasks \cup {NoTask}, QueueCancelRun(t)
      PROVE  ControlInv' /\ CommitExcludesControl'
  BY <1>2 DEF QueueCancelRun
<1>3. ASSUME NEW t \in Tasks, CommitRun(t)
      PROVE  ControlInv' /\ CommitExcludesControl'
  BY <1>3 DEF CommitRun, CanCommit, Paused
<1>4. ASSUME NEW t \in Tasks,
             StartRun(t) \/ ClearRun(t) \/ PauseRun(t) \/ ResumeRun(t)
               \/ CancelRun(t)
      PROVE  ControlInv' /\ CommitExcludesControl'
  BY <1>4 DEF StartRun, ClearRun, PauseRun, ResumeRun, CancelRun, CanPause,
              CanCancel
<1> QED
  BY <1>1, <1>2, <1>3, <1>4, ControlSteps

\* A worker that is asleep after a step was asleep before it, with nothing
\* changed that it waits for, or has just seen its task paused.
LEMMA WakeupNext ==
    ASSUME TypeOK, NoLostWakeup, [Next]_vars
    PROVE  NoLostWakeup'
<1>1. CASE Broadcast
  BY <1>1 DEF Broadcast, NoLostWakeup, TypeOK, WorkerTypeOK
<1>2. ASSUME NEW w \in Workers, Check(w) PROVE NoLostWakeup'
  BY <1>2 DEF Check, Moves, NoLostWakeup, Paused, controlVars, TypeOK,
              WorkerTypeOK
<1>3. ASSUME NEW w \in Workers,
             \/ Spawn(w) \/ Announced(w) \/ Register(w) \/ Exit(w)
             \/ RequestAborted(w) \/ RequestAnswered(w)
      PROVE  NoLostWakeup'
  <2>1. /\ UNCHANGED controlVars
        /\ worker'[w].pc # "blocked"
        /\ \A v \in Workers \ {w} : worker'[v] = worker[v]
    <3> USE DEF TypeOK, WorkerTypeOK, controlVars
    <3>1. CASE Spawn(w)
      BY <3>1 DEF Spawn
    <3>5. CASE Exit(w)
      BY <3>5 DEF Exit, Gone
    <3>2. CASE Announced(w)
      BY <3>2 DEF Announced
    <3>3. CASE Register(w)
      <4>1. CASE currentTaskID = worker[w].task
        BY <3>3, <4>1 DEF Register
      <4>2. CASE currentTaskID # worker[w].task
        BY <3>3, <4>2 DEF Register
      <4> QED
        BY <4>1, <4>2
    <3>4. CASE RequestAborted(w) \/ RequestAnswered(w)
      BY <3>4 DEF RequestAborted, RequestAnswered, Unregister
    <3> QED
      BY <1>3, <3>1, <3>2, <3>3, <3>4, <3>5
  <2> QED
    BY <2>1 DEF NoLostWakeup, Paused, controlVars
<1>4. ASSUME UNCHANGED worker,
             \/ UNCHANGED controlVars
             \/ \E t \in Tasks \cup {NoTask} : QueueCancelRun(t)
             \/ \E t \in Tasks : CommitRun(t)
      PROVE  NoLostWakeup'
  BY <1>4 DEF NoLostWakeup, Paused, controlVars, QueueCancelRun, CommitRun
<1>5. ASSUME NEW c \in Callers, CallerNext(c)
      PROVE  Broadcast \/ UNCHANGED worker
  BY <1>5 DEF CallerNext, CallerStep, Start, Clear, Pause, Resume, Cancel,
     CancelMisses, Commit, CancelQueues, CancelContext, CallInterrupt
<1>6. CASE FireInterrupt \/ UNCHANGED vars
  <2>1. UNCHANGED <<worker, controlVars>>
    BY <1>6 DEF FireInterrupt, vars
  <2> QED
    BY <2>1, <1>4
<1>7. CASE UNCHANGED worker /\ ~Broadcast
  BY <1>4, <1>7, ControlSteps
<1> QED
  BY <1>1, <1>2, <1>3, <1>5, <1>6, <1>7 DEF Next, WorkerNext, WorkerWait

\* Only a caller past its unlock holds anything to cancel or to call.
LEMMA ShapeNext ==
    ASSUME TypeOK, CallerShape, [Next]_vars
    PROVE  CallerShape'
<1>1. CASE UNCHANGED caller
  BY <1>1 DEF CallerShape
<1>2. ASSUME NEW c \in Callers, NEW ctx, NEW fns, Captures(c, ctx, fns)
      PROVE  CallerShape'
  BY <1>2 DEF Captures, CallerShape, Idle, TypeOK, CallerTypeOK
<1>3. ASSUME NEW c \in Callers, NEW t \in Tasks, CancelMisses(c, t)
      PROVE  CallerShape'
  BY <1>3 DEF CancelMisses, CallerShape, Idle, TypeOK, CallerTypeOK
<1>4. ASSUME NEW c \in Callers, CancelQueues(c)
      PROVE  CallerShape'
  BY <1>4 DEF CancelQueues, CallerShape, Idle, TypeOK, CallerTypeOK
<1>5. ASSUME NEW c \in Callers, CallerNext(c) PROVE CallerShape'
  <2>1. ASSUME NEW t \in Tasks, Start(c, t) \/ Resume(c, t) \/ Commit(c, t)
        PROVE  UNCHANGED caller
    BY <2>1 DEF Start, Resume, Commit
  <2>2. ASSUME NEW t \in Tasks, Clear(c, t) \/ Pause(c, t) \/ Cancel(c, t)
        PROVE  \E ctx, fns : Captures(c, ctx, fns)
    BY <2>2 DEF Clear, Pause, Cancel
  <2>3. CancelContext(c) \/ CallInterrupt(c)
          => \E ctx, fns : Captures(c, ctx, fns)
    BY DEF CancelContext, CallInterrupt
  <2> QED
    BY <1>1, <1>2, <1>3, <1>4, <1>5, <2>1, <2>2, <2>3
    DEF CallerNext, CallerStep
<1>6. ASSUME NEW w \in Workers, WorkerNext(w) PROVE UNCHANGED caller
  BY <1>6 DEF WorkerNext, WorkerWait, Spawn, Check, Announced, Register,
     RequestAborted, RequestAnswered, Unregister, Exit
<1>7. CASE FireInterrupt \/ UNCHANGED vars
  BY <1>1, <1>7 DEF FireInterrupt, vars
<1> QED
  BY <1>1, <1>5, <1>6, <1>7 DEF Next

\* Contexts are captured only where a cancel is on record, or where the slot is
\* given up; a new run has a number no caller has seen.
LEMMA ContextNext ==
    ASSUME TypeOK, ControlInv, CallerShape, ContextInv,
           ContextEndsOnlyWhenCancelled, [Next]_vars
    PROVE  ContextInv' /\ ContextEndsOnlyWhenCancelled'
<1> USE BoundsAssumption, NoTaskAssumption
    DEF ContextInv, ContextEndsOnlyWhenCancelled
<1>a. /\ run \in Nat
      /\ \A c \in Callers : caller[c].ctx \in Nat
  BY DEF TypeOK, CallerTypeOK
<1>b. ASSUME NEW c \in Callers, NEW ctx, NEW fns, Captures(c, ctx, fns)
      PROVE  /\ caller'[c].ctx = ctx
             /\ \A d \in Callers \ {c} : caller'[d] = caller[d]
  BY <1>b DEF Captures, Idle, TypeOK, CallerTypeOK
<1>1. ASSUME NEW c \in Callers, NEW t \in Tasks, Start(c, t)
      PROVE  ContextInv' /\ ContextEndsOnlyWhenCancelled'
  <2>1. run' = run + 1 /\ UNCHANGED caller
    BY <1>1 DEF Start
  <2>2. /\ pendingCancelTaskID = t => cancelRequested'
        /\ ended' = IF pendingCancelTaskID = t THEN ended \cup {run'}
                                              ELSE ended
    BY <1>1 DEF Start, StartRun
  <2>3. ended' \subseteq 1 .. run'
    BY <1>a, <2>1, <2>2
  <2>4. ASSUME NEW d \in Callers
        PROVE  caller'[d].ctx <= run' /\ caller'[d].ctx # run'
    <3>1. caller[d].ctx \in Nat /\ caller[d].ctx <= run
      BY <1>a
    <3> QED
      BY <1>a, <2>1, <3>1
  <2>5. run' \in ended' => cancelRequested'
    <3>1. run' \notin ended
      BY <1>a, <2>1
    <3> QED
      BY <2>2, <3>1
  <2> QED
    BY <2>3, <2>4, <2>5
<1>2. ASSUME NEW c \in Callers, NEW t \in Tasks, Clear(c, t)
      PROVE  ContextInv' /\ ContextEndsOnlyWhenCancelled'
  <2>1. currentTaskID' = NoTask /\ run' = run /\ ended' = ended
    BY <1>2 DEF Clear, ClearRun
  <2>2. Captures(c, run, {})
    BY <1>2 DEF Clear
  <2> QED
    BY <1>a, <1>b, <2>1, <2>2
<1>3. ASSUME NEW c \in Callers, NEW t \in Tasks, Pause(c, t)
      PROVE  ContextInv' /\ ContextEndsOnlyWhenCancelled'
  <2>1. UNCHANGED <<currentTaskID, cancelRequested, run, ended>>
    BY <1>3 DEF Pause, PauseRun, runtimeVars
  <2>2. Captures(c, 0, interrupts)
    BY <1>3 DEF Pause
  <2>3. currentTaskID # NoTask => ended \subseteq 1 .. run
    OBVIOUS
  <2>4. caller'[c].ctx = 0
    BY <1>b, <2>2
  <2>5. caller'[c].ctx <= run
    BY <1>a, <2>4
  <2>6. ASSUME run = 0, currentTaskID # NoTask PROVE cancelRequested
    <3>1. caller[c].pc = "idle"
      BY <1>3 DEF Pause
    <3>2. caller[c].ctx = 0
      BY <3>1 DEF CallerShape
    <3> QED
      BY <2>6, <3>2
  <2> QED
    BY <1>a, <1>b, <2>1, <2>2, <2>4, <2>5, <2>6
<1>4. ASSUME NEW c \in Callers, NEW t \in Tasks, Cancel(c, t)
      PROVE  ContextInv' /\ ContextEndsOnlyWhenCancelled'
  <2>1. cancelRequested' /\ run' = run /\ ended' = ended
    BY <1>4 DEF Cancel, CancelRun, runtimeVars
  <2>2. Captures(c, run, interrupts)
    BY <1>4 DEF Cancel
  <2> QED
    BY <1>a, <1>b, <2>1, <2>2
<1>5. ASSUME NEW c \in Callers, NEW t \in Tasks,
             Resume(c, t) \/ Commit(c, t)
      PROVE  ContextInv' /\ ContextEndsOnlyWhenCancelled'
  BY <1>5 DEF Resume, ResumeRun, Commit, CommitRun, runtimeVars
<1>6. ASSUME NEW c \in Callers, NEW t \in Tasks, CancelMisses(c, t)
      PROVE  ContextInv' /\ ContextEndsOnlyWhenCancelled'
  <2>1. UNCHANGED <<currentTaskID, cancelRequested, run, ended>>
    BY <1>6 DEF CancelMisses, controlVars, runtimeVars
  <2>2. /\ caller'[c].ctx = caller[c].ctx
        /\ \A d \in Callers \ {c} : caller'[d] = caller[d]
    BY <1>6 DEF CancelMisses, CallerShape, Idle, TypeOK, CallerTypeOK
  <2> QED
    BY <2>1, <2>2
<1>7. ASSUME NEW c \in Callers, CancelQueues(c)
      PROVE  ContextInv' /\ ContextEndsOnlyWhenCancelled'
  <2>1. UNCHANGED <<currentTaskID, cancelRequested, run, ended>>
    BY <1>7 DEF CancelQueues, QueueCancelRun, controlVars, runtimeVars
  <2>2. /\ caller'[c].ctx = caller[c].ctx
        /\ \A d \in Callers \ {c} : caller'[d] = caller[d]
    BY <1>7 DEF CancelQueues, CallerShape, Idle, TypeOK, CallerTypeOK
  <2> QED
    BY <2>1, <2>2
<1>8. ASSUME NEW c \in Callers, CancelContext(c)
      PROVE  ContextInv' /\ ContextEndsOnlyWhenCancelled'
  <2>1. UNCHANGED <<currentTaskID, cancelRequested, run>>
    BY <1>8 DEF CancelContext, controlVars
  <2>2. ended' = ended \cup {caller[c].ctx} /\ caller[c].ctx \in 1 .. run
    BY <1>8, <1>a DEF CancelContext
  <2>3. /\ caller'[c].ctx = 0
        /\ \A d \in Callers \ {c} : caller'[d] = caller[d]
    <3>1. Captures(c, 0, caller[c].fns)
      BY <1>8 DEF CancelContext
    <3> QED
      BY <1>b, <3>1
  <2>4. ended' \subseteq 1 .. run'
    BY <2>1, <2>2
  <2>5. ASSUME NEW d \in Callers
        PROVE  /\ caller'[d].ctx <= run'
               /\ currentTaskID' # NoTask /\ caller'[d].ctx = run'
                    => cancelRequested'
    <3>1. CASE d = c
      <4>1. run' \in Nat /\ run' >= 1
        BY <1>a, <2>1, <2>2
      <4> QED
        BY <2>3, <3>1, <4>1
    <3>2. CASE d # c
      BY <2>1, <2>3, <3>2
    <3> QED
      BY <3>1, <3>2
  <2>6. currentTaskID' # NoTask /\ run' \in ended' => cancelRequested'
    BY <2>1, <2>2
  <2> QED
    BY <2>4, <2>5, <2>6
<1>9. ASSUME NEW c \in Callers, CallInterrupt(c)
      PROVE  ContextInv' /\ ContextEndsOnlyWhenCancelled'
  <2>1. UNCHANGED <<currentTaskID, cancelRequested, run, ended>>
    BY <1>9 DEF CallInterrupt, controlVars
  <2>2. caller[c].ctx = 0 /\ \E fns : Captures(c, 0, fns)
    BY <1>9 DEF CallInterrupt
  <2> QED
    BY <1>a, <1>b, <2>1, <2>2
<1>10. ASSUME UNCHANGED <<currentTaskID, cancelRequested, run, ended, caller>>
       PROVE  ContextInv' /\ ContextEndsOnlyWhenCancelled'
  BY <1>10
<1>11. ASSUME NEW w \in Workers, WorkerNext(w)
       PROVE  UNCHANGED <<currentTaskID, cancelRequested, run, ended, caller>>
  BY <1>11 DEF WorkerNext, WorkerWait, Spawn, Check, Announced, Register,
     RequestAborted, RequestAnswered, Unregister, Exit, controlVars,
     runtimeVars
<1>12. CASE FireInterrupt \/ UNCHANGED vars
  BY <1>10, <1>12 DEF FireInterrupt, vars, controlVars, runtimeVars
<1> QED
  BY <1>1, <1>2, <1>3, <1>4, <1>5, <1>6, <1>7, <1>8, <1>9, <1>10, <1>11,
     <1>12
  DEF Next, CallerNext, CallerStep

\* What a caller holds when it leaves a critical section.
LEMMA CapturesGives ==
    ASSUME TypeOK, NEW c \in Callers, NEW ctx, NEW fns, Captures(c, ctx, fns)
    PROVE  /\ caller'[c].fns = fns
           /\ \A d \in Callers \ {c} : caller'[d] = caller[d]
  BY DEF Captures, Idle, TypeOK, CallerTypeOK

\* No request begins or ends, and if the slot stays with its run then so do
\* the registrations.
SameRequests ==
    /\ run' \in {run, run + 1}
    /\ interruptSeq' = interruptSeq
    /\ interrupts' \in {interrupts, {}}
    /\ run' = run /\ currentTaskID' # NoTask
         => interrupts' = interrupts /\ currentTaskID' = currentTaskID
    /\ \A w \in Workers :
         /\ worker'[w].task = worker[w].task
         /\ worker'[w].run = worker[w].run
         /\ worker'[w].seq = worker[w].seq
         /\ worker'[w].pc = "gone" <=> worker[w].pc = "gone"
         /\ worker'[w].pc = "request" <=> worker[w].pc = "request"

\* A step that leaves every request as it was keeps RequestInv.
LEMMA SameRequestsKeep ==
    ASSUME TypeOK, RequestInv, SameRequests
    PROVE  RequestInv'
<1>1. run \in Nat /\ \A w \in Workers : worker[w].run \in Nat
  BY BoundsAssumption DEF TypeOK, WorkerTypeOK
<1>2. interrupts' \subseteq 1 .. interruptSeq'
  BY DEF RequestInv, SameRequests
<1>3. ASSUME NEW w \in Workers
      PROVE  /\ worker'[w].run <= run'
             /\ worker'[w].pc # "request" => worker'[w].seq = 0
             /\ worker'[w].seq <= interruptSeq'
             /\ worker'[w].pc # "gone" /\ worker'[w].run = run'
                  /\ currentTaskID' # NoTask
                  => /\ worker'[w].task = currentTaskID'
                     /\ worker'[w].pc = "request"
                          => worker'[w].seq \in interrupts'
  <2>1. worker[w].run \in Nat /\ worker[w].run <= run
    BY <1>1 DEF RequestInv
  <2>2. worker'[w].run = run' => run' = run
    BY <1>1, <2>1 DEF SameRequests
  <2>3. worker'[w].run <= run'
    BY <1>1, <2>1 DEF SameRequests
  <2> QED
    BY <2>2, <2>3 DEF RequestInv, SameRequests
<1>4. \A v, w \in Workers :
         v # w /\ worker'[v].seq # 0 => worker'[v].seq # worker'[w].seq
  BY DEF RequestInv, SameRequests
<1> QED
  BY <1>2, <1>3, <1>4 DEF RequestInv

\* Waking the waiters changes no request.
LEMMA BroadcastSame ==
    ASSUME TypeOK, Broadcast \/ UNCHANGED worker
    PROVE  \A w \in Workers :
             /\ worker'[w].task = worker[w].task
             /\ worker'[w].run = worker[w].run
             /\ worker'[w].seq = worker[w].seq
             /\ worker'[w].pc = "gone" <=> worker[w].pc = "gone"
             /\ worker'[w].pc = "request" <=> worker[w].pc = "request"
<1>1. CASE UNCHANGED worker
  BY <1>1
<1>2. CASE Broadcast
  BY <1>2 DEF Broadcast, TypeOK, WorkerTypeOK
<1> QED
  BY <1>1, <1>2

\* Registration numbers are never handed out twice, and only its own worker,
\* or the end of the run, takes a number out of the registrations.
LEMMA RequestNext ==
    ASSUME TypeOK, ControlInv, RequestInv, [Next]_vars
    PROVE  RequestInv'
<1>a. /\ run \in Nat
      /\ interruptSeq \in Nat
      /\ \A w \in Workers : worker[w].seq \in Nat /\ worker[w].run \in Nat
  BY BoundsAssumption DEF TypeOK, WorkerTypeOK
<1>1. ASSUME NEW c \in Callers, CallerNext(c) PROVE RequestInv'
  <2>1. Broadcast \/ UNCHANGED worker
    BY <1>1 DEF CallerNext, CallerStep, Start, Clear, Pause, Resume, Cancel,
       CancelMisses, Commit, CancelQueues, CancelContext, CallInterrupt
  <2>2. /\ run' \in {run, run + 1}
        /\ interruptSeq' = interruptSeq
        /\ interrupts' \in {interrupts, {}}
        /\ run' = run /\ currentTaskID' # NoTask
             => interrupts' = interrupts /\ currentTaskID' = currentTaskID
    <3>1. ASSUME NEW t \in Tasks, Start(c, t)
          PROVE  /\ run' = run + 1 /\ run' # run
                 /\ interruptSeq' = interruptSeq
                 /\ interrupts' = {}
      BY <1>a, <3>1 DEF Start
    <3>2. ASSUME NEW t \in Tasks, Clear(c, t)
          PROVE  /\ run' = run /\ interruptSeq' = interruptSeq
                 /\ interrupts' = {} /\ currentTaskID' = NoTask
      BY <3>2 DEF Clear, ClearRun
    <3>3. ASSUME NEW t \in Tasks,
                 \/ Pause(c, t) \/ Resume(c, t) \/ Cancel(c, t)
                 \/ CancelMisses(c, t) \/ Commit(c, t)
          PROVE  UNCHANGED <<run, interruptSeq, interrupts, currentTaskID>>
      BY <3>3 DEF Pause, PauseRun, Resume, ResumeRun, Cancel, CancelRun,
                  CancelMisses, Commit, CommitRun, runtimeVars, controlVars
    <3>4. ASSUME CallerStep(c)
          PROVE  UNCHANGED <<run, interruptSeq, interrupts, currentTaskID>>
      BY <3>4 DEF CallerStep, CancelQueues, QueueCancelRun, CancelContext,
                  CallInterrupt, runtimeVars, controlVars
    <3> QED
      BY <1>1, <3>1, <3>2, <3>3, <3>4 DEF CallerNext
  <2> QED
    BY <2>1, <2>2, BroadcastSame, SameRequestsKeep DEF SameRequests
<1>2. ASSUME NEW w \in Workers, WorkerWait(w) PROVE RequestInv'
  <2>1. UNCHANGED <<run, interruptSeq, interrupts, currentTaskID>>
    BY <1>2 DEF WorkerWait, Check, Announced, runtimeVars, controlVars
  <2>2. \A v \in Workers :
          /\ worker'[v].task = worker[v].task
          /\ worker'[v].run = worker[v].run
          /\ worker'[v].seq = worker[v].seq
          /\ worker'[v].pc = "gone" <=> worker[v].pc = "gone"
          /\ worker'[v].pc = "request" <=> worker[v].pc = "request"
    <3> USE DEF TypeOK, WorkerTypeOK
    <3>1. CASE Check(w)
      BY <3>1 DEF Check, Moves
    <3>2. CASE Announced(w)
      BY <3>2 DEF Announced
    <3> QED
      BY <1>2, <3>1, <3>2 DEF WorkerWait
  <2> QED
    BY <2>1, <2>2, SameRequestsKeep DEF SameRequests
<1>3. ASSUME NEW w \in Workers, Spawn(w) PROVE RequestInv'
  <2>1. UNCHANGED <<run, interruptSeq, interrupts, currentTaskID>>
    BY <1>3 DEF Spawn, runtimeVars, controlVars
  <2>2. /\ worker'[w].task = currentTaskID /\ worker'[w].run = run
        /\ worker'[w].pc = "check" /\ worker'[w].seq = 0
        /\ \A v \in Workers \ {w} : worker'[v] = worker[v]
    BY <1>3 DEF Spawn, Gone, TypeOK, WorkerTypeOK
  <2> QED
    BY <1>a, <2>1, <2>2 DEF RequestInv
<1>4. ASSUME NEW w \in Workers, Exit(w) PROVE RequestInv'
  <2>1. UNCHANGED <<run, interruptSeq, interrupts, currentTaskID>>
    BY <1>4 DEF Exit, runtimeVars, controlVars
  <2>2. /\ worker'[w].run = 0 /\ worker'[w].pc = "gone"
        /\ worker'[w].seq = 0
        /\ \A v \in Workers \ {w} : worker'[v] = worker[v]
    BY <1>4 DEF Exit, Gone, TypeOK, WorkerTypeOK
  <2> QED
    BY <1>a, <2>1, <2>2 DEF RequestInv
<1>5. ASSUME NEW w \in Workers, Register(w) PROVE RequestInv'
  <2>1. UNCHANGED <<run, currentTaskID>>
    BY <1>5 DEF Register, controlVars
  <2>2. CASE currentTaskID = worker[w].task
    <3>1. /\ interruptSeq' = interruptSeq + 1
          /\ interrupts' = interrupts \cup {interruptSeq'}
          /\ \A v \in Workers \ {w} : worker'[v] = worker[v]
      BY <1>5, <2>2 DEF Register, TypeOK, WorkerTypeOK
    <3>2. /\ worker'[w].pc = "request" /\ worker'[w].seq = interruptSeq'
          /\ worker'[w].task = worker[w].task
          /\ worker'[w].run = worker[w].run
      BY <1>5, <2>2 DEF Register, TypeOK, WorkerTypeOK
    <3>3. \A v \in Workers : worker[v].seq < interruptSeq'
      BY <1>a, <3>1 DEF RequestInv
    <3>4. interrupts' \subseteq 1 .. interruptSeq'
      BY <1>a, <3>1 DEF RequestInv
    <3>5. ASSUME NEW u \in Workers, NEW v \in Workers,
                 u # v, worker'[u].seq # 0
          PROVE  worker'[u].seq # worker'[v].seq
      <4>1. CASE u = w
        BY <1>a, <3>1, <3>2, <3>3, <3>5, <4>1
      <4>2. CASE v = w
        BY <1>a, <3>1, <3>2, <3>3, <3>5, <4>2
      <4>3. CASE u # w /\ v # w
        BY <3>1, <3>5, <4>3 DEF RequestInv
      <4> QED
        BY <4>1, <4>2, <4>3
    <3>6. ASSUME NEW v \in Workers
          PROVE  /\ worker'[v].run <= run'
                 /\ worker'[v].pc # "request" => worker'[v].seq = 0
                 /\ worker'[v].seq <= interruptSeq'
                 /\ worker'[v].pc # "gone" /\ worker'[v].run = run'
                      /\ currentTaskID' # NoTask
                      => /\ worker'[v].task = currentTaskID'
                         /\ worker'[v].pc = "request"
                              => worker'[v].seq \in interrupts'
      <4>1. CASE v = w
        <5>1. worker'[v].run <= run'
          BY <2>1, <3>2, <4>1 DEF RequestInv
        <5>2. worker'[v].seq <= interruptSeq'
          BY <1>a, <3>1, <3>2, <4>1
        <5>3. worker'[v].seq \in interrupts'
          BY <3>1, <3>2, <4>1
        <5>4. worker'[v].task = currentTaskID'
          BY <2>1, <2>2, <3>2, <4>1
        <5> QED
          BY <3>2, <4>1, <5>1, <5>2, <5>3, <5>4
      <4>2. CASE v # w
        BY <1>a, <2>1, <3>1, <3>3, <4>2 DEF RequestInv
      <4> QED
        BY <4>1, <4>2
    <3> QED
      BY <3>4, <3>5, <3>6 DEF RequestInv
  <2>3. CASE currentTaskID # worker[w].task
    <3>1. /\ UNCHANGED <<interruptSeq, interrupts>>
          /\ \A v \in Workers \ {w} : worker'[v] = worker[v]
      BY <1>5, <2>3 DEF Register, TypeOK, WorkerTypeOK
    <3>2. /\ worker'[w].pc = "request" /\ worker'[w].seq = worker[w].seq
          /\ worker'[w].task = worker[w].task
          /\ worker'[w].run = worker[w].run
      BY <1>5, <2>3 DEF Register, TypeOK, WorkerTypeOK
    <3>3. worker[w].pc = "ready"
      BY <1>5 DEF Register
    <3>4. worker[w].run = run => currentTaskID = NoTask
      BY <2>3, <3>3 DEF RequestInv
    <3>5. \A v \in Workers : worker'[v].seq = worker[v].seq
      BY <3>1, <3>2
    <3>6. \A u, v \in Workers :
            u # v /\ worker'[u].seq # 0 => worker'[u].seq # worker'[v].seq
      BY <3>5 DEF RequestInv
    <3>7. ASSUME NEW v \in Workers
          PROVE  /\ worker'[v].run <= run'
                 /\ worker'[v].pc # "request" => worker'[v].seq = 0
                 /\ worker'[v].seq <= interruptSeq'
                 /\ worker'[v].pc # "gone" /\ worker'[v].run = run'
                      /\ currentTaskID' # NoTask
                      => /\ worker'[v].task = currentTaskID'
                         /\ worker'[v].pc = "request"
                              => worker'[v].seq \in interrupts'
      <4>1. CASE v = w
        BY <2>1, <3>1, <3>2, <3>4, <4>1 DEF RequestInv
      <4>2. CASE v # w
        BY <2>1, <3>1, <4>2 DEF RequestInv
      <4> QED
        BY <4>1, <4>2
    <3>8. interrupts' \subseteq 1 .. interruptSeq'
      BY <3>1 DEF RequestInv
    <3> QED
      BY <3>6, <3>7, <3>8 DEF RequestInv
  <2> QED
    BY <2>2, <2>3
<1>6. ASSUME NEW w \in Workers, worker[w].pc = "request", Unregister(w)
      PROVE  RequestInv'
  <2>1. UNCHANGED <<run, interruptSeq, currentTaskID>>
    BY <1>6 DEF Unregister, controlVars
  <2>2. /\ interrupts' \subseteq interrupts
        /\ interrupts \subseteq interrupts' \cup {worker[w].seq}
    BY <1>6 DEF Unregister
  <2>3. /\ worker'[w].pc = "check" /\ worker'[w].seq = 0
        /\ worker'[w].task = worker[w].task
        /\ worker'[w].run = worker[w].run
        /\ \A v \in Workers \ {w} : worker'[v] = worker[v]
    BY <1>6 DEF Unregister, TypeOK, WorkerTypeOK
  <2>4. ASSUME NEW v \in Workers \ {w}, worker[v].seq \in interrupts
        PROVE  worker[v].seq \in interrupts'
    <3>1. worker[v].seq # 0
      BY <1>a, <2>4 DEF RequestInv
    <3>2. worker[v].seq # worker[w].seq
      BY <3>1 DEF RequestInv
    <3> QED
      BY <2>2, <2>4, <3>2
  <2>5. interrupts' \subseteq 1 .. interruptSeq'
    BY <2>1, <2>2 DEF RequestInv
  <2>6. ASSUME NEW u \in Workers, NEW v \in Workers,
               u # v, worker'[u].seq # 0
        PROVE  worker'[u].seq # worker'[v].seq
    BY <2>3, <2>6 DEF RequestInv
  <2>7. ASSUME NEW v \in Workers
        PROVE  /\ worker'[v].run <= run'
               /\ worker'[v].pc # "request" => worker'[v].seq = 0
               /\ worker'[v].seq <= interruptSeq'
               /\ worker'[v].pc # "gone" /\ worker'[v].run = run'
                    /\ currentTaskID' # NoTask
                    => /\ worker'[v].task = currentTaskID'
                       /\ worker'[v].pc = "request"
                            => worker'[v].seq \in interrupts'
    <3>1. CASE v = w
      BY <1>a, <1>6, <2>1, <2>3, <3>1 DEF RequestInv
    <3>2. CASE v # w
      BY <2>1, <2>3, <2>4, <3>2 DEF RequestInv
    <3> QED
      BY <3>1, <3>2
  <2> QED
    BY <2>5, <2>6, <2>7 DEF RequestInv
<1>7. CASE FireInterrupt \/ UNCHANGED vars
  <2>1. UNCHANGED <<run, interruptSeq, interrupts, currentTaskID, worker>>
    BY <1>7 DEF FireInterrupt, vars, runtimeVars, controlVars
  <2> QED
    BY <2>1, BroadcastSame, SameRequestsKeep DEF SameRequests
<1> QED
  BY <1>1, <1>2, <1>3, <1>4, <1>5, <1>6, <1>7
  DEF Next, WorkerNext, RequestAborted, RequestAnswered

\* A number whose interrupt has been called, or that a goroutine is going to
\* call.
Covered(s) ==
    s \in hit \/ s \in firing \/ \E c \in Callers : s \in caller[c].fns

\* The two ways to say that an interrupt is called or going to be.
LEMMA CoveredIs ==
    /\ \A s : s \in hit \cup Scheduled <=> Covered(s)
    /\ \A s : (s \in hit \cup Scheduled)' <=> Covered(s)'
<1>1. \A s : s \in hit \cup Scheduled <=> Covered(s)
  BY DEF Covered, Scheduled
<1>2. \A s : (s \in hit \cup Scheduled)' <=> Covered(s)'
  BY DEF Covered, Scheduled
<1> QED
  BY <1>1, <1>2

\* Whatever a critical section finds registered under a pause or a cancel it
\* takes with it, and what is registered under one is fired at once.
LEMMA InterruptNext ==
    ASSUME TypeOK, CallerShape, InterruptInv, [Next]_vars
    PROVE  InterruptInv'
<1>a. pauseRequested \/ cancelRequested => \A s \in interrupts : Covered(s)
  BY CoveredIs DEF InterruptInv
<1> SUFFICES ASSUME pauseRequested' \/ cancelRequested',
                    NEW s \in interrupts'
             PROVE  Covered(s)'
  BY CoveredIs DEF InterruptInv
<1>b. ASSUME pauseRequested \/ cancelRequested, s \in interrupts,
             UNCHANGED <<firing, hit>>,
             \A c \in Callers : caller'[c].fns = caller[c].fns
      PROVE  Covered(s)'
  BY <1>a, <1>b DEF Covered
<1>1. ASSUME NEW c \in Callers, NEW t \in Tasks, Start(c, t) \/ Clear(c, t)
      PROVE  FALSE
  BY <1>1 DEF Start, Clear
<1>2. ASSUME NEW c \in Callers, NEW t \in Tasks, Pause(c, t) \/ Cancel(c, t)
      PROVE  Covered(s)'
  <2>1. interrupts' = interrupts /\ \E ctx : Captures(c, ctx, interrupts)
    BY <1>2 DEF Pause, Cancel, runtimeVars
  <2>2. caller'[c].fns = interrupts
    BY <2>1, CapturesGives
  <2> QED
    BY <2>1, <2>2 DEF Covered
<1>3. ASSUME NEW c \in Callers, NEW t \in Tasks, Resume(c, t) \/ Commit(c, t)
      PROVE  Covered(s)'
  <2>1. /\ UNCHANGED <<caller, interrupts, firing, hit>>
        /\ pauseRequested \/ cancelRequested
    BY <1>3 DEF Resume, ResumeRun, Commit, CommitRun, runtimeVars
  <2> QED
    BY <1>b, <2>1
<1>4. ASSUME NEW c \in Callers,
             CancelQueues(c) \/ \E t \in Tasks : CancelMisses(c, t)
      PROVE  Covered(s)'
  <2>1. /\ UNCHANGED <<interrupts, firing, hit>>
        /\ pauseRequested \/ cancelRequested
    BY <1>4 DEF CancelQueues, QueueCancelRun, CancelMisses, runtimeVars,
                controlVars
  <2>2. caller[c].fns = {}
    BY <1>4 DEF CancelQueues, CancelMisses, CallerShape
  <2>3. /\ caller'[c].fns = {}
        /\ \A d \in Callers \ {c} : caller'[d] = caller[d]
    <3> USE DEF Idle, TypeOK, CallerTypeOK
    <3>1. CASE CancelQueues(c)
      BY <3>1 DEF CancelQueues
    <3>2. ASSUME NEW t \in Tasks, CancelMisses(c, t)
          PROVE  /\ caller'[c].fns = {}
                 /\ \A d \in Callers \ {c} : caller'[d] = caller[d]
      BY <3>2 DEF CancelMisses
    <3> QED
      BY <1>4, <3>1, <3>2
  <2> QED
    BY <1>b, <2>1, <2>2, <2>3
<1>5. ASSUME NEW c \in Callers, CancelContext(c) PROVE Covered(s)'
  <2>1. /\ UNCHANGED <<interrupts, firing, hit>>
        /\ pauseRequested \/ cancelRequested
        /\ Captures(c, 0, caller[c].fns)
    BY <1>5 DEF CancelContext, controlVars
  <2>2. \A d \in Callers : caller'[d].fns = caller[d].fns
    BY <2>1, CapturesGives
  <2> QED
    BY <1>b, <2>1, <2>2
<1>6. ASSUME NEW c \in Callers, CallInterrupt(c) PROVE Covered(s)'
  <2>1. /\ UNCHANGED <<interrupts, firing>>
        /\ pauseRequested \/ cancelRequested
    BY <1>6 DEF CallInterrupt, controlVars
  <2>2. PICK x \in caller[c].fns : /\ hit' = hit \cup {x}
                                   /\ Captures(c, 0, caller[c].fns \ {x})
    BY <1>6 DEF CallInterrupt
  <2>3. /\ caller'[c].fns = caller[c].fns \ {x}
        /\ \A d \in Callers \ {c} : caller'[d] = caller[d]
    BY <2>2, CapturesGives
  <2> QED
    BY <1>a, <2>1, <2>2, <2>3 DEF Covered
<1>7. ASSUME NEW w \in Workers, Register(w) PROVE Covered(s)'
  <2>1. UNCHANGED <<pauseRequested, cancelRequested, hit, caller>>
    BY <1>7 DEF Register, controlVars
  <2>2. CASE s \in interrupts
    <3>1. firing \subseteq firing'
      BY <1>7 DEF Register
    <3> QED
      BY <1>a, <2>1, <2>2, <3>1 DEF Covered
  <2>3. CASE s \notin interrupts
    <3>1. s \in firing'
      BY <1>7, <2>1, <2>3 DEF Register
    <3> QED
      BY <3>1 DEF Covered
  <2> QED
    BY <2>2, <2>3
<1>8. ASSUME NEW w \in Workers,
             \/ Spawn(w) \/ WorkerWait(w) \/ Exit(w) \/ Unregister(w)
      PROVE  Covered(s)'
  <2>1. /\ UNCHANGED <<pauseRequested, cancelRequested, hit, firing, caller>>
        /\ interrupts' \subseteq interrupts
    BY <1>8 DEF Spawn, WorkerWait, Check, Announced, Exit, Unregister,
                controlVars, runtimeVars
  <2> QED
    BY <1>b, <2>1
<1>9. CASE FireInterrupt
  <2>1. UNCHANGED <<pauseRequested, cancelRequested, interrupts, caller>>
    BY <1>9 DEF FireInterrupt, controlVars
  <2>2. firing \cup hit \subseteq firing' \cup hit'
    BY <1>9 DEF FireInterrupt
  <2> QED
    BY <1>a, <2>1, <2>2 DEF Covered
<1>10. CASE UNCHANGED vars
  BY <1>b, <1>10 DEF vars, controlVars, runtimeVars
<1> QED
  BY <1>1, <1>2, <1>3, <1>4, <1>5, <1>6, <1>7, <1>8, <1>9, <1>10
  DEF Next, CallerNext, CallerStep, WorkerNext, RequestAborted,
      RequestAnswered

\* The inductive invariant holds of a new runtime.
LEMMA InvInit == Init => IInv
<1> SUFFICES ASSUME Init PROVE IInv
  OBVIOUS
<1>1. TypeOK
  BY TypeInit
<1>2. \A c \in Callers : caller[c] = Idle
  BY DEF Init
<1>3. \A w \in Workers : worker[w] = Gone
  BY DEF Init
<1>4. ControlInv /\ CommitExcludesControl
  BY DEF Init, ControlInit, ControlInv, CommitExcludesControl
<1>5. NoLostWakeup
  BY <1>3 DEF NoLostWakeup, Gone
<1>6. CallerShape
  BY <1>2 DEF CallerShape, Idle
<1>7. ContextInv /\ ContextEndsOnlyWhenCancelled
  BY <1>2 DEF Init, ControlInit, ContextInv, ContextEndsOnlyWhenCancelled,
              Idle
<1>8. RequestInv
  BY <1>3 DEF Init, RequestInv, Gone
<1>9. InterruptInv
  BY DEF Init, ControlInit, InterruptInv
<1> QED
  BY <1>1, <1>4, <1>5, <1>6, <1>7, <1>8, <1>9 DEF IInv

\* Every step keeps the inductive invariant.
LEMMA InvNext == IInv /\ [Next]_vars => IInv'
  BY TypeNext, ControlNext, WakeupNext, ShapeNext, ContextNext, RequestNext,
     InterruptNext
  DEF IInv

\* The inductive invariant holds of every behaviour of the runtime.
THEOREM RuntimeInvariant == Spec => []IInv
  BY InvInit, InvNext, PTL DEF Spec

-----------------------------------------------------------------------------
(* What follows from it.                                                   *)

\* No worker sleeps through the end of its pause: Start, Clear, Resume and
\* Cancel broadcast whenever they end one (probe_runtime.go:269-283).
THEOREM RuntimeNoLostWakeup == Spec => []NoLostWakeup
  BY RuntimeInvariant, PTL DEF IInv

\* The captured context a method cancels after the unlock is never that of a
\* run nobody cancelled (probe_runtime.go:91-111, 179-210).
THEOREM RuntimeContext == Spec => []ContextEndsOnlyWhenCancelled
  BY RuntimeInvariant, PTL DEF IInv

\* Completion commits against pause and cancel, and they against it
\* (probe_runtime.go:134-159, 179-235).
THEOREM RuntimeCommit == Spec => []CommitExcludesControl
  BY RuntimeInvariant, PTL DEF IInv

\* A request in flight under a pause or a cancel has been aborted or is going
\* to be (probe_runtime.go:237-267).
THEOREM RuntimeInterrupts == Spec => []EveryRequestInterrupted
<1>1. IInv => EveryRequestInterrupted
  BY DEF IInv, RequestInv, InterruptInv, EveryRequestInterrupted
<1> QED
  BY <1>1, RuntimeInvariant, PTL

\* A cancel of the run that holds the slot is not taken back
\* (probe_runtime.go:134-177, 179-210).
THEOREM RuntimeCancelSticks == Spec => CancelSticks
<1>1. TypeOK /\ [Next]_vars
        => [cancelRequested /\ currentTaskID' = currentTaskID /\ run' = run
              => cancelRequested']_vars
  <2> SUFFICES ASSUME TypeOK, [Next]_vars, cancelRequested,
                      currentTaskID' = currentTaskID
               PROVE  cancelRequested'
    OBVIOUS
  <2> USE NoTaskAssumption
  <2>1. \A t \in Tasks : ~StartRun(t) /\ ~ClearRun(t)
    BY DEF StartRun, ClearRun
  <2> QED
    BY <2>1, ControlSteps
    DEF controlVars, QueueCancelRun, CommitRun, PauseRun, ResumeRun,
        CancelRun
<1> QED
  BY <1>1, RuntimeTypeCorrect, PTL DEF Spec, CancelSticks
=============================================================================
