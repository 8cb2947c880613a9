---------------------------- MODULE ProbeRuntime ----------------------------
(***************************************************************************)
(* appcore.ProbeRuntime with the goroutines that meet in it: callers of    *)
(* its methods (the runner, and the user's pause, resume and cancel), and  *)
(* the workers of a run, which wait on the condition variable while paused *)
(* and register an interrupt for each request in flight.                   *)
(*                                                                         *)
(* The critical sections are atomic.  What a method does after the unlock  *)
(* (cancelling the context it captured, calling the interrupts it          *)
(* captured, queueing a cancel that found no run) are steps of their own.  *)
(* A run is known by its number: its context is the number, and a task id  *)
(* may be used by one run after another.                                   *)
(***************************************************************************)
EXTENDS ProbeControl, Integers, FiniteSets

CONSTANTS
    Callers,   \* goroutines that call the exported methods
    Workers,   \* worker goroutines of a probe
    MaxRuns,   \* bound: runs started
    MaxSeq     \* bound: interrupts registered

ASSUME BoundsAssumption == MaxRuns \in Nat /\ MaxSeq \in Nat

VARIABLES
    run,           \* number of the last run started; its context is ctx(run)
    ended,         \* the runs whose context has been cancelled
    interruptSeq,  \* the last interrupt number handed out
    interrupts,    \* the numbers registered, r.interrupts
    firing,        \* interrupts to be called by a goroutine of their own
    hit,           \* interrupts that have been called
    caller,        \* what each caller still has to do after its unlock
    worker         \* where each worker is

runtimeVars == <<run, ended, interruptSeq, interrupts, firing, hit>>
vars == <<controlVars, runtimeVars, caller, worker>>

Seqs == 1 .. MaxSeq
Runs == 1 .. MaxRuns

Idle == [pc |-> "idle", task |-> NoTask, ctx |-> 0, fns |-> {}]
Gone == [pc |-> "gone", task |-> NoTask, run |-> 0, seq |-> 0,
         announced |-> FALSE]

\* Parked: a caller holding captured functions, or about to queue a cancel.
\* The pc of a worker: gone (no such goroutine), check (holding the lock, at
\* the loop condition of WaitWhilePaused), announce (in onPaused, unlocked),
\* blocked (in cond.Wait), ready (past the wait), request (in flight).
CallerTypeOK ==
    caller \in [Callers -> [pc : {"idle", "captured", "queue"},
                            task : Tasks \cup {NoTask},
                            ctx : 0 .. MaxRuns,
                            fns : SUBSET Seqs]]

WorkerTypeOK ==
    worker \in [Workers -> [pc : {"gone", "check", "announce", "blocked",
                                  "ready", "request"},
                            task : Tasks \cup {NoTask},
                            run : 0 .. MaxRuns,
                            seq : 0 .. MaxSeq,
                            announced : BOOLEAN]]

TypeOK ==
    /\ ControlTypeOK
    /\ run \in 0 .. MaxRuns
    /\ ended \subseteq Runs
    /\ interruptSeq \in 0 .. MaxSeq
    /\ interrupts \subseteq Seqs
    /\ firing \subseteq Seqs
    /\ hit \subseteq Seqs
    /\ CallerTypeOK
    /\ WorkerTypeOK

Init ==
    /\ ControlInit
    /\ run = 0
    /\ ended = {}
    /\ interruptSeq = 0
    /\ interrupts = {}
    /\ firing = {}
    /\ hit = {}
    /\ caller = [c \in Callers |-> Idle]
    /\ worker = [w \in Workers |-> Gone]

-----------------------------------------------------------------------------
(* Callers.                                                                *)

\* cond.Broadcast: every blocked worker goes back to the loop condition.
Broadcast ==
    worker' = [w \in Workers |->
                 IF worker[w].pc = "blocked"
                 THEN [worker[w] EXCEPT !.pc = "check"] ELSE worker[w]]

\* A caller leaves the critical section with a context to cancel (0: none)
\* and interrupts to call.
Captures(c, ctx, fns) ==
    caller' = [caller EXCEPT ![c] =
                 IF ctx = 0 /\ fns = {} THEN Idle
                 ELSE [Idle EXCEPT !.pc = "captured", !.ctx = ctx,
                                   !.fns = fns]]

Start(c, t) ==
    /\ caller[c].pc = "idle"
    /\ run < MaxRuns
    /\ StartRun(t)
    /\ run' = run + 1
    /\ ended' = IF pendingCancelTaskID = t THEN ended \cup {run'} ELSE ended
    /\ interrupts' = {}
    /\ Broadcast
    /\ UNCHANGED <<interruptSeq, firing, hit, caller>>

Clear(c, t) ==
    /\ caller[c].pc = "idle"
    /\ ClearRun(t)
    /\ interrupts' = {}
    /\ Captures(c, run, {})
    /\ Broadcast
    /\ UNCHANGED <<run, ended, interruptSeq, firing, hit>>

\* Mutant: Pause leaves the requests in flight alone.
PauseSpares(c, t) ==
    /\ caller[c].pc = "idle"
    /\ PauseRun(t)
    /\ Captures(c, 0, {})
    /\ Broadcast
    /\ UNCHANGED runtimeVars

Pause(c, t) ==
    /\ caller[c].pc = "idle"
    /\ PauseRun(t)
    /\ Captures(c, 0, interrupts)
    /\ Broadcast
    /\ UNCHANGED runtimeVars

\* Mutant: Resume does not wake the waiters.
ResumeQuietly(c, t) ==
    /\ caller[c].pc = "idle"
    /\ ResumeRun(t)
    /\ UNCHANGED <<runtimeVars, caller, worker>>

Resume(c, t) ==
    /\ caller[c].pc = "idle"
    /\ ResumeRun(t)
    /\ Broadcast
    /\ UNCHANGED <<runtimeVars, caller>>

\* CancelProbe, when Cancel finds the run.
Cancel(c, t) ==
    /\ caller[c].pc = "idle"
    /\ CancelRun(t)
    /\ Captures(c, run, interrupts)
    /\ Broadcast
    /\ UNCHANGED runtimeVars

\* CancelProbe, when Cancel finds no run of t to cancel: it goes on to read
\* the state and, if the slot is free, to queue the cancel.
CancelMisses(c, t) ==
    /\ caller[c].pc = "idle"
    /\ ~CanCancel(t)
    /\ caller' = [caller EXCEPT ![c] = [Idle EXCEPT !.pc = "queue",
                                                    !.task = t]]
    /\ UNCHANGED <<controlVars, runtimeVars, worker>>

CancelQueues(c) ==
    /\ caller[c].pc = "queue"
    /\ \/ QueueCancelRun(caller[c].task)
       \/ currentTaskID # NoTask /\ UNCHANGED controlVars
    /\ caller' = [caller EXCEPT ![c] = Idle]
    /\ UNCHANGED <<runtimeVars, worker>>

Commit(c, t) ==
    /\ caller[c].pc = "idle"
    /\ CommitRun(t)
    /\ UNCHANGED <<runtimeVars, caller, worker>>

\* Mutant: r.cancel is read after the unlock instead of being captured.
CancelContextLate(c) ==
    /\ caller[c].pc = "captured"
    /\ caller[c].ctx # 0
    /\ ended' = ended \cup {run}
    /\ Captures(c, 0, caller[c].fns)
    /\ UNCHANGED <<controlVars, run, interruptSeq, interrupts, firing, hit,
                   worker>>

\* After the unlock: the captured context first, then each interrupt.
CancelContext(c) ==
    /\ caller[c].pc = "captured"
    /\ caller[c].ctx # 0
    /\ ended' = ended \cup {caller[c].ctx}
    /\ Captures(c, 0, caller[c].fns)
    /\ UNCHANGED <<controlVars, run, interruptSeq, interrupts, firing, hit,
                   worker>>

CallInterrupt(c) ==
    /\ caller[c].pc = "captured"
    /\ caller[c].ctx = 0
    /\ \E s \in caller[c].fns :
         /\ hit' = hit \cup {s}
         /\ Captures(c, 0, caller[c].fns \ {s})
    /\ UNCHANGED <<controlVars, run, ended, interruptSeq, interrupts, firing,
                   worker>>

-----------------------------------------------------------------------------
(* Workers.                                                                *)

Moves(w, pc) == worker' = [worker EXCEPT ![w].pc = pc]

\* A goroutine of the current run comes to a safe point.
Spawn(w) ==
    /\ worker[w].pc = "gone"
    /\ currentTaskID # NoTask
    /\ worker' = [worker EXCEPT ![w] =
                    [Gone EXCEPT !.pc = "check", !.task = currentTaskID,
                                 !.run = run]]
    /\ UNCHANGED <<controlVars, runtimeVars, caller>>

\* One turn of the loop of WaitWhilePaused.
Check(w) ==
    /\ worker[w].pc = "check"
    /\ \/ /\ ~Paused(worker[w].task)
          /\ worker' = [worker EXCEPT ![w].pc = "ready",
                                      ![w].announced = FALSE]
       \/ Paused(worker[w].task) /\ ~worker[w].announced
          /\ Moves(w, "announce")
       \/ Paused(worker[w].task) /\ worker[w].announced
          /\ Moves(w, "blocked")
    /\ UNCHANGED <<controlVars, runtimeVars, caller>>

\* onPaused returns and the lock is taken again.
Announced(w) ==
    /\ worker[w].pc = "announce"
    /\ worker' = [worker EXCEPT ![w].pc = "check", ![w].announced = TRUE]
    /\ UNCHANGED <<controlVars, runtimeVars, caller>>

\* Mutant: the interrupt is registered under the number before the increment.
RegisterEarly(w) ==
    /\ worker[w].pc = "ready"
    /\ currentTaskID = worker[w].task
    /\ interruptSeq < MaxSeq
    /\ interruptSeq' = interruptSeq + 1
    /\ interrupts' = interrupts \cup {interruptSeq}
    /\ worker' = [worker EXCEPT ![w].pc = "request", ![w].seq = interruptSeq]
    /\ UNCHANGED <<controlVars, run, ended, firing, hit, caller>>

\* Mutant: a request registered under a pause or a cancel is not interrupted.
RegisterUnfired(w) ==
    /\ worker[w].pc = "ready"
    /\ currentTaskID = worker[w].task
    /\ interruptSeq < MaxSeq
    /\ interruptSeq' = interruptSeq + 1
    /\ interrupts' = interrupts \cup {interruptSeq'}
    /\ worker' = [worker EXCEPT ![w].pc = "request", ![w].seq = interruptSeq']
    /\ UNCHANGED <<controlVars, run, ended, firing, hit, caller>>

\* RegisterInterrupt, just before the request is sent.  For a task that no
\* longer holds the slot nothing is registered.
Register(w) ==
    /\ worker[w].pc = "ready"
    /\ IF currentTaskID = worker[w].task
       THEN /\ interruptSeq < MaxSeq
            /\ interruptSeq' = interruptSeq + 1
            /\ interrupts' = interrupts \cup {interruptSeq'}
            /\ firing' = IF pauseRequested \/ cancelRequested
                         THEN firing \cup {interruptSeq'} ELSE firing
            /\ worker' = [worker EXCEPT ![w].pc = "request",
                                        ![w].seq = interruptSeq']
       ELSE /\ worker' = [worker EXCEPT ![w].pc = "request"]
            /\ UNCHANGED <<interruptSeq, interrupts, firing>>
    /\ UNCHANGED <<controlVars, run, ended, hit, caller>>

\* The goroutine that RegisterInterrupt started.
FireInterrupt ==
    \E s \in firing :
      /\ firing' = firing \ {s}
      /\ hit' = hit \cup {s}
      /\ UNCHANGED <<controlVars, run, ended, interruptSeq, interrupts,
                     caller, worker>>

\* The request is over and its deferred unregister runs; the worker comes
\* back to its safe point for the next attempt or candidate.
Unregister(w) ==
    /\ interrupts' = IF currentTaskID = worker[w].task
                     THEN interrupts \ {worker[w].seq} ELSE interrupts
    /\ worker' = [worker EXCEPT ![w].pc = "check", ![w].seq = 0]
    /\ UNCHANGED <<controlVars, run, ended, interruptSeq, firing, hit,
                   caller>>

Aborted(w) == worker[w].seq \in hit \/ worker[w].run \in ended

RequestAborted(w) ==
    /\ worker[w].pc = "request"
    /\ Aborted(w)
    /\ Unregister(w)

RequestAnswered(w) ==
    /\ worker[w].pc = "request"
    /\ Unregister(w)

\* The worker has nothing left to do, or sees that the run is cancelled.
Exit(w) ==
    /\ worker[w].pc = "ready"
    /\ worker' = [worker EXCEPT ![w] = Gone]
    /\ UNCHANGED <<controlVars, runtimeVars, caller>>

CallerStep(c) ==
    CancelQueues(c) \/ CancelContext(c) \/ CallInterrupt(c)

CallerNext(c) ==
    \/ \E t \in Tasks :
         \/ Start(c, t)
         \/ Clear(c, t)
         \/ Pause(c, t)
         \/ Resume(c, t)
         \/ Cancel(c, t)
         \/ CancelMisses(c, t)
         \/ Commit(c, t)
    \/ CallerStep(c)

WorkerWait(w) == Check(w) \/ Announced(w)

WorkerNext(w) ==
    \/ Spawn(w)
    \/ WorkerWait(w)
    \/ Register(w)
    \/ RequestAborted(w)
    \/ RequestAnswered(w)
    \/ Exit(w)

Next ==
    \/ \E c \in Callers : CallerNext(c)
    \/ \E w \in Workers : WorkerNext(w)
    \/ FireInterrupt

\* Goroutines that can run do run: a method goes on to the calls it makes
\* after its unlock, the interrupt goroutines are scheduled, a waiter that was
\* woken takes the lock, an aborted request returns.  Nothing is assumed of the
\* user, of when a run ends or of requests that nobody aborts.
Fairness ==
    /\ \A c \in Callers : WF_vars(CallerStep(c))
    /\ \A w \in Workers : WF_vars(WorkerWait(w)) /\ WF_vars(RequestAborted(w))
    /\ WF_vars(FireInterrupt)

Spec == Init /\ [][Next]_vars /\ Fairness

-----------------------------------------------------------------------------
(* Properties.                                                             *)

\* No lost wakeup: whoever is asleep in cond.Wait is asleep because its own
\* task is paused right now.  Start, Clear, Resume and Cancel each end a pause
\* and each must broadcast (probe_runtime.go:73, 105, 175, 203).
NoLostWakeup ==
    \A w \in Workers : worker[w].pc = "blocked" => Paused(worker[w].task)

\* The functions some goroutine is committed to calling.
Scheduled == firing \cup UNION {caller[c].fns : c \in Callers}

\* A request of the current run that is in flight while a pause or a cancel
\* is in force is already aborted or is about to be: registration and the
\* capture of the interrupts cannot both miss it, and unregistering another
\* request, of this run or of an earlier one with the same id, never removes
\* its interrupt (probe_runtime.go:246-256, 259-260).
EveryRequestInterrupted ==
    \A w \in Workers :
      /\ worker[w].pc = "request"
      /\ worker[w].run = run
      /\ currentTaskID # NoTask
      /\ pauseRequested \/ cancelRequested
      => worker[w].seq \in hit \cup Scheduled

\* A context is cancelled after the lock is released, perhaps when the slot
\* has been handed on: it is never the context of a run nobody cancelled
\* (probe_runtime.go:94-110, 201-207).
ContextEndsOnlyWhenCancelled ==
    currentTaskID # NoTask /\ run \in ended => cancelRequested

\* Once a run has committed to completing neither pause nor cancel is in
\* force, and so the caller of either was told it came too late
\* (probe_runtime.go:146-151, 191-196, 224-229).
CommitExcludesControl ==
    terminalCommitted => ~pauseRequested /\ ~cancelRequested

\* While a run holds the slot its cancellation is never taken back, whatever
\* pauses and resumes follow (probe_runtime.go:152-153, 173-174).
CancelSticks ==
    [][cancelRequested /\ currentTaskID' = currentTaskID /\ run' = run
         => cancelRequested']_vars

\* What makes the invariants inductive, conjunct by conjunct.
ControlInv ==
    /\ pausedTaskID = IF pauseRequested THEN currentTaskID ELSE NoTask
    /\ currentTaskID = NoTask
         => ~pauseRequested /\ ~cancelRequested /\ ~terminalCommitted

CallerShape ==
    \A c \in Callers :
      caller[c].pc # "captured" => caller[c].ctx = 0 /\ caller[c].fns = {}

\* Contexts cancelled, or about to be, belong to runs started so far.
ContextInv ==
    /\ ended \subseteq 1 .. run
    /\ \A c \in Callers :
         /\ caller[c].ctx <= run
         /\ currentTaskID # NoTask /\ caller[c].ctx = run => cancelRequested

\* Each request in flight has a number of its own, and those of the run that
\* holds the slot are registered.
RequestInv ==
    /\ interrupts \subseteq 1 .. interruptSeq
    /\ \A w \in Workers :
         /\ worker[w].run <= run
         /\ worker[w].pc # "request" => worker[w].seq = 0
         /\ worker[w].seq <= interruptSeq
         /\ worker[w].pc # "gone" /\ worker[w].run = run
              /\ currentTaskID # NoTask
              => /\ worker[w].task = currentTaskID
                 /\ worker[w].pc = "request" => worker[w].seq \in interrupts
    /\ \A v, w \in Workers :
         v # w /\ worker[v].seq # 0 => worker[v].seq # worker[w].seq

InterruptInv ==
    pauseRequested \/ cancelRequested
      => interrupts \subseteq hit \cup Scheduled

IInv ==
    /\ TypeOK
    /\ ControlInv
    /\ CommitExcludesControl
    /\ NoLostWakeup
    /\ CallerShape
    /\ ContextInv
    /\ ContextEndsOnlyWhenCancelled
    /\ RequestInv
    /\ InterruptInv

\* A waiter does not stay at its safe point forever unless its task stays
\* paused (or is paused again and again).
Waiting(w) == worker[w].pc \in {"check", "announce", "blocked"}

WaitersReturn ==
    \A w \in Workers :
      (<>[](Waiting(w) => ~Paused(worker[w].task))) => []<>~Waiting(w)

\* A pause or a cancel reaches every request in flight: it is aborted, or it
\* was answered first.  (The worker's registration number is its request.)
RequestsAbort ==
    \A w \in Workers, s \in Seqs :
      /\ worker[w].pc = "request"
      /\ worker[w].seq = s
      /\ worker[w].run = run
      /\ currentTaskID # NoTask
      /\ pauseRequested \/ cancelRequested
      ~> worker[w].seq # s
=============================================================================
