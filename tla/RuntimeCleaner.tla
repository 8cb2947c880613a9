--------------------------- MODULE RuntimeCleaner ---------------------------
(***************************************************************************)
(* The cleaner of the running program: a loop that cleans up periodically  *)
(* (runtimecleanup.Cleaner), a delayed cleanup after each task, and what a *)
(* light cleanup does to the files of the tasks (appcore/runtime_service). *)
(*                                                                         *)
(* Start and Stop may be called again, and the context the loops are       *)
(* started with may end.  A loop that was stopped leaves only when it      *)
(* comes back to its select; Stop calls the cancel function it took from   *)
(* the cleaner after the unlock.  A run is known by its runID.             *)
(*                                                                         *)
(* Left out, as nothing here depends on them: the trimming of the cache    *)
(* and of idle connections, the statistics, and the hours between two      *)
(* ticks or two heavy cleanups, which may be any.                          *)
(***************************************************************************)
EXTENDS Naturals

CONSTANTS
    Delays,     \* the goroutines of delayed cleanups
    Tasks,
    NoTask,
    MaxRuns     \* bound: how often runID is raised

CleanerAssumption == MaxRuns \in Nat /\ NoTask \notin Tasks /\ Delays \cap Nat = {}

Runs == 1 .. MaxRuns
Cleaners == Runs \cup Delays
Steps == {"none", "wait", "files", "remove", "results", "busy", "heavy", "exit", "over"}

VARIABLES
    cancel,     \* the run whose cancel function is stored, 0: none
    runID,
    scheduled,  \* delayedScheduled
    taken,      \* runs whose cancel function Stop is about to call
    over,       \* runs whose context has ended
    pc,
    todo,       \* the entries of the directory a cleaner still has to look at
    hand,       \* the task whose files it removes
    probe,      \* the task that runs, or none
    due,        \* tasks that ended and have not triggered a cleanup yet
    snap,       \* the snapshot of each task
    results,    \* the tasks with a file of results
    retain      \* is a retention configured (a later change is for later cleanups)

loopVars == <<cancel, runID, scheduled, taken, over>>
walkVars == <<todo, hand>>
taskVars == <<probe, due, snap, results>>
vars == <<loopVars, pc, walkVars, taskVars, retain>>

TypeOK ==
    /\ cancel \in 0 .. MaxRuns /\ runID \in 0 .. MaxRuns /\ scheduled \in BOOLEAN
    /\ taken \subseteq Runs /\ over \subseteq Runs /\ pc \in [Cleaners -> Steps]
    /\ todo \in [Cleaners -> SUBSET Tasks] /\ hand \in [Cleaners -> Tasks \cup {NoTask}]
    /\ probe \in Tasks \cup {NoTask} /\ due \subseteq Tasks
    /\ snap \in [Tasks -> {"new", "active", "ended", "expired", "removed"}]
    /\ results \subseteq Tasks /\ retain \in BOOLEAN

Init ==
    /\ cancel = 0 /\ runID = 0 /\ scheduled = FALSE /\ taken = {} /\ over = {}
    /\ pc = [c \in Cleaners |-> "none"]
    /\ todo = [c \in Cleaners |-> {}] /\ hand = [c \in Cleaners |-> NoTask]
    /\ probe = NoTask /\ due = {} /\ snap = [t \in Tasks |-> "new"]
    /\ results = {} /\ retain \in BOOLEAN
-----------------------------------------------------------------------------
(* The commands of the program and the end of a task.                      *)
Start ==
    /\ cancel = 0 /\ runID < MaxRuns
    /\ runID' = runID + 1 /\ cancel' = runID'
    /\ pc' = [pc EXCEPT ![runID'] = "wait"]
    /\ UNCHANGED <<scheduled, taken, over, walkVars, taskVars, retain>>

Stop ==
    /\ runID < MaxRuns /\ runID' = runID + 1
    /\ cancel' = 0 /\ scheduled' = FALSE
    /\ taken' = taken \cup ({cancel} \ {0})
    /\ UNCHANGED <<over, pc, walkVars, taskVars, retain>>

CallCancel(r) ==
    /\ r \in taken /\ taken' = taken \ {r} /\ over' = over \cup {r}
    /\ UNCHANGED <<cancel, runID, scheduled, pc, walkVars, taskVars, retain>>

\* the context of the application, which the loops are started with, ends
ApplicationEnds ==
    /\ over' = Runs
    /\ UNCHANGED <<cancel, runID, scheduled, taken, pc, walkVars, taskVars, retain>>

TriggerDelayed(t) ==
    /\ t \in due /\ due' = due \ {t}
    /\ IF cancel = 0 \/ scheduled
       THEN UNCHANGED <<scheduled, pc>>
       ELSE /\ scheduled' = TRUE
            /\ \E d \in Delays : pc[d] = "none" /\ pc' = [pc EXCEPT ![d] = "wait"]
    /\ UNCHANGED <<cancel, runID, taken, over, walkVars, probe, snap, results, retain>>

BeginTask(t) ==
    /\ probe = NoTask /\ snap[t] = "new"
    /\ probe' = t /\ snap' = [snap EXCEPT ![t] = "active"]
    /\ UNCHANGED <<loopVars, pc, walkVars, due, results, retain>>
EndTask ==
    /\ probe # NoTask /\ probe' = NoTask
    /\ snap' = [snap EXCEPT ![probe] = "ended"]
    /\ results' = results \cup {probe} /\ due' = due \cup {probe}
    /\ UNCHANGED <<loopVars, pc, walkVars, retain>>
Age(t) ==
    /\ snap[t] = "ended" /\ snap' = [snap EXCEPT ![t] = "expired"]
    /\ UNCHANGED <<loopVars, pc, walkVars, probe, due, results, retain>>
-----------------------------------------------------------------------------
(* A light cleanup: the directory is listed, then each snapshot read and,  *)
(* if its task ended long ago, removed before its results.                 *)
BeginLight(c) ==
    /\ pc' = [pc EXCEPT ![c] = "files"]
    /\ todo' = [todo EXCEPT ![c] = IF retain THEN {t \in Tasks : snap[t] \notin {"new", "removed"}} ELSE {}]

\* Mutant: a task that is under way counts as old
ExpiredIfOld(t) == snap[t] \in {"active", "expired"}
Expired(t) == snap[t] = "expired"

Read(c, t) ==
    /\ pc[c] = "files" /\ t \in todo[c]
    /\ todo' = [todo EXCEPT ![c] = @ \ {t}]
    /\ IF Expired(t)
       THEN pc' = [pc EXCEPT ![c] = "remove"] /\ hand' = [hand EXCEPT ![c] = t]
       ELSE UNCHANGED <<pc, hand>>
    /\ UNCHANGED <<loopVars, taskVars, retain>>
RemoveSnapshot(c) ==
    /\ pc[c] = "remove" /\ pc' = [pc EXCEPT ![c] = "results"]
    /\ snap' = [snap EXCEPT ![hand[c]] = "removed"]
    /\ UNCHANGED <<loopVars, walkVars, probe, due, results, retain>>
RemoveResults(c) ==
    /\ pc[c] = "results" /\ pc' = [pc EXCEPT ![c] = "files"]
    /\ results' = results \ {hand[c]} /\ hand' = [hand EXCEPT ![c] = NoTask]
    /\ UNCHANGED <<loopVars, todo, probe, due, snap, retain>>
EndLight(c) ==
    /\ pc[c] = "files" /\ todo[c] = {}
    /\ pc' = [pc EXCEPT ![c] = IF c \in Runs THEN "busy" ELSE "none"]
    /\ UNCHANGED <<loopVars, walkVars, taskVars, retain>>
-----------------------------------------------------------------------------
(* A delayed cleanup, and the loop with its heavy cleanups.                *)
\* Mutant: the goroutine forgets the flag
WakeQuietly == scheduled
Woken == FALSE

Wake(d) ==
    /\ pc[d] = "wait" /\ scheduled' = Woken
    /\ IF cancel = 0 THEN pc' = [pc EXCEPT ![d] = "none"] /\ UNCHANGED todo
                     ELSE BeginLight(d)
    /\ UNCHANGED <<cancel, runID, taken, over, hand, taskVars, retain>>

\* select: a tick may win over a context that has ended
Tick(r) ==
    /\ pc[r] = "wait" /\ BeginLight(r)
    /\ UNCHANGED <<loopVars, hand, taskVars, retain>>
Leave(r) ==
    /\ pc[r] = "wait" /\ r \in over /\ pc' = [pc EXCEPT ![r] = "exit"]
    /\ UNCHANGED <<loopVars, walkVars, taskVars, retain>>

LookBusy(r) ==
    /\ pc[r] = "busy"
    /\ \/ pc' = [pc EXCEPT ![r] = "wait"]       \* busy, or too early
       \/ probe = NoTask /\ pc' = [pc EXCEPT ![r] = "heavy"]
    /\ UNCHANGED <<loopVars, walkVars, taskVars, retain>>
HeavyCleanup(r) ==
    /\ pc[r] = "heavy" /\ pc' = [pc EXCEPT ![r] = "wait"]
    /\ UNCHANGED <<loopVars, walkVars, taskVars, retain>>

\* Mutant: a loop that leaves takes the cancel function of a later one away
OwnAny(r) == TRUE
Own(r) == runID = r

Exit(r) ==
    /\ pc[r] = "exit" /\ pc' = [pc EXCEPT ![r] = "over"]
    /\ IF Own(r) THEN cancel' = 0 /\ scheduled' = FALSE
                 ELSE UNCHANGED <<cancel, scheduled>>
    /\ UNCHANGED <<runID, taken, over, walkVars, taskVars, retain>>

Light(c) ==
    \/ \E t \in Tasks : Read(c, t)
    \/ RemoveSnapshot(c) \/ RemoveResults(c) \/ EndLight(c)

Loop(r) ==
    Tick(r) \/ Leave(r) \/ Light(r) \/ LookBusy(r) \/ HeavyCleanup(r) \/ Exit(r)

Delayed(d) == Wake(d) \/ Light(d)

Next ==
    \/ Start \/ Stop \/ ApplicationEnds \/ EndTask
    \/ \E t \in Tasks : TriggerDelayed(t) \/ BeginTask(t) \/ Age(t)
    \/ \E r \in Runs : CallCancel(r) \/ Loop(r)
    \/ \E d \in Delays : Delayed(d)

Spec == Init /\ [][Next]_vars
-----------------------------------------------------------------------------
(* Every loop that has a reason to go on can be stopped: its cancel        *)
(* function is the stored one, or Stop is about to call it                 *)
(* (cleanup.go:78-110, 200-206).                                           *)
LoopsControlled ==
    \A r \in Runs : pc[r] \notin {"none", "exit", "over"} /\ r \notin over
                        => r = cancel \/ r \in taken

(* A stored cancel function belongs to a loop that has not left; otherwise *)
(* Start would refuse for good and nothing would be cleaned up any more.   *)
StoredIsAlive == cancel # 0 => pc[cancel] \notin {"none", "over"}

(* While a delayed cleanup is said to be scheduled one is on its way;      *)
(* otherwise no task would ever trigger one again (cleanup.go:112-136).    *)
DelayPending == scheduled => \E d \in Delays : pc[d] = "wait"

(* Whatever time passes between the reading of a snapshot and the removal, *)
(* only files of tasks that ended long ago are removed, by several         *)
(* cleaners at once even, and no results stay behind                       *)
(* (runtime_service.go:104-140; ids are not used again).                   *)
RemovesOnlyOld ==
    /\ \A c \in Cleaners : pc[c] \in {"remove", "results"}
           => snap[hand[c]] \in {"expired", "removed"}
    /\ probe # NoTask => snap[probe] = "active"
    /\ \A t \in results : snap[t] = "removed"
           => \E c \in Cleaners : pc[c] \in {"remove", "results"} /\ hand[c] = t

(* "任务运行中只做轻量清理" (docs/guide/docker-env.md:19): no heavy cleanup *)
(* while a task runs.  Not kept by the code, see the README.               *)
HeavyOnlyIdle == \A r \in Runs : pc[r] = "heavy" => probe = NoTask

(* "不删除任务结果 JSON 或 CSV 文件" (docs/guide/docker-env.md:19) of the   *)
(* delayed cleanup.  Not kept by the code, see the README.                 *)
DelayedKeepsFiles == \A d \in Delays : pc[d] \notin {"remove", "results"}

\* The invariants above together, without the last two.
Safety ==
    /\ TypeOK /\ LoopsControlled /\ StoredIsAlive /\ DelayPending
    /\ RemovesOnlyOld
=============================================================================
