----------------------------- MODULE MCProbing -----------------------------
(***************************************************************************)
(* Small instances of the parts a probe is made of: the worker pool of a   *)
(* stage, the trace of one address, the download of one address, the       *)
(* workflow of the stages, and the cleaner that comes after the tasks.     *)
(* Each behaviour is one of these parts at work; the others stay in an     *)
(* initial state.                                                          *)
(***************************************************************************)
EXTENDS Integers

CONSTANTS Parts, None, a, b, c, Global, Declared,
          N, Routines, MaxAttempts, Threshold, SuccessLimit, MaxPauses,
          Colos, Concurrency, MaxTotal, Timeout, Warmup, Bits,
          Delays, Tasks, MaxRuns

VARIABLES
    part,
    \* ProbeStage
    stage, main, next, pc, attempt, verdict, qualified, processed, fails,
    coolings, paused, pauses, cancelled,
    \* TraceProbe
    config, at, firstOK, last, result, outcome,
    \* DownloadAttempt
    download, control, phase, interrupted, clock, m, worker, measured,
    seen403, overflowed,
    \* StageWorkflow
    ports, stopped, group, step, rowsIn, pool, rows, total, combined, ending,
    results,
    \* RuntimeCleaner
    cancel, runID, scheduled, taken, over, loops, todo, hand, probe, due, snap,
    files, retain

\* Three addresses, two workers, two attempts, a cooldown after two failures.
Stage == INSTANCE ProbeStage

\* Two codes.
Trace == INSTANCE TraceProbe

\* Two connections, up to three bytes, numbers of two bits.
Download == INSTANCE DownloadAttempt WITH
    config <- download, result <- measured

\* Three addresses on two ports, limits that cut.
Workflow == INSTANCE StageWorkflow WITH
    IPs <- {a, b, c}, Candidates <- {c}, Delays <- {1, 2}, Heads <- {0, 1, 2},
    Speeds <- {1, 2}, MaxDelay <- 2, KeepLost <- TRUE, Stage2Limit <- 2,
    Stage3Limit <- 1, PrintNum <- 1,
    cancelled <- stopped, stage <- step, measured <- rowsIn, outcome <- ending

\* A loop, a second one after a stop, a delayed cleanup, two tasks.
Clean == INSTANCE RuntimeCleaner WITH
    NoTask <- None, pc <- loops, results <- files

ASSUME StageAssumption == Stage!PoolAssumption /\ Stage!LimitAssumption
ASSUME AttemptAssumption == Trace!NoneAssumption /\ Download!DownloadAssumption
ASSUME FlowAssumption == Workflow!WorkflowAssumption
ASSUME CleanAssumption == Clean!CleanerAssumption

stageVars == <<stage, main, next, pc, attempt, verdict, qualified, processed,
               fails, coolings, paused, pauses, cancelled>>
traceVars == <<config, at, firstOK, last, result, outcome>>
downloadVars == <<download, control, phase, interrupted, clock, m, worker,
                  measured, seen403, overflowed>>
workflowVars == <<ports, stopped, group, step, rowsIn, pool, rows, total,
                  combined, ending, results>>
cleanVars == <<cancel, runID, scheduled, taken, over, loops, todo, hand,
               probe, due, snap, files, retain>>
vars == <<part, stageVars, traceVars, downloadVars, workflowVars, cleanVars>>

Init ==
    /\ part \in Parts
    /\ part = "stage" \/ stage = "tcp"
    /\ Stage!Init
    /\ part = "trace" \/ config = CHOOSE x \in Trace!Configs : TRUE
    /\ Trace!Init
    /\ part = "download" \/ download = CHOOSE x \in Download!Configs : TRUE
    /\ Download!Init
    /\ part = "download" /\ download.total = MaxTotal  \* the flags change no range
           => ~download.ignore403 /\ ~download.ignore1034
    /\ part = "workflow" \/ ports = {}
    /\ Workflow!Init
    /\ part = "clean" \/ retain = FALSE
    /\ Clean!Init

Next ==
    /\ UNCHANGED part
    /\ \/ /\ part = "stage" /\ Stage!Next
          /\ UNCHANGED <<traceVars, downloadVars, workflowVars, cleanVars>>
       \/ /\ part = "trace" /\ Trace!Next
          /\ UNCHANGED <<stageVars, downloadVars, workflowVars, cleanVars>>
       \/ /\ part = "download" /\ Download!Next
          /\ UNCHANGED <<stageVars, traceVars, workflowVars, cleanVars>>
       \/ /\ part = "workflow" /\ Workflow!Next
          /\ UNCHANGED <<stageVars, traceVars, downloadVars, cleanVars>>
       \/ /\ part = "clean" /\ Clean!Next
          /\ UNCHANGED <<stageVars, traceVars, downloadVars, workflowVars>>

Spec == Init /\ [][Next]_vars
-----------------------------------------------------------------------------
(* Each property has its parts stated, with what they are about, at the    *)
(* end of the module of the part; the types are among them.                *)

(* A stage writes no row after it returned, passes its success limit by    *)
(* less than its workers, counts every address once whatever panics, and   *)
(* cools down for failures of its own only (tcping.go:60, download.go:156, *)
(* worker_guard.go:10, retry.go:88-110).                                   *)
StageSafe == part = "stage" => Stage!Safety

(* An address passes stage 2 only through every filter, is rejected only   *)
(* by a code that was named, and is kept after a failed trace only without *)
(* a filter (head.go:300-345, 754-826).                                    *)
TraceSafe == part = "trace" => Trace!Safety

(* A valid download was measured over bytes nobody found false, a pause is *)
(* never an outcome, one refused connection of several discards nothing,   *)
(* and the ranges cover the file (download.go:368-386, 441-460, 964-973).  *)
DownloadSafe == part = "download" => Download!Safety

(* The limits between the stages keep the best, the final one prefers no   *)
(* row that another beats, a cancelled or failed run hands out nothing,    *)
(* and the summary adds up (stage_workflow.go:295-333, csv.go:286-371,     *)
(* workflow.go:158-166).                                                   *)
WorkflowSafe == part = "workflow" => Workflow!Safety

(* Every loop can be stopped, a cleaner that says it runs does, a cleanup  *)
(* that is said to be scheduled comes, and only files of tasks that ended  *)
(* long ago are removed (cleanup.go:78-136, 200-206,                       *)
(* runtime_service.go:104-140).                                            *)
CleanerSafe == part = "clean" => Clean!Safety
=============================================================================
