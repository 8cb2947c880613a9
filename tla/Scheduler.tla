----------------------------- MODULE Scheduler ------------------------------
(***************************************************************************)
(* The scheduled probes: the desktop's loop goroutine (app/scheduler.go),  *)
(* which sleeps until the next due time and then calls RunScheduledProbe,  *)
(* the workflow of one run (appcore/scheduler_service.go), and the status  *)
(* file they share with config.save and with the scheduler commands.       *)
(*                                                                         *)
(* Nothing guards the status file: everybody loads the whole record,       *)
(* changes fields and saves the whole record.  A run keeps its copy from   *)
(* its start to its end.  Loading and saving are therefore steps of their  *)
(* own here.  config.save ends with the hook that stops the old loop and   *)
(* starts one with the saved configuration; a stop only cancels a context, *)
(* which the loop looks at when it waits.                                  *)
(*                                                                         *)
(* Time is counted in ticks and a day has Day of them.  A run's task is    *)
(* known by its number, in place of its time stamp.                        *)
(***************************************************************************)
EXTENDS Naturals, FiniteSets, FiniteSetsExt

CONSTANTS
    Configs,    \* scheduler sections a user may save
    Savers,     \* callers of config.save
    NoConfig,   \* no such file
    BadConfig,  \* a file that does not parse
    NoLoop,     \* no cancel function is stored
    Command,    \* the scheduler.run command as the owner of a run
    Day,        \* ticks in a day
    MaxTime,    \* bound: the clock
    MaxLoops,   \* bound: loops started
    MaxSaves,   \* bound: config.save calls
    MaxRuns     \* bound: runs

BoundsAssumption ==
    /\ {Day, MaxLoops, MaxTime} \subseteq Nat \ {0}
    /\ {MaxSaves, MaxRuns} \subseteq Nat
ConfigsAssumption ==
    \A c \in Configs :
       /\ {c.enabled, c.dns, c.github, c.skip, c.draft} \subseteq BOOLEAN
       /\ c.interval \in Nat /\ c.daily \subseteq 0 .. Day - 1

Loops == 1 .. MaxLoops

NamesAssumption ==
    /\ {NoConfig, BadConfig} \cap Configs = {} /\ NoConfig # BadConfig
    /\ {NoLoop, Command} \cap Loops = {} /\ NoLoop # Command

VARIABLES
    clock,
    saved,      \* desktop-config.json
    draft,      \* desktop-draft.json
    status,     \* scheduler-status.json
    handle,     \* App.schedulerCancel: the loop it cancels
    loop,       \* the goroutines of schedulerLoop
    saver,      \* the config.save calls under way
    run,        \* the run that holds schedulerRunMu
    saves, runs,
    probed,     \* history variable: runs whose probe completed
    collided    \* history variable: runs that met an active probe

files == <<saved, draft>>
ghosts == <<probed, collided>>
vars == <<clock, files, status, handle, loop, saver, run, saves,
          runs, ghosts>>

Blank == [enabled |-> FALSE, next |-> 0, lastRun |-> 0, task |-> 0,
          probe |-> "", dns |-> "", github |-> "", stage |-> ""]
NoneConfig == [enabled |-> FALSE, interval |-> 0, daily |-> {}, dns |-> FALSE,
               github |-> FALSE, skip |-> FALSE, draft |-> FALSE]
Asleep == [pc |-> "none", cfg |-> NoneConfig, cancelled |-> FALSE, st |-> Blank,
           at |-> 0, base |-> 0, fire |-> 0]
Gone == [Asleep EXCEPT !.pc = "over"]
NoSave == [pc |-> "idle", cfg |-> NoneConfig, st |-> Blank]
NoRun == [pc |-> "idle", owner |-> NoLoop, cfg |-> NoneConfig, st |-> Blank,
          at |-> 0, then |-> "over", ok |-> TRUE]

Probes == {"", "running", "skipped", "failed", "completed"}
Uploads == {"", "skipped", "failed", "partial", "completed"}
Stages == {"", "probe", "skipped", "load_config_failed", "probe_failed",
           "upload_selection_failed", "completed"}
Statuses ==
    [enabled : BOOLEAN, next : Nat, lastRun : Nat, task : Nat, probe : Probes,
     dns : Uploads, github : Uploads \ {"partial"}, stage : Stages]

TypeOK ==
    /\ clock \in 1 .. MaxTime
    /\ saved \in Configs \cup {BadConfig}
    /\ draft \in Configs \cup {NoConfig, BadConfig}
    /\ status \in Statuses
    /\ status.lastRun <= clock
    /\ handle \in Loops \cup {NoLoop}
    /\ \A l \in Loops :
         /\ loop[l].pc \in {"none", "load", "arm", "wait", "want", "run",
                            "note", "noting", "over"}
         /\ loop[l].cfg \in Configs \cup {NoneConfig}
         /\ {loop[l].at, loop[l].base} \subseteq 0 .. MaxTime
         /\ loop[l].st \in Statuses
    /\ \A p \in Savers :
         /\ saver[p].pc \in {"idle", "discard", "refresh", "write", "stop",
                             "refresh2", "write2", "start", "bad", "badWrite"}
         /\ saver[p].st \in Statuses
    /\ run.pc \in {"idle", "write", "decide", "probe", "probing", "upload"}
    /\ run.st.task \in 0 .. MaxRuns

-----------------------------------------------------------------------------
(* The next due time.                                                      *)

\* The first of last + interval, last + 2 * interval, ... after now.
NextByInterval(now, last, i) ==
    IF last = 0 THEN now + i
    ELSE IF last > now THEN last + i
    ELSE last + i * ((now - last) \div i + 1)

\* Mutant: a time that has just come is taken for one still to come.
NextByDayNow(now, d) ==
    LET today == now - (now % Day) + d
    IN  IF today >= now THEN today ELSE today + Day

\* Today at tick d, or tomorrow when that is not after now.
NextByDay(now, d) ==
    LET today == now - (now % Day) + d
    IN  IF today > now THEN today ELSE today + Day

Candidates(now, last, cfg) ==
    (IF cfg.interval > 0 THEN {NextByInterval(now, last, cfg.interval)}
                         ELSE {})
    \cup {NextByDay(now, d) : d \in cfg.daily}

\* 0 stands for the zero time and for an empty next_run_at.
NextSchedulerRun(now, last, cfg) ==
    IF cfg.enabled /\ Candidates(now, last, cfg) # {}
    THEN Min(Candidates(now, last, cfg))
    ELSE 0

-----------------------------------------------------------------------------
(* The configuration.                                                      *)

\* RefreshSchedulerStatus.
Refreshed(st, cfg) ==
    LET next == NextSchedulerRun(clock, st.lastRun, cfg)
    IN  [st EXCEPT !.enabled = cfg.enabled /\ next > 0, !.next = next]

SetSaver(p, pc) ==
    saver' = [saver EXCEPT ![p] = IF pc = "idle" THEN NoSave
                                  ELSE [@ EXCEPT !.pc = pc]]

\* SaveConfig of config.save, under configMu.
SaveBegin(p, cfg) ==
    /\ saver[p].pc = "idle"
    /\ saves < MaxSaves
    /\ saves' = saves + 1
    /\ saved' = cfg
    /\ saver' = [saver EXCEPT ![p] = [NoSave EXCEPT !.pc = "discard",
                                                    !.cfg = cfg]]
    /\ UNCHANGED <<clock, draft, status, handle, loop, run, runs,
                   ghosts>>

SaveDiscard(p) ==
    /\ saver[p].pc = "discard"
    /\ draft' = NoConfig
    /\ SetSaver(p, "refresh")
    /\ UNCHANGED <<clock, saved, status, handle, loop, run, saves,
                   runs, ghosts>>

\* config.save refreshes the status, and its hook does so again.
RefreshLoad(p) ==
    /\ saver[p].pc \in {"refresh", "refresh2"}
    /\ saver' = [saver EXCEPT
                   ![p].pc = IF @ = "refresh" THEN "write" ELSE "write2",
                   ![p].st = Refreshed(status, saver[p].cfg)]
    /\ UNCHANGED <<clock, files, status, handle, loop, run, saves,
                   runs, ghosts>>

RefreshWrite(p) ==
    /\ saver[p].pc \in {"write", "write2"}
    /\ status' = saver[p].st
    /\ SetSaver(p, IF saver[p].pc = "write" THEN "stop"
                   ELSE IF saver[p].cfg.enabled /\ saver[p].st.next > 0
                   THEN "start" ELSE "idle")
    /\ UNCHANGED <<clock, files, handle, loop, run, saves, runs,
                   ghosts>>

\* Mutant: the cancel function is forgotten without being called.
StoppedUncalled == [h |-> NoLoop, loops |-> loop]

\* stopScheduler: takes the cancel function and calls it.
Stopped ==
    [h |-> NoLoop,
     loops |-> IF handle = NoLoop THEN loop
               ELSE [loop EXCEPT ![handle].cancelled = TRUE]]

StopScheduler(p) ==
    /\ saver[p].pc = "stop"
    /\ handle' = Stopped.h
    /\ loop' = Stopped.loops
    /\ SetSaver(p, "refresh2")
    /\ UNCHANGED <<clock, files, status, run, saves, runs, ghosts>>

StartLoop(p) ==
    /\ saver[p].pc = "start"
    /\ \E l \in Loops :
         /\ loop[l].pc = "none"
         /\ \A k \in Loops : k < l => loop[k].pc # "none"
         /\ loop' = [loop EXCEPT ![l].pc = "load", ![l].cfg = saver[p].cfg]
         /\ handle' = l
    /\ SetSaver(p, "idle")
    /\ UNCHANGED <<clock, files, status, run, saves, runs, ghosts>>

\* reloadSchedulerFromDisk with a configuration it cannot read.
ReloadBad(p) ==
    /\ saver[p].pc = "bad"
    /\ handle' = Stopped.h
    /\ loop' = Stopped.loops
    /\ saver' = [saver EXCEPT ![p].pc = "badWrite",
                   ![p].st = [status EXCEPT !.enabled = FALSE, !.next = 0,
                                            !.stage = "load_config_failed"]]
    /\ UNCHANGED <<clock, files, status, run, saves, runs, ghosts>>

ReloadBadWrite(p) ==
    /\ saver[p].pc = "badWrite"
    /\ status' = saver[p].st
    /\ SetSaver(p, "idle")
    /\ UNCHANGED <<clock, files, handle, loop, run, saves, runs,
                   ghosts>>

\* draft.save; a draft is always later than the configuration here.
SaveDraft(cfg) ==
    /\ saves < MaxSaves
    /\ saves' = saves + 1
    /\ draft' = cfg
    /\ UNCHANGED <<clock, saved, status, handle, loop, saver, run,
                   runs, ghosts>>

-----------------------------------------------------------------------------
(* The loop.                                                               *)

LoopLoad(l) ==
    /\ loop[l].pc = "load"
    /\ LET next == NextSchedulerRun(clock, status.lastRun, loop[l].cfg)
       IN  loop' = [loop EXCEPT ![l] =
             [@ EXCEPT !.pc = "arm", !.at = clock, !.fire = next,
                       !.base = IF status.lastRun = 0 THEN clock
                                ELSE status.lastRun,
                       !.st = [status EXCEPT
                                 !.enabled = IF next = 0 THEN @
                                             ELSE loop[l].cfg.enabled,
                                 !.next = next]]]
    /\ UNCHANGED <<clock, files, status, handle, saver, run, saves,
                   runs, ghosts>>

LoopArm(l) ==
    /\ loop[l].pc = "arm"
    /\ status' = loop[l].st
    /\ loop' = [loop EXCEPT ![l] = IF loop[l].fire = 0 THEN Gone
                                   ELSE [@ EXCEPT !.pc = "wait",
                                                  !.st = Blank]]
    /\ UNCHANGED <<clock, files, handle, saver, run, saves, runs,
                   ghosts>>

\* Mutant: the loop goes back to sleep at the very tick.
LoopFireLate(l) ==
    /\ loop[l].pc = "wait"
    /\ clock > loop[l].fire
    /\ loop' = [loop EXCEPT ![l] = [@ EXCEPT !.pc = "want", !.at = 0,
                                             !.base = 0, !.fire = 0]]
    /\ UNCHANGED <<clock, files, status, handle, saver, run, saves,
                   runs, ghosts>>

\* The select: with both channels ready Go takes either.
LoopFire(l) ==
    /\ loop[l].pc = "wait"
    /\ clock >= loop[l].fire
    /\ loop' = [loop EXCEPT ![l] = [@ EXCEPT !.pc = "want", !.at = 0,
                                             !.base = 0, !.fire = 0]]
    /\ UNCHANGED <<clock, files, status, handle, saver, run, saves,
                   runs, ghosts>>

LoopDone(l) ==
    /\ loop[l].pc = "wait"
    /\ loop[l].cancelled
    /\ loop' = [loop EXCEPT ![l] = Gone]
    /\ UNCHANGED <<clock, files, status, handle, saver, run, saves,
                   runs, ghosts>>

\* A run that was not OK: the loop loads the status and saves its message.
LoopNote(l) ==
    /\ loop[l].pc = "note"
    /\ loop' = [loop EXCEPT ![l].pc = "noting", ![l].st = status]
    /\ UNCHANGED <<clock, files, status, handle, saver, run, saves,
                   runs, ghosts>>

LoopNoted(l) ==
    /\ loop[l].pc = "noting"
    /\ status' = loop[l].st
    /\ loop' = [loop EXCEPT ![l].pc = "load", ![l].st = Blank]
    /\ UNCHANGED <<clock, files, handle, saver, run, saves, runs,
                   ghosts>>

-----------------------------------------------------------------------------
(* One run.                                                                *)

\* SelectSchedulerConfig: a source of "saved", or of "draft_preferred".
Selected ==
    IF saved = BadConfig \/ (saved.draft /\ draft = BadConfig) THEN BadConfig
    ELSE IF saved.draft /\ draft # NoConfig THEN draft ELSE saved

Rearmed(st, cfg) ==
    [st EXCEPT !.next = NextSchedulerRun(run.at, run.at, cfg)]

Write(st, then, ok) ==
    run' = [run EXCEPT !.pc = "write", !.st = st, !.then = then, !.ok = ok]

\* Mutant: the planned time is noted as the time of the run.
StartedAtPlan(cfg) ==
    [status EXCEPT !.enabled = cfg.enabled, !.lastRun = status.next,
                   !.task = runs + 1, !.probe = "running", !.dns = "skipped",
                   !.github = "skipped", !.stage = "probe"]

Started(cfg) ==
    [status EXCEPT !.enabled = cfg.enabled, !.lastRun = clock,
                   !.task = runs + 1, !.probe = "running", !.dns = "skipped",
                   !.github = "skipped", !.stage = "probe"]

Unreadable ==
    [status EXCEPT !.next = 0, !.lastRun = clock, !.task = runs + 1,
                   !.probe = "failed", !.dns = "", !.github = "",
                   !.stage = "load_config_failed"]

\* Taking schedulerRunMu, choosing the configuration and loading the status.
RunBegin(o) ==
    /\ run.pc = "idle"
    /\ runs < MaxRuns
    /\ IF o = Command THEN UNCHANGED loop
       ELSE /\ loop[o].pc = "want"
            /\ loop' = [loop EXCEPT ![o].pc = "run"]
    /\ runs' = runs + 1
    /\ LET base == [NoRun EXCEPT !.pc = "write", !.owner = o, !.at = clock]
       IN  run' = IF Selected = BadConfig
                  THEN [base EXCEPT !.st = Unreadable, !.ok = FALSE]
                  ELSE [base EXCEPT !.cfg = Selected, !.st = Started(Selected),
                                    !.then = "decide"]
    /\ UNCHANGED <<clock, files, status, handle, saver, saves,
                   ghosts>>

\* SaveSchedulerStatus.  After the last one of a run schedulerRunMu is free
\* and the caller goes on.
RunWrite ==
    /\ run.pc = "write"
    /\ status' = run.st
    /\ IF run.then = "decide"
       THEN /\ run' = [run EXCEPT !.pc = "decide"]
            /\ UNCHANGED loop
       ELSE /\ run' = NoRun
            /\ IF run.owner = Command THEN UNCHANGED loop
               ELSE loop' = [loop EXCEPT ![run.owner].pc =
                               IF run.ok THEN "load" ELSE "note"]
    /\ UNCHANGED <<clock, files, handle, saver, saves, runs, ghosts>>

Skipped(st) == [st EXCEPT !.probe = "skipped", !.stage = "skipped"]

\* hasActiveProbeRuntime: somebody else's probe may be active at any time.
RunDecide ==
    /\ run.pc = "decide"
    /\ \/ /\ ~run.cfg.enabled
          /\ Write([Skipped(run.st) EXCEPT !.next = 0], "over", TRUE)
          /\ UNCHANGED collided
       \/ /\ run.cfg.enabled /\ run.cfg.skip
          /\ Write(Rearmed(Skipped(run.st), run.cfg), "over", TRUE)
          /\ collided' = collided \cup {run.st.task}
       \/ /\ run.cfg.enabled
          /\ run' = [run EXCEPT !.pc = "probe"]
          /\ UNCHANGED collided
    /\ UNCHANGED <<clock, files, status, handle, loop, saver, saves,
                   runs, probed>>

ProbeFailed(st, cfg) ==
    Rearmed([st EXCEPT !.probe = "failed", !.stage = "probe_failed",
                       !.dns = IF cfg.dns THEN "failed" ELSE "skipped",
                       !.github = IF cfg.github THEN "failed" ELSE "skipped"],
            cfg)

\* Mutant: a collision is a failure like any other.
CollisionFailed(st, cfg) == ProbeFailed(st, cfg)

\* PROBE_ALREADY_RUNNING.
Collision(st, cfg) == Rearmed(Skipped(st), cfg)

\* RunProbe is refused when a probe took the slot since RunDecide.
RunProbe ==
    /\ run.pc = "probe"
    /\ \/ /\ Write(Collision(run.st, run.cfg), "over", TRUE)
          /\ collided' = collided \cup {run.st.task}
       \/ /\ run' = [run EXCEPT !.pc = "probing"]
          /\ UNCHANGED collided
    /\ UNCHANGED <<clock, files, status, handle, loop, saver, saves,
                   runs, probed>>

\* Mutant: the uploads follow a failed probe as well.
RunProbedOn ==
    /\ run.pc = "probing"
    /\ \/ /\ run' = [run EXCEPT !.pc = "upload", !.st.probe = "failed"]
          /\ UNCHANGED probed
       \/ /\ run' = [run EXCEPT !.pc = "upload", !.st.probe = "completed"]
          /\ probed' = probed \cup {run.st.task}
    /\ UNCHANGED <<clock, files, status, handle, loop, saver, saves,
                   runs, collided>>

\* The probe completes or fails (a cancelled one fails too).
RunProbed ==
    /\ run.pc = "probing"
    /\ \/ /\ Write(ProbeFailed(run.st, run.cfg), "over", FALSE)
          /\ UNCHANGED probed
       \/ /\ run' = [run EXCEPT !.pc = "upload", !.st.probe = "completed"]
          /\ probed' = probed \cup {run.st.task}
    /\ UNCHANGED <<clock, files, status, handle, loop, saver, saves,
                   runs, collided>>

\* The push, "skipped" without results or without an address, and the export.
DNSResults(cfg) == IF cfg.dns THEN Uploads \ {""} ELSE {"skipped"}
GitHubResults(cfg) ==
    IF cfg.github THEN {"skipped", "failed", "completed"} ELSE {"skipped"}

\* BuildUploadSelection, whose failure marks the whole run as failed, then
\* PushCloudflareDNS and ExportProbeRowsToGitHub: the run's own copy of the
\* status is all they change, and finalize saves it.
RunUpload ==
    /\ run.pc = "upload"
    /\ \/ Write(Rearmed([run.st EXCEPT
                           !.probe = "failed",
                           !.dns = IF run.cfg.dns THEN "failed" ELSE @,
                           !.github = IF run.cfg.github THEN "failed" ELSE @,
                           !.stage = "upload_selection_failed"], run.cfg),
                "over", FALSE)
       \/ \E d \in DNSResults(run.cfg), g \in GitHubResults(run.cfg) :
            Write(Rearmed([run.st EXCEPT !.dns = d, !.github = g,
                                         !.stage = "completed"], run.cfg),
                  "over", TRUE)
    /\ UNCHANGED <<clock, files, status, handle, loop, saver, saves,
                   runs, ghosts>>

-----------------------------------------------------------------------------
(* The surroundings.                                                       *)

Tick ==
    /\ clock < MaxTime
    /\ clock' = clock + 1
    /\ UNCHANGED <<files, status, handle, loop, saver, run, saves,
                   runs, ghosts>>

\* The files at the start and the reload of the application's startup.
Init ==
    /\ clock = 1
    /\ saved \in Configs \cup {BadConfig}
    /\ draft \in {NoConfig, BadConfig}
    /\ status = Blank
    /\ handle = NoLoop
    /\ loop = [l \in Loops |-> Asleep]
    /\ \E s \in Savers :
         saver = [p \in Savers |->
                    IF p # s THEN NoSave
                    ELSE IF saved = BadConfig
                    THEN [NoSave EXCEPT !.pc = "bad"]
                    ELSE [NoSave EXCEPT !.pc = "stop", !.cfg = saved]]
    /\ run = NoRun
    /\ saves = 0 /\ runs = 0
    /\ probed = {} /\ collided = {}

SaverStep(p) ==
    \/ SaveDiscard(p) \/ RefreshLoad(p) \/ RefreshWrite(p)
    \/ StopScheduler(p) \/ StartLoop(p) \/ ReloadBad(p) \/ ReloadBadWrite(p)

LoopStep(l) ==
    \/ LoopLoad(l) \/ LoopArm(l) \/ LoopFire(l) \/ LoopDone(l)
    \/ LoopNote(l) \/ LoopNoted(l)

RunStep ==
    \/ RunWrite \/ RunDecide \/ RunProbe \/ RunProbed \/ RunUpload

Next ==
    \/ \E p \in Savers : (\E c \in Configs : SaveBegin(p, c)) \/ SaverStep(p)
    \/ \E c \in Configs : SaveDraft(c)
    \/ \E l \in Loops : LoopStep(l)
    \/ \E o \in Loops \cup {Command} : RunBegin(o)
    \/ RunStep
    \/ Tick

Spec == Init /\ [][Next]_vars

\* Time passes, and the loops, the savers and the run are goroutines.
FairSpec ==
    /\ Spec
    /\ WF_vars(Tick)
    /\ WF_vars(RunStep)
    /\ \A p \in Savers : WF_vars(SaverStep(p))
    /\ \A l \in Loops : WF_vars(LoopStep(l)) /\ WF_vars(RunBegin(l))

-----------------------------------------------------------------------------
(* Properties.                                                             *)

IsDue(cfg, base, t) ==
    \/ t % Day \in cfg.daily
    \/ /\ cfg.interval > 0
       /\ t > base
       /\ (t - base) % cfg.interval = 0

\* A loop sleeps until the first time after it looked that a rule of its
\* configuration names: it never fires twice for one time, and never sleeps
\* past one.
SleepsUntilDue ==
    \A l \in Loops : loop[l].pc = "wait" =>
       /\ loop[l].fire > loop[l].at
       /\ IsDue(loop[l].cfg, loop[l].base, loop[l].fire)
       /\ \A t \in loop[l].at + 1 .. loop[l].fire - 1 :
            ~IsDue(loop[l].cfg, loop[l].base, t)

Serving(l) == loop[l].pc \notin {"none", "over"} /\ ~loop[l].cancelled

\* While configurations are saved one after the other there is never more
\* than one loop that has not been told to stop, and once the last save is
\* through there is one exactly when the configuration asks for runs.
OneLoop ==
    /\ Cardinality({l \in Loops : Serving(l)}) <= 1
    /\ (\A p \in Savers : saver[p].pc = "idle") =>
          ((\E l \in Loops : Serving(l))
             <=> (saved # BadConfig /\ NextSchedulerRun(1, 0, saved) > 0))

\* A run that meets an active probe is written down as skipped, whether it
\* saw the probe at once or was refused the slot later: never as failed.
CollisionIsSkipped ==
    status.task \in collided => status.probe \in {"running", "skipped"}

\* Whatever saves are lost, the file never tells of an upload without a
\* completed probe of the same run.
UploadsFollowAProbe ==
    {status.dns, status.github} \cap {"partial", "completed"} # {}
       => status.task \in probed /\ status.probe = "completed"

\* A loop that sleeps towards a time the clock will reach wakes up and gets
\* its run, or is told to stop.
RunsWhenDue ==
    \A l \in Loops :
       (loop[l].pc = "wait" /\ loop[l].fire <= MaxTime)
          ~> (loop[l].pc = "run" \/ loop[l].cancelled \/ runs = MaxRuns)

Settled ==
    /\ \A p \in Savers : saver[p].pc = "idle"
    /\ \A l \in Loops : loop[l].pc \in {"none", "wait", "over"}
    /\ run.pc = "idle"

\* When nothing is under way the file says whether runs are scheduled: the
\* loop only wakes the scheduler, the service owns the status.
\* Documented and not kept by the code; see the README.
SettledStatusFollowsConfig ==
    Settled /\ saved # BadConfig
       => status.enabled = (NextSchedulerRun(1, 0, saved) > 0)

\* The invariants above together.
Safety ==
    /\ TypeOK /\ SleepsUntilDue /\ OneLoop /\ CollisionIsSkipped
    /\ UploadsFollowAProbe
=============================================================================
