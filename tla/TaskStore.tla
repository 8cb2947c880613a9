----------------------------- MODULE TaskStore ------------------------------
(***************************************************************************)
(* The snapshot of one task in appcore.TaskStore: a file, and a cache that *)
(* holds it only while the task is active.  Four kinds of goroutine load   *)
(* and store it: the runner and the user's commands through                *)
(* Service.PublishProbeEvent (one at a time, under publishMu) and directly *)
(* (PersistCompletedProbe, ResumeProbe), readers through GetTask, and the  *)
(* input sources that a cancelled run leaves behind.                       *)
(*                                                                         *)
(* LoadSnapshot and WriteSnapshot hold store.mu only around the cache map, *)
(* so between the read of the attachment, the read of the snapshot, the    *)
(* write of the file and the update of the cache others may step in: each  *)
(* is a step here.  A crash keeps the file and nothing else.               *)
(***************************************************************************)
EXTENDS Integers

CONSTANTS
    Runner, User,   \* the run's goroutine; the one that serves the user
    Readers,        \* callers of GetTask
    Sources,        \* input sources that publish probe.mcis.progress
    MaxInputs       \* bound: progress and cooling events, commands of the user
                    \* and loads of the readers, together

ASSUME InputsAssumption == MaxInputs \in Nat \ {0}

Actors == {Runner, User} \cup Readers \cup Sources

ActiveStatus == {"preparing", "running", "cooling"}
TerminalStatus == {"completed", "cancelled", "failed"}

NoSnapshot == [status |-> "none", attached |-> FALSE, resume |-> FALSE]

Snapshots == [status : {"none"} \cup ActiveStatus \cup TerminalStatus,
              attached : BOOLEAN, resume : BOOLEAN]

\* Mutant: the accepted snapshot says "accepted", which is no status.
StatusUnknown ==
    [accepted |-> "accepted", progress |-> "running", mcis |-> "running",
     cooling |-> "cooling", resumed |-> "running", resume |-> "running",
     persist |-> "completed", completed |-> "completed",
     cancelled |-> "cancelled", failed |-> "failed"]

\* What an event says of the task's status (taskSnapshotStatusForEvent).  Of
\* the events a stage publishes probe.progress stands for the others, and an
\* end with no rows, whose status is "no_results", for any other completion.
StatusOf ==
    [accepted |-> "preparing", progress |-> "running", mcis |-> "running",
     cooling |-> "cooling", resumed |-> "running", resume |-> "running",
     persist |-> "completed", completed |-> "completed",
     cancelled |-> "cancelled", failed |-> "failed"]

TerminalEvents == {"completed", "cancelled", "failed"}

\* The events PublishProbeEvent drops once a terminal one is on record.
LifecycleEvents == {"progress", "cooling", "resumed"} \cup TerminalEvents

Coalescable == {"progress", "mcis"}

VARIABLES
    phase,      \* of the run: new, working, persisted, ending, ended, crashed
    attached,   \* the runtime's current task is this one
    paused,     \* and a pause is in force for it
    cancelled,  \* a cancel was accepted for the run
    terminal,   \* terminalEvents[task], or "none"
    file,       \* the snapshot file, or NoSnapshot
    cache,      \* store.cache[task], or NoSnapshot
    claimed,    \* an event rewrote the file within the last second
    publishMu,  \* whether a publication is under way
    actor,      \* what each goroutine is doing
    inputs,     \* what is left of MaxInputs
    emitted,    \* history: the terminal event sent to the sink, or "none"
    settled,    \* history: its record reached the file, or "none"
    tainted     \* history: a write after that was stale, unguarded or failed

runVars == <<phase, attached, paused, cancelled>>
storeVars == <<file, cache>>
historyVars == <<emitted, settled, tainted>>
vars == <<runVars, terminal, storeVars, claimed, publishMu, actor, inputs,
          historyVars>>

\* att: the attachment read before the load; snap: the snapshot in hand;
\* changed: the load has to rewrite the file; stale: the snapshot in
\* hand is older than the settled one (history).
Resting == [pc |-> "idle", op |-> "none",
            att |-> [current |-> FALSE, paused |-> FALSE],
            snap |-> NoSnapshot, changed |-> FALSE, stale |-> FALSE]

Ops == DOMAIN StatusOf \cup {"none", "get"}

TypeOK ==
    /\ phase \in {"new", "working", "persisted", "ending", "ended", "crashed"}
    /\ attached \in BOOLEAN
    /\ paused \in BOOLEAN
    /\ cancelled \in BOOLEAN
    /\ terminal \in TerminalEvents \cup {"none"}
    /\ file \in Snapshots
    /\ cache \in Snapshots
    /\ claimed \in BOOLEAN
    /\ publishMu \in BOOLEAN
    /\ actor \in [Actors ->
         [pc : {"idle", "lock", "load", "fetch", "recache", "rewrite",
                "rewritten", "store", "write", "put", "emit"},
          op : Ops,
          att : [current : BOOLEAN, paused : BOOLEAN],
          snap : Snapshots, changed : BOOLEAN, stale : BOOLEAN]]
    /\ inputs \in 0 .. MaxInputs
    /\ emitted \in TerminalEvents \cup {"none"}
    /\ settled \in TerminalEvents \cup {"none"}
    /\ tainted \in BOOLEAN

Init ==
    /\ phase = "new"
    /\ attached = FALSE
    /\ paused = FALSE
    /\ cancelled = FALSE
    /\ terminal = "none"
    /\ file = NoSnapshot
    /\ cache = NoSnapshot
    /\ claimed = FALSE
    /\ publishMu = FALSE
    /\ actor = [x \in Actors |-> Resting]
    /\ inputs = MaxInputs
    /\ emitted = "none"
    /\ settled = "none"
    /\ tainted = FALSE

-----------------------------------------------------------------------------
(* The functions on snapshots.                                             *)

\* normalizeTaskRuntimeAttachment
Normalized(snap, att) ==
    IF snap.status \in TerminalStatus
    THEN [snap EXCEPT !.attached = FALSE, !.resume = FALSE]
    ELSE [snap EXCEPT !.attached = att.current,
                      !.resume = att.current /\ att.paused]

\* Mutant: a load keeps the status of a task that nobody runs.
LoadedAsIs(snap, att) == Normalized(snap, att)

\* normalizeLoadedTaskSnapshot: an active snapshot of a task that the runtime
\* does not hold is what a dead process left behind.
Loaded(snap, att) ==
    IF snap.status \in ActiveStatus /\ ~att.current
    THEN [status |-> "failed", attached |-> FALSE, resume |-> FALSE]
    ELSE Normalized(snap, att)

\* cacheSnapshot: active snapshots are kept, any other drops the entry.
Cached(snap) == IF snap.status \in ActiveStatus THEN snap ELSE NoSnapshot

\* TaskSnapshotFromEvent merged over the loaded snapshot; a cooling event of
\* a cancel is not resumable.
Merged(base, op) ==
    [status |-> StatusOf[op],
     attached |-> IF op \in {"cooling", "resumed", "resume", "accepted"}
                  THEN TRUE ELSE base.attached,
     resume |-> IF op \in {"resumed", "resume", "accepted"}
                THEN FALSE ELSE base.resume]

Attachment == [current |-> attached, paused |-> attached /\ paused]

-----------------------------------------------------------------------------
(* Steps of any goroutine x.                                               *)

Begins(x, op, pc) ==
    actor' = [actor EXCEPT ![x] = [Resting EXCEPT !.op = op, !.pc = pc]]

IsEvent(op) == op \in LifecycleEvents \cup {"mcis"}

\* Mutant: no event is dropped after a terminal one.
PublishBeginAlways(x) ==
    /\ actor[x].pc = "lock"
    /\ ~publishMu
    /\ publishMu' = TRUE
    /\ terminal' = IF actor[x].op \in TerminalEvents
                   THEN actor[x].op ELSE terminal
    /\ actor' = [actor EXCEPT ![x].pc = "load"]
    /\ UNCHANGED <<runVars, storeVars, claimed, inputs, historyVars>>

\* PublishProbeEvent takes publishMu and asks prepareProbeEvent.
PublishBegin(x) ==
    /\ actor[x].pc = "lock"
    /\ ~publishMu
    /\ IF terminal # "none" /\ actor[x].op \in LifecycleEvents
       THEN /\ actor' = [actor EXCEPT ![x] = Resting]
            /\ UNCHANGED <<publishMu, terminal>>
       ELSE /\ publishMu' = TRUE
            /\ terminal' = IF actor[x].op \in TerminalEvents
                           THEN actor[x].op ELSE terminal
            /\ actor' = [actor EXCEPT ![x].pc = "load"]
    /\ UNCHANGED <<runVars, storeVars, claimed, inputs, historyVars>>

\* The attachment is read before the store is asked.
LoadBegin(x) ==
    /\ actor[x].pc = "load"
    /\ actor' = [actor EXCEPT ![x].pc = "fetch", ![x].att = Attachment]
    /\ UNCHANGED <<runVars, terminal, storeVars, claimed, publishMu, inputs,
                   historyVars>>

\* Where a load returns to: GetTask answers with the snapshot, ResumeProbe and
\* the events go on to store.
LoadReturns(x, snap) ==
    actor' = [actor EXCEPT ![x] =
                IF actor[x].op = "get" THEN Resting
                ELSE [Resting EXCEPT !.pc = "store", !.op = actor[x].op,
                                     !.snap = snap,
                                     !.stale = actor[x].stale]]

\* Between the two writes of a terminal event the cache still has the old
\* snapshot.
EndHalfStored ==
    \E y \in Actors : actor[y].pc = "put" /\ actor[y].op \in TerminalEvents

\* The snapshot is read, from the cache or else from the file, and normalised
\* (WriteSnapshot would do it again with the same attachment).
Fetch(x) ==
    /\ actor[x].pc = "fetch"
    /\ LET found == IF cache # NoSnapshot THEN cache ELSE file
           snap  == Loaded(found, actor[x].att)
       IN IF found = NoSnapshot
          THEN LoadReturns(x, NoSnapshot)
          ELSE actor' = [actor EXCEPT
                           ![x] = [Resting EXCEPT
                                     !.pc = "recache", !.op = actor[x].op,
                                     !.snap = snap, !.changed = snap # found,
                                     !.stale = EndHalfStored]]
    /\ UNCHANGED <<runVars, terminal, storeVars, claimed, publishMu, inputs,
                   historyVars>>

\* Writes that no terminal event stops: an event the guard lets pass, and the
\* direct write of ResumeProbe.
Unguarded == {"mcis", "resume"}

\* A write of the file or the cache by x taints the settled snapshot if x
\* holds an older one or is not guarded.
Taints(x) ==
    tainted' = (tainted \/ (settled # "none"
                            /\ (actor[x].stale \/ actor[x].op \in Unguarded)))

Recache(x) ==
    /\ actor[x].pc = "recache"
    /\ cache' = Cached(actor[x].snap)
    /\ Taints(x)
    /\ IF actor[x].changed
       THEN actor' = [actor EXCEPT ![x].pc = "rewrite"]
       ELSE LoadReturns(x, actor[x].snap)
    /\ UNCHANGED <<runVars, terminal, file, claimed, publishMu, inputs,
                   emitted, settled>>

\* The file could not be rewritten: GetTask answers with the error,
\* ResumeProbe starts from an empty snapshot, and an event is emitted without
\* having been recorded.
LoadFails(x) ==
    actor' = [actor EXCEPT ![x] =
                CASE actor[x].op = "get" -> Resting
                  [] actor[x].op = "resume" ->
                       [Resting EXCEPT !.pc = "store", !.op = "resume"]
                  [] OTHER ->
                       [Resting EXCEPT !.pc = "emit", !.op = actor[x].op]]

Rewrite(x) ==
    /\ actor[x].pc = "rewrite"
    /\ \/ /\ file' = actor[x].snap
          /\ Taints(x)
          /\ actor' = [actor EXCEPT ![x].pc = "rewritten"]
       \/ /\ LoadFails(x)
          /\ tainted' = (tainted \/ actor[x].op \in TerminalEvents)
          /\ UNCHANGED file
    /\ UNCHANGED <<runVars, terminal, cache, claimed, publishMu, inputs,
                   emitted, settled>>

Rewritten(x) ==
    /\ actor[x].pc = "rewritten"
    /\ cache' = Cached(actor[x].snap)
    /\ Taints(x)
    /\ LoadReturns(x, actor[x].snap)
    /\ UNCHANGED <<runVars, terminal, file, claimed, publishMu, inputs,
                   emitted, settled>>

\* An event is merged over what was loaded; a repeated progress event within
\* the window only goes to the cache.  The attachment is read again.
Store(x) ==
    /\ actor[x].pc = "store"
    /\ LET op     == actor[x].op
           toFile == op \in Coalescable => ~claimed
       IN /\ actor' = [actor EXCEPT
                         ![x].pc = IF toFile THEN "write" ELSE "put",
                         ![x].snap = Normalized(Merged(actor[x].snap, op),
                                                Attachment)]
          /\ claimed' = (claimed \/ op \in Coalescable)
    /\ UNCHANGED <<runVars, terminal, storeVars, publishMu, inputs,
                   historyVars>>

\* What follows a stored snapshot: ResumeProbe publishes, an event is
\* emitted, the direct writes are over.
AfterStore(x) ==
    CASE actor[x].op = "resume" ->
           [Resting EXCEPT !.pc = "lock", !.op = "resumed"]
      [] IsEvent(actor[x].op) ->
           [Resting EXCEPT !.pc = "emit", !.op = actor[x].op]
      [] OTHER -> Resting

\* Whoever holds a snapshot loaded before the end was written is stale from
\* then on.
Holding == {"recache", "rewrite", "rewritten", "store", "write", "put"}

Settles(x) ==
    /\ settled' = actor[x].op
    /\ actor' = [y \in Actors |->
                   IF y = x THEN [actor[x] EXCEPT !.pc = "put"]
                   ELSE [actor[y] EXCEPT
                           !.stale = actor[y].pc \in Holding]]

\* Once recorded, a terminal event also ends the coalescing window.
Forgets(x) == claimed' = (claimed /\ actor[x].op \notin TerminalEvents)

\* WriteFileAtomic.  When it fails the cache is left alone, and the error is
\* dropped or returned after the event was emitted.
Write(x) ==
    /\ actor[x].pc = "write"
    /\ \/ /\ file' = actor[x].snap
          /\ IF actor[x].op \in TerminalEvents
             THEN Settles(x)
             ELSE /\ actor' = [actor EXCEPT ![x].pc = "put"]
                  /\ UNCHANGED settled
          /\ Taints(x)
          /\ UNCHANGED claimed
       \/ /\ actor' = [actor EXCEPT ![x] = AfterStore(x)]
          /\ tainted' = (tainted \/ actor[x].op \in TerminalEvents)
          /\ Forgets(x)
          /\ UNCHANGED <<file, settled>>
    /\ UNCHANGED <<runVars, terminal, cache, publishMu, inputs, emitted>>

Put(x) ==
    /\ actor[x].pc = "put"
    /\ cache' = Cached(actor[x].snap)
    /\ Taints(x)
    /\ Forgets(x)
    /\ actor' = [actor EXCEPT ![x] = AfterStore(x)]
    /\ UNCHANGED <<runVars, terminal, file, publishMu, inputs, emitted,
                   settled>>

\* The event goes to the sink and publishMu is released.
Emit(x) ==
    /\ actor[x].pc = "emit"
    /\ emitted' = IF actor[x].op \in TerminalEvents
                  THEN actor[x].op ELSE emitted
    /\ publishMu' = FALSE
    /\ actor' = [actor EXCEPT ![x] = Resting]
    /\ UNCHANGED <<runVars, terminal, storeVars, claimed, inputs, settled,
                   tainted>>

Step(x) ==
    \/ PublishBegin(x)
    \/ LoadBegin(x)
    \/ Fetch(x)
    \/ Recache(x)
    \/ Rewrite(x)
    \/ Rewritten(x)
    \/ Store(x)
    \/ Write(x)
    \/ Put(x)
    \/ Emit(x)

-----------------------------------------------------------------------------
(* The runner.                                                             *)

\* The steps that MaxInputs bounds.
Input == inputs > 0 /\ inputs' = inputs - 1

StoreIdle == UNCHANGED <<storeVars, claimed, publishMu, historyVars>>

\* Start, resetProbeEventState, and the accepted snapshot.
StartRun ==
    /\ phase = "new"
    /\ phase' = "working"
    /\ attached' = TRUE
    /\ terminal' = "none"
    /\ Begins(Runner, "accepted", "store")
    /\ UNCHANGED <<paused, cancelled, inputs>>
    /\ StoreIdle

Progress ==
    /\ phase = "working"
    /\ actor[Runner].pc = "idle"
    /\ ~paused
    /\ Input
    /\ Begins(Runner, "progress", "lock")
    /\ UNCHANGED <<runVars, terminal>>
    /\ StoreIdle

\* A safe point reached while paused publishes probe.cooling.
Cool ==
    /\ phase \in {"working", "persisted"}
    /\ actor[Runner].pc = "idle"
    /\ paused
    /\ Input
    /\ Begins(Runner, "cooling", "lock")
    /\ UNCHANGED <<runVars, terminal>>
    /\ StoreIdle

\* PersistCompletedProbe writes a completed snapshot before the run commits.
PersistCompleted ==
    /\ phase = "working"
    /\ actor[Runner].pc = "idle"
    /\ phase' = "persisted"
    /\ Begins(Runner, "persist", "store")
    /\ UNCHANGED <<attached, paused, cancelled, terminal, inputs>>
    /\ StoreIdle

\* The commit, and the slot given up before probe.completed is published.
Complete ==
    /\ phase = "persisted"
    /\ actor[Runner].pc = "idle"
    /\ ~paused /\ ~cancelled
    /\ phase' = "ended"
    /\ attached' = FALSE
    /\ Begins(Runner, "completed", "lock")
    /\ UNCHANGED <<paused, cancelled, terminal, inputs>>
    /\ StoreIdle

\* probe.cancelled or probe.failed is published while the slot is held.
Stop(e) ==
    /\ phase \in {"working", "persisted"}
    /\ actor[Runner].pc = "idle"
    /\ e = "cancelled" => cancelled
    /\ e = "failed" => phase = "working"
    /\ phase' = "ending"
    /\ Begins(Runner, e, "lock")
    /\ UNCHANGED <<attached, paused, cancelled, terminal, inputs>>
    /\ StoreIdle

ClearRun ==
    /\ phase = "ending"
    /\ actor[Runner].pc = "idle"
    /\ phase' = "ended"
    /\ attached' = FALSE
    /\ paused' = FALSE
    /\ UNCHANGED <<cancelled, terminal, actor, inputs>>
    /\ StoreIdle

RunnerNext ==
    \/ StartRun
    \/ Progress
    \/ Cool
    \/ PersistCompleted
    \/ Complete
    \/ Stop("cancelled")
    \/ Stop("failed")
    \/ ClearRun

-----------------------------------------------------------------------------
(* The others.                                                             *)

Command ==
    /\ attached
    /\ actor[User].pc = "idle"
    /\ Input
    /\ UNCHANGED <<phase, attached, terminal>>
    /\ StoreIdle

PauseProbe ==
    /\ Command
    /\ paused' = TRUE
    /\ Begins(User, "cooling", "lock")
    /\ UNCHANGED cancelled

CancelProbe ==
    /\ Command
    /\ cancelled' = TRUE
    /\ paused' = FALSE
    /\ Begins(User, "cooling", "lock")

\* ResumeProbe loads and writes the snapshot itself, then publishes.
ResumeProbe ==
    /\ Command
    /\ paused
    /\ paused' = FALSE
    /\ Begins(User, "resume", "load")
    /\ UNCHANGED cancelled

GetTask(g) ==
    /\ actor[g].pc = "idle"
    /\ Input
    /\ Begins(g, "get", "load")
    /\ UNCHANGED <<runVars, terminal>>
    /\ StoreIdle

\* A source publishes its progress while the sources are read; when a cancel
\* ends the reading early it may do so later, even after the run has ended.
PublishMCIS(s) ==
    /\ actor[s].pc = "idle"
    /\ phase = "working" \/ cancelled
    /\ phase # "crashed"
    /\ Input
    /\ Begins(s, "mcis", "lock")
    /\ UNCHANGED <<runVars, terminal>>
    /\ StoreIdle

\* A second goes by since the last rewrite.
WindowPasses ==
    /\ claimed
    /\ claimed' = FALSE
    /\ UNCHANGED <<runVars, terminal, storeVars, publishMu, actor, inputs,
                   historyVars>>

\* The process dies and is started again; a client asks it for the task.
Crash ==
    /\ phase \notin {"new", "crashed"}
    /\ phase' = "crashed"
    /\ attached' = FALSE
    /\ paused' = FALSE
    /\ cancelled' = FALSE
    /\ terminal' = "none"
    /\ cache' = NoSnapshot
    /\ claimed' = FALSE
    /\ publishMu' = FALSE
    /\ actor' = [x \in Actors |-> Resting]
    /\ inputs' = 1
    /\ UNCHANGED <<file, historyVars>>

Next ==
    \/ \E x \in Actors : Step(x)
    \/ RunnerNext
    \/ PauseProbe
    \/ CancelProbe
    \/ ResumeProbe
    \/ \E g \in Readers : GetTask(g)
    \/ \E s \in Sources : PublishMCIS(s)
    \/ WindowPasses
    \/ Crash

Spec == Init /\ [][Next]_vars

-----------------------------------------------------------------------------
(* Properties.                                                             *)

\* After a restart nothing is active: whoever asks for the task finds the end
\* that was recorded, or what the dead process left running turned to failed,
\* and neither the file nor the cache comes back to life
\* (task_store.go:151-180, 396-415).
RestartRecovers ==
    [][phase = "crashed" /\ phase' = "crashed" =>
         /\ cache' = NoSnapshot
         /\ \/ file' = file
            \/ file.status \in ActiveStatus /\ file'.status = "failed"]_vars

\* Whoever saw the terminal event can read the same end: the file was written
\* first and the cache holds nothing older, unless a goroutine with a snapshot
\* loaded before, an event the terminal guard lets pass, or a failed write came
\* in between (task_service.go:171-184, service.go:242-261).
EndIsReadable ==
    emitted # "none" /\ ~tainted
      => file.status = StatusOf[emitted] /\ cache = NoSnapshot

\* docs/reference/api-contracts.md:257: after probe.cancelled the snapshot of
\* the task says cancelled.
CancelledSnapshotSticks ==
    [][emitted = "cancelled" /\ file.status = "cancelled"
         => file'.status = "cancelled"]_vars
=============================================================================
