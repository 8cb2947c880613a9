-------------------------- MODULE StorageMigration --------------------------
(***************************************************************************)
(* The two migrations of the application's files and the record they share *)
(* with everybody else, storage.json.                                      *)
(*                                                                         *)
(*   bootstrap  resolveStorageState (app/storage.go) copies the files of a *)
(*              custom directory of an old release into the fixed one and  *)
(*              rewrites storage.json from its own structure.  It runs     *)
(*              when the program starts and again with every command that  *)
(*              asks for the storage state.                                *)
(*   layered    RunStorageMigration (appcore/storage_migration.go) moves   *)
(*              the logs while the program starts, then copies the other   *)
(*              files in a goroutine; both merge their progress into       *)
(*              storage.json.                                              *)
(*                                                                         *)
(* The user saves the configuration and cleans the legacy files meanwhile, *)
(* any file operation may fail, and the program may stop between any two   *)
(* of them.  A path holds no file, part of one, the one it held at first,  *)
(* one of the custom directory or one the user saved since.                *)
(*                                                                         *)
(* Steps of one kind stand for all of it: "logs" for the two logs,         *)
(* "config" for the scheduler's file too, "draft" for the files whose two  *)
(* paths are the same one in the desktop's layout, "tasks" for directories.*)
(***************************************************************************)
EXTENDS Naturals, SequencesExt

CONSTANTS
    NoDir, Fixed, Custom,   \* values of storage_dir in storage.json
    None, Partial,          \* no file, and part of one
    MaxFaults,              \* bound: file operations that fail
    MaxStops                \* bound: times the program stops

BoundsAssumption == {MaxFaults, MaxStops} \subseteq Nat
NamesAssumption ==
    /\ None # Partial /\ Custom \notin {NoDir, Fixed}
    /\ {None, Partial} \cap {"old", "custom", "newer"} = {}

LegacyOf == [logs |-> "cfip-log.txt", config |-> "config.json",
             draft |-> "desktop-draft.json", tasks |-> "tasks"]
TargetOf == [logs |-> "logs/cfip-log.txt", config |-> "desktop-config.json",
             draft |-> "desktop-draft.json", tasks |-> "task-data"]

Steps == DOMAIN LegacyOf
SyncSteps == <<"logs">>
BackgroundSteps == <<"config", "draft", "tasks">>

\* The known entries of a custom directory; each keeps its name.
Entries == <<"desktop-config.json", "config.json", "cfip-log.txt">>

Paths == {LegacyOf[s] : s \in Steps} \cup {TargetOf[s] : s \in Steps}
Contents == {None, Partial, "old", "custom", "newer"}

VARIABLES
    disk,       \* the files of the fixed directory
    custom,     \* the files of the custom directory
    json,       \* storage.json
    main,       \* the program: "down", "resolving", "moving" or "up"
    work,       \* the two migrations
    faults, stops,
    first,      \* history variable: the paths that held a file at first
    attempts,   \* history variable: custom directories copied
    cleaned,    \* history variable: the user removed the legacy files
    calm        \* history variable: nothing failed in this layered migration

ghosts == <<first, attempts, cleaned>>
vars == <<disk, custom, json, main, work, faults, stops, ghosts, calm>>

Jobs == {"bootstrap", "layered"}
Idle == [pc |-> "idle", todo |-> <<>>, reads |-> None, steps |-> {},
         errors |-> {}, layered |-> FALSE]
Absent == [exists |-> FALSE, dir |-> NoDir, legacy |-> NoDir,
           attempted |-> FALSE, failed |-> FALSE, steps |-> {},
           errors |-> {}, layered |-> FALSE]

Init ==
    /\ first \in SUBSET {"cfip-log.txt", "config.json"}
    /\ disk = [p \in Paths |-> IF p \in first \cup {"tasks", LegacyOf["draft"]}
                           THEN "old" ELSE None]
    /\ \/ custom = {} /\ json = Absent
       \/ /\ custom \in SUBSET {"desktop-config.json", "cfip-log.txt"}
          /\ \E again \in BOOLEAN :
                json = [Absent EXCEPT
                          !.exists = TRUE, !.dir = Custom,
                          !.attempted = again,
                          !.legacy = IF again THEN Custom ELSE NoDir]
    /\ main = "down" /\ work = [j \in Jobs |-> Idle]
    /\ faults = 0 /\ stops = 0
    /\ attempts = IF json.attempted THEN 1 ELSE 0
    /\ cleaned = FALSE /\ calm = TRUE

(***************************************************************************)
(* Failing.  Each use of Fault is one file operation that returns an error.*)
(***************************************************************************)
Fault == faults < MaxFaults /\ faults' = faults + 1
NoFault == UNCHANGED faults

\* WriteFileAtomic: the file is as it was, or the new one; a failed sync of
\* the directory is an error although the new one is in place.
Written(new, ok) ==
    \/ ok /\ json' = new /\ NoFault
    \/ ~ok /\ Fault /\ json' \in {json, new}

(***************************************************************************)
(* Copying one file, the same for both migrations: look, open, copy.       *)
(***************************************************************************)
Item(j) == Head(work[j].todo)
Target(j) == IF j = "bootstrap" THEN Item(j) ELSE TargetOf[Item(j)]
Source(j) ==
    IF j = "bootstrap" THEN IF Item(j) \in custom THEN "custom" ELSE None
                       ELSE disk[LegacyOf[Item(j)]]
Moves(j) == j = "layered" /\ Item(j) = "logs"
Directory(j) == j = "layered" /\ Item(j) = "tasks"

Succeed(j) ==
    work' = [work EXCEPT
               ![j].pc = "next", ![j].todo = Tail(@), ![j].reads = None,
               ![j].steps = @ \cup {Item(j)},
               ![j].errors = IF Directory(j) THEN @ ELSE @ \ {Item(j)}]

\* A failure of the custom directory or of a step is noted and the next
\* file has its turn.
Fail(j) ==
    /\ work' = [work EXCEPT
                  ![j].pc = "next", ![j].todo = Tail(@), ![j].reads = None,
                  ![j].errors = @ \cup {Item(j)}]
    /\ calm' = (j = "layered" => FALSE)

\* Steps that are over already are passed by.
Passed(j) ==
    /\ j = "layered" /\ ~Directory(j)
    /\ \/ Item(j) \in work[j].steps
       \/ LegacyOf[Item(j)] = TargetOf[Item(j)]

Look(j) ==
    /\ work[j].pc = "next" /\ work[j].todo # <<>>
    /\ \/ /\ Passed(j)
          /\ work' = [work EXCEPT ![j].todo = Tail(@),
                                  ![j].steps = @ \cup {Item(j)}]
          /\ UNCHANGED <<disk, faults, calm>>
       \/ /\ ~Passed(j)
          /\ \/ Source(j) = None
             \/ disk[Target(j)] # None
          /\ Succeed(j) /\ UNCHANGED <<disk, faults, calm>>
       \/ /\ ~Passed(j) /\ Source(j) # None /\ disk[Target(j)] = None
          /\ \/ /\ Moves(j)     \* os.Rename
                /\ disk' = [disk EXCEPT ![Target(j)] = Source(j),
                                        ![LegacyOf[Item(j)]] = None]
                /\ Succeed(j)
             \/ UNCHANGED disk /\ work' = [work EXCEPT ![j].pc = "open"]
          /\ UNCHANGED <<faults, calm>>
       \/ ~Passed(j) /\ Fault /\ Fail(j) /\ UNCHANGED disk
    /\ UNCHANGED <<custom, json, main, stops, ghosts>>

\* Mutant: the file is opened without O_EXCL.
ExclusiveNever(j) == j \in Jobs

\* Another file may have taken the target's place since Look.
Exclusive(j) == disk[Target(j)] = None

\* Mutant: a moved log is removed from its old place when the copy begins.
OpenedMoved(j) == [disk EXCEPT ![Target(j)] = Partial,
                 ![LegacyOf["logs"]] = IF Moves(j) THEN None ELSE @]

Opened(j) == [disk EXCEPT ![Target(j)] = Partial]

CopyOpen(j) ==
    /\ work[j].pc = "open"
    /\ \/ /\ Source(j) # None /\ Exclusive(j)
          /\ disk' = Opened(j)
          /\ work' = [work EXCEPT ![j].pc = "copy", ![j].reads = Source(j)]
          /\ UNCHANGED <<faults, calm>>
       \/ /\ Source(j) # None /\ ~Exclusive(j) /\ UNCHANGED <<disk, faults>>
          /\ IF j = "layered" THEN Succeed(j) /\ UNCHANGED calm ELSE Fail(j)
       \/ Source(j) = None /\ Fail(j) /\ UNCHANGED <<disk, faults>>
       \/ Fault /\ Fail(j) /\ UNCHANGED disk
    /\ UNCHANGED <<custom, json, main, stops, ghosts>>

\* The file that is written is the one at the path unless the user has saved
\* another one there.
Filled(j) ==
    [disk EXCEPT ![Target(j)] = IF @ = Partial THEN work[j].reads ELSE @]

CopyDone(j) ==
    /\ work[j].pc = "copy"
    /\ \/ ~Moves(j) /\ disk' = Filled(j) /\ Succeed(j) /\ NoFault
          /\ UNCHANGED calm
       \/ Moves(j) /\ disk' = [Filled(j) EXCEPT ![LegacyOf[Item(j)]] = None]
          /\ Succeed(j) /\ NoFault /\ UNCHANGED calm
       \/ Moves(j) /\ disk' = Filled(j) /\ Fault /\ Fail(j)
    /\ UNCHANGED <<custom, json, main, stops, ghosts>>

\* migrateFile removes what is at the target, copyFile leaves it there.
CopyFails(j) ==
    /\ work[j].pc = "copy" /\ Fault /\ Fail(j)
    /\ disk' = IF j = "layered" THEN [disk EXCEPT ![Target(j)] = None]
                                ELSE disk
    /\ UNCHANGED <<custom, json, main, stops, ghosts>>

(***************************************************************************)
(* resolveStorageState.                                                    *)
(***************************************************************************)
\* Mutant: the recorded attempt is not looked at.
NeverAttempted == json.legacy = Custom /\ json.dir # Custom

AlreadyAttempted == json.legacy = Custom /\ json.attempted

Resolved(todo, pc) ==
    work' = [work EXCEPT !["bootstrap"] = [Idle EXCEPT !.pc = pc,
                                                       !.todo = todo]]

ResolveBegin ==
    /\ main \in {"resolving", "up"} /\ work["bootstrap"].pc = "idle"
    /\ \/ json.dir = Custom /\ ~AlreadyAttempted
          /\ Resolved(Entries, "next") /\ attempts' = attempts + 1
       \/ /\ json.exists /\ UNCHANGED attempts
          /\ \/ json.dir = NoDir
             \/ json.dir = Custom /\ AlreadyAttempted
          /\ Resolved(<<>>, "write")
       \/ /\ main = "resolving" /\ UNCHANGED attempts
          /\ ~json.exists \/ json.dir = Fixed
          /\ Resolved(<<>>, "done")
    /\ UNCHANGED <<disk, custom, json, main, faults, stops, first, cleaned,
                   calm>>

\* What the structure does not know of is dropped with it.
Bootstrap ==
    [Absent EXCEPT !.exists = TRUE, !.dir = Fixed, !.legacy = json.legacy,
                   !.attempted = json.attempted, !.failed = json.failed]

ResolveCopied ==
    /\ work["bootstrap"].pc = "next" /\ work["bootstrap"].todo = <<>>
    /\ \E ok \in BOOLEAN :
          Written([Bootstrap EXCEPT
                     !.legacy = Custom, !.attempted = TRUE,
                     !.failed = work["bootstrap"].errors # {}], ok)
    /\ Resolved(<<>>, "done")
    /\ UNCHANGED <<disk, custom, main, stops, ghosts, calm>>

ResolveWrite ==
    /\ work["bootstrap"].pc = "write"
    /\ \E ok \in BOOLEAN : Written(Bootstrap, ok)
    /\ Resolved(<<>>, "done")
    /\ UNCHANGED <<disk, custom, main, stops, ghosts, calm>>

\* NewApp goes on to RunStorageMigration, a command answers.
ResolveDone ==
    /\ work["bootstrap"].pc = "done"
    /\ \/ main = "up" /\ UNCHANGED main
          /\ work' = [work EXCEPT !["bootstrap"] = Idle]
       \/ /\ main = "resolving" /\ main' = "moving"
          /\ work' = [j \in Jobs |->
                        IF j = "bootstrap" THEN Idle
                        ELSE [pc |-> "next", todo |-> SyncSteps,
                              reads |-> None, steps |-> json.steps,
                              errors |-> json.errors,
                              layered |-> json.layered]]
    /\ UNCHANGED <<disk, custom, json, faults, stops, ghosts, calm>>

(***************************************************************************)
(* RunStorageMigration after the files of a list were looked at.           *)
(***************************************************************************)
\* Every field of the state replaces the one of the file, but an empty set of
\* errors is not written at all.
Merged(w) ==
    [json EXCEPT !.exists = TRUE, !.steps = w.steps, !.layered = w.layered,
                 !.errors = IF w.errors = {} THEN @ ELSE w.errors]

SyncPersist ==
    /\ main = "moving" /\ work["layered"].pc = "next"
    /\ work["layered"].todo = <<>>
    /\ main' = "up"
    /\ \E ok \in BOOLEAN :
          /\ Written(Merged(work["layered"]), ok)
          /\ work' = [work EXCEPT !["layered"] =
                        [Idle EXCEPT !.pc = IF ok THEN "wait" ELSE @]]
    /\ UNCHANGED <<disk, custom, stops, ghosts, calm>>

BackgroundBegin ==
    /\ work["layered"].pc = "wait"
    /\ work' = [work EXCEPT !["layered"] =
                  [pc |-> "next", todo |-> BackgroundSteps, reads |-> None,
                   steps |-> json.steps, errors |-> json.errors,
                   layered |-> json.layered]]
    /\ UNCHANGED <<disk, custom, json, main, faults, stops, ghosts, calm>>

\* Mutant: the migration is over whatever failed.
CompletedAlways(w) == [w EXCEPT !.layered = TRUE]

\* The migration is over when no step has an error left.
Completed(w) == [w EXCEPT !.layered = @ \/ w.errors = {}]

BackgroundPersist ==
    /\ main = "up" /\ work["layered"].pc = "next"
    /\ work["layered"].todo = <<>>
    /\ \E ok \in BOOLEAN : Written(Merged(Completed(work["layered"])), ok)
    /\ work' = [work EXCEPT !["layered"] = [Idle EXCEPT !.pc = "over"]]
    /\ UNCHANGED <<disk, custom, main, stops, ghosts, calm>>

(***************************************************************************)
(* The program and its user.                                               *)
(***************************************************************************)
Start ==
    /\ main = "down" /\ main' = "resolving" /\ calm' = TRUE
    /\ UNCHANGED <<disk, custom, json, work, faults, stops, ghosts>>

\* The program stops or dies; what is half written stays so.
Stop ==
    /\ main # "down" /\ stops < MaxStops
    /\ stops' = stops + 1 /\ main' = "down"
    /\ work' = [j \in Jobs |-> Idle]
    /\ UNCHANGED <<disk, custom, json, faults, ghosts, calm>>

\* config.save, which knows nothing of the migrations.
SaveConfig ==
    /\ main = "up"
    /\ disk' = [disk EXCEPT !["desktop-config.json"] = "newer"]
    /\ UNCHANGED <<custom, json, main, work, faults, stops, ghosts, calm>>

\* storage.set: no directory but the fixed one is left to choose.  Its answer
\* resolves the storage state once more.
SetDirectory ==
    /\ main = "up" /\ work["bootstrap"].pc = "idle"
    /\ \E ok \in BOOLEAN : Written(Bootstrap, ok)
    /\ UNCHANGED <<disk, custom, main, work, stops, ghosts, calm>>

\* Mutant: the paths that are targets too are not passed over.
CleansDraft == {LegacyOf[s] : s \in Steps \ {"tasks"}}

\* storage.force_clean_legacy removes the legacy files that are no targets,
\* whether they were migrated or not.
Cleanable == {LegacyOf["logs"], LegacyOf["config"]}

ForceClean ==
    /\ main = "up" /\ cleaned' = TRUE
    /\ disk' = [p \in Paths |-> IF p \in Cleanable THEN None ELSE disk[p]]
    /\ UNCHANGED <<custom, json, main, work, faults, stops, first, attempts,
                   calm>>

Next ==
    \/ \E j \in Jobs : Look(j) \/ CopyOpen(j) \/ CopyDone(j) \/ CopyFails(j)
    \/ ResolveBegin \/ ResolveCopied \/ ResolveWrite \/ ResolveDone
    \/ SyncPersist \/ BackgroundBegin \/ BackgroundPersist
    \/ Start \/ Stop \/ SaveConfig \/ SetDirectory \/ ForceClean

Spec == Init /\ [][Next]_vars

(***************************************************************************)
(* Properties                                                              *)
(***************************************************************************)

\* The variables keep to their sets, and the draft, whose old and new place
\* are one, stays what it is.
TypeOK ==
    /\ disk \in [Paths -> Contents] /\ disk[TargetOf["draft"]] = "old"
    /\ json.steps \cup json.errors \subseteq Steps
    /\ json.dir \in {NoDir, Fixed, Custom} /\ json.legacy \in {NoDir, Custom}
    /\ {json.exists, json.attempted, json.failed, json.layered}
          \subseteq BOOLEAN
    /\ main \in {"down", "resolving", "moving", "up"}
    /\ \A j \in Jobs : work[j].pc \in {"idle", "next", "open", "copy",
                                       "write", "done", "wait", "over"}
    /\ faults \in 0 .. MaxFaults /\ stops \in 0 .. MaxStops

\* Moving and copying lose nothing: until the user asks for it, every file
\* that was there at first is whole at its old place or at its new one,
\* whatever fails and whenever the program stops.
OldKept ==
    ~cleaned =>
       \A s \in Steps : LegacyOf[s] \in first =>
                        "old" \in {disk[LegacyOf[s]], disk[TargetOf[s]]}

\* A migration recorded as completed has marked every step of the background
\* list, each in this start or in an earlier one.
CompletedIsTrue == json.layered => ToSet(BackgroundSteps) \subseteq json.steps

\* A custom directory is copied once, and again only after a start that was
\* cut short or a record that could not be written.
OneTime == attempts <= 1 + faults + stops /\ (json.attempted => attempts > 0)

\* No migration puts an older file over a configuration the user saved.
NewerKept ==
    [][disk["desktop-config.json"] = "newer" =>
          disk'["desktop-config.json"] \in {"newer", None}]_vars

\* What storage_migration.go:13 promises of the record, that it holds the
\* progress of the migration: no step marked in it is forgotten.
\* Documented and not kept by the code; see the README.
ProgressKept == [][json.steps \subseteq json'.steps]_vars

\* What storage_migration.go:71 promises, that a failed copy remains
\* retryable: a step of the background list is marked only once its target
\* is a whole file.  (One of a custom directory may be cut before.)
\* Documented and not kept by the code; see the README.
MarkedIsWhole ==
    custom = {} => \A s \in ToSet(BackgroundSteps) \cap json.steps :
                      disk[TargetOf[s]] # Partial

\* What storage_migration.go:24 promises, that the other files can be
\* retried: a later start in which nothing fails completes the migration.
\* Documented and not kept by the code; see the README.
RetryCompletes ==
    [][calm /\ faults' = faults /\ work["layered"].pc = "next"
          /\ work'["layered"].pc = "over" => json'.layered]_vars

\* The invariants above together.
Safety ==
    /\ TypeOK /\ OldKept /\ CompletedIsTrue /\ OneTime
=============================================================================
