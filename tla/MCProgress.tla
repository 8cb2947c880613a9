----------------------------- MODULE MCProgress -----------------------------
(***************************************************************************)
(* Smaller instances of the parts that have to get somewhere: the stage,   *)
(* the readers of the sources, the search, the notification, the scheduler *)
(* and the update, under the fairness of goroutines, timeouts and the      *)
(* clock; and the list of the best with the collector it implements.  Each *)
(* behaviour is one of these parts at work; the others stay in an initial  *)
(* state.                                                                  *)
(***************************************************************************)
EXTENDS Integers, Sequences

CONSTANTS Parts, None, w1, w2, n1, n2, n3, n4, n5, s1, NoConfig, BadConfig,
          NoLoop, Command, Nothing

VARIABLES
    part,
    \* ProbeStage
    stage, main, next, pc, attempt, verdict, qualified, processed, fails,
    coolings, paused, pauses, cancelled,
    \* SourcePrepare
    holds, phase, url, outcome, prepareCancelled, prepareMain, prepareNext,
    result, filters, heap,
    \* MCISEngine
    search, failed, limit, budget, tasks, done, worker, submitted, completed,
    nodes, split, samples, lastSplit, focus, top, searchCancelled,
    \* MCISTopN
    items, seenNet, offered,
    \* Notifier
    conf, msg, stages, queue, expired, dead, warnings, sendFaults, due, tried,
    got,
    \* Scheduler
    clock, saved, draft, status, handle, loop, saver, run, saves, runs, probed,
    collided,
    \* SelfUpdate
    step, tag, asset, asked, downloads, results, errs, raceCancelled, winner,
    files, package, unpacked, staged, script, exe, whole

----------------------------------------------------------------------------
(* Two addresses, one worker, a cooldown after each failure.               *)
Stage == INSTANCE ProbeStage WITH
    N <- 2, Routines <- 1, MaxAttempts <- 2, Threshold <- 1, SuccessLimit <- 1,
    MaxPauses <- 1

(* Two sources over two addresses.                                         *)
Reading(list, active, colos) ==
    [entries |-> list, mode |-> "allow", active |-> active, colos |-> colos]
Prepare == INSTANCE SourcePrepare WITH
    NSources <- 2, Ips <- {1, 2}, Concurrency <- 2, MaxUrls <- 2,
    Readings <- {Reading(<<1, 2>>, TRUE, {"SJC"}), Reading(<<1>>, TRUE, {"LAX"}),
                 Reading(<<2>>, FALSE, {}), Reading(<<>>, TRUE, {"LAX"})},
    cancelled <- prepareCancelled, main <- prepareMain, next <- prepareNext

(* Two workers and a budget within their channels; one worker and the      *)
(* automatic budget, which is more than its channel holds.                 *)
Pair == INSTANCE MCISEngine WITH
    Workers <- {w1, w2}, Heads <- 1, AddrBits <- 3, KeyBits <- 2, Step <- 1, MaxBits <- 2,
    MinSamples <- 1, MaxNodes <- 4, SplitInterval <- 2, Explore <- 1, Rebalance <- 2,
    Rounds <- 2, SkipFirst <- 1, Answers <- {[ok |-> TRUE, ms |-> 1, colo |-> "AAA"]},
    AllowedColos <- {"AAA"}, Inputs <- {{<<0>>, <<1, 0>>}}, Limits <- {1}, Overrides <- {2},
    pc <- search, cancelled <- searchCancelled
Single == INSTANCE MCISEngine WITH
    Workers <- {w1}, Heads <- 1, AddrBits <- 3, KeyBits <- 2, Step <- 1, MaxBits <- 2,
    MinSamples <- 1, MaxNodes <- 4, SplitInterval <- 2, Explore <- 1, Rebalance <- 2,
    Rounds <- 2, SkipFirst <- 1, Answers <- {[ok |-> TRUE, ms |-> 1, colo |-> "AAA"]},
    AllowedColos <- {"AAA"}, Inputs <- {{<<0>>, <<1, 0>>}}, Limits <- {1}, Overrides <- {0},
    pc <- search, cancelled <- searchCancelled

(* Heaps of four results over five networks and three scores: deep enough  *)
(* for a sift that chooses between two children.                           *)
TopN == INSTANCE MCISTopN WITH
    N <- 4, Nets <- {n1, n2, n3, n4, n5}, Scores <- 1..3, MaxOffers <- 5

(* Two chats, plain addresses and robots, no mail: every call has a        *)
(* deadline.                                                               *)
Telegram == [on |-> TRUE, token |-> TRUE, chat |-> "group", personal |-> "me",
             mode |-> "chat", topMode |-> "personal", includeTop |-> TRUE]
Hook == [on |-> TRUE, app |-> FALSE, mobiles |-> <<>>, urls |-> <<"u", "bad", "u", "v">>,
         robots |-> <<"w">>, ding |-> "d", secret |-> TRUE]
MCConf == [tg |-> Telegram, hook |-> Hook, mail |-> [on |-> FALSE, complete |-> FALSE]]
MCMessages ==
    {[kind |-> "upload", failure |-> TRUE, top |-> 3, size |-> 3],
     [kind |-> "failure", failure |-> TRUE, top |-> 0, size |-> 1]}
Notify == INSTANCE Notifier WITH
    Confs <- {MCConf}, Messages <- MCMessages, MaxLength <- 2, MaxFaults <- 1,
    late <- expired, faults <- sendFaults

(* A configuration that is off, and one with an interval whose runs        *)
(* follow the configuration; one save, one run, two ticks.                 *)
Off == [enabled |-> FALSE, interval |-> 1, daily |-> {}, dns |-> FALSE,
        github |-> TRUE, skip |-> TRUE, draft |-> FALSE]
Often == [enabled |-> TRUE, interval |-> 1, daily |-> {}, dns |-> FALSE,
          github |-> FALSE, skip |-> TRUE, draft |-> FALSE]
Schedule == INSTANCE Scheduler WITH
    Configs <- {Off, Often}, Savers <- {s1}, Day <- 2, MaxTime <- 2, MaxLoops <- 2,
    MaxSaves <- 1, MaxRuns <- 1

(* Two mirrors, a program on the file system of the packages.              *)
Asset(target, platform, summed, binary) ==
    [target |-> target, platform |-> platform, summed |-> summed, binary |-> binary]
Update == INSTANCE SelfUpdate WITH
    Mirrors <- 2, Tags <- {<<2>>, <<2, 0, 1>>}, Current <- <<2, 0>>,
    Assets <- {Asset("linux", "", TRUE, TRUE), Asset("", "linux", FALSE, TRUE),
               Asset("windows", "", TRUE, TRUE)},
    Here <- "linux", Sizes <- {1, 3, 4}, MaxFiles <- 2, MaxEntry <- 3, MaxTotal <- 4,
    SameFs <- TRUE, pc <- step, worker <- downloads, cancelled <- raceCancelled,
    parts <- files, first <- whole

ASSUME Stage!PoolAssumption /\ Stage!LimitAssumption
ASSUME Prepare!CountsAssumption /\ Prepare!ReadingsAssumption /\ Pair!MCISAssumption
ASSUME Notify!ConfsAssumption /\ Notify!MessagesAssumption
ASSUME Schedule!BoundsAssumption /\ Schedule!ConfigsAssumption /\ Update!UpdateAssumption

----------------------------------------------------------------------------
stageVars == <<stage, main, next, pc, attempt, verdict, qualified, processed,
               fails, coolings, paused, pauses, cancelled>>
prepareVars == <<holds, phase, url, outcome, prepareCancelled, prepareMain,
                 prepareNext, result, filters, heap>>
engineVars == <<search, failed, limit, budget, tasks, done, worker, submitted,
                completed, nodes, split, samples, lastSplit, focus, top,
                searchCancelled>>
topVars == <<items, seenNet, offered>>
notifyVars == <<conf, msg, stages, queue, expired, dead, warnings, sendFaults,
                due, tried, got>>
scheduleVars == <<clock, saved, draft, status, handle, loop, saver, run, saves,
                  runs, probed, collided>>
updateVars == <<step, tag, asset, asked, downloads, results, errs,
                raceCancelled, winner, files, package, unpacked, staged,
                script, exe, whole>>
vars == <<part, stageVars, prepareVars, engineVars, topVars, notifyVars,
          scheduleVars, updateVars>>

Init ==
    /\ part \in Parts
    /\ part = "stage" \/ stage = "tcp"
    /\ Stage!Init
    /\ part = "prepare" \/ holds = [s \in 1..2 |-> Reading(<<>>, TRUE, {"LAX"})]
    /\ part = "prepare" \/ phase = [s \in 1..2 |-> "disabled"]
    /\ Prepare!Init
    /\ IF part = "single" THEN Single!Init ELSE Pair!Init
    /\ TopN!Init
    /\ part = "notify" \/ msg = CHOOSE m \in MCMessages : m.kind = "failure"
    /\ Notify!Init
    /\ draft = NoConfig /\ (saved = Off \/ (part = "schedule" /\ saved = Often))
    /\ Schedule!Init
    /\ part = "update" \/ (files = [c \in 1..2 |-> Nothing] /\ package = Nothing)
    /\ Update!Init

Next ==
    /\ UNCHANGED part
    /\ \/ /\ part = "stage" /\ Stage!Next
          /\ UNCHANGED <<prepareVars, engineVars, topVars, notifyVars, scheduleVars, updateVars>>
       \/ /\ part = "prepare" /\ Prepare!Next
          /\ UNCHANGED <<stageVars, engineVars, topVars, notifyVars, scheduleVars, updateVars>>
       \/ /\ \/ part = "pair" /\ Pair!Next
             \/ part = "single" /\ Single!Next
          /\ UNCHANGED <<stageVars, prepareVars, topVars, notifyVars, scheduleVars, updateVars>>
       \/ /\ part = "top" /\ TopN!Next
          /\ UNCHANGED <<stageVars, prepareVars, engineVars, notifyVars, scheduleVars, updateVars>>
       \/ /\ part = "notify" /\ Notify!Next
          /\ UNCHANGED <<stageVars, prepareVars, engineVars, topVars, scheduleVars, updateVars>>
       \/ /\ part = "schedule" /\ Schedule!Next
          /\ UNCHANGED <<stageVars, prepareVars, engineVars, topVars, notifyVars, updateVars>>
       \/ /\ part = "update" /\ Update!Next
          /\ UNCHANGED <<stageVars, prepareVars, engineVars, topVars, notifyVars, scheduleVars>>

\* In each part something that can go on does: a goroutine, a request that
\* can time out, the clock.  The sources of Prepare are not fair: a cancelled
\* task does not wait for them.
Spec ==
    /\ Init /\ [][Next]_vars
    /\ WF_stageVars(part = "stage" /\ (Stage!Main \/ \E i \in 1..2 : Stage!Worker(i)))
    /\ WF_prepareVars(part = "prepare" /\ Prepare!Main)
    /\ WF_engineVars(part = "pair" /\ (Pair!Main \/ \E w \in {w1, w2} : Pair!Work(w)))
    /\ WF_engineVars(part = "single" /\ (Single!Main \/ Single!Work(w1)))
    /\ WF_notifyVars(part = "notify" /\ Notify!Step)
    /\ WF_scheduleVars(part = "schedule" /\
          \/ Schedule!Tick \/ Schedule!RunStep \/ Schedule!SaverStep(s1)
          \/ \E l \in 1..2 : Schedule!LoopStep(l) \/ Schedule!RunBegin(l))
    /\ WF_updateVars(part = "update" /\ (Update!UpdateCommand \/ \E c \in 1..2 : Update!Goroutine(c)))
-----------------------------------------------------------------------------
(* The heap stays a heap within N whatever is pushed, popped and improved, *)
(* its map agrees with it, and the answer carries the best scores in order *)
(* (mcis/engine/result.go).                                                *)
BestSafe == part = "top" => TopN!Safety

\* The heap implements the abstract collector BestOfN.
Implements == TopN!Abstract!Spec

(* What was begun ends: a stage that is not left paused, a cancelled task  *)
(* at once and an uncancelled one when its sources do, a search, a         *)
(* notification without a mail, an update command even when mirrors fail;  *)
(* and a loop of the scheduler whose time comes gets its run or is told to *)
(* stop (task, sources.go:236-245, mcis/engine/engine.go,                  *)
(* upload_notification.go, scheduler.go, update.go).                       *)
EverythingEnds ==
    /\ part = "stage" => Stage!StageEnds
    /\ Prepare!CancelReturns
    /\ part = "prepare" => Prepare!PreparationEnds
    /\ part \in {"pair", "single"} => Pair!Terminates
    /\ part = "notify" => Notify!Ends
    /\ Schedule!RunsWhenDue
    /\ part = "update" => Update!Answered
=============================================================================
