----------------------------- MODULE MCServices -----------------------------
(***************************************************************************)
(* Small instances of the services around a probe: the uploads of results, *)
(* the push to DNS, the notifications, the event hub of the web UI, the    *)
(* configuration files, the migration of the storage, the self update and  *)
(* the scheduler.  Each behaviour is one of these parts at work; the       *)
(* others stay in an initial state.                                        *)
(***************************************************************************)
EXTENDS Integers, Sequences

CONSTANTS Parts, None, NoTask, s1, NoSrc, Default, Recent,
          Probe, NoDir, Fixed, Custom, Partial, Nothing,
          NoConfig, BadConfig, NoLoop, Command,
          \* UploadFlow
          UploadJobs, Works, Requests, Good, UploadFaults, Commits,
          \* EventHub
          Tasks, Clients, HistoryLimit, QueueCap, MaxEvents, MaxConnects,
          \* ConfigStore
          Callers, Srcs, Ids, MaxEdits, MaxOps,
          \* StorageMigration
          FileFaults, Stops,
          \* SelfUpdate
          Mirrors, Tags, Current, Assets, Here, Sizes, MaxFiles, MaxEntry, MaxTotal, SameFs,
          \* Scheduler
          RunConfigs, Day, MaxTime, MaxLoops, MaxSaves, MaxRuns

VARIABLES
    part,
    \* UploadFlow
    work, pc, halt, report, rows, sha, notice, sent, result, repo, faults,
    others, begun, late, done,
    \* DNSPush
    zone, push, pushes, pushFaults, listed,
    \* Notifier
    conf, msg, stages, queue, expired, dead, warnings, sendFaults, due, tried,
    got,
    \* EventHub
    eventSeq, ended, history, pub, conn, page, log, received, lost, missed,
    \* ConfigStore
    cfg, draft, bak, profiles, backup, lock, shown, op, tick, edits, ops,
    before, spoilt, met,
    \* StorageMigration
    disk, custom, json, main, moves, diskFaults, stops, held, attempts,
    cleaned, calm,
    \* SelfUpdate
    step, tag, asset, asked, worker, results, errs, cancelled, winner, files,
    package, unpacked, staged, script, exe, whole,
    \* Scheduler
    clock, saved, runDraft, status, handle, loop, saver, run, saves, runs,
    probed, collided

----------------------------------------------------------------------------
(* One job of every kind, beside one that is refused, and two jobs that    *)
(* export: three results of which the filter lets two through.             *)
AutoUpload == [kind |-> "auto", rows |-> <<"a", "x", "b">>, probe |-> "ok",
               cf |-> TRUE, gh |-> TRUE, cfReady |-> TRUE, ghReady |-> TRUE,
               ghValid |-> TRUE, filter |-> TRUE, broken |-> FALSE, top |-> 1,
               file |-> FALSE, trigger |-> FALSE, task |-> "t", path |-> "task"]
Scheduled == [AutoUpload EXCEPT !.kind = "scheduled", !.top = 0, !.task = "s"]
ManualCF == [AutoUpload EXCEPT !.kind = "manual_cf", !.trigger = TRUE, !.gh = FALSE]
ManualGH == [AutoUpload EXCEPT !.kind = "manual_gh", !.trigger = TRUE, !.cf = FALSE,
                               !.top = 2]
Quiet == [ManualGH EXCEPT !.ghValid = FALSE, !.trigger = FALSE]
MCWorks ==
    {AutoUpload, [AutoUpload EXCEPT !.path = "fixed", !.filter = FALSE, !.cfReady = FALSE],
     [AutoUpload EXCEPT !.rows = <<>>], [AutoUpload EXCEPT !.ghReady = FALSE],
     [AutoUpload EXCEPT !.rows = <<"x">>, !.cf = FALSE],
     [AutoUpload EXCEPT !.broken = TRUE],
     Scheduled, [Scheduled EXCEPT !.probe = "failed"],
     [Scheduled EXCEPT !.probe = "skipped"],
     [Scheduled EXCEPT !.ghReady = FALSE, !.path = "outside"],
     [Scheduled EXCEPT !.broken = TRUE, !.cf = FALSE],
     ManualCF, ManualGH, [ManualGH EXCEPT !.ghValid = FALSE],
     [ManualGH EXCEPT !.path = "fixed", !.file = TRUE, !.trigger = FALSE], Quiet}
MCRequests ==
    LET first == CHOOSE j \in UploadJobs : TRUE
        beside(w, v) == [j \in UploadJobs |-> IF j = first THEN w ELSE v]
    IN  {beside(w, Quiet) : w \in MCWorks}
          \cup {beside(Scheduled, ManualGH), beside(ManualGH, ManualGH)}
Upload == INSTANCE UploadFlow WITH
    Jobs <- UploadJobs, MaxFaults <- UploadFaults, MaxOthers <- Commits

(* Two addresses of the first family and one of the second, two names,     *)
(* three data centres; two pushes of any configuration, two faults.        *)
Row(ip, v6, colo, good) == [ip |-> ip, v6 |-> v6, colos |-> {colo}, good |-> good]
Open == [on |-> FALSE, version |-> "any", allow |-> {}, deny |-> {}]
Filter(version, allow, deny) ==
    [on |-> TRUE, version |-> version, allow |-> allow, deny |-> deny]
Rule(name, type, mode, tokens, top) ==
    [name |-> name, type |-> type, mode |-> mode, tokens |-> tokens, top |-> top]
Target(name, type, top, shared, rules) ==
    [name |-> name, type |-> type, top |-> top, shared |-> shared, rules |-> rules]
MCTargets ==
    {Target("n", "ALL", 0, Open, <<>>),
     Target("n", "A", 2, Filter("any", {}, {"HKG"}), <<>>),
     Target("n", "ALL", 0, Filter("any", {"HKG", "XXX"}, {}),
            <<Rule("m", "ALL", "deny", {"HKG"}, 0), Rule(None, "A", "allow", {}, 1)>>),
     Target("n", "A", 1, Filter("ipv4", {}, {"XXX"}),
            <<Rule("m", "A", "deny", {"HKG"}, 1)>>),
     Target(None, "A", 0, Open, <<Rule("n", "AAAA", "allow", {"SJC"}, 0),
                                  Rule("m", "ALL", "allow", {"XXX"}, 0)>>)}
Rec(name, type, content, mine) ==
    [name |-> name, type |-> type, content |-> content, mine |-> mine]
DNS == INSTANCE DNSPush WITH
    Rows <- <<Row("p", FALSE, "HKG", TRUE), Row("s", TRUE, "SJC", TRUE),
              Row("q", FALSE, "SJC", TRUE), Row("r", FALSE, "LAX", FALSE)>>,
    Confs <- MCTargets,
    Zones <- {{}, {Rec("n", "CNAME", "host", FALSE)},
              {Rec("n", "A", "p", FALSE), Rec("n", "A", "z", TRUE),
               Rec("m", "AAAA", "s", TRUE)},
              {Rec("n", "AAAA", "y", FALSE), Rec("m", "A", "q", FALSE)}},
    Colos <- {"HKG", "SJC", "LAX"}, MaxPushes <- 2, MaxFaults <- 2, faults <- pushFaults

(* A group and a person, two plain addresses, a robot of each kind and two *)
(* members of the application; five configurations, ten messages.          *)
NoTelegram == [on |-> FALSE, token |-> TRUE, chat |-> "group", personal |-> "me",
               mode |-> "chat", topMode |-> "chat", includeTop |-> FALSE]
Split == [NoTelegram EXCEPT !.on = TRUE, !.topMode = "personal", !.includeTop = TRUE]
Both == [Split EXCEPT !.mode = "both", !.topMode = "both", !.personal = "group"]
NoHook == [on |-> FALSE, app |-> FALSE, mobiles |-> <<>>, urls |-> <<>>,
           robots |-> <<>>, ding |-> None, secret |-> FALSE]
Plain == [NoHook EXCEPT !.on = TRUE, !.urls = <<"u", "bad", "u", "v">>,
                        !.robots = <<"w">>, !.ding = "d", !.secret = TRUE]
App == [NoHook EXCEPT !.on = TRUE, !.app = TRUE, !.mobiles = <<"m", "n">>,
                      !.urls = <<"u">>, !.robots = <<"w">>]
NoMail == [on |-> FALSE, complete |-> FALSE]
Mailed == [on |-> TRUE, complete |-> TRUE]
Conf(tg, hook, mail) == [tg |-> tg, hook |-> hook, mail |-> mail]
MCConfs ==
    {Conf(Split, Plain, NoMail), Conf(Both, App, Mailed),
     Conf([Split EXCEPT !.mode = "both", !.personal = None],
          [Plain EXCEPT !.ding = "bad"], [NoMail EXCEPT !.on = TRUE]),
     Conf([Split EXCEPT !.token = FALSE],
          [Plain EXCEPT !.ding = "bad", !.secret = FALSE], Mailed),
     Conf([Both EXCEPT !.personal = "me", !.topMode = "chat"], NoHook, Mailed)}
MCMessages ==
    {[kind |-> "upload", failure |-> f, top |-> t, size |-> z] :
        f \in BOOLEAN, t \in {0, 3}, z \in {1, 3}}
    \cup {[kind |-> k, failure |-> TRUE, top |-> 0, size |-> 1] : k \in {"failure", "test"}}
Notify == INSTANCE Notifier WITH
    Confs <- MCConfs, Messages <- MCMessages, MaxLength <- 2, MaxFaults <- 2,
    late <- expired, faults <- sendFaults

(* One page that loses its connection once, a queue of two, a history of   *)
(* two, two tasks.                                                         *)
Hub == INSTANCE EventHub WITH got <- received

(* One page and a probe: a save or a draft, and two other commands.        *)
Store == INSTANCE ConfigStore WITH page <- shown

(* Up to two starts, and a failure in either of them.                      *)
Storage == INSTANCE StorageMigration WITH
    MaxFaults <- FileFaults, MaxStops <- Stops, work <- moves, faults <- diskFaults, first <- held

(* An older, an equal and a newer release, a manifest of two assets out of *)
(* four, packages of up to two files; three mirrors, any failure and stop. *)
MCTags == {<<1, 9>>, <<2>>, <<2, 0, 0>>, <<2, 0, 1>>}
MCCurrent == <<2, 0>>
Asset(target, platform, summed, binary) ==
    [target |-> target, platform |-> platform, summed |-> summed, binary |-> binary]
MCAssets ==
    {Asset("linux", "", TRUE, TRUE), Asset("", "linux", FALSE, TRUE),
     Asset("linux", "linux", TRUE, FALSE), Asset("windows", "", TRUE, TRUE)}
Update == INSTANCE SelfUpdate WITH pc <- step, parts <- files, first <- whole

(* A configuration that is off, and one with an interval and a daily time  *)
(* whose runs prefer the draft; one save, one run, three ticks.            *)
Off == [enabled |-> FALSE, interval |-> 2, daily |-> {}, dns |-> FALSE,
        github |-> TRUE, skip |-> TRUE, draft |-> FALSE]
Often == [enabled |-> TRUE, interval |-> 2, daily |-> {0}, dns |-> TRUE,
          github |-> FALSE, skip |-> TRUE, draft |-> TRUE]
MCConfigs == {Off, Often}
Schedule == INSTANCE Scheduler WITH
    Configs <- RunConfigs, Savers <- {s1}, draft <- runDraft

ASSUME UploadAssumption == Upload!WorksAssumption /\ Upload!BoundsAssumption
ASSUME DNS!ConfsAssumption
ASSUME Notify!ConfsAssumption /\ Notify!MessagesAssumption
ASSUME HubAssumption == Hub!NoTaskAssumption /\ Hub!CapacityAssumption
ASSUME StoreAssumption ==
    Store!NamesAssumption /\ Store!BoundsAssumption /\ Store!FilesAssumption
ASSUME StorageAssumption == Storage!BoundsAssumption /\ Storage!NamesAssumption
ASSUME UpdateAssumption == Update!UpdateAssumption /\ Update!DigitsAssumption
ASSUME ScheduleAssumption ==
    /\ Schedule!BoundsAssumption /\ Schedule!ConfigsAssumption
    /\ Schedule!NamesAssumption

----------------------------------------------------------------------------
uploadVars == <<work, pc, halt, report, rows, sha, notice, sent, result, repo,
                faults, others, begun, late, done>>
dnsVars == <<zone, push, pushes, pushFaults, listed>>
notifyVars == <<conf, msg, stages, queue, expired, dead, warnings, sendFaults,
                due, tried, got>>
hubVars == <<eventSeq, ended, history, pub, conn, page, log, received, lost,
             missed>>
storeVars == <<cfg, draft, bak, profiles, backup, lock, shown, op, tick, edits,
               ops, before, spoilt, met>>
storageVars == <<disk, custom, json, main, moves, diskFaults, stops, held,
                 attempts, cleaned, calm>>
updateVars == <<step, tag, asset, asked, worker, results, errs, cancelled,
                winner, files, package, unpacked, staged, script, exe, whole>>
scheduleVars == <<clock, saved, runDraft, status, handle, loop, saver, run,
                  saves, runs, probed, collided>>
vars == <<part, uploadVars, dnsVars, notifyVars, hubVars, storeVars,
          storageVars, updateVars, scheduleVars>>

Init ==
    /\ part \in Parts
    /\ part = "upload" \/ work = CHOOSE r \in Requests : TRUE
    /\ Upload!Init
    /\ part = "dns" \/ zone = {}
    /\ DNS!Init
    /\ part = "notify" \/ conf = Conf(Split, Plain, NoMail)
    /\ part = "notify" \/ msg = CHOOSE m \in MCMessages : m.kind = "test"
    /\ Notify!Init
    /\ Hub!Init
    /\ part = "store" \/ cfg = Store!Legacy
    /\ Store!Init
    /\ part = "storage" \/ (held = {} /\ custom = {} /\ json = Storage!Absent)
    /\ Storage!Init
    /\ part = "update" \/ (files = [c \in Update!Cands |-> Nothing] /\ package = Nothing)
    /\ Update!Init
    /\ part = "schedule" \/ (saved = Off /\ runDraft = NoConfig)
    /\ Schedule!Init

Next ==
    /\ UNCHANGED part
    /\ \/ /\ part = "upload" /\ Upload!Next
          /\ UNCHANGED <<dnsVars, notifyVars, hubVars, storeVars, storageVars, updateVars,
                         scheduleVars>>
       \/ /\ part = "dns" /\ DNS!Next
          /\ UNCHANGED <<uploadVars, notifyVars, hubVars, storeVars, storageVars, updateVars,
                         scheduleVars>>
       \/ /\ part = "notify" /\ Notify!Next
          /\ UNCHANGED <<uploadVars, dnsVars, hubVars, storeVars, storageVars, updateVars,
                         scheduleVars>>
       \/ /\ part = "hub" /\ Hub!Next
          /\ UNCHANGED <<uploadVars, dnsVars, notifyVars, storeVars, storageVars, updateVars,
                         scheduleVars>>
       \/ /\ part = "store" /\ Store!Next
          /\ UNCHANGED <<uploadVars, dnsVars, notifyVars, hubVars, storageVars, updateVars,
                         scheduleVars>>
       \/ /\ part = "storage" /\ Storage!Next
          /\ UNCHANGED <<uploadVars, dnsVars, notifyVars, hubVars, storeVars, updateVars,
                         scheduleVars>>
       \/ /\ part = "update" /\ Update!Next
          /\ UNCHANGED <<uploadVars, dnsVars, notifyVars, hubVars, storeVars, storageVars,
                         scheduleVars>>
       \/ /\ part = "schedule" /\ Schedule!Next
          /\ UNCHANGED <<uploadVars, dnsVars, notifyVars, hubVars, storeVars, storageVars,
                         updateVars>>

Spec == Init /\ [][Next]_vars
-----------------------------------------------------------------------------
(* Each property has its parts stated, with what they are about, at the    *)
(* end of the module of the part; the types are among them.                *)

(* A notification tells what happened, a shortfall is told as a failure, a *)
(* halted upload begins with one more provider at most, and two jobs with  *)
(* paths of their own do not meet (post_probe_push.go,                     *)
(* upload_notification.go, githubcore).                                    *)
UploadSafe == part = "upload" => Upload!Safety

(* A name that had an address keeps one until its target ends, whatever    *)
(* call fails or loses its answer, and a completed push left exactly the   *)
(* wanted records (cloudflarecore/dns.go:331-450, 545).                    *)
RecordsSafe == part = "dns" => DNS!Safety
(* A creation that fails leaves the addresses in place, and no push makes  *)
(* a record of a denied address (cloudflarecore/dns.go:387).               *)
RecordsKept == DNS!Kept

(* Nobody gets a message twice, a chat reads a text in order, only its     *)
(* recipients get it, the failure of one keeps no other from being called, *)
(* and silence means success (upload_notification.go:760-954).             *)
NotifySafe == part = "notify" => Notify!Safety

(* A page receives the events of a task in order and none twice, nothing   *)
(* falls between replay and registration, a full queue gives up old events *)
(* only, and no gap goes unnoticed (webui_event_hub.go).                   *)
HubSafe == part = "hub" => Hub!Safety

(* An old configuration is backed up before the new schema is written;     *)
(* moving and copying the storage lose nothing, whatever fails, and what   *)
(* is recorded as completed is (config.go, storage_migration.go).          *)
FilesSafe ==
    /\ part = "store" => Store!Safety
    /\ part = "storage" => Storage!Safety
(* A profile command or an import changes both files or none, the          *)
(* configuration has the sources of the active profile, noting statuses    *)
(* undoes no save, and no migration puts an older file over a saved one    *)
(* (source_profiles_service.go, archive_service.go, storage_migration.go). *)
FilesKept == Store!Kept /\ Storage!NewerKept

(* A package with a known sum is unpacked only with that sum, the race of  *)
(* the mirrors is won by the first whole package and leaves no rest, only  *)
(* a newer release is fetched, and the old or the new program is there at  *)
(* every moment (update.go:93-382, 489-534).                               *)
UpdateSafe == part = "update" => Update!Safety

(* A loop sleeps until the first due time, there is one loop exactly when  *)
(* runs are asked for, a run that meets an active probe is written down as *)
(* skipped, and no upload is told of without a probe (scheduler.go,        *)
(* scheduler_service.go).                                                  *)
ScheduleSafe == part = "schedule" => Schedule!Safety
=============================================================================
