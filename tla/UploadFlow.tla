----------------------------- MODULE UploadFlow -----------------------------
(***************************************************************************)
(* The uploads of results, each a job: automatic after a probe, at the end *)
(* of a scheduled run, or asked for on the results page (to Cloudflare or  *)
(* to GitHub).  A job takes its providers one after the other, gathers a   *)
(* report of each, and sends one notification of them all.                 *)
(*                                                                         *)
(* Here are the order of the steps, the checkpoints at which a pause or a  *)
(* cancel of the probe is seen, and the export to GitHub call by call.     *)
(* What a push to Cloudflare does is module DNSPush, and how a             *)
(* notification reaches its recipients is module Notifier: of the first    *)
(* there is the answer here, of the second the fact that it was sent.      *)
(*                                                                         *)
(* A result is an address; results come in the order of their score.       *)
(***************************************************************************)
EXTENDS Naturals, Sequences, FiniteSets, Filtering

CONSTANTS
    Jobs,
    Works,      \* what a job may be asked, see WorksAssumption
    Requests,   \* which job is asked what, a set of functions
    Good,       \* the results the shared filter lets through
    None,
    MaxFaults,  \* bound: calls to GitHub refused, or answers lost
    MaxOthers   \* bound: commits of somebody else

Kinds == {"auto", "scheduled", "manual_cf", "manual_gh"}

\* kind     who asked
\* rows     the results
\* probe    the outcome of a scheduled run's probe: ok, failed or skipped
\* cf, gh   the providers that are ticked for this kind of upload
\* cfReady  Cloudflare is configured;  ghReady  GitHub is switched on
\* ghValid  the owner, the repository and the token of GitHub are complete
\* filter   the shared filter is on;  broken  its data centres are unknown
\* top      how many results GitHub gets, 0 for all
\* file     the results are read from the result file
\* trigger  a manual upload asks for a notification
\* task, path   the task, which is also the path made of it, and whether the
\*              template names the task, is one path, or leads outside
WorksAssumption ==
    /\ Requests \subseteq [Jobs -> Works] /\ Requests # {}
    /\ \A w \in Works :
           /\ w.kind \in Kinds /\ w.probe \in {"ok", "failed", "skipped"}
           /\ {w.cf, w.gh, w.cfReady, w.ghReady, w.ghValid, w.filter, w.broken,
               w.file, w.trigger} \subseteq BOOLEAN
           /\ w.top \in Nat /\ w.path \in {"task", "fixed", "outside"}
           /\ w.rows \in Seq(STRING) /\ w.task \notin {"fixed", "template"}
BoundsAssumption == MaxFaults \in Nat /\ MaxOthers \in Nat /\ None \notin Nat

VARIABLES
    work,       \* the request of each job
    pc,
    halt,       \* of a job's context: run, paused or cancelled
    report,     \* what each provider of a job reported
    rows,       \* the rows to export
    sha,        \* the version read before the export
    notice,     \* the notification of the job
    sent,       \* whether it was sent, and with the failure message
    result,     \* the notification that the job returns
    repo,       \* the file at each path of the repository
    faults, others,
    begun,      \* history: how often a job began with a provider
    late,       \* history: how many providers it began while halted
    done        \* history: how many rows a provider took from it

vars == <<work, pc, halt, report, rows, sha, notice, sent, result, repo,
          faults, others, begun, late, done>>
github == <<rows, sha, repo, faults, others>>
history == <<begun, late, done>>

Providers == {"cf", "gh"}
Statuses == {"completed", "partial", "failed", "skipped"}

Report(status, count) == [status |-> status, count |-> count]
NoReport == Report("none", 0)

Kind(j) == work[j].kind

-----------------------------------------------------------------------------
(* The selection of the rows, and the notification.                        *)

Filtered(w, s) ==
    IF w.filter THEN OnlyIn(s, Good) ELSE s

GitHubRows(w, s) ==
    LET f == Filtered(w, s)
    IN  IF w.top = 0 \/ Len(f) <= w.top THEN f ELSE SubSeq(f, 1, w.top)

\* Mutant: the placeholder of the task is not replaced.
PathOneForAll(w) == CASE w.path = "task"    -> "template"
             [] w.path = "fixed"   -> "fixed"
             [] w.path = "outside" -> "template"

\* RenderTemplate.  A template that leads out of the repository is replaced
\* by the default template as it is written, its placeholders included.
Path(w) == CASE w.path = "task"    -> w.task
             [] w.path = "fixed"   -> "fixed"
             [] w.path = "outside" -> "template"

\* uploadNotificationOverallStatus.
Overall(r) ==
    LET good == \E p \in Providers : r[p].status \in {"completed", "partial"}
        bad  == \E p \in Providers : r[p].status \in {"failed", "partial"}
    IN  CASE good /\ bad -> "partial"
          [] bad /\ ~good -> "failed"
          [] good /\ ~bad -> "completed"
          [] OTHER -> "skipped"

BuildUploadNotification(r) == [status |-> Overall(r), of |-> r]

\* Mutant: a part that failed is no failure.
HasFailureWhole(n) ==
    \/ n.status \in {"failed"}
    \/ \E p \in Providers : n.of[p].status \in {"failed"}

UploadNotificationHasFailure(n) ==
    \/ n.status \in {"failed", "partial"}
    \/ \E p \in Providers : n.of[p].status \in {"failed", "partial"}

\* skippedUploadReportsForEnabledPostProbePushProviders.
SkippedReports(w) ==
    [p \in Providers |-> IF w[p] THEN Report("skipped", 0) ELSE NoReport]

\* Mutant: a push that reached some of its targets counts as complete.
FromCommandNoPartial(code, count) ==
    Report(CASE code \in {"PARTIAL", "OK"} -> "completed"
             [] code = "INPUT_EMPTY" -> "skipped"
             [] OTHER -> "failed",
           IF count = None THEN 0 ELSE count)

\* UploadProviderReportFromCommandResult.
FromCommand(code, count) ==
    Report(CASE code = "PARTIAL" -> "partial"
             [] code = "OK" -> "completed"
             [] code = "INPUT_EMPTY" -> "skipped"
             [] OTHER -> "failed",
           IF count = None THEN 0 ELSE count)

\* schedulerUploadProviderReport: a provider that was skipped because the
\* probe failed has failed.
OfScheduler(w, probe, r, p) ==
    IF ~w[p] THEN NoReport
    ELSE IF probe = "failed" /\ r[p].status = "skipped"
         THEN Report("failed", r[p].count) ELSE r[p]

-----------------------------------------------------------------------------
\* Mutant: only the first checkpoint waits.
AtCheckpointOnce(j) == Kind(j) = "auto" /\ pc[j] = "begin" => halt[j] # "paused"

\* The checkpoints of an automatic upload wait while the probe is paused;
\* the context of a scheduled one is only looked at by the calls themselves.
AtCheckpoint(j) == Kind(j) = "auto" => halt[j] # "paused"
GivesUp(j) == Kind(j) = "auto" /\ halt[j] = "cancelled"

Go(j, to) == pc' = [pc EXCEPT ![j] = to]

GiveUp(j) ==
    /\ AtCheckpoint(j) /\ GivesUp(j)
    /\ Go(j, "over")
    /\ UNCHANGED <<work, halt, report, notice, sent, result, github, history>>

\* processPostProbePush up to its first provider.  A scheduled run disables it.
BeginAuto(j) ==
    LET w == work[j]
        ready == [p \in Providers |->
                     w[p] /\ (IF p = "cf" THEN w.cfReady ELSE w.ghReady)]
    IN  /\ pc[j] = "begin" /\ Kind(j) = "auto"
        /\ AtCheckpoint(j) /\ ~GivesUp(j)
        /\ IF (~w.cf /\ ~w.gh) \/ (w.rows # <<>> /\ w.broken)
           THEN Go(j, "over") /\ UNCHANGED <<report, notice>>
           ELSE IF w.rows = <<>>
           THEN /\ Go(j, "send")
                /\ notice' = [notice EXCEPT
                     ![j] = BuildUploadNotification(SkippedReports(w))]
                /\ UNCHANGED report
           ELSE /\ Go(j, CASE ready.cf -> "cf"
                           [] ready.gh /\ ~ready.cf -> "gh"
                           [] OTHER -> "notice")
                /\ report' = [report EXCEPT ![j] =
                     [p \in Providers |-> IF w[p] /\ ~ready[p]
                                          THEN Report("skipped", 0)
                                          ELSE NoReport]]
                /\ UNCHANGED notice
        /\ UNCHANGED <<work, halt, sent, result, github, history>>

BeginManual(j) ==
    /\ pc[j] = "begin" /\ Kind(j) \in {"manual_cf", "manual_gh"}
    /\ Go(j, IF Kind(j) = "manual_cf" THEN "cf" ELSE "gh")
    /\ UNCHANGED <<work, halt, report, notice, sent, result, github, history>>

\* RunScheduledProbe from the end of its probe.  The counts are those of the
\* selection until a provider tells another.
BeginScheduled(j) ==
    LET w == work[j]
        failed == w.probe = "failed" \/ (w.probe = "ok" /\ w.broken)
        selected == IF w.probe = "ok" /\ ~w.broken
                    THEN [p \in Providers |->
                            Len(IF p = "gh" THEN GitHubRows(w, w.rows)
                                ELSE Filtered(w, w.rows))]
                    ELSE [p \in Providers |-> 0]
    IN  /\ pc[j] = "begin" /\ Kind(j) = "scheduled"
        /\ report' = [report EXCEPT ![j] = [p \in Providers |->
             Report(IF failed /\ w[p] THEN "failed" ELSE "skipped",
                    selected[p])]]
        /\ Go(j, CASE failed \/ w.probe = "skipped" -> "notice"
                   [] w.probe = "ok" /\ ~w.broken /\ w.cf /\ w.rows # <<>>
                        -> "cf"
                   [] OTHER -> IF w.gh THEN "gh" ELSE "notice")
        /\ UNCHANGED <<work, halt, notice, sent, result, github, history>>

Starts(j, p) ==
    /\ begun' = [begun EXCEPT ![j][p] = @ + 1]
    /\ late' = [late EXCEPT ![j] = IF halt[j] = "run" THEN 0 ELSE @ + 1]
    /\ UNCHANGED done

CloudflareBegin(j) ==
    /\ pc[j] = "cf" /\ AtCheckpoint(j) /\ ~GivesUp(j)
    /\ Starts(j, "cf")
    /\ Go(j, "pushing")
    /\ UNCHANGED <<work, halt, report, notice, sent, result, github>>

\* What DNSPush answers: a code, the number of addresses told (None if there
\* is none in the answer) and the number of those at Cloudflare.
Answers(w) ==
    LET n == Len(Filtered(w, w.rows))
    IN  CASE w.broken -> {<<"INPUT_INVALID", None, 0>>}
          [] n = 0 /\ ~w.broken -> {<<"INPUT_EMPTY", 0, 0>>}
          [] OTHER -> {<<"OK", n, n>>, <<"CONFIG_INVALID", None, 0>>,
                       <<"FAILED", 0, n>>}
                      \cup (IF n > 1 THEN {<<"PARTIAL", n - 1, n - 1>>} ELSE {})

\* Mutant: GitHub that is not ready sends the job to Cloudflare again.
AfterCloudflareAgain(w) ==
    IF w.kind # "manual_cf" /\ w.gh /\ (w.kind = "auto" => w.ghReady)
    THEN "gh" ELSE IF w.kind = "auto" /\ w.gh THEN "cf" ELSE "notice"

AfterCloudflare(w) ==
    IF w.kind # "manual_cf" /\ w.gh /\ (w.kind = "auto" => w.ghReady)
    THEN "gh" ELSE "notice"

CloudflareEnd(j) ==
    /\ pc[j] = "pushing"
    /\ \E a \in Answers(work[j]) :
         /\ report' = [report EXCEPT ![j].cf =
                LET told == FromCommand(a[1], a[2])
                IN  IF Kind(j) = "scheduled" /\ a[2] = None
                    THEN Report(told.status, @.count) ELSE told]
         /\ done' = [done EXCEPT ![j].cf = a[3]]
    /\ Go(j, AfterCloudflare(work[j]))
    /\ UNCHANGED <<work, halt, notice, sent, result, github, begun, late>>

-----------------------------------------------------------------------------
(* The export to GitHub.                                                   *)

\* The rows that an export takes: an automatic one selects those of a
\* selection once more; a result file is not filtered.
ExportRows(w) ==
    CASE w.kind = "scheduled" -> GitHubRows(w, w.rows)
      [] w.kind = "auto" -> GitHubRows(w, GitHubRows(w, w.rows))
      [] OTHER -> IF w.file THEN w.rows ELSE GitHubRows(w, w.rows)

\* Nothing to export is seen before the export, and skipped, except by hand.
SkipsExport(w) ==
    /\ w.kind # "manual_gh"
    /\ \/ GitHubRows(w, w.rows) = <<>>
       \/ w.kind = "scheduled" /\ ~w.ghReady

Refusal(w) == \/ ~w.ghValid
              \/ w.kind # "scheduled" /\ ~w.file /\ w.broken
              \/ ExportRows(w) = <<>>

GitHubSkip(j) ==
    /\ pc[j] = "gh" /\ AtCheckpoint(j) /\ ~GivesUp(j) /\ SkipsExport(work[j])
    /\ report' = [report EXCEPT ![j].gh =
          Report("skipped", IF Kind(j) = "scheduled" THEN @.count ELSE 0)]
    /\ Go(j, "notice")
    /\ UNCHANGED <<work, halt, notice, sent, result, github, history>>

Failed(j) ==
    /\ report' = [report EXCEPT ![j].gh =
          IF Kind(j) = "scheduled" THEN Report("failed", @.count)
          ELSE FromCommand("GITHUB_EXPORT_FAILED", None)]
    /\ Go(j, "notice")

GitHubBegin(j) ==
    /\ pc[j] = "gh" /\ AtCheckpoint(j) /\ ~GivesUp(j) /\ ~SkipsExport(work[j])
    /\ IF Refusal(work[j])
       THEN Failed(j) /\ UNCHANGED <<rows, history>>
       ELSE /\ rows' = [rows EXCEPT ![j] = ExportRows(work[j])]
            /\ Starts(j, "gh")
            /\ Go(j, "get")
            /\ UNCHANGED report
    /\ UNCHANGED <<work, halt, notice, sent, result, sha, repo, faults, others>>

Fault == faults < MaxFaults /\ faults' = faults + 1

\* A call of a cancelled job fails; any other may.
CallFails(j) ==
    IF halt[j] = "cancelled" THEN UNCHANGED faults ELSE Fault

\* GetContentSHA: the version of the file, None if there is no file.
GetContentSHA(j) ==
    /\ pc[j] = "get"
    /\ \/ /\ halt[j] # "cancelled"
          /\ sha' = [sha EXCEPT ![j] = repo[Path(work[j])]]
          /\ Go(j, "put")
          /\ UNCHANGED <<report, faults>>
       \/ CallFails(j) /\ Failed(j) /\ UNCHANGED sha
    /\ UNCHANGED <<work, halt, notice, sent, result, rows, repo, others, history>>

\* GitHub takes a file only with the version it replaces.  The versions of a
\* file are told apart by the number of versions before.
Accepts(j) == sha[j] = repo[Path(work[j])]
Version(j) == [by |-> j, rows |-> rows[j],
               over |-> IF repo[Path(work[j])] = None THEN 0
                        ELSE repo[Path(work[j])].over + 1]

\* PutContent: taken, taken with the answer lost, or refused.
PutContent(j) ==
    /\ pc[j] = "put"
    /\ \/ /\ halt[j] # "cancelled" /\ Accepts(j)
          /\ repo' = [repo EXCEPT ![Path(work[j])] = Version(j)]
          /\ done' = [done EXCEPT ![j].gh = Len(rows[j])]
          /\ \/ /\ report' = [report EXCEPT ![j].gh =
                      FromCommand("OK", Len(rows[j]))]
                /\ Go(j, "notice")
                /\ UNCHANGED faults
             \/ Fault /\ Failed(j)
       \/ /\ IF Accepts(j) THEN CallFails(j) ELSE UNCHANGED faults
          /\ Failed(j)
          /\ UNCHANGED <<repo, done>>
    /\ UNCHANGED <<work, halt, notice, sent, result, rows, sha, others,
                   begun, late>>

-----------------------------------------------------------------------------
(* The notification.                                                       *)

Reports(j) ==
    IF Kind(j) = "scheduled"
    THEN [p \in Providers |->
            OfScheduler(work[j],
                        IF work[j].probe = "ok" /\ work[j].broken
                        THEN "failed" ELSE work[j].probe, report[j], p)]
    ELSE report[j]

\* attachManualUploadNotification, RecordSchedulerUploadNotification and the
\* end of processPostProbePush.
Notice(j) ==
    /\ pc[j] = "notice" /\ AtCheckpoint(j) /\ ~GivesUp(j)
    /\ IF \/ \A p \in Providers : Reports(j)[p] = NoReport
          \/ (Kind(j) \in {"manual_cf", "manual_gh"} /\ ~work[j].trigger)
       THEN Go(j, "over") /\ UNCHANGED notice
       ELSE /\ notice' = [notice EXCEPT
                             ![j] = BuildUploadNotification(Reports(j))]
            /\ Go(j, "send")
    /\ UNCHANGED <<work, halt, report, sent, result, github, history>>

\* sendUploadNotification, without a word when the context is over.
Send(j) ==
    /\ pc[j] = "send"
    /\ sent' = IF halt[j] = "cancelled" THEN sent
               ELSE [sent EXCEPT ![j].notice = TRUE]
    /\ Go(j, "failure")
    /\ UNCHANGED <<work, halt, report, notice, result, github, history>>

SendTaskFailure(j) ==
    /\ pc[j] = "failure"
    /\ sent' = IF /\ halt[j] # "cancelled" /\ sent[j].notice
                  /\ UploadNotificationHasFailure(notice[j])
               THEN [sent EXCEPT ![j].failure = TRUE] ELSE sent
    /\ Go(j, "finish")
    /\ UNCHANGED <<work, halt, report, notice, result, github, history>>

Finish(j) ==
    /\ pc[j] = "finish" /\ AtCheckpoint(j) /\ ~GivesUp(j)
    /\ result' = [result EXCEPT ![j] = notice[j]]
    /\ Go(j, "over")
    /\ UNCHANGED <<work, halt, report, notice, sent, github, history>>

-----------------------------------------------------------------------------
\* A pause or a cancel from the user, for the upload of a probe, and the end
\* of the program's context for a scheduled one.
Halt(j, to) ==
    /\ pc[j] # "over" /\ halt[j] # to /\ halt[j] # "cancelled"
    /\ \/ Kind(j) = "auto"
       \/ Kind(j) = "scheduled" /\ to = "cancelled"
    /\ halt' = [halt EXCEPT ![j] = to]
    /\ late' = IF halt[j] = "run" THEN [late EXCEPT ![j] = 0] ELSE late
    /\ UNCHANGED <<work, pc, report, notice, sent, result, github,
                   begun, done>>

\* Somebody else writes a file of the repository.
Other(p) ==
    /\ others < MaxOthers
    /\ others' = others + 1
    /\ repo' = [repo EXCEPT ![p] = [by |-> "other", rows |-> <<>>,
                  over |-> IF @ = None THEN 0 ELSE @.over + 1]]
    /\ UNCHANGED <<work, pc, halt, report, rows, sha, notice, sent, result,
                   faults, history>>

Init ==
    /\ work \in Requests
    /\ pc = [j \in Jobs |-> "begin"]
    /\ halt = [j \in Jobs |-> "run"]
    /\ report = [j \in Jobs |-> [p \in Providers |-> NoReport]]
    /\ rows = [j \in Jobs |-> <<>>]
    /\ sha = [j \in Jobs |-> None]
    /\ notice = [j \in Jobs |-> None] /\ result = [j \in Jobs |-> None]
    /\ sent = [j \in Jobs |-> [notice |-> FALSE, failure |-> FALSE]]
    /\ repo = [p \in {Path(w) : w \in Works} |-> None]
    /\ faults = 0 /\ others = 0
    /\ begun = [j \in Jobs |-> [p \in Providers |-> 0]]
    /\ late = [j \in Jobs |-> 0]
    /\ done = [j \in Jobs |-> [p \in Providers |-> 0]]

Checked(j) == pc[j] \in {"begin", "cf", "gh", "notice", "finish"}

Next ==
    \/ \E j \in Jobs :
         \/ Checked(j) /\ GiveUp(j)
         \/ BeginAuto(j) \/ BeginManual(j) \/ BeginScheduled(j)
         \/ CloudflareBegin(j) \/ CloudflareEnd(j)
         \/ GitHubSkip(j) \/ GitHubBegin(j)
         \/ GetContentSHA(j) \/ PutContent(j)
         \/ Notice(j) \/ Send(j) \/ SendTaskFailure(j) \/ Finish(j)
         \/ Halt(j, "paused") \/ Halt(j, "run") \/ Halt(j, "cancelled")
    \/ \E p \in DOMAIN repo : Other(p)

Spec == Init /\ [][Next]_vars

-----------------------------------------------------------------------------
(* Properties.                                                             *)

\* Nobody's reports are out of range, and only a job that is over returns.
TypeOK ==
    /\ work \in [Jobs -> Works]
    /\ halt \in [Jobs -> {"run", "paused", "cancelled"}]
    /\ \A j \in Jobs :
         /\ \A p \in Providers :
              /\ report[j][p].status \in Statuses \cup {"none"}
              /\ report[j][p].count \in 0 .. Len(work[j].rows)
              /\ begun[j][p] \in 0 .. 1
         /\ result[j] # None => pc[j] = "over" /\ result[j] = notice[j]
    /\ faults \in 0 .. MaxFaults /\ others \in 0 .. MaxOthers

Asked(j) == Kind(j) \in {"manual_cf", "manual_gh"} => work[j].trigger
Ended(j) == pc[j] = "over" /\ halt[j] # "cancelled" /\ Asked(j)

\* How many rows a provider was to take.
Whole(j, p) == IF p = "gh" THEN Len(rows[j])
               ELSE Len(Filtered(work[j], work[j].rows))

\* A job that began with a provider ends with a notification that tells of
\* it; what it tells as complete is complete (processPostProbePush,
\* attachManualUploadNotification, RecordSchedulerUploadNotification).
TellsWhatHappened ==
    \A j \in Jobs : Ended(j) /\ (\E p \in Providers : begun[j][p] > 0) =>
        /\ sent[j].notice
        /\ \A p \in Providers : begun[j][p] > 0 =>
             LET r == notice[j].of[p]
             IN  /\ r.status # "none"
                 /\ r.status = "completed" =>
                      r.count = Whole(j, p) /\ done[j][p] = Whole(j, p)

\* An export that did not bring all of its rows to GitHub, and a push that
\* did not bring all it had, is followed by the message of a failure
\* (UploadNotificationHasFailure).
ShortfallIsAlarm ==
    \A j \in Jobs :
        /\ Ended(j)
        /\ \E p \in Providers : begun[j][p] > 0 /\ done[j][p] < Whole(j, p)
        => sent[j].failure

\* An automatic upload that is paused or cancelled begins with one more
\* provider at most (runPostProbeCheckpoint).
StopsAtCheckpoint ==
    \A j \in Jobs : Kind(j) = "auto" => late[j] <= 1

\* Two jobs whose template names their tasks do not come into each other's
\* way: when nobody else writes, the version that was read is still there
\* (RenderTemplate and ExportCSV).
OwnPathOwnVersion ==
    \A j \in Jobs :
        /\ pc[j] = "put" /\ others = 0 /\ work[j].path = "task"
        /\ \A k \in Jobs \ {j} : work[k].task # work[j].task
        => sha[j] = repo[Path(work[j])]

\* What the documents say and the code does not do.  Of upload notices: the
\* number of rows uploaded.
CountIsUploaded ==
    \A j \in Jobs : sent[j].notice =>
        \A p \in Providers : notice[j].of[p].count <= done[j][p]

\* That nothing is left to upload is skipped and no error.
EmptyIsSkipped ==
    \A j \in Jobs :
        /\ notice[j] # None /\ work[j].ghValid /\ ~work[j].broken
        /\ Kind(j) = "manual_gh" /\ Filtered(work[j], work[j].rows) = <<>>
        => notice[j].status = "skipped"

\* The shared filter is for exports to GitHub by hand, too.
FilterIsShared ==
    \A p \in DOMAIN repo :
        repo[p] # None /\ repo[p].by \in Jobs =>
            LET w == work[repo[p].by]
            IN  w.filter => \A i \in DOMAIN repo[p].rows :
                                repo[p].rows[i] \in Good

\* The invariants above together.
Safety ==
    /\ TypeOK /\ TellsWhatHappened /\ ShortfallIsAlarm /\ StopsAtCheckpoint
    /\ OwnPathOwnVersion
=============================================================================
