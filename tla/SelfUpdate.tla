----------------------------- MODULE SelfUpdate -----------------------------
(***************************************************************************)
(* The online update of the desktop program (app/update.go, updatecore,    *)
(* githubdownload): the command DownloadAndInstallUpdate asks GitHub for   *)
(* the latest release, reads its manifest from one mirror after the other, *)
(* lets all mirrors race for the package, checks it, extracts the new      *)
(* program and leaves a shell script behind that puts it in place of the   *)
(* running one, which quits.                                               *)
(*                                                                         *)
(* A mirror may refuse, answer late or serve something else; any file      *)
(* operation may fail, and the machine may stop at any moment.  Files are  *)
(* known by what they hold: the package of the release is "good", what a   *)
(* mirror serves in its place is "bad".  Parts and packages of an earlier  *)
(* attempt may lie about when the command begins.                          *)
(*                                                                         *)
(* The installation is the one of the published Linux package; Windows     *)
(* hands its package to an installer and the others are opened for the     *)
(* user, which changes no file of ours ("manual").                         *)
(***************************************************************************)
EXTENDS Naturals, Sequences, FiniteSets, FiniteSetsExt

CONSTANTS
    Mirrors,    \* number of download candidates
    Tags,       \* versions a release may have: sequences of numbers
    Current,    \* the version of the program
    Assets,     \* assets a manifest may list
    Here,       \* this platform
    Nothing,    \* no file, no asset, no winner
    Sizes,      \* sizes of the files of a package
    MaxFiles,   \* bound: files in a package
    MaxEntry, MaxTotal,  \* maxArchiveEntryBytes, maxArchiveTotalBytes
    SameFs      \* the program lies on the file system of the packages

UpdateAssumption ==
    /\ Mirrors \in Nat \ {0} /\ {MaxFiles, MaxEntry, MaxTotal} \subseteq Nat
    /\ Sizes \subseteq Nat /\ SameFs \in BOOLEAN
    /\ \A t \in Tags \cup {Current} : t \in Seq(Nat)
    /\ \A a \in Assets : {a.summed, a.binary} \subseteq BOOLEAN
    /\ Nothing \notin 1 .. Mirrors /\ Nothing \notin {"partial", "good", "bad", "new"}

Cands == 1 .. Mirrors
Contents == {Nothing, "partial", "good", "bad"}

VARIABLES
    pc,         \* the command
    tag,        \* the release's version
    asset,      \* the asset selected
    asked,      \* the manifest's candidates asked so far
    worker,     \* the downloading goroutines
    results,    \* the channel of their results
    errs,       \* results received that were errors
    cancelled,  \* raceCtx is cancelled
    winner,     \* the candidate whose file is the package
    parts,      \* the temporary files
    package,    \* the file at targetPath
    unpacked,   \* the extraction: files left, bytes written, programs found
    staged,     \* the new program beside the package
    script,     \* the next command of the shell script, or where it ended
    exe,        \* the program's own file
    first       \* history variable: the first download that was complete

choice == <<tag, asset, asked>>
race == <<worker, results, errs, cancelled, winner, parts, package, first>>
install == <<unpacked, staged, script, exe>>
vars == <<pc, choice, race, install>>

NoUnpack == [left |-> <<>>, total |-> 0, found |-> 0]

Init ==
    /\ pc = "idle" /\ tag = Nothing /\ asset = Nothing /\ asked = 0
    /\ worker = [c \in Cands |-> "none"] /\ results = <<>> /\ errs = 0
    /\ cancelled = FALSE /\ winner = Nothing /\ first = Nothing
    /\ parts \in [Cands -> {Nothing, "partial"}]
    /\ package \in {Nothing, "bad"}
    /\ unpacked = NoUnpack /\ staged = Nothing /\ script = "none"
    /\ exe = "old"

(***************************************************************************)
(* Pure parts: versions and the asset for this platform.                   *)
(***************************************************************************)
\* Missing parts of a version count as zero.
Part(v, i) == IF i \in DOMAIN v THEN v[i] ELSE 0

\* Mutant: missing parts are less than zero.
CompareLonger(left, right) ==
    LET differ == {i \in 1 .. Len(left) + Len(right) :
                     Part(left, i) # Part(right, i)}
        i == Min(differ)
    IN  IF differ = {} THEN IF Len(left) > Len(right) THEN 1 ELSE 0
        ELSE IF Part(left, i) > Part(right, i) THEN 1 ELSE -1

CompareVersions(left, right) ==
    LET differ == {i \in 1 .. Len(left) + Len(right) :
                     Part(left, i) # Part(right, i)}
        i == Min(differ)
    IN  IF differ = {} THEN 0
        ELSE IF Part(left, i) > Part(right, i) THEN 1 ELSE -1

\* An asset is known by its goos and goarch or by its platform.
Fits(a) == Here \in {a.target, a.platform}

\* The first asset of a list that fits, as the position of it.
MatchManifestAsset(list) ==
    {i \in DOMAIN list : Fits(list[i]) /\ \A j \in 1 .. i - 1 : ~Fits(list[j])}

\* Without a manifest the name is guessed, and nothing is known of its sum.
DefaultAsset == [target |-> Here, platform |-> Here, summed |-> FALSE,
                 binary |-> TRUE]

(***************************************************************************)
(* resolveGitHubReleaseUpdate.                                             *)
(***************************************************************************)
Answer(result) == pc' = result

ReleaseFails ==
    /\ pc = "idle" /\ Answer("failed")
    /\ UNCHANGED <<choice, race, install>>

ReleaseRead ==
    /\ pc = "idle"
    /\ tag' \in Tags
    /\ \/ CompareVersions(tag', Current) # 1 /\ Answer("latest")
          /\ UNCHANGED <<asset, asked>>
       \/ /\ CompareVersions(tag', Current) = 1
          /\ \/ pc' = "manifest" /\ asked' = 1 /\ UNCHANGED asset
             \/ pc' = "race" /\ asset' = DefaultAsset /\ UNCHANGED asked
    /\ UNCHANGED <<race, install>>

\* A candidate that fails hands over to the next one.
ManifestFails ==
    /\ pc = "manifest"
    /\ IF asked = Mirrors THEN Answer("failed") /\ UNCHANGED asked
                          ELSE asked' = asked + 1 /\ UNCHANGED pc
    /\ UNCHANGED <<tag, asset, race, install>>

ManifestRead ==
    /\ pc = "manifest"
    /\ \E a, b \in Assets :
          LET list == <<a, b>>
              match == MatchManifestAsset(list)
          IN  IF match = {} THEN Answer("failed") /\ UNCHANGED asset
              ELSE pc' = "race" /\ \E i \in match : asset' = list[i]
    /\ UNCHANGED <<tag, asked, race, install>>

(***************************************************************************)
(* downloadFile: the race.                                                 *)
(***************************************************************************)
RaceBegin ==
    /\ pc = "race" /\ worker = [c \in Cands |-> "none"]
    /\ worker' = [c \in Cands |-> "asking"]
    /\ UNCHANGED <<pc, choice, results, errs, cancelled, winner,
                   parts, package, first, install>>

Sends(c, ok) ==
    /\ worker' = [worker EXCEPT ![c] = "over"]
    /\ results' = Append(results, [cand |-> c, ok |-> ok])

\* A refusal, the timeout or the cancelled context.
RequestFails(c) ==
    /\ worker[c] = "asking" /\ Sends(c, FALSE)
    /\ UNCHANGED <<pc, choice, errs, cancelled, winner, parts, package,
                   first, install>>

PartCreate(c) ==
    /\ worker[c] = "asking"
    /\ worker' = [worker EXCEPT ![c] = "copying"]
    /\ parts' = [parts EXCEPT ![c] = "partial"]
    /\ UNCHANGED <<pc, choice, results, errs, cancelled, winner,
                   package, first, install>>

\* downloadCandidateFile removes what it cannot finish.
CopyFails(c) ==
    /\ worker[c] = "copying" /\ Sends(c, FALSE)
    /\ parts' = [parts EXCEPT ![c] = Nothing]
    /\ UNCHANGED <<pc, choice, errs, cancelled, winner, package, first,
                   install>>

\* Mutant: no package is compared with its sum.
VerifiedNever(content) == asset.summed => content # Nothing

\* verifySHA256, which says nothing without a sum.
Verified(content) == asset.summed => content = "good"

CopyDone(c) ==
    /\ worker[c] = "copying"
    /\ \E served \in {"good", "bad"} :
          /\ parts' = [parts EXCEPT ![c] =
                         IF Verified(served) THEN served ELSE Nothing]
          /\ Sends(c, Verified(served))
          /\ first' = IF Verified(served) /\ first = Nothing THEN c ELSE first
    /\ UNCHANGED <<pc, choice, errs, cancelled, winner, package,
                   install>>

\* Mutant: the last result is looked at.
ResultLast == results[Len(results)]

Result == Head(results)
\* Mutant: a loser is received but its file is left.
RemovedNever == UNCHANGED parts

Removed == parts' = [parts EXCEPT ![Result.cand] = Nothing]

\* Every candidate that failed is cleaned after; the last one ends the race.
ReceiveError ==
    /\ pc = "race" /\ results # <<>> /\ ~Result.ok
    /\ Removed /\ results' = Tail(results) /\ errs' = errs + 1
    /\ IF errs' = Mirrors THEN Answer("failed") ELSE UNCHANGED pc
    /\ UNCHANGED <<choice, worker, cancelled, winner, package, first,
                   install>>

ReceiveWinner ==
    /\ pc = "race" /\ results # <<>> /\ Result.ok
    /\ cancelled' = TRUE /\ winner' = Result.cand /\ results' = Tail(results)
    /\ pc' = "replace"
    /\ UNCHANGED <<choice, worker, errs, parts, package, first, install>>

\* os.Remove and os.Rename; an error leaves the losers to themselves.
ReplaceFails ==
    /\ pc \in {"replace", "rename"} /\ Answer("dropped")
    /\ parts' = [parts EXCEPT ![winner] = Nothing]
    /\ UNCHANGED <<choice, worker, results, errs, cancelled, winner,
                   package, first, install>>

PackageRemove ==
    /\ pc = "replace" /\ pc' = "rename" /\ package' = Nothing
    /\ UNCHANGED <<choice, worker, results, errs, cancelled, winner,
                   parts, first, install>>

PackageRename ==
    /\ pc = "rename" /\ pc' = "drain"
    /\ package' = parts[winner] /\ parts' = [parts EXCEPT ![winner] = Nothing]
    /\ UNCHANGED <<choice, worker, results, errs, cancelled, winner,
                   first, install>>

\* Mutant: the winner is waited for again.
RemainingAll == Mirrors - errs

\* Losers that have not reported yet; each is received and cleaned after.
Remaining == Mirrors - errs - 1

Drain ==
    /\ pc = "drain"
    /\ \/ /\ Remaining > 0 /\ results # <<>>
          /\ Removed /\ results' = Tail(results) /\ errs' = errs + 1
          /\ UNCHANGED pc
       \/ /\ Remaining = 0 /\ pc' = "verify"
          /\ UNCHANGED <<parts, results, errs>>
    /\ UNCHANGED <<choice, worker, cancelled, winner, package, first,
                   install>>

(***************************************************************************)
(* startInstallStrategy.                                                   *)
(***************************************************************************)
Packages == UNION {[1 .. n -> [size : Sizes, program : BOOLEAN]] :
                     n \in 0 .. MaxFiles}

\* The package that is whole is not looked at twice, except for its sum.
Install ==
    /\ pc = "verify"
    /\ \/ ~Verified(package) /\ Answer("failed") /\ UNCHANGED unpacked
       \/ /\ Verified(package)
          /\ \/ Answer("manual") /\ UNCHANGED unpacked  \* no write access
             \/ /\ asset.binary /\ pc' = "unpack"
                /\ \E files \in Packages :
                      unpacked' = [NoUnpack EXCEPT !.left = files]
    /\ UNCHANGED <<choice, race, staged, script, exe>>

\* Mutant: the size of one file is not looked at.
FitsEntryAlways(f) == f.size \in Nat

\* Whether a file of the package is written at all, and whether the next one
\* has its turn afterwards.
FitsEntry(f) == f.size <= MaxEntry
FitsTotal(total) == total <= MaxTotal

UnpackFile ==
    /\ pc = "unpack" /\ unpacked.left # <<>>
    /\ LET f == Head(unpacked.left)
           total == unpacked.total + f.size
       IN  IF ~FitsEntry(f) THEN Answer("failed") /\ UNCHANGED unpacked
           ELSE /\ unpacked' = [left |-> Tail(unpacked.left), total |-> total,
                                found |-> unpacked.found
                                            + IF f.program THEN 1 ELSE 0]
                /\ IF FitsTotal(total) THEN UNCHANGED pc ELSE Answer("failed")
    /\ UNCHANGED <<choice, race, staged, script, exe>>

UnpackFails ==
    /\ pc \in {"unpack", "stage"} /\ Answer("failed")
    /\ UNCHANGED <<choice, race, install>>

\* The first program by name is copied beside the package.
Stage ==
    /\ pc = "unpack" /\ unpacked.left = <<>>
    /\ IF unpacked.found = 0 THEN Answer("failed") /\ UNCHANGED staged
                             ELSE pc' = "stage" /\ staged' = "new"
    /\ UNCHANGED <<choice, race, unpacked, script, exe>>

\* Mutant: the staged program is cleaned when the command returns.
StartedClean == script' = "mv" /\ staged' = Nothing

\* The script owns the staged program from here on.
Started == script' = "mv" /\ UNCHANGED staged

\* The script is written and started; the program quits a moment later.
ScriptStart ==
    /\ pc = "stage"
    /\ \/ Answer("restart_pending") /\ Started
       \/ Answer("failed") /\ staged' = Nothing /\ UNCHANGED script
    /\ UNCHANGED <<choice, race, unpacked, exe>>

(***************************************************************************)
(* The script, which ends with the first command that fails (set -e).  mv  *)
(* renames, or copies and removes between two file systems.                *)
(***************************************************************************)
ScriptMove ==
    /\ script = "mv"
    /\ \/ SameFs /\ exe' = staged /\ staged' = Nothing /\ script' = "launch"
       \/ ~SameFs /\ exe' = "partial" /\ script' = "copy" /\ UNCHANGED staged
       \/ script' = "ended" /\ UNCHANGED <<exe, staged>>
    /\ UNCHANGED <<pc, choice, race, unpacked>>

ScriptCopy ==
    /\ script = "copy"
    /\ \/ exe' = staged /\ staged' = Nothing /\ script' = "launch"
       \/ script' = "ended" /\ UNCHANGED <<exe, staged>>
    /\ UNCHANGED <<pc, choice, race, unpacked>>

ScriptLaunch ==
    /\ script = "launch" /\ script' \in {"rm", "ended"}
    /\ UNCHANGED <<pc, choice, race, unpacked, staged, exe>>

ScriptRemove ==
    /\ script = "rm" /\ script' = "ended" /\ package' = Nothing
    /\ UNCHANGED <<pc, choice, worker, results, errs, cancelled, winner,
                   parts, first, unpacked, staged, exe>>

\* The machine stops: the command, its goroutines and the script are over.
Stop ==
    /\ pc # "stopped" /\ pc' = "stopped"
    /\ worker' = [c \in Cands |-> "none"] /\ results' = <<>>
    /\ script' = IF script = "none" THEN "none" ELSE "ended"
    /\ UNCHANGED <<choice, errs, cancelled, winner, parts, package,
                   first, unpacked, staged, exe>>

UpdateCommand ==
    \/ ReleaseFails \/ ReleaseRead \/ ManifestFails \/ ManifestRead
    \/ RaceBegin \/ ReceiveError \/ ReceiveWinner \/ ReplaceFails
    \/ PackageRemove \/ PackageRename \/ Drain
    \/ Install \/ UnpackFile \/ UnpackFails \/ Stage \/ ScriptStart

Goroutine(c) ==
    RequestFails(c) \/ PartCreate(c) \/ CopyFails(c) \/ CopyDone(c)

Script == ScriptMove \/ ScriptCopy \/ ScriptLaunch \/ ScriptRemove

Next == UpdateCommand \/ Script \/ Stop \/ \E c \in Cands : Goroutine(c)

Spec == Init /\ [][Next]_vars

\* Go schedules the command and the goroutines, and every request ends at its
\* timeout.
FairSpec == Spec /\ WF_vars(UpdateCommand) /\ \A c \in Cands : WF_vars(Goroutine(c))

(***************************************************************************)
(* Properties                                                              *)
(***************************************************************************)
Answers == {"failed", "dropped", "latest", "manual", "restart_pending"}

\* The variables keep to their sets, and an extraction stops with the file
\* that crosses the total, itself within the limit of one file.
TypeOK ==
    /\ pc \in {"idle", "manifest", "race", "replace", "rename", "drain",
               "verify", "unpack", "stage", "stopped"} \cup Answers
    /\ asset \in Assets \cup {Nothing, DefaultAsset} /\ asked \in 0 .. Mirrors
    /\ errs \in 0 .. Mirrors /\ Len(results) <= Mirrors
    /\ parts \in [Cands -> Contents] /\ package \in Contents
    /\ unpacked.total <= MaxTotal + MaxEntry
    /\ exe \in {"old", "new", "partial"} /\ staged \in {Nothing, "new"}

\* What is unpacked is the package of the manifest, if that names a sum,
\* whatever the mirrors served and whatever lay about before.
InstallsChecked ==
    (pc \in {"unpack", "stage"} /\ asset.summed) => package = "good"

\* The race leaves no temporary file behind, of this attempt or an earlier
\* one, once the command goes on with a package or has seen every mirror
\* fail.
NoPartsLeft ==
    \/ pc \in {"verify", "unpack", "stage", "manual", "restart_pending"}
    \/ errs = Mirrors /\ pc = "failed"
    => \A c \in Cands : parts[c] = Nothing

\* The package comes from the mirror that was complete, and said so, first.
FirstCompleteWins == winner # Nothing => winner = first

\* At every moment, and wherever the machine stops, the old or the new
\* program is still there as a whole, ready to run or to be moved.
KeepsAProgram == exe \in {"old", "new"} \/ staged = "new"

\* Only a release that is newer is ever fetched, newer being the order of the
\* parts as digits of one number; three parts below 100, as releases have.
DigitsAssumption ==
    \A t \in Tags \cup {Current} :
       Len(t) <= 3 /\ \A i \in DOMAIN t : t[i] < 100
Digits(v) == 10000 * Part(v, 1) + 100 * Part(v, 2) + Part(v, 3)
OffersOnlyNewer ==
    pc \in {"manifest", "race", "replace", "verify", "unpack"}
       => Digits(tag) > Digits(Current)

\* Every command is answered, also when mirrors fail after the race is won.
Answered == <>(pc \in Answers \cup {"stopped"})

\* What docs/reference/capabilities-and-flows.md:93 says of every update, that
\* its package is checked against a SHA256.
\* Documented and not kept by the code; see the README.
PackageIsChecked == pc \in {"unpack", "stage"} => asset.summed

\* What docs/reference/capabilities-and-flows.md:93 says of the manifest, that
\* all candidates are asked at once.
\* Documented and not kept by the code; see the README.
ManifestAskedAtOnce == pc = "manifest" => asked = Mirrors

\* The invariants above together.
Safety ==
    /\ TypeOK /\ InstallsChecked /\ NoPartsLeft /\ FirstCompleteWins
    /\ KeepsAProgram /\ OffersOnlyNewer
=============================================================================
