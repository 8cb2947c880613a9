----------------------------- MODULE SourcePrepare ----------------------------
(***************************************************************************)
(* appcore.PrepareSources and prepareProbeSources: the sources of a task   *)
(* are read by goroutines, at most Concurrency at once, each writing its   *)
(* own outcome; when all have ended, or the task is cancelled, the caller  *)
(* merges the outcomes in the order of the sources.                        *)
(*                                                                         *)
(* A remote source is read from its addresses one after another            *)
(* (loadRemoteSourceContent).  In the stage-2 filter phase the merge also  *)
(* builds the COLO filter of every address.  Go maps are references, so    *)
(* the filters keep their sets of codes in a heap.                         *)
(***************************************************************************)
EXTENDS Naturals, Sequences, FiniteSets, SequencesExt

CONSTANTS
    NSources,       \* sources of the task
    Ips,            \* candidates
    Readings,       \* what a source that is read may hold: candidates and COLO filter
    Concurrency,    \* sourcePrepareConcurrency
    MaxUrls         \* addresses a source is read from (1 or 2)

CountsAssumption == NSources \in Nat \ {0} /\ Concurrency \in Nat \ {0} /\ MaxUrls \in Nat \ {0}
ReadingsAssumption ==
    /\ \A r \in Readings :
         r.entries \in Seq(Ips) /\ r.mode \in {"allow", "deny"} /\ r.active \in BOOLEAN
    /\ 0 \notin Ips

Sources == 1..NSources
NoReading == [entries |-> <<>>, mode |-> "allow", active |-> FALSE, colos |-> {}]

VARIABLES
    holds,      \* what each source will give when it can be read
    phase,      \* each source: "disabled", "queued", "reading", "done"
    url,        \* the address being read, and whether it was retried
    outcome,    \* each source: "none", "ok", "failed", "fatal"
    cancelled,  \* the task's context
    main,       \* "waiting", "merging", "returned"
    next,       \* the source the merge has come to
    result,     \* entries, statuses, ports and error of PreparedSources
    filters,    \* SourceColoFilters
    heap        \* the sets of codes the filters refer to

vars == <<holds, phase, url, outcome, cancelled, main, next, result, filters, heap>>
reading == <<phase, url, outcome>>
merged == <<result, filters, heap>>

\* A filter: its kind, its mode and where its codes are; <<0, i>> is no set.
NoFilter == [kind |-> "none", mode |-> "none", codes |-> <<0, 0>>]
Unrestricted == [kind |-> "unrestricted", mode |-> "none", codes |-> <<0, 0>>]

Failed(s) == outcome[s] \in {"failed", "fatal"}

TypeOK ==
    /\ phase \in [Sources -> {"disabled", "queued", "reading", "done"}]
    /\ Cardinality({s \in Sources : phase[s] = "reading"}) <= Concurrency
    /\ \A s \in Sources : url[s].at \in 1..MaxUrls /\ url[s].retried \in BOOLEAN
    /\ outcome \in [Sources -> {"none", "ok", "failed", "fatal"}]
    /\ main \in {"waiting", "merging", "returned"}
    /\ next \in 1..(NSources + 1) /\ cancelled \in BOOLEAN
    /\ result.entries \in Seq(Ips) /\ result.error \in BOOLEAN
    /\ \A ip \in Ips : filters[ip].kind \in {"none", "unrestricted", "matchNone", "codes"}

Init ==
    /\ holds \in [Sources -> Readings]
    /\ phase \in [Sources -> {"disabled", "queued"}]
    /\ url = [s \in Sources |-> [at |-> 1, retried |-> FALSE]]
    /\ outcome = [s \in Sources |-> "none"]
    /\ cancelled = FALSE /\ main = "waiting" /\ next = 1
    /\ result = [entries |-> <<>>, statuses |-> <<>>, error |-> FALSE]
    /\ filters = [ip \in Ips |-> NoFilter]
    /\ heap = <<>>

----------------------------------------------------------------------------
(* The goroutine of a source.                                              *)
\* Mutant: the concurrency limit is not taken
StartAll(s) ==
    /\ phase[s] = "queued"
    /\ phase' = [phase EXCEPT ![s] = "reading"]
    /\ UNCHANGED <<holds, url, outcome, cancelled, main, next, merged>>

Start(s) ==
    /\ phase[s] = "queued"
    /\ Cardinality({t \in Sources : phase[t] = "reading"}) < Concurrency
    /\ phase' = [phase EXCEPT ![s] = "reading"]
    /\ UNCHANGED <<holds, url, outcome, cancelled, main, next, merged>>

End(s, how) ==
    /\ phase' = [phase EXCEPT ![s] = "done"]
    /\ outcome' = [outcome EXCEPT ![s] = how]
    /\ UNCHANGED <<holds, url, cancelled, main, next, merged>>

\* A panic in a source fails that source only.
Read(s) == phase[s] = "reading" /\ ~cancelled /\ End(s, "ok")
Rejected(s) == phase[s] = "reading" /\ \E how \in {"failed", "fatal"} : End(s, how)

\* Mutant: a server error is retried without end
RetryAlways(s, transport) ==
    /\ phase[s] = "reading" /\ ~cancelled
    /\ \/ url[s].at < MaxUrls
          /\ url' = [url EXCEPT ![s].at = @ + 1]
       \/ url[s].at = MaxUrls /\ ~transport
          /\ url' = [url EXCEPT ![s].retried = ~@]
    /\ UNCHANGED <<holds, phase, outcome, cancelled, main, next, merged>>

\* A transport error or a 429/5xx: the next address, or the last one again
\* when a server answered; otherwise the source has failed.
Retry(s, transport) ==
    /\ phase[s] = "reading" /\ ~cancelled
    /\ \/ url[s].at < MaxUrls
          /\ url' = [url EXCEPT ![s].at = @ + 1]
       \/ url[s].at = MaxUrls /\ ~transport /\ ~url[s].retried
          /\ url' = [url EXCEPT ![s].retried = TRUE]
    /\ UNCHANGED <<holds, phase, outcome, cancelled, main, next, merged>>

Cancel ==
    /\ ~cancelled /\ main # "returned"
    /\ cancelled' = TRUE
    /\ UNCHANGED <<holds, reading, main, next, merged>>

----------------------------------------------------------------------------
(* The caller.                                                             *)
AllDone == \A s \in Sources : phase[s] \in {"disabled", "done"}

\* Mutant: a cancelled task waits for its sources
ReturnCancelledLate ==
    /\ main \in {"waiting", "merging"} /\ cancelled /\ AllDone
    /\ main' = "returned"
    /\ result' = [result EXCEPT !.entries = <<>>, !.error = TRUE]
    /\ filters' = [ip \in Ips |-> NoFilter]
    /\ UNCHANGED <<holds, reading, cancelled, next, heap>>

\* A cancelled task is not kept waiting for a source that does not answer.
ReturnCancelled ==
    /\ main \in {"waiting", "merging"} /\ cancelled
    /\ main' = "returned"
    /\ result' = [result EXCEPT !.entries = <<>>, !.error = TRUE]
    /\ filters' = [ip \in Ips |-> NoFilter]
    /\ UNCHANGED <<holds, reading, cancelled, next, heap>>

\* Mutant: the caller does not wait for the sources under way
BeginMergeEarly ==
    /\ main = "waiting" /\ \A s \in Sources : phase[s] # "queued"
    /\ main' = "merging"
    /\ UNCHANGED <<holds, reading, cancelled, next, merged>>

BeginMerge ==
    /\ main = "waiting" /\ AllDone
    /\ main' = "merging"
    /\ UNCHANGED <<holds, reading, cancelled, next, merged>>

\* NewSourceColoFilterForColos: an active allow list that resolved to no code
\* matches nothing, an inactive filter or an empty deny list restricts nothing.
Incoming(s) ==
    LET h == holds[s] IN
    IF h.colos # {} THEN [kind |-> "codes", mode |-> h.mode, codes |-> <<s, 0>>]
    ELSE IF h.active /\ h.mode = "allow" THEN [kind |-> "matchNone", mode |-> "allow", codes |-> <<0, 0>>]
    ELSE Unrestricted

\* MergeSourceColoFiltersWithResolvedColos for one address.  A filter that was
\* MatchNone takes the incoming one as it is, with its set of codes.
Merge(s, ip) ==
    LET old == filters[ip]
        new == Incoming(s)
    IN  IF old.kind = "unrestricted" \/ new.kind = "unrestricted" THEN Unrestricted
        ELSE IF old.kind = "none" /\ new.kind = "codes" THEN [new EXCEPT !.codes = <<s, ip>>]
        ELSE IF old.kind = "none" THEN new
        ELSE IF old.mode # new.mode THEN Unrestricted
        ELSE IF old.kind = "matchNone" THEN new
        ELSE old

\* The sets the merge writes: a new one for an address seen first, the old
\* one of every address that already had codes of this mode.
Codes(f) == IF f.codes \in DOMAIN heap THEN heap[f.codes] ELSE {}
\* Mutant: a source adds no codes to an address that has a filter
WrittenOnce(s, ip) ==
    IF Incoming(s).kind # "codes" THEN {}
    ELSE IF filters[ip].kind = "none" THEN {<<s, ip>>}
    ELSE IF filters[ip].kind = "codes" /\ filters[ip].mode = holds[s].mode THEN {}
    ELSE IF filters[ip].kind = "matchNone" /\ holds[s].mode = "allow" THEN {<<s, 0>>}
    ELSE {}

Written(s, ip) ==
    IF Incoming(s).kind # "codes" THEN {}
    ELSE IF filters[ip].kind = "none" THEN {<<s, ip>>}
    ELSE IF filters[ip].kind = "codes" /\ filters[ip].mode = holds[s].mode THEN {filters[ip].codes}
    ELSE IF filters[ip].kind = "matchNone" /\ holds[s].mode = "allow" THEN {<<s, 0>>}
    ELSE {}
MergeFilters(s) ==
    LET ips == ToSet(holds[s].entries)
        written == UNION {Written(s, ip) : ip \in ips}
    IN  /\ filters' = [ip \in Ips |-> IF ip \in ips THEN Merge(s, ip) ELSE filters[ip]]
        /\ heap' = [c \in DOMAIN heap \cup written |->
                      (IF c \in DOMAIN heap THEN heap[c] ELSE {})
                      \cup (IF c \in written THEN holds[s].colos ELSE {})]

\* Mutant: a failed source leaves no status
MergeSourceSilent ==
    /\ main = "merging" /\ ~cancelled /\ next <= NSources
    /\ next' = next + 1
    /\ result' = [result EXCEPT
         !.entries = IF outcome[next] = "ok" THEN @ \o holds[next].entries ELSE @,
         !.statuses = IF outcome[next] = "failed" THEN @ ELSE Append(@, outcome[next])]
    /\ IF outcome[next] = "ok" THEN MergeFilters(next) ELSE UNCHANGED <<filters, heap>>
    /\ UNCHANGED <<holds, reading, cancelled, main>>

MergeSource ==
    /\ main = "merging" /\ ~cancelled /\ next <= NSources
    /\ next' = next + 1
    /\ result' = [result EXCEPT
         !.entries = IF outcome[next] = "ok" THEN @ \o holds[next].entries ELSE @,
         !.statuses = Append(@, outcome[next])]
    /\ IF outcome[next] = "ok" THEN MergeFilters(next) ELSE UNCHANGED <<filters, heap>>
    /\ UNCHANGED <<holds, reading, cancelled, main>>

\* Mutant: any failed source fails the task
ReturnStrict ==
    /\ main = "merging" /\ ~cancelled /\ next = NSources + 1
    /\ main' = "returned"
    /\ result' = [result EXCEPT !.error = (\E s \in Sources : Failed(s))
                                          \/ \E s \in Sources : outcome[s] = "fatal"]
    /\ UNCHANGED <<holds, reading, cancelled, next, filters, heap>>

\* No candidate at all, or a missing COLO file, fails the task.
Return ==
    /\ main = "merging" /\ ~cancelled /\ next = NSources + 1
    /\ main' = "returned"
    /\ result' = [result EXCEPT !.error = (result.entries = <<>> /\ \E s \in Sources : Failed(s))
                                          \/ \E s \in Sources : outcome[s] = "fatal"]
    /\ UNCHANGED <<holds, reading, cancelled, next, filters, heap>>

Source(s) == Start(s) \/ Read(s) \/ Rejected(s) \/ \E t \in BOOLEAN : Retry(s, t)
Main == ReturnCancelled \/ BeginMerge \/ MergeSource \/ Return
Next == Cancel \/ Main \/ \E s \in Sources : Source(s)
Spec == Init /\ [][Next]_vars /\ WF_vars(Main)
-----------------------------------------------------------------------------
(* The result does not depend on the order in which the sources answered:  *)
(* the candidates of the sources that were read, in the order of the       *)
(* sources, one status for each, and the earlier statuses in place when    *)
(* the merge is interrupted (sources.go:250-333).                          *)
ResultOfReadings ==
    main = "returned" /\ ~cancelled =>
        /\ result.entries = FlattenSeq([s \in 1..NSources |->
               IF outcome[s] = "ok" THEN holds[s].entries ELSE <<>>])
        /\ result.statuses = [s \in 1..NSources |-> outcome[s]]
        /\ \A s \in Sources : outcome[s] = "none" => phase[s] = "disabled"

(* A merge never reads an outcome that is still being written: no source   *)
(* is under way once the merge has begun (sources.go:223-245).             *)
MergeAfterReads ==
    main = "merging" \/ (main = "returned" /\ ~cancelled) => AllDone

(* One source that fails, panics or holds nothing does not take the others *)
(* with it; the task fails only without candidates or with a missing COLO  *)
(* file (sources.go:276-300, probe_service.go:238).                        *)
FailureIsolated ==
    main = "returned" /\ result.error /\ ~cancelled
        => (\A s \in Sources : outcome[s] = "ok" => holds[s].entries = <<>>)
           \/ \E s \in Sources : outcome[s] = "fatal"

PassesFilter(f, codes, colo) ==
    CASE f.kind \in {"none", "unrestricted"} -> TRUE
      [] f.kind = "matchNone" -> FALSE
      [] OTHER -> (f.mode = "allow") <=> (colo \in codes)
PassesSource(s, colo) == PassesFilter(Incoming(s), holds[s].colos, colo)
SourcesOf(ip) == {s \in Sources : outcome[s] = "ok" /\ ip \in ToSet(holds[s].entries)}
Colos == UNION {r.colos : r \in Readings}

(* "want SJC/LAX pass-any" (appcore/sources_test.go:66): an address listed *)
(* by several sources passes with a COLO that one of them lets pass, and   *)
(* with no other unless one of them was an allow list without codes, whose *)
(* place takes a set that other addresses share.                           *)
(* Not so for deny lists, which are united, see the README.                *)
PassAny ==
    main = "returned" /\ ~cancelled => \A ip \in Ips : \A colo \in Colos :
        LET passes == PassesFilter(filters[ip], Codes(filters[ip]), colo)
            passesAny == \E s \in SourcesOf(ip) : PassesSource(s, colo)
        IN  /\ SourcesOf(ip) # {}
            /\ \A s, t \in SourcesOf(ip) : s = t \/ holds[s].mode = "allow"
            => /\ passesAny => passes
               /\ passes => \/ passesAny
                            \/ \E s \in SourcesOf(ip) : Incoming(s).kind = "matchNone"

(* "merged filter should reject COLO outside valid source"                 *)
(* (task/colo_filter_mode_test.go:141): an allow list holds only codes of  *)
(* sources that list the address.                                          *)
\* Documented and not kept by the code; see the README.
CodesOfOwnSources ==
    main = "returned" /\ ~cancelled => \A ip \in Ips :
        filters[ip].kind = "codes" =>
            Codes(filters[ip]) \subseteq UNION {holds[s].colos : s \in SourcesOf(ip)}

(* A cancelled task is told so without waiting for a source that never     *)
(* answers (sources.go:236-245); and when every source ends, so does the   *)
(* preparation.                                                            *)
CancelReturns == cancelled ~> main = "returned"
PreparationEnds == (\A s \in Sources : WF_vars(Source(s))) => <>(main = "returned")

\* The invariants above together.
Safety ==
    /\ TypeOK /\ ResultOfReadings /\ MergeAfterReads /\ FailureIsolated
    /\ PassAny
=============================================================================
