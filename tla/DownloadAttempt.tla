--------------------------- MODULE DownloadAttempt ---------------------------
(***************************************************************************)
(* The download of one address in stage 3 (download.go): the loop of       *)
(* downloadHandlerAttempt, one downloadHandlerAttemptOnce after another as *)
(* long as a pause interrupts them, the range probe, the workers that share *)
(* one measurement, and the verdict over what they have left in it.        *)
(* Bytes come in units; the measurement keeps whether any were read and    *)
(* whether any were read after the warm-up.                                *)
(***************************************************************************)
EXTENDS Integers, FiniteSets

CONSTANTS
    Concurrency,    \* DownloadGetConcurrency
    MaxTotal,       \* bound: size of the file
    Timeout,        \* config.Timeout, in ticks
    Warmup,         \* DownloadWarmupDuration
    Bits            \* width of the random integer (64)

DownloadAssumption ==
    /\ Concurrency \in Nat \ {0} /\ MaxTotal \in Nat \ {0} /\ Bits \in Nat \ {0}
    /\ Warmup \in Nat \ {0} /\ Timeout \in Nat /\ Warmup < Timeout

VARIABLES
    config,         \* Ignore403, Ignore1034; total, the size the server names
    control,        \* "run", "paused", "cancelled"
    phase,          \* "start", "probe", "range", "full", "interrupted", "end"
    interrupted,    \* the flag of this attempt
    clock,          \* measurement.elapsed
    m,              \* downloadMeasurement
    worker,         \* the range workers; the first is the full worker as well
    result,         \* downloadResult
    seen403,        \* history: a plain 403 refused a worker of this attempt
    overflowed      \* history: the random integer was the least one

vars == <<config, control, phase, interrupted, clock, m, worker, result, seen403, overflowed>>

Workers == 1..Concurrency
NoResult == [reason |-> "", valid |-> FALSE, retryable |-> FALSE, ignored |-> FALSE]
Invalid(reason, retryable) == [NoResult EXCEPT !.reason = reason, !.retryable = retryable]
Ignored(reason) == [Invalid(reason, FALSE) EXCEPT !.ignored = TRUE]
Valid == [NoResult EXCEPT !.reason = "download_measured", !.valid = TRUE]

Fresh == [read |-> FALSE, measured |-> FALSE, startedAt |-> 0, integrity |-> "",
          rejected |-> "", ignored |-> FALSE, limited |-> FALSE]
Idle == [at |-> "returned", start |-> 0, end |-> 0, offset |-> 0, readAt |-> 0]

TypeOK ==
    /\ clock \in 0..Timeout
    /\ phase \in {"start", "probe", "range", "full", "interrupted", "end"}
    /\ \A w \in Workers : worker[w].at \in {"request", "body", "sniff", "returned"}
    /\ m.startedAt \in IF m.measured THEN Warmup..Timeout ELSE {0}

Configs == [ignore403 : BOOLEAN, ignore1034 : BOOLEAN, total : 1..MaxTotal]
Init ==
    /\ config \in Configs
    /\ control = "run" /\ phase = "start" /\ interrupted = FALSE /\ clock = 0
    /\ m = Fresh /\ worker = [w \in Workers |-> Idle] /\ result = NoResult
    /\ seen403 = FALSE /\ overflowed = FALSE

Over == interrupted \/ clock = Timeout      \* ctx.Err() # nil

----------------------------------------------------------------------------
(* The shared measurement.                                                 *)
\* Mutant: the window opens when the read did, warm-up or not
AddedRaw(readAt) ==
    IF clock < Warmup THEN [m EXCEPT !.read = TRUE]
    ELSE [m EXCEPT !.read = TRUE, !.measured = TRUE, !.startedAt = IF @ > 0 THEN @ ELSE readAt]

Added(readAt) ==
    IF clock < Warmup THEN [m EXCEPT !.read = TRUE]
    ELSE [m EXCEPT !.read = TRUE, !.measured = TRUE,
                   !.startedAt = IF @ > 0 THEN @ ELSE IF readAt > Warmup THEN readAt ELSE Warmup]

\* measuredBytesLocked
Measured == m.measured /\ clock > m.startedAt
MarkRejected(reason, ignored) ==
    IF m.rejected # "" THEN m ELSE [m EXCEPT !.rejected = reason, !.ignored = ignored]
MarkIntegrity(reason) == IF m.integrity # "" THEN m ELSE [m EXCEPT !.integrity = reason]

----------------------------------------------------------------------------
(* The ranges.                                                             *)
Count == IF Concurrency > config.total THEN config.total ELSE Concurrency
\* Mutant: the size of a part rounded down
ChunkFloor == config.total \div Count

Chunk == (config.total + Count - 1) \div Count
FirstStart(w) == (w - 1) * Chunk
FirstEnd(w) == IF FirstStart(w) + Chunk > config.total THEN config.total - 1 ELSE FirstStart(w) + Chunk - 1
Runs(w) == w <= Count /\ FirstStart(w) < config.total
First(w) == [Idle EXCEPT !.at = "request", !.start = FirstStart(w), !.end = FirstEnd(w), !.offset = FirstStart(w)]

\* randomDownloadRange: |value| modulo the possible starts, in Bits bits, where
\* the least integer is its own negation and % keeps its sign.
Half == 2 ^ (Bits - 1)
\* Mutant: one start too many
RandomStartLong(value, starts) ==
    IF value = -Half THEN -(Half % starts) ELSE (IF value < 0 THEN -value ELSE value) % (starts + 1)

RandomStart(value, starts) ==
    IF value = -Half THEN -(Half % starts) ELSE (IF value < 0 THEN -value ELSE value) % starts

\* The range of the next sequence of w.
NextRange(w, value) ==
    LET length == FirstEnd(w) - FirstStart(w) + 1
        start == IF length >= config.total THEN FirstStart(w)
                 ELSE RandomStart(value, config.total - length + 1)
    IN [worker[w] EXCEPT !.at = "request", !.start = start, !.offset = start, !.end = start + length - 1]

----------------------------------------------------------------------------
(* The attempts and the control.                                           *)
\* The interrupt is registered; a pause or a cancel in force calls it at once.
Begin ==
    /\ phase = "start"
    /\ phase' = "probe"
    /\ interrupted' = (control # "run")
    /\ clock' = 0 /\ m' = Fresh /\ worker' = [w \in Workers |-> Idle]
    /\ result' = NoResult /\ seen403' = FALSE /\ overflowed' = FALSE
    /\ UNCHANGED <<config, control>>

Running == phase \in {"probe", "range", "full"}
\* Pause and Cancel of the runtime call the interrupt of the attempt.
Pause ==
    /\ control = "run" /\ phase # "end"
    /\ control' = "paused" /\ interrupted' = Running
    /\ UNCHANGED <<config, phase, clock, m, worker, result, seen403, overflowed>>
Resume ==
    /\ control = "paused" /\ phase # "end"
    /\ control' = "run"
    /\ UNCHANGED <<config, phase, interrupted, clock, m, worker, result, seen403, overflowed>>
Cancel ==
    /\ control # "cancelled" /\ phase # "end"
    /\ control' = "cancelled" /\ interrupted' = Running
    /\ UNCHANGED <<config, phase, clock, m, worker, result, seen403, overflowed>>

Tick ==
    /\ Running /\ clock < Timeout
    /\ clock' = clock + 1
    /\ UNCHANGED <<config, control, phase, interrupted, m, worker, result, seen403, overflowed>>

Return(r) == phase' = "end" /\ result' = r /\ UNCHANGED <<worker, seen403>>
\* errDownloadInterrupted: the loop decides what comes next.
Abort == phase' = "interrupted" /\ result' = Invalid("download_interrupted", TRUE) /\ UNCHANGED <<worker, seen403>>

\* probeDownloadRange
Probe ==
    /\ phase = "probe"
    /\ \/ /\ ~Over      \* an answer that lets the download begin
          /\ \/ phase' = "range" /\ worker' = [w \in Workers |-> IF Runs(w) THEN First(w) ELSE Idle]
             \/ phase' = "full" /\ worker' = [worker EXCEPT ![1] = [Idle EXCEPT !.at = "request", !.end = config.total - 1]]
          /\ UNCHANGED <<result, seen403>>
       \/ /\ ~Over
          /\ \E reason \in {"rate_limited", "status_mismatch", "unexpected_html_response", "get_error"} : Return(Invalid(reason, TRUE))
       \/ ~Over /\ Return(Invalid("request_create_failed", FALSE))
       \/ Over /\ IF interrupted THEN Abort ELSE Return(Invalid("download_interrupted", TRUE))
       \/ Over /\ Abort         \* the request failed before, and ctx ended before the look at it
    /\ UNCHANGED <<config, control, interrupted, clock, m, overflowed>>

\* Mutant: an interrupted attempt counts when nobody has cancelled
AfterInterruptCounts ==
    /\ phase = "interrupted"
    /\ phase' = "end"
    /\ UNCHANGED <<config, control, interrupted, clock, m, worker, result, seen403, overflowed>>

AfterInterrupt ==
    /\ phase = "interrupted" /\ control # "paused"
    /\ phase' = IF control = "cancelled" THEN "end" ELSE "start"
    /\ UNCHANGED <<config, control, interrupted, clock, m, worker, result, seen403, overflowed>>

----------------------------------------------------------------------------
(* The workers.  Set(w, s, n) moves worker w and writes the measurement.   *)
Set(w, s, n) ==
    /\ worker' = [worker EXCEPT ![w] = s] /\ m' = n
    /\ UNCHANGED <<config, control, phase, interrupted, clock, result>>
At(w, at) == [worker[w] EXCEPT !.at = at]
Stop(w) == At(w, "returned")

\* A request and its status; a bad Content-Range is among the refusals.
Request(w) ==
    /\ phase \in {"range", "full"} /\ worker[w].at = "request"
    /\ UNCHANGED <<seen403, overflowed>>
    /\ \/ Over /\ Set(w, Stop(w), m)
       \/ ~Over /\ Set(w, [At(w, "body") EXCEPT !.readAt = clock], m)
       \/ Set(w, Stop(w), m)                                   \* error, status, header
       \/ Set(w, Stop(w), [m EXCEPT !.limited = TRUE])         \* 429
       \/ Set(w, IF Measured THEN Stop(w) ELSE At(w, "sniff"), m)      \* 403

\* cloudflare403Outcome reads the body; the measurement may be valid by now.
Sniff(w) ==
    /\ worker[w].at = "sniff"
    /\ \/ /\ Set(w, Stop(w), MarkRejected("edge_ip_restricted", config.ignore1034))
          /\ UNCHANGED seen403
       \/ /\ Set(w, Stop(w), IF config.ignore403 THEN m ELSE MarkRejected("forbidden", FALSE))
          /\ seen403' = TRUE
    /\ UNCHANGED overflowed

\* After a body that broke off: the rest, or nothing when there was no progress.
Broken(w) ==
    IF phase = "range" THEN (IF worker[w].offset <= worker[w].start THEN Stop(w) ELSE At(w, "request"))
    ELSE IF worker[w].offset = 0 /\ ~Measured THEN Stop(w)
    ELSE [At(w, "request") EXCEPT !.offset = 0]

\* What downloadIntegrity finds wrong: at once, a page where a file should be;
\* at the end, a length or one of the checksums of the headers.
StreamFailures == {"unexpected_html_response"}
BodyFailures == {"content_length_mismatch", "digest_mismatch"}

\* One Read of readDownloadBody, and what the worker does with its outcome.
Read(w) ==
    /\ worker[w].at = "body"
    /\ LET here == worker[w]
           more == [here EXCEPT !.offset = @ + 1, !.readAt = clock] IN
       \/ Over /\ Set(w, Stop(w), m) /\ UNCHANGED overflowed
       \/ ~Over /\ Set(w, Broken(w), m) /\ UNCHANGED overflowed
       \/ /\ ~Over /\ UNCHANGED overflowed
          /\ \E reason \in StreamFailures : Set(w, Stop(w), MarkIntegrity(reason))
       \/ here.offset < here.end /\ Set(w, more, Added(here.readAt)) /\ UNCHANGED overflowed
       \/ /\ here.offset = here.end /\ UNCHANGED overflowed    \* complete, and not what was promised
          /\ \E reason \in BodyFailures :
                Set(w, Stop(w), [Added(here.readAt) EXCEPT !.integrity = MarkIntegrity(reason).integrity])
       \/ /\ here.offset = here.end /\ phase = "full" /\ UNCHANGED overflowed
          /\ Set(w, [At(w, "request") EXCEPT !.offset = 0], Added(here.readAt))
       \/ /\ here.offset = here.end /\ phase = "range"
          /\ \E value \in -Half..(Half - 1) :
                /\ Set(w, NextRange(w, value), Added(here.readAt))
                /\ overflowed' = (overflowed \/ value = -Half)
    /\ UNCHANGED seen403

----------------------------------------------------------------------------
(* The verdict, when every worker has returned.                            *)
\* Mutant: a refused segment outweighs the measurement of the others
VerdictLimited ==
    IF m.rejected # "" THEN (IF m.ignored THEN Ignored(m.rejected) ELSE Invalid(m.rejected, TRUE))
    ELSE IF m.limited THEN Invalid("rate_limited", TRUE)
    ELSE IF m.integrity # "" THEN Invalid(m.integrity, TRUE)
    ELSE IF Measured THEN Valid
    ELSE Invalid(IF m.read THEN "download_no_valid_measurement" ELSE "download_no_body_read", TRUE)
\* Mutant: a measurement counts whatever the bytes were
VerdictMeasured ==
    IF m.rejected # "" THEN (IF m.ignored THEN Ignored(m.rejected) ELSE Invalid(m.rejected, TRUE))
    ELSE IF m.limited /\ ~Measured THEN Invalid("rate_limited", TRUE)
    ELSE IF Measured THEN Valid
    ELSE IF m.integrity # "" THEN Invalid(m.integrity, TRUE)
    ELSE Invalid(IF m.read THEN "download_no_valid_measurement" ELSE "download_no_body_read", TRUE)

Verdict ==
    IF m.rejected # "" THEN (IF m.ignored THEN Ignored(m.rejected) ELSE Invalid(m.rejected, TRUE))
    ELSE IF m.limited /\ ~Measured THEN Invalid("rate_limited", TRUE)
    ELSE IF m.integrity # "" THEN Invalid(m.integrity, TRUE)
    ELSE IF Measured THEN Valid
    ELSE Invalid(IF m.read THEN "download_no_valid_measurement" ELSE "download_no_body_read", TRUE)

Judge ==
    /\ phase \in {"range", "full"} /\ \A w \in Workers : worker[w].at = "returned"
    /\ IF interrupted THEN Abort ELSE Return(Verdict)
    /\ UNCHANGED <<config, control, interrupted, clock, m, overflowed>>

Next ==
    \/ Begin \/ Pause \/ Resume \/ Cancel \/ Tick \/ Probe \/ AfterInterrupt \/ Judge
    \/ \E w \in Workers : Request(w) \/ Sniff(w) \/ Read(w)
Spec == Init /\ [][Next]_vars
-----------------------------------------------------------------------------
(* A valid measurement rests on bytes that came after the warm-up, in a     *)
(* window of positive length, and on answers nobody found false: one bad    *)
(* segment of several spoils it (download.go:441-460).                      *)
ValidIsEarned ==
    result.valid => m.measured /\ clock > Warmup /\ m.startedAt < clock
                    /\ m.integrity = "" /\ m.rejected = ""

(* A pause never turns into an outcome of the address: the attempt it broke *)
(* off is made again, and an interrupted result ends the loop only for a    *)
(* cancelled run or a timeout (download.go:368-386).                        *)
PauseIsNoOutcome ==
    phase = "end" /\ result.reason = "download_interrupted" => control = "cancelled" \/ clock = Timeout

(* One connection refused with 429 does not discard what the others have    *)
(* measured (download.go:441).                                              *)
LimitedOnlyUnmeasured == phase = "end" /\ result.reason = "rate_limited" => ~Measured

(* The first ranges cover the file without overlap, and every later one     *)
(* lies inside it, the least random integer excepted (download.go:964-973,  *)
(* 1437-1455).                                                              *)
RangesInside ==
    phase = "range" =>
        /\ UNION {FirstStart(w)..FirstEnd(w) : w \in {w \in Workers : Runs(w)}} = 0..(config.total - 1)
        /\ \A v, w \in Workers : v < w /\ Runs(v) /\ Runs(w) => FirstEnd(v) < FirstStart(w)
        /\ ~overflowed => \A w \in Workers : worker[w].start >= 0 /\ worker[w].end < config.total

(* "Block any HTTP 403: ... file download that meets 403 drops the address, *)
(* without retry and without counting it as a failure"                      *)
(* (docs/guide/configuration.md:240).                                       *)
\* Documented and not kept by the code; see the README.
BlockedIsIgnored == phase = "end" /\ config.ignore403 /\ seen403 /\ m.rejected = "" /\ result.reason # "download_interrupted" => result.ignored

\* The invariants above together.
Safety ==
    /\ TypeOK /\ ValidIsEarned /\ PauseIsNoOutcome /\ LimitedOnlyUnmeasured
    /\ RangesInside
=============================================================================
