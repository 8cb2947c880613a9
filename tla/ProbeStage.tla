------------------------------ MODULE ProbeStage ------------------------------
(***************************************************************************)
(* The worker pool of a probe stage, one goroutine per address and at most *)
(* Routines of them at once: Ping.Run and Ping.start (stage 1, "tcp"),     *)
(* TestTraceAvailability (stage 2, "trace") and TestDownloadSpeed (stage   *)
(* 3, "get"), with the retries of one address, the failure counter of the  *)
(* stage (noteStageProbeOutcome) and the progress hook.                    *)
(*                                                                         *)
(* What one request measures is a choice; DownloadAttempt and TraceProbe   *)
(* model it.  A delay does not run out while the task is paused: its end   *)
(* is one step, which waits for the pause to be over.                      *)
(***************************************************************************)
EXTENDS Naturals, Integers, FiniteSets

CONSTANTS
    N,              \* addresses of the stage
    Routines,       \* workers at once
    MaxAttempts,    \* retryAttemptLimit: 1 + RetryMaxAttempts
    Threshold,      \* CooldownFailures; 0 turns the cooldown off
    SuccessLimit,   \* DownloadSuccessLimit; 0 turns the limit off
    MaxPauses       \* bound on the pauses of the user

PoolAssumption == N \in Nat /\ Routines \in Nat \ {0} /\ MaxAttempts \in Nat \ {0}
LimitAssumption == Threshold \in Nat /\ SuccessLimit \in Nat /\ MaxPauses \in Nat

Items == 1..N
Stages == {"tcp", "trace", "get"}
Steps == {"new", "spawned", "check", "probing", "backoff", "judge", "note", "panicked",
          "cooling", "count", "done"}

VARIABLES
    stage,
    main,       \* the loop: "head", "acquire", "wait", "returned"
    next,       \* the address the loop has come to
    pc,         \* the worker of each address
    attempt,    \* the attempt of each worker
    verdict,    \* what became of each address
    qualified,  \* addresses counted as passed
    processed,
    fails,      \* cooldownFails of the stage
    coolings,   \* cooldowns so far
    paused, pauses, cancelled

vars == <<stage, main, next, pc, attempt, verdict, qualified, processed,
          fails, coolings, paused, pauses, cancelled>>
control == <<paused, pauses, cancelled>>
loop == <<stage, main, next>>
tally == <<qualified, processed>>
cooldown == <<fails, coolings>>

Live == {i \in Items : pc[i] \notin {"new", "done"}}

TypeOK ==
    /\ stage \in Stages /\ main \in {"head", "acquire", "wait", "returned"}
    /\ next \in 1..(N + 1) /\ pc \in [Items -> Steps]
    /\ Cardinality(Live) <= Routines
    /\ attempt \in [Items -> 1..MaxAttempts]
    /\ verdict \in [Items -> {"none", "ok", "failed", "ignored", "panic", "cancelled"}]
    /\ qualified \subseteq Items /\ processed \in 0..N
    /\ fails \in 0..Threshold /\ coolings \in Nat
    /\ {paused, cancelled} \subseteq BOOLEAN /\ pauses \in 0..MaxPauses

Init ==
    /\ stage \in Stages /\ main = "head" /\ next = 1
    /\ pc = [i \in Items |-> "new"] /\ attempt = [i \in Items |-> 1]
    /\ verdict = [i \in Items |-> "none"]
    /\ qualified = {} /\ processed = 0
    /\ fails = 0 /\ coolings = 0
    /\ paused = FALSE /\ pauses = 0 /\ cancelled = FALSE

----------------------------------------------------------------------------
(* The user; checkPause holds a goroutine while the task is paused, and a  *)
(* cancel lets it go.                                                      *)
Pause ==
    /\ ~paused /\ ~cancelled /\ pauses < MaxPauses
    /\ paused' = TRUE /\ pauses' = pauses + 1
    /\ UNCHANGED <<loop, pc, attempt, verdict, tally, cooldown, cancelled>>
Resume ==
    /\ paused /\ paused' = FALSE
    /\ UNCHANGED <<loop, pc, attempt, verdict, tally, cooldown, pauses, cancelled>>
Cancel ==
    /\ ~cancelled /\ cancelled' = TRUE /\ paused' = FALSE
    /\ UNCHANGED <<loop, pc, attempt, verdict, tally, cooldown, pauses>>
PassesPause == ~paused \/ cancelled

----------------------------------------------------------------------------
(* The loop that starts the workers.                                       *)
LimitReached == stage = "get" /\ SuccessLimit > 0 /\ Cardinality(qualified) >= SuccessLimit

\* Stage 2 does not look at the cancel here; its workers do.
Head ==
    /\ main = "head"
    /\ \/ (next > N \/ LimitReached) /\ main' = "wait"
       \/ next <= N /\ ~LimitReached /\ PassesPause
          /\ main' = IF cancelled /\ stage # "trace" THEN "wait" ELSE "acquire"
    /\ UNCHANGED <<stage, next, pc, attempt, verdict, tally, cooldown, control>>

\* Mutant: the permit is not waited for
AcquireAny ==
    /\ main = "acquire"
    /\ IF LimitReached THEN main' = "wait" /\ UNCHANGED <<next, pc>>
       ELSE /\ pc' = [pc EXCEPT ![next] = "spawned"]
            /\ next' = next + 1 /\ main' = "head"
    /\ UNCHANGED <<stage, attempt, verdict, tally, cooldown, control>>

\* Mutant: the limit is not looked at again after the wait for a worker
AcquireStale ==
    /\ main = "acquire" /\ Cardinality(Live) < Routines
    /\ IF FALSE THEN main' = "wait" /\ UNCHANGED <<next, pc>>
       ELSE /\ pc' = [pc EXCEPT ![next] = "spawned"]
            /\ next' = next + 1 /\ main' = "head"
    /\ UNCHANGED <<stage, attempt, verdict, tally, cooldown, control>>

\* The limit is looked at again after the wait for a free worker.
Acquire ==
    /\ main = "acquire" /\ Cardinality(Live) < Routines
    /\ IF LimitReached THEN main' = "wait" /\ UNCHANGED <<next, pc>>
       ELSE /\ pc' = [pc EXCEPT ![next] = "spawned"]
            /\ next' = next + 1 /\ main' = "head"
    /\ UNCHANGED <<stage, attempt, verdict, tally, cooldown, control>>

\* Mutant: a worker in its cooldown is not waited for
ReturnBusy ==
    /\ main = "wait" /\ \A i \in Live : pc[i] = "cooling"
    /\ main' = "returned"
    /\ UNCHANGED <<stage, next, pc, attempt, verdict, tally, cooldown, control>>

Return ==
    /\ main = "wait" /\ Live = {}
    /\ main' = "returned"
    /\ UNCHANGED <<stage, next, pc, attempt, verdict, tally, cooldown, control>>

----------------------------------------------------------------------------
(* A worker.                                                               *)
Goto(i, step) == pc' = [pc EXCEPT ![i] = step]
Judged(i, v, step) == verdict' = [verdict EXCEPT ![i] = v] /\ Goto(i, step)

\* Stages 1 and 3 leave when cancelled, without a trace in the counters.
Enter(i) ==
    /\ pc[i] = "spawned" /\ PassesPause
    /\ IF cancelled /\ stage # "trace" THEN Judged(i, "cancelled", "done")
       ELSE Goto(i, "check") /\ UNCHANGED verdict
    /\ UNCHANGED <<loop, attempt, tally, cooldown, control>>

\* Before an attempt.  A cancelled trace is judged as any failure.
Check(i) ==
    /\ pc[i] = "check" /\ PassesPause
    /\ IF ~cancelled THEN Goto(i, "probing") /\ UNCHANGED verdict
       ELSE IF stage = "trace" THEN Judged(i, "failed", "note")
       ELSE Judged(i, "cancelled", "done")
    /\ UNCHANGED <<loop, attempt, tally, cooldown, control>>

\* A trace that failed may still be kept by a soft pass, which Judge chooses.
\* The request of stage 3 is dropped when the task was cancelled meanwhile.
\* A request a pause interrupted is made again: no attempt is used.
Answered(i) == pc[i] = "probing" /\ ~(stage = "get" /\ cancelled)
Succeed(i) ==
    /\ Answered(i)
    /\ Goto(i, "judge") /\ UNCHANGED attempt /\ UNCHANGED verdict
    /\ UNCHANGED <<loop, tally, cooldown, control>>
Fail(i) ==
    /\ Answered(i)
    /\ IF attempt[i] < MaxAttempts
       THEN /\ attempt' = [attempt EXCEPT ![i] = @ + 1]
            /\ Goto(i, "backoff") /\ UNCHANGED verdict
       ELSE IF stage = "trace" THEN Goto(i, "judge") /\ UNCHANGED <<attempt, verdict>>
       ELSE Judged(i, "failed", "note") /\ UNCHANGED attempt
    /\ UNCHANGED <<loop, tally, cooldown, control>>
Interrupted(i) ==
    /\ pc[i] = "probing" /\ stage # "tcp" /\ (paused \/ cancelled)
    /\ Goto(i, "check")
    /\ UNCHANGED <<loop, attempt, verdict, tally, cooldown, control>>
\* Mutant: a skipped address does not advance the progress
IgnoreUncounted(i) ==
    /\ Answered(i) /\ stage = "get"
    /\ Judged(i, "ignored", "done")
    /\ UNCHANGED <<loop, attempt, tally, cooldown, control>>

\* Mutant: a skipped address is noted as a failure
IgnoreNoted(i) ==
    /\ Answered(i) /\ stage = "get"
    /\ Judged(i, "ignored", "note")
    /\ UNCHANGED <<loop, attempt, tally, cooldown, control>>

\* A 403 or 1034 the configuration says to skip: no retry, no failure.
Ignore(i) ==
    /\ Answered(i) /\ stage = "get"
    /\ Judged(i, "ignored", "count")
    /\ UNCHANGED <<loop, attempt, tally, cooldown, control>>
Dropped(i) ==
    /\ pc[i] = "probing" /\ stage = "get" /\ cancelled
    /\ Judged(i, "cancelled", "done")
    /\ UNCHANGED <<loop, attempt, tally, cooldown, control>>

\* The backoff; stage 1 goes on without looking at the cancel.
Backoff(i) ==
    /\ pc[i] = "backoff" /\ PassesPause
    /\ Goto(i, IF stage = "tcp" THEN "probing" ELSE "check")
    /\ UNCHANGED <<loop, attempt, verdict, tally, cooldown, control>>

\* An answer that passes the filters of the stage counts as passed.
Judge(i) ==
    /\ pc[i] = "judge"
    /\ \/ Judged(i, "ok", "note") /\ qualified' = qualified \cup {i}
       \/ stage # "tcp" /\ Judged(i, "failed", "note") /\ UNCHANGED qualified
    /\ UNCHANGED <<loop, attempt, processed, cooldown, control>>

\* A panic: stages 1 and 3 note a failure but do not advance the progress,
\* stage 2 does the opposite.
Panic(i) ==
    /\ pc[i] = "probing"
    /\ Judged(i, "panic", IF stage = "trace" THEN "count" ELSE "panicked")
    /\ UNCHANGED <<loop, attempt, tally, cooldown, control>>

\* noteStageProbeOutcome: the worker that reaches the threshold waits.
AfterNote(i) == IF pc[i] = "panicked" THEN "done" ELSE "count"
Note(i) ==
    /\ pc[i] \in {"note", "panicked"}
    /\ IF Threshold = 0 THEN Goto(i, AfterNote(i)) /\ UNCHANGED cooldown
       ELSE IF verdict[i] = "ok" THEN fails' = 0 /\ Goto(i, AfterNote(i)) /\ UNCHANGED coolings
       ELSE IF fails + 1 < Threshold
            THEN fails' = fails + 1 /\ Goto(i, AfterNote(i)) /\ UNCHANGED coolings
       ELSE fails' = 0 /\ coolings' = coolings + 1 /\ Goto(i, "cooling")
    /\ UNCHANGED <<loop, attempt, verdict, tally, control>>
\* Mutant: a worker is held in its cooldown by a cancel
CoolOnce(i) ==
    /\ pc[i] = "cooling" /\ ~cancelled /\ ~paused
    /\ Goto(i, IF verdict[i] = "panic" THEN "done" ELSE "count")
    /\ UNCHANGED <<loop, attempt, verdict, tally, cooldown, control>>

Cool(i) ==
    /\ pc[i] = "cooling" /\ PassesPause
    /\ Goto(i, IF verdict[i] = "panic" THEN "done" ELSE "count")
    /\ UNCHANGED <<loop, attempt, verdict, tally, cooldown, control>>

\* The worker advances the progress.  The numbers of its event are read one
\* after another and are not modelled.
Count(i) ==
    /\ pc[i] = "count"
    /\ processed' = processed + 1
    /\ Goto(i, "done")
    /\ UNCHANGED <<loop, attempt, verdict, qualified, cooldown, control>>

Main == Head \/ Acquire \/ Return
Worker(i) == Enter(i) \/ Check(i) \/ Succeed(i) \/ Fail(i) \/ Interrupted(i) \/ Ignore(i) \/ Dropped(i)
             \/ Backoff(i) \/ Judge(i) \/ Panic(i) \/ Note(i) \/ Cool(i) \/ Count(i)
Next == Pause \/ Resume \/ Cancel \/ Main \/ \E i \in Items : Worker(i)
Fairness == WF_vars(Main) /\ \A i \in Items : WF_vars(Worker(i))
Spec == Init /\ [][Next]_vars /\ Fairness
-----------------------------------------------------------------------------
(* The stage hands on its rows only when no worker can still write one,    *)
(* a worker in its cooldown included (download.go:225, tcping.go:97).      *)
NoLateRow == main = "returned" => \A i \in Items : (i < next) <=> (pc[i] = "done")

(* "stops submitting the remaining downloads" at the limit                 *)
(* (configuration.md:239): the workers under way may still pass, so the    *)
(* limit is exceeded by less than the number of workers, never by more.    *)
LimitOvershoot ==
    stage = "get" /\ SuccessLimit > 0 => Cardinality(qualified) <= SuccessLimit + Routines - 1

(* Every address the stage took up is counted once, except one whose       *)
(* worker panicked in stages 1 and 3 ("the bar misses this one") and those *)
(* a cancel stopped (worker_guard.go:10, head.go:273).                     *)
AllAccounted ==
    main = "returned" =>
        /\ processed = Cardinality({i \in Items :
               verdict[i] \in {"ok", "failed", "ignored"} \/ (verdict[i] = "panic" /\ stage = "trace")})
        /\ ~cancelled => \A i \in Items : verdict[i] # "cancelled" /\ (i < next <=> verdict[i] # "none")
        /\ ~cancelled /\ ~LimitReached => next = N + 1

(* A cooldown is earned by Threshold failures of its own: skipped          *)
(* addresses, passes and cancelled downloads never pay for it              *)
(* (retry.go:88-110, download.go:187).                                     *)
CoolingsEarned ==
    Threshold * coolings + fails
        <= Cardinality({i \in Items : verdict[i] \in {"failed", "panic"}})

(* The stage ends unless the user leaves it paused: no permit is lost to a *)
(* panic, a cooldown or a cancel.                                          *)
StageEnds == <>[](PassesPause) => <>(main = "returned")

(* "the current probe stage cools down" (retry.go:116): no request is      *)
(* started while it does.                                                  *)
\* Documented and not kept by the code; see the README.
StageRests == [][\A i \in Items : pc[i] # "probing" /\ pc'[i] = "probing"
                    => \A j \in Items : pc[j] # "cooling"]_vars

\* The invariants above together.
Safety ==
    /\ TypeOK /\ NoLateRow /\ LimitOvershoot /\ AllAccounted
    /\ CoolingsEarned
=============================================================================
