------------------------------ MODULE TraceProbe ------------------------------
(***************************************************************************)
(* The trace of one address in stage 2: traceProbeIP asks its endpoints    *)
(* one after another (the address itself, then TraceURL), falls back to    *)
(* the COLO dictionary and applies the filters; the worker of              *)
(* TestTraceAvailability then decides whether the address passes.          *)
(***************************************************************************)
EXTENDS Naturals, Sequences, FiniteSets

CONSTANTS Colos, None       \* COLO codes; no code
NoneAssumption == None \notin Colos

\* A filter on the code: off, nothing matches, or a list that is allowed or
\* denied.  The filter of the sources of the address, and HttpingCFColo.
Filters == {[kind |-> "off", codes |-> {}], [kind |-> "matchNone", codes |-> {}]}
           \cup [kind : {"allow", "deny"}, codes : (SUBSET Colos) \ {{}}]
Unrestricted == [kind |-> "unrestricted", codes |-> {}]

VARIABLES
    config,     \* TraceColoMode, HttpingStatusCode, HeadMaxDelay, filters, dictionary
    at,         \* endpoint to ask
    firstOK,    \* the first good answer that named no code
    last,       \* the last answer
    result,     \* traceProbeResult
    outcome     \* "none", "passed", "soft", "fallback", "rejected"

vars == <<config, at, firstOK, last, result, outcome>>

Status == {200, 403, 404, 503}
NoAnswer == [ok |-> FALSE, reason |-> "", status |-> 0, colo |-> None, slow |-> FALSE]
Failed(reason, status) == [NoAnswer EXCEPT !.reason = reason, !.status = status]
Answer(status, colo, slow) == [ok |-> TRUE, reason |-> "", status |-> status, colo |-> colo, slow |-> slow]

Endpoints == IF config.traceUrlOnly THEN 1 ELSE 2

TypeOK ==
    /\ at \in 1..(Endpoints + 1)
    /\ outcome \in {"none", "passed", "soft", "fallback", "rejected"}
    /\ firstOK.ok => firstOK.colo = None /\ firstOK.status \in Status
    /\ result.reason \in {"", "pending", "trace_interrupted", "trace_error", "rate_limited",
                          "trace_read_error", "status_mismatch", "colo_filter", "source_colo_filter"}
    /\ result.ok => result.reason = ""

Pending == [NoAnswer EXCEPT !.reason = "pending"]
Configs == [traceUrlOnly : BOOLEAN, accepted : {0, 200}, maxDelay : BOOLEAN,
            colo : {f \in Filters : f.kind # "matchNone"}, source : Filters \cup {Unrestricted},
            dictionary : Colos \cup {None}]
Init ==
    /\ config \in Configs
    /\ at = 1 /\ firstOK = NoAnswer /\ last = NoAnswer
    /\ result = Pending /\ outcome = "none"

----------------------------------------------------------------------------
(* The filters.                                                            *)
\* Mutant: an allow list lets an unknown code through
AllowsUnknown(f, colo) ==
    CASE f.kind \in {"off", "unrestricted"} -> TRUE
      [] f.kind = "matchNone" -> FALSE
      [] f.kind = "allow" -> colo \in f.codes \cup {None}
      [] f.kind = "deny" -> colo \notin f.codes

\* sourceAllowsColo and configuredColoAllowed.
Allows(f, colo) ==
    CASE f.kind \in {"off", "unrestricted"} -> TRUE
      [] f.kind = "matchNone" -> FALSE
      [] f.kind = "allow" -> colo \in f.codes
      [] f.kind = "deny" -> colo \notin f.codes
RequiresColo(f) == f.kind \in {"matchNone", "allow"}

\* traceResultForColo
ForColo(answer, colo) ==
    IF ~Allows(config.source, colo) THEN Failed("source_colo_filter", answer.status)
    ELSE IF ~Allows(config.colo, colo) THEN Failed("colo_filter", answer.status)
    ELSE Answer(answer.status, colo, answer.slow)

----------------------------------------------------------------------------
(* The answer of an endpoint: requestTraceEndpoint.                        *)
AllowsRay == at = 1
Accepts(status) == config.accepted \in {0, status}
Read(status, body, ray, slow) ==
    LET seen == IF AllowsRay THEN ray ELSE None IN
    IF status = 403 /\ seen # None THEN Answer(status, seen, slow)
    ELSE IF ~Accepts(status) THEN Failed("status_mismatch", status)
    ELSE Answer(status, IF body # None THEN body ELSE seen, slow)

\* What the loop of traceProbeIP does with it.
Take(answer) ==
    /\ last' = answer
    /\ IF answer.reason \in {"trace_interrupted", "rate_limited"}
       THEN result' = answer /\ UNCHANGED firstOK
       ELSE IF answer.ok /\ answer.colo # None
       THEN result' = ForColo(answer, answer.colo) /\ UNCHANGED firstOK
       ELSE /\ firstOK' = IF answer.ok /\ ~firstOK.ok THEN answer ELSE firstOK
            /\ UNCHANGED result
    /\ at' = at + 1
    /\ UNCHANGED <<config, outcome>>

\* Mutant: a single endpoint is asked twice
AskingTwice == result.reason = "pending" /\ at <= 2

Asking == result.reason = "pending" /\ at <= Endpoints
Breaks == Asking /\ \E reason \in {"trace_error", "trace_read_error", "trace_interrupted"} : Take(Failed(reason, 0))
Limited == Asking /\ Take(Failed("rate_limited", 429))
Answers == Asking /\ \E status \in Status, body, ray \in Colos \cup {None}, slow \in BOOLEAN :
                        Take(Read(status, body, ray, slow))

\* Mutant: a filter that needs a code is applied before the dictionary
ConclusionEarly ==
    IF config.dictionary # None /\ ~RequiresColo(config.source) THEN ForColo(firstOK, config.dictionary)
    ELSE IF ~firstOK.ok THEN (IF last.reason # "" THEN last ELSE Failed("trace_error", 0))
    ELSE IF RequiresColo(config.source) THEN Failed("source_colo_filter", firstOK.status)
    ELSE IF ~Allows(config.colo, None) THEN Failed("colo_filter", firstOK.status)
    ELSE firstOK

\* No endpoint named a code: the dictionary, then the answers without one.
Conclusion ==
    IF config.dictionary # None THEN ForColo(firstOK, config.dictionary)
    ELSE IF ~firstOK.ok THEN (IF last.reason # "" THEN last ELSE Failed("trace_error", 0))
    ELSE IF RequiresColo(config.source) THEN Failed("source_colo_filter", firstOK.status)
    ELSE IF ~Allows(config.colo, None) THEN Failed("colo_filter", firstOK.status)
    ELSE firstOK
Conclude ==
    /\ result.reason = "pending" /\ at > Endpoints
    /\ result' = Conclusion
    /\ UNCHANGED <<config, at, firstOK, last, outcome>>

----------------------------------------------------------------------------
(* The worker.                                                             *)
TooSlow == config.maxDelay /\ result.slow
Passes == result.ok /\ ~TooSlow /\ Allows(config.source, result.colo) /\ Allows(config.colo, result.colo)

\* A failure that may pass by itself keeps the address when nothing filters.
HardFilter == config.maxDelay \/ config.colo.kind # "off" \/ config.source.kind # "off"
\* Mutant: a soft pass that ignores the filters
SoftPassAlways ==
    /\ \/ result.reason \in {"trace_error", "trace_read_error", "rate_limited"}
       \/ result.reason = "status_mismatch" /\ result.status \in {408, 425} \cup 500..599

\* Mutant: a body that could not be read is not passed softly
SoftPassRequest ==
    /\ ~HardFilter
    /\ \/ result.reason \in {"trace_error", "rate_limited"}
       \/ result.reason = "status_mismatch" /\ result.status \in {408, 425} \cup 500..599

SoftPass ==
    /\ ~HardFilter
    /\ \/ result.reason \in {"trace_error", "trace_read_error", "rate_limited"}
       \/ result.reason = "status_mismatch" /\ result.status \in {408, 425} \cup 500..599
Fallback == result.reason \in {"trace_error", "trace_read_error"}

Judge ==
    /\ outcome = "none" /\ result.reason # "pending"
    /\ outcome' = IF Passes THEN "passed" ELSE IF SoftPass THEN "soft"
                  ELSE IF Fallback THEN "fallback" ELSE "rejected"
    /\ UNCHANGED <<config, at, firstOK, last, result>>

Next == Breaks \/ Limited \/ Answers \/ Conclude \/ Judge
Spec == Init /\ [][Next]_vars
-----------------------------------------------------------------------------
(* An address that passed satisfies every filter with the code it is       *)
(* handed on with, however the code was found, and an allow list is never  *)
(* satisfied by not knowing it (head.go:300-345).                          *)
PassHonoursFilters ==
    outcome = "passed" =>
        /\ Allows(config.source, result.colo) /\ Allows(config.colo, result.colo)
        /\ RequiresColo(config.source) \/ RequiresColo(config.colo) => result.colo \in Colos
        /\ config.maxDelay => ~result.slow

(* What passes without an answer does so because no filter is configured   *)
(* and the failure was a passing one: a refusal, an interruption or a      *)
(* filter never turns into a pass (head.go:808-826).                       *)
SoftOnlyUnfiltered ==
    outcome = "soft" => ~HardFilter /\ ~result.ok /\ result.reason # "trace_interrupted"
                        /\ result.status \notin {403, 404}

(* An address is not lost to a filter it satisfies: the code that rejected *)
(* it is one an endpoint or the dictionary named, or none was named where  *)
(* a filter needs one.                                                     *)
RejectedByEvidence ==
    result.reason \in {"colo_filter", "source_colo_filter"} =>
        \/ \E colo \in ({last.colo, config.dictionary} \cap Colos) :
               ~(Allows(config.source, colo) /\ Allows(config.colo, colo))
        \/ config.dictionary = None /\ firstOK.ok
           /\ (RequiresColo(config.source) \/ RequiresColo(config.colo))

(* "trace latency filter ... want 0" (probe_strategy_test.go:378-402): a   *)
(* trace that got no answer does not pass when a hard filter is set.       *)
\* Documented and not kept by the code; see the README.
NoAnswerNoPass == outcome = "passed" /\ HardFilter => firstOK.ok \/ last.ok

(* The fallback to the candidates of stage 1 (head.go:394) needs every     *)
(* address to have failed in a way that a soft pass has already kept: it   *)
(* is never reached.                                                       *)
FallbackUnreachable == outcome = "fallback" => HardFilter

\* The invariants above together.
Safety ==
    /\ TypeOK /\ PassHonoursFilters /\ SoftOnlyUnfiltered
    /\ RejectedByEvidence /\ FallbackUnreachable
=============================================================================
