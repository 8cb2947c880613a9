------------------------------ MODULE SourceParse -----------------------------
(***************************************************************************)
(* sourceparse.Parse: the text of an input source read line by line into   *)
(* addresses and CIDR blocks, with its three budgets: the number of        *)
(* candidates (Limit), the number of domain look-ups and their total time. *)
(*                                                                         *)
(* A line is what the candidate patterns find in it: the number written as *)
(* its port, its valid tokens, its invalid ones (the text of a line that   *)
(* holds nothing else), its domains.  Between two look-ups time passes and *)
(* the task may be cancelled.                                              *)
(***************************************************************************)
EXTENDS Naturals, Sequences, FiniteSets, SequencesExt, Functions

CONSTANTS
    Addresses,      \* single addresses
    Blocks,         \* CIDR blocks
    Domains,        \* domain names
    Answers,        \* Answers[d]: the addresses of d, <<>> when the look-up fails
    Lines,          \* the lines an input may have
    Limit,          \* Options.Limit; 0 is no limit
    LookupBudget,   \* Options.MaxDomainLookups, or what follows from Limit
    MaxLines        \* bound: lines of an input

TokensApart == Addresses \cap Blocks = {}
LimitsAreNumbers == {Limit, LookupBudget, MaxLines} \subseteq Nat
AnswersAreAddresses == Answers \in [Domains -> Seq(Addresses)]
LinesAreRead == \A line \in Lines :
    /\ line.port \in Nat
    /\ line.tokens \in Seq(Addresses \cup Blocks)
    /\ line.bad \in SUBSET STRING
    /\ line.domains \in Seq(Domains)

VARIABLES
    input,      \* the lines
    at,         \* the line being read
    todo,       \* domains of that line still to be looked up
    inLine,     \* whether the domains of the line are being looked up
    valid, invalid, ports,
    cache,      \* domainCache
    lookups,    \* domainLookups
    clock,      \* "unset" before resolveDeadline is set, then "early", "late"
    cancelled,  \* the context
    truncated, lookupBudgetExceeded, resolveBudgetExceeded,
    stopped,    \* left the loop at a line beyond Limit
    skipped     \* history variable: candidates passed over because of Limit

vars == <<input, at, todo, inLine, valid, invalid, ports, cache, lookups, clock,
          cancelled, truncated, lookupBudgetExceeded, resolveBudgetExceeded, stopped, skipped>>
budgetVars == <<cache, lookups, clock, lookupBudgetExceeded, resolveBudgetExceeded>>
world == <<input, cancelled>>

TypeOK ==
    /\ input \in BoundedSeq(Lines, MaxLines)
    /\ at \in 1..(Len(input) + 1)
    /\ todo \in Seq(Domains) /\ inLine \in BOOLEAN
    /\ valid \in Seq(Addresses \cup Blocks)
    /\ \A t \in DOMAIN ports : ports[t] \in Nat
    /\ \A d \in DOMAIN cache : d \in Domains
    /\ lookups \in 0..LookupBudget
    /\ clock \in {"unset", "early", "late"}
    /\ {cancelled, stopped, truncated, lookupBudgetExceeded, resolveBudgetExceeded} \subseteq BOOLEAN

Init ==
    /\ input \in BoundedSeq(Lines, MaxLines)
    /\ at = 1 /\ todo = <<>> /\ inLine = FALSE
    /\ valid = <<>> /\ invalid = {} /\ ports = <<>>
    /\ cache = <<>> /\ lookups = 0 /\ clock = "unset"
    /\ cancelled = FALSE /\ truncated = FALSE
    /\ lookupBudgetExceeded = FALSE /\ resolveBudgetExceeded = FALSE
    /\ stopped = FALSE /\ skipped = {}

line == input[at]
PortNumbers == 1..65535
\* extractLinePort: a number that is no port, or one after a single block, is none.
PortOf(l) == IF l.port \in PortNumbers /\ ~(Len(l.tokens) = 1 /\ l.tokens[1] \in Blocks)
             THEN l.port ELSE 0
Blank(l) == l.tokens = <<>> /\ l.domains = <<>> /\ l.bad = {}
limitReached == Limit > 0 /\ Len(valid) >= Limit
Done == at > Len(input) \/ (~inLine /\ (cancelled \/ stopped))
Listed(l) == IF l.tokens # <<>> THEN ToSet(l.tokens) ELSE ToSet(l.domains)
Candidates(l) == IF l.tokens # <<>> THEN ToSet(l.tokens)
                 ELSE UNION {ToSet(Answers[d]) : d \in ToSet(l.domains)}
With(f, keys, v) == [k \in DOMAIN f \cup keys |-> IF k \in keys THEN v ELSE f[k]]

\* The patterns leave nothing of a comment or an empty line; such a line is
\* passed over before Limit is looked at.
SkipBlank ==
    /\ ~Done /\ ~inLine /\ Blank(line)
    /\ at' = at + 1
    /\ UNCHANGED <<world, todo, inLine, valid, invalid, ports, budgetVars, truncated, stopped, skipped>>

\* Mutant: the loop ends at the limit without saying so.
StopSilently ==
    /\ ~Done /\ ~inLine /\ ~Blank(line) /\ limitReached
    /\ UNCHANGED truncated /\ stopped' = TRUE
    /\ skipped' = skipped \cup UNION {Listed(input[i]) : i \in at..Len(input)}
    /\ UNCHANGED <<world, at, todo, inLine, valid, invalid, ports, budgetVars>>

StopAtLimit ==
    /\ ~Done /\ ~inLine /\ ~Blank(line) /\ limitReached
    /\ truncated' = TRUE /\ stopped' = TRUE
    /\ skipped' = skipped \cup UNION {Listed(input[i]) : i \in at..Len(input)}
    /\ UNCHANGED <<world, at, todo, inLine, valid, invalid, ports, budgetVars>>

\* Mutant: a block takes the port of its line.
BlockPorts ==
    /\ ~Done /\ ~inLine /\ line.tokens # <<>> /\ ~limitReached
    /\ valid' = valid \o line.tokens
    /\ invalid' = invalid \cup line.bad
    /\ ports' = IF PortOf(line) = 0 THEN ports
                ELSE With(ports, ToSet(line.tokens), PortOf(line))
    /\ at' = at + 1
    /\ UNCHANGED <<world, todo, inLine, budgetVars, truncated, stopped, skipped>>

\* A line with a valid token: all its tokens, whatever Limit leaves, and none
\* of its domains.  A block takes no port.
TokenLine ==
    /\ ~Done /\ ~inLine /\ line.tokens # <<>> /\ ~limitReached
    /\ valid' = valid \o line.tokens
    /\ invalid' = invalid \cup line.bad
    /\ ports' = IF PortOf(line) = 0 THEN ports
                ELSE With(ports, ToSet(line.tokens) \cap Addresses, PortOf(line))
    /\ at' = at + 1
    /\ UNCHANGED <<world, todo, inLine, budgetVars, truncated, stopped, skipped>>

DomainLine ==
    /\ ~Done /\ ~inLine /\ ~Blank(line) /\ line.tokens = <<>> /\ ~limitReached
    /\ invalid' = invalid \cup line.bad
    /\ inLine' = TRUE /\ todo' = line.domains
    /\ UNCHANGED <<world, at, valid, ports, budgetVars, truncated, stopped, skipped>>

\* The addresses of a domain are taken until Limit is reached.
Room(ips) == IF Limit = 0 \/ Len(valid) + Len(ips) < Limit THEN Len(ips) ELSE Limit - Len(valid)
Take(ips) ==
    LET taken == SubSeq(ips, 1, Room(ips))
        full == Limit > 0 /\ Len(valid) + Len(taken) >= Limit
    IN  /\ valid' = valid \o taken
        /\ ports' = IF PortOf(line) = 0 THEN ports ELSE With(ports, ToSet(taken), PortOf(line))
        /\ truncated' = (truncated \/ full)
        /\ skipped' = IF ~full THEN skipped
                      ELSE skipped \cup (ToSet(ips) \ ToSet(taken))
                           \cup ToSet(Tail(todo))
        /\ todo' = IF full THEN <<>> ELSE Tail(todo)
        /\ invalid' = invalid

Unresolved ==
    /\ invalid' = invalid \cup {Head(todo)}
    /\ todo' = Tail(todo)
    /\ UNCHANGED <<valid, ports, truncated, skipped>>

FromCache ==
    /\ inLine /\ todo # <<>> /\ Head(todo) \in DOMAIN cache
    /\ IF cache[Head(todo)] = <<>> THEN Unresolved ELSE Take(cache[Head(todo)])
    /\ UNCHANGED <<world, at, inLine, stopped, budgetVars>>

\* allowDomainLookup: the number first, then the time.
Refused ==
    /\ inLine /\ todo # <<>> /\ Head(todo) \notin DOMAIN cache
    /\ \/ /\ lookups >= LookupBudget
          /\ lookupBudgetExceeded' = TRUE /\ UNCHANGED resolveBudgetExceeded
       \/ /\ lookups < LookupBudget /\ clock = "late"
          /\ resolveBudgetExceeded' = TRUE /\ UNCHANGED lookupBudgetExceeded
    /\ Unresolved
    /\ UNCHANGED <<world, at, inLine, stopped, cache, lookups, clock>>

\* Mutant: a failed look-up is not remembered.
LookupForgets ==
    /\ inLine /\ todo # <<>> /\ Head(todo) \notin DOMAIN cache
    /\ lookups < LookupBudget /\ clock # "late"
    /\ lookups' = lookups + 1
    /\ clock' = IF clock = "unset" THEN "early" ELSE clock
    /\ LET ips == IF cancelled THEN <<>> ELSE Answers[Head(todo)]
       IN  /\ cache' = IF ips = <<>> THEN cache ELSE With(cache, {Head(todo)}, ips)
           /\ IF ips = <<>> THEN Unresolved ELSE Take(ips)
    /\ UNCHANGED <<world, at, inLine, stopped, lookupBudgetExceeded, resolveBudgetExceeded>>

\* Mutant: the budget is looked at after the look-up.
LookupLate ==
    /\ inLine /\ todo # <<>> /\ Head(todo) \notin DOMAIN cache
    /\ lookups <= LookupBudget /\ clock # "late"
    /\ lookups' = lookups + 1
    /\ clock' = IF clock = "unset" THEN "early" ELSE clock
    /\ LET ips == IF cancelled THEN <<>> ELSE Answers[Head(todo)]
       IN  /\ cache' = With(cache, {Head(todo)}, ips)
           /\ IF ips = <<>> THEN Unresolved ELSE Take(ips)
    /\ UNCHANGED <<world, at, inLine, stopped, lookupBudgetExceeded, resolveBudgetExceeded>>

\* A failure is remembered too; a cancelled context makes every look-up fail.
Lookup ==
    /\ inLine /\ todo # <<>> /\ Head(todo) \notin DOMAIN cache
    /\ lookups < LookupBudget /\ clock # "late"
    /\ lookups' = lookups + 1
    /\ clock' = IF clock = "unset" THEN "early" ELSE clock
    /\ LET ips == IF cancelled THEN <<>> ELSE Answers[Head(todo)]
       IN  /\ cache' = With(cache, {Head(todo)}, ips)
           /\ IF ips = <<>> THEN Unresolved ELSE Take(ips)
    /\ UNCHANGED <<world, at, inLine, stopped, lookupBudgetExceeded, resolveBudgetExceeded>>

EndLine ==
    /\ inLine /\ todo = <<>>
    /\ inLine' = FALSE /\ at' = at + 1
    /\ UNCHANGED <<world, todo, valid, invalid, ports, budgetVars, truncated, stopped, skipped>>

TimePasses ==
    /\ inLine /\ clock = "early" /\ clock' = "late"
    /\ UNCHANGED <<world, at, todo, inLine, valid, invalid, ports, cache, lookups,
                   truncated, stopped, skipped, lookupBudgetExceeded, resolveBudgetExceeded>>
Cancel ==
    /\ ~Done /\ ~cancelled /\ cancelled' = TRUE
    /\ UNCHANGED <<input, at, todo, inLine, valid, invalid, ports, budgetVars, truncated, stopped, skipped>>

Next == SkipBlank \/ StopAtLimit \/ TokenLine \/ DomainLine \/ FromCache \/ Refused
            \/ Lookup \/ EndLine \/ TimePasses \/ Cancel
Spec == Init /\ [][Next]_vars
-----------------------------------------------------------------------------
(* A result without any of its three warnings holds every candidate of the *)
(* input that resolves (sourceparse.go:96-99, :216-231, :483).                 *)
NothingDroppedSilently ==
    Done /\ ~cancelled /\ ~truncated /\ ~lookupBudgetExceeded /\ ~resolveBudgetExceeded
        => \A i \in 1..Len(input) : Candidates(input[i]) \subseteq ToSet(valid)

(* Budgets: every domain costs one look-up, failed or not, however often   *)
(* it is listed; and what a domain gives never passes the limit, so only   *)
(* the tokens of one line may (sourceparse.go:210-231, :463).          *)
BudgetsHold ==
    /\ lookups = Cardinality(DOMAIN cache)
    /\ Limit > 0 =>
         Len(valid) <= Limit \/ \E l \in ToSet(input) : Len(valid) < Limit + Len(l.tokens)

(* A port belongs to an address that was kept, never to a block, and is    *)
(* the last one given with it (sourceparse.go:184-189, :221-226).          *)
PortsOfAddresses ==
    /\ DOMAIN ports \subseteq ToSet(valid) \cap Addresses
    /\ \A a \in DOMAIN ports : \E i \in 1..Len(input) :
         /\ i <= at /\ ports[a] = input[i].port /\ ports[a] \in PortNumbers /\ a \in Candidates(input[i])
         /\ ~\E j \in (i + 1)..(at - 1) :
               PortOf(input[j]) \notin {0, ports[a]} /\ a \in ToSet(input[j].tokens)

(* Result.Truncated: "表示因为 Limit 而跳过了仍在输入的候选，用于上层给出     *)
(* 准确的截断提示" (sourceparse.go:59): set only when a candidate was      *)
(* passed over.                                                            *)
\* Documented and not kept by the code; see the README.
TruncatedIsAccurate == Done /\ ~cancelled /\ truncated => skipped # {}

\* The invariants above together.
Safety ==
    /\ TypeOK /\ NothingDroppedSilently /\ BudgetsHold /\ PortsOfAddresses
=============================================================================
