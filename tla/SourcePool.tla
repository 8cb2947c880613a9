------------------------------ MODULE SourcePool ------------------------------
(***************************************************************************)
(* probecore.BuildSourceEntries: the candidate pool of one input source.   *)
(* The source's tokens are read up to a limit, filtered by COLO, then      *)
(* sampled (mcis) or expanded one after another, one address per network,  *)
(* until the pool is full.                                                 *)
(*                                                                         *)
(* Addresses are numbers; Key[a] is the network an address stands for (an  *)
(* IPv4 address itself, the /64 of an IPv6 one), Members[t] the addresses  *)
(* enumerateCIDRIPs lists for a token, one per network.  Sub[t] is what    *)
(* the COLO filter leaves of a token.                                      *)
(***************************************************************************)
EXTENDS Naturals, Integers, Sequences, FiniteSets, SequencesExt, Filtering

CONSTANTS
    Tokens, Members, Key, Sub,
    PoolLimit,      \* probe.source_pool_limit
    ParseFactor,    \* sourcePrefilterParseFactor
    Limits,         \* values of ip_limit, negative for "no limit"
    MaxTokens       \* bound: tokens of a source

NumbersAssumption ==
    /\ PoolLimit \in Nat \ {0} /\ ParseFactor \in Nat \ {0} /\ MaxTokens \in Nat
    /\ Limits \subseteq Int \ {0}
TokensAssumption ==
    \A t \in Tokens : /\ Members[t] \in Seq(Nat) /\ Members[t] # <<>>
                      /\ \A i, j \in DOMAIN Members[t] :
                           Key[Members[t][i]] = Key[Members[t][j]] => i = j
                      /\ Sub[t] \in Seq(Tokens)

Filters == {"none", "precheck", "stage2"}
Modes == {"traverse", "mcis"}

VARIABLES
    source,     \* its tokens, limit, mode, filter and the state of the dictionary
    step,       \* "start", "filter", "sample", "expand", "done" or "error"
    tokens,     \* tokens still to be filtered or expanded
    cut,        \* parsed.Truncated
    entries,    \* the pool
    warned      \* kinds of warnings given

vars == <<source, step, tokens, cut, entries, warned>>

\* dictionary: the COLO dictionary is there, is missing, or knows no token of
\* the filter; country: the filter names a country, which needs it.
Sources == [list : BoundedSeq(Tokens, MaxTokens), limit : Limits, mode : Modes, filter : Filters,
            deny : BOOLEAN, dictionary : {"ok", "missing", "unmatched"}, country : BOOLEAN]

TypeOK ==
    /\ source \in Sources
    /\ step \in {"start", "filter", "sample", "expand", "done", "error"}
    /\ tokens \in Seq(Tokens) /\ cut \in BOOLEAN
    /\ entries \in Seq(Nat) /\ Len(entries) <= PoolLimit
    /\ warned \subseteq {"clamped", "parse", "pool", "noMatch", "kept", "port"}

Init ==
    /\ source \in Sources
    /\ source.filter = "none" => ~source.country /\ ~source.deny /\ source.dictionary = "ok"
    /\ step = "start" /\ tokens = <<>> /\ cut = FALSE /\ entries = <<>> /\ warned = {}

\* Mutant: ip_limit above the pool's limit is taken as it is.
limitUnclamped == IF source.limit < 0 THEN PoolLimit ELSE source.limit

\* ip_limit as SourceIPLimit gives it: 0 has become the default.
limit == IF source.limit < 0 \/ source.limit > PoolLimit THEN PoolLimit ELSE source.limit
parseLimit == IF source.filter = "precheck" THEN PoolLimit * ParseFactor ELSE limit
ReadTokens == IF parseLimit = 0 THEN source.list
              ELSE SubSeq(source.list, 1, IF Len(source.list) < parseLimit THEN Len(source.list)
                                          ELSE parseLimit)
NextStep == IF source.mode = "mcis" THEN "sample" ELSE "expand"
Networks(seq) == {Key[seq[i]] : i \in DOMAIN seq}
Reach(ts) == UNION {Networks(Members[t]) : t \in ToSet(ts)}

Fail == step' = "error" /\ entries' = <<>> /\ UNCHANGED <<source, tokens, cut, warned>>

\* The filter is resolved before anything is read: country names need the
\* dictionary, COLO codes of their own do not.
Unresolvable == source.filter # "none" /\ source.country /\ source.dictionary = "missing"
StartFails == step = "start" /\ Unresolvable /\ Fail

Start ==
    /\ step = "start" /\ ~Unresolvable
    /\ tokens' = ReadTokens
    /\ cut' = (Len(ReadTokens) < Len(source.list))
    /\ warned' = IF source.limit > PoolLimit THEN {"clamped"} ELSE {}
    /\ step' = IF source.list = <<>> THEN "done"
               ELSE IF source.filter = "precheck" THEN "filter"
               ELSE NextStep
    /\ UNCHANGED <<source, entries>>

\* Mutant: a filter that matches no COLO is no filter.
MatchesNoneLifts ==
    /\ step = "filter" /\ source.dictionary = "unmatched" /\ ~source.deny
    /\ step' = NextStep /\ warned' = warned \cup {"noMatch"}
    /\ UNCHANGED <<source, tokens, cut, entries>>

\* An allow list that resolves to no COLO keeps nothing.
FilterMatchesNone ==
    /\ step = "filter" /\ source.dictionary = "unmatched" /\ ~source.deny
    /\ step' = "done" /\ warned' = warned \cup {"noMatch"}
    /\ UNCHANGED <<source, tokens, cut, entries>>

\* Without a dictionary the candidates are kept and stage 2 must filter.
FilterUnavailable ==
    /\ step = "filter" /\ source.dictionary = "missing"
    /\ step' = NextStep /\ warned' = warned \cup {"kept"}
    /\ UNCHANGED <<source, tokens, cut, entries>>

Filtered == IF source.dictionary = "unmatched" THEN tokens
            ELSE FlattenSeq([i \in 1..Len(tokens) |-> Sub[tokens[i]]])
Filter ==
    /\ step = "filter"
    /\ source.dictionary = "ok" \/ (source.dictionary = "unmatched" /\ source.deny)
    /\ tokens' = Filtered
    /\ IF Filtered = <<>> THEN step' = "done" /\ warned' = warned \cup {"noMatch"}
       ELSE step' = NextStep /\ UNCHANGED warned
    /\ UNCHANGED <<source, cut, entries>>

\* The sampler returns at most limit candidates of distinct networks, or fails.
Sample ==
    /\ step = "sample"
    /\ \E picked \in SUBSET UNION {ToSet(Members[t]) : t \in ToSet(tokens)} :
         /\ Cardinality(picked) <= limit
         /\ Cardinality({Key[a] : a \in picked}) = Cardinality(picked)
         /\ entries' = SetToSeq(picked)
         /\ warned' = warned \cup (IF Cardinality(picked) >= limit THEN {"pool"} ELSE {})
    /\ step' = "done" /\ UNCHANGED <<source, tokens, cut>>

SampleFails == step = "sample" /\ Fail

\* buildTraverseEntries, one token: a full pool with a token left over, or a
\* token that the room left in the pool cut short, ends the expansion.
Cuts == IF cut THEN {"parse"} ELSE {}
Room == limit - Len(entries)
Expanded(t) == IF Len(Members[t]) > Room THEN SubSeq(Members[t], 1, Room) ELSE Members[t]
\* Mutant: an address is compared with the pool by its text.
NewAny(t) == SelectSeq(Expanded(t), LAMBDA a : a \notin ToSet(entries))

New(t) == OnlyIn(Expanded(t), {a \in ToSet(Expanded(t)) : Key[a] \notin Networks(entries)})

PoolFull ==
    /\ step = "expand" /\ tokens # <<>> /\ Room <= 0
    /\ step' = "done" /\ warned' = warned \cup Cuts \cup {"pool"}
    /\ UNCHANGED <<source, tokens, cut, entries>>

Expand ==
    /\ step = "expand" /\ tokens # <<>> /\ Room > 0
    /\ entries' = entries \o New(Head(tokens))
    /\ tokens' = Tail(tokens)
    /\ IF Len(Members[Head(tokens)]) > Room
       THEN step' = "done" /\ warned' = warned \cup Cuts \cup {"pool"}
       ELSE UNCHANGED <<step, warned>>
    /\ UNCHANGED <<source, cut>>

\* Mutant: a cut of the parser is not reported.
ExhaustedQuietly ==
    /\ step = "expand" /\ tokens = <<>>
    /\ step' = "done" /\ UNCHANGED warned
    /\ UNCHANGED <<source, tokens, cut, entries>>

Exhausted ==
    /\ step = "expand" /\ tokens = <<>>
    /\ step' = "done" /\ warned' = warned \cup Cuts
    /\ UNCHANGED <<source, tokens, cut, entries>>

\* The context is looked at between any two of these steps.
Cancel == step \notin {"done", "error"} /\ Fail

Next == StartFails \/ Start \/ FilterMatchesNone \/ FilterUnavailable \/ Filter \/ Sample
            \/ SampleFails \/ PoolFull \/ Expand \/ Exhausted \/ Cancel
Spec == Init /\ [][Next]_vars
-----------------------------------------------------------------------------
(* The pool never outgrows ip_limit or probe.source_pool_limit, however    *)
(* tokens overlap, and holds one candidate per network                     *)
(* (source_build.go:79-94, :265-299).                                      *)
OnePerNetwork ==
    /\ Len(entries) <= limit
    /\ \A i, j \in DOMAIN entries : Key[entries[i]] = Key[entries[j]] => i = j

(* A traversal that gives no warning of a cut has a candidate for every    *)
(* network the filter leaves of the source (source_build.go:226-235).      *)
WholeOrWarned ==
    step = "done" /\ source.mode = "traverse" /\ warned \cap {"parse", "pool", "noMatch"} = {}
        => Networks(entries) =
             IF source.filter # "precheck" \/ source.dictionary = "missing" THEN Reach(source.list)
             ELSE IF source.dictionary = "ok" THEN Reach(FlattenSeq([i \in 1..Len(source.list) |-> Sub[source.list[i]]]))
             ELSE Reach(source.list)

(* A filter in effect is never dropped silently: a candidate it rejects is *)
(* in the pool only with the warning that the filter could not be applied, *)
(* and a filter that keeps nothing empties the pool rather than lifting it *)
(* (source_build.go:155-193).                                              *)
FilterHolds ==
    step = "done" /\ source.filter = "precheck" /\ "kept" \notin warned
        => IF source.dictionary = "ok"
           THEN Networks(entries) \subseteq Reach(FlattenSeq([i \in 1..Len(source.list) |-> Sub[source.list[i]]]))
           ELSE source.deny \/ entries = <<>>

(* "配置了输入源 COLO 预筛时，解析预算为该上限的 8 倍，超出部分会被截断并告警" *)
(* (docs/guide/configuration.md:214).                                      *)
\* Documented and not kept by the code; see the README.
PrefilterCutIsWarned ==
    step = "done" /\ source.mode = "traverse" /\ source.filter = "precheck" /\ cut => "parse" \in warned

(* "按顺序展开 CIDR，并按 `ip_limit` 截断"                                   *)
(* (docs/reference/capabilities-and-flows.md:51): a pool reported as cut   *)
(* at ip_limit holds ip_limit candidates.                                  *)
\* Documented and not kept by the code; see the README.
CutAtLimit ==
    step = "done" /\ source.mode = "traverse" /\ "pool" \in warned => Len(entries) = limit

\* The invariants above together.
Safety ==
    /\ TypeOK /\ OnePerNetwork /\ WholeOrWarned /\ FilterHolds
=============================================================================
