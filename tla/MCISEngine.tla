----------------------------- MODULE MCISEngine -----------------------------
(***************************************************************************)
(* The MICS sampling search that turns the CIDRs of an input source into a *)
(* ranked list of candidates (internal/mcis, started by                    *)
(* internal/appcore/source_mcis.go).                                       *)
(*                                                                         *)
(* One goroutine, the main one, keeps a tree of prefixes, hands probe      *)
(* tasks to Workers through the channel `tasks' and takes their results    *)
(* from the channel `done'; each result updates the tree, may enter the    *)
(* best-N list, may trigger a round of splits, and is replaced by a new    *)
(* task until the budget is spent.  The context may be cancelled (or pass  *)
(* its five minutes) at any moment.                                        *)
(*                                                                         *)
(* A prefix is the sequence of its network bits; all are of one family.    *)
(* An address is represented by its network, its first KeyBits bits: the   *)
(* engine tells two addresses apart by nothing else (an IPv4 address, the  *)
(* /64 of an IPv6 one).  What Thompson sampling draws is random: any leaf  *)
(* may win, any address of a prefix may be drawn.                          *)
(***************************************************************************)
EXTENDS Integers, Sequences, FiniteSets, TLC, FiniteSetsExt, SequencesExt

CONSTANTS
  Workers,        \* the probing goroutines: Config.Concurrency of them
  Heads,          \* number of search heads
  AddrBits,       \* bits of an address (128)
  KeyBits,        \* bits that tell two candidates apart (64)
  Step,           \* bits a split adds
  MaxBits,        \* a prefix of this length or more is not split
  MinSamples,     \* samples a prefix needs before it is split
  MaxNodes,       \* limit of the tree
  SplitInterval,  \* results between two rounds of splits
  Explore,        \* results before known-good prefixes are exploited (30)
  Rebalance,      \* average distance of the heads below which they are spread
  Rounds, SkipFirst,       \* rounds of one probe, and how many are not counted
  Answers,        \* what a successful round may measure: [ok, ms, colo]
  AllowedColos,            \* {} for no filter
  Inputs,         \* the sets of prefixes a source may hold
  Limits, Overrides        \* candidates wanted; configured budget (0 = automatic)

MCISAssumption ==
  /\ IsFiniteSet(Workers) /\ Workers # {}
  /\ Heads \in Nat \ {0} /\ Step \in Nat \ {0}
  /\ KeyBits \in Nat /\ AddrBits \in Nat /\ KeyBits <= AddrBits
  /\ MaxBits <= KeyBits
  /\ Rounds \in Nat \ {0} /\ SkipFirst \in Nat

VARIABLES
  pc,         \* the main goroutine: start, fill, loop, submit, close, wait, drain, over
  failed,     \* the search returned an error
  limit,      \* TopN
  budget,     \* probes to make
  tasks, done,      \* the two channels
  worker,     \* what each worker is doing
  submitted, completed,
  nodes,      \* the prefixes of the tree
  split,      \* those that were split
  samples,    \* results counted for each of them
  lastSplit,
  focus,      \* prefix each head explores
  top,        \* the best-N list, as a set
  cancelled

vars == <<pc, failed, limit, budget, tasks, done, worker, submitted, completed,
          nodes, split, samples, lastSplit, focus, top, cancelled>>

tree == <<nodes, split, samples, lastSplit>>

\* Every value of n bits; what a split writes behind its prefix.
Bits(n) == [1..n -> {0, 1}]
NoColo == "none"
NoFocus == <<2>>
Capacity == 2 * Cardinality(Workers)

-----------------------------------------------------------------------------
(* Prefixes and budget. *)

\* q lies inside p.
Inside(q, p) == IsPrefix(p, q)

\* The networks of a prefix; a prefix longer than a network lies in one.
Networks(p) ==
  IF Len(p) >= KeyBits THEN {SubSeq(p, 1, KeyBits)}
  ELSE {k \in Bits(KeyBits) : Inside(k, p)}

\* What may be drawn from a prefix: up to 32 draws look for a network not drawn
\* before, and the last one is taken if all were, so any network may come again.
Drawn(p) == Networks(p)

\* Mutant: the last of the parts is left out.
SplitPrefixShort(p) ==
  IF Len(p) + Step > AddrBits THEN {} ELSE {p \o b : b \in Bits(Step) \ {[i \in 1..Step |-> 1]}}

\* The sub-prefixes of p that are Step bits longer; none past the address.
SplitPrefix(p) ==
  IF Len(p) + Step > AddrBits THEN {} ELSE {p \o b : b \in Bits(Step)}

\* Mutant: the sizes of the prefixes are added up, overlaps counted twice.
UniqueCandidateCapacitySum(cidrs, stopAt) ==
  IF stopAt <= 0 THEN 0
  ELSE IF \E p \in cidrs : 2 ^ (KeyBits - Min({Len(p), KeyBits})) > stopAt THEN stopAt
  ELSE Min({stopAt, MapThenSumSet(LAMBDA p : Cardinality(Networks(p)), cidrs)})

\* The number of distinct networks of the input, counted up to stopAt.
UniqueCandidateCapacity(cidrs, stopAt) ==
  IF stopAt <= 0 THEN 0
  ELSE IF \E p \in cidrs : 2 ^ (KeyBits - Min({Len(p), KeyBits})) > stopAt THEN stopAt
  ELSE Min({stopAt, Cardinality(UNION {Networks(p) : p \in cidrs})})

\* The configured budget or three times the limit, cut to what the input holds.
SamplingBudget(override, lim, cidrs) ==
  LET base == IF override > 0 THEN override ELSE 3 * lim
      capacity == UniqueCandidateCapacity(cidrs, base)
  IN  IF capacity > 0 /\ capacity < base THEN capacity ELSE base

-----------------------------------------------------------------------------
(* The tree. *)

Leaves == nodes \ split

\* A leaf with enough samples that is not yet as fine as the tree gets.
CanSplit(t, p) == p \notin t.split /\ t.samples[p] >= MinSamples /\ Len(p) < MaxBits

\* One split under the tree's lock: every missing child or none of them.
SplitNode(t, p) ==
  LET children == SplitPrefix(p)
      missing == children \ t.nodes
  IN  IF ~CanSplit(t, p) \/ children = {}
           \/ Cardinality(t.nodes) + Cardinality(missing) > MaxNodes
      THEN t
      ELSE [nodes |-> t.nodes \cup missing, split |-> t.split \cup {p}, n |-> t.n + 1,
            samples |-> t.samples @@ [c \in missing |-> 0]]

\* The candidates in the order of their priority: at most 4 * Heads leaves
\* that can be split and promise enough information, of which any may be.
SplitCandidates(t) ==
  LET able == {p \in t.nodes : CanSplit(t, p)}
  IN  UNION {SetToSeqs(c) : c \in {d \in SUBSET able : Cardinality(d) <= 4 * Heads}}

\* A round of splits over the candidates; at most 2 * Heads of them succeed.
TrySplit(t, order) ==
  FoldLeft(LAMBDA u, p : IF u.n >= 2 * Heads THEN u ELSE SplitNode(u, p), t, order)

\* Length of what the shorter of two prefixes does not share with the other.
PrefixDistance(p, q) ==
  LET short == Min({Len(p), Len(q)})
      common == {i \in 0..short : SubSeq(p, 1, i) = SubSeq(q, 1, i)}
  IN  short - Max(common)

\* Heads that came too close are spread over the leaves.
RebalanceHeads(f, leaves) ==
  LET focused == {h \in DOMAIN f : f[h] # NoFocus}
      pairs == {d \in focused \X focused : d[1] < d[2]}
      total == MapThenSumSet(LAMBDA d : PrefixDistance(f[d[1]], f[d[2]]), pairs)
  IN  IF \/ Cardinality(focused) < 2
         \/ total >= Rebalance * Cardinality(pairs)
         \/ Cardinality(leaves) < Heads
      THEN {f}
      ELSE {g \in [DOMAIN f -> leaves] : \A h, i \in DOMAIN f : h # i => g[h] # g[i]}

-----------------------------------------------------------------------------
(* One probe, and the list of the best. *)

Failure == [ok |-> FALSE, ms |-> 0, colo |-> NoColo]

\* Rounds requests in a row: the first failure ends the probe, the first
\* SkipFirst of them do not count, the trace is that of the last one.
Measured(rounds) ==
  LET n == Len(rounds)
      counted == IF n <= SkipFirst THEN <<rounds[n]>> ELSE SubSeq(rounds, SkipFirst + 1, n)
      total == FoldLeft(LAMBDA a, r : a + r.ms, 0, counted)
  IN  IF \E i \in 1..n : ~rounds[i].ok THEN Failure
      ELSE [rounds[n] EXCEPT !.ms = total \div Len(counted)]

Round == {Failure} \cup Answers

PassesColoFilter(colo) == AllowedColos = {} \/ colo \in AllowedColos

\* Mutant: results are told apart by their prefix as well.
ConsiderByPrefix(t, r) ==
  LET same == {x \in t : x.net = r.net /\ x.prefix = r.prefix}
      worst == {x \in t : \A y \in t : y.ms <= x.ms}
  IN  IF same # {} THEN {IF \E x \in same : r.ms < x.ms THEN (t \ same) \cup {r} ELSE t}
      ELSE IF Cardinality(t) < limit THEN {t \cup {r}}
      ELSE IF \E x \in worst : r.ms < x.ms THEN {(t \ {x}) \cup {r} : x \in worst}
      ELSE {t}

\* The collector: one result per network, the better one; a new network
\* enters a full list only in place of the (or a) worst one.  Any list this
\* may leave.
Consider(t, r) ==
  LET same == {x \in t : x.net = r.net}
      worst == {x \in t : \A y \in t : y.ms <= x.ms}
  IN  IF same # {} THEN {IF \E x \in same : r.ms < x.ms THEN (t \ same) \cup {r} ELSE t}
      ELSE IF Cardinality(t) < limit THEN {t \cup {r}}
      ELSE IF \E x \in worst : r.ms < x.ms THEN {(t \ {x}) \cup {r} : x \in worst}
      ELSE {t}

\* Prefixes of results within half of the best latency.
ExploitationPrefixes ==
  {x.prefix : x \in {y \in top : \A z \in top : 2 * y.ms <= 3 * z.ms}}

-----------------------------------------------------------------------------
(* The main goroutine. *)

Init ==
  /\ pc = "start" /\ failed = FALSE /\ limit = 0 /\ budget = 0
  /\ tasks = <<>> /\ done = <<>> /\ worker = [w \in Workers |-> <<"idle">>]
  /\ submitted = 0 /\ completed = 0
  /\ nodes = {} /\ split = {} /\ samples = <<>> /\ lastSplit = 0
  /\ focus = [h \in 0..Heads - 1 |-> NoFocus] /\ top = {} /\ cancelled = FALSE

\* Configures the engine and starts the workers; refuses an input whose roots
\* alone exceed the tree.
Start ==
  /\ pc = "start"
  /\ \E cidrs \in Inputs, lim \in Limits, override \in Overrides :
       /\ limit' = lim
       /\ budget' = SamplingBudget(override, lim, cidrs)
       /\ IF cidrs = {} \/ Cardinality(cidrs) > MaxNodes
          THEN pc' = "over" /\ failed' = TRUE /\ UNCHANGED <<nodes, samples>>
          ELSE /\ pc' = "fill" /\ nodes' = cidrs /\ samples' = [p \in cidrs |-> 0]
               /\ UNCHANGED failed
  /\ UNCHANGED <<tasks, done, worker, submitted, completed, split, lastSplit,
                 focus, top, cancelled>>

\* Hands out one task for the head whose turn it is; fails if the context
\* ended, and then or now may win when both are possible.
SubmitOneTask ==
  LET h == submitted % Heads
  IN  \/ /\ Len(tasks) < Capacity
         /\ \E p \in nodes :
              /\ \/ p \in Leaves /\ focus' = [focus EXCEPT ![h] = p]
                 \/ completed > Explore /\ p \in ExploitationPrefixes /\ UNCHANGED focus
              /\ \E n \in Drawn(p) : tasks' = Append(tasks, [prefix |-> p, net |-> n])
         /\ submitted' = submitted + 1
      \/ cancelled /\ UNCHANGED <<tasks, focus, submitted>>

\* Mutant: the first batch fills the channel whatever the budget.
FillAll ==
  /\ pc = "fill"
  /\ IF submitted < Capacity
     THEN SubmitOneTask /\ pc' = IF submitted' = submitted THEN "close" ELSE pc
     ELSE pc' = "loop" /\ UNCHANGED <<tasks, focus, submitted>>
  /\ UNCHANGED <<failed, limit, budget, done, worker, completed, tree, top, cancelled>>

\* The first batch: as many tasks as the channel holds, or the budget.
Fill ==
  /\ pc = "fill"
  /\ IF submitted < Min({Capacity, budget})
     THEN SubmitOneTask /\ pc' = IF submitted' = submitted THEN "close" ELSE pc
     ELSE pc' = "loop" /\ UNCHANGED <<tasks, focus, submitted>>
  /\ UNCHANGED <<failed, limit, budget, done, worker, completed, tree, top, cancelled>>

\* A result enters the list if it is good and passes the filter.
TopAfter(d) ==
  IF d.result.ok /\ PassesColoFilter(d.result.colo)
  THEN Consider(top, [net |-> d.task.net, prefix |-> d.task.prefix,
                      ms |-> d.result.ms, colo |-> d.result.colo])
  ELSE {top}

\* Mutant: a failed probe is no sample.
SamplesAfterGood(d) == [samples EXCEPT ![d.task.prefix] = @ + IF d.result.ok THEN 1 ELSE 0]

\* Every result, good or not, is a sample of the prefix it was drawn from.
SamplesAfter(d) == [samples EXCEPT ![d.task.prefix] = @ + 1]

\* Mutant: only a good result is replaced.
LoopGood ==
  /\ pc = "loop" /\ completed < budget /\ done # <<>>
  /\ done' = Tail(done) /\ completed' = completed + 1
  /\ top' \in TopAfter(Head(done))
  /\ LET t == [nodes |-> nodes, split |-> split, samples |-> SamplesAfter(Head(done)), n |-> 0]
     IN  IF completed' - lastSplit >= SplitInterval
         THEN /\ lastSplit' = completed'
              /\ \E order \in SplitCandidates(t) :
                   LET u == TrySplit(t, order)
                   IN  /\ nodes' = u.nodes /\ split' = u.split /\ samples' = u.samples
                       /\ focus' \in RebalanceHeads(focus, u.nodes \ u.split)
         ELSE samples' = t.samples /\ UNCHANGED <<nodes, split, lastSplit, focus>>
  /\ pc' = IF submitted < budget /\ Head(done).result.ok THEN "submit" ELSE "loop"
  /\ UNCHANGED <<failed, limit, budget, tasks, worker, submitted, cancelled>>

\* One turn of the event loop: a result, a round of splits when one is due,
\* and then a task in place of the one that ended while the budget lasts.
Loop ==
  /\ pc = "loop" /\ completed < budget /\ done # <<>>
  /\ done' = Tail(done) /\ completed' = completed + 1
  /\ top' \in TopAfter(Head(done))
  /\ LET t == [nodes |-> nodes, split |-> split, samples |-> SamplesAfter(Head(done)), n |-> 0]
     IN  IF completed' - lastSplit >= SplitInterval
         THEN /\ lastSplit' = completed'
              /\ \E order \in SplitCandidates(t) :
                   LET u == TrySplit(t, order)
                   IN  /\ nodes' = u.nodes /\ split' = u.split /\ samples' = u.samples
                       /\ focus' \in RebalanceHeads(focus, u.nodes \ u.split)
         ELSE samples' = t.samples /\ UNCHANGED <<nodes, split, lastSplit, focus>>
  /\ pc' = IF submitted < budget THEN "submit" ELSE "loop"
  /\ UNCHANGED <<failed, limit, budget, tasks, worker, submitted, cancelled>>

\* The replacement; that it failed is not an error of the search.
Replace ==
  /\ pc = "submit" /\ SubmitOneTask /\ pc' = "loop"
  /\ UNCHANGED <<failed, limit, budget, done, worker, completed, tree, top, cancelled>>

\* Mutant: the loop waits for results only.
LeaveLoopSpent ==
  /\ pc = "loop" /\ completed >= budget
  /\ pc' = "close"
  /\ UNCHANGED <<failed, limit, budget, tasks, done, worker, submitted, completed, tree,
                 focus, top, cancelled>>

\* The loop ends when the budget is spent, or the context is over; when a
\* result waits as well, either may be taken.
LeaveLoop ==
  /\ pc = "loop" /\ (completed >= budget \/ cancelled)
  /\ pc' = "close"
  /\ UNCHANGED <<failed, limit, budget, tasks, done, worker, submitted, completed, tree,
                 focus, top, cancelled>>

\* Closes the task channel (pc leaves "close"), waits for the workers.
Close ==
  /\ \/ pc = "close" /\ pc' = "wait"
     \/ pc = "wait" /\ (\A w \in Workers : worker[w] = <<"gone">>) /\ pc' = "drain"
  /\ UNCHANGED <<failed, limit, budget, tasks, done, worker, submitted, completed, tree,
                 focus, top, cancelled>>

\* Results that were still in the channel count for the tree and the list.
Drain ==
  /\ pc = "drain"
  /\ IF done = <<>> THEN pc' = "over" /\ UNCHANGED <<done, samples, top>>
     ELSE /\ done' = Tail(done) /\ top' \in TopAfter(Head(done))
          /\ samples' = SamplesAfter(Head(done)) /\ UNCHANGED pc
  /\ UNCHANGED <<failed, limit, budget, tasks, worker, submitted, completed, nodes, split,
                 lastSplit, focus, cancelled>>

-----------------------------------------------------------------------------
(* The workers and the context. *)

others == <<pc, failed, limit, budget, submitted, completed, tree, focus, top, cancelled>>

\* Takes a task; a request on a context that is over fails at once.
Take(w) ==
  /\ worker[w] = <<"idle">> /\ pc # "start" /\ tasks # <<>>
  /\ tasks' = Tail(tasks)
  /\ worker' = [worker EXCEPT ![w] =
                  IF cancelled THEN <<"send", [task |-> Head(tasks), result |-> Failure]>>
                  ELSE <<"probe", Head(tasks)>>]
  /\ UNCHANGED <<others, done>>

\* The rounds of one address.
Probe(w) ==
  /\ worker[w][1] = "probe"
  /\ \E rounds \in [1..Rounds -> Round] :
       worker' = [worker EXCEPT ![w] =
                   <<"send", [task |-> worker[w][2], result |-> Measured(rounds)]>>]
  /\ UNCHANGED <<others, tasks, done>>

\* Delivers the result, or drops it and leaves if the context is over.
Send(w) ==
  /\ worker[w][1] = "send"
  /\ \/ /\ Len(done) < Capacity /\ done' = Append(done, worker[w][2])
        /\ worker' = [worker EXCEPT ![w] = <<"idle">>]
     \/ cancelled /\ worker' = [worker EXCEPT ![w] = <<"gone">>] /\ UNCHANGED done
  /\ UNCHANGED <<others, tasks>>

\* Leaves when the channel is closed and empty.
Leave(w) ==
  /\ worker[w] = <<"idle">> /\ pc = "wait" /\ tasks = <<>>
  /\ worker' = [worker EXCEPT ![w] = <<"gone">>]
  /\ UNCHANGED <<others, tasks, done>>

\* The task is cancelled, or the five minutes are over.
Cancel ==
  /\ pc \in {"fill", "loop", "submit"} /\ ~cancelled /\ cancelled' = TRUE
  /\ UNCHANGED <<pc, failed, limit, budget, tasks, done, worker, submitted, completed, tree,
                 focus, top>>

Main == Start \/ Fill \/ Loop \/ Replace \/ LeaveLoop \/ Close \/ Drain

Work(w) == Take(w) \/ Probe(w) \/ Send(w) \/ Leave(w)

Terminated == pc = "over" /\ UNCHANGED vars

Next == Main \/ (\E w \in Workers : Work(w)) \/ Cancel \/ Terminated

Spec == Init /\ [][Next]_vars

\* Goroutines run, and a probe ends because each of its rounds has a timeout.
FairSpec == Spec /\ WF_vars(Main) /\ \A w \in Workers : WF_vars(Work(w))

-----------------------------------------------------------------------------
(* Properties. *)

\* The tree stays within its limit, the channels within their capacity and
\* the probes within the budget; the list holds what the configuration asks.
TypeOK ==
  /\ pc \in {"start", "fill", "loop", "submit", "close", "wait", "drain", "over"}
  /\ Cardinality(nodes) <= MaxNodes
  /\ split \subseteq nodes /\ DOMAIN samples = nodes
  /\ Len(tasks) <= Capacity /\ Len(done) <= Capacity
  /\ completed <= submitted /\ submitted <= budget
  /\ Cardinality(top) <= limit

\* While the loop has results to wait for, one is on its way: every probe
\* that is not counted yet is in a channel or with a worker, unless the
\* context is over (engine.go schedule: nothing else wakes the loop).
InFlight ==
  /\ pc = "loop" /\ ~cancelled /\ completed < budget => submitted > completed
  /\ ~cancelled => submitted - completed =
       Len(tasks) + Len(done) + Cardinality({w \in Workers : worker[w][1] \in {"probe", "send"}})

\* Splitting never puts a part of the input out of reach: every network of a
\* prefix of the tree lies under a leaf (tree.go SplitNode, at the node limit).
Covered ==
  \A p \in split : \A n \in Networks(p) : \E q \in Leaves : n \in Networks(q)

\* The list never holds two results of one network, nor one the COLO filter
\* refuses, and a prefix in it is one the tree has counted results for.
TopIsSound ==
  \A x \in top :
    /\ AllowedColos # {} => x.colo \in AllowedColos
    /\ x.net \in Networks(x.prefix) /\ samples[x.prefix] > 0
    /\ \A y \in top : x.net = y.net => x = y

\* The budget is not larger than the number of distinct candidates the input
\* holds (source_mcis.go mcisSamplingBudget): what is asked can be drawn.
BudgetFits ==
  pc = "fill" => budget <= Cardinality(UNION {Networks(p) : p \in nodes})

\* When the search ends on its own, each probe it paid for is a sample of the
\* tree; a cancel loses at most those that were not received.
Accounted ==
  LET total == MapThenSumSet(LAMBDA p : samples[p], nodes)
  IN  pc = "over" /\ ~failed =>
        /\ ~cancelled => total = budget
        /\ total <= submitted /\ total >= completed

\* The search ends, cancelled or not (engine.go Run waits for all workers).
Terminates == <>(pc = "over")

\* "MaxBitsV4 is the maximum prefix length for IPv4 drill-down"
\* (mcis/engine/config.go:45): no prefix made by a split is longer.
\* Documented and not kept by the code; see the README.
DepthBound == \A p \in split : \A q \in SplitPrefix(p) : Len(q) <= MaxBits

\* "0 = identical, larger = more different" (mcis/bandit/head.go:306): a
\* leaf at distance 0 of what another head explores is that prefix.
\* Documented and not kept by the code; see the README.
ZeroIsIdentical ==
  \A p \in Leaves : \A h \in 0..Heads - 1 :
    focus[h] # NoFocus /\ PrefixDistance(p, focus[h]) = 0 => p = focus[h]

\* The invariants above together.
Safety ==
    /\ TypeOK /\ InFlight /\ Covered /\ TopIsSound /\ BudgetFits
    /\ Accounted
=============================================================================
