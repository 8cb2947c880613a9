---------------------------- MODULE StageWorkflow ----------------------------
(***************************************************************************)
(* The workflow of one probe after its sources are prepared: the port      *)
(* groups (ports.go), for each of them the stages of RunProbeStages with   *)
(* the orders and limits between them, and the combination, the final      *)
(* limit and the export of RunProbeWorkflow (workflow.go, result.go,       *)
(* utils/csv.go).  What a stage measures is any value; how it is measured  *)
(* is the subject of other modules.                                        *)
(***************************************************************************)
EXTENDS Naturals, FiniteSets, Sequences, SequencesExt

CONSTANTS
    IPs, Global, Declared,  \* addresses; the global port, a port a source declares
    Delays, Heads, Speeds,  \* values measured; a head delay or a speed of 0 is none
    MaxDelay, KeepLost,     \* the limit of the latency filter; the loss filter is open
    Candidates,             \* addresses MCIS has measured already
    Stage2Limit, Stage3Limit, PrintNum

WorkflowAssumption ==
    /\ Global # Declared /\ Candidates \subseteq IPs
    /\ Delays \subseteq Nat \ {0} /\ Heads \subseteq Nat /\ Speeds \subseteq Nat /\ MaxDelay \in Nat /\ KeepLost \in BOOLEAN
    /\ Stage2Limit \in Nat /\ Stage3Limit \in Nat /\ PrintNum \in Nat

VARIABLES
    ports,      \* prepared.SourcePorts: the addresses that declare the port
    cancelled,  \* Cancel was accepted
    group,      \* port of the running group, groups still to come follow in order
    stage,      \* "tcp", "trace", "download", "limit", "group", "combine", "export", "end"
    measured,   \* what stage 1 measured, in the order it goes into the filters
    pool, rows, \* what the last stage returned; what is left of it after order and limit
    total,      \* Summary.Total over the groups
    combined,   \* combinedRaw
    outcome, results

vars == <<ports, cancelled, group, stage, measured, pool, rows, total, combined, outcome, results>>

----------------------------------------------------------------------------
(* Ports: PortGroups and TaskContextForPorts under source_override_global. *)
PortOf(ip) == IF ip \in ports THEN Declared ELSE Global
Ports == {PortOf(ip) : ip \in IPs}
\* slices.Sort: the global port stands for the lower one.
FirstPort == IF Global \in Ports THEN Global ELSE Declared
Members(port) == {ip \in IPs : PortOf(ip) = port}

\* GroupedPorts: computed from the declared ports alone, and the map of them
\* holds no address without one (PrunePortsToEntries), so that none is missing
\* unless the map is empty.
HasUnspecified == ports = {}
GroupedPorts == IF ports = {} THEN {Global} ELSE {Declared} \cup (IF HasUnspecified THEN {Global} ELSE {})

----------------------------------------------------------------------------
(* Orders and limits.                                                      *)
Row(ip, delay, lost) == [ip |-> ip, delay |-> delay, lost |-> lost, head |-> 0, speed |-> 0, port |-> 0]
\* Mutant: the limit is exceeded by one
LimitedMore(s, limit) == IF limit > 0 /\ Len(s) > limit THEN SubSeq(s, 1, limit + 1) ELSE s

Limited(s, limit) == IF limit > 0 /\ Len(s) > limit THEN SubSeq(s, 1, limit) ELSE s

\* slices.SortStableFunc: ties keep their order.
Stable(s, Before(_, _)) ==
    LET rank(i) == Cardinality({j \in DOMAIN s : Before(s[j], s[i]) \/ (~Before(s[i], s[j]) /\ j < i)})
    IN [k \in DOMAIN s |-> s[CHOOSE i \in DOMAIN s : rank(i) = k - 1]]
ByDelay(a, b) == a.delay < b.delay
ByHead(a, b) == \/ a.head > 0 /\ b.head = 0
                \/ a.head > 0 /\ b.head > 0 /\ a.head < b.head
\* sort.Sort is not stable: any order of the set that the comparison allows.
Sorted(set, Before(_, _)) == {s \in SetToSeqs(set) : \A i, j \in DOMAIN s : i < j => ~Before(s[j], s[i])}
ByLoss(a, b) == (~a.lost /\ b.lost) \/ (a.lost = b.lost /\ a.delay < b.delay)
BySpeed(a, b) == a.speed > b.speed

\* FilterPingDelay stops at the first row above the limit; FilterPingLossRate
\* then drops what has lost too much.
FilterPingResults(s) ==
    LET over == {i \in DOMAIN s : s[i].delay > MaxDelay}
        kept == IF over = {} THEN s ELSE SubSeq(s, 1, (CHOOSE i \in over : \A j \in over : i <= j) - 1)
    IN SelectSeq(kept, LAMBDA r : r.lost => KeepLost)

Lowest(S) == CHOOSE x \in S : \A y \in S : x <= y
Highest(S) == CHOOSE x \in S : \A y \in S : y <= x
\* Mutant: the speed counts from the wrong end of its span
ScoreReversed(row, all) ==
    LET d == {all[i].delay : i \in DOMAIN all}
        v == {all[i].speed : i \in DOMAIN all}
    IN 3 * (Highest(d) - row.delay) + 7 * (Highest(v) - row.speed)

\* SelectTopWeightedResultsByMetric, LimitFinalProbeResults: 30 % latency and
\* 70 % speed, each scaled to the span of all rows.  Over the common denominator
\* of the two spans the scores are integers.
Score(row, all) ==
    LET d == {all[i].delay : i \in DOMAIN all}
        v == {all[i].speed : i \in DOMAIN all}
        dspan == Highest(d) - Lowest(d)
        vspan == Highest(v) - Lowest(v)
        unit == (IF dspan > 0 THEN dspan ELSE 1) * (IF vspan > 0 THEN vspan ELSE 1)
    IN 3 * (IF dspan > 0 THEN (Highest(d) - row.delay) * (unit \div dspan) ELSE unit)
       + 7 * (IF vspan > 0 THEN (row.speed - Lowest(v)) * (unit \div vspan)
              ELSE IF Highest(v) > 0 THEN unit ELSE 0)
Better(all, a, b) ==
    LET x == Score(a, all) y == Score(b, all) IN
    \/ x > y
    \/ x = y /\ (a.speed > b.speed \/ (a.speed = b.speed /\ (a.delay < b.delay
                 \/ (a.delay = b.delay /\ ~a.lost /\ b.lost))))
Final(s) ==
    IF PrintNum = 0 \/ Len(s) <= 1 THEN s
    ELSE LET before(a, b) == Better(s, a, b) IN Limited(Stable(s, before), PrintNum)

----------------------------------------------------------------------------
TypeOK ==
    /\ ports \subseteq IPs /\ group \in {Global, Declared}
    /\ stage \in {"tcp", "trace", "download", "limit", "group", "combine", "export", "end"}
    /\ Len(rows) <= Cardinality(IPs) /\ Len(combined) <= Cardinality(IPs)
    /\ PrintNum > 0 => Len(results) <= PrintNum
    /\ total \in 0..Cardinality(IPs)
    /\ outcome \in {"running", "completed", "cancelled", "failed"}

Init ==
    /\ ports \in SUBSET IPs
    /\ cancelled = FALSE /\ group = FirstPort /\ stage = "tcp"
    /\ measured = <<>> /\ pool = <<>> /\ rows = <<>> /\ total = 0 /\ combined = <<>>
    /\ outcome = "running" /\ results = <<>>

Multi == Cardinality(Ports) > 1
Finish(o, r) == stage' = "end" /\ outcome' = o /\ results' = r
\* AfterStage: a cancel ends the group, and with it the workflow.
\* Mutant: the groups that were ready are handed out when a later one is cancelled
AfterCombined(next) ==
    IF cancelled THEN Finish("cancelled", combined)
    ELSE stage' = next /\ UNCHANGED <<outcome, results>>

After(next) ==
    IF cancelled THEN Finish("cancelled", <<>>)
    ELSE stage' = next /\ UNCHANGED <<outcome, results>>

Cancel ==
    /\ stage # "end" /\ ~cancelled /\ cancelled' = TRUE
    /\ UNCHANGED <<ports, group, stage, measured, pool, rows, total, combined, outcome, results>>

\* Stage 1: what the workers found, then what MCIS measured on the default port.
Reused == IF group = Global THEN Members(group) \cap Candidates ELSE {}
Tcp ==
    /\ stage = "tcp"
    /\ \E found \in SUBSET (Members(group) \ Reused) :
       \E m \in [found \cup Reused -> Delays \X BOOLEAN] :
       \E fresh \in Sorted({Row(ip, m[ip][1], m[ip][2]) : ip \in found}, ByLoss),
          kept \in SetToSeqs(Reused) :
          LET old == [i \in DOMAIN kept |-> Row(kept[i], m[kept[i]][1], m[kept[i]][2])]
              all == (IF Reused = {} THEN fresh ELSE FilterPingResults(fresh)) \o old
              out == FilterPingResults(all)
          IN /\ measured' = all /\ pool' = out
             /\ rows' = IF out = <<>> THEN <<>> ELSE Limited(Stable(out, ByDelay), Stage2Limit)
             /\ After(IF out = <<>> THEN "group" ELSE "trace")
             /\ total' = IF out = <<>> /\ ~cancelled THEN total + Cardinality(Members(group)) ELSE total
    /\ UNCHANGED <<ports, cancelled, group, combined>>

TcpFails ==
    /\ stage = "tcp" /\ Finish("failed", <<>>)
    /\ UNCHANGED <<ports, cancelled, group, measured, pool, rows, total, combined>>

\* Mutant: the rows with no head delay come first
TraceLimitRaw(out) == Limited(Stable(out, LAMBDA a, b : a.head < b.head), Stage3Limit)

TraceLimit(out) == Limited(Stable(out, ByHead), Stage3Limit)

Trace ==
    /\ stage = "trace"
    /\ \E passed \in SUBSET DOMAIN rows : \E h \in [passed -> Heads] :
          LET out == [k \in 1..Cardinality(passed) |->
                        LET i == SetToSortSeq(passed, <)[k] IN [rows[i] EXCEPT !.head = h[i]]]
          IN /\ pool' = out
             /\ rows' = IF out = <<>> THEN <<>> ELSE TraceLimit(out)
             /\ After(IF out = <<>> THEN "group" ELSE "download")
             /\ total' = IF out = <<>> /\ ~cancelled THEN total + Cardinality(Members(group)) ELSE total
    /\ UNCHANGED <<ports, cancelled, group, measured, combined>>

\* Mutant: only the last group is counted
DownloadLast ==
    /\ stage = "download"
    /\ \E passed \in SUBSET DOMAIN rows : \E v \in [passed -> Speeds] :
       \E out \in Sorted({[rows[i] EXCEPT !.speed = v[i], !.port = group] : i \in passed}, BySpeed) :
          /\ pool' = out /\ rows' = out
          /\ After("limit")
          /\ total' = IF cancelled THEN total ELSE Len(rows)
    /\ UNCHANGED <<ports, cancelled, group, measured, combined>>

Download ==
    /\ stage = "download"
    /\ \E passed \in SUBSET DOMAIN rows : \E v \in [passed -> Speeds] :
       \E out \in Sorted({[rows[i] EXCEPT !.speed = v[i], !.port = group] : i \in passed}, BySpeed) :
          /\ pool' = out /\ rows' = out
          /\ After("limit")
          /\ total' = IF cancelled THEN total ELSE total + Len(rows)
    /\ UNCHANGED <<ports, cancelled, group, measured, combined>>

\* The group returns its rows; a single group is limited here.
Limit ==
    /\ stage = "limit"
    /\ rows' = IF Multi THEN rows ELSE Final(rows)
    /\ stage' = "group"
    /\ UNCHANGED <<ports, cancelled, group, measured, pool, total, combined, outcome, results>>

NextGroup ==
    /\ stage = "group"
    /\ IF cancelled THEN Finish("cancelled", <<>>) /\ UNCHANGED <<group, rows, combined>>
       ELSE /\ combined' = combined \o rows /\ rows' = <<>>
            /\ IF group = FirstPort /\ Multi THEN group' = Declared /\ stage' = "tcp"
               ELSE stage' = "combine" /\ UNCHANGED group
            /\ UNCHANGED <<outcome, results>>
    /\ UNCHANGED <<ports, cancelled, measured, pool, total>>

Combine ==
    /\ stage = "combine"
    /\ rows' = IF Multi THEN Final(combined) ELSE combined
    /\ stage' = "export"
    /\ UNCHANGED <<ports, cancelled, group, measured, pool, total, combined, outcome, results>>

\* A failed write is a warning; a cancel is an error for a single group and a
\* warning for several, whose run executeProbe then ends itself.
Export ==
    /\ stage = "export"
    /\ IF cancelled THEN Finish("cancelled", <<>>) ELSE Finish("completed", rows)
    /\ UNCHANGED <<ports, cancelled, group, measured, pool, rows, total, combined>>

Next == Cancel \/ Tcp \/ TcpFails \/ Trace \/ Download \/ Limit \/ NextGroup \/ Combine \/ Export
Spec == Init /\ [][Next]_vars
-----------------------------------------------------------------------------
Has(s, ip) == \E i \in DOMAIN s : s[i].ip = ip
(* The limits between the stages keep the best: no row that stage 2 or 3    *)
(* leaves out was faster than one it goes on with, and one without a trace  *)
(* delay goes before one that has it (stage_workflow.go:295-333).           *)
LimitsKeepBest ==
    /\ stage = "trace" => \A i \in DOMAIN rows, j \in DOMAIN pool :
                             ~Has(rows, pool[j].ip) => rows[i].delay <= pool[j].delay
    /\ stage = "download" => \A i \in DOMAIN rows, j \in DOMAIN pool :
                             ~Has(rows, pool[j].ip) /\ pool[j].head > 0 => rows[i].head > 0 /\ rows[i].head <= pool[j].head

(* The final limit never prefers a row that another beats in latency and in *)
(* speed, whatever the groups they come from (csv.go:286-371,               *)
(* result.go:101-184).                                                      *)
NothingDominated ==
    stage = "export" => \A i \in DOMAIN rows, j \in DOMAIN combined :
        Multi /\ ~Has(rows, combined[j].ip) => ~(combined[j].delay < rows[i].delay /\ combined[j].speed > rows[i].speed)

(* "a cancelled or failed group exports nothing of the groups before it"    *)
(* (docs/reference/limits-and-code-location.md:25), and what is handed out  *)
(* was measured on the port its source asks for.                            *)
AllGroupsOrNone ==
    /\ outcome \in {"cancelled", "failed"} => results = <<>>
    /\ \A i \in DOMAIN results : results[i].port = PortOf(results[i].ip)

(* The summary adds up over the groups: no group ends with more passed than *)
(* it counted, and every group that ran is counted (workflow.go:164-166).   *)
SummaryAddsUp == stage = "combine" => Len(combined) <= total /\ total >= Cardinality(Ports)

(* "a row above the limit: none of the later ones can qualify, leave the    *)
(* loop" (csv.go:387): no row within the limit is lost to that.             *)
\* Documented and not kept by the code; see the README.
FilterLosesNothing ==
    stage = "trace" => \A i \in DOMAIN measured : measured[i].delay <= MaxDelay /\ (measured[i].lost => KeepLost) => Has(pool, measured[i].ip)

(* "the sources name addresses without a port as well as %v, they run by    *)
(* port group" (ports.go:56): the task context lists the ports of the       *)
(* groups.                                                                  *)
\* Documented and not kept by the code; see the README.
ContextNamesTheGroups == GroupedPorts = Ports

\* The invariants above together.
Safety ==
    /\ TypeOK /\ LimitsKeepBest /\ NothingDominated /\ AllGroupsOrNone
    /\ SummaryAddsUp
=============================================================================
