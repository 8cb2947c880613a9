------------------------------ MODULE DNSPush -------------------------------
(***************************************************************************)
(* The push of results to Cloudflare DNS: the selection of the rows, the   *)
(* targets (the configured name and the routing rules), and the calls that *)
(* bring the records of each target's name to the selected addresses.      *)
(*                                                                         *)
(* The zone is Cloudflare's.  It holds no record twice and no CNAME beside *)
(* an address.  Any call may be refused, may be carried out although its   *)
(* answer is lost, and is refused once the minute of the push is over.     *)
(* Several pushes follow each other, as a user or the scheduler retries.   *)
(*                                                                         *)
(* Rows come in the order of the score, one order for every selection of   *)
(* them.  A row has its address, the data centres it may be in and whether *)
(* it passes the numeric limits.                                           *)
(***************************************************************************)
EXTENDS Naturals, FiniteSets, Sequences, SequencesExt

CONSTANTS
    Rows,       \* the results, a sequence of [ip, v6, colos, good]
    Confs,      \* configurations of a push
    Zones,      \* the zone before the first push, a set of records each
    Colos,      \* the data centres that tokens may name
    None,
    MaxPushes,  \* bound: pushes
    MaxFaults   \* bound: calls refused or answers lost, and expiries

Types == {"A", "AAAA", "ALL"}
RowSet == ToSet(Rows)

\* A configuration: the primary name or None, its record type and limit, the
\* shared filter and the routing rules that are enabled.
ConfsAssumption ==
    /\ \A c \in Confs :
         /\ c.type \in Types /\ c.top \in Nat
         /\ c.shared.version \in {"any", "ipv4", "ipv6"}
         /\ \A i \in 1 .. Len(c.rules) :
              /\ c.rules[i].type \in Types /\ c.rules[i].top \in Nat
              /\ c.rules[i].mode \in {"allow", "deny"}
    /\ MaxPushes \in Nat /\ MaxFaults \in Nat

VARIABLES
    zone,       \* the records at Cloudflare
    push,       \* the push under way
    pushes, faults,
    listed      \* history variable: the records the target began with

vars == <<zone, push, pushes, faults, listed>>

-----------------------------------------------------------------------------
(* The selection.                                                          *)

\* ResolveTokensToColos.
Resolved(tokens) == tokens \cap Colos

MatchesVersion(r, version) ==
    version = "any" \/ (version = "ipv6") = r.v6

\* uploadRowMatchesSharedFilter.
MatchesShared(r, s) ==
    /\ MatchesVersion(r, s.version)
    /\ r.colos \cap Resolved(s.deny) = {}
    /\ s.allow # {} => r.colos \cap Resolved(s.allow) # {}
    /\ r.good

Filtered(c) ==
    IF c.shared.on THEN SelectSeq(Rows, LAMBDA r : MatchesShared(r, c.shared))
                   ELSE Rows

\* Mutant: one row too many is taken.
LimitedOneMore(rows, top) ==
    IF top = 0 THEN rows ELSE SubSeq(rows, 1, IF top < Len(rows) THEN top + 1
                                              ELSE Len(rows))

\* limitUploadRows.
Limited(rows, top) ==
    IF top = 0 THEN rows ELSE SubSeq(rows, 1, IF top < Len(rows) THEN top
                                              ELSE Len(rows))

\* Mutant: a rule that denies keeps what it names.
MatchesRuleEither(r, rule) ==
    \/ rule.tokens = {}
    \/ Resolved(rule.tokens) # {} /\ r.colos \cap Resolved(rule.tokens) # {}

\* filterUploadRowsForCloudflareRoute; a rule whose words all fail to match
\* selects nothing, whatever its mode.
MatchesRule(r, rule) ==
    \/ rule.tokens = {}
    \/ /\ Resolved(rule.tokens) # {}
       /\ (rule.mode = "allow")
            = (r.colos \cap Resolved(rule.tokens) # {})

\* FilterRowsForCloudflareRecordType.
OfType(rows, type) ==
    SelectSeq(rows, LAMBDA r : type = "ALL" \/ (type = "AAAA") = r.v6)

\* A target: its name and the rows to push there.
Primary(c) ==
    IF c.name = None THEN <<>>
    ELSE <<[name |-> c.name,
            rows |-> OfType(Limited(Filtered(c), c.top), c.type)]>>

\* BuildCloudflareRouteSelections.
Route(c, rule) ==
    LET rows == SelectSeq(Filtered(c), LAMBDA r : MatchesRule(r, rule))
    IN  [name |-> rule.name,
         rows |-> IF rule.name = None THEN <<>>
                  ELSE OfType(Limited(rows, rule.top), rule.type)]

Targets(c) ==
    Primary(c) \o [i \in 1 .. Len(c.rules) |-> Route(c, c.rules[i])]

-----------------------------------------------------------------------------
(* The plan for one name.                                                  *)

Kind(r) == IF r.v6 THEN "AAAA" ELSE "A"

\* desiredRecord.
Desired(name, r) ==
    [name |-> name, type |-> Kind(r), content |-> r.ip, mine |-> TRUE]

At(name) == {x \in zone : x.name = name}
Cnames(name) == {x \in At(name) : x.type = "CNAME"}
Addresses(name) == At(name) \ Cnames(name)
Key(x) == <<x.name, x.type, x.content>>
Keys(s) == {Key(x) : x \in s}

\* What is to be there, A before AAAA.
Wanted(t) ==
    LET all == [i \in 1 .. Len(t.rows) |-> Desired(t.name, t.rows[i])]
    IN  SelectSeq(all, LAMBDA x : x.type = "A")
          \o SelectSeq(all, LAMBDA x : x.type = "AAAA")

\* The creations and updates of reconcileAddressRecords.
Changes(t) ==
    LET todo == SelectSeq(Wanted(t), LAMBDA x : x \notin zone)
    IN  [i \in 1 .. Len(todo) |->
           [op |-> IF Key(todo[i]) \in Keys(zone) THEN "update" ELSE "create",
            rec |-> todo[i]]]

\* Mutant: the records that are not wanted are deleted first.
PlanDeletesFirst(t) ==
    SetToSeq({[op |-> "delete", rec |-> x] :
                x \in {y \in Addresses(t.name) :
                         Key(y) \notin Keys(ToSet(Wanted(t)))}}) \o Changes(t)

\* Mutant: the obsolete records go after the first change.
PlanDeletesEarly(t) ==
    LET all == Changes(t)
        gone == SetToSeq({x \in Addresses(t.name) :
                            Key(x) \notin Keys(ToSet(Wanted(t)))})
    IN  IF all = <<>> THEN <<>>
        ELSE <<all[1]>>
               \o [i \in 1 .. Len(gone) |-> [op |-> "delete", rec |-> gone[i]]]
               \o Tail(all)

\* What is done in order before the obsolete records are deleted.
Plan(t) ==
    IF Cnames(t.name) = {} THEN Changes(t)
    ELSE LET gone == SetToSeq(Cnames(t.name))
             all == Wanted(t)
         IN  [i \in 1 .. Len(gone) |-> [op |-> "delete", rec |-> gone[i]]]
               \o [i \in 1 .. Len(all) |-> [op |-> "create", rec |-> all[i]]]

\* Mutant: records of the other family are left alone.
ObsoleteOfFamily(t) ==
    {x \in Addresses(t.name) : /\ Key(x) \notin Keys(ToSet(Wanted(t)))
                               /\ \E i \in 1 .. Len(t.rows) :
                                    x.type = Kind(t.rows[i])}

\* The address records of the name that are not wanted.
Obsolete(t) ==
    IF Cnames(t.name) # {} THEN {}
    ELSE {x \in Addresses(t.name) : Key(x) \notin Keys(ToSet(Wanted(t)))}

-----------------------------------------------------------------------------
(* The push.                                                               *)

Idle == [pc |-> "idle", left |-> <<>>, todo |-> <<>>, obs |-> {},
         cnames |-> <<>>, expired |-> FALSE, done |-> <<>>, report |-> "none",
         conf |-> None]

Statuses == {"ok", "skipped", "failed"}
Reports == {"none", "completed", "partial", "failed", "empty"}
TopOf(c, name) ==
    IF name = c.name THEN c.top
    ELSE c.rules[CHOOSE i \in 1 .. Len(c.rules) : c.rules[i].name = name].top
Budget == Len(Rows) + Cardinality(UNION Zones)

TypeOK ==
    /\ push.pc \in {"idle", "next", "list", "work", "delete", "restore"}
    /\ push.report \in Reports
    /\ Len(push.todo) <= Budget
    /\ \A i \in 1 .. Len(push.done) : push.done[i].status \in Statuses
    /\ \A i \in 1 .. Len(push.left) :
         LET top == TopOf(push.conf, push.left[i].name)
         IN  top # 0 => Len(push.left[i].rows) <= top
    /\ pushes \in 0 .. MaxPushes /\ faults \in 0 .. MaxFaults
    /\ \A x \in zone : /\ x.type \in {"A", "AAAA", "CNAME"}
                       /\ x.mine \in BOOLEAN
                       /\ x.type = "CNAME" => Addresses(x.name) = {}
    /\ Cardinality(Keys(zone)) = Cardinality(zone)

Init ==
    /\ zone \in Zones
    /\ push = Idle
    /\ pushes = 0 /\ faults = 0
    /\ listed = {}

\* Any command, the end of a probe or of a scheduled run.
Begin(c) ==
    /\ push.pc = "idle" /\ pushes < MaxPushes
    /\ pushes' = pushes + 1
    /\ push' = [Idle EXCEPT !.pc = "next", !.left = Targets(c), !.conf = c]
    /\ UNCHANGED <<zone, faults, listed>>

\* The target at hand has ended.
Ended(status) ==
    [push EXCEPT !.pc = "next", !.left = Tail(@), !.todo = <<>>, !.obs = {},
                 !.cnames = <<>>,
                 !.done = Append(@, [target |-> Head(push.left),
                                     status |-> status])]

Skip ==
    /\ push.pc = "next" /\ push.left # <<>>
    /\ push' = IF Head(push.left).rows = <<>> THEN Ended("skipped")
               ELSE [push EXCEPT !.pc = "list"]
    /\ UNCHANGED <<zone, pushes, faults, listed>>

Count(status) ==
    Len(SelectSeq(push.done, LAMBDA d : d.status = status))

\* What the command answers.
Report ==
    CASE Count("ok") > 0 /\ Count("failed") > 0 -> "partial"
      [] Count("ok") > 0                        -> "completed"
      [] Count("failed") > 0                    -> "failed"
      [] OTHER                                  -> "empty"

Finish ==
    /\ push.pc = "next" /\ push.left = <<>>
    /\ push' = [push EXCEPT !.pc = "idle", !.report = Report]
    /\ UNCHANGED <<zone, pushes, faults, listed>>

\* A call is refused or its answer is lost.
Fault == faults < MaxFaults /\ faults' = faults + 1

\* The minute is over: from now on calls are refused.
Expire ==
    /\ push.pc \in {"list", "work", "delete"} /\ ~push.expired
    /\ Fault
    /\ push' = [push EXCEPT !.expired = TRUE]
    /\ UNCHANGED <<zone, pushes, listed>>

List ==
    /\ push.pc = "list"
    /\ LET t == Head(push.left)
       IN  \/ /\ ~push.expired
              /\ push' = [push EXCEPT !.pc = "work", !.todo = Plan(t),
                                      !.obs = Obsolete(t),
                                      !.cnames = SetToSeq(Cnames(t.name))]
              /\ listed' = At(t.name)
              /\ UNCHANGED faults
           \/ /\ IF push.expired THEN UNCHANGED faults ELSE Fault
              /\ push' = Ended("failed")
              /\ UNCHANGED listed
    /\ UNCHANGED <<zone, pushes>>

\* What Cloudflare does with a call.
Accepts(c) ==
    CASE c.op = "create" ->
           /\ Key(c.rec) \notin Keys(zone)
           /\ IF c.rec.type = "CNAME" THEN At(c.rec.name) = {}
                                      ELSE Cnames(c.rec.name) = {}
      [] OTHER -> Key(c.rec) \in Keys(zone)
Applied(c) ==
    LET rest == {x \in zone : Key(x) # Key(c.rec)}
    IN  IF c.op = "delete" THEN rest ELSE rest \cup {c.rec}

\* The three ways a call ends: carried out, refused, carried out unheard.
Answered(c) ==
    ~push.expired /\ Accepts(c) /\ zone' = Applied(c) /\ UNCHANGED faults
Refused(c) ==
    /\ UNCHANGED zone
    /\ IF push.expired \/ ~Accepts(c) THEN UNCHANGED faults ELSE Fault
Unheard(c) == ~push.expired /\ Accepts(c) /\ Fault /\ zone' = Applied(c)

\* A creation that fails after the CNAME was deleted brings it back.
AfterFailure(c) ==
    IF c.op = "create" /\ push.cnames # <<>>
    THEN [push EXCEPT !.pc = "restore", !.todo = <<>>]
    ELSE Ended("failed")

Work ==
    /\ push.pc = "work" /\ push.todo # <<>>
    /\ LET c == Head(push.todo)
       IN  \/ Answered(c) /\ push' = [push EXCEPT !.todo = Tail(@)]
           \/ (Refused(c) \/ Unheard(c)) /\ push' = AfterFailure(c)
    /\ UNCHANGED <<pushes, listed>>

\* The obsolete records go one by one, the last step of a target.
Delete ==
    /\ push.pc = "work" /\ push.todo = <<>> /\ push.obs # {}
    /\ \E x \in push.obs :
         LET c == [op |-> "delete", rec |-> x]
         IN  \/ Answered(c) /\ push' = [push EXCEPT !.obs = @ \ {x}]
             \/ (Refused(c) \/ Unheard(c)) /\ push' = Ended("failed")
    /\ UNCHANGED <<pushes, listed>>

\* The records are listed once more; a failure of that is only a warning.
Succeed ==
    /\ push.pc = "work" /\ push.todo = <<>> /\ push.obs = {}
    /\ push' = Ended("ok")
    /\ UNCHANGED <<zone, pushes, faults, listed>>

\* The CNAME is created again, under a context that does not expire.
Restore ==
    /\ push.pc = "restore"
    /\ IF push.cnames = <<>>
       THEN push' = Ended("failed") /\ UNCHANGED <<zone, faults>>
       ELSE LET c == [op |-> "create", rec |-> Head(push.cnames)]
            IN  /\ push' = [push EXCEPT !.cnames = Tail(@)]
                /\ \/ /\ Accepts(c)
                      /\ zone' = Applied(c)
                      /\ UNCHANGED faults
                   \/ /\ IF Accepts(c) THEN Fault ELSE UNCHANGED faults
                      /\ UNCHANGED zone
    /\ UNCHANGED <<pushes, listed>>

Next ==
    \/ \E c \in Confs : Begin(c)
    \/ Skip \/ Finish \/ Expire \/ List \/ Work \/ Delete \/ Succeed
    \/ Restore

Spec == Init /\ [][Next]_vars

-----------------------------------------------------------------------------
(* Properties.                                                             *)

Busy == push.pc \in {"work", "restore"}
Target == Head(push.left)
IsAddress(x) == x.type # "CNAME"

\* A name that had an address when its records were listed has one until its
\* target ends, whatever calls fail and whenever the minute is over.
StaysResolvable ==
    Busy /\ (\E x \in listed : IsAddress(x)) => At(Target.name) # {}

\* A creation that fails leaves every address the name had in place.
CreateFailureKeeps ==
    [][/\ push.pc = "work" /\ push.todo # <<>>
       /\ Head(push.todo).op = "create" /\ push'.pc = "next"
       => Keys({x \in listed : IsAddress(x)}) \subseteq Keys(zone')]_vars

Names(ts) == {ts[i].target.name : i \in 1 .. Len(ts)}

\* When a push answers that it is complete and no two targets have the same
\* name, each name that was not skipped has exactly the wanted records, with
\* the wanted settings, whatever an earlier push that failed left behind.
CompletedMeansSynced ==
    push.report = "completed"
      /\ Cardinality(Names(push.done)) = Len(push.done)
    => \A i \in 1 .. Len(push.done) :
         LET d == push.done[i]
         IN  d.status # "skipped"
               => At(d.target.name) = ToSet(Wanted(d.target))

\* No push makes a record of an address the shared filter or the rule
\* denies.
DeniedStaysOut ==
    [][\A x \in zone' \ zone : IsAddress(x) =>
         LET c == push.conf
             rs == {r \in RowSet : r.ip = x.content}
         IN  \A r \in rs :
               /\ c.shared.on => r.colos \cap c.shared.deny = {}
               /\ \/ x.name = c.name
                  \/ \E i \in 1 .. Len(c.rules) :
                       /\ c.rules[i].name = x.name
                       /\ c.rules[i].mode = "deny"
                            => r.colos \cap c.rules[i].tokens = {}]_vars

\* Every target of a push that answers it is complete holds its records.
\* Documented and not kept by the code; see the README.
EveryTargetHolds ==
    push.report = "completed"
    => \A i \in 1 .. Len(push.done) :
         push.done[i].status = "ok"
           => ToSet(Wanted(push.done[i].target)) \subseteq zone

\* The selected rows are written whatever their family.
\* Documented and not kept by the code; see the README.
EveryFamilyPushed ==
    push.report = "completed" /\ push.conf.name # None
    => \A i \in 1 .. Len(Limited(Filtered(push.conf), push.conf.top)) :
         Desired(push.conf.name,
                 Limited(Filtered(push.conf), push.conf.top)[i]) \in zone

\* After a creation that failed the name has the CNAME it had.
\* Documented and not kept by the code; see the README.
FailureKeepsRecords ==
    [][push.pc = "restore" /\ push'.pc = "next"
       => Keys({x \in listed : ~IsAddress(x)}) \subseteq Keys(zone')]_vars

\* The invariants above together.
Safety ==
    /\ TypeOK /\ StaysResolvable /\ CompletedMeansSynced

\* The action properties above together.
Kept == CreateFailureKeeps /\ DeniedStaysOut
=============================================================================
