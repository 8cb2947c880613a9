---------------------------- MODULE SourcesProofs ----------------------------
(***************************************************************************)
(* Proofs about MCSources: what the parser of a source, its candidate pool *)
(* and the preparation of several sources promise, whatever the numbers of *)
(* lines, sources, addresses, tokens and candidates.                       *)
(***************************************************************************)
EXTENDS MCSources, SequenceLemmas

-----------------------------------------------------------------------------
(* Numbers, finite sets and sequences.                                     *)

\* The parts count the way the library does.
LEMMA SameCardinality ==
    \A S : Prepare!Cardinality(S) = Cardinality(S) /\ Pool!Cardinality(S) = Cardinality(S)
  BY DEF Prepare!Cardinality, Pool!Cardinality, Cardinality

\* f holds the concatenations of the first elements of ss.
Flattens(f, ss, n) ==
    f = [i \in 1 .. n |-> IF i = 1 THEN ss[i] ELSE f[i - 1] \o ss[i]]

LEMMA FlattensExist ==
    ASSUME NEW ss, NEW N \in Nat
    PROVE  \E f : Flattens(f, ss, N)
<1> DEFINE T == {n \in Nat : \E f : Flattens(f, ss, n)}
<1>1. 0 \in T
  <2>1. Flattens([i \in 1 .. 0 |-> {}], ss, 0)
    BY DEF Flattens
  <2> QED
    BY <2>1
<1>2. ASSUME NEW n \in 0 .. N - 1, n \in T PROVE n + 1 \in T
  <2>1. PICK f : Flattens(f, ss, n)
    BY <1>2
  <2> DEFINE new == IF n + 1 = 1 THEN ss[n + 1] ELSE f[n] \o ss[n + 1]
             g == [i \in 1 .. n + 1 |-> IF i = n + 1 THEN new ELSE f[i]]
             h == [i \in 1 .. n + 1 |-> IF i = 1 THEN ss[i] ELSE g[i - 1] \o ss[i]]
  <2>2. ASSUME NEW i \in 1 .. n + 1 PROVE g[i] = h[i]
    <3>1. CASE i = n + 1
      <4>1. n # 0 => g[n] = f[n]
        OBVIOUS
      <4> QED
        BY <3>1, <4>1
    <3>2. CASE i \in 1 .. n
      <4>1. f[i] = IF i = 1 THEN ss[i] ELSE f[i - 1] \o ss[i]
        BY <2>1, <3>2 DEF Flattens
      <4>2. g[i] = f[i] /\ (i # 1 => g[i - 1] = f[i - 1])
        BY <3>2
      <4> QED
        BY <4>1, <4>2, <3>2
    <3> QED
      BY <3>1, <3>2
  <2>3. g = h
    BY <2>2
  <2>4. Flattens(g, ss, n + 1)
    BY <2>3 DEF Flattens
  <2> QED
    BY <2>4
<1>3. 0 .. N \subseteq T
  <2> HIDE DEF T
  <2> QED
    BY <1>1, <1>2, UpTo
<1>4. N \in T
  BY <1>3
<1> QED
  BY <1>4

LEMMA FlattenIs ==
    ASSUME NEW ss, Len(ss) \in Nat, Len(ss) # 0
    PROVE  /\ \E f : Flattens(f, ss, Len(ss)) /\ Prepare!FlattenSeq(ss) = f[Len(ss)]
           /\ \E f : Flattens(f, ss, Len(ss)) /\ Pool!FlattenSeq(ss) = f[Len(ss)]
<1>1. \E f : Flattens(f, ss, Len(ss))
  BY FlattensExist
<1>2. Flattens(CHOOSE f : Flattens(f, ss, Len(ss)), ss, Len(ss))
  BY <1>1
<1> QED
  BY <1>2 DEF Prepare!FlattenSeq, Pool!FlattenSeq, Flattens

LEMMA FlattensAt ==
    ASSUME NEW ss, NEW n \in Nat, NEW f, Flattens(f, ss, n), NEW i \in 0 .. n - 1
    PROVE  f[i + 1] = IF i = 0 THEN ss[i + 1] ELSE f[i] \o ss[i + 1]
<1> DEFINE k == i + 1
<1>1. k \in 1 .. n /\ k - 1 = i /\ (k = 1 <=> i = 0)
  OBVIOUS
<1> HIDE DEF k
<1>2. f[k] = IF k = 1 THEN ss[k] ELSE f[k - 1] \o ss[k]
  BY <1>1 DEF Flattens
<1>3. f[k] = IF i = 0 THEN ss[k] ELSE f[i] \o ss[k]
  BY <1>1, <1>2
<1> QED
  BY <1>3 DEF k

\* One more element adds its own.
OneMore(ss, n, tt, m) ==
    n \in Nat \ {0} /\ m = n + 1 /\ \A i \in 1 .. n : tt[i] = ss[i]
IsJoin(z, x, y) == z = x \o y

LEMMA FlattensMore ==
    ASSUME NEW ss, NEW tt, NEW n, NEW m, NEW f, NEW g,
           OneMore(ss, n, tt, m), Flattens(f, ss, n), Flattens(g, tt, m)
    PROVE  IsJoin(g[m], f[n], tt[m])
<1>0. n \in Nat \ {0} /\ m = n + 1 /\ \A i \in 1 .. n : tt[i] = ss[i]
  BY DEF OneMore
<1> SUFFICES ASSUME n \in Nat \ {0}, Flattens(g, tt, n + 1) PROVE IsJoin(g[n + 1], f[n], tt[n + 1])
  BY <1>0
<1> DEFINE T == {i \in Nat : i \in 1 .. n => f[i] = g[i]}
<1>1. 0 \in T
  OBVIOUS
<1>2. ASSUME NEW i \in 0 .. n - 1, i \in T PROVE i + 1 \in T
  <2>1. f[i + 1] = IF i = 0 THEN ss[i + 1] ELSE f[i] \o ss[i + 1]
    BY FlattensAt
  <2>2. i \in 0 .. n + 1 - 1 /\ n + 1 \in Nat
    OBVIOUS
  <2>3. g[i + 1] = IF i = 0 THEN tt[i + 1] ELSE g[i] \o tt[i + 1]
    BY <2>2, FlattensAt
  <2>4. i # 0 => f[i] = g[i]
    BY <1>2
  <2>5. tt[i + 1] = ss[i + 1]
    BY <1>0
  <2> QED
    BY <2>1, <2>3, <2>4, <2>5
<1>3. 0 .. n \subseteq T
  <2> HIDE DEF T
  <2> QED
    BY <1>1, <1>2, UpTo
<1>4. f[n] = g[n]
  BY <1>3
<1>5. n \in 0 .. n + 1 - 1 /\ n + 1 \in Nat /\ n # 0
  OBVIOUS
<1>6. ASSUME NEW i \in 0 .. n PROVE g[i + 1] = IF i = 0 THEN tt[i + 1] ELSE g[i] \o tt[i + 1]
  <2>1. i \in 0 .. n + 1 - 1 /\ n + 1 \in Nat
    OBVIOUS
  <2> QED
    BY <2>1, FlattensAt
<1>7. n \in 0 .. n
  OBVIOUS
<1>8. g[n + 1] = IF n = 0 THEN tt[n + 1] ELSE g[n] \o tt[n + 1]
  BY <1>6, <1>7
<1>9. g[n + 1] = g[n] \o tt[n + 1]
  BY <1>5, <1>8
<1> QED
  BY <1>4, <1>9 DEF IsJoin

-----------------------------------------------------------------------------
(* The preparation of the sources: the inductive invariant.                *)

Outcomes == {"none", "ok", "failed", "fatal"}
Cells == Nat \X (Ips \cup {0})
Given(s) == IF outcome[s] = "ok" THEN holds[s].entries ELSE <<>>

PrepareTypes ==
    /\ holds \in [Prepare!Sources -> Readings]
    /\ phase \in [Prepare!Sources -> {"disabled", "queued", "reading", "done"}]
    /\ Prepare!Cardinality({s \in Prepare!Sources : phase[s] = "reading"}) <= Concurrency
    /\ url \in [Prepare!Sources -> [at : 1 .. MaxUrls, retried : BOOLEAN]]
    /\ outcome \in [Prepare!Sources -> Outcomes]
    /\ prepareCancelled \in BOOLEAN /\ main \in {"waiting", "merging", "returned"}
    /\ next \in 1 .. NSources + 1
    /\ result \in [entries : Seq(Ips), statuses : Seq(Outcomes), error : BOOLEAN]
    /\ filters \in [Ips -> [kind : {"none", "unrestricted", "matchNone", "codes"},
                            mode : {"none", "allow", "deny"}, codes : Cells]]

\* A source has an outcome when it has ended, and the merge comes after all.
ReadsFit ==
    /\ \A s \in Prepare!Sources : outcome[s] # "none" <=> phase[s] = "done"
    /\ main = "waiting" => next = 1
    /\ main = "merging" \/ (main = "returned" /\ ~prepareCancelled) => Prepare!AllDone
    /\ ~prepareCancelled /\ main = "returned" => next = NSources + 1

\* The result is that of the sources the merge has passed.
ResultFits ==
    /\ result.statuses = [s \in 1 .. next - 1 |-> outcome[s]]
    /\ result.entries = IF next = 1 THEN <<>>
                        ELSE Prepare!FlattenSeq([s \in 1 .. next - 1 |-> Given(s)])
    /\ result.entries = <<>> => \A s \in 1 .. next - 1 : Given(s) = <<>>
    /\ result.error => /\ main = "returned"
                       /\ \/ result.entries = <<>>
                          \/ \E s \in Prepare!Sources : outcome[s] = "fatal"

\* The sources of an address that the merge has passed.
Merged(ip) == {s \in 1 .. next - 1 : outcome[s] = "ok"
                                     /\ ip \in Prepare!ToSet(holds[s].entries)}

\* A set of codes is written by the filter it was made for, or by those that
\* took it in the place of a list without codes.
CellsFit ==
    /\ DOMAIN heap \subseteq (1 .. next - 1) \X (Ips \cup {0})
    /\ \A ip \in Ips : filters[ip].kind = "codes" =>
         /\ filters[ip].codes \in DOMAIN heap /\ filters[ip].codes[2] \in {0, ip}
         /\ filters[ip].mode # "none"
    /\ \A ip \in Ips : filters[ip].kind = "matchNone" => filters[ip].mode = "allow"

\* The filter of an address does for its sources, when they are alike.
FilterFits(ip) ==
    LET f == filters[ip] IN
    /\ Merged(ip) = {} => f.kind = "none"
    /\ Merged(ip) # {} /\ (\A s, t \in Merged(ip) : s = t \/ holds[s].mode = "allow") =>
         \/ f.kind = "unrestricted"
            /\ \E s \in Merged(ip) : Prepare!Incoming(s).kind = "unrestricted"
         \/ f.kind = "matchNone" /\ f.mode = "allow"
            /\ \A s \in Merged(ip) : Prepare!Incoming(s).kind = "matchNone"
         \/ /\ f.kind = "codes"
            /\ \A s \in Merged(ip) : /\ Prepare!Incoming(s).kind # "unrestricted"
                                     /\ holds[s].mode = f.mode
                                     /\ holds[s].colos \subseteq heap[f.codes]
            /\ \/ \E s \in Merged(ip) : Prepare!Incoming(s).kind = "matchNone"
               \/ /\ f.codes[2] = ip
                  /\ heap[f.codes] \subseteq UNION {holds[s].colos : s \in Merged(ip)}

PrepareInv ==
    /\ PrepareTypes /\ ReadsFit
    /\ ~prepareCancelled => /\ ResultFits /\ CellsFit
                            /\ \A ip \in Ips : FilterFits(ip)

LEMMA PrepareNumbers ==
    /\ NSources \in Nat \ {0} /\ Concurrency \in Nat \ {0} /\ MaxUrls \in Nat \ {0}
    /\ Prepare!Sources = 1 .. NSources /\ 0 \notin Ips
    /\ \A r \in Readings : /\ r.entries \in Seq(Ips) /\ r.mode \in {"allow", "deny"}
                           /\ r.active \in BOOLEAN
  BY PrepareAssumption DEF Prepare!CountsAssumption, Prepare!ReadingsAssumption, Prepare!Sources

\* Sets of sources.
LEMMA CountingSources ==
    /\ \A S \in SUBSET Prepare!Sources : Prepare!Cardinality(S) \in Nat
    /\ \A S, T \in SUBSET Prepare!Sources : S \subseteq T =>
         Prepare!Cardinality(S) <= Prepare!Cardinality(T)
    /\ \A S \in SUBSET Prepare!Sources : \A s \in Prepare!Sources :
         Prepare!Cardinality(S \cup {s}) <= Prepare!Cardinality(S) + 1
    /\ Prepare!Cardinality({}) = 0
<1>1. IsFiniteSet(Prepare!Sources)
  BY PrepareNumbers, FS_Interval
<1>2. ASSUME NEW S \in SUBSET Prepare!Sources PROVE IsFiniteSet(S) /\ Cardinality(S) \in Nat
  BY <1>1, FS_Subset, FS_CardinalityType
<1>3. ASSUME NEW S \in SUBSET Prepare!Sources, NEW T \in SUBSET Prepare!Sources, S \subseteq T
      PROVE  Cardinality(S) <= Cardinality(T)
  BY <1>2, <1>3, FS_Subset
<1>4. ASSUME NEW S \in SUBSET Prepare!Sources, NEW s \in Prepare!Sources
      PROVE  Cardinality(S \cup {s}) <= Cardinality(S) + 1
  BY <1>2, <1>4, FS_AddElement
<1>5. Cardinality({}) = 0
  BY FS_EmptySet
<1> QED
  BY <1>2, <1>3, <1>4, <1>5, SameCardinality

LEMMA Untouched ==
    ASSUME PrepareInv, main = "waiting" \/ prepareCancelled,
           UNCHANGED <<holds, main, next, result, filters, heap>>,
           prepareCancelled \in BOOLEAN, prepareCancelled => prepareCancelled',
           outcome' \in [Prepare!Sources -> Outcomes]
    PROVE  ~prepareCancelled' => /\ ResultFits' /\ CellsFit'
                                 /\ \A ip \in Ips : FilterFits(ip)'
<1> SUFFICES ASSUME ~prepareCancelled' PROVE ResultFits' /\ CellsFit' /\ \A ip \in Ips : FilterFits(ip)'
  OBVIOUS
<1>1. ~prepareCancelled /\ main = "waiting" /\ next = 1 /\ next' = 1
  BY DEF PrepareInv, ReadsFit
<1>2. ResultFits /\ CellsFit /\ \A ip \in Ips : FilterFits(ip)
  BY <1>1 DEF PrepareInv
<1>3. 1 .. next - 1 = {} /\ 1 .. next' - 1 = {}
  BY <1>1
<1>4. \A ip : Merged(ip) = {} /\ Merged(ip)' = {}
  BY <1>3 DEF Merged
<1>5. ResultFits'
  <2>1. result.statuses = [s \in 1 .. next' - 1 |-> outcome'[s]]
    BY <1>2, <1>3 DEF ResultFits
  <2>2. ~result.error
    BY <1>1, <1>2 DEF ResultFits
  <2>3. result.entries = <<>>
    BY <1>1, <1>2 DEF ResultFits
  <2> QED
    BY <1>1, <1>3, <2>1, <2>2, <2>3 DEF ResultFits
<1>6. CellsFit'
  BY <1>1, <1>2 DEF CellsFit
<1>7. \A ip \in Ips : FilterFits(ip)'
  BY <1>2, <1>4 DEF FilterFits
<1> QED
  BY <1>5, <1>6, <1>7

\* A source starts, goes on or ends.
LEMMA SourceStep ==
    ASSUME PrepareInv, NEW s \in Prepare!Sources, Prepare!Source(s)
    PROVE  PrepareInv'
<1>1. PrepareTypes /\ ReadsFit
  BY DEF PrepareInv
<1>2. /\ UNCHANGED <<holds, main, next, result, filters, heap>>
      /\ prepareCancelled' = prepareCancelled /\ phase[s] \in {"queued", "reading"}
      /\ \/ /\ phase' = [phase EXCEPT ![s] = "reading"] /\ UNCHANGED <<url, outcome>>
            /\ phase[s] = "queued"
            /\ Prepare!Cardinality({t \in Prepare!Sources : phase[t] = "reading"}) < Concurrency
         \/ /\ phase' = [phase EXCEPT ![s] = "done"] /\ UNCHANGED url
            /\ \E how \in Outcomes \ {"none"} : outcome' = [outcome EXCEPT ![s] = how]
         \/ /\ UNCHANGED <<phase, outcome>>
            /\ \/ url[s].at < MaxUrls /\ url' = [url EXCEPT ![s].at = @ + 1]
               \/ url' = [url EXCEPT ![s].retried = TRUE]
  BY DEF Prepare!Source, Prepare!Start, Prepare!Read, Prepare!Rejected, Prepare!Retry, Prepare!End,
         Prepare!merged, Outcomes
<1>3. main = "waiting" \/ (main = "returned" /\ prepareCancelled)
  BY <1>1, <1>2 DEF ReadsFit, PrepareTypes, Prepare!AllDone
<1>4. PrepareTypes'
  <2>1. phase' \in [Prepare!Sources -> {"disabled", "queued", "reading", "done"}]
    BY <1>1, <1>2 DEF PrepareTypes
  <2>2. outcome' \in [Prepare!Sources -> Outcomes]
    BY <1>1, <1>2 DEF PrepareTypes
  <2>3. url' \in [Prepare!Sources -> [at : 1 .. MaxUrls, retried : BOOLEAN]]
    <3>1. CASE url' = [url EXCEPT ![s].at = @ + 1] /\ url[s].at < MaxUrls
      <4>1. url[s].at + 1 \in 1 .. MaxUrls
        BY <1>1, <3>1, PrepareNumbers DEF PrepareTypes
      <4> QED
        BY <1>1, <3>1, <4>1 DEF PrepareTypes
    <3>2. CASE url' = [url EXCEPT ![s].retried = TRUE] \/ UNCHANGED url
      <4>1. url \in [Prepare!Sources -> [at : 1 .. MaxUrls, retried : BOOLEAN]]
        BY <1>1 DEF PrepareTypes
      <4> QED
        BY <3>2, <4>1
    <3> QED
      BY <1>2, <3>1, <3>2
  <2>4. Prepare!Cardinality({t \in Prepare!Sources : phase'[t] = "reading"}) <= Concurrency
    <3> DEFINE old == {t \in Prepare!Sources : phase[t] = "reading"}
               new == {t \in Prepare!Sources : phase'[t] = "reading"}
    <3>0. old \in SUBSET Prepare!Sources /\ new \in SUBSET Prepare!Sources
      OBVIOUS
    <3>1. Prepare!Cardinality(old) <= Concurrency /\ Prepare!Cardinality(old) \in Nat
          /\ Concurrency \in Nat /\ Prepare!Cardinality(new) \in Nat
      BY <1>1, <3>0, CountingSources, PrepareNumbers DEF PrepareTypes
    <3>2. CASE new \subseteq old
      <4>1. Prepare!Cardinality(new) <= Prepare!Cardinality(old)
        BY <3>0, <3>2, CountingSources
      <4> QED
        BY <3>1, <4>1
    <3>3. CASE ~(new \subseteq old)
      <4>1. Prepare!Cardinality(old) < Concurrency /\ new \subseteq old \cup {s}
        BY <1>1, <1>2, <3>3 DEF PrepareTypes
      <4>2. old \cup {s} \in SUBSET Prepare!Sources
        OBVIOUS
      <4>3. /\ Prepare!Cardinality(new) <= Prepare!Cardinality(old \cup {s})
            /\ Prepare!Cardinality(old \cup {s}) <= Prepare!Cardinality(old) + 1
            /\ Prepare!Cardinality(old \cup {s}) \in Nat
        BY <3>0, <4>1, <4>2, CountingSources
      <4> QED
        BY <3>1, <4>1, <4>3
    <3> QED
      BY <3>2, <3>3
  <2> QED
    BY <1>1, <1>2, <2>1, <2>2, <2>3, <2>4 DEF PrepareTypes
<1>5. ReadsFit'
  <2>1. \A t \in Prepare!Sources : outcome'[t] # "none" <=> phase'[t] = "done"
    BY <1>1, <1>2 DEF ReadsFit, PrepareTypes
  <2> QED
    BY <1>1, <1>2, <1>3, <2>1 DEF ReadsFit
<1>6. ~prepareCancelled' => /\ ResultFits' /\ CellsFit' /\ \A ip \in Ips : FilterFits(ip)'
  BY <1>2, <1>3, <1>4, Untouched DEF PrepareTypes
<1> QED
  BY <1>4, <1>5, <1>6 DEF PrepareInv

\* The user cancels, or the caller returns because of it.
LEMMA CancelStep ==
    ASSUME PrepareInv, Prepare!Cancel \/ Prepare!ReturnCancelled
    PROVE  PrepareInv'
<1>1. PrepareTypes /\ ReadsFit
  BY DEF PrepareInv
<1>2. prepareCancelled'
  BY DEF Prepare!Cancel, Prepare!ReturnCancelled
<1>3. CASE Prepare!Cancel
  BY <1>1, <1>3 DEF Prepare!Cancel, Prepare!reading, Prepare!merged, PrepareInv, PrepareTypes, ReadsFit,
                    Prepare!AllDone
<1>4. CASE Prepare!ReturnCancelled
  <2>1. filters' \in [Ips -> [kind : {"none", "unrestricted", "matchNone", "codes"},
                              mode : {"none", "allow", "deny"}, codes : Cells]]
    BY <1>4 DEF Prepare!ReturnCancelled, Prepare!NoFilter, Cells
  <2>2. result' \in [entries : Seq(Ips), statuses : Seq(Outcomes), error : BOOLEAN]
    <3>1. result \in [entries : Seq(Ips), statuses : Seq(Outcomes), error : BOOLEAN]
      BY <1>1 DEF PrepareTypes
    <3>2. \E e \in Seq(Ips) : result' = [result EXCEPT !.entries = e, !.error = TRUE]
      BY <1>4, EmptySeq DEF Prepare!ReturnCancelled
    <3> QED
      BY <3>1, <3>2
  <2>3. PrepareTypes'
    BY <1>1, <1>4, <2>1, <2>2 DEF Prepare!ReturnCancelled, Prepare!reading, PrepareTypes
  <2>4. ReadsFit'
    BY <1>1, <1>2, <1>4 DEF Prepare!ReturnCancelled, Prepare!reading, ReadsFit
  <2> QED
    BY <1>2, <2>3, <2>4 DEF PrepareInv
<1> QED
  BY <1>3, <1>4

LEMMA BeginMergeStep ==
    ASSUME PrepareInv, Prepare!BeginMerge
    PROVE  PrepareInv'
<1>1. PrepareTypes /\ ReadsFit
  BY DEF PrepareInv
<1>2. /\ main = "waiting" /\ main' = "merging" /\ Prepare!AllDone
      /\ UNCHANGED <<holds, phase, url, outcome, prepareCancelled, next, result, filters, heap>>
  BY DEF Prepare!BeginMerge, Prepare!reading, Prepare!merged
<1>3. PrepareTypes'
  BY <1>1, <1>2 DEF PrepareTypes
<1>4. ReadsFit'
  BY <1>1, <1>2 DEF ReadsFit, Prepare!AllDone
<1>5. ASSUME ~prepareCancelled' PROVE ResultFits' /\ CellsFit' /\ \A ip \in Ips : FilterFits(ip)'
  <2>1. ResultFits /\ CellsFit /\ \A ip \in Ips : FilterFits(ip)
    BY <1>2, <1>5 DEF PrepareInv
  <2>2. ResultFits' /\ CellsFit'
    BY <1>2, <2>1 DEF ResultFits, CellsFit, Given
  <2>3. ASSUME NEW ip \in Ips PROVE FilterFits(ip)'
    <3>1. Merged(ip)' = Merged(ip)
      BY <1>2 DEF Merged
    <3>2. \A s : Prepare!Incoming(s)' = Prepare!Incoming(s)
      BY <1>2 DEF Prepare!Incoming, Prepare!Unrestricted
    <3> QED
      BY <1>2, <2>1, <3>1, <3>2 DEF FilterFits
  <2> QED
    BY <2>2, <2>3
<1> QED
  BY <1>3, <1>4, <1>5 DEF PrepareInv

-----------------------------------------------------------------------------
(* The merge of one source.                                                *)

LEMMA ResultStep ==
    ASSUME PrepareInv, Prepare!MergeSource
    PROVE  ResultFits'
<1>1. PrepareTypes /\ ReadsFit /\ ResultFits
  BY DEF PrepareInv, Prepare!MergeSource
<1>2. /\ main = "merging" /\ next <= NSources /\ next' = next + 1
      /\ UNCHANGED <<holds, outcome, main>> /\ next \in Prepare!Sources /\ next \in Nat \ {0}
      /\ result' = [result EXCEPT !.entries = IF outcome[next] = "ok" THEN @ \o holds[next].entries ELSE @,
                                  !.statuses = Append(@, outcome[next])]
  BY <1>1, PrepareNumbers DEF Prepare!MergeSource, PrepareTypes, Prepare!reading
<1>3. /\ result.entries \in Seq(Ips) /\ result.statuses \in Seq(Outcomes)
      /\ Given(next) \in Seq(Ips)
      /\ result \in [entries : Seq(Ips), statuses : Seq(Outcomes), error : BOOLEAN]
  BY <1>1, <1>2, PrepareNumbers, EmptySeq DEF PrepareTypes, Given
<1>4. \A s : Given(s)' = Given(s)
  BY <1>2 DEF Given
<1>5. /\ result'.entries = IF outcome[next] = "ok" THEN result.entries \o holds[next].entries
                           ELSE result.entries
      /\ result'.statuses = Append(result.statuses, outcome[next])
      /\ result'.error = result.error
  BY <1>2, <1>3
<1>6. result'.entries = result.entries \o Given(next)
  BY <1>3, <1>5 DEF Given
<1>7. result'.statuses = [s \in 1 .. next' - 1 |-> outcome'[s]]
  <2>1. result.statuses = [s \in 1 .. next - 1 |-> outcome[s]] /\ next - 1 \in Nat
    BY <1>1, <1>2 DEF ResultFits
  <2>2. Len(result.statuses) = next - 1
    BY <1>2, <2>1, <1>3
  <2>3. Append(result.statuses, outcome[next]) = [s \in 1 .. next |-> outcome[s]]
    BY <1>2, <1>3, <2>1, <2>2
  <2> QED
    BY <1>2, <1>5, <2>3
<1>8. result'.entries = IF next' = 1 THEN <<>>
                        ELSE Prepare!FlattenSeq([s \in 1 .. next' - 1 |-> Given(s)'])
  <2> DEFINE ss == [s \in 1 .. next - 1 |-> Given(s)]
             tt == [s \in 1 .. next |-> Given(s)]
  <2>1. result.entries = IF next = 1 THEN <<>> ELSE Prepare!FlattenSeq(ss)
    BY <1>1 DEF ResultFits
  <2>2. [s \in 1 .. next' - 1 |-> Given(s)'] = tt /\ next' # 1
    BY <1>2, <1>4
  <2>3. Len(tt) = next /\ tt[next] = Given(next)
    BY <1>2
  <2>4. PICK g : Flattens(g, tt, next) /\ Prepare!FlattenSeq(tt) = g[next]
    <3> HIDE DEF tt
    <3> QED
      BY <1>2, <2>3, FlattenIs
  <2>5. CASE next = 1
    <3>1. g[1] = tt[1]
      <4> HIDE DEF tt
      <4> QED
        BY <2>4, <2>5 DEF Flattens
    <3>2. result'.entries = Given(next) /\ Prepare!FlattenSeq(tt) = Given(next)
      <4>1. <<>> \o Given(next) = Given(next)
        BY <1>3
      <4> HIDE DEF tt, ss
      <4> QED
        BY <1>6, <2>1, <2>3, <2>4, <2>5, <3>1, <4>1
    <3> HIDE DEF tt
    <3> QED
      BY <2>2, <3>2
  <2>6. CASE next # 1
    <3>0. next - 1 \in Nat \ {0} /\ next - 1 + 1 = next
      BY <1>2, <2>6
    <3>1. Len(ss) = next - 1 /\ \A i \in 1 .. next - 1 : tt[i] = ss[i]
      BY <3>0
    <3>2. PICK f : Flattens(f, ss, next - 1) /\ Prepare!FlattenSeq(ss) = f[next - 1]
      <4> HIDE DEF ss, tt
      <4> QED
        BY <3>0, <3>1, FlattenIs
    <3>3. IsJoin(g[next], f[next - 1], tt[next])
      <4> HIDE DEF ss, tt
      <4>1. OneMore(ss, next - 1, tt, next)
        BY <3>0, <3>1 DEF OneMore
      <4> QED
        BY <2>4, <3>2, <4>1, FlattensMore
    <3> HIDE DEF ss, tt
    <3> QED
      BY <1>6, <2>1, <2>2, <2>3, <2>4, <2>6, <3>2, <3>3 DEF IsJoin
  <2> QED
    BY <2>5, <2>6
<1>9. result'.entries = <<>> => \A s \in 1 .. next' - 1 : Given(s)' = <<>>
  <2> SUFFICES ASSUME result'.entries = <<>> PROVE \A s \in 1 .. next' - 1 : Given(s)' = <<>>
    OBVIOUS
  <2>1. result.entries = <<>> /\ Given(next) = <<>>
    BY <1>3, <1>6
  <2>2. \A s \in 1 .. next - 1 : Given(s) = <<>>
    BY <1>1, <2>1 DEF ResultFits
  <2> QED
    BY <1>2, <1>4, <2>1, <2>2
<1>10. ~result'.error
  BY <1>1, <1>2, <1>5 DEF ResultFits
<1> QED
  BY <1>7, <1>8, <1>9, <1>10 DEF ResultFits

\* The addresses of the source that is merged, and the sets it writes.
Listed == Prepare!ToSet(holds[next].entries)
WrittenNow == UNION {Prepare!Written(next, ip) : ip \in Listed}
Was(c) == IF c \in DOMAIN heap THEN heap[c] ELSE {}

LEMMA IncomingIs ==
    ASSUME NEW s \in Prepare!Sources, PrepareTypes
    PROVE  LET f == Prepare!Incoming(s) IN
           /\ \/ /\ f = [kind |-> "codes", mode |-> holds[s].mode, codes |-> <<s, 0>>]
                 /\ holds[s].colos # {}
              \/ /\ f = [kind |-> "matchNone", mode |-> "allow", codes |-> <<0, 0>>]
                 /\ holds[s].colos = {} /\ holds[s].mode = "allow"
              \/ /\ f = [kind |-> "unrestricted", mode |-> "none", codes |-> <<0, 0>>]
                 /\ holds[s].colos = {}
           /\ holds[s].mode \in {"allow", "deny"} /\ holds[s].entries \in Seq(Ips)
           /\ Prepare!ToSet(holds[s].entries) \subseteq Ips
<1>1. holds[s] \in Readings
  BY DEF PrepareTypes
<1>2. holds[s].mode \in {"allow", "deny"} /\ holds[s].entries \in Seq(Ips)
  BY <1>1, PrepareNumbers
<1>3. Prepare!ToSet(holds[s].entries) \subseteq Ips
  BY <1>2 DEF Prepare!ToSet
<1> QED
  BY <1>2, <1>3 DEF Prepare!Incoming, Prepare!Unrestricted

LEMMA WrittenIs ==
    ASSUME PrepareTypes, CellsFit, next \in Prepare!Sources
    PROVE  /\ Prepare!Incoming(next).kind # "codes" => WrittenNow = {}
           /\ \A c \in WrittenNow : \E ip \in Listed :
                \/ c = <<next, ip>>
                \/ filters[ip].kind = "codes" /\ c = filters[ip].codes /\ c \in DOMAIN heap
                \/ c = <<next, 0>>
           /\ \A c \in WrittenNow : c \in (1 .. next) \X (Ips \cup {0})
<1>0. Listed \subseteq Ips /\ next \in 1 .. next
  BY IncomingIs, PrepareNumbers DEF Listed
<1>1. Prepare!Incoming(next).kind # "codes" => WrittenNow = {}
  BY DEF WrittenNow, Prepare!Written
<1>2. ASSUME NEW c \in WrittenNow
      PROVE  \E ip \in Listed :
                \/ c = <<next, ip>>
                \/ filters[ip].kind = "codes" /\ c = filters[ip].codes /\ c \in DOMAIN heap
                \/ c = <<next, 0>>
  <2>1. PICK ip \in Listed : c \in Prepare!Written(next, ip)
    BY DEF WrittenNow
  <2>2. \/ c = <<next, ip>>
        \/ filters[ip].kind = "codes" /\ c = filters[ip].codes
        \/ c = <<next, 0>>
    BY <2>1 DEF Prepare!Written
  <2> QED
    BY <1>0, <2>2 DEF CellsFit
<1>3. ASSUME NEW c \in WrittenNow PROVE c \in (1 .. next) \X (Ips \cup {0})
  <2>1. PICK ip \in Listed :
                \/ c = <<next, ip>>
                \/ filters[ip].kind = "codes" /\ c = filters[ip].codes /\ c \in DOMAIN heap
                \/ c = <<next, 0>>
    BY <1>2
  <2>2. CASE c \in DOMAIN heap
    <3>1. c \in (1 .. next - 1) \X (Ips \cup {0})
      BY <2>2 DEF CellsFit
    <3>2. 1 .. next - 1 \subseteq 1 .. next
      BY PrepareNumbers
    <3> QED
      BY <3>1, <3>2
  <2> QED
    BY <1>0, <2>1, <2>2
<1> QED
  BY <1>1, <1>2, <1>3

\* What is merged with the filter of an address.
LEMMA MergeIs ==
    ASSUME PrepareTypes, CellsFit, next \in Prepare!Sources, NEW ip \in Ips
    PROVE  LET old == filters[ip]
               new == Prepare!Incoming(next)
               f == Prepare!Merge(next, ip)
           IN  /\ f \in [kind : {"none", "unrestricted", "matchNone", "codes"},
                         mode : {"none", "allow", "deny"}, codes : Cells]
               /\ new.kind = "unrestricted" => f.kind = "unrestricted"
               /\ new.kind # "unrestricted" =>
                    \/ old.kind = "unrestricted" /\ f.kind = "unrestricted"
                    \/ /\ old.kind = "none" /\ f.kind = new.kind /\ f.mode = new.mode
                       /\ new.kind = "codes" =>
                            f.codes = <<next, ip>> /\ Prepare!Written(next, ip) = {<<next, ip>>}
                    \/ /\ old.kind \in {"matchNone", "codes"} /\ old.mode # new.mode
                       /\ f.kind = "unrestricted"
                    \/ /\ old.kind = "matchNone" /\ old.mode = new.mode /\ f = new
                       /\ new.kind = "codes" => Prepare!Written(next, ip) = {<<next, 0>>}
                    \/ /\ old.kind = "codes" /\ old.mode = new.mode /\ f = old
                       /\ new.kind = "codes" => Prepare!Written(next, ip) = {old.codes}
<1>1. /\ filters[ip] \in [kind : {"none", "unrestricted", "matchNone", "codes"},
                          mode : {"none", "allow", "deny"}, codes : Cells]
      /\ filters[ip].kind = "matchNone" => filters[ip].mode = "allow"
      /\ <<next, ip>> \in Cells /\ <<next, 0>> \in Cells /\ <<0, 0>> \in Cells
  BY PrepareNumbers DEF PrepareTypes, CellsFit, Cells
<1> DEFINE new == Prepare!Incoming(next)
<1>2. CASE new = [kind |-> "codes", mode |-> holds[next].mode, codes |-> <<next, 0>>]
           /\ holds[next].mode \in {"allow", "deny"}
  BY <1>1, <1>2 DEF Prepare!Merge, Prepare!Unrestricted, Prepare!Written
<1>3. CASE new = [kind |-> "matchNone", mode |-> "allow", codes |-> <<0, 0>>]
  BY <1>1, <1>3 DEF Prepare!Merge, Prepare!Unrestricted, Prepare!Written
<1>4. CASE new = [kind |-> "unrestricted", mode |-> "none", codes |-> <<0, 0>>]
  BY <1>1, <1>4 DEF Prepare!Merge, Prepare!Unrestricted, Prepare!Written
<1> QED
  BY <1>2, <1>3, <1>4, IncomingIs

\* The filters after a source that was read is merged.
LEMMA FiltersAfter ==
    ASSUME PrepareInv, Prepare!MergeSource, outcome[next] = "ok"
    PROVE  /\ PrepareTypes /\ CellsFit /\ next \in Prepare!Sources
           /\ next' = next + 1 /\ UNCHANGED <<holds, outcome>>
           /\ filters' = [ip \in Ips |-> IF ip \in Listed THEN Prepare!Merge(next, ip) ELSE filters[ip]]
           /\ DOMAIN heap' = DOMAIN heap \cup WrittenNow
           /\ \A c \in DOMAIN heap' :
                heap'[c] = Was(c) \cup (IF c \in WrittenNow THEN holds[next].colos ELSE {})
<1>1. PrepareTypes /\ CellsFit
  BY DEF PrepareInv, Prepare!MergeSource
<1>2. /\ next <= NSources /\ next' = next + 1 /\ UNCHANGED <<holds, outcome>>
      /\ Prepare!MergeFilters(next)
  BY DEF Prepare!MergeSource, Prepare!reading
<1>3. next \in Prepare!Sources
  BY <1>1, <1>2, PrepareNumbers DEF PrepareTypes
<1>4. /\ filters' = [ip \in Ips |-> IF ip \in Listed THEN Prepare!Merge(next, ip) ELSE filters[ip]]
      /\ heap' = [c \in DOMAIN heap \cup WrittenNow |->
                    Was(c) \cup (IF c \in WrittenNow THEN holds[next].colos ELSE {})]
  BY <1>2 DEF Prepare!MergeFilters, Listed, WrittenNow, Was
<1> QED
  BY <1>1, <1>2, <1>3, <1>4

LEMMA CellsStep ==
    ASSUME PrepareInv, Prepare!MergeSource
    PROVE  CellsFit'
<1>1. PrepareTypes /\ CellsFit /\ next' = next + 1 /\ next \in Nat \ {0}
  BY PrepareNumbers DEF PrepareInv, Prepare!MergeSource, PrepareTypes
<1>2. CASE outcome[next] # "ok"
  <2>1. filters' = filters /\ heap' = heap
    BY <1>2 DEF Prepare!MergeSource
  <2>2. (1 .. next - 1) \X (Ips \cup {0}) \subseteq (1 .. next' - 1) \X (Ips \cup {0})
    BY <1>1
  <2> QED
    BY <1>1, <2>1, <2>2 DEF CellsFit
<1>3. CASE outcome[next] = "ok"
  <2>1. /\ next \in Prepare!Sources /\ DOMAIN heap' = DOMAIN heap \cup WrittenNow
        /\ filters' = [ip \in Ips |-> IF ip \in Listed THEN Prepare!Merge(next, ip) ELSE filters[ip]]
    BY <1>3, FiltersAfter
  <2>2. DOMAIN heap' \subseteq (1 .. next' - 1) \X (Ips \cup {0})
    <3>1. (1 .. next - 1) \X (Ips \cup {0}) \subseteq (1 .. next) \X (Ips \cup {0})
      BY <1>1
    <3>2. WrittenNow \subseteq (1 .. next) \X (Ips \cup {0})
      BY <1>1, <2>1, WrittenIs
    <3>3. next' - 1 = next
      BY <1>1
    <3> QED
      BY <1>1, <2>1, <3>1, <3>2, <3>3 DEF CellsFit
  <2>3. ASSUME NEW ip \in Ips, filters'[ip].kind = "codes"
        PROVE  /\ filters'[ip].codes \in DOMAIN heap' /\ filters'[ip].codes[2] \in {0, ip}
               /\ filters'[ip].mode # "none"
    <3>1. CASE ip \notin Listed
      BY <1>1, <2>1, <2>3, <3>1 DEF CellsFit
    <3>2. CASE ip \in Listed
      <4>0. filters'[ip] = Prepare!Merge(next, ip) /\ Prepare!Written(next, ip) \subseteq WrittenNow
        BY <2>1, <3>2 DEF WrittenNow
      <4> DEFINE new == Prepare!Incoming(next)
      <4>1. CASE new.kind = "codes" /\ new.mode \in {"allow", "deny"} /\ new.codes = <<next, 0>>
        <5> DEFINE old == filters[ip]
                   f == Prepare!Merge(next, ip)
        <5>1. f.kind = "codes" =>
                \/ f.mode = new.mode /\ f.codes = <<next, ip>> /\ Prepare!Written(next, ip) = {<<next, ip>>}
                \/ f = new /\ Prepare!Written(next, ip) = {<<next, 0>>}
                \/ old.kind = "codes" /\ f = old
          BY <1>1, <2>1, <4>1, MergeIs
        <5>2. old.kind = "codes" => /\ old.codes \in DOMAIN heap /\ old.codes[2] \in {0, ip}
                                    /\ old.mode # "none"
          BY <1>1 DEF CellsFit
        <5>3. Prepare!Written(next, ip) \subseteq DOMAIN heap' /\ DOMAIN heap \subseteq DOMAIN heap'
          BY <2>1, <4>0
        <5>4. <<next, ip>>[2] = ip /\ <<next, 0>>[2] = 0
          OBVIOUS
        <5> HIDE DEF new, f, old
        <5>5. f.kind = "codes" /\ filters'[ip] = f
          BY <2>3, <4>0 DEF f
        <5>6. CASE f.mode = new.mode /\ f.codes = <<next, ip>> /\ Prepare!Written(next, ip) = {<<next, ip>>}
          BY <4>1, <5>3, <5>4, <5>5, <5>6
        <5>7. CASE f = new /\ Prepare!Written(next, ip) = {<<next, 0>>}
          BY <4>1, <5>3, <5>4, <5>5, <5>7
        <5>8. CASE old.kind = "codes" /\ f = old
          BY <5>2, <5>3, <5>5, <5>8
        <5> QED
          BY <5>1, <5>5, <5>6, <5>7, <5>8
      <4>2. CASE new.kind = "matchNone"
        BY <1>1, <2>1, <2>3, <4>0, <4>2, MergeIs DEF CellsFit
      <4>3. CASE new.kind = "unrestricted"
        BY <1>1, <2>1, <2>3, <4>0, <4>3, MergeIs
      <4> QED
        BY <1>1, <2>1, <4>1, <4>2, <4>3, IncomingIs
    <3> QED
      BY <3>1, <3>2
  <2>4. ASSUME NEW ip \in Ips, filters'[ip].kind = "matchNone" PROVE filters'[ip].mode = "allow"
    <3>1. CASE ip \notin Listed
      BY <1>1, <2>1, <2>4, <3>1 DEF CellsFit
    <3>2. CASE ip \in Listed
      <4>1. filters'[ip] = Prepare!Merge(next, ip)
        BY <2>1, <3>2
      <4>2. /\ Prepare!Incoming(next).kind = "matchNone" => Prepare!Incoming(next).mode = "allow"
            /\ Prepare!Incoming(next).kind \in {"codes", "matchNone", "unrestricted"}
        BY <1>1, <2>1, IncomingIs
      <4> QED
        BY <1>1, <2>1, <2>4, <4>1, <4>2, MergeIs
    <3> QED
      BY <3>1, <3>2
  <2> QED
    BY <2>2, <2>3, <2>4 DEF CellsFit
<1> QED
  BY <1>2, <1>3

\* The sets of codes after a source that was read is merged.
LEMMA HeapAfter ==
    ASSUME PrepareInv, Prepare!MergeSource, outcome[next] = "ok"
    PROVE  /\ \A c \in DOMAIN heap : /\ c \in DOMAIN heap' /\ heap[c] \subseteq heap'[c]
                                     /\ heap'[c] \subseteq heap[c] \cup holds[next].colos
                                     /\ c \notin WrittenNow => heap'[c] = heap[c]
           /\ \A c \in WrittenNow : holds[next].colos \subseteq heap'[c]
           /\ \A ip : <<next, ip>> \notin DOMAIN heap
           /\ \A c \in WrittenNow \ DOMAIN heap : heap'[c] = holds[next].colos
<1>1. /\ CellsFit /\ next \in Nat /\ DOMAIN heap' = DOMAIN heap \cup WrittenNow
      /\ \A c \in DOMAIN heap' :
           heap'[c] = Was(c) \cup (IF c \in WrittenNow THEN holds[next].colos ELSE {})
  BY FiltersAfter, PrepareNumbers
<1>2. \A c \in DOMAIN heap : Was(c) = heap[c]
  BY DEF Was
<1>3. \A c \in WrittenNow \ DOMAIN heap : Was(c) = {}
  BY DEF Was
<1>4. ASSUME NEW ip, <<next, ip>> \in DOMAIN heap PROVE FALSE
  <2>1. <<next, ip>> \in (1 .. next - 1) \X (Ips \cup {0})
    BY <1>1, <1>4 DEF CellsFit
  <2>2. next \in 1 .. next - 1
    BY <2>1
  <2> QED
    BY <1>1, <2>2
<1> QED
  BY <1>1, <1>2, <1>3, <1>4

\* An address the source does not list keeps its filter and its own codes.
LEMMA FilterOfOthers ==
    ASSUME PrepareInv, Prepare!MergeSource, outcome[next] = "ok", NEW ip \in Ips, ip \notin Listed
    PROVE  FilterFits(ip)'
<1>1. /\ PrepareTypes /\ CellsFit /\ FilterFits(ip) /\ next \in Prepare!Sources /\ next \in Nat
      /\ next' = next + 1 /\ UNCHANGED <<holds, outcome>> /\ filters'[ip] = filters[ip]
  BY FiltersAfter, PrepareNumbers DEF PrepareInv, Prepare!MergeSource
<1>2. Merged(ip)' = Merged(ip)
  <2>1. 1 .. next' - 1 = (1 .. next - 1) \cup {next}
    BY <1>1, PrepareNumbers
  <2> QED
    BY <1>1, <2>1 DEF Merged, Listed
<1>3. \A s : Prepare!Incoming(s)' = Prepare!Incoming(s)
  BY <1>1 DEF Prepare!Incoming, Prepare!Unrestricted
<1> DEFINE c == filters[ip].codes
<1>4. filters[ip].kind = "codes" => c \in DOMAIN heap /\ heap[c] \subseteq heap'[c]
  BY <1>1, HeapAfter DEF CellsFit
<1>5. filters[ip].kind = "codes" /\ c[2] = ip => heap'[c] = heap[c]
  <2> SUFFICES ASSUME filters[ip].kind = "codes", c[2] = ip, c \in WrittenNow PROVE FALSE
    BY <1>4, HeapAfter
  <2>1. PICK other \in Listed :
               \/ c = <<next, other>>
               \/ filters[other].kind = "codes" /\ c = filters[other].codes /\ c \in DOMAIN heap
               \/ c = <<next, 0>>
    BY <1>1, WrittenIs
  <2>2. other \in Ips
    BY <1>1, IncomingIs DEF Listed
  <2>3. c[2] \in {0, other}
    BY <1>1, <2>1, <2>2 DEF CellsFit
  <2> QED
    BY <2>1, <2>3, PrepareNumbers
<1> QED
  BY <1>1, <1>2, <1>3, <1>4, <1>5 DEF FilterFits

\* An address the source lists.
LEMMA FilterOfListed ==
    ASSUME PrepareInv, Prepare!MergeSource, outcome[next] = "ok", NEW ip \in Ips, ip \in Listed
    PROVE  FilterFits(ip)'
<1> DEFINE old == filters[ip]
           new == Prepare!Incoming(next)
           f == Prepare!Merge(next, ip)
<1>1. /\ PrepareTypes /\ CellsFit /\ FilterFits(ip) /\ next \in Prepare!Sources /\ next \in Nat
      /\ next' = next + 1 /\ UNCHANGED <<holds, outcome>> /\ filters'[ip] = f
  BY FiltersAfter, PrepareNumbers DEF PrepareInv, Prepare!MergeSource
<1>2. Merged(ip)' = Merged(ip) \cup {next} /\ Merged(ip) \subseteq Prepare!Sources
  <2>1. 1 .. next' - 1 = (1 .. next - 1) \cup {next} /\ 1 .. next - 1 \subseteq 1 .. NSources
    BY <1>1, PrepareNumbers
  <2> QED
    BY <1>1, <2>1, PrepareNumbers DEF Merged, Listed
<1>3. \A s : Prepare!Incoming(s)' = Prepare!Incoming(s)
  BY <1>1 DEF Prepare!Incoming, Prepare!Unrestricted
<1> SUFFICES ASSUME \A s, t \in Merged(ip) \cup {next} : s = t \/ holds[s].mode = "allow"
    PROVE  \/ f.kind = "unrestricted"
              /\ \E s \in Merged(ip) \cup {next} : Prepare!Incoming(s).kind = "unrestricted"
           \/ f.kind = "matchNone" /\ f.mode = "allow"
              /\ \A s \in Merged(ip) \cup {next} : Prepare!Incoming(s).kind = "matchNone"
           \/ /\ f.kind = "codes"
              /\ \A s \in Merged(ip) \cup {next} :
                   /\ Prepare!Incoming(s).kind # "unrestricted"
                   /\ holds[s].mode = f.mode
                   /\ holds[s].colos \subseteq heap'[f.codes]
              /\ \/ \E s \in Merged(ip) \cup {next} : Prepare!Incoming(s).kind = "matchNone"
                 \/ /\ f.codes[2] = ip
                    /\ heap'[f.codes] \subseteq UNION {holds[s].colos : s \in Merged(ip) \cup {next}}
  <2> HIDE DEF f
  <2> QED
    BY <1>1, <1>2, <1>3 DEF FilterFits
<1>4. CASE new.kind = "unrestricted"
  BY <1>1, <1>4, MergeIs
<1> SUFFICES ASSUME new.kind # "unrestricted" PROVE
           \/ f.kind = "unrestricted"
              /\ \E s \in Merged(ip) \cup {next} : Prepare!Incoming(s).kind = "unrestricted"
           \/ f.kind = "matchNone" /\ f.mode = "allow"
              /\ \A s \in Merged(ip) \cup {next} : Prepare!Incoming(s).kind = "matchNone"
           \/ /\ f.kind = "codes"
              /\ \A s \in Merged(ip) \cup {next} :
                   /\ Prepare!Incoming(s).kind # "unrestricted"
                   /\ holds[s].mode = f.mode
                   /\ holds[s].colos \subseteq heap'[f.codes]
              /\ \/ \E s \in Merged(ip) \cup {next} : Prepare!Incoming(s).kind = "matchNone"
                 \/ /\ f.codes[2] = ip
                    /\ heap'[f.codes] \subseteq UNION {holds[s].colos : s \in Merged(ip) \cup {next}}
  BY <1>4
<1>5. \/ /\ new.kind = "codes" /\ new.mode = holds[next].mode /\ new.codes = <<next, 0>>
      \/ /\ new.kind = "matchNone" /\ new.mode = "allow" /\ holds[next].mode = "allow"
         /\ holds[next].colos = {}
  BY <1>1, IncomingIs
<1>6. Prepare!Written(next, ip) \subseteq WrittenNow
      /\ (new.kind # "codes" => WrittenNow = {})
  BY <1>1, WrittenIs DEF WrittenNow
<1>7. \/ old.kind = "unrestricted" /\ f.kind = "unrestricted"
      \/ /\ old.kind = "none" /\ f.kind = new.kind /\ f.mode = new.mode
         /\ new.kind = "codes" =>
              f.codes = <<next, ip>> /\ Prepare!Written(next, ip) = {<<next, ip>>}
      \/ /\ old.kind \in {"matchNone", "codes"} /\ old.mode # new.mode
         /\ f.kind = "unrestricted"
      \/ /\ old.kind = "matchNone" /\ old.mode = new.mode /\ f = new
         /\ new.kind = "codes" => Prepare!Written(next, ip) = {<<next, 0>>}
      \/ /\ old.kind = "codes" /\ old.mode = new.mode /\ f = old
         /\ new.kind = "codes" => Prepare!Written(next, ip) = {old.codes}
  BY <1>1, MergeIs
<1>8. CASE Merged(ip) = {}
  <2>1. old.kind = "none"
    BY <1>1, <1>8 DEF FilterFits
  <2>2. CASE new.kind = "matchNone"
    BY <1>5, <1>7, <1>8, <2>1, <2>2
  <2>3. CASE new.kind = "codes"
    <3>1. f.kind = "codes" /\ f.mode = holds[next].mode /\ f.codes = <<next, ip>> /\ f.codes \in WrittenNow
      BY <1>5, <1>6, <1>7, <2>1, <2>3
    <3>2. heap'[f.codes] = holds[next].colos /\ f.codes[2] = ip
      BY <3>1, HeapAfter
    <3> HIDE DEF f
    <3>3. UNION {holds[s].colos : s \in Merged(ip) \cup {next}} = holds[next].colos
      BY <1>8
    <3> QED
      BY <1>8, <2>3, <3>1, <3>2, <3>3
  <2> QED
    BY <1>5, <2>2, <2>3
<1>9. CASE Merged(ip) # {}
  <2>1. next \notin Merged(ip)
    BY <1>1, PrepareNumbers DEF Merged
  <2>2. \A s \in Merged(ip) \cup {next} : holds[s].mode = "allow"
    BY <1>9, <2>1
  <2>3. new.mode = "allow"
    BY <1>5, <2>2
  <2>4. \/ old.kind = "unrestricted"
           /\ \E s \in Merged(ip) : Prepare!Incoming(s).kind = "unrestricted"
        \/ old.kind = "matchNone" /\ old.mode = "allow"
           /\ \A s \in Merged(ip) : Prepare!Incoming(s).kind = "matchNone"
        \/ /\ old.kind = "codes"
           /\ \A s \in Merged(ip) : /\ Prepare!Incoming(s).kind # "unrestricted"
                                    /\ holds[s].mode = old.mode
                                    /\ holds[s].colos \subseteq heap[old.codes]
           /\ \/ \E s \in Merged(ip) : Prepare!Incoming(s).kind = "matchNone"
              \/ /\ old.codes[2] = ip
                 /\ heap[old.codes] \subseteq UNION {holds[s].colos : s \in Merged(ip)}
    BY <1>1, <1>9, <2>2 DEF FilterFits
  <2>5. CASE old.kind = "unrestricted"
    BY <1>7, <2>4, <2>5
  <2>6. CASE old.kind = "matchNone"
    <3>1. f = new /\ (new.kind = "codes" => <<next, 0>> \in WrittenNow)
      BY <1>6, <1>7, <2>3, <2>4, <2>6
    <3>2. \A s \in Merged(ip) : Prepare!Incoming(s).kind = "matchNone" /\ holds[s].colos = {}
      <4>1. \A s \in Merged(ip) : Prepare!Incoming(s).kind = "matchNone"
        BY <2>4, <2>6
      <4>2. ASSUME NEW s \in Merged(ip) PROVE holds[s].colos = {}
        <5>1. s \in Prepare!Sources /\ PrepareTypes /\ Prepare!Incoming(s).kind = "matchNone"
          BY <1>1, <1>2, <4>1
        <5> QED
          BY <5>1, IncomingIs
      <4> QED
        BY <4>1, <4>2
    <3>3. CASE new.kind = "matchNone"
      BY <2>3, <3>1, <3>2, <3>3
    <3>4. CASE new.kind = "codes"
      <4>1. f.kind = "codes" /\ f.mode = "allow" /\ f.codes = <<next, 0>>
        BY <1>5, <2>3, <3>1, <3>4
      <4>2. holds[next].colos \subseteq heap'[f.codes]
        BY <3>1, <3>4, <4>1, HeapAfter
      <4> HIDE DEF f
      <4> QED
        BY <1>9, <2>2, <3>2, <3>4, <4>1, <4>2
    <3> QED
      BY <1>5, <3>3, <3>4
  <2>7. CASE old.kind = "codes"
    <3>1. PICK s \in Merged(ip) : holds[s].mode = old.mode
      BY <1>9, <2>4, <2>7
    <3>2. old.mode = "allow" /\ f = old /\ (new.kind = "codes" => old.codes \in WrittenNow)
      BY <1>6, <1>7, <2>2, <2>3, <2>7, <3>1
    <3>3. /\ heap[old.codes] \subseteq heap'[old.codes]
          /\ heap'[old.codes] \subseteq heap[old.codes] \cup holds[next].colos
      BY <1>1, <2>7, HeapAfter DEF CellsFit
    <3>4. holds[next].colos \subseteq heap'[old.codes]
      BY <1>5, <3>2, HeapAfter
    <3>5. UNION {holds[t].colos : t \in Merged(ip) \cup {next}}
            = (UNION {holds[t].colos : t \in Merged(ip)}) \cup holds[next].colos
      OBVIOUS
    <3> HIDE DEF f, old, new
    <3>6. \A t \in Merged(ip) \cup {next} : /\ Prepare!Incoming(t).kind # "unrestricted"
                                            /\ holds[t].mode = old.mode
                                            /\ holds[t].colos \subseteq heap'[old.codes]
      BY <2>2, <2>4, <2>7, <3>2, <3>3, <3>4 DEF new
    <3>7. \/ \E t \in Merged(ip) \cup {next} : Prepare!Incoming(t).kind = "matchNone"
          \/ /\ old.codes[2] = ip
             /\ heap'[old.codes] \subseteq UNION {holds[t].colos : t \in Merged(ip) \cup {next}}
      BY <2>4, <2>7, <3>3, <3>5
    <3> QED
      BY <2>7, <3>2, <3>6, <3>7
  <2> QED
    BY <2>4, <2>5, <2>6, <2>7
<1> QED
  BY <1>8, <1>9

\* A source that was not read leaves the filters as they are.
LEMMA FiltersStep ==
    ASSUME PrepareInv, Prepare!MergeSource, NEW ip \in Ips
    PROVE  FilterFits(ip)'
<1>1. CASE outcome[next] # "ok"
  <2>1. /\ PrepareTypes /\ FilterFits(ip) /\ next' = next + 1 /\ next \in Nat \ {0}
        /\ UNCHANGED <<holds, outcome, filters, heap>>
    BY <1>1, PrepareNumbers DEF PrepareInv, Prepare!MergeSource, PrepareTypes, Prepare!reading
  <2>2. Merged(ip)' = Merged(ip)
    <3>1. 1 .. next' - 1 = (1 .. next - 1) \cup {next}
      BY <2>1
    <3> QED
      BY <1>1, <2>1, <3>1 DEF Merged
  <2>3. \A s : Prepare!Incoming(s)' = Prepare!Incoming(s)
    BY <2>1 DEF Prepare!Incoming, Prepare!Unrestricted
  <2> QED
    BY <2>1, <2>2, <2>3 DEF FilterFits
<1> QED
  BY <1>1, FilterOfOthers, FilterOfListed

LEMMA MergeSourceStep ==
    ASSUME PrepareInv, Prepare!MergeSource
    PROVE  PrepareInv'
<1>1. PrepareTypes /\ ReadsFit
  BY DEF PrepareInv
<1>2. /\ main = "merging" /\ ~prepareCancelled /\ next <= NSources /\ next' = next + 1
      /\ UNCHANGED <<holds, phase, url, outcome, prepareCancelled, main>>
      /\ next \in Prepare!Sources /\ next' \in 1 .. NSources + 1
      /\ result' = [result EXCEPT !.entries = IF outcome[next] = "ok" THEN @ \o holds[next].entries ELSE @,
                                  !.statuses = Append(@, outcome[next])]
  BY <1>1, PrepareNumbers DEF Prepare!MergeSource, PrepareTypes, Prepare!reading
<1>3. filters' \in [Ips -> [kind : {"none", "unrestricted", "matchNone", "codes"},
                            mode : {"none", "allow", "deny"}, codes : Cells]]
  <2>1. CASE outcome[next] # "ok"
    BY <1>1, <2>1 DEF Prepare!MergeSource, PrepareTypes
  <2>2. CASE outcome[next] = "ok"
    <3>1. /\ CellsFit
          /\ filters' = [ip \in Ips |-> IF ip \in Listed THEN Prepare!Merge(next, ip) ELSE filters[ip]]
      BY <2>2, FiltersAfter
    <3>2. \A ip \in Ips : Prepare!Merge(next, ip) \in
              [kind : {"none", "unrestricted", "matchNone", "codes"},
               mode : {"none", "allow", "deny"}, codes : Cells]
      BY <1>1, <1>2, <3>1, MergeIs
    <3> QED
      BY <1>1, <3>1, <3>2 DEF PrepareTypes
  <2> QED
    BY <2>1, <2>2
<1>4. result' \in [entries : Seq(Ips), statuses : Seq(Outcomes), error : BOOLEAN]
  <2>1. /\ result \in [entries : Seq(Ips), statuses : Seq(Outcomes), error : BOOLEAN]
        /\ outcome[next] \in Outcomes /\ holds[next].entries \in Seq(Ips)
    BY <1>1, <1>2, PrepareNumbers DEF PrepareTypes
  <2>2. /\ Append(result.statuses, outcome[next]) \in Seq(Outcomes)
        /\ result.entries \o holds[next].entries \in Seq(Ips)
    BY <2>1
  <2> QED
    BY <1>2, <2>1, <2>2
<1>5. PrepareTypes'
  BY <1>1, <1>2, <1>3, <1>4 DEF PrepareTypes
<1>6. ReadsFit'
  BY <1>1, <1>2 DEF ReadsFit, Prepare!AllDone
<1> QED
  BY <1>5, <1>6, ResultStep, CellsStep, FiltersStep DEF PrepareInv

LEMMA ReturnStep ==
    ASSUME PrepareInv, Prepare!Return
    PROVE  PrepareInv'
<1>1. PrepareTypes /\ ReadsFit /\ ResultFits /\ CellsFit /\ \A ip \in Ips : FilterFits(ip)
  BY DEF PrepareInv, Prepare!Return
<1>2. /\ main = "merging" /\ main' = "returned" /\ ~prepareCancelled /\ next = NSources + 1
      /\ UNCHANGED <<holds, phase, url, outcome, prepareCancelled, next, filters, heap>>
      /\ \E e \in BOOLEAN : /\ result' = [result EXCEPT !.error = e]
                            /\ e => \/ result.entries = <<>>
                                    \/ \E s \in Prepare!Sources : outcome[s] = "fatal"
  BY DEF Prepare!Return, Prepare!reading
<1>3. result \in [entries : Seq(Ips), statuses : Seq(Outcomes), error : BOOLEAN]
  BY <1>1 DEF PrepareTypes
<1>4. /\ result' \in [entries : Seq(Ips), statuses : Seq(Outcomes), error : BOOLEAN]
      /\ result'.entries = result.entries /\ result'.statuses = result.statuses
      /\ result'.error => \/ result.entries = <<>>
                          \/ \E s \in Prepare!Sources : outcome[s] = "fatal"
  BY <1>2, <1>3
<1>5. PrepareTypes'
  BY <1>1, <1>2, <1>4 DEF PrepareTypes
<1>6. ReadsFit'
  BY <1>1, <1>2 DEF ReadsFit, Prepare!AllDone
<1>7. ResultFits' /\ CellsFit'
  BY <1>1, <1>2, <1>4 DEF ResultFits, CellsFit, Given
<1>8. ASSUME NEW ip \in Ips PROVE FilterFits(ip)'
  <2>1. Merged(ip)' = Merged(ip)
    BY <1>2 DEF Merged
  <2>2. \A s : Prepare!Incoming(s)' = Prepare!Incoming(s)
    BY <1>2 DEF Prepare!Incoming, Prepare!Unrestricted
  <2> QED
    BY <1>1, <1>2, <2>1, <2>2 DEF FilterFits
<1> QED
  BY <1>5, <1>6, <1>7, <1>8 DEF PrepareInv

LEMMA PrepareStep ==
    ASSUME PrepareInv, [Prepare!Next]_prepareVars
    PROVE  PrepareInv'
<1>1. CASE UNCHANGED prepareVars
  <2>1. PrepareTypes' = PrepareTypes /\ ReadsFit' = ReadsFit
    BY <1>1 DEF prepareVars, PrepareTypes, ReadsFit, Prepare!AllDone
  <2>2. ResultFits' = ResultFits /\ CellsFit' = CellsFit
    BY <1>1 DEF prepareVars, ResultFits, CellsFit, Given
  <2>3. ASSUME NEW ip PROVE FilterFits(ip)' = FilterFits(ip)
    <3>1. Merged(ip)' = Merged(ip)
      BY <1>1 DEF Merged, prepareVars
    <3>2. \A s : Prepare!Incoming(s)' = Prepare!Incoming(s)
      BY <1>1 DEF Prepare!Incoming, Prepare!Unrestricted, prepareVars
    <3> QED
      BY <1>1, <3>1, <3>2 DEF FilterFits, prepareVars
  <2>4. prepareCancelled' = prepareCancelled
    BY <1>1 DEF prepareVars
  <2> QED
    BY <2>1, <2>2, <2>3, <2>4 DEF PrepareInv
<1>2. CASE Prepare!Next
  BY <1>2, CancelStep, BeginMergeStep, MergeSourceStep, ReturnStep, SourceStep
  DEF Prepare!Next, Prepare!Main
<1> QED
  BY <1>1, <1>2

LEMMA PrepareInit ==
    ASSUME Prepare!Init
    PROVE  PrepareInv
<1>1. PrepareTypes
  <2>1. Prepare!NoFilter \in [kind : {"none", "unrestricted", "matchNone", "codes"},
                              mode : {"none", "allow", "deny"}, codes : Cells]
    BY DEF Prepare!NoFilter, Cells
  <2>2. {s \in Prepare!Sources : phase[s] = "reading"} = {}
    BY DEF Prepare!Init
  <2>3. Prepare!Cardinality({}) <= Concurrency
    BY CountingSources, PrepareNumbers
  <2>4. next = 1 /\ 1 \in 1 .. NSources + 1 /\ 1 \in 1 .. MaxUrls
    BY PrepareNumbers DEF Prepare!Init
  <2>5. result \in [entries : Seq(Ips), statuses : Seq(Outcomes), error : BOOLEAN]
    BY EmptySeq DEF Prepare!Init
  <2> QED
    BY <2>1, <2>2, <2>3, <2>4, <2>5 DEF PrepareTypes, Prepare!Init, Outcomes
<1>2. ReadsFit
  BY DEF Prepare!Init, ReadsFit
<1>3. next = 1 /\ 1 .. next - 1 = {} /\ \A ip : Merged(ip) = {}
  BY DEF Prepare!Init, Merged
<1>4. ResultFits
  BY <1>3 DEF Prepare!Init, ResultFits
<1>5. CellsFit
  BY DEF Prepare!Init, CellsFit, Prepare!NoFilter
<1>6. \A ip \in Ips : FilterFits(ip)
  BY <1>3 DEF Prepare!Init, FilterFits, Prepare!NoFilter
<1> QED
  BY <1>1, <1>2, <1>4, <1>5, <1>6 DEF PrepareInv

-----------------------------------------------------------------------------
(* What the invariant promises of the preparation.                         *)

LEMMA AddressPasses ==
    ASSUME PrepareInv, main = "returned", ~prepareCancelled, NEW ip \in Ips, NEW colo,
           Prepare!SourcesOf(ip) # {},
           \A s, t \in Prepare!SourcesOf(ip) : s = t \/ holds[s].mode = "allow"
    PROVE  LET f == filters[ip]
               passes == Prepare!PassesFilter(f, Prepare!Codes(f), colo)
               passesAny == \E s \in Prepare!SourcesOf(ip) : Prepare!PassesSource(s, colo)
           IN  /\ passesAny => passes
               /\ passes => \/ passesAny
                            \/ \E s \in Prepare!SourcesOf(ip) : Prepare!Incoming(s).kind = "matchNone"
<1> DEFINE f == filters[ip]
<1>1. PrepareTypes /\ ReadsFit /\ CellsFit /\ FilterFits(ip)
  BY DEF PrepareInv
<1>2. Prepare!SourcesOf(ip) = Merged(ip) /\ Merged(ip) \subseteq Prepare!Sources
  <2>1. 1 .. next - 1 = Prepare!Sources
    BY <1>1, PrepareNumbers DEF ReadsFit
  <2> QED
    BY <2>1 DEF Merged, Prepare!SourcesOf
<1>3. ASSUME NEW s \in Merged(ip)
      PROVE  /\ Prepare!Incoming(s).kind \in {"codes", "matchNone", "unrestricted"}
             /\ holds[s].mode \in {"allow", "deny"}
             /\ Prepare!Incoming(s).kind = "unrestricted" => Prepare!PassesSource(s, colo)
             /\ Prepare!Incoming(s).kind = "matchNone" => ~Prepare!PassesSource(s, colo)
             /\ Prepare!Incoming(s).kind = "codes" =>
                  (Prepare!PassesSource(s, colo) <=> (holds[s].mode = "allow" <=> colo \in holds[s].colos))
  <2>1. s \in Prepare!Sources
    BY <1>2
  <2> QED
    BY <1>1, <2>1, IncomingIs DEF Prepare!PassesSource, Prepare!PassesFilter
<1>4. \/ f.kind = "unrestricted"
         /\ \E s \in Merged(ip) : Prepare!Incoming(s).kind = "unrestricted"
      \/ f.kind = "matchNone" /\ f.mode = "allow"
         /\ \A s \in Merged(ip) : Prepare!Incoming(s).kind = "matchNone"
      \/ /\ f.kind = "codes"
         /\ \A s \in Merged(ip) : /\ Prepare!Incoming(s).kind # "unrestricted"
                                  /\ holds[s].mode = f.mode
                                  /\ holds[s].colos \subseteq heap[f.codes]
         /\ \/ \E s \in Merged(ip) : Prepare!Incoming(s).kind = "matchNone"
            \/ /\ f.codes[2] = ip
               /\ heap[f.codes] \subseteq UNION {holds[s].colos : s \in Merged(ip)}
  BY <1>1, <1>2 DEF FilterFits
<1> DEFINE passes == Prepare!PassesFilter(f, Prepare!Codes(f), colo)
<1>5. CASE f.kind = "unrestricted" /\ \E s \in Merged(ip) : Prepare!Incoming(s).kind = "unrestricted"
  <2>1. passes
    BY <1>5 DEF Prepare!PassesFilter
  <2> QED
    BY <1>2, <1>3, <1>5, <2>1
<1>6. CASE f.kind = "matchNone" /\ \A s \in Merged(ip) : Prepare!Incoming(s).kind = "matchNone"
  <2>1. ~passes
    BY <1>6 DEF Prepare!PassesFilter
  <2> QED
    BY <1>2, <1>3, <1>6, <2>1
<1>7. CASE /\ f.kind = "codes"
           /\ \A s \in Merged(ip) : /\ Prepare!Incoming(s).kind # "unrestricted"
                                    /\ holds[s].mode = f.mode
                                    /\ holds[s].colos \subseteq heap[f.codes]
           /\ \/ \E s \in Merged(ip) : Prepare!Incoming(s).kind = "matchNone"
              \/ /\ f.codes[2] = ip
                 /\ heap[f.codes] \subseteq UNION {holds[s].colos : s \in Merged(ip)}
  <2>1. passes <=> (f.mode = "allow" <=> colo \in heap[f.codes])
    BY <1>1, <1>7 DEF Prepare!PassesFilter, Prepare!Codes, CellsFit
  <2> HIDE DEF passes
  <2>2. ASSUME NEW s \in Merged(ip), Prepare!PassesSource(s, colo) PROVE passes
    <3>1. /\ Prepare!Incoming(s).kind = "codes" /\ holds[s].mode = f.mode
          /\ holds[s].colos \subseteq heap[f.codes]
          /\ holds[s].mode = "allow" <=> colo \in holds[s].colos
      BY <1>3, <1>7, <2>2
    <3>2. CASE f.mode = "allow"
      BY <2>1, <3>1, <3>2
    <3>3. CASE f.mode # "allow"
      <4>1. \A t \in Merged(ip) : t = s
        BY <1>2, <3>1, <3>3
      <4>2. \/ heap[f.codes] \subseteq holds[s].colos
            \/ Prepare!Incoming(s).kind = "matchNone"
        BY <1>7, <4>1
      <4> QED
        BY <2>1, <3>1, <3>3, <4>2
    <3> QED
      BY <3>2, <3>3
  <2>3. ASSUME passes, \A s \in Merged(ip) : Prepare!Incoming(s).kind # "matchNone"
        PROVE  \E s \in Merged(ip) : Prepare!PassesSource(s, colo)
    <3>1. heap[f.codes] \subseteq UNION {holds[s].colos : s \in Merged(ip)}
      BY <1>7, <2>3
    <3>2. \A s \in Merged(ip) : Prepare!PassesSource(s, colo) <=> (f.mode = "allow" <=> colo \in holds[s].colos)
      BY <1>3, <1>7, <2>3
    <3>3. CASE f.mode = "allow"
      BY <2>1, <2>3, <3>1, <3>2, <3>3
    <3>4. CASE f.mode # "allow"
      BY <1>2, <1>7, <2>1, <2>3, <3>2, <3>4
    <3> QED
      BY <3>3, <3>4
  <2> QED
    BY <1>2, <2>2, <2>3 DEF passes
<1> QED
  BY <1>4, <1>5, <1>6, <1>7

LEMMA PrepareInvIsSafe ==
    ASSUME PrepareInv
    PROVE  Prepare!Safety
<1>1. PrepareTypes /\ ReadsFit
  BY DEF PrepareInv
<1>2. Prepare!TypeOK
  BY <1>1, PrepareNumbers DEF PrepareTypes, Prepare!TypeOK, Outcomes
<1>3. Prepare!MergeAfterReads
  BY <1>1 DEF ReadsFit, Prepare!MergeAfterReads
<1> SUFFICES ASSUME main = "returned", ~prepareCancelled
    PROVE Prepare!ResultOfReadings /\ Prepare!FailureIsolated /\ Prepare!PassAny
  BY <1>2, <1>3 DEF Prepare!Safety, Prepare!ResultOfReadings, Prepare!FailureIsolated, Prepare!PassAny
<1>4. /\ ResultFits /\ CellsFit /\ next = NSources + 1 /\ next - 1 = NSources /\ next # 1
      /\ Prepare!AllDone /\ Prepare!Sources = 1 .. NSources
  BY <1>1, PrepareNumbers DEF PrepareInv, ReadsFit
<1>5. Prepare!ResultOfReadings
  <2>1. result.statuses = [s \in 1 .. NSources |-> outcome[s]]
    BY <1>4 DEF ResultFits
  <2>2. result.entries = Prepare!FlattenSeq([s \in 1 .. NSources |->
               IF outcome[s] = "ok" THEN holds[s].entries ELSE <<>>])
    BY <1>4 DEF ResultFits, Given
  <2>3. \A s \in Prepare!Sources : outcome[s] = "none" => phase[s] = "disabled"
    BY <1>1, <1>4 DEF ReadsFit, Prepare!AllDone
  <2> QED
    BY <2>1, <2>2, <2>3 DEF Prepare!ResultOfReadings
<1>6. Prepare!FailureIsolated
  BY <1>4 DEF Prepare!FailureIsolated, ResultFits, Given
<1>7. Prepare!PassAny
  BY AddressPasses DEF Prepare!PassAny
<1> QED
  BY <1>5, <1>6, <1>7


-----------------------------------------------------------------------------
(* The candidate pool of one source: sequences and their elements.         *)

LEMMA JoinSet ==
    ASSUME NEW T, NEW x \in Seq(T), NEW y \in Seq(T), NEW z, IsJoin(z, x, y)
    PROVE  z \in Seq(T) /\ Pool!ToSet(z) = Pool!ToSet(x) \cup Pool!ToSet(y)
<1>1. /\ z \in Seq(T) /\ Len(z) = Len(x) + Len(y) /\ Len(x) \in Nat /\ Len(y) \in Nat
      /\ DOMAIN z = 1 .. Len(z) /\ DOMAIN x = 1 .. Len(x) /\ DOMAIN y = 1 .. Len(y)
      /\ \A i \in 1 .. Len(z) : z[i] = IF i <= Len(x) THEN x[i] ELSE y[i - Len(x)]
  BY DEF IsJoin
<1>2. ASSUME NEW e \in Pool!ToSet(z) PROVE e \in Pool!ToSet(x) \cup Pool!ToSet(y)
  <2>1. PICK i \in 1 .. Len(z) : e = z[i]
    BY <1>1 DEF Pool!ToSet
  <2>2. CASE i <= Len(x)
    <3>1. e = x[i] /\ i \in DOMAIN x
      BY <1>1, <2>1, <2>2
    <3> QED
      BY <3>1 DEF Pool!ToSet
  <2>3. CASE ~(i <= Len(x))
    <3> DEFINE k == i - Len(x)
    <3>1. e = y[k] /\ k \in DOMAIN y
      BY <1>1, <2>1, <2>3
    <3> HIDE DEF k
    <3> QED
      BY <3>1 DEF Pool!ToSet
  <2> QED
    BY <2>2, <2>3
<1>3. ASSUME NEW e \in Pool!ToSet(x) PROVE e \in Pool!ToSet(z)
  <2>1. PICK i \in 1 .. Len(x) : e = x[i]
    BY <1>1 DEF Pool!ToSet
  <2>2. i \in 1 .. Len(z) /\ z[i] = e
    BY <1>1, <2>1
  <2> QED
    BY <1>1, <2>2 DEF Pool!ToSet
<1>4. ASSUME NEW e \in Pool!ToSet(y) PROVE e \in Pool!ToSet(z)
  <2>1. PICK i \in 1 .. Len(y) : e = y[i]
    BY <1>1 DEF Pool!ToSet
  <2> DEFINE k == i + Len(x)
  <2>2. k \in 1 .. Len(z) /\ ~(k <= Len(x)) /\ k - Len(x) = i
    BY <1>1
  <2> HIDE DEF k
  <2>3. z[k] = e
    BY <1>1, <2>1, <2>2
  <2> QED
    BY <1>1, <2>2, <2>3 DEF Pool!ToSet
<1> QED
  BY <1>1, <1>2, <1>3, <1>4

\* What is concatenated has the elements of all.
AllOf(ss, n) == UNION {Pool!ToSet(ss[i]) : i \in 1 .. n}
IsWhole(s, T, ss, n) == s \in Seq(T) /\ Pool!ToSet(s) = AllOf(ss, n)
LEMMA FlattenSet ==
    ASSUME NEW T, NEW ss, NEW n \in Nat, Len(ss) = n, n = 0 => ss = <<>>,
           \A i \in 1 .. n : ss[i] \in Seq(T)
    PROVE  /\ Pool!FlattenSeq(ss) \in Seq(T)
           /\ Pool!ToSet(Pool!FlattenSeq(ss)) = AllOf(ss, n)
<1>1. CASE n = 0
  <2>1. Pool!FlattenSeq(ss) = <<>>
    BY <1>1 DEF Pool!FlattenSeq
  <2> QED
    BY <1>1, <2>1, EmptySeq DEF Pool!ToSet, AllOf
<1>2. CASE n # 0
  <2>1. PICK f : Flattens(f, ss, n) /\ Pool!FlattenSeq(ss) = f[n]
    BY <1>2, FlattenIs
  <2> DEFINE G == {i \in Nat : i # 0 => IsWhole(f[i], T, ss, i)}
  <2>2. 0 \in G
    OBVIOUS
  <2>3. ASSUME NEW i \in 0 .. n - 1, i \in G PROVE i + 1 \in G
    <3>1. f[i + 1] = IF i = 0 THEN ss[i + 1] ELSE f[i] \o ss[i + 1]
      BY <2>1, FlattensAt
    <3>2. i + 1 \in 1 .. n /\ 1 .. i + 1 = (1 .. i) \cup {i + 1}
      OBVIOUS
    <3>3. ss[i + 1] \in Seq(T)
      BY <3>2
    <3>4. AllOf(ss, i + 1) = AllOf(ss, i) \cup Pool!ToSet(ss[i + 1])
      BY <3>2 DEF AllOf
    <3>5. IsWhole(f[i + 1], T, ss, i + 1)
      <4>1. CASE i = 0
        <5>1. AllOf(ss, i) = {}
          BY <4>1 DEF AllOf
        <5> QED
          BY <3>1, <3>3, <3>4, <4>1, <5>1 DEF IsWhole
      <4>2. CASE i # 0
        <5>1. IsJoin(f[i + 1], f[i], ss[i + 1])
          BY <3>1, <4>2 DEF IsJoin
        <5>2. f[i] \in Seq(T) /\ Pool!ToSet(f[i]) = AllOf(ss, i)
          BY <2>3, <4>2 DEF IsWhole
        <5>3. /\ f[i + 1] \in Seq(T)
              /\ Pool!ToSet(f[i + 1]) = Pool!ToSet(f[i]) \cup Pool!ToSet(ss[i + 1])
          BY <3>3, <5>1, <5>2, JoinSet
        <5> QED
          BY <3>4, <5>2, <5>3 DEF IsWhole
      <4> QED
        BY <4>1, <4>2
    <3> QED
      BY <3>2, <3>5
  <2>4. 0 .. n \subseteq G
    <3> HIDE DEF G
    <3> QED
      BY <2>2, <2>3, UpTo
  <2>5. n \in G
    BY <2>4
  <2> QED
    BY <1>2, <2>1, <2>5 DEF IsWhole
<1> QED
  BY <1>1, <1>2

LEMMA PoolNumbers ==
    /\ PoolLimit \in Nat \ {0} /\ ParseFactor \in Nat \ {0} /\ Limits \subseteq Int \ {0}
    /\ \A t \in Tokens : /\ AddressesOf[t] \in Seq(Nat) /\ Sub[t] \in Seq(Tokens)
                         /\ \A i, j \in DOMAIN AddressesOf[t] :
                              Key[AddressesOf[t][i]] = Key[AddressesOf[t][j]] => i = j
    /\ \A x \in Pool!Sources : x.list \in Seq(Tokens) /\ x.limit \in Int \ {0}
<1>1. ASSUME NEW x \in Pool!Sources PROVE x.list \in Seq(Tokens)
  <2>1. x.list \in UNION {[1 .. m -> Tokens] : m \in 0 .. MaxTokens}
    BY DEF Pool!Sources, Pool!BoundedSeq, Pool!SeqOf
  <2>2. PICK m \in 0 .. MaxTokens : x.list \in [1 .. m -> Tokens]
    BY <2>1
  <2>3. m \in Nat
    OBVIOUS
  <2> QED
    BY <2>2, <2>3
<1>2. ASSUME NEW x \in Pool!Sources PROVE x.limit \in Int \ {0}
  BY PoolAssumption DEF Pool!Sources, Pool!NumbersAssumption
<1> QED
  BY <1>1, <1>2, PoolAssumption DEF Pool!NumbersAssumption, Pool!TokensAssumption


\* A sequence of addresses of different networks.
OneEach(s) == \A i, j \in DOMAIN s : Key[s[i]] = Key[s[j]] => i = j

LEMMA NetworksAre == \A s : Pool!Networks(s) = {Key[a] : a \in Pool!ToSet(s)}
  BY DEF Pool!Networks, Pool!ToSet

\* What is selected from the addresses of a token.
LEMMA Selected ==
    ASSUME NEW s \in Seq(Nat), NEW S
    PROVE  LET t == Pool!OnlyIn(s, S) IN
           /\ t \in Seq(Nat) /\ Len(t) <= Len(s) /\ Pool!ToSet(t) = Pool!ToSet(s) \cap S
           /\ OneEach(s) => OneEach(t)
<1> DEFINE t == OnlyIn(s, S)
<1>1. Pool!OnlyIn(s, S) = t
  BY DEF Pool!OnlyIn, OnlyIn
<1>2. t \in Seq(Nat) /\ Len(t) <= Len(s) /\ \E h : Follows(h, t, s, S, Len(s))
  BY OnlyInParts DEF IsPart
<1> HIDE DEF t
<1>3. PICK h : Follows(h, t, s, S, Len(s))
  BY <1>2
<1>4. /\ h \in [1 .. Len(t) -> 1 .. Len(s)]
      /\ \A k \in 1 .. Len(t) : t[k] = s[h[k]] /\ t[k] \in S
      /\ \A k, l \in 1 .. Len(t) : k < l => h[k] < h[l]
      /\ \A j \in 1 .. Len(s) : s[j] \in S => \E k \in 1 .. Len(t) : h[k] = j
  BY <1>3 DEF Follows
<1>5. DOMAIN t = 1 .. Len(t) /\ DOMAIN s = 1 .. Len(s) /\ Len(t) \in Nat /\ Len(s) \in Nat
  BY <1>2
<1>6. Pool!ToSet(t) = Pool!ToSet(s) \cap S
  <2>1. ASSUME NEW e \in Pool!ToSet(t) PROVE e \in Pool!ToSet(s) \cap S
    <3>1. PICK k \in 1 .. Len(t) : e = t[k]
      BY <1>5 DEF Pool!ToSet
    <3> QED
      BY <1>4, <1>5, <3>1 DEF Pool!ToSet
  <2>2. ASSUME NEW e \in Pool!ToSet(s) \cap S PROVE e \in Pool!ToSet(t)
    <3>1. PICK j \in 1 .. Len(s) : e = s[j]
      BY <1>5 DEF Pool!ToSet
    <3>2. PICK k \in 1 .. Len(t) : h[k] = j
      BY <1>4, <3>1
    <3>3. t[k] = e
      BY <1>4, <3>1, <3>2
    <3> QED
      BY <1>5, <3>3 DEF Pool!ToSet
  <2> QED
    BY <2>1, <2>2
<1>7. ASSUME OneEach(s), NEW k \in DOMAIN t, NEW l \in DOMAIN t, Key[t[k]] = Key[t[l]] PROVE k = l
  <2>1. k \in 1 .. Len(t) /\ l \in 1 .. Len(t) /\ h[k] \in 1 .. Len(s) /\ h[l] \in 1 .. Len(s)
    BY <1>4, <1>5
  <2>2. Key[s[h[k]]] = Key[s[h[l]]]
    BY <1>4, <1>7, <2>1
  <2>3. h[k] = h[l]
    BY <1>5, <1>7, <2>1, <2>2 DEF OneEach
  <2>4. ~(k < l) /\ ~(l < k)
    BY <1>4, <2>1, <2>3
  <2> QED
    BY <2>1, <2>4
<1> QED
  BY <1>1, <1>2, <1>6, <1>7 DEF OneEach

LEMMA JoinOneEach ==
    ASSUME NEW x \in Seq(Nat), NEW y \in Seq(Nat), NEW z, IsJoin(z, x, y), OneEach(x), OneEach(y),
           Pool!Networks(x) \cap Pool!Networks(y) = {}
    PROVE  OneEach(z) /\ Len(z) = Len(x) + Len(y)
<1>1. /\ Len(z) = Len(x) + Len(y) /\ Len(x) \in Nat /\ Len(y) \in Nat
      /\ DOMAIN z = 1 .. Len(z) /\ DOMAIN x = 1 .. Len(x) /\ DOMAIN y = 1 .. Len(y)
      /\ \A i \in 1 .. Len(z) : z[i] = IF i <= Len(x) THEN x[i] ELSE y[i - Len(x)]
  BY DEF IsJoin
<1>2. ASSUME NEW i \in 1 .. Len(x), NEW j \in 1 .. Len(y) PROVE Key[x[i]] # Key[y[j]]
  BY <1>1 DEF Pool!Networks
<1>3. ASSUME NEW i \in DOMAIN z, NEW j \in DOMAIN z, Key[z[i]] = Key[z[j]], i <= j PROVE i = j
  <2>0. i \in 1 .. Len(z) /\ j \in 1 .. Len(z)
    BY <1>1
  <2>1. CASE j <= Len(x)
    <3>1. i \in DOMAIN x /\ j \in DOMAIN x /\ z[i] = x[i] /\ z[j] = x[j]
      BY <1>1, <1>3, <2>0, <2>1
    <3> QED
      BY <1>3, <3>1 DEF OneEach
  <2>2. CASE i <= Len(x) /\ ~(j <= Len(x))
    <3> DEFINE l == j - Len(x)
    <3>1. i \in 1 .. Len(x) /\ l \in 1 .. Len(y) /\ z[i] = x[i] /\ z[j] = y[l]
      BY <1>1, <2>0, <2>2
    <3> HIDE DEF l
    <3> QED
      BY <1>2, <1>3, <3>1
  <2>3. CASE ~(i <= Len(x))
    <3> DEFINE k == i - Len(x)
               l == j - Len(x)
    <3>1. k \in DOMAIN y /\ l \in DOMAIN y /\ z[i] = y[k] /\ z[j] = y[l]
      BY <1>1, <1>3, <2>0, <2>3
    <3>2. k = l
      <4> HIDE DEF k, l
      <4> QED
        BY <1>3, <3>1 DEF OneEach
    <3> QED
      BY <1>1, <2>0, <3>2
  <2> QED
    BY <1>1, <1>3, <2>0, <2>1, <2>2, <2>3
<1>4. ASSUME NEW i \in DOMAIN z, NEW j \in DOMAIN z, Key[z[i]] = Key[z[j]] PROVE i = j
  <2>1. i <= j \/ j <= i
    BY <1>1
  <2> QED
    BY <1>3, <1>4, <2>1
<1> QED
  BY <1>1, <1>4 DEF OneEach

-----------------------------------------------------------------------------
(* The inductive invariant of the pool.                                    *)

PoolWarnings == {"clamped", "parse", "pool", "noMatch", "kept", "port"}

PoolTypes ==
    /\ source \in Pool!Sources
    /\ step \in {"start", "filter", "sample", "expand", "done", "error"}
    /\ tokens \in Seq(Tokens) /\ cut \in BOOLEAN
    /\ entries \in Seq(Nat) /\ warned \subseteq PoolWarnings

\* The networks of some tokens, and those the filter leaves of the source.
Around(S) == UNION {Pool!Networks(AddressesOf[t]) : t \in S}
Filtering == source.filter = "precheck"
Wanted(S) == IF Filtering /\ source.dictionary = "ok" THEN UNION {Pool!ToSet(Sub[t]) : t \in S} ELSE S
Goal == Around(Wanted(Pool!ToSet(source.list)))

\* The filter has been applied, or the warning given that it was not.
Applied ==
    Filtering => /\ source.dictionary = "missing" => "kept" \in warned
                 /\ source.dictionary = "unmatched" => source.deny

\* What is left to do has not been lost on the way, unless the parser cut it.
PoolFits ==
    /\ step = "start" => warned = {}
    /\ step \in {"start", "filter", "sample", "error"} => entries = <<>>
    /\ step = "filter" => /\ Filtering /\ Pool!ToSet(tokens) \subseteq Pool!ToSet(source.list)
                          /\ ~cut => Pool!ToSet(tokens) = Pool!ToSet(source.list)
    /\ step \in {"sample", "expand"} =>
         /\ Applied
         /\ Pool!Networks(entries) \cup Around(Pool!ToSet(tokens)) \subseteq Goal
         /\ ~cut => Goal \subseteq Pool!Networks(entries) \cup Around(Pool!ToSet(tokens))
    /\ step = "sample" => source.mode = "mcis"
    /\ step = "done" =>
         /\ Applied \/ entries = <<>>
         /\ Pool!Networks(entries) \subseteq Goal
         /\ source.mode = "traverse" /\ warned \cap {"parse", "pool", "noMatch"} = {}
              => Goal \subseteq Pool!Networks(entries)

PoolInv == PoolTypes /\ Pool!OnePerNetwork /\ PoolFits

LEMMA LimitIs ==
    ASSUME source \in Pool!Sources
    PROVE  /\ Pool!limit \in Nat \ {0} /\ Pool!limit <= PoolLimit
           /\ Pool!ReadTokens \in Seq(Tokens)
           /\ Pool!ToSet(Pool!ReadTokens) \subseteq Pool!ToSet(source.list)
           /\ Len(Pool!ReadTokens) = Len(source.list) => Pool!ReadTokens = source.list
           /\ Len(Pool!ReadTokens) <= Len(source.list)
           /\ source.list \in Seq(Tokens)
<1>1. source.list \in Seq(Tokens) /\ source.limit \in Int \ {0}
  BY PoolNumbers
<1>2. Pool!limit \in Nat \ {0} /\ Pool!limit <= PoolLimit
  BY <1>1, PoolNumbers DEF Pool!limit
<1>3. PoolLimit * ParseFactor \in Nat
  BY PoolNumbers
<1>4. Pool!parseLimit \in Nat
  BY <1>2, <1>3 DEF Pool!parseLimit
<1> DEFINE n == IF Len(source.list) < Pool!parseLimit THEN Len(source.list) ELSE Pool!parseLimit
           r == SubSeq(source.list, 1, n)
<1>5. n \in 0 .. Len(source.list)
  BY <1>1, <1>4
<1> HIDE DEF n
<1>6. /\ r \in Seq(Tokens) /\ Len(r) = n /\ \A i \in 1 .. n : r[i] = source.list[i]
      /\ DOMAIN r = 1 .. n /\ DOMAIN source.list = 1 .. Len(source.list)
  BY <1>1, <1>5
<1>7. Pool!ToSet(r) \subseteq Pool!ToSet(source.list)
  <2>1. 1 .. n \subseteq 1 .. Len(source.list)
    BY <1>5
  <2> QED
    BY <1>6, <2>1 DEF Pool!ToSet
<1>8. Len(r) = Len(source.list) => r = source.list
  BY <1>1, <1>6
<1>9. Len(r) <= Len(source.list)
  BY <1>1, <1>5, <1>6
<1>10. Pool!ReadTokens = r \/ Pool!ReadTokens = source.list
  BY DEF Pool!ReadTokens, n
<1> HIDE DEF r
<1> QED
  BY <1>1, <1>2, <1>6, <1>7, <1>8, <1>9, <1>10


-----------------------------------------------------------------------------
(* The steps of the pool.                                                  *)

\* What the invariant says of the sources stays when the source does.
LEMMA SameSource ==
    ASSUME UNCHANGED source
    PROVE  /\ Goal' = Goal /\ Filtering' = Filtering /\ Pool!limit' = Pool!limit
           /\ \A S : Wanted(S)' = Wanted(S)
           /\ \A x : Pool!Networks(x)' = Pool!Networks(x) /\ Pool!ToSet(x)' = Pool!ToSet(x)
           /\ \A S : Around(S)' = Around(S)
  BY DEF Goal, Around, Wanted, Filtering, Pool!limit, Pool!Networks, Pool!ToSet

\* Without candidates nothing is twice in the pool.
LEMMA NoEntries ==
    ASSUME PoolTypes, entries = <<>>
    PROVE  /\ Pool!OnePerNetwork /\ Pool!Networks(entries) = {}
  BY LimitIs DEF PoolTypes, Pool!OnePerNetwork, Pool!Networks

LEMMA FailStep ==
    ASSUME PoolInv, Pool!Fail
    PROVE  PoolInv'
<1>1. /\ UNCHANGED <<source, tokens, cut, warned>> /\ step' = "error" /\ entries' = <<>> /\ PoolTypes
  BY DEF Pool!Fail, PoolInv
<1>2. PoolTypes'
  BY <1>1, EmptySeq DEF PoolTypes
<1>3. Pool!OnePerNetwork'
  BY <1>1, LimitIs DEF PoolTypes, Pool!OnePerNetwork, Pool!limit
<1> QED
  BY <1>1, <1>2, <1>3 DEF PoolInv, PoolFits

\* The steps before anything is in the pool, at their end.
LEMMA BeforeEntries ==
    ASSUME PoolInv, UNCHANGED <<source, entries>>, entries = <<>>, PoolTypes'
    PROVE  /\ Pool!OnePerNetwork' /\ Pool!Networks(entries)' = {}
           /\ PoolFits' => PoolInv'
<1>1. Pool!OnePerNetwork' /\ Pool!Networks(entries)' = {}
  BY NoEntries DEF PoolInv, PoolTypes, Pool!OnePerNetwork, Pool!Networks, Pool!limit
<1> QED
  BY <1>1 DEF PoolInv

LEMMA StartStep ==
    ASSUME PoolInv, Pool!Start
    PROVE  PoolInv'
<1>1. /\ PoolTypes /\ step = "start" /\ UNCHANGED <<source, entries>> /\ entries = <<>>
      /\ tokens' = Pool!ReadTokens /\ cut' = (Len(Pool!ReadTokens) < Len(source.list))
      /\ warned' \in {{}, {"clamped"}}
      /\ step' = IF source.list = <<>> THEN "done"
                 ELSE IF source.filter = "precheck" THEN "filter" ELSE Pool!NextStep
  BY DEF Pool!Start, PoolInv, PoolFits
<1>2. /\ tokens' \in Seq(Tokens) /\ Pool!ToSet(tokens') \subseteq Pool!ToSet(source.list)
      /\ ~cut' => tokens' = source.list
      /\ source.list \in Seq(Tokens)
  <2> DEFINE r == Pool!ReadTokens
  <2>1. /\ r \in Seq(Tokens) /\ Pool!ToSet(r) \subseteq Pool!ToSet(source.list)
        /\ Len(r) = Len(source.list) => r = source.list
        /\ Len(r) <= Len(source.list) /\ source.list \in Seq(Tokens)
    BY <1>1, LimitIs DEF PoolTypes
  <2> HIDE DEF r
  <2>2. Len(r) \in Nat /\ Len(source.list) \in Nat
    BY <2>1
  <2>3. tokens' = r /\ cut' = (Len(r) < Len(source.list))
    BY <1>1 DEF r
  <2>4. ~cut' => r = source.list
    <3>1. ~cut' => ~(Len(r) < Len(source.list))
      BY <2>3, Zenon
    <3>2. ~(Len(r) < Len(source.list)) => r = source.list
      BY <2>1, <2>2
    <3> QED
      BY <3>1, <3>2
  <2> QED
    BY <2>1, <2>3, <2>4
<1>3. PoolTypes'
  BY <1>1, <1>2 DEF PoolTypes, PoolWarnings, Pool!NextStep
<1>4. Pool!Networks(entries)' = {} /\ (PoolFits' => PoolInv')
  BY <1>1, <1>3, BeforeEntries
<1>5. CASE source.list = <<>>
  <2>1. step' = "done" /\ entries' = <<>>
    BY <1>1, <1>5
  <2>2. Goal = {}
    <3>1. Pool!ToSet(source.list) = {}
      BY <1>5 DEF Pool!ToSet
    <3> QED
      BY <3>1 DEF Goal, Wanted, Around
  <2> QED
    BY <1>1, <1>4, <2>1, <2>2, SameSource DEF PoolFits
<1>6. CASE source.list # <<>> /\ Filtering
  <2>1. step' = "filter"
    BY <1>1, <1>6 DEF Filtering
  <2>2. Pool!ToSet(tokens)' = Pool!ToSet(tokens')
    BY DEF Pool!ToSet
  <2> QED
    BY <1>1, <1>2, <1>4, <1>6, <2>1, <2>2 DEF PoolFits, Filtering
<1>7. CASE source.list # <<>> /\ ~Filtering
  <2>1. step' \in {"sample", "expand"} /\ (step' = "sample" => source.mode = "mcis")
    BY <1>1, <1>7 DEF Filtering, Pool!NextStep
  <2>2. Wanted(Pool!ToSet(source.list)) = Pool!ToSet(source.list)
    BY <1>7 DEF Wanted
  <2>3. Around(Pool!ToSet(tokens')) \subseteq Goal
    BY <1>2, <2>2 DEF Goal, Around
  <2>4. ~cut' => Goal \subseteq Around(Pool!ToSet(tokens'))
    BY <1>2, <2>2 DEF Goal
  <2>5. Around(Pool!ToSet(tokens))' = Around(Pool!ToSet(tokens'))
    BY DEF Around, Pool!Networks, Pool!ToSet
  <2> QED
    BY <1>1, <1>4, <1>7, <2>1, <2>3, <2>4, <2>5, SameSource DEF PoolFits, Applied
<1> QED
  BY <1>5, <1>6, <1>7

\* The filter leaves some tokens to read, in one of three ways.
LEMMA FilterPasses ==
    ASSUME PoolInv, step = "filter", UNCHANGED <<source, entries, cut>>, step' = Pool!NextStep,
           tokens' \in Seq(Tokens), Pool!ToSet(tokens') = Wanted(Pool!ToSet(tokens)),
           warned' \subseteq PoolWarnings, Applied'
    PROVE  PoolInv'
<1>1. /\ PoolTypes /\ Filtering /\ entries = <<>> /\ Pool!ToSet(tokens) \subseteq Pool!ToSet(source.list)
      /\ ~cut => Pool!ToSet(tokens) = Pool!ToSet(source.list)
  BY DEF PoolInv, PoolFits
<1>2. PoolTypes'
  BY <1>1 DEF PoolTypes, Pool!NextStep
<1>3. Pool!Networks(entries)' = {} /\ (PoolFits' => PoolInv')
  BY <1>1, <1>2, BeforeEntries
<1>4. step' \in {"sample", "expand"} /\ (step' = "sample" => source.mode = "mcis")
  BY DEF Pool!NextStep
<1>5. Wanted(Pool!ToSet(tokens)) \subseteq Wanted(Pool!ToSet(source.list))
  BY <1>1 DEF Wanted
<1>6. Around(Pool!ToSet(tokens')) \subseteq Goal
  BY <1>5 DEF Goal, Around
<1>7. ~cut => Goal \subseteq Around(Pool!ToSet(tokens'))
  BY <1>1 DEF Goal
<1>8. Around(Pool!ToSet(tokens))' = Around(Pool!ToSet(tokens'))
  BY DEF Around, Pool!Networks, Pool!ToSet
<1> QED
  BY <1>1, <1>3, <1>4, <1>6, <1>7, <1>8, SameSource DEF PoolFits

\* The filter keeps nothing.
LEMMA FilterEmpties ==
    ASSUME PoolInv, step = "filter", UNCHANGED <<source, entries, cut>>, step' = "done",
           tokens' \in Seq(Tokens), warned' = warned \cup {"noMatch"}
    PROVE  PoolInv'
<1>1. PoolTypes /\ entries = <<>>
  BY DEF PoolInv, PoolFits
<1>2. PoolTypes'
  BY <1>1 DEF PoolTypes, PoolWarnings
<1>3. Pool!Networks(entries)' = {} /\ (PoolFits' => PoolInv')
  BY <1>1, <1>2, BeforeEntries
<1> QED
  BY <1>1, <1>3 DEF PoolFits

LEMMA FilterStep ==
    ASSUME PoolInv, Pool!FilterMatchesNone \/ Pool!FilterUnavailable \/ Pool!Filter
    PROVE  PoolInv'
<1>1. /\ PoolTypes /\ Filtering /\ step = "filter" /\ UNCHANGED <<source, entries, cut>>
      /\ tokens \in Seq(Tokens) /\ warned \subseteq PoolWarnings
      /\ source.dictionary \in {"ok", "missing", "unmatched"}
  BY DEF PoolInv, PoolTypes, PoolFits, Pool!FilterMatchesNone, Pool!FilterUnavailable, Pool!Filter,
         Pool!Sources
<1>2. CASE Pool!FilterMatchesNone
  BY <1>1, <1>2, FilterEmpties DEF Pool!FilterMatchesNone
<1>3. CASE Pool!FilterUnavailable
  <2>1. /\ source.dictionary = "missing" /\ step' = Pool!NextStep /\ tokens' = tokens
        /\ warned' = warned \cup {"kept"}
    BY <1>3 DEF Pool!FilterUnavailable
  <2>2. Pool!ToSet(tokens') = Wanted(Pool!ToSet(tokens))
    BY <2>1 DEF Wanted
  <2>3. Applied'
    BY <1>1, <2>1 DEF Applied
  <2>4. warned' \subseteq PoolWarnings
    BY <1>1, <2>1 DEF PoolWarnings
  <2> QED
    BY <1>1, <2>1, <2>2, <2>3, <2>4, FilterPasses
<1>4. CASE Pool!Filter
  <2>1. /\ tokens' = Pool!Filtered
        /\ source.dictionary = "ok" \/ (source.dictionary = "unmatched" /\ source.deny)
        /\ \/ step' = "done" /\ warned' = warned \cup {"noMatch"}
           \/ step' = Pool!NextStep /\ warned' = warned
    BY <1>4 DEF Pool!Filter
  <2>2. Pool!Filtered \in Seq(Tokens) /\ Pool!ToSet(Pool!Filtered) = Wanted(Pool!ToSet(tokens))
    <3>1. CASE source.dictionary = "unmatched"
      BY <1>1, <3>1 DEF Pool!Filtered, Wanted
    <3>2. CASE source.dictionary = "ok"
      <4> DEFINE ss == [i \in 1 .. Len(tokens) |-> Sub[tokens[i]]]
                 n == Len(tokens)
      <4>1. n \in Nat /\ DOMAIN tokens = 1 .. n /\ \A i \in 1 .. n : tokens[i] \in Tokens
        BY <1>1
      <4>2. Len(ss) = n /\ (n = 0 => ss = <<>>) /\ \A i \in 1 .. n : ss[i] = Sub[tokens[i]]
        BY <4>1
      <4>3. \A i \in 1 .. n : ss[i] \in Seq(Tokens)
        BY <4>1, <4>2, PoolNumbers
      <4>4. Pool!Filtered = Pool!FlattenSeq(ss)
        BY <3>2 DEF Pool!Filtered
      <4>5. AllOf(ss, n) = UNION {Pool!ToSet(Sub[t]) : t \in Pool!ToSet(tokens)}
        <5> HIDE DEF ss
        <5>1. Pool!ToSet(tokens) = {tokens[i] : i \in 1 .. n}
          BY <4>1 DEF Pool!ToSet
        <5> HIDE DEF n
        <5>2. {Pool!ToSet(ss[i]) : i \in 1 .. n} = {Pool!ToSet(Sub[t]) : t \in Pool!ToSet(tokens)}
          BY <4>2, <5>1
        <5> QED
          BY <5>2 DEF AllOf
      <4>6. Wanted(Pool!ToSet(tokens)) = AllOf(ss, n)
        BY <1>1, <3>2, <4>5 DEF Wanted
      <4> HIDE DEF ss, n
      <4> QED
        BY <4>1, <4>2, <4>3, <4>4, <4>6, FlattenSet
    <3> QED
      BY <2>1, <3>1, <3>2
  <2>3. Applied'
    BY <1>1, <2>1 DEF Applied
  <2> QED
    BY <1>1, <2>1, <2>2, <2>3, FilterPasses, FilterEmpties
<1> QED
  BY <1>2, <1>3, <1>4


\* The addresses of some tokens are finitely many.
Addresses(ts, n) == UNION {Pool!ToSet(AddressesOf[ts[i]]) : i \in 1 .. n}

LEMMA FiniteAddresses ==
    ASSUME NEW ts \in Seq(Tokens)
    PROVE  IsFiniteSet(Addresses(ts, Len(ts)))
<1> DEFINE n == Len(ts)
           G == {i \in Nat : IsFiniteSet(Addresses(ts, i))}
<1>1. n \in Nat /\ \A i \in 1 .. n : ts[i] \in Tokens
  OBVIOUS
<1>2. 0 \in G
  <2>1. Addresses(ts, 0) = {}
    BY DEF Addresses
  <2> QED
    BY <2>1, FS_EmptySet
<1>3. ASSUME NEW i \in 0 .. n - 1, i \in G PROVE i + 1 \in G
  <2>1. i + 1 \in 1 .. n /\ 1 .. i + 1 = (1 .. i) \cup {i + 1}
    BY <1>1
  <2> DEFINE m == AddressesOf[ts[i + 1]]
  <2>2. m \in Seq(Nat) /\ Len(m) \in Nat /\ DOMAIN m = 1 .. Len(m)
    BY <1>1, <2>1, PoolNumbers
  <2>3. Addresses(ts, i + 1) = Addresses(ts, i) \cup Pool!ToSet(m)
    BY <2>1 DEF Addresses
  <2> HIDE DEF m
  <2>4. IsFiniteSet(Pool!ToSet(m))
    <3>1. IsFiniteSet(1 .. Len(m))
      BY <2>2, FS_Interval
    <3>2. m \in Surjection(1 .. Len(m), Pool!ToSet(m))
      BY <2>2 DEF Surjection, Pool!ToSet
    <3> QED
      BY <3>1, <3>2, FS_Surjection
  <2>5. IsFiniteSet(Addresses(ts, i + 1))
    BY <1>3, <2>3, <2>4, FS_Union
  <2> QED
    BY <2>1, <2>5
<1>4. 0 .. n \subseteq G
  <2> HIDE DEF G, n
  <2> QED
    BY <1>1, <1>2, <1>3, UpTo
<1> QED
  BY <1>1, <1>4

\* The candidates the sampler picks, as a sequence.
LEMMA PickedSeq ==
    ASSUME NEW S \in SUBSET Nat, IsFiniteSet(S),
           Pool!Cardinality({Key[a] : a \in S}) = Pool!Cardinality(S)
    PROVE  LET q == Pool!SetToSeq(S) IN
           /\ q \in Seq(Nat) /\ Len(q) = Pool!Cardinality(S) /\ Pool!ToSet(q) \subseteq S
           /\ OneEach(q)
<1> DEFINE n == Cardinality(S)
           q == Pool!SetToSeq(S)
           keys == {Key[a] : a \in S}
           key == [a \in S |-> Key[a]]
<1>1. n \in Nat /\ Pool!Cardinality(S) = n /\ Cardinality(keys) = n
  BY FS_CardinalityType, SameCardinality
<1>2. \E f \in [1 .. n -> S] : Pool!IsInjective(f)
  BY FS_CardinalityType DEF ExistsBijection, Bijection, Injection, Pool!IsInjective, IsInjective
<1>3. q \in [1 .. n -> S] /\ Pool!IsInjective(q)
  BY <1>1, <1>2 DEF Pool!SetToSeq
<1>4. key \in Surjection(S, keys)
  BY DEF Surjection
<1>5. key \in Injection(S, keys)
  <2> HIDE DEF key, keys
  <2> QED
    BY <1>1, <1>4, FS_Surjection
<1>6. \A a, b \in S : Key[a] = Key[b] => a = b
  BY <1>5 DEF Injection, IsInjective
<1> HIDE DEF q, n
<1>7. q \in Seq(Nat) /\ Len(q) = n /\ DOMAIN q = 1 .. n
  <2>1. q \in [1 .. n -> Nat] /\ n \in Nat
    BY <1>1, <1>3
  <2> QED
    BY <2>1
<1>8. Pool!ToSet(q) \subseteq S
  BY <1>3, <1>7 DEF Pool!ToSet
<1>9. OneEach(q)
  BY <1>3, <1>6, <1>7 DEF OneEach, Pool!IsInjective
<1> QED
  BY <1>1, <1>7, <1>8, <1>9 DEF q

LEMMA SampleStep ==
    ASSUME PoolInv, Pool!Sample
    PROVE  PoolInv'
<1>1. /\ PoolTypes /\ step = "sample" /\ UNCHANGED <<source, tokens, cut>> /\ step' = "done"
      /\ source.mode = "mcis" /\ Applied /\ tokens \in Seq(Tokens) /\ source \in Pool!Sources
      /\ Around(Pool!ToSet(tokens)) \subseteq Goal
  BY DEF Pool!Sample, PoolInv, PoolTypes, PoolFits
<1>2. PICK picked \in SUBSET UNION {Pool!ToSet(AddressesOf[t]) : t \in Pool!ToSet(tokens)} :
         /\ Pool!Cardinality(picked) <= Pool!limit
         /\ Pool!Cardinality({Key[a] : a \in picked}) = Pool!Cardinality(picked)
         /\ entries' = Pool!SetToSeq(picked)
         /\ warned' = warned \cup (IF Pool!Cardinality(picked) >= Pool!limit THEN {"pool"} ELSE {})
  BY DEF Pool!Sample
<1>3. Pool!ToSet(tokens) = {tokens[i] : i \in 1 .. Len(tokens)} /\ Pool!ToSet(tokens) \subseteq Tokens
  BY <1>1 DEF Pool!ToSet
<1>4. UNION {Pool!ToSet(AddressesOf[t]) : t \in Pool!ToSet(tokens)} = Addresses(tokens, Len(tokens))
  BY <1>3 DEF Addresses
<1>5. IsFiniteSet(picked)
  BY <1>1, <1>2, <1>4, FiniteAddresses, FS_Subset
<1>6. picked \subseteq Nat
  <2>1. \A t \in Tokens : Pool!ToSet(AddressesOf[t]) \subseteq Nat
    BY PoolNumbers DEF Pool!ToSet
  <2> QED
    BY <1>2, <1>3, <2>1
<1>7. /\ entries' \in Seq(Nat) /\ Len(entries') <= Pool!limit /\ Pool!ToSet(entries') \subseteq picked
      /\ OneEach(entries')
  BY <1>2, <1>5, <1>6, PickedSeq
<1>8. Pool!Networks(entries)' \subseteq Goal
  <2>1. Pool!Networks(entries') = {Key[a] : a \in Pool!ToSet(entries')}
    BY NetworksAre
  <2>2. \A a \in picked : Key[a] \in Around(Pool!ToSet(tokens))
    BY <1>2, NetworksAre DEF Around
  <2>3. Pool!Networks(entries)' = Pool!Networks(entries')
    BY DEF Pool!Networks
  <2> QED
    BY <1>1, <1>7, <2>1, <2>2, <2>3
<1>9. PoolTypes'
  <2>1. warned' \subseteq PoolWarnings
    BY <1>1, <1>2 DEF PoolTypes, PoolWarnings
  <2> QED
    BY <1>1, <1>7, <2>1 DEF PoolTypes
<1>10. Pool!OnePerNetwork'
  BY <1>1, <1>7, SameSource DEF Pool!OnePerNetwork, OneEach
<1>11. Applied'
  BY <1>1, <1>2 DEF Applied, Filtering
<1>12. PoolFits'
  BY <1>1, <1>8, <1>11, SameSource DEF PoolFits
<1> QED
  BY <1>9, <1>10, <1>12 DEF PoolInv

\* The next token of a traversal: what is taken of it, and what is left.
LEMMA ExpandedIs ==
    ASSUME NEW t \in Tokens, NEW n \in Nat \ {0}, Pool!Room = n
    PROVE  LET x == Pool!Expanded(t) IN
           /\ x \in Seq(Nat) /\ Len(x) <= n /\ OneEach(x)
           /\ Pool!ToSet(x) \subseteq Pool!ToSet(AddressesOf[t])
           /\ ~(Len(AddressesOf[t]) > n) => x = AddressesOf[t]
<1> DEFINE m == AddressesOf[t]
<1>1. m \in Seq(Nat) /\ OneEach(m) /\ Len(m) \in Nat /\ DOMAIN m = 1 .. Len(m)
  BY PoolNumbers DEF OneEach
<1>2. CASE Len(m) > n
  <2> DEFINE x == SubSeq(m, 1, n)
  <2>1. Pool!Expanded(t) = x
    BY <1>2 DEF Pool!Expanded
  <2> HIDE DEF m
  <2>2. /\ x \in Seq(Nat) /\ Len(x) = n /\ DOMAIN x = 1 .. n /\ \A i \in 1 .. n : x[i] = m[i]
    BY <1>1, <1>2
  <2>3. 1 .. n \subseteq 1 .. Len(m)
    BY <1>1, <1>2
  <2> HIDE DEF x
  <2>4. OneEach(x) /\ Pool!ToSet(x) \subseteq Pool!ToSet(m)
    BY <1>1, <2>2, <2>3 DEF OneEach, Pool!ToSet
  <2> QED
    BY <1>2, <2>1, <2>2, <2>4 DEF m
<1>3. CASE ~(Len(m) > n)
  <2>1. Pool!Expanded(t) = m
    BY <1>3 DEF Pool!Expanded
  <2>2. Len(m) <= n
    BY <1>1, <1>3
  <2> QED
    BY <1>1, <1>3, <2>1, <2>2
<1> QED
  BY <1>2, <1>3

LEMMA ExpandStep ==
    ASSUME PoolInv, Pool!Expand
    PROVE  PoolInv'
<1> DEFINE t == Head(tokens)
           n == Pool!Room
           x == Pool!Expanded(t)
           new == Pool!New(t)
<1>1. /\ PoolTypes /\ step = "expand" /\ UNCHANGED <<source, cut>> /\ tokens # <<>> /\ n > 0
      /\ entries' = entries \o new /\ tokens' = Tail(tokens)
      /\ \/ /\ Len(AddressesOf[t]) > n /\ step' = "done"
            /\ warned' = warned \cup Pool!Cuts \cup {"pool"}
         \/ ~(Len(AddressesOf[t]) > n) /\ UNCHANGED <<step, warned>>
  BY DEF Pool!Expand, PoolInv
<1>2. /\ tokens \in Seq(Tokens) /\ entries \in Seq(Nat) /\ source \in Pool!Sources
      /\ Pool!limit \in Nat /\ Len(entries) \in Nat /\ Len(entries) <= Pool!limit /\ OneEach(entries)
      /\ n = Pool!limit - Len(entries)
  BY <1>1, LimitIs DEF PoolTypes, PoolInv, Pool!OnePerNetwork, OneEach, Pool!Room
<1>3. t \in Tokens /\ tokens' \in Seq(Tokens) /\ Pool!ToSet(tokens) = {t} \cup Pool!ToSet(tokens')
  <2>1. t \in Tokens /\ tokens' \in Seq(Tokens)
    BY <1>1, <1>2
  <2>2. IsJoin(tokens, <<t>>, tokens') /\ <<t>> \in Seq(Tokens)
    BY <1>1, <1>2 DEF IsJoin
  <2>3. Pool!ToSet(<<t>>) = {t}
    BY DEF Pool!ToSet
  <2>4. Pool!ToSet(tokens) = Pool!ToSet(<<t>>) \cup Pool!ToSet(tokens')
    <3> DEFINE h == <<t>>
    <3>1. h \in Seq(Tokens) /\ IsJoin(tokens, h, tokens')
      BY <2>2
    <3> HIDE DEF t, h
    <3>2. \A a, b \in Seq(Tokens) : \A z :
             IsJoin(z, a, b) => Pool!ToSet(z) = Pool!ToSet(a) \cup Pool!ToSet(b)
      BY JoinSet
    <3>3. Pool!ToSet(tokens) = Pool!ToSet(h) \cup Pool!ToSet(tokens')
      BY <2>1, <3>1, <3>2
    <3> QED
      BY <3>3 DEF h
  <2> QED
    BY <2>1, <2>3, <2>4
<1>4. n \in Nat \ {0}
  BY <1>1, <1>2
<1> HIDE DEF n, t
<1>5. /\ x \in Seq(Nat) /\ Len(x) <= n /\ OneEach(x) /\ Pool!ToSet(x) \subseteq Pool!ToSet(AddressesOf[t])
      /\ ~(Len(AddressesOf[t]) > n) => x = AddressesOf[t]
  BY <1>3, <1>4, ExpandedIs DEF n
<1> DEFINE fresh == {a \in Pool!ToSet(x) : Key[a] \notin Pool!Networks(entries)}
<1>6. /\ new \in Seq(Nat) /\ Len(new) <= Len(x) /\ Pool!ToSet(new) = fresh /\ OneEach(new)
  <2>1. new = Pool!OnlyIn(x, fresh)
    BY DEF Pool!New
  <2> HIDE DEF x
  <2>2. Pool!ToSet(x) \cap fresh = fresh
    OBVIOUS
  <2> HIDE DEF fresh
  <2> QED
    BY <1>5, <2>1, <2>2, Selected
<1>7. Pool!Networks(entries) \cap Pool!Networks(new) = {}
      /\ Pool!Networks(entries) \cup Pool!Networks(new) = Pool!Networks(entries) \cup Pool!Networks(x)
  <2> HIDE DEF x, new
  <2> QED
    BY <1>6, NetworksAre
<1> HIDE DEF x, new, fresh
<1>8. IsJoin(entries', entries, new)
  BY <1>1 DEF IsJoin
<1>9. /\ entries' \in Seq(Nat) /\ OneEach(entries') /\ Len(entries') = Len(entries) + Len(new)
      /\ Pool!ToSet(entries') = Pool!ToSet(entries) \cup Pool!ToSet(new)
  BY <1>2, <1>6, <1>7, <1>8, JoinSet, JoinOneEach
<1>10. Len(entries') <= Pool!limit
  <2>1. Len(x) \in Nat /\ Len(new) \in Nat
    BY <1>5, <1>6
  <2> QED
    BY <1>2, <1>4, <1>5, <1>6, <1>9, <2>1
<1>11. Pool!OnePerNetwork'
  BY <1>1, <1>9, <1>10, SameSource DEF Pool!OnePerNetwork, OneEach
<1>12. PoolTypes'
  <2>1. warned' \subseteq PoolWarnings
    BY <1>1 DEF PoolTypes, PoolWarnings, Pool!Cuts
  <2> QED
    BY <1>1, <1>3, <1>9, <2>1 DEF PoolTypes
<1>13. Pool!Networks(entries)' = Pool!Networks(entries) \cup Pool!Networks(x)
  <2>1. Pool!Networks(entries)' = Pool!Networks(entries')
    BY DEF Pool!Networks
  <2> QED
    BY <1>7, <1>9, <2>1, NetworksAre
<1>14. Pool!Networks(x) \subseteq Pool!Networks(AddressesOf[t])
  BY <1>5, NetworksAre
<1>15. /\ Around(Pool!ToSet(tokens)) = Pool!Networks(AddressesOf[t]) \cup Around(Pool!ToSet(tokens'))
       /\ Around(Pool!ToSet(tokens))' = Around(Pool!ToSet(tokens'))
  <2>1. Around(Pool!ToSet(tokens)) = Pool!Networks(AddressesOf[t]) \cup Around(Pool!ToSet(tokens'))
    BY <1>3 DEF Around
  <2>2. Around(Pool!ToSet(tokens))' = Around(Pool!ToSet(tokens'))
    BY DEF Around, Pool!Networks, Pool!ToSet
  <2> QED
    BY <2>1, <2>2
<1>16. /\ Applied /\ Pool!Networks(entries) \cup Around(Pool!ToSet(tokens)) \subseteq Goal
       /\ ~cut => Goal \subseteq Pool!Networks(entries) \cup Around(Pool!ToSet(tokens))
  BY <1>1 DEF PoolInv, PoolFits
<1>17. Applied'
  BY <1>1, <1>16 DEF Applied, Filtering
<1>18. Pool!Networks(entries)' \cup Around(Pool!ToSet(tokens))' \subseteq Goal
  BY <1>13, <1>14, <1>15, <1>16
<1>19. CASE step' = "done" /\ "pool" \in warned'
  BY <1>1, <1>11, <1>12, <1>17, <1>18, <1>19, SameSource DEF PoolInv, PoolFits
<1>20. CASE ~(Len(AddressesOf[t]) > n) /\ step' = "expand"
  <2>1. ~cut => Goal \subseteq Pool!Networks(entries)' \cup Around(Pool!ToSet(tokens))'
    BY <1>5, <1>13, <1>15, <1>16, <1>20
  <2> QED
    BY <1>1, <1>11, <1>12, <1>17, <1>18, <1>20, <2>1, SameSource DEF PoolInv, PoolFits
<1> QED
  BY <1>1, <1>19, <1>20

\* A traversal ends.
LEMMA EndStep ==
    ASSUME PoolInv, Pool!PoolFull \/ Pool!Exhausted
    PROVE  PoolInv'
<1>1. /\ PoolTypes /\ step = "expand" /\ UNCHANGED <<source, tokens, cut, entries>> /\ step' = "done"
      /\ \/ "pool" \in warned' \/ (tokens = <<>> /\ (cut => "parse" \in warned'))
      /\ warned \subseteq warned' /\ warned' \subseteq warned \cup {"parse", "pool"}
  BY DEF Pool!PoolFull, Pool!Exhausted, Pool!Cuts, PoolInv
<1>2. PoolTypes'
  BY <1>1 DEF PoolTypes, PoolWarnings
<1>3. Pool!OnePerNetwork'
  BY <1>1 DEF PoolInv, Pool!OnePerNetwork, Pool!limit
<1>4. Pool!Networks(entries)' = Pool!Networks(entries)
  BY <1>1 DEF Pool!Networks
<1>5. /\ Applied /\ Pool!Networks(entries) \cup Around(Pool!ToSet(tokens)) \subseteq Goal
      /\ ~cut => Goal \subseteq Pool!Networks(entries) \cup Around(Pool!ToSet(tokens))
  BY <1>1 DEF PoolInv, PoolFits
<1>6. Applied'
  BY <1>1, <1>5 DEF Applied, Filtering
<1>7. tokens = <<>> => Around(Pool!ToSet(tokens)) = {}
  <2> SUFFICES ASSUME tokens = <<>> PROVE Around(Pool!ToSet(tokens)) = {}
    OBVIOUS
  <2>1. Pool!ToSet(tokens) = {}
    BY DEF Pool!ToSet
  <2> QED
    BY <2>1 DEF Around
<1>8. PoolFits'
  BY <1>1, <1>4, <1>5, <1>6, <1>7, SameSource DEF PoolFits
<1> QED
  BY <1>2, <1>3, <1>8 DEF PoolInv

LEMMA PoolStep ==
    ASSUME PoolInv, [Pool!Next]_poolVars
    PROVE  PoolInv'
<1>1. CASE UNCHANGED poolVars
  <2>1. PoolTypes' = PoolTypes /\ Pool!OnePerNetwork' = Pool!OnePerNetwork
    BY <1>1 DEF poolVars, PoolTypes, Pool!OnePerNetwork, Pool!limit
  <2>2. PoolFits' = PoolFits
    <3>1. UNCHANGED <<source, step, tokens, cut, entries, warned>>
      BY <1>1 DEF poolVars
    <3> QED
      BY <3>1, SameSource DEF PoolFits, Applied, Filtering
  <2> QED
    BY <2>1, <2>2 DEF PoolInv
<1>2. CASE Pool!Next
  BY <1>2, FailStep, StartStep, FilterStep, SampleStep, ExpandStep, EndStep
  DEF Pool!Next, Pool!StartFails, Pool!SampleFails, Pool!Cancel
<1> QED
  BY <1>1, <1>2

LEMMA PoolInit ==
    ASSUME Pool!Init
    PROVE  PoolInv
<1>1. PoolTypes
  BY EmptySeq DEF Pool!Init, PoolTypes
<1>2. Pool!OnePerNetwork
  BY <1>1, NoEntries DEF Pool!Init
<1>3. PoolFits
  BY DEF Pool!Init, PoolFits
<1> QED
  BY <1>1, <1>2, <1>3 DEF PoolInv

\* What the filter leaves of the source, as its properties say it.
LEMMA GoalIs ==
    ASSUME source \in Pool!Sources
    PROVE  Goal = IF source.filter = "precheck" /\ source.dictionary = "ok"
                  THEN Pool!Reach(Pool!FlattenSeq([i \in 1 .. Len(source.list) |-> Sub[source.list[i]]]))
                  ELSE Pool!Reach(source.list)
<1> DEFINE list == source.list
           n == Len(list)
           ss == [i \in 1 .. n |-> Sub[list[i]]]
<1>1. n \in Nat /\ DOMAIN list = 1 .. n /\ \A i \in 1 .. n : list[i] \in Tokens
  BY PoolNumbers
<1>2. Len(ss) = n /\ (n = 0 => ss = <<>>) /\ \A i \in 1 .. n : ss[i] = Sub[list[i]]
  BY <1>1
<1>3. \A i \in 1 .. n : ss[i] \in Seq(Tokens)
  BY <1>1, <1>2, PoolNumbers
<1>4. {Pool!ToSet(ss[i]) : i \in 1 .. n} = {Pool!ToSet(Sub[t]) : t \in Pool!ToSet(list)}
  <2>1. Pool!ToSet(list) = {list[i] : i \in 1 .. n}
    BY <1>1 DEF Pool!ToSet
  <2> HIDE DEF n, ss
  <2> QED
    BY <1>2, <2>1
<1> HIDE DEF ss, n
<1>5. Pool!ToSet(Pool!FlattenSeq(ss)) = UNION {Pool!ToSet(Sub[t]) : t \in Pool!ToSet(list)}
  BY <1>1, <1>2, <1>3, <1>4, FlattenSet DEF AllOf
<1>6. \A ts : Pool!Reach(ts) = Around(Pool!ToSet(ts))
  BY DEF Pool!Reach, Around
<1> QED
  BY <1>5, <1>6 DEF Goal, Wanted, Filtering, ss, n

LEMMA PoolInvIsSafe ==
    ASSUME PoolInv
    PROVE  Pool!Safety
<1>1. PoolTypes /\ Pool!OnePerNetwork /\ source \in Pool!Sources
      /\ source.dictionary \in {"ok", "missing", "unmatched"}
  BY DEF PoolInv, PoolTypes, Pool!Sources
<1>2. Pool!TypeOK
  <2>1. Len(entries) \in Nat /\ Len(entries) <= Pool!limit /\ Pool!limit \in Nat
        /\ Pool!limit <= PoolLimit /\ PoolLimit \in Nat
    BY <1>1, LimitIs, PoolNumbers DEF PoolTypes, Pool!OnePerNetwork
  <2>2. Len(entries) <= PoolLimit
    BY <2>1
  <2> QED
    BY <1>1, <2>2 DEF PoolTypes, PoolWarnings, Pool!TypeOK
<1>3. Pool!WholeOrWarned
  <2> SUFFICES ASSUME step = "done", source.mode = "traverse",
                      warned \cap {"parse", "pool", "noMatch"} = {}
      PROVE Pool!WholeOrWarned
    BY DEF Pool!WholeOrWarned
  <2>1. Pool!Networks(entries) = Goal
    BY DEF PoolInv, PoolFits
  <2> QED
    BY <1>1, <2>1, GoalIs DEF Pool!WholeOrWarned
<1>4. Pool!FilterHolds
  <2> SUFFICES ASSUME step = "done", source.filter = "precheck", "kept" \notin warned
      PROVE Pool!FilterHolds
    BY DEF Pool!FilterHolds
  <2>1. Pool!Networks(entries) \subseteq Goal /\ (Applied \/ entries = <<>>)
    BY DEF PoolInv, PoolFits
  <2> QED
    BY <1>1, <2>1, GoalIs DEF Pool!FilterHolds, Applied, Filtering
<1> QED
  BY <1>1, <1>2, <1>3, <1>4 DEF Pool!Safety

-----------------------------------------------------------------------------
(* The parser of a source: the inductive invariant.                        *)

Here == input[at]
Listing(d) == Parse!ToSet(Resolved[d])

\* The parser is past the tokens of a line when it looks up its domains.
LineFits ==
    /\ inLine => /\ at \in 1 .. Len(input) /\ Here.tokens = <<>>
                 /\ Parse!ToSet(todo) \subseteq Parse!ToSet(Here.domains)
    /\ inLine /\ todo # <<>> => ParseLimit = 0 \/ Len(valid) < ParseLimit
    /\ stopped => truncated

\* A look-up is paid for once; only a cancelled one is remembered as a failure
\* that was none.
CacheFits ==
    /\ IsFiniteSet(DOMAIN cache) /\ lookups = Parse!Cardinality(DOMAIN cache)
    /\ \A d \in DOMAIN cache : cache[d] = Resolved[d] \/ (parseCancelled /\ cache[d] = <<>>)

\* No more than the last line of tokens passes the limit.
LimitFits ==
    ParseLimit > 0 =>
      Len(valid) <= ParseLimit
        \/ \E l \in Parse!ToSet(input) : Len(valid) < ParseLimit + Len(l.tokens)

\* Without a warning what was read is kept.
Unwarned == ~parseCancelled /\ ~truncated /\ ~lookupBudgetExceeded /\ ~resolveBudgetExceeded
ReadIsKept ==
    Unwarned =>
      /\ \A i \in 1 .. at - 1 : Parse!Candidates(input[i]) \subseteq Parse!ToSet(valid)
      /\ inLine => \A d \in Parse!ToSet(Here.domains) :
                     d \in Parse!ToSet(todo) \/ Listing(d) \subseteq Parse!ToSet(valid)

\* Ports are known of addresses that were kept.
PortsFit == ports = [a \in DOMAIN ports |-> ports[a]] /\ Parse!PortsOfAddresses

ParseInv ==
    Parse!TypeOK /\ LineFits /\ CacheFits /\ LimitFits /\ ReadIsKept /\ PortsFit

LEMMA ParseCounts == \A S : Parse!Cardinality(S) = Cardinality(S)
  BY DEF Parse!Cardinality, Cardinality

LEMMA ParseConstants ==
    /\ ParseLimit \in Nat /\ LookupBudget \in Nat /\ MaxLines \in Nat
    /\ Singles \cap Blocks = {} /\ Resolved \in [Domains -> Seq(Singles)]
    /\ \A l \in Lines : l.port \in Nat /\ l.tokens \in Seq(Singles \cup Blocks)
                        /\ l.domains \in Seq(Domains)
  BY ParseAssumption DEF Parse!TokensApart, Parse!LimitsAreNumbers,
     Parse!AnswersAreAddresses, Parse!LinesAreRead

LEMMA ParseTypes ==
    ASSUME Parse!TypeOK
    PROVE  /\ input \in Seq(Lines) /\ at \in 1 .. Len(input) + 1
           /\ Len(input) \in Nat /\ Len(valid) \in Nat /\ lookups \in Nat
           /\ valid \in Seq(Singles \cup Blocks) /\ todo \in Seq(Domains)
<1>1. PICK m \in 0 .. MaxLines : input \in [1 .. m -> Lines]
  BY DEF Parse!TypeOK, Parse!BoundedSeq, Parse!SeqOf
<1>2. input \in Seq(Lines) /\ Len(input) = m
  BY <1>1, ParseConstants
<1> QED
  BY <1>2, ParseConstants DEF Parse!TypeOK

\* Sequences of the parser.
LEMMA Joined ==
    ASSUME NEW S, NEW s \in Seq(S), NEW t \in Seq(S)
    PROVE  /\ s \o t \in Seq(S) /\ Len(s \o t) = Len(s) + Len(t)
           /\ Parse!ToSet(s \o t) = Parse!ToSet(s) \cup Parse!ToSet(t)
<1>1. s \o t \in Seq(S) /\ Len(s \o t) = Len(s) + Len(t)
  BY ConcatProperties
<1>2. Parse!ToSet(s \o t) \subseteq Parse!ToSet(s) \cup Parse!ToSet(t)
  <2> SUFFICES ASSUME NEW i \in 1 .. Len(s) + Len(t)
               PROVE  (s \o t)[i] \in Parse!ToSet(s) \cup Parse!ToSet(t)
    BY <1>1 DEF Parse!ToSet
  <2>1. (s \o t)[i] = IF i <= Len(s) THEN s[i] ELSE t[i - Len(s)]
    BY ConcatProperties
  <2>2. Len(s) \in Nat /\ Len(t) \in Nat
    OBVIOUS
  <2> QED
    BY <2>1, <2>2 DEF Parse!ToSet
<1>3. ASSUME NEW i \in 1 .. Len(s) PROVE s[i] \in Parse!ToSet(s \o t)
  <2>1. Len(s) \in Nat /\ Len(t) \in Nat
    OBVIOUS
  <2>2. (s \o t)[i] = s[i] /\ i \in 1 .. Len(s) + Len(t)
    BY <2>1, ConcatProperties
  <2> QED
    BY <1>1, <2>2 DEF Parse!ToSet
<1>4. ASSUME NEW i \in 1 .. Len(t) PROVE t[i] \in Parse!ToSet(s \o t)
  <2>1. Len(s) \in Nat /\ Len(t) \in Nat
    OBVIOUS
  <2>2. i + Len(s) \in 1 .. Len(s) + Len(t) /\ i + Len(s) - Len(s) = i /\ ~(i + Len(s) <= Len(s))
    BY <2>1
  <2>3. (s \o t)[i + Len(s)] = t[i]
    BY <2>2, ConcatProperties
  <2> QED
    BY <1>1, <2>2, <2>3 DEF Parse!ToSet
<1>5. Parse!ToSet(s) \subseteq Parse!ToSet(s \o t) /\ Parse!ToSet(t) \subseteq Parse!ToSet(s \o t)
  <2>1. /\ Parse!ToSet(s) = {s[i] : i \in 1 .. Len(s)}
        /\ Parse!ToSet(t) = {t[i] : i \in 1 .. Len(t)}
    BY DEF Parse!ToSet
  <2> QED
    BY <1>3, <1>4, <2>1
<1> QED
  BY <1>1, <1>2, <1>5

LEMMA Parted ==
    ASSUME NEW S, NEW s \in Seq(S), s # <<>>
    PROVE  /\ Head(s) \in S /\ Tail(s) \in Seq(S) /\ Head(s) \in Parse!ToSet(s)
           /\ Parse!ToSet(Tail(s)) \subseteq Parse!ToSet(s)
           /\ Parse!ToSet(s) \subseteq {Head(s)} \cup Parse!ToSet(Tail(s))
<1>1. Len(s) \in Nat \ {0} /\ Head(s) = s[1] /\ Tail(s) \in Seq(S) /\ Len(Tail(s)) = Len(s) - 1
      /\ \A i \in 1 .. Len(s) - 1 : Tail(s)[i] = s[i + 1]
  BY HeadTailProperties
<1>2. 1 \in 1 .. Len(s) /\ s[1] \in S
  BY <1>1
<1>3. Parse!ToSet(Tail(s)) \subseteq Parse!ToSet(s)
  <2> SUFFICES ASSUME NEW i \in 1 .. Len(s) - 1 PROVE Tail(s)[i] \in Parse!ToSet(s)
    BY <1>1 DEF Parse!ToSet
  <2> QED
    BY <1>1 DEF Parse!ToSet
<1>4. Parse!ToSet(s) \subseteq {Head(s)} \cup Parse!ToSet(Tail(s))
  <2> SUFFICES ASSUME NEW i \in 1 .. Len(s), i # 1 PROVE s[i] \in Parse!ToSet(Tail(s))
    BY <1>1 DEF Parse!ToSet
  <2>1. i - 1 \in 1 .. Len(s) - 1 /\ i - 1 + 1 = i
    BY <1>1
  <2>2. Tail(s)[i - 1] = s[i] /\ i - 1 \in DOMAIN Tail(s)
    BY <1>1, <2>1
  <2> QED
    BY <2>2 DEF Parse!ToSet
<1>5. Head(s) \in S /\ Head(s) \in Parse!ToSet(s)
  BY <1>1, <1>2 DEF Parse!ToSet
<1> QED
  BY <1>1, <1>3, <1>4, <1>5

LEMMA Begun ==
    ASSUME NEW S, NEW s \in Seq(S), NEW n \in 0 .. Len(s)
    PROVE  /\ SubSeq(s, 1, n) \in Seq(S) /\ Len(SubSeq(s, 1, n)) = n
           /\ Parse!ToSet(SubSeq(s, 1, n)) \subseteq Parse!ToSet(s)
           /\ n = Len(s) => SubSeq(s, 1, n) = s
<1>0. Len(s) \in Nat /\ n \in Nat /\ n <= Len(s)
  OBVIOUS
<1>1. CASE n = 0
  <2>1. SubSeq(s, 1, n) = <<>>
    BY <1>1, SubSeqEmpty
  <2>2. n = Len(s) => s = <<>>
    BY <1>1
  <2>3. Parse!ToSet(<<>>) = {} /\ <<>> \in Seq(S) /\ Len(<<>>) = 0
    BY DEF Parse!ToSet
  <2> QED
    BY <1>1, <2>1, <2>2, <2>3
<1>2. CASE n # 0
  <2>1. \A i \in 1 .. n : i \in 1 .. Len(s) /\ s[i] \in S
    BY <1>0
  <2>2. /\ SubSeq(s, 1, n) \in Seq(S)
        /\ Len(SubSeq(s, 1, n)) = IF 1 <= n THEN n - 1 + 1 ELSE 0
        /\ \A i \in 1 .. n - 1 + 1 : SubSeq(s, 1, n)[i] = s[1 + i - 1]
    BY <1>0, <1>2, SubSeqProperties
  <2>3. Len(SubSeq(s, 1, n)) = n
    BY <1>0, <1>2, <2>2
  <2>4. \A i \in 1 .. n : SubSeq(s, 1, n)[i] = s[i]
    BY <1>0, <1>2, <2>2
  <2>5. Parse!ToSet(SubSeq(s, 1, n)) \subseteq Parse!ToSet(s)
    BY <1>0, <2>1, <2>2, <2>3, <2>4 DEF Parse!ToSet
  <2>6. n = Len(s) => SubSeq(s, 1, n) = s
    BY SubSeqFull
  <2> QED
    BY <2>2, <2>3, <2>5, <2>6
<1> QED
  BY <1>1, <1>2

-----------------------------------------------------------------------------
(* The parser of a source: its steps.                                      *)

Resolving == Parse!FromCache \/ Parse!Refused \/ Parse!Lookup

LEMMA Resolve ==
    ASSUME ParseInv, Resolving
    PROVE  /\ inLine /\ todo # <<>> /\ UNCHANGED <<input, at, inLine, stopped, parseCancelled>>
           /\ \/ Parse!Unresolved /\ (Unwarned' => Listing(Head(todo)) = {})
              \/ Parse!Take(Resolved[Head(todo)])
<1>0. \A d \in DOMAIN cache : cache[d] = Resolved[d] \/ (parseCancelled /\ cache[d] = <<>>)
  BY DEF ParseInv, CacheFits
<1>1. Resolved[Head(todo)] = <<>> => Listing(Head(todo)) = {}
  BY DEF Listing, Parse!ToSet
<1>2. CASE Parse!FromCache
  <2>1. /\ inLine /\ todo # <<>> /\ Head(todo) \in DOMAIN cache
        /\ IF cache[Head(todo)] = <<>> THEN Parse!Unresolved ELSE Parse!Take(cache[Head(todo)])
        /\ UNCHANGED <<input, at, inLine, stopped, parseCancelled>>
    BY <1>2 DEF Parse!FromCache, Parse!world
  <2>2. cache[Head(todo)] = Resolved[Head(todo)] \/ (parseCancelled /\ cache[Head(todo)] = <<>>)
    BY <1>0, <2>1
  <2>3. parseCancelled => ~Unwarned'
    BY <2>1 DEF Unwarned
  <2> QED
    BY <1>1, <2>1, <2>2, <2>3
<1>3. CASE Parse!Refused
  <2>1. lookupBudgetExceeded' = TRUE \/ resolveBudgetExceeded' = TRUE
    BY <1>3 DEF Parse!Refused
  <2>2. ~Unwarned'
    BY <2>1 DEF Unwarned
  <2> QED
    BY <1>3, <2>2 DEF Parse!Refused, Parse!world
<1>4. CASE Parse!Lookup
  <2> DEFINE ips == IF parseCancelled THEN <<>> ELSE Resolved[Head(todo)]
  <2>1. /\ inLine /\ todo # <<>> /\ IF ips = <<>> THEN Parse!Unresolved ELSE Parse!Take(ips)
        /\ UNCHANGED <<input, at, inLine, stopped, parseCancelled>>
    BY <1>4 DEF Parse!Lookup, Parse!world
  <2>2. parseCancelled => ~Unwarned'
    BY <2>1 DEF Unwarned
  <2> QED
    BY <1>1, <2>1, <2>2
<1> QED
  BY <1>2, <1>3, <1>4 DEF Resolving

\* What the look-up of a domain adds.
LEMMA Takes ==
    ASSUME ParseInv, inLine, todo # <<>>, Parse!Take(Resolved[Head(todo)])
    PROVE  \E taken \in Seq(Singles) :
             /\ valid' = valid \o taken /\ Parse!ToSet(taken) \subseteq Listing(Head(todo))
             /\ ParseLimit > 0 => Len(valid) + Len(taken) <= ParseLimit
             /\ invalid' = invalid
             /\ ports' = IF Parse!PortOf(Here) = 0 THEN ports
                         ELSE Parse!With(ports, Parse!ToSet(taken), Parse!PortOf(Here))
             /\ \/ /\ truncated' = TRUE /\ todo' = <<>>
                \/ /\ taken = Resolved[Head(todo)] /\ UNCHANGED truncated /\ todo' = Tail(todo)
                   /\ ParseLimit = 0 \/ Len(valid) + Len(taken) < ParseLimit
<1> DEFINE ips == Resolved[Head(todo)]
           taken == SubSeq(ips, 1, Parse!Room(ips))
           full == ParseLimit > 0 /\ Len(valid) + Len(taken) >= ParseLimit
<1>1. todo \in Seq(Domains) /\ Len(valid) \in Nat /\ ParseLimit \in Nat
  BY ParseTypes, ParseConstants DEF ParseInv
<1>2. Head(todo) \in Domains
  BY <1>1, Parted
<1>3. ips \in Seq(Singles) /\ Len(ips) \in Nat
  BY <1>2, ParseConstants
<1>4. ParseLimit = 0 \/ Len(valid) < ParseLimit
  BY DEF ParseInv, LineFits
<1>5. Parse!Room(ips) \in 0 .. Len(ips)
      /\ (ParseLimit = 0 \/ Len(valid) + Len(ips) < ParseLimit => Parse!Room(ips) = Len(ips))
      /\ (ParseLimit > 0 => Len(valid) + Parse!Room(ips) <= ParseLimit)
      /\ (ParseLimit > 0 /\ Len(valid) + Parse!Room(ips) < ParseLimit => Parse!Room(ips) = Len(ips))
  <2> HIDE DEF ips
  <2> QED
    BY <1>1, <1>3, <1>4 DEF Parse!Room
<1>6. taken \in Seq(Singles) /\ Len(taken) = Parse!Room(ips)
      /\ Parse!ToSet(taken) \subseteq Parse!ToSet(ips) /\ (Parse!Room(ips) = Len(ips) => taken = ips)
  <2> DEFINE n == Parse!Room(ips)
  <2>1. n \in 0 .. Len(ips)
    BY <1>5
  <2> HIDE DEF ips, n
  <2>2. /\ SubSeq(ips, 1, n) \in Seq(Singles) /\ Len(SubSeq(ips, 1, n)) = n
        /\ Parse!ToSet(SubSeq(ips, 1, n)) \subseteq Parse!ToSet(ips)
        /\ n = Len(ips) => SubSeq(ips, 1, n) = ips
    BY <1>3, <2>1, Begun
  <2> QED
    BY <2>2 DEF n
<1>7. /\ valid' = valid \o taken
      /\ ports' = IF Parse!PortOf(Here) = 0 THEN ports
                  ELSE Parse!With(ports, Parse!ToSet(taken), Parse!PortOf(Here))
      /\ todo' = (IF full THEN <<>> ELSE Tail(todo)) /\ invalid' = invalid
  BY DEF Parse!Take, Parse!line, Here
<1>8. truncated' = (truncated \/ full)
  BY DEF Parse!Take
<1> HIDE DEF taken
<1>9. CASE full
  <2>1. truncated' = TRUE
    BY <1>8, <1>9
  <2> QED
    BY <1>5, <1>6, <1>7, <1>9, <2>1 DEF Listing
<1>10. CASE ~full
  <2>0. truncated \in BOOLEAN
    BY DEF ParseInv, Parse!TypeOK
  <2>1. truncated' = truncated
    BY <1>8, <1>10, <2>0
  <2>2. ParseLimit = 0 \/ Len(valid) + Len(taken) < ParseLimit
    BY <1>1, <1>3, <1>5, <1>6, <1>10
  <2>3. taken = ips
    BY <1>1, <1>3, <1>5, <1>6, <2>2
  <2> QED
    BY <1>5, <1>6, <1>7, <1>10, <2>1, <2>2, <2>3 DEF Listing
<1> QED
  BY <1>9, <1>10

\* A domain gives addresses or none.
LEMMA Gives ==
    ASSUME ParseInv, Resolving
    PROVE  \E taken \in Seq(Singles) :
             /\ valid' = valid \o taken /\ Parse!ToSet(taken) \subseteq Listing(Head(todo))
             /\ ParseLimit > 0 => Len(valid) + Len(taken) <= ParseLimit
             /\ ports' = IF Parse!PortOf(Here) = 0 THEN ports
                         ELSE Parse!With(ports, Parse!ToSet(taken), Parse!PortOf(Here))
             /\ \/ truncated' = TRUE /\ todo' = <<>>
                \/ /\ UNCHANGED truncated /\ todo' = Tail(todo)
                   /\ Unwarned' => Listing(Head(todo)) = Parse!ToSet(taken)
                   /\ ParseLimit = 0 \/ Len(valid) + Len(taken) < ParseLimit
<1>1. inLine /\ todo # <<>>
  BY Resolve
<1>2. CASE Parse!Take(Resolved[Head(todo)])
  BY <1>1, <1>2, Takes DEF Listing
<1>3. CASE Parse!Unresolved /\ (Unwarned' => Listing(Head(todo)) = {})
  <2>1. UNCHANGED <<valid, ports, truncated>> /\ todo' = Tail(todo)
    BY <1>3 DEF Parse!Unresolved
  <2>2. valid \in Seq(Singles \cup Blocks) /\ Len(valid) \in Nat /\ ParseLimit \in Nat
    BY ParseTypes, ParseConstants DEF ParseInv
  <2>3. valid \o <<>> = valid /\ <<>> \in Seq(Singles) /\ Parse!ToSet(<<>>) = {} /\ Len(<<>>) = 0
    BY <2>2, ConcatEmptySeq DEF Parse!ToSet
  <2>4. ports = IF Parse!PortOf(Here) = 0 THEN ports ELSE Parse!With(ports, {}, Parse!PortOf(Here))
    <3>1. ports = [k \in DOMAIN ports |-> ports[k]]
      BY DEF ParseInv, PortsFit
    <3> QED
      BY <3>1 DEF Parse!With
  <2>5. ParseLimit = 0 \/ Len(valid) < ParseLimit
    BY <1>1 DEF ParseInv, LineFits
  <2> WITNESS <<>> \in Seq(Singles)
  <2>6. Unwarned' => Listing(Head(todo)) = {}
    BY <1>3
  <2>7. valid' = valid \o <<>> /\ Parse!ToSet(<<>>) \subseteq Listing(Head(todo))
        /\ Len(valid) + Len(<<>>) = Len(valid)
    BY <2>1, <2>2, <2>3
  <2>8. ports' = IF Parse!PortOf(Here) = 0 THEN ports
                 ELSE Parse!With(ports, Parse!ToSet(<<>>), Parse!PortOf(Here))
    BY <2>1, <2>3, <2>4
  <2>9. ParseLimit > 0 => Len(valid) <= ParseLimit
    BY <2>2, <2>5
  <2> QED
    BY <2>1, <2>3, <2>5, <2>6, <2>7, <2>8, <2>9
<1> QED
  BY <1>2, <1>3, Resolve

LEMMA LineIsRead ==
    ASSUME Parse!TypeOK, ~Parse!Done, ~inLine
    PROVE  /\ at \in 1 .. Len(input) /\ Here \in Lines /\ Here \in Parse!ToSet(input)
           /\ Here.port \in Nat /\ Here.tokens \in Seq(Singles \cup Blocks)
           /\ Here.domains \in Seq(Domains)
<1>1. at \in 1 .. Len(input) /\ input \in Seq(Lines)
  BY ParseTypes DEF Parse!Done
<1>2. Here \in Lines /\ Here \in Parse!ToSet(input)
  BY <1>1 DEF Here, Parse!ToSet
<1> QED
  BY <1>1, <1>2, ParseConstants

LEMMA ParseCases ==
    ASSUME Parse!Next
    PROVE  Parse!SkipBlank \/ Parse!StopAtLimit \/ Parse!TokenLine \/ Parse!DomainLine
             \/ Resolving \/ Parse!EndLine \/ Parse!TimePasses \/ Parse!Cancel
  BY DEF Parse!Next, Resolving

LEMMA ParseTypesNext ==
    ASSUME ParseInv, Parse!Next
    PROVE  Parse!TypeOK'
<1>0. Parse!TypeOK
  BY DEF ParseInv
<1>1. /\ input \in Seq(Lines) /\ at \in 1 .. Len(input) + 1 /\ Len(input) \in Nat
      /\ valid \in Seq(Singles \cup Blocks) /\ todo \in Seq(Domains)
  BY <1>0, ParseTypes
<1>2. CASE Parse!SkipBlank
  <2>1. at + 1 \in 1 .. Len(input) + 1
    BY <1>0, <1>2, LineIsRead DEF Parse!SkipBlank
  <2> QED
    BY <1>0, <1>2, <2>1 DEF Parse!TypeOK, Parse!SkipBlank, Parse!world, Parse!budgetVars
<1>3. CASE Parse!StopAtLimit
  BY <1>0, <1>3 DEF Parse!TypeOK, Parse!StopAtLimit, Parse!world, Parse!budgetVars
<1>4. CASE Parse!TokenLine
  <2>1. at + 1 \in 1 .. Len(input) + 1 /\ Here.tokens \in Seq(Singles \cup Blocks) /\ Here.port \in Nat
    BY <1>0, <1>4, LineIsRead DEF Parse!TokenLine
  <2>2. valid' = valid \o Here.tokens
    BY <1>4 DEF Parse!TokenLine, Parse!line, Here
  <2>3. valid' \in Seq(Singles \cup Blocks)
    BY <1>1, <2>1, <2>2, Joined
  <2>4. Parse!PortOf(Here) \in Nat
    BY <2>1 DEF Parse!PortOf
  <2>5. ports' = IF Parse!PortOf(Here) = 0 THEN ports
                 ELSE Parse!With(ports, Parse!ToSet(Here.tokens) \cap Singles, Parse!PortOf(Here))
    BY <1>4 DEF Parse!TokenLine, Parse!line, Here
  <2>6. \A t \in DOMAIN ports' : ports'[t] \in Nat
    BY <1>0, <2>4, <2>5 DEF Parse!TypeOK, Parse!With
  <2>7. UNCHANGED <<input, todo, inLine, cache, lookups, clock, lookupBudgetExceeded,
                    resolveBudgetExceeded, parseCancelled, truncated, stopped>> /\ at' = at + 1
    BY <1>4 DEF Parse!TokenLine, Parse!world, Parse!budgetVars
  <2> QED
    BY <1>0, <2>1, <2>3, <2>6, <2>7 DEF Parse!TypeOK
<1>5. CASE Parse!DomainLine
  <2>1. Here.domains \in Seq(Domains) /\ todo' = Here.domains
    BY <1>0, <1>5, LineIsRead DEF Parse!DomainLine, Parse!line, Here
  <2> QED
    BY <1>0, <1>5, <2>1 DEF Parse!TypeOK, Parse!DomainLine, Parse!world, Parse!budgetVars
<1>6. CASE Resolving
  <2>1. /\ inLine /\ todo # <<>> /\ UNCHANGED <<input, at, inLine, stopped, parseCancelled>>
    BY <1>6, Resolve
  <2>2. PICK taken \in Seq(Singles) :
             /\ valid' = valid \o taken
             /\ ports' = IF Parse!PortOf(Here) = 0 THEN ports
                         ELSE Parse!With(ports, Parse!ToSet(taken), Parse!PortOf(Here))
             /\ \/ truncated' = TRUE /\ todo' = <<>>
                \/ UNCHANGED truncated /\ todo' = Tail(todo)
    BY <1>6, Gives
  <2>3. Head(todo) \in Domains /\ Tail(todo) \in Seq(Domains)
    BY <1>1, <2>1, Parted
  <2>4. valid' \in Seq(Singles \cup Blocks)
    <3>1. taken \in Seq(Singles \cup Blocks)
      <4>1. \A i \in 1 .. Len(taken) : taken[i] \in Singles
        BY <2>2
      <4>2. Len(taken) \in Nat /\ taken = [i \in 1 .. Len(taken) |-> taken[i]]
        BY <2>2
      <4> QED
        BY <4>1, <4>2
    <3> QED
      BY <1>1, <2>2, <3>1, Joined
  <2>5. Here.port \in Nat
    <3>1. at \in 1 .. Len(input)
      BY <2>1 DEF ParseInv, LineFits
    <3>2. Here \in Lines
      BY <1>1, <3>1 DEF Here
    <3> QED
      BY <3>2, ParseConstants
  <2>6. \A t \in DOMAIN ports' : ports'[t] \in Nat
    <3>1. Parse!PortOf(Here) \in Nat
      BY <2>5 DEF Parse!PortOf
    <3> QED
      BY <1>0, <2>2, <3>1 DEF Parse!TypeOK, Parse!With
  <2>7. /\ lookups' \in 0 .. LookupBudget /\ clock' \in {"unset", "early", "late"}
        /\ \A d \in DOMAIN cache' : d \in Domains
        /\ lookupBudgetExceeded' \in BOOLEAN /\ resolveBudgetExceeded' \in BOOLEAN
    <3>1. CASE Parse!FromCache
      BY <1>0, <3>1 DEF Parse!TypeOK, Parse!FromCache, Parse!budgetVars
    <3>2. CASE Parse!Refused
      BY <1>0, <3>2 DEF Parse!TypeOK, Parse!Refused
    <3>3. CASE Parse!Lookup
      <4>1. /\ lookups < LookupBudget /\ lookups' = lookups + 1
            /\ clock' = (IF clock = "unset" THEN "early" ELSE clock)
            /\ UNCHANGED <<lookupBudgetExceeded, resolveBudgetExceeded>>
            /\ \E x : cache' = Parse!With(cache, {Head(todo)}, x)
        BY <3>3 DEF Parse!Lookup
      <4>2. DOMAIN cache' = DOMAIN cache \cup {Head(todo)}
        BY <4>1 DEF Parse!With
      <4> QED
        BY <1>0, <2>3, <4>1, <4>2, ParseConstants DEF Parse!TypeOK
    <3> QED
      BY <1>6, <3>1, <3>2, <3>3 DEF Resolving
  <2>8. todo' \in Seq(Domains) /\ truncated' \in BOOLEAN
    <3>1. truncated \in BOOLEAN
      BY <1>0 DEF Parse!TypeOK
    <3>2. <<>> \in Seq(Domains)
      OBVIOUS
    <3>3. todo' \in Seq(Domains)
      BY <2>2, <2>3, <3>2
    <3>4. truncated' \in BOOLEAN
      BY <2>2, <3>1
    <3> QED
      BY <3>3, <3>4
  <2> QED
    BY <1>0, <2>1, <2>4, <2>6, <2>7, <2>8 DEF Parse!TypeOK
<1>7. CASE Parse!EndLine
  <2>1. at \in 1 .. Len(input)
    BY <1>7 DEF ParseInv, LineFits, Parse!EndLine
  <2>2. at' = at + 1 /\ inLine' = FALSE
        /\ UNCHANGED <<input, todo, valid, ports, cache, lookups, clock, lookupBudgetExceeded,
                       resolveBudgetExceeded, parseCancelled, truncated, stopped>>
    BY <1>7 DEF Parse!EndLine, Parse!world, Parse!budgetVars
  <2>3. at' \in 1 .. Len(input) + 1
    BY <1>1, <2>1, <2>2
  <2> QED
    BY <1>0, <2>2, <2>3 DEF Parse!TypeOK
<1>8. CASE Parse!TimePasses \/ Parse!Cancel
  BY <1>0, <1>8 DEF Parse!TypeOK, Parse!TimePasses, Parse!Cancel, Parse!world, Parse!budgetVars
<1> QED
  BY <1>2, <1>3, <1>4, <1>5, <1>6, <1>7, <1>8, ParseCases

LEMMA LineNext ==
    ASSUME ParseInv, Parse!Next
    PROVE  LineFits'
<1>0. Parse!TypeOK /\ LineFits /\ truncated \in BOOLEAN /\ inLine \in BOOLEAN
  BY DEF ParseInv, Parse!TypeOK
<1>1. CASE Parse!SkipBlank \/ Parse!TokenLine \/ Parse!EndLine
  <2>1. ~inLine' /\ UNCHANGED <<stopped, truncated>>
    BY <1>1 DEF Parse!SkipBlank, Parse!TokenLine, Parse!EndLine
  <2> QED
    BY <1>0, <2>1 DEF LineFits
<1>2. CASE Parse!StopAtLimit
  <2>1. ~inLine' /\ truncated' = TRUE
    BY <1>2 DEF Parse!StopAtLimit
  <2> QED
    BY <2>1 DEF LineFits
<1>3. CASE Parse!DomainLine
  <2>1. at \in 1 .. Len(input)
    BY <1>0, <1>3, LineIsRead DEF Parse!DomainLine
  <2>2. /\ Here.tokens = <<>> /\ todo' = Here.domains /\ UNCHANGED <<input, at, valid, stopped, truncated>>
        /\ ~Parse!limitReached
    BY <1>3 DEF Parse!DomainLine, Parse!line, Here, Parse!world
  <2>3. ParseLimit = 0 \/ Len(valid) < ParseLimit
    BY <1>0, <2>2, ParseTypes, ParseConstants DEF Parse!limitReached
  <2> QED
    BY <1>0, <2>1, <2>2, <2>3 DEF LineFits, Here
<1>4. CASE Resolving
  <2>1. /\ inLine /\ todo # <<>> /\ UNCHANGED <<input, at, inLine, stopped, parseCancelled>>
    BY <1>4, Resolve
  <2>2. PICK taken \in Seq(Singles) :
             /\ valid' = valid \o taken
             /\ \/ truncated' = TRUE /\ todo' = <<>>
                \/ /\ UNCHANGED truncated /\ todo' = Tail(todo)
                   /\ ParseLimit = 0 \/ Len(valid) + Len(taken) < ParseLimit
    BY <1>4, Gives
  <2>3. Len(valid') = Len(valid) + Len(taken)
    BY <1>0, <2>2, ParseTypes, ConcatProperties
  <2>4. Parse!ToSet(Tail(todo)) \subseteq Parse!ToSet(todo) /\ Parse!ToSet(<<>>) = {}
    BY <1>0, <2>1, ParseTypes, Parted DEF Parse!ToSet
  <2>5. Parse!ToSet(todo') \subseteq Parse!ToSet(Here.domains)
    BY <1>0, <2>1, <2>2, <2>4 DEF LineFits
  <2>6. todo' # <<>> => ParseLimit = 0 \/ Len(valid') < ParseLimit
    BY <2>2, <2>3
  <2> QED
    BY <1>0, <2>1, <2>2, <2>5, <2>6 DEF LineFits, Here
<1>5. CASE Parse!TimePasses \/ Parse!Cancel
  <2>1. UNCHANGED <<input, at, todo, inLine, valid, truncated, stopped>>
    BY <1>5 DEF Parse!TimePasses, Parse!Cancel, Parse!world
  <2> QED
    BY <1>0, <2>1 DEF LineFits, Here
<1> QED
  BY <1>1, <1>2, <1>3, <1>4, <1>5, ParseCases

LEMMA CacheNext ==
    ASSUME ParseInv, Parse!Next
    PROVE  CacheFits'
<1>0. Parse!TypeOK /\ CacheFits /\ parseCancelled \in BOOLEAN
  BY DEF ParseInv, Parse!TypeOK
<1>1. CASE ~Parse!Lookup
  <2>1. UNCHANGED <<cache, lookups>> /\ (parseCancelled => parseCancelled')
    BY <1>0, <1>1 DEF Parse!Next, Parse!SkipBlank, Parse!StopAtLimit, Parse!TokenLine, Parse!DomainLine,
       Parse!FromCache, Parse!Refused, Parse!EndLine, Parse!TimePasses, Parse!Cancel, Parse!world,
       Parse!budgetVars
  <2> QED
    BY <1>0, <2>1 DEF CacheFits, Parse!Cardinality
<1>2. CASE Parse!Lookup
  <2> DEFINE d == Head(todo)
             ips == IF parseCancelled THEN <<>> ELSE Resolved[d]
  <2>1. /\ d \notin DOMAIN cache /\ lookups' = lookups + 1
        /\ cache' = Parse!With(cache, {d}, ips) /\ parseCancelled' = parseCancelled
    BY <1>2 DEF Parse!Lookup, Parse!world
  <2>2. DOMAIN cache' = DOMAIN cache \cup {d}
    BY <2>1 DEF Parse!With
  <2>3. IsFiniteSet(DOMAIN cache') /\ lookups' = Cardinality(DOMAIN cache')
    BY <1>0, <2>1, <2>2, ParseCounts, FS_AddElement DEF CacheFits
  <2>4. \A k \in DOMAIN cache' : cache'[k] = IF k = d THEN ips ELSE cache[k]
    BY <2>1 DEF Parse!With
  <2>5. \A k \in DOMAIN cache' : cache'[k] = Resolved[k] \/ (parseCancelled' /\ cache'[k] = <<>>)
    BY <1>0, <2>1, <2>2, <2>4 DEF CacheFits
  <2>6. Parse!Cardinality(DOMAIN cache)' = Cardinality(DOMAIN cache')
    BY DEF Parse!Cardinality, Cardinality
  <2> QED
    BY <2>3, <2>5, <2>6 DEF CacheFits
<1> QED
  BY <1>1, <1>2

LEMMA LimitNext ==
    ASSUME ParseInv, Parse!Next
    PROVE  LimitFits'
<1>0. Parse!TypeOK /\ LimitFits /\ Len(valid) \in Nat /\ ParseLimit \in Nat
  BY ParseTypes, ParseConstants DEF ParseInv
<1>1. CASE Parse!TokenLine
  <2>1. Here \in Parse!ToSet(input) /\ Here.tokens \in Seq(Singles \cup Blocks)
    BY <1>0, <1>1, LineIsRead DEF Parse!TokenLine
  <2>2. valid' = valid \o Here.tokens /\ input' = input /\ ~Parse!limitReached
    BY <1>1 DEF Parse!TokenLine, Parse!line, Here, Parse!world
  <2>3. Len(valid') = Len(valid) + Len(Here.tokens) /\ Len(Here.tokens) \in Nat
    BY <1>0, <2>1, <2>2, ParseTypes, Joined
  <2>4. ParseLimit > 0 => Len(valid') < ParseLimit + Len(Here.tokens)
    BY <1>0, <2>2, <2>3 DEF Parse!limitReached
  <2> QED
    BY <2>1, <2>2, <2>4 DEF LimitFits
<1>2. CASE Resolving
  <2>1. input' = input
    BY <1>2, Resolve
  <2>2. PICK taken \in Seq(Singles) :
             valid' = valid \o taken /\ (ParseLimit > 0 => Len(valid) + Len(taken) <= ParseLimit)
    BY <1>2, Gives
  <2>3. Len(valid') = Len(valid) + Len(taken)
    BY <1>0, <2>2, ParseTypes, ConcatProperties
  <2> QED
    BY <2>1, <2>2, <2>3 DEF LimitFits
<1>3. CASE ~Parse!TokenLine /\ ~Resolving
  <2>1. UNCHANGED <<input, valid>>
    BY <1>3, ParseCases DEF Parse!SkipBlank, Parse!StopAtLimit, Parse!DomainLine,
       Parse!EndLine, Parse!TimePasses, Parse!Cancel, Parse!world
  <2> QED
    BY <1>0, <2>1 DEF LimitFits
<1> QED
  BY <1>1, <1>2, <1>3

\* What a line has, when its domains are known.
LEMMA CandidatesOf ==
    ASSUME NEW l
    PROVE  /\ l.tokens # <<>> => Parse!Candidates(l) = Parse!ToSet(l.tokens)
           /\ l.tokens = <<>> =>
                Parse!Candidates(l) = UNION {Listing(d) : d \in Parse!ToSet(l.domains)}
  BY DEF Parse!Candidates, Listing

LEMMA KeptNext ==
    ASSUME ParseInv, Parse!Next
    PROVE  ReadIsKept'
<1>0. /\ Parse!TypeOK /\ LineFits /\ ReadIsKept
      /\ at \in 1 .. Len(input) + 1 /\ Len(input) \in Nat
  BY ParseTypes DEF ParseInv
<1> SUFFICES ASSUME Unwarned'
             PROVE  /\ \A i \in 1 .. at' - 1 : Parse!Candidates(input'[i]) \subseteq Parse!ToSet(valid')
                    /\ inLine' => \A d \in Parse!ToSet(Here'.domains) :
                         d \in Parse!ToSet(todo') \/ Listing(d) \subseteq Parse!ToSet(valid')
  BY DEF ReadIsKept, Listing, Parse!Candidates, Parse!ToSet
<1>1. input' = input /\ Unwarned
  <2>1. \/ UNCHANGED <<input, truncated, lookupBudgetExceeded, resolveBudgetExceeded, parseCancelled>>
        \/ Parse!Cancel \/ Resolving \/ Parse!StopAtLimit
    BY ParseCases DEF Parse!SkipBlank, Parse!TokenLine, Parse!DomainLine,
       Parse!EndLine, Parse!TimePasses, Parse!world, Parse!budgetVars
  <2>2. CASE Parse!Cancel
    BY <2>2 DEF Parse!Cancel, Unwarned
  <2>3. CASE Parse!StopAtLimit
    BY <2>3 DEF Parse!StopAtLimit, Unwarned
  <2>4. CASE Resolving
    <3>1. UNCHANGED <<input, parseCancelled>>
      BY <2>4, Resolve
    <3>2. truncated' = TRUE \/ UNCHANGED truncated
      BY <2>4, Gives
    <3>3. /\ lookupBudgetExceeded' = TRUE \/ UNCHANGED lookupBudgetExceeded
          /\ resolveBudgetExceeded' = TRUE \/ UNCHANGED resolveBudgetExceeded
      BY <2>4 DEF Resolving, Parse!FromCache, Parse!Refused, Parse!Lookup, Parse!budgetVars
    <3> QED
      BY <3>1, <3>2, <3>3 DEF Unwarned
  <2> QED
    BY <2>1, <2>2, <2>3, <2>4 DEF Unwarned
<1>2. /\ \A i \in 1 .. at - 1 : Parse!Candidates(input[i]) \subseteq Parse!ToSet(valid)
      /\ inLine => \A d \in Parse!ToSet(Here.domains) :
                     d \in Parse!ToSet(todo) \/ Listing(d) \subseteq Parse!ToSet(valid)
  BY <1>0, <1>1 DEF ReadIsKept
<1>3. CASE Parse!SkipBlank
  <2>1. Here.tokens = <<>> /\ Here.domains = <<>> /\ at' = at + 1 /\ UNCHANGED valid /\ ~inLine'
    BY <1>3 DEF Parse!SkipBlank, Parse!Blank, Parse!line, Here
  <2>2. Parse!Candidates(Here) = {}
    BY <2>1, CandidatesOf DEF Parse!ToSet
  <2> QED
    BY <1>0, <1>1, <1>2, <2>1, <2>2 DEF Here
<1>4. CASE Parse!StopAtLimit
  BY <1>4 DEF Parse!StopAtLimit, Unwarned
<1>5. CASE Parse!TokenLine
  <2>1. Here.tokens \in Seq(Singles \cup Blocks)
    BY <1>0, <1>5, LineIsRead DEF Parse!TokenLine
  <2>2. valid' = valid \o Here.tokens /\ Here.tokens # <<>> /\ at' = at + 1 /\ ~inLine'
    BY <1>5 DEF Parse!TokenLine, Parse!line, Here
  <2>3. Parse!ToSet(valid') = Parse!ToSet(valid) \cup Parse!ToSet(Here.tokens)
    BY <1>0, <2>1, <2>2, ParseTypes, Joined
  <2>4. Parse!Candidates(Here) \subseteq Parse!ToSet(valid')
    BY <2>2, <2>3, CandidatesOf
  <2>5. \A i \in 1 .. at' - 1 : i \in 1 .. at - 1 \/ i = at
    BY <1>0, <2>2
  <2> QED
    BY <1>1, <1>2, <2>2, <2>3, <2>4, <2>5 DEF Here
<1>6. CASE Parse!DomainLine
  <2>1. todo' = Here.domains /\ UNCHANGED <<at, valid>>
    BY <1>6 DEF Parse!DomainLine, Parse!line, Here
  <2> QED
    BY <1>1, <1>2, <2>1 DEF Here
<1>7. CASE Resolving
  <2>1. /\ inLine /\ todo # <<>> /\ UNCHANGED <<at, inLine>>
    BY <1>7, Resolve
  <2>2. PICK taken \in Seq(Singles) :
             /\ valid' = valid \o taken
             /\ \/ truncated' = TRUE /\ todo' = <<>>
                \/ /\ todo' = Tail(todo)
                   /\ Unwarned' => Listing(Head(todo)) = Parse!ToSet(taken)
    BY <1>7, Gives
  <2>3. todo' = Tail(todo) /\ Listing(Head(todo)) = Parse!ToSet(taken)
    BY <2>2 DEF Unwarned
  <2>4. Parse!ToSet(valid') = Parse!ToSet(valid) \cup Parse!ToSet(taken)
    <3>1. taken \in Seq(Singles \cup Blocks)
      BY <2>2
    <3> QED
      BY <1>0, <2>2, <3>1, ParseTypes, Joined
  <2>5. Parse!ToSet(todo) \subseteq {Head(todo)} \cup Parse!ToSet(Tail(todo))
    BY <1>0, <2>1, ParseTypes, Parted
  <2> QED
    BY <1>1, <1>2, <2>1, <2>3, <2>4, <2>5 DEF Here
<1>8. CASE Parse!EndLine
  <2>1. inLine /\ todo = <<>> /\ ~inLine' /\ at' = at + 1 /\ UNCHANGED valid
    BY <1>8 DEF Parse!EndLine
  <2>2. Here.tokens = <<>> /\ Parse!ToSet(todo) = {}
    BY <1>0, <2>1 DEF LineFits, Parse!ToSet
  <2>3. Parse!Candidates(Here) \subseteq Parse!ToSet(valid)
    BY <1>2, <2>1, <2>2, CandidatesOf
  <2> QED
    BY <1>0, <1>1, <1>2, <2>1, <2>3 DEF Here
<1>9. CASE Parse!TimePasses \/ Parse!Cancel
  <2>1. UNCHANGED <<at, todo, inLine, valid>>
    BY <1>9 DEF Parse!TimePasses, Parse!Cancel
  <2> QED
    BY <1>1, <1>2, <2>1 DEF Here
<1> QED
  BY <1>3, <1>4, <1>5, <1>6, <1>7, <1>8, <1>9, ParseCases

\* A step reads at most one line more.
NextLine(k, m) ==
    /\ (k + 1) .. (m - 1) = {}
    /\ \A i, j \in Int : j \in (i + 1) .. (m - 1) =>
         j \in (i + 1) .. (k - 1) \/ (j = k /\ m = k + 1)

LEMMA LinesAfter == \A k, m \in Int : m = k \/ m = k + 1 => NextLine(k, m)
  BY DEF NextLine

\* Ports of the addresses of the line being read.
LEMMA PortsGiven ==
    ASSUME ParseInv, NEW here, here \subseteq Parse!Candidates(Here) \cap Singles,
           at \in 1 .. Len(input), here \subseteq Parse!ToSet(valid'), input' = input,
           Parse!ToSet(valid) \subseteq Parse!ToSet(valid'),
           at' \in {at, at + 1},
           ports' = IF Parse!PortOf(Here) = 0 THEN ports
                    ELSE Parse!With(ports, here, Parse!PortOf(Here)),
           at' = at \/ Parse!ToSet(Here.tokens) \cap Singles \subseteq here
    PROVE  PortsFit'
<1>0. /\ PortsFit /\ Len(input) \in Nat /\ input \in Seq(Lines)
      /\ Here \in Lines /\ Here.port \in Nat
  BY ParseTypes, ParseConstants DEF ParseInv, Here
<1>1. Parse!PortOf(Here) # 0 => Parse!PortOf(Here) = Here.port /\ Here.port \in Parse!PortNumbers
  BY DEF Parse!PortOf
<1>2. at \in Nat /\ at' \in Nat /\ at <= at' /\ at' <= at + 1
  BY <1>0
<1>3. /\ (at + 1) .. (at' - 1) = {}
      /\ \A i, j \in Int : j \in (i + 1) .. (at' - 1) =>
           j \in (i + 1) .. (at - 1) \/ (j = at /\ at' = at + 1)
  <2>1. at \in Int /\ at' \in Int /\ (at' = at \/ at' = at + 1)
    BY <1>2
  <2>2. NextLine(at, at')
    BY <2>1, LinesAfter
  <2> QED
    BY <2>2, Zenon DEF NextLine
<1>4. /\ ports = [a \in DOMAIN ports |-> ports[a]]
      /\ DOMAIN ports \subseteq Parse!ToSet(valid) \cap Singles
      /\ \A a \in DOMAIN ports : \E i \in 1 .. Len(input) :
           /\ i <= at /\ ports[a] = input[i].port /\ ports[a] \in Parse!PortNumbers
           /\ a \in Parse!Candidates(input[i])
           /\ ~\E j \in (i + 1) .. (at - 1) :
                 Parse!PortOf(input[j]) \notin {0, ports[a]} /\ a \in Parse!ToSet(input[j].tokens)
  BY <1>0 DEF PortsFit, Parse!PortsOfAddresses
<1>5. ports' = [a \in DOMAIN ports' |-> ports'[a]]
  BY <1>4 DEF Parse!With
<1>6. DOMAIN ports' \subseteq Parse!ToSet(valid') \cap Singles
  BY <1>4 DEF Parse!With
<1>7. ASSUME NEW a \in DOMAIN ports'
      PROVE  \E i \in 1 .. Len(input) :
           /\ i <= at' /\ ports'[a] = input[i].port /\ ports'[a] \in Parse!PortNumbers
           /\ a \in Parse!Candidates(input[i])
           /\ ~\E j \in (i + 1) .. (at' - 1) :
                 Parse!PortOf(input[j]) \notin {0, ports'[a]} /\ a \in Parse!ToSet(input[j].tokens)
  <2>1. CASE Parse!PortOf(Here) # 0 /\ a \in here
    <3>1. ports'[a] = Here.port /\ Here.port \in Parse!PortNumbers
      BY <1>1, <2>1 DEF Parse!With
    <3>2. (at + 1) .. (at' - 1) = {}
      BY <1>3
    <3> QED
      BY <1>2, <2>1, <3>1, <3>2 DEF Here
  <2>2. CASE ~(Parse!PortOf(Here) # 0 /\ a \in here)
    <3>1. a \in DOMAIN ports /\ ports'[a] = ports[a]
      BY <2>2 DEF Parse!With
    <3>2. PICK i \in 1 .. Len(input) :
           /\ i <= at /\ ports[a] = input[i].port /\ ports[a] \in Parse!PortNumbers
           /\ a \in Parse!Candidates(input[i])
           /\ ~\E j \in (i + 1) .. (at - 1) :
                 Parse!PortOf(input[j]) \notin {0, ports[a]} /\ a \in Parse!ToSet(input[j].tokens)
      BY <1>4, <3>1
    <3>3. a \in Singles
      BY <1>4, <3>1
    <3>4. ASSUME NEW j \in (i + 1) .. (at' - 1), Parse!PortOf(input[j]) \notin {0, ports[a]},
                 a \in Parse!ToSet(input[j].tokens)
          PROVE  FALSE
      <4>1. CASE j \in (i + 1) .. (at - 1)
        BY <3>2, <3>4, <4>1
      <4>2. CASE j = at /\ at' = at + 1
        BY <2>2, <3>3, <3>4, <4>2 DEF Here
      <4>3. j \in (i + 1) .. (at - 1) \/ (j = at /\ at' = at + 1)
        <5>1. i \in Int /\ j \in Int
          BY <1>0, <1>2, <3>4
        <5> QED
          BY <1>3, <5>1
      <4> QED
        BY <4>1, <4>2, <4>3
    <3>5. i <= at'
      BY <1>0, <1>2, <3>2
    <3> QED
      BY <3>1, <3>2, <3>4, <3>5
  <2> QED
    BY <2>1, <2>2
<1>8. Parse!PortsOfAddresses'
  BY <1>6, <1>7 DEF Parse!PortsOfAddresses
<1> QED
  BY <1>5, <1>8 DEF PortsFit

LEMMA PortsNext ==
    ASSUME ParseInv, Parse!Next
    PROVE  PortsFit'
<1>0. /\ Parse!TypeOK /\ LineFits /\ PortsFit
      /\ at \in 1 .. Len(input) + 1 /\ Len(input) \in Nat
  BY ParseTypes DEF ParseInv
<1>1. ports = Parse!With(ports, {}, Parse!PortOf(Here))
  <2>1. ports = [a \in DOMAIN ports |-> ports[a]]
    BY <1>0 DEF PortsFit
  <2> QED
    BY <2>1 DEF Parse!With
<1>2. CASE Parse!SkipBlank \/ Parse!EndLine
  <2>1. /\ at \in 1 .. Len(input) /\ Here.tokens = <<>> /\ at' = at + 1
        /\ UNCHANGED <<valid, ports, input>>
    BY <1>0, <1>2, LineIsRead DEF Parse!SkipBlank, Parse!EndLine, Parse!Blank, Parse!line, Here,
       Parse!world, LineFits
  <2>2. Parse!ToSet(Here.tokens) \cap Singles \subseteq {}
    BY <2>1 DEF Parse!ToSet
  <2> QED
    BY <1>1, <2>1, <2>2, PortsGiven
<1>3. CASE Parse!TokenLine
  <2>1. Here.tokens \in Seq(Singles \cup Blocks) /\ at \in 1 .. Len(input)
    BY <1>0, <1>3, LineIsRead DEF Parse!TokenLine
  <2>2. /\ valid' = valid \o Here.tokens /\ Here.tokens # <<>> /\ at' = at + 1 /\ input' = input
        /\ ports' = IF Parse!PortOf(Here) = 0 THEN ports
                    ELSE Parse!With(ports, Parse!ToSet(Here.tokens) \cap Singles, Parse!PortOf(Here))
    BY <1>3 DEF Parse!TokenLine, Parse!line, Here, Parse!world
  <2>3. Parse!ToSet(valid') = Parse!ToSet(valid) \cup Parse!ToSet(Here.tokens)
    BY <1>0, <2>1, <2>2, ParseTypes, Joined
  <2>4. Parse!ToSet(Here.tokens) \cap Singles \subseteq Parse!Candidates(Here) \cap Singles
    BY <2>2, CandidatesOf
  <2> QED
    BY <2>1, <2>2, <2>3, <2>4, PortsGiven
<1>4. CASE Resolving
  <2>1. /\ inLine /\ todo # <<>> /\ UNCHANGED <<input, at>>
    BY <1>4, Resolve
  <2>2. PICK taken \in Seq(Singles) :
             /\ valid' = valid \o taken /\ Parse!ToSet(taken) \subseteq Listing(Head(todo))
             /\ ports' = IF Parse!PortOf(Here) = 0 THEN ports
                         ELSE Parse!With(ports, Parse!ToSet(taken), Parse!PortOf(Here))
    BY <1>4, Gives
  <2>3. Parse!ToSet(valid') = Parse!ToSet(valid) \cup Parse!ToSet(taken)
    <3>1. taken \in Seq(Singles \cup Blocks)
      BY <2>2
    <3> QED
      BY <1>0, <2>2, <3>1, ParseTypes, Joined
  <2>4. Head(todo) \in Parse!ToSet(Here.domains) /\ Here.tokens = <<>> /\ at \in 1 .. Len(input)
    BY <1>0, <2>1, ParseTypes, Parted DEF LineFits
  <2>5. Listing(Head(todo)) \subseteq Parse!Candidates(Here)
    BY <2>4, CandidatesOf
  <2>6. Parse!ToSet(taken) \subseteq Singles
    BY <2>2 DEF Parse!ToSet
  <2> QED
    BY <2>1, <2>2, <2>3, <2>4, <2>5, <2>6, PortsGiven
<1>5. CASE Parse!StopAtLimit \/ Parse!DomainLine \/ Parse!TimePasses \/ Parse!Cancel
  <2>1. UNCHANGED <<input, at, valid, ports>>
    BY <1>5 DEF Parse!StopAtLimit, Parse!DomainLine, Parse!TimePasses, Parse!Cancel, Parse!world
  <2> QED
    BY <1>0, <2>1 DEF PortsFit, Parse!PortsOfAddresses
<1> QED
  BY <1>2, <1>3, <1>4, <1>5, ParseCases

LEMMA ParseInit == ASSUME Parse!Init PROVE ParseInv
<1>1. input \in Parse!BoundedSeq(Lines, MaxLines) /\ at = 1 /\ todo = <<>> /\ ~inLine /\ valid = <<>>
      /\ ports = <<>> /\ cache = <<>> /\ lookups = 0 /\ clock = "unset" /\ ~stopped
      /\ ~parseCancelled /\ ~truncated /\ ~lookupBudgetExceeded /\ ~resolveBudgetExceeded
      /\ {inLine, parseCancelled, stopped, truncated, lookupBudgetExceeded, resolveBudgetExceeded} \subseteq BOOLEAN
  BY DEF Parse!Init
<1>2. PICK m \in 0 .. MaxLines : input \in [1 .. m -> Lines]
  BY <1>1 DEF Parse!BoundedSeq, Parse!SeqOf
<1>3. at \in 1 .. Len(input) + 1
  BY <1>1, <1>2, ParseConstants
<1>4. DOMAIN <<>> = {} /\ Len(<<>>) = 0
  OBVIOUS
<1>5. Parse!TypeOK
  BY <1>1, <1>3, <1>4, ParseConstants DEF Parse!TypeOK
<1>6. LineFits /\ LimitFits
  BY <1>1, <1>4, ParseConstants DEF LineFits, LimitFits
<1>7. CacheFits
  BY <1>1, <1>4, FS_EmptySet, ParseCounts DEF CacheFits
<1>8. ReadIsKept
  BY <1>1 DEF ReadIsKept
<1>9. PortsFit
  <2>1. ports = [a \in DOMAIN ports |-> ports[a]]
    BY <1>1
  <2> QED
    BY <1>1, <1>4, <2>1 DEF PortsFit, Parse!PortsOfAddresses
<1> QED
  BY <1>5, <1>6, <1>7, <1>8, <1>9 DEF ParseInv

LEMMA ParseStep == ParseInv /\ [Parse!Next]_parseVars => ParseInv'
<1>1. ASSUME ParseInv, Parse!Next PROVE ParseInv'
  BY <1>1, ParseTypesNext, LineNext, CacheNext, LimitNext, KeptNext, PortsNext DEF ParseInv
<1>2. ASSUME ParseInv, UNCHANGED parseVars PROVE ParseInv'
  <2>1. ParseInv
    BY <1>2
  <2>2. Parse!TypeOK' /\ LineFits' /\ LimitFits'
    BY <1>2 DEF ParseInv, parseVars, Parse!TypeOK, LineFits, LimitFits, Here
  <2>3. CacheFits' /\ ReadIsKept'
    BY <1>2 DEF ParseInv, parseVars, CacheFits, ReadIsKept, Unwarned, Here, Listing
  <2>4. PortsFit'
    BY <1>2 DEF ParseInv, parseVars, PortsFit, Parse!PortsOfAddresses
  <2> QED
    BY <2>2, <2>3, <2>4 DEF ParseInv
<1> QED
  BY <1>1, <1>2

LEMMA ParseInvIsSafe == ParseInv => Parse!Safety
<1> SUFFICES ASSUME ParseInv PROVE Parse!Safety
  OBVIOUS
<1>0. Parse!TypeOK /\ LineFits /\ CacheFits /\ LimitFits /\ ReadIsKept /\ PortsFit
  BY DEF ParseInv
<1>1. Parse!NothingDroppedSilently
  <2> SUFFICES ASSUME Parse!Done, Unwarned
               PROVE  \A i \in 1 .. Len(input) : Parse!Candidates(input[i]) \subseteq Parse!ToSet(valid)
    BY DEF Parse!NothingDroppedSilently, Unwarned
  <2>1. at > Len(input)
    BY <1>0 DEF Parse!Done, Unwarned, LineFits
  <2>2. 1 .. Len(input) \subseteq 1 .. at - 1
    BY <1>0, <2>1, ParseTypes
  <2> QED
    BY <1>0, <2>2 DEF ReadIsKept
<1>2. Parse!BudgetsHold
  BY <1>0 DEF Parse!BudgetsHold, CacheFits, LimitFits
<1> QED
  BY <1>0, <1>1, <1>2 DEF Parse!Safety, PortsFit

-----------------------------------------------------------------------------
(* The parts in every behaviour of MCSources.                              *)

LEMMA PartSteps ==
    [Next]_vars => /\ UNCHANGED part
                   /\ part = "parse" => [Parse!Next]_parseVars
                   /\ part = "pool" => [Pool!Next]_poolVars
                   /\ part = "prepare" => [Prepare!Next]_prepareVars
  BY DEF Next, vars

\* The preparation of several sources keeps its promises: the result does
\* not depend on who answered first, no outcome is merged while it is being
\* written, a source that fails takes no other with it, an address passes the
\* filter of any of its sources; for every number of sources, every set of
\* addresses and all readings (appcore/sources.go:216-333).
THEOREM PrepareKept == Spec => []PrepareSafe
<1> DEFINE IInv == part = "prepare" => PrepareInv
<1>1. Init => IInv
  BY PrepareInit DEF Init
<1>2. IInv /\ [Next]_vars => IInv'
  BY PartSteps, PrepareStep
<1>3. IInv => PrepareSafe
  BY PrepareInvIsSafe DEF PrepareSafe
<1> QED
  BY <1>1, <1>2, <1>3, PTL DEF Spec

\* The candidate pool of a source keeps its promises: one candidate for each
\* network within the limit, every network of the source or a warning, and
\* nothing a filter in effect rejects; for all tokens, limits and
\* dictionaries (probecore/source_build.go:79-299).
THEOREM PoolKept == Spec => []PoolSafe
<1> DEFINE IInv == part = "pool" => PoolInv
<1>1. Init => IInv
  BY PoolInit DEF Init
<1>2. IInv /\ [Next]_vars => IInv'
  BY PartSteps, PoolStep
<1>3. IInv => PoolSafe
  BY PoolInvIsSafe DEF PoolSafe
<1> QED
  BY <1>1, <1>2, <1>3, PTL DEF Spec

\* The parser of a source keeps its promises: without a warning every candidate
\* of the input is kept, a domain costs one look-up, only the tokens of one line
\* pass the limit, a port belongs to an address that was kept and is the last
\* one given with it; for all inputs, answers and budgets
\* (sourceparse/sourceparse.go:76-231, 480-524).
THEOREM ParseKept == Spec => []ParseSafe
<1> DEFINE IInv == part = "parse" => ParseInv
<1>1. Init => IInv
  BY ParseInit DEF Init
<1>2. IInv /\ [Next]_vars => IInv'
  BY PartSteps, ParseStep
<1>3. IInv => ParseSafe
  BY ParseInvIsSafe DEF ParseSafe
<1> QED
  BY <1>1, <1>2, <1>3, PTL DEF Spec

=============================================================================
