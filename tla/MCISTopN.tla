------------------------------ MODULE MCISTopN ------------------------------
(***************************************************************************)
(* The collector of the sampling search (internal/mcis/engine/result.go):  *)
(* a max-heap of results, worst on top, beside a map from networks to the  *)
(* position of their result in the heap.  Every change of the heap moves   *)
(* results about, so the map is rebuilt after each.                        *)
(*                                                                         *)
(* Positions are those of TLA+ sequences (1..n).  container/heap is not    *)
(* part of the repository: Up, Down, Push, Pop and Fix say what it does.   *)
(***************************************************************************)
EXTENDS Integers, Sequences, FiniteSets, SequencesExt

CONSTANTS
  N,        \* results wanted
  Nets,     \* networks: an IPv4 address, the /64 of an IPv6 one
  Scores,   \* latencies
  MaxOffers \* bound: results offered

VARIABLES
  items,    \* the heap: [net, ms]
  seenNet,  \* position of each network in it, 0 if it has none
  offered   \* how often each [net, ms] was offered (history)

vars == <<items, seenNet, offered>>

Result == [net : Nets, ms : Scores]

-----------------------------------------------------------------------------
(* container/heap over Less. *)

Less(h, i, j) == h[i].ms > h[j].ms

Swap(h, i, j) == [h EXCEPT ![i] = h[j], ![j] = h[i]]

RECURSIVE Up(_, _)
Up(h, j) ==
  IF j = 1 \/ ~Less(h, j, j \div 2) THEN h ELSE Up(Swap(h, j, j \div 2), j \div 2)

RECURSIVE Down(_, _)
Down(h, i) ==
  LET l == 2 * i
      c == IF l + 1 <= Len(h) /\ Less(h, l + 1, l) THEN l + 1 ELSE l
  IN  IF l > Len(h) \/ ~Less(h, c, i) THEN h ELSE Down(Swap(h, i, c), c)

Push(h, r) == Up(Append(h, r), Len(h) + 1)

Pop(h) ==
  LET n == Len(h) IN IF n = 1 THEN <<>> ELSE Down(SubSeq(Swap(h, 1, n), 1, n - 1), 1)

\* Restores the order after the result at i changed.
Fix(h, i) == LET d == Down(h, i) IN IF d = h THEN Up(h, i) ELSE d

-----------------------------------------------------------------------------
(* The collector. *)

\* The map from networks to positions.
NetworkMap(h) ==
  [k \in Nets |-> IF \E i \in DOMAIN h : h[i].net = k
                  THEN CHOOSE i \in DOMAIN h : h[i].net = k ELSE 0]

Init == items = <<>> /\ seenNet = [k \in Nets |-> 0] /\ offered = {}

\* Mutant: the heap is not put in order again.
ImproveUnfixed(r) ==
  LET idx == seenNet[r.net]
  IN  /\ idx # 0
      /\ IF r.ms < items[idx].ms
         THEN /\ items' = [items EXCEPT ![idx] = r]
              /\ seenNet' = NetworkMap(items')
         ELSE UNCHANGED <<items, seenNet>>

\* Mutant: the later result of a network wins.
ImproveEqual(r) ==
  LET idx == seenNet[r.net]
  IN  /\ idx # 0
      /\ IF r.ms # items[idx].ms
         THEN /\ items' = Fix([items EXCEPT ![idx] = r], idx)
              /\ seenNet' = NetworkMap(items')
         ELSE UNCHANGED <<items, seenNet>>

\* A network that is kept: only a better score changes it.
Improve(r) ==
  LET idx == seenNet[r.net]
  IN  /\ idx # 0
      /\ IF r.ms < items[idx].ms
         THEN /\ items' = Fix([items EXCEPT ![idx] = r], idx)
              /\ seenNet' = NetworkMap(items')
         ELSE UNCHANGED <<items, seenNet>>

\* Mutant: the new result is entered at the end, where it may not stay.
AddStaleMap(r) ==
  /\ seenNet[r.net] = 0 /\ Len(items) < N
  /\ items' = Push(items, r) /\ seenNet' = [seenNet EXCEPT ![r.net] = Len(items')]

\* Mutant: room for one more.
AddPastN(r) ==
  /\ seenNet[r.net] = 0 /\ Len(items) <= N
  /\ items' = Push(items, r) /\ seenNet' = NetworkMap(items')

\* A new network while there is room.
Add(r) ==
  /\ seenNet[r.net] = 0 /\ Len(items) < N
  /\ items' = Push(items, r) /\ seenNet' = NetworkMap(items')

\* Mutant: the last place of the heap is given up.
DisplaceLast(r) ==
  /\ seenNet[r.net] = 0 /\ Len(items) >= N
  /\ IF N > 0 /\ r.ms < items[1].ms
     THEN items' = Push(Front(items), r) /\ seenNet' = NetworkMap(items')
     ELSE UNCHANGED <<items, seenNet>>

\* A new network in a full heap takes the place of the worst, if it is better.
Displace(r) ==
  /\ seenNet[r.net] = 0 /\ Len(items) >= N
  /\ IF N > 0 /\ r.ms < items[1].ms
     THEN items' = Push(Pop(items), r) /\ seenNet' = NetworkMap(items')
     ELSE UNCHANGED <<items, seenNet>>

Consider(r) == Improve(r) \/ Add(r) \/ Displace(r)

\* The results best first: a selection sort of a copy.
Snapshot == SortSeq(items, LAMBDA a, b : a.ms < b.ms)

Next ==
  \E r \in Result :
    /\ Cardinality(offered) < MaxOffers
    /\ Consider(r) /\ offered' = offered \cup {r}

Spec == Init /\ [][Next]_vars

-----------------------------------------------------------------------------
(* Properties. *)

\* The heap keeps at most N results and the map only names positions in it.
TypeOK ==
  /\ items \in Seq(Result) /\ Len(items) <= N
  /\ seenNet \in [Nets -> 0..Len(items)]

\* Whatever was pushed, popped and improved, no result is better than one
\* below it: the first is a worst one, which is what a full heap gives up.
HeapOrder == \A i \in 2..Len(items) : items[i].ms <= items[i \div 2].ms

\* The map and the heap agree after every change: a network is looked up at
\* the position where its result is now (result.go rebuildNetworkMap).
MapExact ==
  /\ \A k \in Nets : seenNet[k] # 0 => items[seenNet[k]].net = k
  /\ \A i \in DOMAIN items : seenNet[items[i].net] = i

\* Best offered score of each network, and the networks in the heap.
BestScore(k) ==
  LET s == {r.ms : r \in {x \in offered : x.net = k}}
  IN  IF s = {} THEN 0 ELSE CHOOSE m \in s : \A n \in s : m <= n

Abstract == INSTANCE BestOfN WITH
  best <- [k \in Nets |-> BestScore(k)], kept <- {items[i].net : i \in DOMAIN items}

\* The heap implements the abstract collector: it holds the N best networks
\* of everything offered so far, in whatever order that came.
Implements == Abstract!Spec

\* Each result of the answer carries the best score of its network, and the
\* answer is ascending: the first one is the best of all offered.
SnapshotBest ==
  \A i \in DOMAIN Snapshot :
    /\ Snapshot[i].ms = BestScore(Snapshot[i].net)
    /\ \A r \in offered : i = 1 => Snapshot[1].ms <= r.ms

\* The invariants above together.
Safety ==
    /\ TypeOK /\ HeapOrder /\ MapExact /\ SnapshotBest
=============================================================================
