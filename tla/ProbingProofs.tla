---------------------------- MODULE ProbingProofs ----------------------------
(***************************************************************************)
(* Proofs about MCProbing: each part of a probe keeps what it promises     *)
(* while it is at work, whatever the numbers of addresses, workers, tasks  *)
(* and cleanups.                                                           *)
(*                                                                         *)
(* The pool of a stage, the cleaner, a trace probe and a download each     *)
(* have an inductive invariant of their own; the parts do not share a      *)
(* state, so a step of one leaves the invariants of the others alone.      *)
(***************************************************************************)
EXTENDS MCProbing, FiniteSetTheorems, TLAPS

-----------------------------------------------------------------------------
(* The inductive invariant.                                                *)

\* Places of a worker whose address has no verdict yet.
Before == {"spawned", "check", "probing", "backoff", "judge"}

\* A verdict that advances the progress.
Counts(v) == v \in {"ok", "failed", "ignored"} \/ (v = "panic" /\ stage = "trace")

\* The verdict of an address belongs to the place of its worker.
WorkersFit ==
    \A i \in Stage!Items :
      /\ pc[i] \in Before \cup {"new"} => verdict[i] = "none"
      /\ pc[i] = "note" => verdict[i] \in {"ok", "failed"}
      /\ pc[i] = "panicked" => verdict[i] = "panic" /\ stage # "trace"
      /\ pc[i] = "cooling" => verdict[i] = "failed"
                                \/ (verdict[i] = "panic" /\ stage # "trace")
      /\ pc[i] = "count" => Counts(verdict[i])
      /\ pc[i] = "done" => verdict[i] # "none"
      /\ verdict[i] = "cancelled" => cancelled

\* The loop has started the workers of the addresses it passed, and stops for
\* a reason.
LoopFits ==
    /\ \A i \in Stage!Items : i < next <=> pc[i] # "new"
    /\ main = "acquire" => next <= N
    /\ main = "returned" => Stage!Live = {}
    /\ main \in {"wait", "returned"} => next > N \/ Stage!LimitReached \/ cancelled

Counted == {i \in Stage!Items : pc[i] = "done" /\ Counts(verdict[i])}
Pending == {i \in Stage!Items : pc[i] \in Before}
Noted == {i \in Stage!Items : verdict[i] \in {"failed", "panic"}
                          /\ pc[i] \notin {"note", "panicked"}}

\* The progress is what was counted; whoever may still pass is within the
\* limit; a failure pays for a cooldown once it was noted.
TalliesFit ==
    /\ processed = Stage!Cardinality(Counted)
    /\ stage = "get" /\ SuccessLimit > 0 =>
         Stage!Cardinality(qualified) + Stage!Cardinality(Pending) <= SuccessLimit + Routines - 1
    /\ Threshold * coolings + fails <= Stage!Cardinality(Noted)

StageInv == Stage!TypeOK /\ WorkersFit /\ LoopFits /\ TalliesFit

-----------------------------------------------------------------------------
(* Sets of addresses.                                                      *)

\* The pool counts the way the library does.
LEMMA SameCardinality == \A S : Stage!Cardinality(S) = Cardinality(S)
  BY DEF Stage!Cardinality, Cardinality

LEMMA Counting ==
    ASSUME Stage!PoolAssumption
    PROVE  /\ \A S \in SUBSET Stage!Items : IsFiniteSet(S) /\ Stage!Cardinality(S) \in 0 .. N
           /\ \A S, T \in SUBSET Stage!Items : S \subseteq T => Stage!Cardinality(S) <= Stage!Cardinality(T)
           /\ \A S \in SUBSET Stage!Items : \A i \in Stage!Items :
                Stage!Cardinality(S \cup {i}) =
                  IF i \in S THEN Stage!Cardinality(S) ELSE Stage!Cardinality(S) + 1
           /\ \A S \in SUBSET Stage!Items : \A i \in Stage!Items :
                Stage!Cardinality(S \ {i}) =
                  IF i \in S THEN Stage!Cardinality(S) - 1 ELSE Stage!Cardinality(S)
<1>1. IsFiniteSet(Stage!Items) /\ Cardinality(Stage!Items) = N
  BY FS_Interval DEF Stage!PoolAssumption, Stage!Items
<1>2. ASSUME NEW S \in SUBSET Stage!Items
      PROVE  IsFiniteSet(S) /\ Cardinality(S) \in 0 .. N
  BY <1>1, FS_Subset, FS_CardinalityType DEF Stage!PoolAssumption
<1>3. ASSUME NEW S \in SUBSET Stage!Items, NEW T \in SUBSET Stage!Items, S \subseteq T
      PROVE  Cardinality(S) <= Cardinality(T)
  BY <1>2, <1>3, FS_Subset
<1>4. ASSUME NEW S \in SUBSET Stage!Items, NEW i \in Stage!Items
      PROVE  Cardinality(S \cup {i}) =
               IF i \in S THEN Cardinality(S) ELSE Cardinality(S) + 1
  BY <1>2, FS_AddElement
<1>5. ASSUME NEW S \in SUBSET Stage!Items, NEW i \in Stage!Items
      PROVE  Cardinality(S \ {i}) =
               IF i \in S THEN Cardinality(S) - 1 ELSE Cardinality(S)
  BY <1>2, FS_RemoveElement
<1> QED
  BY <1>2, <1>3, <1>4, <1>5, SameCardinality

-----------------------------------------------------------------------------
(* What the step of a worker comes to.                                     *)

\* Its address has no verdict yet.
Goes(i) ==
    /\ pc[i] \in Before
    /\ pc'[i] \in Before
    /\ verdict' = verdict
    /\ UNCHANGED <<qualified, processed, fails, coolings>>

\* The stage stops for a cancel.
GivesUp(i) ==
    /\ pc[i] \in Before /\ cancelled
    /\ pc'[i] = "done" /\ verdict'[i] = "cancelled"
    /\ UNCHANGED <<qualified, processed, fails, coolings>>

\* The address is judged; one that passes is on its way from the last attempt.
Judges(i) ==
    /\ pc[i] \in Before
    /\ \/ pc'[i] = "note" /\ verdict'[i] \in {"ok", "failed"}
       \/ pc'[i] = "count" /\ verdict'[i] = "ignored"
       \/ pc'[i] = "count" /\ verdict'[i] = "panic" /\ stage = "trace"
       \/ pc'[i] = "panicked" /\ verdict'[i] = "panic" /\ stage # "trace"
    /\ \/ qualified' = qualified
       \/ qualified' = qualified \cup {i}
    /\ UNCHANGED <<processed, fails, coolings>>

\* Its outcome is noted.
Notes(i) ==
    /\ pc[i] \in {"note", "panicked"} /\ verdict' = verdict
    /\ pc'[i] \in {IF pc[i] = "panicked" THEN "done" ELSE "count", "cooling"}
    /\ pc'[i] = "cooling" => verdict[i] # "ok"
    /\ \/ Threshold = 0 /\ fails' = fails /\ coolings' = coolings
       \/ verdict[i] = "ok" /\ fails' = 0 /\ coolings' = coolings
       \/ /\ verdict[i] # "ok" /\ fails + 1 < Threshold
          /\ fails' = fails + 1 /\ coolings' = coolings
       \/ /\ verdict[i] # "ok" /\ ~(fails + 1 < Threshold)
          /\ fails' = 0 /\ coolings' = coolings + 1
    /\ UNCHANGED <<qualified, processed>>

\* Its cooldown is over.
Cools(i) ==
    /\ pc[i] = "cooling" /\ verdict' = verdict
    /\ pc'[i] = IF verdict[i] = "panic" THEN "done" ELSE "count"
    /\ UNCHANGED <<qualified, processed, fails, coolings>>

\* It is counted.
CountsOne(i) ==
    /\ pc[i] = "count" /\ pc'[i] = "done" /\ verdict' = verdict
    /\ processed' = processed + 1
    /\ UNCHANGED <<qualified, fails, coolings>>

LEMMA WorkerMoves ==
    ASSUME Stage!PoolAssumption, Stage!TypeOK, NEW i \in Stage!Items, Stage!Worker(i)
    PROVE  /\ \/ Goes(i) \/ GivesUp(i) \/ Judges(i) \/ Notes(i) \/ Cools(i)
              \/ CountsOne(i)
           /\ \A j \in Stage!Items \ {i} : pc'[j] = pc[j] /\ verdict'[j] = verdict[j]
           /\ UNCHANGED <<Stage!loop, Stage!control>>
           /\ pc' \in [Stage!Items -> Stage!Steps]
           /\ verdict' \in [Stage!Items -> {"none", "ok", "failed", "ignored",
                                      "panic", "cancelled"}]
           /\ attempt' \in [Stage!Items -> 1 .. MaxAttempts]
<1> USE DEF Stage!TypeOK, Stage!Steps, Before, Stage!Goto, Stage!Judged, Stage!tally, Stage!cooldown
<1>1. CASE Stage!Enter(i)
  BY <1>1 DEF Stage!Enter, Goes, GivesUp
<1>2. CASE Stage!Check(i)
  BY <1>2 DEF Stage!Check, Goes, GivesUp, Judges
<1>3. CASE Stage!Succeed(i)
  BY <1>3 DEF Stage!Succeed, Stage!Answered, Goes
<1>4. CASE Stage!Fail(i)
  <2>1. CASE attempt[i] < MaxAttempts
    <3>1. attempt[i] + 1 \in 1 .. MaxAttempts
      BY <2>1 DEF Stage!PoolAssumption
    <3>2. attempt' = [attempt EXCEPT ![i] = attempt[i] + 1]
      BY <1>4, <2>1 DEF Stage!Fail
    <3>3. attempt' \in [Stage!Items -> 1 .. MaxAttempts]
      BY <3>1, <3>2
    <3>4. pc' = [pc EXCEPT ![i] = "backoff"] /\ verdict' = verdict
      BY <1>4, <2>1 DEF Stage!Fail
    <3>5. pc' \in [Stage!Items -> Stage!Steps]
      BY <3>4
    <3> QED
      BY <1>4, <3>3, <3>4, <3>5 DEF Stage!Fail, Stage!Answered, Goes
  <2>2. CASE ~(attempt[i] < MaxAttempts) /\ stage = "trace"
    BY <1>4, <2>2 DEF Stage!Fail, Stage!Answered, Goes
  <2>3. CASE ~(attempt[i] < MaxAttempts) /\ stage # "trace"
    BY <1>4, <2>3 DEF Stage!Fail, Stage!Answered, Judges
  <2> QED
    BY <2>1, <2>2, <2>3
<1>5. CASE Stage!Interrupted(i)
  BY <1>5 DEF Stage!Interrupted, Goes
<1>6. CASE Stage!Ignore(i)
  BY <1>6 DEF Stage!Ignore, Stage!Answered, Judges
<1>7. CASE Stage!Dropped(i)
  BY <1>7 DEF Stage!Dropped, GivesUp
<1>8. CASE Stage!Backoff(i)
  BY <1>8 DEF Stage!Backoff, Goes
<1>9. CASE Stage!Judge(i)
  BY <1>9 DEF Stage!Judge, Judges
<1>10. CASE Stage!Panic(i)
  BY <1>10 DEF Stage!Panic, Judges
<1>11. CASE Stage!Note(i)
  BY <1>11 DEF Stage!Note, Stage!AfterNote, Notes
<1>12. CASE Stage!Cool(i)
  BY <1>12 DEF Stage!Cool, Cools
<1>13. CASE Stage!Count(i)
  BY <1>13 DEF Stage!Count, CountsOne
<1> QED
  BY <1>1, <1>2, <1>3, <1>4, <1>5, <1>6, <1>7, <1>8, <1>9, <1>10, <1>11, <1>12,
     <1>13 DEF Stage!Worker

\* The steps of the user and of the loop.
LEMMA LoopMoves ==
    ASSUME Stage!TypeOK, Stage!Pause \/ Stage!Resume \/ Stage!Cancel \/ Stage!Main
    PROVE  /\ UNCHANGED <<stage, attempt, verdict, Stage!tally, Stage!cooldown>>
           /\ cancelled => cancelled'
           /\ \/ UNCHANGED <<main, next, pc>>
              \/ /\ main = "head" /\ UNCHANGED <<next, pc, cancelled>>
                 /\ \/ main' = "wait" /\ (next > N \/ Stage!LimitReached \/ cancelled)
                    \/ main' = "acquire" /\ next <= N
              \/ /\ main = "acquire" /\ Stage!LimitReached /\ main' = "wait"
                 /\ UNCHANGED <<next, pc, cancelled>>
              \/ /\ main = "acquire" /\ ~Stage!LimitReached /\ main' = "head"
                 /\ Stage!Cardinality(Stage!Live) < Routines
                 /\ next' = next + 1 /\ pc' = [pc EXCEPT ![next] = "spawned"]
                 /\ UNCHANGED cancelled
              \/ /\ main = "wait" /\ Stage!Live = {} /\ main' = "returned"
                 /\ UNCHANGED <<next, pc, cancelled>>
<1>1. CASE Stage!Pause \/ Stage!Resume \/ Stage!Cancel
  BY <1>1 DEF Stage!Pause, Stage!Resume, Stage!Cancel, Stage!loop, Stage!TypeOK
<1>2. CASE Stage!Head
  BY <1>2 DEF Stage!Head, Stage!control, Stage!TypeOK
<1>3. CASE Stage!Acquire
  BY <1>3 DEF Stage!Acquire, Stage!control
<1>4. CASE Stage!Return
  BY <1>4 DEF Stage!Return, Stage!control
<1> QED
  BY <1>1, <1>2, <1>3, <1>4 DEF Stage!Main

\* The steps of the stage.
LEMMA StageCases ==
    ASSUME [Stage!Next]_(Stage!vars)
    PROVE  \/ Stage!Pause \/ Stage!Resume \/ Stage!Cancel \/ Stage!Main
           \/ \E i \in Stage!Items : Stage!Worker(i)
           \/ UNCHANGED Stage!vars
  BY DEF Stage!Next

-----------------------------------------------------------------------------
(* The parts of the invariant, step by step.                               *)

\* A worker takes no place that it did not have; the loop waits for one.
LEMMA LiveNext ==
    ASSUME Stage!PoolAssumption, Stage!TypeOK, LoopFits, [Stage!Next]_(Stage!vars)
    PROVE  Stage!Cardinality(Stage!Live') <= Routines
<1>a. /\ Stage!Live \in SUBSET Stage!Items /\ Stage!Live' \in SUBSET Stage!Items
      /\ Stage!Cardinality(Stage!Live) \in Nat /\ Stage!Cardinality(Stage!Live) <= Routines
      /\ Routines \in Nat
  BY Counting DEF Stage!Live, Stage!TypeOK, Stage!PoolAssumption
<1>b. Stage!Live' \subseteq Stage!Live => Stage!Cardinality(Stage!Live') <= Routines
  BY <1>a, Counting
<1>1. ASSUME NEW i \in Stage!Items, Stage!Worker(i) PROVE Stage!Live' \subseteq Stage!Live
  <2>1. pc[i] \notin {"new", "done"}
    BY <1>1, WorkerMoves
    DEF Goes, GivesUp, Judges, Notes, Cools, CountsOne, Before
  <2>2. \A j \in Stage!Items \ {i} : pc'[j] = pc[j]
    BY <1>1, WorkerMoves
  <2> QED
    BY <2>1, <2>2 DEF Stage!Live
<1>2. CASE Stage!Pause \/ Stage!Resume \/ Stage!Cancel \/ Stage!Main
  <2>1. CASE pc' = pc
    BY <1>b, <2>1 DEF Stage!Live
  <2>2. CASE pc' # pc
    <3>1. /\ main = "acquire" /\ Stage!Cardinality(Stage!Live) < Routines
          /\ pc' = [pc EXCEPT ![next] = "spawned"]
      BY <1>2, <2>2, LoopMoves
    <3>2. next \in Stage!Items
      BY <3>1 DEF LoopFits, Stage!TypeOK, Stage!Items, Stage!PoolAssumption
    <3>3. Stage!Live' \subseteq Stage!Live \cup {next} /\ Stage!Live \cup {next} \in SUBSET Stage!Items
      BY <1>a, <3>1, <3>2 DEF Stage!Live, Stage!TypeOK
    <3>4. Stage!Cardinality(Stage!Live \cup {next}) <= Stage!Cardinality(Stage!Live) + 1
      BY <1>a, <3>2, Counting
    <3>5. /\ Stage!Cardinality(Stage!Live') <= Stage!Cardinality(Stage!Live \cup {next})
          /\ Stage!Cardinality(Stage!Live') \in Nat /\ Stage!Cardinality(Stage!Live \cup {next}) \in Nat
      BY <1>a, <3>3, Counting
    <3> QED
      BY <1>a, <3>1, <3>4, <3>5
  <2> QED
    BY <2>1, <2>2
<1>3. CASE UNCHANGED Stage!vars
  BY <1>b, <1>3 DEF Stage!vars, Stage!Live
<1> QED
  BY <1>b, <1>1, <1>2, <1>3, StageCases

LEMMA WorkersNext ==
    ASSUME Stage!PoolAssumption, Stage!TypeOK, LoopFits, WorkersFit, [Stage!Next]_(Stage!vars)
    PROVE  WorkersFit'
<1>1. ASSUME NEW i \in Stage!Items, Stage!Worker(i) PROVE WorkersFit'
  <2>1. stage' = stage /\ cancelled' = cancelled
    BY <1>1, WorkerMoves DEF Stage!loop, Stage!control
  <2>2. \A j \in Stage!Items \ {i} : pc'[j] = pc[j] /\ verdict'[j] = verdict[j]
    BY <1>1, WorkerMoves
  <2>3. /\ pc'[i] \in Before \cup {"new"} => verdict'[i] = "none"
        /\ pc'[i] = "note" => verdict'[i] \in {"ok", "failed"}
        /\ pc'[i] = "panicked" => verdict'[i] = "panic" /\ stage # "trace"
        /\ pc'[i] = "cooling" => verdict'[i] = "failed"
                                    \/ (verdict'[i] = "panic" /\ stage # "trace")
        /\ pc'[i] = "count" => Counts(verdict'[i])
        /\ pc'[i] = "done" => verdict'[i] # "none"
        /\ verdict'[i] = "cancelled" => cancelled
    <3> USE DEF WorkersFit, Counts, Before
    <3>1. CASE Goes(i)
      BY <3>1 DEF Goes
    <3>2. CASE GivesUp(i)
      BY <3>2 DEF GivesUp
    <3>3. CASE Judges(i)
      BY <3>3 DEF Judges
    <3>4. CASE Notes(i)
      BY <3>4 DEF Notes
    <3>5. CASE Cools(i)
      BY <3>5 DEF Cools
    <3>6. CASE CountsOne(i)
      BY <3>6 DEF CountsOne
    <3> QED
      BY <1>1, <3>1, <3>2, <3>3, <3>4, <3>5, <3>6, WorkerMoves
  <2> QED
    BY <2>1, <2>2, <2>3 DEF WorkersFit, Counts
<1>2. CASE Stage!Pause \/ Stage!Resume \/ Stage!Cancel \/ Stage!Main
  <2>1. stage' = stage /\ verdict' = verdict /\ (cancelled => cancelled')
    BY <1>2, LoopMoves
  <2>2. ASSUME NEW i \in Stage!Items
        PROVE  pc'[i] = pc[i] \/ (pc[i] = "new" /\ pc'[i] = "spawned")
    <3>1. CASE pc' = pc
      BY <3>1
    <3>2. CASE pc' # pc
      <4>1. main = "acquire" /\ pc' = [pc EXCEPT ![next] = "spawned"]
        BY <1>2, <3>2, LoopMoves
      <4>2. next \in Stage!Items /\ ~(next < next)
        BY <4>1 DEF LoopFits, Stage!TypeOK, Stage!Items, Stage!PoolAssumption
      <4>3. pc[next] = "new"
        BY <4>2 DEF LoopFits
      <4> QED
        BY <4>1, <4>3 DEF Stage!TypeOK
    <3> QED
      BY <3>1, <3>2
  <2> QED
    BY <2>1, <2>2 DEF WorkersFit, Counts, Before
<1>3. CASE UNCHANGED Stage!vars
  BY <1>3 DEF Stage!vars, WorkersFit, Counts
<1> QED
  BY <1>1, <1>2, <1>3, StageCases

\* A step moves one address in or out of each of the sets that are counted.
LEMMA TalliesNext ==
    ASSUME Stage!PoolAssumption, Stage!LimitAssumption, Stage!TypeOK, LoopFits, WorkersFit, TalliesFit,
           [Stage!Next]_(Stage!vars)
    PROVE  TalliesFit'
<1>a. /\ Counted \in SUBSET Stage!Items /\ Pending \in SUBSET Stage!Items /\ Noted \in SUBSET Stage!Items
      /\ Counted' \in SUBSET Stage!Items /\ Pending' \in SUBSET Stage!Items /\ Noted' \in SUBSET Stage!Items
  BY DEF Counted, Pending, Noted
<1>b. /\ Stage!Cardinality(Noted) \in Nat /\ Stage!Cardinality(Noted') \in Nat
      /\ Stage!Cardinality(Pending) \in Nat /\ Stage!Cardinality(Pending') \in Nat
      /\ Stage!Cardinality(qualified) \in Nat
      /\ Threshold \in Nat /\ SuccessLimit \in Nat /\ Routines \in Nat \ {0}
      /\ coolings \in Nat /\ fails \in Nat
  BY <1>a, Counting DEF Stage!TypeOK, Stage!PoolAssumption, Stage!LimitAssumption
<1>1. ASSUME NEW i \in Stage!Items, Stage!Worker(i) PROVE TalliesFit'
  <2>1. stage' = stage
    BY <1>1, WorkerMoves DEF Stage!loop
  <2>2. \A j \in Stage!Items \ {i} : pc'[j] = pc[j] /\ verdict'[j] = verdict[j]
    BY <1>1, WorkerMoves
  <2>3. processed' = Stage!Cardinality(Counted')
    <3>1. CASE CountsOne(i)
      <4>1. i \notin Counted /\ Counted' = Counted \cup {i}
        BY <2>1, <2>2, <3>1 DEF CountsOne, Counted, Counts, WorkersFit
      <4>2. Stage!Cardinality(Counted \cup {i}) = Stage!Cardinality(Counted) + 1
        BY <1>a, <4>1, Counting
      <4> QED
        BY <3>1, <4>1, <4>2 DEF CountsOne, TalliesFit
    <3>2. CASE ~CountsOne(i)
      <4>1. Goes(i) \/ GivesUp(i) \/ Judges(i) \/ Notes(i) \/ Cools(i)
        BY <1>1, <3>2, WorkerMoves
      <4>2. pc[i] # "done"
        BY <4>1 DEF Goes, GivesUp, Judges, Notes, Cools, Before
      <4>3. pc'[i] = "done" => ~Counts(verdict'[i])
        BY <4>1
        DEF Goes, GivesUp, Judges, Notes, Cools, Before, Counts, WorkersFit
      <4>4. Counted' = Counted
        BY <2>1, <2>2, <4>2, <4>3 DEF Counted, Counts
      <4>5. processed' = processed
        BY <4>1 DEF Goes, GivesUp, Judges, Notes, Cools
      <4> QED
        BY <4>4, <4>5 DEF TalliesFit
    <3> QED
      BY <3>1, <3>2
  <2>4. ASSUME stage = "get", SuccessLimit > 0
        PROVE  Stage!Cardinality(qualified') + Stage!Cardinality(Pending')
                 <= SuccessLimit + Routines - 1
    <3>1. Stage!Cardinality(qualified) + Stage!Cardinality(Pending) <= SuccessLimit + Routines - 1
      BY <2>4 DEF TalliesFit
    <3>2. CASE Judges(i)
      <4>1. i \in Pending /\ Pending' = Pending \ {i}
        BY <2>2, <3>2 DEF Judges, Pending, Before
      <4>2. Stage!Cardinality(Pending') = Stage!Cardinality(Pending) - 1
        BY <1>a, <4>1, Counting
      <4>3. qualified \in SUBSET Stage!Items
        BY DEF Stage!TypeOK
      <4>4. \/ Stage!Cardinality(qualified') = Stage!Cardinality(qualified)
            \/ Stage!Cardinality(qualified') = Stage!Cardinality(qualified) + 1
        BY <3>2, <4>3, Counting DEF Judges
      <4> QED
        BY <1>b, <3>1, <4>2, <4>4
    <3>3. CASE ~Judges(i)
      <4>1. Goes(i) \/ GivesUp(i) \/ Notes(i) \/ Cools(i) \/ CountsOne(i)
        BY <1>1, <3>3, WorkerMoves
      <4>2. qualified' = qualified
        BY <4>1 DEF Goes, GivesUp, Notes, Cools, CountsOne
      <4>3. Pending' \subseteq Pending
        BY <2>2, <4>1 DEF Goes, GivesUp, Notes, Cools, CountsOne, Pending, Before
      <4>4. Stage!Cardinality(Pending') <= Stage!Cardinality(Pending)
        BY <1>a, <4>3, Counting
      <4> QED
        BY <1>b, <3>1, <4>2, <4>4
    <3> QED
      BY <3>2, <3>3
  <2>5. Threshold * coolings' + fails' <= Stage!Cardinality(Noted')
    <3>1. Threshold * coolings + fails <= Stage!Cardinality(Noted)
      BY DEF TalliesFit
    <3>2. CASE Notes(i)
      <4>1. CASE verdict[i] = "ok"
        <5>1. Noted' = Noted
          BY <2>2, <3>2, <4>1 DEF Notes, Noted
        <5>2. coolings' = coolings /\ (fails' = 0 \/ fails' = fails)
          BY <3>2, <4>1 DEF Notes
        <5> QED
          BY <1>b, <3>1, <5>1, <5>2
      <4>2. CASE verdict[i] # "ok"
        <5>1. verdict[i] \in {"failed", "panic"}
          BY <3>2, <4>2 DEF Notes, WorkersFit
        <5>2. i \notin Noted /\ Noted' = Noted \cup {i}
          BY <2>2, <3>2, <5>1 DEF Notes, Noted
        <5>3. Stage!Cardinality(Noted') = Stage!Cardinality(Noted) + 1
          BY <1>a, <5>2, Counting
        <5>4. \/ fails' = fails /\ coolings' = coolings
              \/ fails' = fails + 1 /\ coolings' = coolings
              \/ ~(fails + 1 < Threshold) /\ fails' = 0 /\ coolings' = coolings + 1
          BY <3>2, <4>2 DEF Notes
        <5>5. /\ Threshold * (coolings + 1) = Threshold * coolings + Threshold
              /\ Threshold * coolings \in Nat
          BY <1>b
        <5> QED
          BY <1>b, <3>1, <5>3, <5>4, <5>5
      <4> QED
        BY <4>1, <4>2
    <3>3. CASE ~Notes(i)
      <4>1. Goes(i) \/ GivesUp(i) \/ Judges(i) \/ Cools(i) \/ CountsOne(i)
        BY <1>1, <3>3, WorkerMoves
      <4>2. fails' = fails /\ coolings' = coolings
        BY <4>1 DEF Goes, GivesUp, Judges, Cools, CountsOne
      <4>3. Noted \subseteq Noted'
        BY <2>2, <4>1
        DEF Goes, GivesUp, Judges, Cools, CountsOne, Noted, Before, WorkersFit
      <4>4. Stage!Cardinality(Noted) <= Stage!Cardinality(Noted')
        BY <1>a, <4>3, Counting
      <4>5. Threshold * coolings \in Nat
        BY <1>b
      <4> QED
        BY <1>b, <3>1, <4>2, <4>4, <4>5
    <3> QED
      BY <3>2, <3>3
  <2> QED
    BY <2>1, <2>3, <2>4, <2>5 DEF TalliesFit
<1>2. CASE Stage!Pause \/ Stage!Resume \/ Stage!Cancel \/ Stage!Main
  <2>1. UNCHANGED <<stage, verdict, qualified, processed, fails, coolings>>
    BY <1>2, LoopMoves DEF Stage!tally, Stage!cooldown
  <2>2. CASE pc' = pc
    <3>1. Counted' = Counted /\ Pending' = Pending /\ Noted' = Noted
      BY <2>1, <2>2 DEF Counted, Counts, Pending, Noted
    <3> QED
      BY <2>1, <3>1 DEF TalliesFit
  <2>3. CASE pc' # pc
    <3>1. /\ main = "acquire" /\ ~Stage!LimitReached /\ Stage!Cardinality(Stage!Live) < Routines
          /\ pc' = [pc EXCEPT ![next] = "spawned"]
      BY <1>2, <2>3, LoopMoves
    <3>2. next \in Stage!Items /\ ~(next < next)
      BY <3>1 DEF LoopFits, Stage!TypeOK, Stage!Items, Stage!PoolAssumption
    <3>3. pc[next] = "new" /\ verdict[next] = "none"
      BY <3>2 DEF LoopFits, WorkersFit
    <3>4. Counted' = Counted /\ Noted' = Noted /\ Pending' = Pending \cup {next}
      BY <2>1, <3>1, <3>2, <3>3 DEF Counted, Counts, Pending, Noted, Stage!TypeOK, Before
    <3>5. ASSUME stage = "get", SuccessLimit > 0
          PROVE  Stage!Cardinality(qualified') + Stage!Cardinality(Pending')
                   <= SuccessLimit + Routines - 1
      <4>1. ~(Stage!Cardinality(qualified) >= SuccessLimit)
        BY <3>1, <3>5 DEF Stage!LimitReached
      <4>2. Pending \subseteq Stage!Live /\ Stage!Live \in SUBSET Stage!Items
        BY DEF Pending, Stage!Live, Before
      <4>3. Stage!Cardinality(Pending) <= Stage!Cardinality(Stage!Live) /\ Stage!Cardinality(Stage!Live) \in Nat
        BY <1>a, <4>2, Counting
      <4>4. Stage!Cardinality(Pending') <= Stage!Cardinality(Pending) + 1
        BY <1>a, <1>b, <3>2, <3>4, Counting
      <4> QED
        BY <1>b, <2>1, <3>1, <4>1, <4>3, <4>4
    <3> QED
      BY <2>1, <3>4, <3>5 DEF TalliesFit
  <2> QED
    BY <2>2, <2>3
<1>3. CASE UNCHANGED Stage!vars
  BY <1>3 DEF Stage!vars, TalliesFit, Counted, Counts, Pending, Noted
<1> QED
  BY <1>1, <1>2, <1>3, StageCases
LEMMA LoopNext ==
    ASSUME Stage!PoolAssumption, Stage!LimitAssumption, Stage!TypeOK, LoopFits, [Stage!Next]_(Stage!vars)
    PROVE  LoopFits'
<1>a. /\ next \in 1 .. (N + 1) /\ N \in Nat
      /\ \A j \in Stage!Items : j \in Nat
      /\ pc \in [Stage!Items -> Stage!Steps]
      /\ main \in {"head", "acquire", "wait", "returned"}
  BY DEF Stage!TypeOK, Stage!PoolAssumption, Stage!Items
<1>1. ASSUME NEW i \in Stage!Items, Stage!Worker(i) PROVE LoopFits'
  <2>1. UNCHANGED <<stage, main, next, cancelled>>
    BY <1>1, WorkerMoves DEF Stage!loop, Stage!control
  <2>2. \A j \in Stage!Items \ {i} : pc'[j] = pc[j]
    BY <1>1, WorkerMoves
  <2>3. pc[i] \notin {"new", "done"} /\ pc'[i] # "new"
    BY <1>1, WorkerMoves
    DEF Goes, GivesUp, Judges, Notes, Cools, CountsOne, Before
  <2>4. qualified' = qualified \/ qualified' = qualified \cup {i}
    BY <1>1, WorkerMoves
    DEF Goes, GivesUp, Judges, Notes, Cools, CountsOne
  <2>5. qualified \in SUBSET Stage!Items
    BY DEF Stage!TypeOK
  <2>6. /\ Stage!Cardinality(qualified) \in Nat /\ Stage!Cardinality(qualified') \in Nat
        /\ Stage!Cardinality(qualified') >= Stage!Cardinality(qualified)
    BY <2>4, <2>5, Counting
  <2>7. Stage!LimitReached => Stage!LimitReached'
    BY <2>1, <2>6 DEF Stage!LimitReached, Stage!LimitAssumption
  <2>8. \A j \in Stage!Items : j < next' <=> pc'[j] # "new"
    BY <2>1, <2>2, <2>3 DEF LoopFits
  <2>9. i \in Stage!Live
    BY <2>3 DEF Stage!Live
  <2> QED
    BY <2>1, <2>7, <2>8, <2>9 DEF LoopFits
<1>2. CASE Stage!Pause \/ Stage!Resume \/ Stage!Cancel \/ Stage!Main
  <2>1. /\ UNCHANGED <<stage, qualified>> /\ (cancelled => cancelled')
        /\ (Stage!LimitReached' <=> Stage!LimitReached)
    BY <1>2, LoopMoves DEF Stage!tally, Stage!LimitReached
  <2>2. CASE UNCHANGED <<main, next, pc>>
    BY <2>1, <2>2 DEF LoopFits, Stage!Live
  <2>3. CASE /\ main = "head" /\ UNCHANGED <<next, pc, cancelled>>
             /\ \/ main' = "wait" /\ (next > N \/ Stage!LimitReached \/ cancelled)
                \/ main' = "acquire" /\ next <= N
    BY <2>1, <2>3 DEF LoopFits
  <2>4. CASE /\ main = "acquire" /\ Stage!LimitReached /\ main' = "wait"
             /\ UNCHANGED <<next, pc, cancelled>>
    BY <2>1, <2>4 DEF LoopFits
  <2>5. CASE /\ main = "acquire" /\ main' = "head"
             /\ next' = next + 1 /\ pc' = [pc EXCEPT ![next] = "spawned"]
    <3>1. next \in Stage!Items
      BY <1>a, <2>5 DEF LoopFits, Stage!Items
    <3>2. ASSUME NEW j \in Stage!Items PROVE j < next' <=> pc'[j] # "new"
      BY <1>a, <2>5, <3>1 DEF LoopFits
    <3> QED
      BY <2>5, <3>2 DEF LoopFits
  <2>6. CASE /\ main = "wait" /\ Stage!Live = {} /\ main' = "returned"
             /\ UNCHANGED <<next, pc, cancelled>>
    BY <2>1, <2>6 DEF LoopFits, Stage!Live
  <2> QED
    BY <1>2, <2>2, <2>3, <2>4, <2>5, <2>6, LoopMoves
<1>3. CASE UNCHANGED Stage!vars
  BY <1>3 DEF Stage!vars, LoopFits, Stage!Live, Stage!LimitReached
<1> QED
  BY <1>1, <1>2, <1>3, StageCases

LEMMA StageTypes ==
    ASSUME Stage!PoolAssumption, Stage!LimitAssumption, StageInv, [Stage!Next]_(Stage!vars)
    PROVE  Stage!TypeOK'
<1>a. Stage!TypeOK /\ LoopFits /\ WorkersFit /\ TalliesFit
  BY DEF StageInv
<1>b. Stage!Cardinality(Stage!Live') <= Routines
  BY <1>a, LiveNext
<1>1. ASSUME NEW i \in Stage!Items, Stage!Worker(i) PROVE Stage!TypeOK'
  <2>1. /\ UNCHANGED <<stage, main, next, paused, pauses, cancelled>>
        /\ pc' \in [Stage!Items -> Stage!Steps]
        /\ verdict' \in [Stage!Items -> {"none", "ok", "failed", "ignored",
                                   "panic", "cancelled"}]
        /\ attempt' \in [Stage!Items -> 1 .. MaxAttempts]
    BY <1>1, <1>a, WorkerMoves DEF Stage!loop, Stage!control
  <2>2. Goes(i) \/ GivesUp(i) \/ Judges(i) \/ Notes(i) \/ Cools(i) \/ CountsOne(i)
    BY <1>1, <1>a, WorkerMoves
  <2>3. qualified' \in SUBSET Stage!Items
    BY <1>a, <2>2
    DEF Goes, GivesUp, Judges, Notes, Cools, CountsOne, Stage!TypeOK
  <2>4. processed' \in 0 .. N
    <3>1. processed' = Stage!Cardinality(Counted')
      BY <1>a, TalliesNext DEF TalliesFit
    <3>2. Counted' \in SUBSET Stage!Items
      BY DEF Counted
    <3> QED
      BY <3>1, <3>2, Counting
  <2>5. fails' \in 0 .. Threshold /\ coolings' \in Nat
    <3>1. fails \in 0 .. Threshold /\ coolings \in Nat /\ Threshold \in Nat
      BY <1>a DEF Stage!TypeOK, Stage!LimitAssumption
    <3> QED
      BY <2>2, <3>1 DEF Goes, GivesUp, Judges, Notes, Cools, CountsOne
  <2> QED
    BY <1>a, <1>b, <2>1, <2>3, <2>4, <2>5 DEF Stage!TypeOK
<1>2. CASE Stage!Pause \/ Stage!Resume \/ Stage!Cancel
  <2>1. /\ UNCHANGED <<Stage!loop, pc, attempt, verdict, Stage!tally, Stage!cooldown>>
        /\ {paused', cancelled'} \subseteq BOOLEAN
    BY <1>2, <1>a DEF Stage!Pause, Stage!Resume, Stage!Cancel, Stage!TypeOK
  <2>2. pauses' \in 0 .. MaxPauses
    BY <1>2, <1>a DEF Stage!Pause, Stage!Resume, Stage!Cancel, Stage!TypeOK, Stage!LimitAssumption
  <2> QED
    BY <1>a, <1>b, <2>1, <2>2 DEF Stage!TypeOK, Stage!loop, Stage!tally, Stage!cooldown
<1>3. CASE Stage!Main
  <2>1. /\ UNCHANGED <<stage, attempt, verdict, Stage!tally, Stage!cooldown>>
        /\ UNCHANGED <<paused, pauses, cancelled>>
    BY <1>3, <1>a, LoopMoves DEF Stage!Main, Stage!Head, Stage!Acquire, Stage!Return, Stage!control
  <2>2. /\ main' \in {"head", "acquire", "wait", "returned"}
        /\ next' \in 1 .. (N + 1) /\ pc' \in [Stage!Items -> Stage!Steps]
    <3>1. /\ main \in {"head", "acquire", "wait", "returned"}
          /\ next \in 1 .. (N + 1) /\ pc \in [Stage!Items -> Stage!Steps] /\ N \in Nat
          /\ (main = "acquire" => next <= N) /\ "spawned" \in Stage!Steps
      BY <1>a DEF Stage!TypeOK, Stage!PoolAssumption, LoopFits, Stage!Steps
    <3>2. \/ UNCHANGED <<next, pc>>
          \/ main = "acquire" /\ next' = next + 1 /\ pc' = [pc EXCEPT ![next] = "spawned"]
      BY <1>3, <1>a, LoopMoves
    <3>3. main' \in {"head", "acquire", "wait", "returned"}
      BY <1>3, <1>a, <3>1, LoopMoves
    <3> QED
      BY <3>1, <3>2, <3>3
  <2> QED
    BY <1>a, <1>b, <2>1, <2>2 DEF Stage!TypeOK, Stage!tally, Stage!cooldown
<1>4. CASE UNCHANGED Stage!vars
  BY <1>a, <1>b, <1>4 DEF Stage!TypeOK, Stage!vars
<1> QED
  BY <1>1, <1>2, <1>3, <1>4, StageCases

-----------------------------------------------------------------------------
(* The invariant holds, and what the stage promises follows from it.       *)

LEMMA StageStarts ==
    ASSUME Stage!PoolAssumption, Stage!LimitAssumption, Stage!Init
    PROVE  StageInv
<1>1. Stage!Live = {} /\ Counted = {} /\ Pending = {} /\ Noted = {}
  BY DEF Stage!Init, Stage!Live, Counted, Pending, Noted, Before
<1>2. Stage!Cardinality({}) = 0
  BY FS_EmptySet, SameCardinality
<1>3. Stage!TypeOK
  <2>1. /\ stage \in Stage!Stages /\ main \in {"head", "acquire", "wait", "returned"}
        /\ qualified \subseteq Stage!Items /\ {paused, cancelled} \subseteq BOOLEAN
    BY DEF Stage!Init
  <2>2. /\ pc \in [Stage!Items -> Stage!Steps]
        /\ verdict \in [Stage!Items -> {"none", "ok", "failed", "ignored", "panic",
                                  "cancelled"}]
    BY DEF Stage!Init, Stage!Steps
  <2>3. 1 \in 1 .. MaxAttempts
    BY DEF Stage!PoolAssumption
  <2>4. attempt \in [Stage!Items -> 1 .. MaxAttempts]
    BY <2>3 DEF Stage!Init
  <2>5. /\ next \in 1 .. (N + 1) /\ processed \in 0 .. N /\ fails \in 0 .. Threshold
        /\ coolings \in Nat /\ pauses \in 0 .. MaxPauses
    BY DEF Stage!Init, Stage!PoolAssumption, Stage!LimitAssumption
  <2>6. Stage!Cardinality(Stage!Live) <= Routines
    BY <1>1, <1>2 DEF Stage!PoolAssumption
  <2> QED
    BY <2>1, <2>2, <2>4, <2>5, <2>6 DEF Stage!TypeOK
<1>4. WorkersFit
  BY DEF Stage!Init, WorkersFit
<1>5. LoopFits
  BY DEF Stage!Init, LoopFits, Stage!Items
<1>6. TalliesFit
  BY <1>1, <1>2 DEF Stage!Init, TalliesFit, Stage!PoolAssumption, Stage!LimitAssumption
<1> QED
  BY <1>3, <1>4, <1>5, <1>6 DEF StageInv

LEMMA StageContinues ==
    ASSUME Stage!PoolAssumption, Stage!LimitAssumption, StageInv, [Stage!Next]_(Stage!vars)
    PROVE  StageInv'
<1>1. Stage!TypeOK'
  BY StageTypes
<1>2. WorkersFit'
  BY WorkersNext DEF StageInv
<1>3. LoopFits'
  BY LoopNext DEF StageInv
<1>4. TalliesFit'
  BY TalliesNext DEF StageInv
<1> QED
  BY <1>1, <1>2, <1>3, <1>4 DEF StageInv

LEMMA StageInvSafe ==
    ASSUME Stage!PoolAssumption, Stage!LimitAssumption, StageInv
    PROVE  Stage!Safety
<1>a. Stage!TypeOK /\ WorkersFit /\ LoopFits /\ TalliesFit
  BY DEF StageInv
<1>b. ASSUME main = "returned", NEW i \in Stage!Items
      PROVE  pc[i] = "new" \/ pc[i] = "done"
  BY <1>a, <1>b DEF LoopFits, Stage!Live
<1>1. Stage!NoLateRow
  BY <1>a, <1>b DEF Stage!NoLateRow, LoopFits
<1>2. Stage!LimitOvershoot
  <2>1. /\ qualified \in SUBSET Stage!Items /\ Pending \in SUBSET Stage!Items
        /\ Routines \in Nat /\ SuccessLimit \in Nat
    BY <1>a DEF Stage!TypeOK, Pending, Stage!PoolAssumption, Stage!LimitAssumption
  <2>2. Stage!Cardinality(qualified) \in Nat /\ Stage!Cardinality(Pending) \in Nat
    BY <2>1, Counting
  <2> QED
    BY <1>a, <2>1, <2>2 DEF Stage!LimitOvershoot, TalliesFit
<1>3. Stage!AllAccounted
  <2> SUFFICES ASSUME main = "returned" PROVE Stage!AllAccounted
    BY DEF Stage!AllAccounted
  <2>1. ASSUME NEW i \in Stage!Items
        PROVE  pc[i] = "done" \/ (pc[i] = "new" /\ verdict[i] = "none")
    BY <1>a, <1>b DEF WorkersFit
  <2>2. Counted = {i \in Stage!Items : Counts(verdict[i])}
    BY <2>1 DEF Counted, Counts
  <2>3. processed = Stage!Cardinality({i \in Stage!Items :
               verdict[i] \in {"ok", "failed", "ignored"}
                 \/ (verdict[i] = "panic" /\ stage = "trace")})
    BY <1>a, <2>2 DEF TalliesFit, Counts
  <2>4. ~cancelled => \A i \in Stage!Items : verdict[i] # "cancelled"
                                        /\ (i < next <=> verdict[i] # "none")
    BY <1>a, <2>1 DEF WorkersFit, LoopFits
  <2>5. ~cancelled /\ ~Stage!LimitReached => next = N + 1
    BY <1>a DEF LoopFits, Stage!TypeOK, Stage!PoolAssumption
  <2> QED
    BY <2>3, <2>4, <2>5 DEF Stage!AllAccounted
<1>4. Stage!CoolingsEarned
  <2> DEFINE Failed == {i \in Stage!Items : verdict[i] \in {"failed", "panic"}}
  <2>1. Noted \in SUBSET Stage!Items /\ Failed \in SUBSET Stage!Items /\ Noted \subseteq Failed
    BY DEF Noted
  <2>2. /\ Stage!Cardinality(Noted) \in Nat /\ Stage!Cardinality(Failed) \in Nat
        /\ Stage!Cardinality(Noted) <= Stage!Cardinality(Failed)
    BY <2>1, Counting
  <2>3. Threshold * coolings + fails \in Nat
    BY <1>a DEF Stage!TypeOK, Stage!LimitAssumption
  <2>4. Threshold * coolings + fails <= Stage!Cardinality(Noted)
    BY <1>a DEF TalliesFit
  <2>5. Threshold * coolings + fails <= Stage!Cardinality(Failed)
    <3> HIDE DEF Failed
    <3> QED
      BY <2>2, <2>3, <2>4
  <2> QED
    BY <2>5 DEF Stage!CoolingsEarned
<1> QED
  BY <1>1, <1>2, <1>3, <1>4, <1>a DEF Stage!Safety

-----------------------------------------------------------------------------
(* The inductive invariant.                                                *)

\* The stored cancel function is the latest run's; a later run has no loop.
LatestStored ==
    /\ cancel \in {0, runID}
    /\ \A r \in Clean!Runs : r > runID => loops[r] = "none"

\* A cleaner that removes files has a task in its hands.
HandsFull == \A k \in Clean!Cleaners : loops[k] \in {"remove", "results"} => hand[k] # None

CleanInv == Clean!Safety /\ LatestStored /\ HandsFull

-----------------------------------------------------------------------------
(* What the steps do to the places of the cleaners.                        *)

\* A loop and a delayed cleanup are not the same goroutine.
LEMMA CleanersApart ==
    ASSUME Clean!CleanerAssumption
    PROVE  /\ Clean!Runs \cap Delays = {} /\ 0 \notin Clean!Cleaners
           /\ Clean!Runs \subseteq Clean!Cleaners /\ Delays \subseteq Clean!Cleaners
           /\ MaxRuns \in Nat
<1>1. MaxRuns \in Nat /\ \A n \in Nat : n \notin Delays
  BY DEF Clean!CleanerAssumption
<1>2. \A r \in Clean!Runs : r \in Nat /\ r # 0
  BY <1>1 DEF Clean!Runs
<1> QED
  BY <1>1, <1>2 DEF Clean!Cleaners

LEMMA CleanTypeInit ==
    ASSUME Clean!CleanerAssumption, Clean!Init
    PROVE  Clean!TypeOK
<1>1. 0 \in 0 .. MaxRuns
  BY CleanersApart
<1> QED
  BY <1>1 DEF Clean!Init, Clean!TypeOK, Clean!Steps

\* The steps of a cleaner.
CleanerStep(k) ==
    \/ Clean!Light(k)
    \/ k \in Clean!Runs /\ (Clean!Tick(k) \/ Clean!Leave(k) \/ Clean!LookBusy(k)
                    \/ Clean!HeavyCleanup(k) \/ Clean!Exit(k))
    \/ k \in Delays /\ Clean!Wake(k)

\* The steps of the commands, the tasks and time.
CommandStep ==
    \/ Clean!Start \/ Clean!Stop \/ Clean!ApplicationEnds \/ Clean!EndTask
    \/ \E t \in Tasks : Clean!TriggerDelayed(t) \/ Clean!BeginTask(t) \/ Clean!Age(t)
    \/ \E r \in Clean!Runs : Clean!CallCancel(r)

LEMMA CleanCases ==
    ASSUME Clean!CleanerAssumption, [Clean!Next]_(Clean!vars)
    PROVE  \/ \E k \in Clean!Cleaners : CleanerStep(k)
           \/ CommandStep
           \/ UNCHANGED Clean!vars
  BY CleanersApart DEF Clean!Next, CleanerStep, CommandStep, Clean!Loop, Clean!Delayed

LEMMA CleanTypes ==
    ASSUME Clean!CleanerAssumption, Clean!TypeOK, [Clean!Next]_(Clean!vars)
    PROVE  Clean!TypeOK'
<1>k2. /\ Clean!Runs \subseteq Clean!Cleaners /\ Delays \subseteq Clean!Cleaners
      /\ MaxRuns \in Nat /\ 0 \in 0 .. MaxRuns
  BY CleanersApart
<1> USE <1>k2 DEF Clean!TypeOK, Clean!Steps, Clean!loopVars, Clean!walkVars, Clean!taskVars
<1>1. CASE Clean!Start
  BY <1>1 DEF Clean!Start, Clean!Runs
<1>2. CASE Clean!Stop
  <2>1. {cancel} \ {0} \subseteq Clean!Runs /\ runID + 1 \in 0 .. MaxRuns
    BY <1>2 DEF Clean!Runs, Clean!Stop
  <2>2. taken' \subseteq Clean!Runs
    BY <1>2, <2>1 DEF Clean!Stop
  <2> QED
    BY <1>2, <2>1, <2>2 DEF Clean!Stop
<1>3. CASE Clean!ApplicationEnds
  BY <1>3 DEF Clean!ApplicationEnds
<1>4. CASE Clean!EndTask
  BY <1>4 DEF Clean!EndTask
<1>5. ASSUME NEW t \in Tasks, Clean!TriggerDelayed(t) PROVE Clean!TypeOK'
  BY <1>5 DEF Clean!TriggerDelayed
<1>6. ASSUME NEW t \in Tasks, Clean!BeginTask(t) PROVE Clean!TypeOK'
  BY <1>6 DEF Clean!BeginTask
<1>7. ASSUME NEW t \in Tasks, Clean!Age(t) PROVE Clean!TypeOK'
  BY <1>7 DEF Clean!Age
<1>8. ASSUME NEW r \in Clean!Runs, Clean!CallCancel(r) PROVE Clean!TypeOK'
  BY <1>8 DEF Clean!CallCancel
<1>9. ASSUME NEW k \in Clean!Cleaners, CleanerStep(k) PROVE Clean!TypeOK'
  <2>1. ASSUME NEW t \in Tasks, Clean!Read(k, t) PROVE Clean!TypeOK'
    BY <2>1 DEF Clean!Read
  <2>2. CASE Clean!RemoveSnapshot(k)
    BY <2>2 DEF Clean!RemoveSnapshot
  <2>3. CASE Clean!RemoveResults(k)
    BY <2>3 DEF Clean!RemoveResults
  <2>4. CASE Clean!EndLight(k)
    BY <2>4 DEF Clean!EndLight
  <2>5. CASE Clean!Tick(k)
    BY <2>5 DEF Clean!Tick, Clean!BeginLight
  <2>6. CASE Clean!Leave(k)
    BY <2>6 DEF Clean!Leave
  <2>7. CASE Clean!LookBusy(k)
    BY <2>7 DEF Clean!LookBusy
  <2>8. CASE Clean!HeavyCleanup(k)
    BY <2>8 DEF Clean!HeavyCleanup
  <2>9. CASE Clean!Exit(k)
    <3>1. cancel' \in 0 .. MaxRuns /\ scheduled' \in BOOLEAN
      BY <2>9 DEF Clean!Exit
    <3> QED
      BY <2>9, <3>1 DEF Clean!Exit
  <2>10. CASE Clean!Wake(k)
    <3>1. loops' \in [Clean!Cleaners -> Clean!Steps] /\ todo' \in [Clean!Cleaners -> SUBSET Tasks]
      BY <2>10 DEF Clean!Wake, Clean!BeginLight
    <3> QED
      BY <2>10, <3>1 DEF Clean!Wake, Clean!Woken
  <2> QED
    BY <1>9, <2>1, <2>2, <2>3, <2>4, <2>5, <2>6, <2>7, <2>8, <2>9, <2>10
    DEF CleanerStep, Clean!Light
<1>10. CASE UNCHANGED Clean!vars
  BY <1>10 DEF Clean!vars
<1> QED
  BY <1>1, <1>2, <1>3, <1>4, <1>5, <1>6, <1>7, <1>8, <1>9, <1>10, CleanCases
  DEF CommandStep

-----------------------------------------------------------------------------
(* The loops and the delayed cleanups.                                     *)

\* A run that starts has had no loop before.
LEMMA LatestNext ==
    ASSUME Clean!CleanerAssumption, Clean!TypeOK, LatestStored, [Clean!Next]_(Clean!vars)
    PROVE  LatestStored'
<1>k2. /\ Clean!Runs \cap Delays = {} /\ Clean!Runs \subseteq Clean!Cleaners
      /\ Clean!Runs \subseteq Nat /\ runID \in Nat /\ DOMAIN loops = Clean!Cleaners
  BY CleanersApart DEF Clean!TypeOK, Clean!Runs
<1>1. CASE Clean!Start
  <2>1. runID' = runID + 1 /\ cancel' = runID'
    BY <1>1 DEF Clean!Start
  <2>2. ASSUME NEW r \in Clean!Runs, r > runID' PROVE loops'[r] = "none"
    BY <1>1, <1>k2, <2>1, <2>2 DEF Clean!Start, LatestStored
  <2> QED
    BY <2>1, <2>2 DEF LatestStored
<1>2. CASE Clean!Stop
  BY <1>2, <1>k2 DEF Clean!Stop, LatestStored
<1>3. CASE Clean!ApplicationEnds \/ Clean!EndTask
  BY <1>3 DEF Clean!ApplicationEnds, Clean!EndTask, LatestStored, Clean!loopVars
<1>4. ASSUME NEW t \in Tasks, Clean!TriggerDelayed(t) \/ Clean!BeginTask(t) \/ Clean!Age(t)
      PROVE  LatestStored'
  BY <1>4, <1>k2 DEF Clean!TriggerDelayed, Clean!BeginTask, Clean!Age, LatestStored, Clean!loopVars
<1>5. ASSUME NEW r \in Clean!Runs, Clean!CallCancel(r) PROVE LatestStored'
  BY <1>5 DEF Clean!CallCancel, LatestStored
<1>6. ASSUME NEW k \in Clean!Cleaners, CleanerStep(k) PROVE LatestStored'
  <2>1. cancel' \in {0, cancel} /\ runID' = runID
    BY <1>6
    DEF CleanerStep, Clean!Light, Clean!Read, Clean!RemoveSnapshot, Clean!RemoveResults, Clean!EndLight, Clean!Tick,
        Clean!Leave, Clean!LookBusy, Clean!HeavyCleanup, Clean!Exit, Clean!Wake, Clean!BeginLight, Clean!loopVars
  <2>2. \A r \in Clean!Runs : loops[r] = "none" => loops'[r] = "none"
    BY <1>6, <1>k2
    DEF CleanerStep, Clean!Light, Clean!Read, Clean!RemoveSnapshot, Clean!RemoveResults, Clean!EndLight, Clean!Tick,
        Clean!Leave, Clean!LookBusy, Clean!HeavyCleanup, Clean!Exit, Clean!Wake, Clean!BeginLight
  <2> QED
    BY <2>1, <2>2 DEF LatestStored
<1>7. CASE UNCHANGED Clean!vars
  BY <1>7 DEF Clean!vars, Clean!loopVars, LatestStored
<1> QED
  BY <1>1, <1>2, <1>3, <1>4, <1>5, <1>6, <1>7, CleanCases DEF CommandStep

\* Nobody forgets the cancel function of a loop that goes on.
LEMMA ControlNext ==
    ASSUME Clean!CleanerAssumption, Clean!TypeOK, LatestStored, Clean!LoopsControlled, [Clean!Next]_(Clean!vars)
    PROVE  Clean!LoopsControlled'
<1>k2. /\ Clean!Runs \cap Delays = {} /\ Clean!Runs \subseteq Clean!Cleaners /\ 0 \notin Clean!Runs
      /\ DOMAIN loops = Clean!Cleaners
  BY CleanersApart DEF Clean!TypeOK, Clean!Runs
<1>1. CASE Clean!Start
  BY <1>1, <1>k2 DEF Clean!Start, Clean!LoopsControlled
<1>2. CASE Clean!Stop
  BY <1>2, <1>k2 DEF Clean!Stop, Clean!LoopsControlled
<1>3. CASE Clean!ApplicationEnds \/ Clean!EndTask
  BY <1>3 DEF Clean!ApplicationEnds, Clean!EndTask, Clean!LoopsControlled, Clean!loopVars
<1>4. ASSUME NEW t \in Tasks, Clean!TriggerDelayed(t) \/ Clean!BeginTask(t) \/ Clean!Age(t)
      PROVE  Clean!LoopsControlled'
  BY <1>4, <1>k2 DEF Clean!TriggerDelayed, Clean!BeginTask, Clean!Age, Clean!LoopsControlled, Clean!loopVars
<1>5. ASSUME NEW r \in Clean!Runs, Clean!CallCancel(r) PROVE Clean!LoopsControlled'
  BY <1>5 DEF Clean!CallCancel, Clean!LoopsControlled
<1>6. ASSUME NEW k \in Clean!Cleaners, CleanerStep(k) PROVE Clean!LoopsControlled'
  <2>1. /\ taken' = taken /\ over' = over
        /\ \/ cancel' = cancel
           \/ k \in Clean!Runs /\ runID = k /\ loops'[k] = "over" /\ cancel' = 0
    BY <1>6, <1>k2
    DEF CleanerStep, Clean!Light, Clean!Read, Clean!RemoveSnapshot, Clean!RemoveResults, Clean!EndLight, Clean!Tick,
        Clean!Leave, Clean!LookBusy, Clean!HeavyCleanup, Clean!Exit, Clean!Own, Clean!Wake, Clean!BeginLight, Clean!loopVars
  <2>2. \A r \in Clean!Runs : loops'[r] \notin {"none", "exit", "over"}
          => loops[r] \notin {"none", "exit", "over"}
    BY <1>6, <1>k2
    DEF CleanerStep, Clean!Light, Clean!Read, Clean!RemoveSnapshot, Clean!RemoveResults, Clean!EndLight, Clean!Tick,
        Clean!Leave, Clean!LookBusy, Clean!HeavyCleanup, Clean!Exit, Clean!Wake, Clean!BeginLight
  <2>3. cancel' # cancel => \A r \in Clean!Runs : r = cancel => r = k
    BY <2>1 DEF LatestStored, Clean!LoopsControlled
  <2> QED
    BY <1>k2, <2>1, <2>2, <2>3 DEF Clean!LoopsControlled
<1>7. CASE UNCHANGED Clean!vars
  BY <1>7 DEF Clean!vars, Clean!loopVars, Clean!LoopsControlled
<1> QED
  BY <1>1, <1>2, <1>3, <1>4, <1>5, <1>6, <1>7, CleanCases DEF CommandStep

\* A loop takes its own cancel function along when it leaves.
LEMMA StoredNext ==
    ASSUME Clean!CleanerAssumption, Clean!TypeOK, LatestStored, Clean!StoredIsAlive, [Clean!Next]_(Clean!vars)
    PROVE  Clean!StoredIsAlive'
<1>k2. /\ Clean!Runs \cap Delays = {} /\ Clean!Runs \subseteq Clean!Cleaners /\ MaxRuns \in Nat
      /\ DOMAIN loops = Clean!Cleaners /\ (cancel # 0 => cancel \in Clean!Runs)
      /\ runID \in Nat
  BY CleanersApart DEF Clean!TypeOK, Clean!Runs
<1>1. CASE Clean!Start
  <2>1. cancel' \in Clean!Runs
    BY <1>1, <1>k2 DEF Clean!Start, Clean!Runs
  <2> QED
    BY <1>1, <1>k2, <2>1 DEF Clean!Start, Clean!StoredIsAlive
<1>2. CASE Clean!Stop
  BY <1>2 DEF Clean!Stop, Clean!StoredIsAlive
<1>3. CASE Clean!ApplicationEnds \/ Clean!EndTask
  BY <1>3 DEF Clean!ApplicationEnds, Clean!EndTask, Clean!StoredIsAlive, Clean!loopVars
<1>4. ASSUME NEW t \in Tasks, Clean!TriggerDelayed(t) \/ Clean!BeginTask(t) \/ Clean!Age(t)
      PROVE  Clean!StoredIsAlive'
  BY <1>4, <1>k2 DEF Clean!TriggerDelayed, Clean!BeginTask, Clean!Age, Clean!StoredIsAlive, Clean!loopVars
<1>5. ASSUME NEW r \in Clean!Runs, Clean!CallCancel(r) PROVE Clean!StoredIsAlive'
  BY <1>5 DEF Clean!CallCancel, Clean!StoredIsAlive
<1>6. ASSUME NEW k \in Clean!Cleaners, CleanerStep(k) PROVE Clean!StoredIsAlive'
  <2> SUFFICES ASSUME cancel' # 0 PROVE loops'[cancel'] \notin {"none", "over"}
    BY DEF Clean!StoredIsAlive
  <2>1. cancel' = cancel /\ ~(Clean!Exit(k) /\ k = cancel)
    BY <1>6
    DEF CleanerStep, Clean!Light, Clean!Read, Clean!RemoveSnapshot, Clean!RemoveResults, Clean!EndLight, Clean!Tick,
        Clean!Leave, Clean!LookBusy, Clean!HeavyCleanup, Clean!Exit, Clean!Own, Clean!Wake, Clean!BeginLight, Clean!loopVars,
        LatestStored
  <2>2. loops[cancel] \notin {"none", "over"} /\ cancel \in Clean!Runs
    BY <1>k2, <2>1 DEF Clean!StoredIsAlive
  <2> QED
    BY <1>6, <1>k2, <2>1, <2>2
    DEF CleanerStep, Clean!Light, Clean!Read, Clean!RemoveSnapshot, Clean!RemoveResults, Clean!EndLight, Clean!Tick,
        Clean!Leave, Clean!LookBusy, Clean!HeavyCleanup, Clean!Exit, Clean!Wake, Clean!BeginLight
<1>7. CASE UNCHANGED Clean!vars
  BY <1>7 DEF Clean!vars, Clean!loopVars, Clean!StoredIsAlive
<1> QED
  BY <1>1, <1>2, <1>3, <1>4, <1>5, <1>6, <1>7, CleanCases DEF CommandStep

\* The flag is put down by the cleanup that was waited for.
LEMMA PendingNext ==
    ASSUME Clean!CleanerAssumption, Clean!TypeOK, Clean!DelayPending, [Clean!Next]_(Clean!vars)
    PROVE  Clean!DelayPending'
<1>k2. /\ Clean!Runs \cap Delays = {} /\ Clean!Runs \subseteq Clean!Cleaners
      /\ Delays \subseteq Clean!Cleaners /\ MaxRuns \in Nat /\ runID \in Nat
      /\ DOMAIN loops = Clean!Cleaners
  BY CleanersApart DEF Clean!TypeOK
<1>1. CASE Clean!Start
  <2>1. runID' \in Clean!Runs
    BY <1>1, <1>k2 DEF Clean!Start, Clean!Runs
  <2> QED
    BY <1>1, <1>k2, <2>1 DEF Clean!Start, Clean!DelayPending
<1>2. CASE Clean!Stop
  BY <1>2 DEF Clean!Stop, Clean!DelayPending
<1>3. CASE Clean!ApplicationEnds \/ Clean!EndTask
  BY <1>3 DEF Clean!ApplicationEnds, Clean!EndTask, Clean!DelayPending, Clean!loopVars
<1>4. ASSUME NEW t \in Tasks, Clean!TriggerDelayed(t) \/ Clean!BeginTask(t) \/ Clean!Age(t)
      PROVE  Clean!DelayPending'
  BY <1>4, <1>k2 DEF Clean!TriggerDelayed, Clean!BeginTask, Clean!Age, Clean!DelayPending, Clean!loopVars
<1>5. ASSUME NEW r \in Clean!Runs, Clean!CallCancel(r) PROVE Clean!DelayPending'
  BY <1>5 DEF Clean!CallCancel, Clean!DelayPending
<1>6. ASSUME NEW k \in Clean!Cleaners, CleanerStep(k) PROVE Clean!DelayPending'
  <2>1. CASE k \in Delays /\ Clean!Wake(k)
    BY <2>1 DEF Clean!Wake, Clean!Woken, Clean!DelayPending
  <2>2. CASE ~(k \in Delays /\ Clean!Wake(k))
    <3>1. scheduled' => scheduled
      BY <1>6, <2>2
      DEF CleanerStep, Clean!Light, Clean!Read, Clean!RemoveSnapshot, Clean!RemoveResults, Clean!EndLight,
          Clean!Tick, Clean!Leave, Clean!LookBusy, Clean!HeavyCleanup, Clean!Exit, Clean!BeginLight, Clean!loopVars
    <3>2. \A d \in Delays : loops[d] = "wait" => loops'[d] = "wait"
      BY <1>6, <1>k2, <2>2
      DEF CleanerStep, Clean!Light, Clean!Read, Clean!RemoveSnapshot, Clean!RemoveResults, Clean!EndLight,
          Clean!Tick, Clean!Leave, Clean!LookBusy, Clean!HeavyCleanup, Clean!Exit, Clean!BeginLight
    <3> QED
      BY <3>1, <3>2 DEF Clean!DelayPending
  <2> QED
    BY <2>1, <2>2
<1>7. CASE UNCHANGED Clean!vars
  BY <1>7 DEF Clean!vars, Clean!loopVars, Clean!DelayPending
<1> QED
  BY <1>1, <1>2, <1>3, <1>4, <1>5, <1>6, <1>7, CleanCases DEF CommandStep

-----------------------------------------------------------------------------
(* The files of the tasks.                                                 *)

\* Who is removing the files of a task.
Removing(k, t) == loops[k] \in {"remove", "results"} /\ hand[k] = t

\* A removal goes on until the results are gone, and begins with a task that
\* ended long ago.
LEMMA Removals ==
    ASSUME Clean!CleanerAssumption, Clean!TypeOK, LatestStored, HandsFull, [Clean!Next]_(Clean!vars),
           NEW k \in Clean!Cleaners
    PROVE  /\ loops'[k] \in {"remove", "results"}
                => \/ loops[k] \in {"remove", "results"} /\ hand'[k] = hand[k]
                   \/ hand'[k] \in Tasks /\ snap[hand'[k]] = "expired" /\ snap' = snap
           /\ loops[k] \in {"remove", "results"} /\ ~Clean!RemoveResults(k)
                => loops'[k] \in {"remove", "results"} /\ hand'[k] = hand[k]
<1>k2. /\ Clean!Runs \cap Delays = {} /\ Clean!Runs \subseteq Clean!Cleaners
      /\ MaxRuns \in Nat /\ runID \in Nat
      /\ DOMAIN loops = Clean!Cleaners /\ DOMAIN hand = Clean!Cleaners
  BY CleanersApart DEF Clean!TypeOK
<1>1. CASE Clean!Start
  <2>1. runID' \in Clean!Runs /\ runID' > runID
    BY <1>1, <1>k2 DEF Clean!Start, Clean!Runs
  <2>2. loops[runID'] = "none"
    BY <2>1 DEF LatestStored
  <2> QED
    BY <1>1, <1>k2, <2>1, <2>2 DEF Clean!Start, Clean!walkVars
<1>2. CASE Clean!Stop \/ Clean!ApplicationEnds \/ Clean!EndTask
  BY <1>2 DEF Clean!Stop, Clean!ApplicationEnds, Clean!EndTask, Clean!walkVars
<1>3. ASSUME NEW t \in Tasks, Clean!TriggerDelayed(t) \/ Clean!BeginTask(t) \/ Clean!Age(t)
      PROVE  /\ hand' = hand
             /\ loops'[k] \in {"remove", "results"} <=> loops[k] \in {"remove", "results"}
  BY <1>3, <1>k2 DEF Clean!TriggerDelayed, Clean!BeginTask, Clean!Age, Clean!walkVars
<1>4. ASSUME NEW r \in Clean!Runs, Clean!CallCancel(r)
      PROVE  loops' = loops /\ hand' = hand
  BY <1>4 DEF Clean!CallCancel, Clean!walkVars
<1>5. ASSUME NEW k3 \in Clean!Cleaners, CleanerStep(k3)
      PROVE  /\ loops'[k] \in {"remove", "results"}
                  => \/ loops[k] \in {"remove", "results"} /\ hand'[k] = hand[k]
                     \/ /\ hand'[k] \in Tasks /\ snap[hand'[k]] = "expired"
                        /\ snap' = snap
             /\ loops[k] \in {"remove", "results"} /\ ~Clean!RemoveResults(k)
                  => loops'[k] \in {"remove", "results"} /\ hand'[k] = hand[k]
  <2>1. ASSUME NEW t \in Tasks, Clean!Read(k3, t)
        PROVE  /\ loops'[k] \in {"remove", "results"}
                    => \/ loops[k] \in {"remove", "results"} /\ hand'[k] = hand[k]
                       \/ /\ hand'[k] \in Tasks /\ snap[hand'[k]] = "expired"
                          /\ snap' = snap
               /\ loops[k] \in {"remove", "results"}
                    => loops'[k] \in {"remove", "results"} /\ hand'[k] = hand[k]
    BY <2>1, <1>k2 DEF Clean!Read, Clean!Expired, Clean!taskVars
  <2>2. CASE Clean!RemoveSnapshot(k3) \/ Clean!RemoveResults(k3) \/ Clean!EndLight(k3)
    BY <2>2, <1>k2 DEF Clean!RemoveSnapshot, Clean!RemoveResults, Clean!EndLight, Clean!walkVars
  <2>3. CASE /\ k3 \in Clean!Runs
             /\ Clean!Tick(k3) \/ Clean!Leave(k3) \/ Clean!LookBusy(k3) \/ Clean!HeavyCleanup(k3) \/ Clean!Exit(k3)
    BY <2>3, <1>k2
    DEF Clean!Tick, Clean!Leave, Clean!LookBusy, Clean!HeavyCleanup, Clean!Exit, Clean!BeginLight, Clean!walkVars
  <2>4. CASE k3 \in Delays /\ Clean!Wake(k3)
    BY <2>4, <1>k2 DEF Clean!Wake, Clean!BeginLight
  <2> QED
    BY <1>5, <2>1, <2>2, <2>3, <2>4 DEF CleanerStep, Clean!Light
<1>6. CASE UNCHANGED Clean!vars
  BY <1>6 DEF Clean!vars, Clean!walkVars
<1> QED
  BY <1>1, <1>2, <1>3, <1>4, <1>5, <1>6, CleanCases DEF CommandStep

\* What a step does to the snapshots and the results.
LEMMA FileSteps ==
    ASSUME Clean!CleanerAssumption, Clean!TypeOK, HandsFull, Clean!RemovesOnlyOld, [Clean!Next]_(Clean!vars)
    PROVE  \/ probe' = probe /\ snap' = snap /\ files' = files
           \/ \E t \in Tasks :
                /\ probe = None /\ snap[t] = "new" /\ probe' = t
                /\ snap' = [snap EXCEPT ![t] = "active"] /\ files' = files
           \/ /\ probe \in Tasks /\ probe' = None
              /\ snap' = [snap EXCEPT ![probe] = "ended"]
              /\ files' = files \cup {probe}
           \/ \E t \in Tasks :
                /\ snap[t] = "ended" /\ snap' = [snap EXCEPT ![t] = "expired"]
                /\ probe' = probe /\ files' = files
           \/ \E k \in Clean!Cleaners :
                /\ Removing(k, hand[k]) /\ hand[k] \in Tasks
                /\ snap' = [snap EXCEPT ![hand[k]] = "removed"]
                /\ probe' = probe /\ files' = files
                /\ loops' = [loops EXCEPT ![k] = "results"] /\ hand' = hand
           \/ \E k \in Clean!Cleaners :
                /\ Clean!RemoveResults(k)
                /\ snap' = snap /\ probe' = probe /\ files' = files \ {hand[k]}
<1>1. CASE Clean!EndTask
  BY <1>1 DEF Clean!EndTask, Clean!TypeOK
<1>2. ASSUME NEW t \in Tasks, Clean!BeginTask(t)
      PROVE  /\ probe = None /\ snap[t] = "new" /\ probe' = t
             /\ snap' = [snap EXCEPT ![t] = "active"] /\ files' = files
  BY <1>2 DEF Clean!BeginTask
<1>3. ASSUME NEW t \in Tasks, Clean!Age(t)
      PROVE  /\ snap[t] = "ended" /\ snap' = [snap EXCEPT ![t] = "expired"]
             /\ probe' = probe /\ files' = files
  BY <1>3 DEF Clean!Age
<1>4. ASSUME NEW k \in Clean!Cleaners, Clean!RemoveSnapshot(k)
      PROVE  /\ Removing(k, hand[k]) /\ hand[k] \in Tasks
             /\ snap' = [snap EXCEPT ![hand[k]] = "removed"]
             /\ probe' = probe /\ files' = files
             /\ loops' = [loops EXCEPT ![k] = "results"] /\ hand' = hand
  BY <1>4 DEF Clean!RemoveSnapshot, Removing, HandsFull, Clean!TypeOK, Clean!walkVars
<1>5. ASSUME NEW k \in Clean!Cleaners, Clean!RemoveResults(k)
      PROVE  snap' = snap /\ probe' = probe /\ files' = files \ {hand[k]}
  BY <1>5 DEF Clean!RemoveResults
<1>6. CASE Clean!Start \/ Clean!Stop \/ Clean!ApplicationEnds \/ UNCHANGED Clean!vars
  BY <1>6 DEF Clean!Start, Clean!Stop, Clean!ApplicationEnds, Clean!vars, Clean!taskVars
<1>7. ASSUME NEW t \in Tasks, Clean!TriggerDelayed(t)
      PROVE  probe' = probe /\ snap' = snap /\ files' = files
  BY <1>7 DEF Clean!TriggerDelayed
<1>8. ASSUME NEW r \in Clean!Runs, Clean!CallCancel(r)
      PROVE  probe' = probe /\ snap' = snap /\ files' = files
  BY <1>8 DEF Clean!CallCancel, Clean!taskVars
<1>9. ASSUME NEW k \in Clean!Cleaners, CleanerStep(k), ~Clean!RemoveSnapshot(k), ~Clean!RemoveResults(k)
      PROVE  probe' = probe /\ snap' = snap /\ files' = files
  BY <1>9
  DEF CleanerStep, Clean!Light, Clean!Read, Clean!EndLight, Clean!Tick, Clean!Leave, Clean!LookBusy, Clean!HeavyCleanup,
      Clean!Exit, Clean!Wake, Clean!BeginLight, Clean!taskVars
<1> QED
  BY <1>1, <1>2, <1>3, <1>4, <1>5, <1>6, <1>7, <1>8, <1>9, CleanCases
  DEF CommandStep

\* The parts of RemovesOnlyOld.
LEMMA OldParts ==
    Clean!RemovesOnlyOld <=>
      /\ \A k \in Clean!Cleaners : loops[k] \in {"remove", "results"}
             => snap[hand[k]] \in {"expired", "removed"}
      /\ probe # None => snap[probe] = "active"
      /\ \A t \in files : snap[t] = "removed"
             => \E k \in Clean!Cleaners : Removing(k, t)
  BY DEF Clean!RemovesOnlyOld, Removing

LEMMA HandsNext ==
    ASSUME Clean!CleanerAssumption, Clean!TypeOK, LatestStored, HandsFull, [Clean!Next]_(Clean!vars)
    PROVE  HandsFull'
<1> SUFFICES ASSUME NEW k \in Clean!Cleaners, loops'[k] \in {"remove", "results"}
             PROVE  hand'[k] # None
  BY DEF HandsFull
<1> QED
  BY Removals DEF HandsFull, Clean!CleanerAssumption

LEMMA OldNext ==
    ASSUME Clean!CleanerAssumption, Clean!TypeOK, LatestStored, HandsFull, Clean!RemovesOnlyOld,
           [Clean!Next]_(Clean!vars)
    PROVE  Clean!RemovesOnlyOld'
<1>k2. /\ snap \in [Tasks -> {"new", "active", "ended", "expired", "removed"}]
      /\ None \notin Tasks /\ probe \in Tasks \cup {None}
      /\ files \subseteq Tasks
      /\ \A k \in Clean!Cleaners : hand[k] \in Tasks \cup {None}
  BY DEF Clean!TypeOK, Clean!CleanerAssumption
<1>1. ASSUME NEW k \in Clean!Cleaners, loops'[k] \in {"remove", "results"}
      PROVE  snap'[hand'[k]] \in {"expired", "removed"}
  <2>1. CASE /\ hand'[k] \in Tasks /\ snap[hand'[k]] = "expired" /\ snap' = snap
    BY <2>1
  <2>2. CASE loops[k] \in {"remove", "results"} /\ hand'[k] = hand[k]
    <3>1. hand[k] \in Tasks /\ snap[hand[k]] \in {"expired", "removed"}
      BY <1>k2, <2>2, OldParts DEF HandsFull
    <3>2. probe # None => snap[probe] = "active"
      BY OldParts
    <3> QED
      BY <1>k2, <2>2, <3>1, <3>2, FileSteps
  <2> QED
    BY <1>1, <2>1, <2>2, Removals
<1>2. ASSUME probe' # None PROVE snap'[probe'] = "active"
  <2>1. probe # None => snap[probe] = "active"
    BY OldParts
  <2>2. \A k \in Clean!Cleaners : Removing(k, hand[k])
          => snap[hand[k]] \in {"expired", "removed"}
    BY OldParts DEF Removing
  <2> QED
    BY <1>2, <1>k2, <2>1, <2>2, FileSteps
<1>3. ASSUME NEW t \in files', snap'[t] = "removed"
      PROVE  \E k \in Clean!Cleaners : Removing(k, t)'
  <2>1. CASE t \in files /\ snap[t] = "removed" /\ t \in Tasks
    <3>1. PICK k \in Clean!Cleaners : Removing(k, t)
      BY <2>1, OldParts
    <3>2. ~Clean!RemoveResults(k)
      BY <1>3, <3>1 DEF Clean!RemoveResults, Removing
    <3> QED
      BY <3>1, <3>2, Removals DEF Removing
  <2>2. CASE ~(t \in files /\ snap[t] = "removed")
    <3>1. probe \in Tasks => snap[probe] = "active"
      BY <1>k2, OldParts
    <3>2. PICK k \in Clean!Cleaners :
            /\ hand[k] \in Tasks
            /\ snap' = [snap EXCEPT ![hand[k]] = "removed"]
            /\ files' = files
            /\ loops' = [loops EXCEPT ![k] = "results"] /\ hand' = hand
      BY <1>3, <1>k2, <2>2, <3>1, FileSteps
    <3>3. t = hand[k]
      BY <1>3, <1>k2, <2>2, <3>2
    <3>4. loops'[k] = "results"
      BY <3>2 DEF Clean!TypeOK
    <3> QED
      BY <3>2, <3>3, <3>4 DEF Removing
  <2> QED
    BY <1>k2, <2>1, <2>2
<1> QED
  BY <1>1, <1>2, <1>3 DEF Clean!RemovesOnlyOld, Removing

-----------------------------------------------------------------------------
(* The theorems.                                                           *)

LEMMA CleanStarts ==
    ASSUME Clean!CleanerAssumption, Clean!Init
    PROVE  CleanInv
<1>1. Clean!TypeOK
  BY CleanTypeInit
<1>2. \A k \in Clean!Cleaners : loops[k] = "none"
  BY DEF Clean!Init
<1> QED
  BY <1>1, <1>2, CleanersApart
  DEF Clean!Init, CleanInv, Clean!Safety, Clean!LoopsControlled, Clean!StoredIsAlive, Clean!DelayPending,
      Clean!RemovesOnlyOld, LatestStored, HandsFull

LEMMA CleanContinues ==
    ASSUME Clean!CleanerAssumption, CleanInv, [Clean!Next]_(Clean!vars)
    PROVE  CleanInv'
  BY CleanTypes, LatestNext, ControlNext, StoredNext, PendingNext, HandsNext,
     OldNext DEF CleanInv, Clean!Safety

-----------------------------------------------------------------------------
(* The parts at work.                                                      *)

\* A step of a probe is a step of each part or leaves the part alone.
LEMMA PartSteps ==
    ASSUME [Next]_vars
    PROVE  /\ [Stage!Next]_stageVars
           /\ [Trace!Next]_traceVars
           /\ [Download!Next]_downloadVars
           /\ [Workflow!Next]_workflowVars
           /\ [Clean!Next]_cleanVars
  BY DEF Next, vars

(* Whatever the numbers of addresses, workers and attempts, the threshold  *)
(* and the limit: a stage writes no row after it returned, passes its      *)
(* success limit by less than its workers, counts every address once       *)
(* whatever panics, and cools down for failures of its own only            *)
(* (tcping.go:60, download.go:156, worker_guard.go:10, retry.go:88-110).   *)
THEOREM StageKept == Spec => []StageSafe
<1>1. Stage!PoolAssumption /\ Stage!LimitAssumption
  BY StageAssumption
<1>2. Init => StageInv
  BY <1>1, StageStarts DEF Init
<1>3. StageInv /\ [Next]_vars => StageInv'
  <2> SUFFICES ASSUME StageInv, [Next]_vars PROVE StageInv'
    OBVIOUS
  <2>1. [Stage!Next]_(Stage!vars)
    <3>1. Stage!Next \/ UNCHANGED stageVars
      BY PartSteps
    <3> QED
      BY <3>1 DEF stageVars, Stage!vars
  <2> QED
    BY <1>1, <2>1, StageContinues
<1>4. StageInv => StageSafe
  BY <1>1, StageInvSafe DEF StageSafe
<1> QED
  BY <1>2, <1>3, <1>4, PTL DEF Spec

(* Every loop of the cleaner can be stopped, a cleaner that says it runs   *)
(* does, a cleanup that is said to be scheduled comes, and only files of   *)
(* tasks that ended long ago are removed, for any number of starts, tasks  *)
(* and cleanups (cleanup.go:78-136, 200-206, runtime_service.go:104-140).  *)
THEOREM CleanerKept == Spec => []CleanerSafe
<1>1. Clean!CleanerAssumption
  BY CleanAssumption
<1>2. Init => CleanInv
  BY <1>1, CleanStarts DEF Init
<1>3. CleanInv /\ [Next]_vars => CleanInv'
  <2> SUFFICES ASSUME CleanInv, [Next]_vars PROVE CleanInv'
    OBVIOUS
  <2>1. [Clean!Next]_(Clean!vars)
    <3>1. Clean!Next \/ UNCHANGED cleanVars
      BY PartSteps
    <3> QED
      BY <3>1
      DEF cleanVars, Clean!vars, Clean!loopVars, Clean!walkVars,
          Clean!taskVars
  <2> QED
    BY <1>1, <2>1, CleanContinues
<1>4. CleanInv => CleanerSafe
  BY DEF CleanerSafe, CleanInv
<1> QED
  BY <1>2, <1>3, <1>4, PTL DEF Spec

-----------------------------------------------------------------------------
(* The trace of one address.                                               *)

Given == {"", "trace_interrupted", "trace_error", "rate_limited", "trace_read_error",
          "status_mismatch"}
Passing == {"trace_error", "trace_read_error", "rate_limited"}

\* What an answer looks like before a filter was applied to it.
Plain(answer) ==
    /\ answer.reason \in Given
    /\ answer.ok => answer.reason = ""
    /\ answer.ok => answer.status \in Trace!Status /\ answer.colo \in Colos \cup {None}
    /\ answer.reason \in Passing => answer.status \notin {403, 404}

\* The configuration is one of Configs; an answer is kept as it came; a result
\* that a soft pass may keep is none of a refusal; what was decided stays.
TraceFits ==
    /\ config \in Trace!Configs
    /\ Plain(firstOK) /\ Plain(last)
    /\ result.reason \in Passing => result.status \notin {403, 404}
    /\ outcome # "none" => result.reason # "pending"
    /\ outcome = "passed" => Trace!Passes
    /\ outcome = "soft" => Trace!SoftPass /\ ~Trace!Passes
    /\ outcome = "fallback" => Trace!Fallback /\ ~Trace!SoftPass

TraceInv == Trace!TypeOK /\ TraceFits /\ Trace!RejectedByEvidence

\* A filter that needs a code is satisfied by a code only.
LEMMA FiltersNeedCodes ==
    ASSUME config \in Trace!Configs
    PROVE  /\ \A colo : /\ Trace!RequiresColo(config.source) /\ Trace!Allows(config.source, colo)
                           => colo \in Colos
                        /\ Trace!RequiresColo(config.colo) /\ Trace!Allows(config.colo, colo)
                           => colo \in Colos
           /\ ~Trace!RequiresColo(config.colo) => Trace!Allows(config.colo, None)
<1>1. /\ config.colo.kind \in {"off", "allow", "deny"}
      /\ config.colo.codes \subseteq Colos
  BY DEF Trace!Configs, Trace!Filters
<1>2. /\ config.source.kind \in {"off", "matchNone", "allow", "deny", "unrestricted"}
      /\ config.source.codes \subseteq Colos
  BY DEF Trace!Configs, Trace!Filters, Trace!Unrestricted
<1>3. None \notin Colos
  BY AttemptAssumption DEF Trace!NoneAssumption
<1> QED
  BY <1>1, <1>2, <1>3 DEF Trace!RequiresColo, Trace!Allows

\* What the loop takes is an answer no filter was applied to yet.
LEMMA TraceTakes ==
    ASSUME Trace!Breaks \/ Trace!Limited \/ Trace!Answers
    PROVE  Trace!Asking /\ \E answer : Plain(answer) /\ Trace!Take(answer)
<1>1. CASE Trace!Breaks
  <2>1. /\ Plain(Trace!Failed("trace_error", 0))
        /\ Plain(Trace!Failed("trace_read_error", 0))
        /\ Plain(Trace!Failed("trace_interrupted", 0))
    BY DEF Plain, Given, Passing, Trace!Failed, Trace!NoAnswer
  <2> QED
    BY <1>1, <2>1 DEF Trace!Breaks
<1>2. CASE Trace!Limited
  <2>1. Plain(Trace!Failed("rate_limited", 429))
    BY DEF Plain, Given, Passing, Trace!Failed, Trace!NoAnswer
  <2> QED
    BY <1>2, <2>1 DEF Trace!Limited
<1>3. CASE Trace!Answers
  <2>1. PICK status \in Trace!Status, body \in Colos \cup {None},
             ray \in Colos \cup {None}, slow \in BOOLEAN :
          Trace!Take(Trace!Read(status, body, ray, slow))
    BY <1>3 DEF Trace!Answers
  <2>2. Plain(Trace!Read(status, body, ray, slow))
    BY DEF Plain, Given, Passing, Trace!Read, Trace!Answer, Trace!Failed, Trace!NoAnswer
  <2> QED
    BY <1>3, <2>1, <2>2 DEF Trace!Answers
<1> QED
  BY <1>1, <1>2, <1>3

\* What the filters make of a code that is known.
LEMMA TraceFilters ==
    ASSUME NEW answer, NEW colo
    PROVE  \/ /\ Trace!ForColo(answer, colo).reason \in {"source_colo_filter", "colo_filter"}
              /\ ~Trace!ForColo(answer, colo).ok
              /\ ~(Trace!Allows(config.source, colo) /\ Trace!Allows(config.colo, colo))
           \/ Trace!ForColo(answer, colo).reason = ""
  BY DEF Trace!ForColo, Trace!Failed, Trace!NoAnswer, Trace!Answer

\* A step before there is a result.
LEMMA TraceStepTakes ==
    ASSUME TraceInv, Trace!Asking, NEW answer, Plain(answer), Trace!Take(answer)
    PROVE  TraceInv'
<1>a. /\ result.reason = "pending" /\ ~result.ok /\ at <= Trace!Endpoints
      /\ config \in Trace!Configs /\ None \notin Colos
  BY AttemptAssumption
  DEF TraceInv, TraceFits, Trace!TypeOK, Trace!Asking, Trace!NoneAssumption
<1>b. outcome = "none"
  BY <1>a DEF TraceInv, TraceFits
<1>c. /\ UNCHANGED <<config, outcome>> /\ at' = at + 1 /\ last' = answer
  BY DEF Trace!Take
<1>d. at' \in 1 .. (Trace!Endpoints' + 1)
  BY <1>a, <1>c DEF TraceInv, Trace!TypeOK, Trace!Endpoints
<1>e. Plain(firstOK') /\ Plain(last')
  BY <1>c DEF TraceInv, TraceFits, Trace!Take
<1>1. CASE answer.reason \in {"trace_interrupted", "rate_limited"}
  <2>1. result' = answer /\ firstOK' = firstOK
    BY <1>1 DEF Trace!Take
  <2>2. ~answer.ok
    BY <1>1 DEF Plain
  <2>3. Trace!TypeOK'
    BY <1>a, <1>b, <1>c, <1>1, <1>d, <2>1, <2>2 DEF TraceInv, Trace!TypeOK
  <2>4. TraceFits'
    BY <1>a, <1>b, <1>c, <1>e, <1>1, <2>1 DEF TraceFits, Plain
  <2> QED
    BY <1>1, <2>1, <2>3, <2>4 DEF TraceInv, Trace!RejectedByEvidence
<1>2. CASE /\ answer.reason \notin {"trace_interrupted", "rate_limited"}
           /\ answer.ok /\ answer.colo # None
  <2>1. result' = Trace!ForColo(answer, answer.colo) /\ firstOK' = firstOK
    BY <1>2 DEF Trace!Take
  <2>2. answer.colo \in Colos /\ answer.reason = ""
    BY <1>2 DEF Plain
  <2>3. \/ /\ result'.reason \in {"source_colo_filter", "colo_filter"} /\ ~result'.ok
           /\ ~(Trace!Allows(config.source, answer.colo) /\ Trace!Allows(config.colo, answer.colo))
        \/ result'.reason = ""
    BY <2>1, <2>2, TraceFilters
  <2>4. Trace!TypeOK'
    BY <1>a, <1>b, <1>c, <1>d, <2>1, <2>3 DEF TraceInv, Trace!TypeOK
  <2>5. TraceFits'
    <3>1. result'.reason \in {"source_colo_filter", "colo_filter", ""}
      BY <2>3
    <3>2. outcome' = "none" /\ config' \in Trace!Configs
      BY <1>a, <1>b, <1>c
    <3> QED
      BY <1>e, <3>1, <3>2 DEF TraceFits, Passing
  <2>6. Trace!RejectedByEvidence'
    BY <1>c, <2>2, <2>3 DEF Trace!RejectedByEvidence, Trace!Allows
  <2> QED
    BY <2>4, <2>5, <2>6 DEF TraceInv
<1>3. CASE /\ answer.reason \notin {"trace_interrupted", "rate_limited"}
           /\ ~(answer.ok /\ answer.colo # None)
  <2>1. /\ result' = result
        /\ firstOK' = IF answer.ok /\ ~firstOK.ok THEN answer ELSE firstOK
    BY <1>3 DEF Trace!Take
  <2>2. firstOK'.ok => firstOK'.colo = None /\ firstOK'.status \in Trace!Status
    BY <1>3, <2>1 DEF TraceInv, Trace!TypeOK, Plain
  <2>3. Trace!TypeOK'
    BY <1>a, <1>b, <1>c, <1>d, <2>1, <2>2 DEF TraceInv, Trace!TypeOK
  <2>4. TraceFits'
    BY <1>a, <1>b, <1>c, <1>e, <2>1 DEF TraceFits, Passing
  <2> QED
    BY <1>a, <2>1, <2>3, <2>4 DEF TraceInv, Trace!RejectedByEvidence
<1> QED
  BY <1>1, <1>2, <1>3

\* What is concluded when no endpoint named a code.
LEMMA TraceStepConcludes ==
    ASSUME TraceInv, Trace!Conclude
    PROVE  TraceInv'
<1>a. /\ result.reason = "pending" /\ result' = Trace!Conclusion
      /\ UNCHANGED <<config, at, firstOK, last, outcome>>
      /\ config \in Trace!Configs /\ Plain(firstOK) /\ Plain(last) /\ outcome = "none"
  BY DEF Trace!Conclude, TraceInv, TraceFits
<1>b. config.dictionary \in Colos \cup {None} /\ None \notin Colos
  BY <1>a, AttemptAssumption DEF Trace!Configs, Trace!NoneAssumption
<1>1. CASE config.dictionary # None
  <2>1. result' = Trace!ForColo(firstOK, config.dictionary) /\ config.dictionary \in Colos
    BY <1>a, <1>b, <1>1 DEF Trace!Conclusion
  <2>2. \/ /\ result'.reason \in {"source_colo_filter", "colo_filter"} /\ ~result'.ok
           /\ ~(Trace!Allows(config.source, config.dictionary)
                  /\ Trace!Allows(config.colo, config.dictionary))
        \/ result'.reason = ""
    BY <2>1, TraceFilters
  <2>3. result'.reason \in {"source_colo_filter", "colo_filter", ""}
    BY <2>2
  <2>4. Trace!TypeOK'
    BY <1>a, <2>2, <2>3 DEF TraceInv, Trace!TypeOK, Trace!Endpoints
  <2>5. TraceFits'
    BY <1>a, <2>3 DEF TraceFits, Passing
  <2>6. Trace!RejectedByEvidence'
    BY <1>a, <2>1, <2>2 DEF Trace!RejectedByEvidence, Trace!Allows
  <2> QED
    BY <2>4, <2>5, <2>6 DEF TraceInv
<1>2. CASE config.dictionary = None /\ ~firstOK.ok
  <2>1. result' = last \/ result' = Trace!Failed("trace_error", 0)
    BY <1>a, <1>2 DEF Trace!Conclusion
  <2>2. Plain(Trace!Failed("trace_error", 0))
    BY DEF Plain, Given, Passing, Trace!Failed, Trace!NoAnswer
  <2>3. Plain(result')
    BY <1>a, <2>1, <2>2
  <2>4. Trace!TypeOK'
    <3>1. result'.reason \in Given /\ (result'.ok => result'.reason = "")
      BY <2>3 DEF Plain
    <3> QED
      BY <1>a, <3>1 DEF TraceInv, Trace!TypeOK, Trace!Endpoints, Given
  <2>5. TraceFits'
    <3>1. /\ result'.reason # "pending"
          /\ result'.reason \in Passing => result'.status \notin {403, 404}
      BY <2>3 DEF Plain, Given
    <3> QED
      BY <1>a, <3>1 DEF TraceFits
  <2>6. Trace!RejectedByEvidence'
    BY <2>3 DEF Trace!RejectedByEvidence, Plain, Given
  <2> QED
    BY <2>4, <2>5, <2>6 DEF TraceInv
<1>3. CASE config.dictionary = None /\ firstOK.ok
  <2>1. \/ /\ Trace!RequiresColo(config.source) \/ ~Trace!Allows(config.colo, None)
           /\ result'.reason \in {"source_colo_filter", "colo_filter"} /\ ~result'.ok
        \/ result' = firstOK
    BY <1>a, <1>3 DEF Trace!Conclusion, Trace!Failed, Trace!NoAnswer
  <2>2. Trace!RequiresColo(config.source) \/ ~Trace!Allows(config.colo, None)
          => Trace!RequiresColo(config.source) \/ Trace!RequiresColo(config.colo)
    BY <1>a, FiltersNeedCodes
  <2>3. result'.reason \in {"source_colo_filter", "colo_filter", ""}
        /\ (result'.ok => result'.reason = "")
    BY <1>a, <1>3, <2>1 DEF Plain
  <2>4. Trace!TypeOK'
    BY <1>a, <2>3 DEF TraceInv, Trace!TypeOK, Trace!Endpoints
  <2>5. TraceFits'
    BY <1>a, <2>3 DEF TraceFits, Passing
  <2>6. Trace!RejectedByEvidence'
    <3>1. CASE result' = firstOK
      BY <1>a, <1>3, <3>1 DEF Plain, Given, Trace!RejectedByEvidence
    <3>2. CASE Trace!RequiresColo(config.source) \/ Trace!RequiresColo(config.colo)
      BY <1>a, <1>3, <3>2 DEF Trace!RejectedByEvidence, Trace!RequiresColo
    <3> QED
      BY <2>1, <2>2, <3>1, <3>2
  <2> QED
    BY <2>4, <2>5, <2>6 DEF TraceInv
<1> QED
  BY <1>1, <1>2, <1>3

\* What the worker goes by stays with the result.
LEMMA TraceSame ==
    ASSUME UNCHANGED <<config, at, firstOK, last, result>>
    PROVE  /\ Trace!Passes' <=> Trace!Passes
           /\ Trace!SoftPass' <=> Trace!SoftPass
           /\ Trace!Fallback' <=> Trace!Fallback
           /\ Trace!RejectedByEvidence' <=> Trace!RejectedByEvidence
  BY DEF Trace!Passes, Trace!SoftPass, Trace!Fallback, Trace!RejectedByEvidence,
         Trace!TooSlow, Trace!HardFilter, Trace!Allows, Trace!RequiresColo

(* Whatever the codes, the filters and the answers: an address passes only *)
(* through every filter, a soft pass only where nothing filters, and a     *)
(* filter rejects only by a code that was named (head.go:300-345,          *)
(* 754-826).                                                               *)
THEOREM TraceKept == Spec => []TraceSafe
<1>1. Init => TraceInv
  <2> SUFFICES ASSUME Trace!Init PROVE TraceInv
    BY DEF Init
  <2>1. result = Trace!Pending /\ firstOK = Trace!NoAnswer /\ last = Trace!NoAnswer
        /\ config \in Trace!Configs /\ at = 1 /\ outcome = "none"
    BY DEF Trace!Init
  <2>2. result.reason = "pending" /\ ~result.ok /\ ~firstOK.ok /\ firstOK.reason = ""
        /\ last.reason = "" /\ ~last.ok
    BY <2>1 DEF Trace!Pending, Trace!NoAnswer
  <2>3. Plain(firstOK) /\ Plain(last)
    BY <2>2, <2>1 DEF Plain, Given, Passing, Trace!NoAnswer
  <2>4. Trace!TypeOK
    <3>1. at \in 1 .. (Trace!Endpoints + 1)
      BY <2>1 DEF Trace!Endpoints
    <3> QED
      BY <2>1, <2>2, <3>1 DEF Trace!TypeOK
  <2>5. TraceFits
    BY <2>1, <2>2, <2>3 DEF TraceFits, Passing
  <2>6. Trace!RejectedByEvidence
    BY <2>2 DEF Trace!RejectedByEvidence
  <2> QED
    BY <2>4, <2>5, <2>6 DEF TraceInv
<1>2. TraceInv /\ [Next]_vars => TraceInv'
  <2> SUFFICES ASSUME TraceInv, [Trace!Next]_traceVars PROVE TraceInv'
    BY PartSteps
  <2>1. CASE Trace!Breaks \/ Trace!Limited \/ Trace!Answers
    BY <2>1, TraceTakes, TraceStepTakes
  <2>2. CASE Trace!Conclude
    BY <2>2, TraceStepConcludes
  <2>3. CASE Trace!Judge
    <3>1. UNCHANGED <<config, at, firstOK, last, result>> /\ result.reason # "pending"
      BY <2>3 DEF Trace!Judge
    <3>2. \/ outcome' = "passed" /\ Trace!Passes
          \/ outcome' = "soft" /\ ~Trace!Passes /\ Trace!SoftPass
          \/ outcome' = "fallback" /\ ~Trace!SoftPass /\ Trace!Fallback
          \/ outcome' = "rejected"
      BY <2>3 DEF Trace!Judge
    <3>3. TraceFits'
      BY <3>1, <3>2, TraceSame DEF TraceInv, TraceFits
    <3>4. outcome' \in {"none", "passed", "soft", "fallback", "rejected"}
      BY <3>2
    <3>5. Trace!TypeOK'
      BY <3>1, <3>4 DEF TraceInv, Trace!TypeOK, Trace!Endpoints
    <3> QED
      BY <3>1, <3>3, <3>5, TraceSame DEF TraceInv
  <2>4. CASE UNCHANGED traceVars
    <3>1. UNCHANGED <<config, at, firstOK, last, result>> /\ outcome' = outcome
      BY <2>4 DEF traceVars
    <3>2. TraceFits'
      BY <3>1, TraceSame DEF TraceInv, TraceFits
    <3>3. Trace!TypeOK'
      BY <3>1 DEF TraceInv, Trace!TypeOK, Trace!Endpoints
    <3> QED
      BY <3>1, <3>2, <3>3, TraceSame DEF TraceInv
  <2> QED
    BY <2>1, <2>2, <2>3, <2>4 DEF Trace!Next
<1>3. TraceInv => TraceSafe
  <2> SUFFICES ASSUME TraceInv PROVE Trace!Safety
    BY DEF TraceSafe
  <2>1. Trace!PassHonoursFilters
    <3> SUFFICES ASSUME outcome = "passed" PROVE Trace!PassHonoursFilters
      BY DEF Trace!PassHonoursFilters
    <3>1. Trace!Passes
      BY DEF TraceInv, TraceFits
    <3>2. Trace!RequiresColo(config.source) \/ Trace!RequiresColo(config.colo)
            => result.colo \in Colos
      BY <3>1, FiltersNeedCodes DEF TraceInv, TraceFits, Trace!Passes
    <3> QED
      BY <3>1, <3>2 DEF Trace!PassHonoursFilters, Trace!Passes, Trace!TooSlow
  <2>2. Trace!SoftOnlyUnfiltered
    <3> SUFFICES ASSUME outcome = "soft" PROVE Trace!SoftOnlyUnfiltered
      BY DEF Trace!SoftOnlyUnfiltered
    <3>1. Trace!SoftPass /\ (result.reason \in Passing => result.status \notin {403, 404})
          /\ (result.ok => result.reason = "")
      BY DEF TraceInv, TraceFits, Trace!TypeOK
    <3>2. CASE result.reason \in {"trace_error", "trace_read_error", "rate_limited"}
      BY <3>1, <3>2 DEF Trace!SoftOnlyUnfiltered, Trace!SoftPass, Passing
    <3>3. CASE result.reason = "status_mismatch"
                /\ result.status \in {408, 425} \cup 500 .. 599
      BY <3>1, <3>3 DEF Trace!SoftOnlyUnfiltered, Trace!SoftPass
    <3> QED
      BY <3>1, <3>2, <3>3 DEF Trace!SoftPass
  <2>3. Trace!FallbackUnreachable
    BY DEF TraceInv, TraceFits, Trace!FallbackUnreachable, Trace!Fallback, Trace!SoftPass
  <2> QED
    BY <2>1, <2>2, <2>3 DEF TraceInv, Trace!Safety
<1> QED
  BY <1>1, <1>2, <1>3, PTL DEF Spec

-----------------------------------------------------------------------------
(* The download of one address.                                            *)

\* The ranges of the first sequences cover the file without overlap.
LEMMA RangesCover ==
    ASSUME download \in Download!Configs
    PROVE  /\ \A w \in Download!Workers : Download!Runs(w) =>
                /\ 0 <= Download!FirstStart(w) /\ Download!FirstStart(w) <= Download!FirstEnd(w)
                /\ Download!FirstEnd(w) < download.total
                /\ Download!FirstStart(w) \in Nat /\ Download!FirstEnd(w) \in Nat
           /\ \A v, w \in Download!Workers : v < w /\ Download!Runs(v) /\ Download!Runs(w)
                => Download!FirstEnd(v) < Download!FirstStart(w)
           /\ UNION {Download!FirstStart(w) .. Download!FirstEnd(w) :
                       w \in {w \in Download!Workers : Download!Runs(w)}}
                = 0 .. (download.total - 1)
<1> DEFINE size == download.total
           count == Download!Count
           chunk == Download!Chunk
<1>1. size \in Nat \ {0} /\ Concurrency \in Nat \ {0}
  BY AttemptAssumption DEF Download!Configs, Download!DownloadAssumption
<1>2. count \in 1 .. size /\ count \in 1 .. Concurrency
  BY <1>1 DEF Download!Count
<1>3. chunk = (size + count - 1) \div count
  BY DEF Download!Chunk
<1>4. chunk \in Nat \ {0} /\ chunk * count >= size
  <2> HIDE DEF size, count, chunk
  <2>1. /\ size + count - 1 \in Nat /\ count \in Nat \ {0}
        /\ size + count - 1 >= count
    BY <1>1, <1>2
  <2>2. /\ chunk \in Nat /\ chunk * count <= size + count - 1
        /\ size + count - 1 < chunk * count + count
    BY <1>3, <2>1
  <2> QED
    BY <1>1, <1>2, <2>1, <2>2
<1>5. /\ \A w \in Download!Workers : Download!FirstStart(w) = (w - 1) * chunk
      /\ \A w \in Download!Workers :
           Download!FirstEnd(w) = IF (w - 1) * chunk + chunk > size THEN size - 1
                                  ELSE (w - 1) * chunk + chunk - 1
      /\ \A w \in Download!Workers : Download!Runs(w) <=> w <= count /\ (w - 1) * chunk < size
  BY DEF Download!FirstStart, Download!FirstEnd, Download!Runs
<1>6. \A w \in Download!Workers : w \in Nat \ {0} /\ (w - 1) * chunk \in Nat
  BY <1>1, <1>4 DEF Download!Workers
<1> HIDE DEF size, count, chunk
<1>7. ASSUME NEW w \in Download!Workers, Download!Runs(w)
      PROVE  /\ 0 <= Download!FirstStart(w) /\ Download!FirstStart(w) <= Download!FirstEnd(w)
             /\ Download!FirstEnd(w) < size
             /\ Download!FirstStart(w) \in Nat /\ Download!FirstEnd(w) \in Nat
  <2> DEFINE start == (w - 1) * chunk
  <2>1. start \in Nat /\ start < size /\ Download!FirstStart(w) = start
        /\ Download!FirstEnd(w) = IF start + chunk > size THEN size - 1
                                  ELSE start + chunk - 1
    BY <1>5, <1>6, <1>7
  <2> HIDE DEF start
  <2> QED
    BY <1>1, <1>4, <2>1
<1>8. ASSUME NEW v \in Download!Workers, NEW w \in Download!Workers,
             v < w, Download!Runs(v), Download!Runs(w)
      PROVE  Download!FirstEnd(v) < Download!FirstStart(w)
  <2>1. (v - 1) * chunk + chunk <= (w - 1) * chunk
    BY <1>4, <1>6, <1>8
  <2>2. (v - 1) * chunk \in Nat /\ (w - 1) * chunk \in Nat
    BY <1>6
  <2>3. Download!FirstEnd(v) <= (v - 1) * chunk + chunk - 1
    BY <1>1, <1>4, <1>5, <2>2
  <2> QED
    BY <1>4, <1>5, <1>7, <1>8, <2>1, <2>2, <2>3
<1>9. ASSUME NEW x \in 0 .. (size - 1)
      PROVE  \E w \in Download!Workers : /\ Download!Runs(w)
                                         /\ x \in Download!FirstStart(w) .. Download!FirstEnd(w)
  <2> DEFINE w == x \div chunk + 1
  <2>1. /\ x \div chunk \in Nat /\ (x \div chunk) * chunk <= x
        /\ x < (x \div chunk) * chunk + chunk
    BY <1>1, <1>4, <1>9
  <2>2. w - 1 = x \div chunk
    BY <2>1
  <2>3. w \in Nat \ {0} /\ (w - 1) * chunk <= x /\ x < (w - 1) * chunk + chunk
    BY <2>1, <2>2
  <2> HIDE DEF w
  <2>4. w <= count
    <3> SUFFICES ASSUME w > count PROVE FALSE
      BY <1>1, <1>2, <2>3
    <3>1. count * chunk <= (w - 1) * chunk
      BY <1>1, <1>2, <1>4, <2>3
    <3> QED
      BY <1>1, <1>2, <1>4, <1>9, <2>3, <3>1
  <2>5. w \in Download!Workers
    BY <1>1, <1>2, <2>3, <2>4 DEF Download!Workers
  <2>6. Download!Runs(w)
    BY <1>1, <1>5, <1>6, <1>9, <2>3, <2>4, <2>5
  <2>7. x \in Download!FirstStart(w) .. Download!FirstEnd(w)
    BY <1>1, <1>4, <1>5, <1>6, <1>9, <2>3, <2>5
  <2> QED
    BY <2>5, <2>6, <2>7
<1>10. UNION {Download!FirstStart(w) .. Download!FirstEnd(w) :
                w \in {w \in Download!Workers : Download!Runs(w)}} = 0 .. (size - 1)
  <2>1. ASSUME NEW w \in Download!Workers, Download!Runs(w),
               NEW x \in Download!FirstStart(w) .. Download!FirstEnd(w)
        PROVE  x \in 0 .. (size - 1)
    BY <1>1, <1>7, <2>1
  <2> QED
    BY <1>9, <2>1
<1> QED
  BY <1>7, <1>8, <1>10 DEF size

\* What the workers share, and what each of them holds.
Measurements == [read : BOOLEAN, measured : BOOLEAN, startedAt : 0 .. Timeout,
                 integrity : {"", "unexpected_html_response", "content_length_mismatch",
                              "digest_mismatch"},
                 rejected : {"", "edge_ip_restricted", "forbidden"},
                 ignored : BOOLEAN, limited : BOOLEAN]
WorkerStates == [at : {"request", "body", "sniff", "returned"}, start : Int, end : Int,
                 offset : Int, readAt : 0 .. Timeout]

\* A measured byte was read after the warm-up.
Warm(n) == n \in Measurements /\ n.startedAt \in IF n.measured THEN Warmup .. Timeout ELSE {0}

\* A worker of an attempt: what it reads was sent before now, and it works on a
\* range inside the file, unless the random integer was the least one.
Fits(w, s) ==
    /\ s \in WorkerStates /\ s.readAt <= clock
    /\ phase \notin {"range", "full"} => s.at = "returned"
    /\ phase = "range" /\ s.at # "returned" => Download!Runs(w)
Inside(s) == s.start >= 0 /\ s.end < download.total

DownloadFits ==
    /\ download \in Download!Configs /\ clock \in 0 .. Timeout
    /\ control \in {"run", "paused", "cancelled"}
    /\ phase \in {"start", "probe", "range", "full", "interrupted", "end"}
    /\ DOMAIN worker = Download!Workers /\ worker \in [Download!Workers -> WorkerStates]
    /\ Warm(m) /\ (phase = "probe" => ~m.measured)
    /\ \A w \in Download!Workers : Fits(w, worker[w])
    /\ phase = "range" /\ ~overflowed => \A w \in Download!Workers : Inside(worker[w])

\* What was handed out, and what it was handed out for.
Outcome ==
    /\ measured.valid => phase = "end"
    /\ phase = "interrupted" => measured.reason = "download_interrupted"
    /\ Download!ValidIsEarned /\ Download!PauseIsNoOutcome /\ Download!LimitedOnlyUnmeasured

DownloadInv == DownloadFits /\ Outcome

Timing ==
    /\ Timeout \in Nat /\ Warmup \in Nat \ {0} /\ Warmup < Timeout
    /\ Concurrency \in Nat \ {0} /\ Bits \in Nat \ {0}

LEMMA TimingHolds == Timing
  BY AttemptAssumption DEF Timing, Download!DownloadAssumption

LEMMA Fresh ==
    /\ Warm(Download!Fresh) /\ ~Download!Fresh.measured
    /\ Download!Idle \in WorkerStates /\ Download!Idle.at = "returned"
    /\ Download!Idle.readAt = 0 /\ Download!Idle.start = 0 /\ Download!Idle.end = 0
<1>1. Download!Fresh \in Measurements /\ ~Download!Fresh.measured /\ Download!Fresh.startedAt = 0
  BY TimingHolds DEF Timing, Measurements, Download!Fresh
<1>2. /\ Download!Idle \in WorkerStates /\ Download!Idle.at = "returned"
      /\ Download!Idle.readAt = 0 /\ Download!Idle.start = 0 /\ Download!Idle.end = 0
  BY TimingHolds DEF Timing, WorkerStates, Download!Idle
<1> QED
  BY <1>1, <1>2 DEF Warm

\* The request of the worker of a full download.
LEMMA Requesting ==
    ASSUME NEW s \in WorkerStates, NEW end \in Int
    PROVE  /\ [s EXCEPT !.at = "request", !.end = end] \in WorkerStates
           /\ [s EXCEPT !.at = "request", !.end = end].readAt = s.readAt
  BY DEF WorkerStates

\* A read that counts keeps the measurement warm; so do the marks.
LEMMA Measuring ==
    ASSUME Warm(m), clock \in 0 .. Timeout
    PROVE  /\ \A readAt \in 0 .. Timeout : readAt <= clock => Warm(Download!Added(readAt))
           /\ \A reason \in {"edge_ip_restricted", "forbidden"}, ignored \in BOOLEAN :
                Warm(Download!MarkRejected(reason, ignored))
           /\ \A reason \in {"unexpected_html_response", "content_length_mismatch",
                             "digest_mismatch"} :
                Warm(Download!MarkIntegrity(reason))
           /\ Warm([m EXCEPT !.limited = TRUE])
           /\ \A reason \in {"content_length_mismatch", "digest_mismatch"},
                 readAt \in 0 .. Timeout : readAt <= clock =>
                Warm([Download!Added(readAt) EXCEPT
                        !.integrity = Download!MarkIntegrity(reason).integrity])
<1> USE TimingHolds DEF Timing
<1>1. ASSUME NEW readAt \in 0 .. Timeout, readAt <= clock
      PROVE  Warm(Download!Added(readAt))
  <2>1. CASE clock < Warmup
    BY <2>1 DEF Warm, Measurements, Download!Added
  <2>2. CASE ~(clock < Warmup)
    <3> DEFINE s == IF m.startedAt > 0 THEN m.startedAt
                    ELSE IF readAt > Warmup THEN readAt ELSE Warmup
    <3>0. m.startedAt \in {0} \cup Warmup .. Timeout /\ m \in Measurements
      BY DEF Warm
    <3>1. s \in Warmup .. Timeout /\ s \in 0 .. Timeout
      BY <1>1, <2>2, <3>0
    <3>2. Download!Added(readAt) = [m EXCEPT !.read = TRUE, !.measured = TRUE, !.startedAt = s]
      BY <2>2 DEF Download!Added
    <3> HIDE DEF s
    <3>3. [m EXCEPT !.read = TRUE, !.measured = TRUE, !.startedAt = s] \in Measurements
      BY <3>0, <3>1 DEF Measurements
    <3>4. /\ [m EXCEPT !.read = TRUE, !.measured = TRUE, !.startedAt = s].startedAt = s
          /\ [m EXCEPT !.read = TRUE, !.measured = TRUE, !.startedAt = s].measured
      BY <3>0 DEF Measurements
    <3> QED
      BY <3>1, <3>2, <3>3, <3>4 DEF Warm
  <2> QED
    BY <2>1, <2>2
<1>2. ASSUME NEW reason \in {"edge_ip_restricted", "forbidden"}, NEW ignored \in BOOLEAN
      PROVE  Warm(Download!MarkRejected(reason, ignored))
  BY <1>2 DEF Warm, Measurements, Download!MarkRejected
<1>3. ASSUME NEW reason \in {"unexpected_html_response", "content_length_mismatch",
                             "digest_mismatch"}
      PROVE  Warm(Download!MarkIntegrity(reason))
  BY <1>3 DEF Warm, Measurements, Download!MarkIntegrity
<1>4. Warm([m EXCEPT !.limited = TRUE])
  BY DEF Warm, Measurements
<1>5. ASSUME NEW reason \in {"content_length_mismatch", "digest_mismatch"},
             NEW readAt \in 0 .. Timeout, readAt <= clock
      PROVE  Warm([Download!Added(readAt) EXCEPT
                     !.integrity = Download!MarkIntegrity(reason).integrity])
  <2>1. Warm(Download!Added(readAt)) /\ Warm(Download!MarkIntegrity(reason))
    BY <1>1, <1>3, <1>5
  <2> QED
    BY <2>1 DEF Warm, Measurements
<1> QED
  BY <1>1, <1>2, <1>3, <1>4, <1>5

\* Before the end nothing is handed out.
LEMMA NotYet ==
    ASSUME Outcome, phase' # "end", phase' # "interrupted", phase # "end", measured' = measured
    PROVE  Outcome'
  BY DEF Outcome, Download!ValidIsEarned, Download!PauseIsNoOutcome,
         Download!LimitedOnlyUnmeasured

LEMMA BeginKeeps ==
    ASSUME DownloadInv, Download!Begin
    PROVE  DownloadInv'
<1>1. /\ phase' = "probe" /\ clock' = 0 /\ m' = Download!Fresh /\ download' = download
      /\ worker' = [w \in Download!Workers |-> Download!Idle] /\ control' = control
      /\ measured' = Download!NoResult
  BY DEF Download!Begin
<1>2. clock' \in 0 .. Timeout
  BY <1>1, TimingHolds DEF Timing
<1>3. \A w \in Download!Workers : worker'[w] = Download!Idle
  BY <1>1
<1>4. DownloadFits'
  BY <1>1, <1>2, <1>3, Fresh
  DEF DownloadInv, DownloadFits, Fits, Warm, Download!Workers
<1>5. Outcome'
  BY <1>1 DEF Outcome, Download!ValidIsEarned, Download!PauseIsNoOutcome,
         Download!LimitedOnlyUnmeasured, Download!NoResult
<1> QED
  BY <1>4, <1>5 DEF DownloadInv

LEMMA UserKeeps ==
    ASSUME DownloadInv, Download!Pause \/ Download!Resume \/ Download!Cancel
    PROVE  DownloadInv'
<1>1. /\ control' \in {"run", "paused", "cancelled"} /\ phase # "end"
      /\ UNCHANGED <<download, phase, clock, m, worker, measured, seen403, overflowed>>
  BY DEF Download!Pause, Download!Resume, Download!Cancel
<1>2. DownloadFits'
  BY <1>1
  DEF DownloadInv, DownloadFits, Fits, Inside, Download!Runs, Download!FirstStart,
      Download!Chunk, Download!Count
<1>3. Outcome'
  BY <1>1
  DEF DownloadInv, Outcome, Download!ValidIsEarned, Download!PauseIsNoOutcome,
      Download!LimitedOnlyUnmeasured
<1> QED
  BY <1>2, <1>3 DEF DownloadInv

LEMMA TickKeeps ==
    ASSUME DownloadInv, Download!Tick
    PROVE  DownloadInv'
<1>1. /\ clock < Timeout /\ clock' = clock + 1 /\ phase \in {"probe", "range", "full"}
      /\ UNCHANGED <<download, control, phase, m, worker, measured, seen403, overflowed>>
  BY DEF Download!Tick, Download!Running
<1>2. clock \in 0 .. Timeout /\ clock' \in 0 .. Timeout
  BY <1>1, TimingHolds DEF DownloadInv, DownloadFits, Timing
<1>3. ASSUME NEW w \in Download!Workers PROVE Fits(w, worker[w])'
  <2>1. Fits(w, worker[w])
    BY <1>3 DEF DownloadInv, DownloadFits
  <2>2. worker[w].readAt \in 0 .. Timeout
    BY <2>1 DEF Fits, WorkerStates
  <2>3. worker'[w].readAt <= clock'
    BY <1>1, <1>2, <2>1, <2>2, TimingHolds DEF Fits, Timing
  <2> QED
    BY <1>1, <2>1, <2>3
    DEF Fits, Download!Runs, Download!FirstStart, Download!Chunk, Download!Count
<1>4. DownloadFits'
  BY <1>1, <1>2, <1>3 DEF DownloadInv, DownloadFits, Inside
<1>5. Outcome'
  BY <1>1, NotYet DEF DownloadInv
<1> QED
  BY <1>4, <1>5 DEF DownloadInv

\* An attempt that ends before its workers began.
LEMMA ProbeEnds ==
    ASSUME DownloadInv, phase = "probe", phase' \in {"end", "interrupted"},
           UNCHANGED <<download, control, clock, m, worker>>,
           ~measured'.valid,
           phase' = "interrupted" => measured'.reason = "download_interrupted",
           phase' = "end" /\ measured'.reason = "download_interrupted" => clock = Timeout
    PROVE  DownloadInv'
<1>1. \A w \in Download!Workers : Fits(w, worker[w]) /\ worker[w].at = "returned"
  BY DEF DownloadInv, DownloadFits, Fits
<1>2. DownloadFits'
  BY <1>1 DEF DownloadInv, DownloadFits, Fits
<1>3. ~m.measured
  BY DEF DownloadInv, DownloadFits
<1>4. Outcome'
  BY <1>3
  DEF Outcome, Download!ValidIsEarned, Download!PauseIsNoOutcome,
      Download!LimitedOnlyUnmeasured, Download!Measured
<1> QED
  BY <1>2, <1>4 DEF DownloadInv

LEMMA ProbeKeeps ==
    ASSUME DownloadInv, Download!Probe
    PROVE  DownloadInv'
<1>a. /\ phase = "probe" /\ UNCHANGED <<download, control, interrupted, clock, m, overflowed>>
  BY DEF Download!Probe
<1>b. /\ download \in Download!Configs /\ download.total \in Nat \ {0}
      /\ clock \in 0 .. Timeout /\ Timeout \in Nat /\ Warm(m)
      /\ \A w \in Download!Workers : worker[w] \in WorkerStates /\ worker[w].at = "returned"
                                       /\ Fits(w, worker[w])
  BY <1>a, AttemptAssumption, TimingHolds
  DEF DownloadInv, DownloadFits, Fits, Timing, Download!Configs, Download!DownloadAssumption
<1>1. CASE phase' = "range" /\ worker' = [w \in Download!Workers |->
                 IF Download!Runs(w) THEN Download!First(w) ELSE Download!Idle]
           /\ measured' = measured
  <2>1. ASSUME NEW w \in Download!Workers
        PROVE  Fits(w, worker[w])' /\ Inside(worker[w])' /\ worker'[w] \in WorkerStates
    <3>1. CASE Download!Runs(w)
      <4>1. worker'[w] = Download!First(w)
        BY <1>1, <2>1, <3>1
      <4>2. /\ Download!FirstStart(w) \in Nat /\ Download!FirstEnd(w) \in Nat
            /\ Download!FirstEnd(w) < download.total
        BY <1>b, <2>1, <3>1, RangesCover
      <4>3. /\ Download!First(w) \in WorkerStates
            /\ Download!First(w).start = Download!FirstStart(w)
            /\ Download!First(w).end = Download!FirstEnd(w)
            /\ Download!First(w).readAt = 0
        <5> DEFINE first == Download!FirstStart(w)
                   end == Download!FirstEnd(w)
        <5>1. /\ Download!Idle \in WorkerStates /\ Download!Idle.readAt = 0
              /\ first \in Int /\ end \in Int
          BY <4>2, Fresh
        <5>2. Download!First(w) = [Download!Idle EXCEPT !.at = "request", !.start = first,
                                                        !.end = end, !.offset = first]
          BY DEF Download!First
        <5> HIDE DEF first, end
        <5> DEFINE s == [Download!Idle EXCEPT !.at = "request", !.start = first,
                                              !.end = end, !.offset = first]
        <5>3. /\ s \in WorkerStates /\ s.start = first /\ s.end = end
              /\ s.readAt = Download!Idle.readAt
          BY <5>1 DEF WorkerStates
        <5>4. Download!First(w) = s
          BY <5>2
        <5> HIDE DEF s
        <5> QED
          BY <5>1, <5>3, <5>4 DEF first, end
      <4>4. Download!Runs(w)'
        BY <1>a, <3>1
        DEF Download!Runs, Download!FirstStart, Download!Chunk, Download!Count
      <4> QED
        BY <1>1, <1>a, <1>b, <4>1, <4>2, <4>3, <4>4 DEF Fits, Inside
    <3>2. CASE ~Download!Runs(w)
      <4>1. worker'[w] = Download!Idle
        BY <1>1, <2>1, <3>2
      <4> QED
        BY <1>1, <1>a, <1>b, <4>1, Fresh DEF Fits, Inside
    <3> QED
      BY <3>1, <3>2
  <2>2. DownloadFits'
    BY <1>1, <1>a, <1>b, <2>1 DEF DownloadInv, DownloadFits, Download!Workers
  <2> QED
    BY <1>1, <1>a, <2>2, NotYet DEF DownloadInv
<1>2. CASE /\ phase' = "full" /\ measured' = measured
           /\ worker' = [worker EXCEPT ![1] = [Download!Idle EXCEPT !.at = "request",
                                                          !.end = download.total - 1]]
  <2>1. ASSUME NEW w \in Download!Workers
        PROVE  Fits(w, worker[w])' /\ worker'[w] \in WorkerStates
    <3>1. CASE w = 1
      <4> DEFINE s == [Download!Idle EXCEPT !.at = "request", !.end = download.total - 1]
      <4>1. s \in WorkerStates /\ s.readAt = 0
        <5> DEFINE end == download.total - 1
        <5>1. Download!Idle \in WorkerStates /\ Download!Idle.readAt = 0 /\ end \in Int
          BY <1>b, Fresh
        <5> HIDE DEF end
        <5>2. /\ [Download!Idle EXCEPT !.at = "request", !.end = end] \in WorkerStates
              /\ [Download!Idle EXCEPT !.at = "request", !.end = end].readAt
                   = Download!Idle.readAt
          BY <5>1, Requesting
        <5> QED
          BY <5>1, <5>2 DEF end
      <4>2. worker'[w] = s
        BY <1>2, <2>1, <3>1 DEF DownloadInv, DownloadFits
      <4>3. phase' = "full" /\ clock' \in Nat
        BY <1>2, <1>a, <1>b
      <4> HIDE DEF s
      <4> QED
        BY <4>1, <4>2, <4>3 DEF Fits
    <3>2. CASE w # 1
      <4>1. worker'[w] = worker[w]
        BY <1>2, <2>1, <3>2 DEF DownloadInv, DownloadFits
      <4> QED
        BY <1>2, <1>a, <1>b, <2>1, <4>1 DEF Fits
    <3> QED
      BY <3>1, <3>2
  <2>2. DOMAIN worker' = Download!Workers /\ worker' = [w \in Download!Workers |-> worker'[w]]
    BY <1>2 DEF DownloadInv, DownloadFits
  <2>3. DownloadFits'
    BY <1>2, <1>a, <1>b, <2>1, <2>2 DEF DownloadInv, DownloadFits, Download!Workers
  <2> QED
    BY <1>2, <1>a, <2>3, NotYet DEF DownloadInv
<1>3. CASE \E reason \in {"rate_limited", "status_mismatch", "unexpected_html_response",
                          "get_error"} : Download!Return(Download!Invalid(reason, TRUE))
  BY <1>3, <1>a, ProbeEnds
  DEF Download!Return, Download!Invalid, Download!NoResult
<1>4. CASE Download!Return(Download!Invalid("request_create_failed", FALSE))
  BY <1>4, <1>a, ProbeEnds
  DEF Download!Return, Download!Invalid, Download!NoResult
<1>5. CASE Download!Over /\ ~interrupted
             /\ Download!Return(Download!Invalid("download_interrupted", TRUE))
  BY <1>5, <1>a, ProbeEnds
  DEF Download!Return, Download!Invalid, Download!NoResult, Download!Over
<1>6. CASE Download!Abort
  BY <1>6, <1>a, ProbeEnds
  DEF Download!Abort, Download!Invalid, Download!NoResult
<1> QED
  BY <1>1, <1>2, <1>3, <1>4, <1>5, <1>6 DEF Download!Probe

\* A worker that moves within its range.
Alike(w, s) ==
    /\ s \in WorkerStates /\ s.readAt <= clock
    /\ s.start = worker[w].start /\ s.end = worker[w].end

\* What a step of a worker has to keep.
LEMMA WorkerKeeps ==
    ASSUME DownloadInv, NEW w \in Download!Workers, NEW s, NEW n,
           phase \in {"range", "full"},
           Download!Set(w, s, n), Warm(n),
           s \in WorkerStates, s.readAt <= clock,
           phase = "range" => Download!Runs(w),
           phase = "range" /\ ~overflowed' => ~overflowed /\ Inside(s)
    PROVE  DownloadInv'
<1>1. /\ worker' = [worker EXCEPT ![w] = s] /\ m' = n
      /\ UNCHANGED <<download, control, phase, interrupted, clock, measured>>
  BY DEF Download!Set
<1>2. /\ DOMAIN worker = Download!Workers /\ worker \in [Download!Workers -> WorkerStates]
      /\ \A v \in Download!Workers : Fits(v, worker[v])
      /\ phase = "range" /\ ~overflowed => \A v \in Download!Workers : Inside(worker[v])
  BY DEF DownloadInv, DownloadFits
<1>3. /\ DOMAIN worker' = Download!Workers /\ worker' \in [Download!Workers -> WorkerStates]
      /\ worker'[w] = s /\ \A v \in Download!Workers \ {w} : worker'[v] = worker[v]
  BY <1>1, <1>2
<1>4. ASSUME NEW v \in Download!Workers PROVE Fits(v, worker[v])'
  <2>1. Download!Runs(v)' <=> Download!Runs(v)
    BY <1>1 DEF Download!Runs, Download!FirstStart, Download!Chunk, Download!Count
  <2>2. CASE v = w
    BY <1>1, <1>3, <2>1, <2>2 DEF Fits
  <2>3. CASE v # w
    <3>1. worker'[v] = worker[v] /\ Fits(v, worker[v])
      BY <1>2, <1>3, <1>4, <2>3
    <3> QED
      BY <1>1, <2>1, <3>1 DEF Fits
  <2> QED
    BY <2>2, <2>3
<1>5. phase' = "range" /\ ~overflowed' => \A v \in Download!Workers : Inside(worker[v])'
  BY <1>1, <1>2, <1>3 DEF Inside
<1>6. DownloadFits'
  BY <1>1, <1>3, <1>4, <1>5 DEF DownloadInv, DownloadFits, Download!Workers
<1>7. Outcome'
  BY <1>1, NotYet DEF DownloadInv
<1> QED
  BY <1>6, <1>7 DEF DownloadInv

\* A worker that moves within its range keeps it.
LEMMA AlikeKeeps ==
    ASSUME DownloadInv, NEW w \in Download!Workers, NEW s, NEW n,
           worker[w].at # "returned", overflowed' = overflowed,
           Download!Set(w, s, n), Warm(n), Alike(w, s)
    PROVE  DownloadInv'
<1>1. /\ Fits(w, worker[w])
      /\ phase \in {"start", "probe", "range", "full", "interrupted", "end"}
      /\ phase = "range" /\ ~overflowed => Inside(worker[w])
  BY DEF DownloadInv, DownloadFits
<1>2. phase \in {"range", "full"} /\ (phase = "range" => Download!Runs(w))
  BY <1>1 DEF Fits
<1>3. phase = "range" /\ ~overflowed' => ~overflowed /\ Inside(s)
  BY <1>1 DEF Alike, Inside
<1> QED
  BY <1>2, <1>3, WorkerKeeps DEF Alike

\* The ways a worker moves within its range.
LEMMA AlikeMoves ==
    ASSUME DownloadInv, NEW w \in Download!Workers
    PROVE  /\ \A place \in {"request", "body", "sniff", "returned"} : Alike(w, Download!At(w, place))
           /\ Alike(w, Download!Stop(w))
           /\ Alike(w, [Download!At(w, "body") EXCEPT !.readAt = clock])
           /\ Alike(w, [Download!At(w, "request") EXCEPT !.offset = 0])
           /\ Alike(w, [worker[w] EXCEPT !.offset = @ + 1, !.readAt = clock])
           /\ Alike(w, Download!Broken(w))
<1>1. worker[w] \in WorkerStates /\ worker[w].readAt <= clock /\ clock \in 0 .. Timeout
  BY DEF DownloadInv, DownloadFits, Fits
<1>2. clock <= clock
  BY <1>1, TimingHolds DEF Timing
<1>3. ASSUME NEW place \in {"request", "body", "sniff", "returned"}
      PROVE  Alike(w, Download!At(w, place))
  BY <1>1, <1>3 DEF Alike, Download!At, WorkerStates
<1>4. Alike(w, Download!Stop(w))
  BY <1>3 DEF Download!Stop
<1>5. ASSUME NEW s, Alike(w, s)
      PROVE  Alike(w, [s EXCEPT !.readAt = clock]) /\ Alike(w, [s EXCEPT !.offset = 0])
  BY <1>1, <1>2, <1>5 DEF Alike, WorkerStates
<1>6. /\ Alike(w, [Download!At(w, "body") EXCEPT !.readAt = clock])
      /\ Alike(w, [Download!At(w, "request") EXCEPT !.offset = 0])
  BY <1>3, <1>5
<1>7. Alike(w, [worker[w] EXCEPT !.offset = @ + 1, !.readAt = clock])
  <2>1. worker[w].offset + 1 \in Int
    BY <1>1 DEF WorkerStates
  <2>2. ASSUME NEW offset \in Int
        PROVE  Alike(w, [worker[w] EXCEPT !.offset = offset, !.readAt = clock])
    BY <1>1, <1>2, <2>2 DEF Alike, WorkerStates
  <2> QED
    BY <2>1, <2>2
<1>8. Alike(w, Download!Broken(w))
  BY <1>3, <1>4, <1>6 DEF Download!Broken
<1> QED
  BY <1>3, <1>4, <1>6, <1>7, <1>8

LEMMA RequestKeeps ==
    ASSUME DownloadInv, NEW w \in Download!Workers, Download!Request(w)
    PROVE  DownloadInv'
<1>1. worker[w].at # "returned" /\ overflowed' = overflowed
  BY DEF Download!Request
<1>2. Warm(m) /\ Warm([m EXCEPT !.limited = TRUE])
  BY Measuring DEF DownloadInv, DownloadFits
<1>3. \E s : Alike(w, s) /\ (Download!Set(w, s, m) \/ Download!Set(w, s, [m EXCEPT !.limited = TRUE]))
  BY AlikeMoves DEF Download!Request
<1> QED
  BY <1>1, <1>2, <1>3, AlikeKeeps

LEMMA SniffKeeps ==
    ASSUME DownloadInv, NEW w \in Download!Workers, Download!Sniff(w)
    PROVE  DownloadInv'
<1>1. worker[w].at # "returned" /\ overflowed' = overflowed /\ Alike(w, Download!Stop(w))
  BY AlikeMoves DEF Download!Sniff
<1>2. /\ Warm(m) /\ clock \in 0 .. Timeout
      /\ download.ignore1034 \in BOOLEAN
  BY DEF DownloadInv, DownloadFits, Download!Configs
<1>3. /\ Warm(Download!MarkRejected("edge_ip_restricted", download.ignore1034))
      /\ Warm(Download!MarkRejected("forbidden", FALSE))
  BY <1>2, Measuring
<1>4. \E n : Warm(n) /\ Download!Set(w, Download!Stop(w), n)
  BY <1>2, <1>3 DEF Download!Sniff
<1> QED
  BY <1>1, <1>4, AlikeKeeps

\* A range drawn at random lies inside the file, the least integer excepted.
LEMMA RandomInside ==
    ASSUME download \in Download!Configs, NEW w \in Download!Workers, Download!Runs(w),
           NEW value \in (-Download!Half) .. (Download!Half - 1)
    PROVE  LET length == Download!FirstEnd(w) - Download!FirstStart(w) + 1
               start == IF length >= download.total THEN Download!FirstStart(w)
                        ELSE Download!RandomStart(value, download.total - length + 1)
           IN  /\ start \in Int /\ length \in Int
               /\ value # -Download!Half =>
                    start >= 0 /\ start + length - 1 < download.total
<1> DEFINE low == Download!FirstStart(w)
           high == Download!FirstEnd(w)
           length == high - low + 1
           half == Download!Half
           starts == download.total - length + 1
<1>1. /\ low \in Nat /\ high \in Nat /\ low <= high /\ high < download.total
      /\ download.total \in Nat \ {0}
  BY RangesCover, AttemptAssumption DEF Download!Configs, Download!DownloadAssumption
<1>2. half \in Int /\ value \in Int /\ -half <= value /\ value <= half - 1
  BY AttemptAssumption DEF Download!Half, Download!DownloadAssumption
<1> HIDE DEF low, high, half
<1>3. length \in Nat \ {0}
  BY <1>1
<1>4. CASE length >= download.total
  BY <1>1, <1>3, <1>4 DEF low, high
<1>5. CASE ~(length >= download.total)
  <2>1. starts \in Nat \ {0}
    BY <1>1, <1>3, <1>5
  <2> HIDE DEF starts, length
  <2>2. ASSUME NEW x \in Nat PROVE x % starts \in 0 .. (starts - 1)
    BY <2>1, <2>2
  <2>3. Download!RandomStart(value, starts) =
          IF value = -half THEN -(half % starts)
          ELSE (IF value < 0 THEN -value ELSE value) % starts
    BY DEF Download!RandomStart, half
  <2>4. half \in Nat
    BY <1>2
  <2>5. (IF value < 0 THEN -value ELSE value) \in Nat
    BY <1>2
  <2>6. Download!RandomStart(value, starts) \in Int
    BY <2>1, <2>2, <2>3, <2>4, <2>5
  <2>7. value # -half => Download!RandomStart(value, starts) \in 0 .. (starts - 1)
    BY <2>2, <2>3, <2>5
  <2> QED
    BY <1>1, <1>3, <1>5, <2>1, <2>6, <2>7 DEF starts, length, low, high, half
<1> QED
  BY <1>4, <1>5

LEMMA ReadKeeps ==
    ASSUME DownloadInv, NEW w \in Download!Workers, Download!Read(w)
    PROVE  DownloadInv'
<1> DEFINE here == worker[w]
           more == [here EXCEPT !.offset = @ + 1, !.readAt = clock]
<1>1. /\ here.at = "body" /\ here \in WorkerStates /\ here.readAt <= clock
      /\ here.readAt \in 0 .. Timeout /\ Fits(w, here) /\ Warm(m) /\ clock \in 0 .. Timeout
      /\ download \in Download!Configs
      /\ phase \in {"start", "probe", "range", "full", "interrupted", "end"}
  BY DEF Download!Read, DownloadInv, DownloadFits, Fits, WorkerStates
<1>2. phase \in {"range", "full"} /\ (phase = "range" => Download!Runs(w))
  BY <1>1 DEF Fits
<1>3. /\ Alike(w, Download!Stop(w)) /\ Alike(w, Download!Broken(w)) /\ Alike(w, more)
      /\ Alike(w, [Download!At(w, "request") EXCEPT !.offset = 0])
  BY AlikeMoves
<1>4. /\ Warm(Download!Added(here.readAt))
      /\ \A reason \in Download!StreamFailures : Warm(Download!MarkIntegrity(reason))
      /\ \A reason \in Download!BodyFailures :
           Warm([Download!Added(here.readAt) EXCEPT
                   !.integrity = Download!MarkIntegrity(reason).integrity])
  BY <1>1, Measuring DEF Download!StreamFailures, Download!BodyFailures
<1> HIDE DEF here, more
<1>5. \/ overflowed' = overflowed /\ \E s, n : Alike(w, s) /\ Warm(n) /\ Download!Set(w, s, n)
      \/ phase = "range" /\ \E value \in (-Download!Half) .. (Download!Half - 1) :
           /\ Download!Set(w, Download!NextRange(w, value), Download!Added(here.readAt))
           /\ overflowed' = (overflowed \/ value = -Download!Half)
  BY <1>1, <1>3, <1>4 DEF Download!Read, here, more
<1>6. CASE overflowed' = overflowed /\ \E s, n : Alike(w, s) /\ Warm(n) /\ Download!Set(w, s, n)
  BY <1>1, <1>6, AlikeKeeps DEF here
<1>7. ASSUME phase = "range", NEW value \in (-Download!Half) .. (Download!Half - 1),
             Download!Set(w, Download!NextRange(w, value), Download!Added(here.readAt)),
             overflowed' = (overflowed \/ value = -Download!Half)
      PROVE  DownloadInv'
  <2> DEFINE length == Download!FirstEnd(w) - Download!FirstStart(w) + 1
             start == IF length >= download.total THEN Download!FirstStart(w)
                      ELSE Download!RandomStart(value, download.total - length + 1)
             end == start + length - 1
             s == [worker[w] EXCEPT !.at = "request", !.start = start, !.offset = start,
                                    !.end = end]
  <2>1. /\ start \in Int /\ length \in Int
        /\ value # -Download!Half => start >= 0 /\ start + length - 1 < download.total
    BY <1>1, <1>2, <1>7, RandomInside
  <2>2. Download!NextRange(w, value) = s
    BY DEF Download!NextRange
  <2>3. start + length - 1 \in Int
    BY <2>1
  <2>4. start \in Int /\ end \in Int
    BY <2>1, <2>3
  <2> HIDE DEF start, length, end
  <2>5. /\ s \in WorkerStates /\ s.start = start /\ s.end = end
        /\ s.readAt <= clock
    BY <1>1, <2>4 DEF WorkerStates, here
  <2>6. ~overflowed' => ~overflowed /\ Inside(s)
    BY <1>7, <2>1, <2>5 DEF Inside, end
  <2>7. Download!Set(w, s, Download!Added(here.readAt))
    BY <1>7, <2>2
  <2> HIDE DEF s
  <2> QED
    BY <1>2, <1>4, <2>5, <2>6, <2>7, WorkerKeeps
<1> QED
  BY <1>5, <1>6, <1>7

LEMMA JudgeKeeps ==
    ASSUME DownloadInv, Download!Judge
    PROVE  DownloadInv'
<1>1. /\ phase \in {"range", "full"} /\ \A w \in Download!Workers : worker[w].at = "returned"
      /\ UNCHANGED <<download, control, interrupted, clock, m, worker, overflowed>>
      /\ phase' \in {"end", "interrupted"}
  BY DEF Download!Judge, Download!Abort, Download!Return
<1>2. /\ m \in Measurements /\ Warm(m) /\ clock \in 0 .. Timeout
  BY DEF DownloadInv, DownloadFits, Warm
<1>3. DownloadFits'
  BY <1>1 DEF DownloadInv, DownloadFits, Fits
<1>4. CASE Download!Abort
  <2>1. phase' = "interrupted" /\ ~measured'.valid
        /\ measured'.reason = "download_interrupted"
    BY <1>4 DEF Download!Abort, Download!Invalid, Download!NoResult
  <2>2. Outcome'
    BY <2>1
    DEF Outcome, Download!ValidIsEarned, Download!PauseIsNoOutcome,
        Download!LimitedOnlyUnmeasured
  <2> QED
    BY <1>3, <2>2 DEF DownloadInv
<1>5. CASE Download!Return(Download!Verdict)
  <2>1. phase' = "end" /\ measured' = Download!Verdict
    BY <1>5 DEF Download!Return
  <2>2. \/ m.rejected # "" /\ measured' = Download!Ignored(m.rejected)
        \/ m.rejected # "" /\ measured' = Download!Invalid(m.rejected, TRUE)
        \/ ~Download!Measured /\ measured' = Download!Invalid("rate_limited", TRUE)
        \/ m.integrity # "" /\ measured' = Download!Invalid(m.integrity, TRUE)
        \/ /\ m.rejected = "" /\ m.integrity = "" /\ Download!Measured
           /\ measured' = Download!Valid
        \/ measured' = Download!Invalid("download_no_valid_measurement", TRUE)
        \/ measured' = Download!Invalid("download_no_body_read", TRUE)
    BY <2>1 DEF Download!Verdict
  <2>3. /\ m.rejected \in {"", "edge_ip_restricted", "forbidden"}
        /\ m.integrity \in {"", "unexpected_html_response", "content_length_mismatch",
                            "digest_mismatch"}
    BY <1>2 DEF Measurements
  <2>4. /\ measured'.valid => m.rejected = "" /\ m.integrity = "" /\ Download!Measured
        /\ measured'.reason # "download_interrupted"
        /\ measured'.reason = "rate_limited" => ~Download!Measured
    BY <2>2, <2>3
    DEF Download!Ignored, Download!Invalid, Download!Valid, Download!NoResult
  <2>5. Download!Measured => m.measured /\ clock > m.startedAt /\ clock > Warmup
    BY <1>2, TimingHolds DEF Download!Measured, Warm, Timing
  <2>6. Download!Measured' <=> Download!Measured
    BY <1>1 DEF Download!Measured
  <2> QED
    BY <1>1, <1>2, <1>3, <2>1, <2>4, <2>5, <2>6, TimingHolds
    DEF DownloadInv, Outcome, Download!ValidIsEarned, Download!PauseIsNoOutcome,
        Download!LimitedOnlyUnmeasured, Measurements, Timing
<1> QED
  BY <1>3, <1>4, <1>5 DEF Download!Judge, DownloadInv

LEMMA AfterInterruptKeeps ==
    ASSUME DownloadInv, Download!AfterInterrupt
    PROVE  DownloadInv'
<1>1. /\ phase = "interrupted" /\ phase' \in {"start", "end"}
      /\ phase' = "end" => control = "cancelled"
      /\ UNCHANGED <<download, control, clock, m, worker, measured, overflowed>>
  BY DEF Download!AfterInterrupt
<1>2. measured.reason = "download_interrupted" /\ ~measured.valid
  BY <1>1 DEF DownloadInv, Outcome
<1>3. DownloadFits'
  BY <1>1 DEF DownloadInv, DownloadFits, Fits
<1>4. Outcome'
  BY <1>1, <1>2
  DEF Outcome, Download!ValidIsEarned, Download!PauseIsNoOutcome,
      Download!LimitedOnlyUnmeasured
<1> QED
  BY <1>3, <1>4 DEF DownloadInv

(* Whatever the connections, the sizes, the times and the width of the     *)
(* integers: a valid download was measured over bytes nobody found false,  *)
(* a pause is never an outcome, one refused connection of several discards *)
(* nothing, and the ranges cover the file (download.go:368-386, 441-460,   *)
(* 964-973).                                                               *)
THEOREM DownloadKept == Spec => []DownloadSafe
<1>1. Init => DownloadInv
  <2> SUFFICES ASSUME Download!Init PROVE DownloadInv
    BY DEF Init
  <2>1. /\ download \in Download!Configs /\ control = "run" /\ phase = "start" /\ clock = 0
        /\ m = Download!Fresh /\ measured = Download!NoResult
        /\ worker = [w \in Download!Workers |-> Download!Idle]
    BY DEF Download!Init
  <2>2. 0 \in 0 .. Timeout
    BY TimingHolds DEF Timing
  <2>3. DownloadFits
    BY <2>1, <2>2, Fresh DEF DownloadFits, Fits, Warm, Download!Workers
  <2>4. Outcome
    BY <2>1
    DEF Outcome, Download!ValidIsEarned, Download!PauseIsNoOutcome,
        Download!LimitedOnlyUnmeasured, Download!NoResult
  <2> QED
    BY <2>3, <2>4 DEF DownloadInv
<1>2. DownloadInv /\ [Next]_vars => DownloadInv'
  <2> SUFFICES ASSUME DownloadInv, [Download!Next]_downloadVars PROVE DownloadInv'
    BY PartSteps
  <2>1. CASE UNCHANGED downloadVars
    <3>1. /\ UNCHANGED <<download, control, phase, clock, m, worker, measured, overflowed>>
      BY <2>1 DEF downloadVars
    <3>2. \A w \in Download!Workers : Download!Runs(w)' <=> Download!Runs(w)
      BY <3>1 DEF Download!Runs, Download!FirstStart, Download!Chunk, Download!Count
    <3>3. DownloadFits'
      BY <3>1, <3>2 DEF DownloadInv, DownloadFits, Fits, Inside
    <3>4. Outcome'
      BY <3>1
      DEF DownloadInv, Outcome, Download!ValidIsEarned, Download!PauseIsNoOutcome,
          Download!LimitedOnlyUnmeasured, Download!Measured
    <3> QED
      BY <3>3, <3>4 DEF DownloadInv
  <2> QED
    BY <2>1, BeginKeeps, UserKeeps, TickKeeps, ProbeKeeps, AfterInterruptKeeps, JudgeKeeps,
       RequestKeeps, SniffKeeps, ReadKeeps
    DEF Download!Next
<1>3. DownloadInv => DownloadSafe
  <2> SUFFICES ASSUME DownloadInv PROVE Download!Safety
    BY DEF DownloadSafe
  <2>1. Download!TypeOK
    BY DEF DownloadInv, DownloadFits, Fits, Warm, WorkerStates, Download!TypeOK
  <2>2. Download!RangesInside
    BY RangesCover DEF DownloadInv, DownloadFits, Inside, Download!RangesInside
  <2> QED
    BY <2>1, <2>2 DEF DownloadInv, Outcome, Download!Safety
<1> QED
  BY <1>1, <1>2, <1>3, PTL DEF Spec
=============================================================================
