-------------------------- MODULE BackgroundProofs --------------------------
(***************************************************************************)
(* Proofs about MCServices: the services that act in the background.  The  *)
(* self update keeps what it promises whatever the number of mirrors,      *)
(* releases and files, the scheduler whatever the number of loops, runs    *)
(* and ticks, the uploads whatever the number of jobs, works and faults.   *)
(***************************************************************************)
EXTENDS MCServices, SequenceLemmas

-----------------------------------------------------------------------------
(* The self update.                                                        *)

\* While the self update is at work a step is one of its own.
LEMMA PartSteps ==
    [Next]_vars => UNCHANGED part /\ (part = "update" => Update!Next \/ UNCHANGED updateVars)
<1>1. [Next]_vars => UNCHANGED part
  BY DEF Next, vars
<1>2. [Next]_vars /\ part = "update" => Update!Next \/ UNCHANGED updateVars
  BY DEF Next, vars
<1> QED
  BY <1>1, <1>2

-----------------------------------------------------------------------------
(* The self update: versions.                                              *)

\* A part of a version is a number below 100, and 0 from the fourth on.
LEMMA ShortVersions ==
    ASSUME NEW v \in Tags \cup {Current}
    PROVE  /\ \A i \in Nat : Update!Part(v, i) \in 0 .. 99
           /\ \A i \in Nat : i > 3 => Update!Part(v, i) = 0
           /\ Len(v) \in 0 .. 3
<1>1. v \in Seq(Nat) /\ Len(v) <= 3 /\ \A i \in DOMAIN v : v[i] < 100
  BY UpdateAssumption DEF Update!UpdateAssumption, Update!DigitsAssumption
<1>2. Len(v) \in Nat /\ DOMAIN v = 1 .. Len(v) /\ \A i \in DOMAIN v : v[i] \in Nat
  BY <1>1
<1>4. Len(v) \in 0 .. 3
  BY <1>1, <1>2
<1>3. ASSUME NEW i \in Nat
      PROVE  Update!Part(v, i) \in 0 .. 99 /\ (i > 3 => Update!Part(v, i) = 0)
  <2>1. CASE i \in DOMAIN v
    <3>1. v[i] \in Nat /\ v[i] < 100
      BY <1>1, <1>2, <2>1
    <3>0. i <= Len(v) /\ Len(v) <= 3
      BY <1>1, <1>2, <2>1
    <3>2. v[i] \in 0 .. 99
      BY <3>1
    <3>3. Update!Part(v, i) = v[i]
      BY <2>1 DEF Update!Part
    <3> QED
      BY <3>0, <3>2, <3>3, <1>4
  <2>2. CASE i \notin DOMAIN v
    BY <2>2 DEF Update!Part
  <2> QED
    BY <2>1, <2>2
<1> QED
  BY <1>3, <1>4

\* What the comparison of the parts finds newer is newer as a number.
LEMMA NewerByDigits ==
    ASSUME NEW v \in Tags \cup {Current}, NEW w \in Tags \cup {Current},
           Update!CompareVersions(v, w) = 1
    PROVE  Update!Digits(v) > Update!Digits(w)
<1> DEFINE differ == {i \in 1 .. Len(v) + Len(w) : Update!Part(v, i) # Update!Part(w, i)}
<1> DEFINE least == Update!Min(differ)
<1>1. differ # {} /\ Update!Part(v, least) > Update!Part(w, least)
  BY DEF Update!CompareVersions
<1>2. differ \subseteq 1 .. 3
  <2> SUFFICES ASSUME NEW i \in differ PROVE i \in 1 .. 3
    OBVIOUS
  <2>1. Len(v) + Len(w) \in Nat
    BY ShortVersions
  <2>2. i \in Nat /\ i >= 1 /\ Update!Part(v, i) # Update!Part(w, i)
    BY <2>1
  <2>3. ~(i > 3)
    BY <2>2, ShortVersions
  <2> QED
    BY <2>2, <2>3
<1>3. \E k \in differ : \A i \in differ : k =< i
  <2> HIDE DEF differ
  <2>1. CASE 1 \in differ
    BY <2>1, <1>2
  <2>2. CASE 1 \notin differ /\ 2 \in differ
    BY <2>2, <1>2
  <2>3. CASE 1 \notin differ /\ 2 \notin differ
    <3>1. \A i \in differ : i = 3
      BY <2>3, <1>2
    <3> QED
      BY <3>1, <1>1
  <2> QED
    BY <2>1, <2>2, <2>3
<1>4. least \in differ /\ \A i \in differ : least =< i
  BY <1>3 DEF Update!Min
<1>5. \A i \in 1 .. 3 : i < least => Update!Part(v, i) = Update!Part(w, i)
  <2> SUFFICES ASSUME NEW i \in 1 .. 3, i < least PROVE Update!Part(v, i) = Update!Part(w, i)
    OBVIOUS
  <2>1. i \notin differ
    BY <1>4, <1>2
  <2>2. Len(v) + Len(w) >= i
    BY <1>4, ShortVersions
  <2> QED
    BY <2>1, <2>2, ShortVersions
<1>6. /\ Update!Part(v, 1) \in 0 .. 99 /\ Update!Part(w, 1) \in 0 .. 99
      /\ Update!Part(v, 2) \in 0 .. 99 /\ Update!Part(w, 2) \in 0 .. 99
      /\ Update!Part(v, 3) \in 0 .. 99 /\ Update!Part(w, 3) \in 0 .. 99
  BY ShortVersions
<1> HIDE DEF least, differ
<1>7. least \in 1 .. 3
  BY <1>2, <1>4
<1>8. \/ Update!Part(v, 1) > Update!Part(w, 1)
      \/ /\ Update!Part(v, 1) = Update!Part(w, 1)
         /\ \/ Update!Part(v, 2) > Update!Part(w, 2)
            \/ /\ Update!Part(v, 2) = Update!Part(w, 2)
               /\ Update!Part(v, 3) > Update!Part(w, 3)
  <2>1. CASE least = 1
    BY <2>1, <1>1
  <2>2. CASE least = 2
    BY <2>2, <1>1, <1>5
  <2>3. CASE least = 3
    BY <2>3, <1>1, <1>5
  <2> QED
    BY <1>7, <2>1, <2>2, <2>3
<1>9. PICK a \in 0 .. 99, b \in 0 .. 99, c \in 0 .. 99, d \in 0 .. 99, e \in 0 .. 99,
           f \in 0 .. 99 :
         /\ a = Update!Part(v, 1) /\ b = Update!Part(w, 1)
         /\ c = Update!Part(v, 2) /\ d = Update!Part(w, 2)
         /\ e = Update!Part(v, 3) /\ f = Update!Part(w, 3)
  BY <1>6
<1>10. a > b \/ (a = b /\ (c > d \/ (c = d /\ e > f)))
  BY <1>8, <1>9
<1>11. 10000 * a + 100 * c + e > 10000 * b + 100 * d + f
  BY <1>10
<1> QED
  BY <1>9, <1>11 DEF Update!Digits

-----------------------------------------------------------------------------
(* The self update: what its steps keep.                                   *)

Over == {"failed", "dropped", "stopped"}
Begun == {"manifest", "race", "replace", "rename", "drain", "verify", "unpack", "stage",
          "manual", "restart_pending"}
After == {"verify", "unpack", "stage", "manual", "restart_pending"}

Queue == Seq([cand : Update!Cands, ok : BOOLEAN])

\* The variables keep their types, the queue of results and the package under
\* way among them.
UpdateTypes ==
    /\ Update!TypeOK
    /\ worker \in [Update!Cands -> {"none", "asking", "copying", "over"}]
    /\ results \in Queue
    /\ winner \in Update!Cands \cup {Nothing} /\ whole \in Update!Cands \cup {Nothing}
    /\ unpacked.total \in Nat /\ unpacked.left \in Seq([size : Sizes, program : BOOLEAN])
    /\ step = "unpack" => unpacked.total <= MaxTotal

\* The command goes on with a newer release only.
Newer ==
    step \in Begun => tag \in Tags /\ Update!CompareVersions(tag, Current) = 1

\* The script is begun by the last step of the command and owns the program.
ScriptFits ==
    /\ script \in {"none", "mv", "copy", "launch", "rm", "ended"}
    /\ script # "none" => step \in {"restart_pending", "stopped"}
    /\ step = "stage" \/ script \in {"mv", "copy"} => staged = "new"
    /\ script = "none" => exe = "old"

\* Candidates whose result was received.
Received ==
    {c \in Update!Cands : worker[c] = "over" /\ \A i \in DOMAIN results : results[i].cand # c}

\* Each candidate has one result, waiting or received; a received one that is
\* not the winner's has left no file; the command has counted them.
RaceFits ==
    /\ step \in {"idle", "manifest", "latest", "stopped"} =>
          worker = [c \in Update!Cands |-> "none"] /\ results = <<>>
    /\ step \in {"idle", "manifest", "latest", "race"} => winner = Nothing
    /\ step \in {"replace", "rename", "drain"} \cup After => winner # Nothing
    /\ \A i \in DOMAIN results : worker[results[i].cand] = "over"
    /\ \A i, j \in DOMAIN results : results[i].cand = results[j].cand => i = j
    /\ step # "stopped" =>
          /\ Cardinality(Received) = errs + (IF winner = Nothing THEN 0 ELSE 1)
          /\ \A c \in Received : c # winner => files[c] = Nothing
          /\ winner # Nothing => winner \in Received
    /\ step \in After => errs = Mirrors - 1
    /\ step \in {"drain"} \cup After => files[winner] = Nothing

\* The first complete download is the first in the queue that says so, until
\* it has won.
FirstFits ==
    /\ winner # Nothing => winner = whole
    /\ step # "stopped" /\ winner = Nothing =>
          IF whole = Nothing THEN \A i \in DOMAIN results : ~results[i].ok
          ELSE \E i \in DOMAIN results :
                  /\ results[i].ok /\ results[i].cand = whole
                  /\ \A j \in DOMAIN results : j < i => ~results[j].ok

UpdateInv ==
    /\ UpdateTypes /\ Newer /\ ScriptFits /\ RaceFits /\ FirstFits
    /\ Update!InstallsChecked /\ Update!KeepsAProgram

\* What the assumptions say of the numbers.
LEMMA UpdateNumbers ==
    /\ Mirrors \in Nat \ {0} /\ MaxEntry \in Nat /\ MaxTotal \in Nat /\ Sizes \subseteq Nat
    /\ Nothing \notin Update!Cands /\ Nothing \notin {"partial", "good", "bad", "new"}
    /\ IsFiniteSet(Update!Cands) /\ Cardinality(Update!Cands) = Mirrors
<1>1. /\ Mirrors \in Nat \ {0} /\ MaxEntry \in Nat /\ MaxTotal \in Nat /\ Sizes \subseteq Nat
      /\ Nothing \notin Update!Cands /\ Nothing \notin {"partial", "good", "bad", "new"}
  BY UpdateAssumption DEF Update!UpdateAssumption, Update!Cands
<1>2. IsFiniteSet(1 .. Mirrors) /\ Cardinality(1 .. Mirrors) = Mirrors
  <2>1. 1 \in Int /\ Mirrors \in Int /\ Mirrors >= 1
    BY <1>1
  <2> QED
    BY <2>1, FS_Interval
<1> QED
  BY <1>1, <1>2 DEF Update!Cands

\* The queue after a receive and after a send.
LEMMA QueueRead ==
    ASSUME results \in Queue, results # <<>>, results' = Tail(results)
    PROVE  /\ Update!Result.cand \in Update!Cands /\ Update!Result = results[1]
           /\ results' \in Queue /\ Len(results) \in Nat \ {0}
           /\ DOMAIN results = 1 .. Len(results)
           /\ DOMAIN results' = 1 .. Len(results) - 1
           /\ \A i \in DOMAIN results' : results'[i] = results[i + 1]
<1> DEFINE S == [cand : Update!Cands, ok : BOOLEAN]
<1>1. Len(results) \in Nat \ {0} /\ DOMAIN results = 1 .. Len(results)
  BY EmptySeq, LenProperties DEF Queue
<1>2. /\ Head(results) \in S /\ results' \in Seq(S) /\ Len(results') = Len(results) - 1
      /\ \A i \in 1 .. Len(results') : results'[i] = results[i + 1]
  <2> HIDE DEF S
  <2> QED
    BY HeadTailProperties DEF Queue, S
<1>3. DOMAIN results' = 1 .. Len(results')
  BY <1>2, LenProperties
<1>4. Update!Result = results[1]
  BY <1>1 DEF Update!Result
<1>5. Update!Result.cand \in Update!Cands
  BY <1>2 DEF Update!Result
<1> QED
  BY <1>1, <1>2, <1>3, <1>4, <1>5 DEF Queue

LEMMA QueueSend ==
    ASSUME results \in Queue, NEW c \in Update!Cands, NEW ok \in BOOLEAN,
           results' = Append(results, [cand |-> c, ok |-> ok])
    PROVE  /\ results' \in Queue /\ Len(results) \in Nat
           /\ DOMAIN results = 1 .. Len(results)
           /\ DOMAIN results' = 1 .. Len(results) + 1
           /\ \A i \in DOMAIN results : results'[i] = results[i]
           /\ results'[Len(results) + 1] = [cand |-> c, ok |-> ok]
<1>1. [cand |-> c, ok |-> ok] \in [cand : Update!Cands, ok : BOOLEAN]
  OBVIOUS
<1>2. /\ results' \in Queue /\ Len(results') = Len(results) + 1
      /\ \A i \in 1 .. Len(results) : results'[i] = results[i]
      /\ results'[Len(results) + 1] = [cand |-> c, ok |-> ok]
  BY <1>1, AppendProperties DEF Queue
<1>3. Len(results) \in Nat /\ DOMAIN results = 1 .. Len(results) /\ DOMAIN results' = 1 .. Len(results')
  BY <1>2, LenProperties DEF Queue
<1> QED
  BY <1>2, <1>3

\* No more results can wait than there are candidates.
LEMMA QueueBound ==
    ASSUME NEW queued \in Queue,
           \A i, j \in DOMAIN queued : queued[i].cand = queued[j].cand => i = j
    PROVE  Len(queued) <= Mirrors
<1> DEFINE of == [i \in 1 .. Len(queued) |-> queued[i].cand]
<1>1. Len(queued) \in Nat /\ DOMAIN queued = 1 .. Len(queued)
  BY LenProperties DEF Queue
<1>2. \A i \in 1 .. Len(queued) : queued[i].cand \in Update!Cands
  <2> DEFINE S == [cand : Update!Cands, ok : BOOLEAN]
  <2>1. \A i \in 1 .. Len(queued) : queued[i] \in S
    <3> HIDE DEF S
    <3> QED
      BY ElementOfSeq DEF Queue, S
  <2> QED
    BY <2>1
<1>3. of \in [1 .. Len(queued) -> Update!Cands]
  BY <1>2
<1>4. /\ IsFiniteSet(1 .. Len(queued)) /\ Cardinality(1 .. Len(queued)) = Len(queued)
  BY <1>1, FS_Interval
<1>5. ASSUME NEW i \in 1 .. Len(queued), NEW j \in 1 .. Len(queued), i # j
      PROVE  of[i] # of[j]
  BY <1>1, <1>5
<1> HIDE DEF of
<1>6. ~(Mirrors < Len(queued))
  BY <1>3, <1>4, <1>5, UpdateNumbers, FS_PigeonHole
<1> QED
  BY <1>1, <1>6, UpdateNumbers

\* Every candidate was received when as many were counted.
LEMMA AllReceived ==
    ASSUME UpdateInv, step # "stopped", Cardinality(Received) >= Mirrors
    PROVE  Received = Update!Cands
<1>1. Mirrors \in Nat
  BY UpdateNumbers
<1>2. IsFiniteSet(Update!Cands) /\ Cardinality(Update!Cands) = Mirrors
  BY UpdateNumbers
<1>3. Received \subseteq Update!Cands
  BY DEF Received
<1>4. IsFiniteSet(Received) /\ Cardinality(Received) \in Nat
  BY <1>2, <1>3, FS_Subset, FS_CardinalityType
<1> QED
  BY <1>1, <1>2, <1>3, <1>4, FS_Subset

\* The invariant gives the properties.
LEMMA UpdateInvSafe == ASSUME UpdateInv PROVE Update!Safety
<1>1. Update!OffersOnlyNewer
  BY NewerByDigits DEF UpdateInv, Newer, Begun, Update!OffersOnlyNewer
<1>2. Update!FirstCompleteWins
  BY DEF UpdateInv, FirstFits, Update!FirstCompleteWins
<1>3. Update!NoPartsLeft
  <2>a. Mirrors \in Nat \ {0} /\ errs \in Nat
    BY UpdateAssumption DEF Update!UpdateAssumption, UpdateInv, UpdateTypes, Update!TypeOK
  <2>1. CASE step \in After
    <3>1. Received = Update!Cands
      <4>1. winner # Nothing /\ errs = Mirrors - 1 /\ step # "stopped"
        BY <2>1 DEF UpdateInv, RaceFits, After
      <4> QED
        BY <4>1, <2>a, AllReceived DEF UpdateInv, RaceFits
    <3> QED
      BY <3>1, <2>1 DEF UpdateInv, RaceFits, After, Update!NoPartsLeft
  <2>2. CASE errs = Mirrors /\ step = "failed"
    <3>1. Received = Update!Cands
      BY <2>2, <2>a, AllReceived DEF UpdateInv, RaceFits
    <3>2. winner = Nothing
      <4>1. Cardinality(Received) = Mirrors
        BY <3>1, <2>a, FS_Interval DEF Update!Cands
      <4> QED
        BY <4>1, <2>2, <2>a DEF UpdateInv, RaceFits
    <3>3. Nothing \notin Update!Cands
      BY UpdateAssumption DEF Update!UpdateAssumption, Update!Cands
    <3> QED
      BY <3>1, <3>2, <3>3, <2>2 DEF UpdateInv, RaceFits, Update!NoPartsLeft
  <2> QED
    BY <2>1, <2>2 DEF After, Update!NoPartsLeft
<1> QED
  BY <1>1, <1>2, <1>3 DEF UpdateInv, UpdateTypes, Update!Safety

\* A receive counts one candidate more; a send counts none.
LEMMA Receives ==
    ASSUME UpdateInv, step # "stopped", results # <<>>, results' = Tail(results),
           UNCHANGED worker
    PROVE  /\ Received' = Received \cup {Update!Result.cand} /\ Update!Result.cand \notin Received
           /\ Cardinality(Received') = Cardinality(Received) + 1
           /\ Cardinality(Received') \in 0 .. Mirrors /\ Cardinality(Received) \in Nat
           /\ \A i \in DOMAIN results' : worker'[results'[i].cand] = "over"
           /\ \A i, j \in DOMAIN results' : results'[i].cand = results'[j].cand => i = j
<1> DEFINE c == Update!Result.cand
<1>1. results \in Queue
  BY DEF UpdateInv, UpdateTypes
<1>2. /\ c \in Update!Cands /\ c = results[1].cand
      /\ results' \in Queue /\ Len(results) \in Nat \ {0}
      /\ DOMAIN results = 1 .. Len(results)
      /\ DOMAIN results' = 1 .. Len(results) - 1
      /\ \A i \in DOMAIN results' : results'[i] = results[i + 1]
  BY <1>1, QueueRead
<1> HIDE DEF c
<1>3. /\ \A i \in DOMAIN results : worker[results[i].cand] = "over"
      /\ \A i, j \in DOMAIN results : results[i].cand = results[j].cand => i = j
  BY DEF UpdateInv, RaceFits
<1>4. \A i \in DOMAIN results' : results'[i].cand # c
  BY <1>2, <1>3
<1>5. \A i \in DOMAIN results : i = 1 \/ (i - 1 \in DOMAIN results' /\ results'[i - 1] = results[i])
  BY <1>2
<1>6. \A d \in Update!Cands :
         (\A i \in DOMAIN results' : results'[i].cand # d)
           <=> (d = c \/ \A i \in DOMAIN results : results[i].cand # d)
  <2> SUFFICES ASSUME NEW d \in Update!Cands
               PROVE  (\A i \in DOMAIN results' : results'[i].cand # d)
                        <=> (d = c \/ \A i \in DOMAIN results : results[i].cand # d)
    OBVIOUS
  <2>1. ASSUME \A i \in DOMAIN results' : results'[i].cand # d, d # c,
               NEW i \in DOMAIN results
        PROVE  results[i].cand # d
    <3>1. CASE i = 1
      BY <3>1, <2>1, <1>2
    <3>2. CASE i - 1 \in DOMAIN results' /\ results'[i - 1] = results[i]
      BY <3>2, <2>1
    <3> QED
      BY <3>1, <3>2, <1>5
  <2>2. ASSUME \A i \in DOMAIN results : results[i].cand # d, NEW i \in DOMAIN results'
        PROVE  results'[i].cand # d
    <3>1. i + 1 \in DOMAIN results
      BY <1>2
    <3> QED
      BY <3>1, <2>2, <1>2
  <2> QED
    BY <2>1, <2>2, <1>4
<1>7. worker[c] = "over" /\ 1 \in DOMAIN results
  BY <1>2, <1>3
<1>8. Received' = Received \cup {c}
  BY <1>2, <1>6, <1>7 DEF Received
<1>9. c \notin Received
  BY <1>2, <1>7 DEF Received
<1>10. Received \subseteq Update!Cands /\ Received' \subseteq Update!Cands
  BY <1>2, <1>8 DEF Received
<1>11. IsFiniteSet(Received) /\ Cardinality(Received) \in Nat
  BY <1>10, UpdateNumbers, FS_Subset, FS_CardinalityType
<1>12. Cardinality(Received') = Cardinality(Received) + 1
  BY <1>8, <1>9, <1>11, FS_AddElement
<1>13. Cardinality(Received') <= Mirrors
  BY <1>10, UpdateNumbers, FS_Subset
<1>14. /\ \A i \in DOMAIN results' : worker'[results'[i].cand] = "over"
       /\ \A i, j \in DOMAIN results' : results'[i].cand = results'[j].cand => i = j
  BY <1>2, <1>3
<1> QED
  BY <1>8, <1>9, <1>11, <1>12, <1>13, <1>14, UpdateNumbers DEF c

LEMMA Sends ==
    ASSUME UpdateInv, NEW c \in Update!Cands, NEW ok \in BOOLEAN,
           worker[c] \in {"asking", "copying"}, Update!Sends(c, ok)
    PROVE  /\ Received' = Received
           /\ \A i \in DOMAIN results' : worker'[results'[i].cand] = "over"
           /\ \A i, j \in DOMAIN results' : results'[i].cand = results'[j].cand => i = j
           /\ step # "stopped"
<1>1. /\ results \in Queue
      /\ worker \in [Update!Cands -> {"none", "asking", "copying", "over"}]
  BY DEF UpdateInv, UpdateTypes
<1>2. /\ worker' = [worker EXCEPT ![c] = "over"]
      /\ results' = Append(results, [cand |-> c, ok |-> ok])
  BY DEF Update!Sends
<1>3. /\ results' \in Queue /\ Len(results) \in Nat
      /\ DOMAIN results = 1 .. Len(results)
      /\ DOMAIN results' = 1 .. Len(results) + 1
      /\ \A i \in DOMAIN results : results'[i] = results[i]
      /\ results'[Len(results) + 1] = [cand |-> c, ok |-> ok]
  BY <1>1, <1>2, QueueSend
<1>4. /\ \A i \in DOMAIN results : worker[results[i].cand] = "over"
      /\ \A i, j \in DOMAIN results : results[i].cand = results[j].cand => i = j
  BY DEF UpdateInv, RaceFits
<1>5. \A i \in DOMAIN results : results[i].cand # c
  BY <1>4
<1>6. step # "stopped"
  BY DEF UpdateInv, RaceFits
<1>7. \A i \in DOMAIN results' :
         \/ i \in DOMAIN results /\ results'[i] = results[i]
         \/ i = Len(results) + 1 /\ results'[i].cand = c
  BY <1>3
<1>8. Len(results) + 1 \in DOMAIN results' /\ \A i \in DOMAIN results : i \in DOMAIN results'
  BY <1>3
<1>9. \A d \in Update!Cands : d # c => worker'[d] = worker[d]
  BY <1>1, <1>2
<1>10. worker'[c] = "over" /\ worker[c] # "over"
  BY <1>1, <1>2
<1>11. \A i \in DOMAIN results : results[i].cand \in Update!Cands
  <2> DEFINE S == [cand : Update!Cands, ok : BOOLEAN]
  <2>1. \A i \in DOMAIN results : results[i] \in S
    <3> HIDE DEF S
    <3> QED
      BY <1>1, <1>3, ElementOfSeq DEF Queue, S
  <2> QED
    BY <2>1
<1>12. \A i \in DOMAIN results' : worker'[results'[i].cand] = "over"
  BY <1>4, <1>7, <1>9, <1>10, <1>11
<1>13. \A i, j \in DOMAIN results' : results'[i].cand = results'[j].cand => i = j
  BY <1>4, <1>5, <1>7
<1>14. Received' = Received
  <2>1. \A d \in Update!Cands : d # c =>
           ((\A i \in DOMAIN results' : results'[i].cand # d)
              <=> \A i \in DOMAIN results : results[i].cand # d)
    BY <1>3, <1>7, <1>8
  <2>2. c \notin Received /\ c \notin Received'
    <3>1. ~(\A i \in DOMAIN results' : results'[i].cand # c)
      BY <1>3, <1>8
    <3> QED
      BY <3>1, <1>10 DEF Received
  <2> QED
    BY <2>1, <2>2, <1>9 DEF Received
<1> QED
  BY <1>6, <1>12, <1>13, <1>14

-----------------------------------------------------------------------------
(* The self update: one step of it.                                        *)

\* The race, the package and their counting.
LEMMA RaceStep == ASSUME UpdateInv, Update!Next PROVE RaceFits'
<1>a. /\ results \in Queue /\ worker \in [Update!Cands -> {"none", "asking", "copying", "over"}]
      /\ winner \in Update!Cands \cup {Nothing} /\ errs \in 0 .. Mirrors
      /\ files \in [Update!Cands -> Update!Contents]
  BY DEF UpdateInv, UpdateTypes, Update!TypeOK
<1>b. RaceFits
  BY DEF UpdateInv
<1>c. Nothing \notin Update!Cands /\ Mirrors \in Nat \ {0}
  BY UpdateNumbers
<1>d. UNCHANGED <<worker, results>> => Received' = Received
  BY DEF Received
<1> USE DEF RaceFits, After
<1>1. CASE /\ UNCHANGED <<worker, results, errs, winner, files>>
           /\ \/ UNCHANGED step
              \/ /\ step \in {"idle", "manifest"}
                 /\ step' \in {"failed", "latest", "manifest", "race"}
              \/ step \in After /\ step' \in After \cup {"failed"}
              \/ step = "replace" /\ step' = "rename"
  BY <1>1, <1>b, <1>d
<1>2. CASE Update!RaceBegin
  <2>1. /\ worker = [c \in Update!Cands |-> "none"] /\ step = "race"
        /\ worker' = [c \in Update!Cands |-> "asking"]
        /\ UNCHANGED <<step, results, errs, winner, files>>
    BY <1>2 DEF Update!RaceBegin, Update!choice
  <2>2. Received = {} /\ Received' = {}
    BY <2>1 DEF Received
  <2>3. DOMAIN results = {}
    <3>1. \A i \in DOMAIN results : results[i].cand \in Update!Cands
      <4> DEFINE S == [cand : Update!Cands, ok : BOOLEAN]
      <4>1. \A i \in DOMAIN results : results[i] \in S
        <5> HIDE DEF S, RaceFits
        <5>1. DOMAIN results = 1 .. Len(results)
          BY <1>a, LenProperties DEF Queue
        <5> QED
          BY <1>a, <5>1, ElementOfSeq DEF Queue, S
      <4> QED
        BY <4>1
    <3> QED
      BY <3>1, <2>1, <1>b
  <2> QED
    BY <2>1, <2>2, <2>3, <1>b
<1>3. CASE Update!ReceiveError
  <2>1. /\ step = "race" /\ results # <<>> /\ results' = Tail(results) /\ errs' = errs + 1
        /\ files' = [files EXCEPT ![Update!Result.cand] = Nothing]
        /\ UNCHANGED <<worker, winner>> /\ step' \in {"race", "failed"}
    BY <1>3 DEF Update!ReceiveError, Update!Removed, Update!Answer, Update!choice
  <2>2. winner = Nothing
    BY <2>1, <1>b
  <2>3. /\ Received' = Received \cup {Update!Result.cand}
        /\ Cardinality(Received') = Cardinality(Received) + 1
        /\ \A i \in DOMAIN results' : worker'[results'[i].cand] = "over"
        /\ \A i, j \in DOMAIN results' : results'[i].cand = results'[j].cand => i = j
    BY <2>1, Receives
  <2>4. \A c \in Received' : files'[c] = Nothing
    <3>1. \A c \in Received : files[c] = Nothing
      BY <2>1, <2>2, <1>b, <1>c DEF Received
    <3>2. Received' \subseteq Update!Cands
      BY <2>3, <1>a, QueueRead, <2>1 DEF Received
    <3> QED
      BY <3>1, <3>2, <2>1, <2>3, <1>a
  <2>5. Cardinality(Received') = errs' + 0
    BY <2>1, <2>2, <2>3, <1>b, <1>a
  <2> QED
    BY <2>1, <2>2, <2>3, <2>4, <2>5
<1>4. CASE Update!ReceiveWinner
  <2>1. /\ step = "race" /\ results # <<>> /\ results' = Tail(results) /\ step' = "replace"
        /\ winner' = Update!Result.cand /\ UNCHANGED <<worker, errs, files>>
    BY <1>4 DEF Update!ReceiveWinner
  <2>2. winner = Nothing
    BY <2>1, <1>b
  <2>3. /\ Received' = Received \cup {Update!Result.cand}
        /\ Cardinality(Received') = Cardinality(Received) + 1
        /\ \A i \in DOMAIN results' : worker'[results'[i].cand] = "over"
        /\ \A i, j \in DOMAIN results' : results'[i].cand = results'[j].cand => i = j
    BY <2>1, Receives
  <2>4. winner' \in Update!Cands
    BY <2>1, <1>a, QueueRead
  <2>5. \A c \in Received' : c # winner' => files'[c] = Nothing
    BY <2>1, <2>2, <2>3, <1>b, <1>c DEF Received
  <2>6. Cardinality(Received') = errs' + 1
    BY <2>1, <2>2, <2>3, <1>b, <1>a
  <2> QED
    BY <2>1, <2>3, <2>4, <2>5, <2>6, <1>c
<1>5. CASE Update!ReplaceFails
  <2>1. /\ step' = "dropped" /\ files' = [files EXCEPT ![winner] = Nothing]
        /\ step \in {"replace", "rename"} /\ UNCHANGED <<worker, results, errs, winner>>
    BY <1>5 DEF Update!ReplaceFails, Update!Answer
  <2> QED
    BY <2>1, <1>a, <1>b, <1>d DEF Received
<1>6. CASE Update!PackageRename
  <2>1. /\ step' = "drain" /\ files' = [files EXCEPT ![winner] = Nothing]
        /\ step = "rename" /\ UNCHANGED <<worker, results, errs, winner>>
    BY <1>6 DEF Update!PackageRename
  <2>2. winner \in Update!Cands
    BY <2>1, <1>a, <1>b
  <2> QED
    BY <2>1, <2>2, <1>a, <1>b, <1>d DEF Received
<1>7. CASE Update!Drain
  <2>1. CASE results # <<>> /\ UNCHANGED step /\ results' = Tail(results)
             /\ errs' = errs + 1 /\ files' = [files EXCEPT ![Update!Result.cand] = Nothing]
    <3>1. step = "drain" /\ UNCHANGED <<worker, winner>>
      BY <1>7 DEF Update!Drain
    <3>2. winner # Nothing
      BY <3>1, <1>b
    <3>3. /\ Received' = Received \cup {Update!Result.cand}
          /\ Cardinality(Received') = Cardinality(Received) + 1
          /\ \A i \in DOMAIN results' : worker'[results'[i].cand] = "over"
          /\ \A i, j \in DOMAIN results' : results'[i].cand = results'[j].cand => i = j
      BY <2>1, <3>1, Receives
    <3>4. \A c \in Received' : c # winner' => files'[c] = Nothing
      <4>1. Update!Result.cand \in Update!Cands
        BY <2>1, <1>a, QueueRead
      <4> QED
        BY <4>1, <2>1, <3>1, <3>3, <1>a, <1>b DEF Received
    <3>5. Cardinality(Received') = errs' + 1
      BY <2>1, <3>1, <3>2, <3>3, <1>b, <1>a
    <3>6. files'[winner'] = Nothing
      <4>1. files[winner] = Nothing /\ winner \in Update!Cands
        BY <3>1, <3>2, <1>a, <1>b
      <4> QED
        BY <4>1, <2>1, <3>1, <1>a
    <3> QED
      BY <2>1, <3>1, <3>2, <3>3, <3>4, <3>5, <3>6, <1>b
  <2>2. CASE Update!Remaining = 0 /\ step' = "verify" /\ UNCHANGED <<files, results, errs>>
    <3>1. errs = Mirrors - 1
      BY <2>2, <1>a, <1>c DEF Update!Remaining
    <3>2. step = "drain" /\ UNCHANGED <<worker, winner>>
      BY <1>7 DEF Update!Drain
    <3> QED
      BY <2>2, <3>1, <3>2, <1>b, <1>d
  <2> QED
    BY <2>1, <2>2, <1>7 DEF Update!Drain, Update!Removed
<1>8. CASE Update!Stop
  <2>1. /\ step' = "stopped" /\ worker' = [c \in Update!Cands |-> "none"] /\ results' = <<>>
    BY <1>8 DEF Update!Stop
  <2>2. DOMAIN results' = {}
    BY <2>1
  <2> QED
    BY <2>1, <2>2
<1>9. ASSUME NEW c \in Update!Cands, Update!Goroutine(c)
      PROVE  RaceFits'
  <2>1. CASE Update!PartCreate(c)
    <3>1. /\ worker[c] = "asking" /\ worker' = [worker EXCEPT ![c] = "copying"]
          /\ files' = [files EXCEPT ![c] = "partial"]
          /\ UNCHANGED <<step, results, errs, winner>>
      BY <2>1 DEF Update!PartCreate
    <3>2. /\ step \notin {"idle", "manifest", "latest", "stopped"}
          /\ \A i \in DOMAIN results : results[i].cand # c
      BY <3>1, <1>a, <1>b
    <3>3. Received' = Received /\ c \notin Received
      BY <3>1, <1>a DEF Received
    <3>4. \A i \in DOMAIN results : worker'[results[i].cand] = "over"
      BY <3>1, <3>2, <1>a, <1>b
    <3>5. winner # c
      BY <3>2, <3>3, <1>b, <1>c
    <3>6. \A d \in Update!Cands : d # c => files'[d] = files[d]
      BY <3>1, <1>a
    <3>7. \A d \in Received : d # winner => files'[d] = Nothing
      BY <3>2, <3>3, <3>6, <1>b DEF Received
    <3>8. step \in {"drain"} \cup After => files'[winner] = Nothing
      BY <3>5, <3>6, <1>a, <1>b
    <3>9. /\ Cardinality(Received') = errs' + (IF winner' = Nothing THEN 0 ELSE 1)
          /\ \A d \in Received' : d # winner' => files'[d] = Nothing
          /\ winner' # Nothing => winner' \in Received'
      BY <3>1, <3>2, <3>3, <3>7, <1>b
    <3>10. /\ step' \in {"idle", "manifest", "latest", "race"} => winner' = Nothing
           /\ step' \in {"replace", "rename", "drain"} \cup After => winner' # Nothing
           /\ step' \in After => errs' = Mirrors - 1
           /\ step' \in {"drain"} \cup After => files'[winner'] = Nothing
      BY <3>1, <3>8, <1>b
    <3>11. /\ \A i \in DOMAIN results' : worker'[results'[i].cand] = "over"
           /\ \A i, j \in DOMAIN results' : results'[i].cand = results'[j].cand => i = j
      BY <3>1, <3>4, <1>b
    <3>12. step' \notin {"idle", "manifest", "latest", "stopped"}
      BY <3>1, <3>2
    <3> QED
      BY <3>9, <3>10, <3>11, <3>12
  <2>2. ASSUME NEW ok \in BOOLEAN, Update!Sends(c, ok), worker[c] \in {"asking", "copying"},
               UNCHANGED <<step, errs, winner>>,
               \/ UNCHANGED files
               \/ \E content \in Update!Contents : files' = [files EXCEPT ![c] = content]
        PROVE  RaceFits'
    <3>1. /\ Received' = Received
          /\ \A i \in DOMAIN results' : worker'[results'[i].cand] = "over"
          /\ \A i, j \in DOMAIN results' : results'[i].cand = results'[j].cand => i = j
          /\ step # "stopped"
      BY <2>2, Sends
    <3>2. step \notin {"idle", "manifest", "latest", "stopped"}
      BY <2>2, <1>a, <1>b
    <3>3. c \notin Received
      BY <2>2 DEF Received
    <3>4. winner # c
      BY <3>2, <3>3, <1>b, <1>c
    <3>5. \A d \in Update!Cands : d # c => files'[d] = files[d]
      BY <2>2, <1>a
    <3>6. Received \subseteq Update!Cands
      BY DEF Received
    <3>7. \A d \in Received : d # winner => files'[d] = Nothing
      BY <3>2, <3>3, <3>5, <3>6, <1>b
    <3>8. step \in {"drain"} \cup After => files'[winner] = Nothing
      BY <3>4, <3>5, <1>a, <1>b
    <3>9. /\ Cardinality(Received') = errs' + (IF winner' = Nothing THEN 0 ELSE 1)
          /\ \A d \in Received' : d # winner' => files'[d] = Nothing
          /\ winner' # Nothing => winner' \in Received'
      BY <2>2, <3>1, <3>2, <3>7, <1>b
    <3>10. /\ step' \in {"idle", "manifest", "latest", "race"} => winner' = Nothing
           /\ step' \in {"replace", "rename", "drain"} \cup After => winner' # Nothing
           /\ step' \in After => errs' = Mirrors - 1
           /\ step' \in {"drain"} \cup After => files'[winner'] = Nothing
      BY <2>2, <3>8, <1>b
    <3>11. step' \notin {"idle", "manifest", "latest", "stopped"}
      BY <2>2, <3>2
    <3> QED
      BY <3>1, <3>9, <3>10, <3>11
  <2>3. CASE Update!RequestFails(c)
    BY <2>2, <2>3 DEF Update!RequestFails
  <2>4. CASE Update!CopyFails(c)
    BY <2>2, <2>4 DEF Update!CopyFails, Update!Contents
  <2>5. CASE Update!CopyDone(c)
    <3>1. PICK served \in {"good", "bad"} :
            /\ files' = [files EXCEPT ![c] = IF Update!Verified(served) THEN served ELSE Nothing]
            /\ Update!Sends(c, Update!Verified(served))
      BY <2>5 DEF Update!CopyDone
    <3>2. Update!Verified(served) \in BOOLEAN
      BY DEF Update!Verified
    <3>3. worker[c] = "copying" /\ UNCHANGED <<step, errs, winner>>
      BY <2>5 DEF Update!CopyDone
    <3>4. (IF Update!Verified(served) THEN served ELSE Nothing) \in Update!Contents
      BY DEF Update!Contents
    <3> HIDE DEF RaceFits
    <3> QED
      BY <2>2, <3>1, <3>2, <3>3, <3>4
  <2> QED
    BY <1>9, <2>1, <2>3, <2>4, <2>5 DEF Update!Goroutine
<1>10. CASE \/ Update!ReleaseFails \/ Update!ReleaseRead \/ Update!ManifestFails
            \/ Update!ManifestRead \/ Update!PackageRemove \/ Update!Install
            \/ Update!UnpackFile \/ Update!UnpackFails \/ Update!Stage
            \/ Update!ScriptStart \/ Update!Script
  <2>1. UNCHANGED <<worker, results, errs, winner, files>>
    BY <1>10
    DEF Update!ReleaseFails, Update!ReleaseRead, Update!ManifestFails, Update!ManifestRead,
        Update!PackageRemove, Update!Install, Update!UnpackFile, Update!UnpackFails,
        Update!Stage, Update!ScriptStart, Update!Script, Update!ScriptMove,
        Update!ScriptCopy, Update!ScriptLaunch, Update!ScriptRemove, Update!race
  <2>2. \/ UNCHANGED step
        \/ /\ step \in {"idle", "manifest"}
           /\ step' \in {"failed", "latest", "manifest", "race"}
        \/ step \in After /\ step' \in After \cup {"failed"}
        \/ step = "replace" /\ step' = "rename"
    BY <1>10
    DEF Update!ReleaseFails, Update!ReleaseRead, Update!ManifestFails, Update!ManifestRead,
        Update!PackageRemove, Update!Install, Update!UnpackFile, Update!UnpackFails,
        Update!Stage, Update!ScriptStart, Update!Script, Update!ScriptMove,
        Update!ScriptCopy, Update!ScriptLaunch, Update!ScriptRemove, Update!Answer
  <2> HIDE DEF RaceFits, After
  <2> QED
    BY <1>1, <2>1, <2>2
<1> QED
  BY <1>2, <1>3, <1>4, <1>5, <1>6, <1>7, <1>8, <1>9, <1>10
  DEF Update!Next, Update!UpdateCommand

\* The first complete download, until it has won and after.
LEMMA FirstStep == ASSUME UpdateInv, Update!Next PROVE FirstFits'
<1>a. /\ results \in Queue /\ winner \in Update!Cands \cup {Nothing}
      /\ whole \in Update!Cands \cup {Nothing} /\ Nothing \notin Update!Cands
  BY UpdateNumbers DEF UpdateInv, UpdateTypes
<1>b. FirstFits /\ RaceFits
  BY DEF UpdateInv
<1>1. CASE UNCHANGED <<results, winner, whole>> /\ step # "stopped"
  BY <1>1, <1>b DEF FirstFits
<1>2. CASE Update!ReceiveError
  <2>1. /\ step = "race" /\ results # <<>> /\ results' = Tail(results) /\ ~Update!Result.ok
        /\ UNCHANGED <<winner, whole>>
    BY <1>2 DEF Update!ReceiveError
  <2>2. winner = Nothing
    BY <2>1, <1>b DEF RaceFits
  <2>3. /\ Update!Result = results[1] /\ Len(results) \in Nat \ {0}
        /\ DOMAIN results = 1 .. Len(results) /\ DOMAIN results' = 1 .. Len(results) - 1
        /\ \A i \in DOMAIN results' : results'[i] = results[i + 1]
    BY <2>1, <1>a, QueueRead
  <2>4. CASE whole = Nothing
    BY <2>1, <2>2, <2>3, <2>4, <1>b DEF FirstFits
  <2>5. CASE whole # Nothing
    <3>1. PICK i \in DOMAIN results :
             /\ results[i].ok /\ results[i].cand = whole
             /\ \A j \in DOMAIN results : j < i => ~results[j].ok
      BY <2>1, <2>2, <2>5, <1>b DEF FirstFits
    <3>2. i # 1
      BY <3>1, <2>1, <2>3
    <3>3. i - 1 \in DOMAIN results' /\ results'[i - 1] = results[i]
      BY <3>2, <2>3
    <3>4. \A j \in DOMAIN results' : j < i - 1 => ~results'[j].ok
      <4> SUFFICES ASSUME NEW j \in DOMAIN results', j < i - 1 PROVE ~results'[j].ok
        OBVIOUS
      <4>1. j + 1 \in DOMAIN results /\ j + 1 < i /\ results'[j] = results[j + 1]
        BY <2>3
      <4> QED
        BY <4>1, <3>1
    <3> QED
      BY <2>1, <2>2, <2>5, <3>1, <3>3, <3>4 DEF FirstFits
  <2> QED
    BY <2>4, <2>5
<1>3. CASE Update!ReceiveWinner
  <2>1. /\ step = "race" /\ results # <<>> /\ results' = Tail(results) /\ Update!Result.ok
        /\ winner' = Update!Result.cand /\ UNCHANGED whole
    BY <1>3 DEF Update!ReceiveWinner
  <2>2. winner = Nothing
    BY <2>1, <1>b DEF RaceFits
  <2>3. /\ Update!Result = results[1] /\ Len(results) \in Nat \ {0} /\ 1 \in DOMAIN results
        /\ DOMAIN results = 1 .. Len(results) /\ Update!Result.cand \in Update!Cands
    BY <2>1, <1>a, QueueRead
  <2>4. whole # Nothing
    BY <2>1, <2>2, <2>3, <1>b DEF FirstFits
  <2>5. PICK i \in DOMAIN results :
           /\ results[i].ok /\ results[i].cand = whole
           /\ \A j \in DOMAIN results : j < i => ~results[j].ok
    BY <2>1, <2>2, <2>4, <1>b DEF FirstFits
  <2>6. i = 1
    <3>1. ~(1 < i)
      BY <2>1, <2>3, <2>5
    <3> QED
      BY <3>1, <2>3
  <2> QED
    BY <2>1, <2>3, <2>5, <2>6, <1>a DEF FirstFits
<1>4. CASE Update!Drain
  <2>1. step = "drain" /\ UNCHANGED <<winner, whole>>
    BY <1>4 DEF Update!Drain
  <2>2. winner # Nothing
    BY <2>1, <1>b DEF RaceFits
  <2> QED
    BY <2>1, <2>2, <1>b DEF FirstFits
<1>5. CASE Update!Stop
  <2>1. step' = "stopped" /\ UNCHANGED <<winner, whole>>
    BY <1>5 DEF Update!Stop
  <2> QED
    BY <2>1, <1>b DEF FirstFits
<1>6. ASSUME NEW c \in Update!Cands, Update!Goroutine(c)
      PROVE  FirstFits'
  <2>1. ASSUME NEW ok \in BOOLEAN, worker[c] \in {"asking", "copying"}, Update!Sends(c, ok),
               UNCHANGED <<step, winner>>,
               whole' = IF ok /\ whole = Nothing THEN c ELSE whole
        PROVE  FirstFits'
    <3>1. /\ Len(results) \in Nat
          /\ DOMAIN results = 1 .. Len(results)
          /\ DOMAIN results' = 1 .. Len(results) + 1
          /\ \A i \in DOMAIN results : results'[i] = results[i]
          /\ results'[Len(results) + 1] = [cand |-> c, ok |-> ok]
      <4>1. results' = Append(results, [cand |-> c, ok |-> ok])
        BY <2>1 DEF Update!Sends
      <4> QED
        BY <4>1, <1>a, QueueSend
    <3>2. \A i \in DOMAIN results' : i \in DOMAIN results \/ i = Len(results) + 1
      BY <3>1
    <3>3. CASE winner # Nothing
      <4>1. winner = whole
        BY <3>3, <1>b DEF FirstFits
      <4> QED
        BY <4>1, <3>3, <2>1 DEF FirstFits
    <3>4. CASE step = "stopped" /\ winner = Nothing
      BY <3>4, <2>1 DEF FirstFits
    <3>5. CASE step # "stopped" /\ winner = Nothing /\ whole = Nothing
      <4>1. \A i \in DOMAIN results : ~results[i].ok
        BY <3>5, <1>b DEF FirstFits
      <4>2. CASE ~ok
        <5>1. \A i \in DOMAIN results' : ~results'[i].ok
          BY <3>1, <3>2, <4>1, <4>2
        <5> QED
          BY <5>1, <4>2, <3>5, <2>1 DEF FirstFits
      <4>3. CASE ok
        <5> DEFINE n == Len(results) + 1
        <5>1. n \in DOMAIN results' /\ results'[n].ok /\ results'[n].cand = c
          BY <3>1, <4>3
        <5>2. \A j \in DOMAIN results' : j < n => ~results'[j].ok
          BY <3>1, <3>2, <4>1
        <5>3. whole' = c /\ winner' = Nothing /\ c # Nothing
          BY <2>1, <4>3, <3>5, <1>a
        <5> HIDE DEF n
        <5> QED
          BY <5>1, <5>2, <5>3 DEF FirstFits
      <4> QED
        BY <4>2, <4>3
    <3>6. CASE step # "stopped" /\ winner = Nothing /\ whole # Nothing
      <4>1. PICK i \in DOMAIN results :
               /\ results[i].ok /\ results[i].cand = whole
               /\ \A j \in DOMAIN results : j < i => ~results[j].ok
        BY <3>6, <1>b DEF FirstFits
      <4>2. i \in DOMAIN results' /\ results'[i] = results[i] /\ i < Len(results) + 1
        BY <3>1
      <4>3. \A j \in DOMAIN results' : j < i => ~results'[j].ok
        BY <3>1, <3>2, <4>1, <4>2
      <4> QED
        BY <4>1, <4>2, <4>3, <3>6, <2>1 DEF FirstFits
    <3> QED
      BY <3>3, <3>4, <3>5, <3>6
  <2>2. CASE Update!PartCreate(c)
    <3>1. UNCHANGED <<step, results, winner, whole>>
      BY <2>2 DEF Update!PartCreate
    <3> QED
      BY <3>1, <1>b DEF FirstFits
  <2>3. CASE Update!RequestFails(c)
    BY <2>1, <2>3 DEF Update!RequestFails
  <2>4. CASE Update!CopyFails(c)
    BY <2>1, <2>4 DEF Update!CopyFails
  <2>5. CASE Update!CopyDone(c)
    <3>1. PICK served \in {"good", "bad"} :
            /\ whole' = IF Update!Verified(served) /\ whole = Nothing THEN c ELSE whole
            /\ Update!Sends(c, Update!Verified(served))
      BY <2>5 DEF Update!CopyDone
    <3>2. Update!Verified(served) \in BOOLEAN
      BY DEF Update!Verified
    <3>3. worker[c] = "copying" /\ UNCHANGED <<step, winner>>
      BY <2>5 DEF Update!CopyDone
    <3> QED
      BY <2>1, <3>1, <3>2, <3>3
  <2> QED
    BY <1>6, <2>2, <2>3, <2>4, <2>5 DEF Update!Goroutine
<1>7. CASE \/ Update!ReleaseFails \/ Update!ReleaseRead \/ Update!ManifestFails
           \/ Update!ManifestRead \/ Update!RaceBegin \/ Update!ReplaceFails
           \/ Update!PackageRemove \/ Update!PackageRename \/ Update!Install
           \/ Update!UnpackFile \/ Update!UnpackFails \/ Update!Stage
           \/ Update!ScriptStart \/ Update!Script
  <2>1. /\ UNCHANGED <<results, winner, whole>>
        /\ step = "stopped" => UNCHANGED step
    BY <1>7
    DEF Update!ReleaseFails, Update!ReleaseRead, Update!ManifestFails, Update!ManifestRead,
        Update!RaceBegin, Update!ReplaceFails, Update!PackageRemove, Update!PackageRename,
        Update!Install, Update!UnpackFile, Update!UnpackFails, Update!Stage,
        Update!ScriptStart, Update!Script, Update!ScriptMove, Update!ScriptCopy,
        Update!ScriptLaunch, Update!ScriptRemove, Update!race
  <2> QED
    BY <2>1, <1>b DEF FirstFits
<1> QED
  BY <1>2, <1>3, <1>4, <1>5, <1>6, <1>7 DEF Update!Next, Update!UpdateCommand

\* The release, the script and the package that is unpacked.
LEMMA InstallStep ==
    ASSUME UpdateInv, Update!Next
    PROVE  /\ Newer' /\ ScriptFits'
           /\ Update!InstallsChecked' /\ Update!KeepsAProgram'
<1>a. Newer /\ ScriptFits /\ Update!InstallsChecked /\ Update!KeepsAProgram
  BY DEF UpdateInv
<1> USE DEF Newer, Begun, ScriptFits, Update!InstallsChecked, Update!KeepsAProgram,
            Update!Answer
<1>1. CASE Update!ReleaseFails
  BY <1>a, <1>1 DEF Update!ReleaseFails, Update!choice, Update!race, Update!install
<1>2. CASE Update!ReleaseRead
  <2>1. /\ step = "idle" /\ tag' \in Tags /\ UNCHANGED <<package, staged, script, exe>>
        /\ \/ step' = "latest"
           \/ Update!CompareVersions(tag', Current) = 1 /\ step' \in {"manifest", "race"}
    BY <1>2 DEF Update!ReleaseRead, Update!race, Update!install
  <2>2. Update!CompareVersions(tag, Current)' = Update!CompareVersions(tag', Current)
    OBVIOUS
  <2>3. Newer'
    BY <2>1, <2>2
  <2> QED
    BY <2>1, <2>3, <1>a
<1>3. CASE Update!ManifestFails
  BY <1>a, <1>3 DEF Update!ManifestFails, Update!race, Update!install
<1>4. CASE Update!ManifestRead
  BY <1>a, <1>4 DEF Update!ManifestRead, Update!race, Update!install
<1>5. CASE \/ Update!RaceBegin \/ Update!ReceiveError \/ Update!ReceiveWinner
           \/ Update!ReplaceFails \/ Update!PackageRemove \/ Update!PackageRename
           \/ Update!Drain
  <2>1. /\ step \in {"race", "replace", "rename", "drain"}
        /\ step' \in {"race", "replace", "rename", "drain", "verify", "failed", "dropped"}
        /\ UNCHANGED <<tag, asset, staged, script, exe>>
    BY <1>5
    DEF Update!RaceBegin, Update!ReceiveError, Update!ReceiveWinner, Update!ReplaceFails,
        Update!PackageRemove, Update!PackageRename, Update!Drain, Update!choice,
        Update!install
  <2> QED
    BY <2>1, <1>a
<1>6. CASE Update!Install
  <2>1. /\ step = "verify" /\ step' \in {"failed", "manual", "unpack"}
        /\ UNCHANGED <<tag, asset, package, staged, script, exe>>
        /\ step' = "unpack" => Update!Verified(package)
    BY <1>6 DEF Update!Install, Update!choice, Update!race
  <2> QED
    BY <2>1, <1>a DEF Update!Verified
<1>7. CASE Update!UnpackFile \/ Update!UnpackFails
  <2>1. /\ step \in {"unpack", "stage"} /\ step' \in {step, "failed"}
        /\ UNCHANGED <<tag, asset, package, staged, script, exe>>
    BY <1>7
    DEF Update!UnpackFile, Update!UnpackFails, Update!choice, Update!race, Update!install
  <2> QED
    BY <2>1, <1>a
<1>8. CASE Update!Stage
  BY <1>a, <1>8 DEF Update!Stage, Update!choice, Update!race
<1>9. CASE Update!ScriptStart
  BY <1>a, <1>9 DEF Update!ScriptStart, Update!Started, Update!choice, Update!race
<1>10. CASE Update!Script
  <2>1. /\ script \in {"mv", "copy", "launch", "rm"} /\ UNCHANGED <<step, tag, asset>>
    BY <1>10
    DEF Update!Script, Update!ScriptMove, Update!ScriptCopy, Update!ScriptLaunch,
        Update!ScriptRemove, Update!choice
  <2>2. step \in {"restart_pending", "stopped"}
    BY <2>1, <1>a
  <2>3. Newer' /\ Update!InstallsChecked'
    BY <2>1, <2>2, <1>a
  <2> QED
    BY <2>1, <2>2, <2>3, <1>a, <1>10
    DEF Update!Script, Update!ScriptMove, Update!ScriptCopy, Update!ScriptLaunch,
        Update!ScriptRemove
<1>11. CASE Update!Stop
  BY <1>a, <1>11 DEF Update!Stop, Update!choice
<1>12. ASSUME NEW c \in Update!Cands, Update!Goroutine(c)
       PROVE  UNCHANGED <<step, tag, asset, package, staged, script, exe>>
  BY <1>12
  DEF Update!Goroutine, Update!RequestFails, Update!PartCreate, Update!CopyFails,
      Update!CopyDone, Update!choice, Update!install
<1>13. CASE \E c \in Update!Cands : Update!Goroutine(c)
  BY <1>a, <1>12, <1>13
<1> QED
  BY <1>1, <1>2, <1>3, <1>4, <1>5, <1>6, <1>7, <1>8, <1>9, <1>10, <1>11, <1>13
  DEF Update!Next, Update!UpdateCommand

\* The types, the number of errors and the bytes unpacked among them.
LEMMA UpdateTypesStep == ASSUME UpdateInv, RaceFits', Update!Next PROVE UpdateTypes'
<1>a. UpdateTypes /\ RaceFits /\ ScriptFits
  BY DEF UpdateInv
<1>b. /\ Mirrors \in Nat \ {0} /\ MaxEntry \in Nat /\ MaxTotal \in Nat /\ Sizes \subseteq Nat
      /\ Nothing \notin Update!Cands
  BY UpdateNumbers
<1>c. /\ asked \in 0 .. Mirrors /\ errs \in 0 .. Mirrors /\ results \in Queue
      /\ files \in [Update!Cands -> Update!Contents] /\ package \in Update!Contents
  BY <1>a DEF UpdateTypes, Update!TypeOK
<1>1. results' \in Queue => Len(results') <= Mirrors'
  <2> SUFFICES ASSUME results' \in Queue PROVE Len(results') <= Mirrors
    OBVIOUS
  <2>1. \A i, j \in DOMAIN results' : results'[i].cand = results'[j].cand => i = j
    BY DEF RaceFits
  <2> QED
    BY <2>1, QueueBound
<1> USE DEF UpdateTypes, Update!TypeOK, Update!Answers, Update!Answer
<1>2. CASE Update!ReleaseFails
  BY <1>a, <1>2 DEF Update!ReleaseFails, Update!choice, Update!race, Update!install
<1>3. CASE Update!ReleaseRead
  <2>1. /\ asset' \in {asset, Update!DefaultAsset} /\ asked' \in {asked, 1}
        /\ step' \in {"latest", "manifest", "race"}
        /\ UNCHANGED <<worker, results, errs, winner, files, package, whole, unpacked, staged,
                       exe>>
    BY <1>3 DEF Update!ReleaseRead, Update!race, Update!install
  <2>2. asked' \in 0 .. Mirrors
    BY <2>1, <1>b, <1>c
  <2> QED
    BY <2>1, <2>2, <1>a
<1>4. CASE Update!ManifestFails
  <2>1. /\ asked' \in {asked, asked + 1} /\ (asked = Mirrors => asked' = asked)
        /\ step' \in {"manifest", "failed"}
        /\ UNCHANGED <<asset, worker, results, errs, winner, files, package, whole, unpacked,
                       staged, exe>>
    BY <1>4 DEF Update!ManifestFails, Update!race, Update!install
  <2>2. asked' \in 0 .. Mirrors
    BY <2>1, <1>b, <1>c
  <2> QED
    BY <2>1, <2>2, <1>a
<1>5. CASE Update!ManifestRead
  <2>1. asset' \in Assets \cup {asset}
    <3>1. PICK x1 \in Assets, x2 \in Assets :
             LET list == <<x1, x2>>
                 match == Update!MatchManifestAsset(list)
             IN  IF match = {} THEN step' = "failed" /\ UNCHANGED asset
                 ELSE step' = "race" /\ \E i \in match : asset' = list[i]
      BY <1>5 DEF Update!ManifestRead
    <3>2. Update!MatchManifestAsset(<<x1, x2>>) \subseteq {1, 2}
      BY DEF Update!MatchManifestAsset
    <3> QED
      BY <3>1, <3>2
  <2>2. /\ step' \in {"failed", "race"}
        /\ UNCHANGED <<asked, worker, results, errs, winner, files, package, whole, unpacked,
                       staged, exe>>
    BY <1>5 DEF Update!ManifestRead, Update!race, Update!install
  <2> QED
    BY <2>1, <2>2, <1>a
<1>6. CASE Update!RaceBegin
  BY <1>a, <1>6 DEF Update!RaceBegin, Update!choice, Update!install
<1>7. CASE Update!ReceiveError \/ Update!Drain
  <2>1. CASE UNCHANGED <<results, errs, files>>
    BY <2>1, <1>a, <1>7 DEF Update!ReceiveError, Update!Drain, Update!choice, Update!install
  <2>2. CASE /\ results # <<>> /\ results' = Tail(results) /\ errs' = errs + 1
             /\ files' = [files EXCEPT ![Update!Result.cand] = Nothing]
    <3>1. /\ step \in {"race", "drain"} /\ step' \in {step, "failed"}
          /\ UNCHANGED <<asset, asked, worker, winner, package, whole, unpacked, staged, exe>>
      BY <1>7, <2>2 DEF Update!ReceiveError, Update!Drain, Update!choice, Update!install
    <3>2. results' \in Queue
      BY <2>2, <1>c, QueueRead
    <3>3. errs' \in 0 .. Mirrors
      <4>1. /\ Cardinality(Received') = Cardinality(Received) + 1
            /\ Cardinality(Received') \in 0 .. Mirrors /\ Cardinality(Received) \in Nat
        BY <2>2, <3>1, Receives
      <4>2. Cardinality(Received) >= errs
        BY <3>1, <1>a, <1>c DEF RaceFits
      <4> QED
        BY <4>1, <4>2, <2>2, <1>b, <1>c
    <3>4. files' \in [Update!Cands -> Update!Contents]
      BY <2>2, <1>c DEF Update!Contents
    <3> QED
      BY <3>1, <3>2, <3>3, <3>4, <1>1, <1>a
  <2> QED
    BY <2>1, <2>2, <1>7 DEF Update!ReceiveError, Update!Drain, Update!Removed
<1>8. CASE Update!ReceiveWinner
  <2>1. /\ step' = "replace" /\ results # <<>> /\ results' = Tail(results)
        /\ winner' = Update!Result.cand
        /\ UNCHANGED <<asset, asked, worker, errs, files, package, whole, unpacked, staged, exe>>
    BY <1>8 DEF Update!ReceiveWinner, Update!choice, Update!install
  <2>2. results' \in Queue /\ winner' \in Update!Cands
    BY <2>1, <1>c, QueueRead
  <2> QED
    BY <2>1, <2>2, <1>1, <1>a
<1>9. CASE Update!ReplaceFails \/ Update!PackageRemove \/ Update!PackageRename
  <2>1. /\ files' \in {files, [files EXCEPT ![winner] = Nothing]}
        /\ step \in {"replace", "rename"} /\ step' \in {"dropped", "rename", "drain"}
        /\ package' \in {package, Nothing, files[winner]}
        /\ UNCHANGED <<asset, asked, worker, results, errs, winner, whole, unpacked, staged, exe>>
    BY <1>9
    DEF Update!ReplaceFails, Update!PackageRemove, Update!PackageRename, Update!choice,
        Update!install
  <2>2. winner \in Update!Cands
    BY <2>1, <1>a DEF RaceFits
  <2>3. files' \in [Update!Cands -> Update!Contents] /\ package' \in Update!Contents
    BY <2>1, <2>2, <1>c DEF Update!Contents
  <2> QED
    BY <2>1, <2>3, <1>a
<1>10. CASE Update!Install
  <2>1. CASE UNCHANGED unpacked /\ step' # "unpack"
    BY <2>1, <1>a, <1>10 DEF Update!Install, Update!race, Update!choice
  <2>2. CASE step' = "unpack" /\ \E left \in Update!Packages :
                unpacked' = [Update!NoUnpack EXCEPT !.left = left]
    <3>1. PICK left \in Update!Packages : unpacked' = [Update!NoUnpack EXCEPT !.left = left]
      BY <2>2
    <3>2. unpacked'.total = 0 /\ unpacked'.left = left
      BY <3>1 DEF Update!NoUnpack
    <3>3. left \in Seq([size : Sizes, program : BOOLEAN])
      <4> DEFINE S == [size : Sizes, program : BOOLEAN]
      <4>1. PICK n \in 0 .. MaxFiles : left \in [1 .. n -> S]
        BY DEF Update!Packages
      <4>2. n \in Nat
        OBVIOUS
      <4> HIDE DEF S
      <4>3. left \in Seq(S)
        BY <4>1, <4>2, SeqDef
      <4> QED
        BY <4>3 DEF S
    <3>4. UNCHANGED <<asset, asked, worker, results, errs, winner, files, package, whole, staged,
                      exe>>
      BY <1>10 DEF Update!Install, Update!race, Update!choice
    <3> QED
      BY <2>2, <3>2, <3>3, <3>4, <1>a, <1>b
  <2> QED
    BY <2>1, <2>2, <1>10 DEF Update!Install
<1>11. CASE Update!UnpackFile
  <2>1. step = "unpack" /\ unpacked.left # <<>> /\ step' \in {"unpack", "failed"}
        /\ UNCHANGED <<asset, asked, worker, results, errs, winner, files, package, whole, staged,
                       exe>>
    BY <1>11 DEF Update!UnpackFile, Update!race, Update!choice
  <2>2. CASE UNCHANGED unpacked
    BY <2>1, <2>2, <1>a
  <2> DEFINE f == Head(unpacked.left)
  <2>3. ASSUME Update!FitsEntry(f),
               unpacked' = [left |-> Tail(unpacked.left), total |-> unpacked.total + f.size,
                            found |-> unpacked.found + IF f.program THEN 1 ELSE 0],
               Update!FitsTotal(unpacked.total + f.size) \/ step' = "failed"
        PROVE  UpdateTypes'
    <3>0. /\ Update!FitsEntry(Head(unpacked.left))
          /\ unpacked'.left = Tail(unpacked.left)
          /\ unpacked'.total = unpacked.total + Head(unpacked.left).size
          /\ Update!FitsTotal(unpacked'.total) \/ step' = "failed"
      BY <2>3
    <3>1. /\ Head(unpacked.left) \in [size : Sizes, program : BOOLEAN]
          /\ Tail(unpacked.left) \in Seq([size : Sizes, program : BOOLEAN])
      <4> DEFINE S == [size : Sizes, program : BOOLEAN]
      <4>1. unpacked.left \in Seq(S)
        BY <1>a
      <4> HIDE DEF S
      <4>2. Head(unpacked.left) \in S /\ Tail(unpacked.left) \in Seq(S)
        BY <4>1, <2>1, HeadTailProperties
      <4> QED
        BY <4>2 DEF S
    <3>2. Head(unpacked.left).size \in Nat /\ Head(unpacked.left).size <= MaxEntry
      BY <3>1, <3>0, <1>b DEF Update!FitsEntry
    <3>3. unpacked.total \in Nat /\ unpacked.total <= MaxTotal
      BY <2>1, <1>a
    <3>4. /\ unpacked'.total \in Nat /\ unpacked'.total <= MaxTotal + MaxEntry
          /\ step' = "unpack" => unpacked'.total <= MaxTotal
      BY <3>2, <3>3, <3>0, <1>b DEF Update!FitsTotal
    <3> QED
      BY <2>1, <3>0, <3>1, <3>4, <1>a
  <2> QED
    <3>1. \/ UNCHANGED unpacked
          \/ /\ Update!FitsEntry(f)
             /\ unpacked' = [left |-> Tail(unpacked.left), total |-> unpacked.total + f.size,
                             found |-> unpacked.found + IF f.program THEN 1 ELSE 0]
             /\ Update!FitsTotal(unpacked.total + f.size) \/ step' = "failed"
      BY <1>11, Zenon DEF Update!UnpackFile
    <3> HIDE DEF UpdateTypes, f
    <3> QED
      BY <3>1, <2>2, <2>3
<1>12. CASE Update!UnpackFails
  BY <1>a, <1>12 DEF Update!UnpackFails, Update!choice, Update!race, Update!install
<1>13. CASE Update!Stage
  BY <1>a, <1>13 DEF Update!Stage, Update!choice, Update!race
<1>14. CASE Update!ScriptStart
  BY <1>a, <1>14 DEF Update!ScriptStart, Update!Started, Update!choice, Update!race
<1>15. CASE Update!Script
  <2>1. /\ UNCHANGED <<step, asset, asked, worker, results, errs, winner, files, whole, unpacked>>
        /\ package' \in {package, Nothing}
    BY <1>15
    DEF Update!Script, Update!ScriptMove, Update!ScriptCopy, Update!ScriptLaunch,
        Update!ScriptRemove, Update!choice, Update!race
  <2>2. exe' \in {"old", "new", "partial"} /\ staged' \in {Nothing, "new"}
    BY <1>15, <1>a
    DEF ScriptFits, Update!Script, Update!ScriptMove, Update!ScriptCopy, Update!ScriptLaunch,
        Update!ScriptRemove
  <2>3. package' \in Update!Contents
    BY <2>1, <1>c DEF Update!Contents
  <2> QED
    BY <2>1, <2>2, <2>3, <1>a
<1>16. CASE Update!Stop
  <2>1. /\ step' = "stopped" /\ results' = <<>> /\ worker' = [c \in Update!Cands |-> "none"]
        /\ UNCHANGED <<asset, asked, errs, winner, files, package, whole, unpacked, staged, exe>>
    BY <1>16 DEF Update!Stop, Update!choice
  <2>2. results' \in Queue
    BY <2>1, EmptySeq DEF Queue
  <2> QED
    BY <2>1, <2>2, <1>1, <1>a
<1>17. ASSUME NEW c \in Update!Cands, Update!Goroutine(c)
       PROVE  UpdateTypes'
  <2>1. UNCHANGED <<step, asset, asked, errs, winner, package, unpacked, staged, exe>>
    BY <1>17
    DEF Update!Goroutine, Update!RequestFails, Update!PartCreate, Update!CopyFails,
        Update!CopyDone, Update!choice, Update!install
  <2>2. /\ worker' \in [Update!Cands -> {"none", "asking", "copying", "over"}]
        /\ results' \in Queue
    <3>1. CASE Update!PartCreate(c)
      BY <3>1, <1>a, <1>c DEF Update!PartCreate
    <3>2. CASE \E ok \in BOOLEAN : Update!Sends(c, ok)
      <4>1. PICK ok \in BOOLEAN : Update!Sends(c, ok)
        BY <3>2
      <4>2. results' \in Queue
        BY <4>1, <1>c, QueueSend DEF Update!Sends
      <4> QED
        BY <4>1, <4>2, <1>a DEF Update!Sends
    <3>3. Update!CopyDone(c) => \E ok \in BOOLEAN : Update!Sends(c, ok)
      BY DEF Update!CopyDone, Update!Verified
    <3>4. Update!RequestFails(c) \/ Update!CopyFails(c) => \E ok \in BOOLEAN : Update!Sends(c, ok)
      BY DEF Update!RequestFails, Update!CopyFails
    <3> QED
      BY <3>1, <3>2, <3>3, <3>4, <1>17 DEF Update!Goroutine
  <2>3. /\ files' \in [Update!Cands -> Update!Contents]
        /\ whole' \in Update!Cands \cup {Nothing}
    <3>1. \/ UNCHANGED files
          \/ \E content \in Update!Contents : files' = [files EXCEPT ![c] = content]
      BY <1>17
      DEF Update!Goroutine, Update!RequestFails, Update!PartCreate, Update!CopyFails,
          Update!CopyDone, Update!Contents
    <3>2. whole' \in {whole, c}
      BY <1>17
      DEF Update!Goroutine, Update!RequestFails, Update!PartCreate, Update!CopyFails,
          Update!CopyDone
    <3> QED
      BY <3>1, <3>2, <1>a, <1>c
  <2> QED
    BY <2>1, <2>2, <2>3, <1>1, <1>a
<1> QED
  BY <1>2, <1>3, <1>4, <1>5, <1>6, <1>7, <1>8, <1>9, <1>10, <1>11, <1>12, <1>13, <1>14, <1>15,
     <1>16, <1>17
  DEF Update!Next, Update!UpdateCommand

LEMMA UpdateInit == ASSUME Update!Init PROVE UpdateInv
<1>1. /\ Mirrors \in Nat \ {0} /\ MaxEntry \in Nat /\ MaxTotal \in Nat
      /\ IsFiniteSet(Update!Cands) /\ Nothing \notin Update!Cands
  BY UpdateNumbers
<1> USE DEF Update!Init
<1>2. Received = {} /\ Cardinality({}) = 0 /\ DOMAIN results = {}
  BY FS_EmptySet DEF Received
<1>3. results \in Queue /\ Len(results) = 0
  BY EmptySeq DEF Queue
<1>4. <<>> \in Seq([size : Sizes, program : BOOLEAN])
  BY EmptySeq
<1>5. UpdateTypes
  <2>1. unpacked.total = 0 /\ unpacked.left = <<>>
    BY DEF Update!NoUnpack
  <2>2. files \in [Update!Cands -> Update!Contents] /\ package \in Update!Contents
    BY DEF Update!Contents
  <2> QED
    BY <1>1, <1>3, <1>4, <2>1, <2>2 DEF UpdateTypes, Update!TypeOK
<1>6. RaceFits
  BY <1>1, <1>2 DEF RaceFits, After
<1>7. FirstFits
  BY <1>1, <1>2 DEF FirstFits
<1>8. Newer /\ ScriptFits /\ Update!InstallsChecked /\ Update!KeepsAProgram
  BY DEF Newer, Begun, ScriptFits, Update!InstallsChecked, Update!KeepsAProgram
<1> QED
  BY <1>5, <1>6, <1>7, <1>8 DEF UpdateInv

LEMMA UpdateStays == ASSUME UpdateInv, UNCHANGED updateVars PROVE UpdateInv'
  BY DEF updateVars, UpdateInv, UpdateTypes, Update!TypeOK, Update!Answers, Newer, ScriptFits,
         RaceFits, Received, FirstFits, Update!InstallsChecked, Update!KeepsAProgram

\* A package with a known sum is unpacked only with that sum, the race of the
\* mirrors is won by the first whole package and leaves no rest, only a newer
\* release is fetched, and the old or the new program is there at every moment
\* (update.go:93-382, 489-534).
THEOREM UpdateKept == Spec => []UpdateSafe
<1> DEFINE Inv == part = "update" => UpdateInv
<1>1. Init => Inv
  BY UpdateInit DEF Init
<1>2. Inv /\ [Next]_vars => Inv'
  <2> SUFFICES ASSUME Inv, [Next]_vars, part' = "update" PROVE UpdateInv'
    OBVIOUS
  <2>1. part = "update" /\ UpdateInv
    BY PartSteps
  <2>2. CASE Update!Next
    <3>1. RaceFits'
      BY <2>1, <2>2, RaceStep
    <3>2. UpdateTypes'
      BY <2>1, <2>2, <3>1, UpdateTypesStep
    <3> QED
      BY <2>1, <2>2, <3>1, <3>2, FirstStep, InstallStep DEF UpdateInv
  <2> QED
    BY <2>1, <2>2, PartSteps, UpdateStays
<1>3. Inv => UpdateSafe
  BY UpdateInvSafe DEF UpdateSafe
<1> QED
  BY <1>1, <1>2, <1>3, PTL DEF Spec

-----------------------------------------------------------------------------
(* The scheduler: the next due time.                                       *)

\* A number by its quotient and its rest, which are unique.
LEMMA Gap ==
    ASSUME NEW n \in Nat \ {0}, NEW p \in Int, NEW q \in Int, p < q
    PROVE  n * p + n <= n * q
<1>1. q - p - 1 \in Nat
  OBVIOUS
<1>2. n * (q - p - 1) >= 0
  BY <1>1
<1>3. n * (q - p - 1) = n * q - n * p - n
  OBVIOUS
<1> QED
  BY <1>2, <1>3

LEMMA QuotientAndRest ==
    ASSUME NEW n \in Nat \ {0}, NEW t \in Nat
    PROVE  /\ t \div n \in Int /\ t % n \in 0 .. n - 1
           /\ t = n * (t \div n) + (t % n)
  OBVIOUS

LEMMA RestIs ==
    ASSUME NEW n \in Nat \ {0}, NEW q \in Int, NEW r \in 0 .. n - 1, NEW t \in Nat,
           t = n * q + r
    PROVE  t % n = r
<1> DEFINE p == t \div n
           s == t % n
<1>1. p \in Int /\ s \in 0 .. n - 1 /\ t = n * p + s
  BY QuotientAndRest
<1> HIDE DEF p, s
<1>2. ~(p < q)
  <2> SUFFICES ASSUME p < q PROVE FALSE
    OBVIOUS
  <2>1. n * p + n <= n * q
    BY <1>1, Gap
  <2>2. n * p \in Int /\ n * q \in Int
    BY <1>1
  <2> QED
    BY <2>1, <2>2, <1>1
<1>3. ~(q < p)
  <2> SUFFICES ASSUME q < p PROVE FALSE
    OBVIOUS
  <2>1. n * q + n <= n * p
    BY <1>1, Gap
  <2>2. n * p \in Int /\ n * q \in Int
    BY <1>1
  <2> QED
    BY <2>1, <2>2, <1>1
<1>4. p = q
  BY <1>1, <1>2, <1>3
<1>5. s = r
  <2>1. n * q \in Int
    OBVIOUS
  <2> QED
    BY <2>1, <1>1, <1>4
<1> QED
  BY <1>5 DEF s

\* The least of a set of numbers.
LEMMA LeastNumber ==
    ASSUME NEW T, T \subseteq Nat, T # {}
    PROVE  Schedule!Min(T) \in T /\ \A t \in T : Schedule!Min(T) <= t
<1> DEFINE R == OpToRel(<, Nat)
<1>1. IsWellFoundedOn(R, Nat)
  BY NatLessThanWellFounded
<1>2. \A i, j \in Nat : <<i, j>> \in R <=> i < j
  BY DEF OpToRel
<1> HIDE DEF R
<1>3. PICK k \in T : \A t \in T : ~(<<t, k>> \in R)
  BY <1>1, WFMin
<1>4. ASSUME NEW t \in T PROVE k <= t
  <2>1. k \in Nat /\ t \in Nat
    OBVIOUS
  <2>2. ~(t < k)
    BY <1>2, <1>3, <2>1
  <2> QED
    BY <2>1, <2>2
<1> QED
  BY <1>4 DEF Schedule!Min

\* NextByDay is the first time after now that falls on tick d of a day.
LEMMA ByDay ==
    ASSUME Day \in Nat \ {0}, NEW now \in Nat, NEW d \in 0 .. Day - 1
    PROVE  /\ Schedule!NextByDay(now, d) \in Nat /\ Schedule!NextByDay(now, d) > now
           /\ Schedule!NextByDay(now, d) % Day = d
           /\ \A t \in now + 1 .. Schedule!NextByDay(now, d) - 1 : t % Day # d
<1> DEFINE q == now \div Day
           r == now % Day
           next == Schedule!NextByDay(now, d)
<1>1. q \in Int /\ r \in 0 .. Day - 1 /\ now = Day * q + r
  BY QuotientAndRest
<1>2. next = IF now - r + d > now THEN now - r + d ELSE now - r + d + Day
  BY DEF Schedule!NextByDay
<1> HIDE DEF q, r, next
<1>3. PICK e \in {q, q + 1} : next = Day * e + d
  <2>1. Day * q \in Int /\ Day * (q + 1) = Day * q + Day
    BY <1>1
  <2>2. now - r = Day * q
    BY <2>1, <1>1
  <2> QED
    BY <2>1, <2>2, <1>2
<1>4. next \in Nat /\ next > now
  BY <1>1, <1>2
<1>5. next % Day = d
  <2>1. e \in Int
    BY <1>1
  <2> QED
    BY <2>1, <1>3, <1>4, RestIs
<1>6. ASSUME NEW t \in now + 1 .. next - 1, t % Day = d PROVE FALSE
  <2>1. t \in Nat
    OBVIOUS
  <2> DEFINE p == t \div Day
  <2>2. p \in Int /\ t = Day * p + d
    BY <1>6, <2>1, QuotientAndRest
  <2> HIDE DEF p
  <2>a. e \in Int /\ Day * e \in Int /\ Day * p \in Int /\ Day * q \in Int
    BY <1>1, <2>2
  <2>3. t > now /\ t < next
    BY <1>4, <2>1
  <2>4. p < e
    <3> SUFFICES ASSUME ~(p < e) PROVE FALSE
      OBVIOUS
    <3>1. p = e \/ e < p
      BY <2>2, <2>a
    <3>2. Day * e <= Day * p
      BY <3>1, <2>2, <2>a, Gap
    <3> QED
      BY <3>2, <2>2, <2>3, <2>a, <1>3, <1>4
  <2>5. Day * p + Day <= Day * e
    BY <2>2, <2>4, <2>a, Gap
  <2>6. next <= now + Day
    BY <1>1, <1>2
  <2>7. t <= next - Day
    BY <2>2, <2>5, <2>a, <1>3
  <2> QED
    BY <2>3, <2>6, <2>7, <2>1, <1>4
<1> QED
  BY <1>4, <1>5, <1>6 DEF next

\* The time the intervals are counted from.
Since(now, last) == IF last = 0 THEN now ELSE last

\* NextByInterval is the first time after now that is a whole number of
\* intervals after the last run, or after now when there was none.
LEMMA ByInterval ==
    ASSUME NEW now \in Nat, NEW last \in Nat, last <= now, NEW i \in Nat \ {0}
    PROVE  LET next == Schedule!NextByInterval(now, last, i)
               base == Since(now, last)
           IN  /\ next \in Nat /\ next > now /\ next > base /\ (next - base) % i = 0
               /\ \A t \in now + 1 .. next - 1 : (t - base) % i # 0
<1> DEFINE next == Schedule!NextByInterval(now, last, i)
           base == Since(now, last)
           k == (now - base) \div i
           r == (now - base) % i
<1>1. /\ base = IF last = 0 THEN now ELSE last
      /\ base \in Nat /\ base <= now
  BY DEF Since
<1>2. k \in Int /\ r \in 0 .. i - 1 /\ now - base = i * k + r
  <2>1. now - base \in Nat
    BY <1>1
  <2> QED
    BY <2>1, QuotientAndRest
<1>3. next = base + i * (k + 1)
  <2>1. CASE last = 0
    <3>1. now - base = 0 /\ next = now + i
      BY <1>1, <2>1 DEF Schedule!NextByInterval
    <3>2. k = 0
      BY <3>1
    <3> HIDE DEF k
    <3> QED
      BY <3>1, <3>2, <1>1
  <2>2. CASE last # 0
    BY <1>1, <2>2 DEF Schedule!NextByInterval
  <2> QED
    BY <2>1, <2>2
<1> HIDE DEF next, base, k, r
<1>4. i * k \in Int /\ i * (k + 1) = i * k + i
  BY <1>2
<1>5. next > now /\ next > base /\ next \in Nat /\ next - base \in Nat
  BY <1>1, <1>2, <1>3, <1>4
<1>6. (next - base) % i = 0
  <2>1. next - base = i * (k + 1) + 0
    BY <1>1, <1>3, <1>4
  <2>2. k + 1 \in Int /\ 0 \in 0 .. i - 1
    BY <1>2
  <2> HIDE DEF next
  <2> QED
    BY <2>1, <2>2, <1>5, RestIs
<1>7. ASSUME NEW t \in now + 1 .. next - 1, (t - base) % i = 0 PROVE FALSE
  <2>1. t - base \in Nat /\ t - base > now - base /\ t - base < next - base
    BY <1>1, <1>5
  <2>2. PICK p \in Int : t - base = i * p
    <3>1. PICK u \in Nat : u = t - base
      BY <2>1
    <3> DEFINE q == u \div i
               z == u % i
    <3>2. q \in Int /\ u = i * q + z
      BY QuotientAndRest
    <3>3. z = 0
      BY <1>7, <3>1
    <3> HIDE DEF q, z
    <3>4. i * q \in Int
      BY <3>2
    <3>5. t - base = i * q
      BY <3>1, <3>2, <3>3, <3>4
    <3> QED
      BY <3>2, <3>5
  <2>a. i * p \in Int
    BY <2>2
  <2>3. p < k + 1
    <3> SUFFICES ASSUME ~(p < k + 1) PROVE FALSE
      OBVIOUS
    <3>1. p = k + 1 \/ k + 1 < p
      BY <1>2, <2>2
    <3>2. i * (k + 1) <= i * p
      BY <3>1, <1>2, <1>4, <2>2, <2>a, Gap
    <3> QED
      BY <3>2, <2>1, <2>2, <2>a, <1>1, <1>3, <1>4
  <2>4. i * p <= i * k
    <3>1. p = k \/ p < k
      BY <2>2, <2>3, <1>2
    <3> QED
      BY <3>1, <1>2, <1>4, <2>2, <2>a, Gap
  <2> QED
    BY <2>1, <2>2, <2>4, <2>a, <1>1, <1>2, <1>4
<1> QED
  BY <1>5, <1>6, <1>7 DEF next, base

\* Whether a configuration asks for runs at all.
Wanted(c) == c.enabled /\ (c.interval > 0 \/ c.daily # {})

\* The next run of a configuration that asks for runs is the first time after
\* now that one of its rules names.
LEMMA NextRun ==
    ASSUME NEW c \in RunConfigs, NEW now \in Nat \ {0}, NEW last \in Nat, last <= now
    PROVE  LET next == Schedule!NextSchedulerRun(now, last, c)
               base == Since(now, last)
           IN  /\ next \in Nat /\ (next > 0 <=> Wanted(c))
               /\ next > 0 => /\ next > now /\ Schedule!IsDue(c, base, next)
                              /\ \A t \in now + 1 .. next - 1 : ~Schedule!IsDue(c, base, t)
<1> DEFINE next == Schedule!NextSchedulerRun(now, last, c)
           T == Schedule!Candidates(now, last, c)
           base == Since(now, last)
           byInterval == Schedule!NextByInterval(now, last, c.interval)
<1>1. /\ c.enabled \in BOOLEAN /\ c.interval \in Nat /\ c.daily \subseteq 0 .. Day - 1
      /\ Day \in Nat \ {0}
  BY ScheduleAssumption DEF Schedule!BoundsAssumption, Schedule!ConfigsAssumption
<1>2. c.interval > 0 =>
         /\ byInterval \in Nat /\ byInterval > now /\ byInterval > base
         /\ (byInterval - base) % c.interval = 0
         /\ \A t \in now + 1 .. byInterval - 1 : (t - base) % c.interval # 0
  <2> SUFFICES ASSUME c.interval > 0
               PROVE  /\ byInterval \in Nat /\ byInterval > now /\ byInterval > base
                      /\ (byInterval - base) % c.interval = 0
                      /\ \A t \in now + 1 .. byInterval - 1 : (t - base) % c.interval # 0
    OBVIOUS
  <2>1. PICK i \in Nat \ {0} : i = c.interval
    BY <1>1
  <2>2. LET that == Schedule!NextByInterval(now, last, i)
            from == Since(now, last)
        IN  /\ that \in Nat /\ that > now /\ that > from /\ (that - from) % i = 0
            /\ \A t \in now + 1 .. that - 1 : (t - from) % i # 0
    BY ByInterval
  <2> QED
    BY <2>1, <2>2
<1>3. \A d \in c.daily :
         /\ Schedule!NextByDay(now, d) \in Nat /\ Schedule!NextByDay(now, d) > now
         /\ Schedule!NextByDay(now, d) % Day = d
         /\ \A t \in now + 1 .. Schedule!NextByDay(now, d) - 1 : t % Day # d
  BY <1>1, ByDay
<1> HIDE DEF byInterval, base
<1>4. \A t : t \in T <=> \/ c.interval > 0 /\ t = byInterval
                         \/ \E d \in c.daily : t = Schedule!NextByDay(now, d)
  BY DEF Schedule!Candidates, byInterval
<1>5. next = IF c.enabled /\ T # {} THEN Schedule!Min(T) ELSE 0
  BY DEF Schedule!NextSchedulerRun
<1> HIDE DEF T, next
<1>6. T \subseteq Nat /\ \A t \in T : t > now
  BY <1>2, <1>3, <1>4
<1>7. T # {} <=> c.interval > 0 \/ c.daily # {}
  BY <1>4
<1>8. CASE ~Wanted(c)
  BY <1>5, <1>7, <1>8 DEF Wanted, next
<1>9. CASE Wanted(c)
  <2>1. next \in T /\ \A t \in T : next <= t
    BY <1>5, <1>6, <1>7, <1>9, LeastNumber DEF Wanted
  <2>2. next \in Nat /\ next > now
    BY <1>6, <2>1
  <2>3. Schedule!IsDue(c, base, next)
    <3>1. CASE c.interval > 0 /\ next = byInterval
      BY <3>1, <1>2 DEF Schedule!IsDue
    <3>2. CASE \E d \in c.daily : next = Schedule!NextByDay(now, d)
      BY <3>2, <1>3 DEF Schedule!IsDue
    <3> QED
      BY <2>1, <1>4, <3>1, <3>2
  <2>4. ASSUME NEW t \in now + 1 .. next - 1, Schedule!IsDue(c, base, t) PROVE FALSE
    <3>1. CASE t % Day \in c.daily
      <4> DEFINE day == Schedule!NextByDay(now, t % Day)
      <4>1. day \in T
        BY <3>1, <1>4
      <4>2. /\ day \in Nat /\ \A u \in now + 1 .. day - 1 : u % Day # t % Day
        BY <3>1, <1>3
      <4>3. next <= day
        BY <4>1, <2>1
      <4> HIDE DEF day
      <4>4. t \in now + 1 .. day - 1
        BY <4>2, <4>3, <2>2
      <4> QED
        BY <4>2, <4>4
    <3>2. CASE c.interval > 0 /\ (t - base) % c.interval = 0
      <4>1. byInterval \in T /\ byInterval \in Nat
        BY <3>2, <1>2, <1>4
      <4>2. t \in now + 1 .. byInterval - 1
        BY <4>1, <2>1, <2>2
      <4> QED
        BY <4>2, <3>2, <1>2
    <3> QED
      BY <2>4, <3>1, <3>2 DEF Schedule!IsDue
  <2> QED
    BY <1>9, <2>2, <2>3, <2>4 DEF next, base
<1> QED
  BY <1>8, <1>9

-----------------------------------------------------------------------------
(* The scheduler: one status file, one loop, one saver and one run.        *)

LoopRecs ==
    [pc : {"none", "load", "arm", "wait", "want", "run", "note", "noting", "over"},
     cfg : RunConfigs \cup {Schedule!NoneConfig}, cancelled : BOOLEAN, st : Schedule!Statuses,
     at : 0 .. MaxTime, base : 0 .. MaxTime, fire : Nat]
SaverRecs ==
    [pc : {"idle", "discard", "refresh", "write", "stop", "refresh2", "write2", "start",
           "bad", "badWrite"},
     cfg : RunConfigs \cup {Schedule!NoneConfig}, st : Schedule!Statuses]
RunRecs ==
    [pc : {"idle", "write", "decide", "probe", "probing", "upload"},
     owner : Schedule!Loops \cup {NoLoop, Command}, cfg : RunConfigs \cup {Schedule!NoneConfig},
     st : Schedule!Statuses, at : 0 .. MaxTime, then : {"over", "decide"}, ok : BOOLEAN]

ScheduleTypes ==
    /\ clock \in 1 .. MaxTime
    /\ saved \in RunConfigs \cup {BadConfig}
    /\ runDraft \in RunConfigs \cup {NoConfig, BadConfig}
    /\ status \in Schedule!Statuses
    /\ handle \in Schedule!Loops \cup {NoLoop}
    /\ loop \in [Schedule!Loops -> LoopRecs]
    /\ saver \in [{s1} -> SaverRecs]
    /\ run \in RunRecs
    /\ runs \in 0 .. MaxRuns
    /\ collided \subseteq 1 .. runs

Told(st) == st.dns \in {"partial", "completed"} \/ st.github = "completed"

\* What is true of every copy of the status that may still be written: it is of
\* a run that has begun, and while that run goes on only its first writing.
Kept(st) ==
    /\ st \in Schedule!Statuses
    /\ st.lastRun <= clock
    /\ st.task <= runs
    /\ st.task \in collided => st.probe \in {"running", "skipped"}
    /\ Told(st) => st.task \in probed /\ st.probe = "completed"
    /\ run.pc # "idle" /\ st.task = runs => st.probe = "running"

KeptCopies ==
    /\ Kept(status)
    /\ Kept(saver[s1].st)
    /\ \A l \in Schedule!Loops : Kept(loop[l].st)

\* A loop has a configuration that asks for runs, sleeps until the first due
\* time after it looked, and is the one of the handle until it is told to stop.
LoopFits(l) ==
    /\ loop[l].pc = "none" => loop[l] = Schedule!Asleep
    /\ loop[l].pc \notin {"none", "over"} => loop[l].cfg \in RunConfigs /\ Wanted(loop[l].cfg)
    /\ loop[l].pc \in {"arm", "wait"} =>
         /\ loop[l].fire > loop[l].at
         /\ Schedule!IsDue(loop[l].cfg, loop[l].base, loop[l].fire)
         /\ \A t \in loop[l].at + 1 .. loop[l].fire - 1 :
              ~Schedule!IsDue(loop[l].cfg, loop[l].base, t)
    /\ Schedule!Serving(l) <=> handle = l

\* The only saver: the loops follow the saved configuration when it is through.
SaverFits ==
    /\ saver[s1].pc \in {"discard", "refresh", "write", "stop", "refresh2", "write2", "start"} =>
         saved \in RunConfigs /\ saver[s1].cfg = saved
    /\ saver[s1].pc \in {"bad", "badWrite"} => saved = BadConfig
    /\ saver[s1].pc \in {"refresh2", "write2", "start", "badWrite"} => handle = NoLoop
    /\ saver[s1].pc = "write2" => (saver[s1].st.next > 0 <=> Wanted(saved))
    /\ saver[s1].pc = "start" => Wanted(saved)
    /\ saver[s1].pc = "idle" => (handle # NoLoop <=> saved # BadConfig /\ Wanted(saved))

Under ==
    \/ run.pc \in {"decide", "probe", "probing", "upload"}
    \/ run.pc = "write" /\ run.then = "decide"

\* The run's own copy, which tells of its end only in the last writing.
RunFits ==
    /\ run.pc = "idle" => run = Schedule!NoRun
    /\ run.pc # "idle" =>
         /\ run.st.task = runs /\ runs > 0
         /\ run.at \in 1 .. clock /\ run.st.lastRun <= clock
         /\ run.owner \in Schedule!Loops \cup {Command}
         /\ run.owner \in Schedule!Loops => loop[run.owner].pc = "run"
    /\ Under =>
         /\ run.cfg \in RunConfigs /\ runs \notin collided
         /\ run.st.dns = "skipped" /\ run.st.github = "skipped"
         /\ run.pc = "upload" => run.st.probe = "completed" /\ runs \in probed
         /\ run.pc # "upload" => run.st.probe = "running"
    /\ run.pc = "write" /\ run.then # "decide" =>
         /\ runs \in collided => run.st.probe = "skipped"
         /\ Told(run.st) => runs \in probed /\ run.st.probe = "completed"

ScheduleInv ==
    /\ ScheduleTypes
    /\ KeptCopies
    /\ \A l \in Schedule!Loops : LoopFits(l)
    /\ SaverFits
    /\ RunFits

LEMMA ScheduleNumbers ==
    /\ Day \in Nat \ {0} /\ MaxTime \in Nat \ {0} /\ MaxLoops \in Nat \ {0} /\ MaxRuns \in Nat
    /\ NoLoop \notin Schedule!Loops /\ Command \notin Schedule!Loops /\ NoLoop # Command
    /\ BadConfig \notin RunConfigs
    /\ \A c \in RunConfigs : {c.enabled, c.dns, c.github, c.skip, c.draft} \subseteq BOOLEAN
  BY ScheduleAssumption DEF Schedule!BoundsAssumption, Schedule!NamesAssumption,
     Schedule!ConfigsAssumption

LEMMA BlankKept == ASSUME ScheduleTypes, RunFits PROVE Kept(Schedule!Blank)
<1> DEFINE b == Schedule!Blank
<1>1. b \in Schedule!Statuses
  BY DEF Schedule!Blank, Schedule!Statuses, Schedule!Probes, Schedule!Uploads, Schedule!Stages
<1>2. b.lastRun = 0 /\ b.task = 0 /\ b.dns = "" /\ b.github = ""
  BY DEF Schedule!Blank
<1> HIDE DEF b
<1>3. ~Told(b)
  <2>1. b.dns \notin {"partial", "completed"} /\ b.github # "completed"
    BY <1>2
  <2> QED
    BY <2>1 DEF Told
<1> QED
  <2>1. /\ clock \in Nat /\ runs \in Nat /\ 0 \notin collided
        /\ run.pc # "idle" => runs > 0
    BY ScheduleNumbers DEF ScheduleTypes, RunFits
  <2>2. /\ b.lastRun <= clock /\ b.task <= runs /\ b.task \notin collided
        /\ ~(run.pc # "idle" /\ b.task = runs)
    <3>1. 0 <= clock /\ 0 <= runs /\ (run.pc # "idle" => runs # 0)
      BY <2>1
    <3> QED
      BY <1>2, <2>1, <3>1, Zenon
  <2>3. Kept(b)
    BY <1>1, <1>3, <2>2, Zenon DEF Kept
  <2> QED
    BY <2>3 DEF b

LEMMA ScheduleInvSafe == ASSUME ScheduleInv PROVE Schedule!Safety
<1>1. Schedule!TypeOK
  <2>1. \A l \in Schedule!Loops : loop[l] \in LoopRecs
    BY DEF ScheduleInv, ScheduleTypes
  <2>2. saver[s1] \in SaverRecs
    BY DEF ScheduleInv, ScheduleTypes
  <2>3. \A l \in Schedule!Loops :
           /\ loop[l].pc \in {"none", "load", "arm", "wait", "want", "run", "note", "noting", "over"}
           /\ loop[l].cfg \in RunConfigs \cup {Schedule!NoneConfig}
           /\ {loop[l].at, loop[l].base} \subseteq 0 .. MaxTime
           /\ loop[l].st \in Schedule!Statuses
    BY <2>1 DEF LoopRecs
  <2>4. /\ run.pc \in {"idle", "write", "decide", "probe", "probing", "upload"}
        /\ run.st.task \in 0 .. MaxRuns
    <3>1. run \in RunRecs /\ run.st \in Schedule!Statuses
      BY DEF ScheduleInv, ScheduleTypes, RunRecs
    <3>2. CASE run.pc = "idle"
      <4>1. run = Schedule!NoRun
        BY <3>2 DEF ScheduleInv, RunFits
      <4>2. run.st.task = 0
        BY <4>1 DEF Schedule!NoRun, Schedule!Blank
      <4> QED
        BY <3>2, <4>2, ScheduleNumbers
    <3> QED
      BY <3>1, <3>2 DEF ScheduleInv, ScheduleTypes, RunFits, RunRecs
  <2>5. /\ saver[s1].pc \in {"idle", "discard", "refresh", "write", "stop", "refresh2", "write2",
                             "start", "bad", "badWrite"}
        /\ saver[s1].st \in Schedule!Statuses
    BY <2>2 DEF SaverRecs
  <2> QED
    BY <2>3, <2>4, <2>5 DEF Schedule!TypeOK, ScheduleInv, ScheduleTypes, KeptCopies, Kept
<1>2. Schedule!SleepsUntilDue
  BY DEF ScheduleInv, LoopFits, Schedule!SleepsUntilDue
<1>3. Schedule!OneLoop
  <2>a. saver[s1].pc = "idle" => (handle # NoLoop <=> saved # BadConfig /\ Wanted(saved))
    BY DEF ScheduleInv, SaverFits
  <2> DEFINE T == {l \in Schedule!Loops : Schedule!Serving(l)}
  <2>1. T \subseteq {handle}
    BY DEF ScheduleInv, LoopFits
  <2>2. Cardinality(T) <= 1
    <3>1. IsFiniteSet({handle}) /\ Cardinality({handle}) = 1
      BY FS_Singleton
    <3>2. Cardinality(T) <= Cardinality({handle})
      BY <2>1, <3>1, FS_Subset
    <3> QED
      BY <3>1, <3>2
  <2>3. (\E l \in Schedule!Loops : Schedule!Serving(l)) <=> handle # NoLoop
    BY ScheduleNumbers DEF ScheduleInv, ScheduleTypes, LoopFits
  <2>4. saved \in RunConfigs => (Schedule!NextSchedulerRun(1, 0, saved) > 0 <=> Wanted(saved))
    <3> SUFFICES ASSUME saved \in RunConfigs
                 PROVE  Schedule!NextSchedulerRun(1, 0, saved) > 0 <=> Wanted(saved)
      OBVIOUS
    <3>1. PICK c \in RunConfigs : c = saved
      OBVIOUS
    <3> QED
      BY <3>1, NextRun
  <2>5. saved # BadConfig => saved \in RunConfigs
    BY DEF ScheduleInv, ScheduleTypes
  <2>6. (\A p \in {s1} : saver[p].pc = "idle") =>
           ((\E l \in Schedule!Loops : Schedule!Serving(l))
              <=> (saved # BadConfig /\ Schedule!NextSchedulerRun(1, 0, saved) > 0))
    BY <2>a, <2>3, <2>4, <2>5
  <2>7. Schedule!Cardinality(T) <= 1
    BY <2>2 DEF Schedule!Cardinality, Cardinality
  <2> QED
    BY <2>6, <2>7 DEF Schedule!OneLoop
<1>4. Schedule!CollisionIsSkipped /\ Schedule!UploadsFollowAProbe
  <2>1. Kept(status) /\ status.github \in Schedule!Uploads \ {"partial"}
    BY DEF ScheduleInv, KeptCopies, Kept, Schedule!Statuses
  <2> QED
    BY <2>1 DEF Kept, Told, Schedule!CollisionIsSkipped, Schedule!UploadsFollowAProbe
<1> QED
  BY <1>1, <1>2, <1>3, <1>4 DEF Schedule!Safety

-----------------------------------------------------------------------------
(* The steps of the run.                                                   *)

LEMMA RearmedRecord ==
    ASSUME ScheduleTypes, RunFits, run.pc # "idle", NEW c \in RunConfigs,
           NEW st \in Schedule!Statuses
    PROVE  LET r == Schedule!Rearmed(st, c)
           IN  /\ r \in Schedule!Statuses
               /\ r.lastRun = st.lastRun /\ r.task = st.task /\ r.probe = st.probe
               /\ r.dns = st.dns /\ r.github = st.github
<1> DEFINE n == Schedule!NextSchedulerRun(run.at, run.at, c)
<1>1. run.at \in Nat \ {0}
  BY ScheduleNumbers DEF ScheduleTypes, RunFits
<1>2. n \in Nat
  <2>1. PICK a \in Nat \ {0} : a = run.at
    BY <1>1
  <2>2. Schedule!NextSchedulerRun(a, a, c) \in Nat
    BY NextRun
  <2> QED
    BY <2>1, <2>2
<1>3. Schedule!Rearmed(st, c) = [st EXCEPT !.next = n]
  BY DEF Schedule!Rearmed
<1> HIDE DEF n
<1> QED
  BY <1>2, <1>3 DEF Schedule!Statuses

LEMMA RunEnds ==
    ASSUME ScheduleTypes, RunFits, run.pc # "idle", NEW st \in Schedule!Statuses,
           NEW ok \in BOOLEAN, Schedule!Write(st, "over", ok),
           UNCHANGED <<clock, runs, loop>>,
           st.task = runs, st.lastRun <= clock,
           runs \in collided' => st.probe = "skipped",
           Told(st) => runs \in probed' /\ st.probe = "completed"
    PROVE  (run \in RunRecs)' /\ RunFits'
<1>1. run \in RunRecs
  BY DEF ScheduleTypes
<1>2. run' = [run EXCEPT !.pc = "write", !.st = st, !.then = "over", !.ok = ok]
  BY DEF Schedule!Write
<1>3. /\ run' \in RunRecs
      /\ run'.pc = "write" /\ run'.st = st /\ run'.then = "over"
      /\ run'.owner = run.owner /\ run'.at = run.at
  BY <1>1, <1>2 DEF RunRecs
<1> QED
  BY <1>3 DEF RunFits, Under, Told

LEMMA BeginStep ==
    ASSUME ScheduleTypes, RunFits, NEW o \in Schedule!Loops \cup {Command},
           Schedule!RunBegin(o)
    PROVE  (run \in RunRecs)' /\ RunFits' /\ runs' = runs + 1 /\ runs' \in 0 .. MaxRuns
<1> DEFINE c == Schedule!Selected
<1>1. c \in RunConfigs \cup {BadConfig}
  BY DEF Schedule!Selected, ScheduleTypes
<1>2. /\ runs' = runs + 1 /\ runs' \in 1 .. MaxRuns /\ UNCHANGED <<clock, collided, probed>>
      /\ o \in Schedule!Loops => loop'[o].pc = "run"
  <2>1. runs' = runs + 1 /\ runs < MaxRuns /\ UNCHANGED <<clock, collided, probed>>
    BY DEF Schedule!RunBegin, Schedule!ghosts
  <2>2. o \in Schedule!Loops => loop'[o].pc = "run"
    <3> SUFFICES ASSUME o \in Schedule!Loops PROVE loop'[o].pc = "run"
      OBVIOUS
    <3>1. o # Command /\ loop[o] \in LoopRecs /\ loop \in [Schedule!Loops -> LoopRecs]
      BY ScheduleNumbers DEF ScheduleTypes
    <3>2. loop' = [loop EXCEPT ![o].pc = "run"]
      BY <3>1 DEF Schedule!RunBegin
    <3> QED
      BY <3>1, <3>2 DEF LoopRecs
  <2> QED
    BY <2>1, <2>2, ScheduleNumbers DEF ScheduleTypes
<1>3. runs' \notin collided'
  BY <1>2 DEF ScheduleTypes
<1>4. /\ clock \in 1 .. MaxTime /\ clock \in 0 .. MaxTime /\ clock \in Nat /\ runs + 1 \in Nat
      /\ status \in Schedule!Statuses
      /\ o \in Schedule!Loops \cup {NoLoop, Command}
  BY ScheduleNumbers DEF ScheduleTypes
<1>5. CASE c = BadConfig
  <2> DEFINE u == Schedule!Unreadable
  <2>1. run' = [Schedule!NoRun EXCEPT !.pc = "write", !.owner = o, !.at = clock, !.st = u,
                                      !.ok = FALSE]
    BY <1>5 DEF Schedule!RunBegin
  <2>2. /\ u \in Schedule!Statuses /\ u.lastRun = clock /\ u.task = runs + 1
        /\ u.probe = "failed" /\ u.dns = "" /\ u.github = ""
    BY <1>4 DEF Schedule!Unreadable, Schedule!Statuses, Schedule!Probes, Schedule!Uploads,
       Schedule!Stages
  <2> HIDE DEF u
  <2>3. run' = [pc |-> "write", owner |-> o, cfg |-> Schedule!NoneConfig, st |-> u,
                at |-> clock, then |-> "over", ok |-> FALSE]
    BY <2>1 DEF Schedule!NoRun
  <2>4. run' \in RunRecs
    <3>1. /\ u \in Schedule!Statuses /\ clock \in 0 .. MaxTime
          /\ o \in Schedule!Loops \cup {NoLoop, Command}
      BY <2>2, <1>4, Zenon
    <3> QED
      BY <2>3, <3>1 DEF RunRecs
  <2>5. /\ run'.pc = "write" /\ run'.owner = o /\ run'.at = clock /\ run'.st = u
        /\ run'.then = "over"
    BY <2>3
  <2>6. /\ run'.st.task = runs' /\ run'.st.lastRun = clock
        /\ run'.st.dns \notin {"partial", "completed"} /\ run'.st.github # "completed"
    BY <2>2, <2>5, <1>2
  <2> QED
    BY <2>4, <2>5, <2>6, <1>2, <1>3, <1>4 DEF RunFits, Under, Told
<1>6. CASE c # BadConfig
  <2> DEFINE u == Schedule!Started(c)
  <2>0. c \in RunConfigs /\ c.enabled \in BOOLEAN
    BY <1>1, <1>6, ScheduleNumbers
  <2>1. run' = [Schedule!NoRun EXCEPT !.pc = "write", !.owner = o, !.at = clock, !.cfg = c,
                                      !.st = u, !.then = "decide"]
    BY <1>6 DEF Schedule!RunBegin
  <2>2. /\ u \in Schedule!Statuses /\ u.lastRun = clock /\ u.task = runs + 1
        /\ u.probe = "running" /\ u.dns = "skipped" /\ u.github = "skipped"
    BY <1>4, <2>0 DEF Schedule!Started, Schedule!Statuses, Schedule!Probes, Schedule!Uploads,
       Schedule!Stages
  <2> HIDE DEF u, c
  <2>3. run' = [pc |-> "write", owner |-> o, cfg |-> c, st |-> u, at |-> clock,
                then |-> "decide", ok |-> TRUE]
    BY <2>1 DEF Schedule!NoRun
  <2>4. run' \in RunRecs
    BY <2>0, <2>2, <2>3, <1>4, ScheduleNumbers DEF RunRecs
  <2>5. /\ run'.pc = "write" /\ run'.owner = o /\ run'.at = clock /\ run'.st = u
        /\ run'.then = "decide" /\ run'.cfg = c
    BY <2>3
  <2> QED
    BY <2>0, <2>2, <2>4, <2>5, <1>2, <1>3, <1>4 DEF RunFits, Under
<1> QED
  BY <1>2, <1>5, <1>6

LEMMA WriteStep ==
    ASSUME ScheduleTypes, RunFits, Schedule!RunWrite
    PROVE  (run \in RunRecs)' /\ RunFits'
<1>1. run \in RunRecs /\ run.pc = "write" /\ UNCHANGED <<clock, runs, collided, probed>>
  BY DEF ScheduleTypes, Schedule!RunWrite, Schedule!ghosts
<1>2. CASE run.then = "decide"
  <2>1. run' = [run EXCEPT !.pc = "decide"] /\ UNCHANGED loop
    BY <1>2 DEF Schedule!RunWrite
  <2>2. /\ run' \in RunRecs /\ run'.pc = "decide" /\ run'.then = run.then /\ run'.st = run.st
        /\ run'.owner = run.owner /\ run'.at = run.at /\ run'.cfg = run.cfg
    BY <1>1, <2>1 DEF RunRecs
  <2> QED
    BY <1>1, <1>2, <2>1, <2>2 DEF RunFits, Under
<1>3. CASE run.then # "decide"
  <2>1. run' = Schedule!NoRun
    BY <1>3 DEF Schedule!RunWrite
  <2>2. run'.pc = "idle" /\ run' \in RunRecs
    <3>1. Schedule!Blank \in Schedule!Statuses
      BY BlankKept DEF Kept
    <3> QED
      BY <2>1, <3>1, ScheduleNumbers DEF Schedule!NoRun, RunRecs
  <2> QED
    BY <2>1, <2>2 DEF RunFits, Under
<1> QED
  BY <1>2, <1>3

LEMMA DecideStep ==
    ASSUME ScheduleTypes, RunFits, Schedule!RunDecide
    PROVE  (run \in RunRecs)' /\ RunFits' /\ collided' \subseteq collided \cup {runs}
<1> DEFINE k == Schedule!Skipped(run.st)
<1>1. /\ run \in RunRecs /\ run.pc = "decide" /\ Under
      /\ UNCHANGED <<clock, runs, probed, loop>>
  BY DEF ScheduleTypes, Schedule!RunDecide, Under
<1>2. /\ run.st \in Schedule!Statuses /\ run.st.task = runs /\ run.st.lastRun <= clock
      /\ run.st.dns = "skipped" /\ run.st.github = "skipped" /\ run.cfg \in RunConfigs
      /\ runs \notin collided
  BY <1>1 DEF RunFits, RunRecs
<1>3. /\ k \in Schedule!Statuses /\ k.task = runs /\ k.lastRun <= clock
      /\ k.dns = "skipped" /\ k.github = "skipped" /\ k.probe = "skipped"
  BY <1>2 DEF Schedule!Skipped, Schedule!Statuses, Schedule!Probes, Schedule!Uploads,
     Schedule!Stages
<1> HIDE DEF k
<1>4. CASE Schedule!Write([k EXCEPT !.next = 0], "over", TRUE) /\ UNCHANGED collided
  <2> DEFINE z == [k EXCEPT !.next = 0]
  <2>1. /\ z \in Schedule!Statuses /\ z.task = runs /\ z.lastRun <= clock
        /\ z.dns = "skipped" /\ z.github = "skipped" /\ z.probe = "skipped"
    BY <1>3 DEF Schedule!Statuses
  <2> HIDE DEF z
  <2>2. Schedule!Write(z, "over", TRUE)
    BY <1>4 DEF z
  <2>3. ~Told(z)
    BY <2>1 DEF Told
  <2> QED
    BY <2>1, <2>2, <2>3, <1>1, <1>4, RunEnds
<1>5. CASE Schedule!Write(Schedule!Rearmed(k, run.cfg), "over", TRUE)
           /\ collided' = collided \cup {run.st.task}
  <2> DEFINE z == Schedule!Rearmed(k, run.cfg)
  <2>1. /\ z \in Schedule!Statuses /\ z.task = runs /\ z.lastRun <= clock
        /\ z.dns = "skipped" /\ z.github = "skipped" /\ z.probe = "skipped"
    BY <1>1, <1>2, <1>3, RearmedRecord
  <2> HIDE DEF z
  <2>2. Schedule!Write(z, "over", TRUE)
    BY <1>5 DEF z
  <2>3. ~Told(z)
    BY <2>1 DEF Told
  <2>4. (run \in RunRecs)' /\ RunFits'
    BY <2>1, <2>2, <2>3, <1>1, RunEnds
  <2> QED
    BY <2>4, <1>2, <1>5
<1>6. CASE run' = [run EXCEPT !.pc = "probe"] /\ UNCHANGED collided
  <2>1. /\ run' \in RunRecs /\ run'.pc = "probe" /\ run'.st = run.st
        /\ run'.owner = run.owner /\ run'.at = run.at /\ run'.cfg = run.cfg
    BY <1>1, <1>6 DEF RunRecs
  <2> QED
    BY <1>1, <1>6, <2>1 DEF RunFits, Under
<1> QED
  BY <1>4, <1>5, <1>6 DEF Schedule!RunDecide, k

LEMMA ProbeStep ==
    ASSUME ScheduleTypes, RunFits, Schedule!RunProbe
    PROVE  (run \in RunRecs)' /\ RunFits' /\ collided' \subseteq collided \cup {runs}
<1> DEFINE k == Schedule!Skipped(run.st)
<1>1. /\ run \in RunRecs /\ run.pc = "probe" /\ Under
      /\ UNCHANGED <<clock, runs, probed, loop>>
  BY DEF ScheduleTypes, Schedule!RunProbe, Under
<1>2. /\ run.st \in Schedule!Statuses /\ run.st.task = runs /\ run.st.lastRun <= clock
      /\ run.st.dns = "skipped" /\ run.st.github = "skipped" /\ run.cfg \in RunConfigs
      /\ runs \notin collided
  BY <1>1 DEF RunFits, RunRecs
<1>3. /\ k \in Schedule!Statuses /\ k.task = runs /\ k.lastRun <= clock
      /\ k.dns = "skipped" /\ k.github = "skipped" /\ k.probe = "skipped"
  BY <1>2 DEF Schedule!Skipped, Schedule!Statuses, Schedule!Probes, Schedule!Uploads,
     Schedule!Stages
<1> HIDE DEF k
<1>4. CASE Schedule!Write(Schedule!Collision(run.st, run.cfg), "over", TRUE)
           /\ collided' = collided \cup {run.st.task}
  <2> DEFINE z == Schedule!Rearmed(k, run.cfg)
  <2>1. /\ z \in Schedule!Statuses /\ z.task = runs /\ z.lastRun <= clock
        /\ z.dns = "skipped" /\ z.github = "skipped" /\ z.probe = "skipped"
    BY <1>1, <1>2, <1>3, RearmedRecord
  <2> HIDE DEF z
  <2>2. Schedule!Write(z, "over", TRUE)
    BY <1>4 DEF z, k, Schedule!Collision
  <2>3. ~Told(z)
    BY <2>1 DEF Told
  <2>4. (run \in RunRecs)' /\ RunFits'
    BY <2>1, <2>2, <2>3, <1>1, RunEnds
  <2> QED
    BY <2>4, <1>2, <1>4
<1>5. CASE run' = [run EXCEPT !.pc = "probing"] /\ UNCHANGED collided
  <2>1. /\ run' \in RunRecs /\ run'.pc = "probing" /\ run'.st = run.st
        /\ run'.owner = run.owner /\ run'.at = run.at /\ run'.cfg = run.cfg
    BY <1>1, <1>5 DEF RunRecs
  <2> QED
    BY <1>1, <1>5, <2>1 DEF RunFits, Under
<1> QED
  BY <1>4, <1>5 DEF Schedule!RunProbe

LEMMA ProbedStep ==
    ASSUME ScheduleTypes, RunFits, Schedule!RunProbed
    PROVE  (run \in RunRecs)' /\ RunFits' /\ collided' = collided
<1>1. /\ run \in RunRecs /\ run.pc = "probing" /\ Under
      /\ UNCHANGED <<clock, runs, collided, loop>>
  BY DEF ScheduleTypes, Schedule!RunProbed, Under
<1>2. /\ run.st \in Schedule!Statuses /\ run.st.task = runs /\ run.st.lastRun <= clock
      /\ run.st.dns = "skipped" /\ run.st.github = "skipped" /\ run.cfg \in RunConfigs
      /\ runs \notin collided
  BY <1>1 DEF RunFits, RunRecs
<1>3. CASE Schedule!Write(Schedule!ProbeFailed(run.st, run.cfg), "over", FALSE)
  <2> DEFINE k == [run.st EXCEPT !.probe = "failed", !.stage = "probe_failed",
                     !.dns = IF run.cfg.dns THEN "failed" ELSE "skipped",
                     !.github = IF run.cfg.github THEN "failed" ELSE "skipped"]
             z == Schedule!Rearmed(k, run.cfg)
  <2>1. /\ k \in Schedule!Statuses /\ k.task = runs /\ k.lastRun <= clock
        /\ k.dns \in {"failed", "skipped"} /\ k.github \in {"failed", "skipped"}
    BY <1>2 DEF Schedule!Statuses, Schedule!Probes, Schedule!Uploads, Schedule!Stages
  <2>2. z = Schedule!ProbeFailed(run.st, run.cfg)
    BY DEF Schedule!ProbeFailed
  <2> HIDE DEF k
  <2>3. /\ z \in Schedule!Statuses /\ z.task = runs /\ z.lastRun <= clock
        /\ z.dns \in {"failed", "skipped"} /\ z.github \in {"failed", "skipped"}
    BY <1>1, <1>2, <2>1, RearmedRecord
  <2> HIDE DEF z
  <2>4. ~Told(z)
    BY <2>3 DEF Told
  <2>5. Schedule!Write(z, "over", FALSE)
    BY <1>3, <2>2
  <2> QED
    BY <2>3, <2>4, <2>5, <1>1, <1>2, RunEnds
<1>4. CASE /\ run' = [run EXCEPT !.pc = "upload", !.st.probe = "completed"]
           /\ probed' = probed \cup {run.st.task}
  <2> DEFINE u == [run.st EXCEPT !.probe = "completed"]
  <2>1. run' = [run EXCEPT !.pc = "upload", !.st = u]
    BY <1>4
  <2>2. /\ u \in Schedule!Statuses /\ u.task = runs /\ u.lastRun <= clock
        /\ u.dns = "skipped" /\ u.github = "skipped" /\ u.probe = "completed"
    BY <1>2 DEF Schedule!Statuses, Schedule!Probes
  <2> HIDE DEF u
  <2>3. /\ run' \in RunRecs /\ run'.pc = "upload" /\ run'.st = u
        /\ run'.owner = run.owner /\ run'.at = run.at /\ run'.cfg = run.cfg
    BY <1>1, <2>1, <2>2 DEF RunRecs
  <2>4. runs' \in probed' /\ runs' \notin collided'
    BY <1>1, <1>2, <1>4
  <2> QED
    BY <1>1, <2>2, <2>3, <2>4 DEF RunFits, Under
<1> QED
  BY <1>1, <1>3, <1>4 DEF Schedule!RunProbed

LEMMA UploadStep ==
    ASSUME ScheduleTypes, RunFits, Schedule!RunUpload
    PROVE  (run \in RunRecs)' /\ RunFits'
<1>1. /\ run \in RunRecs /\ run.pc = "upload" /\ Under
      /\ UNCHANGED <<clock, runs, collided, probed, loop>>
  BY DEF ScheduleTypes, Schedule!RunUpload, Schedule!ghosts, Under
<1>2. /\ run.st \in Schedule!Statuses /\ run.st.task = runs /\ run.st.lastRun <= clock
      /\ run.st.dns = "skipped" /\ run.st.github = "skipped" /\ run.cfg \in RunConfigs
      /\ run.st.probe = "completed" /\ runs \in probed /\ runs \notin collided
  BY <1>1 DEF RunFits, RunRecs
<1>3. ASSUME NEW k \in Schedule!Statuses, k.task = runs, k.lastRun <= clock,
             NEW ok \in BOOLEAN, Told(k) => k.probe = "completed",
             Schedule!Write(Schedule!Rearmed(k, run.cfg), "over", ok)
      PROVE  (run \in RunRecs)' /\ RunFits'
  <2> DEFINE z == Schedule!Rearmed(k, run.cfg)
  <2>1. /\ z \in Schedule!Statuses /\ z.task = k.task /\ z.lastRun = k.lastRun
        /\ z.dns = k.dns /\ z.github = k.github /\ z.probe = k.probe
    BY <1>1, <1>2, RearmedRecord
  <2> HIDE DEF z
  <2>2. Told(z) => runs \in probed' /\ z.probe = "completed"
    BY <2>1, <1>1, <1>2, <1>3 DEF Told
  <2>3. Schedule!Write(z, "over", ok)
    BY <1>3 DEF z
  <2> QED
    BY <2>1, <2>2, <2>3, <1>1, <1>2, <1>3, RunEnds
<1>4. CASE Schedule!Write(Schedule!Rearmed([run.st EXCEPT
                            !.probe = "failed",
                            !.dns = IF run.cfg.dns THEN "failed" ELSE @,
                            !.github = IF run.cfg.github THEN "failed" ELSE @,
                            !.stage = "upload_selection_failed"], run.cfg), "over", FALSE)
  <2> DEFINE k == [run.st EXCEPT !.probe = "failed",
                     !.dns = IF run.cfg.dns THEN "failed" ELSE @,
                     !.github = IF run.cfg.github THEN "failed" ELSE @,
                     !.stage = "upload_selection_failed"]
  <2>1. /\ k \in Schedule!Statuses /\ k.task = runs /\ k.lastRun <= clock
        /\ k.dns \in {"failed", "skipped"} /\ k.github \in {"failed", "skipped"}
    BY <1>2 DEF Schedule!Statuses, Schedule!Probes, Schedule!Uploads, Schedule!Stages
  <2>2. Schedule!Write(Schedule!Rearmed(k, run.cfg), "over", FALSE)
    BY <1>4
  <2> HIDE DEF k
  <2>3. ~Told(k)
    BY <2>1 DEF Told
  <2> QED
    BY <2>1, <2>2, <2>3, <1>3
<1>5. ASSUME NEW d \in Schedule!DNSResults(run.cfg), NEW g \in Schedule!GitHubResults(run.cfg),
             Schedule!Write(Schedule!Rearmed([run.st EXCEPT !.dns = d, !.github = g,
                                                !.stage = "completed"], run.cfg), "over", TRUE)
      PROVE  (run \in RunRecs)' /\ RunFits'
  <2> DEFINE k == [run.st EXCEPT !.dns = d, !.github = g, !.stage = "completed"]
  <2>1. d \in Schedule!Uploads /\ g \in Schedule!Uploads \ {"partial"}
    BY <1>5 DEF Schedule!DNSResults, Schedule!GitHubResults, Schedule!Uploads
  <2>2. /\ k \in Schedule!Statuses /\ k.task = runs /\ k.lastRun <= clock
        /\ k.probe = "completed"
    BY <1>2, <2>1 DEF Schedule!Statuses, Schedule!Stages
  <2>3. Schedule!Write(Schedule!Rearmed(k, run.cfg), "over", TRUE)
    BY <1>5
  <2> HIDE DEF k
  <2> QED
    BY <2>2, <2>3, <1>3
<1> QED
  BY <1>4, <1>5 DEF Schedule!RunUpload

-----------------------------------------------------------------------------
(* The copies of the status.                                               *)

LEMMA SameTale ==
    ASSUME NEW st, Kept(st), NEW r \in Schedule!Statuses,
           r.lastRun = st.lastRun, r.task = st.task, r.probe = st.probe,
           r.dns = st.dns, r.github = st.github
    PROVE  Kept(r)
  BY DEF Kept, Told

LEMMA NothingBegun ==
    ASSUME NEW st, Kept(st), clock \in Nat, clock' \in Nat, clock <= clock',
           UNCHANGED <<run, runs, probed, collided>>, st.lastRun \in Nat
    PROVE  Kept(st)'
  BY DEF Kept, Told

\* What holds of a copy goes on to hold of it, whoever steps.
LEMMA KeptStays ==
    ASSUME ScheduleTypes, RunFits, Schedule!Next, NEW st, Kept(st)
    PROVE  Kept(st)'
<1>1. /\ st \in Schedule!Statuses /\ st.lastRun \in Nat /\ st.task \in Nat /\ st.lastRun <= clock
      /\ st.task <= runs /\ clock \in Nat /\ runs \in Nat
  BY ScheduleNumbers DEF Kept, Schedule!Statuses, ScheduleTypes
<1>2. CASE \E p \in {s1} : (\E c \in RunConfigs : Schedule!SaveBegin(p, c)) \/ Schedule!SaverStep(p)
  <2>1. UNCHANGED <<clock, run, runs, probed, collided>>
    BY <1>2 DEF Schedule!SaveBegin, Schedule!SaverStep, Schedule!SaveDiscard,
       Schedule!RefreshLoad, Schedule!RefreshWrite, Schedule!StopScheduler, Schedule!StartLoop,
       Schedule!ReloadBad, Schedule!ReloadBadWrite, Schedule!ghosts
  <2> QED
    BY <1>1, <2>1, NothingBegun
<1>3. CASE (\E c \in RunConfigs : Schedule!SaveDraft(c)) \/ Schedule!Tick
  <2>1. clock' \in {clock, clock + 1} /\ UNCHANGED <<run, runs, probed, collided>>
    BY <1>3 DEF Schedule!SaveDraft, Schedule!Tick, Schedule!ghosts
  <2> QED
    BY <1>1, <2>1, NothingBegun
<1>4. CASE \E l \in Schedule!Loops : Schedule!LoopStep(l)
  <2>1. UNCHANGED <<clock, run, runs, probed, collided>>
    BY <1>4 DEF Schedule!LoopStep, Schedule!LoopLoad, Schedule!LoopArm, Schedule!LoopFire,
       Schedule!LoopDone, Schedule!LoopNote, Schedule!LoopNoted, Schedule!ghosts
  <2> QED
    BY <1>1, <2>1, NothingBegun
<1>5. CASE \E o \in Schedule!Loops \cup {Command} : Schedule!RunBegin(o)
  <2>1. runs' = runs + 1 /\ UNCHANGED <<clock, probed, collided>>
    BY <1>5 DEF Schedule!RunBegin, Schedule!ghosts
  <2>2. st.task <= runs' /\ st.task # runs'
    BY <1>1, <2>1
  <2> QED
    BY <1>1, <2>1, <2>2 DEF Kept, Told
<1>6. CASE Schedule!RunWrite
  <2>1. UNCHANGED <<clock, runs, probed, collided>> /\ run.pc = "write"
    BY <1>6 DEF Schedule!RunWrite, Schedule!ghosts
  <2> QED
    BY <1>1, <2>1 DEF Kept, Told
<1>7. CASE Schedule!RunDecide \/ Schedule!RunProbe
  <2>1. UNCHANGED <<clock, runs, probed>> /\ run.pc # "idle"
    BY <1>7 DEF Schedule!RunDecide, Schedule!RunProbe
  <2>2. collided' \subseteq collided \cup {runs}
    BY <1>7, DecideStep, ProbeStep
  <2> QED
    BY <1>1, <2>1, <2>2 DEF Kept, Told
<1>8. CASE Schedule!RunProbed \/ Schedule!RunUpload
  <2>1. UNCHANGED <<clock, runs, collided>> /\ run.pc # "idle" /\ probed \subseteq probed'
    BY <1>8 DEF Schedule!RunProbed, Schedule!RunUpload, Schedule!ghosts
  <2> QED
    BY <1>1, <2>1 DEF Kept, Told
<1> QED
  BY <1>2, <1>3, <1>4, <1>5, <1>6, <1>7, <1>8 DEF Schedule!Next, Schedule!RunStep

\* What a run writes is a copy like any other.
LEMMA WrittenKept ==
    ASSUME ScheduleTypes, RunFits, Schedule!RunWrite, NEW st, st = run.st
    PROVE  Kept(st)'
<1>1. /\ run \in RunRecs /\ run.pc = "write" /\ UNCHANGED <<clock, runs, collided, probed>>
  BY DEF ScheduleTypes, Schedule!RunWrite, Schedule!ghosts
<1>2. /\ st \in Schedule!Statuses /\ st.task = runs /\ st.lastRun <= clock /\ runs \in Nat
  BY <1>1, ScheduleNumbers DEF RunFits, RunRecs, ScheduleTypes
<1>3. CASE run.then = "decide"
  <2>1. /\ st.dns = "skipped" /\ st.github = "skipped" /\ st.probe = "running"
        /\ runs \notin collided
    BY <1>1, <1>3 DEF RunFits, Under
  <2>2. ~Told(st)
    BY <2>1 DEF Told
  <2> QED
    BY <1>1, <1>2, <2>1, <2>2 DEF Kept, Told
<1>4. CASE run.then # "decide"
  <2>1. /\ runs \in collided => st.probe = "skipped"
        /\ Told(st) => runs \in probed /\ st.probe = "completed"
    BY <1>1, <1>4 DEF RunFits
  <2>2. run'.pc = "idle"
    BY <1>4 DEF Schedule!RunWrite, Schedule!NoRun
  <2> QED
    BY <1>1, <1>2, <2>1, <2>2 DEF Kept, Told
<1> QED
  BY <1>3, <1>4

-----------------------------------------------------------------------------
(* The steps of the loops.                                                 *)

LEMMA LoopStays ==
    ASSUME NEW l, LoopFits(l), loop'[l] = loop[l], handle' = handle
    PROVE  LoopFits(l)'
  BY DEF LoopFits, Schedule!Serving

LEMMA LoopGoesOn ==
    ASSUME NEW l, LoopFits(l), handle' = handle, loop[l].pc \notin {"none", "over"},
           loop'[l].pc \in {"load", "want", "run", "note", "noting"},
           loop'[l].cfg = loop[l].cfg, loop'[l].cancelled = loop[l].cancelled
    PROVE  LoopFits(l)'
  BY DEF LoopFits, Schedule!Serving

LEMMA OtherRunStays ==
    ASSUME ScheduleTypes, RunFits, UNCHANGED <<run, runs, collided, probed>>,
           clock' \in Nat, clock <= clock',
           \A l \in Schedule!Loops : loop[l].pc = "run" => loop'[l].pc = "run"
    PROVE  (run \in RunRecs)' /\ RunFits'
<1>1. run.pc # "idle" => run.at \in Nat /\ run.st.lastRun \in Nat
  BY DEF ScheduleTypes, RunRecs, Schedule!Statuses
<1>2. clock \in Nat
  BY ScheduleNumbers DEF ScheduleTypes
<1>3. run.pc # "idle" => run.at \in 1 .. clock' /\ run.st.lastRun <= clock'
  BY <1>1, <1>2 DEF RunFits
<1>4. (run \in RunRecs)'
  BY DEF ScheduleTypes, RunRecs
<1> QED
  BY <1>3, <1>4 DEF RunFits, Under, Told

LEMMA LoadStep ==
    ASSUME ScheduleInv, NEW l \in Schedule!Loops, Schedule!LoopLoad(l)
    PROVE  \E r \in LoopRecs :
             /\ loop' = [loop EXCEPT ![l] = r] /\ Kept(r.st) /\ LoopFits(l)'
<1> DEFINE c == loop[l].cfg
           last == status.lastRun
           next == Schedule!NextSchedulerRun(clock, last, c)
           st == [status EXCEPT !.enabled = IF next = 0 THEN @ ELSE c.enabled, !.next = next]
           base == IF last = 0 THEN clock ELSE last
           r == [loop[l] EXCEPT !.pc = "arm", !.at = clock, !.fire = next, !.base = base,
                                !.st = st]
<1>1. /\ loop \in [Schedule!Loops -> LoopRecs] /\ loop[l] \in LoopRecs /\ loop[l].pc = "load"
      /\ c \in RunConfigs /\ Wanted(c) /\ LoopFits(l) /\ handle' = handle
      /\ status \in Schedule!Statuses /\ Kept(status) /\ last <= clock
      /\ clock \in 1 .. MaxTime /\ MaxTime \in Nat /\ last \in Nat
  BY ScheduleNumbers DEF ScheduleInv, ScheduleTypes, LoopFits, KeptCopies, Kept,
     Schedule!LoopLoad, Schedule!Statuses
<1>2. c.enabled \in BOOLEAN
  BY <1>1, ScheduleNumbers
<1>3. /\ next \in Nat /\ next > clock /\ Schedule!IsDue(c, base, next)
      /\ \A t \in clock + 1 .. next - 1 : ~Schedule!IsDue(c, base, t)
  <2>1. PICK x1 \in RunConfigs : x1 = c
    BY <1>1
  <2>2. PICK now \in Nat \ {0} : now = clock
    BY <1>1
  <2>3. PICK was \in Nat : was = last /\ was <= now
    BY <1>1, <2>2
  <2>4. /\ Schedule!NextSchedulerRun(now, was, x1) \in Nat
        /\ Schedule!NextSchedulerRun(now, was, x1) > 0
    BY <1>1, <2>1, <2>3, NextRun
  <2>5. LET n == Schedule!NextSchedulerRun(now, was, x1)
        IN  /\ n > now /\ Schedule!IsDue(x1, Since(now, was), n)
            /\ \A t \in now + 1 .. n - 1 : ~Schedule!IsDue(x1, Since(now, was), t)
    BY <2>3, <2>4, NextRun
  <2>6. Since(now, was) = base
    BY <2>2, <2>3 DEF Since
  <2> QED
    BY <2>1, <2>2, <2>3, <2>4, <2>5, <2>6
<1>4. loop' = [loop EXCEPT ![l] = r]
  BY DEF Schedule!LoopLoad
<1> HIDE DEF next
<1>5. /\ st \in Schedule!Statuses /\ st.lastRun = status.lastRun /\ st.task = status.task
      /\ st.probe = status.probe /\ st.dns = status.dns /\ st.github = status.github
  BY <1>1, <1>2, <1>3 DEF Schedule!Statuses
<1> HIDE DEF st
<1>6. base \in 0 .. MaxTime
  BY <1>1
<1> HIDE DEF base
<1>7. /\ r \in LoopRecs /\ r.pc = "arm" /\ r.cfg = c /\ r.cancelled = loop[l].cancelled
      /\ r.at = clock /\ r.fire = next /\ r.base = base /\ r.st = st
  <2>1. loop[l] \in LoopRecs /\ clock \in 0 .. MaxTime
    BY <1>1
  <2>2. next \in Nat /\ st \in Schedule!Statuses
    BY <1>3, <1>5
  <2> QED
    BY <2>1, <2>2, <1>6 DEF LoopRecs
<1> HIDE DEF r, c, last
<1>8. Kept(r.st)
  BY <1>1, <1>5, <1>7, SameTale
<1>9. LoopFits(l)'
  <2>1. loop'[l] = r
    BY <1>1, <1>4
  <2>2. Schedule!Serving(l)' <=> Schedule!Serving(l)
    BY <2>1, <1>1, <1>7 DEF Schedule!Serving
  <2> QED
    BY <2>1, <2>2, <1>1, <1>3, <1>7 DEF LoopFits
<1> QED
  BY <1>4, <1>7, <1>8, <1>9

LEMMA LoopStepFits ==
    ASSUME ScheduleInv, NEW l \in Schedule!Loops, Schedule!LoopStep(l)
    PROVE  /\ \E r \in LoopRecs :
                /\ loop' = [loop EXCEPT ![l] = r] /\ Kept(r.st) /\ LoopFits(l)'
           /\ loop[l].pc # "run"
           /\ UNCHANGED <<clock, saved, runDraft, handle, saver, run, runs, probed, collided>>
           /\ status' \in {status, loop[l].st}
<1>1. /\ loop \in [Schedule!Loops -> LoopRecs] /\ loop[l] \in LoopRecs /\ LoopFits(l)
      /\ Kept(loop[l].st) /\ Kept(status) /\ status \in Schedule!Statuses
      /\ MaxTime \in Nat
  BY ScheduleNumbers DEF ScheduleInv, ScheduleTypes, KeptCopies
<1>2. Kept(Schedule!Blank) /\ Schedule!Blank \in Schedule!Statuses
  BY BlankKept DEF Kept, ScheduleInv
<1>3. /\ loop[l].pc # "run" /\ status' \in {status, loop[l].st}
      /\ UNCHANGED <<clock, saved, runDraft, handle, saver, run, runs, probed, collided>>
  BY DEF Schedule!LoopStep, Schedule!LoopLoad, Schedule!LoopArm, Schedule!LoopFire,
     Schedule!LoopDone, Schedule!LoopNote, Schedule!LoopNoted, Schedule!ghosts, Schedule!files
<1>a. /\ Schedule!Gone \in LoopRecs /\ Schedule!Gone.pc = "over"
      /\ Schedule!Gone.st = Schedule!Blank
  <2>1. 0 \in 0 .. MaxTime /\ 0 \in Nat
    BY <1>1
  <2>2. Schedule!Asleep \in LoopRecs
    BY <2>1, <1>2 DEF Schedule!Asleep, LoopRecs
  <2>3. Schedule!Gone.pc = "over" /\ Schedule!Gone.st = Schedule!Blank
    BY DEF Schedule!Gone, Schedule!Asleep
  <2>4. Schedule!Gone \in LoopRecs
    BY <2>2 DEF Schedule!Gone, LoopRecs
  <2> QED
    BY <2>3, <2>4
<1>4. ASSUME NEW r \in LoopRecs, loop' = [loop EXCEPT ![l] = r], Kept(r.st),
             \/ r.pc \in {"load", "want", "note", "noting"} /\ r.cfg = loop[l].cfg
                /\ r.cancelled = loop[l].cancelled
             \/ r = Schedule!Gone /\ ~Schedule!Serving(l)
             \/ r.pc = "wait" /\ loop[l].pc = "arm" /\ r.cfg = loop[l].cfg
                /\ r.cancelled = loop[l].cancelled /\ r.at = loop[l].at
                /\ r.base = loop[l].base /\ r.fire = loop[l].fire,
             loop[l].pc \notin {"none", "over"}
      PROVE  LoopFits(l)'
  <2>1. loop'[l] = r /\ handle' = handle
    BY <1>1, <1>3, <1>4
  <2>2. CASE r.pc \in {"load", "want", "note", "noting"} /\ r.cfg = loop[l].cfg
             /\ r.cancelled = loop[l].cancelled
    BY <1>1, <1>4, <2>1, <2>2, LoopGoesOn
  <2>3. CASE r = Schedule!Gone /\ ~Schedule!Serving(l)
    <3>1. loop'[l].pc = "over"
      BY <2>1, <2>3, <1>a
    <3> QED
      BY <1>1, <2>1, <2>3, <3>1 DEF LoopFits, Schedule!Serving
  <2>4. CASE r.pc = "wait" /\ loop[l].pc = "arm" /\ r.cfg = loop[l].cfg
             /\ r.cancelled = loop[l].cancelled /\ r.at = loop[l].at
             /\ r.base = loop[l].base /\ r.fire = loop[l].fire
    BY <1>1, <2>1, <2>4 DEF LoopFits, Schedule!Serving
  <2> QED
    BY <1>4, <2>2, <2>3, <2>4
<1>5. CASE Schedule!LoopLoad(l)
  BY <1>3, <1>5, LoadStep
<1>6. CASE Schedule!LoopArm(l)
  <2> DEFINE r == [loop[l] EXCEPT !.pc = "wait", !.st = Schedule!Blank]
  <2>1. loop[l].pc = "arm" /\ loop[l].fire # 0 /\ loop' = [loop EXCEPT ![l] = r]
    <3>1. loop[l].pc = "arm" /\ loop[l].fire > loop[l].at /\ loop[l].at \in Nat
      BY <1>1, <1>6 DEF Schedule!LoopArm, LoopFits, LoopRecs
    <3>2. loop[l].fire # 0
      BY <3>1, <1>1 DEF LoopRecs
    <3> QED
      BY <3>1, <3>2, <1>6 DEF Schedule!LoopArm
  <2>2. /\ r \in LoopRecs /\ r.pc = "wait" /\ r.cfg = loop[l].cfg
        /\ r.cancelled = loop[l].cancelled /\ r.at = loop[l].at
        /\ r.base = loop[l].base /\ r.fire = loop[l].fire /\ r.st = Schedule!Blank
    BY <1>1, <1>2 DEF LoopRecs
  <2> HIDE DEF r
  <2> QED
    BY <1>2, <1>3, <1>4, <2>1, <2>2
<1>7. CASE Schedule!LoopFire(l)
  <2> DEFINE r == [loop[l] EXCEPT !.pc = "want", !.at = 0, !.base = 0, !.fire = 0]
  <2>1. loop[l].pc = "wait" /\ loop' = [loop EXCEPT ![l] = r]
    BY <1>7 DEF Schedule!LoopFire
  <2>2. /\ r \in LoopRecs /\ r.pc = "want" /\ r.cfg = loop[l].cfg
        /\ r.cancelled = loop[l].cancelled /\ r.st = loop[l].st
    <3>1. 0 \in 0 .. MaxTime /\ 0 \in Nat /\ loop[l] \in LoopRecs
      BY <1>1
    <3> QED
      BY <3>1 DEF LoopRecs
  <2> HIDE DEF r
  <2> QED
    BY <1>1, <1>3, <1>4, <2>1, <2>2
<1>8. CASE Schedule!LoopDone(l)
  <2>1. /\ loop[l].pc = "wait" /\ loop' = [loop EXCEPT ![l] = Schedule!Gone]
        /\ ~Schedule!Serving(l)
    BY <1>8 DEF Schedule!LoopDone, Schedule!Serving
  <2> QED
    BY <1>a, <1>2, <1>3, <1>4, <2>1
<1>9. CASE Schedule!LoopNote(l)
  <2> DEFINE r == [loop[l] EXCEPT !.pc = "noting", !.st = status]
  <2>1. loop[l].pc = "note" /\ loop' = [loop EXCEPT ![l] = r]
    BY <1>1, <1>9 DEF Schedule!LoopNote
  <2>2. /\ r \in LoopRecs /\ r.pc = "noting" /\ r.cfg = loop[l].cfg
        /\ r.cancelled = loop[l].cancelled /\ r.st = status
    BY <1>1 DEF LoopRecs
  <2> HIDE DEF r
  <2> QED
    BY <1>1, <1>3, <1>4, <2>1, <2>2
<1>10. CASE Schedule!LoopNoted(l)
  <2> DEFINE r == [loop[l] EXCEPT !.pc = "load", !.st = Schedule!Blank]
  <2>1. loop[l].pc = "noting" /\ loop' = [loop EXCEPT ![l] = r]
    BY <1>1, <1>10 DEF Schedule!LoopNoted
  <2>2. /\ r \in LoopRecs /\ r.pc = "load" /\ r.cfg = loop[l].cfg
        /\ r.cancelled = loop[l].cancelled /\ r.st = Schedule!Blank
    BY <1>1, <1>2 DEF LoopRecs
  <2> HIDE DEF r
  <2> QED
    BY <1>2, <1>3, <1>4, <2>1, <2>2
<1> QED
  BY <1>5, <1>6, <1>7, <1>8, <1>9, <1>10 DEF Schedule!LoopStep

\* A loop that waits for its run, or has had it.
LEMMA OwnerStep ==
    ASSUME ScheduleInv, NEW o \in Schedule!Loops, NEW q \in {"run", "load", "note"},
           loop[o].pc \in {"want", "run"}, loop' = [loop EXCEPT ![o].pc = q],
           handle' = handle
    PROVE  /\ loop' \in [Schedule!Loops -> LoopRecs]
           /\ \A k \in Schedule!Loops : LoopFits(k)' /\ loop'[k].st = loop[k].st
<1>1. loop \in [Schedule!Loops -> LoopRecs] /\ loop[o] \in LoopRecs
  BY DEF ScheduleInv, ScheduleTypes
<1> DEFINE r == [loop[o] EXCEPT !.pc = q]
<1>2. loop' = [loop EXCEPT ![o] = r]
  BY <1>1
<1>3. /\ r \in LoopRecs /\ r.pc = q /\ r.cfg = loop[o].cfg
      /\ r.cancelled = loop[o].cancelled /\ r.st = loop[o].st
  BY <1>1 DEF LoopRecs
<1> HIDE DEF r
<1>4. loop' \in [Schedule!Loops -> LoopRecs]
  BY <1>1, <1>2, <1>3
<1>5. ASSUME NEW k \in Schedule!Loops PROVE LoopFits(k)' /\ loop'[k].st = loop[k].st
  <2>1. LoopFits(k)
    BY DEF ScheduleInv
  <2>2. CASE k = o
    <3>1. loop'[k] = r
      BY <1>1, <1>2, <2>2
    <3> QED
      BY <2>1, <2>2, <3>1, <1>3, LoopGoesOn
  <2>3. CASE k # o
    <3>1. loop'[k] = loop[k]
      BY <1>1, <1>2, <2>3
    <3> QED
      BY <2>1, <3>1, LoopStays
  <2> QED
    BY <2>2, <2>3
<1> QED
  BY <1>4, <1>5

-----------------------------------------------------------------------------
(* The steps of the saver.                                                 *)

SaverPcs == {"idle", "discard", "refresh", "write", "stop", "refresh2", "write2", "start",
             "bad", "badWrite"}

LEMMA SetSaverIs ==
    ASSUME ScheduleInv, NEW q \in SaverPcs, Schedule!SetSaver(s1, q)
    PROVE  \E r \in SaverRecs :
             /\ saver' = [saver EXCEPT ![s1] = r] /\ Kept(r.st) /\ r.pc = q
             /\ q # "idle" => r.cfg = saver[s1].cfg /\ r.st = saver[s1].st
<1>1. saver[s1] \in SaverRecs /\ saver \in [{s1} -> SaverRecs] /\ Kept(saver[s1].st)
  BY DEF ScheduleInv, ScheduleTypes, KeptCopies
<1>2. CASE q = "idle"
  <2>1. saver' = [saver EXCEPT ![s1] = Schedule!NoSave]
    BY <1>2 DEF Schedule!SetSaver
  <2>2. Kept(Schedule!Blank) /\ Schedule!Blank \in Schedule!Statuses
    BY BlankKept DEF Kept, ScheduleInv
  <2>3. /\ Schedule!NoSave.pc = "idle" /\ Schedule!NoSave.st = Schedule!Blank
    BY DEF Schedule!NoSave
  <2>4. Schedule!NoSave \in SaverRecs
    BY <2>2 DEF Schedule!NoSave, SaverRecs
  <2> QED
    BY <1>2, <2>1, <2>2, <2>3, <2>4
<1>3. CASE q # "idle"
  <2> DEFINE r == [saver[s1] EXCEPT !.pc = q]
  <2>1. saver' = [saver EXCEPT ![s1] = r]
    BY <1>3 DEF Schedule!SetSaver
  <2>2. r \in SaverRecs /\ r.pc = q /\ r.cfg = saver[s1].cfg /\ r.st = saver[s1].st
    BY <1>1 DEF SaverRecs, SaverPcs
  <2> HIDE DEF r
  <2> QED
    BY <1>1, <2>1, <2>2
<1> QED
  BY <1>2, <1>3

LEMMA RefreshedKept ==
    ASSUME ScheduleInv, NEW c \in RunConfigs
    PROVE  LET r == Schedule!Refreshed(status, c)
           IN  r \in Schedule!Statuses /\ Kept(r) /\ (r.next > 0 <=> Wanted(c))
<1> DEFINE n == Schedule!NextSchedulerRun(clock, status.lastRun, c)
           r == Schedule!Refreshed(status, c)
<1>1. /\ status \in Schedule!Statuses /\ Kept(status) /\ c.enabled \in BOOLEAN
      /\ status.lastRun \in Nat /\ status.lastRun <= clock /\ clock \in Nat \ {0}
  BY ScheduleNumbers DEF ScheduleInv, ScheduleTypes, KeptCopies, Kept, Schedule!Statuses
<1>2. n \in Nat /\ (n > 0 <=> Wanted(c))
  <2>1. PICK now \in Nat \ {0} : now = clock
    BY <1>1
  <2>2. PICK last \in Nat : last = status.lastRun /\ last <= now
    BY <1>1, <2>1
  <2>3. LET z == Schedule!NextSchedulerRun(now, last, c)
        IN  z \in Nat /\ (z > 0 <=> Wanted(c))
    BY <2>2, NextRun
  <2> QED
    BY <2>1, <2>2, <2>3
<1>3. r = [status EXCEPT !.enabled = c.enabled /\ n > 0, !.next = n]
  BY DEF Schedule!Refreshed
<1> HIDE DEF n, r
<1>4. /\ r \in Schedule!Statuses /\ r.next = n /\ r.lastRun = status.lastRun
      /\ r.task = status.task /\ r.probe = status.probe /\ r.dns = status.dns
      /\ r.github = status.github
  <2>1. PICK e \in BOOLEAN : e = (c.enabled /\ n > 0)
    OBVIOUS
  <2>2. r = [status EXCEPT !.enabled = e, !.next = n]
    BY <1>3, <2>1
  <2> QED
    BY <1>1, <1>2, <2>2 DEF Schedule!Statuses
<1> QED
  BY <1>1, <1>2, <1>4, SameTale DEF r

\* stopScheduler: the loop of the handle, if there is one, is told to stop.
LEMMA StoppedFits ==
    ASSUME ScheduleInv, handle' = Schedule!Stopped.h, loop' = Schedule!Stopped.loops
    PROVE  /\ handle' = NoLoop /\ loop' \in [Schedule!Loops -> LoopRecs]
           /\ \A k \in Schedule!Loops :
                LoopFits(k)' /\ loop'[k].st = loop[k].st /\ loop'[k].pc = loop[k].pc
<1>1. /\ loop \in [Schedule!Loops -> LoopRecs] /\ handle \in Schedule!Loops \cup {NoLoop}
      /\ NoLoop \notin Schedule!Loops
  BY ScheduleNumbers DEF ScheduleInv, ScheduleTypes
<1>2. /\ handle' = NoLoop
      /\ loop' = IF handle = NoLoop THEN loop ELSE [loop EXCEPT ![handle].cancelled = TRUE]
  BY DEF Schedule!Stopped
<1>3. CASE handle = NoLoop
  BY <1>1, <1>2, <1>3, LoopStays DEF ScheduleInv
<1>4. CASE handle # NoLoop
  <2> DEFINE r == [loop[handle] EXCEPT !.cancelled = TRUE]
  <2>1. handle \in Schedule!Loops /\ loop[handle] \in LoopRecs
    BY <1>1, <1>4
  <2>2. loop' = [loop EXCEPT ![handle] = r]
    BY <1>2, <1>4
  <2>3. /\ r \in LoopRecs /\ r.cancelled /\ r.pc = loop[handle].pc /\ r.cfg = loop[handle].cfg
        /\ r.st = loop[handle].st /\ r.at = loop[handle].at /\ r.base = loop[handle].base
        /\ r.fire = loop[handle].fire
    BY <2>1 DEF LoopRecs
  <2> HIDE DEF r
  <2>4. loop' \in [Schedule!Loops -> LoopRecs]
    BY <1>1, <2>1, <2>2, <2>3
  <2>5. ASSUME NEW k \in Schedule!Loops
        PROVE  LoopFits(k)' /\ loop'[k].st = loop[k].st /\ loop'[k].pc = loop[k].pc
    <3>1. LoopFits(k) /\ LoopFits(handle)
      BY <2>1 DEF ScheduleInv
    <3>2. CASE k = handle
      <4>1. loop'[k] = r /\ k # NoLoop
        BY <1>1, <2>1, <2>2, <3>2
      <4>2. Schedule!Serving(k)
        BY <3>1, <3>2 DEF LoopFits
      <4> QED
        BY <1>2, <2>3, <3>1, <3>2, <4>1, <4>2 DEF LoopFits, Schedule!Serving
    <3>3. CASE k # handle
      <4>1. loop'[k] = loop[k] /\ k # NoLoop
        BY <1>1, <2>1, <2>2, <3>3
      <4> QED
        BY <1>2, <3>1, <3>3, <4>1 DEF LoopFits, Schedule!Serving
    <3> QED
      BY <3>2, <3>3
  <2> QED
    BY <1>2, <2>4, <2>5
<1> QED
  BY <1>3, <1>4

LEMMA StartFits ==
    ASSUME ScheduleInv, Schedule!StartLoop(s1)
    PROVE  /\ handle' \in Schedule!Loops /\ loop' \in [Schedule!Loops -> LoopRecs]
           /\ \A k \in Schedule!Loops :
                /\ LoopFits(k)' /\ loop'[k].st = loop[k].st
                /\ loop[k].pc = "run" => loop'[k].pc = "run"
<1>1. /\ loop \in [Schedule!Loops -> LoopRecs] /\ handle = NoLoop /\ NoLoop \notin Schedule!Loops
      /\ saved \in RunConfigs /\ saver[s1].cfg = saved /\ Wanted(saved)
  BY ScheduleNumbers DEF ScheduleInv, ScheduleTypes, SaverFits, Schedule!StartLoop
<1>2. PICK l \in Schedule!Loops :
        /\ loop[l].pc = "none" /\ handle' = l
        /\ loop' = [loop EXCEPT ![l].pc = "load", ![l].cfg = saver[s1].cfg]
  BY DEF Schedule!StartLoop
<1>3. loop[l] \in LoopRecs /\ loop[l] = Schedule!Asleep /\ LoopFits(l)
  BY <1>1, <1>2 DEF ScheduleInv, LoopFits
<1> DEFINE r == [loop[l] EXCEPT !.pc = "load", !.cfg = saved]
<1>4. loop' = [loop EXCEPT ![l] = r]
  BY <1>1, <1>2
<1>5. /\ r \in LoopRecs /\ r.pc = "load" /\ r.cfg = saved /\ r.st = loop[l].st
      /\ r.cancelled = loop[l].cancelled
  BY <1>1, <1>3 DEF LoopRecs
<1>6. loop[l].cancelled = FALSE
  BY <1>3 DEF Schedule!Asleep
<1> HIDE DEF r
<1>7. loop' \in [Schedule!Loops -> LoopRecs]
  BY <1>1, <1>4, <1>5
<1>8. ASSUME NEW k \in Schedule!Loops
      PROVE  /\ LoopFits(k)' /\ loop'[k].st = loop[k].st
             /\ loop[k].pc = "run" => loop'[k].pc = "run"
  <2>1. LoopFits(k)
    BY DEF ScheduleInv
  <2>2. CASE k = l
    <3>1. loop'[k] = r
      BY <1>1, <1>4, <2>2
    <3> QED
      BY <1>1, <1>2, <1>5, <1>6, <2>2, <3>1 DEF LoopFits, Schedule!Serving
  <2>3. CASE k # l
    <3>1. loop'[k] = loop[k] /\ k # handle
      BY <1>1, <1>4, <2>3
    <3> QED
      BY <1>2, <2>1, <2>3, <3>1 DEF LoopFits, Schedule!Serving
  <2> QED
    BY <2>2, <2>3
<1> QED
  BY <1>2, <1>7, <1>8

\* A step of the saver in parts: its own record, the loops, and the status.
SaverMoves ==
    /\ \E r \in SaverRecs : saver' = [saver EXCEPT ![s1] = r] /\ Kept(r.st)
    /\ SaverFits'
    /\ handle' \in Schedule!Loops \cup {NoLoop}
    /\ loop' \in [Schedule!Loops -> LoopRecs]
    /\ \A k \in Schedule!Loops :
         /\ LoopFits(k)' /\ loop'[k].st = loop[k].st
         /\ loop[k].pc = "run" => loop'[k].pc = "run"
    /\ status' \in {status, saver[s1].st}
    /\ saved' \in RunConfigs \cup {BadConfig}
    /\ runDraft' \in RunConfigs \cup {NoConfig, BadConfig}
    /\ UNCHANGED <<clock, run, runs, probed, collided>>

LEMMA SaveStep ==
    ASSUME ScheduleInv, NEW c \in RunConfigs, Schedule!SaveBegin(s1, c) PROVE SaverMoves
<1> DEFINE r == [Schedule!NoSave EXCEPT !.pc = "discard", !.cfg = c]
<1>1. saver \in [{s1} -> SaverRecs] /\ saver' = [saver EXCEPT ![s1] = r]
  BY DEF ScheduleInv, ScheduleTypes, Schedule!SaveBegin
<1>2. Kept(Schedule!Blank) /\ Schedule!Blank \in Schedule!Statuses
  BY BlankKept DEF Kept, ScheduleInv
<1>3. r \in SaverRecs /\ r.pc = "discard" /\ r.cfg = c /\ r.st = Schedule!Blank
  <2>1. Schedule!NoSave \in SaverRecs
    BY <1>2 DEF Schedule!NoSave, SaverRecs
  <2>2. Schedule!NoSave.st = Schedule!Blank
    BY DEF Schedule!NoSave
  <2> QED
    BY <2>1, <2>2 DEF SaverRecs
<1> HIDE DEF r
<1>4. /\ saved' = c /\ UNCHANGED <<clock, runDraft, status, handle, loop, run, runs, probed,
                                   collided>>
  BY DEF Schedule!SaveBegin, Schedule!ghosts
<1>5. saver'[s1] = r
  BY <1>1
<1>6. SaverFits'
  BY <1>3, <1>4, <1>5 DEF SaverFits
<1>7. \A k \in Schedule!Loops : LoopFits(k)'
  BY <1>4, LoopStays DEF ScheduleInv
<1> QED
  BY <1>1, <1>2, <1>3, <1>4, <1>6, <1>7 DEF SaverMoves, ScheduleInv, ScheduleTypes

LEMMA SaverStepFits ==
    ASSUME ScheduleInv, Schedule!SaverStep(s1) PROVE SaverMoves
<1>1. /\ saver \in [{s1} -> SaverRecs] /\ saver[s1] \in SaverRecs
      /\ handle \in Schedule!Loops \cup {NoLoop} /\ loop \in [Schedule!Loops -> LoopRecs]
      /\ saved \in RunConfigs \cup {BadConfig} /\ runDraft \in RunConfigs \cup {NoConfig, BadConfig}
      /\ status \in Schedule!Statuses /\ Kept(status) /\ Kept(saver[s1].st)
      /\ BadConfig \notin RunConfigs /\ NoLoop \notin Schedule!Loops
  BY ScheduleNumbers DEF ScheduleInv, ScheduleTypes, KeptCopies
<1>2. ASSUME handle' = handle, loop' = loop
      PROVE  /\ handle' \in Schedule!Loops \cup {NoLoop}
             /\ loop' \in [Schedule!Loops -> LoopRecs]
             /\ \A k \in Schedule!Loops :
                  /\ LoopFits(k)' /\ loop'[k].st = loop[k].st
                  /\ loop[k].pc = "run" => loop'[k].pc = "run"
  BY <1>1, <1>2, LoopStays DEF ScheduleInv
<1>3. CASE Schedule!SaveDiscard(s1)
  <2>1. /\ saver[s1].pc = "discard" /\ Schedule!SetSaver(s1, "refresh") /\ runDraft' = NoConfig
        /\ UNCHANGED <<clock, saved, status, handle, loop, run, runs, probed, collided>>
    BY <1>3 DEF Schedule!SaveDiscard, Schedule!ghosts
  <2>2. PICK r \in SaverRecs : /\ saver' = [saver EXCEPT ![s1] = r] /\ Kept(r.st)
                               /\ r.pc = "refresh" /\ r.cfg = saver[s1].cfg
    BY <2>1, SetSaverIs DEF SaverPcs
  <2>3. saver'[s1] = r
    BY <1>1, <2>2
  <2>4. SaverFits'
    BY <2>1, <2>2, <2>3 DEF SaverFits, ScheduleInv
  <2> QED
    BY <1>1, <1>2, <2>1, <2>2, <2>4 DEF SaverMoves
<1>4. CASE Schedule!RefreshLoad(s1)
  <2> DEFINE q == IF saver[s1].pc = "refresh" THEN "write" ELSE "write2"
             st == Schedule!Refreshed(status, saver[s1].cfg)
             r == [saver[s1] EXCEPT !.pc = q, !.st = st]
  <2>1. /\ saver[s1].pc \in {"refresh", "refresh2"} /\ saver' = [saver EXCEPT ![s1] = r]
        /\ UNCHANGED <<clock, saved, runDraft, status, handle, loop, run, runs, probed, collided>>
    BY <1>1, <1>4 DEF Schedule!RefreshLoad, Schedule!ghosts, Schedule!files
  <2>2. saved \in RunConfigs /\ saver[s1].cfg = saved
    BY <2>1 DEF ScheduleInv, SaverFits
  <2>3. st \in Schedule!Statuses /\ Kept(st) /\ (st.next > 0 <=> Wanted(saved))
    BY <2>2, RefreshedKept
  <2> HIDE DEF st
  <2>4. r \in SaverRecs /\ r.pc = q /\ r.cfg = saved /\ r.st = st
    BY <1>1, <2>2, <2>3 DEF SaverRecs
  <2> HIDE DEF r
  <2>5. saver'[s1] = r
    BY <1>1, <2>1
  <2>6. SaverFits'
    BY <2>1, <2>2, <2>3, <2>4, <2>5 DEF SaverFits, ScheduleInv
  <2> QED
    BY <1>1, <1>2, <2>1, <2>3, <2>4, <2>6 DEF SaverMoves
<1>5. CASE Schedule!RefreshWrite(s1)
  <2> DEFINE q == IF saver[s1].pc = "write" THEN "stop"
                  ELSE IF saver[s1].cfg.enabled /\ saver[s1].st.next > 0
                  THEN "start" ELSE "idle"
  <2>1. /\ saver[s1].pc \in {"write", "write2"} /\ Schedule!SetSaver(s1, q)
        /\ status' = saver[s1].st
        /\ UNCHANGED <<clock, saved, runDraft, handle, loop, run, runs, probed, collided>>
    BY <1>5 DEF Schedule!RefreshWrite, Schedule!ghosts, Schedule!files
  <2>2. q \in SaverPcs
    BY DEF SaverPcs
  <2>3. PICK r \in SaverRecs :
          /\ saver' = [saver EXCEPT ![s1] = r] /\ Kept(r.st) /\ r.pc = q
          /\ q # "idle" => r.cfg = saver[s1].cfg
    BY <2>1, <2>2, SetSaverIs
  <2>4. saver'[s1] = r
    BY <1>1, <2>3
  <2>5. saved \in RunConfigs /\ saver[s1].cfg = saved
    BY <2>1 DEF ScheduleInv, SaverFits
  <2>6. SaverFits'
    BY <1>1, <2>1, <2>3, <2>4, <2>5 DEF SaverFits, ScheduleInv, Wanted
  <2> QED
    BY <1>1, <1>2, <2>1, <2>3, <2>6 DEF SaverMoves
<1>6. CASE Schedule!StopScheduler(s1)
  <2>1. /\ saver[s1].pc = "stop" /\ Schedule!SetSaver(s1, "refresh2")
        /\ handle' = Schedule!Stopped.h /\ loop' = Schedule!Stopped.loops
        /\ UNCHANGED <<clock, saved, runDraft, status, run, runs, probed, collided>>
    BY <1>6 DEF Schedule!StopScheduler, Schedule!ghosts, Schedule!files
  <2>2. PICK r \in SaverRecs : /\ saver' = [saver EXCEPT ![s1] = r] /\ Kept(r.st)
                               /\ r.pc = "refresh2" /\ r.cfg = saver[s1].cfg
    BY <2>1, SetSaverIs DEF SaverPcs
  <2>3. saver'[s1] = r
    BY <1>1, <2>2
  <2>4. /\ handle' = NoLoop /\ loop' \in [Schedule!Loops -> LoopRecs]
        /\ \A k \in Schedule!Loops :
             LoopFits(k)' /\ loop'[k].st = loop[k].st /\ loop'[k].pc = loop[k].pc
    BY <2>1, StoppedFits
  <2>5. SaverFits'
    BY <2>1, <2>2, <2>3, <2>4 DEF SaverFits, ScheduleInv
  <2> QED
    BY <1>1, <2>1, <2>2, <2>4, <2>5 DEF SaverMoves
<1>7. CASE Schedule!StartLoop(s1)
  <2>1. /\ saver[s1].pc = "start" /\ Schedule!SetSaver(s1, "idle")
        /\ UNCHANGED <<clock, saved, runDraft, status, run, runs, probed, collided>>
    BY <1>7 DEF Schedule!StartLoop, Schedule!ghosts, Schedule!files
  <2>2. PICK r \in SaverRecs :
          saver' = [saver EXCEPT ![s1] = r] /\ Kept(r.st) /\ r.pc = "idle"
    BY <2>1, SetSaverIs DEF SaverPcs
  <2>3. saver'[s1] = r
    BY <1>1, <2>2
  <2>4. /\ handle' \in Schedule!Loops /\ loop' \in [Schedule!Loops -> LoopRecs]
        /\ \A k \in Schedule!Loops :
             /\ LoopFits(k)' /\ loop'[k].st = loop[k].st
             /\ loop[k].pc = "run" => loop'[k].pc = "run"
    BY <1>7, StartFits
  <2>5. saved \in RunConfigs /\ Wanted(saved)
    BY <2>1 DEF ScheduleInv, SaverFits
  <2>6. SaverFits'
    BY <1>1, <2>1, <2>2, <2>3, <2>4, <2>5 DEF SaverFits
  <2> QED
    BY <1>1, <2>1, <2>2, <2>4, <2>6 DEF SaverMoves
<1>8. CASE Schedule!ReloadBad(s1)
  <2> DEFINE st == [status EXCEPT !.enabled = FALSE, !.next = 0, !.stage = "load_config_failed"]
             r == [saver[s1] EXCEPT !.pc = "badWrite", !.st = st]
  <2>1. /\ saver[s1].pc = "bad" /\ saver' = [saver EXCEPT ![s1] = r]
        /\ handle' = Schedule!Stopped.h /\ loop' = Schedule!Stopped.loops
        /\ UNCHANGED <<clock, saved, runDraft, status, run, runs, probed, collided>>
    BY <1>1, <1>8 DEF Schedule!ReloadBad, Schedule!ghosts, Schedule!files
  <2>2. /\ st \in Schedule!Statuses /\ st.lastRun = status.lastRun /\ st.task = status.task
        /\ st.probe = status.probe /\ st.dns = status.dns /\ st.github = status.github
    BY <1>1 DEF Schedule!Statuses, Schedule!Stages
  <2> HIDE DEF st
  <2>3. Kept(st)
    BY <1>1, <2>2, SameTale
  <2>4. r \in SaverRecs /\ r.pc = "badWrite" /\ r.st = st
    BY <1>1, <2>2 DEF SaverRecs
  <2> HIDE DEF r
  <2>5. saver'[s1] = r
    BY <1>1, <2>1
  <2>6. /\ handle' = NoLoop /\ loop' \in [Schedule!Loops -> LoopRecs]
        /\ \A k \in Schedule!Loops :
             LoopFits(k)' /\ loop'[k].st = loop[k].st /\ loop'[k].pc = loop[k].pc
    BY <2>1, StoppedFits
  <2>7. SaverFits'
    BY <2>1, <2>4, <2>5, <2>6 DEF SaverFits, ScheduleInv
  <2> QED
    BY <1>1, <2>1, <2>3, <2>4, <2>6, <2>7 DEF SaverMoves
<1>9. CASE Schedule!ReloadBadWrite(s1)
  <2>1. /\ saver[s1].pc = "badWrite" /\ Schedule!SetSaver(s1, "idle")
        /\ status' = saver[s1].st
        /\ UNCHANGED <<clock, saved, runDraft, handle, loop, run, runs, probed, collided>>
    BY <1>9 DEF Schedule!ReloadBadWrite, Schedule!ghosts, Schedule!files
  <2>2. PICK r \in SaverRecs :
          saver' = [saver EXCEPT ![s1] = r] /\ Kept(r.st) /\ r.pc = "idle"
    BY <2>1, SetSaverIs DEF SaverPcs
  <2>3. saver'[s1] = r
    BY <1>1, <2>2
  <2>4. handle = NoLoop
    BY <2>1 DEF ScheduleInv, SaverFits
  <2>5. saved = BadConfig
    BY <2>1, <1>1 DEF ScheduleInv, SaverFits
  <2>6. SaverFits'
    BY <2>1, <2>2, <2>3, <2>4, <2>5 DEF SaverFits
  <2> QED
    BY <1>1, <1>2, <2>1, <2>2, <2>6 DEF SaverMoves
<1> QED
  BY <1>3, <1>4, <1>5, <1>6, <1>7, <1>8, <1>9 DEF Schedule!SaverStep

-----------------------------------------------------------------------------
(* Every step keeps the invariant.                                         *)

LEMMA SaverKeeps ==
    ASSUME ScheduleInv, Schedule!Next, SaverMoves PROVE ScheduleInv'
<1>1. PICK r \in SaverRecs : saver' = [saver EXCEPT ![s1] = r] /\ Kept(r.st)
  BY DEF SaverMoves
<1>2. /\ saver \in [{s1} -> SaverRecs] /\ Kept(status) /\ Kept(saver[s1].st)
      /\ \A l \in Schedule!Loops : Kept(loop[l].st)
      /\ ScheduleTypes /\ RunFits
  BY DEF ScheduleInv, ScheduleTypes, KeptCopies
<1>3. saver' \in [{s1} -> SaverRecs] /\ saver'[s1].st = r.st
  BY <1>1, <1>2
<1>4. /\ status' \in {status, saver[s1].st} /\ SaverFits'
      /\ UNCHANGED <<clock, run, runs, probed, collided>>
      /\ loop' \in [Schedule!Loops -> LoopRecs]
      /\ \A k \in Schedule!Loops :
           /\ LoopFits(k)' /\ loop'[k].st = loop[k].st
           /\ loop[k].pc = "run" => loop'[k].pc = "run"
  BY DEF SaverMoves
<1>5. KeptCopies'
  <2>1. Kept(status)'
    <3>1. PICK st \in {status, saver[s1].st} : st = status'
      BY <1>4
    <3>2. Kept(st)
      BY <1>2, <3>1
    <3>3. Kept(st)'
      BY <1>2, <3>2, KeptStays
    <3> QED
      BY <3>1, <3>3 DEF Kept
  <2>2. Kept(saver[s1].st)'
    <3>1. Kept(r.st)'
      BY <1>1, <1>2, KeptStays
    <3> QED
      BY <1>3, <3>1 DEF Kept
  <2>3. ASSUME NEW l \in Schedule!Loops PROVE Kept(loop[l].st)'
    <3>1. PICK st : st = loop[l].st
      OBVIOUS
    <3>2. Kept(st)'
      BY <1>2, <3>1, KeptStays
    <3> QED
      BY <1>4, <3>1, <3>2 DEF Kept
  <2> QED
    BY <2>1, <2>2, <2>3 DEF KeptCopies
<1>6. clock \in Nat
  BY <1>2, ScheduleNumbers DEF ScheduleTypes
<1>7. (run \in RunRecs)' /\ RunFits'
  BY <1>2, <1>4, <1>6, OtherRunStays
<1>8. status' \in Schedule!Statuses
  BY <1>5 DEF KeptCopies, Kept
<1>9. ScheduleTypes'
  BY <1>2, <1>3, <1>4, <1>7, <1>8 DEF ScheduleTypes, SaverMoves
<1> QED
  BY <1>4, <1>5, <1>7, <1>9 DEF ScheduleInv

LEMMA LoopKeeps ==
    ASSUME ScheduleInv, Schedule!Next, NEW l \in Schedule!Loops, Schedule!LoopStep(l)
    PROVE  ScheduleInv'
<1>1. PICK r \in LoopRecs :
        loop' = [loop EXCEPT ![l] = r] /\ Kept(r.st) /\ LoopFits(l)'
  BY LoopStepFits
<1>2. /\ loop[l].pc # "run" /\ status' \in {status, loop[l].st}
      /\ UNCHANGED <<clock, saved, runDraft, handle, saver, run, runs, probed, collided>>
  BY LoopStepFits
<1>3. /\ loop \in [Schedule!Loops -> LoopRecs] /\ Kept(status) /\ Kept(saver[s1].st)
      /\ \A k \in Schedule!Loops : Kept(loop[k].st) /\ LoopFits(k)
      /\ ScheduleTypes /\ RunFits /\ SaverFits
  BY DEF ScheduleInv, ScheduleTypes, KeptCopies
<1>4. /\ loop' \in [Schedule!Loops -> LoopRecs] /\ loop'[l] = r
      /\ \A k \in Schedule!Loops : k # l => loop'[k] = loop[k]
  BY <1>1, <1>3
<1>5. \A k \in Schedule!Loops : LoopFits(k)'
  <2> SUFFICES ASSUME NEW k \in Schedule!Loops, k # l PROVE LoopFits(k)'
    BY <1>1
  <2> QED
    BY <1>2, <1>3, <1>4, LoopStays
<1>6. KeptCopies'
  <2>1. Kept(status)'
    <3>1. PICK st \in {status, loop[l].st} : st = status'
      BY <1>2
    <3>2. Kept(st)
      BY <1>3, <3>1
    <3>3. Kept(st)'
      BY <1>3, <3>2, KeptStays
    <3> QED
      BY <3>1, <3>3 DEF Kept
  <2>2. Kept(saver[s1].st)'
    <3>1. PICK st : st = saver[s1].st
      OBVIOUS
    <3>2. Kept(st)'
      BY <1>3, <3>1, KeptStays
    <3> QED
      BY <1>2, <3>1, <3>2 DEF Kept
  <2>3. ASSUME NEW k \in Schedule!Loops PROVE Kept(loop[k].st)'
    <3>1. PICK st : st = IF k = l THEN r.st ELSE loop[k].st
      OBVIOUS
    <3>2. Kept(st)
      BY <1>1, <1>3, <3>1
    <3>3. Kept(st)'
      BY <1>3, <3>2, KeptStays
    <3>4. loop'[k].st = st
      BY <1>4, <3>1
    <3> QED
      BY <3>3, <3>4 DEF Kept
  <2> QED
    BY <2>1, <2>2, <2>3 DEF KeptCopies
<1>7. clock \in Nat
  BY <1>3, ScheduleNumbers DEF ScheduleTypes
<1>8. (run \in RunRecs)' /\ RunFits'
  <2>1. \A k \in Schedule!Loops : loop[k].pc = "run" => loop'[k].pc = "run"
    BY <1>2, <1>4
  <2> QED
    BY <1>2, <1>3, <1>7, <2>1, OtherRunStays
<1>9. status' \in Schedule!Statuses
  BY <1>6 DEF KeptCopies, Kept
<1>10. ScheduleTypes'
  BY <1>2, <1>3, <1>4, <1>8, <1>9 DEF ScheduleTypes
<1>11. SaverFits'
  BY <1>2, <1>3 DEF SaverFits
<1> QED
  BY <1>5, <1>6, <1>8, <1>10, <1>11 DEF ScheduleInv

\* A step that leaves the saver and the files alone, and at most moves the loop
\* of the run.
LEMMA RunKeeps ==
    ASSUME ScheduleInv, Schedule!Next,
           UNCHANGED <<saved, handle, saver>>, runDraft' \in RunConfigs \cup {NoConfig, BadConfig},
           clock' \in 1 .. MaxTime, runs' \in 0 .. MaxRuns, collided' \subseteq 1 .. runs',
           (run \in RunRecs)', RunFits', Kept(status)',
           loop' \in [Schedule!Loops -> LoopRecs],
           \A k \in Schedule!Loops : LoopFits(k)' /\ loop'[k].st = loop[k].st
    PROVE  ScheduleInv'
<1>1. /\ Kept(saver[s1].st) /\ \A k \in Schedule!Loops : Kept(loop[k].st)
      /\ ScheduleTypes /\ RunFits /\ SaverFits
  BY DEF ScheduleInv, KeptCopies
<1>2. KeptCopies'
  <2>1. Kept(saver[s1].st)'
    <3>1. PICK st : st = saver[s1].st
      OBVIOUS
    <3>2. Kept(st)'
      BY <1>1, <3>1, KeptStays
    <3> QED
      BY <3>1, <3>2 DEF Kept
  <2>2. ASSUME NEW k \in Schedule!Loops PROVE Kept(loop[k].st)'
    <3>1. PICK st : st = loop[k].st
      OBVIOUS
    <3>2. Kept(st)'
      BY <1>1, <3>1, KeptStays
    <3> QED
      BY <3>1, <3>2 DEF Kept
  <2> QED
    BY <2>1, <2>2 DEF KeptCopies
<1>3. status' \in Schedule!Statuses
  BY DEF Kept
<1>4. ScheduleTypes'
  BY <1>1, <1>3 DEF ScheduleTypes
<1>5. SaverFits'
  BY <1>1 DEF SaverFits
<1> QED
  BY <1>2, <1>4, <1>5 DEF ScheduleInv

LEMMA SameLoops ==
    ASSUME ScheduleInv, UNCHANGED <<handle, loop>>
    PROVE  /\ loop' \in [Schedule!Loops -> LoopRecs]
           /\ \A k \in Schedule!Loops : LoopFits(k)' /\ loop'[k].st = loop[k].st
  BY LoopStays DEF ScheduleInv, ScheduleTypes

LEMMA StatusStays ==
    ASSUME ScheduleInv, Schedule!Next, status' = status PROVE Kept(status)'
<1>1. PICK st : st = status
  OBVIOUS
<1>2. Kept(st)'
  BY <1>1, KeptStays DEF ScheduleInv, KeptCopies
<1> QED
  BY <1>1, <1>2 DEF Kept

LEMMA BeginKeeps ==
    ASSUME ScheduleInv, Schedule!Next, NEW o \in Schedule!Loops \cup {Command},
           Schedule!RunBegin(o)
    PROVE  ScheduleInv'
<1>1. ScheduleTypes /\ RunFits /\ Command \notin Schedule!Loops
  BY ScheduleNumbers DEF ScheduleInv
<1>2. (run \in RunRecs)' /\ RunFits' /\ runs' = runs + 1 /\ runs' \in 0 .. MaxRuns
  BY <1>1, BeginStep
<1>3. UNCHANGED <<clock, saved, runDraft, status, handle, saver, collided>>
  BY DEF Schedule!RunBegin, Schedule!ghosts, Schedule!files
<1>4. /\ loop' \in [Schedule!Loops -> LoopRecs]
      /\ \A k \in Schedule!Loops : LoopFits(k)' /\ loop'[k].st = loop[k].st
  <2>1. CASE o = Command
    BY <1>3, <2>1, SameLoops DEF Schedule!RunBegin
  <2>2. CASE o # Command
    <3>1. /\ o \in Schedule!Loops /\ loop[o].pc = "want"
          /\ loop' = [loop EXCEPT ![o].pc = "run"]
      BY <2>2 DEF Schedule!RunBegin
    <3> QED
      BY <1>3, <3>1, OwnerStep
  <2> QED
    BY <2>1, <2>2
<1>5. Kept(status)'
  BY <1>3, StatusStays
<1>6. clock' \in 1 .. MaxTime /\ collided' \subseteq 1 .. runs'
      /\ runDraft' \in RunConfigs \cup {NoConfig, BadConfig}
  <2>1. runs \in Nat /\ collided \subseteq 1 .. runs
    BY <1>1, ScheduleNumbers DEF ScheduleTypes
  <2>2. \A t \in 1 .. runs : t \in 1 .. runs'
    BY <1>2, <2>1
  <2>3. collided' \subseteq 1 .. runs'
    BY <1>3, <2>1, <2>2
  <2> QED
    BY <1>1, <1>3, <2>3 DEF ScheduleTypes
<1> QED
  BY <1>2, <1>3, <1>4, <1>5, <1>6, RunKeeps

LEMMA WriteKeeps ==
    ASSUME ScheduleInv, Schedule!Next, Schedule!RunWrite PROVE ScheduleInv'
<1>1. ScheduleTypes /\ RunFits /\ Command \notin Schedule!Loops
  BY ScheduleNumbers DEF ScheduleInv
<1>2. (run \in RunRecs)' /\ RunFits'
  BY <1>1, WriteStep
<1>3. /\ UNCHANGED <<clock, saved, runDraft, handle, saver, runs, collided>>
      /\ run.pc = "write" /\ status' = run.st
  BY DEF Schedule!RunWrite, Schedule!ghosts, Schedule!files
<1>4. /\ loop' \in [Schedule!Loops -> LoopRecs]
      /\ \A k \in Schedule!Loops : LoopFits(k)' /\ loop'[k].st = loop[k].st
  <2>1. CASE UNCHANGED loop
    BY <1>3, <2>1, SameLoops
  <2>2. CASE ~UNCHANGED loop
    <3>1. /\ run.owner # Command
          /\ loop' = [loop EXCEPT ![run.owner].pc = IF run.ok THEN "load" ELSE "note"]
      BY <2>2 DEF Schedule!RunWrite
    <3>2. run.owner \in Schedule!Loops /\ loop[run.owner].pc = "run"
      BY <1>1, <1>3, <3>1 DEF RunFits
    <3>3. PICK o \in Schedule!Loops : o = run.owner
      BY <3>2
    <3>4. PICK q \in {"run", "load", "note"} : q = IF run.ok THEN "load" ELSE "note"
      OBVIOUS
    <3>5. loop' = [loop EXCEPT ![o].pc = q] /\ loop[o].pc \in {"want", "run"}
      BY <3>1, <3>2, <3>3, <3>4
    <3> QED
      BY <1>3, <3>5, OwnerStep
  <2> QED
    BY <2>1, <2>2
<1>5. Kept(status)'
  <2>1. PICK st : st = run.st
    OBVIOUS
  <2>2. Kept(st)'
    BY <1>1, <2>1, WrittenKept
  <2> QED
    BY <1>3, <2>1, <2>2 DEF Kept
<1>6. /\ clock' \in 1 .. MaxTime /\ runs' \in 0 .. MaxRuns /\ collided' \subseteq 1 .. runs'
      /\ runDraft' \in RunConfigs \cup {NoConfig, BadConfig}
  BY <1>1, <1>3 DEF ScheduleTypes
<1> QED
  BY <1>2, <1>3, <1>4, <1>5, <1>6, RunKeeps

LEMMA ProbingKeeps ==
    ASSUME ScheduleInv, Schedule!Next,
           Schedule!RunDecide \/ Schedule!RunProbe \/ Schedule!RunProbed \/ Schedule!RunUpload
    PROVE  ScheduleInv'
<1>1. ScheduleTypes /\ RunFits
  BY DEF ScheduleInv
<1>2. UNCHANGED <<clock, saved, runDraft, status, handle, loop, saver, runs>>
  BY DEF Schedule!RunDecide, Schedule!RunProbe, Schedule!RunProbed, Schedule!RunUpload,
     Schedule!files
<1>3. (run \in RunRecs)' /\ RunFits' /\ collided' \subseteq collided \cup {runs}
  <2>1. CASE Schedule!RunDecide
    BY <1>1, <2>1, DecideStep
  <2>2. CASE Schedule!RunProbe
    BY <1>1, <2>2, ProbeStep
  <2>3. CASE Schedule!RunProbed
    BY <1>1, <2>3, ProbedStep
  <2>4. CASE Schedule!RunUpload
    <3>1. collided' = collided
      BY <2>4 DEF Schedule!RunUpload, Schedule!ghosts
    <3> QED
      BY <1>1, <2>4, <3>1, UploadStep
  <2> QED
    BY <2>1, <2>2, <2>3, <2>4
<1>4. Kept(status)'
  BY <1>2, StatusStays
<1>5. runs \in Nat /\ runs > 0 /\ collided \subseteq 1 .. runs
  <2>1. run.pc # "idle"
    BY DEF Schedule!RunDecide, Schedule!RunProbe, Schedule!RunProbed, Schedule!RunUpload
  <2> QED
    BY <1>1, <2>1, ScheduleNumbers DEF ScheduleTypes, RunFits
<1>6. /\ clock' \in 1 .. MaxTime /\ runs' \in 0 .. MaxRuns
      /\ runDraft' \in RunConfigs \cup {NoConfig, BadConfig}
  BY <1>1, <1>2 DEF ScheduleTypes
<1>7. collided' \subseteq 1 .. runs'
  <2>1. runs \in 1 .. runs
    BY <1>5
  <2> QED
    BY <1>2, <1>3, <1>5, <2>1
<1> QED
  BY <1>2, <1>3, <1>4, <1>6, <1>7, SameLoops, RunKeeps

LEMMA OutsideKeeps ==
    ASSUME ScheduleInv, Schedule!Next,
           (\E c \in RunConfigs : Schedule!SaveDraft(c)) \/ Schedule!Tick
    PROVE  ScheduleInv'
<1>1. ScheduleTypes /\ RunFits /\ MaxTime \in Nat
  BY ScheduleNumbers DEF ScheduleInv
<1>2. /\ UNCHANGED <<saved, status, handle, loop, saver, run, runs, probed, collided>>
      /\ runDraft' \in RunConfigs \cup {runDraft}
      /\ clock' = clock \/ (clock' = clock + 1 /\ clock < MaxTime)
  BY DEF Schedule!SaveDraft, Schedule!Tick, Schedule!files, Schedule!ghosts
<1>3. clock \in Nat /\ clock' \in 1 .. MaxTime /\ clock' \in Nat /\ clock <= clock'
  BY <1>1, <1>2 DEF ScheduleTypes
<1>4. (run \in RunRecs)' /\ RunFits'
  BY <1>1, <1>2, <1>3, OtherRunStays
<1>5. Kept(status)'
  BY <1>2, StatusStays
<1>6. /\ runs' \in 0 .. MaxRuns /\ collided' \subseteq 1 .. runs'
      /\ runDraft' \in RunConfigs \cup {NoConfig, BadConfig}
  BY <1>1, <1>2 DEF ScheduleTypes
<1> QED
  BY <1>2, <1>3, <1>4, <1>5, <1>6, SameLoops, RunKeeps

LEMMA ScheduleStep == ASSUME ScheduleInv, Schedule!Next PROVE ScheduleInv'
<1>1. CASE \E p \in {s1} : (\E c \in RunConfigs : Schedule!SaveBegin(p, c)) \/ Schedule!SaverStep(p)
  BY <1>1, SaveStep, SaverStepFits, SaverKeeps
<1>2. CASE \E l \in Schedule!Loops : Schedule!LoopStep(l)
  BY <1>2, LoopKeeps
<1>3. CASE \E o \in Schedule!Loops \cup {Command} : Schedule!RunBegin(o)
  BY <1>3, BeginKeeps
<1>4. CASE Schedule!RunStep
  BY <1>4, WriteKeeps, ProbingKeeps DEF Schedule!RunStep
<1>5. CASE (\E c \in RunConfigs : Schedule!SaveDraft(c)) \/ Schedule!Tick
  BY <1>5, OutsideKeeps
<1> QED
  BY <1>1, <1>2, <1>3, <1>4, <1>5 DEF Schedule!Next

LEMMA ScheduleInit == ASSUME Schedule!Init PROVE ScheduleInv
<1>1. /\ clock = 1 /\ saved \in RunConfigs \cup {BadConfig} /\ runDraft \in {NoConfig, BadConfig}
      /\ status = Schedule!Blank /\ handle = NoLoop
      /\ loop = [l \in Schedule!Loops |-> Schedule!Asleep] /\ run = Schedule!NoRun
      /\ runs = 0 /\ collided = {}
      /\ saver = [p \in {s1} |-> IF saved = BadConfig
                                 THEN [Schedule!NoSave EXCEPT !.pc = "bad"]
                                 ELSE [Schedule!NoSave EXCEPT !.pc = "stop", !.cfg = saved]]
  BY DEF Schedule!Init
<1>2. Schedule!Blank \in Schedule!Statuses
  BY DEF Schedule!Blank, Schedule!Statuses, Schedule!Probes, Schedule!Uploads, Schedule!Stages
<1>3. MaxTime \in Nat \ {0} /\ MaxRuns \in Nat /\ NoLoop \notin Schedule!Loops
  BY ScheduleNumbers
<1>4. /\ Schedule!Asleep \in LoopRecs
      /\ Schedule!Asleep.pc = "none" /\ Schedule!Asleep.st = Schedule!Blank
  <2>1. 0 \in 0 .. MaxTime
    BY <1>3
  <2>2. Schedule!Asleep \in LoopRecs
    BY <1>2, <2>1 DEF Schedule!Asleep, LoopRecs
  <2>3. Schedule!Asleep.pc = "none" /\ Schedule!Asleep.st = Schedule!Blank
    BY DEF Schedule!Asleep
  <2> QED
    BY <2>2, <2>3
<1>5. /\ Schedule!NoRun \in RunRecs /\ Schedule!NoRun.pc = "idle"
  <2>1. 0 \in 0 .. MaxTime
    BY <1>3
  <2>2. Schedule!NoRun \in RunRecs
    BY <1>2, <2>1 DEF Schedule!NoRun, RunRecs
  <2>3. Schedule!NoRun.pc = "idle"
    BY DEF Schedule!NoRun
  <2> QED
    BY <2>2, <2>3
<1>6. /\ saver \in [{s1} -> SaverRecs] /\ saver[s1].st = Schedule!Blank
      /\ saved = BadConfig => saver[s1].pc = "bad"
      /\ saved # BadConfig => saver[s1].pc = "stop" /\ saver[s1].cfg = saved
  <2>1. Schedule!NoSave \in SaverRecs /\ Schedule!NoSave.st = Schedule!Blank
    <3>1. Schedule!NoSave.st = Schedule!Blank
      BY DEF Schedule!NoSave
    <3>2. Schedule!NoSave \in SaverRecs
      BY <1>2 DEF Schedule!NoSave, SaverRecs
    <3> QED
      BY <3>1, <3>2
  <2>2. CASE saved = BadConfig
    <3> DEFINE r == [Schedule!NoSave EXCEPT !.pc = "bad"]
    <3>1. r \in SaverRecs /\ r.st = Schedule!Blank /\ r.pc = "bad"
      BY <2>1 DEF SaverRecs
    <3>2. saver = [p \in {s1} |-> r]
      BY <1>1, <2>2
    <3> HIDE DEF r
    <3> QED
      BY <2>2, <3>1, <3>2
  <2>3. CASE saved # BadConfig
    <3> DEFINE r == [Schedule!NoSave EXCEPT !.pc = "stop", !.cfg = saved]
    <3>1. r \in SaverRecs /\ r.st = Schedule!Blank /\ r.pc = "stop" /\ r.cfg = saved
      BY <1>1, <2>1, <2>3 DEF SaverRecs
    <3>2. saver = [p \in {s1} |-> r]
      BY <1>1, <2>3
    <3> HIDE DEF r
    <3> QED
      BY <2>3, <3>1, <3>2
  <2> QED
    BY <2>2, <2>3
<1>7. ScheduleTypes
  <2>1. /\ loop \in [Schedule!Loops -> LoopRecs] /\ clock \in 1 .. MaxTime
        /\ runs \in 0 .. MaxRuns /\ collided \subseteq 1 .. runs
    BY <1>1, <1>3, <1>4
  <2> QED
    BY <1>1, <1>2, <1>5, <1>6, <2>1 DEF ScheduleTypes
<1>8. RunFits
  BY <1>1, <1>5 DEF RunFits, Under
<1>9. KeptCopies
  BY <1>1, <1>4, <1>6, <1>7, <1>8, BlankKept DEF KeptCopies
<1>10. \A l \in Schedule!Loops : LoopFits(l)
  BY <1>1, <1>3, <1>4 DEF LoopFits, Schedule!Serving
<1>11. SaverFits
  BY <1>1, <1>6 DEF SaverFits
<1> QED
  BY <1>7, <1>8, <1>9, <1>10, <1>11 DEF ScheduleInv

LEMMA ScheduleStays == ASSUME ScheduleInv, UNCHANGED scheduleVars PROVE ScheduleInv'
<1>1. UNCHANGED <<clock, saved, runDraft, status, handle, loop, saver, run, runs, probed, collided>>
  BY DEF scheduleVars
<1>2. ScheduleTypes' /\ KeptCopies' /\ SaverFits' /\ RunFits'
  BY <1>1 DEF ScheduleInv, ScheduleTypes, KeptCopies, Kept, Told, SaverFits, RunFits, Under
<1>3. \A l \in Schedule!Loops : LoopFits(l)'
  BY <1>1, LoopStays DEF ScheduleInv
<1> QED
  BY <1>2, <1>3 DEF ScheduleInv

\* A loop sleeps until the first due time, there is one loop exactly when runs
\* are asked for, a run that meets an active probe is written down as skipped,
\* and no upload is told of without a probe (scheduler.go, scheduler_service.go).
THEOREM ScheduleKept == Spec => []ScheduleSafe
<1> DEFINE Inv == part = "schedule" => ScheduleInv
<1>1. Init => Inv
  BY ScheduleInit DEF Init
<1>2. Inv /\ [Next]_vars => Inv'
  <2> SUFFICES ASSUME Inv, [Next]_vars, part' = "schedule" PROVE ScheduleInv'
    OBVIOUS
  <2>1. /\ part = "schedule" /\ ScheduleInv
        /\ Schedule!Next \/ UNCHANGED scheduleVars
    BY DEF Next, vars
  <2> QED
    BY <2>1, ScheduleStep, ScheduleStays
<1>3. Inv => ScheduleSafe
  BY ScheduleInvSafe DEF ScheduleSafe
<1> QED
  BY <1>1, <1>2, <1>3, PTL DEF Spec

-----------------------------------------------------------------------------
(* The uploads.                                                            *)

\* What a job may have reported, and where it may be.
UploadReports == [status : Upload!Statuses \cup {"none"}, count : Nat]
UploadPlaces == {"begin", "cf", "pushing", "gh", "get", "put", "notice", "send",
                 "failure", "finish", "over"}
UploadTypes ==
    /\ work \in [UploadJobs -> Works] /\ pc \in [UploadJobs -> UploadPlaces]
    /\ halt \in [UploadJobs -> {"run", "paused", "cancelled"}]
    /\ report \in [UploadJobs -> [Upload!Providers -> UploadReports]]
    /\ rows \in [UploadJobs -> Seq(STRING)]
    /\ sent \in [UploadJobs -> [notice : BOOLEAN, failure : BOOLEAN]]
    /\ begun \in [UploadJobs -> [Upload!Providers -> Nat]]
    /\ done \in [UploadJobs -> [Upload!Providers -> Nat]]
    /\ late \in [UploadJobs -> Nat]
    /\ DOMAIN notice = UploadJobs /\ DOMAIN result = UploadJobs
    /\ faults \in 0 .. UploadFaults /\ others \in 0 .. Commits

\* A provider is begun once, and of an automatic upload not while halted.
BegunFits(j) ==
    /\ \A p \in Upload!Providers : begun[j][p] \in 0 .. 1
    /\ pc[j] \in {"begin", "cf"} => begun[j]["cf"] = 0
    /\ pc[j] \in {"begin", "cf", "pushing", "gh"} => begun[j]["gh"] = 0
    /\ Upload!Kind(j) = "auto" => late[j] = 0
    /\ Upload!Kind(j) = "scheduled" =>
         /\ pc[j] \in {"cf", "gh"} => work[j][pc[j]]
         /\ \A p \in Upload!Providers : begun[j][p] > 0 => work[j][p]

\* The report of a provider that has ended is true: it is complete only when all
\* rows were taken, and skipped only when there was none.
BusyWith(j, p) == pc[j] \in (IF p = "cf" THEN {"pushing"} ELSE {"get", "put"})
ToldTruly(j, p) ==
    /\ report[j][p].status \in Upload!Statuses
    /\ report[j][p].status = "completed" =>
         report[j][p].count = Upload!Whole(j, p) /\ done[j][p] = Upload!Whole(j, p)
    /\ report[j][p].status = "skipped" => done[j][p] = Upload!Whole(j, p)
ReportFits(j) ==
    /\ Len(rows[j]) <= Len(work[j].rows)
    /\ \A p \in Upload!Providers :
         /\ report[j][p].count <= Len(work[j].rows)
         /\ begun[j][p] > 0 /\ ~BusyWith(j, p) => ToldTruly(j, p)

\* The notification tells the reports, and is sent unless the context is over.
Silent(j) == \A p \in Upload!Providers : begun[j][p] = 0
Alarmed(j) == sent[j].failure \/ ~Upload!UploadNotificationHasFailure(notice[j])
NoticeFits(j) ==
    /\ pc[j] \in {"send", "failure", "finish"} \/ sent[j].notice =>
         Silent(j) \/ notice[j] = Upload!BuildUploadNotification(Upload!Reports(j))
    /\ sent[j].notice => pc[j] \in {"failure", "finish", "over"}
    /\ pc[j] \in {"failure", "finish"} => sent[j].notice \/ halt[j] = "cancelled"
    /\ pc[j] = "finish" => Alarmed(j) \/ halt[j] = "cancelled"
    /\ Upload!Ended(j) => Silent(j) \/ (sent[j].notice /\ Alarmed(j))
    /\ result[j] # None => pc[j] = "over" /\ result[j] = notice[j]

JobFits(j) == BegunFits(j) /\ ReportFits(j) /\ NoticeFits(j)
UploadInv == UploadTypes /\ \A j \in UploadJobs : JobFits(j)

LEMMA UploadNames ==
    /\ UploadFaults \in Nat /\ Commits \in Nat /\ None \notin Nat
    /\ Requests \subseteq [UploadJobs -> Works]
    /\ \A w \in Works :
         /\ w.kind \in {"auto", "scheduled", "manual_cf", "manual_gh"}
         /\ w.rows \in Seq(STRING) /\ w.top \in Nat /\ w.probe \in {"ok", "failed", "skipped"}
         /\ {w.cf, w.gh, w.cfReady, w.ghReady, w.ghValid, w.filter, w.broken,
             w.file, w.trigger} \subseteq BOOLEAN
  BY UploadAssumption DEF UploadAssumption, Upload!WorksAssumption, Upload!BoundsAssumption,
     Upload!Kinds

\* Selections of rows are no longer than what they are made of.
LEMMA Shorter ==
    ASSUME NEW w \in Works, NEW s \in Seq(STRING)
    PROVE  /\ Upload!Filtered(w, s) \in Seq(STRING) /\ Len(Upload!Filtered(w, s)) <= Len(s)
           /\ Upload!GitHubRows(w, s) \in Seq(STRING) /\ Len(Upload!GitHubRows(w, s)) <= Len(s)
<1>1. OnlyIn(s, Good) \in Seq(STRING) /\ Len(OnlyIn(s, Good)) <= Len(s)
  BY OnlyInParts DEF IsPart
<1>2. Upload!OnlyIn(s, Good) = OnlyIn(s, Good)
  BY DEF Upload!OnlyIn, OnlyIn
<1>3. Upload!Filtered(w, s) \in Seq(STRING) /\ Len(Upload!Filtered(w, s)) <= Len(s)
  BY <1>1, <1>2 DEF Upload!Filtered
<1>4. CASE w.top = 0 \/ Len(Upload!Filtered(w, s)) <= w.top
  BY <1>3, <1>4 DEF Upload!GitHubRows
<1>5. CASE ~(w.top = 0 \/ Len(Upload!Filtered(w, s)) <= w.top)
  <2> DEFINE f == Upload!Filtered(w, s)
  <2>1. Upload!GitHubRows(w, s) = SubSeq(f, 1, w.top)
    BY <1>5 DEF Upload!GitHubRows
  <2>2. w.top \in Nat /\ Len(f) \in Nat /\ Len(s) \in Nat /\ f \in Seq(STRING)
    BY <1>3, UploadNames
  <2>3. w.top \in 1 .. Len(f)
    BY <1>5, <2>2
  <2> HIDE DEF f
  <2>4. SubSeq(f, 1, w.top) \in Seq(STRING) /\ Len(SubSeq(f, 1, w.top)) = w.top
    BY <2>2, <2>3
  <2> QED
    BY <1>3, <2>1, <2>2, <2>3, <2>4 DEF f
<1> QED
  BY <1>3, <1>4, <1>5

LEMMA ExportIsShort ==
    ASSUME NEW w \in Works
    PROVE  Upload!ExportRows(w) \in Seq(STRING) /\ Len(Upload!ExportRows(w)) <= Len(w.rows)
<1>1. w.rows \in Seq(STRING) /\ Len(w.rows) \in Nat
  BY UploadNames
<1> DEFINE g == Upload!GitHubRows(w, w.rows)
<1>2. g \in Seq(STRING) /\ Len(g) <= Len(w.rows)
  BY <1>1, Shorter
<1>3. Upload!GitHubRows(w, g) \in Seq(STRING) /\ Len(Upload!GitHubRows(w, g)) <= Len(g)
  BY <1>2, Shorter
<1> HIDE DEF g
<1>4. Len(g) \in Nat /\ Len(Upload!GitHubRows(w, g)) \in Nat
  BY <1>2, <1>3
<1>5. Len(Upload!GitHubRows(w, g)) <= Len(w.rows)
  BY <1>1, <1>2, <1>3, <1>4
<1> QED
  BY <1>1, <1>2, <1>3, <1>5 DEF Upload!ExportRows, g

LEMMA UploadInit == Upload!Init => UploadInv
<1> SUFFICES ASSUME Upload!Init PROVE UploadInv
  OBVIOUS
<1>1. UploadTypes
  <2>1. <<>> \in Seq(STRING) /\ Upload!NoReport \in UploadReports
    BY DEF Upload!NoReport, Upload!Report, UploadReports
  <2> QED
    BY <2>1, UploadNames DEF Upload!Init, UploadTypes, UploadPlaces
<1>2. ASSUME NEW j \in UploadJobs PROVE JobFits(j)
  <2>1. /\ pc[j] = "begin" /\ late[j] = 0 /\ ~sent[j].notice /\ result[j] = None
        /\ \A p \in Upload!Providers : begun[j][p] = 0 /\ report[j][p] = Upload!NoReport
    BY DEF Upload!Init
  <2>2. /\ work[j].rows \in Seq(STRING) /\ Len(work[j].rows) \in Nat
        /\ rows[j] = <<>> /\ Len(rows[j]) = 0
    BY UploadNames DEF Upload!Init
  <2>3. BegunFits(j)
    BY <2>1 DEF BegunFits, Upload!Providers
  <2>4. ReportFits(j)
    BY <2>1, <2>2 DEF ReportFits, Upload!NoReport, Upload!Report
  <2>5. NoticeFits(j)
    BY <2>1 DEF NoticeFits, Upload!Ended
  <2> QED
    BY <2>3, <2>4, <2>5 DEF JobFits
<1> QED
  BY <1>1, <1>2 DEF UploadInv

\* What the invariant of a job looks at.
JobView(j) == <<work[j], pc[j], halt[j], report[j], rows[j], notice[j], sent[j], result[j],
                begun[j], late[j], done[j]>>

LEMMA JobStands ==
    ASSUME NEW j \in UploadJobs, JobFits(j), UNCHANGED JobView(j)
    PROVE  JobFits(j)'
<1>1. /\ work'[j] = work[j] /\ pc'[j] = pc[j] /\ halt'[j] = halt[j] /\ report'[j] = report[j]
      /\ rows'[j] = rows[j] /\ notice'[j] = notice[j] /\ sent'[j] = sent[j]
      /\ result'[j] = result[j] /\ begun'[j] = begun[j] /\ late'[j] = late[j]
      /\ done'[j] = done[j]
  BY DEF JobView
<1>2. BegunFits(j)'
  BY <1>1 DEF JobFits, BegunFits, Upload!Kind
<1>3. \A p \in Upload!Providers : Upload!Whole(j, p)' = Upload!Whole(j, p)
  BY <1>1 DEF Upload!Whole
<1>4. ReportFits(j)'
  BY <1>1, <1>3 DEF JobFits, ReportFits, ToldTruly, BusyWith
<1>5. Upload!Reports(j)' = Upload!Reports(j)
  BY <1>1 DEF Upload!Reports, Upload!Kind
<1>6. NoticeFits(j)'
  BY <1>1, <1>5 DEF JobFits, NoticeFits, Silent, Alarmed, Upload!Ended, Upload!Asked, Upload!Kind
<1> QED
  BY <1>2, <1>4, <1>6 DEF JobFits

\* A step of a job leaves the others alone.
AloneIn(j) == \A k \in UploadJobs \ {j} : UNCHANGED JobView(k)
Moves(j) == UploadTypes' /\ JobFits(j)' /\ AloneIn(j)

LEMMA UploadMoves ==
    ASSUME UploadInv, NEW j \in UploadJobs, Moves(j)
    PROVE  UploadInv'
  BY JobStands DEF UploadInv, Moves, AloneIn

LEMMA GiveUpMoves ==
    ASSUME UploadInv, NEW j \in UploadJobs, Upload!Checked(j), Upload!GiveUp(j)
    PROVE  Moves(j)
<1>1. UploadTypes /\ JobFits(j)
  BY DEF UploadInv
<1>2. UploadTypes'
  BY <1>1 DEF UploadTypes, UploadPlaces, Upload!GiveUp, Upload!Go, Upload!github, Upload!history
<1>3. /\ work' = work /\ halt' = halt /\ report' = report /\ rows' = rows /\ notice' = notice
      /\ sent' = sent /\ result' = result /\ begun' = begun /\ late' = late /\ done' = done
      /\ pc' = [pc EXCEPT ![j] = "over"] /\ pc'[j] = "over"
      /\ pc[j] \in {"begin", "cf", "gh", "notice", "finish"} /\ halt[j] = "cancelled"
  BY <1>1 DEF UploadTypes, Upload!GiveUp, Upload!Go, Upload!github, Upload!history,
     Upload!Checked, Upload!GivesUp
<1>4. AloneIn(j)
  BY <1>1, <1>3 DEF AloneIn, JobView, UploadTypes
<1>5. BegunFits(j)'
  BY <1>1, <1>3 DEF JobFits, BegunFits, Upload!Kind
<1>6. ReportFits(j)'
  BY <1>1, <1>3 DEF JobFits, ReportFits, ToldTruly, BusyWith, Upload!Whole
<1>7. NoticeFits(j)'
  BY <1>1, <1>3 DEF JobFits, NoticeFits, Silent, Alarmed, Upload!Ended, Upload!Reports, Upload!Kind
<1> QED
  BY <1>2, <1>4, <1>5, <1>6, <1>7 DEF Moves, JobFits

LEMMA HaltMoves ==
    ASSUME UploadInv, NEW j \in UploadJobs, NEW to \in {"run", "paused", "cancelled"},
           Upload!Halt(j, to)
    PROVE  Moves(j)
<1>1. UploadTypes /\ JobFits(j)
  BY DEF UploadInv
<1>2. UploadTypes'
  BY <1>1 DEF UploadTypes, UploadPlaces, Upload!Halt, Upload!github
<1>3. /\ work' = work /\ pc' = pc /\ report' = report /\ rows' = rows /\ notice' = notice
      /\ sent' = sent /\ result' = result /\ begun' = begun /\ done' = done
      /\ halt' = [halt EXCEPT ![j] = to] /\ pc[j] # "over" /\ halt[j] # "cancelled"
      /\ late' = late \/ late' = [late EXCEPT ![j] = 0]
  BY <1>1 DEF UploadTypes, Upload!Halt, Upload!github
<1>4. AloneIn(j)
  BY <1>1, <1>3 DEF AloneIn, JobView, UploadTypes
<1>5. BegunFits(j)'
  BY <1>1, <1>3 DEF JobFits, BegunFits, Upload!Kind, UploadTypes
<1>6. ReportFits(j)'
  BY <1>1, <1>3 DEF JobFits, ReportFits, ToldTruly, BusyWith, Upload!Whole
<1>7. NoticeFits(j)'
  BY <1>1, <1>3 DEF JobFits, NoticeFits, Silent, Alarmed, Upload!Ended, Upload!Reports, Upload!Kind
<1> QED
  BY <1>2, <1>4, <1>5, <1>6, <1>7 DEF Moves, JobFits

LEMMA BeginManualMoves ==
    ASSUME UploadInv, NEW j \in UploadJobs, Upload!BeginManual(j)
    PROVE  Moves(j)
<1>1. UploadTypes /\ JobFits(j)
  BY DEF UploadInv
<1>2. UploadTypes'
  BY <1>1 DEF UploadTypes, UploadPlaces, Upload!BeginManual, Upload!Go, Upload!github, Upload!history
<1>3. /\ work' = work /\ halt' = halt /\ report' = report /\ rows' = rows /\ notice' = notice
      /\ sent' = sent /\ result' = result /\ begun' = begun /\ late' = late /\ done' = done
      /\ pc[j] = "begin" /\ Upload!Kind(j) \in {"manual_cf", "manual_gh"}
      /\ \E to \in {"cf", "gh"} : pc' = [pc EXCEPT ![j] = to]
  BY <1>1 DEF Upload!BeginManual, Upload!Go, Upload!github, Upload!history
<1>4. AloneIn(j)
  BY <1>1, <1>3 DEF AloneIn, JobView, UploadTypes
<1>5. BegunFits(j)' /\ ReportFits(j)'
  <2>1. \A p \in Upload!Providers : begun[j][p] = 0 /\ begun'[j][p] = 0
    BY <1>1, <1>3 DEF JobFits, BegunFits, Upload!Providers
  <2>2. BegunFits(j)'
    BY <2>1, <1>1, <1>3 DEF JobFits, BegunFits, Upload!Kind, Upload!Providers
  <2> QED
    BY <2>1, <2>2, <1>1, <1>3 DEF JobFits, ReportFits
<1>6. NoticeFits(j)'
  BY <1>1, <1>3 DEF JobFits, NoticeFits, Upload!Ended, UploadTypes
<1> QED
  BY <1>2, <1>4, <1>5, <1>6 DEF Moves, JobFits

LEMMA CloudflareBeginMoves ==
    ASSUME UploadInv, NEW j \in UploadJobs, Upload!CloudflareBegin(j)
    PROVE  Moves(j)
<1>1. UploadTypes /\ JobFits(j)
  BY DEF UploadInv
<1>2. /\ work' = work /\ halt' = halt /\ report' = report /\ rows' = rows /\ notice' = notice
      /\ sent' = sent /\ result' = result /\ done' = done /\ faults' = faults /\ others' = others
      /\ begun' = [begun EXCEPT ![j]["cf"] = begun[j]["cf"] + 1]
      /\ late' = [late EXCEPT ![j] = IF halt[j] = "run" THEN 0 ELSE late[j] + 1]
      /\ pc' = [pc EXCEPT ![j] = "pushing"] /\ pc[j] = "cf"
  BY <1>1 DEF Upload!CloudflareBegin, Upload!Starts, Upload!Go, Upload!github, UploadTypes
<1>3. /\ begun[j] \in [Upload!Providers -> Nat] /\ begun[j]["cf"] = 0 /\ begun'[j]["cf"] = 1
      /\ begun'[j]["gh"] = begun[j]["gh"] /\ begun[j]["gh"] = 0 /\ late'[j] \in Nat
      /\ late[j] \in Nat /\ pc'[j] = "pushing"
  BY <1>1, <1>2 DEF JobFits, BegunFits, Upload!Providers, UploadTypes
<1>4. begun' \in [UploadJobs -> [Upload!Providers -> Nat]]
  BY <1>1, <1>2, <1>3 DEF UploadTypes, Upload!Providers
<1>5. late' \in [UploadJobs -> Nat] /\ pc' \in [UploadJobs -> UploadPlaces]
  BY <1>1, <1>2, <1>3 DEF UploadTypes, UploadPlaces
<1>6. UploadTypes'
  BY <1>1, <1>2, <1>4, <1>5 DEF UploadTypes
<1>7. AloneIn(j)
  BY <1>1, <1>2 DEF AloneIn, JobView, UploadTypes
<1>8. Upload!Kind(j) = "auto" => halt[j] = "run"
  BY <1>1 DEF Upload!CloudflareBegin, Upload!AtCheckpoint, Upload!GivesUp, UploadTypes
<1>9. BegunFits(j)'
  <2>1. Upload!Kind(j)' = Upload!Kind(j)
    BY <1>2 DEF Upload!Kind
  <2>2. Upload!Kind(j) = "auto" => late'[j] = 0
    BY <1>1, <1>2, <1>8 DEF UploadTypes
  <2> QED
    BY <2>1, <2>2, <1>1, <1>2, <1>3 DEF JobFits, BegunFits, Upload!Providers
<1>10. ReportFits(j)'
  BY <1>1, <1>2, <1>3 DEF JobFits, ReportFits, BusyWith, Upload!Providers
<1>11. NoticeFits(j)'
  BY <1>1, <1>2, <1>3 DEF JobFits, NoticeFits, Upload!Ended
<1> QED
  BY <1>6, <1>7, <1>9, <1>10, <1>11 DEF Moves, JobFits

LEMMA BeginAutoMoves ==
    ASSUME UploadInv, NEW j \in UploadJobs, Upload!BeginAuto(j)
    PROVE  Moves(j)
<1>1. UploadTypes /\ JobFits(j)
  BY DEF UploadInv
<1>2. /\ work' = work /\ halt' = halt /\ rows' = rows /\ sent' = sent /\ result' = result
      /\ begun' = begun /\ late' = late /\ done' = done /\ faults' = faults /\ others' = others
      /\ pc[j] = "begin"
      /\ \E to \in {"over", "send", "cf", "gh", "notice"} : pc' = [pc EXCEPT ![j] = to]
      /\ notice' = notice \/ \E n : notice' = [notice EXCEPT ![j] = n]
  BY DEF Upload!BeginAuto, Upload!Go, Upload!github, Upload!history
<1>3. report' = report \/ \E r \in [Upload!Providers -> {Upload!Report("skipped", 0), Upload!NoReport}] :
                             report' = [report EXCEPT ![j] = r]
  <2> DEFINE w == work[j]
             ready == [p \in Upload!Providers |->
                         w[p] /\ (IF p = "cf" THEN w.cfReady ELSE w.ghReady)]
             told == [p \in Upload!Providers |-> IF w[p] /\ ~ready[p]
                        THEN Upload!Report("skipped", 0) ELSE Upload!NoReport]
  <2>1. report' = report \/ report' = [report EXCEPT ![j] = told]
    BY DEF Upload!BeginAuto
  <2>2. told \in [Upload!Providers -> {Upload!Report("skipped", 0), Upload!NoReport}]
    OBVIOUS
  <2> QED
    BY <2>1, <2>2
<1>4. /\ Upload!Report("skipped", 0) \in UploadReports /\ Upload!NoReport \in UploadReports
      /\ Upload!Report("skipped", 0).count = 0 /\ Upload!NoReport.count = 0
  BY DEF Upload!Report, Upload!NoReport, UploadReports, Upload!Statuses
<1>5. report' \in [UploadJobs -> [Upload!Providers -> UploadReports]]
  <2>1. CASE report' = report
    BY <1>1, <2>1 DEF UploadTypes
  <2>2. ASSUME NEW r \in [Upload!Providers -> {Upload!Report("skipped", 0), Upload!NoReport}],
               report' = [report EXCEPT ![j] = r]
        PROVE  report' \in [UploadJobs -> [Upload!Providers -> UploadReports]]
    <3>1. r \in [Upload!Providers -> UploadReports]
      BY <1>4
    <3> QED
      BY <1>1, <2>2, <3>1 DEF UploadTypes
  <2> QED
    BY <1>3, <2>1, <2>2
<1>6. UploadTypes'
  BY <1>1, <1>2, <1>5 DEF UploadTypes, UploadPlaces
<1>7. AloneIn(j)
  BY <1>1, <1>2, <1>3 DEF AloneIn, JobView, UploadTypes
<1>8. \A p \in Upload!Providers : begun[j][p] = 0 /\ begun'[j][p] = 0
  BY <1>1, <1>2 DEF JobFits, BegunFits, Upload!Providers
<1>9. BegunFits(j)'
  BY <1>1, <1>2, <1>8 DEF JobFits, BegunFits, Upload!Kind, Upload!Providers, Upload!BeginAuto
<1>10. ReportFits(j)'
  <2>1. Len(work[j].rows) \in Nat
    BY <1>1, UploadNames DEF UploadTypes
  <2>2. CASE report' = report
    BY <1>1, <1>2, <1>8, <2>2 DEF JobFits, ReportFits
  <2>3. ASSUME NEW r \in [Upload!Providers -> {Upload!Report("skipped", 0), Upload!NoReport}],
               report' = [report EXCEPT ![j] = r]
        PROVE  \A p \in Upload!Providers : report'[j][p].count <= Len(work[j].rows)
    <3>1. report'[j] = r
      BY <1>1, <2>3 DEF UploadTypes
    <3>2. \A p \in Upload!Providers : r[p].count = 0
      BY <1>4
    <3> QED
      BY <2>1, <3>1, <3>2
  <2> QED
    BY <2>2, <2>3, <1>1, <1>2, <1>3, <1>8 DEF JobFits, ReportFits
<1>11. NoticeFits(j)'
  <2>1. Silent(j)'
    BY <1>8 DEF Silent
  <2>2. ~sent'[j].notice /\ result'[j] = None /\ pc'[j] \notin {"failure", "finish"}
    BY <1>1, <1>2 DEF JobFits, NoticeFits, UploadTypes
  <2> QED
    BY <2>1, <2>2 DEF NoticeFits
<1> QED
  BY <1>6, <1>7, <1>9, <1>10, <1>11 DEF Moves, JobFits

LEMMA BeginScheduledMoves ==
    ASSUME UploadInv, NEW j \in UploadJobs, Upload!BeginScheduled(j)
    PROVE  Moves(j)
<1>1. UploadTypes /\ JobFits(j)
  BY DEF UploadInv
<1>2. /\ work' = work /\ halt' = halt /\ rows' = rows /\ sent' = sent /\ result' = result
      /\ begun' = begun /\ late' = late /\ done' = done /\ faults' = faults /\ others' = others
      /\ pc[j] = "begin" /\ notice' = notice
      /\ \E to \in {"cf", "gh", "notice"} :
            pc' = [pc EXCEPT ![j] = to] /\ (to # "notice" => work[j][to])
  BY DEF Upload!BeginScheduled, Upload!Go, Upload!github, Upload!history
<1> DEFINE w == work[j]
           small == {r \in UploadReports : r.count <= Len(w.rows)}
<1>3. w \in Works /\ w.rows \in Seq(STRING) /\ Len(w.rows) \in Nat
  BY <1>1, UploadNames DEF UploadTypes
<1>4. \E r \in [Upload!Providers -> small] : report' = [report EXCEPT ![j] = r]
  <2> DEFINE failed == w.probe = "failed" \/ (w.probe = "ok" /\ w.broken)
             selected == IF w.probe = "ok" /\ ~w.broken
                         THEN [p \in Upload!Providers |->
                                 Len(IF p = "gh" THEN Upload!GitHubRows(w, w.rows)
                                     ELSE Upload!Filtered(w, w.rows))]
                         ELSE [p \in Upload!Providers |-> 0]
             told == [p \in Upload!Providers |->
                        Upload!Report(IF failed /\ w[p] THEN "failed" ELSE "skipped", selected[p])]
  <2>1. report' = [report EXCEPT ![j] = told]
    BY DEF Upload!BeginScheduled
  <2>2. /\ Len(Upload!GitHubRows(w, w.rows)) \in Nat /\ Len(Upload!Filtered(w, w.rows)) \in Nat
        /\ Len(Upload!GitHubRows(w, w.rows)) <= Len(w.rows)
        /\ Len(Upload!Filtered(w, w.rows)) <= Len(w.rows)
    BY <1>3, Shorter
  <2>3. \A p \in Upload!Providers : selected[p] \in Nat /\ selected[p] <= Len(w.rows)
    BY <1>3, <2>2
  <2> HIDE DEF selected, failed
  <2>4. \A p \in Upload!Providers : told[p] \in small
    BY <2>3 DEF Upload!Report, UploadReports, Upload!Statuses
  <2>5. told \in [Upload!Providers -> small]
    BY <2>4
  <2> QED
    BY <2>1, <2>5
<1>5. report' \in [UploadJobs -> [Upload!Providers -> UploadReports]]
  BY <1>1, <1>4 DEF UploadTypes
<1>6. UploadTypes'
  <2>1. pc' \in [UploadJobs -> UploadPlaces]
    BY <1>1, <1>2 DEF UploadTypes, UploadPlaces
  <2> HIDE DEF w, small
  <2> QED
    BY <1>1, <1>2, <1>5, <2>1 DEF UploadTypes
<1>7. AloneIn(j)
  BY <1>1, <1>2, <1>4 DEF AloneIn, JobView, UploadTypes
<1>8. \A p \in Upload!Providers : begun[j][p] = 0 /\ begun'[j][p] = 0
  BY <1>1, <1>2 DEF JobFits, BegunFits, Upload!Providers
<1>9. BegunFits(j)'
  BY <1>1, <1>2, <1>8 DEF JobFits, BegunFits, Upload!Kind, Upload!Providers, UploadTypes
<1>10. ReportFits(j)'
  <2>1. \A p \in Upload!Providers : report'[j][p].count <= Len(work[j].rows)
    BY <1>1, <1>4 DEF UploadTypes
  <2> QED
    BY <2>1, <1>1, <1>2, <1>8 DEF JobFits, ReportFits
<1>11. NoticeFits(j)'
  <2>1. Silent(j)'
    BY <1>8 DEF Silent
  <2>2. ~sent'[j].notice /\ result'[j] = None /\ pc'[j] \notin {"failure", "finish", "over"}
    BY <1>1, <1>2 DEF JobFits, NoticeFits, UploadTypes
  <2> QED
    BY <2>1, <2>2 DEF NoticeFits
<1> QED
  BY <1>6, <1>7, <1>9, <1>10, <1>11 DEF Moves, JobFits

\* What the answer of a push makes of a report: CloudflareEnd's told.
Tells(w, old, a) ==
    LET told == Upload!FromCommand(a[1], a[2])
    IN  IF w.kind = "scheduled" /\ a[2] = None THEN Upload!Report(told.status, old) ELSE told

LEMMA AnswerIsTold ==
    ASSUME NEW w \in Works, NEW old \in Nat, old <= Len(w.rows), NEW a \in Upload!Answers(w)
    PROVE  LET r == Tells(w, old, a)
               n == Len(Upload!Filtered(w, w.rows))
           IN  /\ r \in UploadReports /\ r.count <= Len(w.rows) /\ r.status \in Upload!Statuses
               /\ r.status = "completed" => r.count = n /\ a[3] = n
               /\ r.status = "skipped" => a[3] = n
               /\ a[3] \in Nat
<1> DEFINE n == Len(Upload!Filtered(w, w.rows))
<1>1. n \in Nat /\ Len(w.rows) \in Nat /\ n <= Len(w.rows)
  BY UploadNames, Shorter
<1>2. \/ a = <<"INPUT_INVALID", None, 0>>
      \/ a = <<"INPUT_EMPTY", 0, 0>> /\ n = 0
      \/ a = <<"OK", n, n>>
      \/ a = <<"CONFIG_INVALID", None, 0>>
      \/ a = <<"FAILED", 0, n>>
      \/ a = <<"PARTIAL", n - 1, n - 1>> /\ n > 1
  BY DEF Upload!Answers
<1> HIDE DEF n
<1>3. CASE a = <<"INPUT_INVALID", None, 0>> \/ a = <<"CONFIG_INVALID", None, 0>>
  <2>1. Upload!FromCommand(a[1], a[2]) = Upload!Report("failed", 0)
    BY <1>3 DEF Upload!FromCommand
  <2>2. \E c \in {0, old} : Tells(w, old, a) = Upload!Report("failed", c)
    BY <2>1 DEF Tells, Upload!Report
  <2> QED
    BY <1>1, <1>3, <2>2 DEF Upload!Report, UploadReports, Upload!Statuses
<1>4. CASE a = <<"INPUT_EMPTY", 0, 0>> /\ n = 0
  <2>1. Tells(w, old, a) = Upload!Report("skipped", 0)
    BY <1>4, UploadNames DEF Tells, Upload!FromCommand
  <2> QED
    BY <1>1, <1>4, <2>1 DEF Upload!Report, UploadReports, Upload!Statuses, n
<1>5. CASE a = <<"OK", n, n>>
  <2>1. Tells(w, old, a) = Upload!Report("completed", n)
    BY <1>1, <1>5, UploadNames DEF Tells, Upload!FromCommand
  <2> QED
    BY <1>1, <1>5, <2>1 DEF Upload!Report, UploadReports, Upload!Statuses, n
<1>6. CASE a = <<"FAILED", 0, n>>
  <2>1. Tells(w, old, a) = Upload!Report("failed", 0)
    BY <1>6, UploadNames DEF Tells, Upload!FromCommand
  <2> QED
    BY <1>1, <1>6, <2>1 DEF Upload!Report, UploadReports, Upload!Statuses
<1>7. CASE a = <<"PARTIAL", n - 1, n - 1>> /\ n > 1
  <2>1. n - 1 \in Nat /\ n - 1 <= Len(w.rows)
    BY <1>1, <1>7
  <2>2. Tells(w, old, a) = Upload!Report("partial", n - 1)
    BY <2>1, <1>7, UploadNames DEF Tells, Upload!FromCommand
  <2> QED
    BY <2>1, <1>7, <2>2 DEF Upload!Report, UploadReports, Upload!Statuses
<1> QED
  BY <1>2, <1>3, <1>4, <1>5, <1>6, <1>7

LEMMA CloudflareEndMoves ==
    ASSUME UploadInv, NEW j \in UploadJobs, Upload!CloudflareEnd(j)
    PROVE  Moves(j)
<1>1. UploadTypes /\ JobFits(j)
  BY DEF UploadInv
<1> DEFINE w == work[j]
           old == report[j].cf.count
<1>2. PICK a \in Upload!Answers(w) :
        /\ report' = [report EXCEPT ![j].cf = Tells(w, old, a)]
        /\ done' = [done EXCEPT ![j].cf = a[3]]
  BY DEF Upload!CloudflareEnd, Tells, Upload!Kind
<1>3. /\ work' = work /\ halt' = halt /\ rows' = rows /\ notice' = notice
      /\ sent' = sent /\ result' = result /\ faults' = faults /\ others' = others
      /\ begun' = begun /\ late' = late /\ pc[j] = "pushing"
      /\ \E to \in {"gh", "notice"} : pc' = [pc EXCEPT ![j] = to] /\ (to = "gh" => w.gh)
  BY DEF Upload!CloudflareEnd, Upload!Go, Upload!github, Upload!AfterCloudflare
<1>4. /\ w \in Works /\ old \in Nat /\ old <= Len(w.rows)
      /\ report[j] \in [Upload!Providers -> UploadReports]
      /\ done[j] \in [Upload!Providers -> Nat]
  BY <1>1 DEF UploadTypes, JobFits, ReportFits, Upload!Providers, UploadReports
<1> DEFINE r == Tells(w, old, a)
           n == Len(Upload!Filtered(w, w.rows))
<1>5. /\ r \in UploadReports /\ r.count <= Len(w.rows) /\ r.status \in Upload!Statuses
      /\ r.status = "completed" => r.count = n /\ a[3] = n
      /\ r.status = "skipped" => a[3] = n
      /\ a[3] \in Nat
  BY <1>4, AnswerIsTold
<1> HIDE DEF r, n, old
<1>6. /\ report' = [report EXCEPT ![j].cf = r] /\ report'[j].cf = r
      /\ report'[j].gh = report[j].gh /\ done'[j].cf = a[3] /\ done'[j].gh = done[j].gh
  BY <1>1, <1>2, <1>4 DEF r, old, UploadTypes, Upload!Providers
<1>7. UploadTypes'
  <2>1. report' \in [UploadJobs -> [Upload!Providers -> UploadReports]]
    BY <1>1, <1>5, <1>6 DEF UploadTypes, Upload!Providers
  <2>2. done' \in [UploadJobs -> [Upload!Providers -> Nat]]
    BY <1>1, <1>2, <1>5 DEF UploadTypes, Upload!Providers
  <2>3. pc' \in [UploadJobs -> UploadPlaces]
    BY <1>1, <1>3 DEF UploadTypes, UploadPlaces
  <2> QED
    BY <1>1, <1>3, <2>1, <2>2, <2>3 DEF UploadTypes
<1>8. AloneIn(j)
  BY <1>1, <1>2, <1>3, <1>6 DEF AloneIn, JobView, UploadTypes
<1>9. pc'[j] \in {"gh", "notice"} /\ (pc'[j] = "gh" => w.gh)
  BY <1>1, <1>3 DEF UploadTypes
<1>10. BegunFits(j)'
  BY <1>1, <1>3, <1>9 DEF JobFits, BegunFits, Upload!Kind, Upload!Providers
<1>11. ReportFits(j)'
  <2>1. Upload!Whole(j, "cf")' = n
    BY <1>3 DEF Upload!Whole, n
  <2>2. ToldTruly(j, "cf")'
    BY <2>1, <1>5, <1>6 DEF ToldTruly
  <2>3. begun'[j].gh = 0
    BY <1>1, <1>3 DEF JobFits, BegunFits
  <2> QED
    BY <2>2, <2>3, <1>1, <1>3, <1>5, <1>6 DEF JobFits, ReportFits, Upload!Providers
<1>12. NoticeFits(j)'
  BY <1>1, <1>3, <1>9 DEF JobFits, NoticeFits, Upload!Ended
<1> QED
  BY <1>7, <1>8, <1>10, <1>11, <1>12 DEF Moves, JobFits

\* A report that a step of the export may leave.
LEMMA FailedIsTold ==
    ASSUME NEW j \in UploadJobs, UploadTypes, ReportFits(j), Upload!Failed(j)
    PROVE  /\ \E r \in UploadReports :
                 /\ report' = [report EXCEPT ![j].gh = r]
                 /\ r.status = "failed" /\ r.count <= Len(work[j].rows)
           /\ pc' = [pc EXCEPT ![j] = "notice"]
<1>1. /\ report[j].gh \in UploadReports /\ report[j].gh.count <= Len(work[j].rows)
      /\ Len(work[j].rows) \in Nat
  BY UploadNames DEF UploadTypes, ReportFits, Upload!Providers
<1>2. Upload!FromCommand("GITHUB_EXPORT_FAILED", None) = Upload!Report("failed", 0)
  BY DEF Upload!FromCommand
<1> DEFINE r == IF Upload!Kind(j) = "scheduled" THEN Upload!Report("failed", report[j].gh.count)
                ELSE Upload!Report("failed", 0)
<1>3. r \in UploadReports /\ r.status = "failed" /\ r.count <= Len(work[j].rows)
  BY <1>1 DEF Upload!Report, UploadReports, Upload!Statuses
<1>4. report' = [report EXCEPT ![j].gh = r] /\ pc' = [pc EXCEPT ![j] = "notice"]
  BY <1>2 DEF Upload!Failed, Upload!Go
<1> QED
  BY <1>3, <1>4

\* An export that comes to its end reports what it did.
LEMMA ExportEnds ==
    ASSUME UploadInv, NEW j \in UploadJobs, pc[j] \in {"gh", "get", "put"},
           NEW r \in UploadReports, r.status \in Upload!Statuses, r.count <= Len(work[j].rows),
           report' = [report EXCEPT ![j].gh = r], pc' = [pc EXCEPT ![j] = "notice"],
           UNCHANGED <<work, halt, rows, notice, sent, result, begun, late>>,
           done' = done \/ done' = [done EXCEPT ![j].gh = Len(rows[j])],
           pc[j] # "gh" => /\ r.status # "skipped"
                           /\ r.status = "completed" => /\ r.count = Len(rows[j])
                                                        /\ done'[j].gh = Len(rows[j]),
           faults' \in 0 .. UploadFaults, others' \in 0 .. Commits
    PROVE  Moves(j)
<1>1. UploadTypes /\ JobFits(j)
  BY DEF UploadInv
<1>2. /\ work' = work /\ halt' = halt /\ rows' = rows /\ notice' = notice
      /\ sent' = sent /\ result' = result /\ begun' = begun /\ late' = late
  OBVIOUS
<1>3. /\ report[j] \in [Upload!Providers -> UploadReports] /\ done[j] \in [Upload!Providers -> Nat]
      /\ Len(rows[j]) \in Nat /\ pc'[j] = "notice"
  BY <1>1 DEF UploadTypes
<1>4. report'[j].gh = r /\ report'[j].cf = report[j].cf /\ done'[j].cf = done[j].cf
  BY <1>1, <1>3 DEF UploadTypes, Upload!Providers
<1>5. UploadTypes'
  <2>1. report' \in [UploadJobs -> [Upload!Providers -> UploadReports]]
    BY <1>1 DEF UploadTypes, Upload!Providers
  <2>2. done' \in [UploadJobs -> [Upload!Providers -> Nat]]
    <3>1. CASE done' = done
      BY <1>1, <3>1 DEF UploadTypes
    <3>2. CASE done' = [done EXCEPT ![j].gh = Len(rows[j])]
      BY <1>1, <1>3, <3>2 DEF UploadTypes, Upload!Providers
    <3> QED
      BY <3>1, <3>2
  <2>3. pc' \in [UploadJobs -> UploadPlaces]
    BY <1>1 DEF UploadTypes, UploadPlaces
  <2> QED
    BY <1>1, <1>2, <2>1, <2>2, <2>3 DEF UploadTypes
<1>6. AloneIn(j)
  BY <1>1, <1>2 DEF AloneIn, JobView, UploadTypes
<1>7. BegunFits(j)'
  BY <1>1, <1>2, <1>3 DEF JobFits, BegunFits, Upload!Kind, Upload!Providers
<1>8. ReportFits(j)'
  <2>1. begun[j].gh > 0 => pc[j] # "gh"
    BY <1>1 DEF JobFits, BegunFits
  <2>2. Upload!Whole(j, "gh")' = Len(rows[j]) /\ Upload!Whole(j, "cf")' = Upload!Whole(j, "cf")
    BY <1>2 DEF Upload!Whole
  <2>3. begun'[j].gh > 0 => ToldTruly(j, "gh")'
    BY <2>1, <2>2, <1>2, <1>4 DEF ToldTruly
  <2>4. begun'[j].cf > 0 => ToldTruly(j, "cf")'
    BY <2>2, <1>1, <1>2, <1>4 DEF JobFits, ReportFits, ToldTruly, BusyWith, Upload!Providers
  <2> QED
    BY <2>3, <2>4, <1>1, <1>2, <1>4 DEF JobFits, ReportFits, Upload!Providers
<1>9. NoticeFits(j)'
  BY <1>1, <1>2, <1>3 DEF JobFits, NoticeFits, Upload!Ended
<1> QED
  BY <1>5, <1>6, <1>7, <1>8, <1>9 DEF Moves, JobFits

LEMMA GitHubSkipMoves ==
    ASSUME UploadInv, NEW j \in UploadJobs, Upload!GitHubSkip(j)
    PROVE  Moves(j)
<1>1. UploadTypes /\ ReportFits(j)
  BY DEF UploadInv, JobFits
<1> DEFINE r == Upload!Report("skipped", IF Upload!Kind(j) = "scheduled" THEN report[j].gh.count ELSE 0)
<1>2. /\ report' = [report EXCEPT ![j].gh = r] /\ pc' = [pc EXCEPT ![j] = "notice"] /\ pc[j] = "gh"
      /\ UNCHANGED <<work, halt, rows, notice, sent, result, begun, late, done, faults, others>>
  BY DEF Upload!GitHubSkip, Upload!Go, Upload!github, Upload!history
<1>3. r \in UploadReports /\ r.status \in Upload!Statuses /\ r.count <= Len(work[j].rows)
  <2>1. /\ report[j].gh \in UploadReports /\ report[j].gh.count <= Len(work[j].rows)
        /\ Len(work[j].rows) \in Nat
    BY <1>1, UploadNames DEF UploadTypes, ReportFits, Upload!Providers
  <2> QED
    BY <2>1 DEF Upload!Report, UploadReports, Upload!Statuses
<1> HIDE DEF r
<1>4. faults' \in 0 .. UploadFaults /\ others' \in 0 .. Commits
  BY <1>1, <1>2 DEF UploadTypes
<1> QED
  BY <1>2, <1>3, <1>4, ExportEnds

LEMMA GitHubBeginMoves ==
    ASSUME UploadInv, NEW j \in UploadJobs, Upload!GitHubBegin(j)
    PROVE  Moves(j)
<1>1. UploadTypes /\ JobFits(j)
  BY DEF UploadInv
<1>2. /\ UNCHANGED <<work, halt, notice, sent, result, faults, others>> /\ pc[j] = "gh"
      /\ Upload!Kind(j) = "auto" => halt[j] = "run"
  BY <1>1 DEF Upload!GitHubBegin, Upload!AtCheckpoint, Upload!GivesUp, UploadTypes
<1>3. faults' \in 0 .. UploadFaults /\ others' \in 0 .. Commits
  BY <1>1, <1>2 DEF UploadTypes
<1>4. CASE Upload!Failed(j) /\ UNCHANGED <<rows, Upload!history>>
  <2>1. PICK r \in UploadReports :
          /\ report' = [report EXCEPT ![j].gh = r]
          /\ r.status = "failed" /\ r.count <= Len(work[j].rows)
    BY <1>1, <1>4, FailedIsTold DEF JobFits
  <2>2. pc' = [pc EXCEPT ![j] = "notice"]
    BY <1>1, <1>4, FailedIsTold DEF JobFits
  <2>3. UNCHANGED <<work, halt, rows, notice, sent, result, begun, late>> /\ done' = done
    BY <1>2, <1>4 DEF Upload!history
  <2> QED
    BY <1>2, <1>3, <2>1, <2>2, <2>3, ExportEnds DEF Upload!Statuses
<1>5. CASE /\ rows' = [rows EXCEPT ![j] = Upload!ExportRows(work[j])]
           /\ Upload!Starts(j, "gh") /\ Upload!Go(j, "get") /\ UNCHANGED report
  <2>1. /\ begun' = [begun EXCEPT ![j]["gh"] = begun[j]["gh"] + 1] /\ done' = done
        /\ late' = [late EXCEPT ![j] = IF halt[j] = "run" THEN 0 ELSE late[j] + 1]
        /\ pc' = [pc EXCEPT ![j] = "get"] /\ report' = report
        /\ work' = work /\ halt' = halt /\ notice' = notice /\ sent' = sent /\ result' = result
    BY <1>2, <1>5 DEF Upload!Starts, Upload!Go
  <2>2. /\ Upload!ExportRows(work[j]) \in Seq(STRING)
        /\ Len(Upload!ExportRows(work[j])) <= Len(work[j].rows)
    BY <1>1, ExportIsShort DEF UploadTypes
  <2>3. /\ begun[j] \in [Upload!Providers -> Nat] /\ begun[j]["gh"] = 0 /\ begun'[j]["gh"] = 1
        /\ begun'[j]["cf"] = begun[j]["cf"] /\ late[j] \in Nat /\ late'[j] \in Nat
        /\ pc'[j] = "get" /\ rows'[j] = Upload!ExportRows(work[j])
    BY <1>1, <1>2, <1>5, <2>1 DEF JobFits, BegunFits, Upload!Providers, UploadTypes
  <2>4. UploadTypes'
    <3>1. begun' \in [UploadJobs -> [Upload!Providers -> Nat]]
      BY <1>1, <2>1, <2>3 DEF UploadTypes, Upload!Providers
    <3>2. late' \in [UploadJobs -> Nat]
      BY <1>1, <2>1, <2>3 DEF UploadTypes
    <3>3. pc' \in [UploadJobs -> UploadPlaces] /\ rows' \in [UploadJobs -> Seq(STRING)]
      BY <1>1, <1>5, <2>1, <2>2 DEF UploadTypes, UploadPlaces
    <3> QED
      BY <1>1, <1>3, <2>1, <3>1, <3>2, <3>3 DEF UploadTypes
  <2>5. AloneIn(j)
    BY <1>1, <1>5, <2>1 DEF AloneIn, JobView, UploadTypes
  <2>6. BegunFits(j)'
    <3>1. Upload!Kind(j)' = Upload!Kind(j)
      BY <2>1 DEF Upload!Kind
    <3>2. Upload!Kind(j) = "auto" => late'[j] = 0
      BY <1>1, <1>2, <2>1 DEF UploadTypes
    <3>3. Upload!Kind(j) = "scheduled" => work[j]["gh"]
      BY <1>1, <1>2 DEF JobFits, BegunFits
    <3> QED
      BY <3>1, <3>2, <3>3, <1>1, <1>2, <2>1, <2>3 DEF JobFits, BegunFits, Upload!Providers
  <2>7. ReportFits(j)'
    <3>1. Upload!Whole(j, "cf")' = Upload!Whole(j, "cf")
      BY <2>1 DEF Upload!Whole
    <3>2. begun'[j].cf > 0 => ToldTruly(j, "cf")'
      BY <3>1, <1>1, <1>2, <2>1, <2>3 DEF JobFits, ReportFits, ToldTruly, BusyWith, Upload!Providers
    <3>3. BusyWith(j, "gh")'
      BY <2>3 DEF BusyWith
    <3> QED
      BY <3>2, <3>3, <1>1, <2>1, <2>2, <2>3 DEF JobFits, ReportFits, Upload!Providers
  <2>8. NoticeFits(j)'
    BY <1>1, <1>2, <2>1, <2>3 DEF JobFits, NoticeFits, Upload!Ended
  <2> QED
    BY <2>4, <2>5, <2>6, <2>7, <2>8 DEF Moves, JobFits
<1> QED
  BY <1>4, <1>5 DEF Upload!GitHubBegin

LEMMA GetContentSHAMoves ==
    ASSUME UploadInv, NEW j \in UploadJobs, Upload!GetContentSHA(j)
    PROVE  Moves(j)
<1>1. UploadTypes /\ JobFits(j)
  BY DEF UploadInv
<1>2. /\ work' = work /\ halt' = halt /\ rows' = rows /\ notice' = notice
      /\ sent' = sent /\ result' = result /\ begun' = begun /\ late' = late /\ done' = done
      /\ others' = others /\ pc[j] = "get"
  BY DEF Upload!GetContentSHA, Upload!history
<1>3. CASE Upload!Go(j, "put") /\ UNCHANGED <<report, faults>>
  <2>1. pc' = [pc EXCEPT ![j] = "put"] /\ report' = report /\ faults' = faults /\ pc'[j] = "put"
    BY <1>1, <1>3 DEF Upload!Go, UploadTypes
  <2>2. UploadTypes'
    BY <1>1, <1>2, <2>1 DEF UploadTypes, UploadPlaces
  <2>3. AloneIn(j)
    BY <1>1, <1>2, <2>1 DEF AloneIn, JobView, UploadTypes
  <2>4. BegunFits(j)'
    BY <1>1, <1>2, <2>1 DEF JobFits, BegunFits, Upload!Kind, Upload!Providers
  <2>5. ReportFits(j)'
    BY <1>1, <1>2, <2>1 DEF JobFits, ReportFits, ToldTruly, BusyWith, Upload!Whole, Upload!Providers
  <2>6. NoticeFits(j)'
    BY <1>1, <1>2, <2>1 DEF JobFits, NoticeFits, Upload!Ended
  <2> QED
    BY <2>2, <2>3, <2>4, <2>5, <2>6 DEF Moves, JobFits
<1>4. CASE Upload!CallFails(j) /\ Upload!Failed(j)
  <2>1. PICK r \in UploadReports :
          /\ report' = [report EXCEPT ![j].gh = r]
          /\ r.status = "failed" /\ r.count <= Len(work[j].rows)
    BY <1>1, <1>4, FailedIsTold DEF JobFits
  <2>2. pc' = [pc EXCEPT ![j] = "notice"]
    BY <1>1, <1>4, FailedIsTold DEF JobFits
  <2>3. faults' \in 0 .. UploadFaults /\ others' \in 0 .. Commits
    BY <1>1, <1>2, <1>4, UploadNames DEF Upload!CallFails, Upload!Fault, UploadTypes
  <2>4. UNCHANGED <<work, halt, rows, notice, sent, result, begun, late>>
    BY <1>2
  <2> QED
    BY <1>2, <2>1, <2>2, <2>3, <2>4, ExportEnds DEF Upload!Statuses
<1> QED
  BY <1>3, <1>4 DEF Upload!GetContentSHA

LEMMA PutContentMoves ==
    ASSUME UploadInv, NEW j \in UploadJobs, Upload!PutContent(j)
    PROVE  Moves(j)
<1>1. UploadTypes /\ JobFits(j)
  BY DEF UploadInv
<1>2. /\ UNCHANGED <<work, halt, rows, notice, sent, result, begun, late>>
      /\ others' = others /\ pc[j] = "put"
  BY DEF Upload!PutContent
<1>3. Len(rows[j]) \in Nat /\ Len(rows[j]) <= Len(work[j].rows) /\ done[j] \in [Upload!Providers -> Nat]
  BY <1>1 DEF UploadTypes, JobFits, ReportFits
<1>4. faults' \in 0 .. UploadFaults /\ others' \in 0 .. Commits
  <2>1. faults' = faults \/ Upload!Fault
    BY DEF Upload!PutContent, Upload!CallFails
  <2> QED
    BY <1>1, <1>2, <2>1, UploadNames DEF Upload!Fault, UploadTypes
<1>5. done' = done \/ done' = [done EXCEPT ![j].gh = Len(rows[j])]
  BY DEF Upload!PutContent
<1>6. CASE /\ done' = [done EXCEPT ![j].gh = Len(rows[j])]
           /\ report' = [report EXCEPT ![j].gh = Upload!FromCommand("OK", Len(rows[j]))]
           /\ Upload!Go(j, "notice")
  <2> DEFINE r == Upload!Report("completed", Len(rows[j]))
  <2>1. Upload!FromCommand("OK", Len(rows[j])) = r
    BY <1>3, UploadNames DEF Upload!FromCommand
  <2>2. /\ r \in UploadReports /\ r.status = "completed" /\ r.status \in Upload!Statuses
        /\ r.count = Len(rows[j]) /\ r.count <= Len(work[j].rows)
    BY <1>3 DEF Upload!Report, UploadReports, Upload!Statuses
  <2>3. report' = [report EXCEPT ![j].gh = r] /\ pc' = [pc EXCEPT ![j] = "notice"]
    BY <1>6, <2>1 DEF Upload!Go
  <2>4. done'[j].gh = Len(rows[j])
    BY <1>1, <1>3, <1>6 DEF UploadTypes, Upload!Providers
  <2> HIDE DEF r
  <2> QED
    BY <1>2, <1>4, <1>5, <2>2, <2>3, <2>4, ExportEnds
<1>7. CASE Upload!Failed(j)
  <2>1. PICK r \in UploadReports :
          /\ report' = [report EXCEPT ![j].gh = r]
          /\ r.status = "failed" /\ r.count <= Len(work[j].rows)
    BY <1>1, <1>7, FailedIsTold DEF JobFits
  <2>2. pc' = [pc EXCEPT ![j] = "notice"]
    BY <1>1, <1>7, FailedIsTold DEF JobFits
  <2> QED
    BY <1>2, <1>4, <1>5, <2>1, <2>2, ExportEnds DEF Upload!Statuses
<1> QED
  BY <1>6, <1>7 DEF Upload!PutContent

\* What the notification tells of a provider that was begun.
LEMMA ReportsAreTold ==
    ASSUME NEW j \in UploadJobs, JobFits(j), NEW p \in Upload!Providers, begun[j][p] > 0
    PROVE  LET r == Upload!Reports(j)[p]
           IN  \/ r = report[j][p]
               \/ r.status = "failed"
<1>1. CASE Upload!Kind(j) = "scheduled"
  <2>1. work[j][p]
    BY <1>1 DEF JobFits, BegunFits
  <2> DEFINE probe == IF work[j].probe = "ok" /\ work[j].broken THEN "failed" ELSE work[j].probe
  <2>2. Upload!Reports(j)[p] = Upload!OfScheduler(work[j], probe, report[j], p)
    BY <1>1 DEF Upload!Reports
  <2> HIDE DEF probe
  <2>3. \/ Upload!OfScheduler(work[j], probe, report[j], p) = report[j][p]
        \/ Upload!OfScheduler(work[j], probe, report[j], p).status = "failed"
    BY <2>1 DEF Upload!OfScheduler, Upload!Report
  <2> QED
    BY <2>2, <2>3
<1>2. CASE Upload!Kind(j) # "scheduled"
  BY <1>2 DEF Upload!Reports
<1> QED
  BY <1>1, <1>2

\* The steps of the notification.
NoticeSteps(j) ==
    /\ UNCHANGED <<work, halt, report, rows, faults, others, begun, late, done>>
    /\ pc[j] \in {"notice", "send", "failure", "finish"}
    /\ \E to \in {"send", "failure", "finish", "over"} : pc' = [pc EXCEPT ![j] = to]
    /\ \/ notice' = notice
       \/ notice' = [notice EXCEPT ![j] = Upload!BuildUploadNotification(Upload!Reports(j))]
    /\ \/ sent' = sent
       \/ sent' = [sent EXCEPT ![j].notice = TRUE]
       \/ sent' = [sent EXCEPT ![j].failure = TRUE]
    /\ result' = result \/ result' = [result EXCEPT ![j] = notice[j]]

LEMMA NoticeStepsMove ==
    ASSUME UploadInv, NEW j \in UploadJobs, NoticeSteps(j), NoticeFits(j)'
    PROVE  Moves(j)
<1>1. UploadTypes /\ JobFits(j)
  BY DEF UploadInv
<1>2. /\ work' = work /\ halt' = halt /\ report' = report /\ rows' = rows /\ faults' = faults
      /\ others' = others /\ begun' = begun /\ late' = late /\ done' = done
      /\ pc[j] \in {"notice", "send", "failure", "finish"}
      /\ pc'[j] \in {"send", "failure", "finish", "over"}
  BY <1>1 DEF NoticeSteps, UploadTypes
<1>3. sent' \in [UploadJobs -> [notice : BOOLEAN, failure : BOOLEAN]]
  <2>1. CASE sent' = sent
    BY <1>1, <2>1 DEF UploadTypes
  <2>2. CASE sent' = [sent EXCEPT ![j].notice = TRUE]
    BY <1>1, <2>2 DEF UploadTypes
  <2>3. CASE sent' = [sent EXCEPT ![j].failure = TRUE]
    BY <1>1, <2>3 DEF UploadTypes
  <2> QED
    BY <2>1, <2>2, <2>3 DEF NoticeSteps
<1>4. pc' \in [UploadJobs -> UploadPlaces]
  BY <1>1 DEF NoticeSteps, UploadTypes, UploadPlaces
<1>5. UploadTypes'
  <2>1. DOMAIN notice' = UploadJobs /\ DOMAIN result' = UploadJobs
    BY <1>1 DEF NoticeSteps, UploadTypes
  <2> QED
    BY <1>1, <1>2, <1>3, <1>4, <2>1 DEF UploadTypes
<1>6. AloneIn(j)
  BY <1>1, <1>2 DEF NoticeSteps, AloneIn, JobView, UploadTypes
<1>7. BegunFits(j)'
  BY <1>1, <1>2 DEF JobFits, BegunFits, Upload!Kind, Upload!Providers
<1>8. ReportFits(j)'
  BY <1>1, <1>2 DEF JobFits, ReportFits, ToldTruly, BusyWith, Upload!Whole, Upload!Providers
<1> QED
  BY <1>5, <1>6, <1>7, <1>8 DEF Moves, JobFits

LEMMA NoticeMoves ==
    ASSUME UploadInv, NEW j \in UploadJobs, Upload!Notice(j)
    PROVE  Moves(j)
<1>1. UploadTypes /\ JobFits(j)
  BY DEF UploadInv
<1>2. NoticeSteps(j)
  BY DEF Upload!Notice, Upload!Go, Upload!github, Upload!history, NoticeSteps
<1>3. /\ work' = work /\ halt' = halt /\ report' = report /\ sent' = sent /\ result' = result
      /\ begun' = begun /\ pc[j] = "notice" /\ ~sent[j].notice /\ result[j] = None
  BY <1>1 DEF Upload!Notice, Upload!github, Upload!history, JobFits, NoticeFits
<1>4. Upload!Reports(j)' = Upload!Reports(j)
  BY <1>3 DEF Upload!Reports, Upload!Kind
<1>5. ASSUME Upload!Go(j, "over"),
             \/ \A p \in Upload!Providers : Upload!Reports(j)[p] = Upload!NoReport
             \/ Upload!Kind(j) \in {"manual_cf", "manual_gh"} /\ ~work[j].trigger
      PROVE  NoticeFits(j)'
  <2>1. pc'[j] = "over"
    BY <1>1, <1>5 DEF Upload!Go, UploadTypes
  <2>2. CASE \A p \in Upload!Providers : Upload!Reports(j)[p] = Upload!NoReport
    <3>1. ASSUME NEW p \in Upload!Providers, begun[j][p] > 0 PROVE FALSE
      <4>1. ToldTruly(j, p)
        BY <1>1, <1>3, <3>1 DEF JobFits, ReportFits, BusyWith
      <4>2. Upload!Reports(j)[p].status \in Upload!Statuses
        BY <1>1, <3>1, <4>1, ReportsAreTold DEF ToldTruly, Upload!Statuses
      <4> QED
        BY <2>2, <4>2 DEF Upload!NoReport, Upload!Report, Upload!Statuses
    <3>2. \A p \in Upload!Providers : begun[j][p] \in 0 .. 1
      BY <1>1 DEF JobFits, BegunFits
    <3>3. Silent(j)'
      BY <1>3, <3>1, <3>2 DEF Silent
    <3> QED
      BY <1>3, <2>1, <3>3 DEF NoticeFits
  <2>3. CASE Upload!Kind(j) \in {"manual_cf", "manual_gh"} /\ ~work[j].trigger
    <3>1. ~Upload!Ended(j)'
      BY <1>3, <2>3 DEF Upload!Ended, Upload!Asked, Upload!Kind
    <3> QED
      BY <1>3, <2>1, <3>1 DEF NoticeFits
  <2> QED
    BY <1>5, <2>2, <2>3
<1>6. ASSUME notice' = [notice EXCEPT ![j] = Upload!BuildUploadNotification(Upload!Reports(j))],
             Upload!Go(j, "send")
      PROVE  NoticeFits(j)'
  <2>1. pc'[j] = "send" /\ notice'[j] = Upload!BuildUploadNotification(Upload!Reports(j))'
    BY <1>1, <1>4, <1>6 DEF Upload!Go, UploadTypes, Upload!BuildUploadNotification, Upload!Overall,
       Upload!Providers
  <2> QED
    BY <1>3, <2>1 DEF NoticeFits, Upload!Ended
<1>7. NoticeFits(j)'
  BY <1>5, <1>6 DEF Upload!Notice
<1> QED
  BY <1>2, <1>7, NoticeStepsMove

LEMMA SendMoves ==
    ASSUME UploadInv, NEW j \in UploadJobs, Upload!Send(j)
    PROVE  Moves(j)
<1>1. UploadTypes /\ JobFits(j)
  BY DEF UploadInv
<1>2. NoticeSteps(j)
  BY DEF Upload!Send, Upload!Go, Upload!github, Upload!history, NoticeSteps
<1>3. /\ work' = work /\ halt' = halt /\ report' = report /\ notice' = notice /\ result' = result
      /\ begun' = begun /\ pc[j] = "send" /\ pc'[j] = "failure" /\ result[j] = None
      /\ sent'[j].notice \/ halt[j] = "cancelled"
  BY <1>1 DEF Upload!Send, Upload!Go, Upload!github, Upload!history, JobFits, NoticeFits, UploadTypes
<1>4. Upload!Reports(j)' = Upload!Reports(j)
  BY <1>3 DEF Upload!Reports, Upload!Kind
<1>5. NoticeFits(j)'
  <2>1. Silent(j)' <=> Silent(j)
    BY <1>3 DEF Silent
  <2>2. Upload!BuildUploadNotification(Upload!Reports(j))' = Upload!BuildUploadNotification(Upload!Reports(j))
    BY <1>4 DEF Upload!BuildUploadNotification, Upload!Overall
  <2> QED
    BY <1>1, <1>3, <2>1, <2>2 DEF JobFits, NoticeFits, Upload!Ended
<1> QED
  BY <1>2, <1>5, NoticeStepsMove

LEMMA SendTaskFailureMoves ==
    ASSUME UploadInv, NEW j \in UploadJobs, Upload!SendTaskFailure(j)
    PROVE  Moves(j)
<1>1. UploadTypes /\ JobFits(j)
  BY DEF UploadInv
<1>2. NoticeSteps(j)
  BY DEF Upload!SendTaskFailure, Upload!Go, Upload!github, Upload!history, NoticeSteps
<1>3. /\ work' = work /\ halt' = halt /\ report' = report /\ notice' = notice /\ result' = result
      /\ begun' = begun /\ pc[j] = "failure" /\ pc'[j] = "finish" /\ result[j] = None
      /\ sent'[j].notice = sent[j].notice
      /\ halt[j] # "cancelled" /\ sent[j].notice /\ Upload!UploadNotificationHasFailure(notice[j])
         => sent'[j].failure
      /\ sent[j].failure => sent'[j].failure
  BY <1>1 DEF Upload!SendTaskFailure, Upload!Go, Upload!github, Upload!history, JobFits, NoticeFits,
     UploadTypes
<1>4. Upload!Reports(j)' = Upload!Reports(j)
  BY <1>3 DEF Upload!Reports, Upload!Kind
<1>5. NoticeFits(j)'
  <2>1. Silent(j)' <=> Silent(j)
    BY <1>3 DEF Silent
  <2>2. Upload!BuildUploadNotification(Upload!Reports(j))' = Upload!BuildUploadNotification(Upload!Reports(j))
    BY <1>4 DEF Upload!BuildUploadNotification, Upload!Overall
  <2>3. Upload!UploadNotificationHasFailure(notice[j])' <=> Upload!UploadNotificationHasFailure(notice[j])
    BY <1>3 DEF Upload!UploadNotificationHasFailure
  <2>4. Alarmed(j)' \/ halt'[j] = "cancelled"
    BY <1>1, <1>3, <2>3 DEF JobFits, NoticeFits, Alarmed
  <2> QED
    BY <1>1, <1>3, <2>1, <2>2, <2>4 DEF JobFits, NoticeFits, Upload!Ended
<1> QED
  BY <1>2, <1>5, NoticeStepsMove

LEMMA FinishMoves ==
    ASSUME UploadInv, NEW j \in UploadJobs, Upload!Finish(j)
    PROVE  Moves(j)
<1>1. UploadTypes /\ JobFits(j)
  BY DEF UploadInv
<1>2. NoticeSteps(j)
  BY DEF Upload!Finish, Upload!Go, Upload!github, Upload!history, NoticeSteps
<1>3. /\ work' = work /\ halt' = halt /\ report' = report /\ notice' = notice /\ sent' = sent
      /\ begun' = begun /\ pc[j] = "finish" /\ pc'[j] = "over" /\ result'[j] = notice[j]
  BY <1>1 DEF Upload!Finish, Upload!Go, Upload!github, Upload!history, UploadTypes
<1>4. Upload!Reports(j)' = Upload!Reports(j)
  BY <1>3 DEF Upload!Reports, Upload!Kind
<1>5. NoticeFits(j)'
  <2>1. Silent(j)' <=> Silent(j)
    BY <1>3 DEF Silent
  <2>2. Upload!BuildUploadNotification(Upload!Reports(j))' = Upload!BuildUploadNotification(Upload!Reports(j))
    BY <1>4 DEF Upload!BuildUploadNotification, Upload!Overall
  <2>3. Alarmed(j)' <=> Alarmed(j)
    BY <1>3 DEF Upload!UploadNotificationHasFailure, Alarmed
  <2> QED
    BY <1>1, <1>3, <2>1, <2>2, <2>3 DEF JobFits, NoticeFits, Upload!Ended
<1> QED
  BY <1>2, <1>5, NoticeStepsMove

LEMMA UploadNext ==
    ASSUME UploadInv, [Upload!Next]_Upload!vars
    PROVE  UploadInv'
<1>1. CASE UNCHANGED Upload!vars
  <2>1. UploadTypes'
    BY <1>1 DEF Upload!vars, UploadInv, UploadTypes
  <2>2. \A j \in UploadJobs : UNCHANGED JobView(j)
    BY <1>1 DEF Upload!vars, JobView
  <2> QED
    BY <2>1, <2>2, JobStands DEF UploadInv
<1>2. ASSUME NEW p \in DOMAIN repo, Upload!Other(p) PROVE UploadInv'
  <2>1. /\ UNCHANGED <<work, pc, halt, report, rows, notice, sent, result, faults, begun, late, done>>
        /\ others < Commits /\ others' = others + 1
    BY <1>2 DEF Upload!Other, Upload!history
  <2>2. UploadTypes'
    BY <2>1, UploadNames DEF UploadInv, UploadTypes
  <2>3. \A j \in UploadJobs : UNCHANGED JobView(j)
    BY <2>1 DEF JobView
  <2> QED
    BY <2>2, <2>3, JobStands DEF UploadInv
<1>3. ASSUME NEW j \in UploadJobs,
             \/ Upload!Checked(j) /\ Upload!GiveUp(j)
             \/ Upload!BeginAuto(j) \/ Upload!BeginManual(j) \/ Upload!BeginScheduled(j)
             \/ Upload!CloudflareBegin(j) \/ Upload!CloudflareEnd(j)
             \/ Upload!GitHubSkip(j) \/ Upload!GitHubBegin(j)
             \/ Upload!GetContentSHA(j) \/ Upload!PutContent(j)
             \/ Upload!Notice(j) \/ Upload!Send(j) \/ Upload!SendTaskFailure(j) \/ Upload!Finish(j)
             \/ Upload!Halt(j, "paused") \/ Upload!Halt(j, "run") \/ Upload!Halt(j, "cancelled")
      PROVE  UploadInv'
  <2>1. Moves(j)
    BY <1>3, GiveUpMoves, BeginAutoMoves, BeginManualMoves, BeginScheduledMoves,
       CloudflareBeginMoves, CloudflareEndMoves, GitHubSkipMoves, GitHubBeginMoves,
       GetContentSHAMoves, PutContentMoves, NoticeMoves, SendMoves, SendTaskFailureMoves,
       FinishMoves, HaltMoves
  <2> QED
    BY <2>1, UploadMoves
<1> QED
  BY <1>1, <1>2, <1>3 DEF Upload!Next

\* Two jobs at once: of one that is about to write, with a path of its own.
Undisturbed(j) ==
    /\ pc[j] = "put" /\ others = 0 /\ work[j].path = "task"
    /\ \A k \in UploadJobs \ {j} : work[k].task # work[j].task
PathInv ==
    /\ work \in [UploadJobs -> Works] /\ others \in Nat
    /\ DOMAIN pc = UploadJobs /\ DOMAIN sha = UploadJobs
    /\ DOMAIN repo = {Upload!Path(w) : w \in Works}
    /\ \A j \in UploadJobs : Undisturbed(j) => sha[j] = repo[Upload!Path(work[j])]

LEMMA PathInit == Upload!Init => PathInv
<1> SUFFICES ASSUME Upload!Init PROVE PathInv
  OBVIOUS
<1>1. /\ work \in [UploadJobs -> Works] /\ others \in Nat
      /\ DOMAIN pc = UploadJobs /\ DOMAIN sha = UploadJobs
      /\ DOMAIN repo = {Upload!Path(w) : w \in Works}
  BY UploadNames DEF Upload!Init
<1>2. \A j \in UploadJobs : pc[j] = "begin"
  BY DEF Upload!Init
<1> QED
  BY <1>1, <1>2 DEF PathInv, Undisturbed

\* Jobs of different tasks write to different paths, where one of them names its task.
LEMMA PathsApart ==
    ASSUME NEW v \in Works, NEW w \in Works, v.path = "task", v.task # w.task
    PROVE  Upload!Path(v) # Upload!Path(w)
<1>1. /\ v.task \notin {"fixed", "template"} /\ w.path \in {"task", "fixed", "outside"}
  BY UploadAssumption DEF UploadAssumption, Upload!WorksAssumption
<1>2. Upload!Path(v) = v.task
  BY DEF Upload!Path
<1>3. Upload!Path(w) \in {w.task, "fixed", "template"}
  BY <1>1 DEF Upload!Path
<1> QED
  BY <1>1, <1>2, <1>3

LEMMA PathNext ==
    ASSUME PathInv, [Upload!Next]_Upload!vars
    PROVE  PathInv'
<1> USE DEF PathInv
<1>1. CASE UNCHANGED Upload!vars
  BY <1>1 DEF Upload!vars, Undisturbed
<1>2. ASSUME NEW p \in DOMAIN repo, Upload!Other(p) PROVE PathInv'
  <2>1. /\ work' = work /\ pc' = pc /\ sha' = sha /\ others' = others + 1
        /\ DOMAIN repo' = DOMAIN repo
    BY <1>2 DEF Upload!Other
  <2>2. others' \in Nat /\ others' # 0
    BY <2>1
  <2> QED
    BY <2>1, <2>2 DEF Undisturbed
<1>3. ASSUME NEW k \in UploadJobs,
             UNCHANGED <<work, sha, repo, others>>,
             pc' = pc \/ \E to : to # "put" /\ pc' = [pc EXCEPT ![k] = to]
      PROVE  PathInv'
  <2>1. \A j \in UploadJobs : pc'[j] = "put" => pc[j] = "put"
    BY <1>3
  <2>2. DOMAIN pc' = UploadJobs
    BY <1>3
  <2> QED
    BY <1>3, <2>1, <2>2 DEF Undisturbed
<1>4. ASSUME NEW k \in UploadJobs, Upload!GetContentSHA(k) PROVE PathInv'
  <2>1. CASE sha' = [sha EXCEPT ![k] = repo[Upload!Path(work[k])]]
    <3>1. /\ work' = work /\ repo' = repo /\ others' = others /\ sha'[k] = repo[Upload!Path(work[k])]
          /\ DOMAIN sha' = UploadJobs
      BY <1>4, <2>1 DEF Upload!GetContentSHA
    <3>2. \E to : pc' = [pc EXCEPT ![k] = to]
      BY <1>4 DEF Upload!GetContentSHA, Upload!Go, Upload!Failed
    <3>3. \A j \in UploadJobs \ {k} : pc'[j] = pc[j] /\ sha'[j] = sha[j]
      BY <2>1, <3>2
    <3>4. DOMAIN pc' = UploadJobs
      BY <3>2
    <3> QED
      BY <3>1, <3>3, <3>4 DEF Undisturbed
  <2>2. CASE Upload!Failed(k) /\ UNCHANGED sha
    <3>1. UNCHANGED <<work, sha, repo, others>>
      BY <1>4, <2>2 DEF Upload!GetContentSHA
    <3>2. pc' = [pc EXCEPT ![k] = "notice"]
      BY <2>2 DEF Upload!Failed, Upload!Go
    <3> QED
      BY <1>3, <3>1, <3>2
  <2> QED
    BY <1>4, <2>1, <2>2 DEF Upload!GetContentSHA
<1>5. ASSUME NEW k \in UploadJobs, Upload!PutContent(k) PROVE PathInv'
  <2>1. work' = work /\ sha' = sha /\ others' = others /\ pc' = [pc EXCEPT ![k] = "notice"]
    BY <1>5 DEF Upload!PutContent, Upload!Go, Upload!Failed
  <2>2. repo' = repo \/ \E v : repo' = [repo EXCEPT ![Upload!Path(work[k])] = v]
    BY <1>5 DEF Upload!PutContent
  <2>3. ASSUME NEW j \in UploadJobs, Undisturbed(j)'
        PROVE  sha'[j] = repo'[Upload!Path(work'[j])]
    <3>1. j # k /\ pc[j] = "put"
      BY <2>1, <2>3 DEF Undisturbed
    <3>2. Undisturbed(j)
      BY <2>1, <2>3, <3>1 DEF Undisturbed
    <3>3. Upload!Path(work[j]) # Upload!Path(work[k])
      BY <3>1, <3>2, PathsApart DEF Undisturbed
    <3>4. repo'[Upload!Path(work[j])] = repo[Upload!Path(work[j])]
      BY <2>2, <3>3
    <3> QED
      BY <2>1, <3>2, <3>4
  <2>4. DOMAIN repo' = DOMAIN repo
    BY <2>2
  <2>5. \A j \in UploadJobs : (Undisturbed(j) => sha[j] = repo[Upload!Path(work[j])])'
    BY <2>3 DEF Upload!Path
  <2> QED
    BY <2>1, <2>4, <2>5
<1>6. ASSUME NEW k \in UploadJobs,
             \/ Upload!Checked(k) /\ Upload!GiveUp(k)
             \/ Upload!BeginAuto(k) \/ Upload!BeginManual(k) \/ Upload!BeginScheduled(k)
             \/ Upload!CloudflareBegin(k) \/ Upload!CloudflareEnd(k)
             \/ Upload!GitHubSkip(k) \/ Upload!GitHubBegin(k)
             \/ Upload!Notice(k) \/ Upload!Send(k) \/ Upload!SendTaskFailure(k)
             \/ Upload!Finish(k) \/ (\E to : Upload!Halt(k, to))
      PROVE  PathInv'
  <2>1. UNCHANGED <<work, sha, repo, others>>
    BY <1>6 DEF Upload!GiveUp, Upload!BeginAuto, Upload!BeginManual, Upload!BeginScheduled,
       Upload!CloudflareBegin, Upload!CloudflareEnd, Upload!GitHubSkip, Upload!GitHubBegin,
       Upload!Notice, Upload!Send, Upload!SendTaskFailure, Upload!Finish, Upload!Halt,
       Upload!github
  <2>2. pc' = pc \/ \E to : to # "put" /\ pc' = [pc EXCEPT ![k] = to]
    BY <1>6 DEF Upload!GiveUp, Upload!BeginAuto, Upload!BeginManual, Upload!BeginScheduled,
       Upload!CloudflareBegin, Upload!CloudflareEnd, Upload!GitHubSkip, Upload!GitHubBegin,
       Upload!Notice, Upload!Send, Upload!SendTaskFailure, Upload!Finish, Upload!Halt,
       Upload!Go, Upload!Failed, Upload!AfterCloudflare
  <2> QED
    BY <1>3, <2>1, <2>2
<1> QED
  BY <1>1, <1>2, <1>4, <1>5, <1>6 DEF Upload!Next

LEMMA UploadIsSafe == UploadInv /\ PathInv => Upload!Safety
<1> SUFFICES ASSUME UploadInv, PathInv PROVE Upload!Safety
  OBVIOUS
<1>1. ASSUME NEW j \in UploadJobs PROVE UploadTypes /\ JobFits(j) /\ work[j] \in Works
  BY DEF UploadInv, UploadTypes
<1>2. Upload!TypeOK
  <2>1. ASSUME NEW j \in UploadJobs, NEW p \in Upload!Providers
        PROVE  /\ report[j][p].status \in Upload!Statuses \cup {"none"}
               /\ report[j][p].count \in 0 .. Len(work[j].rows)
               /\ begun[j][p] \in 0 .. 1
    <3>1. report[j][p] \in UploadReports /\ Len(work[j].rows) \in Nat
      BY <1>1, UploadNames DEF UploadTypes
    <3> QED
      BY <1>1, <3>1 DEF JobFits, ReportFits, BegunFits, UploadReports
  <2>2. \A j \in UploadJobs : result[j] # None => pc[j] = "over" /\ result[j] = notice[j]
    BY <1>1 DEF JobFits, NoticeFits
  <2> QED
    BY <2>1, <2>2 DEF UploadInv, UploadTypes, Upload!TypeOK
<1>3. ASSUME NEW j \in UploadJobs, Upload!Ended(j), NEW p \in Upload!Providers, begun[j][p] > 0
      PROVE  /\ sent[j].notice /\ Alarmed(j) /\ ToldTruly(j, p)
             /\ notice[j] = Upload!BuildUploadNotification(Upload!Reports(j))
             /\ notice[j].of = Upload!Reports(j)
  <2>1. ~Silent(j)
    BY <1>3 DEF Silent
  <2>2. sent[j].notice /\ Alarmed(j) /\ notice[j] = Upload!BuildUploadNotification(Upload!Reports(j))
    BY <1>1, <1>3, <2>1 DEF JobFits, NoticeFits
  <2>3. ToldTruly(j, p)
    BY <1>1, <1>3 DEF JobFits, ReportFits, BusyWith, Upload!Ended
  <2> QED
    BY <2>2, <2>3 DEF Upload!BuildUploadNotification
<1>4. Upload!TellsWhatHappened
  <2> SUFFICES ASSUME NEW j \in UploadJobs, Upload!Ended(j), NEW q \in Upload!Providers, begun[j][q] > 0
               PROVE  /\ sent[j].notice
                      /\ \A p \in Upload!Providers : begun[j][p] > 0 =>
                           LET r == notice[j].of[p]
                           IN  /\ r.status # "none"
                               /\ r.status = "completed" =>
                                    r.count = Upload!Whole(j, p) /\ done[j][p] = Upload!Whole(j, p)
    BY DEF Upload!TellsWhatHappened
  <2>1. ASSUME NEW p \in Upload!Providers, begun[j][p] > 0
        PROVE  LET r == notice[j].of[p]
               IN  /\ r.status # "none"
                   /\ r.status = "completed" =>
                        r.count = Upload!Whole(j, p) /\ done[j][p] = Upload!Whole(j, p)
    <3>1. notice[j].of[p] = report[j][p] \/ notice[j].of[p].status = "failed"
      BY <1>1, <1>3, <2>1, ReportsAreTold
    <3> QED
      BY <1>3, <2>1, <3>1 DEF ToldTruly, Upload!Statuses
  <2> QED
    BY <1>3, <2>1
<1>5. Upload!ShortfallIsAlarm
  <2> SUFFICES ASSUME NEW j \in UploadJobs, Upload!Ended(j), NEW p \in Upload!Providers,
                      begun[j][p] > 0, done[j][p] < Upload!Whole(j, p)
               PROVE  sent[j].failure
    BY DEF Upload!ShortfallIsAlarm
  <2>1. done[j][p] \in Nat
    BY <1>1 DEF UploadTypes
  <2>2. done[j][p] # Upload!Whole(j, p)
    BY <2>1
  <2>3. report[j][p].status \in {"failed", "partial"}
    BY <1>3, <2>2 DEF ToldTruly, Upload!Statuses
  <2>4. notice[j].of[p].status \in {"failed", "partial"}
    BY <1>1, <1>3, <2>3, ReportsAreTold
  <2>5. Upload!UploadNotificationHasFailure(notice[j])
    BY <2>4 DEF Upload!UploadNotificationHasFailure
  <2> QED
    BY <1>3, <2>5 DEF Alarmed
<1>6. Upload!StopsAtCheckpoint
  BY <1>1 DEF JobFits, BegunFits, Upload!StopsAtCheckpoint
<1>7. Upload!OwnPathOwnVersion
  BY DEF PathInv, Undisturbed, Upload!OwnPathOwnVersion
<1> QED
  BY <1>2, <1>4, <1>5, <1>6, <1>7 DEF Upload!Safety

LEMMA UploadPart ==
    /\ Init => (part = "upload" => Upload!Init)
    /\ [Next]_vars => /\ part' = part
                      /\ part = "upload" => [Upload!Next]_Upload!vars
<1>1. uploadVars = Upload!vars
  BY DEF uploadVars, Upload!vars
<1>2. Init => (part = "upload" => Upload!Init)
  BY DEF Init
<1>3. [Next]_vars => part' = part
  BY DEF Next, vars
<1>4. [Next]_vars => (part = "upload" => Upload!Next \/ UNCHANGED uploadVars)
  BY DEF Next, vars
<1>5. UNCHANGED uploadVars => UNCHANGED Upload!vars
  BY DEF uploadVars, Upload!vars
<1> QED
  BY <1>2, <1>3, <1>4, <1>5

(* The notification of an upload tells what happened, a shortfall is told  *)
(* as a failure, a halted upload begins with one more provider at most,    *)
(* and two jobs with paths of their own do not meet, for all jobs, works,  *)
(* numbers of refused calls and of commits by others (post_probe_push.go,  *)
(* upload_notification.go, githubcore).                                    *)
THEOREM UploadAlwaysSafe == Spec => []UploadSafe
<1> DEFINE Inv == part = "upload" => UploadInv /\ PathInv
<1>1. Init => Inv
  BY UploadPart, UploadInit, PathInit
<1>2. Inv /\ [Next]_vars => Inv'
  BY UploadPart, UploadNext, PathNext
<1>3. Inv => UploadSafe
  BY UploadIsSafe DEF UploadSafe
<1> QED
  BY <1>1, <1>2, <1>3, PTL DEF Spec
=============================================================================
