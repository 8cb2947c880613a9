--------------------------- MODULE TaskStoreProofs ---------------------------
(***************************************************************************)
(* Proofs about TaskStore, for any readers and sources and any number of   *)
(* inputs: what the snapshot of a task says after its terminal event, and  *)
(* after a crash.                                                          *)
(***************************************************************************)
EXTENDS TaskStore, TLAPS

-----------------------------------------------------------------------------
(* The inductive invariant.                                                *)

\* A goroutine that has got past publishMu with an event.
Publishing(y) == IsEvent(actor[y].op) /\ actor[y].pc \notin {"idle", "lock"}

\* Where a load may be; a load of GetTask is nowhere else.
Loading == {"load", "fetch", "recache", "rewrite", "rewritten"}

RunnerOps == {"accepted", "persist"} \cup TerminalEvents

\* Each goroutine does what its operation is made of, and the runner alone
\* begins, persists and ends the run.
OpsFit ==
    \A y \in Actors :
      /\ actor[y].pc = "idle" <=> actor[y].op = "none"
      /\ actor[y].op = "get" => actor[y].pc \in Loading
      /\ actor[y].pc \in {"lock", "emit"} => IsEvent(actor[y].op)
      /\ actor[y].op \in RunnerOps => y = Runner
      /\ actor[y].op \in {"accepted", "persist"}
           => actor[y].pc \in {"store", "write", "put"}

\* One publication at a time, and none of the run's once its end began.
Serialised ==
    /\ \A y \in Actors : Publishing(y) => publishMu
    /\ \A y, z \in Actors : Publishing(y) /\ Publishing(z) => y = z
    /\ terminal # "none"
         => \A y \in Actors :
              actor[y].pc \notin {"idle", "lock"}
                => actor[y].op \in {"get", "resume", "mcis", terminal}
    /\ \A y \in Actors :
         actor[y].op \in TerminalEvents /\ actor[y].pc # "lock"
           => terminal = actor[y].op

\* An ended snapshot is attached to nothing.
WellFormed(snap) ==
    /\ snap.status = "none" => snap = NoSnapshot
    /\ snap.status \in TerminalStatus => ~snap.attached /\ ~snap.resume

SnapsFit ==
    /\ WellFormed(file)
    /\ cache.status \in ActiveStatus \/ cache = NoSnapshot
    /\ \A y \in Actors :
         /\ actor[y].pc \in {"recache", "rewrite", "rewritten", "write", "put"}
              => WellFormed(actor[y].snap)
         /\ actor[y].pc \in {"write", "put"}
              => actor[y].snap.status = StatusOf[actor[y].op]

\* What a dead process leaves running is read as failed.
Dead == [status |-> "failed", attached |-> FALSE, resume |-> FALSE]

Restarted ==
    phase = "crashed" =>
      /\ ~attached
      /\ cache = NoSnapshot
      /\ terminal = "none"
      /\ \A y \in Actors :
           /\ actor[y].op \in {"none", "get"}
           /\ actor[y].pc = "fetch" => ~actor[y].att.current
           /\ actor[y].pc \in {"recache", "rewrite", "rewritten"}
                => actor[y].snap.status \notin ActiveStatus
           /\ actor[y].pc \in {"recache", "rewrite"} /\ actor[y].changed
                => /\ actor[y].snap = Dead
                   /\ file.status \in ActiveStatus \/ file = Dead
           /\ actor[y].pc = "rewrite" => actor[y].changed

\* Before the run there are only readers, and no end.
NotBegun ==
    /\ phase = "new" =>
         /\ ~attached /\ ~cancelled
         /\ \A y \in Actors : actor[y].op \in {"none", "get"}
    /\ phase \in {"new", "working", "persisted"} =>
         /\ terminal = "none"
         /\ \A y \in Actors : actor[y].op \notin TerminalEvents
    /\ terminal = "none" /\ phase # "crashed"
         => settled = "none" /\ emitted = "none"

\* The recorded end stays the one in the file until an older snapshot, an
\* unguarded write or a failed one comes in between.
EndRecorded ==
    /\ terminal # "none" /\ settled # "none" => settled = terminal
    /\ \A y \in Actors :
         /\ actor[y].op \in TerminalEvents
              /\ actor[y].pc \in Loading \cup {"store", "write"}
              => settled = "none"
         /\ actor[y].op \in TerminalEvents /\ actor[y].pc = "put"
              => settled = actor[y].op
         /\ actor[y].op \in TerminalEvents /\ actor[y].pc = "emit"
              => settled = actor[y].op \/ tainted
    /\ settled # "none" /\ ~tainted =>
         /\ file.status = StatusOf[settled]
         /\ cache = NoSnapshot \/ EndHalfStored
         /\ \A y \in Actors :
              actor[y].pc \in Holding /\ ~actor[y].stale
                /\ actor[y].op \notin Unguarded
              => /\ actor[y].pc \notin {"store", "write"}
                 /\ actor[y].snap.status = StatusOf[settled]
    /\ emitted # "none" =>
         /\ settled = emitted \/ tainted
         /\ \A y \in Actors :
              actor[y].op \in TerminalEvents => actor[y].pc = "lock"

IInv ==
    /\ TypeOK
    /\ OpsFit
    /\ Serialised
    /\ SnapsFit
    /\ Restarted
    /\ NotBegun
    /\ EndRecorded

-----------------------------------------------------------------------------
(* The functions on snapshots.                                             *)

Places == {"idle", "lock", "load", "fetch", "recache", "rewrite",
           "rewritten", "store", "write", "put", "emit"}

Attachments == [current : BOOLEAN, paused : BOOLEAN]

\* The record of a goroutine.
Records == [pc : Places, op : Ops, att : Attachments, snap : Snapshots,
            changed : BOOLEAN, stale : BOOLEAN]

\* An idle goroutine, an empty snapshot and an attachment are what they say.
LEMMA BasicTypes ==
    /\ Resting \in Records
    /\ NoSnapshot \in Snapshots
    /\ TypeOK => Attachment \in Attachments
  BY DEF Resting, Records, Places, Ops, Attachments, NoSnapshot, Snapshots,
         Attachment, TypeOK

\* A goroutine that turns to another operation has a record.
LEMMA FreshTypes ==
    ASSUME NEW q \in Places, NEW o \in Ops
    PROVE  [Resting EXCEPT !.op = o, !.pc = q] \in Records
  BY BasicTypes DEF Records

\* Loading, normalising, merging and caching a snapshot give a snapshot.
LEMMA SnapshotTypes ==
    ASSUME NEW snap \in Snapshots, NEW att \in Attachments
    PROVE  /\ Normalized(snap, att) \in Snapshots
           /\ Loaded(snap, att) \in Snapshots
           /\ Cached(snap) \in Snapshots
           /\ \A op \in DOMAIN StatusOf : Merged(snap, op) \in Snapshots
<1>1. Normalized(snap, att) \in Snapshots
  <2>1. (att.current /\ att.paused) \in BOOLEAN
    OBVIOUS
  <2> QED
    BY <2>1 DEF Normalized, Snapshots, Attachments
<1>2. Loaded(snap, att) \in Snapshots
  BY <1>1 DEF Loaded, Snapshots, TerminalStatus
<1>3. Cached(snap) \in Snapshots
  BY BasicTypes DEF Cached
<1>4. ASSUME NEW op \in DOMAIN StatusOf
      PROVE  Merged(snap, op) \in Snapshots
  <2>1. StatusOf[op] \in ActiveStatus \cup TerminalStatus
    BY DEF StatusOf, ActiveStatus, TerminalStatus
  <2>2. snap.attached \in BOOLEAN /\ snap.resume \in BOOLEAN
    BY DEF Snapshots
  <2> QED
    BY <2>1, <2>2 DEF Merged, Snapshots
<1> QED
  BY <1>1, <1>2, <1>3, <1>4

\* Normalising keeps the status and detaches an ended snapshot; so does
\* loading, but that it fails an active one that nobody runs.
LEMMA SnapshotFacts ==
    ASSUME NEW snap \in Snapshots, NEW att \in Attachments
    PROVE  /\ Normalized(snap, att).status = snap.status
           /\ snap.status # "none" => WellFormed(Normalized(snap, att))
           /\ snap.status # "none" => WellFormed(Loaded(snap, att))
           /\ snap.status \in TerminalStatus
                => Loaded(snap, att).status = snap.status
           /\ ~att.current /\ snap.status # "none" /\ WellFormed(snap)
                => /\ Loaded(snap, att).status \notin ActiveStatus
                   /\ Loaded(snap, att) # snap
                        => Loaded(snap, att) = Dead /\ snap.status \in ActiveStatus
<1> USE DEF Normalized, Loaded, Snapshots, Attachments, WellFormed,
            NoSnapshot, Dead, ActiveStatus, TerminalStatus
<1>1. Normalized(snap, att).status = snap.status
  OBVIOUS
<1>2. snap.status # "none" => WellFormed(Normalized(snap, att))
  OBVIOUS
<1>3. snap.status # "none" => WellFormed(Loaded(snap, att))
  OBVIOUS
<1>4. snap.status \in TerminalStatus => Loaded(snap, att).status = snap.status
  OBVIOUS
<1>5. ASSUME ~att.current, snap.status # "none", WellFormed(snap)
      PROVE  /\ Loaded(snap, att).status \notin ActiveStatus
             /\ Loaded(snap, att) # snap
                  => Loaded(snap, att) = Dead /\ snap.status \in ActiveStatus
  <2>1. CASE snap.status \in ActiveStatus
    BY <1>5, <2>1
  <2>2. CASE snap.status \in TerminalStatus
    <3>1. Loaded(snap, att) = snap
      BY <1>5, <2>2
    <3> QED
      BY <2>2, <3>1
  <2> QED
    BY <1>5, <2>1, <2>2
<1> QED
  BY <1>1, <1>2, <1>3, <1>4, <1>5

\* Only an active snapshot is kept in the cache.
LEMMA CachedFacts ==
    ASSUME NEW snap \in Snapshots
    PROVE  /\ Cached(snap).status \in ActiveStatus \/ Cached(snap) = NoSnapshot
           /\ snap.status \notin ActiveStatus => Cached(snap) = NoSnapshot
  BY DEF Cached

\* The status an event stands for.
LEMMA StatusFacts ==
    /\ \A op \in DOMAIN StatusOf : StatusOf[op] # "none"
    /\ \A op \in TerminalEvents :
         /\ op \in DOMAIN StatusOf
         /\ StatusOf[op] \in TerminalStatus
         /\ StatusOf[op] \notin ActiveStatus
         /\ IsEvent(op) /\ op \notin Coalescable /\ op \notin Unguarded
  BY DEF StatusOf, TerminalEvents, TerminalStatus, ActiveStatus, IsEvent,
         LifecycleEvents, Coalescable, Unguarded

-----------------------------------------------------------------------------
(* Type correctness.                                                       *)

\* A goroutine changes its own record.
LEMMA RecordTypes ==
    ASSUME TypeOK
    PROVE  actor \in [Actors -> Records]
  BY DEF TypeOK, Records, Places, Attachments

\* A goroutine may take any record.
LEMMA NewRecord ==
    ASSUME TypeOK
    PROVE  \A x \in Actors : \A r \in Records :
             [actor EXCEPT ![x] = r] \in [Actors -> Records]
  BY RecordTypes

\* So may one that returns from a load.
LEMMA LoadReturnsTypes ==
    ASSUME TypeOK, NEW x \in Actors, NEW snap \in Snapshots,
           LoadReturns(x, snap)
    PROVE  actor' \in [Actors -> Records]
<1> actor \in [Actors -> Records] /\ Resting \in Records
  BY RecordTypes, BasicTypes
<1> QED
  BY DEF LoadReturns, Records, Places, Resting

\* The steps of any goroutine keep the types.
LEMMA StepTypes ==
    ASSUME TypeOK, OpsFit, NEW x \in Actors, Step(x)
    PROVE  TypeOK'
<1> USE BasicTypes, RecordTypes DEF Records
<1>1. CASE PublishBegin(x)
  <2>1. actor' \in [Actors -> Records]
    BY <1>1 DEF PublishBegin, Places
  <2> QED
    BY <1>1, <2>1 DEF PublishBegin, TypeOK, runVars, storeVars, historyVars,
                      Places, Attachments
<1>2. CASE LoadBegin(x)
  <2>1. actor' \in [Actors -> Records]
    BY <1>2 DEF LoadBegin, Places
  <2> QED
    BY <1>2, <2>1 DEF LoadBegin, TypeOK, runVars, storeVars, historyVars,
                      Places, Attachments
<1>3. CASE Fetch(x)
  <2> DEFINE found == IF cache # NoSnapshot THEN cache ELSE file
             snap  == Loaded(found, actor[x].att)
  <2>1. found \in Snapshots /\ actor[x].att \in Attachments
    BY DEF TypeOK
  <2>2. snap \in Snapshots
    BY <2>1, SnapshotTypes
  <2>3. (snap # found) \in BOOLEAN /\ EndHalfStored \in BOOLEAN
    BY DEF EndHalfStored
  <2> HIDE DEF found, snap
  <2>4. CASE found = NoSnapshot
    <3>1. LoadReturns(x, NoSnapshot)
      BY <1>3, <2>4 DEF Fetch, found
    <3> QED
      BY <1>3, <3>1, LoadReturnsTypes
      DEF Fetch, TypeOK, runVars, storeVars, historyVars, Places, Attachments
  <2>5. CASE found # NoSnapshot
    <3>1. actor' = [actor EXCEPT
                      ![x] = [Resting EXCEPT
                                !.pc = "recache", !.op = actor[x].op,
                                !.snap = snap, !.changed = snap # found,
                                !.stale = EndHalfStored]]
      BY <1>3, <2>5 DEF Fetch, found, snap
    <3>2. actor' \in [Actors -> Records]
      BY <3>1, <2>2, <2>3 DEF Places, Resting
    <3> QED
      BY <1>3, <3>2
      DEF Fetch, TypeOK, runVars, storeVars, historyVars, Places, Attachments
  <2> QED
    BY <2>4, <2>5
<1>4. CASE Recache(x)
  <2>1. actor[x].snap \in Snapshots /\ cache' \in Snapshots
    BY <1>4, SnapshotTypes DEF Recache, Cached
  <2>2. actor' \in [Actors -> Records]
    BY <1>4, <2>1, LoadReturnsTypes DEF Recache, Places
  <2>3. tainted' \in BOOLEAN
    BY <1>4 DEF Recache, Taints
  <2> QED
    BY <1>4, <2>1, <2>2, <2>3 DEF Recache, TypeOK, runVars, Places, Attachments
<1>5. CASE Rewrite(x)
  <2>1. actor[x].snap \in Snapshots /\ file' \in Snapshots
    BY <1>5 DEF Rewrite, TypeOK
  <2>2. actor' \in [Actors -> Records]
    <3>1. CASE LoadFails(x)
      <4>1. "resume" \in Ops /\ actor[x].op \in Ops
        BY DEF Ops, StatusOf
      <4>2. \/ actor' = [actor EXCEPT ![x] = Resting]
            \/ \E q \in {"store", "emit"}, o \in Ops :
                 actor' = [actor EXCEPT ![x] = [Resting EXCEPT !.op = o, !.pc = q]]
        <5>1. CASE actor[x].op = "get"
          BY <3>1, <5>1 DEF LoadFails
        <5>2. CASE actor[x].op = "resume"
          BY <3>1, <4>1, <5>2 DEF LoadFails
        <5>3. CASE actor[x].op \notin {"get", "resume"}
          BY <3>1, <4>1, <5>3 DEF LoadFails
        <5> QED
          BY <5>1, <5>2, <5>3
      <4> HIDE DEF Records
      <4>3. \E r \in Records : actor' = [actor EXCEPT ![x] = r]
        <5>1. CASE actor' = [actor EXCEPT ![x] = Resting]
          BY <5>1
        <5>2. CASE \E q \in {"store", "emit"}, o \in Ops :
                     actor' = [actor EXCEPT
                                 ![x] = [Resting EXCEPT !.op = o, !.pc = q]]
          <6>1. PICK q \in {"store", "emit"}, o \in Ops :
                  actor' = [actor EXCEPT
                              ![x] = [Resting EXCEPT !.op = o, !.pc = q]]
            BY <5>2
          <6>2. [Resting EXCEPT !.op = o, !.pc = q] \in Records
            BY FreshTypes DEF Places
          <6> QED
            BY <6>1, <6>2
        <5> QED
          BY <4>2, <5>1, <5>2
      <4> QED
        BY <4>3, NewRecord
    <3>2. CASE actor' = [actor EXCEPT ![x].pc = "rewritten"]
      BY <3>2 DEF Places
    <3> QED
      BY <1>5, <3>1, <3>2 DEF Rewrite
  <2>3. tainted' \in BOOLEAN
    BY <1>5 DEF Rewrite, Taints
  <2> QED
    BY <1>5, <2>1, <2>2, <2>3 DEF Rewrite, TypeOK, runVars, Places, Attachments
<1>6. CASE Rewritten(x)
  <2>1. actor[x].snap \in Snapshots /\ cache' \in Snapshots
    BY <1>6, SnapshotTypes DEF Rewritten, Cached
  <2>2. actor' \in [Actors -> Records]
    BY <1>6, <2>1, LoadReturnsTypes DEF Rewritten
  <2>3. tainted' \in BOOLEAN
    BY <1>6 DEF Rewritten, Taints
  <2> QED
    BY <1>6, <2>1, <2>2, <2>3
    DEF Rewritten, TypeOK, runVars, Places, Attachments
<1>7. CASE Store(x)
  <2> DEFINE op == actor[x].op
             snap == Normalized(Merged(actor[x].snap, op), Attachment)
  <2>1. actor[x].snap \in Snapshots /\ op \in DOMAIN StatusOf
    BY <1>7 DEF Store, OpsFit, Ops, Loading
  <2>2. snap \in Snapshots
    BY <2>1, SnapshotTypes
  <2> HIDE DEF snap
  <2>3. PICK q \in {"write", "put"} :
          actor' = [actor EXCEPT ![x].pc = q, ![x].snap = snap]
    BY <1>7 DEF Store, snap
  <2>4. actor' \in [Actors -> Records]
    BY <2>2, <2>3 DEF Places
  <2> QED
    BY <1>7, <2>4
    DEF Store, TypeOK, runVars, storeVars, historyVars, Places, Attachments
<1>8. CASE Write(x)
  <2>1. file' \in Snapshots
    BY <1>8 DEF Write, TypeOK
  <2>2. AfterStore(x) \in Records
    BY DEF AfterStore, Resting, Places, Ops, StatusOf
  <2>3. actor' \in [Actors -> Records]
    <3>1. CASE Settles(x)
      <4>1. ASSUME NEW y \in Actors
            PROVE  actor'[y] \in Records
        <5>1. (actor[y].pc \in Holding) \in BOOLEAN
          BY DEF Holding
        <5>2. CASE y = x
          BY <3>1, <5>2 DEF Settles, Places
        <5>3. CASE y # x
          <6>1. actor'[y] = [actor[y] EXCEPT !.stale = actor[y].pc \in Holding]
            BY <3>1, <5>3 DEF Settles
          <6> QED
            BY <5>1, <6>1
        <5> QED
          BY <5>2, <5>3
      <4> QED
        BY <3>1, <4>1 DEF Settles
    <3>2. CASE actor' = [actor EXCEPT ![x].pc = "put"]
      BY <3>2 DEF Places
    <3>3. CASE actor' = [actor EXCEPT ![x] = AfterStore(x)]
      BY <2>2, <3>3
    <3> QED
      BY <1>8, <3>1, <3>2, <3>3 DEF Write
  <2>4. settled' \in TerminalEvents \cup {"none"}
    BY <1>8 DEF Write, Settles, TypeOK
  <2>5. tainted' \in BOOLEAN /\ claimed' \in BOOLEAN
    BY <1>8 DEF Write, Taints, Forgets, TypeOK
  <2> QED
    BY <1>8, <2>1, <2>3, <2>4, <2>5 DEF Write, TypeOK, runVars, Places, Attachments
<1>9. CASE Put(x)
  <2>1. cache' \in Snapshots
    BY <1>9, SnapshotTypes DEF Put, Cached
  <2>2. AfterStore(x) \in Records
    BY DEF AfterStore, Resting, Places, Ops, StatusOf
  <2>3. tainted' \in BOOLEAN /\ claimed' \in BOOLEAN
    BY <1>9 DEF Put, Taints, Forgets, TypeOK
  <2> QED
    BY <1>9, <2>1, <2>2, <2>3 DEF Put, TypeOK, runVars, Places, Attachments
<1>10. CASE Emit(x)
  BY <1>10 DEF Emit, TypeOK, runVars, storeVars, Places, Attachments
<1> QED
  BY <1>1, <1>2, <1>3, <1>4, <1>5, <1>6, <1>7, <1>8, <1>9, <1>10 DEF Step

-----------------------------------------------------------------------------
(* The other steps.                                                        *)

\* A goroutine with nothing in hand turns to an operation.
Turns(z, op, pc) ==
    /\ Begins(z, op, pc)
    /\ StoreIdle
    /\ terminal' = terminal
    /\ actor[z].op \in {"none", "get"}
    /\ op \in Ops \ {"none"}
    /\ op \in RunnerOps => z = Runner
    /\ \/ pc = "lock" /\ IsEvent(op)
       \/ pc = "load" /\ op \in {"get", "resume"}
       \/ pc = "store" /\ op \in {"accepted", "persist"} /\ terminal = "none"
    /\ op = "get" \/ phase' \notin {"new", "crashed"}
    /\ op \in TerminalEvents => phase' \notin {"new", "working", "persisted"}

\* Only the control of the run, or the window, changes.
Quiet == UNCHANGED <<terminal, storeVars, publishMu, actor, historyVars>>

\* The run never begins again, and dies once.
Forward ==
    /\ phase' = "crashed" <=> phase = "crashed"
    /\ phase' = "new" => phase = "new" /\ ~attached' /\ ~cancelled'
    /\ phase' = "crashed" => ~attached'
    /\ phase' \in {"new", "working", "persisted"}
         => phase \in {"new", "working", "persisted"}

\* What the steps of the run and its callers come to.
LEMMA OtherSteps ==
    ASSUME TypeOK, OpsFit, Restarted, NotBegun,
           \/ RunnerNext \/ PauseProbe \/ CancelProbe \/ ResumeProbe
           \/ \E g \in Readers : GetTask(g)
           \/ \E s \in Sources : PublishMCIS(s)
           \/ WindowPasses \/ UNCHANGED vars
    PROVE  /\ Forward
           /\ Quiet \/ \E z \in Actors, op \in Ops, pc \in Places : Turns(z, op, pc)
<1> DEFINE turned == \E z \in Actors, op \in Ops, pc \in Places : Turns(z, op, pc)
<1>0. Runner \in Actors /\ User \in Actors /\ Readers \subseteq Actors
      /\ Sources \subseteq Actors
  BY DEF Actors
<1>a. /\ phase \in {"new", "working", "persisted", "ending", "ended", "crashed"}
      /\ \A z \in Actors : actor[z].pc = "idle" => actor[z].op = "none"
      /\ phase = "new" => ~attached /\ ~cancelled
      /\ phase = "crashed" => ~attached
  BY DEF TypeOK, OpsFit, NotBegun, Restarted
<1>b. \A op \in TerminalEvents \cup {"progress", "cooling", "mcis"} :
        op \in Ops \ {"none", "get"} /\ IsEvent(op)
  BY DEF TerminalEvents, Ops, StatusOf, IsEvent, LifecycleEvents
<1>c. {"accepted", "persist", "resume", "get"} \subseteq Ops \ {"none"}
  BY DEF Ops, StatusOf
<1>d. {"lock", "load", "store"} \subseteq Places
  BY DEF Places
<1>1. CASE StartRun
  <2>1. Turns(Runner, "accepted", "store") /\ Forward
    BY <1>0, <1>1, <1>a, <1>c
    DEF StartRun, Turns, Forward, RunnerOps, TerminalEvents, NotBegun
  <2> QED
    BY <1>0, <1>c, <1>d, <2>1
<1>2. CASE Progress
  <2>1. Turns(Runner, "progress", "lock") /\ Forward
    BY <1>0, <1>2, <1>a, <1>b
    DEF Progress, Turns, Forward, TerminalEvents, runVars
  <2> QED
    BY <1>0, <1>b, <1>d, <2>1
<1>3. CASE Cool
  <2>1. Turns(Runner, "cooling", "lock") /\ Forward
    BY <1>0, <1>3, <1>a, <1>b
    DEF Cool, Turns, Forward, TerminalEvents, runVars
  <2> QED
    BY <1>0, <1>b, <1>d, <2>1
<1>4. CASE PersistCompleted
  <2>1. Turns(Runner, "persist", "store") /\ Forward
    BY <1>0, <1>4, <1>a, <1>c
    DEF PersistCompleted, Turns, Forward, TerminalEvents, NotBegun
  <2> QED
    BY <1>0, <1>c, <1>d, <2>1
<1>5. CASE Complete
  <2>1. "completed" \in TerminalEvents
    BY DEF TerminalEvents
  <2>2. Turns(Runner, "completed", "lock") /\ Forward
    BY <1>0, <1>5, <1>a, <1>b, <2>1 DEF Complete, Turns, Forward
  <2> QED
    BY <1>0, <1>b, <1>d, <2>1, <2>2
<1>6. ASSUME NEW e \in {"cancelled", "failed"}, Stop(e)
      PROVE  Forward /\ turned
  <2>1. e \in TerminalEvents
    BY DEF TerminalEvents
  <2>2. Turns(Runner, e, "lock") /\ Forward
    BY <1>0, <1>6, <1>a, <1>b, <2>1 DEF Stop, Turns, Forward
  <2> QED
    BY <1>0, <1>b, <1>d, <2>1, <2>2
<1>7. CASE ClearRun
  BY <1>7, <1>a DEF ClearRun, Quiet, Forward, StoreIdle, storeVars
<1>8. CASE PauseProbe \/ CancelProbe
  <2>1. Turns(User, "cooling", "lock")
    BY <1>0, <1>8, <1>a, <1>b
    DEF PauseProbe, CancelProbe, Command, Turns, RunnerOps, TerminalEvents
  <2>2. Forward
    BY <1>8, <1>a DEF PauseProbe, CancelProbe, Command, Forward
  <2> QED
    BY <1>0, <1>b, <1>d, <2>1, <2>2
<1>9. CASE ResumeProbe
  <2>1. Turns(User, "resume", "load") /\ Forward
    BY <1>0, <1>9, <1>a, <1>c
    DEF ResumeProbe, Command, Turns, Forward, RunnerOps, TerminalEvents
  <2> QED
    BY <1>0, <1>c, <1>d, <2>1
<1>10. ASSUME NEW g \in Readers, GetTask(g)
       PROVE  Forward /\ turned
  <2>1. Turns(g, "get", "load") /\ Forward
    BY <1>0, <1>10, <1>a, <1>c
    DEF GetTask, Turns, Forward, RunnerOps, TerminalEvents, runVars
  <2> QED
    BY <1>0, <1>c, <1>d, <2>1
<1>11. ASSUME NEW s \in Sources, PublishMCIS(s)
       PROVE  Forward /\ turned
  <2>1. Turns(s, "mcis", "lock") /\ Forward
    BY <1>0, <1>11, <1>a, <1>b
    DEF PublishMCIS, Turns, Forward, RunnerOps, TerminalEvents, runVars
  <2> QED
    BY <1>0, <1>b, <1>d, <2>1
<1>12. CASE WindowPasses \/ UNCHANGED vars
  BY <1>12, <1>a
  DEF WindowPasses, vars, Quiet, Forward, storeVars, runVars, historyVars
<1> QED
  BY <1>1, <1>2, <1>3, <1>4, <1>5, <1>6, <1>7, <1>8, <1>9, <1>10, <1>11, <1>12
  DEF RunnerNext

\* They keep the types.
LEMMA OtherTypes ==
    ASSUME TypeOK,
           \/ RunnerNext \/ PauseProbe \/ CancelProbe \/ ResumeProbe
           \/ \E g \in Readers : GetTask(g)
           \/ \E s \in Sources : PublishMCIS(s)
           \/ WindowPasses \/ UNCHANGED vars \/ Crash
    PROVE  /\ phase' \in {"new", "working", "persisted", "ending", "ended",
                          "crashed"}
           /\ attached' \in BOOLEAN /\ paused' \in BOOLEAN /\ cancelled' \in BOOLEAN
           /\ claimed' \in BOOLEAN
           /\ inputs' \in 0 .. MaxInputs
<1>a. /\ phase \in {"new", "working", "persisted", "ending", "ended",
                   "crashed"}
      /\ attached \in BOOLEAN /\ paused \in BOOLEAN /\ cancelled \in BOOLEAN
      /\ claimed \in BOOLEAN
      /\ inputs \in 0 .. MaxInputs
  BY DEF TypeOK
<1>b. 1 \in 0 .. MaxInputs /\ (Input => inputs' \in 0 .. MaxInputs)
  BY <1>a, InputsAssumption DEF Input
<1>1. CASE StartRun \/ PersistCompleted \/ Complete \/ ClearRun
  BY <1>1, <1>a DEF StartRun, PersistCompleted, Complete, ClearRun, StoreIdle
<1>2. CASE Progress \/ Cool
  BY <1>2, <1>a, <1>b DEF Progress, Cool, StoreIdle, runVars
<1>3. CASE Stop("cancelled") \/ Stop("failed")
  BY <1>3, <1>a DEF Stop, StoreIdle
<1>4. CASE PauseProbe \/ CancelProbe \/ ResumeProbe
  BY <1>4, <1>a, <1>b
  DEF PauseProbe, CancelProbe, ResumeProbe, Command, StoreIdle
<1>5. CASE \E g \in Readers : GetTask(g)
  BY <1>5, <1>a, <1>b DEF GetTask, StoreIdle, runVars
<1>6. CASE \E s \in Sources : PublishMCIS(s)
  BY <1>6, <1>a, <1>b DEF PublishMCIS, StoreIdle, runVars
<1>7. CASE WindowPasses \/ UNCHANGED vars
  BY <1>7, <1>a DEF WindowPasses, vars, runVars
<1>8. CASE Crash
  BY <1>8, <1>b DEF Crash
<1> QED
  BY <1>1, <1>2, <1>3, <1>4, <1>5, <1>6, <1>7, <1>8 DEF RunnerNext

\* The variables have their types at first, and every step keeps them: one of
\* a goroutine, of the run and its callers, or a crash.
LEMMA TypeInit == Init => TypeOK
<1> SUFFICES ASSUME Init PROVE TypeOK
  OBVIOUS
<1>1. actor \in [Actors -> Records]
  BY BasicTypes DEF Init
<1>2. inputs \in 0 .. MaxInputs
  BY InputsAssumption DEF Init
<1>3. file \in Snapshots /\ cache \in Snapshots
  BY BasicTypes DEF Init
<1> QED
  BY <1>1, <1>2, <1>3 DEF Init, TypeOK, Records, Places, Attachments

LEMMA TypeNext ==
    ASSUME TypeOK, OpsFit, Restarted, NotBegun, [Next]_vars
    PROVE  TypeOK'
<1>1. CASE \E x \in Actors : Step(x)
  BY <1>1, StepTypes
<1>2. CASE Crash
  <2>1. actor' \in [Actors -> Records]
    BY <1>2, BasicTypes DEF Crash
  <2> QED
    BY <1>2, <2>1, OtherTypes, BasicTypes
    DEF Crash, TypeOK, Records, Places, Attachments, historyVars
<1>3. CASE ~Crash /\ ~\E x \in Actors : Step(x)
  <2>1. \/ RunnerNext \/ PauseProbe \/ CancelProbe \/ ResumeProbe
        \/ \E g \in Readers : GetTask(g)
        \/ \E s \in Sources : PublishMCIS(s)
        \/ WindowPasses \/ UNCHANGED vars
    BY <1>3 DEF Next
  <2>2. actor' \in [Actors -> Records]
    <3>1. CASE Quiet
      BY <3>1, RecordTypes DEF Quiet
    <3>2. ASSUME NEW z \in Actors, NEW op \in Ops, NEW pc \in Places,
                 Turns(z, op, pc)
          PROVE  actor' \in [Actors -> Records]
      BY <3>2, FreshTypes, NewRecord DEF Turns, Begins
    <3> QED
      BY <2>1, <3>1, <3>2, OtherSteps
  <2>3. UNCHANGED <<terminal, storeVars, publishMu, historyVars>>
    BY <2>1, OtherSteps DEF Quiet, Turns, StoreIdle
  <2> QED
    BY <2>1, <2>2, <2>3, OtherTypes
    DEF TypeOK, Records, Places, Attachments, storeVars, historyVars
<1> QED
  BY <1>1, <1>2, <1>3

-----------------------------------------------------------------------------
(* What a step leaves to the others, and what it makes of its own.         *)

\* A goroutine's step changes nothing of another's but, when the end is
\* written, whether the snapshot in its hands is stale.
LEMMA Others ==
    ASSUME TypeOK, NEW x \in Actors, Step(x), NEW y \in Actors, y # x
    PROVE  /\ actor'[y].pc = actor[y].pc /\ actor'[y].op = actor[y].op
           /\ actor'[y].att = actor[y].att /\ actor'[y].snap = actor[y].snap
           /\ actor'[y].changed = actor[y].changed
           /\ \/ actor'[y] = actor[y]
              \/ /\ Write(x) /\ Settles(x)
                 /\ actor'[y].stale = (actor[y].pc \in Holding)
<1> USE RecordTypes
<1>1. CASE Write(x) /\ Settles(x)
  <2>1. actor'[y] = [actor[y] EXCEPT !.stale = actor[y].pc \in Holding]
    BY <1>1 DEF Settles
  <2>2. actor[y] \in Records
    OBVIOUS
  <2>3. /\ actor'[y].pc = actor[y].pc /\ actor'[y].op = actor[y].op
        /\ actor'[y].att = actor[y].att /\ actor'[y].snap = actor[y].snap
        /\ actor'[y].changed = actor[y].changed
        /\ actor'[y].stale = (actor[y].pc \in Holding)
    BY <2>1, <2>2 DEF Records
  <2> QED
    BY <1>1, <2>3
<1>2. CASE Write(x) /\ ~Settles(x)
  BY <1>2 DEF Write
<1>3. CASE ~Write(x)
  <2>1. actor'[y] = actor[y]
    BY <1>3
    DEF Step, PublishBegin, LoadBegin, Fetch, LoadReturns, Recache, Rewrite,
        LoadFails, Rewritten, Store, Put, Emit
  <2> QED
    BY <2>1
<1> QED
  BY <1>1, <1>2, <1>3

\* The snapshot a load finds, in the cache or else in the file.
Found == IF cache # NoSnapshot THEN cache ELSE file

\* A load takes what it finds, normalised, or returns if there is nothing.
LEMMA Fetches ==
    ASSUME TypeOK, NEW x \in Actors, Fetch(x)
    PROVE  \/ Found = NoSnapshot /\ LoadReturns(x, NoSnapshot)
           \/ /\ Found # NoSnapshot
              /\ actor'[x].pc = "recache" /\ actor'[x].op = actor[x].op
              /\ actor'[x].snap = Loaded(Found, actor[x].att)
              /\ actor'[x].changed = (Loaded(Found, actor[x].att) # Found)
              /\ actor'[x].stale = EndHalfStored
<1>1. CASE Found = NoSnapshot
  BY <1>1 DEF Fetch, Found
<1>2. CASE Found # NoSnapshot
  <2> DEFINE snap == Loaded(Found, actor[x].att)
             changed == snap # Found
  <2>1. actor' = [actor EXCEPT
                    ![x] = [Resting EXCEPT
                              !.pc = "recache", !.op = actor[x].op,
                              !.snap = snap, !.changed = changed,
                              !.stale = EndHalfStored]]
    BY <1>2 DEF Fetch, Found
  <2> HIDE DEF snap, changed
  <2>2. actor'[x] = [Resting EXCEPT
                       !.pc = "recache", !.op = actor[x].op,
                       !.snap = snap, !.changed = changed,
                       !.stale = EndHalfStored]
    BY <2>1, RecordTypes
  <2>3. /\ actor'[x].pc = "recache" /\ actor'[x].op = actor[x].op
        /\ actor'[x].snap = snap
        /\ actor'[x].changed = changed
        /\ actor'[x].stale = EndHalfStored
    BY <2>2 DEF Resting
  <2> QED
    BY <1>2, <2>3 DEF snap, changed
<1> QED
  BY <1>1, <1>2

\* The places a goroutine's operation goes through.
LEMMA Moves ==
    ASSUME TypeOK, OpsFit, NEW x \in Actors, Step(x)
    PROVE  \/ actor'[x] = Resting
           \/ /\ actor'[x].op = actor[x].op
              /\ \/ actor[x].pc = "lock" /\ actor'[x].pc = "load"
                 \/ actor[x].pc = "load" /\ actor'[x].pc = "fetch"
                 \/ actor[x].pc = "fetch" /\ actor'[x].pc = "recache"
                 \/ actor[x].pc = "recache" /\ actor'[x].pc = "rewrite"
                 \/ actor[x].pc = "rewrite" /\ actor'[x].pc = "rewritten"
                 \/ /\ actor[x].pc \in {"fetch", "recache", "rewrite", "rewritten"}
                    /\ actor[x].op # "get"
                    /\ actor'[x].pc = "store"
                 \/ /\ actor[x].pc = "rewrite"
                    /\ actor[x].op \notin {"get", "resume"}
                    /\ actor'[x].pc = "emit"
                 \/ actor[x].pc = "store" /\ actor'[x].pc \in {"write", "put"}
                 \/ actor[x].pc = "write" /\ actor'[x].pc = "put"
                 \/ /\ actor[x].pc \in {"write", "put"} /\ IsEvent(actor[x].op)
                    /\ actor'[x].pc = "emit"
           \/ /\ actor[x].op = "resume" /\ actor'[x].op = "resumed"
              /\ actor[x].pc \in {"write", "put"} /\ actor'[x].pc = "lock"
<1> USE RecordTypes, BasicTypes
<1>0. actor[x] \in Records /\ DOMAIN actor = Actors
  OBVIOUS
<1>1. CASE PublishBegin(x)
  BY <1>0, <1>1 DEF PublishBegin, Records
<1>2. CASE LoadBegin(x)
  BY <1>0, <1>2 DEF LoadBegin, Records
<1>r. ASSUME NEW snap \in Snapshots, LoadReturns(x, snap)
      PROVE  \/ actor'[x] = Resting
             \/ /\ actor'[x].op = actor[x].op /\ actor[x].op # "get"
                /\ actor'[x].pc = "store"
  BY <1>0, <1>r DEF LoadReturns, Resting
<1>3. CASE Fetch(x)
  <2>1. CASE LoadReturns(x, NoSnapshot)
    BY <1>3, <1>r, <2>1 DEF Fetch
  <2> QED
    BY <1>3, <2>1, Fetches DEF Fetch
<1>4. CASE Recache(x)
  <2>1. CASE actor[x].changed
    BY <1>0, <1>4, <2>1 DEF Recache, Records
  <2>2. CASE ~actor[x].changed
    <3>1. actor[x].snap \in Snapshots /\ LoadReturns(x, actor[x].snap)
      BY <1>0, <1>4, <2>2 DEF Recache, Records
    <3> QED
      BY <1>4, <1>r, <3>1 DEF Recache
  <2> QED
    BY <2>1, <2>2
<1>5. CASE Rewrite(x)
  <2>1. CASE actor' = [actor EXCEPT ![x].pc = "rewritten"]
    BY <1>0, <1>5, <2>1 DEF Rewrite, Records
  <2>2. CASE LoadFails(x)
    <3>1. CASE actor[x].op = "get"
      BY <1>0, <2>2, <3>1 DEF LoadFails
    <3>2. CASE actor[x].op = "resume"
      BY <1>0, <1>5, <2>2, <3>2 DEF Rewrite, LoadFails, Resting
    <3>3. CASE actor[x].op \notin {"get", "resume"}
      BY <1>0, <1>5, <2>2, <3>3 DEF Rewrite, LoadFails, Resting
    <3> QED
      BY <3>1, <3>2, <3>3
  <2> QED
    BY <1>5, <2>1, <2>2 DEF Rewrite
<1>6. CASE Rewritten(x)
  <2>1. actor[x].snap \in Snapshots /\ LoadReturns(x, actor[x].snap)
    BY <1>0, <1>6 DEF Rewritten, Records
  <2> QED
    BY <1>6, <1>r, <2>1 DEF Rewritten
<1>7. CASE Store(x)
  BY <1>0, <1>7 DEF Store, Records
<1>a. \/ AfterStore(x) = Resting
      \/ /\ IsEvent(actor[x].op)
         /\ AfterStore(x).op = actor[x].op /\ AfterStore(x).pc = "emit"
      \/ /\ actor[x].op = "resume"
         /\ AfterStore(x).op = "resumed" /\ AfterStore(x).pc = "lock"
  BY DEF AfterStore, Resting
<1>8. CASE Write(x)
  <2>1. CASE Settles(x)
    <3>1. actor'[x] = [actor[x] EXCEPT !.pc = "put"]
      BY <2>1 DEF Settles
    <3> QED
      BY <1>0, <1>8, <3>1 DEF Write, Records
  <2>2. CASE actor' = [actor EXCEPT ![x].pc = "put"]
    BY <1>0, <1>8, <2>2 DEF Write, Records
  <2>3. CASE actor' = [actor EXCEPT ![x] = AfterStore(x)]
    BY <1>0, <1>8, <1>a, <2>3 DEF Write
  <2> QED
    BY <1>8, <2>1, <2>2, <2>3 DEF Write
<1>9. CASE Put(x)
  BY <1>0, <1>9, <1>a DEF Put
<1>10. CASE Emit(x)
  BY <1>0, <1>10 DEF Emit
<1> QED
  BY <1>1, <1>2, <1>3, <1>4, <1>5, <1>6, <1>7, <1>8, <1>9, <1>10 DEF Step

\* A goroutine that turns to an operation has it, and leaves the others be.
LEMMA TurnsTo ==
    ASSUME TypeOK, NEW z \in Actors, NEW op \in Ops, NEW pc \in Places,
           Turns(z, op, pc)
    PROVE  /\ actor'[z].op = op /\ actor'[z].pc = pc
           /\ \A y \in Actors : y # z => actor'[y] = actor[y]
  BY RecordTypes, BasicTypes DEF Turns, Begins, Resting

\* Every step is one of these.
LEMMA NextCases ==
    ASSUME TypeOK, OpsFit, Restarted, NotBegun, [Next]_vars
    PROVE  \/ \E x \in Actors : Step(x)
           \/ Forward /\ Quiet
           \/ Forward /\ \E z \in Actors, op \in Ops, pc \in Places :
                            Turns(z, op, pc)
           \/ Crash
  BY OtherSteps DEF Next

\* A goroutine's step does not touch the control of the run.
LEMMA StepControl ==
    ASSUME NEW x \in Actors, Step(x)
    PROVE  phase' = phase /\ attached' = attached /\ cancelled' = cancelled
  BY DEF Step, PublishBegin, LoadBegin, Fetch, Recache, Rewrite, Rewritten,
         Store, Write, Put, Emit, runVars

-----------------------------------------------------------------------------
(* The parts of the invariant, step by step.                               *)

LEMMA OpsNext ==
    ASSUME TypeOK, OpsFit, Restarted, NotBegun, [Next]_vars
    PROVE  OpsFit'
<1> DEFINE Fits(a, y) ==
      /\ a.pc = "idle" <=> a.op = "none"
      /\ a.op = "get" => a.pc \in Loading
      /\ a.pc \in {"lock", "emit"} => IsEvent(a.op)
      /\ a.op \in RunnerOps => y = Runner
      /\ a.op \in {"accepted", "persist"} => a.pc \in {"store", "write", "put"}
<1>a. \A y \in Actors : Fits(actor[y], y)
  BY DEF OpsFit
<1>b. \A y \in Actors : Fits(Resting, y)
  BY DEF Resting, RunnerOps, TerminalEvents
<1> SUFFICES ASSUME NEW y \in Actors PROVE Fits(actor'[y], y)
  BY DEF OpsFit
<1>1. ASSUME NEW x \in Actors, Step(x) PROVE Fits(actor'[y], y)
  <2>1. CASE y # x
    BY <1>a, <1>1, <2>1, Others
  <2>2. CASE y = x /\ actor'[x] = Resting
    BY <1>b, <2>2
  <2>3. CASE y = x /\ actor'[x].op = "resumed" /\ actor'[x].pc = "lock"
    BY <2>3 DEF IsEvent, LifecycleEvents, RunnerOps, TerminalEvents
  <2>4. CASE y = x /\ actor'[x].op = actor[x].op
    <3>1. CASE actor'[x].pc # "emit"
      BY <1>a, <1>1, <2>4, <3>1, Moves DEF Loading, Resting
    <3>2. CASE actor'[x].pc = "emit"
      <4>1. actor[x].op \in Ops
        BY RecordTypes DEF Records
      <4>2. actor[x].op \notin {"none", "accepted", "persist", "get"}
            \/ IsEvent(actor[x].op)
        BY <1>a, <1>1, <2>4, <3>2, Moves DEF Resting, Loading
      <4>3. IsEvent(actor[x].op)
        <5>1. CASE IsEvent(actor[x].op)
          BY <5>1
        <5>2. CASE ~IsEvent(actor[x].op)
          <6>1. actor[x].op \notin {"none", "accepted", "persist", "get", "resume"}
            BY <1>a, <1>1, <2>4, <3>2, <5>2, Moves DEF Resting, Loading
          <6> QED
            BY <4>1, <6>1
            DEF Ops, StatusOf, IsEvent, LifecycleEvents, TerminalEvents
        <5> QED
          BY <5>1, <5>2
      <4>4. actor[x].op \notin {"none", "get", "accepted", "persist"}
        BY <4>3 DEF IsEvent, LifecycleEvents, TerminalEvents
      <4> QED
        BY <1>a, <2>4, <3>2, <4>3, <4>4
    <3> QED
      BY <3>1, <3>2
  <2> QED
    BY <1>1, <2>1, <2>2, <2>3, <2>4, Moves
<1>2. CASE Quiet
  BY <1>a, <1>2 DEF Quiet
<1>3. ASSUME NEW z \in Actors, NEW op \in Ops, NEW pc \in Places,
             Turns(z, op, pc)
      PROVE  Fits(actor'[y], y)
  <2>1. CASE y # z
    BY <1>a, <1>3, <2>1, TurnsTo
  <2>2. CASE y = z
    <3>1. actor'[y].op = op /\ actor'[y].pc = pc
      BY <1>3, <2>2, TurnsTo
    <3>2. op # "none" /\ (op \in RunnerOps => y = Runner)
      BY <1>3, <2>2 DEF Turns
    <3>3. \/ pc = "lock" /\ IsEvent(op)
          \/ pc = "load" /\ op \in {"get", "resume"}
          \/ pc = "store" /\ op \in {"accepted", "persist"}
      BY <1>3 DEF Turns
    <3>4. IsEvent(op) => op \notin {"get", "accepted", "persist"}
      BY DEF IsEvent, LifecycleEvents, TerminalEvents
    <3> QED
      BY <3>1, <3>2, <3>3, <3>4 DEF Loading
  <2> QED
    BY <2>1, <2>2
<1>4. CASE Crash
  BY <1>b, <1>4 DEF Crash
<1> QED
  BY <1>1, <1>2, <1>3, <1>4, NextCases

LEMMA SerialisedNext ==
    ASSUME TypeOK, OpsFit, Restarted, NotBegun, Serialised, [Next]_vars
    PROVE  Serialised'
<1> DEFINE Ended(a, t) ==
      /\ t # "none" /\ a.pc \notin {"idle", "lock"}
           => a.op \in {"get", "resume", "mcis", t}
      /\ a.op \in TerminalEvents /\ a.pc # "lock" => t = a.op
<1>a. /\ \A y \in Actors : Publishing(y) => publishMu
      /\ \A y, z \in Actors : Publishing(y) /\ Publishing(z) => y = z
      /\ \A y \in Actors : Ended(actor[y], terminal)
  BY DEF Serialised
<1> HIDE DEF Ended
<1> SUFFICES /\ \A y \in Actors : Publishing(y)' => publishMu'
             /\ \A y, z \in Actors : Publishing(y)' /\ Publishing(z)' => y = z
             /\ \A y \in Actors : Ended(actor'[y], terminal')
  BY DEF Serialised, Ended
<1>b. \A t : Ended(Resting, t)
  BY DEF Ended, Resting, TerminalEvents
<1>1. ASSUME NEW x \in Actors, PublishBegin(x),
             actor' = [actor EXCEPT ![x].pc = "load"]
      PROVE  /\ \A y \in Actors : Publishing(y)' => publishMu'
             /\ \A y, z \in Actors : Publishing(y)' /\ Publishing(z)' => y = z
             /\ \A y \in Actors : Ended(actor'[y], terminal')
  <2>0. actor[x] \in Records /\ actor[x].pc = "lock" /\ IsEvent(actor[x].op)
    BY <1>1, RecordTypes DEF PublishBegin, OpsFit
  <2>1. /\ actor'[x].op = actor[x].op /\ actor'[x].pc = "load"
        /\ \A y \in Actors : y # x => actor'[y] = actor[y]
    BY <1>1, RecordTypes DEF Records
  <2>2. actor' # [actor EXCEPT ![x] = Resting]
    BY <2>1, RecordTypes DEF Resting
  <2>3. /\ ~publishMu /\ publishMu' = TRUE
        /\ terminal = "none" \/ actor[x].op \notin LifecycleEvents
        /\ terminal' = IF actor[x].op \in TerminalEvents
                       THEN actor[x].op ELSE terminal
    BY <1>1, <2>2 DEF PublishBegin
  <2>4. \A y \in Actors : ~Publishing(y)
    BY <1>a, <2>3
  <2>5. \A y \in Actors : Publishing(y)' => y = x
    BY <2>1, <2>4 DEF Publishing
  <2>6. ASSUME NEW y \in Actors PROVE Ended(actor'[y], terminal')
    <3>1. CASE y = x
      <4>1. CASE actor[x].op \in TerminalEvents
        BY <2>1, <2>3, <3>1, <4>1 DEF Ended
      <4>2. CASE actor[x].op \notin TerminalEvents
        <5>1. terminal' # "none" => actor[x].op = "mcis"
          BY <2>0, <2>3, <4>2 DEF IsEvent
        <5> QED
          BY <2>1, <3>1, <4>2, <5>1 DEF Ended
      <4> QED
        BY <4>1, <4>2
    <3>2. CASE y # x
      <4>1. actor[y].op \in Ops /\ Ended(actor[y], terminal)
        BY <1>a, RecordTypes DEF Records
      <4>2. CASE terminal' = terminal
        BY <2>1, <3>2, <4>1, <4>2
      <4>3. CASE terminal' # terminal
        <5>1. /\ actor[x].op \in TerminalEvents /\ terminal' = actor[x].op
              /\ x = Runner
          BY <2>3, <4>3 DEF OpsFit, RunnerOps
        <5>2. actor[y].op \notin RunnerOps
          BY <3>2, <5>1 DEF OpsFit
        <5>3. actor[y].pc \in {"idle", "lock"} \/ ~IsEvent(actor[y].op)
          BY <2>4 DEF Publishing
        <5>4. actor[y].pc \in {"idle", "lock"} \/ actor[y].op # "none"
          BY DEF OpsFit
        <5>5. actor[y].pc \in {"idle", "lock"} \/ actor[y].op \in {"get", "resume"}
          BY <4>1, <5>2, <5>3, <5>4
          DEF Ops, StatusOf, IsEvent, LifecycleEvents, TerminalEvents, RunnerOps
        <5> QED
          BY <2>1, <3>2, <5>2, <5>5 DEF Ended, RunnerOps
      <4> QED
        BY <4>2, <4>3
    <3> QED
      BY <3>1, <3>2
  <2> QED
    BY <2>3, <2>5, <2>6
<1>2. ASSUME NEW x \in Actors, Step(x),
             ~(PublishBegin(x) /\ actor' = [actor EXCEPT ![x].pc = "load"])
      PROVE  /\ \A y \in Actors : Publishing(y)' => publishMu'
             /\ \A y, z \in Actors : Publishing(y)' /\ Publishing(z)' => y = z
             /\ \A y \in Actors : Ended(actor'[y], terminal')
  <2>1. terminal' = terminal /\ (publishMu' = publishMu \/ Emit(x))
    BY <1>2
    DEF Step, PublishBegin, LoadBegin, Fetch, Recache, Rewrite, Rewritten,
        Store, Write, Put, Emit
  <2>2. actor[x].pc = "lock" => actor'[x] = Resting
    <3>1. ASSUME actor[x].pc = "lock" PROVE PublishBegin(x)
      BY <1>2, <3>1
      DEF Step, PublishBegin, LoadBegin, Fetch, Recache, Rewrite, Rewritten,
          Store, Write, Put, Emit
    <3> QED
      BY <1>2, <3>1, RecordTypes DEF PublishBegin
  <2>3. actor[x].pc # "idle"
    BY <1>2
    DEF Step, PublishBegin, LoadBegin, Fetch, Recache, Rewrite, Rewritten,
        Store, Write, Put, Emit
  <2>4. \/ actor'[x] = Resting
        \/ /\ actor'[x].op = actor[x].op
           /\ actor[x].pc \notin {"idle", "lock"}
           /\ actor'[x].pc \notin {"idle", "lock"}
        \/ actor'[x].op = "resumed" /\ actor'[x].pc = "lock"
    BY <1>2, <2>2, <2>3, Moves
  <2>5. \A y \in Actors : Publishing(y)' => Publishing(y)
    <3> TAKE y \in Actors
    <3>1. CASE y # x
      BY <1>2, <3>1, Others DEF Publishing
    <3>2. CASE y = x
      BY <2>4, <3>2 DEF Publishing, Resting
    <3> QED
      BY <3>1, <3>2
  <2>6. \A y \in Actors : Publishing(y)' => publishMu'
    <3>1. CASE Emit(x)
      <4>1. Publishing(x) /\ ~Publishing(x)'
        BY <3>1, RecordTypes
        DEF Emit, Publishing, OpsFit, IsEvent, LifecycleEvents, TerminalEvents,
            Resting
      <4> QED
        BY <1>a, <2>5, <4>1
    <3> QED
      BY <1>a, <2>1, <2>5, <3>1
  <2>7. ASSUME NEW y \in Actors PROVE Ended(actor'[y], terminal')
    <3>1. CASE y # x
      BY <1>2, <1>a, <2>1, <3>1, Others DEF Ended
    <3>2. CASE y = x
      BY <1>a, <1>b, <2>1, <2>4, <3>2 DEF Ended, TerminalEvents
    <3> QED
      BY <3>1, <3>2
  <2> QED
    BY <1>a, <2>5, <2>6, <2>7
<1>3. CASE Quiet
  BY <1>a, <1>3 DEF Quiet, Publishing
<1>4. ASSUME NEW z \in Actors, NEW op \in Ops, NEW pc \in Places,
             Turns(z, op, pc)
      PROVE  /\ \A y \in Actors : Publishing(y)' => publishMu'
             /\ \A y, w \in Actors : Publishing(y)' /\ Publishing(w)' => y = w
             /\ \A y \in Actors : Ended(actor'[y], terminal')
  <2>1. /\ terminal' = terminal /\ publishMu' = publishMu
        /\ \/ pc = "lock"
           \/ op \in {"get", "resume"}
           \/ op \in {"accepted", "persist"} /\ terminal = "none"
    <3>1. terminal' = terminal
      BY <1>4 DEF Turns
    <3>2. publishMu' = publishMu
      BY <1>4 DEF Turns, StoreIdle
    <3>3. \/ pc = "lock"
          \/ op \in {"get", "resume"}
          \/ op \in {"accepted", "persist"} /\ terminal = "none"
      BY <1>4 DEF Turns
    <3> QED
      BY <3>1, <3>2, <3>3
  <2>2. ~Publishing(z)' /\ Ended(actor'[z], terminal')
    BY <1>4, <2>1, TurnsTo
    DEF Publishing, Ended, IsEvent, LifecycleEvents, TerminalEvents
  <2>3. \A y \in Actors : Publishing(y)' => Publishing(y)
    BY <1>4, <2>2, TurnsTo DEF Publishing
  <2>4. \A y \in Actors : Ended(actor'[y], terminal')
    BY <1>4, <1>a, <2>1, <2>2, TurnsTo
  <2> QED
    BY <1>a, <2>1, <2>3, <2>4
<1>5. CASE Crash
  <2>1. \A y \in Actors : actor'[y] = Resting
    BY <1>5 DEF Crash
  <2>2. \A y \in Actors : ~Publishing(y)'
    BY <2>1 DEF Publishing, Resting
  <2> QED
    BY <1>b, <2>1, <2>2
<1> QED
  BY <1>1, <1>2, <1>3, <1>4, <1>5, NextCases DEF Step

\* A step that only moves a goroutine on leaves what it holds.
LEMMA KeepsSnap ==
    ASSUME TypeOK, NEW x \in Actors, Step(x), ~Fetch(x), ~Store(x),
           actor'[x].pc \in {"recache", "rewrite", "rewritten", "write", "put"}
    PROVE  /\ actor'[x].snap = actor[x].snap /\ actor'[x].op = actor[x].op
           /\ actor'[x].changed = actor[x].changed
           /\ actor'[x].stale = actor[x].stale
           /\ \/ actor[x].pc = "recache" /\ actor[x].changed /\ actor'[x].pc = "rewrite"
              \/ actor[x].pc = "rewrite" /\ actor'[x].pc = "rewritten"
              \/ actor[x].pc = "write" /\ actor'[x].pc = "put"
<1> USE RecordTypes
<1>0. actor[x] \in Records
  OBVIOUS
<1>a. /\ Resting.pc = "idle"
      /\ AfterStore(x).pc \in {"idle", "lock", "emit"}
  BY DEF AfterStore, Resting
<1>b. ASSUME NEW snap, LoadReturns(x, snap)
      PROVE  actor'[x].pc \in {"idle", "store"}
  BY <1>b DEF LoadReturns, Resting
<1>1. CASE PublishBegin(x) \/ LoadBegin(x) \/ Emit(x) \/ Put(x)
  BY <1>0, <1>a, <1>1 DEF PublishBegin, LoadBegin, Emit, Put, Records
<1>2. CASE Recache(x)
  BY <1>0, <1>b, <1>2 DEF Recache, Records
<1>3. CASE Rewrite(x)
  <2>1. CASE LoadFails(x)
    <3>1. actor'[x].pc \in {"idle", "store", "emit"}
      <4>1. CASE actor[x].op = "get"
        BY <1>a, <2>1, <4>1 DEF LoadFails
      <4>2. CASE actor[x].op = "resume"
        BY <2>1, <4>2 DEF LoadFails, Resting
      <4>3. CASE actor[x].op \notin {"get", "resume"}
        BY <2>1, <4>3 DEF LoadFails, Resting
      <4> QED
        BY <4>1, <4>2, <4>3
    <3> QED
      BY <3>1
  <2>2. CASE actor' = [actor EXCEPT ![x].pc = "rewritten"]
    BY <1>0, <1>3, <2>2 DEF Rewrite, Records
  <2> QED
    BY <1>3, <2>1, <2>2 DEF Rewrite
<1>4. CASE Rewritten(x)
  BY <1>b, <1>4 DEF Rewritten
<1>5. CASE Write(x)
  <2>1. CASE Settles(x)
    <3>1. actor'[x] = [actor[x] EXCEPT !.pc = "put"]
      BY <2>1 DEF Settles
    <3> QED
      BY <1>0, <1>5, <3>1 DEF Write, Records
  <2>2. CASE actor' = [actor EXCEPT ![x].pc = "put"]
    BY <1>0, <1>5, <2>2 DEF Write, Records
  <2>3. CASE actor' = [actor EXCEPT ![x] = AfterStore(x)]
    BY <1>a, <2>3
  <2> QED
    BY <1>5, <2>1, <2>2, <2>3 DEF Write
<1> QED
  BY <1>1, <1>2, <1>3, <1>4, <1>5 DEF Step

\* An event's snapshot has its status, and an end is attached to nothing.
LEMMA Stores ==
    ASSUME TypeOK, OpsFit, NEW x \in Actors, Store(x)
    PROVE  /\ WellFormed(actor'[x].snap)
           /\ actor'[x].snap.status = StatusOf[actor'[x].op]
           /\ actor'[x].op = actor[x].op
           /\ actor'[x].pc \in {"write", "put"}
           /\ actor'[x].pc = "put" => actor[x].op \in Coalescable
<1> DEFINE op == actor[x].op
           merged == Merged(actor[x].snap, op)
           snap == Normalized(merged, Attachment)
<1>1. actor[x].snap \in Snapshots /\ op \in DOMAIN StatusOf
  BY RecordTypes DEF Store, OpsFit, Ops, Loading, Records
<1>2. merged \in Snapshots
  BY <1>1, SnapshotTypes, BasicTypes
<1>3. merged.status = StatusOf[op] /\ StatusOf[op] # "none"
  BY <1>1, StatusFacts DEF Merged
<1> HIDE DEF merged
<1>4. snap.status = StatusOf[op] /\ WellFormed(snap)
  BY <1>2, <1>3, SnapshotFacts, BasicTypes
<1> HIDE DEF snap
<1>5. PICK q \in {"write", "put"} :
        /\ actor' = [actor EXCEPT ![x].pc = q, ![x].snap = snap]
        /\ q = "put" => op \in Coalescable
  BY DEF Store, snap, merged
<1>6. /\ actor'[x].pc = q /\ actor'[x].snap = snap
      /\ actor'[x].op = op
  BY <1>5, RecordTypes DEF Records
<1> QED
  BY <1>4, <1>5, <1>6

\* Who writes the file and the cache, and with what.
LEMMA Writes ==
    ASSUME TypeOK, NEW x \in Actors, Step(x)
    PROVE  /\ \/ file' = file
              \/ /\ actor[x].pc \in {"rewrite", "write"}
                 /\ file' = actor[x].snap
           /\ \/ cache' = cache
              \/ /\ actor[x].pc \in {"recache", "rewritten", "put"}
                 /\ cache' = Cached(actor[x].snap)
  BY DEF Step, PublishBegin, LoadBegin, Fetch, Recache, Rewrite, Rewritten,
         Store, Write, Put, Emit, storeVars

LEMMA SnapsNext ==
    ASSUME TypeOK, OpsFit, Restarted, NotBegun, SnapsFit, [Next]_vars
    PROVE  SnapsFit'
<1> DEFINE Fits(a) ==
      /\ a.pc \in {"recache", "rewrite", "rewritten", "write", "put"}
           => WellFormed(a.snap)
      /\ a.pc \in {"write", "put"} => a.snap.status = StatusOf[a.op]
<1>a. /\ WellFormed(file)
      /\ cache.status \in ActiveStatus \/ cache = NoSnapshot
      /\ \A y \in Actors : Fits(actor[y])
  BY DEF SnapsFit
<1>b. Fits(Resting)
  BY DEF Resting
<1> SUFFICES /\ WellFormed(file')
             /\ cache'.status \in ActiveStatus \/ cache' = NoSnapshot
             /\ \A y \in Actors : Fits(actor'[y])
  BY DEF SnapsFit, WellFormed
<1> HIDE DEF Fits
<1>1. ASSUME NEW x \in Actors, Step(x)
      PROVE  /\ WellFormed(file')
             /\ cache'.status \in ActiveStatus \/ cache' = NoSnapshot
             /\ \A y \in Actors : Fits(actor'[y])
  <2>0. actor[x] \in Records /\ actor[x].snap \in Snapshots
        /\ actor[x].att \in Attachments
    BY RecordTypes DEF Records
  <2>1. WellFormed(file')
    BY <1>a, <1>1, Writes DEF Fits
  <2>2. cache'.status \in ActiveStatus \/ cache' = NoSnapshot
    BY <1>a, <1>1, <2>0, Writes, CachedFacts
  <2>3. Fits(actor'[x])
    <3>1. CASE Fetch(x)
      <4>1. CASE Found = NoSnapshot /\ LoadReturns(x, NoSnapshot)
        <5>1. actor'[x].pc \in {"idle", "store"}
          BY <4>1, RecordTypes DEF LoadReturns, Resting
        <5> QED
          BY <5>1 DEF Fits
      <4>2. CASE /\ Found # NoSnapshot
                 /\ actor'[x].pc = "recache"
                 /\ actor'[x].snap = Loaded(Found, actor[x].att)
        <5>1. Found \in Snapshots /\ Found.status # "none"
          BY <1>a, <4>2 DEF Found, TypeOK, WellFormed, ActiveStatus
        <5>2. WellFormed(actor'[x].snap)
          BY <2>0, <4>2, <5>1, SnapshotFacts
        <5> QED
          BY <4>2, <5>2 DEF Fits
      <4> QED
        BY <3>1, <4>1, <4>2, Fetches
    <3>2. CASE Store(x)
      BY <3>2, Stores DEF Fits
    <3>3. CASE ~Fetch(x) /\ ~Store(x)
      BY <1>a, <1>1, <3>3, KeepsSnap DEF Fits
    <3> QED
      BY <3>1, <3>2, <3>3
  <2>4. ASSUME NEW y \in Actors, y # x PROVE Fits(actor'[y])
    BY <1>a, <1>1, <2>4, Others DEF Fits
  <2> QED
    BY <2>1, <2>2, <2>3, <2>4
<1>2. CASE Quiet
  BY <1>a, <1>2 DEF Quiet, storeVars
<1>3. ASSUME NEW z \in Actors, NEW op \in Ops, NEW pc \in Places,
             Turns(z, op, pc)
      PROVE  /\ WellFormed(file')
             /\ cache'.status \in ActiveStatus \/ cache' = NoSnapshot
             /\ \A y \in Actors : Fits(actor'[y])
  <2>1. file' = file /\ cache' = cache
    BY <1>3 DEF Turns, StoreIdle, storeVars
  <2>2. actor'[z].pc \in {"lock", "load", "store"}
    BY <1>3, TurnsTo DEF Turns
  <2>3. \A y \in Actors : Fits(actor'[y])
    BY <1>3, <1>a, <2>2, TurnsTo DEF Fits
  <2> QED
    BY <1>a, <2>1, <2>3
<1>4. CASE Crash
  BY <1>a, <1>b, <1>4 DEF Crash
<1> QED
  BY <1>1, <1>2, <1>3, <1>4, NextCases

\* Of a dead process only readers ask, and what they read has ended.
LEMMA RestartedNext ==
    ASSUME TypeOK, OpsFit, Serialised, Restarted, NotBegun, SnapsFit, [Next]_vars
    PROVE  Restarted'
<1> DEFINE Reads(a, f) ==
      /\ a.op \in {"none", "get"}
      /\ a.pc = "fetch" => ~a.att.current
      /\ a.pc \in {"recache", "rewrite", "rewritten"}
           => a.snap.status \notin ActiveStatus
      /\ a.pc \in {"recache", "rewrite"} /\ a.changed
           => /\ a.snap = Dead
              /\ f.status \in ActiveStatus \/ f = Dead
      /\ a.pc = "rewrite" => a.changed
<1>a. phase = "crashed" =>
        /\ ~attached /\ cache = NoSnapshot /\ terminal = "none"
        /\ \A y \in Actors : Reads(actor[y], file)
  BY DEF Restarted
<1>b. \A f : Reads(Resting, f)
  BY DEF Resting
<1> SUFFICES ASSUME phase' = "crashed"
             PROVE  /\ ~attached' /\ cache' = NoSnapshot /\ terminal' = "none"
                    /\ \A y \in Actors : Reads(actor'[y], file')
  BY DEF Restarted
<1> HIDE DEF Reads
<1>1. ASSUME NEW x \in Actors, Step(x)
      PROVE  /\ ~attached' /\ cache' = NoSnapshot /\ terminal' = "none"
             /\ \A y \in Actors : Reads(actor'[y], file')
  <2>0. /\ phase = "crashed" /\ ~attached' /\ ~attached
        /\ actor[x] \in Records /\ actor[x].snap \in Snapshots
        /\ actor[x].att \in Attachments
    BY <1>1, <1>a, StepControl, RecordTypes DEF Records
  <2>1. /\ actor[x].op = "get" /\ actor[x].pc \in Loading
        /\ Reads(actor[x], file)
    <3>1. actor[x].pc # "idle"
      BY <1>1
      DEF Step, PublishBegin, LoadBegin, Fetch, Recache, Rewrite, Rewritten,
          Store, Write, Put, Emit
    <3>2. actor[x].op \in {"none", "get"} /\ Reads(actor[x], file)
      BY <1>a, <2>0 DEF Reads
    <3> QED
      BY <3>1, <3>2 DEF OpsFit
  <2>2. LoadBegin(x) \/ Fetch(x) \/ Recache(x) \/ Rewrite(x) \/ Rewritten(x)
    BY <1>1, <2>1
    DEF Step, PublishBegin, Store, Write, Put, Emit, Loading
  <2>3. terminal' = "none"
    BY <1>a, <2>0, <2>2 DEF LoadBegin, Fetch, Recache, Rewrite, Rewritten
  <2>4. cache' = NoSnapshot
    <3>1. cache' # cache =>
            /\ actor[x].pc \in {"recache", "rewritten"}
            /\ cache' = Cached(actor[x].snap)
      BY <1>1, <2>1, Writes DEF Loading
    <3>2. actor[x].pc \in {"recache", "rewritten"}
            => actor[x].snap.status \notin ActiveStatus
      BY <2>1 DEF Reads
    <3> QED
      BY <1>a, <2>0, <3>1, <3>2, CachedFacts
  <2>5. \/ file' = file
        \/ file' = Dead /\ (file.status \in ActiveStatus \/ file = Dead)
    <3>1. file' # file => actor[x].pc = "rewrite" /\ file' = actor[x].snap
      BY <1>1, <2>1, Writes DEF Loading
    <3> QED
      BY <2>1, <3>1 DEF Reads
  <2>6. Reads(actor'[x], file')
    <3>0. \A snap : LoadReturns(x, snap) => actor'[x] = Resting
      BY <2>1, RecordTypes DEF LoadReturns
    <3>1. CASE LoadBegin(x)
      <4>1. /\ actor'[x].pc = "fetch" /\ actor'[x].op = "get"
            /\ ~actor'[x].att.current
        BY <2>0, <2>1, <3>1, RecordTypes DEF LoadBegin, Records, Attachment
      <4> QED
        BY <4>1 DEF Reads
    <3>2. CASE Fetch(x)
      <4>1. CASE LoadReturns(x, NoSnapshot)
        BY <1>b, <3>0, <4>1
      <4>2. CASE ~LoadReturns(x, NoSnapshot)
        <5>1. /\ Found # NoSnapshot /\ Found = file /\ file' = file
              /\ actor'[x].pc = "recache" /\ actor'[x].op = "get"
              /\ actor'[x].snap = Loaded(file, actor[x].att)
              /\ actor'[x].changed = (Loaded(file, actor[x].att) # file)
          BY <1>a, <2>0, <2>1, <3>2, <4>2, Fetches DEF Found, Fetch, storeVars
        <5>2. /\ file \in Snapshots /\ file.status # "none" /\ WellFormed(file)
              /\ ~actor[x].att.current
          BY <2>1, <3>2, <5>1 DEF TypeOK, SnapsFit, WellFormed, Reads, Fetch
        <5>3. /\ Loaded(file, actor[x].att).status \notin ActiveStatus
              /\ Loaded(file, actor[x].att) # file
                   => /\ Loaded(file, actor[x].att) = Dead
                      /\ file.status \in ActiveStatus
          BY <2>0, <5>2, SnapshotFacts
        <5> QED
          BY <5>1, <5>3 DEF Reads
      <4> QED
        BY <4>1, <4>2
    <3>3. CASE Recache(x)
      <4>1. CASE actor[x].changed
        <5>1. /\ actor'[x] = [actor[x] EXCEPT !.pc = "rewrite"] /\ file' = file
              /\ actor[x].pc = "recache"
          BY <3>3, <4>1, RecordTypes DEF Recache
        <5>2. /\ actor'[x].pc = "rewrite" /\ actor'[x].op = actor[x].op
              /\ actor'[x].snap = actor[x].snap
              /\ actor'[x].changed = actor[x].changed
          BY <2>0, <5>1 DEF Records
        <5> QED
          BY <2>1, <4>1, <5>1, <5>2 DEF Reads
      <4>2. CASE ~actor[x].changed
        BY <1>b, <3>0, <3>3, <4>2 DEF Recache
      <4> QED
        BY <4>1, <4>2
    <3>4. CASE Rewrite(x)
      <4>1. CASE LoadFails(x)
        BY <1>b, <2>1, <4>1, RecordTypes DEF LoadFails
      <4>2. CASE actor' = [actor EXCEPT ![x].pc = "rewritten"]
        <5>1. actor'[x] = [actor[x] EXCEPT !.pc = "rewritten"]
          BY <4>2, RecordTypes
        <5>2. /\ actor'[x].pc = "rewritten" /\ actor'[x].op = actor[x].op
              /\ actor'[x].snap = actor[x].snap
          BY <2>0, <5>1 DEF Records
        <5> QED
          BY <2>1, <3>4, <5>2 DEF Reads, Rewrite
      <4> QED
        BY <3>4, <4>1, <4>2 DEF Rewrite
    <3>5. CASE Rewritten(x)
      BY <1>b, <3>0, <3>5 DEF Rewritten
    <3> QED
      BY <2>2, <3>1, <3>2, <3>3, <3>4, <3>5
  <2>7. ASSUME NEW y \in Actors, y # x PROVE Reads(actor'[y], file')
    BY <1>1, <1>a, <2>0, <2>5, <2>7, Others DEF Reads
  <2> QED
    BY <2>0, <2>3, <2>4, <2>6, <2>7
<1>2. CASE Forward /\ Quiet
  BY <1>a, <1>2 DEF Quiet, Forward, storeVars
<1>3. ASSUME NEW z \in Actors, NEW op \in Ops, NEW pc \in Places,
             Turns(z, op, pc), Forward
      PROVE  /\ ~attached' /\ cache' = NoSnapshot /\ terminal' = "none"
             /\ \A y \in Actors : Reads(actor'[y], file')
  <2>1. /\ phase = "crashed" /\ ~attached' /\ terminal' = terminal
        /\ file' = file /\ cache' = cache
    BY <1>3 DEF Turns, StoreIdle, storeVars, Forward
  <2>2. op = "get" /\ pc = "load"
    BY <1>3 DEF Turns, IsEvent, LifecycleEvents, TerminalEvents
  <2>3. Reads(actor'[z], file')
    BY <1>3, <2>2, TurnsTo DEF Reads
  <2>4. \A y \in Actors : Reads(actor'[y], file')
    BY <1>3, <1>a, <2>1, <2>3, TurnsTo
  <2> QED
    BY <1>a, <2>1, <2>4
<1>4. CASE Crash
  BY <1>b, <1>4 DEF Crash
<1> QED
  BY <1>1, <1>2, <1>3, <1>4, NextCases

\* What records an end: its publication begins, its file is written, it is
\* emitted.
LEMMA Ends ==
    ASSUME TypeOK, NEW x \in Actors, Step(x)
    PROVE  /\ \/ terminal' = terminal
              \/ /\ PublishBegin(x) /\ terminal = "none"
                 /\ actor[x].op \in TerminalEvents /\ terminal' = actor[x].op
           /\ \/ settled' = settled
              \/ /\ Write(x) /\ Settles(x) /\ actor[x].op \in TerminalEvents
                 /\ settled' = actor[x].op /\ file' = actor[x].snap
           /\ \/ emitted' = emitted
              \/ /\ Emit(x) /\ actor[x].op \in TerminalEvents
                 /\ emitted' = actor[x].op
           /\ tainted => tainted'
<1>1. CASE PublishBegin(x)
  BY <1>1 DEF PublishBegin, historyVars, LifecycleEvents
<1>2. CASE Write(x)
  <2>1. terminal' = terminal /\ emitted' = emitted /\ (tainted => tainted')
    BY <1>2 DEF Write, Taints
  <2>2. \/ settled' = settled
        \/ /\ Settles(x) /\ actor[x].op \in TerminalEvents
           /\ file' = actor[x].snap
    BY <1>2 DEF Write
  <2> QED
    BY <1>2, <2>1, <2>2 DEF Settles
<1>3. CASE Emit(x)
  BY <1>3 DEF Emit
<1>4. CASE ~PublishBegin(x) /\ ~Write(x) /\ ~Emit(x)
  <2>1. /\ terminal' = terminal /\ settled' = settled /\ emitted' = emitted
    BY <1>4
    DEF Step, LoadBegin, Fetch, Recache, Rewrite, Rewritten, Store, Put,
        historyVars
  <2>2. tainted => tainted'
    BY <1>4
    DEF Step, LoadBegin, Fetch, Recache, Rewrite, Rewritten, Store, Put,
        historyVars, Taints
  <2> QED
    BY <2>1, <2>2
<1> QED
  BY <1>1, <1>2, <1>3, <1>4

LEMMA NotBegunNext ==
    ASSUME TypeOK, OpsFit, Serialised, Restarted, NotBegun, [Next]_vars
    PROVE  NotBegun'
<1> DEFINE before == {"new", "working", "persisted"}
<1>a. /\ phase = "new" =>
           /\ ~attached /\ ~cancelled
           /\ \A y \in Actors : actor[y].op \in {"none", "get"}
      /\ phase \in before =>
           /\ terminal = "none"
           /\ \A y \in Actors : actor[y].op \notin TerminalEvents
      /\ terminal = "none" /\ phase # "crashed"
           => settled = "none" /\ emitted = "none"
  BY DEF NotBegun
<1> SUFFICES
      /\ phase' = "new" =>
           /\ ~attached' /\ ~cancelled'
           /\ \A y \in Actors : actor'[y].op \in {"none", "get"}
      /\ phase' \in before =>
           /\ terminal' = "none"
           /\ \A y \in Actors : actor'[y].op \notin TerminalEvents
      /\ terminal' = "none" /\ phase' # "crashed"
           => settled' = "none" /\ emitted' = "none"
  BY DEF NotBegun
<1>1. ASSUME NEW x \in Actors, Step(x)
      PROVE  /\ phase' = "new" =>
                  /\ ~attached' /\ ~cancelled'
                  /\ \A y \in Actors : actor'[y].op \in {"none", "get"}
             /\ phase' \in before =>
                  /\ terminal' = "none"
                  /\ \A y \in Actors : actor'[y].op \notin TerminalEvents
             /\ terminal' = "none" /\ phase' # "crashed"
                  => settled' = "none" /\ emitted' = "none"
  <2>1. phase' = phase /\ attached' = attached /\ cancelled' = cancelled
    BY <1>1, StepControl
  <2>2. \A y \in Actors :
          \/ actor'[y].op \in {actor[y].op, "none"}
          \/ actor[y].op = "resume" /\ actor'[y].op = "resumed"
    <3> TAKE y \in Actors
    <3>1. CASE y = x
      BY <1>1, <3>1, Moves DEF Resting
    <3>2. CASE y # x
      BY <1>1, <3>2, Others
    <3> QED
      BY <3>1, <3>2
  <2>3. phase' \in before => terminal' = "none"
    BY <1>1, <1>a, <2>1, Ends
  <2>4. terminal' = "none" => terminal = "none"
    BY <1>1, Ends DEF TerminalEvents
  <2>5. settled' # settled \/ emitted' # emitted => terminal # "none"
    <3>1. settled' # settled \/ emitted' # emitted
            => actor[x].op \in TerminalEvents /\ actor[x].pc \in {"write", "emit"}
      BY <1>1, Ends DEF Write, Emit
    <3> QED
      BY <3>1 DEF Serialised, TerminalEvents
  <2>6. phase' \in before =>
          \A y \in Actors : actor'[y].op \notin TerminalEvents
    BY <1>a, <2>1, <2>2 DEF TerminalEvents
  <2>7. phase' = "new" => \A y \in Actors : actor'[y].op \in {"none", "get"}
    BY <1>a, <2>1, <2>2
  <2> QED
    BY <1>a, <2>1, <2>3, <2>4, <2>5, <2>6, <2>7
<1>2. CASE Forward /\ Quiet
  BY <1>a, <1>2 DEF Quiet, Forward, historyVars
<1>3. ASSUME NEW z \in Actors, NEW op \in Ops, NEW pc \in Places,
             Turns(z, op, pc), Forward
      PROVE  /\ phase' = "new" =>
                  /\ ~attached' /\ ~cancelled'
                  /\ \A y \in Actors : actor'[y].op \in {"none", "get"}
             /\ phase' \in before =>
                  /\ terminal' = "none"
                  /\ \A y \in Actors : actor'[y].op \notin TerminalEvents
             /\ terminal' = "none" /\ phase' # "crashed"
                  => settled' = "none" /\ emitted' = "none"
  <2>1. terminal' = terminal /\ settled' = settled /\ emitted' = emitted
    BY <1>3 DEF Turns, StoreIdle, historyVars
  <2>2. /\ op = "get" \/ phase' \notin {"new", "crashed"}
        /\ op \in TerminalEvents => phase' \notin before
    BY <1>3 DEF Turns
  <2>3. /\ phase' = "new" => phase = "new" /\ ~attached' /\ ~cancelled'
        /\ phase' \in before => phase \in before
        /\ phase' = "crashed" <=> phase = "crashed"
    BY <1>3 DEF Forward
  <2>4. \A y \in Actors : actor'[y].op = IF y = z THEN op ELSE actor[y].op
    BY <1>3, TurnsTo
  <2> QED
    BY <1>a, <2>1, <2>2, <2>3, <2>4
<1>4. CASE Crash
  BY <1>4 DEF Crash
<1> QED
  BY <1>1, <1>2, <1>3, <1>4, NextCases

-----------------------------------------------------------------------------
(* What is recorded stays.                                                 *)

\* The parts of EndRecorded.
OwnPart(a) ==
    /\ a.op \in TerminalEvents /\ a.pc \in Loading \cup {"store", "write"}
         => settled = "none"
    /\ a.op \in TerminalEvents /\ a.pc = "put" => settled = a.op
    /\ a.op \in TerminalEvents /\ a.pc = "emit" => settled = a.op \/ tainted

HeldPart(a) ==
    a.pc \in Holding /\ ~a.stale /\ a.op \notin Unguarded
      => a.pc \notin {"store", "write"} /\ a.snap.status = StatusOf[settled]

\* The file and the cache part of it.
KeptPart ==
    settled # "none" /\ ~tainted =>
      /\ file.status = StatusOf[settled]
      /\ cache = NoSnapshot \/ EndHalfStored

EmittedPart ==
    emitted # "none" =>
      /\ settled = emitted \/ tainted
      /\ \A y \in Actors : actor[y].op \in TerminalEvents => actor[y].pc = "lock"

LEMMA EndParts ==
    EndRecorded <=>
      /\ terminal # "none" /\ settled # "none" => settled = terminal
      /\ \A y \in Actors : OwnPart(actor[y])
      /\ KeptPart
      /\ settled # "none" /\ ~tainted => \A y \in Actors : HeldPart(actor[y])
      /\ EmittedPart
  BY DEF EndRecorded, OwnPart, HeldPart, KeptPart, EmittedPart

\* Once the end is in the file only loads, unguarded writes and the rest of
\* its own publication go on.
LEMMA LateOps ==
    ASSUME IInv, settled # "none", NEW y \in Actors,
           actor[y].pc \notin {"idle", "lock"}
    PROVE  \/ actor[y].op \in {"get"} \cup Unguarded
           \/ actor[y].op \in TerminalEvents /\ actor[y].pc \in {"put", "emit"}
<1>1. CASE phase = "crashed"
  BY <1>1 DEF IInv, Restarted, OpsFit
<1>2. CASE phase # "crashed"
  <2>1. terminal # "none" /\ terminal \in TerminalEvents
    BY <1>2 DEF IInv, NotBegun, TypeOK
  <2>2. actor[y].op \in {"get", "resume", "mcis", terminal}
    BY <2>1 DEF IInv, Serialised
  <2>3. actor[y].pc \in Loading \cup {"store", "write", "put", "emit"}
    BY RecordTypes DEF IInv, Records, Places, Loading
  <2>4. actor[y].op \in TerminalEvents
          => actor[y].pc \notin Loading \cup {"store", "write"}
    BY EndParts DEF IInv, OwnPart
  <2> QED
    BY <2>1, <2>2, <2>3, <2>4 DEF Unguarded
<1> QED
  BY <1>1, <1>2

\* A write that leaves the recorded end untainted is of a goroutine that holds
\* nothing older.
LEMMA UntaintedWrite ==
    ASSUME TypeOK, NEW x \in Actors, Step(x), settled # "none", ~tainted'
    PROVE  /\ ~tainted
           /\ (\/ file' # file
               \/ cache' # cache
               \/ actor[x].pc \in {"recache", "rewritten", "put"})
                => ~actor[x].stale /\ actor[x].op \notin Unguarded
           /\ actor[x].pc \in {"rewrite", "write"} /\ actor[x].op \in TerminalEvents
                => actor'[x].pc # "emit"
<1> USE RecordTypes
<1>0. tainted \in BOOLEAN /\ actor[x] \in Records
  BY DEF TypeOK
<1>t. Taints(x) => ~tainted /\ ~actor[x].stale /\ actor[x].op \notin Unguarded
  BY <1>0 DEF Taints
<1>1. CASE PublishBegin(x) \/ LoadBegin(x) \/ Fetch(x) \/ Store(x) \/ Emit(x)
  BY <1>1
  DEF PublishBegin, LoadBegin, Fetch, Store, Emit, storeVars, historyVars
<1>2. CASE Recache(x) \/ Rewritten(x) \/ Put(x)
  BY <1>t, <1>2 DEF Recache, Rewritten, Put
<1>3. CASE Rewrite(x)
  <2>1. CASE actor' = [actor EXCEPT ![x].pc = "rewritten"] /\ Taints(x)
    BY <1>0, <1>t, <1>3, <2>1 DEF Rewrite, Records
  <2>2. CASE /\ LoadFails(x) /\ file' = file
             /\ tainted' = (tainted \/ actor[x].op \in TerminalEvents)
    BY <1>3, <2>2 DEF Rewrite
  <2> QED
    BY <1>3, <2>1, <2>2 DEF Rewrite
<1>4. CASE Write(x)
  <2>1. CASE Taints(x) /\ actor[x].op \notin TerminalEvents
    BY <1>t, <1>4, <2>1 DEF Write
  <2>2. CASE Taints(x) /\ Settles(x)
    <3>1. actor'[x] = [actor[x] EXCEPT !.pc = "put"]
      BY <2>2 DEF Settles
    <3>2. actor'[x].pc = "put"
      BY <1>0, <3>1 DEF Records
    <3> QED
      BY <1>t, <1>4, <2>2, <3>2 DEF Write
  <2>3. CASE /\ file' = file
             /\ tainted' = (tainted \/ actor[x].op \in TerminalEvents)
    BY <1>4, <2>3 DEF Write
  <2> QED
    BY <1>4, <2>1, <2>2, <2>3 DEF Write
<1> QED
  BY <1>1, <1>2, <1>3, <1>4 DEF Step

\* The step that writes the end to the file.
LEMMA SettleStep ==
    ASSUME IInv, NEW x \in Actors, Write(x), Settles(x),
           actor[x].op \in TerminalEvents, file' = actor[x].snap
    PROVE  EndRecorded'
<1> DEFINE op == actor[x].op
<1>0. /\ actor[x].pc = "write" /\ settled' = op /\ op \in TerminalEvents
      /\ terminal' = terminal /\ emitted' = emitted /\ op # "none"
  BY DEF Write, Settles, TerminalEvents
<1>1. terminal = op /\ x = Runner
  BY <1>0 DEF IInv, Serialised, OpsFit, RunnerOps
<1>2. emitted = "none"
  BY <1>0, EndParts DEF IInv, EmittedPart
<1>3. actor[x] \in Records /\ actor'[x] = [actor[x] EXCEPT !.pc = "put"]
  BY RecordTypes DEF Settles, IInv
<1>4. /\ actor'[x].pc = "put" /\ actor'[x].op = op
      /\ actor'[x].snap = actor[x].snap /\ actor[x].snap.status = StatusOf[op]
  BY <1>0, <1>3 DEF Records, IInv, SnapsFit
<1>5. ASSUME NEW y \in Actors, y # x
      PROVE  /\ actor'[y].op = actor[y].op /\ actor'[y].pc = actor[y].pc
             /\ actor'[y].pc \in Holding => actor'[y].stale
             /\ actor'[y].op \notin TerminalEvents
  <2>1. actor'[y] = [actor[y] EXCEPT !.stale = actor[y].pc \in Holding]
        /\ actor[y] \in Records
    BY <1>5, RecordTypes DEF Settles, IInv
  <2>2. /\ actor'[y].op = actor[y].op /\ actor'[y].pc = actor[y].pc
        /\ actor'[y].stale = (actor[y].pc \in Holding)
    BY <2>1 DEF Records
  <2>3. actor[y].op \notin TerminalEvents
    BY <1>1, <1>5 DEF IInv, OpsFit, RunnerOps
  <2> QED
    BY <2>2, <2>3
<1>6. \A y \in Actors : OwnPart(actor[y])'
  BY <1>0, <1>4, <1>5 DEF OwnPart, Loading
<1>7. EndHalfStored' /\ KeptPart'
  BY <1>0, <1>4 DEF EndHalfStored, KeptPart
<1>8. \A y \in Actors : HeldPart(actor[y])'
  BY <1>0, <1>4, <1>5 DEF HeldPart
<1>9. EmittedPart'
  BY <1>0, <1>2 DEF EmittedPart
<1> QED
  BY <1>0, <1>1, <1>6, <1>7, <1>8, <1>9
  DEF EndRecorded, OwnPart, HeldPart, KeptPart, EmittedPart

\* The step that begins or drops the publication of an end: it is the only
\* step out of the lock.
LEMMA EndBegins ==
    ASSUME IInv, NEW x \in Actors, Step(x), actor[x].pc = "lock",
           actor[x].op \in TerminalEvents
    PROVE  /\ phase # "crashed"
           /\ \/ actor'[x] = Resting
              \/ /\ terminal = "none" /\ settled = "none" /\ emitted = "none"
                 /\ actor'[x].pc = "load" /\ actor'[x].op = actor[x].op
<1>1. PublishBegin(x)
  BY DEF Step, PublishBegin, LoadBegin, Fetch, Recache, Rewrite, Rewritten,
         Store, Write, Put, Emit
<1>2. phase # "crashed"
  BY DEF IInv, Restarted, TerminalEvents
<1>3. actor[x].op \in LifecycleEvents /\ actor[x] \in Records
  BY RecordTypes DEF LifecycleEvents, IInv
<1>4. CASE terminal # "none"
  BY <1>1, <1>2, <1>3, <1>4, RecordTypes DEF PublishBegin, IInv
<1>5. CASE terminal = "none"
  <2>1. actor' = [actor EXCEPT ![x].pc = "load"]
    BY <1>1, <1>5 DEF PublishBegin
  <2>2. actor'[x].pc = "load" /\ actor'[x].op = actor[x].op
    BY <1>3, <2>1, RecordTypes DEF Records, IInv
  <2> QED
    BY <1>2, <1>5, <2>2 DEF IInv, NotBegun
<1> QED
  BY <1>4, <1>5

\* A goroutine's own part, when its step does not write the end.
LEMMA OwnStep ==
    ASSUME IInv, NEW x \in Actors, Step(x), settled' = settled
    PROVE  \A y \in Actors : OwnPart(actor[y])'
<1> USE EndParts
<1>0. \A y \in Actors : OwnPart(actor[y])
  BY DEF IInv
<1>1. tainted => tainted'
  BY Ends DEF IInv
<1>2. ASSUME NEW y \in Actors, y # x PROVE OwnPart(actor[y])'
  <2>1. actor'[y].op = actor[y].op /\ actor'[y].pc = actor[y].pc
    BY <1>2, Others DEF IInv
  <2> QED
    BY <1>0, <1>1, <2>1 DEF OwnPart
<1>3. OwnPart(actor[x])'
  <2>1. CASE actor'[x] = Resting \/ actor'[x].op \notin TerminalEvents
    BY <2>1 DEF OwnPart, Resting, TerminalEvents
  <2>2. CASE actor'[x] # Resting /\ actor'[x].op \in TerminalEvents
    <3>1. actor'[x].op = actor[x].op /\ actor[x].op \in TerminalEvents
          /\ actor[x].op \notin {"get", "resume"}
      BY <2>2, Moves DEF IInv, TerminalEvents
    <3>2. CASE actor[x].pc = "lock"
      BY <2>2, <3>2, <3>1, EndBegins DEF OwnPart
    <3>3. CASE actor[x].pc \in Loading /\ actor'[x].pc \in Loading \cup {"store"}
      BY <1>0, <3>1, <3>3 DEF OwnPart, Loading
    <3>4. CASE actor[x].pc = "rewrite" /\ actor'[x].pc = "emit"
      <4>1. Rewrite(x)
        BY <3>4 DEF Step, PublishBegin, LoadBegin, Fetch, Recache, Rewritten,
                    Store, Write, Put, Emit
      <4>2. actor' # [actor EXCEPT ![x].pc = "rewritten"]
        BY <3>4, RecordTypes DEF IInv, Records
      <4>3. tainted'
        BY <3>1, <4>1, <4>2 DEF Rewrite
      <4> QED
        BY <3>4, <4>3 DEF OwnPart, Loading
    <3>5. CASE actor[x].pc = "store" /\ actor'[x].pc \in {"write", "put"}
      <4>1. Store(x)
        BY <3>5 DEF Step, PublishBegin, LoadBegin, Fetch, Recache, Rewrite,
                    Rewritten, Write, Put, Emit
      <4>2. actor'[x].pc = "write"
        BY <3>1, <3>5, <4>1, Stores, StatusFacts DEF IInv
      <4> QED
        BY <1>0, <3>1, <3>5, <4>2 DEF OwnPart, Loading
    <3>6. CASE actor[x].pc = "write" /\ actor'[x].pc \in {"put", "emit"}
      <4>1. Write(x)
        BY <3>6 DEF Step, PublishBegin, LoadBegin, Fetch, Recache, Rewrite,
                    Rewritten, Store, Put, Emit
      <4>2. settled = "none" /\ actor[x].op # "none"
        BY <1>0, <3>1, <3>6 DEF OwnPart, TerminalEvents
      <4>3. ~Settles(x)
        BY <4>2 DEF Settles
      <4>4. actor' = [actor EXCEPT ![x] = AfterStore(x)] /\ tainted'
        BY <3>1, <4>1, <4>3 DEF Write
      <4>5. actor'[x].pc # "put"
        BY <4>4, RecordTypes DEF IInv, AfterStore, Resting
      <4> QED
        BY <3>6, <4>4, <4>5 DEF OwnPart, Loading
    <3>7. CASE actor[x].pc = "put" /\ actor'[x].pc = "emit"
      BY <1>0, <3>1, <3>7 DEF OwnPart, Loading
    <3> QED
      BY <2>2, <3>1, <3>2, <3>3, <3>4, <3>5, <3>6, <3>7, Moves
      DEF IInv, Loading
  <2> QED
    BY <2>1, <2>2
<1> QED
  BY <1>2, <1>3

\* The file keeps the recorded end, and the cache nothing older.
LEMMA KeptStep ==
    ASSUME IInv, NEW x \in Actors, Step(x), settled' = settled
    PROVE  KeptPart'
<1> SUFFICES ASSUME settled # "none", ~tainted'
             PROVE  /\ file'.status = StatusOf[settled]
                    /\ cache' = NoSnapshot \/ EndHalfStored'
  BY DEF KeptPart
<1>0. /\ ~tainted /\ settled \in TerminalEvents
      /\ file.status = StatusOf[settled]
      /\ cache = NoSnapshot \/ EndHalfStored
      /\ HeldPart(actor[x])
      /\ actor[x].snap \in Snapshots
  BY UntaintedWrite, EndParts, RecordTypes
  DEF IInv, KeptPart, TypeOK
<1>1. ASSUME actor[x].pc \in Holding, ~actor[x].stale, actor[x].op \notin Unguarded
      PROVE  /\ actor[x].pc \notin {"store", "write"}
             /\ actor[x].snap.status = StatusOf[settled]
  BY <1>0, <1>1 DEF HeldPart
<1>2. file'.status = StatusOf[settled]
  <2>1. CASE file' = file
    BY <1>0, <2>1
  <2>2. CASE file' # file
    <3>1. actor[x].pc \in {"rewrite", "write"} /\ file' = actor[x].snap
      BY <2>2, Writes DEF IInv
    <3>2. ~actor[x].stale /\ actor[x].op \notin Unguarded
      BY <2>2, UntaintedWrite DEF IInv
    <3> QED
      BY <1>1, <3>1, <3>2 DEF Holding
  <2> QED
    BY <2>1, <2>2
<1>3. cache' = NoSnapshot \/ EndHalfStored'
  <2>1. CASE actor[x].pc \in {"recache", "rewritten", "put"}
    <3>1. ~actor[x].stale /\ actor[x].op \notin Unguarded
      BY <2>1, UntaintedWrite DEF IInv
    <3>2. actor[x].snap.status \notin ActiveStatus
      BY <1>0, <1>1, <2>1, <3>1, StatusFacts DEF Holding
    <3>3. cache' = Cached(actor[x].snap) \/ cache' = cache
      BY Writes DEF IInv
    <3>4. CASE cache' = Cached(actor[x].snap)
      BY <1>0, <3>2, <3>4, CachedFacts
    <3>5. CASE cache' # Cached(actor[x].snap)
      BY <2>1, <3>5
      DEF Step, PublishBegin, LoadBegin, Fetch, Recache, Rewrite, Rewritten,
          Store, Write, Put, Emit
    <3> QED
      BY <3>4, <3>5
  <2>2. CASE actor[x].pc \notin {"recache", "rewritten", "put"}
    <3>1. cache' = cache
      BY <2>2, Writes DEF IInv
    <3>2. EndHalfStored => EndHalfStored'
      <4>1. ASSUME NEW y \in Actors, actor[y].pc = "put",
                   actor[y].op \in TerminalEvents
            PROVE  actor'[y].pc = "put" /\ actor'[y].op \in TerminalEvents
        BY <2>2, <4>1, Others DEF IInv
      <4> QED
        BY <4>1 DEF EndHalfStored
    <3> QED
      BY <1>0, <3>1, <3>2
  <2> QED
    BY <2>1, <2>2
<1> QED
  BY <1>2, <1>3

\* Whoever loads after the end was written finds it.
LEMMA HeldStep ==
    ASSUME IInv, NEW x \in Actors, Step(x), settled' = settled,
           settled # "none", ~tainted'
    PROVE  \A y \in Actors : HeldPart(actor[y])'
<1>0. /\ ~tainted /\ settled \in TerminalEvents
      /\ file.status = StatusOf[settled]
      /\ cache = NoSnapshot \/ EndHalfStored
      /\ \A y \in Actors : HeldPart(actor[y])
      /\ actor[x] \in Records
  BY UntaintedWrite, EndParts, RecordTypes DEF IInv, KeptPart, TypeOK
<1>1. ASSUME NEW y \in Actors, y # x PROVE HeldPart(actor[y])'
  <2>1. CASE actor'[y] = actor[y]
    BY <1>0, <2>1 DEF HeldPart
  <2>2. CASE actor'[y].stale = (actor[y].pc \in Holding)
    <3>1. actor'[y].pc = actor[y].pc
      BY <1>1, Others DEF IInv
    <3> QED
      BY <2>2, <3>1 DEF HeldPart
  <2> QED
    BY <1>1, <2>1, <2>2, Others DEF IInv
<1>2. HeldPart(actor[x])'
  <2> SUFFICES ASSUME actor'[x].pc \in Holding, ~actor'[x].stale,
                      actor'[x].op \notin Unguarded
               PROVE  /\ actor'[x].pc \notin {"store", "write"}
                      /\ actor'[x].snap.status = StatusOf[settled]
    BY DEF HeldPart
  <2>1. /\ actor[x].pc \notin {"idle", "lock", "load"}
        /\ actor'[x].op = actor[x].op
    <3>1. actor[x].pc # "idle"
      BY DEF Step, PublishBegin, LoadBegin, Fetch, Recache, Rewrite, Rewritten,
             Store, Write, Put, Emit
    <3> QED
      BY <3>1, Moves DEF IInv, Holding, Resting
  <2>2. \/ actor[x].op = "get"
        \/ actor[x].op \in TerminalEvents /\ actor[x].pc \in {"put", "emit"}
    BY <2>1, LateOps
  <2>3. actor[x].op = "get" /\ actor'[x].pc \in {"recache", "rewrite", "rewritten"}
    <3>1. CASE actor[x].op \in TerminalEvents /\ actor[x].pc \in {"put", "emit"}
      BY <2>1, <3>1, Moves DEF IInv, Holding, Resting
    <3>2. CASE actor[x].op = "get"
      <4>1. actor[x].pc \in Loading
        BY <3>2 DEF IInv, OpsFit
      <4> QED
        BY <2>1, <3>2, <4>1, Moves DEF IInv, Holding, Resting, Loading
    <3> QED
      BY <2>2, <3>1, <3>2
  <2>4. CASE Fetch(x)
    <3>1. /\ actor'[x].snap = Loaded(Found, actor[x].att)
          /\ actor'[x].stale = EndHalfStored
      <4>1. ~LoadReturns(x, NoSnapshot)
        BY <2>3, RecordTypes DEF IInv, LoadReturns, Resting
      <4> QED
        BY <2>4, <4>1, Fetches DEF IInv
    <3>2. Found = file
      BY <1>0, <3>1 DEF Found
    <3>3. file \in Snapshots /\ file.status \in TerminalStatus
          /\ actor[x].att \in Attachments
      BY <1>0, StatusFacts DEF IInv, TypeOK, Records
    <3> QED
      BY <1>0, <2>3, <3>1, <3>2, <3>3, SnapshotFacts
  <2>5. CASE ~Fetch(x)
    <3>1. ~Store(x)
      BY <2>3 DEF Store, IInv, OpsFit, Loading
    <3>2. /\ actor'[x].snap = actor[x].snap /\ actor'[x].stale = actor[x].stale
          /\ actor[x].pc \in {"recache", "rewrite", "write"}
      BY <2>3, <2>5, <3>1, KeepsSnap DEF IInv
    <3> QED
      BY <1>0, <2>1, <2>3, <3>2 DEF HeldPart, Holding
  <2> QED
    BY <2>4, <2>5
<1> QED
  BY <1>1, <1>2

\* What was emitted was recorded, or something came in between.
LEMMA EmittedStep ==
    ASSUME IInv, NEW x \in Actors, Step(x), settled' = settled
    PROVE  EmittedPart'
<1>0. EmittedPart /\ OwnPart(actor[x]) /\ (tainted => tainted')
  BY EndParts, Ends DEF IInv
<1>1. CASE emitted' # emitted
  <2>1. /\ Emit(x) /\ actor[x].op \in TerminalEvents /\ emitted' = actor[x].op
        /\ actor[x].pc = "emit"
    BY <1>1, Ends DEF IInv, Emit
  <2>2. settled = actor[x].op \/ tainted
    BY <1>0, <2>1 DEF OwnPart
  <2>3. ASSUME NEW y \in Actors PROVE actor'[y].op \notin TerminalEvents
    <3>1. CASE y = x
      BY <2>1, <3>1, RecordTypes DEF Emit, IInv, Resting, TerminalEvents
    <3>2. CASE y # x
      <4>1. x = Runner /\ actor[y].op \notin TerminalEvents
        BY <2>1, <3>2 DEF IInv, OpsFit, RunnerOps
      <4> QED
        BY <3>2, <4>1, Others DEF IInv
    <3> QED
      BY <3>1, <3>2
  <2> QED
    BY <1>0, <2>1, <2>2, <2>3 DEF EmittedPart
<1>2. CASE emitted' = emitted
  <2> SUFFICES ASSUME emitted # "none"
               PROVE  /\ settled = emitted \/ tainted'
                      /\ \A y \in Actors :
                           actor'[y].op \in TerminalEvents => actor'[y].pc = "lock"
    BY <1>2 DEF EmittedPart
  <2>1. settled = emitted \/ tainted'
    BY <1>0 DEF EmittedPart
  <2>2. ASSUME NEW y \in Actors, actor'[y].op \in TerminalEvents
        PROVE  actor'[y].pc = "lock"
    <3>1. CASE y = x
      <4>1. actor[x].op = actor'[x].op /\ actor'[x] # Resting
        BY <2>2, <3>1, Moves DEF IInv, Resting, TerminalEvents
      <4>2. actor[x].pc = "lock"
        BY <1>0, <2>2, <3>1, <4>1 DEF EmittedPart
      <4> QED
        BY <2>2, <3>1, <4>1, <4>2, EndBegins
    <3>2. CASE y # x
      BY <1>0, <2>2, <3>2, Others DEF IInv, EmittedPart
    <3> QED
      BY <3>1, <3>2
  <2> QED
    BY <2>1, <2>2
<1> QED
  BY <1>1, <1>2

LEMMA EndRecordedNext ==
    ASSUME IInv, [Next]_vars
    PROVE  EndRecorded'
<1> DEFINE agree == terminal # "none" /\ settled # "none" => settled = terminal
<1>a. /\ agree /\ KeptPart /\ EmittedPart
      /\ \A y \in Actors : OwnPart(actor[y])
      /\ settled # "none" /\ ~tainted => \A y \in Actors : HeldPart(actor[y])
  BY EndParts DEF IInv
<1>b. ASSUME agree', \A y \in Actors : OwnPart(actor[y])', KeptPart',
             settled' # "none" /\ ~tainted' =>
               \A y \in Actors : HeldPart(actor[y])',
             EmittedPart'
      PROVE  EndRecorded'
  BY <1>b DEF EndRecorded, OwnPart, HeldPart, KeptPart, EmittedPart
<1>1. ASSUME NEW x \in Actors, Step(x) PROVE EndRecorded'
  <2>1. CASE settled' # settled
    BY <1>1, <2>1, Ends, SettleStep DEF IInv
  <2>2. CASE settled' = settled
    <3>1. agree'
      <4>1. CASE terminal' = terminal
        BY <1>a, <2>2, <4>1
      <4>2. CASE terminal' # terminal
        <5>1. /\ actor[x].op \in TerminalEvents /\ actor[x].pc = "lock"
              /\ terminal = "none"
          BY <1>1, <4>2, Ends DEF PublishBegin, IInv
        <5>2. phase # "crashed"
          BY <1>1, <5>1, EndBegins
        <5> QED
          BY <2>2, <5>1, <5>2 DEF IInv, NotBegun
      <4> QED
        BY <4>1, <4>2
    <3>2. \A y \in Actors : OwnPart(actor[y])'
      BY <1>1, <2>2, OwnStep
    <3>3. KeptPart'
      BY <1>1, <2>2, KeptStep
    <3>4. settled' # "none" /\ ~tainted' =>
            \A y \in Actors : HeldPart(actor[y])'
      BY <1>1, <2>2, HeldStep
    <3>5. EmittedPart'
      BY <1>1, <2>2, EmittedStep
    <3> QED
      BY <1>b, <3>1, <3>2, <3>3, <3>4, <3>5
  <2> QED
    BY <2>1, <2>2
<1>2. CASE Quiet
  <2>1. /\ terminal' = terminal /\ settled' = settled /\ emitted' = emitted
        /\ tainted' = tainted /\ file' = file /\ cache' = cache
        /\ actor' = actor
    BY <1>2 DEF Quiet, storeVars, historyVars
  <2>2. EndHalfStored' <=> EndHalfStored
    BY <2>1 DEF EndHalfStored
  <2>3. agree' /\ KeptPart' /\ EmittedPart'
    BY <1>a, <2>1, <2>2 DEF KeptPart, EmittedPart
  <2>4. /\ \A y \in Actors : OwnPart(actor[y])'
        /\ settled' # "none" /\ ~tainted' =>
             \A y \in Actors : HeldPart(actor[y])'
    BY <1>a, <2>1 DEF OwnPart, HeldPart
  <2> QED
    BY <1>b, <2>3, <2>4
<1>3. ASSUME NEW z \in Actors, NEW op \in Ops, NEW pc \in Places,
             Turns(z, op, pc), Forward
      PROVE  EndRecorded'
  <2>1. /\ terminal' = terminal /\ settled' = settled /\ emitted' = emitted
        /\ tainted' = tainted /\ file' = file /\ cache' = cache
    BY <1>3 DEF Turns, StoreIdle, storeVars, historyVars
  <2>2. /\ actor'[z].op = op /\ actor'[z].pc = pc
        /\ \A y \in Actors : y # z => actor'[y] = actor[y]
    BY <1>3, TurnsTo DEF IInv
  <2>3. /\ pc \in {"lock", "load"} \/ (pc = "store" /\ settled = "none")
        /\ op \in TerminalEvents => pc = "lock"
    <3>1. \/ pc = "lock"
          \/ pc = "load" /\ op \in {"get", "resume"}
          \/ /\ pc = "store" /\ op \in {"accepted", "persist"}
             /\ terminal = "none" /\ phase # "crashed"
      BY <1>3 DEF Turns, Forward
    <3>2. terminal = "none" /\ phase # "crashed" => settled = "none"
      BY DEF IInv, NotBegun
    <3> QED
      BY <3>1, <3>2 DEF TerminalEvents
  <2>4. EndHalfStored => EndHalfStored'
    <3>1. actor[z].op \notin TerminalEvents
      BY <1>3 DEF Turns, TerminalEvents
    <3> QED
      BY <2>2, <3>1 DEF EndHalfStored
  <2>5. agree' /\ KeptPart' /\ EmittedPart'
    BY <1>a, <2>1, <2>2, <2>3, <2>4 DEF KeptPart, EmittedPart
  <2>6. \A y \in Actors : OwnPart(actor[y])'
    BY <1>a, <2>1, <2>2, <2>3 DEF OwnPart, Loading
  <2>7. settled' # "none" /\ ~tainted' => \A y \in Actors : HeldPart(actor[y])'
    BY <1>a, <2>1, <2>2, <2>3 DEF HeldPart, Holding
  <2> QED
    BY <1>b, <2>5, <2>6, <2>7
<1>4. CASE Crash
  <2>1. /\ terminal' = "none" /\ settled' = settled /\ emitted' = emitted
        /\ tainted' = tainted /\ file' = file /\ cache' = NoSnapshot
        /\ \A y \in Actors : actor'[y] = Resting
    BY <1>4 DEF Crash, historyVars
  <2>2. agree' /\ KeptPart' /\ EmittedPart'
    BY <1>a, <2>1 DEF KeptPart, EmittedPart, Resting, TerminalEvents
  <2>3. \A y \in Actors : OwnPart(actor[y])' /\ HeldPart(actor[y])'
    BY <2>1 DEF OwnPart, HeldPart, Resting, TerminalEvents, Holding
  <2> QED
    BY <1>b, <2>2, <2>3
<1> QED
  BY <1>1, <1>2, <1>3, <1>4, NextCases DEF IInv

-----------------------------------------------------------------------------
(* The theorems.                                                           *)

LEMMA InitIInv == Init => IInv
<1> SUFFICES ASSUME Init PROVE IInv
  OBVIOUS
<1>1. \A y \in Actors : actor[y] = Resting
  BY DEF Init
<1>2. OpsFit
  BY <1>1 DEF OpsFit, Resting, RunnerOps, TerminalEvents
<1>3. Serialised
  BY <1>1 DEF Serialised, Publishing, Resting, Init, TerminalEvents
<1>4. SnapsFit
  BY <1>1 DEF SnapsFit, WellFormed, NoSnapshot, TerminalStatus, Resting, Init
<1>5. Restarted /\ NotBegun
  BY <1>1 DEF Restarted, NotBegun, Resting, Init, TerminalEvents
<1>6. EndRecorded
  BY <1>1 DEF EndRecorded, Resting, Init, TerminalEvents
<1> QED
  BY <1>2, <1>3, <1>4, <1>5, <1>6, TypeInit DEF IInv

LEMMA NextIInv == IInv /\ [Next]_vars => IInv'
  BY TypeNext, OpsNext, SerialisedNext, SnapsNext, RestartedNext, NotBegunNext,
     EndRecordedNext DEF IInv

\* The invariant holds of every reachable state, for any readers, sources and
\* number of inputs: of the snapshots in the file, in the cache and in every
\* goroutine's hands.
THEOREM Agreement == Spec => []IInv
  BY InitIInv, NextIInv, PTL DEF Spec

\* The types of the store, its cache and the goroutines that use them.
THEOREM TypeCorrect == Spec => []TypeOK
<1>1. IInv => TypeOK
  BY DEF IInv
<1> QED
  BY <1>1, Agreement, PTL

\* Whoever saw the terminal event can read the same end, unless an older
\* snapshot, an event the terminal guard lets pass or a failed write came in
\* between.
THEOREM EndReadable == Spec => []EndIsReadable
<1>1. IInv => EndIsReadable
  <2> SUFFICES ASSUME IInv, emitted # "none", ~tainted
               PROVE  file.status = StatusOf[emitted] /\ cache = NoSnapshot
    BY DEF EndIsReadable
  <2>1. settled = emitted /\ settled # "none"
    BY EndParts DEF IInv, EmittedPart
  <2>2. ~EndHalfStored
    BY EndParts DEF IInv, EmittedPart, EndHalfStored
  <2> QED
    BY <2>1, <2>2, EndParts DEF IInv, KeptPart
<1> QED
  BY <1>1, Agreement, PTL

\* After a restart nothing of the task is active again: the cache stays empty,
\* and the file keeps the recorded end or turns a dead run into a failed one.
THEOREM DeadStayDead == Spec => RestartRecovers
<1>1. ASSUME IInv, IInv', [Next]_vars, phase = "crashed", phase' = "crashed"
      PROVE  /\ cache' = NoSnapshot
             /\ \/ file' = file
                \/ file.status \in ActiveStatus /\ file'.status = "failed"
  <2>1. cache' = NoSnapshot
    BY <1>1 DEF IInv, Restarted
  <2>2. ASSUME NEW x \in Actors, Step(x), file' # file
        PROVE  file.status \in ActiveStatus /\ file'.status = "failed"
    <3>1. /\ actor[x].pc \in {"rewrite", "write"} /\ file' = actor[x].snap
      BY <1>1, <2>2, Writes DEF IInv
    <3>2. actor[x].op = "get" /\ actor[x].pc = "rewrite"
      BY <1>1, <3>1 DEF IInv, Restarted, OpsFit, Loading
    <3>3. /\ actor[x].snap = Dead
          /\ file.status \in ActiveStatus \/ file = Dead
      BY <1>1, <3>2 DEF IInv, Restarted
    <3> QED
      BY <2>2, <3>1, <3>3 DEF Dead
  <2>3. Quiet => file' = file
    BY DEF Quiet, storeVars
  <2>4. ASSUME NEW z \in Actors, NEW op \in Ops, NEW pc \in Places,
               Turns(z, op, pc)
        PROVE  file' = file
    BY <2>4 DEF Turns, StoreIdle, storeVars
  <2>5. Crash => file' = file
    BY DEF Crash
  <2> QED
    BY <1>1, <2>1, <2>2, <2>3, <2>4, <2>5, NextCases DEF IInv
<1>2. IInv /\ IInv' /\ [Next]_vars =>
        [phase = "crashed" /\ phase' = "crashed" =>
           /\ cache' = NoSnapshot
           /\ \/ file' = file
              \/ file.status \in ActiveStatus /\ file'.status = "failed"]_vars
  BY <1>1
<1> QED
  BY <1>2, Agreement, PTL DEF Spec, RestartRecovers
=============================================================================
