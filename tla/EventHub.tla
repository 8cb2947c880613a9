------------------------------- MODULE EventHub -------------------------------
(***************************************************************************)
(* The event stream of the web UI: the numbers a task's events get in      *)
(* Service.prepareProbeEvent, the history and the subscriber queues of     *)
(* webUIEventHub, the handler that writes a subscriber's events to its     *)
(* connection, and the page that classifies what arrives.                  *)
(*                                                                         *)
(* publish holds h.mu while it offers the event to every queue, so no      *)
(* client subscribes or leaves meanwhile, but the handlers take from the   *)
(* queues without the lock.  A connection may break at any time; what the  *)
(* handler held is lost, and EventSource reconnects with the identifier of *)
(* the last event the page received.                                       *)
(***************************************************************************)
EXTENDS Naturals, Sequences, FiniteSets, SequencesExt, Filtering

CONSTANTS
    Tasks,          \* task ids
    Clients,        \* pages of the web UI
    NoTask,         \* a page that follows no task yet
    HistoryLimit,   \* webUIEventHistoryLimit
    QueueCap,       \* capacity of a subscriber's channel
    MaxEvents,      \* bound: events published
    MaxConnects     \* bound: connections per client

NoTaskAssumption == NoTask \notin Tasks
CapacityAssumption ==
    /\ HistoryLimit \in Nat \ {0}
    /\ QueueCap \in Nat \ {0, 1}
    /\ MaxEvents \in Nat
    /\ MaxConnects \in Nat

\* progress: any event that ends nothing and is dropped after the end;
\* late: one that passes the terminal guard, as probe.mcis.progress does.
Kinds == {"progress", "late", "end"}
Events == [task : Tasks, seq : Nat \ {0}, kind : Kinds]
NoEvent == [task |-> NoTask, seq |-> 0, kind |-> "none"]

VARIABLES
    eventSeq,   \* the last number given out, per task
    ended,      \* tasks with a terminal event on record
    history,    \* the hub's last events
    pub,        \* the publish under way: its event and what is left to do
    conn,       \* the connection of each client
    page,       \* what each page keeps
    log,        \* history variable: every event published, in order
    got,        \* history variable: what each page received, in order
    lost,       \* history variable: events dropped from a full queue
    missed      \* history variable: events a connection could not start with

hubVars == <<eventSeq, ended, history>>
ghostVars == <<lost, missed>>
vars == <<hubVars, pub, conn, page, log, got, ghostVars>>

Idle == [ev |-> NoEvent, todo |-> {}, step |-> "idle", to |-> "none"]
Closed == [open |-> FALSE, queue |-> <<>>, replay |-> <<>>, frame |-> NoEvent,
           times |-> 0]

TypeOK ==
    /\ eventSeq \in [Tasks -> Nat]
    /\ ended \in SUBSET Tasks
    /\ history \in Seq(Events)
    /\ Len(history) <= HistoryLimit
    /\ pub.ev \in Events \cup {NoEvent}
    /\ pub.todo \in SUBSET Clients
    /\ pub.step \in {"idle", "offer", "drop", "retry"}
    /\ \A c \in Clients :
         /\ conn[c].open \in BOOLEAN
         /\ conn[c].queue \in Seq(Events)
         /\ Len(conn[c].queue) <= QueueCap
         /\ conn[c].replay \in Seq(Events)
         /\ conn[c].frame \in Events \cup {NoEvent}
         /\ page[c].task \in Tasks \cup {NoTask}
         /\ page[c].lastId \in Events \cup {NoEvent}
         /\ page[c].first \in Nat /\ page[c].lastSeq \in Nat
         /\ got[c] \in Seq(Events)

Init ==
    /\ eventSeq = [t \in Tasks |-> 0]
    /\ ended = {}
    /\ history = <<>>
    /\ pub = Idle
    /\ conn = [c \in Clients |-> Closed]
    /\ page = [c \in Clients |->
                 [task |-> NoTask, first |-> 0, lastSeq |-> 0,
                  lastId |-> NoEvent, knowsEnd |-> FALSE,
                  reconciled |-> FALSE]]
    /\ log = <<>>
    /\ got = [c \in Clients |-> <<>>]
    /\ lost = [c \in Clients |-> {}]
    /\ missed = [c \in Clients |-> {}]

-----------------------------------------------------------------------------
(* Publishing.                                                             *)

LastOf(s, n) == SubSeq(s, Len(s) - Min({n, Len(s)}) + 1, Len(s))
Subscribers == {c \in Clients : conn[c].open}

\* Mutant: the history is not cut to its limit.
RememberAll(ev) == Append(history, ev)

Remember(ev) == LastOf(Append(history, ev), HistoryLimit)

\* prepareProbeEvent numbers the event, or drops it when the task has ended;
\* publish takes h.mu and adds it to the history.  publishMu is held around
\* both, so events reach the hub in the order of their numbers.
PublishBegin(t, kind) ==
    /\ pub.step = "idle"
    /\ Len(log) < MaxEvents
    /\ kind # "late" => t \notin ended
    /\ LET ev == [task |-> t, seq |-> eventSeq[t] + 1, kind |-> kind]
       IN  /\ eventSeq' = [eventSeq EXCEPT ![t] = @ + 1]
           /\ ended' = IF kind = "end" THEN ended \cup {t} ELSE ended
           /\ history' = Remember(ev)
           /\ log' = Append(log, ev)
           /\ pub' = [ev |-> ev, todo |-> Subscribers, step |-> "offer",
                      to |-> "none"]
    /\ UNCHANGED <<conn, page, got, ghostVars>>

Queued(c, ev) == [conn EXCEPT ![c].queue = Append(@, ev)]

\* enqueueWebUIEvent, first select: the event fits, or the channel is full.
Offer(c) ==
    /\ pub.step = "offer"
    /\ c \in pub.todo
    /\ IF Len(conn[c].queue) < QueueCap
       THEN /\ conn' = Queued(c, pub.ev)
            /\ pub' = [pub EXCEPT !.todo = @ \ {c}]
       ELSE /\ pub' = [pub EXCEPT !.step = "drop", !.to = c]
            /\ UNCHANGED conn
    /\ UNCHANGED <<hubVars, page, log, got, ghostVars>>

\* Mutant: a full channel drops the event it is offered.
DropNewest ==
    /\ pub.step = "drop"
    /\ lost' = [lost EXCEPT ![pub.to] = @ \cup {pub.ev}]
    /\ pub' = [pub EXCEPT !.step = "offer", !.todo = @ \ {pub.to}]
    /\ UNCHANGED <<hubVars, conn, page, log, got, missed>>

\* Second select: the oldest event is taken out, unless the handler has
\* emptied the channel in between.
DropOldest ==
    LET q == conn[pub.to].queue IN
    /\ pub.step = "drop"
    /\ IF q = <<>> THEN UNCHANGED <<conn, lost>>
       ELSE /\ conn' = [conn EXCEPT ![pub.to].queue = Tail(@)]
            /\ lost' = [lost EXCEPT ![pub.to] = @ \cup {Head(q)}]
    /\ pub' = [pub EXCEPT !.step = "retry"]
    /\ UNCHANGED <<hubVars, page, log, got, missed>>

\* Third select; as nobody else sends, there is room.
OfferAgain ==
    /\ pub.step = "retry"
    /\ IF Len(conn[pub.to].queue) < QueueCap
       THEN conn' = Queued(pub.to, pub.ev) /\ UNCHANGED lost
       ELSE /\ lost' = [lost EXCEPT ![pub.to] = @ \cup {pub.ev}]
            /\ UNCHANGED conn
    /\ pub' = [pub EXCEPT !.step = "offer", !.todo = @ \ {pub.to}]
    /\ UNCHANGED <<hubVars, page, log, got, missed>>

PublishEnd ==
    /\ pub.step = "offer"
    /\ pub.todo = {}
    /\ pub' = Idle
    /\ UNCHANGED <<hubVars, conn, page, log, got, ghostVars>>

-----------------------------------------------------------------------------
(* Connections.                                                            *)

\* Mutant: the event the client names is sent again.
EventsFrom(id) ==
    OnlyIn(history, {e \in Range(history) : e.task = id.task /\ e.seq >= id.seq})

\* eventsAfterLocked: nothing for a client that names no event.
EventsAfter(id) ==
    OnlyIn(history, {e \in Range(history) : e.task = id.task /\ e.seq > id.seq})

\* What a connection may start without: what was published before to a client
\* that names no event, what is of another task than the one it names, and
\* what has left the history.
Unavailable(id) ==
    {e \in Range(log) : e.task # id.task} \cup
    {log[i] : i \in 1 .. (Len(log) - HistoryLimit)}

\* Mutant: the replay is read before h.mu is taken, so a publish may be under
\* way that does not know the client.
SubscribeLate(c) ==
    /\ ~conn[c].open
    /\ conn[c].times < MaxConnects
    /\ conn' = [conn EXCEPT ![c] = [Closed EXCEPT !.open = TRUE,
                    !.replay = OnlyIn(EventsAfter(page[c].lastId), Range(log) \ {pub.ev}),
                    !.times = conn[c].times + 1]]
    /\ missed' = [missed EXCEPT ![c] =
                    @ \cup (Unavailable(page[c].lastId) \ Range(got[c]))]
    /\ UNCHANGED <<hubVars, pub, page, log, got, lost>>

\* subscribeAfter: the replay and the registration are one critical section.
Subscribe(c) ==
    /\ ~conn[c].open
    /\ pub.step = "idle"
    /\ conn[c].times < MaxConnects
    /\ conn' = [conn EXCEPT ![c] = [Closed EXCEPT !.open = TRUE,
                    !.replay = EventsAfter(page[c].lastId),
                    !.times = conn[c].times + 1]]
    /\ missed' = [missed EXCEPT ![c] =
                    @ \cup (Unavailable(page[c].lastId) \ Range(got[c]))]
    /\ UNCHANGED <<hubVars, pub, page, log, got, lost>>

\* The handler takes the next event: the replay first, then the channel.
Take(c) ==
    /\ conn[c].open
    /\ conn[c].frame = NoEvent
    /\ \/ /\ conn[c].replay # <<>>
          /\ conn' = [conn EXCEPT ![c].frame = Head(conn[c].replay),
                                  ![c].replay = Tail(@)]
       \/ /\ conn[c].replay = <<>>
          /\ conn[c].queue # <<>>
          /\ conn' = [conn EXCEPT ![c].frame = Head(conn[c].queue),
                                  ![c].queue = Tail(@)]
    /\ UNCHANGED <<hubVars, pub, page, log, got, ghostVars>>

\* The connection breaks or the page closes it: the handler unsubscribes.
Break(c) ==
    /\ conn[c].open
    /\ pub.step = "idle"
    /\ conn' = [conn EXCEPT ![c] = [Closed EXCEPT !.times = conn[c].times]]
    /\ UNCHANGED <<hubVars, pub, page, log, got, ghostVars>>

-----------------------------------------------------------------------------
(* The page.                                                               *)

\* The user starts a task in the page, under an id of its own.
PageStarts(c, t) ==
    /\ eventSeq[t] = 0
    /\ \A d \in Clients : page[d].task # t
    /\ page' = [page EXCEPT ![c].task = t, ![c].first = 0, ![c].lastSeq = 0,
                            ![c].knowsEnd = FALSE, ![c].reconciled = FALSE]
    /\ UNCHANGED <<hubVars, pub, conn, log, got, ghostVars>>

\* Mutant: a jump of one number is taken for a reordering.
DecisionLax(p, ev) ==
    IF p.task # NoTask /\ ev.task # p.task THEN "foreign"
    ELSE IF p.lastSeq = 0 THEN "accept"
    ELSE IF ev.seq <= p.lastSeq THEN "duplicate"
    ELSE IF ev.seq > p.lastSeq + 2 THEN "gap"
    ELSE "accept"

\* classifyProbeEventSequence
Decision(p, ev) ==
    IF p.task # NoTask /\ ev.task # p.task THEN "foreign"
    ELSE IF p.lastSeq = 0 THEN "accept"
    ELSE IF ev.seq <= p.lastSeq THEN "duplicate"
    ELSE IF ev.seq > p.lastSeq + 1 THEN "gap"
    ELSE "accept"

\* The frame arrives: the browser notes its id, and applyProbeEvent takes it,
\* ignores it, or takes it and reads the task's snapshot again.
Deliver(c) ==
    LET ev == conn[c].frame
        p == page[c]
        d == Decision(p, ev)
        takes == d \in {"accept", "gap"}
    IN  /\ conn[c].open
        /\ ev # NoEvent
        /\ conn' = [conn EXCEPT ![c].frame = NoEvent]
        /\ got' = [got EXCEPT ![c] = Append(@, ev)]
        /\ page' = [page EXCEPT ![c] =
             [task |-> IF takes THEN ev.task ELSE p.task,
              first |-> IF takes /\ p.lastSeq = 0 THEN ev.seq ELSE p.first,
              lastSeq |-> IF takes THEN ev.seq ELSE p.lastSeq,
              lastId |-> ev,
              knowsEnd |-> p.knowsEnd \/ (takes /\ ev.kind = "end"),
              reconciled |-> p.reconciled \/ d = "gap"]]
        /\ UNCHANGED <<hubVars, pub, log, ghostVars>>

Next ==
    \/ \E t \in Tasks, kind \in Kinds : PublishBegin(t, kind)
    \/ \E c \in Clients : Offer(c)
    \/ DropOldest
    \/ OfferAgain
    \/ PublishEnd
    \/ \E c \in Clients :
         Subscribe(c) \/ Take(c) \/ Break(c) \/ Deliver(c)
    \/ \E c \in Clients, t \in Tasks : PageStarts(c, t)

Spec == Init /\ [][Next]_vars

-----------------------------------------------------------------------------
(* Properties.                                                             *)

\* A page receives the events of a task in the order of their numbers and none
\* twice, over all its connections and however the publisher, the handler and
\* the reconnections interleave.
InOrder ==
    \A c \in Clients : \A i, j \in DOMAIN got[c] :
      i < j /\ got[c][i].task = got[c][j].task => got[c][i].seq < got[c][j].seq

InConnection(c) ==
    Range(conn[c].replay) \cup Range(conn[c].queue) \cup {conn[c].frame} \cup
    (IF c \in pub.todo THEN {pub.ev} ELSE {})

\* An event a connected client has not received is on its way to it, or was
\* dropped by its full queue, or was out of reach when it connected: nothing
\* falls between the replay and the registration.
NothingVanishes ==
    \A c \in Clients : conn[c].open =>
      Range(log) \subseteq
        Range(got[c]) \cup InConnection(c) \cup lost[c] \cup missed[c]

\* A full queue gives up old events only: whatever is dropped, a later event
\* was published that is not, so a slow client never loses the newest event.
NewestKept ==
    \A c \in Clients : \A e \in lost[c] :
      \E i, j \in DOMAIN log : i < j /\ log[i] = e /\ log[j] \notin lost[c]

\* Up to the last number a page has seen of its task it has every event since
\* the first one, or it has read the snapshot again: no gap goes unnoticed.
GapsNoticed ==
    \A c \in Clients :
      LET p == page[c] IN
      p.lastSeq > 0 /\ ~p.reconciled =>
        \A e \in Range(log) :
          e.task = p.task /\ e.seq \in p.first .. p.lastSeq
            => e \in Range(got[c])

AtRest(c) ==
    /\ pub.step = "idle"
    /\ conn[c].open
    /\ InConnection(c) = {NoEvent}

\* What the contract says of a reconnection the replay does not suffice for:
\* the page reads the task's snapshot again.  So a connected page at rest knows
\* that its task has ended, or has reconciled.  Not what the code does when the
\* end itself is what was lost: nothing follows that would show the gap.
LostEndReconciled ==
    \A c \in Clients :
      AtRest(c) /\ page[c].lastSeq > 0 /\ page[c].task \in ended
        => page[c].knowsEnd \/ page[c].reconciled

\* The invariants above together.
Safety ==
    /\ TypeOK /\ InOrder /\ NothingVanishes /\ NewestKept /\ GapsNoticed
=============================================================================
