------------------------------ MODULE Notifier ------------------------------
(***************************************************************************)
(* How a notification reaches its recipients: Telegram chats, webhooks     *)
(* (plain addresses, WeCom robots, a DingTalk robot, members of a WeCom    *)
(* application found by their mobile number) and one mail.                 *)
(*                                                                         *)
(* A notification is sent channel by channel, a channel calls one          *)
(* recipient after the other, and nothing is sent again.  A call that is   *)
(* heard out (answered) succeeds or is refused; a call may also hang until *)
(* the deadline, 20 seconds for all the calls of a channel.  The service   *)
(* of a robot or an application refuses with status 200 and an error code  *)
(* in the body.                                                            *)
(*                                                                         *)
(* Texts have a length only; MaxLength stands for the 4096 units that      *)
(* Telegram takes, and the length of a Top N list counts its entries.      *)
(***************************************************************************)
EXTENDS Naturals, Sequences, FiniteSets, SequencesExt

CONSTANTS
    Confs,      \* configurations, see ConfsAssumption
    Messages,   \* what is to be sent: [kind, failure, top, size]
    MaxLength,
    None,
    MaxFaults   \* bound: calls that are refused, hang or whose answer is lost

\* Of Telegram: a group's chat, a personal chat, the modes of the summary and
\* of the Top N list.  Of the webhooks: the addresses in order; app says that
\* the application of the mobile numbers is complete; secret that DingTalk's
\* messages are signed.  The address "bad" is none.
ConfsAssumption ==
    \A c \in Confs :
        /\ {c.tg.on, c.tg.token, c.tg.includeTop, c.hook.on, c.hook.app,
            c.hook.secret, c.mail.on, c.mail.complete} \subseteq BOOLEAN
        /\ {c.tg.mode, c.tg.topMode} \subseteq {"chat", "personal", "both"}
MessagesAssumption ==
    /\ MaxLength \in Nat \ {0} /\ MaxFaults \in Nat
    /\ \A m \in Messages :
         /\ m.kind \in {"upload", "failure", "test"} /\ m.failure \in BOOLEAN
         /\ m.size \in Nat \ {0} /\ m.top \in Nat

VARIABLES
    conf, msg,
    stages,     \* the channels still to be used, the first one at work
    queue,      \* the calls the channel at work still makes, None before it
    late,       \* the channels whose deadline is over
    dead,       \* whether the context of the notification is over
    warnings,   \* the channels that reported a failure
    faults,
    due,        \* history: the calls to be made
    tried,      \* history: the recipients called, with what
    got         \* history: the deliveries, in order

vars == <<conf, msg, stages, queue, late, dead, warnings, faults, due,
          tried, got>>
history == <<due, tried, got>>

-----------------------------------------------------------------------------
(* Recipients and texts.                                                   *)

\* Mutant: a recipient named twice stays so.
UniqueNot(s) ==
    FoldSeq(LAMBDA x, acc : IF x = None THEN acc
                            ELSE Append(acc, x), <<>>, s)

\* dedupeTelegramChatIDs and uniqueNonEmptyStrings: each one once, no blanks.
Unique(s) ==
    FoldSeq(LAMBDA x, acc : IF x = None \/ Contains(acc, x) THEN acc
                            ELSE Append(acc, x), <<>>, s)

\* telegramNotificationChatIDsForMode.
ChatIDs(tg, mode) ==
    Unique(CASE mode = "personal" -> <<tg.personal>>
             [] mode = "both" -> <<tg.chat, tg.personal>>
             [] mode = "chat" -> <<tg.chat>>)

\* splitTelegramMessage: how many messages a text of that length makes.
Chunks(length) == (length + MaxLength - 1) \div MaxLength

\* truncateTelegramMessage.
Truncated(length) == IF length > MaxLength THEN MaxLength ELSE length

\* telegramNotificationTestReceipts: one message to a chat, for all that it
\* is to get.
TestReceipts(tg) ==
    LET up  == ChatIDs(tg, tg.mode)
        top == IF tg.includeTop THEN ChatIDs(tg, tg.topMode) ELSE <<>>
    IN  IF up = <<>> \/ (tg.includeTop /\ top = <<>>) THEN <<>>
        ELSE Unique(up \o top)

-----------------------------------------------------------------------------
(* The calls of a channel.                                                 *)

\* way: the service called.  part: the number of the message of a text.
Call(way, to, what, part) ==
    [way |-> way, to |-> to, what |-> what, part |-> part]

TelegramCalls(chats, what, length) ==
    FlattenSeq([i \in DOMAIN chats |->
                  [k \in 1 .. Chunks(length) |->
                     Call("telegram", chats[i], what, k)]])

WebhookCalls(hook, what) ==
    (IF hook.app /\ hook.mobiles # <<>>
     THEN <<Call("token", "wecom", what, 1)>> \o
          [i \in DOMAIN hook.mobiles |-> Call("app", hook.mobiles[i], what, 1)]
     ELSE <<>>)
    \o [i \in DOMAIN Unique(hook.urls) |->
          Call("plain", Unique(hook.urls)[i], what, 1)]
    \o [i \in DOMAIN Unique(hook.robots) |->
          Call("robot", Unique(hook.robots)[i], what, 1)]
    \o (IF hook.ding = None THEN <<>>
        ELSE <<Call("robot", hook.ding, what, 1)>>)

\* A stage: whether the channel is used at all, whether it can be, and its
\* calls.
Stage(on, usable, calls) ==
    [on |-> on, usable |-> usable, calls |-> calls]

TelegramStage(on, chats, what, length) ==
    Stage(on, conf.tg.token /\ chats # <<>>,
          TelegramCalls(chats, what, length))

\* sendWebhookPayload.  An address of DingTalk that cannot be signed ends the
\* channel after the application was served.
WebhookStage(what) ==
    Stage(conf.hook.on, TRUE,
          IF conf.hook.ding = "bad" /\ conf.hook.secret
          THEN SelectSeq(WebhookCalls(conf.hook, what),
                         LAMBDA c : c.way \in {"token", "app"})
               \o <<Call("unsigned", "bad", what, 1)>>
          ELSE WebhookCalls(conf.hook, what))

MailStage(what) ==
    Stage(conf.mail.on, conf.mail.complete,
          <<Call("mail", "mail", what, 1)>>)

\* sendUploadNotification, recordTaskFailureNotification, invokeTelegramTest:
\* the channels in their order, and each as a stage.
FailureChannels == <<"telegram_failure", "webhook_failure", "mail_failure">>
Channels(m) ==
    CASE m.kind = "upload" -> <<"telegram", "top", "webhook", "mail">>
                              \o (IF m.failure THEN FailureChannels ELSE <<>>)
      [] m.kind = "failure" -> FailureChannels
      [] m.kind = "test" -> <<"test">>

\* Mutant: the list goes where the conclusions go.
StageOfOneMode(name) ==
    LET tg == conf.tg IN
    CASE name = "telegram" ->
           TelegramStage(tg.on, ChatIDs(tg, tg.mode), "summary", msg.size)
      [] name = "top" ->
           TelegramStage(tg.on /\ tg.includeTop /\ msg.top > 0,
                         ChatIDs(tg, tg.mode), "top", Truncated(msg.top))
      [] name = "telegram_failure" ->
           TelegramStage(tg.on, ChatIDs(tg, tg.mode), "failure",
                         Truncated(msg.size))
      [] name = "test" -> TelegramStage(TRUE, TestReceipts(tg), "test", 1)
      [] name = "webhook" -> WebhookStage("summary")
      [] name = "webhook_failure" -> WebhookStage("failure")
      [] name = "mail" -> MailStage("summary")
      [] name = "mail_failure" -> MailStage("failure")

StageOf(name) ==
    LET tg == conf.tg IN
    CASE name = "telegram" ->
           TelegramStage(tg.on, ChatIDs(tg, tg.mode), "summary", msg.size)
      [] name = "top" ->
           TelegramStage(tg.on /\ tg.includeTop /\ msg.top > 0,
                         ChatIDs(tg, tg.topMode), "top", Truncated(msg.top))
      [] name = "telegram_failure" ->
           TelegramStage(tg.on, ChatIDs(tg, tg.mode), "failure",
                         Truncated(msg.size))
      [] name = "test" -> TelegramStage(TRUE, TestReceipts(tg), "test", 1)
      [] name = "webhook" -> WebhookStage("summary")
      [] name = "webhook_failure" -> WebhookStage("failure")
      [] name = "mail" -> MailStage("summary")
      [] name = "mail_failure" -> MailStage("failure")

-----------------------------------------------------------------------------
Over == stages = <<>>

\* The summary and the list of Telegram share their deadline.
Expired == LET name == Head(stages)
           IN  name \in late \/ (name = "top" /\ "telegram" \in late)

Fault == faults < MaxFaults /\ faults' = faults + 1

\* The next channel.  A cancelled context keeps the messages of a failure
\* from being sent.
Open ==
    /\ ~Over /\ queue = None
    /\ LET name == Head(stages)
           s == StageOf(name)
       IN  IF dead /\ msg.kind = "upload" /\ name = "telegram_failure"
           THEN /\ stages' = <<>>
                /\ UNCHANGED <<queue, warnings>>
           ELSE IF s.on /\ s.usable
           THEN /\ queue' = s.calls
                /\ UNCHANGED <<stages, warnings>>
           ELSE /\ stages' = Tail(stages)
                /\ warnings' = IF s.on THEN warnings \cup {name} ELSE warnings
                /\ UNCHANGED queue
    /\ UNCHANGED <<conf, msg, late, dead, faults, history>>

Close ==
    /\ queue = <<>>
    /\ queue' = None
    /\ stages' = Tail(stages)
    /\ UNCHANGED <<conf, msg, late, dead, warnings, faults, history>>

\* Mutant: the later messages of a text are sent all the same.
AfterFailureGoesOn(c, q) ==
    CASE c.way \in {"token", "app", "unsigned"} -> <<>>
      [] c.way = "telegram" -> q
      [] OTHER -> q

\* Mutant: the first failure ends the channel.
AfterFailureNothing(c, q) == <<>>

\* Mutant: what failed is tried again.
AfterFailureAgain(c, q) ==
    IF c.way \in {"token", "app", "unsigned"} THEN <<>> ELSE <<c>> \o q

\* What is left of the queue when a call failed: a chat gets no later message
\* of the text, and the application or a missing signature ends the channel.
AfterFailure(c, q) ==
    CASE c.way \in {"token", "app", "unsigned"} -> <<>>
      [] c.way = "telegram" -> SelectSeq(q, LAMBDA d : d.to # c.to)
      [] OTHER -> q

Failed(c) ==
    /\ queue' = AfterFailure(c, Tail(queue))
    /\ warnings' = warnings \cup {Head(stages)}
Heard(c) == queue' = Tail(queue) /\ UNCHANGED warnings

Calls(ways) == queue # None /\ queue # <<>> /\ Head(queue).way \in ways
HTTP == {"token", "app", "plain", "robot", "telegram"}

\* Mutant: the token counts as a delivery.
DeliveredToken(c) == got' = Append(got, c)
Delivered(c) == got' = IF c.way = "token" THEN got ELSE Append(got, c)
Try(c) == tried' = tried \cup {c} /\ UNCHANGED <<conf, msg, stages, dead, due>>

\* No call is made to an address that is none, or after the deadline.
NoCall ==
    /\ Calls(HTTP \cup {"unsigned"})
    /\ LET c == Head(queue)
       IN  /\ c.to = "bad" \/ Expired \/ dead
           /\ Failed(c)
    /\ UNCHANGED <<conf, msg, stages, late, dead, faults, history>>

Ready == Calls(HTTP) /\ ~Expired /\ ~dead /\ Head(queue).to # "bad"

Answered ==
    /\ Ready
    /\ Heard(Head(queue)) /\ Delivered(Head(queue)) /\ Try(Head(queue))
    /\ UNCHANGED <<late, faults>>

\* Refused with a status, or the answer is lost after the delivery.
Refused ==
    /\ Ready /\ Fault
    /\ Failed(Head(queue)) /\ Try(Head(queue))
    /\ Delivered(Head(queue)) \/ UNCHANGED got
    /\ UNCHANGED late

\* Mutant: no body is looked at.
RefusedInBodyUnseen ==
    /\ Ready /\ Fault
    /\ LET c == Head(queue)
       IN  /\ c.way \in {"token", "robot", "app"}
           /\ Heard(c)
           /\ Try(c)
    /\ UNCHANGED <<late, got>>

\* Refused in the body.  The token and the robots are looked at, the answer
\* to a message of the application is not.
RefusedInBody ==
    /\ Ready /\ Fault
    /\ LET c == Head(queue)
       IN  /\ c.way \in {"token", "robot", "app"}
           /\ IF c.way = "app" THEN Heard(c) ELSE Failed(c)
           /\ Try(c)
    /\ UNCHANGED <<late, got>>

\* A call that is not answered before the deadline.
Hangs ==
    /\ Ready /\ Fault
    /\ late' = late \cup {Head(stages)}
    /\ Failed(Head(queue)) /\ Try(Head(queue))
    /\ Delivered(Head(queue)) \/ UNCHANGED got

\* The mail knows neither the context nor a deadline.
Mail ==
    /\ Calls({"mail"})
    /\ LET c == Head(queue)
       IN  /\ \/ Heard(c) /\ Delivered(c) /\ UNCHANGED faults
              \/ Fault /\ Failed(c) /\ (Delivered(c) \/ UNCHANGED got)
           /\ Try(c)
    /\ UNCHANGED late

\* The probe is cancelled, or the program ends; the messages of a failed
\* probe and a test have a context of their own.
Cancel ==
    /\ ~Over /\ ~dead /\ msg.kind = "upload"
    /\ dead' = TRUE
    /\ UNCHANGED <<conf, msg, stages, queue, late, warnings, faults,
                   history>>

Init ==
    /\ conf \in Confs /\ msg \in Messages
    /\ stages = Channels(msg)
    /\ due = UNION {ToSet(StageOf(n).calls) :
                 n \in {k \in ToSet(Channels(msg)) :
                          StageOf(k).on /\ StageOf(k).usable}}
    /\ queue = None
    /\ late = {} /\ dead = FALSE
    /\ warnings = {} /\ faults = 0 /\ tried = {} /\ got = <<>>

\* A step that does not wait for a mail server.
Step == \/ Open \/ Close \/ NoCall
        \/ Answered \/ Refused \/ RefusedInBody \/ Hangs

Next == Step \/ Mail \/ Cancel

Spec == Init /\ [][Next]_vars

\* Every call but that of the mail ends, with its answer or at its deadline.
FairSpec == Spec /\ WF_vars(Step)

-----------------------------------------------------------------------------
(* Properties.                                                             *)

Deliveries == ToSet(got)

\* What is recorded is in range: the deliveries are calls of the message.
TypeOK ==
    /\ conf \in Confs /\ msg \in Messages /\ faults \in 0 .. MaxFaults
    /\ dead \in BOOLEAN
    /\ tried \subseteq due
    /\ Deliveries \subseteq {c \in tried : c.way # "token"}

\* No recipient gets a message twice (dedupeTelegramChatIDs,
\* uniqueNonEmptyStrings; nothing is sent again).
NobodyTwice == \A i, k \in DOMAIN got : got[i] = got[k] => i = k

\* A chat reads the messages of a text in their order, from the first on
\* (sendTelegramMessageToChat).
InOrder ==
    \A k \in DOMAIN got : \A p \in 1 .. got[k].part - 1 :
        \E i \in 1 .. k - 1 : got[i] = [got[k] EXCEPT !.part = p]

\* The list goes to the chats chosen for it and the conclusions to those
\* chosen for them, whatever fails (TelegramNotificationTopNChatIDs).
OnlyItsRecipients ==
    \A c \in Deliveries : c.way = "telegram" =>
        LET wants(mode) ==
              \/ mode # "personal" /\ c.to = conf.tg.chat
              \/ mode # "chat" /\ c.to = conf.tg.personal
        IN  CASE c.what = "top" -> wants(conf.tg.topMode)
              [] c.what \in {"summary", "failure"} -> wants(conf.tg.mode)
              [] OTHER -> wants(conf.tg.mode) \/ wants(conf.tg.topMode)

Channel(c) == CASE c.what \in {"top", "test"} -> c.what
                [] c.way = "telegram" /\ c.what = "summary" -> "telegram"
                [] c.way = "telegram" /\ c.what = "failure" -> "telegram_failure"
                [] c.way = "mail" -> "mail"
                [] OTHER -> IF c.what = "summary" THEN "webhook"
                                                  ELSE "webhook_failure"

\* The failure of one recipient keeps no other from being called: at the end
\* all addresses were, but for the later messages of a text, what comes after
\* the application or an unsigned address that failed, and what comes after a
\* deadline.
FailureStaysAlone ==
    Over /\ ~dead =>
        \A c \in due \ tried :
            \/ c.to = "bad" \/ c.part > 1
            \/ Channel(c) \in late \/ (c.what = "top" /\ "telegram" \in late)
            \/ /\ Channel(c) \in warnings
               /\ conf.hook.app \/ conf.hook.ding = "bad"
               /\ Channel(c) \in {"webhook", "webhook_failure"}

\* When no channel warns, everybody got everything; the application is the
\* exception (sendUploadNotification collects the errors of the channels).
SilenceIsSuccess ==
    Over /\ warnings = {} /\ ~dead =>
        \A c \in due : c.way \in {"token", "app"} \/ c \in Deliveries

\* What the documents say and the code does not do.  Channels do not stand
\* in each other's way: after a failure the others are still called.
ChannelsAreIndependent ==
    Over /\ ~dead => \A c \in due \ tried : c.way \notin {"plain", "robot"}

\* A channel that fails leaves a warning.
EveryFailureWarns ==
    Over /\ ~dead /\ warnings = {} =>
        \A c \in due : c.way = "token" \/ c \in Deliveries

\* Texts are split, so a list arrives whole.
ListIsWhole ==
    \A c \in Deliveries : c.what = "top" =>
        \A p \in 1 .. Chunks(msg.top) : [c EXCEPT !.part = p] \in due

\* The sending of a notification ends.
Ends == <>Over

\* The invariants above together.
Safety ==
    /\ TypeOK /\ NobodyTwice /\ InOrder /\ OnlyItsRecipients
    /\ FailureStaysAlone /\ SilenceIsSuccess
=============================================================================
