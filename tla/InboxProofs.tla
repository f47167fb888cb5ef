----------------------------- MODULE InboxProofs -----------------------------
(***************************************************************************)
(* Theorems about Inbox, for every set of handlers, requests, messages and *)
(* users, and every bound.                                                 *)
(***************************************************************************)
EXTENDS Inbox, FiniteSetTheorems, TLAPS

\* The steps at which an event has no conversation yet.
Early == {"idle", "customer", "newCustomer", "conversation", "newConversation"}

\* What the locals of a running handler satisfy beyond their types.
HandlerInv ==
  \A h \in Handlers :
    /\ hs[h].pc # "idle" => hs[h].batch # <<>>
    /\ hs[h].pc \notin Early => hs[h].conv \in ConvIds
    /\ hs[h].pc = "move" => hs[h].from \in ConvIds

\* What a request that passed its checks remembers.
RequestInv ==
  \A r \in Requests :
    rs[r].pc # "idle" =>
      /\ rs[r].op \in Ops /\ rs[r].user \in Users
      /\ rs[r].op = "create" => rs[r].pc = "write" /\ rs[r].arg \in Senders
      /\ rs[r].op # "create" => rs[r].conv \in ConvIds
      /\ rs[r].op \in {"assign", "handoff"} => rs[r].arg \in Users
      /\ rs[r].op = "status" => rs[r].arg \in Status

Inv == TypeOK /\ HandlerInv /\ RequestInv

Rows == Conversation \union {Absent}

\* The row of a deleted conversation is told apart from every real one.
LEMMA AbsentIsNoConversation == Absent \notin Conversation
BY DEF Absent, Conversation, Status

\* UPDATE keeps the table of conversations well formed.
LEMMA UpdateType ==
  ASSUME convs \in [ConvIds -> Rows], NEW c \in ConvIds, NEW row,
         Exists(c) => row \in Conversation, UpdateConversation(c, row)
  PROVE  convs' \in [ConvIds -> Rows]
BY DEF UpdateConversation, Rows

\* INSERT keeps the table and the next id well formed.
LEMMA InsertType ==
  ASSUME StoreTypeOK, NEW k \in Senders, InsertConversation(k)
  PROVE  convs' \in [ConvIds -> Rows] /\ nextConv' \in 1..(MaxConvs + 1)
<1>1. NewConversation(k) \in Conversation
  BY StoreAssumption DEF NewConversation, Conversation, Status, Users
<1>2. QED
  BY <1>1, StoreAssumption DEF InsertConversation, StoreTypeOK, Rows, ConvIds
-----------------------------------------------------------------------------
\* The locals a handler starts an event with, or ends the request with.
LEMMA FreshType ==
  ASSUME NEW step \in Steps, NEW b \in Seq(Mids)
  PROVE  Fresh(step, b) \in Handler
<1>1. <<>> \in Seq(Replies) /\ 0 \in 0..MaxConvs
  BY StoreAssumption
<1>2. QED
  BY <1>1 DEF Fresh, Handler, Users

\* Going on to the next event of the batch, or answering 200 after the last.
LEMMA ContinueInv ==
  ASSUME HandlerInv, hs \in [Handlers -> Handler], NEW h \in Handlers,
         NEW b \in Seq(Mids), Continue(h, b)
  PROVE  hs' \in [Handlers -> Handler] /\ HandlerInv'
<1>1. Idle \in Handler /\ Fresh("customer", b) \in Handler
  <2>1. <<>> \in Seq(Mids) /\ "idle" \in Steps /\ "customer" \in Steps
    BY DEF Steps
  <2>2. QED
    BY <2>1, FreshType DEF Idle
<1>2. hs' \in [Handlers -> Handler]
  BY <1>1 DEF Continue
<1>3. HandlerInv'
  BY DEF Continue, HandlerInv, Idle, Fresh, Early
<1>4. QED
  BY <1>2, <1>3

\* The error exits and the end of an event only shorten the batch.
LEMMA NextEventInv ==
  ASSUME HandlerInv, hs \in [Handlers -> Handler], NEW h \in Handlers,
         ~At(h, "idle"), NextEvent(h) \/ Throw(h)
  PROVE  hs' \in [Handlers -> Handler] /\ HandlerInv'
<1>1. hs[h].batch \in Seq(Mids) /\ hs[h].batch # <<>>
  BY DEF Handler, HandlerInv, At
<1>2. Tail(hs[h].batch) \in Seq(Mids) /\ <<>> \in Seq(Mids)
  BY <1>1
<1>3. \E b \in Seq(Mids) : Continue(h, b)
  BY <1>2 DEF NextEvent, Throw
<1>4. QED
  BY <1>3, ContinueInv

\* A running handler has an event in hand.
LEMMA EventType ==
  ASSUME HandlerInv, hs \in [Handlers -> Handler], NEW h \in Handlers,
         ~At(h, "idle")
  PROVE  Event(h) \in Mids
BY DEF HandlerInv, At, Event, Handler

\* A handler that goes on with the same locals.
LEMMA GotoInv ==
  ASSUME HandlerInv, hs \in [Handlers -> Handler], NEW h \in Handlers,
         ~At(h, "idle"), NEW step \in Steps \ {"idle", "move"}, Goto(h, step),
         step \in Early \/ hs[h].conv \in ConvIds
  PROVE  hs' \in [Handlers -> Handler] /\ HandlerInv'
<1>1. hs' \in [Handlers -> Handler]
  BY DEF Goto, Handler
<1>2. HandlerInv'
  BY DEF Goto, HandlerInv, At, Handler
<1>3. QED
  BY <1>1, <1>2

\* The conversation findFirst returns is a row of the same customer.
LEMMA JoinableType ==
  ASSUME NEW k, NEW c \in Joinable(k), convs \in [ConvIds -> Rows]
  PROVE  c \in ConvIds /\ convs[c] \in Conversation /\ convs[c].customer = k
BY DEF Joinable, Exists, Rows

\* What a step of a handler has to keep.
Kept == StoreTypeOK /\ InboundTypeOK /\ HandlerInv

\* Finding or creating the customer.
LEMMA FindingKept ==
  ASSUME Kept, faults' = faults, NEW h \in Handlers,
         FindCustomer(h) \/ CreateCustomer(h)
  PROVE  Kept'
<1>1. ~At(h, "idle") /\ hs \in [Handlers -> Handler] /\ HandlerInv
  BY DEF FindCustomer, CreateCustomer, At, Kept, InboundTypeOK
<1>2. SenderOf[Event(h)] \in Senders
  BY <1>1, EventType, StoreAssumption
<1>3. hs' \in [Handlers -> Handler] /\ HandlerInv'
  <2>1. CASE Goto(h, "conversation") \/ Goto(h, "newCustomer")
    BY <1>1, <2>1, GotoInv DEF Steps, Early
  <2>2. CASE Throw(h)
    BY <1>1, <2>2, NextEventInv
  <2>3. QED
    BY <2>1, <2>2 DEF FindCustomer, CreateCustomer
<1>4. UNCHANGED others
  BY DEF FindCustomer, CreateCustomer
<1>5. InboundTypeOK'
  BY <1>3, <1>4 DEF Kept, InboundTypeOK, others
<1>6. StoreTypeOK'
  BY <1>2 DEF Kept, StoreTypeOK, FindCustomer, CreateCustomer, storeVars, butCustomers
<1>7. QED
  BY <1>3, <1>5, <1>6 DEF Kept

\* The other statements of a handler have a conversation to work on.
LEMMA RunningType ==
  ASSUME Kept, NEW h \in Handlers, hs[h].pc \notin Early
  PROVE  /\ ~At(h, "idle")
         /\ hs \in [Handlers -> Handler]
         /\ HandlerInv
         /\ hs[h] \in Handler
         /\ hs[h].conv \in ConvIds
         /\ convs[hs[h].conv] \in Rows
         /\ Event(h) \in Mids
         /\ SenderOf[Event(h)] \in Senders
<1>1. ~At(h, "idle") /\ hs \in [Handlers -> Handler] /\ HandlerInv
  BY DEF Kept, Early, At, InboundTypeOK
<1>2. Event(h) \in Mids
  BY <1>1, EventType
<1>3. hs[h].conv \in ConvIds
  BY DEF Kept, HandlerInv
<1>4. QED
  BY <1>1, <1>2, <1>3, StoreAssumption DEF Kept, StoreTypeOK, Rows

\* Finding or creating the conversation.
LEMMA ConversationKept ==
  ASSUME Kept, faults' = faults, NEW h \in Handlers,
         FindConversation(h) \/ CreateConversation(h)
  PROVE  Kept'
<1>1. ~At(h, "idle") /\ hs \in [Handlers -> Handler] /\ HandlerInv
  BY DEF FindConversation, CreateConversation, At, Kept, InboundTypeOK
<1>2. SenderOf[Event(h)] \in Senders
  BY <1>1, EventType, StoreAssumption
<1>3. CASE FindConversation(h)
  <2>1. hs' \in [Handlers -> Handler] /\ HandlerInv'
    <3>1. CASE Goto(h, "newConversation")
      BY <1>1, <3>1, GotoInv DEF Steps, Early
    <3>2. ASSUME NEW c \in Joinable(SenderOf[Event(h)]), Snapshot(h, c)
          PROVE  hs' \in [Handlers -> Handler] /\ HandlerInv'
      <4>1. c \in ConvIds /\ convs[c] \in Conversation
        BY JoinableType DEF Kept, StoreTypeOK, Rows
      <4>2. c \in 0..MaxConvs
        BY <4>1, StoreAssumption DEF ConvIds
      <4>3. hs' \in [Handlers -> Handler]
        <5>1. /\ "store" \in Steps
              /\ Awaits(c) \in BOOLEAN
              /\ convs[c].routingQuestionSent \in BOOLEAN
              /\ convs[c].resolvedBy \in Users \union {Nobody}
          BY <4>1 DEF Steps, Conversation, Awaits
        <5>2. QED
          BY <1>1, <4>2, <5>1, <3>2 DEF Snapshot, Handler
      <4>4. HandlerInv'
        BY <1>1, <4>1, <3>2 DEF Snapshot, HandlerInv, Handler, At, Early
      <4>5. QED
        BY <4>3, <4>4
    <3>3. QED
      BY <1>3, <3>1, <3>2 DEF FindConversation
  <2>2. QED
    BY <1>3, <2>1 DEF FindConversation, Kept, StoreTypeOK, InboundTypeOK, storeVars, others
<1>4. CASE CreateConversation(h)
  <2>1. convs' \in [ConvIds -> Rows] /\ nextConv' \in 1..(MaxConvs + 1)
    BY <1>2, <1>4, InsertType DEF CreateConversation, Kept
  <2>2. nextConv \in ConvIds /\ nextConv \in 0..MaxConvs
    BY <1>4, StoreAssumption DEF CreateConversation, InsertConversation, ConvIds
  <2>3. hs' \in [Handlers -> Handler]
    <3>1. "store" \in Steps
      BY DEF Steps
    <3>2. QED
      BY <1>1, <1>4, <2>2, <3>1 DEF CreateConversation, Handler
  <2>4. HandlerInv'
    BY <1>1, <1>4, <2>2 DEF CreateConversation, HandlerInv, Handler, At, Early
  <2>5. QED
    BY <1>4, <2>1, <2>3, <2>4
      DEF CreateConversation, Kept, StoreTypeOK, InboundTypeOK, Rows, butNewConv, others
<1>5. QED
  BY <1>3, <1>4

\* Storing the message and counting it as unread.
LEMMA StoringKept ==
  ASSUME Kept, faults' = faults, NEW h \in Handlers,
         StoreMessage(h) \/ BumpUnread(h)
  PROVE  Kept'
<1>1. hs[h].pc \notin Early
  BY DEF StoreMessage, BumpUnread, At, Early
<1>2. hs' \in [Handlers -> Handler] /\ HandlerInv'
  <2>1. CASE Throw(h) \/ NextEvent(h)
    BY <1>1, <2>1, RunningType, NextEventInv
  <2>2. CASE Goto(h, "bump") \/ Goto(h, "rating") \/ Goto(h, "settings")
    BY <1>1, <2>2, RunningType, GotoInv DEF Steps
  <2>3. QED
    BY <2>1, <2>2 DEF StoreMessage, BumpUnread
<1>3. CASE StoreMessage(h)
  <2>1. inbox' \in {inbox, inbox \union {<<Event(h), hs[h].conv>>}}
    BY <1>3 DEF StoreMessage
  <2>2. <<Event(h), hs[h].conv>> \in Mids \X ConvIds
    BY <1>1, RunningType
  <2>3. inbox' \subseteq Mids \X ConvIds
    BY <2>1, <2>2 DEF Kept, StoreTypeOK
  <2>4. QED
    BY <1>2, <1>3, <2>3
      DEF StoreMessage, Kept, StoreTypeOK, InboundTypeOK, butInbox, others
<1>4. CASE BumpUnread(h)
  <2>1. Exists(hs[h].conv) =>
          [convs[hs[h].conv] EXCEPT !.unreadCount = @ + 1] \in Conversation
    BY <1>1, RunningType DEF Exists, Rows, Conversation
  <2>2. convs' \in [ConvIds -> Rows]
    BY <1>1, <1>4, <2>1, RunningType, UpdateType DEF BumpUnread, Kept, StoreTypeOK, Rows
  <2>3. QED
    BY <1>2, <1>4, <2>2
      DEF BumpUnread, Kept, StoreTypeOK, InboundTypeOK, Rows, butConvs, butNewConv, others
<1>5. QED
  BY <1>3, <1>4

\* A statement that updates one conversation row and nothing else.
LEMMA UpdateKept ==
  ASSUME StoreTypeOK, faults' = faults, NEW c \in ConvIds, NEW row,
         Exists(c) => row \in Conversation, UpdateConversation(c, row),
         UNCHANGED butConvs
  PROVE  StoreTypeOK'
<1>1. convs' \in [ConvIds -> Rows]
  BY UpdateType DEF StoreTypeOK, Rows
<1>2. QED
  BY <1>1 DEF StoreTypeOK, Rows, butConvs, butNewConv

\* The two outcomes of processRatingReply.
LEMMA RatingKept ==
  ASSUME Kept, faults' = faults, NEW h \in Handlers,
         AcceptRating(h) \/ RefuseRating(h)
  PROVE  Kept'
<1>1. hs[h].pc \notin Early
  BY DEF AcceptRating, RefuseRating, At, Early
<1>2. hs' \in [Handlers -> Handler] /\ HandlerInv'
  <2>1. CASE NextEvent(h)
    BY <1>1, <2>1, RunningType, NextEventInv
  <2>2. CASE Goto(h, "split")
    BY <1>1, <2>2, RunningType, GotoInv DEF Steps
  <2>3. QED
    BY <2>1, <2>2 DEF AcceptRating, RefuseRating
<1>3. CASE AcceptRating(h)
  <2>1. StoreTypeOK'
    <3>1. CASE UNCHANGED convs
      BY <1>3, <3>1 DEF AcceptRating, Kept, StoreTypeOK, butConvs, butNewConv
    <3>2. ASSUME NEW n \in {1, 10},
                 UpdateConversation(hs[h].conv,
                   [convs[hs[h].conv] EXCEPT !.awaitingRating = FALSE,
                                             !.customerRating = n])
          PROVE  StoreTypeOK'
      <4>1. Exists(hs[h].conv) =>
              [convs[hs[h].conv] EXCEPT !.awaitingRating = FALSE,
                                        !.customerRating = n] \in Conversation
        <5>1. n \in 0..10
          OBVIOUS
        <5>2. QED
          BY <1>1, <5>1, RunningType DEF Exists, Rows, Conversation
      <4>2. QED
        BY <1>1, <1>3, <3>2, <4>1, RunningType, UpdateKept DEF AcceptRating, Kept
    <3>3. QED
      BY <1>3, <3>1, <3>2 DEF AcceptRating
  <2>2. ratingCount' \in [Users -> Nat]
    <3>1. hs[h].resolver \in Users \union {Nobody}
      BY <1>1, RunningType DEF Handler
    <3>2. QED
      BY <1>3, <3>1 DEF AcceptRating, Kept, InboundTypeOK
  <2>3. QED
    BY <1>2, <1>3, <2>1, <2>2 DEF AcceptRating, Kept, InboundTypeOK
<1>4. CASE RefuseRating(h)
  <2>1. Exists(hs[h].conv) =>
          [convs[hs[h].conv] EXCEPT !.awaitingRating = FALSE] \in Conversation
    BY <1>1, RunningType DEF Exists, Rows, Conversation
  <2>2. StoreTypeOK'
    BY <1>1, <1>4, <2>1, RunningType, UpdateKept DEF RefuseRating, Kept
  <2>3. QED
    BY <1>2, <1>4, <2>2 DEF RefuseRating, Kept, InboundTypeOK, others
<1>5. QED
  BY <1>3, <1>4

\* Opening a new conversation and moving the message to it.
LEMMA SplittingKept ==
  ASSUME Kept, faults' = faults, NEW h \in Handlers,
         SplitConversation(h) \/ MoveMessage(h)
  PROVE  Kept'
<1>1. hs[h].pc \notin Early
  BY DEF SplitConversation, MoveMessage, At, Early
<1>2. CASE SplitConversation(h)
  <2>1. convs' \in [ConvIds -> Rows] /\ nextConv' \in 1..(MaxConvs + 1)
    BY <1>1, <1>2, RunningType, InsertType DEF SplitConversation, Kept
  <2>2. nextConv \in ConvIds /\ nextConv \in 0..MaxConvs
    BY <1>2, StoreAssumption DEF SplitConversation, InsertConversation, ConvIds
  <2>3. hs' \in [Handlers -> Handler]
    <3>1. "move" \in Steps
      BY DEF Steps
    <3>2. QED
      BY <1>1, <1>2, <2>2, <3>1, RunningType DEF SplitConversation, Handler
  <2>4. HandlerInv'
    BY <1>1, <1>2, <2>2, RunningType DEF SplitConversation, HandlerInv, Handler, At, Early
  <2>5. QED
    BY <1>2, <2>1, <2>3, <2>4
      DEF SplitConversation, Kept, StoreTypeOK, InboundTypeOK, Rows, butNewConv, others
<1>3. CASE MoveMessage(h)
  <2>1. hs' \in [Handlers -> Handler] /\ HandlerInv'
    <3>1. CASE Throw(h)
      BY <1>1, <3>1, RunningType, NextEventInv
    <3>2. CASE Goto(h, "settings")
      BY <1>1, <3>2, RunningType, GotoInv DEF Steps
    <3>3. QED
      BY <1>3, <3>1, <3>2 DEF MoveMessage
  <2>2. <<Event(h), hs[h].conv>> \in Mids \X ConvIds
    BY <1>1, RunningType
  <2>3. /\ inbox' \subseteq inbox \union {<<Event(h), hs[h].conv>>}
        /\ moved' \subseteq moved \union {<<Event(h), hs[h].conv>>}
    BY <1>3 DEF MoveMessage
  <2>4. inbox' \subseteq Mids \X ConvIds /\ moved' \subseteq Mids \X ConvIds
    BY <2>2, <2>3 DEF Kept, StoreTypeOK, InboundTypeOK
  <2>5. QED
    BY <1>3, <2>1, <2>4
      DEF MoveMessage, Kept, StoreTypeOK, InboundTypeOK, butInbox
<1>4. QED
  BY <1>2, <1>3

\* Reading the routing settings, or creating the default ones.
LEMMA SettingsKept ==
  ASSUME Kept, faults' = faults, NEW h \in Handlers,
         LoadSettings(h) \/ CreateSettings(h)
  PROVE  Kept'
<1>1. hs[h].pc \notin Early
  BY DEF LoadSettings, CreateSettings, At, Early
<1>2. hs' \in [Handlers -> Handler] /\ HandlerInv'
  <2>1. CASE Throw(h)
    BY <1>1, <2>1, RunningType, NextEventInv
  <2>2. CASE Goto(h, "context") \/ Goto(h, "newSettings")
    BY <1>1, <2>2, RunningType, GotoInv DEF Steps
  <2>3. QED
    BY <2>1, <2>2 DEF LoadSettings, CreateSettings
<1>3. settingsRow' \in BOOLEAN
  BY DEF LoadSettings, CreateSettings, Kept, StoreTypeOK, storeVars
<1>4. QED
  BY <1>2, <1>3
    DEF LoadSettings, CreateSettings, Kept, StoreTypeOK, InboundTypeOK, storeVars,
        butSettings, others

\* A handler that goes on with other replies to send.
LEMMA RepliesInv ==
  ASSUME HandlerInv, hs \in [Handlers -> Handler], NEW h \in Handlers,
         hs[h].pc \notin Early, hs[h].conv \in ConvIds,
         NEW step \in Steps \ {"move"}, step # "idle", NEW out \in Seq(Replies),
         hs' = [hs EXCEPT ![h] = [@ EXCEPT !.pc = step, !.out = out]]
  PROVE  hs' \in [Handlers -> Handler] /\ HandlerInv'
<1>1. hs' \in [Handlers -> Handler]
  BY DEF Handler
<1>2. HandlerInv'
  BY DEF HandlerInv, Handler, Early
<1>3. QED
  BY <1>1, <1>2

\* Counting the messages and collecting the automatic replies.
LEMMA PreparingKept ==
  ASSUME Kept, faults' = faults, NEW h \in Handlers,
         CountMessages(h) \/ PrepareReplies(h)
  PROVE  Kept'
<1>1. hs[h].pc \notin Early
  BY DEF CountMessages, PrepareReplies, At, Early
<1>2. CASE CountMessages(h)
  <2>1. "menu" \in Steps /\ IsFirstMessage(hs[h].conv) \in BOOLEAN
    BY DEF Steps, IsFirstMessage
  <2>2. hs' \in [Handlers -> Handler]
    BY <1>1, <1>2, <2>1, RunningType DEF CountMessages, Handler
  <2>3. HandlerInv'
    BY <1>1, <1>2, RunningType DEF CountMessages, HandlerInv, Handler, At, Early
  <2>4. QED
    BY <1>2, <2>2, <2>3
      DEF CountMessages, Kept, StoreTypeOK, InboundTypeOK, storeVars, others
<1>3. CASE PrepareReplies(h)
  <2>. DEFINE out == When("AFTER_HOURS" \in Triggers, "afterHours")
                       \o When(hs[h].first /\ "FIRST_MESSAGE" \in Triggers, "greeting")
                       \o When(MenuOffered /\ ~hs[h].asked, "menu")
  <2>1. out \in Seq(Replies)
    <3>1. /\ <<"afterHours">> \in Seq(Replies)
          /\ <<"greeting">> \in Seq(Replies)
          /\ <<"menu">> \in Seq(Replies)
          /\ <<>> \in Seq(Replies)
      BY DEF Replies
    <3>2. /\ When("AFTER_HOURS" \in Triggers, "afterHours") \in {<<"afterHours">>, <<>>}
          /\ When(hs[h].first /\ "FIRST_MESSAGE" \in Triggers, "greeting")
               \in {<<"greeting">>, <<>>}
          /\ When(MenuOffered /\ ~hs[h].asked, "menu") \in {<<"menu">>, <<>>}
      BY Zenon DEF When
    <3>3. /\ When("AFTER_HOURS" \in Triggers, "afterHours") \in Seq(Replies)
          /\ When(hs[h].first /\ "FIRST_MESSAGE" \in Triggers, "greeting") \in Seq(Replies)
          /\ When(MenuOffered /\ ~hs[h].asked, "menu") \in Seq(Replies)
      BY <3>1, <3>2, Zenon
    <3>4. QED
      BY <3>3
  <2>2. hs' = [hs EXCEPT ![h] = [@ EXCEPT !.pc = "send", !.out = out]]
    BY <1>3 DEF PrepareReplies
  <2>. HIDE DEF out
  <2>3. hs' \in [Handlers -> Handler] /\ HandlerInv'
    BY <1>1, <2>1, <2>2, RunningType, RepliesInv DEF Steps
  <2>4. StoreTypeOK'
    <3>1. CASE UNCHANGED convs
      BY <1>3, <3>1 DEF PrepareReplies, Kept, StoreTypeOK, butConvs, butNewConv
    <3>2. CASE UpdateConversation(hs[h].conv,
                 [convs[hs[h].conv] EXCEPT !.routingQuestionSent = TRUE])
      <4>1. Exists(hs[h].conv) =>
              [convs[hs[h].conv] EXCEPT !.routingQuestionSent = TRUE] \in Conversation
        BY <1>1, RunningType DEF Exists, Rows, Conversation
      <4>2. QED
        BY <1>1, <1>3, <3>2, <4>1, RunningType, UpdateKept DEF PrepareReplies, Kept
    <3>3. QED
      BY <1>3, <3>1, <3>2 DEF PrepareReplies
  <2>5. QED
    BY <1>3, <2>3, <2>4 DEF PrepareReplies, Kept, InboundTypeOK, others
<1>4. QED
  BY <1>2, <1>3

\* Sending the automatic replies one by one.
LEMMA SendingKept ==
  ASSUME Kept, faults' = faults, NEW h \in Handlers,
         SendReply(h) \/ SendFails(h) \/ RepliesDone(h)
  PROVE  Kept'
<1>1. hs[h].pc \notin Early /\ hs[h].pc \in Steps \ {"move", "idle"}
  BY DEF SendReply, SendFails, RepliesDone, At, Early, Steps
<1>2. hs[h].out \in Seq(Replies) /\ <<>> \in Seq(Replies)
  BY <1>1, RunningType DEF Handler
<1>3. ASSUME NEW out \in Seq(Replies), hs' = [hs EXCEPT ![h].out = out]
      PROVE  hs' \in [Handlers -> Handler] /\ HandlerInv'
  <2>1. hs' \in [Handlers -> Handler]
    BY <1>1, <1>3, RunningType DEF Handler
  <2>2. HandlerInv'
    BY <1>1, <1>3, RunningType DEF HandlerInv, Handler
  <2>3. QED
    BY <2>1, <2>2
<1>4. CASE SendReply(h)
  <2>1. \E out \in Seq(Replies) : hs' = [hs EXCEPT ![h].out = out]
    <3>1. Tail(hs[h].out) \in Seq(Replies)
      BY <1>2, <1>4 DEF SendReply
    <3>2. hs' = [hs EXCEPT ![h].out = <<>>] \/ hs' = [hs EXCEPT ![h].out = Tail(hs[h].out)]
      BY <1>1, <1>4, RunningType DEF SendReply
    <3>3. QED
      BY <1>2, <3>1, <3>2
  <2>2. autoRows' \in [ConvIds -> Nat]
    <3>1. \/ UNCHANGED autoRows
          \/ autoRows' = [autoRows EXCEPT ![hs[h].conv] = @ + 1]
      BY <1>4 DEF SendReply
    <3>2. QED
      BY <3>1 DEF Kept, StoreTypeOK
  <2>3. sent' \in [ConvIds -> [{"greeting", "menu"} -> Nat]]
    <3>1. CASE UNCHANGED sent
      BY <3>1 DEF Kept, InboundTypeOK
    <3>2. ASSUME NEW r \in {"greeting", "menu"},
                 sent' = [sent EXCEPT ![hs[h].conv][r] = @ + 1]
          PROVE  sent' \in [ConvIds -> [{"greeting", "menu"} -> Nat]]
      BY <1>1, <3>2, RunningType DEF Kept, InboundTypeOK
    <3>3. QED
      BY <1>4, <3>1, <3>2 DEF SendReply
  <2>4. QED
    BY <1>3, <1>4, <2>1, <2>2, <2>3
      DEF SendReply, Kept, StoreTypeOK, InboundTypeOK, butAutoRows
<1>5. CASE SendFails(h)
  BY <1>2, <1>3, <1>5
    DEF SendFails, Kept, StoreTypeOK, InboundTypeOK, storeVars, others
<1>6. CASE RepliesDone(h)
  <2>1. hs' \in [Handlers -> Handler] /\ HandlerInv'
    <3>1. CASE NextEvent(h)
      BY <1>1, <3>1, RunningType, NextEventInv
    <3>2. CASE Goto(h, "select")
      BY <1>1, <3>2, RunningType, GotoInv DEF Steps
    <3>3. QED
      BY <1>6, <3>1, <3>2 DEF RepliesDone, AfterReplies
  <2>2. QED
    BY <1>6, <2>1 DEF RepliesDone, Kept, StoreTypeOK, InboundTypeOK, storeVars, others
<1>7. QED
  BY <1>4, <1>5, <1>6

\* Reading the selection, setting the department, assigning the agent.
LEMMA RoutingKept ==
  ASSUME Kept, faults' = faults, NEW h \in Handlers,
         InterpretSelection(h) \/ SetDepartment(h) \/ AutoAssign(h)
  PROVE  Kept'
<1>1. hs[h].pc \notin Early
  BY DEF InterpretSelection, SetDepartment, AutoAssign, At, Early
<1>2. <<"answer">> \in Seq(Replies) /\ <<>> \in Seq(Replies)
  BY DEF Replies
<1>3. hs' \in [Handlers -> Handler] /\ HandlerInv'
  <2>1. CASE NextEvent(h)
    BY <1>1, <2>1, RunningType, NextEventInv
  <2>2. CASE Goto(h, "department") \/ Goto(h, "assign")
    BY <1>1, <2>2, RunningType, GotoInv DEF Steps
  <2>3. ASSUME NEW o \in Seq(Replies),
               hs' = [hs EXCEPT ![h] = [@ EXCEPT !.pc = "answer", !.out = o]]
        PROVE  hs' \in [Handlers -> Handler] /\ HandlerInv'
    BY <1>1, <2>3, RunningType, RepliesInv DEF Steps
  <2>4. CASE InterpretSelection(h)
    <3>1. When(MenuOffered, "answer") \in Seq(Replies)
      BY <1>2 DEF When
    <3>2. QED
      BY <2>1, <2>2, <2>3, <2>4, <3>1 DEF InterpretSelection
  <2>5. CASE SetDepartment(h)
    BY <2>1, <2>2, <2>5 DEF SetDepartment
  <2>6. CASE AutoAssign(h)
    BY <1>2, <2>3, <2>6 DEF AutoAssign
  <2>7. QED
    BY <2>4, <2>5, <2>6
<1>4. StoreTypeOK'
  <2>1. CASE InterpretSelection(h)
    BY <2>1 DEF InterpretSelection, Kept, StoreTypeOK, storeVars
  <2>2. CASE SetDepartment(h)
    <3>1. Exists(hs[h].conv) =>
            [convs[hs[h].conv] EXCEPT !.routed = TRUE] \in Conversation
      BY <1>1, RunningType DEF Exists, Rows, Conversation
    <3>2. QED
      BY <1>1, <2>2, <3>1, RunningType, UpdateKept DEF SetDepartment, Kept
  <2>3. CASE AutoAssign(h)
    <3>1. PICK u \in Users \union {Nobody} :
            UpdateConversation(hs[h].conv, [convs[hs[h].conv] EXCEPT !.assignedTo = u])
      BY <2>3 DEF AutoAssign
    <3>2. Exists(hs[h].conv) =>
            [convs[hs[h].conv] EXCEPT !.assignedTo = u] \in Conversation
      BY <1>1, RunningType DEF Exists, Rows, Conversation
    <3>3. QED
      BY <1>1, <2>3, <3>1, <3>2, RunningType, UpdateKept DEF AutoAssign, Kept
  <2>4. QED
    BY <2>1, <2>2, <2>3
<1>5. QED
  BY <1>3, <1>4
    DEF InterpretSelection, SetDepartment, AutoAssign, Kept, InboundTypeOK, others

\* Every statement of handleMessagingEvent.
LEMMA HandlerStepKept ==
  ASSUME Kept, faults' = faults, NEW h \in Handlers, HandlerStep(h)
  PROVE  Kept'
BY FindingKept, ConversationKept, StoringKept, RatingKept, SplittingKept,
   SettingsKept, PreparingKept, SendingKept, RoutingKept
   DEF HandlerStep

\* A statement of the handler that throws, inside or outside its try blocks.
LEMMA HandlerFaultKept ==
  ASSUME Kept, NEW h \in Handlers, HandlerFault(h)
  PROVE  Kept'
<1>1. ~At(h, "idle") /\ hs \in [Handlers -> Handler] /\ HandlerInv
  BY DEF HandlerFault, Kept, InboundTypeOK
<1>2. hs' \in [Handlers -> Handler] /\ HandlerInv'
  <2>1. CASE NextEvent(h) \/ Throw(h)
    BY <1>1, <2>1, NextEventInv
  <2>2. CASE /\ hs[h].pc \in {"menu", "send"}
             /\ hs' = [hs EXCEPT ![h] = [@ EXCEPT !.pc = "send", !.out = <<>>]]
    <3>1. hs[h].pc \notin Early
      BY <2>2 DEF Early
    <3>2. <<>> \in Seq(Replies) /\ "send" \in Steps \ {"move"}
      BY DEF Steps
    <3>3. QED
      BY <2>2, <3>1, <3>2, RunningType, RepliesInv
  <2>3. QED
    BY <2>1, <2>2 DEF HandlerFault
<1>3. faults' \in 0..MaxFaults
  BY StoreAssumption DEF HandlerFault, Kept, StoreTypeOK
<1>4. QED
  BY <1>2, <1>3
    DEF HandlerFault, Kept, StoreTypeOK, InboundTypeOK, storeVars, others

\* A webhook delivery arrives at an idle handler.
LEMMA ReceiveKept ==
  ASSUME Kept, faults' = faults, NEW h \in Handlers, NEW b \in Batches, Receive(h, b)
  PROVE  Kept'
<1>1. hs' \in [Handlers -> Handler] /\ HandlerInv'
  <2>1. b \in Seq(Mids)
    BY InboundAssumption
  <2>2. QED
    BY <2>1, ContinueInv DEF Receive, Kept, InboundTypeOK
<1>2. deliveries' \in [Mids -> 0..MaxDeliveries]
  <2>1. \A m \in Mids : (\E i \in DOMAIN b : b[i] = m) => deliveries[m] < MaxDeliveries
    BY DEF Receive
  <2>2. \A m \in Mids : deliveries[m] \in 0..MaxDeliveries
    BY DEF Kept, InboundTypeOK
  <2>3. QED
    BY <2>1, <2>2, InboundAssumption DEF Receive
<1>3. QED
  BY <1>1, <1>2
    DEF Receive, Kept, StoreTypeOK, InboundTypeOK, storeVars
-----------------------------------------------------------------------------
\* What a step of a staff request has to keep.
KeptByStaff == StoreTypeOK /\ StaffTypeOK /\ RequestInv

\* A request arrives and its checks pass.
LEMMA BeginKept ==
  ASSUME KeptByStaff, faults' = faults, NEW r \in Requests, NEW op \in Ops,
         NEW u \in Users, NEW c \in 0..MaxConvs,
         NEW arg \in Users \union Status \union Senders \union {Nobody},
         op = "create" => arg \in Senders,
         op # "create" => c \in ConvIds,
         op \in {"assign", "handoff"} => arg \in Users,
         op = "status" => arg \in Status,
         Begin(r, op, u, c, arg)
  PROVE  KeptByStaff'
<1>1. StoreTypeOK'
  BY DEF KeptByStaff, StoreTypeOK, Begin, storeVars
<1>2. begun' \in 0..MaxRequests
  BY StaffAssumption DEF KeptByStaff, StaffTypeOK, Begin
<1>3. Responded(c) \in BOOLEAN
  BY DEF Responded
<1>4. rs' \in [Requests -> Request] /\ RequestInv'
  <2>1. rs' \in [Requests -> Request]
    BY <1>3 DEF KeptByStaff, StaffTypeOK, Begin, Request
  <2>2. RequestInv'
    BY DEF KeptByStaff, StaffTypeOK, RequestInv, Begin, Request
  <2>3. QED
    BY <2>1, <2>2
<1>5. QED
  BY <1>1, <1>2, <1>4 DEF KeptByStaff, StaffTypeOK, Begin

\* A request that is not creating a conversation has one to work on.
LEMMA WorkingType ==
  ASSUME KeptByStaff, NEW r \in Requests, rs[r].pc # "idle", rs[r].op # "create"
  PROVE  /\ rs[r].conv \in ConvIds
         /\ convs[rs[r].conv] \in Rows
         /\ rs[r].user \in Users
         /\ rs[r].op \in Ops
BY DEF KeptByStaff, RequestInv, StoreTypeOK, Rows

\* A request goes on to its next statement, or ends.
LEMMA ProgressKept ==
  ASSUME KeptByStaff, NEW r \in Requests, rs[r].pc # "idle",
         \/ Done(r)
         \/ /\ rs[r].op # "create"
            /\ \E pc \in {"read", "respond", "noting", "audit"} : Goto_(r, pc)
  PROVE  rs' \in [Requests -> Request] /\ RequestInv' /\ begun' = begun
<1>1. rs \in [Requests -> Request] /\ RequestInv
  BY DEF KeptByStaff, StaffTypeOK
<1>2. CASE Done(r)
  <2>1. NoRequest \in Request
    BY StoreAssumption DEF NoRequest, Request
  <2>2. rs' \in [Requests -> Request]
    BY <1>1, <1>2, <2>1 DEF Done
  <2>3. RequestInv'
    BY <1>1, <1>2 DEF Done, RequestInv, NoRequest
  <2>4. QED
    BY <1>2, <2>2, <2>3 DEF Done
<1>3. ASSUME NEW pc \in {"read", "respond", "noting", "audit"}, Goto_(r, pc),
             rs[r].op # "create"
      PROVE  rs' \in [Requests -> Request] /\ RequestInv' /\ begun' = begun
  <2>1. rs' \in [Requests -> Request]
    BY <1>1, <1>3 DEF Goto_, Request
  <2>2. RequestInv'
    BY <1>1, <1>3 DEF Goto_, RequestInv, Request
  <2>3. QED
    BY <1>3, <2>1, <2>2 DEF Goto_
<1>4. QED
  BY <1>2, <1>3

\* The one UPDATE of an operation.
LEMMA WriteKept ==
  ASSUME KeptByStaff, faults' = faults, NEW r \in Requests, NEW op \in Ops \ {"create"},
         NEW row, NEW next \in {"read", "respond", "noting", "audit"},
         Exists(rs[r].conv) => row \in Conversation,
         Write(r, op, row, next)
  PROVE  KeptByStaff'
<1>1. rs[r].pc # "idle" /\ rs[r].op # "create"
  BY DEF Write, Writing
<1>2. rs' \in [Requests -> Request] /\ RequestInv' /\ begun' = begun
  BY <1>1, ProgressKept DEF Write
<1>3. StoreTypeOK'
  BY <1>1, WorkingType, UpdateKept DEF Write, KeptByStaff
<1>4. QED
  BY <1>2, <1>3 DEF Write, KeptByStaff, StaffTypeOK

\* The INSERT of a note.
LEMMA NoteKept ==
  ASSUME KeptByStaff, faults' = faults, NEW r \in Requests,
         rs[r].pc # "idle", rs[r].op # "create", InsertNote(r)
  PROVE  KeptByStaff'
<1>1. rs' \in [Requests -> Request] /\ RequestInv' /\ begun' = begun
  BY ProgressKept DEF InsertNote
<1>2. authored' \subseteq Users \X ConvIds
  <2>1. <<rs[r].user, rs[r].conv>> \in Users \X ConvIds
    BY WorkingType
  <2>2. QED
    BY <2>1 DEF InsertNote, KeptByStaff, StaffTypeOK
<1>3. QED
  BY <1>1, <1>2 DEF InsertNote, KeptByStaff, StaffTypeOK, StoreTypeOK, storeVars

\* A conversation id, or none, as a request carries it.
LEMMA IdType == ConvIds \subseteq 0..MaxConvs /\ 0 \in 0..MaxConvs
BY StoreAssumption DEF ConvIds

\* The operations that check, update one row, and write the audit log.
LEMMA ChangingKept ==
  ASSUME KeptByStaff, faults' = faults, NEW r \in Requests,
         \/ Assign(r) \/ Handoff(r) \/ Unassign(r)
         \/ Close(r) \/ Resolve(r) \/ UpdateStatus(r)
  PROVE  KeptByStaff'
<1>1. ASSUME NEW op \in Ops \ {"create"}, NEW u \in Users, NEW c \in ConvIds,
             NEW arg \in Users \union Status \union {Nobody},
             op \in {"assign", "handoff"} => arg \in Users,
             op = "status" => arg \in Status, Begin(r, op, u, c, arg)
      PROVE  KeptByStaff'
  BY <1>1, BeginKept, IdType
<1>2. ASSUME NEW op \in Ops \ {"create"}, NEW next \in {"noting", "audit"}, NEW row,
             Exists(rs[r].conv) => row \in Conversation, Write(r, op, row, next)
      PROVE  KeptByStaff'
  BY <1>2, WriteKept
<1>3. ASSUME NEW op \in Ops \ {"create"}, Writing(r, op)
      PROVE  /\ Exists(rs[r].conv) => Row(r) \in Conversation
             /\ rs[r].user \in Users
             /\ op \in {"assign", "handoff"} => rs[r].arg \in Users
             /\ op = "status" => rs[r].arg \in Status
  <2>1. rs[r].pc # "idle" /\ rs[r].op = op
    BY <1>3 DEF Writing
  <2>2. QED
    BY <2>1, WorkingType DEF KeptByStaff, RequestInv, Exists, Rows, Row
<1>4. {"assign", "handoff", "unassign", "close", "resolve", "status"}
        \subseteq Ops \ {"create"}
  BY DEF Ops
<1>5. Admins \subseteq Users /\ Agents \subseteq Users
  BY DEF Users
<1>6. CASE Assign(r)
  <2>1. Writing(r, "assign") /\ Exists(rs[r].conv) =>
          [Row(r) EXCEPT !.assignedTo = rs[r].arg] \in Conversation
    BY <1>3, <1>4 DEF Conversation
  <2>2. QED
    BY <1>1, <1>2, <1>4, <1>5, <1>6, <2>1 DEF Assign, Write
<1>7. CASE Handoff(r)
  <2>1. Writing(r, "handoff") /\ Exists(rs[r].conv) =>
          [Row(r) EXCEPT !.assignedTo = rs[r].arg] \in Conversation
    BY <1>3, <1>4 DEF Conversation
  <2>2. ASSUME rs[r].pc = "noting", InsertNote(r)
        PROVE  KeptByStaff'
    <3>1. rs[r].op # "create"
      BY <2>2 DEF KeptByStaff, RequestInv
    <3>2. QED
      BY <2>2, <3>1, NoteKept
  <2>3. QED
    BY <1>1, <1>2, <1>4, <1>5, <1>7, <2>1, <2>2 DEF Handoff, Write
<1>8. CASE Unassign(r)
  <2>1. Writing(r, "unassign") /\ Exists(rs[r].conv) =>
          [Row(r) EXCEPT !.assignedTo = Nobody] \in Conversation
    BY <1>3, <1>4 DEF Conversation
  <2>2. QED
    BY <1>1, <1>2, <1>4, <1>5, <1>8, <2>1 DEF Unassign, Write
<1>9. CASE Close(r)
  <2>1. Writing(r, "close") /\ Exists(rs[r].conv) =>
          [Row(r) EXCEPT !.status = "CLOSED"] \in Conversation
    BY <1>3, <1>4 DEF Conversation, Status
  <2>2. QED
    BY <1>1, <1>2, <1>4, <1>9, <2>1 DEF Close, Write
<1>10. CASE Resolve(r)
  <2>1. Writing(r, "resolve") /\ Exists(rs[r].conv) =>
          [Row(r) EXCEPT !.status = "RESOLVED", !.awaitingRating = TRUE,
                         !.resolvedBy = rs[r].user] \in Conversation
    BY <1>3, <1>4 DEF Conversation, Status
  <2>2. QED
    BY <1>1, <1>2, <1>4, <1>10, <2>1 DEF Resolve, Write
<1>11. CASE UpdateStatus(r)
  <2>1. Writing(r, "status") /\ Exists(rs[r].conv) =>
          [Row(r) EXCEPT !.status = rs[r].arg] \in Conversation
    BY <1>3, <1>4 DEF Conversation
  <2>2. QED
    BY <1>1, <1>2, <1>4, <1>11, <2>1 DEF UpdateStatus, Write
<1>12. QED
  BY <1>6, <1>7, <1>8, <1>9, <1>10, <1>11

\* Opening a conversation for a customer, adding a note, writing the audit log.
LEMMA RecordingKept ==
  ASSUME KeptByStaff, faults' = faults, NEW r \in Requests,
         CreateForCustomer(r) \/ AddNote(r) \/ WriteAudit(r)
  PROVE  KeptByStaff'
<1>1. CASE CreateForCustomer(r)
  <2>1. ASSUME NEW u \in Users, NEW k \in customers, Begin(r, "create", u, 0, k)
        PROVE  KeptByStaff'
    BY <2>1, BeginKept, IdType DEF Ops, KeptByStaff, StoreTypeOK
  <2>2. CASE Writing(r, "create") /\ ~(rs[r].pc = "idle")
    <3>1. rs[r].arg \in Senders
      BY <2>2 DEF Writing, KeptByStaff, RequestInv
    <3>2. rs' \in [Requests -> Request] /\ RequestInv' /\ begun' = begun
      BY <1>1, <2>2, ProgressKept DEF CreateForCustomer, Begin
    <3>3. convs' \in [ConvIds -> Rows] /\ nextConv' \in 1..(MaxConvs + 1)
      BY <1>1, <2>2, <3>1, InsertType DEF CreateForCustomer, Begin, KeptByStaff
    <3>4. QED
      BY <1>1, <2>2, <3>2, <3>3
        DEF CreateForCustomer, Begin, KeptByStaff, StaffTypeOK, StoreTypeOK, Rows, butNewConv
  <2>3. QED
    BY <1>1, <2>1, <2>2 DEF CreateForCustomer, Writing
<1>2. CASE AddNote(r)
  <2>1. ASSUME NEW u \in Users, NEW c \in ConvIds, Begin(r, "note", u, c, Nobody)
        PROVE  KeptByStaff'
    BY <2>1, BeginKept, IdType DEF Ops
  <2>2. CASE Writing(r, "note") /\ InsertNote(r)
    BY <2>2, NoteKept DEF Writing
  <2>3. QED
    BY <1>2, <2>1, <2>2 DEF AddNote
<1>3. CASE WriteAudit(r)
  <2>1. rs[r].pc # "idle" /\ rs[r].op # "create"
    BY <1>3 DEF WriteAudit, KeptByStaff, RequestInv
  <2>2. [op |-> rs[r].op, user |-> rs[r].user, conv |-> rs[r].conv] \in AuditRow
    BY <2>1, WorkingType DEF AuditRow
  <2>3. audit' \subseteq AuditRow
    BY <1>3, <2>2 DEF WriteAudit, KeptByStaff, StaffTypeOK
  <2>4. rs' \in [Requests -> Request] /\ RequestInv' /\ begun' = begun
    BY <1>3, <2>1, ProgressKept DEF WriteAudit
  <2>5. QED
    BY <1>3, <2>3, <2>4
      DEF WriteAudit, KeptByStaff, StaffTypeOK, StoreTypeOK, storeVars
<1>4. QED
  BY <1>1, <1>2, <1>3

\* Deleting a conversation with its messages.
LEMMA DeletingKept ==
  ASSUME KeptByStaff, faults' = faults, NEW r \in Requests, DeleteConversation(r)
  PROVE  KeptByStaff'
<1>1. ASSUME NEW u \in Admins, NEW c \in ConvIds, Begin(r, "delete", u, c, Nobody)
      PROVE  KeptByStaff'
  BY <1>1, BeginKept, IdType DEF Ops, Users
<1>2. CASE Writing(r, "delete") /\ Done(r)
  <2>1. rs[r].pc # "idle" /\ rs[r].op # "create"
    BY <1>2 DEF Writing
  <2>2. rs' \in [Requests -> Request] /\ RequestInv' /\ begun' = begun
    BY <1>2, <2>1, ProgressKept
  <2>3. rs[r].pc # "idle" /\ ~(\E u \in Admins, c \in ConvIds : Begin(r, "delete", u, c, Nobody))
    BY <2>1 DEF Begin
  <2>4. QED
    BY <2>2, <2>3
      DEF DeleteConversation, KeptByStaff, StaffTypeOK, StoreTypeOK
<1>3. QED
  BY <1>1, <1>2 DEF DeleteConversation

\* Sending a message as an agent, and listing the messages.
LEMMA MessagingKept ==
  ASSUME KeptByStaff, faults' = faults, NEW r \in Requests,
         SendMessage(r) \/ ListMessages(r)
  PROVE  KeptByStaff'
<1>1. ASSUME NEW op \in {"send", "list"}, NEW u \in Users, NEW c \in ConvIds,
             Begin(r, op, u, c, Nobody)
      PROVE  KeptByStaff'
  BY <1>1, BeginKept, IdType DEF Ops
<1>2. CASE rs[r].pc # "idle"
  <2>1. rs[r].op # "create"
    BY <1>2 DEF SendMessage, ListMessages, Writing, Begin, KeptByStaff, RequestInv
  <2>2. ~(\E op \in {"send", "list"}, u \in Users, c \in ConvIds : Begin(r, op, u, c, Nobody))
    BY <1>2 DEF Begin
  <2>3. rs' \in [Requests -> Request] /\ RequestInv' /\ begun' = begun
    BY <1>2, <2>1, <2>2, ProgressKept DEF SendMessage, ListMessages
  <2>4. /\ rs[r].conv \in ConvIds
        /\ <<rs[r].user, rs[r].conv>> \in Users \X ConvIds
        /\ Exists(rs[r].conv) => convs[rs[r].conv] \in Conversation
    BY <1>2, <2>1, WorkingType DEF Exists, Rows
  <2>5. CASE SendMessage(r)
    <3>1. CASE Writing(r, "send")
      <4>1. replies' \in [ConvIds -> Nat]
        <5>1. UNCHANGED replies \/ replies' = [replies EXCEPT ![rs[r].conv] = @ + 1]
          BY <2>2, <2>5, <3>1 DEF SendMessage, Writing
        <5>2. QED
          BY <5>1 DEF KeptByStaff, StoreTypeOK
      <4>2. authored' \subseteq Users \X ConvIds
        BY <2>2, <2>4, <2>5, <3>1 DEF SendMessage, Writing, KeptByStaff, StaffTypeOK
      <4>3. QED
        BY <2>2, <2>3, <2>5, <3>1, <4>1, <4>2
          DEF SendMessage, Writing, KeptByStaff, StaffTypeOK, StoreTypeOK
    <3>2. CASE rs[r].pc = "respond"
      <4>1. Exists(rs[r].conv) =>
              [convs[rs[r].conv] EXCEPT !.firstResponse = TRUE] \in Conversation
        BY <2>4 DEF Conversation
      <4>2. StoreTypeOK'
        BY <2>2, <2>4, <2>5, <3>2, <4>1, UpdateKept DEF SendMessage, Writing, KeptByStaff
      <4>3. QED
        BY <2>2, <2>3, <2>5, <3>2, <4>2
          DEF SendMessage, Writing, KeptByStaff, StaffTypeOK
    <3>3. QED
      BY <2>2, <2>5, <3>1, <3>2 DEF SendMessage
  <2>6. CASE ListMessages(r)
    <3>1. CASE Writing(r, "list")
      <4>1. Exists(rs[r].conv) =>
              [convs[rs[r].conv] EXCEPT !.unreadCount = 0] \in Conversation
        BY <2>4 DEF Conversation
      <4>2. StoreTypeOK'
        BY <2>2, <2>4, <2>6, <3>1, <4>1, UpdateKept DEF ListMessages, Writing, KeptByStaff
      <4>3. QED
        BY <2>2, <2>3, <2>6, <3>1, <4>2
          DEF ListMessages, Writing, KeptByStaff, StaffTypeOK
    <3>2. CASE rs[r].pc = "read"
      BY <2>2, <2>3, <2>6, <3>2
        DEF ListMessages, Writing, KeptByStaff, StaffTypeOK, StoreTypeOK, storeVars
    <3>3. QED
      BY <2>2, <2>6, <3>1, <3>2 DEF ListMessages
  <2>7. QED
    BY <2>5, <2>6
<1>3. QED
  BY <1>1, <1>2 DEF SendMessage, ListMessages, Writing

\* Every statement of every request.
LEMMA RequestStepKept ==
  ASSUME KeptByStaff, faults' = faults, NEW r \in Requests, RequestStep(r)
  PROVE  KeptByStaff'
BY ChangingKept, RecordingKept, DeletingKept, MessagingKept DEF RequestStep

\* A request that is cut off.
LEMMA RequestFaultKept ==
  ASSUME KeptByStaff, NEW r \in Requests, RequestFault(r)
  PROVE  KeptByStaff'
<1>1. rs' \in [Requests -> Request] /\ RequestInv' /\ begun' = begun
  BY ProgressKept DEF RequestFault
<1>2. faults' \in 0..MaxFaults
  BY StoreAssumption DEF RequestFault, KeptByStaff, StoreTypeOK
<1>3. QED
  BY <1>1, <1>2
    DEF RequestFault, KeptByStaff, StaffTypeOK, StoreTypeOK, storeVars
-----------------------------------------------------------------------------
\* The empty inbox is well formed.
LEMMA InitInv == Init => Inv
<1>. SUFFICES ASSUME Init PROVE Inv
  OBVIOUS
<1>1. StoreTypeOK
  <2>1. 1 \in 1..(MaxConvs + 1) /\ 0 \in 0..MaxFaults /\ 0 \in Nat
    BY StoreAssumption
  <2>2. QED
    BY <2>1 DEF Init, StoreInit, StoreTypeOK
<1>2. <<>> \in Seq(Mids) /\ "idle" \in Steps
  BY DEF Steps
<1>3. Idle \in Handler
  BY <1>2, FreshType DEF Idle
<1>4. InboundTypeOK
  BY <1>3, InboundAssumption DEF Init, InboundInit, InboundTypeOK
<1>5. HandlerInv
  BY DEF Init, InboundInit, HandlerInv, Idle, Fresh, Early
<1>6. NoRequest \in Request
  BY StoreAssumption DEF NoRequest, Request
<1>7. StaffTypeOK /\ RequestInv
  BY <1>6, StaffAssumption DEF Init, StaffInit, StaffTypeOK, RequestInv, NoRequest
<1>8. QED
  BY <1>1, <1>4, <1>5, <1>7 DEF Inv, TypeOK

\* No step of a handler or of a request breaks the invariant.
LEMMA NextInv == Inv /\ [Next]_vars => Inv'
<1>. SUFFICES ASSUME Inv, [Next]_vars PROVE Inv'
  OBVIOUS
<1>1. Kept /\ KeptByStaff
  BY DEF Inv, TypeOK, Kept, KeptByStaff
<1>2. CASE InboundNext /\ UNCHANGED staffVars
  <2>1. Kept'
    BY <1>1, <1>2, ReceiveKept, HandlerStepKept, HandlerFaultKept DEF InboundNext
  <2>2. QED
    BY <1>1, <1>2, <2>1
      DEF Inv, TypeOK, Kept, KeptByStaff, staffVars, StaffTypeOK, RequestInv
<1>3. CASE StaffNext /\ UNCHANGED inboundVars
  <2>1. KeptByStaff'
    BY <1>1, <1>3, RequestStepKept, RequestFaultKept DEF StaffNext
  <2>2. QED
    BY <1>1, <1>3, <2>1
      DEF Inv, TypeOK, Kept, KeptByStaff, inboundVars, InboundTypeOK, HandlerInv
<1>4. CASE Crash
  <2>1. <<>> \in Seq(Mids) /\ "idle" \in Steps
    BY DEF Steps
  <2>2. Idle \in Handler /\ NoRequest \in Request
    <3>1. Idle \in Handler
      BY <2>1, FreshType DEF Idle
    <3>2. NoRequest \in Request
      BY StoreAssumption DEF NoRequest, Request
    <3>3. QED
      BY <3>1, <3>2
  <2>3. InboundTypeOK' /\ HandlerInv'
    BY <1>1, <1>4, <2>2
      DEF Crash, Kept, InboundTypeOK, HandlerInv, Idle, Fresh, Early, others
  <2>4. StaffTypeOK' /\ RequestInv'
    BY <1>1, <1>4, <2>2 DEF Crash, KeptByStaff, StaffTypeOK, RequestInv, NoRequest
  <2>5. StoreTypeOK'
    BY <1>1, <1>4, StoreAssumption DEF Crash, Kept, StoreTypeOK, storeVars
  <2>6. QED
    BY <2>3, <2>4, <2>5 DEF Inv, TypeOK
<1>5. CASE UNCHANGED vars
  BY <1>5
    DEF Inv, TypeOK, vars, storeVars, inboundVars, staffVars, StoreTypeOK,
        InboundTypeOK, StaffTypeOK, HandlerInv, RequestInv
<1>6. QED
  BY <1>2, <1>3, <1>4, <1>5 DEF Next

\* The locals of handlers and requests are well formed in every reachable
\* state, however their statements interleave, fail or are cut off.
THEOREM Invariance == Spec => []Inv
BY InitInv, NextInv, PTL DEF Spec

\* Type correctness: counters stay in their ranges and references name rows
\* of the right kind, for every number of handlers, requests and messages.
THEOREM TypeCorrect == Spec => []TypeOK
<1>1. Inv => TypeOK
  BY DEF Inv
<1>2. QED
  BY <1>1, Invariance, PTL
-----------------------------------------------------------------------------
(***************************************************************************)
(* The safety properties                                                   *)
(***************************************************************************)
\* What a webhook handler never does to a conversation: give it to another
\* customer, end it, lose an unread message, name another resolver, wait for
\* a rating, accept one nobody waits for or go on waiting after it.
Carries(new, old) ==
  /\ new.customer = old.customer
  /\ new.status = old.status
  /\ new.resolvedBy = old.resolvedBy
  /\ new.unreadCount >= old.unreadCount
  /\ new.awaitingRating => old.awaitingRating
  /\ \/ new.customerRating = old.customerRating
     \/ old.awaitingRating /\ ~new.awaitingRating

\* The effect of a handler's step on the conversation rows.
HandlerRows ==
  \/ /\ \A c \in ConvIds :
          /\ Exists(c)' <=> Exists(c)
          /\ Exists(c) => Carries(convs'[c], convs[c])
     /\ nextConv' = nextConv
  \/ \E k \in Senders : InsertConversation(k)

\* Every statement of a handler changes the table of conversations in one of
\* the ways HandlerRows names.
LEMMA HandlerRowsStep ==
  ASSUME Kept, NEW h \in Handlers, HandlerStep(h)
  PROVE  HandlerRows
<1>1. CASE UNCHANGED <<convs, nextConv>>
  <2>1. \A c \in ConvIds : Exists(c) => convs[c] \in Conversation
    BY DEF Kept, StoreTypeOK, Exists
  <2>2. \A c \in ConvIds : Exists(c) => Carries(convs[c], convs[c])
    BY <2>1 DEF Carries, Conversation
  <2>3. QED
    BY <1>1, <2>2 DEF HandlerRows, Exists
<1>2. CASE CreateConversation(h) \/ SplitConversation(h)
  BY <1>2, EventType, StoreAssumption
    DEF CreateConversation, SplitConversation, HandlerRows, Kept, InboundTypeOK, At
<1>3. ASSUME NEW row, hs[h].pc \notin Early,
             Exists(hs[h].conv) =>
               row \in Conversation /\ Carries(row, convs[hs[h].conv]),
             UpdateConversation(hs[h].conv, row), UNCHANGED butConvs
      PROVE  HandlerRows
  <2>1. hs[h].conv \in ConvIds
    BY <1>3, RunningType
  <2>2. \A c \in ConvIds : Exists(c) => convs[c] \in Conversation
    BY DEF Kept, StoreTypeOK, Exists
  <2>3. \A c \in ConvIds : Exists(c) => Carries(convs[c], convs[c])
    BY <2>2 DEF Carries, Conversation
  <2>4. \A c \in ConvIds : convs'[c] # convs[c] =>
          c = hs[h].conv /\ Exists(c) /\ convs'[c] = row
    BY <1>3, <2>1 DEF UpdateConversation, Kept, StoreTypeOK
  <2>5. QED
    BY <1>3, <2>3, <2>4, AbsentIsNoConversation DEF HandlerRows, Exists, butConvs
<1>4. hs[h].pc \notin Early /\ Exists(hs[h].conv) => convs[hs[h].conv] \in Conversation
  BY RunningType DEF Exists, Rows
<1>5. CASE BumpUnread(h)
  <2>1. hs[h].pc \notin Early
    BY <1>5 DEF BumpUnread, At, Early
  <2>2. Exists(hs[h].conv) => [convs[hs[h].conv] EXCEPT !.unreadCount = @ + 1] \in Conversation
    BY <1>4, <2>1 DEF Conversation
  <2>3. Exists(hs[h].conv) => Carries([convs[hs[h].conv] EXCEPT !.unreadCount = @ + 1], convs[hs[h].conv])
    BY <1>4, <2>1 DEF Conversation, Carries
  <2>4. QED
    BY <1>1, <1>3, <1>5, <2>1, <2>2, <2>3 DEF BumpUnread, butConvs
<1>6. CASE RefuseRating(h)
  <2>1. hs[h].pc \notin Early
    BY <1>6 DEF RefuseRating, At, Early
  <2>2. Exists(hs[h].conv) => [convs[hs[h].conv] EXCEPT !.awaitingRating = FALSE] \in Conversation
    BY <1>4, <2>1 DEF Conversation
  <2>3. Exists(hs[h].conv) => Carries([convs[hs[h].conv] EXCEPT !.awaitingRating = FALSE], convs[hs[h].conv])
    BY <1>4, <2>1 DEF Conversation, Carries
  <2>4. QED
    BY <1>1, <1>3, <1>6, <2>1, <2>2, <2>3 DEF RefuseRating, butConvs
<1>7. CASE PrepareReplies(h)
  <2>1. hs[h].pc \notin Early
    BY <1>7 DEF PrepareReplies, At, Early
  <2>2. Exists(hs[h].conv) => [convs[hs[h].conv] EXCEPT !.routingQuestionSent = TRUE] \in Conversation
    BY <1>4, <2>1 DEF Conversation
  <2>3. Exists(hs[h].conv) => Carries([convs[hs[h].conv] EXCEPT !.routingQuestionSent = TRUE], convs[hs[h].conv])
    BY <1>4, <2>1 DEF Conversation, Carries
  <2>4. QED
    BY <1>1, <1>3, <1>7, <2>1, <2>2, <2>3 DEF PrepareReplies, butConvs
<1>8. CASE SetDepartment(h)
  <2>1. hs[h].pc \notin Early
    BY <1>8 DEF SetDepartment, At, Early
  <2>2. Exists(hs[h].conv) => [convs[hs[h].conv] EXCEPT !.routed = TRUE] \in Conversation
    BY <1>4, <2>1 DEF Conversation
  <2>3. Exists(hs[h].conv) => Carries([convs[hs[h].conv] EXCEPT !.routed = TRUE], convs[hs[h].conv])
    BY <1>4, <2>1 DEF Conversation, Carries
  <2>4. QED
    BY <1>1, <1>3, <1>8, <2>1, <2>2, <2>3 DEF SetDepartment, butConvs
<1>9. CASE AcceptRating(h)
  <2>1. hs[h].pc \notin Early
    BY <1>9 DEF AcceptRating, At, Early
  <2>2. ASSUME NEW i \in {1, 10}, Exists(hs[h].conv), convs[hs[h].conv].awaitingRating,
               UpdateConversation(hs[h].conv,
                 [convs[hs[h].conv] EXCEPT !.awaitingRating = FALSE, !.customerRating = i])
        PROVE  HandlerRows
    <3>1. i \in 0..10
      OBVIOUS
    <3>2. Carries([convs[hs[h].conv] EXCEPT !.awaitingRating = FALSE, !.customerRating = i],
                  convs[hs[h].conv])
      BY <1>4, <2>1, <2>2, <3>1 DEF Conversation, Carries
    <3>3. [convs[hs[h].conv] EXCEPT !.awaitingRating = FALSE, !.customerRating = i]
            \in Conversation
      BY <1>4, <2>1, <2>2, <3>1 DEF Conversation
    <3>4. QED
      BY <1>3, <1>9, <2>1, <2>2, <3>2, <3>3 DEF AcceptRating
  <2>3. QED
    BY <1>1, <1>9, <2>2 DEF AcceptRating, butConvs
<1>10. CASE AutoAssign(h)
  <2>1. hs[h].pc \notin Early
    BY <1>10 DEF AutoAssign, At, Early
  <2>2. PICK u \in Users \union {Nobody} :
          UpdateConversation(hs[h].conv, [convs[hs[h].conv] EXCEPT !.assignedTo = u])
    BY <1>10 DEF AutoAssign
  <2>3. Exists(hs[h].conv) =>
          /\ [convs[hs[h].conv] EXCEPT !.assignedTo = u] \in Conversation
          /\ Carries([convs[hs[h].conv] EXCEPT !.assignedTo = u], convs[hs[h].conv])
    BY <1>4, <2>1 DEF Conversation, Carries
  <2>4. QED
    BY <1>3, <1>10, <2>1, <2>2, <2>3 DEF AutoAssign
<1>11. QED
  BY <1>1, <1>2, <1>5, <1>6, <1>7, <1>8, <1>9, <1>10
    DEF HandlerStep, FindCustomer, CreateCustomer, FindConversation, StoreMessage,
        MoveMessage, LoadSettings, CreateSettings, CountMessages, SendReply,
        SendFails, RepliesDone, InterpretSelection, storeVars, butCustomers,
        butInbox, butAutoRows, butSettings
-----------------------------------------------------------------------------
(***************************************************************************)
(* The invariant.  FiledUnderSender is inductive only with what handlers   *)
(* remember: the conversation a handler works on belongs to the sender of  *)
(* its event as long as it exists, and no other conversation will take its *)
(* id.  The other conjuncts are inductive with these.                      *)
(***************************************************************************)
IdsInv ==
  /\ \A c \in ConvIds : Exists(c) => c < nextConv
  /\ \A h \in Handlers : hs[h].pc \notin Early =>
       /\ hs[h].conv < nextConv
       /\ Exists(hs[h].conv) => convs[hs[h].conv].customer = SenderOf[Event(h)]

SafeInv ==
  /\ IdsInv
  /\ FiledUnderSender
  /\ UnseenIsUnread
  /\ RatingIsAttributable
  /\ AuditTrail

\* Where the conversation of a running handler comes from.
LEMMA HandlerLocals ==
  ASSUME Kept, NEW h \in Handlers, HandlerStep(h), NEW g \in Handlers,
         hs'[g].pc \notin Early
  PROVE  /\ hs'[g].batch = hs[g].batch
         /\ \/ hs[g].pc \notin Early /\ hs'[g].conv = hs[g].conv
            \/ /\ hs'[g].conv \in Joinable(SenderOf[Event(g)])
               /\ UNCHANGED <<convs, nextConv>>
            \/ /\ ~At(g, "idle")
               /\ hs'[g].conv = nextConv
               /\ InsertConversation(SenderOf[Event(g)])
<1>1. hs \in [Handlers -> Handler]
  BY DEF Kept, InboundTypeOK
<1>2. CASE UNCHANGED hs[g]
  BY <1>2
<1>3. CASE \E b : Continue(h, b)
  BY <1>1, <1>3 DEF Continue, Idle, Fresh, Early
<1>4. ASSUME NEW step, Goto(h, step), hs[h].pc \notin Early \/ step \in Early
      PROVE  hs'[g] = hs[g] \/ (g = h /\ hs[h].pc \notin Early
                                /\ hs'[g].conv = hs[g].conv /\ hs'[g].batch = hs[g].batch)
  BY <1>1, <1>4 DEF Goto, Handler
<1>5. ASSUME NEW out, NEW step, hs[h].pc \notin Early,
             \/ hs' = [hs EXCEPT ![h] = [@ EXCEPT !.pc = step, !.out = out]]
             \/ hs' = [hs EXCEPT ![h] = [@ EXCEPT !.pc = step, !.first = out]]
             \/ hs' = [hs EXCEPT ![h].out = out]
      PROVE  hs'[g] = hs[g] \/ (g = h /\ hs[h].pc \notin Early
                                /\ hs'[g].conv = hs[g].conv /\ hs'[g].batch = hs[g].batch)
  <2>1. CASE g # h
    BY <1>1, <1>5, <2>1
  <2>2. CASE g = h
    BY <1>1, <1>5, <2>2 DEF Handler
  <2>3. QED
    BY <2>1, <2>2
<1>6. CASE FindCustomer(h) \/ CreateCustomer(h)
  BY <1>1, <1>2, <1>3, <1>6 DEF FindCustomer, CreateCustomer, Goto, Throw, Early, Handler
<1>7. CASE FindConversation(h)
  <2>1. CASE Goto(h, "newConversation")
    BY <1>1, <1>4, <2>1 DEF Early
  <2>2. ASSUME NEW c \in Joinable(SenderOf[Event(h)]), Snapshot(h, c)
        PROVE  /\ hs'[g].batch = hs[g].batch
               /\ \/ hs[g].pc \notin Early /\ hs'[g].conv = hs[g].conv
                  \/ hs'[g].conv \in Joinable(SenderOf[Event(g)])
    <3>1. CASE g # h
      BY <1>1, <2>2, <3>1 DEF Snapshot
    <3>2. CASE g = h
      BY <1>1, <2>2, <3>2 DEF Snapshot, Handler
    <3>3. QED
      BY <3>1, <3>2
  <2>3. UNCHANGED <<convs, nextConv>>
    BY <1>7 DEF FindConversation, storeVars
  <2>4. QED
    BY <1>7, <2>1, <2>2, <2>3 DEF FindConversation
<1>8. CASE CreateConversation(h) \/ SplitConversation(h)
  <2>1. CASE g # h
    BY <1>1, <1>8, <2>1 DEF CreateConversation, SplitConversation
  <2>2. CASE g = h /\ CreateConversation(h)
    BY <1>1, <2>2 DEF CreateConversation, Handler, At
  <2>3. CASE g = h /\ SplitConversation(h)
    BY <1>1, <2>3 DEF SplitConversation, Handler, At
  <2>4. QED
    BY <1>8, <2>1, <2>2, <2>3
<1>9. CASE \/ StoreMessage(h) \/ BumpUnread(h) \/ AcceptRating(h) \/ RefuseRating(h)
           \/ MoveMessage(h) \/ LoadSettings(h) \/ CreateSettings(h) \/ RepliesDone(h)
           \/ SetDepartment(h)
  <2>1. hs[h].pc \notin Early
    BY <1>9 DEF StoreMessage, BumpUnread, AcceptRating, RefuseRating, MoveMessage,
                LoadSettings, CreateSettings, RepliesDone, SetDepartment, At, Early
  <2>2. (\E b : Continue(h, b)) \/ (\E step : Goto(h, step))
    BY <1>9 DEF StoreMessage, BumpUnread, AcceptRating, RefuseRating, MoveMessage,
                LoadSettings, CreateSettings, RepliesDone, AfterReplies, SetDepartment,
                NextEvent, Throw
  <2>3. QED
    BY <1>3, <1>4, <2>1, <2>2
<1>10. CASE \/ CountMessages(h) \/ PrepareReplies(h) \/ SendReply(h) \/ SendFails(h)
            \/ InterpretSelection(h) \/ AutoAssign(h)
  <2>1. hs[h].pc \notin Early
    BY <1>10 DEF CountMessages, PrepareReplies, SendReply, SendFails,
                 InterpretSelection, AutoAssign, At, Early
  <2>2. CASE CountMessages(h)
    BY <1>5, <2>1, <2>2 DEF CountMessages
  <2>3. CASE PrepareReplies(h)
    BY <1>5, <2>1, <2>3 DEF PrepareReplies
  <2>4. CASE SendReply(h)
    <3>1. \E out : hs' = [hs EXCEPT ![h].out = out]
      BY <1>1, <2>4 DEF SendReply
    <3>2. QED
      BY <1>5, <2>1, <3>1
  <2>5. CASE SendFails(h)
    BY <1>5, <2>1, <2>5 DEF SendFails
  <2>6. CASE InterpretSelection(h)
    BY <1>3, <1>4, <1>5, <2>1, <2>6 DEF InterpretSelection, NextEvent
  <2>7. CASE AutoAssign(h)
    BY <1>5, <2>1, <2>7 DEF AutoAssign
  <2>8. QED
    BY <1>10, <2>2, <2>3, <2>4, <2>5, <2>6, <2>7
<1>11. QED
  BY <1>6, <1>7, <1>8, <1>9, <1>10 DEF HandlerStep

\* A handler's step leaves the other handlers alone.
LEMMA OtherHandlers ==
  ASSUME Kept, NEW h \in Handlers, HandlerStep(h), NEW g \in Handlers, g # h
  PROVE  hs'[g] = hs[g]
<1>1. hs \in [Handlers -> Handler]
  BY DEF Kept, InboundTypeOK
<1>2. \E locals : hs' = [hs EXCEPT ![h] = locals]
  <2>1. CASE \E b : Continue(h, b)
    BY <1>1, <2>1 DEF Continue
  <2>2. CASE \E step : Goto(h, step)
    BY <1>1, <2>2 DEF Goto
  <2>3. CASE FindConversation(h)
    BY <1>1, <2>2, <2>3 DEF FindConversation, Snapshot
  <2>4. CASE \/ CreateConversation(h) \/ SplitConversation(h) \/ CountMessages(h)
             \/ PrepareReplies(h) \/ AutoAssign(h)
    BY <1>1, <2>4 DEF CreateConversation, SplitConversation, CountMessages,
                      PrepareReplies, AutoAssign
  <2>5. CASE SendReply(h) \/ SendFails(h)
    BY <1>1, <2>5 DEF SendReply, SendFails
  <2>6. CASE InterpretSelection(h)
    BY <1>1, <2>1, <2>2, <2>6 DEF InterpretSelection, NextEvent
  <2>7. QED
    BY <2>1, <2>2, <2>3, <2>4, <2>5, <2>6
      DEF HandlerStep, FindCustomer, CreateCustomer, StoreMessage, BumpUnread,
          AcceptRating, RefuseRating, MoveMessage, LoadSettings, CreateSettings,
          RepliesDone, AfterReplies, SetDepartment, NextEvent, Throw
<1>3. QED
  BY <1>1, <1>2

\* Which message rows a handler's step adds.
LEMMA HandlerInbox ==
  ASSUME Kept, NEW h \in Handlers, HandlerStep(h)
  PROVE  \/ /\ inbox' \subseteq inbox
            /\ moved \subseteq moved'
         \/ /\ hs[h].pc \notin Early
            /\ Exists(hs[h].conv)
            /\ inbox' \subseteq inbox \union {<<Event(h), hs[h].conv>>}
            /\ moved \subseteq moved'
            /\ UNCHANGED <<convs, nextConv>>
            /\ \/ <<Event(h), hs[h].conv>> \in moved'
               \/ At(h, "bump")' /\ hs'[h].conv = hs[h].conv
<1>1. CASE StoreMessage(h)
  <2>1. Goto(h, "bump") => At(h, "bump")' /\ hs'[h].conv = hs[h].conv
    BY DEF Goto, At, Kept, InboundTypeOK, Handler
  <2>2. QED
    BY <1>1, <2>1 DEF StoreMessage, At, Early, butInbox, others
<1>2. CASE MoveMessage(h)
  BY <1>2 DEF MoveMessage, At, Early, butInbox
<1>3. CASE UNCHANGED inbox /\ UNCHANGED moved
  BY <1>3
<1>4. QED
  BY <1>1, <1>2, <1>3
    DEF HandlerStep, FindCustomer, CreateCustomer, FindConversation, CreateConversation,
        BumpUnread, AcceptRating, RefuseRating, SplitConversation, LoadSettings,
        CreateSettings, CountMessages, PrepareReplies, SendReply, SendFails,
        RepliesDone, InterpretSelection, SetDepartment, AutoAssign,
        storeVars, butCustomers, butNewConv, butConvs, butAutoRows, butSettings, others
-----------------------------------------------------------------------------
\* A conversation that exists is older than the next one, and so is the one a
\* running handler works on.
LEMMA InsertedIsNew ==
  ASSUME StoreTypeOK, IdsInv, NEW k \in Senders, InsertConversation(k)
  PROVE  /\ nextConv \in ConvIds /\ ~Exists(nextConv)
         /\ nextConv' = nextConv + 1
         /\ convs'[nextConv] = NewConversation(k)
         /\ \A c \in ConvIds : c # nextConv => convs'[c] = convs[c]
BY DEF InsertConversation, IdsInv, StoreTypeOK, ConvIds

\* A handler never reuses an id, and goes on working for the sender it began with.
LEMMA HandlerKeepsIds ==
  ASSUME Kept, SafeInv, NEW h \in Handlers, HandlerStep(h)
  PROVE  IdsInv'
<1>1. HandlerRows
  BY HandlerRowsStep
<1>2. nextConv \in Nat /\ \A c \in ConvIds : c \in Nat
  BY StoreAssumption DEF Kept, StoreTypeOK, ConvIds
<1>3. ASSUME NEW k \in Senders, InsertConversation(k)
      PROVE  /\ nextConv \in ConvIds /\ ~Exists(nextConv)
             /\ nextConv' = nextConv + 1
             /\ convs'[nextConv] = NewConversation(k)
             /\ \A c \in ConvIds : c # nextConv => convs'[c] = convs[c]
  BY <1>3, InsertedIsNew DEF Kept, SafeInv
<1>4. ASSUME NEW c \in ConvIds, Exists(c)'
      PROVE  c < nextConv'
  BY <1>1, <1>2, <1>3, <1>4 DEF HandlerRows, SafeInv, IdsInv, Exists
<1>5. ASSUME NEW g \in Handlers, hs'[g].pc \notin Early
      PROVE  /\ hs'[g].conv < nextConv'
             /\ Exists(hs[g].conv)' => convs'[hs'[g].conv].customer = SenderOf[Event(g)]'
  <2>1. Event(g)' = Event(g)
    BY <1>5, HandlerLocals DEF Event
  <2>2. CASE hs[g].pc \notin Early /\ hs'[g].conv = hs[g].conv
    <3>1. /\ hs[g].conv \in ConvIds
          /\ hs[g].conv < nextConv
          /\ Exists(hs[g].conv) => convs[hs[g].conv].customer = SenderOf[Event(g)]
      BY <2>2, RunningType DEF SafeInv, IdsInv
    <3>2. CASE \E k \in Senders : InsertConversation(k)
      BY <1>2, <1>3, <2>1, <2>2, <3>1, <3>2 DEF Exists
    <3>3. CASE /\ \A c \in ConvIds :
                    /\ Exists(c)' <=> Exists(c)
                    /\ Exists(c) => Carries(convs'[c], convs[c])
               /\ nextConv' = nextConv
      BY <2>1, <2>2, <3>1, <3>3 DEF Carries, Exists
    <3>4. QED
      BY <1>1, <3>2, <3>3 DEF HandlerRows
  <2>3. CASE /\ hs'[g].conv \in Joinable(SenderOf[Event(g)])
             /\ UNCHANGED <<convs, nextConv>>
    <3>1. /\ hs'[g].conv \in ConvIds /\ Exists(hs'[g].conv)
          /\ convs[hs'[g].conv].customer = SenderOf[Event(g)]
      BY <2>3 DEF Joinable
    <3>2. QED
      BY <2>1, <2>3, <3>1 DEF SafeInv, IdsInv, Exists
  <2>4. CASE /\ ~At(g, "idle")
             /\ hs'[g].conv = nextConv
             /\ InsertConversation(SenderOf[Event(g)])
    <3>1. SenderOf[Event(g)] \in Senders
      BY <2>4, EventType, StoreAssumption DEF Kept, InboundTypeOK
    <3>2. QED
      <4>1. /\ nextConv' = nextConv + 1
            /\ convs'[nextConv] = NewConversation(SenderOf[Event(g)])
        BY <1>3, <2>4, <3>1
      <4>2. convs'[nextConv].customer = SenderOf[Event(g)]
        BY <4>1 DEF NewConversation
      <4>3. QED
        BY <1>2, <2>1, <2>4, <4>1, <4>2
  <2>5. QED
    BY <1>5, <2>2, <2>3, <2>4, HandlerLocals
<1>6. QED
  BY <1>4, <1>5 DEF IdsInv

\* What becomes of a conversation row that existed or a handler inserted.
LEMMA HandlerRowCases ==
  ASSUME Kept, SafeInv, NEW h \in Handlers, HandlerStep(h), NEW c \in ConvIds
  PROVE  /\ Exists(c) => Exists(c)' /\ Carries(convs'[c], convs[c])
         /\ Exists(c)' /\ ~Exists(c) =>
              \E k \in Senders : convs'[c] = NewConversation(k)
<1>1. HandlerRows
  BY HandlerRowsStep
<1>2. ASSUME NEW k \in Senders, InsertConversation(k)
      PROVE  /\ Exists(c) => Exists(c)' /\ Carries(convs'[c], convs[c])
             /\ Exists(c)' /\ ~Exists(c) => convs'[c] = NewConversation(k)
  <2>1. /\ ~Exists(nextConv)
        /\ convs'[nextConv] = NewConversation(k)
        /\ c # nextConv => convs'[c] = convs[c]
    BY <1>2, InsertedIsNew DEF Kept, SafeInv
  <2>2. Exists(c) => convs[c] \in Conversation
    BY DEF Kept, StoreTypeOK, Exists
  <2>3. Exists(c) => Carries(convs[c], convs[c])
    BY <2>2 DEF Carries, Conversation
  <2>4. QED
    BY <2>1, <2>3 DEF Exists
<1>3. QED
  BY <1>1, <1>2 DEF HandlerRows

\* A handler files a message under a conversation of its sender.
LEMMA HandlerKeepsFiled ==
  ASSUME Kept, SafeInv, NEW h \in Handlers, HandlerStep(h)
  PROVE  FiledUnderSender'
<1>. SUFFICES ASSUME NEW row \in inbox'
              PROVE  Exists(row[2])' /\ convs'[row[2]].customer = SenderOf[row[1]]
  BY DEF FiledUnderSender
<1>1. CASE row \in inbox
  <2>1. row[2] \in ConvIds
    BY <1>1 DEF Kept, StoreTypeOK
  <2>2. Exists(row[2]) /\ convs[row[2]].customer = SenderOf[row[1]]
    BY <1>1 DEF SafeInv, FiledUnderSender
  <2>3. QED
    BY <2>1, <2>2, HandlerRowCases DEF Carries
<1>2. CASE /\ hs[h].pc \notin Early
           /\ Exists(hs[h].conv)
           /\ row = <<Event(h), hs[h].conv>>
           /\ UNCHANGED convs
  BY <1>2 DEF SafeInv, IdsInv, Exists
<1>3. QED
  BY <1>1, <1>2, HandlerInbox

\* A handler leaves no stored message without an unread mark or its own bump.
LEMMA HandlerKeepsUnseen ==
  ASSUME Kept, SafeInv, NEW h \in Handlers, HandlerStep(h),
         faults' = faults, UNCHANGED staffVars
  PROVE  UnseenIsUnread'
<1>. SUFFICES ASSUME faults = 0, NEW row \in inbox', row \notin seen, row \notin moved'
              PROVE  \/ convs'[row[2]].unreadCount > 0
                     \/ \E g \in Handlers : At(g, "bump")' /\ hs'[g].conv = row[2]
                     \/ \E r \in Requests : rs[r].pc = "read" /\ rs[r].conv = row[2]
  BY DEF UnseenIsUnread, staffVars
<1>1. CASE At(h, "bump")' /\ hs'[h].conv = row[2]
  BY <1>1
<1>2. CASE row \in inbox /\ row \notin moved
  <2>1. /\ row[2] \in ConvIds
        /\ Exists(row[2])
        /\ convs[row[2]] \in Conversation
    BY <1>2 DEF SafeInv, FiledUnderSender, Kept, StoreTypeOK, Exists
  <2>2. convs[row[2]].unreadCount \in Nat /\ Exists(row[2])'
        /\ convs'[row[2]] \in Conversation
    BY <2>1, HandlerRowCases, HandlerStepKept DEF Conversation, Kept, StoreTypeOK, Exists
  <2>3. convs'[row[2]].unreadCount >= convs[row[2]].unreadCount
        /\ convs'[row[2]].unreadCount \in Nat
    BY <2>1, <2>2, HandlerRowCases DEF Carries, Conversation
  <2>4. CASE convs[row[2]].unreadCount > 0
    BY <2>2, <2>3, <2>4
  <2>5. ASSUME NEW g \in Handlers, At(g, "bump"), hs[g].conv = row[2]
        PROVE  \/ convs'[row[2]].unreadCount > 0
               \/ At(g, "bump")' /\ hs'[g].conv = row[2]
    <3>1. CASE g = h
      <4>1. BumpUnread(h)
        BY <2>5, <3>1
          DEF HandlerStep, FindCustomer, CreateCustomer, FindConversation, CreateConversation,
              StoreMessage, AcceptRating, RefuseRating, SplitConversation,
              MoveMessage, LoadSettings, CreateSettings, CountMessages, PrepareReplies,
              SendReply, SendFails, RepliesDone, InterpretSelection, SetDepartment,
              AutoAssign, At
      <4>2. convs' = [convs EXCEPT ![row[2]] =
                        [convs[row[2]] EXCEPT !.unreadCount = @ + 1]]
        BY <2>1, <2>5, <3>1, <4>1 DEF BumpUnread, UpdateConversation
      <4>3. convs'[row[2]].unreadCount = convs[row[2]].unreadCount + 1
        BY <2>1, <4>2 DEF Kept, StoreTypeOK, Conversation
      <4>4. QED
        BY <2>2, <4>3
    <3>2. CASE g # h
      BY <2>5, <3>2, OtherHandlers DEF At
    <3>3. QED
      BY <3>1, <3>2
  <2>6. QED
    BY <1>2, <2>4, <2>5 DEF SafeInv, UnseenIsUnread
<1>3. CASE /\ row = <<Event(h), hs[h].conv>>
           /\ At(h, "bump")' /\ hs'[h].conv = hs[h].conv
  <2>1. row[2] = hs[h].conv
    BY <1>3
  <2>2. QED
    BY <1>1, <1>3, <2>1
<1>4. row \in inbox /\ moved \subseteq moved' => row \notin moved
  OBVIOUS
<1>5. QED
  BY <1>2, <1>3, <1>4, HandlerInbox

\* A handler leaves a rating, asked for or given, only where somebody resolved.
LEMMA HandlerKeepsRating ==
  ASSUME Kept, SafeInv, NEW h \in Handlers, HandlerStep(h)
  PROVE  RatingIsAttributable'
<1>. SUFFICES ASSUME NEW c \in ConvIds, Exists(c)',
                     convs'[c].awaitingRating \/ convs'[c].customerRating # 0
              PROVE  convs'[c].resolvedBy # Nobody
  BY DEF RatingIsAttributable
<1>1. CASE Exists(c)
  BY <1>1, HandlerRowCases DEF Carries, SafeInv, RatingIsAttributable
<1>2. CASE ~Exists(c)
  <2>1. PICK k \in Senders : convs'[c] = NewConversation(k)
    BY <1>2, HandlerRowCases
  <2>2. ~convs'[c].awaitingRating /\ convs'[c].customerRating = 0
    BY <2>1 DEF NewConversation
  <2>3. QED
    BY <2>2
<1>3. QED
  BY <1>1, <1>2

\* A handler neither resolves nor closes a conversation.
LEMMA HandlerKeepsAudit ==
  ASSUME Kept, SafeInv, NEW h \in Handlers, HandlerStep(h),
         faults' = faults, UNCHANGED staffVars
  PROVE  AuditTrail'
<1>1. ASSUME NEW c \in ConvIds, Exists(c)'
      PROVE  /\ convs'[c].resolvedBy # Nobody =>
                  Exists(c) /\ convs'[c].resolvedBy = convs[c].resolvedBy
             /\ convs'[c].status = "CLOSED" =>
                  Exists(c) /\ convs[c].status = "CLOSED"
  <2>1. CASE Exists(c)
    BY <2>1, HandlerRowCases DEF Carries
  <2>2. CASE ~Exists(c)
    <3>1. PICK k \in Senders : convs'[c] = NewConversation(k)
      BY <1>1, <2>2, HandlerRowCases
    <3>2. convs'[c].resolvedBy = Nobody /\ convs'[c].status = "OPEN"
      BY <3>1 DEF NewConversation
    <3>3. QED
      BY <3>2
  <2>3. QED
    BY <2>1, <2>2
<1>2. audit' = audit /\ rs' = rs
  BY DEF staffVars
<1>3. ASSUME NEW c \in ConvIds, faults = 0, Exists(c)'
      PROVE  /\ convs'[c].resolvedBy # Nobody =>
                  \/ [op |-> "resolve", user |-> convs'[c].resolvedBy, conv |-> c] \in audit
                  \/ \E r \in Requests : /\ Auditing(r, "resolve", c)
                                         /\ rs[r].user = convs'[c].resolvedBy
             /\ convs'[c].status = "CLOSED" =>
                  \/ \E e \in audit : e.conv = c /\ e.op \in {"close", "status"}
                  \/ \E r \in Requests : Auditing(r, "close", c) \/ Auditing(r, "status", c)
  BY <1>1, <1>3 DEF SafeInv, AuditTrail
<1>4. QED
  BY <1>2, <1>3 DEF AuditTrail, Auditing
-----------------------------------------------------------------------------
\* A request that checked that its conversation has not ended, and is about to
\* write another status.
Ends(r) == Writing(r, "resolve") \/ Writing(r, "status")

\* What request r may do to a conversation row: whatever it loses or gains,
\* the request has yet to read the messages, or to write the audit log.
RequestCarries(r, c, new, old) ==
  /\ new.customer = old.customer /\ new.status \in Status
  /\ new.unreadCount # old.unreadCount => rs'[r].pc = "read" /\ rs'[r].conv = c
  /\ new.resolvedBy # old.resolvedBy =>
       /\ Auditing(r, "resolve", c)'
       /\ rs'[r].user = new.resolvedBy
  /\ new.awaitingRating \/ new.customerRating # 0 =>
       old.awaitingRating \/ old.customerRating # 0 \/ new.resolvedBy # Nobody
  /\ new.resolvedBy = Nobody => old.resolvedBy = Nobody
  /\ new.customerRating = old.customerRating
  /\ \/ new.awaitingRating = old.awaitingRating
     \/ Ends(r) /\ rs[r].conv = c /\ new.status \in Ended
  /\ new.status \in {old.status, "CLOSED"} \/ (Ends(r) /\ rs[r].conv = c)
  /\ new.status = "CLOSED" =>
       \/ old.status = "CLOSED"
       \/ Auditing(r, "close", c)' \/ Auditing(r, "status", c)'

\* The effect of a request's step on the conversation rows: those it deletes
\* leave no message behind.
RequestRows(r) ==
  \/ /\ \A c \in ConvIds :
          IF Exists(c)'
            THEN Exists(c) /\ RequestCarries(r, c, convs'[c], convs[c])
            ELSE Exists(c) => Writing(r, "delete") /\ \A row \in inbox' : row[2] # c
     /\ nextConv' = nextConv
  \/ \E k \in Senders : InsertConversation(k)

\* A row left alone carries over whatever the request.
LEMMA SameRowCarries ==
  ASSUME StoreTypeOK, NEW r, NEW c \in ConvIds, Exists(c)
  PROVE  RequestCarries(r, c, convs[c], convs[c])
BY DEF RequestCarries, StoreTypeOK, Exists, Conversation

\* An UPDATE that carries its row over touches that row only.
LEMMA RequestUpdates ==
  ASSUME KeptByStaff, NEW r \in Requests, NEW row, rs[r].conv \in ConvIds,
         Exists(rs[r].conv) =>
           RequestCarries(r, rs[r].conv, row, convs[rs[r].conv]),
         UpdateConversation(rs[r].conv, row), UNCHANGED butConvs
  PROVE  RequestRows(r)
<1>1. \A c \in ConvIds : convs'[c] # convs[c] =>
        c = rs[r].conv /\ Exists(c) /\ convs'[c] = row
  BY DEF UpdateConversation, KeptByStaff, StoreTypeOK
<1>2. \A c \in ConvIds : Exists(c) => RequestCarries(r, c, convs[c], convs[c])
  BY SameRowCarries DEF KeptByStaff
<1>3. nextConv' = nextConv
  BY DEF butConvs
<1>4. ASSUME NEW c \in ConvIds, Exists(c)'
      PROVE  Exists(c) /\ RequestCarries(r, c, convs'[c], convs[c])
  <2>1. CASE convs'[c] = convs[c]
    BY <1>2, <1>4, <2>1 DEF Exists
  <2>2. CASE convs'[c] # convs[c]
    BY <1>1, <2>2
  <2>3. QED
    BY <2>1, <2>2
<1>5. ASSUME NEW c \in ConvIds, Exists(c)
      PROVE  Exists(c)'
  <2>1. RequestCarries(r, c, convs'[c], convs[c])
    BY <1>1, <1>2, <1>5
  <2>2. convs'[c].status \in Status
    BY <2>1 DEF RequestCarries
  <2>3. QED
    BY <2>2 DEF Exists, Absent, Status
<1>6. QED
  BY <1>3, <1>4, <1>5 DEF RequestRows

\* Every statement of a request changes the table of conversations in one of
\* the ways RequestRows names.
LEMMA RequestRowsStep ==
  ASSUME KeptByStaff, NEW r \in Requests, RequestStep(r)
  PROVE  RequestRows(r)
<1>. DEFINE c == rs[r].conv
<1>1. CASE UNCHANGED <<convs, nextConv>>
  <2>1. ASSUME NEW d \in ConvIds, Exists(d)'
        PROVE  Exists(d) /\ RequestCarries(r, d, convs'[d], convs[d])
    BY <1>1, <2>1, SameRowCarries DEF KeptByStaff, Exists
  <2>2. QED
    BY <1>1, <2>1 DEF RequestRows, Exists
<1>2. CASE Writing(r, "create") /\ InsertConversation(rs[r].arg)
  BY <1>2 DEF RequestRows, Writing, KeptByStaff, RequestInv
<1>3. CASE /\ Writing(r, "delete") /\ convs' = [convs EXCEPT ![c] = Absent]
           /\ inbox' = {row \in inbox : row[2] # c} /\ UNCHANGED nextConv
  <2>1. ASSUME NEW d \in ConvIds, Exists(d)'
        PROVE  Exists(d) /\ RequestCarries(r, d, convs'[d], convs[d])
    <3>1. d # c /\ convs'[d] = convs[d]
      BY <1>3, <2>1 DEF Exists, KeptByStaff, StoreTypeOK
    <3>2. QED
      BY <2>1, <3>1, SameRowCarries DEF KeptByStaff, Exists
  <2>2. ASSUME NEW d \in ConvIds, ~Exists(d)', Exists(d)
        PROVE  \A row \in inbox' : row[2] # d
    BY <1>3, <2>2 DEF Exists, KeptByStaff, StoreTypeOK
  <2>3. QED
    BY <1>3, <2>1, <2>2 DEF RequestRows
<1>4. ASSUME rs[r].pc # "idle", rs[r].op # "create"
      PROVE  /\ c \in ConvIds
             /\ Exists(c) => convs[c] \in Conversation
             /\ rs[r] \in Request /\ rs[r].user \in Users
             /\ rs \in [Requests -> Request]
  BY <1>4, WorkingType DEF Exists, Rows, KeptByStaff, StaffTypeOK
<1>5. ASSUME NEW a, NEW op \in {"assign", "handoff", "unassign"}, NEW pc,
             Write(r, op, [Row(r) EXCEPT !.assignedTo = a], pc)
      PROVE  RequestRows(r)
  <2>1. c \in ConvIds /\ (Exists(c) => convs[c] \in Conversation)
    BY <1>4, <1>5 DEF Write, Writing
  <2>2. Exists(c) => RequestCarries(r, c, [Row(r) EXCEPT !.assignedTo = a], convs[c])
    BY <2>1 DEF RequestCarries, Conversation, Status, Row
  <2>3. QED
    BY <1>5, <2>1, <2>2, RequestUpdates DEF Write
<1>6. CASE Write(r, "close", [Row(r) EXCEPT !.status = "CLOSED"], "audit")
  <2>1. /\ c \in ConvIds /\ (Exists(c) => convs[c] \in Conversation)
        /\ Auditing(r, "close", c)'
    BY <1>4, <1>6 DEF Write, Writing, Goto_, Auditing, Request
  <2>2. Exists(c) => RequestCarries(r, c, [Row(r) EXCEPT !.status = "CLOSED"], convs[c])
    BY <2>1 DEF RequestCarries, Conversation, Status, Row
  <2>3. QED
    BY <1>6, <2>1, <2>2, RequestUpdates DEF Write
<1>7. CASE Write(r, "status", [Row(r) EXCEPT !.status = rs[r].arg], "audit")
  <2>1. /\ c \in ConvIds /\ (Exists(c) => convs[c] \in Conversation)
        /\ Auditing(r, "status", c)' /\ Ends(r) /\ rs[r].arg \in Status
    BY <1>4, <1>7 DEF Write, Writing, Goto_, Auditing, Request, KeptByStaff, RequestInv, Ends
  <2>2. Exists(c) => RequestCarries(r, c, [Row(r) EXCEPT !.status = rs[r].arg], convs[c])
    BY <2>1 DEF RequestCarries, Conversation, Status, Row
  <2>3. QED
    BY <1>7, <2>1, <2>2, RequestUpdates DEF Write
<1>8. CASE Write(r, "resolve",
             [Row(r) EXCEPT !.status = "RESOLVED", !.awaitingRating = TRUE,
                            !.resolvedBy = rs[r].user], "audit")
  <2>1. /\ c \in ConvIds /\ (Exists(c) => convs[c] \in Conversation)
        /\ Auditing(r, "resolve", c)' /\ Ends(r) /\ rs'[r].user = rs[r].user
        /\ rs[r].user # Nobody
    BY <1>4, <1>8, StoreAssumption DEF Write, Writing, Goto_, Auditing, Request, Users, Ends
  <2>2. Exists(c) => RequestCarries(r, c,
          [Row(r) EXCEPT !.status = "RESOLVED", !.awaitingRating = TRUE,
                         !.resolvedBy = rs[r].user], convs[c])
    BY <2>1 DEF RequestCarries, Conversation, Status, Ended, Row
  <2>3. QED
    BY <1>8, <2>1, <2>2, RequestUpdates DEF Write
<1>9. CASE /\ rs[r].pc = "respond" /\ UNCHANGED butConvs
           /\ UpdateConversation(c, [convs[c] EXCEPT !.firstResponse = TRUE])
  <2>1. c \in ConvIds /\ (Exists(c) => convs[c] \in Conversation)
    BY <1>4, <1>9 DEF KeptByStaff, RequestInv
  <2>2. Exists(c) => RequestCarries(r, c, [convs[c] EXCEPT !.firstResponse = TRUE], convs[c])
    BY <2>1 DEF RequestCarries, Conversation, Status
  <2>3. QED
    BY <1>9, <2>1, <2>2, RequestUpdates
<1>10. CASE /\ Writing(r, "list") /\ Goto_(r, "read") /\ UNCHANGED butConvs
            /\ UpdateConversation(c, [convs[c] EXCEPT !.unreadCount = 0])
  <2>1. /\ c \in ConvIds /\ (Exists(c) => convs[c] \in Conversation)
        /\ rs'[r].pc = "read" /\ rs'[r].conv = c
    BY <1>4, <1>10 DEF Writing, Goto_, Request
  <2>2. Exists(c) => RequestCarries(r, c, [convs[c] EXCEPT !.unreadCount = 0], convs[c])
    BY <2>1 DEF RequestCarries, Conversation, Status
  <2>3. QED
    BY <1>10, <2>1, <2>2, RequestUpdates
<1>11. CASE CreateForCustomer(r) \/ DeleteConversation(r)
  BY <1>1, <1>2, <1>3, <1>11 DEF CreateForCustomer, DeleteConversation, Begin, storeVars
<1>12. CASE Assign(r) \/ Handoff(r) \/ Unassign(r) \/ Close(r)
  BY <1>1, <1>5, <1>6, <1>12
    DEF Assign, Handoff, Unassign, Close, Begin, storeVars, InsertNote
<1>13. CASE Resolve(r) \/ UpdateStatus(r)
  BY <1>1, <1>7, <1>8, <1>13 DEF Resolve, UpdateStatus, Begin, storeVars
<1>14. CASE SendMessage(r) \/ ListMessages(r)
  BY <1>1, <1>9, <1>10, <1>14 DEF SendMessage, ListMessages, Begin, storeVars
<1>15. CASE AddNote(r) \/ WriteAudit(r)
  BY <1>1, <1>15 DEF AddNote, WriteAudit, Begin, storeVars, InsertNote
<1>16. QED
  BY <1>11, <1>12, <1>13, <1>14, <1>15 DEF RequestStep

\* The other requests go on, and a request that has to read or to write the
\* audit log does so in its next step.
LEMMA RequestProgress ==
  ASSUME KeptByStaff, NEW r \in Requests, RequestStep(r)
  PROVE  /\ \A q \in Requests : q # r => rs'[q] = rs[q]
         /\ inbox' \subseteq inbox
         /\ seen \subseteq seen'
         /\ audit \subseteq audit'
         /\ rs[r].pc = "read" => \A row \in inbox : row[2] = rs[r].conv => row \in seen'
         /\ rs[r].pc = "audit" =>
              [op |-> rs[r].op, user |-> rs[r].user, conv |-> rs[r].conv] \in audit'
<1>1. rs \in [Requests -> Request]
  BY DEF KeptByStaff, StaffTypeOK
<1>2. \A q \in Requests : q # r => rs'[q] = rs[q]
  BY <1>1
    DEF RequestStep, CreateForCustomer, Assign, Handoff, Unassign, Close, Resolve,
        UpdateStatus, DeleteConversation, AddNote, WriteAudit, SendMessage,
        ListMessages, Begin, Write, InsertNote, Goto_, Done
<1>3. /\ seen \subseteq seen'
      /\ audit \subseteq audit'
  BY DEF RequestStep, CreateForCustomer, Assign, Handoff, Unassign, Close, Resolve,
         UpdateStatus, DeleteConversation, AddNote, WriteAudit, SendMessage,
         ListMessages, Begin, Write, InsertNote
<1>4. inbox' \subseteq inbox
  BY DEF RequestStep, CreateForCustomer, Assign, Handoff, Unassign, Close, Resolve,
         UpdateStatus, DeleteConversation, AddNote, WriteAudit, SendMessage,
         ListMessages, Begin, Write, InsertNote, storeVars, butConvs, butNewConv
<1>5. rs[r].pc = "read" => \A row \in inbox : row[2] = rs[r].conv => row \in seen'
  BY DEF RequestStep, CreateForCustomer, Assign, Handoff, Unassign, Close, Resolve,
         UpdateStatus, DeleteConversation, AddNote, WriteAudit, SendMessage,
         ListMessages, Begin, Write, Writing
<1>6. rs[r].pc = "audit" =>
        [op |-> rs[r].op, user |-> rs[r].user, conv |-> rs[r].conv] \in audit'
  BY DEF RequestStep, CreateForCustomer, Assign, Handoff, Unassign, Close, Resolve,
         UpdateStatus, DeleteConversation, AddNote, WriteAudit, SendMessage,
         ListMessages, Begin, Write, Writing
<1>7. QED
  BY <1>2, <1>3, <1>4, <1>5, <1>6

\* What becomes of a conversation row.
LEMMA RequestRowCases ==
  ASSUME KeptByStaff, SafeInv, NEW r \in Requests, RequestStep(r), NEW c \in ConvIds
  PROVE  /\ nextConv' \in Nat /\ nextConv \in Nat /\ nextConv' >= nextConv
         /\ Exists(c) /\ Exists(c)' => RequestCarries(r, c, convs'[c], convs[c])
         /\ Exists(c) /\ ~Exists(c)' => \A row \in inbox' : row[2] # c
         /\ Exists(c)' /\ ~Exists(c) =>
              /\ c = nextConv /\ nextConv' = nextConv + 1
              /\ \E k \in Senders : convs'[c] = NewConversation(k)
<1>1. RequestRows(r)
  BY RequestRowsStep
<1>2. nextConv \in Nat
  BY StoreAssumption DEF KeptByStaff, StoreTypeOK
<1>3. ASSUME NEW k \in Senders, InsertConversation(k)
      PROVE  /\ ~Exists(nextConv)
             /\ nextConv' = nextConv + 1
             /\ convs'[nextConv] = NewConversation(k)
             /\ c # nextConv => convs'[c] = convs[c]
  BY <1>3, InsertedIsNew DEF KeptByStaff, SafeInv
<1>4. CASE \E k \in Senders : InsertConversation(k)
  BY <1>2, <1>3, <1>4, SameRowCarries DEF KeptByStaff, Exists
<1>5. QED
  BY <1>1, <1>2, <1>4 DEF RequestRows

\* No statement of a request breaks SafeInv.
LEMMA RequestKeepsSafe ==
  ASSUME KeptByStaff, HandlerInv, SafeInv, faults' = faults, UNCHANGED inboundVars,
         NEW r \in Requests, RequestStep(r)
  PROVE  SafeInv'
<1>1. hs' = hs /\ moved' = moved
  BY DEF inboundVars
<1>2. inbox' \subseteq inbox /\ \A row \in inbox : row[2] \in ConvIds
  BY RequestProgress DEF KeptByStaff, StoreTypeOK
<1>3. IdsInv'
  <2>1. ASSUME NEW c \in ConvIds, Exists(c)'
        PROVE  c < nextConv'
    <3>1. c \in Nat
      BY DEF ConvIds
    <3>2. /\ nextConv' \in Nat /\ nextConv \in Nat /\ nextConv' >= nextConv
          /\ ~Exists(c) => c = nextConv /\ nextConv' = nextConv + 1
      BY <2>1, RequestRowCases
    <3>3. Exists(c) => c < nextConv
      BY DEF SafeInv, IdsInv
    <3>4. QED
      BY <3>1, <3>2, <3>3
  <2>2. ASSUME NEW h \in Handlers, hs[h].pc \notin Early
        PROVE  /\ hs[h].conv < nextConv'
               /\ Exists(hs[h].conv)' => convs'[hs[h].conv].customer = SenderOf[Event(h)]
    <3>1. /\ hs[h].conv \in ConvIds /\ hs[h].conv \in Nat
          /\ hs[h].conv < nextConv
          /\ Exists(hs[h].conv) => convs[hs[h].conv].customer = SenderOf[Event(h)]
      BY <2>2 DEF HandlerInv, SafeInv, IdsInv, ConvIds
    <3>2. nextConv' \in Nat /\ nextConv \in Nat /\ nextConv' >= nextConv
      BY <3>1, RequestRowCases
    <3>3. hs[h].conv < nextConv' /\ hs[h].conv # nextConv
      BY <3>1, <3>2
    <3>4. Exists(hs[h].conv)' => /\ Exists(hs[h].conv)
                                /\ convs'[hs[h].conv].customer = convs[hs[h].conv].customer
      BY <1>1, <3>1, <3>3, RequestRowCases DEF RequestCarries, Exists
    <3>5. QED
      BY <3>1, <3>3, <3>4
  <2>3. QED
    BY <1>1, <2>1, <2>2 DEF IdsInv, Event
<1>4. FiledUnderSender'
  <2>1. ASSUME NEW row \in inbox'
        PROVE  Exists(row[2])' /\ convs'[row[2]].customer = SenderOf[row[1]]
    <3>1. /\ row[2] \in ConvIds /\ Exists(row[2])
          /\ convs[row[2]].customer = SenderOf[row[1]]
      BY <1>2, <2>1 DEF SafeInv, FiledUnderSender
    <3>2. QED
      BY <2>1, <3>1, RequestRowCases DEF RequestCarries
  <2>2. QED
    BY <2>1 DEF FiledUnderSender
<1>5. UnseenIsUnread'
  <2>1. ASSUME faults = 0, NEW row \in inbox', row \notin seen', row \notin moved
        PROVE  \/ convs'[row[2]].unreadCount > 0
               \/ \E h \in Handlers : At(h, "bump") /\ hs[h].conv = row[2]
               \/ \E q \in Requests : rs'[q].pc = "read" /\ rs'[q].conv = row[2]
    <3>1. /\ row \in inbox /\ row \notin seen /\ row[2] \in ConvIds
          /\ Exists(row[2]) /\ Exists(row[2])'
      BY <1>2, <1>4, <2>1, RequestProgress DEF SafeInv, FiledUnderSender
    <3>2. CASE convs[row[2]].unreadCount > 0
      BY <3>1, <3>2, RequestRowCases DEF RequestCarries
    <3>3. ASSUME NEW q \in Requests, rs[q].pc = "read", rs[q].conv = row[2]
          PROVE  rs'[q] = rs[q]
      BY <2>1, <3>1, <3>3, RequestProgress
    <3>4. QED
      BY <2>1, <3>1, <3>2, <3>3 DEF SafeInv, UnseenIsUnread
  <2>2. QED
    BY <1>1, <2>1 DEF UnseenIsUnread, At
<1>6. RatingIsAttributable'
  <2>1. ASSUME NEW c \in ConvIds, Exists(c)',
               convs'[c].awaitingRating \/ convs'[c].customerRating # 0
        PROVE  convs'[c].resolvedBy # Nobody
    <3>1. CASE Exists(c)
      BY <2>1, <3>1, RequestRowCases DEF RequestCarries, SafeInv, RatingIsAttributable
    <3>2. CASE ~Exists(c)
      <4>1. PICK k \in Senders : convs'[c] = NewConversation(k)
        BY <2>1, <3>2, RequestRowCases
      <4>2. ~convs'[c].awaitingRating /\ convs'[c].customerRating = 0
        BY <4>1 DEF NewConversation
      <4>3. QED
        BY <2>1, <4>2
    <3>3. QED
      BY <3>1, <3>2
  <2>2. QED
    BY <2>1 DEF RatingIsAttributable
<1>7. AuditTrail'
  <2>1. ASSUME NEW q \in Requests, NEW op, NEW c, Auditing(q, op, c)
        PROVE  \/ Auditing(q, op, c)' /\ rs'[q].user = rs[q].user
               \/ [op |-> op, user |-> rs[q].user, conv |-> c] \in audit'
    BY <2>1, RequestProgress DEF Auditing
  <2>2. audit \subseteq audit'
    BY RequestProgress
  <2>3. ASSUME NEW c \in ConvIds, faults = 0, Exists(c)', convs'[c].resolvedBy # Nobody
        PROVE  \/ [op |-> "resolve", user |-> convs'[c].resolvedBy, conv |-> c] \in audit'
               \/ \E q \in Requests : /\ Auditing(q, "resolve", c)'
                                      /\ rs'[q].user = convs'[c].resolvedBy
    <3>1. CASE ~Exists(c)
      <4>1. PICK k \in Senders : convs'[c] = NewConversation(k)
        BY <2>3, <3>1, RequestRowCases
      <4>2. QED
        BY <2>3, <4>1 DEF NewConversation
    <3>2. CASE Exists(c) /\ convs'[c].resolvedBy = convs[c].resolvedBy
      <4>1. \/ [op |-> "resolve", user |-> convs[c].resolvedBy, conv |-> c] \in audit
            \/ \E q \in Requests : /\ Auditing(q, "resolve", c)
                                   /\ rs[q].user = convs[c].resolvedBy
        BY <2>3, <3>2 DEF SafeInv, AuditTrail
      <4>2. QED
        BY <2>1, <2>2, <3>2, <4>1
    <3>3. CASE Exists(c) /\ convs'[c].resolvedBy # convs[c].resolvedBy
      BY <2>3, <3>3, RequestRowCases DEF RequestCarries
    <3>4. QED
      BY <3>1, <3>2, <3>3
  <2>4. ASSUME NEW c \in ConvIds, faults = 0, Exists(c)', convs'[c].status = "CLOSED"
        PROVE  \/ \E e \in audit' : e.conv = c /\ e.op \in {"close", "status"}
               \/ \E q \in Requests : Auditing(q, "close", c)' \/ Auditing(q, "status", c)'
    <3>1. CASE ~Exists(c)
      <4>1. PICK k \in Senders : convs'[c] = NewConversation(k)
        BY <2>4, <3>1, RequestRowCases
      <4>2. QED
        BY <2>4, <4>1 DEF NewConversation
    <3>2. CASE Exists(c) /\ convs[c].status = "CLOSED"
      <4>1. CASE \E e \in audit : e.conv = c /\ e.op \in {"close", "status"}
        BY <2>2, <4>1
      <4>2. ASSUME NEW q \in Requests, NEW op \in {"close", "status"}, Auditing(q, op, c)
            PROVE  \/ \E e \in audit' : e.conv = c /\ e.op \in {"close", "status"}
                   \/ Auditing(q, op, c)'
        <5>1. /\ [op |-> op, user |-> rs[q].user, conv |-> c].conv = c
              /\ [op |-> op, user |-> rs[q].user, conv |-> c].op = op
          OBVIOUS
        <5>2. QED
          BY <2>1, <4>2, <5>1
      <4>3. QED
        BY <2>4, <3>2, <4>1, <4>2 DEF SafeInv, AuditTrail
    <3>3. CASE Exists(c) /\ convs[c].status # "CLOSED"
      BY <2>4, <3>3, RequestRowCases DEF RequestCarries
    <3>4. QED
      BY <3>1, <3>2, <3>3
  <2>5. QED
    BY <2>3, <2>4 DEF AuditTrail
<1>8. QED
  BY <1>3, <1>4, <1>5, <1>6, <1>7 DEF SafeInv
-----------------------------------------------------------------------------
\* Deliveries, faults and crashes change no row.
LEMMA NoRowChanges ==
  ASSUME Inv, SafeInv, UNCHANGED storeVars,
         UNCHANGED moved, audit \subseteq audit', seen \subseteq seen',
         \A h \in Handlers : hs'[h].pc \in Early
           \/ (hs[h].pc \notin Early /\ hs'[h].conv = hs[h].conv /\ hs'[h].batch = hs[h].batch),
         faults' = faults =>
           /\ UNCHANGED <<rs, seen, audit>>
           /\ \A h \in Handlers : At(h, "bump") => hs'[h] = hs[h],
         faults' # faults => faults' = faults + 1
  PROVE  SafeInv'
<1>1. UNCHANGED <<convs, nextConv, inbox>>
  BY DEF storeVars
<1>2. IdsInv'
  <2>1. ASSUME NEW h \in Handlers, hs'[h].pc \notin Early
        PROVE  /\ hs'[h].conv < nextConv
               /\ convs[hs'[h].conv] # Absent =>
                    convs[hs'[h].conv].customer = SenderOf[Head(hs'[h].batch)]
    BY <2>1 DEF SafeInv, IdsInv, Exists, Event
  <2>2. QED
    BY <1>1, <2>1 DEF SafeInv, IdsInv, Exists, Event
<1>3. FiledUnderSender' /\ RatingIsAttributable'
  BY <1>1 DEF SafeInv, FiledUnderSender, RatingIsAttributable, Exists
<1>4. UnseenIsUnread' /\ AuditTrail'
  <2>1. CASE faults' = faults
    <3>1. \A h \in Handlers : At(h, "bump") => At(h, "bump")' /\ hs'[h].conv = hs[h].conv
      BY <2>1 DEF At
    <3>2. UNCHANGED <<rs, seen, audit, convs, inbox, moved>>
      BY <1>1, <2>1
    <3>3. UnseenIsUnread'
      BY <2>1, <3>1, <3>2 DEF SafeInv, UnseenIsUnread
    <3>4. AuditTrail'
      BY <2>1, <3>2 DEF SafeInv, AuditTrail, Auditing, Exists
    <3>5. QED
      BY <3>3, <3>4
  <2>2. CASE faults' = faults + 1
    <3>1. faults' # 0
      BY <2>2, StoreAssumption DEF Inv, TypeOK, StoreTypeOK
    <3>2. QED
      BY <3>1 DEF UnseenIsUnread, AuditTrail
  <2>3. QED
    BY <2>1, <2>2
<1>5. QED
  BY <1>2, <1>3, <1>4 DEF SafeInv

\* The empty inbox is safe.
LEMMA InitSafe == Init => SafeInv
BY DEF Init, StoreInit, InboundInit, StaffInit, SafeInv, IdsInv, FiledUnderSender,
       UnseenIsUnread, RatingIsAttributable, AuditTrail, Exists, Idle, Fresh, Early

\* No step of a handler or of a request breaks SafeInv.
LEMMA NextSafe == Inv /\ SafeInv /\ [Next]_vars => SafeInv'
<1>. SUFFICES ASSUME Inv, SafeInv, [Next]_vars PROVE SafeInv'
  OBVIOUS
<1>1. Kept /\ KeptByStaff /\ HandlerInv /\ hs \in [Handlers -> Handler]
  BY DEF Inv, TypeOK, Kept, KeptByStaff, InboundTypeOK
<1>2. ASSUME NEW h \in Handlers, HandlerStep(h), UNCHANGED faults, UNCHANGED staffVars
      PROVE  SafeInv'
  BY <1>1, <1>2, HandlerKeepsIds, HandlerKeepsFiled, HandlerKeepsUnseen,
     HandlerKeepsRating, HandlerKeepsAudit DEF SafeInv
<1>3. ASSUME NEW h \in Handlers, NEW b \in Batches, Receive(h, b),
             UNCHANGED faults, UNCHANGED staffVars
      PROVE  SafeInv'
  <2>1. \A g \in Handlers : hs'[g] = hs[g] \/ hs'[g].pc \in Early
    BY <1>1, <1>3 DEF Receive, Continue, Idle, Fresh, Early
  <2>2. \A g \in Handlers : At(g, "bump") => hs'[g] = hs[g]
    BY <1>1, <1>3 DEF Receive, Continue, At
  <2>3. QED
    BY <1>3, <2>1, <2>2, NoRowChanges DEF Receive, staffVars
<1>4. ASSUME NEW h \in Handlers, HandlerFault(h), UNCHANGED staffVars
      PROVE  SafeInv'
  <2>1. \A g \in Handlers : g # h => hs'[g] = hs[g]
    BY <1>1, <1>4 DEF HandlerFault, NextEvent, Throw, Continue
  <2>2. \/ hs'[h].pc \in Early
        \/ hs[h].pc \notin Early /\ hs'[h].conv = hs[h].conv /\ hs'[h].batch = hs[h].batch
    <3>1. CASE NextEvent(h) \/ Throw(h)
      BY <1>1, <3>1 DEF NextEvent, Throw, Continue, Idle, Fresh, Early
    <3>2. CASE /\ hs[h].pc \in {"menu", "send"}
               /\ hs' = [hs EXCEPT ![h] = [@ EXCEPT !.pc = "send", !.out = <<>>]]
      BY <1>1, <3>2 DEF Handler, Early
    <3>3. QED
      BY <1>4, <3>1, <3>2 DEF HandlerFault
  <2>3. faults' = faults + 1 /\ faults' # faults
    BY <1>1, <1>4 DEF HandlerFault, Kept, StoreTypeOK
  <2>4. QED
    BY <1>4, <2>1, <2>2, <2>3, NoRowChanges DEF HandlerFault, others, staffVars
<1>5. ASSUME NEW r \in Requests, RequestStep(r), UNCHANGED faults, UNCHANGED inboundVars
      PROVE  SafeInv'
  BY <1>1, <1>5, RequestKeepsSafe
<1>6. CASE \/ Crash
           \/ (\E r \in Requests : RequestFault(r)) /\ UNCHANGED inboundVars
  <2>1. faults' = faults + 1 /\ faults' # faults
    BY <1>1, <1>6 DEF Crash, RequestFault, Kept, StoreTypeOK
  <2>2. \A g \in Handlers : hs'[g] = hs[g] \/ hs'[g].pc \in Early
    BY <1>6 DEF Crash, inboundVars, Idle, Fresh, Early
  <2>3. QED
    BY <1>6, <2>1, <2>2, NoRowChanges DEF Crash, RequestFault, others, inboundVars
<1>7. CASE UNCHANGED vars
  BY <1>7, NoRowChanges DEF vars, inboundVars, staffVars
<1>8. QED
  BY <1>2, <1>3, <1>4, <1>5, <1>6, <1>7 DEF Next, InboundNext, StaffNext

\* SafeInv holds in every reachable state.
THEOREM Safety == Spec => []SafeInv
<1>1. Inv /\ SafeInv /\ [Next]_vars => SafeInv'
  BY NextSafe
<1>2. QED
  BY <1>1, InitSafe, Invariance, PTL DEF Spec

\* A message is only ever filed under a conversation of the customer who wrote
\* it, for any number of concurrent webhooks, redeliveries, splits, deletions,
\* database errors and crashes.
THEOREM FiledCorrectly == Spec => []FiledUnderSender
<1>1. SafeInv => FiledUnderSender
  BY DEF SafeInv
<1>2. QED
  BY <1>1, Safety, PTL

\* As long as no statement fails, a conversation with a message nobody was
\* shown counts it as unread, however the increments and resets interleave.
THEOREM NothingMissed == Spec => []UnseenIsUnread
<1>1. SafeInv => UnseenIsUnread
  BY DEF SafeInv
<1>2. QED
  BY <1>1, Safety, PTL

\* A rating that is awaited or given can be credited to somebody.
THEOREM RatingsAttributable == Spec => []RatingIsAttributable
<1>1. SafeInv => RatingIsAttributable
  BY DEF SafeInv
<1>2. QED
  BY <1>1, Safety, PTL

\* As long as no statement fails, the audit log names whoever resolved a
\* conversation and records that a closed one was closed.
THEOREM Audited == Spec => []AuditTrail
<1>1. SafeInv => AuditTrail
  BY DEF SafeInv
<1>2. QED
  BY <1>1, Safety, PTL
-----------------------------------------------------------------------------
(***************************************************************************)
(* A rating is final as long as the staff's requests come one at a time:   *)
(* two that resolve the same conversation may pass their checks before     *)
(* either writes, and the second write asks for another rating.  Whether a *)
(* rating is asked for or given is only decided with the status, and with  *)
(* what a request that is about to change it has checked.                  *)
(***************************************************************************)
OneRequest == \A r, q \in Requests : r = q

RatingInv ==
  /\ \A c \in ConvIds : Exists(c) =>
       /\ convs[c].awaitingRating \/ convs[c].customerRating # 0 =>
            convs[c].status \in Ended
       /\ convs[c].customerRating # 0 => ~convs[c].awaitingRating
  /\ \A r \in Requests : Ends(r) /\ Exists(rs[r].conv) =>
       convs[rs[r].conv].status \notin Ended

\* A new conversation has no rating and waits for none.
LEMMA NewIsUnrated ==
  ASSUME NEW k
  PROVE  /\ ~NewConversation(k).awaitingRating
         /\ NewConversation(k).customerRating = 0
         /\ NewConversation(k).status \notin Ended
BY DEF NewConversation, Ended

\* A request about to change a status either was so before, or has just
\* checked that the conversation has not ended.
LEMMA EndsBegins ==
  ASSUME KeptByStaff, NEW r \in Requests, RequestStep(r), Ends(r)'
  PROVE  /\ UNCHANGED convs
         /\ rs'[r].conv \in ConvIds /\ Exists(rs'[r].conv)
         /\ convs[rs'[r].conv].status \notin Ended
<1>1. rs \in [Requests -> Request]
  BY DEF KeptByStaff, StaffTypeOK
<1>2. rs'[r].pc = "write" /\ rs'[r].op \in {"resolve", "status"}
  BY DEF Ends, Writing
<1>3. ASSUME NEW op, NEW u, NEW c, NEW arg, Begin(r, op, u, c, arg)
      PROVE  rs'[r].op = op /\ rs'[r].conv = c /\ UNCHANGED convs
  BY <1>1, <1>3 DEF Begin, storeVars
<1>4. ASSUME NEW pc \in {"read", "respond", "noting", "audit"}, Goto_(r, pc)
      PROVE  FALSE
  BY <1>1, <1>2, <1>4 DEF Goto_, Request
<1>5. ~Done(r) /\ ~InsertNote(r)
  BY <1>1, <1>2, <1>4 DEF Done, NoRequest, InsertNote
<1>6. Resolve(r) \/ UpdateStatus(r)
  BY <1>2, <1>3, <1>4, <1>5
    DEF RequestStep, CreateForCustomer, Assign, Handoff, Unassign, Close,
        DeleteConversation, AddNote, WriteAudit, SendMessage, ListMessages, Write
<1>7. QED
  BY <1>3, <1>4, <1>6 DEF Resolve, UpdateStatus, Write

\* A step that leaves every rating as it is, or takes the one awaited.
RatingStep ==
  \A c \in ConvIds : Exists(c) /\ Exists(c)' =>
    \/ convs'[c].customerRating = convs[c].customerRating
    \/ convs[c].awaitingRating

\* A handler neither ends a conversation nor asks for a rating.
LEMMA HandlerKeepsRatings ==
  ASSUME Kept, KeptByStaff, SafeInv, RatingInv, UNCHANGED staffVars,
         NEW h \in Handlers, HandlerStep(h)
  PROVE  RatingInv' /\ RatingStep
<1>1. ASSUME NEW c \in ConvIds, Exists(c)'
      PROVE  /\ convs'[c].awaitingRating \/ convs'[c].customerRating # 0 =>
                  convs'[c].status \in Ended
             /\ convs'[c].customerRating # 0 => ~convs'[c].awaitingRating
  <2>1. CASE Exists(c)
    <3>1. Carries(convs'[c], convs[c])
      BY <2>1, HandlerRowCases
    <3>2. QED
      BY <2>1, <3>1 DEF Carries, RatingInv
  <2>2. CASE ~Exists(c)
    BY <1>1, <2>2, HandlerRowCases, NewIsUnrated
  <2>3. QED
    BY <2>1, <2>2
<1>2. rs' = rs
  BY DEF staffVars
<1>3. ASSUME NEW r \in Requests, Ends(r), Exists(rs[r].conv)'
      PROVE  convs'[rs[r].conv].status \notin Ended
  <2>1. rs[r].conv \in ConvIds
    BY <1>3, WorkingType DEF Ends, Writing
  <2>2. CASE Exists(rs[r].conv)
    <3>1. convs'[rs[r].conv].status = convs[rs[r].conv].status
      BY <2>1, <2>2, HandlerRowCases DEF Carries
    <3>2. QED
      BY <1>3, <2>2, <3>1 DEF RatingInv
  <2>3. CASE ~Exists(rs[r].conv)
    <3>1. PICK k \in Senders : convs'[rs[r].conv] = NewConversation(k)
      BY <1>2, <1>3, <2>1, <2>3, HandlerRowCases
    <3>2. QED
      BY <3>1, NewIsUnrated
  <2>4. QED
    BY <2>2, <2>3
<1>4. RatingInv'
  BY <1>1, <1>2, <1>3 DEF RatingInv, Ends, Writing
<1>5. RatingStep
  BY HandlerRowCases DEF RatingStep, Carries
<1>6. QED
  BY <1>4, <1>5

\* The only request ends a conversation that has not ended, and asks for a
\* rating only then.
LEMMA RequestKeepsRatings ==
  ASSUME KeptByStaff, SafeInv, RatingInv, OneRequest,
         NEW r \in Requests, RequestStep(r)
  PROVE  RatingInv' /\ RatingStep
<1>1. ASSUME NEW c \in ConvIds, Exists(c)'
      PROVE  /\ convs'[c].awaitingRating \/ convs'[c].customerRating # 0 =>
                  convs'[c].status \in Ended
             /\ convs'[c].customerRating # 0 => ~convs'[c].awaitingRating
  <2>1. CASE Exists(c)
    <3>1. RequestCarries(r, c, convs'[c], convs[c])
      BY <1>1, <2>1, RequestRowCases
    <3>2. CASE Ends(r) /\ rs[r].conv = c
      <4>1. /\ ~convs[c].awaitingRating
            /\ convs[c].customerRating = 0
        BY <2>1, <3>2 DEF RatingInv
      <4>2. QED
        BY <3>1, <4>1 DEF RequestCarries
    <3>3. CASE ~(Ends(r) /\ rs[r].conv = c)
      BY <2>1, <3>1, <3>3 DEF RequestCarries, RatingInv, Ended
    <3>4. QED
      BY <3>2, <3>3
  <2>2. CASE ~Exists(c)
    BY <1>1, <2>2, RequestRowCases, NewIsUnrated
  <2>3. QED
    BY <2>1, <2>2
<1>2. ASSUME NEW q \in Requests, Ends(q)', Exists(rs[q].conv)'
      PROVE  convs'[rs'[q].conv].status \notin Ended
  <2>1. q = r
    BY DEF OneRequest
  <2>2. QED
    BY <1>2, <2>1, EndsBegins
<1>3. RatingInv'
  BY <1>1, <1>2 DEF RatingInv
<1>4. RatingStep
  BY RequestRowCases DEF RatingStep, RequestCarries
<1>5. QED
  BY <1>3, <1>4

\* No step breaks RatingInv.
LEMMA NextRatings ==
  ASSUME OneRequest, Inv, SafeInv, RatingInv, [Next]_vars
  PROVE  RatingInv' /\ RatingStep
<1>1. Kept /\ KeptByStaff
  BY DEF Inv, TypeOK, Kept, KeptByStaff
<1>2. ASSUME NEW h \in Handlers, HandlerStep(h), UNCHANGED staffVars
      PROVE  RatingInv' /\ RatingStep
  BY <1>1, <1>2, HandlerKeepsRatings
<1>3. ASSUME NEW r \in Requests, RequestStep(r)
      PROVE  RatingInv' /\ RatingStep
  BY <1>1, <1>3, RequestKeepsRatings
<1>4. CASE /\ UNCHANGED storeVars
           /\ \A r \in Requests : rs'[r] = rs[r] \/ rs'[r] = NoRequest
  <2>1. convs' = convs
    BY <1>4 DEF storeVars
  <2>2. \A r \in Requests : Ends(r)' => Ends(r) /\ rs'[r] = rs[r]
    BY <1>4 DEF Ends, Writing, NoRequest
  <2>3. QED
    BY <2>1, <2>2 DEF RatingInv, RatingStep, Exists
<1>5. ASSUME NEW r \in Requests, RequestFault(r)
      PROVE  RatingInv' /\ RatingStep
  <2>1. rs \in [Requests -> Request]
    BY <1>1 DEF KeptByStaff, StaffTypeOK
  <2>2. QED
    BY <1>4, <1>5, <2>1 DEF RequestFault, Done
<1>6. CASE Crash
  BY <1>4, <1>6 DEF Crash
<1>7. ASSUME NEW h \in Handlers, HandlerFault(h) \/ \E b \in Batches : Receive(h, b),
             UNCHANGED staffVars
      PROVE  RatingInv' /\ RatingStep
  BY <1>4, <1>7 DEF HandlerFault, Receive, staffVars
<1>8. CASE UNCHANGED vars
  BY <1>4, <1>8 DEF vars, staffVars
<1>9. QED
  BY <1>2, <1>3, <1>5, <1>6, <1>7, <1>8 DEF Next, InboundNext, StaffNext

\* A rating, once given, is never overwritten, by no reply, repeated delivery
\* or concurrent webhook, as long as the staff's requests come one at a time.
THEOREM RatingsFinal ==
  ASSUME OneRequest
  PROVE  Spec => RatingIsFinal
<1>1. Init => RatingInv
  BY DEF Init, StoreInit, StaffInit, RatingInv, Exists, Ends, Writing, NoRequest
<1>2. Inv /\ SafeInv /\ RatingInv /\ [Next]_vars => RatingInv'
  BY NextRatings
<1>3. Inv /\ SafeInv /\ RatingInv /\ [Next]_vars =>
        [\A c \in ConvIds :
           Exists(c) /\ Exists(c)' /\ convs[c].customerRating # 0 =>
             convs'[c].customerRating = convs[c].customerRating]_vars
  <2>1. Inv /\ SafeInv /\ RatingInv /\ [Next]_vars => RatingStep
    BY NextRatings
  <2>2. RatingInv /\ RatingStep =>
          \A c \in ConvIds :
            Exists(c) /\ Exists(c)' /\ convs[c].customerRating # 0 =>
              convs'[c].customerRating = convs[c].customerRating
    BY DEF RatingInv, RatingStep
  <2>3. QED
    BY <2>1, <2>2
<1>4. QED
  BY <1>1, <1>2, <1>3, Invariance, Safety, PTL DEF Spec, RatingIsFinal
-----------------------------------------------------------------------------
(***************************************************************************)
(* Redelivery is idempotent as long as webhooks come one at a time and     *)
(* nobody ends or opens conversations: then a customer never has more than *)
(* one, and what was stored once is found again.  The constraint of the    *)
(* table alone only keeps a message from entering one conversation twice.  *)
(***************************************************************************)
OneHandler == \A h, g \in Handlers : h = g

NothingEnds == StaffOps \intersect {"create", "close", "resolve", "status"} = {}

\* Where a handler has to do with a rating.
Rating == {"rating", "split", "move"}

SerialInv ==
  /\ \A c \in ConvIds : Exists(c) => convs[c].status = "OPEN"
  /\ \A c, d \in ConvIds :
       Exists(c) /\ Exists(d) /\ convs[c].customer = convs[d].customer => c = d
  /\ \A h \in Handlers : ~hs[h].awaiting /\ hs[h].pc \notin Rating
  /\ \A h \in Handlers : At(h, "newConversation") =>
       \A c \in ConvIds : Exists(c) => convs[c].customer # SenderOf[Event(h)]

\* A request only does what the staff use.
OpsInv == \A r \in Requests : rs[r].pc # "idle" => rs[r].op \in StaffOps

\* Operations begin as the staff use them, and do not change on the way.
LEMMA NextOps == Inv /\ OpsInv /\ [Next]_vars => OpsInv'
<1>. SUFFICES ASSUME Inv, OpsInv, [Next]_vars PROVE OpsInv'
  OBVIOUS
<1>1. rs \in [Requests -> Request]
  BY DEF Inv, TypeOK, StaffTypeOK
<1>2. ASSUME NEW r \in Requests, NEW pc, Goto_(r, pc), rs[r].pc # "idle"
      PROVE  OpsInv'
  BY <1>1, <1>2 DEF Goto_, OpsInv, Request
<1>3. ASSUME NEW r \in Requests, Done(r)
      PROVE  OpsInv'
  BY <1>1, <1>3 DEF Done, OpsInv, NoRequest
<1>4. ASSUME NEW r \in Requests, NEW op, NEW u, NEW c, NEW arg, Begin(r, op, u, c, arg)
      PROVE  OpsInv'
  BY <1>1, <1>4 DEF Begin, OpsInv
<1>5. ASSUME NEW r \in Requests, RequestStep(r)
      PROVE  OpsInv'
  BY <1>2, <1>3, <1>4, <1>5
    DEF RequestStep, CreateForCustomer, Assign, Handoff, Unassign, Close, Resolve,
        UpdateStatus, DeleteConversation, AddNote, WriteAudit, SendMessage,
        ListMessages, Write, Writing, InsertNote
<1>6. CASE rs' = rs
  BY <1>6 DEF OpsInv
<1>7. CASE Crash
  BY <1>7 DEF Crash, OpsInv, NoRequest
<1>8. QED
  BY <1>3, <1>5, <1>6, <1>7
    DEF Next, InboundNext, StaffNext, staffVars, vars, RequestFault

\* With every conversation open, no message is a reply to a rating prompt, and
\* a handler only gives a customer a conversation if there is none.
LEMMA SerialHandler ==
  ASSUME Kept, SerialInv, NEW h \in Handlers, HandlerStep(h)
  PROVE  /\ ~hs'[h].awaiting /\ hs'[h].pc \notin Rating
         /\ At(h, "newConversation")' =>
              /\ UNCHANGED convs
              /\ Joinable(SenderOf[Event(h)]) = {}
              /\ Event(h)' = Event(h)
         /\ nextConv' = nextConv \/ CreateConversation(h)
<1>1. hs \in [Handlers -> Handler] /\ hs[h] \in Handler
  BY DEF Kept, InboundTypeOK
<1>2. ~hs[h].awaiting /\ hs[h].pc \notin Rating
  BY DEF SerialInv
<1>3. ~AcceptRating(h) /\ ~RefuseRating(h) /\ ~SplitConversation(h) /\ ~MoveMessage(h)
  BY <1>2 DEF AcceptRating, RefuseRating, SplitConversation, MoveMessage, At, Rating
<1>4. nextConv' = nextConv \/ CreateConversation(h)
  BY <1>3
    DEF HandlerStep, FindCustomer, CreateCustomer, FindConversation, StoreMessage,
        BumpUnread, LoadSettings, CreateSettings, CountMessages, PrepareReplies,
        SendReply, SendFails, RepliesDone, InterpretSelection, SetDepartment,
        AutoAssign, storeVars, butCustomers, butConvs, butInbox, butAutoRows, butSettings
<1>5. CASE FindConversation(h)
  <2>1. ASSUME NEW c \in Joinable(SenderOf[Event(h)]), Snapshot(h, c)
        PROVE  hs'[h].awaiting = FALSE /\ hs'[h].pc = "store"
    <3>1. ~Awaits(c)
      BY DEF SerialInv, Joinable, Awaits
    <3>2. QED
      BY <1>1, <2>1, <3>1 DEF Snapshot, Handler
  <2>2. ASSUME Goto(h, "newConversation")
        PROVE  hs'[h].awaiting = FALSE /\ hs'[h].pc = "newConversation" /\ Event(h)' = Event(h)
    BY <1>1, <1>2, <2>2 DEF Goto, Handler, Event
  <2>3. QED
    BY <1>4, <1>5, <2>1, <2>2 DEF FindConversation, storeVars, At, Rating
<1>6. ASSUME NEW b, Continue(h, b)
      PROVE  hs'[h].awaiting = FALSE /\ hs'[h].pc \in {"idle", "customer"}
  BY <1>1, <1>6 DEF Continue, Idle, Fresh
<1>7. ASSUME NEW step \in Steps \ (Rating \union {"newConversation"}), Goto(h, step)
      PROVE  hs'[h].awaiting = FALSE /\ hs'[h].pc = step
  BY <1>1, <1>2, <1>7 DEF Goto, Handler
<1>8. ASSUME NEW step \in Steps \ (Rating \union {"newConversation"}), NEW x,
             \/ hs' = [hs EXCEPT ![h] = [@ EXCEPT !.pc = step, !.out = x]]
             \/ hs' = [hs EXCEPT ![h] = [@ EXCEPT !.pc = step, !.first = x]]
             \/ hs' = [hs EXCEPT ![h] = [@ EXCEPT !.pc = step, !.conv = x]]
             \/ hs' = [hs EXCEPT ![h].out = x] /\ hs[h].pc = step
      PROVE  hs'[h].awaiting = FALSE /\ hs'[h].pc = step
  <2>1. hs'[h] \in {[hs[h] EXCEPT !.pc = step, !.out = x],
                    [hs[h] EXCEPT !.pc = step, !.first = x],
                    [hs[h] EXCEPT !.pc = step, !.conv = x],
                    [hs[h] EXCEPT !.out = x]}
    BY <1>1, <1>8
  <2>2. QED
    BY <1>1, <1>2, <1>8, <2>1 DEF Handler
<1>9. {"idle", "customer", "newCustomer", "conversation", "store", "bump", "settings",
       "newSettings", "context", "menu", "send", "select", "department", "assign", "answer"}
        \subseteq Steps \ (Rating \union {"newConversation"})
  BY DEF Steps, Rating
<1>10. CASE ~FindConversation(h)
  <2>1. hs'[h].awaiting = FALSE /\ hs'[h].pc \notin Rating \union {"newConversation"}
    <3>1. CASE FindCustomer(h) \/ CreateCustomer(h) \/ StoreMessage(h) \/ BumpUnread(h)
      BY <1>2, <1>6, <1>7, <1>9, <3>1
        DEF FindCustomer, CreateCustomer, StoreMessage, BumpUnread, Throw, NextEvent, Rating
    <3>2. CASE CreateConversation(h) \/ CountMessages(h) \/ PrepareReplies(h) \/ AutoAssign(h)
      BY <1>8, <1>9, <3>2
        DEF CreateConversation, CountMessages, PrepareReplies, AutoAssign
    <3>3. CASE \/ LoadSettings(h) \/ CreateSettings(h) \/ RepliesDone(h)
               \/ InterpretSelection(h) \/ SetDepartment(h)
      BY <1>6, <1>7, <1>8, <1>9, <3>3
        DEF LoadSettings, CreateSettings, RepliesDone, AfterReplies,
            InterpretSelection, SetDepartment, Throw, NextEvent, Rating
    <3>4. CASE SendReply(h) \/ SendFails(h)
      BY <1>8, <1>9, <3>4 DEF SendReply, SendFails, At
    <3>5. QED
      BY <1>3, <1>10, <3>1, <3>2, <3>3, <3>4 DEF HandlerStep
  <2>2. QED
    BY <1>4, <2>1 DEF At
<1>11. QED
  BY <1>5, <1>10

\* The only handler keeps every conversation open, and one for each customer.
LEMMA HandlerKeepsSerial ==
  ASSUME Kept, SafeInv, SerialInv, OneHandler, NEW h \in Handlers, HandlerStep(h)
  PROVE  SerialInv'
<1>1. \A g \in Handlers : g = h
  BY DEF OneHandler
<1>2. CASE nextConv' = nextConv
  <2>1. \A c \in ConvIds :
          /\ Exists(c)' <=> Exists(c)
          /\ Exists(c) => Carries(convs'[c], convs[c])
    <3>1. nextConv \in Nat
      BY StoreAssumption DEF Kept, StoreTypeOK
    <3>2. ~(\E k \in Senders : InsertConversation(k))
      BY <1>2, <3>1 DEF InsertConversation
    <3>3. QED
      BY <3>2, HandlerRowsStep DEF HandlerRows
  <2>2. \A c \in ConvIds : Exists(c)' => convs'[c].status = "OPEN"
    BY <2>1 DEF SerialInv, Carries
  <2>3. \A c, d \in ConvIds :
          Exists(c)' /\ Exists(d)' /\ convs'[c].customer = convs'[d].customer => c = d
    BY <2>1 DEF SerialInv, Carries
  <2>4. At(h, "newConversation")' =>
          \A c \in ConvIds : Exists(c)' => convs'[c].customer # SenderOf[Event(h)']
    BY SerialHandler DEF Joinable, Exists, SerialInv
  <2>5. QED
    BY <1>1, <2>2, <2>3, <2>4, SerialHandler DEF SerialInv
<1>3. CASE CreateConversation(h)
  <2>1. SenderOf[Event(h)] \in Senders
    BY <1>3, EventType, StoreAssumption
      DEF CreateConversation, At, Kept, InboundTypeOK
  <2>2. /\ ~Exists(nextConv)
        /\ convs'[nextConv] = NewConversation(SenderOf[Event(h)])
        /\ \A c \in ConvIds : c # nextConv => convs'[c] = convs[c]
    BY <1>3, <2>1, InsertedIsNew DEF CreateConversation, Kept, SafeInv
  <2>3. /\ convs'[nextConv].customer = SenderOf[Event(h)]
        /\ convs'[nextConv].status = "OPEN"
    BY <2>2 DEF NewConversation
  <2>4. \A c \in ConvIds : Exists(c) => convs[c].customer # SenderOf[Event(h)]
    BY <1>3 DEF CreateConversation, SerialInv
  <2>5. ~At(h, "newConversation")'
    BY <1>3 DEF CreateConversation, At, Kept, InboundTypeOK, Handler
  <2>6. \A c \in ConvIds : Exists(c)' => convs'[c].status = "OPEN"
    BY <2>2, <2>3 DEF Exists, SerialInv
  <2>7. \A c, d \in ConvIds :
          Exists(c)' /\ Exists(d)' /\ convs'[c].customer = convs'[d].customer => c = d
    BY <2>2, <2>3, <2>4 DEF Exists, SerialInv
  <2>8. QED
    BY <1>1, <2>5, <2>6, <2>7, SerialHandler DEF SerialInv
<1>4. QED
  BY <1>2, <1>3, SerialHandler

\* Only opening a conversation takes an id.
LEMMA RequestInserts ==
  ASSUME NEW r \in Requests, RequestStep(r)
  PROVE  nextConv' = nextConv \/ Writing(r, "create")
BY DEF RequestStep, CreateForCustomer, Assign, Handoff, Unassign, Close, Resolve,
       UpdateStatus, DeleteConversation, AddNote, WriteAudit, SendMessage,
       ListMessages, Begin, Write, InsertNote, storeVars, butConvs

\* The requests that end nothing leave every conversation open.
LEMMA RequestKeepsSerial ==
  ASSUME KeptByStaff, SafeInv, SerialInv, OpsInv, OpsInv', NothingEnds, UNCHANGED hs,
         NEW r \in Requests, RequestStep(r)
  PROVE  SerialInv'
<1>1. nextConv' = nextConv
  BY RequestInserts DEF Writing, OpsInv, NothingEnds
<1>2. ASSUME NEW c \in ConvIds, Exists(c)'
      PROVE  /\ Exists(c)
             /\ convs'[c].customer = convs[c].customer
             /\ convs'[c].status = "OPEN"
  <2>1. Exists(c)
    BY <1>1, <1>2, RequestRowCases
  <2>2. RequestCarries(r, c, convs'[c], convs[c])
    BY <1>2, <2>1, RequestRowCases
  <2>3. ~Ends(r)
    BY DEF Ends, Writing, OpsInv, NothingEnds
  <2>4. ~Auditing(r, "close", c)' /\ ~Auditing(r, "status", c)'
    BY DEF Auditing, OpsInv, NothingEnds
  <2>5. QED
    BY <2>1, <2>2, <2>3, <2>4 DEF RequestCarries, SerialInv
<1>3. QED
  BY <1>2 DEF SerialInv, At, Event

\* No step breaks SerialInv.
LEMMA NextSerial ==
  ASSUME OneHandler, NothingEnds, Inv, SafeInv, SerialInv, OpsInv, [Next]_vars
  PROVE  SerialInv'
<1>1. Kept /\ KeptByStaff /\ hs \in [Handlers -> Handler]
  BY DEF Inv, TypeOK, Kept, KeptByStaff, InboundTypeOK
<1>2. OpsInv'
  BY NextOps
<1>3. ASSUME NEW h \in Handlers, HandlerStep(h)
      PROVE  SerialInv'
  BY <1>1, <1>3, HandlerKeepsSerial
<1>4. ASSUME NEW r \in Requests, RequestStep(r), UNCHANGED inboundVars
      PROVE  SerialInv'
  BY <1>1, <1>2, <1>4, RequestKeepsSerial DEF inboundVars
<1>5. CASE /\ convs' = convs
           /\ \A h \in Handlers :
                \/ hs'[h] = hs[h]
                \/ hs'[h].awaiting = FALSE /\ hs'[h].pc \in {"idle", "customer", "send"}
  BY <1>5 DEF SerialInv, Exists, At, Event, Rating
<1>6. ASSUME NEW h \in Handlers, HandlerFault(h) \/ \E b \in Batches : Receive(h, b)
      PROVE  SerialInv'
  <2>1. \A b : Continue(h, b) =>
          \A g \in Handlers :
            \/ hs'[g] = hs[g]
            \/ hs'[g].awaiting = FALSE /\ hs'[g].pc \in {"idle", "customer"}
    BY <1>1 DEF Continue, Idle, Fresh
  <2>2. hs' = [hs EXCEPT ![h] = [@ EXCEPT !.pc = "send", !.out = <<>>]] =>
          \A g \in Handlers :
            \/ hs'[g] = hs[g]
            \/ hs'[g].awaiting = FALSE /\ hs'[g].pc = "send"
    <3>1. hs[h] \in Handler /\ ~hs[h].awaiting
      BY <1>1 DEF SerialInv
    <3>2. [hs[h] EXCEPT !.pc = "send", !.out = <<>>].pc = "send"
          /\ [hs[h] EXCEPT !.pc = "send", !.out = <<>>].awaiting = FALSE
      BY <3>1 DEF Handler
    <3>3. QED
      BY <1>1, <3>2
  <2>3. convs' = convs
    BY <1>6 DEF HandlerFault, Receive, storeVars
  <2>4. QED
    BY <1>5, <1>6, <2>1, <2>2, <2>3 DEF HandlerFault, Receive, NextEvent, Throw
<1>7. CASE Crash \/ UNCHANGED vars \/ \E r \in Requests : RequestFault(r) /\ UNCHANGED inboundVars
  <2>1. convs' = convs
    BY <1>7 DEF Crash, vars, storeVars, RequestFault
  <2>2. hs' = hs \/ \A h \in Handlers : hs'[h] = Idle
    BY <1>7 DEF Crash, vars, inboundVars
  <2>3. Idle.awaiting = FALSE /\ Idle.pc = "idle"
    BY DEF Idle, Fresh
  <2>4. QED
    BY <1>5, <2>1, <2>2, <2>3
<1>8. QED
  BY <1>3, <1>4, <1>6, <1>7 DEF Next, InboundNext, StaffNext

\* No message is stored twice, whatever is redelivered, fails or crashes, as
\* long as webhooks come one at a time and nobody ends or opens conversations.
THEOREM StoredAtMostOnce ==
  ASSUME OneHandler, NothingEnds
  PROVE  Spec => []StoredOnce
<1>1. Init => SerialInv /\ OpsInv
  BY DEF Init, StoreInit, InboundInit, StaffInit, SerialInv, OpsInv, Exists, At, Idle,
         Fresh, NoRequest, Rating
<1>2. Inv /\ SafeInv /\ SerialInv /\ OpsInv /\ [Next]_vars => SerialInv' /\ OpsInv'
  BY NextSerial, NextOps
<1>3. Inv /\ SafeInv /\ SerialInv => StoredOnce
  <2>. SUFFICES ASSUME Inv, SafeInv, SerialInv, NEW m \in Mids
                PROVE  Cardinality({c \in ConvIds : <<m, c>> \in inbox}) <= 1
    BY DEF StoredOnce
  <2>. DEFINE S == {c \in ConvIds : <<m, c>> \in inbox}
  <2>1. \A c \in S : Exists(c) /\ convs[c].customer = SenderOf[m]
    BY DEF SafeInv, FiledUnderSender
  <2>2. \A c, d \in S : c = d
    BY <2>1 DEF SerialInv
  <2>3. S = {} \/ \E c \in S : S = {c}
    BY <2>2
  <2>. HIDE DEF S
  <2>4. Cardinality(S) \in {0, 1}
    BY <2>3, FS_EmptySet, FS_Singleton
  <2>5. Cardinality(S) <= 1
    BY <2>4
  <2>6. QED
    BY <2>5 DEF S
<1>4. QED
  BY <1>1, <1>2, <1>3, Invariance, Safety, PTL DEF Spec
-----------------------------------------------------------------------------
(***************************************************************************)
(* The greeting goes to a conversation's first message, and what is first  *)
(* is decided by counting rows.  Between its INSERT and its count, a       *)
(* handler has a row of its own; whoever counts one message counted its    *)
(* own, and from then on that row is settled: no handler will count        *)
(* it again or move it away, so every later count finds at least two.      *)
(*                                                                         *)
(* The argument fails for a message whose old conversation is deleted      *)
(* before it is moved to the new one: its handler then has no row and      *)
(* counts another's.  Hence the hypothesis: staff delete nothing, or no    *)
(* message is moved.                                                       *)
(***************************************************************************)
NoMoveAfterDelete ==
  "delete" \in StaffOps => \A m \in Mids : TextOf[m] = "number"

\* From the INSERT of the message to the count.
Filing == {"bump", "rating", "split", "move", "settings", "newSettings", "context"}

\* Where the row is that the handler inserted.
Place(h) == IF At(h, "move") THEN hs[h].from ELSE hs[h].conv
OwnRow(h) == <<Event(h), Place(h)>>
Files(h, row) == hs[h].pc \in Filing /\ OwnRow(h) = row

\* Messages filed in a conversation, and those no handler has yet to count.
Filed(c) == {m \in Mids : <<m, c>> \in inbox}
Settled(c) == \E m \in Mids : <<m, c>> \in inbox /\ \A h \in Handlers : ~Files(h, <<m, c>>)

IsGreeting(h, i) == i \in DOMAIN hs[h].out /\ hs[h].out[i] = "greeting"

\* A handler that has decided to greet, and has not done it yet.
Greets(h, c) ==
  /\ hs[h].conv = c
  /\ \/ At(h, "menu") /\ hs[h].first
     \/ hs[h].pc \in {"send", "answer"} /\ \E i : IsGreeting(h, i)

Greeted(c) == sent[c]["greeting"] # 0 \/ \E h \in Handlers : Greets(h, c)

\* A handler that files a message has a row nobody else has.
FilesInv ==
  /\ \A h \in Handlers : hs[h].pc \in {"split", "move"} => TextOf[Event(h)] = "words"
  /\ \A h \in Handlers : hs[h].pc \in Filing =>
       OwnRow(h) \in inbox \/ ("delete" \in StaffOps /\ ~Exists(Place(h)))
  /\ \A h, g \in Handlers : \A row : Files(h, row) /\ Files(g, row) => h = g

\* Who greets does so once, alone, and after a settled row.
GreetsInv ==
  /\ \A h \in Handlers : \A i, j :
       hs[h].pc \in {"send", "answer"} /\ IsGreeting(h, i) /\ IsGreeting(h, j) => i = j
  /\ \A c \in ConvIds : sent[c]["greeting"] \in {0, 1}
  /\ \A c \in ConvIds, h \in Handlers : Greets(h, c) => sent[c]["greeting"] = 0
  /\ \A c \in ConvIds, h, g \in Handlers : Greets(h, c) /\ Greets(g, c) => h = g
  /\ \A c \in ConvIds : Greeted(c) /\ Exists(c) => Settled(c)

\* What counting messages rests on.
CountsInv ==
  /\ \A c \in ConvIds : IsFiniteSet(Filed(c))
  /\ \A c \in ConvIds : ~Exists(c) => replies[c] = 0 /\ autoRows[c] = 0
  /\ \A c \in ConvIds : c >= nextConv => sent[c]["greeting"] = 0

GreetInv == FilesInv /\ GreetsInv /\ CountsInv

\* A conversation whose count is one has a row, and no other.
LEMMA OnlyMessage ==
  ASSUME StoreTypeOK, CountsInv, FiledUnderSender, NEW c \in ConvIds, IsFirstMessage(c)
  PROVE  /\ Exists(c)
         /\ \A m, n \in Mids : <<m, c>> \in inbox /\ <<n, c>> \in inbox => m = n
<1>. DEFINE S == Filed(c)
<1>1. IsFiniteSet(S)
  BY DEF CountsInv
<1>2. Cardinality(S) + replies[c] + autoRows[c] = 1
  BY DEF IsFirstMessage, MessageCount, Filed
<1>3. replies[c] \in Nat /\ autoRows[c] \in Nat
  BY DEF StoreTypeOK
<1>4. Exists(c) \/ S = {}
  BY DEF FiledUnderSender, Filed
<1>. HIDE DEF S
<1>5. Cardinality(S) \in {0, 1}
  <2>1. Cardinality(S) \in Nat
    BY <1>1, FS_CardinalityType
  <2>2. QED
    BY <1>2, <1>3, <2>1
<1>6. S = {} \/ \E x : S = {x}
  BY <1>1, <1>5, FS_EmptySet, FS_Singleton
<1>7. Exists(c)
  <2>1. CASE S = {} /\ ~Exists(c)
    <3>1. Cardinality(S) = 0
      BY <2>1, FS_EmptySet
    <3>2. replies[c] = 0 /\ autoRows[c] = 0
      BY <2>1 DEF CountsInv
    <3>3. QED
      BY <1>2, <3>1, <3>2
  <2>2. QED
    BY <1>4, <2>1
<1>8. \A m, n \in S : m = n
  BY <1>6
<1>9. QED
  BY <1>7, <1>8 DEF S, Filed

\* Handlers only add conversations, under the next id.
LEMMA HandlerAddsRows ==
  ASSUME Kept, SafeInv, NEW h \in Handlers, HandlerStep(h)
  PROVE  /\ nextConv \in Nat /\ nextConv' \in Nat /\ nextConv' >= nextConv
         /\ \A c \in ConvIds : Exists(c) => Exists(c)'
         /\ \A c \in ConvIds : Exists(c)' /\ ~Exists(c) => c = nextConv
<1>1. nextConv \in Nat
  BY StoreAssumption DEF Kept, StoreTypeOK
<1>2. CASE \E k \in Senders : InsertConversation(k)
  BY <1>1, <1>2, InsertedIsNew DEF Kept, SafeInv, Exists
<1>3. QED
  BY <1>1, <1>2, HandlerRowsStep DEF HandlerRows

\* What a handler may do without touching a message row or the counts: drop
\* its row or its decision to greet, or keep them.
GoesOn(h) ==
  /\ hs'[h].pc \in Filing => hs[h].pc \in Filing /\ OwnRow(h)' = OwnRow(h)
  /\ hs'[h].pc \in {"split", "move"} => TextOf[Event(h)'] = "words"
  /\ \A c : Greets(h, c)' => Greets(h, c)
  /\ \A i, j : hs'[h].pc \in {"send", "answer"} /\ IsGreeting(h, i)' /\ IsGreeting(h, j)'
                 => i = j

\* A row a handler works on is older than the next one, also while it waits
\* to be moved.
LEMMA PlaceIsOld ==
  ASSUME Kept, SafeInv, FilesInv, NoMoveAfterDelete, "delete" \in StaffOps,
         NEW h \in Handlers, hs[h].pc \in Filing
  PROVE  /\ Place(h) = hs[h].conv /\ Place(h) \in ConvIds /\ Place(h) # nextConv
         /\ hs[h].pc \notin {"split", "move"}
<1>1. hs[h].pc \notin Early
  BY DEF Filing, Early
<1>2. hs[h].conv \in ConvIds /\ Event(h) \in Mids /\ hs[h].conv < nextConv
  BY <1>1, RunningType DEF SafeInv, IdsInv
<1>3. nextConv \in Nat /\ hs[h].conv \in Nat
  BY <1>2, StoreAssumption DEF Kept, StoreTypeOK, ConvIds
<1>4. hs[h].pc \notin {"split", "move"}
  BY <1>2 DEF FilesInv, NoMoveAfterDelete
<1>5. QED
  BY <1>2, <1>3, <1>4 DEF Place, At

\* A conversation that is greeted, or about to be, is older than the next one.
LEMMA GreetedIsOld ==
  ASSUME Kept, SafeInv, CountsInv, NEW c \in ConvIds, Greeted(c)
  PROVE  c # nextConv
<1>1. nextConv \in Nat /\ c \in Nat
  BY StoreAssumption DEF Kept, StoreTypeOK, ConvIds
<1>2. sent[c]["greeting"] # 0 => ~(c >= nextConv)
  BY DEF CountsInv
<1>3. ASSUME NEW h \in Handlers, Greets(h, c)
      PROVE  c < nextConv
  BY <1>3 DEF Greets, At, SafeInv, IdsInv, Early
<1>4. QED
  BY <1>1, <1>2, <1>3 DEF Greeted

\* Steps at which every handler goes on, no message row changes, and only
\* conversations that exist are written to.
LEMMA GoingOn ==
  ASSUME Kept, SafeInv, GreetInv, NoMoveAfterDelete,
         UNCHANGED <<inbox, sent>>,
         \A c \in ConvIds : ~Exists(c) => replies'[c] = replies[c] /\ autoRows'[c] = autoRows[c],
         nextConv' \in Nat, nextConv' >= nextConv,
         \A c \in ConvIds : Exists(c) => Exists(c)',
         \A c \in ConvIds : Exists(c)' /\ ~Exists(c) => c = nextConv,
         \A h \in Handlers : GoesOn(h)
  PROVE  GreetInv'
<1>1. ASSUME NEW h \in Handlers, NEW row, Files(h, row)'
      PROVE  Files(h, row)
  BY <1>1 DEF Files, GoesOn
<1>2. ASSUME NEW h \in Handlers, NEW c, Greets(h, c)'
      PROVE  Greets(h, c)
  BY <1>2 DEF GoesOn
<1>3. FilesInv'
  <2>1. ASSUME NEW h \in Handlers, hs'[h].pc \in Filing
        PROVE  \/ OwnRow(h)' \in inbox
               \/ "delete" \in StaffOps /\ ~Exists(Place(h))'
    <3>1. hs[h].pc \in Filing /\ OwnRow(h)' = OwnRow(h) /\ Place(h)' = Place(h)
      BY <2>1 DEF GoesOn, OwnRow
    <3>2. CASE "delete" \in StaffOps /\ ~Exists(Place(h))
      <4>1. Place(h) \in ConvIds /\ Place(h) # nextConv
        BY <3>1, <3>2, PlaceIsOld DEF GreetInv
      <4>2. convs'[Place(h)] = Absent
        BY <3>2, <4>1 DEF Exists
      <4>3. QED
        BY <3>1, <3>2, <4>2 DEF Exists
    <3>3. QED
      BY <3>1, <3>2 DEF GreetInv, FilesInv
  <2>2. \A h \in Handlers : hs'[h].pc \in {"split", "move"} => TextOf[Event(h)'] = "words"
    BY DEF GoesOn
  <2>3. \A h, g \in Handlers : \A row : Files(h, row)' /\ Files(g, row)' => h = g
    BY <1>1 DEF GreetInv, FilesInv
  <2>4. QED
    BY <2>1, <2>2, <2>3 DEF FilesInv
<1>4. GreetsInv'
  <2>1. \A h \in Handlers : \A i, j :
          hs'[h].pc \in {"send", "answer"} /\ IsGreeting(h, i)' /\ IsGreeting(h, j)' => i = j
    BY DEF GoesOn
  <2>2. \A c \in ConvIds : Settled(c) => Settled(c)'
    BY <1>1 DEF Settled
  <2>3. ASSUME NEW c \in ConvIds, Greeted(c)', Exists(c)'
        PROVE  Settled(c)'
    <3>1. Greeted(c)
      BY <1>2, <2>3 DEF Greeted
    <3>2. Exists(c)
      BY <2>3, <3>1, GreetedIsOld DEF GreetInv
    <3>3. QED
      BY <2>2, <3>1, <3>2 DEF GreetInv, GreetsInv
  <2>4. QED
    BY <1>2, <2>1, <2>3 DEF GreetInv, GreetsInv
<1>5. CountsInv'
  <2>1. \A c \in ConvIds : Filed(c)' = Filed(c)
    BY DEF Filed
  <2>2. \A c \in ConvIds : c >= nextConv' => c >= nextConv
    BY StoreAssumption DEF Kept, StoreTypeOK, ConvIds
  <2>3. \A c \in ConvIds : ~Exists(c)' => replies'[c] = 0 /\ autoRows'[c] = 0
    BY DEF GreetInv, CountsInv
  <2>4. QED
    BY <2>1, <2>2, <2>3 DEF GreetInv, CountsInv
<1>6. QED
  BY <1>3, <1>4, <1>5 DEF GreetInv

\* A handler that neither has a row to count nor is about to send.
Elsewhere == Steps \ (Filing \union {"menu", "send", "answer"})

\* Leaving all that is a way to go on, and so is staying.
LEMMA LeavingGoesOn ==
  ASSUME GreetInv, NEW h \in Handlers, hs'[h] = hs[h] \/ hs'[h].pc \in Elsewhere
  PROVE  GoesOn(h)
<1>1. CASE hs'[h] = hs[h]
  BY <1>1 DEF GoesOn, GreetInv, FilesInv, GreetsInv, Greets, IsGreeting, OwnRow, Place, At, Event
<1>2. CASE hs'[h].pc \in Elsewhere
  BY <1>2 DEF GoesOn, Elsewhere, Filing, Greets, At
<1>3. QED
  BY <1>1, <1>2

\* Ending an event leaves all that.
LEMMA ContinuingGoesOn ==
  ASSUME GreetInv, hs \in [Handlers -> Handler], NEW h \in Handlers,
         NEW b, Continue(h, b)
  PROVE  \A g \in Handlers : hs'[g] = hs[g] \/ hs'[g].pc \in Elsewhere
BY DEF Continue, Idle, Fresh, Elsewhere, Steps, Filing

\* Answering about departments, or throwing the remaining replies away, greets
\* nobody.
LEMMA AnsweringGoesOn ==
  ASSUME hs \in [Handlers -> Handler], NEW h \in Handlers,
         NEW out \in {<<>>, <<"answer">>}, NEW step \in {"send", "answer"},
         hs'[h] = [hs[h] EXCEPT !.pc = step, !.out = out]
  PROVE  GoesOn(h)
<1>1. hs'[h].pc = step /\ hs'[h].out = out
  BY DEF Handler
<1>2. \A i : ~IsGreeting(h, i)'
  BY <1>1 DEF IsGreeting
<1>3. QED
  BY <1>1, <1>2 DEF GoesOn, Filing, Greets, At

\* The steps before the message is stored.
LEMMA EarlyGoesOn ==
  ASSUME Kept, GreetInv, NEW h \in Handlers,
         \/ FindCustomer(h) \/ CreateCustomer(h)
         \/ FindConversation(h) \/ CreateConversation(h)
  PROVE  GoesOn(h) /\ UNCHANGED <<inbox, sent, replies, autoRows>>
<1>1. hs \in [Handlers -> Handler] /\ hs[h] \in Handler
  BY DEF Kept, InboundTypeOK
<1>2. hs'[h].pc \in Elsewhere
  <2>1. {"conversation", "newCustomer", "newConversation", "store"} \subseteq Elsewhere
    BY DEF Elsewhere, Steps, Filing
  <2>2. CASE \E step \in Elsewhere : Goto(h, step)
    BY <1>1, <2>2 DEF Goto, Handler
  <2>3. CASE \E c : Snapshot(h, c)
    BY <1>1, <2>1, <2>3 DEF Snapshot, Handler
  <2>4. CASE Throw(h)
    BY <1>1, <2>4 DEF Throw, Continue, Idle, Fresh, Elsewhere, Steps, Filing
  <2>5. CASE CreateConversation(h)
    BY <1>1, <2>1, <2>5 DEF CreateConversation, Handler
  <2>6. QED
    BY <2>1, <2>2, <2>3, <2>4, <2>5 DEF FindCustomer, CreateCustomer, FindConversation
<1>3. UNCHANGED <<inbox, sent, replies, autoRows>>
  BY DEF FindCustomer, CreateCustomer, FindConversation, CreateConversation, storeVars,
         butCustomers, butNewConv, others
<1>4. QED
  BY <1>2, <1>3, LeavingGoesOn

\* The steps between the INSERT of the message and the count, but for the move.
LEMMA FilingGoesOn ==
  ASSUME Kept, GreetInv, NEW h \in Handlers,
         \/ BumpUnread(h) \/ AcceptRating(h) \/ RefuseRating(h) \/ SplitConversation(h)
         \/ LoadSettings(h) \/ CreateSettings(h)
  PROVE  GoesOn(h) /\ UNCHANGED <<inbox, sent, replies, autoRows>>
<1>1. hs \in [Handlers -> Handler] /\ hs[h] \in Handler
  BY DEF Kept, InboundTypeOK
<1>2. GoesOn(h)
  <2>1. ASSUME NEW step \in Filing \ {"split", "move"}, Goto(h, step),
               hs[h].pc \in Filing \ {"move"}
        PROVE  GoesOn(h)
    <3>1. hs'[h].pc = step /\ hs'[h].conv = hs[h].conv /\ hs'[h].batch = hs[h].batch
      BY <1>1, <2>1 DEF Goto, Handler
    <3>2. step \notin {"menu", "send", "answer"}
      BY DEF Filing
    <3>3. QED
      BY <2>1, <3>1, <3>2 DEF GoesOn, Greets, OwnRow, Place, At, Event
  <2>2. CASE Throw(h) \/ NextEvent(h)
    BY <1>1, <2>2, ContinuingGoesOn, LeavingGoesOn DEF Throw, NextEvent
  <2>3. CASE BumpUnread(h) \/ LoadSettings(h) \/ CreateSettings(h) \/ AcceptRating(h)
    BY <2>1, <2>2, <2>3
      DEF BumpUnread, LoadSettings, CreateSettings, AcceptRating, At, Filing
  <2>4. CASE RefuseRating(h)
    <3>1. /\ hs'[h].pc = "split" /\ hs'[h].conv = hs[h].conv /\ hs'[h].batch = hs[h].batch
          /\ hs[h].pc = "rating" /\ TextOf[Event(h)] = "words"
      BY <1>1, <2>4 DEF RefuseRating, Goto, Handler, At
    <3>2. QED
      BY <3>1 DEF GoesOn, Greets, OwnRow, Place, At, Event, Filing
  <2>5. CASE SplitConversation(h)
    <3>1. /\ hs'[h].pc = "move" /\ hs'[h].from = hs[h].conv /\ hs'[h].batch = hs[h].batch
          /\ hs[h].pc = "split" /\ TextOf[Event(h)] = "words"
      BY <1>1, <2>5 DEF SplitConversation, Handler, At, GreetInv, FilesInv
    <3>2. QED
      BY <3>1 DEF GoesOn, Greets, OwnRow, Place, At, Event, Filing
  <2>6. QED
    BY <2>3, <2>4, <2>5
<1>3. UNCHANGED <<inbox, sent, replies, autoRows>>
  BY DEF BumpUnread, AcceptRating, RefuseRating, SplitConversation, LoadSettings,
         CreateSettings, storeVars, butConvs, butNewConv, butSettings, others
<1>4. QED
  BY <1>2, <1>3

\* A conditional reply, as a sequence.
LEMMA WhenType ==
  ASSUME NEW p \in BOOLEAN, NEW r \in Replies
  PROVE  /\ When(p, r) \in Seq(Replies)
         /\ Len(When(p, r)) = 0 \/ (Len(When(p, r)) = 1 /\ When(p, r)[1] = r)
<1>1. CASE p
  <2>1. When(p, r) = <<r>>
    BY <1>1 DEF When
  <2>2. <<r>> \in Seq(Replies) /\ Len(<<r>>) = 1 /\ <<r>>[1] = r
    OBVIOUS
  <2>3. QED
    BY <2>1, <2>2
<1>2. CASE ~p
  <2>1. When(p, r) = <<>>
    BY <1>2 DEF When
  <2>2. <<>> \in Seq(Replies) /\ Len(<<>>) = 0
    OBVIOUS
  <2>3. QED
    BY <2>1, <2>2
<1>3. QED
  BY <1>1, <1>2

\* The replies prepared hold the greeting at most once, and only if it is due.
LEMMA OneGreeting ==
  \A x, y, z \in Seq(Replies) :
    /\ Len(x) = 0 \/ (Len(x) = 1 /\ x[1] = "afterHours")
    /\ Len(y) = 0 \/ Len(y) = 1
    /\ Len(z) = 0 \/ (Len(z) = 1 /\ z[1] = "menu")
    => \A i \in DOMAIN (x \o y \o z) :
         (x \o y \o z)[i] = "greeting" => i = Len(x) + 1 /\ Len(y) = 1
<1>. SUFFICES ASSUME NEW x \in Seq(Replies), NEW y \in Seq(Replies), NEW z \in Seq(Replies),
                     Len(x) = 0 \/ (Len(x) = 1 /\ x[1] = "afterHours"),
                     Len(y) = 0 \/ Len(y) = 1,
                     Len(z) = 0 \/ (Len(z) = 1 /\ z[1] = "menu"),
                     NEW i \in DOMAIN (x \o y \o z), (x \o y \o z)[i] = "greeting"
              PROVE  i = Len(x) + 1 /\ Len(y) = 1
  OBVIOUS
<1>1. i \in 1..(Len(x) + Len(y) + Len(z))
  OBVIOUS
<1>2. \/ i = 1 /\ Len(x) = 1
      \/ i = Len(x) + 1 /\ Len(y) = 1
      \/ i = Len(x) + Len(y) + 1 /\ Len(z) = 1
  <2>. DEFINE nx == Len(x)
              ny == Len(y)
              nz == Len(z)
  <2>1. nx \in {0, 1} /\ ny \in {0, 1} /\ nz \in {0, 1} /\ i \in 1..(nx + ny + nz)
    BY <1>1
  <2>. HIDE DEF nx, ny, nz
  <2>2. (i = 1 /\ nx = 1) \/ (i = nx + 1 /\ ny = 1) \/ (i = nx + ny + 1 /\ nz = 1)
    BY <2>1
  <2>3. QED
    BY <2>2 DEF nx, ny, nz
<1>3. CASE i = 1 /\ Len(x) = 1
  <2>1. (x \o y \o z)[i] = x[1]
    BY <1>3
  <2>2. QED
    BY <1>3, <2>1
<1>4. CASE i = Len(x) + Len(y) + 1 /\ Len(z) = 1
  <2>1. (x \o y \o z)[i] = z[1]
    BY <1>4
  <2>2. QED
    BY <1>4, <2>1
<1>5. QED
  BY <1>2, <1>3, <1>4

\* The steps after the count, but for a send that succeeds.
LEMMA SendingGoesOn ==
  ASSUME Kept, GreetInv, NEW h \in Handlers,
         \/ PrepareReplies(h) \/ SendFails(h) \/ RepliesDone(h)
         \/ InterpretSelection(h) \/ SetDepartment(h) \/ AutoAssign(h)
  PROVE  GoesOn(h) /\ UNCHANGED <<inbox, sent, replies, autoRows>>
<1>1. hs \in [Handlers -> Handler] /\ hs[h] \in Handler
  BY DEF Kept, InboundTypeOK
<1>2. ASSUME Throw(h) \/ NextEvent(h)
      PROVE  GoesOn(h)
  BY <1>1, <1>2, ContinuingGoesOn, LeavingGoesOn DEF Throw, NextEvent
<1>3. ASSUME NEW step \in {"select", "department", "assign"}, Goto(h, step)
      PROVE  GoesOn(h)
  <2>1. hs'[h].pc = step
    BY <1>1, <1>3 DEF Goto, Handler
  <2>2. QED
    BY <2>1, LeavingGoesOn DEF Elsewhere, Steps, Filing
<1>4. GoesOn(h)
  <2>1. CASE PrepareReplies(h)
    <3>1. PICK late, ask \in BOOLEAN :
            hs'[h] = [hs[h] EXCEPT !.pc = "send",
                        !.out = When(late, "afterHours")
                            \o When(hs[h].first /\ "FIRST_MESSAGE" \in Triggers, "greeting")
                            \o When(ask, "menu")]
      <4>1. /\ ("AFTER_HOURS" \in Triggers) \in BOOLEAN
            /\ (MenuOffered /\ ~hs[h].asked) \in BOOLEAN
        OBVIOUS
      <4>2. QED
        BY <1>1, <2>1, <4>1 DEF PrepareReplies
    <3>2. hs'[h].pc = "send" /\ hs'[h].conv = hs[h].conv /\ hs[h].pc = "menu"
      BY <1>1, <2>1, <3>1 DEF PrepareReplies, At, Handler
    <3>3. hs'[h].out = When(late, "afterHours")
                   \o When(hs[h].first /\ "FIRST_MESSAGE" \in Triggers, "greeting")
                   \o When(ask, "menu")
      BY <1>1, <3>1 DEF Handler
    <3>4. /\ \A i : IsGreeting(h, i)' => hs[h].first
          /\ \A i, j : IsGreeting(h, i)' /\ IsGreeting(h, j)' => i = j
      <4>. DEFINE x == When(late, "afterHours")
                  y == When(hs[h].first /\ "FIRST_MESSAGE" \in Triggers, "greeting")
                  z == When(ask, "menu")
      <4>1. x \in Seq(Replies) /\ (Len(x) = 0 \/ (Len(x) = 1 /\ x[1] = "afterHours"))
        BY WhenType DEF Replies
      <4>2. y \in Seq(Replies) /\ (Len(y) = 0 \/ Len(y) = 1)
        BY WhenType DEF Replies
      <4>3. z \in Seq(Replies) /\ (Len(z) = 0 \/ (Len(z) = 1 /\ z[1] = "menu"))
        BY WhenType DEF Replies
      <4>4. Len(y) = 1 => hs[h].first
        BY <1>1 DEF When
      <4>5. hs'[h].out = x \o y \o z
        BY <3>3
      <4>. HIDE DEF x, y, z
      <4>6. \A i \in DOMAIN (x \o y \o z) :
              (x \o y \o z)[i] = "greeting" => i = Len(x) + 1 /\ Len(y) = 1
        BY <4>1, <4>2, <4>3, OneGreeting
      <4>7. QED
        BY <4>4, <4>5, <4>6 DEF IsGreeting
    <3>5. QED
      BY <3>2, <3>4 DEF GoesOn, Greets, At, Filing
  <2>2. CASE SendFails(h)
    <3>1. hs[h].pc \in {"send", "answer"} /\ hs'[h] = [hs[h] EXCEPT !.pc = hs[h].pc, !.out = <<>>]
      BY <1>1, <2>2 DEF SendFails, At, Handler
    <3>2. QED
      BY <1>1, <3>1, AnsweringGoesOn
  <2>3. CASE RepliesDone(h) \/ SetDepartment(h)
    BY <1>2, <1>3, <2>3 DEF RepliesDone, AfterReplies, SetDepartment
  <2>4. CASE InterpretSelection(h)
    <3>1. When(MenuOffered, "answer") \in {<<>>, <<"answer">>}
      BY DEF When
    <3>2. QED
      BY <1>1, <1>2, <1>3, <2>4, <3>1, AnsweringGoesOn DEF InterpretSelection
  <2>5. CASE AutoAssign(h)
    BY <1>1, <2>5, AnsweringGoesOn DEF AutoAssign
  <2>6. QED
    BY <2>1, <2>2, <2>3, <2>4, <2>5
<1>5. UNCHANGED <<inbox, sent, replies, autoRows>>
  BY DEF PrepareReplies, SendFails, RepliesDone, InterpretSelection, SetDepartment,
         AutoAssign, storeVars, butConvs, butNewConv, others
<1>6. QED
  BY <1>4, <1>5

\* Inserting a row nobody has, or replacing the own row by one: the handler
\* gets it for itself, and what was settled stays so.
LEMMA Refiling ==
  ASSUME Kept, SafeInv, GreetInv, NEW h \in Handlers, hs[h].pc \notin Early,
         <<Event(h), hs[h].conv>> \notin inbox, Exists(hs[h].conv),
         \/ inbox' = inbox \union {<<Event(h), hs[h].conv>>}
         \/ /\ hs[h].pc \in Filing
            /\ inbox' = (inbox \ {OwnRow(h)}) \union {<<Event(h), hs[h].conv>>},
         hs'[h].pc \in {"bump", "settings"}, hs'[h].batch = hs[h].batch,
         hs'[h].conv = hs[h].conv,
         \A g \in Handlers : g # h => hs'[g] = hs[g],
         UNCHANGED <<convs, nextConv, sent, replies, autoRows>>
  PROVE  GreetInv'
<1>. DEFINE new == <<Event(h), hs[h].conv>>
<1>0. PICK gone : (\A row \in gone : Files(h, row)) /\ inbox' = (inbox \ gone) \union {new}
  <2>1. CASE inbox' = inbox \union {new}
    <3>1. (\A row \in {} : Files(h, row)) /\ inbox' = (inbox \ {}) \union {new}
      BY <2>1
    <3>2. QED
      BY <3>1
  <2>2. CASE hs[h].pc \in Filing /\ inbox' = (inbox \ {OwnRow(h)}) \union {new}
    <3>1. \A row \in {OwnRow(h)} : Files(h, row)
      BY <2>2 DEF Files
    <3>2. QED
      BY <2>2, <3>1
  <2>3. QED
    BY <2>1, <2>2
<1>1. Event(h) \in Mids /\ hs[h].conv \in ConvIds
  BY RunningType
<1>2. /\ OwnRow(h)' = new /\ hs'[h].pc \in Filing
      /\ hs'[h].pc \notin {"split", "move", "menu", "send", "answer"}
  BY DEF OwnRow, Place, At, Event, Filing
<1>3. ASSUME NEW g \in Handlers, NEW row, Files(g, row)'
      PROVE  IF g = h THEN row = new ELSE Files(g, row) /\ row # new
  <2>1. CASE g = h
    BY <1>2, <1>3, <2>1 DEF Files
  <2>2. CASE g # h
    <3>1. Files(g, row)
      BY <1>3, <2>2 DEF Files, OwnRow, Place, At, Event
    <3>2. row = new => Place(g) = hs[h].conv
      BY <3>1 DEF Files, OwnRow
    <3>3. row # new
      BY <3>1, <3>2 DEF Files, GreetInv, FilesInv
    <3>4. QED
      BY <2>2, <3>1, <3>3
  <2>3. QED
    BY <2>1, <2>2
<1>4. ASSUME NEW g \in Handlers, NEW c, Greets(g, c)'
      PROVE  g # h /\ Greets(g, c)
  BY <1>2, <1>4 DEF Greets, At, IsGreeting
<1>5. FilesInv'
  <2>1. ASSUME NEW g \in Handlers, hs'[g].pc \in {"split", "move"}
        PROVE  TextOf[Event(g)'] = "words"
    BY <1>2, <2>1 DEF GreetInv, FilesInv, Event
  <2>2. ASSUME NEW g \in Handlers, hs'[g].pc \in Filing
        PROVE  \/ OwnRow(g)' \in inbox'
               \/ "delete" \in StaffOps /\ ~Exists(Place(g))'
    <3>1. CASE g = h
      BY <1>0, <1>2, <3>1
    <3>2. CASE g # h
      <4>1. hs'[g] = hs[g] /\ Files(g, OwnRow(g))
        BY <2>2, <3>2 DEF Files
      <4>2. OwnRow(g)' = OwnRow(g) /\ Place(g)' = Place(g)
        BY <4>1 DEF OwnRow, Place, At, Event
      <4>3. OwnRow(g) \notin gone
        BY <1>0, <3>2, <4>1 DEF GreetInv, FilesInv
      <4>4. QED
        BY <1>0, <4>1, <4>2, <4>3 DEF Files, GreetInv, FilesInv, Exists
    <3>3. QED
      BY <3>1, <3>2
  <2>3. \A f, g \in Handlers : \A row : Files(f, row)' /\ Files(g, row)' => f = g
    BY <1>3 DEF GreetInv, FilesInv
  <2>4. QED
    BY <2>1, <2>2, <2>3 DEF FilesInv
<1>6. GreetsInv'
  <2>1. \A g \in Handlers : \A i, j :
          hs'[g].pc \in {"send", "answer"} /\ IsGreeting(g, i)' /\ IsGreeting(g, j)' => i = j
    BY <1>2 DEF GreetInv, GreetsInv, IsGreeting
  <2>2. ASSUME NEW c \in ConvIds, Settled(c)
        PROVE  Settled(c)'
    <3>1. PICK m \in Mids : <<m, c>> \in inbox /\ \A g \in Handlers : ~Files(g, <<m, c>>)
      BY <2>2 DEF Settled
    <3>2. <<m, c>> \in inbox' /\ <<m, c>> # new
      BY <1>0, <3>1
    <3>3. \A g \in Handlers : ~Files(g, <<m, c>>)'
      BY <1>3, <3>1, <3>2
    <3>4. QED
      BY <3>2, <3>3 DEF Settled
  <2>3. \A c \in ConvIds : Greeted(c)' /\ Exists(c)' => Settled(c)'
    BY <1>4, <2>2 DEF GreetInv, GreetsInv, Greeted, Exists
  <2>4. QED
    BY <1>4, <2>1, <2>3 DEF GreetInv, GreetsInv
<1>7. CountsInv'
  <2>1. ASSUME NEW c \in ConvIds
        PROVE  IsFiniteSet(Filed(c)')
    <3>1. IsFiniteSet(Filed(c) \union {Event(h)})
      BY FS_AddElement DEF GreetInv, CountsInv
    <3>2. Filed(c)' \subseteq Filed(c) \union {Event(h)}
      BY <1>0 DEF Filed
    <3>3. QED
      BY <3>1, <3>2, FS_Subset
  <2>2. QED
    BY <2>1 DEF GreetInv, CountsInv, Exists
<1>8. QED
  BY <1>5, <1>6, <1>7 DEF GreetInv

\* Storing and moving the message.
LEMMA StoringKeepsGreets ==
  ASSUME Kept, SafeInv, GreetInv, NoMoveAfterDelete, NEW h \in Handlers,
         StoreMessage(h) \/ MoveMessage(h)
  PROVE  \/ GreetInv'
         \/ GoesOn(h) /\ UNCHANGED <<inbox, sent, replies, autoRows>>
<1>1. hs \in [Handlers -> Handler] /\ hs[h] \in Handler /\ hs[h].pc \notin Early
  BY DEF Kept, InboundTypeOK, StoreMessage, MoveMessage, At, Early
<1>2. UNCHANGED <<convs, nextConv, sent, replies, autoRows>>
  BY DEF StoreMessage, MoveMessage, butInbox, others
<1>3. CASE (Throw(h) \/ NextEvent(h)) /\ UNCHANGED inbox
  BY <1>1, <1>2, <1>3, ContinuingGoesOn, LeavingGoesOn DEF Throw, NextEvent
<1>4. ASSUME NEW step, Goto(h, step)
      PROVE  /\ hs'[h].pc = step /\ hs'[h].batch = hs[h].batch /\ hs'[h].conv = hs[h].conv
             /\ \A g \in Handlers : g # h => hs'[g] = hs[g]
  BY <1>1, <1>4 DEF Goto, Handler
<1>5. CASE StoreMessage(h)
  <2>1. CASE /\ Exists(hs[h].conv) /\ <<Event(h), hs[h].conv>> \notin inbox
             /\ inbox' = inbox \union {<<Event(h), hs[h].conv>>} /\ Goto(h, "bump")
    <3>1. /\ hs'[h].pc = "bump" /\ hs'[h].batch = hs[h].batch /\ hs'[h].conv = hs[h].conv
          /\ \A g \in Handlers : g # h => hs'[g] = hs[g]
      BY <1>4, <2>1
    <3>2. QED
      BY <1>1, <1>2, <2>1, <3>1, Refiling
  <2>2. QED
    BY <1>3, <1>5, <2>1 DEF StoreMessage
<1>6. CASE MoveMessage(h)
  <2>. DEFINE old == <<Event(h), hs[h].from>>
              new == <<Event(h), hs[h].conv>>
  <2>1. Files(h, old) /\ hs[h].pc = "move" /\ hs[h].pc \in Filing
    BY <1>6 DEF MoveMessage, Files, OwnRow, Place, At, Filing
  <2>2. old \in inbox
    BY <2>1, PlaceIsOld DEF GreetInv, FilesInv, Files
  <2>3. CASE new \notin inbox /\ Exists(hs[h].conv)
    <3>1. inbox' = (inbox \ {old}) \union {new} /\ Goto(h, "settings")
      BY <1>6, <2>2, <2>3 DEF MoveMessage
    <3>2. /\ hs'[h].pc = "settings" /\ hs'[h].batch = hs[h].batch /\ hs'[h].conv = hs[h].conv
          /\ \A g \in Handlers : g # h => hs'[g] = hs[g]
      BY <1>4, <3>1
    <3>3. inbox' = (inbox \ {OwnRow(h)}) \union {new}
      BY <2>1, <3>1 DEF OwnRow, Place, At
    <3>4. QED
      BY <1>1, <1>2, <2>1, <2>3, <3>2, <3>3, Refiling
  <2>4. QED
    BY <1>3, <1>6, <2>2, <2>3 DEF MoveMessage
<1>7. QED
  BY <1>5, <1>6

\* Counting: whoever finds one message finds the own one, so nobody greeted
\* before, and leaves it settled.
LEMMA CountingKeepsGreets ==
  ASSUME Kept, SafeInv, GreetInv, NEW h \in Handlers, CountMessages(h)
  PROVE  \/ GreetInv'
         \/ GoesOn(h) /\ UNCHANGED <<inbox, sent, replies, autoRows>>
<1>. DEFINE c == hs[h].conv
<1>1. /\ hs \in [Handlers -> Handler] /\ hs[h] \in Handler /\ hs[h].pc \notin Early
      /\ hs[h].pc = "context" /\ hs[h].pc \in Filing
  BY DEF Kept, InboundTypeOK, CountMessages, At, Early, Filing
<1>2. Event(h) \in Mids /\ c \in ConvIds
  BY <1>1, RunningType
<1>3. UNCHANGED <<convs, nextConv, inbox, sent, replies, autoRows>>
  BY DEF CountMessages, storeVars, others
<1>4. /\ hs'[h].pc = "menu" /\ hs'[h].conv = c
      /\ hs'[h].first = IsFirstMessage(c)
      /\ \A g \in Handlers : g # h => hs'[g] = hs[g]
  BY <1>1 DEF CountMessages, Handler
<1>5. CASE ~IsFirstMessage(c)
  BY <1>3, <1>4, <1>5 DEF GoesOn, Filing, Greets, At, IsGreeting
<1>6. CASE IsFirstMessage(c)
  <2>. DEFINE own == <<Event(h), c>>
  <2>1. Exists(c) /\ \A m, n \in Mids : <<m, c>> \in inbox /\ <<n, c>> \in inbox => m = n
    BY <1>2, <1>6, OnlyMessage DEF Kept, SafeInv, GreetInv
  <2>2. Files(h, own) /\ own \in inbox
    BY <1>1, <2>1 DEF Files, OwnRow, Place, At, GreetInv, FilesInv
  <2>3. ~Greeted(c)
    <3>1. ~Settled(c)
      BY <1>2, <2>1, <2>2 DEF Settled
    <3>2. QED
      BY <1>2, <2>1, <3>1 DEF GreetInv, GreetsInv
  <2>4. ASSUME NEW g \in Handlers, NEW row, Files(g, row)'
        PROVE  g # h /\ Files(g, row)
    BY <1>4, <2>4 DEF Files, OwnRow, Place, At, Event, Filing
  <2>5. ASSUME NEW g \in Handlers, NEW d, Greets(g, d)'
        PROVE  IF g = h THEN d = c ELSE Greets(g, d) /\ d # c
    <3>1. CASE g = h
      BY <1>4, <2>5, <3>1 DEF Greets
    <3>2. CASE g # h
      <4>1. Greets(g, d)
        BY <1>4, <2>5, <3>2 DEF Greets, At, IsGreeting
      <4>2. QED
        BY <2>3, <3>2, <4>1 DEF Greeted
    <3>3. QED
      BY <3>1, <3>2
  <2>6. FilesInv'
    <3>1. ASSUME NEW g \in Handlers, hs'[g].pc \in Filing
          PROVE  /\ hs[g].pc \in Filing /\ OwnRow(g)' = OwnRow(g) /\ Place(g)' = Place(g)
                 /\ g # h
      BY <1>4, <3>1 DEF OwnRow, Place, At, Event, Filing
    <3>2. \A g \in Handlers : hs'[g].pc \in {"split", "move"} => TextOf[Event(g)'] = "words"
      BY <1>4 DEF GreetInv, FilesInv, Event
    <3>3. \A g \in Handlers : hs'[g].pc \in Filing =>
            OwnRow(g)' \in inbox \/ ("delete" \in StaffOps /\ ~Exists(Place(g))')
      BY <1>3, <3>1 DEF GreetInv, FilesInv, Exists
    <3>4. QED
      BY <1>3, <2>4, <3>2, <3>3 DEF GreetInv, FilesInv
  <2>7. GreetsInv'
    <3>1. ASSUME NEW d \in ConvIds, Settled(d)
          PROVE  Settled(d)'
      BY <1>3, <2>4, <3>1 DEF Settled
    <3>2. ASSUME NEW d \in ConvIds, d = c
          PROVE  Settled(d)'
      <4>1. PICK m \in Mids : m = Event(h)
        BY <1>2
      <4>2. Files(h, <<m, d>>) /\ <<m, d>> \in inbox'
        BY <1>3, <2>2, <3>2, <4>1
      <4>3. ASSUME NEW g \in Handlers, Files(g, <<m, d>>)'
            PROVE  FALSE
        <5>1. g # h /\ Files(g, <<m, d>>)
          BY <2>4, <4>3
        <5>2. QED
          BY <4>2, <5>1 DEF GreetInv, FilesInv
      <4>4. QED
        BY <4>2, <4>3 DEF Settled
    <3>3. ASSUME NEW d \in ConvIds, Greeted(d)', Exists(d)'
          PROVE  Settled(d)'
      <4>1. CASE d = c
        BY <3>2, <4>1
      <4>2. CASE d # c
        <5>1. Greeted(d)
          BY <1>3, <2>5, <3>3, <4>2 DEF Greeted
        <5>2. QED
          BY <1>3, <3>1, <3>3, <5>1 DEF GreetInv, GreetsInv, Exists
      <4>3. QED
        BY <4>1, <4>2
    <3>4. \A g \in Handlers : \A i, j :
            hs'[g].pc \in {"send", "answer"} /\ IsGreeting(g, i)' /\ IsGreeting(g, j)' => i = j
      BY <1>4 DEF GreetInv, GreetsInv, IsGreeting
    <3>5. \A d \in ConvIds, g \in Handlers : Greets(g, d)' => sent[d]["greeting"] = 0
      BY <2>3, <2>5 DEF GreetInv, GreetsInv, Greeted
    <3>6. \A d \in ConvIds, f, g \in Handlers : Greets(f, d)' /\ Greets(g, d)' => f = g
      BY <2>5 DEF GreetInv, GreetsInv
    <3>7. QED
      BY <1>3, <3>3, <3>4, <3>5, <3>6 DEF GreetInv, GreetsInv
  <2>8. CountsInv'
    BY <1>3 DEF GreetInv, CountsInv, Filed, Exists
  <2>9. QED
    BY <2>6, <2>7, <2>8 DEF GreetInv
<1>7. QED
  BY <1>5, <1>6

\* Sending: the greeting leaves the handler's list as it reaches the customer.
LEMMA SendingKeepsGreets ==
  ASSUME Kept, SafeInv, GreetInv, NEW h \in Handlers, SendReply(h)
  PROVE  GreetInv'
<1>. DEFINE c == hs[h].conv
            out == hs[h].out
<1>1. /\ hs \in [Handlers -> Handler] /\ hs[h] \in Handler /\ hs[h].pc \notin Early
      /\ hs[h].pc \in {"send", "answer"} /\ hs[h].pc \notin Filing
      /\ out \in Seq(Replies) /\ out # <<>>
  BY DEF Kept, InboundTypeOK, SendReply, At, Early, Filing, Handler
<1>2. /\ c \in ConvIds /\ c < nextConv
  BY <1>1, RunningType DEF SafeInv, IdsInv
<1>3. /\ UNCHANGED <<convs, nextConv, inbox, replies>>
      /\ sent' = IF Head(out) \in {"greeting", "menu"}
                   THEN [sent EXCEPT ![c][Head(out)] = @ + 1] ELSE sent
  BY DEF SendReply, butAutoRows
<1>4. /\ hs'[h].pc = hs[h].pc /\ hs'[h].conv = c /\ hs'[h].batch = hs[h].batch
      /\ hs'[h].out = <<>> \/ hs'[h].out = Tail(out)
      /\ \A g \in Handlers : g # h => hs'[g] = hs[g]
  BY <1>1 DEF SendReply, Handler
<1>5. Head(out) = out[1] /\ 1 \in DOMAIN out /\ IsGreeting(h, 1) = (Head(out) = "greeting")
  BY <1>1 DEF IsGreeting
<1>6. ASSUME NEW i, IsGreeting(h, i)'
      PROVE  i \in Nat \ {0} /\ IsGreeting(h, i + 1)
  <2>1. i \in DOMAIN hs'[h].out /\ hs'[h].out[i] = "greeting" /\ i \notin DOMAIN <<>>
    BY <1>6 DEF IsGreeting
  <2>2. hs'[h].out = Tail(out) /\ i \in DOMAIN Tail(out) /\ Tail(out)[i] = "greeting"
    BY <1>4, <2>1
  <2>3. i \in 1..(Len(out) - 1) /\ Tail(out)[i] = out[i + 1] /\ Len(out) \in Nat
    BY <1>1, <2>2
  <2>4. i \in Nat \ {0} /\ i + 1 \in 1..Len(out) /\ out[i + 1] = "greeting"
    BY <2>2, <2>3
  <2>5. QED
    BY <1>1, <2>4 DEF IsGreeting
<1>7. ASSUME NEW i, IsGreeting(h, i)'
      PROVE  Head(out) # "greeting"
  <2>1. i + 1 # 1 /\ IsGreeting(h, i + 1)
    BY <1>6, <1>7
  <2>2. ~IsGreeting(h, 1)
    BY <1>1, <2>1 DEF GreetInv, GreetsInv
  <2>3. QED
    BY <1>5, <2>2
<1>8. ASSUME NEW g \in Handlers, NEW d, Greets(g, d)'
      PROVE  Greets(g, d) /\ (g = h => Head(out) # "greeting")
  <2>1. CASE g = h
    <3>1. PICK i : d = c /\ IsGreeting(h, i)'
      BY <1>1, <1>4, <1>8, <2>1 DEF Greets, At
    <3>2. QED
      BY <1>1, <1>6, <1>7, <2>1, <3>1 DEF Greets
  <2>2. CASE g # h
    BY <1>4, <1>8, <2>2 DEF Greets, At, IsGreeting
  <2>3. QED
    BY <2>1, <2>2
<1>9. ASSUME NEW d \in ConvIds
      PROVE  sent'[d]["greeting"] =
               IF Head(out) = "greeting" /\ d = c THEN sent[d]["greeting"] + 1
                                                 ELSE sent[d]["greeting"]
  BY <1>2, <1>3 DEF Kept, InboundTypeOK
<1>10. Head(out) = "greeting" => Greets(h, c) /\ sent[c]["greeting"] = 0
  BY <1>1, <1>2, <1>5 DEF Greets, GreetInv, GreetsInv
<1>11. ASSUME NEW g \in Handlers, NEW row, Files(g, row)'
       PROVE  Files(g, row)
  BY <1>1, <1>4, <1>11 DEF Files, OwnRow, Place, At, Event
<1>12. FilesInv'
  <2>1. ASSUME NEW g \in Handlers, hs'[g].pc \in Filing
        PROVE  hs[g].pc \in Filing /\ OwnRow(g)' = OwnRow(g) /\ Place(g)' = Place(g)
    BY <1>1, <1>4, <2>1 DEF OwnRow, Place, At, Event
  <2>2. \A g \in Handlers : hs'[g].pc \in {"split", "move"} => TextOf[Event(g)'] = "words"
    BY <1>1, <1>4 DEF GreetInv, FilesInv, Event
  <2>3. \A g \in Handlers : hs'[g].pc \in Filing =>
          OwnRow(g)' \in inbox \/ ("delete" \in StaffOps /\ ~Exists(Place(g))')
    BY <1>3, <2>1 DEF GreetInv, FilesInv, Exists
  <2>4. QED
    BY <1>3, <1>11, <2>2, <2>3 DEF GreetInv, FilesInv
<1>13. GreetsInv'
  <2>1. ASSUME NEW g \in Handlers, NEW i, NEW j,
               hs'[g].pc \in {"send", "answer"}, IsGreeting(g, i)', IsGreeting(g, j)'
        PROVE  i = j
    <3>1. CASE g = h
      <4>1. IsGreeting(h, i)' /\ IsGreeting(h, j)'
        BY <2>1, <3>1
      <4>2. i \in Nat /\ j \in Nat /\ IsGreeting(h, i + 1) /\ IsGreeting(h, j + 1)
        BY <1>6, <4>1
      <4>3. i + 1 = j + 1
        BY <1>1, <4>2 DEF GreetInv, GreetsInv
      <4>4. QED
        BY <4>2, <4>3
    <3>2. CASE g # h
      BY <1>4, <2>1, <3>2 DEF GreetInv, GreetsInv, IsGreeting
    <3>3. QED
      BY <3>1, <3>2
  <2>2. \A d \in ConvIds : sent'[d]["greeting"] \in {0, 1}
    BY <1>9, <1>10 DEF GreetInv, GreetsInv
  <2>3. ASSUME NEW d \in ConvIds, NEW g \in Handlers, Greets(g, d)'
        PROVE  sent'[d]["greeting"] = 0
    <3>1. Greets(g, d) /\ (g = h => Head(out) # "greeting") /\ sent[d]["greeting"] = 0
      BY <1>8, <2>3 DEF GreetInv, GreetsInv
    <3>2. ~(Head(out) = "greeting" /\ d = c)
      BY <1>2, <1>10, <3>1 DEF GreetInv, GreetsInv
    <3>3. QED
      BY <1>9, <3>1, <3>2
  <2>4. \A d \in ConvIds, f, g \in Handlers : Greets(f, d)' /\ Greets(g, d)' => f = g
    BY <1>8 DEF GreetInv, GreetsInv
  <2>5. ASSUME NEW d \in ConvIds, Greeted(d)', Exists(d)'
        PROVE  Settled(d)'
    <3>1. Greeted(d)
      BY <1>8, <1>9, <1>10, <2>5 DEF Greeted
    <3>2. Settled(d)
      BY <1>3, <2>5, <3>1 DEF GreetInv, GreetsInv, Exists
    <3>3. QED
      BY <1>3, <1>11, <3>2 DEF Settled
  <2>6. QED
    BY <2>1, <2>2, <2>3, <2>4, <2>5 DEF GreetsInv
<1>14. CountsInv'
  <2>1. \A d \in ConvIds : ~Exists(d)' => replies'[d] = 0 /\ autoRows'[d] = 0
    <3>1. autoRows' = autoRows \/ (Exists(c) /\ autoRows' = [autoRows EXCEPT ![c] = @ + 1])
      BY DEF SendReply
    <3>2. QED
      BY <1>3, <3>1 DEF GreetInv, CountsInv, Exists, Kept, StoreTypeOK
  <2>2. ASSUME NEW d \in ConvIds, d >= nextConv
        PROVE  sent'[d]["greeting"] = 0
    <3>1. nextConv \in Nat /\ c \in Nat /\ d \in Nat
      BY <1>2, StoreAssumption DEF Kept, StoreTypeOK, ConvIds
    <3>2. d # c /\ sent[d]["greeting"] = 0
      BY <1>2, <2>2, <3>1 DEF GreetInv, CountsInv
    <3>3. QED
      BY <1>9, <3>2
  <2>3. QED
    BY <1>3, <2>1, <2>2 DEF GreetInv, CountsInv, Filed
<1>15. QED
  BY <1>12, <1>13, <1>14 DEF GreetInv

\* What a request does to messages: it deletes a conversation with all of them,
\* or leaves those of the customers alone.
LEMMA RequestMessages ==
  ASSUME KeptByStaff, NEW r \in Requests, RequestStep(r)
  PROVE  \/ /\ UNCHANGED <<inbox, autoRows>>
            /\ \A c \in ConvIds : ~Exists(c) => replies'[c] = replies[c]
            /\ \A c \in ConvIds : Exists(c) => Exists(c)'
         \/ Writing(r, "delete") /\ DeleteConversation(r)
<1>1. CASE Writing(r, "delete")
  BY <1>1
    DEF RequestStep, CreateForCustomer, Assign, Handoff, Unassign, Close, Resolve,
        UpdateStatus, AddNote, WriteAudit, SendMessage, ListMessages, Begin, Write,
        Writing
<1>2. CASE ~Writing(r, "delete")
  <2>1. UNCHANGED <<inbox, autoRows>>
    BY <1>2
      DEF RequestStep, CreateForCustomer, Assign, Handoff, Unassign, Close, Resolve,
          UpdateStatus, DeleteConversation, AddNote, WriteAudit, SendMessage,
          ListMessages, Begin, Write, InsertNote, storeVars, butConvs, butNewConv
  <2>2. \/ replies' = replies
        \/ Exists(rs[r].conv) /\ replies' = [replies EXCEPT ![rs[r].conv] = @ + 1]
    BY <1>2
      DEF RequestStep, CreateForCustomer, Assign, Handoff, Unassign, Close, Resolve,
          UpdateStatus, DeleteConversation, AddNote, WriteAudit, SendMessage,
          ListMessages, Begin, Write, InsertNote, storeVars, butConvs, butNewConv
  <2>3. \A c \in ConvIds : ~Exists(c) => replies'[c] = replies[c]
    BY <2>2 DEF KeptByStaff, StoreTypeOK
  <2>4. \A c \in ConvIds : Exists(c) => Exists(c)'
    <3>1. CASE \E k \in Senders : InsertConversation(k)
      <4>1. \A k : NewConversation(k) # Absent
        BY DEF Absent, NewConversation
      <4>2. QED
        BY <3>1, <4>1 DEF InsertConversation, Exists, KeptByStaff, StoreTypeOK
    <3>2. QED
      BY <1>2, <3>1, RequestRowsStep DEF RequestRows
  <2>5. QED
    BY <2>1, <2>3, <2>4
<1>3. QED
  BY <1>1, <1>2

\* Requests take the counts of a conversation away only with its rows.
LEMMA RequestKeepsGreets ==
  ASSUME Kept, KeptByStaff, SafeInv, GreetInv, OpsInv, NoMoveAfterDelete,
         UNCHANGED inboundVars, NEW r \in Requests, RequestStep(r)
  PROVE  GreetInv'
<1>. DEFINE d == rs[r].conv
<1>1. hs' = hs /\ sent' = sent
  BY DEF inboundVars
<1>2. CASE ~(Writing(r, "delete") /\ DeleteConversation(r))
  <2>1. nextConv' \in Nat /\ nextConv' >= nextConv
    <3>1. nextConv \in Nat
      BY StoreAssumption DEF KeptByStaff, StoreTypeOK
    <3>2. QED
      BY <3>1, RequestRowsStep DEF RequestRows, InsertConversation
  <2>2. \A c \in ConvIds : Exists(c)' /\ ~Exists(c) => c = nextConv
    BY RequestRowCases
  <2>3. \A h \in Handlers : GoesOn(h)
    BY <1>1, LeavingGoesOn
  <2>4. /\ UNCHANGED <<inbox, autoRows>>
        /\ \A c \in ConvIds : ~Exists(c) => replies'[c] = replies[c]
        /\ \A c \in ConvIds : Exists(c) => Exists(c)'
    BY <1>2, RequestMessages
  <2>5. QED
    BY <1>1, <2>1, <2>2, <2>3, <2>4, GoingOn
<1>3. CASE Writing(r, "delete") /\ DeleteConversation(r)
  <2>1. /\ convs' = [convs EXCEPT ![d] = Absent]
        /\ inbox' = {row \in inbox : row[2] # d}
        /\ replies' = [replies EXCEPT ![d] = 0]
        /\ autoRows' = [autoRows EXCEPT ![d] = 0]
        /\ nextConv' = nextConv
    BY <1>3 DEF DeleteConversation, Begin, Writing
  <2>2. "delete" \in StaffOps
    BY <1>3 DEF Writing, OpsInv
  <2>3. \A c \in ConvIds : Exists(c)' <=> Exists(c) /\ c # d
    BY <2>1 DEF Exists, KeptByStaff, StoreTypeOK
  <2>4. FilesInv'
    <3>1. ASSUME NEW h \in Handlers, hs[h].pc \in Filing
          PROVE  OwnRow(h) \in inbox' \/ ~Exists(Place(h))'
      <4>1. Place(h) \in ConvIds
        BY <2>2, <3>1, PlaceIsOld DEF GreetInv
      <4>2. CASE ~Exists(Place(h)) \/ Place(h) = d
        <5>1. convs'[Place(h)] = Absent
          BY <2>1, <4>1, <4>2 DEF Exists, KeptByStaff, StoreTypeOK
        <5>2. QED
          BY <1>1, <5>1 DEF Exists, Place, At
      <4>3. CASE Exists(Place(h)) /\ Place(h) # d
        <5>1. OwnRow(h) \in inbox /\ OwnRow(h)[2] = Place(h)
          BY <3>1, <4>3 DEF GreetInv, FilesInv, OwnRow
        <5>2. QED
          BY <2>1, <4>3, <5>1
      <4>4. QED
        BY <4>2, <4>3
    <3>2. \A h \in Handlers : OwnRow(h)' = OwnRow(h) /\ \A row : Files(h, row)' = Files(h, row)
      BY <1>1 DEF Files, OwnRow, Place, At, Event
    <3>3. QED
      BY <1>1, <2>2, <3>1, <3>2 DEF GreetInv, FilesInv, Event
  <2>5. GreetsInv'
    <3>1. ASSUME NEW c \in ConvIds, Greeted(c)', Exists(c)'
          PROVE  Settled(c)'
      <4>1. Greeted(c) /\ Exists(c) /\ c # d
        BY <1>1, <2>3, <3>1 DEF Greeted, Greets, At, IsGreeting
      <4>2. PICK m \in Mids : <<m, c>> \in inbox /\ \A h \in Handlers : ~Files(h, <<m, c>>)
        BY <4>1 DEF GreetInv, GreetsInv, Settled
      <4>3. <<m, c>> \in inbox'
        BY <2>1, <4>1, <4>2
      <4>4. QED
        BY <1>1, <4>2, <4>3 DEF Settled, Files, OwnRow, Place, At, Event
    <3>2. QED
      BY <1>1, <3>1 DEF GreetInv, GreetsInv, Greets, At, IsGreeting
  <2>6. CountsInv'
    <3>1. \A c \in ConvIds : IsFiniteSet(Filed(c)')
      <4>1. \A c \in ConvIds : Filed(c)' \subseteq Filed(c)
        BY <2>1 DEF Filed
      <4>2. QED
        BY <4>1, FS_Subset DEF GreetInv, CountsInv
    <3>2. \A c \in ConvIds : ~Exists(c)' => replies'[c] = 0 /\ autoRows'[c] = 0
      BY <2>1, <2>3 DEF GreetInv, CountsInv, KeptByStaff, StoreTypeOK
    <3>3. QED
      BY <1>1, <2>1, <3>1, <3>2 DEF GreetInv, CountsInv
  <2>7. QED
    BY <2>4, <2>5, <2>6 DEF GreetInv
<1>4. QED
  BY <1>2, <1>3

\* No step breaks GreetInv.
LEMMA NextGreets ==
  ASSUME NoMoveAfterDelete, Inv, SafeInv, GreetInv, OpsInv, [Next]_vars
  PROVE  GreetInv'
<1>1. Kept /\ KeptByStaff /\ hs \in [Handlers -> Handler]
  BY DEF Inv, TypeOK, Kept, KeptByStaff, InboundTypeOK
<1>2. ASSUME NEW h \in Handlers, HandlerStep(h)
      PROVE  GreetInv'
  <2>1. \A g \in Handlers : g # h => hs'[g] = hs[g]
    BY <1>1, <1>2, OtherHandlers
  <2>2. CASE GoesOn(h) /\ UNCHANGED <<inbox, sent, replies, autoRows>>
    <3>1. \A g \in Handlers : GoesOn(g)
      BY <2>1, <2>2, LeavingGoesOn
    <3>2. /\ nextConv' \in Nat /\ nextConv' >= nextConv
          /\ \A c \in ConvIds : Exists(c) => Exists(c)'
          /\ \A c \in ConvIds : Exists(c)' /\ ~Exists(c) => c = nextConv
      BY <1>1, <1>2, HandlerAddsRows
    <3>3. QED
      BY <1>1, <2>2, <3>1, <3>2, GoingOn
  <2>3. CASE \/ FindCustomer(h) \/ CreateCustomer(h)
             \/ FindConversation(h) \/ CreateConversation(h)
    BY <1>1, <2>2, <2>3, EarlyGoesOn
  <2>4. CASE \/ BumpUnread(h) \/ AcceptRating(h) \/ RefuseRating(h) \/ SplitConversation(h)
             \/ LoadSettings(h) \/ CreateSettings(h)
    BY <1>1, <2>2, <2>4, FilingGoesOn
  <2>5. CASE \/ PrepareReplies(h) \/ SendFails(h) \/ RepliesDone(h)
             \/ InterpretSelection(h) \/ SetDepartment(h) \/ AutoAssign(h)
    BY <1>1, <2>2, <2>5, SendingGoesOn
  <2>6. CASE StoreMessage(h) \/ MoveMessage(h)
    BY <1>1, <2>2, <2>6, StoringKeepsGreets
  <2>7. CASE CountMessages(h) \/ SendReply(h)
    BY <1>1, <2>2, <2>7, CountingKeepsGreets, SendingKeepsGreets
  <2>8. QED
    BY <1>2, <2>3, <2>4, <2>5, <2>6, <2>7 DEF HandlerStep
<1>3. ASSUME UNCHANGED <<storeVars, sent>>, \A h \in Handlers : GoesOn(h)
      PROVE  GreetInv'
  <2>1. /\ UNCHANGED <<inbox, sent, replies, autoRows>>
        /\ nextConv' = nextConv /\ nextConv \in Nat
        /\ \A c \in ConvIds : Exists(c)' = Exists(c)
    BY <1>1, <1>3, StoreAssumption DEF storeVars, Exists, Kept, StoreTypeOK
  <2>2. QED
    BY <1>1, <1>3, <2>1, GoingOn
<1>4. ASSUME NEW h \in Handlers, HandlerFault(h) \/ \E b \in Batches : Receive(h, b)
      PROVE  GreetInv'
  <2>1. UNCHANGED <<storeVars, sent>>
    BY <1>4 DEF HandlerFault, Receive, others
  <2>2. CASE \E b : Continue(h, b)
    BY <1>1, <1>3, <2>1, <2>2, ContinuingGoesOn, LeavingGoesOn
  <2>3. CASE hs' = [hs EXCEPT ![h] = [@ EXCEPT !.pc = "send", !.out = <<>>]]
    <3>1. hs'[h] = [hs[h] EXCEPT !.pc = "send", !.out = <<>>]
      BY <1>1, <2>3
    <3>2. GoesOn(h)
      BY <1>1, <3>1, AnsweringGoesOn
    <3>3. \A g \in Handlers : g # h => hs'[g] = hs[g]
      BY <1>1, <2>3
    <3>4. QED
      BY <1>3, <2>1, <3>2, <3>3, LeavingGoesOn
  <2>4. QED
    BY <1>4, <2>2, <2>3 DEF HandlerFault, Receive, NextEvent, Throw
<1>5. ASSUME NEW r \in Requests, RequestStep(r), UNCHANGED inboundVars
      PROVE  GreetInv'
  BY <1>1, <1>5, RequestKeepsGreets
<1>6. CASE Crash \/ UNCHANGED vars \/ \E r \in Requests : RequestFault(r) /\ UNCHANGED inboundVars
  <2>1. UNCHANGED <<storeVars, sent>>
    BY <1>6 DEF Crash, others, vars, inboundVars, RequestFault
  <2>2. hs' = hs \/ \A h \in Handlers : hs'[h] = Idle
    BY <1>6 DEF Crash, vars, inboundVars
  <2>3. Idle.pc \in Elsewhere
    BY DEF Idle, Fresh, Elsewhere, Steps, Filing
  <2>4. QED
    BY <1>3, <2>1, <2>2, <2>3, LeavingGoesOn
<1>7. QED
  BY <1>2, <1>4, <1>5, <1>6 DEF Next, InboundNext, StaffNext

\* No conversation is greeted twice, whatever is repeated, moved, listed,
\* answered, deleted, fails or crashes, as long as staff delete nothing or no
\* message is moved.
THEOREM GreetedAtMostOnce ==
  ASSUME NoMoveAfterDelete
  PROVE  Spec => []GreetedOnce
<1>1. Init => GreetInv /\ OpsInv
  <2>. SUFFICES ASSUME Init PROVE GreetInv /\ OpsInv
    OBVIOUS
  <2>1. \A h \in Handlers : hs[h] = Idle /\ hs[h].pc = "idle"
    BY DEF Init, InboundInit, Idle, Fresh
  <2>2. \A c \in ConvIds : sent[c]["greeting"] = 0 /\ replies[c] = 0 /\ autoRows[c] = 0
    BY DEF Init, InboundInit, StoreInit
  <2>3. \A c \in ConvIds : Filed(c) = {}
    BY DEF Init, StoreInit, Filed
  <2>4. FilesInv /\ GreetsInv
    BY <2>1, <2>2 DEF FilesInv, GreetsInv, Greeted, Greets, Files, Filing, At
  <2>5. CountsInv
    BY <2>2, <2>3, FS_EmptySet DEF CountsInv
  <2>6. QED
    BY <2>4, <2>5 DEF GreetInv, OpsInv, Init, StaffInit, NoRequest
<1>2. Inv /\ SafeInv /\ GreetInv /\ OpsInv /\ [Next]_vars => GreetInv' /\ OpsInv'
  BY NextGreets, NextOps
<1>3. GreetInv => GreetedOnce
  BY DEF GreetInv, GreetsInv, GreetedOnce
<1>4. QED
  BY <1>1, <1>2, <1>3, Invariance, Safety, PTL DEF Spec
=============================================================================
