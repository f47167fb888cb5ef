--------------------------- MODULE InboundMessages ---------------------------
(***************************************************************************)
(* The Meta webhook handlers of meta.service.ts: handleWebhook, and under  *)
(* it handleMessagingEvent (Messenger, Instagram) or                       *)
(* handleWhatsAppWebhookValue.  One process per HTTP request; one action   *)
(* per awaited statement that reads or writes shared rows.  What a handler *)
(* read earlier stays in its record, as it does in the local variables of  *)
(* the source.  Meta delivers at least once and may repeat a delivery      *)
(* while the first one is still being handled.                             *)
(***************************************************************************)
EXTENDS InboxStore, Sequences

CONSTANTS
  Handlers,      \* concurrent webhook requests
  Batches,       \* sequences of Mids that one request may carry
  TextOf,        \* [Mids -> {"number", "words"}]: does the text parse as 1..10
  Channel,       \* "MESSENGER" (also stands for Instagram) or "WHATSAPP"
  Triggers,      \* auto-reply triggers in effect, of {"AFTER_HOURS", "FIRST_MESSAGE"}
  MenuOffered,   \* department question enabled and at least one choice to offer
  AutoRouting,   \* RoutingSettings.autoRoutingEnabled
  MaxDeliveries  \* bound: deliveries of one message

ASSUME InboundAssumption ==
  /\ Batches \subseteq Seq(Mids)
  /\ TextOf \in [Mids -> {"number", "words"}]
  /\ Channel \in {"MESSENGER", "WHATSAPP"}
  /\ MenuOffered \in BOOLEAN
  /\ AutoRouting \in BOOLEAN
  /\ MaxDeliveries \in Nat

VARIABLES
  hs,          \* the handlers' program counters and local variables
  deliveries,  \* how often Meta has delivered each message
  ratingCount, \* User.ratingCount
  moved,       \* history: message rows moved to a split-off conversation
  sent         \* history: greetings and first menus sent per conversation

others == <<deliveries, ratingCount, moved, sent>>
inboundVars == <<hs, deliveries, ratingCount, moved, sent>>

Replies == {"afterHours", "greeting", "menu", "answer"}

Steps ==
  {"idle", "customer", "newCustomer", "conversation", "newConversation",
   "store", "bump", "rating", "split", "move", "settings", "newSettings",
   "context", "menu", "send", "select", "department", "assign", "answer"}

Handler ==
  [pc : Steps, batch : Seq(Mids), conv : 0..MaxConvs, awaiting : BOOLEAN,
   asked : BOOLEAN, resolver : Users \union {Nobody}, from : 0..MaxConvs,
   first : BOOLEAN, out : Seq(Replies)]

At(h, step) == hs[h].pc = step
Event(h) == Head(hs[h].batch)

\* The locals of an event that has not read anything yet.
Fresh(step, batch) ==
  [pc |-> step, batch |-> batch, conv |-> 0, awaiting |-> FALSE,
   asked |-> FALSE, resolver |-> Nobody, from |-> 0, first |-> FALSE,
   out |-> <<>>]

Idle == Fresh("idle", <<>>)

Goto(h, step) == hs' = [hs EXCEPT ![h].pc = step]

\* Go on with the rest of the request's events, or answer 200.
Continue(h, batch) ==
  hs' = [hs EXCEPT ![h] =
           IF batch = <<>> THEN Idle ELSE Fresh("customer", batch)]

NextEvent(h) == Continue(h, Tail(hs[h].batch))

\* An exception that reaches the catch around one Messenger event, or around
\* a whole WhatsApp value: the latter drops the value's remaining messages.
Throw(h) ==
  Continue(h, IF Channel = "WHATSAPP" THEN <<>> ELSE Tail(hs[h].batch))

InboundInit ==
  /\ hs = [h \in Handlers |-> Idle]
  /\ deliveries = [m \in Mids |-> 0]
  /\ ratingCount = [u \in Users |-> 0]
  /\ moved = {}
  /\ sent = [c \in ConvIds |-> [r \in {"greeting", "menu"} |-> 0]]

InboundTypeOK ==
  /\ hs \in [Handlers -> Handler]
  /\ deliveries \in [Mids -> 0..MaxDeliveries]
  /\ ratingCount \in [Users -> Nat]
  /\ moved \subseteq Mids \X ConvIds
  /\ sent \in [ConvIds -> [{"greeting", "menu"} -> Nat]]
-----------------------------------------------------------------------------
\* POST /webhook with a valid signature for a connected page.
Receive(h, b) ==
  /\ At(h, "idle")
  /\ b # <<>>
  /\ \A i \in DOMAIN b : deliveries[b[i]] < MaxDeliveries
  /\ deliveries' = [m \in Mids |-> deliveries[m] +
                      (IF \E i \in DOMAIN b : b[i] = m THEN 1 ELSE 0)]
  /\ Continue(h, b)
  /\ UNCHANGED <<storeVars, ratingCount, moved, sent>>

FindCustomer(h) ==
  /\ At(h, "customer")
  /\ Goto(h, IF SenderOf[Event(h)] \in customers
               THEN "conversation" ELSE "newCustomer")
  /\ UNCHANGED <<storeVars, others>>

\* customer.create: the unique index on (orgId, source, externalId) rejects a
\* row another handler inserted since; nothing catches that inside the event.
CreateCustomer(h) ==
  /\ At(h, "newCustomer")
  /\ IF SenderOf[Event(h)] \in customers
       THEN Throw(h) /\ UNCHANGED customers
       ELSE /\ customers' = customers \union {SenderOf[Event(h)]}
            /\ Goto(h, "conversation")
  /\ UNCHANGED <<butCustomers, others>>

Awaits(c) == convs[c].status = "RESOLVED" /\ convs[c].awaitingRating

\* Mutant of Joinable: only conversations waiting for a rating are looked up.
JoinableIfAwaiting(k) ==
  {c \in ConvIds : Exists(c) /\ convs[c].customer = k /\ Awaits(c)}

\* Mutant of Joinable: the lookup forgets whose conversation it wants.
JoinableByAnyone(k) ==
  {c \in ConvIds : Exists(c) /\ (convs[c].status = "OPEN" \/ Awaits(c))}

\* Conversations an inbound message of customer k may join.
Joinable(k) ==
  {c \in ConvIds :
     /\ Exists(c)
     /\ convs[c].customer = k
     /\ convs[c].status = "OPEN" \/ Awaits(c)}

\* The latest conversation, and what the rest of the event remembers of it.
Snapshot(h, c) ==
  hs' = [hs EXCEPT ![h] =
           [@ EXCEPT !.pc = "store", !.conv = c, !.awaiting = Awaits(c),
                     !.asked = convs[c].routingQuestionSent,
                     !.resolver = convs[c].resolvedBy]]

\* Mutant of FindConversation: without an open conversation, give up.
FindOpenConversation(h) ==
  /\ At(h, "conversation")
  /\ LET S == Joinable(SenderOf[Event(h)])
     IN  \/ S = {} /\ NextEvent(h)
         \/ \E c \in S : (\A d \in S : d <= c) /\ Snapshot(h, c)
  /\ UNCHANGED <<storeVars, others>>

FindConversation(h) ==
  /\ At(h, "conversation")
  /\ LET S == Joinable(SenderOf[Event(h)])
     IN  \/ S = {} /\ Goto(h, "newConversation")
         \/ \E c \in S : (\A d \in S : d <= c) /\ Snapshot(h, c)
  /\ UNCHANGED <<storeVars, others>>

CreateConversation(h) ==
  /\ At(h, "newConversation")
  /\ InsertConversation(SenderOf[Event(h)])
  /\ hs' = [hs EXCEPT ![h] = [@ EXCEPT !.pc = "store", !.conv = nextConv]]
  /\ UNCHANGED <<butNewConv, others>>

\* message.create: @@unique([conversationId, externalId]) makes a repetition a
\* silent return; a deleted conversation makes it a foreign-key error.
StoreMessage(h) ==
  LET row == <<Event(h), hs[h].conv>>
  IN  /\ At(h, "store")
      /\ CASE ~Exists(hs[h].conv) -> Throw(h) /\ UNCHANGED inbox
           [] Exists(hs[h].conv) /\ row \in inbox ->
                NextEvent(h) /\ UNCHANGED inbox
           [] Exists(hs[h].conv) /\ row \notin inbox ->
                inbox' = inbox \union {row} /\ Goto(h, "bump")
      /\ UNCHANGED <<butInbox, others>>

\* unreadCount: {increment: 1}, on the row as it is now.
BumpUnread(h) ==
  /\ At(h, "bump")
  /\ UpdateConversation(hs[h].conv,
       [convs[hs[h].conv] EXCEPT !.unreadCount = @ + 1])
  /\ Goto(h, IF hs[h].awaiting THEN "rating" ELSE "settings")
  /\ UNCHANGED <<butConvs, others>>

\* Mutant of AcceptRating: the update does not ask awaitingRating: true.
AcceptAnyRating(h) ==
  LET c == hs[h].conv
  IN  /\ At(h, "rating")
      /\ TextOf[Event(h)] = "number"
      /\ \E n \in {1, 10} :
           UpdateConversation(c,
             [convs[c] EXCEPT !.awaitingRating = FALSE, !.customerRating = n])
      /\ NextEvent(h)
      /\ UNCHANGED <<butConvs, others>>

\* processRatingReply with a text that is a rating: one transaction updates
\* the conversation if it still awaits a rating, and the totals of the
\* resolver the handler remembers in any case.
AcceptRating(h) ==
  LET c == hs[h].conv
  IN  /\ At(h, "rating")
      /\ TextOf[Event(h)] = "number"
      /\ \E n \in {1, 10} :
           IF Exists(c) /\ convs[c].awaitingRating
             THEN UpdateConversation(c,
                    [convs[c] EXCEPT !.awaitingRating = FALSE,
                                     !.customerRating = n])
             ELSE UNCHANGED convs
      /\ ratingCount' =
           IF hs[h].resolver = Nobody THEN ratingCount
           ELSE [ratingCount EXCEPT ![hs[h].resolver] = @ + 1]
      /\ NextEvent(h)
      /\ UNCHANGED <<butConvs, deliveries, moved, sent>>

\* processRatingReply with any other text: stop waiting for a rating.
RefuseRating(h) ==
  LET c == hs[h].conv
  IN  /\ At(h, "rating")
      /\ TextOf[Event(h)] = "words"
      /\ UpdateConversation(c, [convs[c] EXCEPT !.awaitingRating = FALSE])
      /\ Goto(h, "split")
      /\ UNCHANGED <<butConvs, others>>

\* The message that was not a rating gets a conversation of its own.
SplitConversation(h) ==
  /\ At(h, "split")
  /\ InsertConversation(SenderOf[Event(h)])
  /\ hs' = [hs EXCEPT ![h] = [@ EXCEPT !.pc = "move", !.from = hs[h].conv, !.conv = nextConv]]
  /\ UNCHANGED <<butNewConv, others>>

\* message.updateMany moves the row; the unique index rejects the move when the
\* new conversation already holds the message.
MoveMessage(h) ==
  LET old == <<Event(h), hs[h].from>>
      new == <<Event(h), hs[h].conv>>
  IN  /\ At(h, "move")
      /\ IF old \in inbox /\ (new \in inbox \/ ~Exists(hs[h].conv))
           THEN Throw(h) /\ UNCHANGED <<inbox, moved>>
           ELSE /\ inbox' = IF old \in inbox
                              THEN (inbox \ {old}) \union {new} ELSE inbox
                /\ moved' = IF old \in inbox THEN moved \union {new} ELSE moved
                /\ Goto(h, "settings")
      /\ UNCHANGED <<butInbox, deliveries, ratingCount, sent>>
-----------------------------------------------------------------------------
\* routingSettingsService.getOrCreate: find, then create if there was none.
LoadSettings(h) ==
  /\ At(h, "settings")
  /\ Goto(h, IF settingsRow THEN "context" ELSE "newSettings")
  /\ UNCHANGED <<storeVars, others>>

CreateSettings(h) ==
  /\ At(h, "newSettings")
  /\ IF settingsRow THEN Throw(h) ELSE Goto(h, "context")
  /\ settingsRow' = TRUE
  /\ UNCHANGED <<butSettings, others>>

MessageCount(c) ==
  Cardinality({m \in Mids : <<m, c>> \in inbox}) + replies[c] + autoRows[c]

\* Mutant of IsFirstMessage: at least one message, not exactly one.
HasMessages(c) == MessageCount(c) >= 1

IsFirstMessage(c) == MessageCount(c) = 1

\* message.count: is this the conversation's only message?
CountMessages(h) ==
  /\ At(h, "context")
  /\ hs' = [hs EXCEPT ![h] =
              [@ EXCEPT !.pc = "menu", !.first = IsFirstMessage(hs[h].conv)]]
  /\ UNCHANGED <<storeVars, others>>

When(p, r) == IF p THEN <<r>> ELSE <<>>

\* Choose the replies; the menu marks the conversation as asked before it is
\* sent.  Whether the question was asked before is the handler's own memory.
PrepareReplies(h) ==
  LET ask == MenuOffered /\ ~hs[h].asked
      c == hs[h].conv
  IN  /\ At(h, "menu")
      /\ hs' = [hs EXCEPT ![h] =
           [@ EXCEPT !.pc = "send",
                     !.out = When("AFTER_HOURS" \in Triggers, "afterHours")
                         \o When(hs[h].first /\ "FIRST_MESSAGE" \in Triggers,
                                 "greeting")
                         \o When(ask, "menu")]]
      /\ IF ask
           THEN UpdateConversation(c,
                  [convs[c] EXCEPT !.routingQuestionSent = TRUE])
           ELSE UNCHANGED convs
      /\ UNCHANGED <<butConvs, others>>

\* Where an event goes once its auto-replies are out or have failed.
AfterReplies(h) ==
  IF At(h, "send") /\ hs[h].asked THEN Goto(h, "select") ELSE NextEvent(h)

\* Send one reply to the Graph API; Messenger and Instagram replies are also
\* saved as STAFF rows, which fails when the conversation is gone.
SendReply(h) ==
  LET c == hs[h].conv
      r == Head(hs[h].out)
  IN  /\ At(h, "send") \/ At(h, "answer")
      /\ hs[h].out # <<>>
      /\ sent' = IF r \in {"greeting", "menu"}
                   THEN [sent EXCEPT ![c][r] = @ + 1] ELSE sent
      /\ autoRows' = IF Channel = "MESSENGER" /\ Exists(c)
                       THEN [autoRows EXCEPT ![c] = @ + 1] ELSE autoRows
      /\ hs' = [hs EXCEPT ![h].out =
                  IF Channel = "MESSENGER" /\ ~Exists(c)
                    THEN <<>> ELSE Tail(@)]
      /\ UNCHANGED <<butAutoRows, deliveries, ratingCount, moved>>

\* A failed send throws away the remaining replies; the catch logs it.
SendFails(h) ==
  /\ At(h, "send") \/ At(h, "answer")
  /\ hs[h].out # <<>>
  /\ hs' = [hs EXCEPT ![h].out = <<>>]
  /\ UNCHANGED <<storeVars, others>>

RepliesDone(h) ==
  /\ At(h, "send") \/ At(h, "answer")
  /\ hs[h].out = <<>>
  /\ AfterReplies(h)
  /\ UNCHANGED <<storeVars, others>>
-----------------------------------------------------------------------------
\* Does a reply in conversation c select a department?
Selecting(c) ==
  /\ AutoRouting
  /\ Exists(c)
  /\ ~convs[c].routed
  /\ convs[c].routingQuestionSent

\* handleInboundRouting reads the conversation again and the active
\* departments; a number may or may not name one of them.
InterpretSelection(h) ==
  LET c == hs[h].conv
  IN  /\ At(h, "select")
      /\ \/ ~Selecting(c) /\ NextEvent(h)
         \/ /\ Selecting(c)
            /\ hs' = [hs EXCEPT ![h] =
                 [@ EXCEPT !.pc = "answer", !.out = When(MenuOffered, "answer")]]
         \/ /\ Selecting(c)
            /\ TextOf[Event(h)] = "number"
            /\ Goto(h, "department")
      /\ UNCHANGED <<storeVars, others>>

SetDepartment(h) ==
  LET c == hs[h].conv
  IN  /\ At(h, "department")
      /\ UpdateConversation(c, [convs[c] EXCEPT !.routed = TRUE])
      /\ IF Exists(c) THEN Goto(h, "assign") ELSE NextEvent(h)
      /\ UNCHANGED <<butConvs, others>>

\* autoAssignConversation writes whom it chose, or null, over any assignee;
\* which agent that is belongs to module Routing.
AutoAssign(h) ==
  LET c == hs[h].conv
  IN  /\ At(h, "assign")
      /\ \E u \in Users \union {Nobody} :
           UpdateConversation(c, [convs[c] EXCEPT !.assignedTo = u])
      /\ \E o \in {<<>>, <<"answer">>} :
           hs' = [hs EXCEPT ![h] = [@ EXCEPT !.pc = "answer", !.out = o]]
      /\ UNCHANGED <<butConvs, others>>

\* A database error in a handler.  The auto-reply and the routing blocks catch
\* their own; any other one ends the event.
HandlerFault(h) ==
  /\ ~At(h, "idle")
  /\ faults < MaxFaults
  /\ faults' = faults + 1
  /\ CASE hs[h].pc \in {"menu", "send"} ->
            hs' = [hs EXCEPT ![h] = [@ EXCEPT !.pc = "send", !.out = <<>>]]
       [] hs[h].pc \in {"select", "department", "assign", "answer"} ->
            NextEvent(h)
       [] OTHER -> Throw(h)
  /\ UNCHANGED <<storeVars, others>>

HandlerStep(h) ==
  \/ FindCustomer(h) \/ CreateCustomer(h)
  \/ FindConversation(h) \/ CreateConversation(h)
  \/ StoreMessage(h) \/ BumpUnread(h)
  \/ AcceptRating(h) \/ RefuseRating(h)
  \/ SplitConversation(h) \/ MoveMessage(h)
  \/ LoadSettings(h) \/ CreateSettings(h) \/ CountMessages(h)
  \/ PrepareReplies(h) \/ SendReply(h) \/ SendFails(h) \/ RepliesDone(h)
  \/ InterpretSelection(h) \/ SetDepartment(h) \/ AutoAssign(h)

InboundNext ==
  \E h \in Handlers :
    \/ /\ (\E b \in Batches : Receive(h, b)) \/ HandlerStep(h)
       /\ UNCHANGED faults
    \/ HandlerFault(h)
=============================================================================
