----------------------------- MODULE InboxStore -----------------------------
(***************************************************************************)
(* The rows of one organization that the inbox works on: customers,        *)
(* conversations, messages and the routing-settings row, with the          *)
(* constraints PostgreSQL enforces on them (prisma/schema.prisma).  Both   *)
(* the webhook handlers (InboundMessages) and the staff's requests         *)
(* (StaffDesk) read and write these variables; each single statement is    *)
(* atomic, nothing larger is.                                              *)
(***************************************************************************)
EXTENDS Integers, FiniteSets

CONSTANTS
  Senders,     \* external ids of customers: PSIDs or wa_ids
  Mids,        \* externalIds of inbound messages
  SenderOf,    \* [Mids -> Senders], who wrote a message
  Admins,      \* users with role ADMIN
  Agents,      \* users with role AGENT
  Nobody,      \* a null user reference
  MaxConvs,    \* bound: conversations ever created
  MaxFaults    \* bound: database errors and process crashes

ASSUME StoreAssumption ==
  /\ SenderOf \in [Mids -> Senders]
  /\ MaxConvs \in Nat
  /\ MaxFaults \in Nat
  /\ Nobody \notin Admins \union Agents

VARIABLES
  customers,   \* the customer rows, keyed by externalId
  convs,       \* the conversation rows, keyed by id
  nextConv,    \* the id the next conversation gets; ids follow createdAt
  inbox,       \* CUSTOMER message rows: pairs <<externalId, conversationId>>
  replies,     \* number of STAFF message rows a user wrote, per conversation
  autoRows,    \* number of STAFF message rows auto-replies wrote
  settingsRow, \* whether the organization's RoutingSettings row exists
  faults       \* faults so far

storeVars ==
  <<customers, convs, nextConv, inbox, replies, autoRows, settingsRow>>

\* Frames: all rows but those of one table.
butCustomers == <<convs, nextConv, inbox, replies, autoRows, settingsRow>>
butNewConv == <<customers, inbox, replies, autoRows, settingsRow>>
butConvs == <<butNewConv, nextConv>>
butInbox == <<customers, convs, nextConv, replies, autoRows, settingsRow>>
butAutoRows == <<customers, convs, nextConv, inbox, replies, settingsRow>>
butSettings == <<customers, convs, nextConv, inbox, replies, autoRows>>

Users == Admins \union Agents
ConvIds == 1..MaxConvs
Status == {"OPEN", "PENDING", "RESOLVED", "CLOSED"}
Ended == {"RESOLVED", "CLOSED"}

Conversation ==
  [customer : Senders, status : Status, awaitingRating : BOOLEAN,
   unreadCount : Nat, routingQuestionSent : BOOLEAN, routed : BOOLEAN,
   assignedTo : Users \union {Nobody}, resolvedBy : Users \union {Nobody},
   customerRating : 0..10, firstResponse : BOOLEAN]

\* No row: never created, or deleted.
Absent == [status |-> "ABSENT"]

Exists(c) == convs[c] # Absent

\* The column defaults of a new conversation.
NewConversation(k) ==
  [customer |-> k, status |-> "OPEN", awaitingRating |-> FALSE,
   unreadCount |-> 0, routingQuestionSent |-> FALSE, routed |-> FALSE,
   assignedTo |-> Nobody, resolvedBy |-> Nobody, customerRating |-> 0,
   firstResponse |-> FALSE]

\* conversation.create: the id is fresh, the customer's row must exist.
InsertConversation(k) ==
  /\ nextConv \in ConvIds
  /\ convs' = [convs EXCEPT ![nextConv] = NewConversation(k)]
  /\ nextConv' = nextConv + 1

\* conversation.updateMany({where: {id}}): no row, no effect.
UpdateConversation(c, row) ==
  convs' = IF Exists(c) THEN [convs EXCEPT ![c] = row] ELSE convs

StoreInit ==
  /\ customers = {}
  /\ convs = [c \in ConvIds |-> Absent]
  /\ nextConv = 1
  /\ inbox = {}
  /\ replies = [c \in ConvIds |-> 0]
  /\ autoRows = [c \in ConvIds |-> 0]
  /\ settingsRow = FALSE
  /\ faults = 0

StoreTypeOK ==
  /\ customers \subseteq Senders
  /\ convs \in [ConvIds -> Conversation \union {Absent}]
  /\ nextConv \in 1..(MaxConvs + 1)
  /\ inbox \subseteq Mids \X ConvIds
  /\ replies \in [ConvIds -> Nat]
  /\ autoRows \in [ConvIds -> Nat]
  /\ settingsRow \in BOOLEAN
  /\ faults \in 0..MaxFaults
=============================================================================
