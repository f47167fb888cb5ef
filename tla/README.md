# INTRA, formally

TLA+ specifications of INTRA, the multi-tenant customer-support inbox in this
repository: a NestJS backend over PostgreSQL (Prisma), webhooks from Meta
(Messenger, Instagram, WhatsApp), a mailbox, a BullMQ queue, and a Next.js
frontend. The specifications are translated from `src/`, model-checked with TLC
on small instances, and the invariants that matter most are proved with TLAPS
for every value of the constants.

## The system

| Part | State it keeps | Operations | What is hard |
|---|---|---|---|
| Meta webhooks (`meta/meta.service.ts`) | customers, conversations, inbound messages | one webhook request carries several messages; each is looked up, stored, counted, maybe read as a rating, answered, routed | one statement at a time, no transaction; Meta repeats deliveries, also concurrently; exceptions end an event or the whole value |
| Conversations (`conversations/`) | status, assignee, resolver, audit log | create, assign, handoff, unassign, close, resolve, status, delete, notes, tags, star | each is a check, then an unconditional write, then an audit row |
| Messages (`messages/`) | staff messages, unread counter | list (marks as read), send | the list races with webhooks; a send races with every status change |
| Outbound delivery (`messages/`, `meta/meta.service.ts`, `meta/meta.outbound-queue.ts`) | `Message.status`, `retryCount`, the queue's jobs | save, submit to the Graph API, record the outcome, retry | the outcome may be lost after the API accepted; jobs are retried, may stall, and be run twice |
| Routing (`routing/`) | routing settings, department and assignee of a conversation | menu, choice, auto-assignment | reads departments, agents and loads, then writes |
| Departments (`departments/`) | departments and their members | create, update, set members, delete | race with routing |
| Email (`email/`) | highest UID processed, threads | connect, fetch, take a mail | skipped or repeated mails, fetches that overlap, lost connections |
| Social accounts (`social-accounts/`) | page credentials, subscriptions at Meta | connect by OAuth, create, edit, switch, remove, repair, look up | one page, several organizations; several calls of Meta, each may fail |
| Presence (`socket/`, the browser's session) | `User.isOnline`, tabs, sockets | connect, disconnect, report, idle | several tabs, late disconnects, lost reports |
| Customers (`customers/`) | details, tags, private notes | edit, refresh, note, erase | several views of one customer; erasure touches a dozen tables |
| Staff and sign-in (`auth/`, `staff/`) | organizations, users, sessions | register, login, Google, profile, invite, edit, deactivate | tokens outlive what they were issued for; forms outlive what they show |
| Tags, saved replies, auto-replies | lists of rows | add, edit, delete | deleting what is attached |
| Plans and billing (`plans/`, `billing/`) | plan, seats | seat check, payment webhook | |
| Tenancy (`prisma/prisma.service.ts`, `tenancy/`) | the request's organization | adds `orgId` to statements | |
| Administration (`admin/`) | | delete an organization, statistics | reaches all tables |
| Frontend (`frontend/src`) | the open conversation, contact panels, session, lists | load, post optimistically, merge events | answers out of order, lost events |

The parts share the database and little else: webhooks and staff requests are
independent HTTP requests of one Node process (or several), each a chain of
awaited statements, so any two of them interleave between any two statements.
A statement is atomic; a chain is not, unless it is a `$transaction`. The socket
server announces some of the changes; a page that hears of none shows what it
loaded.

## Modules

`Inbox` composes the two halves of the inbox over one store. `Routing` looks
closer at one step of it: where `InboundMessages` lets a reply select any
department and any agent, it models departments, members, presence and load, over
the roster of `Roster`. The other modules share no variable with these: what
they need of the rest (a new message, an edit by a colleague, a deleted
conversation) is an action of their own environment.

| Module | Models | How it corresponds to the code |
|---|---|---|
| `InboxStore` | tables `Customer`, `Conversation`, `Message`, `RoutingSettings` of one organization | one variable per table, or per kind of message row; unique indexes and foreign keys are the guards of the inserts |
| `InboundMessages` | `handleWebhook`, `handleMessagingEvent`, `handleWhatsAppWebhookValue`, `processRatingReply` and the statements of `handleInboundRouting` | a handler per webhook request; its record holds the local variables (`conv`, `awaiting`, `asked`, `resolver`, `first`), its `pc` the next awaited statement |
| `StaffDesk` | `conversations.service.ts`, `createMessage` up to the delivery, `listMessages` | a process per HTTP request; an operation is one definition whose first disjunct reads and checks and whose others are its later statements |
| `Inbox` | both, plus a crash of the process | `Next` interleaves everything; the properties are here |
| `Delivery` | what delivering a reply promises: an outcome is final, `SENT` means accepted, and nothing is submitted once the outcome is known; when two workers have shared a job, an outcome may be revised | the specification `OutboundDelivery` refines, with `shared` for "some job was given away while its worker was still at it" |
| `OutboundDelivery` | the delivery half of `createMessage`, `processOutboundJob`, the BullMQ job | per reply: the row's status and `retryCount`, the request, the job; per worker: its locals |
| `Roster` | users, departments and members: `departments.service.ts`, `staff.service.ts`, the writes of `isOnline` in `socket.gateway.ts` | an edit that is one unconditional statement is one action; `setMembers` is a check and a write |
| `Routing` | the department menu of `handleMessagingEvent`, `handleInboundRouting`, `autoAssignConversation`, `deleteDepartment` | a handler per message with what it has read |
| `Presence` | the tabs of one browser (`AuthContext`, `SocketProvider`), their status requests, the gateway's connections | per tab its page, timers and socket; per socket where its handlers are; requests on their way are a set, so they arrive in any order |
| `Mailbox` | `email.service.ts` but for sending | `link` is the connection `initImap` keeps, `mark` is `lastProcessedUID`; a fetch has read a list of mails and processes them statement by statement, while others may do the same |
| `Erasure` | everything that deletes rows others refer to, and everything that adds such rows or edits tags and replies | a table of rows with what each refers to; a routine is a list of delete statements, each a condition on rows, in or out of a transaction; the guards of `Statement` and `Insert` are the foreign keys |
| `Accounts` | registration, sign-in, profile, staff, seats, the super admin; the page that edits staff | per browser the request under way, what its token says, and the row its form was opened with |
| `Channels` | `social-accounts.service.ts`, the OAuth redirect and the channels page | per request which call of Meta or statement comes next, and what it holds; what Meta is subscribed to is a variable of its own |
| `Thread` | the conversation page: loads, polls, optimistic messages, notes, socket events | requests are a sequence of calls, each served and answered on its own; events a queue that is lost while the socket is not joined |
| `InboxList` | `useConversationInbox` and what the server announces to it | one conversation in the list of one admin or agent: requests as in `Thread`, events a queue of which those about mails carry a row; `mail` is the row `processIncomingEmail` has read and not yet sent |
| `Contact` | contact details, profile refresh and private notes in several views | per view what it shows, the form opened on it, the refresh or note under way |
| `MCInbox`, `MCRouting`, `MCErasure`, `MCAccounts`, `MCChannels`, `MCContact` | small instances for TLC | |
| `InboxProofs`, `RoutingProofs`, `PresenceProofs`, `MailboxProofs`, `ChannelsProofs` | proofs of the module of that name | |
| `MessageProofs` | proofs of `OutboundDelivery` and `Thread`: a message on its way out, and on the page | the two share no variable; the names of `Thread` that would clash begin with `thread` |
| `CustomerProofs` | proofs of `Erasure` and `Contact` | as above, `contact` |
| `StaffProofs` | proofs of `Accounts` and `InboxList` | as above, `list` |

### What the models abstract

* Inbox: texts are `"number"` (parses as a rating or a menu choice) or `"words"`; a
  rating is 1 or 10. Ids follow creation order, so "the latest conversation" is the
  largest id. Every plan has every capability in this commit, so capability checks
  pass. WhatsApp auto-replies are submitted and not saved; Messenger and Instagram
  ones are also saved as staff rows; an error between submitting and saving one is
  not told apart from a failed submission. The prompt sent on resolution changes no
  row and is left out. Which agent is assigned is a free choice, computed in `Routing`.
* Routing: creating and deleting conversations is left out. The menu is that of
  Messenger and Instagram; WhatsApp sends a text an admin wrote, whose numbers
  nothing ties to departments. New staff members are users who are activated.
* Outbound delivery: `MetaOutboundQueue.enqueue` has no caller in this commit. The
  queue is modelled as a message being saved and enqueued, and checked for what
  it is written to do.
* Mailbox: a mail is its sender and whether it reads as words, as a rating or has
  no sender. `EmailChannel` says whether the client knows the channel `EMAIL`: the
  migration `20260317213333` adds it, the enum in `schema.prisma` lacks it; with
  `FALSE` every mail fails at its first statement, so the run takes `TRUE`. A deleted
  conversation takes its messages along: they stay in `message`, which says what
  was stored, and are not `Kept`.
* Erasure: rows have no columns but what they refer to. Statements of a
  transaction lock what they delete until it ends; a request that would refer to
  such a row waits.
* Accounts: passwords are right; addresses are model values with a function `lower`.
  Two spellings of one address are two rows for the database, one for Google.
* Channels: a token is as good as the page it is of. `Row` order is creation order.
* Thread: a message is either older than 30 seconds by the browser's clock or not,
  and may become so at any time. Loading the conversation and its active sibling
  is one call.
* InboxList: one conversation; sorting, filters and the lists of staff and departments
  are left out, and a list is answered as one with the customers. `PENDING` is like
  `OPEN`. A message is stored and counted in one step.
* Contact: details and notes share no variable, so `Topics` has a behaviour be
  about one or the other. The load of the page that follows a save is one step:
  the order of loads is the matter of `Thread`.

Several models keep *history*: a variable no code reads, that records why a state
may differ from what is expected (`stale` in `Presence` and in each browser of
`Accounts`, `doubled` and `unheard` in `Channels`, `excuse` and `failed` in `Mailbox`,
`upset` in `Erasure`, `lost` and `dim` in `Thread`,
`causes` in `InboxList`, `undone`, `late` and `behind` in
`Contact`). Their properties have the form "right, or for one of these causes",
and are as strong as the causes are few; each cause is set by the action that is
it, and withdrawn by the action that mends it.

## Runs

`CHECK_DEADLOCK` is off in all: customers and staff may simply stop, and the
bounds end every behaviour.

| Run | Instance and bounds | Shows |
|---|---|---|
| `inbound_serial` | one webhook at a time, values of one or two messages, each delivered up to twice, one fault anywhere, two staff requests that end no conversation | a message is stored at most once, and without a fault every message is eventually stored |
| `inbound_race` | two concurrent webhooks of two customers against two requests that open, list, resolve, change, close and delete | filing, the unread counter, the greeting, resolver and rating, the audit log |
| `delivery` | one reply sent in the request and one by the queue with two workers, refusals, two faults, two jobs given away while their worker is still at it | `OutboundDelivery` implements `Delivery`; `SENT` means accepted; duplicates are bounded by faults and shared jobs; without either nothing stays `PENDING` |
| `routing_serial` | an admin and two agents, two departments, two conversations, three messages, two edits between messages, a fault | a conversation is routed once, the assignee is who the settings, the loads and the roster say, a deleted department is attached to nothing |
| `presence` | two tabs, two sockets, three acts, one fault, two requests of a tab under way | a wrong flag is explained, an idle user is signed out |
| `mailbox` | two mails, two fetches, two acts of the staff, one trouble (closed connection, crash, failing statement or new mailbox) | missed and duplicate mails are explained, ratings are credited once, every mail is taken |
| `erasure` | a row in every table of one organization, the least of a second; two actors, two routines, one failure | nothing is refused, half done or left behind but for a listed cause; others keep their rows |
| `accounts` | two organizations, four users, two browsers, one address in two spellings | what tokens grant, who leads, what forms overwrite, when an organization is founded |
| `channels` | two organizations, two pages, one with an Instagram account, one number, two connections under way, five acts, two faults | one organization per page, active accounts are subscribed, removed ones stay removed |
| `thread` | two messages and a note, of which a message and the note are written here; two acts, three calls under way, one fault | once all is quiet, the page shows what is stored |
| `inbox_list` | an admin or agent, a mail or Meta customer, three acts, two requests of the list under way, one fault | once all is quiet, the list shows the conversation as it is |
| `contact` | two views, two users, three acts, one lost answer | edits are kept, views and notes are current |

Each bound is the least at which the race in question happens (two conversations
to move or repeat a message between, two requests or handlers to race, a second
organization to take a page), plus one where the state space allows: an act to
set up and two to race in `channels`, `contact`, `presence` and `inbox_list`; in
`delivery` a fault to lose an outcome and one more, and two shared jobs, the
second of which BullMQ fails instead of repeating. The twelve acts
of `accounts` suffice to register, invite, promote, sign in twice, edit from two
browsers and delete an organization in one behaviour. In `erasure` two actors suffice because the
database lets a statement see, and wait for, one other at a time.

### Fairness

* `DeliveredIsStored`: weak fairness of each handler's own steps. Node goes on with
  a started request. Nothing forces Meta to deliver or staff to act, and a fault is
  never forced; the promise is stated up to the first fault, since a message
  dropped by an exception is stored only if Meta delivers it again.
* `PendingIsSettled`: weak fairness of each request and worker and of the queue
  handing out waiting jobs, which is what BullMQ's blocking worker loop does. Also
  up to the first fault or shared job: after a crash a reply may stay `PENDING`.
* `IdleIsSignedOut`: a timer that runs fires, a page that is loading hears of its
  token, a request is answered or fails. Nothing forces the user to do anything, or
  a socket to connect.
* `EveryMailIsTaken`: the loop connects (it retries every 10 seconds), reaches its
  wait, a fetch starts (the poll of every minute) and goes on. Connections may
  close and processes crash within the bound.

## Proofs

TLAPS proves, for any number of customers, messages, conversations, handlers,
requests, fetches, users, tabs, organizations, pages, rows, faults and acts, and
under no hypothesis but those named:

* **Inbox.** `TypeCorrect`. `FiledCorrectly`: a message is only filed under its
  sender. Inductive with: a handler past the lookup holds a conversation that is gone
  or belongs to the sender of its message, also while moving it; ids not yet handed
  out have no row. `NothingMissed`: an unseen message is counted or about to be.
  Inductive with: counters never go below the messages they count; a handler about to
  count holds the row it stored; a moved row is one the history knows.
  `RatingsAttributable`, `Audited`: inductive with what each request in flight is
  about to write. `InboxProofs` has types and what handlers and requests remember
  (`Inv`), then builds the rest on it (`SafeInv`), one lemma per group of actions.
  Three more have hypotheses, which the code does not enforce:
  `RatingsFinal`, that staff requests come one at a time (`OneRequest`), since two
  resolutions may both pass their checks; `StoredAtMostOnce`, one webhook at a time
  and no conversation opened or ended (`OneHandler`, `NothingEnds`), since the unique
  key is per conversation and the conversation is looked up first;
  `GreetedAtMostOnce`, for any number of handlers, that staff delete nothing or no
  message is moved (`NoMoveAfterDelete`): who counts one message on a conversation
  had better count its own.
* **Outbound delivery.** `TypeCorrect`. `SentIsTrue`: a request or worker about to write
  `SENT` has seen the acceptance. `KeepsPromise`:
  `Spec => DeliveryPromise`, the refinement of `Delivery`. Until a job is shared, an
  active one has exactly one worker, the one that holds it, and nothing submits a
  message whose outcome is known (`Exclusive`); from then on `Delivery` allows a
  revision, and what is left to show is that `SENT` is written by those who have seen
  the acceptance (`SharedRefines`). `DuplicatesBounded`: inductive with a count of the submissions still
  possible: jobs waiting, workers at `send` and requests at `send` each weigh one.
* **Routing.** `TypeCorrect`, which has the foreign key to departments.
  `RoutedOnceByOne`: with one handler a conversation keeps its department until that
  is deleted, with edits between any two statements. Inductive with: a handler
  that is about to choose or set a department knows of an unrouted conversation,
  which only its own step changes. `DeletedUnattached`, for any number of handlers,
  and `AssignmentFitsByOne`, for one, take edits between messages only
  (`~EditsInBetween`): then what a handler has read of departments, members and
  loads is what is there.
* **Presence.** `TypeCorrect`, `GhostTheorem`, `AbsenceTheorem`. The properties speak of
  moments at which nothing is under way, so the invariant says what is under way at
  the others: while the flag is right, an online user has a connection or a handler
  still to write (`OnlineHasConnection`), and a tab that is looked at while the flag
  is off has a report coming (`OfflineIsReported`).
* **Social accounts.** `TypeCorrect`. `OneOrganization`: a connection that found the
  page free may trust that until it saves, or is marked late (`CheckedIsFree`).
  `ActiveAccountsHeard`: whoever is about to save has an answer from Meta, and every
  account of a page, on or off, came from one (`SavedIsHeard`). `RemovedStays`: only
  a connection that saves, or a request that somebody makes, fills an empty row.
* **Email.** `MailboxTypeCorrect`. `MissedExplained`, when the client knows the
  channel (`EmailChannel`; otherwise every mail fails): a mail is accounted for
  (`Passed`) as soon as it is below the mark, is stored or comes before the first
  mail of a list some fetch holds; lists that are not of an older mailbox hold every
  mail from their first on (`Current`). `DuplicateExplained`: the mark and the last
  UID are not below any stored mail, and whoever is about to store one knows that
  it is not stored, as long as nothing that excuses a duplicate has happened
  (`DupInv`, over `IdInv`: a mail has one UID). `CreditsMatch`: a
  fetch that will take its mail for a rating holds a conversation that still awaits
  one (`Promise`), and without an overlap there is one fetch at most (`OneBusy`).
* **Erasure.** For every database whose keys hold (see the assumption below).
  `TypeCorrect`;
  `KeysHold`: the foreign keys hold in the database and in what each transaction
  sees of it. `RefusalsExplained`, `NothingHalfDone`: what a routine has deleted so
  far is still gone, the conversations it has read are the customer's, and what a
  new row refers to is there, or the history says who disturbed it (`Undisturbed`).
  A routine then only fails where it comes to a row before a row that refers to it,
  and `ChildrenFirst` shows of all thirteen routines that none does. `ErasedGone`: a
  transaction about to commit has deleted its aim (`AimInv`), and rows added unseen
  would have been waited for. `OthersKept`: what a transaction has deleted so far is
  about its target (`OwnInv`).
* **Accounts.** `TypeCorrect`. `RightsExplained`, `PageExplained`, `SecondHomeExplained`:
  a request about to get a token, a form, and a request about to found an organization
  know the row or its absence, or are marked (`Signing`, `Editing`), over tables whose
  keys hold (`Tables`). `OrganizationsLed`: no statement of the code checks that an
  admin is left. It holds because some admin is open in no form: the list holds no
  admins, and one who becomes admin through a form stays open in it until it is
  saved (`Led`).

* **The conversation page** (`Thread`). `ThreadTypeCorrect`, `ShownOnce`. The other two
  speak of moments at which nothing is under way, so the invariant (`ThreadInv`) says
  what every request and event still under way will make of the page. `PostsShown`: a
  post that is stored is shown, known to be missed, or its event is on the wire
  (`StoredIsComing`); a list that was read before a post came and is shown after it is
  where this could break, and the page keeps young posts for that. `RowCurrent`: the
  row on the page is the stored one, or a request or event is under way that ends in
  loading it, or a cause is known (`CurrentOrComing`). Inductive with: an answer holds
  the row or an older version of it, and equal versions are equal rows (`AnswersSeen`).
* **Contact.** `ContactTypeCorrect`, `EditsKept`, `ViewExplained`, `NoteExplained`: every copy
  of a field, in a form or in a refresh under way, is what is stored, or the form or
  refresh holds the field as late (`FormsKnow`, `SyncsKnow`); an answer with a note is
  the stored note, or old (`FetchesKnow`). Two views that create the first note at once
  are where `NoteExplained` rests on the unique key.
* **The list** (`InboxList`). `ListTypeCorrect`, `ListCurrent`. As in `Thread`: a cause is
  known, or the entry is the row (`Current`), or a mail, an event or a load is under way
  that tells of it (`Coming`). What makes it harder is that the answer to a star changes
  the row and takes over the star alone, so that an older list that comes before it is
  as good as a new one. `Base` is the version that differs from the row, if at all, in a
  star whose answer is still to come; everything read of the row from `Base` on is like
  it but for the star (`AllSeen`). There is one such star at most, since the list waits
  for its answer (`OneStar`). An answer that says nothing is one older than `Base` and
  not older than what was shown (`Tells`); it leaves whatever else is coming.

The assumptions are the named ones of the modules (`StoreAssumption`,
`InboundAssumption`, `StaffAssumption`, `DeliveryAssumption`, `RosterAssumption`,
`RoutingAssumption`, `PresenceAssumption`, `MailboxAssumption`, `ErasureAssumption`,
`ChannelsAssumption`, `AccountsAssumption`, `ThreadAssumption`, `ContactAssumption`,
`InboxListAssumption`), about the types of the constants; TLC
evaluates them in every run. That no row is the null value, or an error, is
among them: the models write `Nobody` and `Refused` for those. `ErasureAssumption` also has what the data of erasure
look like: foreign keys hold in the databases it starts from, and a row refers to
rows of its own organization, since requests look up what they refer to by `orgId`
(`customers.service.ts:197`, `conversations.service.ts:597`). Assignees,
departments and memberships, which a deletion clears, are free of that.

Every safety property the runs check is the statement of a theorem, the action
properties and the refinement included. The bounds of the runs are no assumption of
any of them but that they are natural numbers. Only model-checked is liveness
(`DeliveredIsStored`, `PendingIsSettled`, `IdleIsSignedOut`, `EveryMailIsTaken`): it rests on
fairness, hence on ENABLED, which is out of the prover's reach. That each
run's invariant is strong enough was found out with TLC first: the inductive
invariants were checked as invariants of the same instances.

## What the models showed

Some properties hold only as far as the runs say. Beyond that, by changing the
constants of the runs above:

* `DeliveredIsStored` with two handlers: "Upsert customer" (`meta.service.ts:946`) is a
  find and a create; of two concurrent first messages one is dropped, with a 200
  for Meta.
* `StoredOnce` when staff may close or create conversations between two deliveries:
  the unique key is per conversation, and the conversation is looked up first.
* `RatingIsFinal` with two requests: two resolutions checked at the same time, the
  first one rated before the second is written, which asks for a rating again. The
  totals of the resolver are incremented whether or not the rating was taken.
* `GreetedOnce` when words may be moved and staff delete: the old conversation of a
  message that is about to be moved is deleted, the message with it, and its handler
  counts the messages of others on the new one. The run has numbers only.
* `RoutedOnce` with two handlers; `AssignmentFits` and `DeletedIsUnattached` with
  `EditsInBetween`.

And behaviour a reader of the code may not expect, which the models reproduce:

* Inbox: words in reply to a rating prompt are moved to a new conversation whose
  `unreadCount` stays 0 (`meta.service.ts:1091`). A status change checked before a
  resolution is written after it (`conversations.service.ts:540`, `551`). The number
  a customer replies with is an index into the departments active at that time
  (`routing.service.ts:98`), not into the menu he got.
* Delivery: the API accepts a reply, the update to `SENT` fails, the `catch` marks
  it `FAILED` (`messages.service.ts:150`).
* Email: a connection that closes during the first fetch leaves the loop waiting
  for a close event that has passed (`email.service.ts:133`, `151`): `link = "deaf"`.
  A mail whose statement fails is passed by the mark and not read again.
* Thread: a note written on the page is shown twice when its socket event comes
  before the answer, and `loadNotes` may drop a newer one. Closing, resolving,
  assigning, starring by a colleague is announced to nobody, `conversation_unassigned`
  has no listener, and a reconnection loads nothing. Agents see unassigned
  conversations in their list, whose messages they are refused.
* InboxList: the comment on the event of a mail (`email.service.ts:473`) says that the
  dashboard can update instantly "without making any API calls". The row in it has no
  `lastMessage`, so the preview stays that of the message before, and agents pass
  over mails that are not assigned to them, so a new unassigned one appears at their
  next load. Opening a conversation leaves its unread badge until then, too.
* Contact: a field cannot be cleared through the form, since blank means "as it
  was"; a name from Meta overwrites a typed one at the next message; stale forms and
  refreshes write back what others changed. A note saved before the older one was
  loaded replaces it.
* Accounts: the sign-in page offers no choice of organization, so an address in two of
  them cannot sign in by password.
* Channels: repairing an Instagram account subscribes the account's id in place of
  its page's.
* Erasure: `adminDeleteOrganization` deletes the sign-in codes of everybody
  (`admin.service.ts:107`). Nothing checks that the department of an auto-reply or a
  saved reply is one of its organization (`auto-reply.service.ts:30`), so deleting a
  department may clear a column of another organization's row: `OthersKeepTheirs`
  excepts it, which the proof showed and the run, where departments match, did not. A tag attached while it is being deleted leaves it
  detached everywhere else and undeleted.

## Not modelled

* Tenancy: a query extension that adds `orgId` to one statement; it has no state of
  its own. The models of several organizations have the conditions the services
  write themselves.
* Billing: the webhook hands the parsed body to a signature check that needs the raw
  one (`billing.controller.ts:30`, `main.ts:106`), so it refuses every event and no
  plan changes. `exchangeGoogleAuthCode`: nothing creates the codes it redeems.
  `sendReply` of the mail service: nothing calls it.
* The list of contacts in the browser (`useContactsList`): a load and a filter; and
  the filters of the list of conversations, functions of what it holds.
* The texts of tags, saved replies and auto-replies, the department a reply is for,
  and the editing of settings: one statement each, which nothing else reads in between.
* Analytics, rendering, HTTP plumbing, signature verification, password hashing and
  token signatures, which are reads, library calls or functions of one request; and
  the content of messages.
