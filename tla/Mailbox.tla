------------------------------ MODULE Mailbox -------------------------------
(***************************************************************************)
(* email.service.ts: the loop that keeps a connection to the mailbox, the  *)
(* fetches that its events, the poll and the loop start, the steps of one  *)
(* mail, and the high-water mark in memory and in the stored messages.     *)
(***************************************************************************)
EXTENDS Integers, Sequences, FiniteSets, SequencesExt

CONSTANTS
  Sender,       \* addresses
  Fetcher,      \* bound: fetches under way at a time
  Loop,         \* the fetch initImap waits for
  EmailChannel, \* the generated client knows the channel EMAIL
  MaxMails,     \* bound: mails that arrive
  MaxActs,      \* bound: things the staff does
  MaxTroubles   \* bound: connections that close, crashes, failing statements,
                \* mailboxes created anew

ASSUME MailboxAssumption ==
  /\ Loop \in Fetcher
  /\ EmailChannel \in BOOLEAN
  /\ MaxMails \in Nat /\ MaxActs \in Nat /\ MaxTroubles \in Nat

VARIABLES
  box,       \* box[uid]: the mail with that UID
  mark,      \* lastProcessedUID
  link,      \* down, opening, up, or deaf: closed with nobody listening
  fetch,     \* per fetch: the mails it has to process, and where it is
  customer,  \* customer[c]: the address
  thread,    \* thread[v]: a conversation
  message,   \* the messages ever stored, in the order of createdAt
  credits,   \* ratings credited to the staff
  arrived, acts, troubles,
  failed,    \* history: the mails a statement failed for
  excuse     \* history: what else went on than one fetch at a time

vars == <<box, mark, link, fetch, customer, thread, message, credits,
          arrived, acts, troubles, failed, excuse>>
store == <<customer, thread, message, credits>>
bounds == <<arrived, acts, troubles>>

\* A fetch that does nothing.
Rest == [pc |-> "rest", list |-> <<>>, from |-> 0, into |-> 0, rates |-> FALSE]

Init ==
  /\ box = <<>>
  /\ mark = 0
  /\ link = "down"
  /\ fetch = [f \in Fetcher |-> Rest]
  /\ customer = <<>> /\ thread = <<>> /\ message = <<>>
  /\ credits = 0
  /\ arrived = 0 /\ acts = 0 /\ troubles = 0
  /\ failed = {} /\ excuse = {}

Busy == {f \in Fetcher : fetch[f].pc # "rest"}
\* Something else than f is between two steps.
Excuse(what) == excuse' = excuse \union what
Alone(f) == IF Busy \subseteq {f} THEN {} ELSE {"overlap"}
Edited == IF Busy = {} THEN {} ELSE {"edited"}
Trouble == troubles < MaxTroubles /\ troubles' = troubles + 1 /\ UNCHANGED <<arrived, acts>>
Steps == UNCHANGED bounds
-----------------------------------------------------------------------------
(***************************************************************************)
(* The connection                                                          *)
(***************************************************************************)
\* A mail arrives.
Arrive ==
  /\ arrived < MaxMails /\ arrived' = arrived + 1
  /\ \E from \in Sender, text \in {"words", "rating", "no sender"} :
       box' = Append(box, [id |-> arrived', from |-> from, text |-> text])
  /\ UNCHANGED <<mark, link, fetch, store, acts, troubles, failed, excuse>>

\* The connection closes.  While the first fetch runs nobody listens, and the
\* loop then waits for ever for an event that is past.
Shut == link' = IF link = "opening" THEN "deaf" ELSE "down"
Close ==
  /\ Trouble
  /\ link \in {"opening", "up"}
  /\ Shut
  /\ UNCHANGED <<box, mark, fetch, store, failed, excuse>>

\* The mailbox is deleted and created anew: UIDs start again.
Recreate ==
  /\ Trouble
  /\ box' = <<>>
  /\ IF link \in {"opening", "up"} THEN Shut ELSE UNCHANGED link
  /\ Excuse({"new mailbox"})
  /\ UNCHANGED <<mark, fetch, store, failed>>

\* The process dies, and starts again.
Crash ==
  /\ Trouble
  /\ link' = "down" /\ mark' = 0
  /\ fetch' = [f \in Fetcher |-> Rest]
  /\ UNCHANGED <<box, store, failed, excuse>>

\* A conversation that is deleted takes its messages with it.
Kept == {i \in DOMAIN message : thread[message[i].in].status # "deleted"}

\* Mutant of loadLastProcessedUID: the first message stored instead of the last.
loadFirstProcessedUID == IF Kept = {} \/ ~EmailChannel THEN 0 ELSE message[Min(Kept)].uid

\* The UID of the message stored last, or 0.
loadLastProcessedUID == IF Kept = {} \/ ~EmailChannel THEN 0 ELSE message[Max(Kept)].uid

\* What a fetch finds above a mark.
Above(m) == [i \in 1..(Len(box) - m) |-> [uid |-> m + i, mail |-> box[m + i]]]
Begin(list) == IF list = <<>> THEN Rest ELSE [Rest EXCEPT !.pc = "find", !.list = list]

\* initImap connects, restores the mark, which an error makes 0, and fetches.
Connect ==
  /\ link = "down" /\ fetch[Loop].pc = "rest"
  /\ link' = "opening"
  /\ \/ /\ mark' = IF loadLastProcessedUID >= Len(box) + 1 THEN 0 ELSE loadLastProcessedUID
        /\ Excuse(Alone(Loop)) /\ Steps
     \/ mark' = 0 /\ Excuse({"fault"} \union Alone(Loop)) /\ Trouble
  /\ fetch' = [fetch EXCEPT ![Loop] = Begin(Above(mark'))]
  /\ UNCHANGED <<box, store, failed>>

\* The first fetch is done: now the loop listens.
Listen ==
  /\ link = "opening" /\ fetch[Loop].pc = "rest"
  /\ link' = "up"
  /\ UNCHANGED <<box, mark, fetch, store, failed, excuse>> /\ Steps

\* Mutant of fetchUnreadEmails: without a mark nothing is fetched.
fetchAboveMark(f) ==
  /\ f # Loop /\ link = "up"
  /\ fetch[f].pc = "rest" /\ Len(box) > mark /\ mark > 0
  /\ fetch' = [fetch EXCEPT ![f] = Begin(Above(mark))]
  /\ Excuse(Alone(f))
  /\ UNCHANGED <<box, mark, link, store, failed>> /\ Steps

\* fetchUnreadEmails, for an event or the poll, whether or not another runs.
fetchUnreadEmails(f) ==
  /\ f # Loop /\ link = "up"
  /\ fetch[f].pc = "rest" /\ Len(box) > mark
  /\ fetch' = [fetch EXCEPT ![f] = Begin(Above(mark))]
  /\ Excuse(Alone(f))
  /\ UNCHANGED <<box, mark, link, store, failed>> /\ Steps
-----------------------------------------------------------------------------
(***************************************************************************)
(* processIncomingEmail, for the first mail of a fetch                     *)
(***************************************************************************)
At(f, pc) == fetch[f].pc = pc
First(f) == Head(fetch[f].list)
Goes(f, changes) == fetch' = [fetch EXCEPT ![f] = changes]

\* Mutant of Done: the mark moves over the whole fetch, which ends.
DoneWithAll(f) ==
  /\ mark' = IF Last(fetch[f].list).uid > mark THEN Last(fetch[f].list).uid ELSE mark
  /\ Goes(f, Rest)

\* The mail is stored, skipped or failed: the mark moves, and the next is taken.
Done(f) ==
  /\ mark' = IF First(f).uid > mark THEN First(f).uid ELSE mark
  /\ Goes(f, Begin(Tail(fetch[f].list)))

\* The organization is looked up by its channel, then the customer by address;
\* a mail without a sender is skipped.
FindCustomer(f) ==
  /\ At(f, "find")
  /\ LET same == {c \in DOMAIN customer : customer[c] = First(f).mail.from}
     IN  \/ /\ First(f).mail.text = "no sender" \/ ~EmailChannel
            /\ Done(f)
         \/ /\ First(f).mail.text # "no sender" /\ EmailChannel
            /\ \/ /\ same = {} /\ Goes(f, [fetch[f] EXCEPT !.pc = "customer"])
               \/ \E c \in same : Goes(f, [fetch[f] EXCEPT !.pc = "thread", !.from = c])
            /\ UNCHANGED mark
  /\ UNCHANGED <<box, link, store, failed, excuse>> /\ Steps

CreateCustomer(f) ==
  /\ At(f, "customer")
  /\ customer' = Append(customer, First(f).mail.from)
  /\ Goes(f, [fetch[f] EXCEPT !.pc = "thread", !.from = Len(customer')])
  /\ UNCHANGED <<box, mark, link, thread, message, credits, failed, excuse>> /\ Steps

\* An open conversation, or a resolved one that waits for a rating; the newest.
Awaits(v) == thread[v].status = "RESOLVED" /\ thread[v].awaits
FindConversation(f) ==
  LET mine == {v \in DOMAIN thread :
                 thread[v].of = fetch[f].from /\ (thread[v].status = "OPEN" \/ Awaits(v))}
      newest == CHOOSE v \in mine : \A w \in mine : w <= v
  IN  /\ At(f, "thread")
      /\ \/ mine = {} /\ Goes(f, [fetch[f] EXCEPT !.pc = "update"])
         \/ /\ mine # {}
            /\ Goes(f, [fetch[f] EXCEPT !.pc = "update", !.into = newest, !.rates = Awaits(newest)])
      /\ UNCHANGED <<box, mark, link, store, failed, excuse>> /\ Steps

\* A new conversation, or the subject of the one found, which is read again; of
\* one that is gone the first answer is kept.
UpdateConversation(f) ==
  /\ At(f, "update")
  /\ \/ /\ fetch[f].into = 0
        /\ thread' = Append(thread, [of |-> fetch[f].from, status |-> "OPEN", awaits |-> FALSE,
                                     rated |-> FALSE])
        /\ Goes(f, [fetch[f] EXCEPT !.pc = "store", !.into = Len(thread')])
     \/ /\ fetch[f].into # 0
        /\ Goes(f, [fetch[f] EXCEPT !.pc = "store",
                     !.rates = IF thread[fetch[f].into].status = "deleted" THEN @
                               ELSE Awaits(fetch[f].into)])
        /\ UNCHANGED thread
  /\ UNCHANGED <<box, mark, link, customer, message, credits, failed, excuse>> /\ Steps

Stored(v, uid) == \E i \in DOMAIN message : message[i].in = v /\ message[i].uid = uid

\* The key is the conversation and the UID: a second row is refused and the mail
\* skipped.  Otherwise it is counted and either rates or is routed.
StoreMessage(f) ==
  LET v == fetch[f].into
      mail == First(f).mail
  IN  /\ At(f, "store")
      /\ \/ /\ thread[v].status = "deleted" \/ Stored(v, First(f).uid)
            /\ Done(f)
            /\ failed' = IF thread[v].status = "deleted" THEN failed \union {mail.id} ELSE failed
            /\ UNCHANGED message
         \/ /\ thread[v].status # "deleted" /\ ~Stored(v, First(f).uid)
            /\ message' = Append(message, [in |-> v, uid |-> First(f).uid, mail |-> mail.id])
            /\ IF fetch[f].rates /\ mail.text = "rating"
                 THEN Goes(f, [fetch[f] EXCEPT !.pc = "rate"]) /\ UNCHANGED mark
                 ELSE Done(f)
            /\ UNCHANGED failed
      /\ UNCHANGED <<box, link, customer, thread, credits, excuse>> /\ Steps

\* Mutant of processRatingReply: the conversation goes on waiting.
RateAgain(f) ==
  /\ At(f, "rate")
  /\ thread' = [thread EXCEPT ![fetch[f].into].rated = TRUE]
  /\ credits' = credits + 1
  /\ Done(f)
  /\ UNCHANGED <<box, link, customer, message, failed, excuse>> /\ Steps

\* processRatingReply: the conversation only if it still waits, the staff anyway.
processRatingReply(f) ==
  LET v == fetch[f].into
  IN  /\ At(f, "rate")
      /\ thread' = IF thread[v].awaits /\ thread[v].status # "deleted"
                     THEN [thread EXCEPT ![v].status = "CLOSED", ![v].awaits = FALSE, ![v].rated = TRUE]
                     ELSE thread
      /\ credits' = credits + 1
      /\ Done(f)
      /\ UNCHANGED <<box, link, customer, message, failed, excuse>> /\ Steps

\* A statement fails: the mail is given up.
StatementFails(f) ==
  /\ fetch[f].pc # "rest"
  /\ Trouble
  /\ Done(f)
  /\ failed' = failed \union {First(f).mail.id}
  /\ UNCHANGED <<box, link, store, excuse>>
-----------------------------------------------------------------------------
(***************************************************************************)
(* The staff                                                               *)
(***************************************************************************)
Act(v, set, why) ==
  /\ acts < MaxActs /\ acts' = acts + 1
  /\ thread' = [thread EXCEPT ![v] = set]
  /\ Excuse(why \union Edited)
  /\ UNCHANGED <<box, mark, link, fetch, customer, message, credits, arrived, troubles, failed>>

Resolve(v) ==
  /\ thread[v].status = "OPEN"
  /\ Act(v, [thread[v] EXCEPT !.status = "RESOLVED", !.awaits = TRUE], {})

CloseConversation(v) ==
  /\ thread[v].status \in {"OPEN", "RESOLVED"}
  /\ Act(v, [thread[v] EXCEPT !.status = "CLOSED"], {})

Delete(v) ==
  /\ thread[v].status # "deleted"
  /\ Act(v, [thread[v] EXCEPT !.status = "deleted"], {"deleted"})

Process(f) ==
  \/ FindCustomer(f) \/ CreateCustomer(f) \/ FindConversation(f) \/ UpdateConversation(f)
  \/ StoreMessage(f) \/ processRatingReply(f)

Next ==
  \/ Arrive \/ Recreate \/ Connect \/ Listen \/ Close \/ Crash
  \/ \E f \in Fetcher : fetchUnreadEmails(f) \/ Process(f) \/ StatementFails(f)
  \/ \E v \in DOMAIN thread : Resolve(v) \/ CloseConversation(v) \/ Delete(v)

\* The loop retries, the poll comes every minute, statements are answered.
Fairness ==
  /\ WF_vars(Connect) /\ WF_vars(Listen)
  /\ WF_vars(\E f \in Fetcher : fetchUnreadEmails(f))
  /\ \A f \in Fetcher : WF_vars(Process(f))

Spec == Init /\ [][Next]_vars /\ Fairness
-----------------------------------------------------------------------------
(***************************************************************************)
(* Properties                                                              *)
(***************************************************************************)
Waits(uid) == \E f \in Fetcher : \E i \in DOMAIN fetch[f].list : fetch[f].list[i].uid = uid
IsStored(mail) == \E i \in Kept : message[i].mail = mail.id

\* "So we never miss emails": a mail the mark has passed is stored, unless a
\* statement failed for it, its conversation was deleted, it has no sender, or
\* UIDs started again; whatever connections close, processes die and fetches
\* overlap.
MissedIsExplained ==
  \A uid \in DOMAIN box :
    uid <= mark /\ ~Waits(uid) /\ box[uid].text # "no sender" /\ ~IsStored(box[uid]) =>
      box[uid].id \in failed \/ excuse \cap {"deleted", "new mailbox"} # {}

\* "So that even if this email is re-fetched we never insert a duplicate": only
\* fetches that overlap, a deleted conversation or an unread mark let a mail be
\* stored twice, in two conversations.
DuplicateIsExplained ==
  (\E i, j \in Kept : i # j /\ message[i].mail = message[j].mail) =>
    excuse \cap {"overlap", "deleted", "fault"} # {}

\* The staff is credited with as many ratings as conversations were given,
\* unless fetches overlapped or the conversation was changed meanwhile.
CreditsMatchRatings ==
  credits # Cardinality({v \in DOMAIN thread : thread[v].rated}) =>
    excuse \cap {"overlap", "edited"} # {}

\* "In case IDLE fails or is missed": every mail that arrives is taken, unless the
\* connection closed while the first fetch ran (run then waits on a connection
\* whose close event has passed).
EveryMailIsTaken ==
  \A id \in 1..MaxMails :
    (\E uid \in DOMAIN box : box[uid].id = id)
      ~> \/ link = "deaf"
         \/ ~\E uid \in DOMAIN box : box[uid].id = id /\ uid > mark
=============================================================================
