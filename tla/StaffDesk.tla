------------------------------ MODULE StaffDesk ------------------------------
(***************************************************************************)
(* What staff do with conversations: conversations.service.ts and the      *)
(* listing and sending of messages.service.ts.  A request reads and checks *)
(* the conversation, then writes it unconditionally, then writes the audit *)
(* log; other requests and webhooks run in between.  An operation is one   *)
(* definition: its first disjunct is the read and the checks (a request    *)
(* they refuse changes nothing), the others are the later statements.      *)
(***************************************************************************)
EXTENDS InboxStore

CONSTANTS
  Requests,    \* concurrent HTTP requests of the staff
  StaffOps,    \* operations the staff use
  MaxRequests  \* bound: requests ever begun

Ops == {"create", "list", "send", "note", "assign", "handoff", "unassign",
        "close", "resolve", "status", "delete"}

ASSUME StaffAssumption ==
  /\ StaffOps \subseteq Ops
  /\ MaxRequests \in Nat

VARIABLES
  rs,       \* the requests' progress
  begun,    \* number of requests begun
  authored, \* <<user, conversation>>: has a STAFF message or a note there
  audit,    \* AuditLog rows
  seen      \* history: message rows some listMessages has returned

staffVars == <<rs, begun, authored, audit, seen>>

NoRequest ==
  [pc |-> "idle", op |-> "none", user |-> Nobody, conv |-> 0, arg |-> Nobody,
   firstResponse |-> FALSE]

Request ==
  [pc : {"idle", "write", "read", "respond", "noting", "audit"},
   op : Ops \union {"none"}, user : Users \union {Nobody},
   conv : 0..MaxConvs, arg : Users \union Status \union Senders \union {Nobody},
   firstResponse : BOOLEAN]

AuditRow == [op : Ops, user : Users, conv : ConvIds]

StaffInit ==
  /\ rs = [r \in Requests |-> NoRequest]
  /\ begun = 0
  /\ authored = {}
  /\ audit = {}
  /\ seen = {}

StaffTypeOK ==
  /\ rs \in [Requests -> Request]
  /\ begun \in 0..MaxRequests
  /\ authored \subseteq Users \X ConvIds
  /\ audit \subseteq AuditRow
  /\ seen \subseteq Mids \X ConvIds

Responded(c) == c # 0 /\ convs[c].firstResponse

\* The checks passed: the request remembers what it will write.
Begin(r, op, u, c, arg) ==
  /\ rs[r].pc = "idle"
  /\ op \in StaffOps
  /\ begun < MaxRequests
  /\ begun' = begun + 1
  /\ rs' = [rs EXCEPT ![r] =
              [pc |-> "write", op |-> op, user |-> u, conv |-> c, arg |-> arg,
               firstResponse |-> Responded(c)]]
  /\ UNCHANGED <<storeVars, authored, audit, seen>>

Writing(r, op) == rs[r].pc = "write" /\ rs[r].op = op
Goto_(r, pc) == rs' = [rs EXCEPT ![r].pc = pc] /\ UNCHANGED begun
Done(r) == rs' = [rs EXCEPT ![r] = NoRequest] /\ UNCHANGED begun

\* The unconditional updateMany of a request, on the row as it is by then.
Write(r, op, row, next) ==
  /\ Writing(r, op)
  /\ UpdateConversation(rs[r].conv, row)
  /\ Goto_(r, next)
  /\ UNCHANGED <<butConvs, authored, audit, seen>>

\* conversationNote.create; it cannot reference a deleted conversation.
InsertNote(r) ==
  /\ IF Exists(rs[r].conv)
       THEN /\ authored' = authored \union {<<rs[r].user, rs[r].conv>>}
            /\ Goto_(r, "audit")
       ELSE Done(r) /\ UNCHANGED authored
  /\ UNCHANGED <<storeVars, audit, seen>>

Row(r) == convs[rs[r].conv]

\* An AGENT acts on the conversations assigned to him, an ADMIN on all.
Owns(u, c) == u \in Admins \/ convs[c].assignedTo = u
-----------------------------------------------------------------------------
CreateForCustomer(r) ==
  \/ \E u \in Users, k \in customers : Begin(r, "create", u, 0, k)
  \/ /\ Writing(r, "create")
     /\ InsertConversation(rs[r].arg)
     /\ Done(r)
     /\ UNCHANGED <<butNewConv, authored, audit, seen>>

Assign(r) ==
  \/ \E u \in Admins, c \in ConvIds, a \in Agents :
       Exists(c) /\ Begin(r, "assign", u, c, a)
  \/ Write(r, "assign", [Row(r) EXCEPT !.assignedTo = rs[r].arg], "audit")

Handoff(r) ==
  \/ \E u \in Users, c \in ConvIds, a \in Agents :
       Exists(c) /\ Owns(u, c) /\ Begin(r, "handoff", u, c, a)
  \/ \E pc \in {"audit", "noting"} :
       Write(r, "handoff", [Row(r) EXCEPT !.assignedTo = rs[r].arg], pc)
  \/ rs[r].pc = "noting" /\ InsertNote(r)

Unassign(r) ==
  \/ \E u \in Admins, c \in ConvIds :
       /\ Exists(c)
       /\ convs[c].assignedTo # Nobody
       /\ convs[c].status \notin Ended
       /\ Begin(r, "unassign", u, c, Nobody)
  \/ Write(r, "unassign", [Row(r) EXCEPT !.assignedTo = Nobody], "audit")

\* Mutant of Close: no audit row.
CloseUnaudited(r) ==
  \/ \E u \in Users, c \in ConvIds :
       Exists(c) /\ Owns(u, c) /\ Begin(r, "close", u, c, Nobody)
  \/ Write(r, "close", [Row(r) EXCEPT !.status = "CLOSED"], "idle")

Close(r) ==
  \/ \E u \in Users, c \in ConvIds :
       Exists(c) /\ Owns(u, c) /\ Begin(r, "close", u, c, Nobody)
  \/ Write(r, "close", [Row(r) EXCEPT !.status = "CLOSED"], "audit")

\* Mutant of Resolve: who resolved it is not recorded.
ResolveAnonymously(r) ==
  \/ \E u \in Users, c \in ConvIds :
       /\ Exists(c)
       /\ convs[c].status \notin Ended
       /\ Owns(u, c)
       /\ Begin(r, "resolve", u, c, Nobody)
  \/ Write(r, "resolve",
       [Row(r) EXCEPT !.status = "RESOLVED", !.awaitingRating = TRUE], "audit")

\* Every plan has the staffRating capability, so a resolution always waits for
\* a rating.  The prompt it sends the customer changes no row.
Resolve(r) ==
  \/ \E u \in Users, c \in ConvIds :
       /\ Exists(c)
       /\ convs[c].status \notin Ended
       /\ Owns(u, c)
       /\ Begin(r, "resolve", u, c, Nobody)
  \/ Write(r, "resolve",
       [Row(r) EXCEPT !.status = "RESOLVED", !.awaitingRating = TRUE,
                      !.resolvedBy = rs[r].user], "audit")

UpdateStatus(r) ==
  \/ \E u \in Users, c \in ConvIds, s \in Status :
       /\ Exists(c)
       /\ convs[c].status \notin Ended
       /\ Owns(u, c)
       /\ Begin(r, "status", u, c, s)
  \/ Write(r, "status", [Row(r) EXCEPT !.status = rs[r].arg], "audit")

\* One transaction deletes the messages, the notes, the tags and the row.
DeleteConversation(r) ==
  \/ \E u \in Admins, c \in ConvIds :
       Exists(c) /\ Begin(r, "delete", u, c, Nobody)
  \/ LET c == rs[r].conv
     IN  /\ Writing(r, "delete")
         /\ convs' = [convs EXCEPT ![c] = Absent]
         /\ inbox' = {row \in inbox : row[2] # c}
         /\ replies' = [replies EXCEPT ![c] = 0]
         /\ autoRows' = [autoRows EXCEPT ![c] = 0]
         /\ authored' = {a \in authored : a[2] # c}
         /\ Done(r)
         /\ UNCHANGED <<customers, nextConv, settingsRow, audit, seen>>

AddNote(r) ==
  \/ \E u \in Users, c \in ConvIds :
       Exists(c) /\ Begin(r, "note", u, c, Nobody)
  \/ Writing(r, "note") /\ InsertNote(r)

WriteAudit(r) ==
  /\ rs[r].pc = "audit"
  /\ audit' = audit \union
       {[op |-> rs[r].op, user |-> rs[r].user, conv |-> rs[r].conv]}
  /\ Done(r)
  /\ UNCHANGED <<storeVars, authored, seen>>
-----------------------------------------------------------------------------
\* Who may send: nobody on an ended conversation, the assignee if there is
\* one, and an admin otherwise.
MaySend(u, c) ==
  /\ convs[c].status \notin Ended
  /\ IF convs[c].assignedTo = Nobody THEN u \in Admins
                                     ELSE convs[c].assignedTo = u

\* createMessage up to the delivery, which is module OutboundDelivery.
SendMessage(r) ==
  LET c == rs[r].conv
  IN  \/ \E u \in Users, d \in ConvIds :
           Exists(d) /\ MaySend(u, d) /\ Begin(r, "send", u, d, Nobody)
      \/ /\ Writing(r, "send")
         /\ IF Exists(c)
              THEN /\ replies' = [replies EXCEPT ![c] = @ + 1]
                   /\ authored' = authored \union {<<rs[r].user, c>>}
                   /\ IF rs[r].firstResponse THEN Done(r)
                                             ELSE Goto_(r, "respond")
              ELSE Done(r) /\ UNCHANGED <<replies, authored>>
         /\ UNCHANGED <<customers, convs, nextConv, inbox, autoRows, settingsRow, audit, seen>>
      \/ /\ rs[r].pc = "respond"
         /\ UpdateConversation(c, [convs[c] EXCEPT !.firstResponse = TRUE])
         /\ Done(r)
         /\ UNCHANGED <<butConvs, authored, audit, seen>>

\* Mutant of ListMessages: reads the messages first, then marks all as read.
ListThenMark(r) ==
  LET c == rs[r].conv
  IN  \/ \E u \in Users, d \in ConvIds :
           /\ Exists(d)
           /\ Owns(u, d) \/ <<u, d>> \in authored
           /\ Begin(r, "list", u, d, Nobody)
      \/ /\ Writing(r, "list")
         /\ seen' = seen \union {row \in inbox : row[2] = c}
         /\ Goto_(r, "read")
         /\ UNCHANGED <<storeVars, authored, audit>>
      \/ /\ rs[r].pc = "read"
         /\ UpdateConversation(c, [convs[c] EXCEPT !.unreadCount = 0])
         /\ Done(r)
         /\ UNCHANGED <<butConvs, authored, audit, seen>>

\* Marks the conversation read, then reads the messages it returns.
ListMessages(r) ==
  LET c == rs[r].conv
  IN  \/ \E u \in Users, d \in ConvIds :
           /\ Exists(d)
           /\ Owns(u, d) \/ <<u, d>> \in authored
           /\ Begin(r, "list", u, d, Nobody)
      \/ /\ Writing(r, "list")
         /\ UpdateConversation(c, [convs[c] EXCEPT !.unreadCount = 0])
         /\ Goto_(r, "read")
         /\ UNCHANGED <<butConvs, authored, audit, seen>>
      \/ /\ rs[r].pc = "read"
         /\ seen' = seen \union {row \in inbox : row[2] = c}
         /\ Done(r)
         /\ UNCHANGED <<storeVars, authored, audit>>

RequestStep(r) ==
  \/ CreateForCustomer(r) \/ Assign(r) \/ Handoff(r) \/ Unassign(r)
  \/ Close(r) \/ Resolve(r) \/ UpdateStatus(r) \/ DeleteConversation(r)
  \/ AddNote(r) \/ WriteAudit(r) \/ SendMessage(r) \/ ListMessages(r)

\* A database error ends a request with what it has written so far.
RequestFault(r) ==
  /\ rs[r].pc # "idle"
  /\ faults < MaxFaults
  /\ faults' = faults + 1
  /\ Done(r)
  /\ UNCHANGED <<storeVars, authored, audit, seen>>

StaffNext ==
  \E r \in Requests :
    (RequestStep(r) /\ UNCHANGED faults) \/ RequestFault(r)
=============================================================================
