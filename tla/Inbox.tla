-------------------------------- MODULE Inbox --------------------------------
(***************************************************************************)
(* The shared inbox of one organization: webhook handlers and staff        *)
(* requests over the same rows, in every interleaving of their statements. *)
(***************************************************************************)
EXTENDS InboundMessages, StaffDesk

vars == <<storeVars, faults, inboundVars, staffVars>>

Init == StoreInit /\ InboundInit /\ StaffInit

\* The process stops: every request in flight is cut off where it is.
Crash ==
  /\ faults < MaxFaults
  /\ faults' = faults + 1
  /\ hs' = [h \in Handlers |-> Idle]
  /\ rs' = [r \in Requests |-> NoRequest]
  /\ UNCHANGED <<storeVars, others, begun, authored, audit, seen>>

Next ==
  \/ InboundNext /\ UNCHANGED staffVars
  \/ StaffNext /\ UNCHANGED inboundVars
  \/ Crash

Spec == Init /\ [][Next]_vars

\* Node runs a started handler on; nobody forces a delivery or a request.
FairSpec ==
  /\ Spec
  /\ \A h \in Handlers : WF_vars(HandlerStep(h) /\ UNCHANGED <<faults, staffVars>>)

\* Every variable stays within the columns and locals it stands for.
TypeOK == StoreTypeOK /\ InboundTypeOK /\ StaffTypeOK
-----------------------------------------------------------------------------
(***************************************************************************)
(* Reading and storing                                                     *)
(***************************************************************************)
\* The inbox never shows "nothing unread" over a message nobody was shown:
\* while a customer message has not been returned by any listMessages, its
\* conversation has unreadCount > 0, or its handler is about to increment it,
\* or a listMessages that has reset it is about to read the messages.  Rows
\* moved to a split-off conversation are excepted: their handler never counts them.
UnseenIsUnread ==
  faults = 0 =>
    \A row \in inbox \ (seen \union moved) :
      \/ convs[row[2]].unreadCount > 0
      \/ \E h \in Handlers : At(h, "bump") /\ hs[h].conv = row[2]
      \/ \E r \in Requests : rs[r].pc = "read" /\ rs[r].conv = row[2]

\* A customer's message is only ever filed under that customer's conversations,
\* also while others write at the same time and when it is moved.
FiledUnderSender ==
  \A row \in inbox : Exists(row[2]) /\ convs[row[2]].customer = SenderOf[row[1]]

\* Redelivery is idempotent: no message is stored twice.
StoredOnce ==
  \A m \in Mids : Cardinality({c \in ConvIds : <<m, c>> \in inbox}) <= 1

\* Unless something breaks, a delivered message is eventually stored.
DeliveredIsStored ==
  \A m \in Mids :
    deliveries[m] > 0 ~>
      faults > 0 \/ \E c \in ConvIds : <<m, c>> \in inbox
-----------------------------------------------------------------------------
(***************************************************************************)
(* Auto-replies                                                            *)
(***************************************************************************)
\* A conversation gets the FIRST_MESSAGE greeting at most once, however its
\* messages are interleaved, repeated or moved; but for a message whose old
\* conversation is deleted when it is about to be moved, and which then has no row.
GreetedOnce == \A c \in ConvIds : sent[c]["greeting"] <= 1
-----------------------------------------------------------------------------
(***************************************************************************)
(* Ratings                                                                 *)
(***************************************************************************)
\* A rating, once given, is never overwritten by a later or concurrent reply.
RatingIsFinal ==
  [][\A c \in ConvIds :
       Exists(c) /\ Exists(c)' /\ convs[c].customerRating # 0 =>
         convs'[c].customerRating = convs[c].customerRating]_vars

\* A conversation that waits for a rating, or has one, names who resolved it,
\* so the rating can be credited; however status changes race.
RatingIsAttributable ==
  \A c \in ConvIds :
    Exists(c) /\ (convs[c].awaitingRating \/ convs[c].customerRating # 0) =>
      convs[c].resolvedBy # Nobody
-----------------------------------------------------------------------------
(***************************************************************************)
(* Staff                                                                   *)
(***************************************************************************)
Auditing(r, op, c) == rs[r].pc = "audit" /\ rs[r].op = op /\ rs[r].conv = c

\* Who resolved a conversation is on the audit log, and so is that somebody
\* closed it, or the request that did it is about to write that; whichever of
\* several requests wrote last.
AuditTrail ==
  faults = 0 =>
    \A c \in ConvIds : Exists(c) =>
      /\ convs[c].resolvedBy # Nobody =>
           \/ [op |-> "resolve", user |-> convs[c].resolvedBy, conv |-> c] \in audit
           \/ \E r \in Requests : /\ Auditing(r, "resolve", c)
                                  /\ rs[r].user = convs[c].resolvedBy
      /\ convs[c].status = "CLOSED" =>
           \/ \E e \in audit : e.conv = c /\ e.op \in {"close", "status"}
           \/ \E r \in Requests : Auditing(r, "close", c) \/ Auditing(r, "status", c)
=============================================================================
