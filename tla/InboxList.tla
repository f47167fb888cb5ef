------------------------------ MODULE InboxList ------------------------------
(***************************************************************************)
(* One conversation in the list of one member of staff                     *)
(* (useConversationInbox.ts): the loads of the list, the star, and the     *)
(* events of the server, most of which only make the list load again; a    *)
(* mail brings the row itself, as it was before routing.  Requests are     *)
(* answered in any order; events come in order, and are lost while the     *)
(* socket is not joined.                                                   *)
(***************************************************************************)
EXTENDS Integers, Sequences, SequencesExt

CONSTANTS
  Nobody,    \* also: no entry, no mail, an event without a row
  Refused,   \* the answer that is an error
  MaxSteps,  \* bound: messages, routings, changes, toggled stars
  MaxCalls,  \* bound: requests of the list under way before it starts another
  MaxFaults  \* bound: lost connections and failed requests

VARIABLES
  role,     \* of the member of staff
  channel,  \* of the customer
  row,      \* the conversation in the database
  mail,     \* the row processIncomingEmail has read and is about to send
  joined,   \* the socket is in the room of the organization
  feed,     \* conversation_updated events sent to it
  calls,    \* requests of the list, in the order they were sent
  entry,    \* the conversation as the list shows it
  starring, \* updatingStarId
  newest,   \* history: the latest row of which something was shown
  causes,   \* history: why the entry may differ from the row
  steps, faults

server == <<row, mail, joined, feed>>
browserVars == <<calls, entry, starring, newest>>
listVars == <<role, channel, server, browserVars, causes, steps, faults>>

\* last numbers the messages; mine: the member has written here, a message or a
\* note; n, a history, counts the changes.
Ended == {"CLOSED", "RESOLVED"}
Conversation ==
  [there : {"no", "yes", "deleted", "hidden"}, status : {"OPEN"} \union Ended,
   holder : {"me", "other", Nobody}, starred : BOOLEAN, unread : Nat, last : Nat,
   mine : BOOLEAN, n : Nat]

\* No row is the null value or an error.
ASSUME InboxListAssumption ==
  /\ Nobody \notin Conversation /\ Refused \notin Conversation
  /\ {MaxSteps, MaxCalls, MaxFaults} \subseteq Nat

Same(r, s) ==
  r.status = s.status /\ r.holder = s.holder /\ r.starred = s.starred /\ r.unread = s.unread

Call(op, arg) == [op |-> op, arg |-> arg, done |-> FALSE, value |-> Nobody]

ListInit ==
  /\ role \in {"ADMIN", "AGENT"} /\ channel \in {"EMAIL", "META"}
  /\ row \in [there : {"no", "yes"}, status : {"OPEN"}, holder : {Nobody}, starred : {FALSE},
              unread : {0}, last : {0}, mine : {FALSE}, n : {0}]
  /\ mail = Nobody /\ joined = FALSE /\ feed = <<>>
  /\ calls = <<Call("list", Nobody)>> /\ entry = Nobody /\ starring = FALSE
  /\ newest = 0 /\ causes = {}
  /\ steps = 0 /\ faults = 0

Step == steps < MaxSteps /\ steps' = steps + 1
-----------------------------------------------------------------------------
(***************************************************************************)
(* The server                                                              *)
(***************************************************************************)
\* emitToOrg; a list that has not joined hears nothing.
Emit(event) ==
  /\ feed' = IF joined THEN Append(feed, event) ELSE feed
  /\ causes' = IF joined THEN causes ELSE causes \union {"lost"}

Change(r) == row' = [r EXCEPT !.n = row.n + 1]
Counted == [row EXCEPT !.there = "yes", !.unread = @ + 1, !.last = @ + 1]

\* A message of the customer is stored and counted; the first one creates the
\* conversation.  Meta's is announced at once.
Arrive ==
  /\ Step
  /\ row.there \in {"no", "yes"} /\ row.status # "CLOSED"
  /\ Change(Counted)
  /\ \/ channel = "META" /\ Emit(Nobody) /\ UNCHANGED mail
     \/ channel = "EMAIL" /\ mail = Nobody /\ mail' = row' /\ UNCHANGED <<feed, causes>>
  /\ UNCHANGED <<role, channel, joined, browserVars, faults>>

\* A mail that is a rating closes the conversation, and the row is read again.
RateByMail ==
  /\ mail # Nobody /\ mail.status = "RESOLVED" /\ row.there = "yes"
  /\ Change([row EXCEPT !.status = "CLOSED"])
  /\ mail' = row'
  /\ UNCHANGED <<role, channel, joined, feed, browserVars, causes, steps, faults>>

\* The mail is announced with the row as it was read.
AnnounceMail ==
  /\ mail # Nobody /\ mail' = Nobody
  /\ Emit(mail)
  /\ UNCHANGED <<role, channel, row, joined, browserVars, steps, faults>>

\* autoAssignConversation, while a message is handled; Nobody, if no agent is there.
RouteTo(holder) ==
  /\ Step
  /\ row.there = "yes" /\ row.holder # holder /\ (channel = "EMAIL" => mail # Nobody)
  /\ Change([row EXCEPT !.holder = holder])
  /\ Emit(Nobody)
  /\ UNCHANGED <<role, channel, mail, joined, browserVars, faults>>

\* createMessage, by a colleague or by the member himself in the thread: the
\* assignee alone, or an admin if there is none.
Reply(by) ==
  /\ Step
  /\ row.there = "yes" /\ row.status \notin Ended
  /\ row.holder = by \/ (row.holder = Nobody /\ (by = "me" => role = "ADMIN"))
  /\ Change([row EXCEPT !.last = @ + 1, !.mine = @ \/ by = "me"])
  /\ Emit(Nobody)
  /\ UNCHANGED <<role, channel, mail, joined, browserVars, faults>>

\* Assigning, ending, starring, noting, reading and deleting: nobody is told,
\* not even the list beside the thread in which it is done.
Quietly ==
  {[row EXCEPT !.holder = h] : h \in {"me", "other", Nobody}}
  \union {[row EXCEPT !.status = s] : s \in Ended \union {"OPEN"}}
  \union {[row EXCEPT !.starred = ~@], [row EXCEPT !.unread = 0], [row EXCEPT !.mine = TRUE],
          [row EXCEPT !.there = "deleted"]}
ChangeQuietly ==
  /\ Step
  /\ row.there = "yes"
  /\ \E r \in Quietly \ {row} : Change(r)
  /\ causes' = causes \union {"quiet"}
  /\ UNCHANGED <<role, channel, mail, joined, feed, browserVars, faults>>

\* listConversations: an agent sees his, nobody's, and those he has written in.
Listed == row.there = "yes" /\ (role = "ADMIN" \/ row.holder \in {"me", Nobody} \/ row.mine)

Answered(i, value) == calls' = [calls EXCEPT ![i].done = TRUE, ![i].value = value]

ServeList(i) ==
  /\ calls[i].op = "list"
  /\ Answered(i, IF Listed THEN row ELSE [row EXCEPT !.there = "hidden"])
  /\ UNCHANGED row

\* setStarred
ServeStar(i) ==
  /\ calls[i].op = "star"
  /\ IF row.there = "yes" /\ (role = "ADMIN" \/ row.holder = "me")
       THEN Change([row EXCEPT !.starred = calls[i].arg]) /\ Answered(i, row')
       ELSE Answered(i, Refused) /\ UNCHANGED row

Serve(i) ==
  /\ ~calls[i].done
  /\ ServeList(i) \/ ServeStar(i)
  /\ UNCHANGED <<role, channel, mail, joined, feed, entry, starring, newest, causes, steps, faults>>
-----------------------------------------------------------------------------
(***************************************************************************)
(* The list                                                                *)
(***************************************************************************)
\* Something of row r is shown: an older one than before is a cause, the row as it
\* is leaves none but rest.
Shows(r, rest) ==
  /\ newest' = IF r.n > newest THEN r.n ELSE newest
  /\ causes' = (IF r.n = row.n THEN rest
                ELSE causes \union rest \union (IF r.n < newest THEN {"older"} ELSE {}))

\* loadConversations replaces the list.
ShowList(i) ==
  LET r == calls[i].value
  IN  /\ calls[i].op = "list"
      /\ entry' = IF r.there = "yes" THEN r ELSE Nobody
      /\ Shows(r, {})
      /\ UNCHANGED starring

\* handleToggleStar takes over the star alone.
ShowStar(i) ==
  LET r == calls[i].value
  IN  /\ calls[i].op = "star"
      /\ entry' = IF entry = Nobody THEN entry ELSE [entry EXCEPT !.starred = r.starred]
      /\ starring' = FALSE
      /\ newest' = IF r.n > newest THEN r.n ELSE newest
      /\ causes' = IF r.n < newest THEN causes \union {"older"} ELSE causes

Failed(i) ==
  /\ causes' = causes \union {"failed"}
  /\ starring' = (starring /\ calls[i].op # "star")
  /\ UNCHANGED <<entry, newest>>

Answer(i) ==
  /\ calls[i].done
  /\ calls' = RemoveAt(calls, i)
  /\ IF calls[i].value = Refused THEN Failed(i) ELSE ShowList(i) \/ ShowStar(i)
  /\ UNCHANGED <<role, channel, server, steps, faults>>

\* The network, or the server, fails before or after it has handled the request.
Fail(i) ==
  /\ faults < MaxFaults /\ faults' = faults + 1
  /\ calls' = RemoveAt(calls, i)
  /\ Failed(i)
  /\ UNCHANGED <<role, channel, server, steps>>

\* handleUpdate: an event without a row loads the list; a row is merged over the
\* entry, or added, but it does not say what was written last.
Reload ==
  /\ calls' = Append(calls, Call("list", Nobody))
  /\ UNCHANGED <<entry, newest, causes>>
Ignore ==
  /\ causes' = causes \union {"ignored"}
  /\ UNCHANGED <<calls, entry, newest>>
Merge(r) ==
  /\ entry' = [r EXCEPT !.last = IF entry = Nobody THEN 0 ELSE entry.last]
  /\ Shows(r, {"preview"})
  /\ UNCHANGED calls

NotHis(r) == role = "AGENT" /\ r.holder # "me"

\* Mutant of handleUpdate: an event without a row is passed over.
handleRows ==
  /\ feed # <<>> /\ Len(calls) < MaxCalls
  /\ feed' = Tail(feed)
  /\ LET r == Head(feed)
     IN  IF r = Nobody THEN UNCHANGED <<calls, entry, newest, causes>>
         ELSE IF NotHis(r) THEN Ignore ELSE Merge(r)
  /\ UNCHANGED <<role, channel, row, mail, joined, starring, steps, faults>>

handleUpdate ==
  /\ feed # <<>> /\ Len(calls) < MaxCalls
  /\ feed' = Tail(feed)
  /\ LET r == Head(feed)
     IN  IF r = Nobody THEN Reload ELSE IF NotHis(r) THEN Ignore ELSE Merge(r)
  /\ UNCHANGED <<role, channel, row, mail, joined, starring, steps, faults>>

handleToggleStar ==
  /\ Step
  /\ entry # Nobody /\ ~starring /\ Len(calls) < MaxCalls
  /\ starring' = TRUE
  /\ calls' = Append(calls, Call("star", ~entry.starred))
  /\ UNCHANGED <<role, channel, server, entry, newest, causes, faults>>
-----------------------------------------------------------------------------
Join ==
  /\ ~joined /\ joined' = TRUE
  /\ UNCHANGED <<role, channel, row, mail, feed, browserVars, causes, steps, faults>>

\* The connection is lost with the events on it; nothing is loaded when it is back.
Drop ==
  /\ faults < MaxFaults /\ faults' = faults + 1
  /\ joined /\ joined' = FALSE
  /\ feed' = <<>>
  /\ causes' = IF feed = <<>> THEN causes ELSE causes \union {"lost"}
  /\ UNCHANGED <<role, channel, row, mail, browserVars, steps>>

ListNext ==
  \/ Arrive \/ RateByMail \/ AnnounceMail \/ ChangeQuietly \/ Join \/ Drop
  \/ \E h \in {"me", "other", Nobody} : RouteTo(h)
  \/ \E by \in {"me", "other"} : Reply(by)
  \/ handleUpdate \/ handleToggleStar
  \/ \E i \in DOMAIN calls : Serve(i) \/ Answer(i) \/ Fail(i)

ListSpec == ListInit /\ [][ListNext]_listVars
-----------------------------------------------------------------------------
(***************************************************************************)
(* Properties                                                              *)
(***************************************************************************)
Quiet == calls = <<>> /\ feed = <<>> /\ mail = Nobody

\* Once all is quiet the list shows the conversation as it is, if the member may
\* read it, and else not at all; unless a change told nobody, an event was lost or
\* was about somebody else's mail, a request failed, or an older answer or row came
\* last.  Only the preview is older when a mail came last (handleUpdate merges rows
\* that have no lastMessage).
ListIsCurrent ==
  Quiet =>
    \/ causes \intersect {"quiet", "lost", "ignored", "failed", "older"} # {}
    \/ ~Listed /\ entry = Nobody
    \/ /\ Listed /\ entry # Nobody
       /\ Same(entry, row)
       /\ "preview" \in causes \/ entry.last = row.last
=============================================================================
