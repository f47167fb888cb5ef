------------------------------- MODULE Thread -------------------------------
(***************************************************************************)
(* The conversation page of one member of staff                            *)
(* (app/dashboard/conversations/[id]/page.tsx), the requests it sends and  *)
(* the events the server sends it.  Requests are answered in any order;    *)
(* events come in order, and are lost while the socket is not joined.      *)
(***************************************************************************)
EXTENDS Integers, Sequences, FiniteSets, SequencesExt

CONSTANTS
  Messages, Notes, \* ids of messages and of shared notes
  Mine,            \* those that are written on this page
  Nobody,          \* also: no answer, no row
  Refused,         \* the answer that is an error
  MaxActs,         \* bound: changes of everybody, on the page and elsewhere
  MaxCalls,        \* bound: requests of the page under way before it starts another
  MaxFailures      \* bound: lost connections and failed requests

VARIABLES
  role,    \* of the member of staff
  row,     \* the conversation in the database
  stored,  \* messages and notes in the database
  old,     \* messages that are older than 30 seconds by the browser's clock
  joined,  \* the socket is in the room of the organization
  wire,    \* events sent to it
  calls,   \* requests of the page, in the order they were sent
  page,    \* the conversation it shows
  shown,   \* how often it shows a message or note
  busy,    \* its flags sending, saving, assigning, updatingStar
  newest,  \* history: the latest row an answer of which was used
  dim,     \* history: the row shown may differ from the stored one
  lost,    \* history: messages and notes the page may have missed
  acts, failures

pageVars == <<calls, page, shown, busy, newest, dim, lost>>
threadVars == <<role, row, stored, old, joined, wire, pageVars, acts, failures>>

Posts == Messages \union Notes
Ended == {"CLOSED", "RESOLVED"}
Holders == {"me", "other", Nobody}

\* n, a history, counts the changes of the row.
Conversation ==
  [status : {"OPEN", "PENDING"} \union Ended, holder : Holders, starred : BOOLEAN, n : Nat]

\* Ids are no names of events, and no row is the null value.
ASSUME ThreadAssumption ==
  /\ Messages \intersect Notes = {} /\ Mine \subseteq Posts /\ "updated" \notin Posts
  /\ Nobody \notin Conversation
  /\ {MaxActs, MaxCalls, MaxFailures} \subseteq Nat

Same(r, s) == r.status = s.status /\ r.holder = s.holder /\ r.starred = s.starred

\* arg: what is sent.  next: what the page does after it (see After, Finished).
\* value: the answer of the server, once it has handled the request.
Ops == {"load", "list", "notes", "message", "note", "handoff", "assign", "status",
        "star", "end"}
Call(op, arg, next) ==
  [op |-> op, arg |-> arg, next |-> next, done |-> FALSE, value |-> Nobody]

ThreadInit ==
  /\ role \in {"ADMIN", "AGENT"}
  /\ row \in [status : {"OPEN"}, holder : {"me", Nobody}, starred : {FALSE}, n : {0}]
  /\ stored = {} /\ old = {}
  /\ joined = FALSE /\ wire = <<>>
  /\ calls = <<Call("load", Nobody, Nobody), Call("list", Nobody, Nobody)>>
  /\ page = Nobody /\ shown = [p \in Posts |-> 0] /\ busy = {}
  /\ newest = 0 /\ dim = FALSE /\ lost = {}
  /\ acts = 0 /\ failures = 0

Act == acts < MaxActs /\ acts' = acts + 1
-----------------------------------------------------------------------------
(***************************************************************************)
(* The server                                                              *)
(***************************************************************************)
\* emitToOrg, emitToConversation: a page that has not joined hears nothing.
Emit(events) ==
  /\ wire' = IF joined THEN wire \o events ELSE wire
  /\ lost' = IF joined THEN lost ELSE lost \union (ToSet(events) \intersect Posts)

\* A message of the customer or of a colleague, or a note of a colleague.
Post(p) ==
  /\ Act
  /\ p \notin Mine \union stored
  /\ stored' = stored \union {p}
  /\ Emit(IF p \in Messages THEN <<"updated", p>> ELSE <<p>>)
  /\ UNCHANGED <<role, row, old, joined, calls, page, shown, busy, newest, dim, failures>>

\* A colleague changes the status, the star or the assignment; nobody is told.
ChangeQuietly(r) ==
  /\ Act
  /\ ~Same(r, row)
  /\ row' = [r EXCEPT !.n = row.n + 1]
  /\ dim' = TRUE
  /\ UNCHANGED <<role, stored, old, joined, wire, calls, page, shown, busy, newest, lost,
                 failures>>

\* assignConversation of routing.service.ts, which tells the organization.
RouteTo(holder) ==
  /\ Act
  /\ row.holder # holder
  /\ row' = [row EXCEPT !.holder = holder, !.n = @ + 1]
  /\ Emit(<<"updated">>)
  /\ dim' = (dim \/ ~joined)
  /\ UNCHANGED <<role, stored, old, joined, calls, page, shown, busy, newest, failures>>

Answered(i, value) ==
  calls' = [calls EXCEPT ![i].done = TRUE, ![i].value = value]

\* getConversationById, with the customers and the sibling.
ServeLoad(i) ==
  /\ calls[i].op = "load"
  /\ Answered(i, row)
  /\ UNCHANGED <<row, stored, wire, lost>>

\* listConversationNotes
ServeNotes(i) ==
  /\ calls[i].op = "notes"
  /\ Answered(i, stored \intersect Notes)
  /\ UNCHANGED <<row, stored, wire, lost>>

\* listMessages: an agent reads what he is assigned or has taken part in.
ServeList(i) ==
  /\ calls[i].op = "list"
  /\ IF role = "AGENT" /\ row.holder # "me" /\ Mine \intersect stored = {}
       THEN Answered(i, Refused)
       ELSE Answered(i, stored \intersect Messages)
  /\ UNCHANGED <<row, stored, wire, lost>>

Owner == role = "ADMIN" \/ row.holder = "me"
MaySend ==
  /\ row.status \notin Ended
  /\ row.holder = "me" \/ (row.holder = Nobody /\ role = "ADMIN")

\* createMessage, createConversationNote.  The delivery of a stored message may fail,
\* and then so does the request.
ServePost(i) ==
  LET p == calls[i].arg
  IN  /\ calls[i].op \in {"message", "note"}
      /\ IF calls[i].op = "message" /\ ~MaySend
           THEN Answered(i, Refused) /\ UNCHANGED <<stored, wire, lost>>
           ELSE /\ stored' = stored \union {p}
                /\ Emit(IF p \in Messages THEN <<"updated", p>> ELSE <<p>>)
                /\ \E value \in {p} \union (IF p \in Messages THEN {Refused} ELSE {}) :
                     Answered(i, value)
      /\ UNCHANGED row

\* assignConversation, updateStatus, setStarred, closeConversation and
\* resolveConversation: the row changes, nobody is told.
Wanted(c) ==
  CASE c.op \in {"assign", "handoff"} -> [row EXCEPT !.holder = "other"]
    [] c.op \in {"status", "end"} -> [row EXCEPT !.status = c.arg]
    [] c.op = "star" -> [row EXCEPT !.starred = c.arg]
Allowed(c) ==
  /\ Owner
  /\ c.op = "assign" => role = "ADMIN"
  /\ (c.op = "status" \/ (c.op = "end" /\ c.arg = "RESOLVED")) => row.status \notin Ended

ServeChange(i) ==
  LET c == calls[i]
      r == [Wanted(c) EXCEPT !.n = @ + 1]
  IN  /\ c.op \in {"assign", "status", "star", "end"}
      /\ IF Allowed(c) THEN row' = r /\ Answered(i, r) ELSE Answered(i, Refused) /\ UNCHANGED row
      /\ UNCHANGED <<stored, wire, lost>>

\* handoffConversation: the assignment and, after it, the note.
ServeHandoff(i) ==
  LET c == calls[i]
      r == [Wanted(c) EXCEPT !.n = @ + 1]
  IN  /\ c.op = "handoff"
      /\ IF Allowed(c)
           THEN /\ row' = r /\ Answered(i, r)
                /\ stored' = stored \union {c.arg}
                /\ Emit(<<c.arg>>)
           ELSE Answered(i, Refused) /\ UNCHANGED <<row, stored, wire, lost>>

Serve(i) ==
  /\ ~calls[i].done
  /\ ServeLoad(i) \/ ServeNotes(i) \/ ServeList(i) \/ ServePost(i) \/ ServeChange(i) \/ ServeHandoff(i)
  /\ dim' = (dim \/ row' # row)
  /\ UNCHANGED <<role, old, joined, page, shown, busy, newest, acts, failures>>
-----------------------------------------------------------------------------
(***************************************************************************)
(* The page                                                                *)
(***************************************************************************)
\* What the page shows next, and the histories that go with it.
Show(r, s) ==
  /\ page' = r
  /\ shown' = s

\* Whatever is shown again is not lost.
Account(missed) == lost' = {p \in lost \union missed : shown'[p] = 0}

\* An answer that holds row r: an older one than the last dims what is shown, the row
\* as it is clears it.
Shows(r) ==
  /\ newest' = IF r.n > newest THEN r.n ELSE newest
  /\ dim' = ((dim \/ r.n < newest) /\ ~(r.n = row.n /\ page' # Nobody /\ Same(page', row)))

Once(s, p) == IF s[p] > 0 THEN s ELSE [s EXCEPT ![p] = 1]

\* Mutant of Merged: the list replaces what the page shows.
MergedNothing(list) == [p \in Posts |-> IF p \in Messages THEN (IF p \in list THEN 1 ELSE 0) ELSE shown[p]]

\* loadMessages: the list, and what came otherwise in the last 30 seconds.
Merged(list) ==
  [p \in Posts |-> IF p \notin Messages THEN shown[p]
                   ELSE IF p \in list THEN 1
                   ELSE IF p \in old THEN 0 ELSE shown[p]]

\* loadNotes: the list, and nothing else.
Replaced(list) == [p \in Posts |-> IF p \in Notes THEN (IF p \in list THEN 1 ELSE 0) ELSE shown[p]]

\* What follows a loadConversation: the end of a flag, or of sendMessage, which shows
\* the message it sent and loads all of them.
After(next) ==
  IF next \in Messages THEN <<Call("list", Nobody, "sending")>> ELSE <<>>
Finished(next) == busy \ (IF next \in Messages THEN {} ELSE {next})

Rest(i) == RemoveAt(calls, i)
ReloadNotes == <<Call("notes", Nobody, Nobody)>>
Reload(next) == <<Call("load", Nobody, next)>>

\* Answers that show the row: a new object each time, so the notes are loaded again.
ShowLoaded(i) ==
  LET c == calls[i]
  IN  /\ c.op = "load"
      /\ Show(c.value, IF c.next \in Messages THEN Once(shown, c.next) ELSE shown)
      /\ calls' = Rest(i) \o ReloadNotes \o After(c.next)
      /\ busy' = Finished(c.next)
      /\ Account({})
      /\ Shows(c.value)

\* handleToggleStar and onStatusChange show the field they changed.
ShowChanged(i) ==
  LET c == calls[i]
  IN  /\ c.op \in {"star", "status"}
      /\ Show(IF page = Nobody THEN page
              ELSE IF c.op = "star" THEN [page EXCEPT !.starred = c.value.starred]
              ELSE [page EXCEPT !.status = c.arg], shown)
      /\ calls' = Rest(i) \o (IF page = Nobody THEN <<>> ELSE ReloadNotes)
      /\ busy' = busy \ {c.next}
      /\ Account({})
      /\ Shows(c.value)

\* The lists.  A message an older list does not hold is kept for 30 seconds, a note
\* is not.
ShowList(i) ==
  LET c == calls[i]
      s == IF c.op = "list" THEN Merged(c.value) ELSE Replaced(c.value)
  IN  /\ c.op \in {"list", "notes"}
      /\ Show(page, s)
      /\ calls' = Rest(i)
      /\ busy' = busy \ {c.next}
      /\ Account(((IF c.op = "list" THEN old ELSE Notes) \intersect stored) \ c.value)
      /\ UNCHANGED <<newest, dim>>

\* sendMessage, then: loadConversation, the message, the list.  handleAssign,
\* handleClose, handleResolve and a handoff: loadConversation.
AfterWrite(i) ==
  LET c == calls[i]
  IN  /\ c.op \in {"message", "handoff", "assign", "end"}
      /\ Show(page, shown)
      /\ calls' = Rest(i) \o Reload(IF c.op = "message" THEN c.arg ELSE c.next)
      /\ Account({})
      /\ UNCHANGED <<busy, newest, dim>>

\* handleFormSubmit in note mode, onAddConversationNote: the note is added even if
\* the socket has shown it.
ShowNote(i) ==
  LET c == calls[i]
  IN  /\ c.op = "note"
      /\ Show(page, [shown EXCEPT ![c.arg] = @ + 1])
      /\ calls' = Rest(i)
      /\ busy' = busy \ {c.next}
      /\ Account({})
      /\ UNCHANGED <<newest, dim>>

\* The error branches: a message that could not be sent is looked for in the list; a
\* conversation that could not be loaded is left as it was.
Failed(i) ==
  LET c == calls[i]
  IN  /\ Show(page, IF c.op = "load" /\ c.next \in Messages THEN Once(shown, c.next) ELSE shown)
      /\ calls' = Rest(i) \o (IF c.op \in {"message", "handoff"}
                                THEN <<Call("list", Nobody, "sending")>>
                              ELSE IF c.op = "load" THEN After(c.next) ELSE <<>>)
      /\ busy' = IF c.op = "message" \/ c.op = "handoff" THEN busy ELSE Finished(c.next)
      /\ Account(stored)
      /\ dim' = (dim \/ c.op = "load")
      /\ UNCHANGED newest

Answer(i) ==
  /\ calls[i].done
  /\ IF calls[i].value = Refused
       THEN Failed(i)
       ELSE ShowLoaded(i) \/ ShowChanged(i) \/ ShowList(i) \/ AfterWrite(i) \/ ShowNote(i)
  /\ UNCHANGED <<role, row, stored, old, joined, wire, acts, failures>>

\* The network, or the server, fails before or after it has handled the request.
Fail(i) ==
  /\ failures < MaxFailures
  /\ failures' = failures + 1
  /\ Failed(i)
  /\ UNCHANGED <<role, row, stored, old, joined, wire, acts>>

\* Mutant of Deliver: conversation_updated is not listened to.
DeliverPosts ==
  /\ wire # <<>> /\ Len(calls) < MaxCalls
  /\ wire' = Tail(wire)
  /\ Show(page, IF Head(wire) \in Posts THEN Once(shown, Head(wire)) ELSE shown)
  /\ calls' = calls
  /\ Account({})
  /\ UNCHANGED <<role, row, stored, old, joined, busy, newest, dim, acts, failures>>

\* Mutant of Deliver: the event's message is added without a look at the thread.
DeliverAgain ==
  /\ wire # <<>> /\ Len(calls) < MaxCalls
  /\ wire' = Tail(wire)
  /\ Show(page, IF Head(wire) \in Posts THEN [shown EXCEPT ![Head(wire)] = @ + 1] ELSE shown)
  /\ calls' = IF Head(wire) \in Notes THEN calls ELSE calls \o Reload(Nobody)
  /\ Account({})
  /\ UNCHANGED <<role, row, stored, old, joined, busy, newest, dim, acts, failures>>

\* handleNewMessage, handleNewNote, handleOrgUpdate.
Deliver ==
  /\ wire # <<>> /\ Len(calls) < MaxCalls
  /\ wire' = Tail(wire)
  /\ Show(page, IF Head(wire) \in Posts THEN Once(shown, Head(wire)) ELSE shown)
  /\ calls' = IF Head(wire) \in Notes THEN calls ELSE calls \o Reload(Nobody)
  /\ Account({})
  /\ UNCHANGED <<role, row, stored, old, joined, busy, newest, dim, acts, failures>>
-----------------------------------------------------------------------------
(***************************************************************************)
(* The member of staff                                                     *)
(***************************************************************************)
Submit(op, arg, flag, ready) ==
  /\ Act
  /\ page # Nobody /\ flag \notin busy /\ Len(calls) < MaxCalls
  /\ ready
  /\ calls' = Append(calls, Call(op, arg, flag))
  /\ busy' = busy \union ({flag} \ {Nobody})
  /\ UNCHANGED <<role, row, stored, old, joined, wire, page, shown, newest, dim, lost,
                 failures>>

Unused(p) == p \in Mine \ stored /\ \A i \in DOMAIN calls : p \notin {calls[i].arg, calls[i].next}

\* canSendMessages, as the page knows the row.
CanSend ==
  /\ page.status \notin Ended
  /\ IF page.holder = Nobody THEN role = "ADMIN" ELSE page.holder = "me"

\* A message, or one that mentions a colleague and becomes a handoff with a note.
sendMessage ==
  \E p \in Mine :
    /\ Unused(p)
    /\ Submit(IF p \in Messages THEN "message" ELSE "handoff", p, "sending", CanSend)

addNote == \E p \in Mine \intersect Notes : Unused(p) /\ Submit("note", p, "saving", TRUE)
onAssign == Submit("assign", Nobody, "assigning", role = "ADMIN")
handleToggleStar == \E s \in BOOLEAN : Submit("star", s, "updatingStar", s = ~page.starred)
onStatusChange ==
  \E s \in {"OPEN", "PENDING"} : Submit("status", s, Nobody, page.status \notin Ended \union {s})
handleEnd == \E s \in Ended : Submit("end", s, Nobody, page.status # s)
-----------------------------------------------------------------------------
Join ==
  /\ ~joined /\ joined' = TRUE
  /\ UNCHANGED <<role, row, stored, old, wire, pageVars, acts, failures>>

\* The connection is lost with the events on it; nothing is loaded when it is back.
Drop ==
  /\ failures < MaxFailures /\ failures' = failures + 1
  /\ joined /\ joined' = FALSE
  /\ wire' = <<>>
  /\ lost' = lost \union {p \in ToSet(wire) \intersect Posts : shown[p] = 0}
  /\ dim' = (dim \/ "updated" \in ToSet(wire))
  /\ UNCHANGED <<role, row, stored, old, calls, page, shown, busy, newest, acts>>

\* Half a minute passes, or the browser's clock is ahead.
Age(p) ==
  /\ p \in (Messages \intersect stored) \ old
  /\ old' = old \union {p}
  /\ UNCHANGED <<role, row, stored, joined, wire, pageVars, acts, failures>>

Elsewhere ==
  \/ \E p \in Posts : Post(p) \/ Age(p)
  \/ \E s \in {"OPEN", "CLOSED"} : ChangeQuietly([row EXCEPT !.status = s, !.holder = "me"])
  \/ \E holder \in {"me", "other"} : RouteTo(holder)

Staff ==
  sendMessage \/ addNote \/ onAssign \/ handleToggleStar \/ onStatusChange \/ handleEnd

ThreadNext ==
  \/ Elsewhere \/ Staff \/ Deliver \/ Join \/ Drop
  \/ \E i \in DOMAIN calls : Serve(i) \/ Answer(i) \/ Fail(i)

ThreadSpec == ThreadInit /\ [][ThreadNext]_threadVars
-----------------------------------------------------------------------------
(***************************************************************************)
(* Properties                                                              *)
(***************************************************************************)
\* Nothing is under way.
Quiet == calls = <<>> /\ wire = <<>>

\* What is stored is shown, unless its event was lost, a list failed, or a list read
\* before it came back after it (for a message: more than 30 seconds after it; the
\* page keeps younger ones "to prevent vanishing").
PostsAreShown == Quiet => \A p \in stored : shown[p] > 0 \/ p \in lost

\* The status, star and assignee shown are the stored ones, unless a change told
\* nobody, an event was lost, a request failed or an older answer came last.
ConversationIsCurrent == Quiet => dim \/ (page # Nobody /\ Same(page, row))

\* Nothing is shown twice ("Avoid duplicates") but a note written on this page.
OthersShownOnce == \A p \in Posts : shown[p] <= 1 \/ p \in Mine \intersect Notes
=============================================================================
