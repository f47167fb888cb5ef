------------------------------- MODULE Contact -------------------------------
(***************************************************************************)
(* One customer's contact details and private notes.  The conversation     *)
(* page edits and refreshes the details (page.tsx, CustomerContextPanel),  *)
(* every view saves the note of its user (page.tsx, ContactProfileView),   *)
(* and messages of the customer bring the profile Meta has of him.  The    *)
(* customer is not erased here (see Erasure).                              *)
(***************************************************************************)
EXTENDS Naturals, FiniteSets

CONSTANTS
  Views,    \* open pages
  Users,    \* the members of staff who may look at them
  Texts,    \* what a typed field, a name or a note may hold
  Pictures, \* what the avatar may be
  Blank,    \* an empty field or note, no field received
  NoNote,   \* a user without a note
  Topics,   \* bound: what a behaviour is about, sets of "details" and "notes"
  MaxActs,  \* bound: edits, refreshes, messages and saved notes
  MaxLost   \* bound: answers that are lost

ASSUME ContactAssumption ==
  /\ Blank \notin Texts \union Pictures /\ NoNote \notin Texts \union {Blank}
  /\ {MaxActs, MaxLost} \subseteq Nat

VARIABLES
  row,      \* the customer in the database
  isSaved,  \* he is in the list of contacts
  note,     \* the note of each user about him; the pair is unique
  userOf,   \* who looks at a view
  shown,    \* the details a view shows
  form,     \* its form: the values it was opened with, and those typed
  reload,   \* views that have saved the form and must load again
  sync,     \* the refresh a view has asked for
  base,     \* the note a view shows, when it has loaded it
  fetch,    \* answers to getNote on their way
  saving,   \* the note a view is saving
  meant,    \* history: the value last typed or received for a field
  undone,   \* history: fields written back by who had read them before a change
  late,     \* history: fields changed by others since a view last read them
  behind,   \* history: views that may show an older note
  topic, acts, lost

detailVars == <<row, isSaved, shown, form, reload, sync, meant, undone, late>>
noteVars == <<note, base, fetch, saving, behind>>
contactVars == <<detailVars, noteVars, userOf, topic, acts, lost>>

\* The form has name, email and phone; the last two behave alike.
Typed == {"name", "email"}
FromMeta == {"name", "avatarUrl"}
Fields == Typed \union FromMeta
Values == Texts \union {Blank}
Profiles == [name : Values, avatarUrl : Pictures \union {Blank}]

Closed == [open |-> FALSE, first |-> [f \in Typed |-> Blank], late |-> {}]
NoSync == [pc |-> "none", read |-> [f \in Fields |-> Blank], late |-> {}]
NoSave == [pc |-> "none", content |-> Blank]

ContactInit ==
  /\ row = [f \in Fields |-> Blank] /\ isSaved = FALSE
  /\ note = [u \in Users |-> NoNote]
  /\ userOf \in [Views -> Users]
  /\ shown = [v \in Views |-> row] /\ form = [v \in Views |-> Closed]
  /\ reload = {} /\ sync = [v \in Views |-> NoSync]
  /\ base = [v \in Views |-> [loaded |-> FALSE, content |-> Blank]]
  /\ fetch = [v \in Views |-> {}] /\ saving = [v \in Views |-> NoSave]
  /\ meant = row /\ undone = {} /\ late = [v \in Views |-> {}] /\ behind = {}
  /\ topic \in Topics /\ acts = 0 /\ lost = 0

Act == acts < MaxActs /\ acts' = acts + 1
-----------------------------------------------------------------------------
(***************************************************************************)
(* Contact details                                                         *)
(***************************************************************************)
\* The row becomes new; the view that wrote it, if any, will read it again.
Outdated(new) == {f \in Fields : new[f] # row[f]}
Write(new, by) ==
  /\ row' = new
  /\ late' = [v \in Views |-> IF v \in by THEN late[v] ELSE late[v] \union Outdated(new)]

\* Forms and refreshes that hold what was read before the row became new.
FormsAfter(new) == [v \in Views |->
  IF form[v].open THEN [form[v] EXCEPT !.late = @ \union Outdated(new)] ELSE Closed]
SyncsAfter(new) == [v \in Views |->
  IF sync[v].pc = "asking" THEN [sync[v] EXCEPT !.late = @ \union Outdated(new)]
  ELSE sync[v]]

\* The fields in given are what somebody typed or Meta sent; those in back are
\* written as they were read before a change.
Intend(given, back, new) ==
  /\ meant' = [f \in Fields |-> IF f \in given THEN new[f] ELSE meant[f]]
  /\ undone' = {f \in undone \union back : new[f] # meant'[f]}

ReceivedOrCleared(profile) ==
  [f \in Fields |-> IF f \in FromMeta THEN profile[f] ELSE row[f]]

\* handleMessagingEvent: only fields that were received are overwritten.  (On
\* WhatsApp only the name is ever received.)
Received(profile) ==
  [f \in Fields |-> IF f \in FromMeta /\ profile[f] # Blank THEN profile[f] ELSE row[f]]

MessageArrives(profile) ==
  LET new == Received(profile)
      given == {f \in FromMeta : profile[f] # Blank}
  IN  /\ Act
      /\ Write(new, {}) /\ Intend(given, {}, new)
      /\ form' = FormsAfter(new) /\ sync' = SyncsAfter(new)
      /\ UNCHANGED <<isSaved, shown, reload, noteVars, userOf, topic, lost>>

\* loadConversation, or load of a profile view; an open form stays as it is.
Show(v, customer, older) ==
  /\ shown' = [shown EXCEPT ![v] = customer]
  /\ late' = [late EXCEPT ![v] = older]

Load(v) ==
  /\ Show(v, row, {})
  /\ reload' = reload \ {v}
  /\ UNCHANGED <<row, isSaved, form, sync, meant, undone, noteVars, userOf, topic, acts, lost>>

\* The button Edit: the form starts with what is shown; Cancel closes it.
ToggleEdit(v) ==
  /\ form' = [form EXCEPT ![v] =
       IF @.open THEN Closed
       ELSE [open |-> TRUE, first |-> [f \in Typed |-> shown[v][f]],
             late |-> {f \in Fields : shown[v][f] # row[f]}]]
  /\ UNCHANGED <<row, isSaved, shown, reload, sync, meant, undone, late, noteVars, userOf,
                 topic, acts, lost>>

\* handleSaveContact sends every field of the form that is not blank, changed or
\* not, and updateCustomer stores what is sent; a blank field is left as it is.
Sent(typed) == {f \in Typed : typed[f] # Blank}
Updated(typed) == [f \in Fields |-> IF f \in Sent(typed) THEN typed[f] ELSE row[f]]
SaveContact(v, typed) ==
  LET new == Updated(typed)
      given == {f \in Sent(typed) : typed[f] # form[v].first[f]}
  IN  /\ Act
      /\ form[v].open
      /\ Write(new, {v})
      /\ Intend(given, (Sent(typed) \ given) \intersect form[v].late, new)
      /\ isSaved' = TRUE
      /\ form' = [FormsAfter(new) EXCEPT ![v] = Closed]
      /\ sync' = SyncsAfter(new)
      /\ reload' = reload \union {v}
      /\ UNCHANGED <<shown, noteVars, userOf, topic, lost>>

\* syncCustomerProfile reads the customer, asks Meta, and writes both fields.
StartSync(v) ==
  /\ Act
  /\ sync[v].pc = "none"
  /\ sync' = [sync EXCEPT ![v] = [pc |-> "asking", read |-> row, late |-> {}]]
  /\ UNCHANGED <<row, isSaved, shown, form, reload, meant, undone, late, noteVars, userOf,
                 topic, lost>>

\* A field that Meta did not send is written back as it was read.
Refreshed(v, profile) ==
  [f \in Fields |-> IF f \notin FromMeta THEN row[f]
                    ELSE IF profile[f] # Blank THEN profile[f] ELSE sync[v].read[f]]
WriteProfile(v, profile) ==
  LET new == Refreshed(v, profile)
      given == {f \in FromMeta : profile[f] # Blank}
  IN  /\ sync[v].pc = "asking" /\ given # {}
      /\ Write(new, {v}) /\ Intend(given, (FromMeta \ given) \intersect sync[v].late, new)
      /\ form' = FormsAfter(new)
      /\ sync' = [SyncsAfter(new) EXCEPT ![v] = [NoSync EXCEPT !.pc = "written"]]
      /\ UNCHANGED <<isSaved, shown, reload, noteVars, userOf, topic, acts, lost>>

AnswerRead(v) == [customer |-> sync[v].read, older |-> sync[v].late]

\* Without a profile (also when Meta cannot be asked) what was read is returned,
\* otherwise the customer is read again.
Answer(v) ==
  IF sync[v].pc = "written" THEN [customer |-> row, older |-> {}]
  ELSE [customer |-> sync[v].read, older |-> sync[v].late]

ShowProfile(v) ==
  /\ sync[v].pc # "none"
  /\ Show(v, Answer(v).customer, Answer(v).older)
  /\ sync' = [sync EXCEPT ![v] = NoSync]
  /\ UNCHANGED <<row, isSaved, form, reload, meant, undone, noteVars, userOf, topic, acts, lost>>

\* A view gets no answer to its refresh, or to loading after it saved.
LoseDetails(v) ==
  /\ lost < MaxLost /\ lost' = lost + 1
  /\ \/ v \in reload /\ reload' = reload \ {v} /\ UNCHANGED sync
     \/ sync[v].pc # "none" /\ sync' = [sync EXCEPT ![v] = NoSync] /\ UNCHANGED reload
  /\ late' = [late EXCEPT ![v] = Fields]
  /\ UNCHANGED <<row, isSaved, shown, form, meant, undone, noteVars, userOf, topic, acts>>
-----------------------------------------------------------------------------
(***************************************************************************)
(* Private notes                                                           *)
(***************************************************************************)
\* fetchNote: getNote is asked whenever the page changes, until one is answered.
Content(n) == IF n = NoNote THEN Blank ELSE n
FetchNote(v) ==
  /\ ~base[v].loaded
  /\ fetch' = [fetch EXCEPT ![v] =
       @ \union {[content |-> Content(note[userOf[v]]), old |-> FALSE]}]
  /\ UNCHANGED <<note, base, saving, behind, detailVars, userOf, topic, acts, lost>>

ShowNote(v) ==
  \E r \in fetch[v] :
    /\ base' = [base EXCEPT ![v] = [loaded |-> TRUE, content |-> r.content]]
    /\ fetch' = [fetch EXCEPT ![v] = @ \ {r}]
    /\ behind' = IF r.old THEN behind \union {v} ELSE behind \ {v}
    /\ UNCHANGED <<note, saving, detailVars, userOf, topic, acts, lost>>

\* A note that cannot be loaded is shown as an empty one.
NoteUnread(v) ==
  /\ lost < MaxLost /\ lost' = lost + 1
  /\ \E r \in fetch[v] : fetch' = [fetch EXCEPT ![v] = @ \ {r}]
  /\ base' = [base EXCEPT ![v].loaded = TRUE]
  /\ behind' = behind \union {v}
  /\ UNCHANGED <<note, saving, detailVars, userOf, topic, acts>>

\* handleSaveNote, of both pages: one at a time.
CanSave(v) == saving[v].pc = "none"

\* upsertCustomerNote first looks for the note of the user.
StartSaveNote(v, content) ==
  /\ Act
  /\ CanSave(v)
  /\ saving' = [saving EXCEPT ![v] =
       [pc |-> IF note[userOf[v]] = NoNote THEN "create" ELSE "update", content |-> content]]
  /\ UNCHANGED <<note, base, fetch, behind, detailVars, userOf, topic, lost>>

\* Then it creates or updates it.  Whoever else shows the note of the user shows
\* an older one; so does the view itself when it does not hear the answer.
Store(v, heard) ==
  LET others == {w \in Views \ {v} : userOf[w] = userOf[v]}
  IN  /\ note' = [note EXCEPT ![userOf[v]] = saving[v].content]
      /\ base' = IF heard THEN [base EXCEPT ![v].content = saving[v].content] ELSE base
      /\ fetch' = [w \in Views |-> IF w \in others \union {v}
                     THEN {[r EXCEPT !.old = TRUE] : r \in fetch[w]} ELSE fetch[w]]
      /\ behind' = (behind \ {v}) \union others \union (IF heard THEN {} ELSE {v})

RejectedUnnoticed(v) ==
  /\ saving[v].pc = "create" /\ note[userOf[v]] # NoNote
  /\ base' = [base EXCEPT ![v].content = saving[v].content]
  /\ UNCHANGED <<note, fetch, behind>>

\* A note that was created meanwhile: the pair is unique, and the request fails.
Rejected(v) ==
  /\ saving[v].pc = "create" /\ note[userOf[v]] # NoNote
  /\ UNCHANGED <<note, base, fetch, behind>>

SaveNote(v, heard) ==
  /\ saving[v].pc # "none"
  /\ IF heard THEN UNCHANGED lost ELSE lost < MaxLost /\ lost' = lost + 1
  /\ IF saving[v].pc = "create" /\ note[userOf[v]] # NoNote
       THEN Rejected(v) ELSE Store(v, heard)
  /\ saving' = [saving EXCEPT ![v] = NoSave]
  /\ UNCHANGED <<detailVars, userOf, topic, acts>>
-----------------------------------------------------------------------------
\* The two parts share nothing but the users and the bounds.
ContactNext ==
  \/ /\ "details" \in topic
     /\ \/ \E p \in Profiles : MessageArrives(p)
        \/ \E v \in Views :
             \/ Load(v) \/ ToggleEdit(v) \/ StartSync(v) \/ ShowProfile(v)
             \/ LoseDetails(v)
             \/ \E typed \in [Typed -> Values] : SaveContact(v, typed)
             \/ \E p \in Profiles : WriteProfile(v, p)
  \/ /\ "notes" \in topic
     /\ \E v \in Views :
          \/ FetchNote(v) \/ ShowNote(v) \/ NoteUnread(v)
          \/ \E heard \in BOOLEAN : SaveNote(v, heard)
          \/ \E c \in Values : StartSaveNote(v, c)

ContactSpec == ContactInit /\ [][ContactNext]_contactVars
-----------------------------------------------------------------------------
\* What was last typed for a field or received from Meta is stored, unless a form
\* or a refresh has since written back what it had read before (updateCustomer,
\* syncCustomerProfile, handleMessagingEvent).
EditsAreKept == \A f \in Fields : row[f] # meant[f] => f \in undone

\* Once a view has no request under way, it shows the stored details, but for
\* fields that others changed since it read them, or whose answer was lost
\* (handleSaveContact, handleSyncProfile).
ViewIsExplained ==
  \A v \in Views : v \notin reload /\ sync[v].pc # "written" =>
    \A f \in Fields : shown[v][f] # row[f] => f \in late[v]

\* A private note that a view has loaded or saved is the stored one, unless it was
\* saved in another view or while it was loaded, or an answer was lost; also when
\* two views create the first note at once (upsertCustomerNote).
NoteIsExplained ==
  \A v \in Views : base[v].loaded /\ v \notin behind =>
    base[v].content = Content(note[userOf[v]])
=============================================================================
