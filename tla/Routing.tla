------------------------------- MODULE Routing -------------------------------
(***************************************************************************)
(* Routing conversations to departments: the numbered menu of              *)
(* handleMessagingEvent, handleInboundRouting and autoAssignConversation,  *)
(* one action per awaited statement, while the roster, the settings and    *)
(* the conversations are edited.  The messages are those of Messenger and  *)
(* Instagram, whose menu is built from the departments.                    *)
(***************************************************************************)
EXTENDS Roster

CONSTANTS
  Convs,         \* the conversations
  Nobody,        \* a null user reference
  Handlers,      \* concurrent webhook requests
  MaxMessages,   \* bound: messages ever received
  MaxFaults,     \* bound: database errors in a handler
  EditsInBetween \* whether rows may be edited while a message is handled

ASSUME RoutingAssumption ==
  /\ Nobody \notin Users
  /\ MaxMessages \in Nat
  /\ MaxFaults \in Nat
  /\ EditsInBetween \in BOOLEAN

VARIABLES
  convs,     \* status (open or not), department, assignee, routingQuestionSent
  settings,  \* the RoutingSettings row
  hs,        \* the handlers' program counters and local variables
  messages,  \* messages received
  faults     \* faults so far

vars == <<rosterVars, convs, settings, hs, messages, faults>>
world == <<rosterVars, convs, settings, messages, faults>>
butConvs == <<rosterVars, settings, messages, faults>>

NoDep == 0
Conversation ==
  [open : BOOLEAN, dep : 0..MaxDeps, assignedTo : Users \union {Nobody},
   asked : BOOLEAN]
Settings ==
  [auto : BOOLEAN, routeTo : {"LIVE_AGENTS_ONLY", "OFFLINE_ALLOWED"},
   fallback : {"NONE", "ASSIGN_ANY_AGENT", "ASSIGN_ADMIN"}]
Handler ==
  [pc : {"idle", "menu", "mark", "send", "select", "settings", "choose", "set",
         "agents", "anyone", "admin", "assign", "reask"},
   conv : Convs \union {"none"}, choice : 0..(MaxDeps + 1), routed : BOOLEAN,
   list : SUBSET DepIds, dep : 0..MaxDeps, set : Settings,
   who : Users \union {Nobody}]

DefaultSettings ==
  [auto |-> TRUE, routeTo |-> "LIVE_AGENTS_ONLY", fallback |-> "ASSIGN_ADMIN"]
Idle ==
  [pc |-> "idle", conv |-> "none", choice |-> 0, routed |-> FALSE,
   list |-> {}, dep |-> 0, set |-> DefaultSettings, who |-> Nobody]

Init ==
  /\ RosterInit
  /\ convs = [c \in Convs |->
       [open |-> TRUE, dep |-> NoDep, assignedTo |-> Nobody, asked |-> FALSE]]
  /\ settings = DefaultSettings
  /\ hs = [h \in Handlers |-> Idle]
  /\ messages = 0
  /\ faults = 0

\* Types, and the foreign key from a conversation to its department.
TypeOK ==
  /\ RosterTypeOK
  /\ convs \in [Convs -> Conversation]
  /\ \A c \in Convs : convs[c].dep # NoDep => deps[convs[c].dep] # Departed
  /\ settings \in Settings
  /\ hs \in [Handlers -> Handler]
  /\ messages \in 0..MaxMessages
  /\ faults \in 0..MaxFaults

At(h, pc) == hs[h].pc = pc
Row(h) == convs[hs[h].conv]
Goto(h, pc) == hs' = [hs EXCEPT ![h].pc = pc]
Done(h) == hs' = [hs EXCEPT ![h] = Idle]
Quiet == \A h \in Handlers : At(h, "idle")
-----------------------------------------------------------------------------
(***************************************************************************)
(* The menu                                                                *)
(***************************************************************************)
\* A message was stored in conversation c; n is the number it parses to, or 0.
\* hadRoutingQuestionAlreadySent is read here and decides what it may do.
Receive(h, c, n) ==
  /\ At(h, "idle")
  /\ messages < MaxMessages
  /\ messages' = messages + 1
  /\ EditsInBetween \/ edit = NoEdit
  /\ hs' = [hs EXCEPT ![h] =
       [Idle EXCEPT !.pc = IF convs[c].asked THEN "select" ELSE "menu",
                    !.conv = c, !.choice = n,
                    !.routed = convs[c].dep # NoDep]]
  /\ UNCHANGED <<rosterVars, convs, settings, faults>>

\* The departments to choose from; without any there is no menu.
ReadMenu(h, pc, next) ==
  /\ At(h, pc)
  /\ IF hs[h].routed \/ ActiveDepartments = {}
       THEN Done(h)
       ELSE hs' = [hs EXCEPT ![h].pc = next, ![h].list = ActiveDepartments]
  /\ UNCHANGED world

AskDepartment(h) == ReadMenu(h, "menu", "mark")
AskAgain(h) == ReadMenu(h, "reask", "send")

MarkAsked(h) ==
  /\ At(h, "mark")
  /\ convs' = [convs EXCEPT ![hs[h].conv].asked = TRUE]
  /\ Goto(h, "send")
  /\ UNCHANGED butConvs

\* The Graph API takes the menu or not; either ends the event.
SendMenu(h) ==
  /\ At(h, "send")
  /\ Done(h)
  /\ UNCHANGED <<rosterVars, convs, settings, messages, faults>>
-----------------------------------------------------------------------------
(***************************************************************************)
(* handleInboundRouting                                                    *)
(***************************************************************************)
ReadConversation(h) ==
  /\ At(h, "select")
  /\ hs' = [hs EXCEPT ![h].pc = "settings", ![h].routed = Row(h).dep # NoDep]
  /\ UNCHANGED world

\* Mutant of LoadSettings: routed conversations are routed again.
LoadSettingsAgain(h) ==
  /\ At(h, "settings")
  /\ hs' = [hs EXCEPT ![h].pc = IF hs[h].choice = 0 THEN "reask" ELSE "choose",
                      ![h].set = settings]
  /\ UNCHANGED world

\* Routing is on, the conversation is not routed yet, and the text is a number.
LoadSettings(h) ==
  /\ At(h, "settings")
  /\ IF ~settings.auto \/ hs[h].routed
       THEN Done(h)
       ELSE hs' = [hs EXCEPT ![h].pc = IF hs[h].choice = 0 THEN "reask" ELSE "choose",
                             ![h].set = settings]
  /\ UNCHANGED world

\* The choice counts along the departments that are active now.
ChooseDepartment(h) ==
  /\ At(h, "choose")
  /\ LET chosen == {d \in ActiveDepartments :
                       Number(ActiveDepartments, d) = hs[h].choice}
     IN  \/ \E d \in chosen : hs' = [hs EXCEPT ![h].pc = "set", ![h].dep = d]
         \/ chosen = {} /\ Goto(h, "reask")
  /\ UNCHANGED world

\* The foreign key refuses a department that was deleted meanwhile.
SetDepartment(h) ==
  /\ At(h, "set")
  /\ IF deps[hs[h].dep] = Departed
       THEN Done(h) /\ UNCHANGED convs
       ELSE /\ convs' = [convs EXCEPT ![hs[h].conv].dep = hs[h].dep]
            /\ Goto(h, "agents")
  /\ UNCHANGED butConvs
-----------------------------------------------------------------------------
(***************************************************************************)
(* autoAssignConversation                                                  *)
(***************************************************************************)
Candidates(d, live) == {u \in Agents \cap members[d] : live => u \in online}

Load(u) == Cardinality({c \in Convs : convs[c].open /\ convs[c].assignedTo = u})
LeastLoaded(S) == {u \in S : \A v \in S : Load(u) <= Load(v)}

Choose(h, S) ==
  \E u \in S : hs' = [hs EXCEPT ![h].pc = "assign", ![h].who = u]

\* Mutant of FindAgents: whichever agent comes first, however loaded.
FindAgentsAnyLoad(h) ==
  LET S == Candidates(hs[h].dep, hs[h].set.routeTo = "LIVE_AGENTS_ONLY")
  IN  /\ At(h, "agents")
      /\ IF S = {} THEN Goto(h, "admin") ELSE Choose(h, S)
      /\ UNCHANGED world

FindAgents(h) ==
  LET S == Candidates(hs[h].dep, hs[h].set.routeTo = "LIVE_AGENTS_ONLY")
  IN  /\ At(h, "agents")
      /\ CASE S # {} -> Choose(h, LeastLoaded(S))
           [] S = {} /\ hs[h].set.fallback = "ASSIGN_ANY_AGENT" -> Goto(h, "anyone")
           [] S = {} /\ hs[h].set.fallback = "ASSIGN_ADMIN" -> Goto(h, "admin")
           [] S = {} /\ hs[h].set.fallback = "NONE" -> Choose(h, {Nobody})
      /\ UNCHANGED world

\* The second query; with OFFLINE_ALLOWED the first one was the same, so there
\* is nobody and the code does not ask again.
FindAnyAgent(h) ==
  LET S == IF hs[h].set.routeTo = "LIVE_AGENTS_ONLY"
             THEN Candidates(hs[h].dep, FALSE) ELSE {}
  IN  /\ At(h, "anyone")
      /\ Choose(h, IF S = {} THEN {Nobody} ELSE LeastLoaded(S))
      /\ UNCHANGED world

FindAdmin(h) ==
  /\ At(h, "admin")
  /\ Choose(h, IF Admins = {} THEN {Nobody} ELSE Admins)
  /\ UNCHANGED world

\* Written over whoever was assigned meanwhile; then the customer is answered.
AssignConversation(h) ==
  /\ At(h, "assign")
  /\ convs' = [convs EXCEPT ![hs[h].conv].assignedTo = hs[h].who]
  /\ Done(h)
  /\ UNCHANGED butConvs

\* A database error: both blocks of the event catch it, and the event ends.
HandlerFault(h) ==
  /\ ~At(h, "idle")
  /\ faults < MaxFaults
  /\ faults' = faults + 1
  /\ Done(h)
  /\ UNCHANGED <<rosterVars, convs, settings, messages>>

HandlerStep(h) ==
  \/ \E c \in Convs, n \in 0..(MaxDeps + 1) : Receive(h, c, n)
  \/ AskDepartment(h) \/ AskAgain(h) \/ MarkAsked(h) \/ SendMenu(h)
  \/ ReadConversation(h) \/ LoadSettings(h) \/ ChooseDepartment(h)
  \/ SetDepartment(h) \/ FindAgents(h) \/ FindAnyAgent(h) \/ FindAdmin(h)
  \/ AssignConversation(h) \/ HandlerFault(h)
-----------------------------------------------------------------------------
(***************************************************************************)
(* What people do meanwhile                                                *)
(***************************************************************************)
UpdateSettings ==
  /\ Editing
  /\ settings' \in Settings
  /\ UNCHANGED <<users, departments, edit, convs, hs, messages, faults>>

\* assignConversation: to an agent who is active.
Assign(c) ==
  /\ Editing
  /\ \E u \in Agents : convs' = [convs EXCEPT ![c].assignedTo = u]
  /\ UNCHANGED <<users, departments, edit, settings, hs, messages, faults>>

\* Whatever takes a conversation out of OPEN or back.
SetStatus(c) ==
  /\ Editing
  /\ convs' = [convs EXCEPT ![c].open = ~@]
  /\ UNCHANGED <<users, departments, edit, settings, hs, messages, faults>>

\* Mutant of CountConversations: attached conversations are not counted.
CountNothing(d) ==
  /\ Editing
  /\ edit = NoEdit
  /\ deps[d] # Departed
  /\ edit' = [op |-> "delete", dep |-> d, to |-> {}]
  /\ UNCHANGED <<users, departments, convs, settings, hs, messages, faults>>

\* deleteDepartment: count the conversations attached, then delete the row; the
\* foreign key sets the department of attached conversations to null.
CountConversations(d) ==
  /\ Editing
  /\ edit = NoEdit
  /\ deps[d] # Departed
  /\ \A c \in Convs : convs[c].dep # d
  /\ edit' = [op |-> "delete", dep |-> d, to |-> {}]
  /\ UNCHANGED <<users, departments, convs, settings, hs, messages, faults>>

DeleteDepartment ==
  /\ edit.op = "delete"
  /\ deps' = [deps EXCEPT ![edit.dep] = Departed]
  /\ members' = [members EXCEPT ![edit.dep] = {}]
  /\ convs' = [c \in Convs |-> IF convs[c].dep = edit.dep
                                 THEN [convs[c] EXCEPT !.dep = NoDep]
                                 ELSE convs[c]]
  /\ edit' = NoEdit
  /\ UNCHANGED <<users, nextDep, edits, settings, hs, messages, faults>>

Edit ==
  /\ EditsInBetween \/ Quiet
  /\ \/ RosterEdit /\ UNCHANGED <<convs, settings, hs, messages, faults>>
     \/ UpdateSettings
     \/ \E c \in Convs : Assign(c) \/ SetStatus(c)
     \/ \E d \in DepIds : CountConversations(d)
     \/ DeleteDepartment

Next == (\E h \in Handlers : HandlerStep(h)) \/ Edit

Spec == Init /\ [][Next]_vars
-----------------------------------------------------------------------------
(***************************************************************************)
(* Properties                                                              *)
(***************************************************************************)
\* "If already routed, do nothing": the department of a conversation is
\* replaced by no other; only deleting it takes it away.
RoutedOnce ==
  [][\A c \in Convs :
       convs[c].dep # NoDep /\ convs'[c].dep # convs[c].dep =>
         convs'[c].dep = NoDep /\ deps'[convs[c].dep] = Departed]_vars

\* Whom routing should assign a conversation of department d to.
Suitable(d) ==
  LET live == Candidates(d, settings.routeTo = "LIVE_AGENTS_ONLY")
      S == IF live = {} /\ settings.fallback = "ASSIGN_ANY_AGENT"
             THEN Candidates(d, FALSE) ELSE live
  IN  IF S # {} THEN LeastLoaded(S)
      ELSE IF settings.fallback = "ASSIGN_ADMIN" /\ Admins # {} THEN Admins
      ELSE {Nobody}

\* What the several queries of an automatic assignment lead to is right for the
\* department the conversation has, as everything is when it is written.
AssignmentFits ==
  [][\A h \in Handlers :
       At(h, "assign") /\ convs' # convs =>
         convs'[hs[h].conv].assignedTo \in Suitable(Row(h).dep)]_vars

\* A department is not deleted while it is attached to a conversation.
DeletedIsUnattached ==
  [][\A d \in DepIds :
       deps[d] # Departed /\ deps'[d] = Departed =>
         \A c \in Convs : convs[c].dep # d]_vars
=============================================================================
