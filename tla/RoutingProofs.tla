---------------------------- MODULE RoutingProofs ----------------------------
(***************************************************************************)
(* Proofs about Routing: types and the foreign key, however messages and   *)
(* edits interleave, and that a conversation is routed once when messages  *)
(* are handled one at a time; and, when no row is edited meanwhile, that   *)
(* departments are deleted unattached and assignments fit.                 *)
(***************************************************************************)
EXTENDS Routing, TLAPS

\* What a handler and an edit in flight remember is there.
Remembered ==
  /\ \A h \in Handlers :
       /\ hs[h].pc # "idle" => hs[h].conv \in Convs
       /\ hs[h].pc \in {"set", "agents", "anyone", "admin", "assign"} =>
            hs[h].dep \in DepIds
  /\ edit.op # "none" => edit.dep \in DepIds

IInv == TypeOK /\ Remembered

\* The initial states satisfy the invariant.
LEMMA InitInv == ASSUME Init PROVE IInv
<1> USE RosterAssumption, RoutingAssumption
<1>1. RosterTypeOK
  BY DEF Init, RosterInit, RosterTypeOK, DepIds, NoEdit, Departed
<1>2. Idle \in Handler
  BY DEF Idle, Handler, Settings, DefaultSettings
<1>3. hs \in [Handlers -> Handler] /\ settings \in Settings
  BY <1>2 DEF Init, Settings, DefaultSettings
<1>4. convs \in [Convs -> Conversation] /\ \A c \in Convs : convs[c].dep = NoDep
  BY DEF Init, Conversation, NoDep
<1>5. messages \in 0..MaxMessages /\ faults \in 0..MaxFaults
  BY DEF Init
<1>6. Remembered
  BY DEF Init, RosterInit, Remembered, Idle, NoEdit
<1> QED BY <1>1, <1>3, <1>4, <1>5, <1>6 DEF IInv, TypeOK

\* No step of a handler breaks the invariant.
LEMMA HandlerInv ==
  ASSUME IInv, NEW h \in Handlers, HandlerStep(h)
  PROVE  IInv'
<1> USE RosterAssumption, RoutingAssumption
<1> DEFINE r == hs[h]
           FK == \A c \in Convs : convs[c].dep # NoDep => deps[convs[c].dep] # Departed
           Kept(q) == /\ q \in Handler
                      /\ q.pc # "idle" => q.conv \in Convs
                      /\ q.pc \in {"set", "agents", "anyone", "admin", "assign"} => q.dep \in DepIds
           Rows == /\ UNCHANGED rosterVars
                   /\ convs' \in [Convs -> Conversation]
                   /\ FK'
                   /\ settings' \in Settings
                   /\ messages' \in 0..MaxMessages
                   /\ faults' \in 0..MaxFaults
<1>1. r \in Handler /\ Kept(r) /\ FK
  BY DEF IInv, TypeOK, Remembered
<1>2. Kept(Idle)
  BY DEF Idle, Handler, Settings, DefaultSettings
<1>3. ActiveDepartments \subseteq DepIds
  BY DEF ActiveDepartments
<1>4. UNCHANGED world => Rows
  BY DEF world, rosterVars, IInv, TypeOK
<1>5. ASSUME NEW q, Kept(q), hs' = [hs EXCEPT ![h] = q], Rows
      PROVE  IInv'
  <2>1. hs' \in [Handlers -> Handler] /\ \A g \in Handlers : hs'[g] = q \/ hs'[g] = hs[g]
    BY <1>5 DEF IInv, TypeOK
  <2>2. RosterTypeOK'
    BY <1>5 DEF rosterVars, IInv, TypeOK, RosterTypeOK, DepIds
  <2>3. Remembered'
    BY <1>5, <2>1 DEF rosterVars, IInv, Remembered, DepIds
  <2> QED BY <1>5, <2>1, <2>2, <2>3 DEF IInv, TypeOK
<1>6. ASSUME Done(h), Rows PROVE IInv'
  BY <1>2, <1>5, <1>6 DEF Done
<1>7. ASSUME NEW pc \in {"idle", "menu", "mark", "send", "select", "settings", "choose", "set",
                         "agents", "anyone", "admin", "assign", "reask"},
             r.conv \in Convs,
             pc \in {"set", "agents", "anyone", "admin", "assign"} => r.dep \in DepIds,
             Goto(h, pc), Rows
      PROVE  IInv'
  <2>1. Kept([r EXCEPT !.pc = pc])
    BY <1>1, <1>7 DEF Handler
  <2>2. hs' = [hs EXCEPT ![h] = [r EXCEPT !.pc = pc]]
    BY <1>7 DEF Goto
  <2> QED BY <1>5, <1>7, <2>1, <2>2
<1>8. ASSUME NEW c \in Convs, NEW n \in 0..(MaxDeps + 1), Receive(h, c, n) PROVE IInv'
  <2> DEFINE q == [Idle EXCEPT !.pc = IF convs[c].asked THEN "select" ELSE "menu",
                    !.conv = c, !.choice = n,
                    !.routed = convs[c].dep # NoDep]
  <2>1. Kept(q)
    BY <1>2 DEF Idle, Handler, DefaultSettings, Settings
  <2>2. Rows
    BY <1>1, <1>8 DEF Receive, rosterVars, IInv, TypeOK
  <2> QED BY <1>5, <1>8, <2>1, <2>2 DEF Receive
<1>9. ASSUME NEW next \in {"mark", "send"}, NEW pc \in {"menu", "reask"}, ReadMenu(h, pc, next)
      PROVE  IInv'
  <2> DEFINE q == [r EXCEPT !.pc = next, !.list = ActiveDepartments]
  <2>1. Rows
    BY <1>4, <1>9 DEF ReadMenu
  <2>2. r.conv \in Convs
    BY <1>1, <1>9 DEF ReadMenu, At
  <2>3. Kept(q)
    BY <1>1, <1>3, <2>2 DEF Handler
  <2>4. Done(h) \/ hs' = [hs EXCEPT ![h] = q]
    BY <1>9, <1>1 DEF ReadMenu, IInv, TypeOK, Handler
  <2> QED BY <1>5, <1>6, <2>1, <2>3, <2>4
<1>10. CASE MarkAsked(h)
  <2> DEFINE c == r.conv
  <2>1. c \in Convs
    BY <1>1, <1>10 DEF MarkAsked, At
  <2>2. convs' \in [Convs -> Conversation] /\ \A d \in Convs : convs'[d].dep = convs[d].dep
    BY <1>10, <2>1 DEF MarkAsked, IInv, TypeOK, Conversation
  <2>3. Rows
    BY <1>1, <1>10, <2>2 DEF MarkAsked, butConvs, rosterVars, IInv, TypeOK
  <2> QED BY <1>7, <1>10, <2>1, <2>3 DEF MarkAsked
<1>11. CASE SendMenu(h)
  <2>1. Rows
    BY <1>1, <1>11 DEF SendMenu, rosterVars, IInv, TypeOK
  <2> QED BY <1>6, <1>11, <2>1 DEF SendMenu
<1>12. CASE ReadConversation(h)
  <2> DEFINE q == [r EXCEPT !.pc = "settings", !.routed = Row(h).dep # NoDep]
  <2>1. Kept(q)
    BY <1>1, <1>12 DEF ReadConversation, At, Handler
  <2>2. hs' = [hs EXCEPT ![h] = q]
    BY <1>1, <1>12 DEF ReadConversation, IInv, TypeOK, Handler
  <2> QED BY <1>4, <1>5, <1>12, <2>1, <2>2 DEF ReadConversation
<1>13. CASE LoadSettings(h)
  <2> DEFINE q == [r EXCEPT !.pc = IF hs[h].choice = 0 THEN "reask" ELSE "choose",
                            !.set = settings]
  <2>1. Kept(q)
    BY <1>1, <1>13 DEF LoadSettings, At, Handler, IInv, TypeOK
  <2>2. Done(h) \/ hs' = [hs EXCEPT ![h] = q]
    BY <1>1, <1>13 DEF LoadSettings, IInv, TypeOK, Handler
  <2> QED BY <1>4, <1>5, <1>6, <1>13, <2>1, <2>2 DEF LoadSettings
<1>14. CASE ChooseDepartment(h)
  <2>1. r.conv \in Convs
    BY <1>1, <1>14 DEF ChooseDepartment, At
  <2>2. Rows
    BY <1>4, <1>14 DEF ChooseDepartment
  <2>3. CASE Goto(h, "reask")
    BY <1>7, <2>1, <2>2, <2>3
  <2>4. ASSUME NEW d \in ActiveDepartments,
               hs' = [hs EXCEPT ![h].pc = "set", ![h].dep = d]
        PROVE  IInv'
    <3> DEFINE q == [r EXCEPT !.pc = "set", !.dep = d]
    <3>a. d \in DepIds /\ d \in 0..MaxDeps
      BY <1>3 DEF DepIds
    <3>b. q \in Handler /\ q.conv = r.conv /\ q.dep = d
      BY <1>1, <3>a DEF Handler
    <3>1. Kept(q)
      BY <2>1, <3>a, <3>b
    <3>2. hs' = [hs EXCEPT ![h] = q]
      BY <1>1, <2>4 DEF IInv, TypeOK, Handler
    <3> QED BY <1>5, <2>2, <3>1, <3>2
  <2> QED BY <1>14, <2>3, <2>4 DEF ChooseDepartment
<1>15. CASE SetDepartment(h)
  <2>1. r.conv \in Convs /\ r.dep \in DepIds
    BY <1>1, <1>15 DEF SetDepartment, At
  <2>2. CASE deps[r.dep] = Departed
    <3>1. Rows
      BY <1>1, <1>15, <2>2 DEF SetDepartment, butConvs, rosterVars, IInv, TypeOK
    <3> QED BY <1>6, <1>15, <2>2, <3>1 DEF SetDepartment
  <2>3. CASE deps[r.dep] # Departed
    <3>1. convs' = [convs EXCEPT ![r.conv].dep = r.dep] /\ Goto(h, "agents")
      BY <1>15, <2>3 DEF SetDepartment
    <3>2. /\ convs' \in [Convs -> Conversation]
          /\ \A c \in Convs : convs'[c].dep \in {convs[c].dep, r.dep}
      BY <2>1, <3>1 DEF IInv, TypeOK, Conversation, DepIds
    <3>3. Rows
      BY <1>1, <1>15, <2>3, <3>2 DEF SetDepartment, butConvs, rosterVars, IInv, TypeOK
    <3> QED BY <1>7, <2>1, <3>1, <3>3
  <2> QED BY <2>2, <2>3
<1>16. ASSUME NEW S, S \subseteq Users \union {Nobody}, Choose(h, S),
              r.conv \in Convs, r.dep \in DepIds, UNCHANGED world
       PROVE  IInv'
  <2>1. PICK u \in S : hs' = [hs EXCEPT ![h].pc = "assign", ![h].who = u]
    BY <1>16 DEF Choose
  <2>2. Kept([r EXCEPT !.pc = "assign", !.who = u])
    BY <1>1, <1>16 DEF Handler
  <2>3. hs' = [hs EXCEPT ![h] = [r EXCEPT !.pc = "assign", !.who = u]]
    BY <1>1, <2>1 DEF IInv, TypeOK, Handler
  <2> QED BY <1>4, <1>5, <1>16, <2>2, <2>3
<1>17. /\ Admins \subseteq Users
       /\ \A d, l : LeastLoaded(Candidates(d, l)) \subseteq Users
  BY DEF Admins, Agents, Candidates, LeastLoaded, IInv, TypeOK, RosterTypeOK
<1>18. CASE FindAgents(h)
  <2>1. r.conv \in Convs /\ r.dep \in DepIds /\ UNCHANGED world
    BY <1>1, <1>18 DEF FindAgents, At
  <2>2. \/ Choose(h, LeastLoaded(Candidates(r.dep, r.set.routeTo = "LIVE_AGENTS_ONLY")))
        \/ Choose(h, {Nobody}) \/ Goto(h, "anyone") \/ Goto(h, "admin")
    BY <1>1, <1>18 DEF FindAgents, Handler, Settings
  <2> QED BY <1>4, <1>7, <1>16, <1>17, <2>1, <2>2
<1>19. CASE FindAnyAgent(h)
  <2>1. r.conv \in Convs /\ r.dep \in DepIds /\ UNCHANGED world
    BY <1>1, <1>19 DEF FindAnyAgent, At
  <2>2. Choose(h, LeastLoaded(Candidates(r.dep, FALSE))) \/ Choose(h, {Nobody})
    BY <1>19 DEF FindAnyAgent
  <2> QED BY <1>16, <1>17, <2>1, <2>2
<1>20. CASE FindAdmin(h)
  <2>1. r.conv \in Convs /\ r.dep \in DepIds /\ UNCHANGED world
    BY <1>1, <1>20 DEF FindAdmin, At
  <2>2. Choose(h, Admins) \/ Choose(h, {Nobody})
    BY <1>20 DEF FindAdmin
  <2> QED BY <1>16, <1>17, <2>1, <2>2
<1>21. CASE AssignConversation(h)
  <2>1. r.conv \in Convs /\ r.who \in Users \union {Nobody}
    BY <1>1, <1>21 DEF AssignConversation, At, Handler
  <2>2. convs' \in [Convs -> Conversation] /\ \A d \in Convs : convs'[d].dep = convs[d].dep
    BY <1>21, <2>1 DEF AssignConversation, IInv, TypeOK, Conversation
  <2>3. Rows
    BY <1>1, <1>21, <2>2 DEF AssignConversation, butConvs, rosterVars, IInv, TypeOK
  <2> QED BY <1>6, <1>21, <2>3 DEF AssignConversation
<1>22. CASE HandlerFault(h)
  <2>1. Rows
    BY <1>1, <1>22 DEF HandlerFault, rosterVars, IInv, TypeOK
  <2> QED BY <1>6, <1>22, <2>1 DEF HandlerFault
<1> QED
  BY <1>8, <1>9, <1>10, <1>11, <1>12, <1>13, <1>14, <1>15, <1>18, <1>19, <1>20, <1>21, <1>22
     DEF HandlerStep, AskDepartment, AskAgain

\* No edit breaks it.
LEMMA EditInv ==
  ASSUME IInv, Edit
  PROVE  IInv'
<1> USE RosterAssumption, RoutingAssumption
<1>1. RosterTypeOK /\ convs \in [Convs -> Conversation] /\ Remembered
  BY DEF IInv, TypeOK
<1>2. ASSUME RosterTypeOK', (edit.op # "none" => edit.dep \in DepIds)',
             convs' \in [Convs -> Conversation],
             \A c \in Convs : convs'[c].dep # NoDep => deps'[convs'[c].dep] # Departed,
             settings' \in Settings, UNCHANGED <<hs, messages, faults>>
      PROVE  IInv'
  BY <1>2 DEF IInv, TypeOK, Remembered, DepIds
<1>3. ASSUME Editing PROVE edits' \in 0..MaxEdits
  BY <1>1, <1>3 DEF Editing, RosterTypeOK
<1>4. CASE RosterEdit /\ UNCHANGED <<convs, settings, hs, messages, faults>>
  <2>1. ASSUME NEW u \in Users, UpdateStaff(u) PROVE RosterTypeOK' /\ UNCHANGED <<deps, edit>>
    BY <1>1, <1>3, <2>1 DEF UpdateStaff, departments, RosterTypeOK, DepIds
  <2>2. ASSUME NEW u \in Users, SetOnline(u) PROVE RosterTypeOK' /\ UNCHANGED <<deps, edit>>
    BY <1>1, <1>3, <2>2 DEF SetOnline, departments, RosterTypeOK, DepIds
  <2>3. ASSUME CreateDepartment
        PROVE  /\ RosterTypeOK' /\ UNCHANGED edit
               /\ \A d \in DepIds : deps[d] # Departed => deps'[d] # Departed
    BY <1>1, <1>3, <2>3 DEF CreateDepartment, users, RosterTypeOK, DepIds, Departed
  <2>4. ASSUME NEW d \in DepIds, UpdateDepartment(d)
        PROVE  /\ RosterTypeOK' /\ UNCHANGED edit
               /\ \A e \in DepIds : deps[e] # Departed => deps'[e] # Departed
    BY <1>1, <1>3, <2>4 DEF UpdateDepartment, users, RosterTypeOK, DepIds, Departed
  <2>5. ASSUME NEW d \in DepIds, CheckMembers(d)
        PROVE  RosterTypeOK' /\ edit'.dep \in DepIds /\ UNCHANGED deps
    BY <1>1, <1>3, <2>5 DEF CheckMembers, users, departments, RosterTypeOK, DepIds
  <2>6. ASSUME SetMembers
        PROVE  RosterTypeOK' /\ edit'.op = "none" /\ UNCHANGED deps
    <3>1. edit.dep \in DepIds /\ edit.to \subseteq Users
      BY <1>1, <2>6 DEF SetMembers, Remembered, RosterTypeOK
    <3> QED BY <1>1, <2>6, <3>1 DEF SetMembers, users, RosterTypeOK, DepIds, NoEdit
  <2>7. /\ RosterTypeOK' /\ (edit.op # "none" => edit.dep \in DepIds)'
        /\ \A d \in DepIds : deps[d] # Departed => deps'[d] # Departed
    BY <1>1, <1>4, <2>1, <2>2, <2>3, <2>4, <2>5, <2>6 DEF RosterEdit, Remembered, DepIds
  <2>8. \A c \in Convs : convs'[c].dep # NoDep => deps'[convs'[c].dep] # Departed
    <3>1. \A c \in Convs : convs[c].dep # NoDep => convs[c].dep \in DepIds
      BY <1>1 DEF Conversation, DepIds, NoDep
    <3> QED BY <1>4, <2>7, <3>1 DEF IInv, TypeOK
  <2> QED BY <1>1, <1>2, <1>4, <2>7, <2>8 DEF IInv, TypeOK
<1>5. ASSUME Editing, UNCHANGED <<users, departments, edit>> PROVE RosterTypeOK'
  BY <1>1, <1>3, <1>5 DEF users, departments, RosterTypeOK, DepIds
<1>6. CASE UpdateSettings
  BY <1>1, <1>2, <1>5, <1>6 DEF UpdateSettings, departments, IInv, TypeOK, Remembered, DepIds
<1>7. ASSUME NEW c \in Convs, Assign(c) \/ SetStatus(c) PROVE IInv'
  <2>1. Agents \subseteq Users
    BY <1>1 DEF Agents, RosterTypeOK
  <2>2. /\ convs' \in [Convs -> Conversation]
        /\ \A d \in Convs : convs'[d].dep = convs[d].dep
    <3>1. CASE Assign(c)
      BY <1>1, <2>1, <3>1 DEF Assign, Conversation
    <3>2. CASE SetStatus(c)
      <4> DEFINE row == [convs[c] EXCEPT !.open = ~convs[c].open]
      <4>1. convs' = [convs EXCEPT ![c] = row]
        BY <1>1, <3>2 DEF SetStatus, Conversation
      <4>2. row \in Conversation /\ row.dep = convs[c].dep
        BY <1>1 DEF Conversation
      <4> QED BY <1>1, <4>1, <4>2
    <3> QED BY <1>7, <3>1, <3>2
  <2>3. /\ Editing /\ UNCHANGED <<users, departments, edit>>
        /\ UNCHANGED <<settings, hs, messages, faults>>
    BY <1>7 DEF Assign, SetStatus
  <2> QED BY <1>1, <1>2, <1>5, <2>2, <2>3 DEF departments, IInv, TypeOK, Remembered, DepIds
<1>8. ASSUME NEW d \in DepIds, CountConversations(d) PROVE IInv'
  <2>1. RosterTypeOK' /\ edit'.dep \in DepIds
    BY <1>1, <1>3, <1>8 DEF CountConversations, users, departments, RosterTypeOK, DepIds
  <2> QED BY <1>1, <1>2, <1>8, <2>1 DEF CountConversations, departments, IInv, TypeOK, DepIds
<1>9. CASE DeleteDepartment
  <2>1. edit.dep \in DepIds
    BY <1>1, <1>9 DEF DeleteDepartment, Remembered
  <2>2. RosterTypeOK'
    BY <1>1, <1>9, <2>1 DEF DeleteDepartment, users, RosterTypeOK, DepIds, NoEdit, Departed
  <2>3. /\ convs' \in [Convs -> Conversation]
        /\ \A c \in Convs : convs'[c].dep # NoDep =>
             convs'[c].dep = convs[c].dep /\ convs[c].dep # edit.dep
    BY <1>1, <1>9 DEF DeleteDepartment, Conversation, NoDep
  <2>4. \A c \in Convs : convs'[c].dep # NoDep => deps'[convs'[c].dep] # Departed
    <3>1. \A c \in Convs : convs[c].dep # NoDep => convs[c].dep \in DepIds
      BY <1>1 DEF Conversation, DepIds, NoDep
    <3> QED BY <1>1, <1>9, <2>3, <3>1 DEF DeleteDepartment, RosterTypeOK, IInv, TypeOK
  <2> QED BY <1>2, <1>9, <2>2, <2>3, <2>4 DEF DeleteDepartment, NoEdit, IInv, TypeOK
<1> QED BY <1>4, <1>6, <1>7, <1>8, <1>9 DEF Edit

\* Types, the foreign key and what is remembered are invariant.
THEOREM Invariance == Spec => []IInv
<1>1. Init => IInv
  BY InitInv
<1>2. IInv /\ [Next]_vars => IInv'
  <2>1. CASE UNCHANGED vars
    BY <2>1 DEF vars, rosterVars, IInv, TypeOK, RosterTypeOK, Remembered, DepIds
  <2> QED BY <2>1, HandlerInv, EditInv DEF Next
<1> QED BY <1>1, <1>2, PTL DEF Spec

\* Whatever is edited while messages are routed, columns and locals keep their
\* types, and no conversation refers to a department that is gone.
THEOREM TypeCorrect == Spec => []TypeOK
<1>1. IInv => TypeOK
  BY DEF IInv
<1> QED BY <1>1, Invariance, PTL
-----------------------------------------------------------------------------
\* What a handler that is about to route knows of its conversation.
Unrouted ==
  \A h \in Handlers :
    /\ hs[h].pc \in {"choose", "set"} => convs[hs[h].conv].dep = NoDep
    /\ hs[h].pc = "settings" /\ ~hs[h].routed => convs[hs[h].conv].dep = NoDep

\* A department is only ever given by SetDepartment, taken by DeleteDepartment.
LEMMA DepartmentSteps ==
  ASSUME IInv, [Next]_vars, NEW c \in Convs, convs'[c].dep # convs[c].dep
  PROVE  \/ convs'[c].dep = NoDep /\ deps'[convs[c].dep] = Departed
         \/ \E h \in Handlers : At(h, "set") /\ hs[h].conv = c /\ At(h, "agents")'
<1> USE RosterAssumption, RoutingAssumption
<1>1. convs \in [Convs -> Conversation] /\ hs \in [Handlers -> Handler] /\ RosterTypeOK
  BY DEF IInv, TypeOK
<1>2. ASSUME NEW h \in Handlers, HandlerStep(h)
      PROVE  \E g \in Handlers : At(g, "set") /\ hs[g].conv = c /\ At(g, "agents")'
  <2>1. CASE SetDepartment(h)
    <3>1. hs[h].conv \in Convs
      BY <2>1 DEF SetDepartment, At, IInv, Remembered
    <3>2. convs' = [convs EXCEPT ![hs[h].conv].dep = hs[h].dep] /\ Goto(h, "agents")
      BY <2>1 DEF SetDepartment
    <3>3. hs[h].conv = c
      BY <1>1, <3>1, <3>2 DEF Conversation
    <3> QED BY <1>1, <2>1, <3>2, <3>3 DEF SetDepartment, At, Goto, Handler
  <2>2. CASE MarkAsked(h)
    BY <1>1, <2>2 DEF MarkAsked, Conversation
  <2>3. CASE AssignConversation(h)
    BY <1>1, <2>3 DEF AssignConversation, Conversation
  <2>4. CASE ~SetDepartment(h) /\ ~MarkAsked(h) /\ ~AssignConversation(h)
    <3>1. UNCHANGED convs
      BY <1>2, <2>4 DEF HandlerStep, Receive, AskDepartment, AskAgain, ReadMenu, SendMenu,
         ReadConversation, LoadSettings, ChooseDepartment, FindAgents, FindAnyAgent,
         FindAdmin, HandlerFault, world
    <3> QED BY <3>1
  <2> QED BY <2>1, <2>2, <2>3, <2>4
<1>3. ASSUME Edit PROVE convs'[c].dep = NoDep /\ deps'[convs[c].dep] = Departed
  <2>1. CASE DeleteDepartment
    <3>1. convs'[c].dep = NoDep /\ convs[c].dep = edit.dep
      BY <1>1, <2>1 DEF DeleteDepartment, Conversation
    <3>2. edit.dep \in DepIds
      BY <2>1 DEF DeleteDepartment, IInv, Remembered
    <3> QED BY <1>1, <2>1, <3>1, <3>2 DEF DeleteDepartment, RosterTypeOK
  <2>2. ASSUME NEW d \in Convs, Assign(d) \/ SetStatus(d) PROVE FALSE
    BY <1>1, <2>2 DEF Assign, SetStatus, Conversation
  <2>3. CASE UNCHANGED convs
    BY <2>3
  <2> QED BY <1>3, <2>1, <2>2, <2>3 DEF Edit, UpdateSettings, CountConversations
<1> QED BY <1>2, <1>3 DEF Next, vars

\* When one message is handled at a time, a conversation that has a department
\* keeps it until the department is deleted, whatever is edited meanwhile.
THEOREM RoutedOnceByOne ==
  ASSUME \A g, h \in Handlers : g = h
  PROVE  Spec => RoutedOnce
<1> USE RosterAssumption, RoutingAssumption
<1> DEFINE Once(c) == convs[c].dep # NoDep /\ convs'[c].dep # convs[c].dep =>
                        convs'[c].dep = NoDep /\ deps'[convs[c].dep] = Departed
<1>1. Init => Unrouted
  BY DEF Init, Unrouted, Idle
<1>2. IInv /\ Unrouted /\ [Next]_vars => Unrouted'
  <2> SUFFICES ASSUME IInv, Unrouted, [Next]_vars, NEW h \in Handlers
               PROVE  /\ hs'[h].pc \in {"choose", "set"} => convs'[hs'[h].conv].dep = NoDep
                      /\ hs'[h].pc = "settings" /\ ~hs'[h].routed =>
                           convs'[hs'[h].conv].dep = NoDep
    BY DEF Unrouted
  <2>1. /\ hs \in [Handlers -> Handler]
        /\ hs[h].pc # "idle" => hs[h].conv \in Convs
    BY DEF IInv, TypeOK, Remembered
  <2>2. ASSUME hs'[h].conv \in Convs, hs'[h].pc # "agents",
               convs[hs'[h].conv].dep = NoDep
        PROVE  convs'[hs'[h].conv].dep = NoDep
    <3>1. ASSUME NEW g \in Handlers PROVE ~At(g, "agents")'
      BY <2>2, <3>1 DEF At
    <3> QED BY <2>2, <3>1, DepartmentSteps
  <2>3. ASSUME hs'[h].pc \in {"choose", "set"} \/ (hs'[h].pc = "settings" /\ ~hs'[h].routed)
        PROVE  hs'[h].conv \in Convs /\ convs[hs'[h].conv].dep = NoDep
    <3>1. CASE hs'[h] = hs[h]
      BY <2>1, <2>3, <3>1 DEF Unrouted
    <3>2. CASE ReadConversation(h)
      BY <2>1, <2>3, <3>2 DEF ReadConversation, At, Row, Handler
    <3>3. CASE LoadSettings(h)
      BY <2>1, <2>3, <3>3 DEF LoadSettings, At, Done, Idle, Handler, Unrouted
    <3>4. CASE ChooseDepartment(h)
      BY <2>1, <2>3, <3>4 DEF ChooseDepartment, At, Goto, Handler, Unrouted
    <3>5. ASSUME HandlerStep(h), ~ReadConversation(h), ~LoadSettings(h), ~ChooseDepartment(h)
          PROVE  FALSE
      <4>1. hs'[h].pc \notin {"choose", "set", "settings"}
        <5>1. \A pc : Goto(h, pc) => hs'[h].pc = pc
          BY <2>1 DEF Goto, Handler
        <5>2. Done(h) => hs'[h].pc = "idle"
          BY <2>1 DEF Done, Idle
        <5>3. \A S : Choose(h, S) => hs'[h].pc = "assign"
          BY <2>1 DEF Choose, Handler
        <5>4. ASSUME NEW d \in Convs, NEW n \in 0..(MaxDeps + 1), Receive(h, d, n)
              PROVE  hs'[h].pc \in {"select", "menu"}
          BY <2>1, <5>4 DEF Receive, Idle
        <5>5. AskDepartment(h) \/ AskAgain(h) => hs'[h].pc \in {"idle", "mark", "send"}
          BY <2>1, <5>2 DEF AskDepartment, AskAgain, ReadMenu, Handler
        <5>6. FindAgents(h) => hs'[h].pc \in {"assign", "anyone", "admin"}
          <6>1. hs[h].set.fallback \in {"NONE", "ASSIGN_ANY_AGENT", "ASSIGN_ADMIN"}
            BY <2>1 DEF Handler, Settings
          <6> QED BY <5>1, <5>3, <6>1 DEF FindAgents
        <5> QED BY <3>5, <5>1, <5>2, <5>3, <5>4, <5>5, <5>6
              DEF HandlerStep, MarkAsked, SendMenu, SetDepartment, FindAnyAgent, FindAdmin,
                  AssignConversation, HandlerFault
      <4> QED BY <2>3, <4>1
    <3>6. ASSUME NEW g \in Handlers, HandlerStep(g) PROVE HandlerStep(h)
      <4>1. g = h
        OBVIOUS
      <4> QED BY <3>6, <4>1
    <3>7. (Edit \/ UNCHANGED vars) => hs'[h] = hs[h]
      BY DEF Edit, RosterEdit, UpdateSettings, Assign, SetStatus, CountConversations,
         DeleteDepartment, vars
    <3> QED BY <3>1, <3>2, <3>3, <3>4, <3>5, <3>6, <3>7 DEF Next
  <2> QED BY <2>1, <2>2, <2>3
<1>3. IInv /\ Unrouted /\ [Next]_vars =>
        [\A c \in Convs : Once(c)]_vars
  <2> SUFFICES ASSUME IInv, Unrouted, [Next]_vars, NEW c \in Convs,
                      convs[c].dep # NoDep, convs'[c].dep # convs[c].dep
               PROVE  convs'[c].dep = NoDep /\ deps'[convs[c].dep] = Departed
    OBVIOUS
  <2>1. \A h \in Handlers : At(h, "set") => convs[hs[h].conv].dep = NoDep
    BY DEF At, Unrouted
  <2> QED BY <2>1, DepartmentSteps
<1> HIDE DEF Once
<1>4. Spec => [][\A c \in Convs : Once(c)]_vars
  BY <1>1, <1>2, <1>3, Invariance, PTL DEF Spec
<1> USE DEF Once
<1> QED BY <1>4 DEF RoutedOnce
-----------------------------------------------------------------------------
\* A department about to be deleted is attached to nothing, and nobody handles
\* a message meanwhile.
DeletionInv ==
  edit.op = "delete" => Quiet /\ \A c \in Convs : convs[c].dep # edit.dep

\* Only deleteDepartment deletes a department.
LEMMA DeletionSteps ==
  ASSUME IInv, [Next]_vars, NEW d \in DepIds, deps[d] # Departed, deps'[d] = Departed
  PROVE  DeleteDepartment /\ edit.dep = d
<1>1. RosterTypeOK
  BY DEF IInv, TypeOK
<1>2. ASSUME NEW h \in Handlers, HandlerStep(h) PROVE UNCHANGED deps
  BY <1>2 DEF HandlerStep, Receive, AskDepartment, AskAgain, ReadMenu, MarkAsked, SendMenu,
     ReadConversation, LoadSettings, ChooseDepartment, SetDepartment, FindAgents,
     FindAnyAgent, FindAdmin, AssignConversation, HandlerFault, world, butConvs, rosterVars
<1>3. RosterEdit => deps'[d] # Departed
  BY <1>1 DEF RosterEdit, UpdateStaff, SetOnline, CreateDepartment, UpdateDepartment,
     CheckMembers, SetMembers, departments, RosterTypeOK, Departed
<1>4. DeleteDepartment => edit.dep = d
  BY <1>1 DEF DeleteDepartment, RosterTypeOK
<1>5. UpdateSettings \/ (\E c \in Convs : Assign(c) \/ SetStatus(c))
        \/ (\E e \in DepIds : CountConversations(e)) \/ UNCHANGED vars => UNCHANGED deps
  BY DEF UpdateSettings, Assign, SetStatus, CountConversations, departments, vars, rosterVars
<1> QED BY <1>2, <1>3, <1>4, <1>5 DEF Next, Edit

\* When no row is edited while a message is handled, a department is not deleted
\* while it is attached to a conversation, however many messages are handled at
\* the same time: what was counted before the deletion is still so at it.
THEOREM DeletedUnattached ==
  ASSUME ~EditsInBetween
  PROVE  Spec => DeletedIsUnattached
<1> USE RosterAssumption, RoutingAssumption
<1> DEFINE Unattached(d) == deps[d] # Departed /\ deps'[d] = Departed =>
                              \A c \in Convs : convs[c].dep # d
<1>1. Init => DeletionInv
  BY DEF Init, RosterInit, DeletionInv, NoEdit
<1>2. IInv /\ DeletionInv /\ [Next]_vars => DeletionInv'
  <2> SUFFICES ASSUME IInv, DeletionInv, [Next]_vars, edit'.op = "delete"
               PROVE  Quiet' /\ \A c \in Convs : convs'[c].dep # edit'.dep
    BY DEF DeletionInv
  <2>1. /\ convs \in [Convs -> Conversation] /\ hs \in [Handlers -> Handler]
        /\ RosterTypeOK /\ (edit.op # "none" => edit.dep \in DepIds)
    BY DEF IInv, TypeOK, Remembered
  <2>2. ASSUME UNCHANGED edit, UNCHANGED hs
        PROVE  Quiet' /\ \A c \in Convs : convs'[c].dep # edit'.dep
    <3>1. Quiet' /\ edit.dep \in DepIds /\ \A c \in Convs : convs[c].dep # edit.dep
      BY <2>1, <2>2 DEF DeletionInv, Quiet, At
    <3>2. ASSUME NEW c \in Convs PROVE convs'[c].dep # edit.dep
      <4>1. ASSUME NEW h \in Handlers PROVE ~At(h, "agents")'
        BY <3>1 DEF Quiet, At
      <4>2. convs'[c].dep = convs[c].dep \/ convs'[c].dep = NoDep
        BY <4>1, DepartmentSteps
      <4> QED BY <3>1, <4>2 DEF NoDep, DepIds
    <3> QED BY <2>2, <3>1, <3>2
  <2>3. ASSUME NEW h \in Handlers, HandlerStep(h) PROVE FALSE
    <3>1. UNCHANGED edit
      BY <2>3 DEF HandlerStep, Receive, AskDepartment, AskAgain, ReadMenu, MarkAsked,
         SendMenu, ReadConversation, LoadSettings, ChooseDepartment, SetDepartment,
         FindAgents, FindAnyAgent, FindAdmin, AssignConversation, HandlerFault, world,
         butConvs, rosterVars
    <3>2. At(h, "idle")
      BY <3>1 DEF DeletionInv, Quiet
    <3>3. PICK c \in Convs, n \in 0..(MaxDeps + 1) : Receive(h, c, n)
      BY <2>3, <3>2 DEF HandlerStep, AskDepartment, AskAgain, ReadMenu, MarkAsked,
         SendMenu, ReadConversation, LoadSettings, ChooseDepartment, SetDepartment,
         FindAgents, FindAnyAgent, FindAdmin, AssignConversation, HandlerFault, At
    <3> QED BY <3>1, <3>3 DEF Receive, NoEdit
  <2>4. ASSUME NEW d \in DepIds, CountConversations(d), Quiet
        PROVE  Quiet' /\ \A c \in Convs : convs'[c].dep # edit'.dep
    BY <2>4 DEF CountConversations, Quiet, At
  <2>5. ASSUME RosterEdit /\ UNCHANGED <<convs, settings, hs, messages, faults>>
        PROVE  UNCHANGED edit /\ UNCHANGED hs
    BY <2>5 DEF RosterEdit, UpdateStaff, SetOnline, CreateDepartment, UpdateDepartment,
       CheckMembers, SetMembers, NoEdit
  <2>6. ~DeleteDepartment
    BY DEF DeleteDepartment, NoEdit
  <2>7. UpdateSettings \/ (\E c \in Convs : Assign(c) \/ SetStatus(c)) \/ UNCHANGED vars =>
          UNCHANGED edit /\ UNCHANGED hs
    BY DEF UpdateSettings, Assign, SetStatus, vars, rosterVars
  <2> QED BY <2>2, <2>3, <2>4, <2>5, <2>6, <2>7 DEF Next, Edit
<1>3. IInv /\ DeletionInv /\ [Next]_vars => [\A d \in DepIds : Unattached(d)]_vars
  BY DeletionSteps DEF DeletionInv, DeleteDepartment
<1> HIDE DEF Unattached
<1>4. Spec => [][\A d \in DepIds : Unattached(d)]_vars
  BY <1>1, <1>2, <1>3, Invariance, PTL DEF Spec
<1> USE DEF Unattached
<1> QED BY <1>4 DEF DeletedIsUnattached
-----------------------------------------------------------------------------
\* What an automatic assignment has found out so far is still so: the agents its
\* first query asked for, and what a handler knows.
Asked(h) == Candidates(hs[h].dep, hs[h].set.routeTo = "LIVE_AGENTS_ONLY")
Known(h) ==
  /\ hs[h].pc \in {"choose", "set", "agents", "anyone", "admin"} => hs[h].set = settings
  /\ hs[h].pc \in {"agents", "anyone", "admin"} => Row(h).dep = hs[h].dep
  /\ hs[h].pc \in {"anyone", "admin"} => Asked(h) = {}
  /\ hs[h].pc = "anyone" => hs[h].set.fallback = "ASSIGN_ANY_AGENT"
  /\ hs[h].pc = "admin" => hs[h].set.fallback = "ASSIGN_ADMIN"
  /\ hs[h].pc = "assign" => hs[h].who \in Suitable(Row(h).dep)
AssigningInv == \A h \in Handlers : Known(h)

\* Whom a conversation should go to, and who is there, depend on the rows only.
LEMMA SuitableStays ==
  ASSUME UNCHANGED world
  PROVE  /\ \A d : Suitable(d)' = Suitable(d)
         /\ \A d, l : Candidates(d, l)' = Candidates(d, l)
  BY DEF Suitable, Candidates, LeastLoaded, Load, Agents, Admins, world, rosterVars

\* When one message is handled at a time and no row is edited meanwhile, whoever
\* an automatic assignment writes is whom the rows say it should be: the agent
\* with the fewest open conversations of those asked for, or the fallback.
THEOREM AssignmentFitsByOne ==
  ASSUME \A g, h \in Handlers : g = h, ~EditsInBetween
  PROVE  Spec => AssignmentFits
<1> USE RosterAssumption, RoutingAssumption
<1> DEFINE Fits(h) == At(h, "assign") /\ convs' # convs =>
                        convs'[hs[h].conv].assignedTo \in Suitable(Row(h).dep)
<1>1. Init => AssigningInv
  BY DEF Init, AssigningInv, Known, Idle
<1>2. ASSUME IInv, AssigningInv, NEW h \in Handlers, HandlerStep(h) PROVE AssigningInv'
  <2> DEFINE r == hs[h]
             q == hs'[h]
             live == r.set.routeTo = "LIVE_AGENTS_ONLY"
             Keeps == q.conv = r.conv /\ q.set = r.set /\ q.dep = r.dep
  <2>a. hs \in [Handlers -> Handler] /\ convs \in [Convs -> Conversation]
    BY <1>2 DEF IInv, TypeOK
  <2>1. /\ hs \in [Handlers -> Handler] /\ hs[h] \in Handler
        /\ convs \in [Convs -> Conversation]
        /\ hs[h].pc # "idle" => hs[h].conv \in Convs
    BY <1>2, <2>a DEF IInv, Remembered
  <2>2. /\ hs[h].pc \in {"choose", "set", "agents", "anyone", "admin"} => hs[h].set = settings
        /\ hs[h].pc \in {"agents", "anyone", "admin"} => Row(h).dep = hs[h].dep
        /\ hs[h].pc \in {"anyone", "admin"} => Candidates(hs[h].dep, live) = {}
        /\ hs[h].pc = "anyone" => hs[h].set.fallback = "ASSIGN_ANY_AGENT"
        /\ hs[h].pc = "admin" => hs[h].set.fallback = "ASSIGN_ADMIN"
    BY <1>2 DEF AssigningInv, Known, Asked
  <2>3. ASSUME q.pc \notin {"choose", "set", "agents", "anyone", "admin", "assign"}
        PROVE  AssigningInv'
    BY <2>3 DEF AssigningInv, Known
  <2>4. \A pc : Goto(h, pc) => q.pc = pc /\ Keeps
    BY <2>1 DEF Goto, Handler
  <2>5. Done(h) => q.pc = "idle"
    BY <2>1 DEF Done, Idle
  <2>6. ASSUME NEW S, S \subseteq Suitable(Row(h).dep), Choose(h, S), UNCHANGED world
        PROVE  AssigningInv'
    <3>1. PICK u \in S : q = [r EXCEPT !.pc = "assign", !.who = u]
      BY <2>1, <2>6 DEF Choose
    <3>2. q.pc = "assign" /\ q.who \in Suitable(Row(h).dep) /\ q.conv = r.conv
      BY <2>1, <2>6, <3>1 DEF Handler
    <3>3. Row(h)' = Row(h)
      BY <2>6, <3>2 DEF Row, world
    <3>4. Suitable(Row(h).dep)' = Suitable(Row(h).dep)
      BY <2>6, <3>3, SuitableStays
    <3> QED BY <3>2, <3>4 DEF AssigningInv, Known
  <2>7. CASE LoadSettings(h)
    <3>1. Done(h) \/ (q.set = settings /\ q.pc \in {"reask", "choose"})
      BY <2>1, <2>7 DEF LoadSettings, Handler
    <3>2. settings' = settings
      BY <2>7 DEF LoadSettings, world
    <3> QED BY <2>3, <2>5, <3>1, <3>2 DEF AssigningInv, Known
  <2>8. CASE ChooseDepartment(h)
    <3>1. q.pc \in {"set", "reask"} /\ q.set = settings /\ settings' = settings
      BY <2>1, <2>2, <2>8 DEF ChooseDepartment, Goto, At, Handler, world
    <3> QED BY <3>1 DEF AssigningInv, Known
  <2>9. CASE SetDepartment(h)
    <3>1. CASE Done(h)
      BY <2>3, <2>5, <3>1
    <3>2. CASE convs' = [convs EXCEPT ![r.conv].dep = r.dep] /\ Goto(h, "agents")
      <4>1. q.pc = "agents" /\ Keeps /\ r.conv \in Convs /\ r.set = settings
        BY <2>1, <2>2, <2>4, <2>9, <3>2 DEF SetDepartment, At, Handler
      <4>2. settings' = settings /\ Row(h)'.dep = q.dep
        BY <2>1, <2>9, <3>2, <4>1 DEF SetDepartment, butConvs, Row, Conversation
      <4> QED BY <4>1, <4>2 DEF AssigningInv, Known
    <3> QED BY <2>9, <3>1, <3>2 DEF SetDepartment
  <2>10. CASE FindAgents(h)
    <3> DEFINE S == Candidates(r.dep, live)
    <3>1. UNCHANGED world /\ r.set = settings /\ Row(h).dep = r.dep
      BY <2>2, <2>10 DEF FindAgents, At
    <3>2. CASE S # {} /\ Choose(h, LeastLoaded(S))
      <4>1. Suitable(Row(h).dep) = LeastLoaded(S)
        BY <3>1, <3>2 DEF Suitable
      <4> QED BY <2>6, <3>1, <3>2, <4>1
    <3>3. ASSUME S = {}, NEW pc \in {"anyone", "admin"}, Goto(h, pc),
                 pc = "anyone" => r.set.fallback = "ASSIGN_ANY_AGENT",
                 pc = "admin" => r.set.fallback = "ASSIGN_ADMIN"
          PROVE  AssigningInv'
      <4>1. q.pc = pc /\ Keeps
        BY <2>1, <2>4, <3>3 DEF Handler
      <4>2. Row(h)' = Row(h) /\ settings' = settings
        BY <3>1, <4>1 DEF Row, world
      <4>3. Asked(h)' = {}
        BY <3>1, <3>3, <4>1, SuitableStays DEF Asked
      <4> QED BY <3>1, <3>3, <4>1, <4>2, <4>3 DEF AssigningInv, Known
    <3>4. CASE S = {} /\ r.set.fallback = "NONE" /\ Choose(h, {Nobody})
      <4>1. Suitable(Row(h).dep) = {Nobody}
        BY <3>1, <3>4 DEF Suitable
      <4> QED BY <2>6, <3>1, <3>4, <4>1
    <3>5. r.set.fallback \in {"NONE", "ASSIGN_ANY_AGENT", "ASSIGN_ADMIN"}
      BY <2>1 DEF Handler, Settings
    <3> QED BY <2>10, <3>2, <3>3, <3>4, <3>5 DEF FindAgents
  <2>11. CASE FindAnyAgent(h)
    <3> DEFINE S == IF live THEN Candidates(r.dep, FALSE) ELSE {}
    <3>1. /\ UNCHANGED world /\ r.set = settings /\ Row(h).dep = r.dep
          /\ Candidates(r.dep, live) = {} /\ r.set.fallback = "ASSIGN_ANY_AGENT"
      BY <2>2, <2>11 DEF FindAnyAgent, At
    <3>2. Choose(h, IF S = {} THEN {Nobody} ELSE LeastLoaded(S))
      BY <2>11 DEF FindAnyAgent
    <3>3. S = Candidates(r.dep, FALSE)
      BY <3>1
    <3>4. Suitable(Row(h).dep) = IF S = {} THEN {Nobody} ELSE LeastLoaded(S)
      BY <3>1, <3>3 DEF Suitable
    <3> QED BY <2>6, <3>1, <3>2, <3>4
  <2>12. CASE FindAdmin(h)
    <3>1. /\ UNCHANGED world /\ r.set = settings /\ Row(h).dep = r.dep
          /\ Candidates(r.dep, live) = {} /\ r.set.fallback = "ASSIGN_ADMIN"
          /\ Choose(h, IF Admins = {} THEN {Nobody} ELSE Admins)
      BY <2>2, <2>12 DEF FindAdmin, At
    <3>2. Suitable(Row(h).dep) = IF Admins = {} THEN {Nobody} ELSE Admins
      BY <3>1 DEF Suitable
    <3> QED BY <2>6, <3>1, <3>2
  <2>13. ASSUME ~LoadSettings(h), ~ChooseDepartment(h), ~SetDepartment(h), ~FindAgents(h),
                ~FindAnyAgent(h), ~FindAdmin(h)
         PROVE  AssigningInv'
    <3>1. ASSUME NEW d \in Convs, NEW n \in 0..(MaxDeps + 1), Receive(h, d, n)
          PROVE  q.pc \in {"select", "menu"}
      BY <2>1, <3>1 DEF Receive, Idle
    <3>2. AskDepartment(h) \/ AskAgain(h) => q.pc \in {"idle", "mark", "send"}
      BY <2>1, <2>5 DEF AskDepartment, AskAgain, ReadMenu, Handler
    <3>3. MarkAsked(h) => q.pc = "send"
      BY <2>1, <2>4 DEF MarkAsked, Handler
    <3>4. ReadConversation(h) => q.pc = "settings"
      BY <2>1 DEF ReadConversation, Handler
    <3> QED BY <1>2, <2>3, <2>5, <2>13, <3>1, <3>2, <3>3, <3>4
            DEF HandlerStep, SendMenu, AssignConversation, HandlerFault
  <2> QED BY <2>7, <2>8, <2>9, <2>10, <2>11, <2>12, <2>13
<1>3. ASSUME Edit PROVE Quiet /\ UNCHANGED hs
  BY <1>3 DEF Edit, RosterEdit, UpdateSettings, Assign, SetStatus, CountConversations,
     DeleteDepartment
<1>4. IInv /\ AssigningInv /\ [Next]_vars => AssigningInv'
  <2>1. ASSUME Edit PROVE AssigningInv'
    BY <1>3, <2>1 DEF Quiet, At, AssigningInv, Known
  <2>2. ASSUME UNCHANGED vars, AssigningInv PROVE AssigningInv'
    <3>1. UNCHANGED world /\ UNCHANGED hs
      BY <2>2 DEF vars, world
    <3>2. convs' = convs /\ settings' = settings
      BY <3>1 DEF world
    <3> QED BY <2>2, <3>1, <3>2, SuitableStays DEF AssigningInv, Known, Asked, Row
  <2> QED BY <1>2, <2>1, <2>2 DEF Next
<1>5. IInv /\ AssigningInv /\ [Next]_vars => [\A h \in Handlers : Fits(h)]_vars
  <2> SUFFICES ASSUME IInv, AssigningInv, Next, NEW h \in Handlers,
                      At(h, "assign"), convs' # convs
               PROVE  convs'[hs[h].conv].assignedTo \in Suitable(Row(h).dep)
    BY DEF vars
  <2>1. /\ hs[h].who \in Suitable(Row(h).dep) /\ hs[h].conv \in Convs
        /\ convs \in [Convs -> Conversation]
    BY DEF AssigningInv, Known, At, IInv, TypeOK, Remembered
  <2>2. HandlerStep(h)
    BY <1>3 DEF Next, Quiet, At
  <2>3. AssignConversation(h)
    BY <2>2 DEF HandlerStep, Receive, AskDepartment, AskAgain, ReadMenu, MarkAsked, SendMenu,
       ReadConversation, LoadSettings, ChooseDepartment, SetDepartment, FindAgents,
       FindAnyAgent, FindAdmin, HandlerFault, At
  <2>4. convs'[hs[h].conv].assignedTo = hs[h].who
    BY <2>1, <2>3 DEF AssignConversation, Conversation
  <2> QED BY <2>1, <2>4
<1> HIDE DEF Fits
<1>6. Spec => [][\A h \in Handlers : Fits(h)]_vars
  BY <1>1, <1>4, <1>5, Invariance, PTL DEF Spec
<1> USE DEF Fits
<1> QED BY <1>6 DEF AssignmentFits
=============================================================================
