--------------------------- MODULE PresenceProofs ---------------------------
(***************************************************************************)
(* isOnline is wrong only where a write was, for any number of tabs,       *)
(* sockets, acts and faults.                                               *)
(***************************************************************************)
EXTENDS Presence, TLAPS

\* While the flag is right as written, an online user has a connection, or one
\* whose handlers still have a write to make.
OnlineHasConnection ==
  online /\ ~stale =>
    \E s \in Sockets : Live(s) \/ conn[s].bye \/ conn[s].pc \in {"verify", "write"}

\* t will report itself: its socket is being accepted, it came back, or it is
\* signing out.
Reporting(t) ==
  \/ conn[tab[t].conn].pc \in {"verify", "write"}
  \/ \E r \in flight : r.tab = t /\
       (r.kind = "visible" \/ (r.awaited /\ r.kind \in {"idle", "logout"}))
OfflineIsReported ==
  ~online /\ ~stale => \A t \in Tabs : Present(t) => Reporting(t)

\* What the proofs need of the types.
Shape ==
  /\ tab \in [Tabs -> Tab]
  /\ conn \in [Sockets -> Connection]
  /\ flight \subseteq Request
  /\ online \in BOOLEAN
  /\ stale \in BOOLEAN
  /\ token \in BOOLEAN

Inv == Shape /\ OnlineHasConnection /\ OfflineIsReported

\* The initial row is not trusted.
LEMMA InitInv == Init => Inv
<1> SUFFICES ASSUME Init PROVE Inv
    OBVIOUS
<1>1. Shape
  <2>1. tab \in [Tabs -> Tab]
    BY PresenceAssumption DEF Init, SignedOut, Closed, Tab
  <2>2. conn \in [Sockets -> Connection]
    BY DEF Init, Free, Connection
  <2> QED BY <2>1, <2>2 DEF Shape, Init
<1>2. OnlineHasConnection /\ OfflineIsReported
  BY DEF Init, OnlineHasConnection, OfflineIsReported
<1> QED BY <1>1, <1>2 DEF Inv

\* A call is a request, awaited or not.
LEMMA CallType ==
  ASSUME NEW t \in Tabs, NEW k \in Kinds, NEW a \in BOOLEAN
  PROVE  /\ Call(t, k, a) \in Request
         /\ [Call(t, k, a) EXCEPT !.awaited = FALSE] \in Request
BY DEF Call, Request

\* Signing in and out leaves a page a page.
LEMMA PageType ==
  ASSUME NEW r \in Tab
  PROVE  SignedIn(r) \in Tab /\ SignedOut(r) \in Tab
BY PresenceAssumption DEF SignedIn, SignedOut, Tab

\* No step leaves the types.
LEMMA ShapeStep ==
  ASSUME Shape, [Next]_vars
  PROVE  Shape'
<1> USE PresenceAssumption DEF Shape
<1>0. \A k \in {"login", "visible", "away", "unload", "idle", "logout"} : k \in Kinds
  BY DEF Kinds
<1>1. ASSUME NEW t \in Tabs, Open(t) PROVE Shape'
  <2> DEFINE page == IF token THEN "loading" ELSE "out"
  <2>1. page \in {"closed", "loading", "out", "in"}
    OBVIOUS
  <2>2. tab' = [tab EXCEPT ![t].page = page]
    BY <1>1 DEF Open
  <2> HIDE DEF page
  <2>3. tab' \in [Tabs -> Tab]
    BY <2>1, <2>2 DEF Tab
  <2> QED BY <1>1, <2>3 DEF Open, server
<1>2. ASSUME NEW t \in Tabs, resetTimer(t) PROVE Shape'
  BY <1>2 DEF resetTimer, Act, server, Tab, Connection
<1>3. ASSUME NEW t \in Tabs, Connect(t) PROVE Shape'
  <2> DEFINE n == CHOOSE x \in Sockets : conn[x] = Free
  <2>1. n \in Sockets
    BY <1>3 DEF Connect
  <2>2. /\ conn' = [conn EXCEPT ![n] = [pc |-> "verify", live |-> TRUE, bye |-> FALSE]]
        /\ tab' = [tab EXCEPT ![t].conn = n]
        /\ UNCHANGED <<token, flight, online, stale>>
    BY <1>3 DEF Connect
  <2> HIDE DEF n
  <2> QED BY <2>1, <2>2 DEF Tab, Connection
<1>4. ASSUME NEW t \in Tabs, Drop(t) PROVE Shape'
  BY <1>4 DEF Drop, Fault, server, Tab, Connection
<1>5. ASSUME NEW t \in Tabs, refreshUser(t) PROVE Shape'
  <2>1. tab' \in [Tabs -> Tab]
    BY <1>5, PageType DEF refreshUser
  <2>2. flight' \subseteq Request
    BY <1>5 DEF refreshUser
  <2> QED BY <1>5, <2>1, <2>2 DEF refreshUser, server
<1>6. ASSUME NEW t \in Tabs, login(t) PROVE Shape'
  <2>1. tab' \in [Tabs -> Tab]
    <3>1. CASE tab' = [tab EXCEPT ![t] = SignedIn(@)]
      BY <3>1, PageType
    <3>2. CASE tab' = [tab EXCEPT ![t].page = "loading"]
      BY <3>2 DEF Tab
    <3> QED BY <1>6, <3>1, <3>2 DEF login
  <2>2. flight' \subseteq Request
    <3>1. Call(t, "login", TRUE) \in Request
      BY <1>0, CallType
    <3> QED BY <1>6, <3>1 DEF login
  <2> QED BY <1>6, <2>1, <2>2 DEF login, Act, server
<1>7. ASSUME NEW t \in Tabs, handleVisibilityChange(t) PROVE Shape'
  <2>1. tab' \in [Tabs -> Tab]
    <3>1. CASE tab' = [tab EXCEPT ![t].hidden = TRUE, ![t].away = TRUE]
      BY <3>1 DEF Tab
    <3>2. CASE tab' = [tab EXCEPT ![t] = [@ EXCEPT !.hidden = FALSE, !.away = FALSE, !.idle = TRUE]]
      BY <3>2 DEF Tab
    <3> QED BY <1>7, <3>1, <3>2 DEF handleVisibilityChange
  <2>2. flight' \subseteq Request
    <3>1. Call(t, "visible", token) \in Request
      BY <1>0, CallType
    <3> QED BY <1>7, <3>1 DEF handleVisibilityChange
  <2> QED BY <1>7, <2>1, <2>2 DEF handleVisibilityChange, server
<1>8. ASSUME NEW t \in Tabs, TabAwayTimeout(t) PROVE Shape'
  <2>1. tab' \in [Tabs -> Tab]
    BY <1>8 DEF TabAwayTimeout, Tab
  <2>2. flight' \subseteq Request
    BY <1>8, <1>0, CallType DEF TabAwayTimeout
  <2> QED BY <1>8, <2>1, <2>2 DEF TabAwayTimeout, server
<1>9. ASSUME NEW t \in Tabs, handleIdle(t) PROVE Shape'
  <2>1. tab' \in [Tabs -> Tab]
    BY <1>9 DEF handleIdle, Tab
  <2>2. flight' \subseteq Request
    BY <1>9, <1>0, CallType DEF handleIdle
  <2> QED BY <1>9, <2>1, <2>2 DEF handleIdle, server
<1>10. ASSUME NEW t \in Tabs, logout(t) PROVE Shape'
  <2>1. tab' \in [Tabs -> Tab]
    BY <1>10 DEF logout
  <2>2. flight' \subseteq Request
    BY <1>10, <1>0, CallType DEF logout
  <2> QED BY <1>10, <2>1, <2>2 DEF logout, server
<1>11. ASSUME NEW t \in Tabs, handleBeforeUnload(t) PROVE Shape'
  <2>1. tab' \in [Tabs -> Tab]
    BY <1>11 DEF handleBeforeUnload, Tab, Closed
  <2> DEFINE orphans == {IF r.tab = t THEN [r EXCEPT !.awaited = FALSE] ELSE r : r \in flight}
  <2>2. orphans \subseteq Request
    BY DEF Request
  <2>3. flight' \subseteq Request
    BY <1>11, <2>2, <1>0, CallType DEF handleBeforeUnload
  <2> QED BY <1>11, <2>1, <2>3 DEF handleBeforeUnload, server
<1>12. ASSUME NEW r \in flight, updateStatus(r) PROVE Shape'
  <2>1. r.tab \in Tabs /\ r.kind \in Kinds /\ r.auth \in BOOLEAN
    BY DEF Request
  <2>2. tab' \in [Tabs -> Tab] /\ flight' \subseteq Request /\ token' \in BOOLEAN
    <3>1. Call(r.tab, "logout", token) \in Request
      BY <2>1, <1>0, CallType
    <3>2. tab[r.tab] \in Tab /\ SignedOut(tab[r.tab]) \in Tab
      BY <2>1, PageType
    <3> QED BY <1>12, <2>1, <3>1, <3>2 DEF updateStatus, Continue
  <2>3. online' \in BOOLEAN /\ stale' \in BOOLEAN
    <3>1. \A on, S : Outdated(on, S) \in BOOLEAN
      BY DEF Outdated
    <3>2. On(r.kind) \in BOOLEAN
      BY DEF On
    <3> QED BY <1>12, <3>1, <3>2 DEF updateStatus, Write, WriteFails
  <2> QED BY <1>12, <2>2, <2>3 DEF updateStatus
<1>13. ASSUME NEW s \in Sockets, VerifyToken(s) PROVE Shape'
  BY <1>13 DEF VerifyToken, Connection, Steps
<1>14. ASSUME NEW s \in Sockets, handleDisconnect(s) PROVE Shape'
  BY <1>14 DEF handleDisconnect, Connection, Steps
<1>15. ASSUME NEW s \in Sockets, Release(s) PROVE Shape'
  BY <1>15 DEF Release, Free, Connection, Steps
<1>16. ASSUME NEW s \in Sockets, WriteOffline(s) PROVE Shape'
  BY <1>16 DEF WriteOffline, Connection, Write, Outdated, WriteFails
<1>17. ASSUME NEW s \in Sockets, WriteOnline(s) PROVE Shape'
  <2> DEFINE failed == [t \in Tabs |-> IF tab[t].conn = s
                 THEN [tab[t] EXCEPT !.conn = NoSocket, !.sock = FALSE] ELSE tab[t]]
  <2>1. tab' \in [Tabs -> Tab]
    <3>1. failed \in [Tabs -> Tab]
      BY DEF Tab
    <3> QED BY <1>17, <3>1 DEF WriteOnline
  <2>2. conn' \in [Sockets -> Connection]
    <3>1. CASE conn' = [conn EXCEPT ![s].pc = "done"]
      BY <3>1 DEF Connection
    <3>2. CASE conn' = [conn EXCEPT ![s].pc = "done", ![s].live = FALSE,
                                    ![s].bye = @ \/ conn[s].live]
      <4>1. (conn[s].bye \/ conn[s].live) \in BOOLEAN
        BY DEF Connection
      <4> QED BY <3>2, <4>1 DEF Connection
    <3> QED BY <1>17, <3>1, <3>2 DEF WriteOnline
  <2> QED BY <1>17, <2>1, <2>2 DEF WriteOnline, Write, Outdated, WriteFails
<1>18. ASSUME Restart PROVE Shape'
  BY <1>18 DEF Restart, Free, Connection, Tab
<1>19. ASSUME UNCHANGED vars PROVE Shape'
  BY <1>19 DEF vars
<1> QED
  BY <1>1, <1>2, <1>3, <1>4, <1>5, <1>6, <1>7, <1>8, <1>9, <1>10, <1>11, <1>12, <1>13, <1>14, <1>15, <1>16, <1>17, <1>18, <1>19 DEF Next, Browser, Gateway

\* A socket that is about to report its end has been verified and is not open.
ByeIsLate ==
  \A s \in Sockets : conn[s].bye => conn[s].pc \in {"write", "done"} /\ ~conn[s].live
Bounded == acts \in 0..MaxActs /\ faults \in 0..MaxFaults

\* handleDisconnect writes for verified sockets only.
LEMMA CloseStep ==
  ASSUME Shape, ByeIsLate, [Next]_vars
  PROVE  ByeIsLate'
<1> USE DEF Shape, ByeIsLate
<1>1. ASSUME UNCHANGED conn PROVE ByeIsLate'
  BY <1>1
<1>2. ASSUME NEW t \in Tabs, Connect(t) PROVE ByeIsLate'
  <2> DEFINE n == CHOOSE x \in Sockets : conn[x] = Free
  <2>1. conn' = [conn EXCEPT ![n] = [pc |-> "verify", live |-> TRUE, bye |-> FALSE]]
    BY <1>2 DEF Connect
  <2> HIDE DEF n
  <2> QED BY <2>1
<1>3. ASSUME NEW s \in Sockets, Gateway(s) PROVE ByeIsLate'
  <2>1. CASE VerifyToken(s)
    BY <2>1 DEF VerifyToken, Connection
  <2>2. CASE WriteOnline(s)
    <3>1. CASE conn' = [conn EXCEPT ![s].pc = "done"]
      BY <3>1 DEF Connection
    <3>2. CASE conn' = [conn EXCEPT ![s].pc = "done", ![s].live = FALSE,
                                    ![s].bye = @ \/ conn[s].live]
      BY <3>2 DEF Connection
    <3> QED BY <2>2, <3>1, <3>2 DEF WriteOnline
  <2>3. CASE handleDisconnect(s)
    BY <2>3 DEF handleDisconnect, Live, Connection
  <2>4. CASE WriteOffline(s)
    BY <2>4 DEF WriteOffline, Connection
  <2>5. CASE Release(s)
    BY <2>5 DEF Release, Free, Connection
  <2> QED BY <1>3, <2>1, <2>2, <2>3, <2>4, <2>5 DEF Gateway
<1>4. ASSUME Restart PROVE ByeIsLate'
  BY <1>4 DEF Restart, Free
<1>5. ASSUME NEW t \in Tabs, Browser(t), ~Connect(t) PROVE UNCHANGED conn
  BY <1>5 DEF Browser, Open, refreshUser, login, handleVisibilityChange, resetTimer,
     TabAwayTimeout, handleIdle, logout, handleBeforeUnload, Drop, server
<1>6. ASSUME NEW r \in flight, updateStatus(r) PROVE UNCHANGED conn
  BY <1>6 DEF updateStatus
<1>7. ASSUME UNCHANGED vars PROVE UNCHANGED conn
  BY <1>7 DEF vars
<1> QED BY <1>1, <1>2, <1>3, <1>4, <1>5, <1>6, <1>7 DEF Next

\* Acts and faults are counted up to their bounds.
LEMMA BoundStep ==
  ASSUME Bounded, [Next]_vars
  PROVE  Bounded'
<1> USE PresenceAssumption DEF Bounded
<1>1. Act \/ Fault \/ Steps => Bounded'
  BY DEF Act, Fault, Steps
<1>2. ASSUME NEW t \in Tabs, refreshUser(t) PROVE Bounded'
  BY <1>2 DEF refreshUser
<1>3. ASSUME NEW t \in Tabs, Browser(t), ~refreshUser(t) PROVE Bounded'
  BY <1>1, <1>3 DEF Browser, Open, login, handleVisibilityChange, resetTimer,
     TabAwayTimeout, handleIdle, logout, handleBeforeUnload, Connect, Drop
<1>4. ASSUME NEW r \in flight, updateStatus(r) PROVE Bounded'
  BY <1>1, <1>4 DEF updateStatus, WriteFails
<1>5. ASSUME NEW s \in Sockets, Gateway(s) PROVE Bounded'
  BY <1>1, <1>5 DEF Gateway, VerifyToken, WriteOnline, handleDisconnect, WriteOffline,
     Release, WriteFails
<1>6. ASSUME Restart PROVE Bounded'
  BY <1>1, <1>6 DEF Restart
<1>7. ASSUME UNCHANGED vars PROVE Bounded'
  BY <1>7 DEF vars
<1> QED BY <1>2, <1>3, <1>4, <1>5, <1>6, <1>7 DEF Next

\* A connection never goes without a write: what was open, closes through
\* handleDisconnect, and what was not verified yet, is.
LEMMA ConnectionStep ==
  ASSUME Inv, [Next]_vars
  PROVE  OnlineHasConnection'
<1> DEFINE Reason(s) == Live(s) \/ conn[s].bye \/ conn[s].pc \in {"verify", "write"}
<1> USE DEF Inv, Shape
<1>1. ASSUME UNCHANGED server PROVE OnlineHasConnection'
  BY <1>1 DEF server, OnlineHasConnection, Live
<1>2. ASSUME NEW t \in Tabs, Connect(t) PROVE OnlineHasConnection'
  <2>1. PICK s \in Sockets : conn[s] = Free
    BY <1>2 DEF Connect
  <2> DEFINE n == CHOOSE x \in Sockets : conn[x] = Free
  <2>2. n \in Sockets
    BY <2>1
  <2>3. conn' = [conn EXCEPT ![n] = [pc |-> "verify", live |-> TRUE, bye |-> FALSE]]
    BY <1>2 DEF Connect
  <2>4. conn'[n].pc = "verify"
    BY <2>2, <2>3
  <2> QED BY <2>2, <2>4 DEF OnlineHasConnection
<1>3. ASSUME NEW r \in flight, updateStatus(r) PROVE OnlineHasConnection'
  BY <1>3 DEF updateStatus, Write, Outdated, WriteFails, OnlineHasConnection, Live
<1>4. ASSUME NEW s \in Sockets, VerifyToken(s) \/ handleDisconnect(s) \/ Release(s)
      PROVE  OnlineHasConnection'
  <2>1. online' = online /\ stale' = stale
    BY <1>4 DEF VerifyToken, handleDisconnect, Release
  <2>2. ASSUME NEW x \in Sockets, Reason(x) PROVE Reason(x)'
    BY <1>4, <2>2 DEF VerifyToken, handleDisconnect, Release, Live, Connection, Free
  <2> QED BY <2>1, <2>2 DEF OnlineHasConnection
<1>5. ASSUME NEW s \in Sockets, WriteOnline(s) PROVE OnlineHasConnection'
  <2>1. CASE WriteFails
    BY <2>1 DEF WriteFails, OnlineHasConnection
  <2>2. CASE Write(TRUE, {}) /\ conn' = [conn EXCEPT ![s].pc = "done"]
    <3>1. ASSUME NEW x \in Sockets, Live(x) PROVE Live(x)'
      BY <2>2, <3>1 DEF Live, Connection
    <3> QED BY <2>2, <3>1 DEF Write, Outdated, OnlineHasConnection
  <2> QED BY <1>5, <2>1, <2>2 DEF WriteOnline
<1>6. ASSUME NEW s \in Sockets, WriteOffline(s) PROVE OnlineHasConnection'
  BY <1>6 DEF WriteOffline, Write, WriteFails, OnlineHasConnection
<1>7. ASSUME Restart PROVE OnlineHasConnection'
  BY <1>7 DEF Restart, OnlineHasConnection
<1>8. ASSUME NEW t \in Tabs, Browser(t), ~Connect(t) PROVE UNCHANGED server
  BY <1>8 DEF Browser, Open, refreshUser, login, handleVisibilityChange, resetTimer,
     TabAwayTimeout, handleIdle, logout, handleBeforeUnload, Drop
<1>9. ASSUME UNCHANGED vars PROVE UNCHANGED server
  BY <1>9 DEF vars, server
<1> QED
  BY <1>1, <1>2, <1>3, <1>4, <1>5, <1>6, <1>7, <1>8, <1>9 DEF Next, Gateway

\* A tab the user looks at reports itself until the flag says so: the socket
\* writes, the return to the tab is told, or the tab is on its way out.
LEMMA ReportStep ==
  ASSUME Inv, [Next]_vars
  PROVE  OfflineIsReported'
<1> USE DEF Inv, Shape
<1> SUFFICES ASSUME ~online', ~stale', NEW u \in Tabs, Present(u)'
             PROVE  Reporting(u)'
    BY DEF OfflineIsReported
<1>0. tab' \in [Tabs -> Tab] /\ conn' \in [Sockets -> Connection] /\ tab'[u].conn \in Sockets
  BY ShapeStep, PresenceAssumption DEF Present, Tab, Live
\* What was so before.
<1>1. ASSUME UNCHANGED <<online, stale>>, Present(u) PROVE Reporting(u)
  BY <1>1 DEF OfflineIsReported
<1>2. ASSUME NEW t \in Tabs, Open(t) \/ resetTimer(t) \/ Drop(t) PROVE Reporting(u)'
  <2>1. tab'[u].page = "in" => tab[u].page = "in" /\ tab[u].hidden = tab'[u].hidden
    BY <1>2 DEF Open, resetTimer, Drop, Tab
  <2>2. tab'[u].conn # NoSocket => tab'[u].conn = tab[u].conn
    BY <1>2 DEF Open, resetTimer, Drop, Tab
  <2>3. UNCHANGED <<online, stale, conn, flight>>
    BY <1>2 DEF Open, resetTimer, Drop, server
  <2> QED BY <1>1, <2>1, <2>2, <2>3 DEF Present, Reporting, Live, In
<1>3. ASSUME NEW t \in Tabs, refreshUser(t) \/ login(t) PROVE Reporting(u)'
  <2>1. tab'[u].page = "in" /\ tab'[u].conn # NoSocket => tab'[u] = tab[u]
    BY <1>3 DEF refreshUser, login, SignedIn, SignedOut, Tab
  <2>2. UNCHANGED <<online, stale, conn>> /\ flight \subseteq flight'
    BY <1>3 DEF refreshUser, login, server
  <2> QED BY <1>1, <2>1, <2>2 DEF Present, Reporting, Live, In
<1>4. ASSUME NEW t \in Tabs, handleVisibilityChange(t) PROVE Reporting(u)'
  <2>1. UNCHANGED <<online, stale, conn>> /\ flight \subseteq flight'
    BY <1>4 DEF handleVisibilityChange, server
  <2>2. tab'[u].page = tab[u].page /\ tab'[u].conn = tab[u].conn
    <3>1. \/ tab' = [tab EXCEPT ![t].hidden = TRUE, ![t].away = TRUE]
          \/ tab' = [tab EXCEPT ![t] = [@ EXCEPT !.hidden = FALSE, !.away = FALSE, !.idle = TRUE]]
      BY <1>4 DEF handleVisibilityChange
    <3>2. tab[u] \in Tab /\ tab[t] \in Tab
      OBVIOUS
    <3>3. CASE u # t
      BY <3>1, <3>3
    <3>4. CASE u = t
      <4>1. \/ tab'[u] = [tab[u] EXCEPT !.hidden = TRUE, !.away = TRUE]
            \/ tab'[u] = [tab[u] EXCEPT !.hidden = FALSE, !.away = FALSE, !.idle = TRUE]
        BY <3>1, <3>4 DEF Tab
      <4> QED BY <3>2, <4>1 DEF Tab
    <3> QED BY <3>3, <3>4
  <2>3. CASE tab[u].hidden
    <3>1. u = t /\ flight' = flight \union {Call(t, "visible", token)}
      BY <1>4, <2>3 DEF handleVisibilityChange, Present, Tab
    <3>2. Call(t, "visible", token).tab = t /\ Call(t, "visible", token).kind = "visible"
      BY DEF Call
    <3>3. PICK told \in flight' : told.tab = u /\ told.kind = "visible"
      BY <3>1, <3>2
    <3>4. \E r \in flight' : r.tab = u /\ r.kind = "visible"
      BY <3>3
    <3> QED BY <3>4, Zenon DEF Reporting
  <2>4. CASE ~tab[u].hidden
    BY <1>1, <2>1, <2>2, <2>4 DEF Present, Reporting, Live, In
  <2> QED BY <2>3, <2>4
<1>5. ASSUME NEW t \in Tabs, TabAwayTimeout(t) \/ handleIdle(t) \/ logout(t)
      PROVE  Reporting(u)'
  <2>1. UNCHANGED <<online, stale, conn>> /\ flight \subseteq flight'
    BY <1>5 DEF TabAwayTimeout, handleIdle, logout, server
  <2>2. tab'[u].page = tab[u].page /\ tab'[u].conn = tab[u].conn
        /\ tab'[u].hidden = tab[u].hidden
    BY <1>5 DEF TabAwayTimeout, handleIdle, logout, Tab
  <2> QED BY <1>1, <2>1, <2>2 DEF Present, Reporting, Live, In
<1>6. ASSUME NEW t \in Tabs, handleBeforeUnload(t) PROVE Reporting(u)'
  <2>1. u # t /\ tab'[u] = tab[u] /\ UNCHANGED <<online, stale, conn>>
    BY <1>6 DEF handleBeforeUnload, Closed, Present, In, server
  <2> DEFINE orphans == {IF r.tab = t THEN [r EXCEPT !.awaited = FALSE] ELSE r : r \in flight}
  <2>2. orphans \subseteq flight'
    BY <1>6 DEF handleBeforeUnload
  <2>3. ASSUME NEW r \in flight, r.tab = u PROVE r \in flight'
    BY <2>1, <2>2, <2>3
  <2>4. Reporting(u)
    BY <1>1, <2>1 DEF Present, Live, In
  <2> QED BY <2>1, <2>3, <2>4 DEF Reporting
<1>7. ASSUME NEW t \in Tabs, Connect(t) PROVE Reporting(u)'
  <2>1. PICK s \in Sockets : /\ tab' = [tab EXCEPT ![t].conn = s]
                             /\ conn' = [conn EXCEPT ![s] =
                                  [pc |-> "verify", live |-> TRUE, bye |-> FALSE]]
    BY <1>7 DEF Connect
  <2>2. UNCHANGED <<online, stale, flight>>
    BY <1>7 DEF Connect
  <2>3. CASE tab'[u].conn = s
    BY <2>1, <2>3 DEF Reporting
  <2>4. CASE tab'[u].conn # s
    <3>1. tab'[u] = tab[u] /\ conn'[tab[u].conn] = conn[tab[u].conn]
      BY <2>1, <2>4, <1>0 DEF Tab
    <3> QED BY <1>1, <2>2, <3>1 DEF Present, Reporting, Live, In
  <2> QED BY <2>3, <2>4
<1>8. ASSUME NEW r \in flight, updateStatus(r) PROVE Reporting(u)'
  <2>0. r.tab \in Tabs /\ r.kind \in Kinds /\ r.auth \in BOOLEAN /\ r.awaited \in BOOLEAN
    BY DEF Request
  <2>1. conn' = conn
    BY <1>8 DEF updateStatus
  <2>2. tab'[u] = tab[u] /\ ~(r.tab = u /\ r.awaited /\ r.kind = "logout")
    BY <1>8, <2>0 DEF updateStatus, Continue, SignedOut, Present, In, Tab
  <2>3. Present(u)
    BY <2>1, <2>2 DEF Present, Live, In
  <2>4. r.awaited /\ r.kind = "idle" => Call(r.tab, "logout", token) \in flight'
    BY <1>8 DEF updateStatus, Continue
  <2>5. flight \ {r} \subseteq flight'
    BY <1>8 DEF updateStatus, Continue
  <2>6. CASE r.tab = u /\ r.awaited /\ r.kind = "idle"
    BY <2>4, <2>6 DEF Reporting, Call
  <2>7. CASE ~(r.tab = u /\ r.awaited /\ r.kind = "idle")
    <3>1. r.auth /\ Write(On(r.kind), IF r.awaited /\ r.kind \in {"idle", "logout"}
                                       THEN {r.tab} ELSE {})
          => FALSE
      <4>1. ~(r.awaited /\ r.kind \in {"idle", "logout"} /\ r.tab = u)
        BY <2>2, <2>7
      <4> QED BY <4>1, <2>3 DEF Write, Outdated
    <3>2. ~r.auth /\ stale' = (stale \/ On(r.kind)) /\ online' = online
      BY <1>8, <3>1 DEF updateStatus, WriteFails
    <3>3. ~stale /\ ~online /\ r.kind # "visible"
      BY <3>2 DEF On
    <3>4. Reporting(u)
      BY <2>3, <3>3 DEF OfflineIsReported
    <3> QED BY <2>1, <2>2, <2>5, <2>7, <3>3, <3>4 DEF Reporting
  <2> QED BY <2>6, <2>7
<1>9. ASSUME NEW s \in Sockets, VerifyToken(s) \/ handleDisconnect(s) \/ Release(s)
      PROVE  Reporting(u)'
  <2>1. UNCHANGED <<online, stale, tab, flight>>
    BY <1>9 DEF VerifyToken, handleDisconnect, Release
  <2>2. Live(tab[u].conn)
    BY <1>9, <1>0, <2>1 DEF VerifyToken, handleDisconnect, Release, Live, Present, Connection, Free
  <2>3. conn[tab[u].conn].pc \in {"verify", "write"} => conn'[tab[u].conn].pc \in {"verify", "write"}
    BY <1>9, <1>0, <2>1, <2>2 DEF VerifyToken, handleDisconnect, Release, Connection, Live
  <2> QED BY <1>1, <2>1, <2>2, <2>3 DEF Present, Reporting, In
<1>10. ASSUME NEW s \in Sockets, WriteOnline(s) PROVE Reporting(u)'
  BY <1>10 DEF WriteOnline, Write, WriteFails
<1>11. ASSUME NEW s \in Sockets, WriteOffline(s) PROVE Reporting(u)'
  <2>1. Write(FALSE, {}) /\ UNCHANGED <<tab, flight>> /\ conn' = [conn EXCEPT ![s].bye = FALSE]
    BY <1>11 DEF WriteOffline, WriteFails
  <2>2. Present(u)
    BY <2>1, <1>0 DEF Present, Live, In, Connection
  <2> QED BY <2>1, <2>2 DEF Write, Outdated
<1>12. ASSUME Restart PROVE Reporting(u)'
  BY <1>12 DEF Restart
<1>13. ASSUME UNCHANGED vars PROVE Reporting(u)'
  BY <1>13, <1>1 DEF vars, Present, Reporting, Live, In
<1> QED
  BY <1>2, <1>3, <1>4, <1>5, <1>6, <1>7, <1>8, <1>9, <1>10, <1>11, <1>12, <1>13
  DEF Next, Browser, Gateway

\* In every reachable state an online user has a reason to be so, and an offline
\* one who looks at a tab is about to be reported.
THEOREM PresenceInvariant == Spec => []Inv
<1>1. Inv /\ [Next]_vars => Inv'
  BY ShapeStep, ConnectionStep, ReportStep DEF Inv
<1> QED BY InitInv, <1>1, PTL DEF Spec

\* Tabs, requests and sockets have their types, and a socket reports its end only
\* after it was verified and closed.
THEOREM TypeCorrect == Spec => []TypeOK
<1> DEFINE All == Shape /\ ByeIsLate /\ Bounded
<1>1. Init => All
  <2>1. Init => ByeIsLate /\ Bounded
    BY PresenceAssumption DEF Init, ByeIsLate, Bounded, Free
  <2> QED BY <2>1, InitInv DEF Inv
<1>2. All /\ [Next]_vars => All'
  BY ShapeStep, CloseStep, BoundStep
<1>3. All => TypeOK
  BY DEF Shape, ByeIsLate, Bounded, TypeOK
<1> QED BY <1>1, <1>2, <1>3, PTL DEF Spec

\* Whoever has no connection is shown online only after a write that was out of
\* date or failed (handleConnection, handleDisconnect, updateStatus).
THEOREM GhostTheorem == Spec => []GhostIsExplained
<1>1. Inv => GhostIsExplained
  BY DEF Inv, Shape, OnlineHasConnection, GhostIsExplained, Settled
<1> QED BY PresenceInvariant, <1>1, PTL

\* Whoever looks at a connected tab is shown offline only after such a write, or
\* one that was refused.
THEOREM AbsenceTheorem == Spec => []AbsenceIsExplained
<1>1. Inv => AbsenceIsExplained
  <2> SUFFICES ASSUME Inv, Settled, ~online, NEW t \in Tabs, Present(t), ~stale
               PROVE  FALSE
      BY DEF AbsenceIsExplained, Inv, Shape
  <2>1. Reporting(t)
    BY DEF Inv, OfflineIsReported
  <2>2. tab[t].conn \in Sockets
    BY PresenceAssumption DEF Inv, Shape, Tab, Present
  <2> QED BY <2>1, <2>2 DEF Reporting, Settled
<1> QED BY PresenceInvariant, <1>1, PTL
=============================================================================
