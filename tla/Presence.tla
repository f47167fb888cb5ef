------------------------------ MODULE Presence ------------------------------
(***************************************************************************)
(* Whether one member of the staff is online: the browser tabs of          *)
(* AuthContext.tsx and SocketProvider.tsx, the status requests and sockets *)
(* they open, and the isOnline flag socket.gateway.ts and auth.service.ts  *)
(* write.  Requests are answered and connections noticed in any order.     *)
(***************************************************************************)
EXTENDS Integers, FiniteSets

CONSTANTS
  Tabs,       \* the tabs of one browser
  FirstTab,   \* the one that is open
  Sockets,    \* bound: server-side sockets at a time
  NoSocket,
  MaxActs,    \* bound: things the user does
  MaxFaults,  \* bound: restarts, dropped connections, failed writes
  MaxFlight   \* bound: requests of a tab under way at a time

ASSUME PresenceAssumption ==
  /\ FirstTab \in Tabs
  /\ NoSocket \notin Sockets
  /\ MaxActs \in Nat /\ MaxFaults \in Nat /\ MaxFlight \in Nat

VARIABLES
  token,   \* localStorage holds a token
  tab,     \* per tab: the page, and the socket its SocketProvider keeps
  flight,  \* requests on their way to the server
  conn,    \* the server's sockets
  online,  \* User.isOnline
  stale,   \* history: the last write of isOnline was out of date, failed or
           \* was refused
  acts, faults

vars == <<token, tab, flight, conn, online, stale, acts, faults>>

Kinds == {"login", "visible", "away", "unload", "idle", "logout"}
Tab ==
  [page : {"closed", "loading", "out", "in"}, hidden : BOOLEAN,
   idle : BOOLEAN, away : BOOLEAN,   \* timers that run
   sock : BOOLEAN,                   \* a socket that (re)connects exists
   conn : Sockets \union {NoSocket}]
Request == [tab : Tabs, kind : Kinds, auth : BOOLEAN, awaited : BOOLEAN]
Connection ==
  [pc : {"free", "verify", "write", "done"},
   live : BOOLEAN,                   \* the server has not seen it close
   bye : BOOLEAN]                    \* handleDisconnect is about to write

Closed == [page |-> "closed", hidden |-> FALSE, idle |-> FALSE, away |-> FALSE,
           sock |-> FALSE, conn |-> NoSocket]
Free == [pc |-> "free", live |-> FALSE, bye |-> FALSE]

\* Mutant of SignedIn: the first timer waits for a mouse move.
SignedInUntimed(r) == [r EXCEPT !.page = "in", !.idle = FALSE, !.away = FALSE,
                                !.sock = TRUE, !.conn = NoSocket]

\* setUser(user): both providers' effects start again, so the timers and the
\* socket are new.
SignedIn(r) == [r EXCEPT !.page = "in", !.idle = TRUE, !.away = FALSE,
                         !.sock = TRUE, !.conn = NoSocket]

\* setUser(null)
SignedOut(r) == [r EXCEPT !.page = "out", !.idle = FALSE, !.away = FALSE,
                          !.sock = FALSE, !.conn = NoSocket]

\* One tab shows the login page.  Every row starts with isOnline, whether or not
\* its user ever signed in.
Init ==
  /\ token = FALSE
  /\ tab = [t \in Tabs |-> IF t = FirstTab THEN SignedOut(Closed) ELSE Closed]
  /\ flight = {}
  /\ conn = [s \in Sockets |-> Free]
  /\ online = TRUE
  /\ stale = TRUE
  /\ acts = 0
  /\ faults = 0

\* A socket that is about to report its end was verified and is not open any more.
TypeOK ==
  /\ token \in BOOLEAN
  /\ tab \in [Tabs -> Tab]
  /\ flight \subseteq Request
  /\ conn \in [Sockets -> Connection]
  /\ \A s \in Sockets : conn[s].bye => conn[s].pc \in {"write", "done"} /\ ~conn[s].live
  /\ online \in BOOLEAN /\ stale \in BOOLEAN
  /\ acts \in 0..MaxActs /\ faults \in 0..MaxFaults

In(t) == tab[t].page = "in"
On(kind) == kind \in {"login", "visible"}
\* api.request reads the token when it is called.
Call(t, kind, auth) == [tab |-> t, kind |-> kind, auth |-> auth, awaited |-> TRUE]
Room(t) == Cardinality({r \in flight : r.tab = t}) < MaxFlight

Act == acts < MaxActs /\ acts' = acts + 1 /\ UNCHANGED faults
Fault == faults < MaxFaults /\ faults' = faults + 1 /\ UNCHANGED acts
Steps == UNCHANGED <<acts, faults>>
server == <<conn, online, stale>>
-----------------------------------------------------------------------------
(***************************************************************************)
(* The browser                                                             *)
(***************************************************************************)
\* The provider of a new page looks for a token.
Open(t) ==
  /\ Act
  /\ tab[t].page = "closed"
  /\ tab' = [tab EXCEPT ![t].page = IF token THEN "loading" ELSE "out"]
  /\ UNCHANGED <<token, flight, server>>

\* refreshUser, at the start and after the profile was saved: any error, also
\* one of the network, throws the token away.
refreshUser(t) ==
  /\ \/ tab[t].page = "loading" /\ UNCHANGED acts
     \/ In(t) /\ acts < MaxActs /\ acts' = acts + 1
  /\ \/ /\ token
        /\ tab' = [tab EXCEPT ![t] = SignedIn(@)]
        /\ UNCHANGED <<token, faults>>
     \/ /\ ~token \/ faults < MaxFaults
        /\ faults' = IF token THEN faults + 1 ELSE faults
        /\ token' = FALSE
        /\ tab' = [tab EXCEPT ![t] = SignedOut(@)]
  /\ UNCHANGED <<flight, server>>

\* login tells the server at once; register and the Google callback, which loads
\* the page anew, do not.
login(t) ==
  /\ Act
  /\ tab[t].page = "out"
  /\ Room(t)
  /\ token' = TRUE
  /\ \/ /\ tab' = [tab EXCEPT ![t] = SignedIn(@)]
        /\ flight' \in {flight, flight \union {Call(t, "login", TRUE)}}
     \/ /\ tab' = [tab EXCEPT ![t].page = "loading"]
        /\ UNCHANGED flight
  /\ UNCHANGED server

\* Mutant of handleVisibilityChange: coming back only stops the countdown.
ComeBackQuietly(t) ==
  /\ Act
  /\ In(t)
  /\ tab' = [tab EXCEPT ![t].hidden = ~@, ![t].away = ~tab[t].hidden]
  /\ UNCHANGED <<token, flight, server>>

\* Hiding a tab starts the countdown of 90 seconds; showing it stops it and
\* reports the user back.
handleVisibilityChange(t) ==
  /\ Act
  /\ In(t)
  /\ \/ /\ ~tab[t].hidden
        /\ tab' = [tab EXCEPT ![t].hidden = TRUE, ![t].away = TRUE]
        /\ UNCHANGED flight
     \/ /\ tab[t].hidden
        /\ Room(t)
        /\ tab' = [tab EXCEPT ![t] = [@ EXCEPT !.hidden = FALSE, !.away = FALSE, !.idle = TRUE]]
        /\ flight' = flight \union {Call(t, "visible", token)}
  /\ UNCHANGED <<token, server>>

\* A mouse move or key starts the 15 minutes again.
resetTimer(t) ==
  /\ Act
  /\ In(t) /\ ~tab[t].idle
  /\ tab' = [tab EXCEPT ![t].idle = TRUE]
  /\ UNCHANGED <<token, flight, server>>

TabAwayTimeout(t) ==
  /\ tab[t].away
  /\ Room(t)
  /\ tab' = [tab EXCEPT ![t].away = FALSE]
  /\ flight' = flight \union {Call(t, "away", token)}
  /\ Steps /\ UNCHANGED <<token, server>>

\* handleIdle reports, waits, and calls logout, which reports and waits again.
handleIdle(t) ==
  /\ tab[t].idle
  /\ Room(t)
  /\ tab' = [tab EXCEPT ![t].idle = FALSE]
  /\ flight' = flight \union {Call(t, "idle", token)}
  /\ Steps /\ UNCHANGED <<token, server>>

logout(t) ==
  /\ Act
  /\ In(t)
  /\ Room(t)
  /\ flight' = flight \union {Call(t, "logout", token)}
  /\ UNCHANGED <<token, tab, server>>

\* Closing or reloading a page: nobody waits for its requests any more, and the
\* one handleBeforeUnload sends may not get out.
handleBeforeUnload(t) ==
  /\ Act
  /\ tab[t].page # "closed"
  /\ LET orphans == {IF r.tab = t THEN [r EXCEPT !.awaited = FALSE] ELSE r : r \in flight}
         last == [Call(t, "unload", token) EXCEPT !.awaited = FALSE]
     IN  flight' \in {orphans, IF In(t) /\ Room(t) THEN orphans \union {last} ELSE orphans}
  /\ tab' = [tab EXCEPT ![t] = Closed]
  /\ UNCHANGED <<token, server>>
-----------------------------------------------------------------------------
(***************************************************************************)
(* Writes of isOnline                                                      *)
(***************************************************************************)
Live(s) == conn[s].pc # "free" /\ conn[s].live
\* The user looks at a tab that is connected.
Present(t) == In(t) /\ ~tab[t].hidden /\ tab[t].conn # NoSocket /\ Live(tab[t].conn)

\* A write says what is no longer, or not yet, so.
Outdated(on, leaving) ==
  IF on THEN \A s \in Sockets : ~Live(s)
        ELSE \E t \in Tabs \ leaving : Present(t)
Write(on, leaving) == online' = on /\ stale' = Outdated(on, leaving)
WriteFails == Fault /\ stale' = TRUE /\ UNCHANGED online

\* What the browser does when the answer, or an error, comes: both are ignored.
Continue(r) ==
  /\ flight' = (flight \ {r}) \union
       (IF r.awaited /\ r.kind = "idle" THEN {Call(r.tab, "logout", token)} ELSE {})
  /\ IF r.awaited /\ r.kind = "logout"
       THEN token' = FALSE /\ tab' = [tab EXCEPT ![r.tab] = SignedOut(@)]
       ELSE UNCHANGED <<token, tab>>

\* updateStatus.  Without a token, which another tab may have thrown away, the
\* request is refused, and a user who came back is not reported.
updateStatus(r) ==
  /\ \/ /\ r.auth
        /\ Write(On(r.kind), IF r.awaited /\ r.kind \in {"idle", "logout"}
                               THEN {r.tab} ELSE {})
        /\ Steps
     \/ ~r.auth /\ stale' = (stale \/ On(r.kind)) /\ Steps /\ UNCHANGED online
     \/ WriteFails
  /\ Continue(r)
  /\ UNCHANGED conn
-----------------------------------------------------------------------------
(***************************************************************************)
(* Sockets                                                                 *)
(***************************************************************************)
\* Free sockets are all alike: any of them will do.
Connect(t) ==
  LET s == CHOOSE s \in Sockets : conn[s] = Free
  IN  /\ tab[t].sock /\ tab[t].conn = NoSocket
      /\ \E free \in Sockets : conn[free] = Free
      /\ conn' = [conn EXCEPT ![s] = [pc |-> "verify", live |-> TRUE, bye |-> FALSE]]
      /\ tab' = [tab EXCEPT ![t].conn = s]
      /\ Steps /\ UNCHANGED <<token, flight, online, stale>>

\* handleConnection, up to the token, and its write.
VerifyToken(s) ==
  /\ conn[s].pc = "verify"
  /\ conn' = [conn EXCEPT ![s].pc = "write"]
  /\ Steps /\ UNCHANGED <<token, tab, flight, online, stale>>

\* When the write fails the server closes the socket, and a client closed by
\* the server does not connect again.
WriteOnline(s) ==
  /\ conn[s].pc = "write"
  /\ \/ /\ Write(TRUE, {})
        /\ conn' = [conn EXCEPT ![s].pc = "done"]
        /\ Steps /\ UNCHANGED tab
     \/ /\ WriteFails
        /\ conn' = [conn EXCEPT ![s].pc = "done", ![s].live = FALSE,
                                ![s].bye = @ \/ conn[s].live]
        /\ tab' = [t \in Tabs |-> IF tab[t].conn = s
                     THEN [tab[t] EXCEPT !.conn = NoSocket, !.sock = FALSE] ELSE tab[t]]
  /\ UNCHANGED <<token, flight>>

\* Mutant of handleDisconnect: the status is left to the browser.
DisconnectQuietly(s) ==
  /\ Live(s) /\ \A t \in Tabs : tab[t].conn # s
  /\ conn' = [conn EXCEPT ![s].live = FALSE]
  /\ Steps /\ UNCHANGED <<token, tab, flight, online, stale>>

\* The server sees that the client is gone, at once or much later.  Before the
\* token is verified the socket has no user and nothing is written.
handleDisconnect(s) ==
  /\ Live(s) /\ \A t \in Tabs : tab[t].conn # s
  /\ conn' = [conn EXCEPT ![s].live = FALSE, ![s].bye = conn[s].pc # "verify"]
  /\ Steps /\ UNCHANGED <<token, tab, flight, online, stale>>

WriteOffline(s) ==
  /\ conn[s].bye
  /\ conn' = [conn EXCEPT ![s].bye = FALSE]
  /\ \/ Write(FALSE, {}) /\ Steps
     \/ WriteFails
  /\ UNCHANGED <<token, tab, flight>>

\* Nothing of a socket that closed is left.
Release(s) ==
  /\ conn[s].pc = "done" /\ ~conn[s].live /\ ~conn[s].bye
  /\ conn' = [conn EXCEPT ![s] = Free]
  /\ Steps /\ UNCHANGED <<token, tab, flight, online, stale>>

\* The connection breaks: the client notices first.
Drop(t) ==
  /\ Fault
  /\ tab[t].conn # NoSocket
  /\ tab' = [tab EXCEPT ![t].conn = NoSocket]
  /\ UNCHANGED <<token, flight, server>>

\* The server restarts: its sockets are gone and nobody wrote anything.
Restart ==
  /\ Fault
  /\ conn' = [s \in Sockets |-> Free]
  /\ tab' = [t \in Tabs |-> [tab[t] EXCEPT !.conn = NoSocket]]
  /\ stale' = TRUE
  /\ UNCHANGED <<token, flight, online>>

Browser(t) ==
  \/ Open(t) \/ refreshUser(t) \/ login(t) \/ handleVisibilityChange(t)
  \/ resetTimer(t) \/ TabAwayTimeout(t) \/ handleIdle(t) \/ logout(t)
  \/ handleBeforeUnload(t) \/ Connect(t) \/ Drop(t)

Gateway(s) ==
  VerifyToken(s) \/ WriteOnline(s) \/ handleDisconnect(s) \/ WriteOffline(s) \/ Release(s)

Next ==
  \/ \E t \in Tabs : Browser(t)
  \/ \E r \in flight : updateStatus(r)
  \/ \E s \in Sockets : Gateway(s)
  \/ Restart

\* The idle timer fires, requests are answered or fail, and a page that loads
\* hears of its user.
Answer(t) == \E r \in flight : r.tab = t /\ updateStatus(r)
Fairness ==
  /\ \A t \in Tabs : WF_vars(handleIdle(t))
  /\ \A t \in Tabs : WF_vars(tab[t].page = "loading" /\ refreshUser(t))
  /\ \A t \in Tabs : WF_vars(Answer(t))

Spec == Init /\ [][Next]_vars /\ Fairness
-----------------------------------------------------------------------------
(***************************************************************************)
(* Properties                                                              *)
(***************************************************************************)
\* Nothing that will write isOnline is under way.
Settled ==
  /\ flight = {}
  /\ \A s \in Sockets : ~conn[s].bye /\ conn[s].pc \in {"free", "done"}

\* A user without any connection is shown online only when the last write was
\* out of date as it was made, or failed, or a restart or the default of a new
\* row left the flag: every connection that ends is followed by a write.
GhostIsExplained ==
  Settled /\ online /\ (\A s \in Sockets : ~Live(s)) => stale

\* A user who looks at a connected tab is shown offline, and so is assigned no
\* conversation, only when the last write was already wrong as it was made, or
\* never made: every way back to the tab is followed by a write.
AbsenceIsExplained ==
  Settled /\ ~online /\ (\E t \in Tabs : Present(t)) => stale

\* "Auto-logout after 15 minutes of inactivity": once the user does nothing any
\* more, every tab is signed out for good, whatever happens to its requests.
IdleIsSignedOut == <>[](\A t \in Tabs : ~In(t))
=============================================================================
