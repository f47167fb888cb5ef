------------------------------ MODULE StaffProofs ------------------------------
(***************************************************************************)
(* What the members of staff may do and what their list shows.  First      *)
(* rights, led organizations and the staff page, for any number of         *)
(* organizations, users, browsers and requests; then the list of           *)
(* conversations, for any number of changes, requests and lost events.     *)
(***************************************************************************)
EXTENDS Accounts, InboxList, SequenceTheorems, TLAPS

\* The foreign key and the unique key of the tables.
Tables ==
  /\ org \in [Orgs -> {"free", "new", "onboarded", "deleted"}]
  /\ user \in [Users -> Member \union {NoMember}]
  /\ \A u \in Rows : Exists(user[u].org)
  /\ \A u, v \in Rows : user[u].org = user[v].org /\ user[u].email = user[v].email => u = v

\* Who has a token, or is about to get one, knows his row or does not know that it
\* changed; who is about to found an organization found his address free.
Signing(r, table) ==
  /\ r.pc = "out" => r = SignedOut
  /\ r.pc = "found" =>
       /\ r.user = Null /\ r.staff = Null
       /\ r.email \in Emails /\ lower[r.email] = r.email
       /\ ~r.stale => \A u \in Users : ~Holds(table[u], r.email)
  /\ r.pc \in {"login", "google", "callback", "in"} =>
       /\ r.user \in Users /\ r.org \in Orgs /\ r.role \in Roles
       /\ ~r.stale => Rights(table[r.user]) = <<r.org, r.role, TRUE>>

\* The row a staff page edits is of its organization.
Editing(r, table) ==
  r.staff # Null =>
    /\ r.pc = "in" /\ r.staff \in Users
    /\ r.seen \in Member /\ r.seen.org = r.org
    /\ ~r.old => table[r.staff] = r.seen

Good(r, table) == r \in Browser /\ Signing(r, table) /\ Editing(r, table)

\* Some admin is open in no form: the list holds no admins, and whoever becomes
\* one through a form stays open in it until it is saved.
Leads(u, o) == u \in Rows /\ user[u].org = o /\ user[u].role = "ADMIN" /\ user[u].active
Led == \A o \in Orgs : Exists(o) =>
         \E u \in Users : Leads(u, o) /\ \A b \in Browsers : browser[b].staff # u

Inv ==
  /\ Tables
  /\ browser \in [Browsers -> Browser]
  /\ \A b \in Browsers : Good(browser[b], user)
  /\ acts \in 0..MaxActs
  /\ Led

\* Who is signed out knows nothing that could be wrong.
LEMMA SignedOutGood == ASSUME NEW table PROVE Good(SignedOut, table) /\ SignedOut.staff = Null
BY AccountsAssumption DEF Good, Browser, SignedOut, Signing, Editing

\* Nobody is registered and every browser is signed out.
LEMMA InitInv == Init => Inv
<1> SUFFICES ASSUME Init PROVE Inv
  OBVIOUS
<1>1. Rows = {} /\ \A o \in Orgs : ~Exists(o)
  BY DEF Init, Rows, NoMember, Exists
<1>2. Tables
  BY <1>1 DEF Init, Tables
<1>3. \A b \in Browsers : Good(browser[b], user)
  BY SignedOutGood DEF Init
<1> QED BY <1>1, <1>2, <1>3, AccountsAssumption DEF Inv, Init, Led, Good

\* A token made of a row that is still so.
LEMMA TokenGood ==
  ASSUME NEW table \in [Users -> Member \union {NoMember}], NEW r \in Browser,
         r.pc \in {"login", "google", "callback", "in"}, r.staff = Null,
         r.user \in Users, r.org \in Orgs, r.role \in Roles,
         ~r.stale => Rights(table[r.user]) = <<r.org, r.role, TRUE>>
  PROVE  Good(r, table)
BY DEF Good, Signing, Editing

\* What a browser knows stays good when the table changes under it.
LEMMA OutdatedGood ==
  ASSUME Inv, NEW table \in [Users -> Member \union {NoMember}], NEW b \in Browsers
  PROVE  LET r == Outdated(table)[b] IN Good(r, table) /\ r.staff = browser[b].staff
<1> DEFINE old == browser[b]
           r == Outdated(table)[b]
<1>1. old \in Browser /\ Signing(old, user) /\ Editing(old, user)
  BY DEF Inv, Good
<1>2. r = [old EXCEPT
          !.stale = \/ old.stale
                    \/ old.user # Null /\ Rights(table[old.user]) # Rights(user[old.user])
                    \/ /\ old.pc = "found"
                       /\ \E u \in Users : Holds(table[u], old.email) /\ ~Holds(user[u], old.email),
          !.old = old.old \/ (old.staff # Null /\ table[old.staff] # user[old.staff])]
  BY <1>1 DEF Outdated, Browser
<1> HIDE DEF old, r
<1>3. /\ r \in Browser
      /\ r.pc = old.pc /\ r.user = old.user /\ r.org = old.org /\ r.role = old.role
      /\ r.email = old.email /\ r.staff = old.staff /\ r.seen = old.seen
      /\ ~r.stale => /\ ~old.stale
                     /\ old.user # Null => Rights(table[old.user]) = Rights(user[old.user])
                     /\ old.pc = "found" =>
                          \A u \in Users : Holds(table[u], old.email) => Holds(user[u], old.email)
      /\ ~r.old => ~old.old /\ (old.staff # Null => table[old.staff] = user[old.staff])
  BY <1>1, <1>2 DEF Browser
<1>4. r.pc = "out" => r = SignedOut
  <2> SUFFICES ASSUME r.pc = "out" PROVE r = SignedOut
    OBVIOUS
  <2>1. old = SignedOut
    BY <1>1, <1>3 DEF Signing
  <2>2. old.user = Null /\ old.pc = "out" /\ old.staff = Null /\ ~old.stale /\ ~old.old
    BY <2>1 DEF SignedOut
  <2>3. r = [SignedOut EXCEPT !.stale = FALSE, !.old = FALSE]
    BY <1>2, <2>1, <2>2
  <2> QED BY <2>3 DEF SignedOut
<1>5. Signing(r, table)
  BY <1>1, <1>3, <1>4, AccountsAssumption DEF Signing
<1>6. Editing(r, table)
  BY <1>1, <1>3 DEF Editing
<1> QED BY <1>3, <1>5, <1>6 DEF Good, r, old

\* A step of one browser that reads the tables at most.
LEMMA BrowserOnly ==
  ASSUME Inv, UNCHANGED <<org, user>>, acts' \in 0..MaxActs,
         NEW b \in Browsers, NEW r, Good(r, user),
         browser' = [browser EXCEPT ![b] = r],
         \/ r.staff = browser[b].staff
         \/ r.staff = Null
         \/ r.staff \in Users /\ user[r.staff].role # "ADMIN"
  PROVE  Inv'
<1>1. Tables'
  BY DEF Inv, Tables, Rows, Exists
<1>2. browser' \in [Browsers -> Browser] /\ \A c \in Browsers : Good(browser'[c], user')
  BY DEF Inv, Good
<1>3. Led'
  BY AccountsAssumption DEF Inv, Led, Leads, Rows, Exists
<1> QED BY <1>1, <1>2, <1>3 DEF Inv

\* A step that changes the tables: every other browser is told, and who leads is
\* nobody a form shows.
LEMMA TableStep ==
  ASSUME Inv, Tables', acts' \in 0..MaxActs,
         browser' \in [Browsers -> Browser],
         \A b \in Browsers : \/ browser'[b] = Outdated(user')[b]
                             \/ Good(browser'[b], user') /\ browser'[b].staff = Null,
         \A o \in Orgs : Exists(o)' =>
           \E u \in Users : Leads(u, o)' /\ \A b \in Browsers : browser[b].staff # u
  PROVE  Inv'
<1>1. user' \in [Users -> Member \union {NoMember}]
  BY DEF Tables
<1>2. \A b \in Browsers : Good(browser'[b], user')
  BY <1>1, OutdatedGood
<1>3. \A b \in Browsers : browser'[b].staff \in {Null, browser[b].staff}
  BY <1>1, OutdatedGood
<1>4. Led'
  BY <1>3, AccountsAssumption DEF Led
<1> QED BY <1>2, <1>4 DEF Inv

\* A row written under its keys leaves the tables as they have to be.
LEMMA WriteRow ==
  ASSUME Tables, NEW u \in Users, NEW member \in Member,
         org' \in [Orgs -> {"free", "new", "onboarded", "deleted"}],
         \A o \in Orgs : Exists(o) => Exists(o)',
         Exists(member.org)', Unused(member.org, member.email, u),
         user' = [user EXCEPT ![u] = member]
  PROVE  Tables' /\ Rows' = Rows \union {u}
<1>1. member.org \in Orgs /\ member.org # Null
  BY AccountsAssumption DEF Member
<1>2. Rows' = Rows \union {u}
  BY <1>1 DEF Tables, Rows
<1>3. \A x \in Rows \ {u} : x \in Users /\ user'[x] = user[x] /\ user[x].org \in Orgs
  BY DEF Tables, Rows, Member, NoMember
<1>4. \A x \in Rows' : Exists(user[x].org)'
  BY <1>2, <1>3 DEF Tables, Exists
<1>5. \A x, y \in Rows' : user'[x].org = user'[y].org /\ user'[x].email = user'[y].email => x = y
  <2>1. user'[u] = member
    BY DEF Tables
  <2> QED BY <1>2, <1>3, <2>1 DEF Tables, Unused
<1> QED BY <1>2, <1>4, <1>5 DEF Tables

\* A browser that is told of a new table stays a browser.
LEMMA Told ==
  ASSUME Inv, NEW table \in [Users -> Member \union {NoMember}]
  PROVE  Outdated(table) \in [Browsers -> Browser]
BY OutdatedGood DEF Outdated, Good

\* A new organization has its founder, who is in no form.
LEMMA FoundStep ==
  ASSUME Inv, acts' \in 0..MaxActs, NEW b \in Browsers,
         NEW o \in Orgs, NEW u \in Users, NEW e \in Emails,
         NEW state \in {"new", "onboarded"}, NEW pc \in {"google", "in"},
         Found(o, u, e, state),
         browser' = [Outdated(user') EXCEPT ![b] =
                       [Token(u, Row(o, e, "ADMIN"), FALSE) EXCEPT !.pc = pc]]
  PROVE  Inv'
<1> DEFINE member == Row(o, e, "ADMIN")
<1>1. /\ member \in Member /\ member.org = o /\ member.email = e
      /\ member.role = "ADMIN" /\ member.active = TRUE
  BY DEF Row, Member, Roles
<1>2. /\ org[o] = "free" /\ Fresh(u)
      /\ org' = [org EXCEPT ![o] = state] /\ user' = [user EXCEPT ![u] = member]
  BY DEF Found
<1> HIDE DEF member
<1>3. org \in [Orgs -> {"free", "new", "onboarded", "deleted"}] /\ u \notin Rows
      /\ user \in [Users -> Member \union {NoMember}]
  BY <1>2 DEF Inv, Tables, Fresh
<1>4. org' \in [Orgs -> {"free", "new", "onboarded", "deleted"}] /\ Exists(o)'
      /\ \A x \in Orgs : Exists(x)' <=> Exists(x) \/ x = o
  BY <1>2, <1>3 DEF Exists
<1>5. Unused(o, e, u)
  BY <1>2 DEF Inv, Tables, Exists, Unused
<1>6. Tables' /\ Rows' = Rows \union {u}
  BY <1>1, <1>2, <1>4, <1>5, WriteRow DEF Inv
<1>7. user' \in [Users -> Member \union {NoMember}]
  BY <1>6 DEF Tables
<1>8. Rights(user'[u]) = <<member.org, member.role, TRUE>>
  BY <1>1, <1>2, <1>3 DEF Rights
<1>0. PICK r : r = [Token(u, member, FALSE) EXCEPT !.pc = pc]
  OBVIOUS
<1>9. Good(r, user') /\ r.staff = Null
  <2>1. /\ r \in Browser /\ r.pc = pc /\ r.user = u /\ r.org = member.org /\ r.role = member.role
        /\ r.staff = Null /\ member.org \in Orgs /\ member.role \in Roles
    <3>1. member.org \in Orgs /\ member.role \in Roles
      BY <1>1 DEF Member
    <3> QED BY <1>0, <3>1 DEF Browser, Token, SignedOut
  <2> QED BY <1>7, <1>8, <2>1, TokenGood
<1>10. r \in Browser /\ browser' = [Outdated(user') EXCEPT ![b] = r]
  BY <1>0, <1>9 DEF Good, member
<1>11. browser' \in [Browsers -> Browser] /\ browser'[b] = r
       /\ \A c \in Browsers \ {b} : browser'[c] = Outdated(user')[c]
  <2>1. Outdated(user') \in [Browsers -> Browser]
    BY <1>7, Told
  <2> QED BY <1>10, <2>1
<1>12. ASSUME NEW x \in Orgs, Exists(x)'
       PROVE  \E v \in Users : Leads(v, x)' /\ \A c \in Browsers : browser[c].staff # v
  <2>1. CASE x = o
    <3>1. Leads(u, o)'
      BY <1>1, <1>2, <1>3, <1>6 DEF Leads
    <3> QED BY <1>2, <2>1, <3>1 DEF Fresh
  <2>2. CASE x # o
    <3>1. PICK v \in Users : Leads(v, x) /\ \A c \in Browsers : browser[c].staff # v
      BY <1>4, <1>12, <2>2 DEF Inv, Led
    <3>2. v # u /\ user'[v] = user[v]
      BY <1>2, <1>3, <3>1 DEF Leads
    <3>3. Leads(v, x)'
      BY <1>6, <3>1, <3>2 DEF Leads
    <3> QED BY <3>1, <3>3
  <2> QED BY <2>1, <2>2
<1> QED BY <1>6, <1>9, <1>11, <1>12, TableStep

\* Changing the row of somebody who is in a form, or of nobody, or his address
\* alone, takes no organization its leader.
LEMMA ChangeRow ==
  ASSUME Inv, acts' \in 0..MaxActs, UNCHANGED org,
         NEW u \in Users, NEW member \in Member,
         Exists(member.org), Unused(member.org, member.email, u),
         user' = [user EXCEPT ![u] = member],
         \/ u \notin Rows
         \/ \E b \in Browsers : browser[b].staff = u
         \/ Rights(member) = Rights(user[u]),
         browser' \in [Browsers -> Browser],
         \A b \in Browsers : \/ browser'[b] = Outdated(user')[b]
                             \/ Good(browser'[b], user') /\ browser'[b].staff = Null
  PROVE  Inv'
<1>1. org \in [Orgs -> {"free", "new", "onboarded", "deleted"}]
      /\ user \in [Users -> Member \union {NoMember}]
  BY DEF Inv, Tables
<1>2. \A o : Exists(o)' <=> Exists(o)
  BY DEF Exists
<1>3. Tables' /\ Rows' = Rows \union {u}
  BY <1>1, <1>2, WriteRow DEF Inv
<1>4. ASSUME NEW o \in Orgs, Exists(o)'
      PROVE  \E v \in Users : Leads(v, o)' /\ \A b \in Browsers : browser[b].staff # v
  <2>1. PICK v \in Users : Leads(v, o) /\ \A b \in Browsers : browser[b].staff # v
    BY <1>2, <1>4 DEF Inv, Led
  <2>2. Rights(user'[v]) = Rights(user[v])
    BY <1>1, <2>1 DEF Leads
  <2>3. Leads(v, o)'
    BY <1>3, <2>1, <2>2 DEF Leads, Rights
  <2> QED BY <2>1, <2>3
<1> QED BY <1>3, <1>4, TableStep

\* An organization goes with its users: the others keep theirs.
LEMMA RemoveStep ==
  ASSUME Inv, acts' \in 0..MaxActs, NEW o \in Orgs, RemoveOrganization(o),
         browser' \in [Browsers -> Browser],
         \A b \in Browsers : \/ browser'[b] = Outdated(user')[b]
                             \/ Good(browser'[b], user') /\ browser'[b].staff = Null
  PROVE  Inv'
<1>1. org \in [Orgs -> {"free", "new", "onboarded", "deleted"}]
      /\ user \in [Users -> Member \union {NoMember}]
  BY DEF Inv, Tables
<1>2. /\ org' = [org EXCEPT ![o] = "deleted"]
      /\ \A u \in Users : user'[u] = IF user[u].org = o THEN NoMember ELSE user[u]
      /\ user' \in [Users -> Member \union {NoMember}]
  BY <1>1 DEF RemoveOrganization
<1>3. \A x \in Orgs : Exists(x)' <=> Exists(x) /\ x # o
  BY <1>1, <1>2 DEF Exists
<1>4. \A u \in Users : u \in Rows' <=> u \in Rows /\ user[u].org # o
  BY <1>1, <1>2 DEF Rows, NoMember
<1>5. \A u \in Rows' : user'[u] = user[u] /\ user[u].org \in Orgs /\ u \in Rows /\ user[u].org # o
  BY <1>1, <1>2, <1>4 DEF Rows, NoMember, Member
<1>6. \A u \in Rows' : Exists(user[u].org)'
  BY <1>3, <1>5 DEF Inv, Tables, Exists
<1>7. \A u, v \in Rows' : user'[u].org = user'[v].org /\ user'[u].email = user'[v].email => u = v
  BY <1>5 DEF Inv, Tables
<1>8. Tables'
  BY <1>1, <1>2, <1>6, <1>7 DEF Tables
<1>9. ASSUME NEW x \in Orgs, Exists(x)'
      PROVE  \E v \in Users : Leads(v, x)' /\ \A b \in Browsers : browser[b].staff # v
  <2>1. PICK v \in Users : Leads(v, x) /\ \A b \in Browsers : browser[b].staff # v
    BY <1>3, <1>9 DEF Inv, Led
  <2>2. v \in Rows' /\ user'[v] = user[v]
    BY <1>2, <1>3, <1>4, <1>9, <2>1 DEF Leads
  <2> QED BY <2>1, <2>2 DEF Leads
<1> QED BY <1>8, <1>9, TableStep

\* Signing in and out.
LEMMA SigningStep ==
  ASSUME Inv, NEW b \in Browsers,
         \/ \E e \in Emails : \/ registerAdmin(b, e) \/ loginOrRegisterWithGoogle(b, e)
                              \/ \E chosen \in Orgs \union {Null} : login(b, e, chosen)
         \/ LoginAnswer(b) \/ FoundByGoogle(b) \/ GoogleAnswer(b)
         \/ validateTokenAndNavigate(b) \/ SignOut(b)
  PROVE  Inv'
<1>1. /\ user \in [Users -> Member \union {NoMember}] /\ acts \in 0..MaxActs
      /\ browser \in [Browsers -> Browser]
      /\ browser[b] \in Browser /\ Good(browser[b], user)
      /\ \A u \in Rows : u \in Users /\ user[u] \in Member /\ user[u] # NoMember
  BY AccountsAssumption DEF Inv, Tables, Rows, NoMember
<1>2. Act => acts' \in 0..MaxActs
  BY <1>1, AccountsAssumption DEF Act
<1>3. ASSUME NEW u \in Rows, NEW pc \in {"login", "google"}, user[u].active, Act,
             UNCHANGED <<org, user>>,
             browser' = [browser EXCEPT ![b] = [Token(u, user[u], FALSE) EXCEPT !.pc = pc]]
      PROVE  Inv'
  <2>0. PICK member \in Member : member = user[u]
    BY <1>1
  <2>1. PICK r : r = [Token(u, member, FALSE) EXCEPT !.pc = pc]
    OBVIOUS
  <2>4. Rights(user[u]) = <<member.org, member.role, TRUE>>
    BY <1>1, <1>3, <2>0 DEF Rights, Member
  <2>5. user \in [Users -> Member \union {NoMember}] /\ u \in Users
        /\ pc \in {"login", "google", "callback", "in"}
    BY <1>1
  <2>2. Good(r, user) /\ r.staff = Null
    <3>1. /\ r \in Browser /\ r.pc = pc /\ r.user = u /\ r.org = member.org /\ r.role = member.role
          /\ r.staff = Null /\ member.org \in Orgs /\ member.role \in Roles
      <4>1. member.org \in Orgs /\ member.role \in Roles
        BY DEF Member
      <4> QED BY <2>1, <2>5, <4>1 DEF Browser, Token, SignedOut
    <3> QED BY <2>4, <2>5, <3>1, TokenGood
  <2>3. browser' = [browser EXCEPT ![b] = r]
    BY <1>3, <2>0, <2>1
  <2> QED BY <1>2, <1>3, <2>2, <2>3, BrowserOnly
<1>4. ASSUME NEW e \in Emails, registerAdmin(b, e) PROVE Inv'
  <2>1. PICK o \in Orgs, u \in Users :
          /\ Found(o, u, e, "onboarded")
          /\ browser' = [Outdated(user') EXCEPT ![b] = Token(u, Row(o, e, "ADMIN"), FALSE)]
    BY <1>4 DEF registerAdmin
  <2>2. Token(u, Row(o, e, "ADMIN"), FALSE) = [Token(u, Row(o, e, "ADMIN"), FALSE) EXCEPT !.pc = "in"]
    BY DEF Token, SignedOut
  <2>3. browser' = [Outdated(user') EXCEPT ![b] =
                      [Token(u, Row(o, e, "ADMIN"), FALSE) EXCEPT !.pc = "in"]]
    BY <2>1, <2>2
  <2> QED BY <1>2, <1>4, <2>1, <2>3, FoundStep DEF registerAdmin
<1>5. ASSUME NEW e \in Emails, NEW chosen \in Orgs \union {Null}, login(b, e, chosen) PROVE Inv'
  <2>1. PICK u \in ActiveWith(e, chosen) :
          browser' = [browser EXCEPT ![b] = [Token(u, user[u], FALSE) EXCEPT !.pc = "login"]]
    BY <1>5 DEF login
  <2> QED BY <1>3, <1>5, <2>1 DEF login, ActiveWith
<1>6. ASSUME NEW e \in Emails, loginOrRegisterWithGoogle(b, e) PROVE Inv'
  <2>1. CASE \E u \in ActiveWith(lower[e], Null) :
          browser' = [browser EXCEPT ![b] = [Token(u, user[u], FALSE) EXCEPT !.pc = "google"]]
    BY <1>3, <1>6, <2>1 DEF loginOrRegisterWithGoogle, ActiveWith
  <2>2. CASE /\ ActiveWith(lower[e], Null) = {}
             /\ browser' = [browser EXCEPT ![b].pc = "found", ![b].email = lower[e]]
    <3> DEFINE r == [browser[b] EXCEPT !.pc = "found", !.email = lower[e]]
    <3>1. browser[b].pc = "out" /\ browser[b] = SignedOut
      BY <1>1, <1>6 DEF loginOrRegisterWithGoogle, Good, Signing
    <3>2. r \in Browser /\ r.pc = "found" /\ r.user = Null /\ r.staff = Null /\ r.email = lower[e]
      <4>1. lower[e] \in Emails
        BY AccountsAssumption
      <4>2. browser[b].user = Null /\ browser[b].staff = Null
        BY <3>1 DEF SignedOut
      <4>3. r \in Browser
        BY <1>1, <4>1 DEF Browser
      <4> QED BY <1>1, <4>1, <4>2, <4>3 DEF Browser
    <3>3. \A u \in Users : ~Holds(user[u], lower[e])
      <4>1. ASSUME NEW u \in Users, Holds(user[u], lower[e]) PROVE u \in ActiveWith(lower[e], Null)
        <5>1. user[u] # NoMember /\ user[u] \in Member
          BY <1>1, <4>1 DEF Holds, NoMember
        <5>2. u \in Rows
          BY <5>1, AccountsAssumption DEF Rows, Member
        <5> QED BY <4>1, <5>2 DEF Holds, ActiveWith
      <4> QED BY <2>2, <4>1
    <3>4. browser' = [browser EXCEPT ![b] = r]
      BY <1>1, <2>2
    <3> HIDE DEF r
    <3>5. lower[e] \in Emails /\ lower[lower[e]] = lower[e]
      BY AccountsAssumption
    <3>6. Good(r, user)
      BY <3>2, <3>3, <3>5 DEF Good, Signing, Editing
    <3> QED BY <1>2, <1>6, <3>2, <3>4, <3>6, BrowserOnly DEF loginOrRegisterWithGoogle
  <2> QED BY <1>6, <2>1, <2>2 DEF loginOrRegisterWithGoogle
<1>7. ASSUME LoginAnswer(b) \/ (validateTokenAndNavigate(b) /\ browser' = [browser EXCEPT ![b].pc = "in"])
      PROVE  Inv'
  <2> DEFINE r == [browser[b] EXCEPT !.pc = "in"]
  <2>1. browser[b].pc \in {"login", "callback"} /\ UNCHANGED <<org, user, acts>>
    BY <1>7 DEF LoginAnswer, validateTokenAndNavigate
  <2>2. browser' = [browser EXCEPT ![b] = r]
    BY <1>1, <1>7 DEF LoginAnswer
  <2>3. /\ r \in Browser /\ r.pc = "in" /\ r.user = browser[b].user /\ r.org = browser[b].org
        /\ r.role = browser[b].role /\ r.stale = browser[b].stale /\ r.staff = browser[b].staff
    BY <1>1 DEF Browser
  <2> HIDE DEF r
  <2>4. browser[b].staff = Null
    BY <1>1, <2>1 DEF Good, Editing
  <2>5. Good(r, user)
    BY <1>1, <2>1, <2>3, <2>4 DEF Good, Signing, Editing
  <2> QED BY <1>1, <2>1, <2>2, <2>3, <2>5, BrowserOnly
<1>8. ASSUME UNCHANGED <<org, user, acts>>, browser' = [browser EXCEPT ![b] = SignedOut] PROVE Inv'
  BY <1>1, <1>8, SignedOutGood, BrowserOnly
<1>9. ASSUME FoundByGoogle(b) PROVE Inv'
  <2>1. PICK o \in Orgs, u \in Users :
          /\ Found(o, u, browser[b].email, "new")
          /\ browser' = [Outdated(user') EXCEPT ![b] =
               [Token(u, Row(o, browser[b].email, "ADMIN"), FALSE) EXCEPT !.pc = "google"]]
    BY <1>9 DEF FoundByGoogle
  <2>2. browser[b].email \in Emails
    BY <1>1, <1>9 DEF FoundByGoogle, Good, Signing
  <2>3. acts' \in 0..MaxActs
    BY <1>1, <1>9 DEF FoundByGoogle
  <2>4. PICK e \in Emails : e = browser[b].email
    BY <2>2
  <2> QED BY <2>1, <2>3, <2>4, FoundStep
<1>10. ASSUME GoogleAnswer(b) PROVE Inv'
  <2>1. CASE browser[b].user \in Rows /\ user[browser[b].user].org = browser[b].org
    <3>1. PICK u \in Users, member \in Member : u = browser[b].user /\ member = user[u]
      BY <1>1, <2>1
    <3>2. PICK late \in BOOLEAN : late = (browser[b].stale /\ ~member.active)
      OBVIOUS
    <3>3. PICK r : r = [Token(u, member, late) EXCEPT !.pc = "callback"]
      OBVIOUS
    <3>4. member.org \in Orgs /\ member.role \in Roles
      BY DEF Member
    <3>5. /\ r \in Browser
          /\ r.pc = "callback" /\ r.user = u /\ r.org = member.org /\ r.role = member.role
          /\ r.staff = Null /\ r.stale = late
      BY <3>3, <3>4 DEF Browser, Token, SignedOut
    <3>7. ~r.stale => Rights(user[u]) = <<member.org, member.role, TRUE>>
      BY <1>1, <1>10, <3>1, <3>2, <3>5 DEF GoogleAnswer, Good, Signing, Rights, Member
    <3>8. Good(r, user)
      BY <1>1, <3>4, <3>5, <3>7, TokenGood
    <3>6. browser' = [browser EXCEPT ![b] = r] /\ UNCHANGED <<org, user, acts>>
      BY <1>10, <2>1, <3>1, <3>2, <3>3 DEF GoogleAnswer, Redirected
    <3> QED BY <1>1, <3>5, <3>6, <3>8, BrowserOnly
  <2>2. CASE ~(browser[b].user \in Rows /\ user[browser[b].user].org = browser[b].org)
    BY <1>8, <1>10, <2>2 DEF GoogleAnswer
  <2> QED BY <2>1, <2>2
<1> QED
  BY <1>4, <1>5, <1>6, <1>7, <1>8, <1>9, <1>10
  DEF LoginAnswer, validateTokenAndNavigate, SignOut

\* The staff and settings pages.
LEMMA PageStep ==
  ASSUME Inv, NEW b \in Browsers,
         \/ \E u \in Users : openEditModal(b, u)
         \/ \E e \in Emails : \/ handleCreateStaff(b, e) \/ handleUpdateProfile(b, e)
                              \/ \E r \in Roles, a \in BOOLEAN : handleSaveEdit(b, e, r, a)
         \/ handleDeactivate(b) \/ completeOnboarding(b)
  PROVE  Inv'
<1>1. /\ user \in [Users -> Member \union {NoMember}] /\ acts \in 0..MaxActs
      /\ browser \in [Browsers -> Browser]
      /\ browser[b] \in Browser /\ Good(browser[b], user)
      /\ \A u \in Rows : u \in Users /\ user[u] \in Member
  BY AccountsAssumption DEF Inv, Tables, Rows, NoMember
<1>2. Act => acts' \in 0..MaxActs
  BY <1>1, AccountsAssumption DEF Act
<1>3. \A u \in Rows : Exists(user[u].org)
  BY DEF Inv, Tables
\* Every browser is told of a table with one more or one other row.
<1>4. ASSUME NEW u \in Users, NEW member \in Member, user' = [user EXCEPT ![u] = member],
             browser' = Outdated(user')
      PROVE  /\ browser' \in [Browsers -> Browser]
             /\ \A c \in Browsers : browser'[c] = Outdated(user')[c]
  <2>1. user' \in [Users -> Member \union {NoMember}]
    BY <1>1, <1>4
  <2> QED BY <1>4, <2>1, Told
<1>5. ASSUME NEW u \in Users, openEditModal(b, u) PROVE Inv'
  <2> DEFINE r == [browser[b] EXCEPT !.staff = u, !.seen = user[u], !.old = FALSE]
  <2>1. /\ browser[b].pc = "in" /\ u \in Rows /\ user[u].org = browser[b].org
        /\ user[u].role # "ADMIN" /\ UNCHANGED <<org, user>> /\ Act
    BY <1>5 DEF openEditModal, RolesGuard, listStaff
  <2>2. browser' = [browser EXCEPT ![b] = r]
    BY <1>1, <1>5 DEF openEditModal
  <2>3. user[u] \in Member
    BY <1>1, <2>1
  <2>4. /\ r \in Browser /\ r.pc = "in" /\ r.user = browser[b].user /\ r.org = browser[b].org
        /\ r.role = browser[b].role /\ r.stale = browser[b].stale
        /\ r.staff = u /\ r.seen = user[u]
    BY <1>1, <2>1, <2>3 DEF Browser
  <2> HIDE DEF r
  <2>5. Good(r, user)
    BY <1>1, <2>1, <2>3, <2>4 DEF Good, Signing, Editing
  <2> QED BY <1>2, <2>1, <2>2, <2>4, <2>5, BrowserOnly
<1>6. ASSUME NEW e \in Emails, handleCreateStaff(b, e) PROVE Inv'
  <2>1. PICK u \in Users : Fresh(u) /\ user' = [user EXCEPT ![u] = Row(browser[b].org, e, "AGENT")]
    BY <1>6 DEF handleCreateStaff, createStaff
  <2>2. /\ Exists(browser[b].org) /\ Unused(browser[b].org, e, Null)
        /\ browser[b].org \in Orgs /\ Act /\ UNCHANGED org /\ browser' = Outdated(user')
    BY <1>1, <1>6 DEF handleCreateStaff, createStaff, RolesGuard, Good, Signing
  <2>3. PICK member \in Member :
          /\ member = Row(browser[b].org, e, "AGENT")
          /\ member.org = browser[b].org /\ member.email = e
    <3>1. Row(browser[b].org, e, "AGENT") \in Member
      BY <2>2 DEF Row, Member, Roles
    <3>2. /\ Row(browser[b].org, e, "AGENT").org = browser[b].org
          /\ Row(browser[b].org, e, "AGENT").email = e
      BY DEF Row
    <3> QED BY <3>1, <3>2
  <2>4. Unused(member.org, member.email, u)
    BY <2>2, <2>3, AccountsAssumption DEF Unused, Rows
  <2>5. u \notin Rows /\ user' = [user EXCEPT ![u] = member]
    BY <2>1, <2>3 DEF Fresh
  <2>6. /\ browser' \in [Browsers -> Browser]
        /\ \A c \in Browsers : browser'[c] = Outdated(user')[c]
    BY <1>4, <2>2, <2>5
  <2> QED BY <1>2, <2>2, <2>3, <2>4, <2>5, <2>6, ChangeRow
<1>7. ASSUME NEW e \in Emails, handleUpdateProfile(b, e) PROVE Inv'
  <2> DEFINE u == browser[b].user
  <2>1. /\ u \in Rows /\ user[u].org = browser[b].org /\ Unused(browser[b].org, e, u)
        /\ user' = [user EXCEPT ![u].email = e] /\ Act /\ UNCHANGED org
        /\ browser' = Outdated(user')
    BY <1>7 DEF handleUpdateProfile, updateProfile
  <2>2. u \in Users /\ user[u] \in Member
    BY <1>1, <2>1
  <2>3. PICK member \in Member : member = [user[u] EXCEPT !.email = e]
    BY <2>2 DEF Member
  <2>4. member.org = browser[b].org /\ member.email = e /\ Rights(member) = Rights(user[u])
    BY <2>1, <2>2, <2>3 DEF Member, Rights
  <2>5. user' = [user EXCEPT ![u] = member]
    BY <1>1, <2>1, <2>3
  <2>6. Exists(member.org) /\ Unused(member.org, member.email, u)
    BY <1>3, <2>1, <2>4
  <2> HIDE DEF u
  <2>7. /\ browser' \in [Browsers -> Browser]
        /\ \A c \in Browsers : browser'[c] = Outdated(user')[c]
    BY <1>4, <2>1, <2>2, <2>5
  <2> QED BY <1>2, <2>1, <2>2, <2>4, <2>5, <2>6, <2>7, ChangeRow
\* Both ways to change a listed row.
<1>8. ASSUME NEW u \in Users, browser[b].staff = u, NEW member \in Member,
             member.org = user[u].org, updateStaff(b, u, member), UNCHANGED <<org, acts>>
      PROVE  Inv'
  <2>1. /\ u \in Rows /\ Unused(member.org, member.email, u) /\ user' = [user EXCEPT ![u] = member]
        /\ browser' = [Outdated(user') EXCEPT ![b].staff = Null, ![b].seen = NoMember,
                                              ![b].old = FALSE]
    BY <1>8 DEF updateStaff
  <2>2. user' \in [Users -> Member \union {NoMember}]
    BY <1>1, <2>1
  <2> DEFINE told == Outdated(user')[b]
  <2>3. Outdated(user') \in [Browsers -> Browser] /\ told \in Browser /\ Good(told, user')
    BY <2>2, Told, OutdatedGood
  <2>4. PICK r : r = [told EXCEPT !.staff = Null, !.seen = NoMember, !.old = FALSE]
    OBVIOUS
  <2>5. browser' = [Outdated(user') EXCEPT ![b] = r]
    BY <2>1, <2>3, <2>4
  <2> HIDE DEF told
  <2>6. /\ r \in Browser /\ r.pc = told.pc /\ r.user = told.user /\ r.org = told.org
        /\ r.role = told.role /\ r.stale = told.stale /\ r.email = told.email /\ r.staff = Null
    BY <2>3, <2>4 DEF Browser
  <2>7. told.pc \in {"in"}
    <3>1. told.staff = browser[b].staff
      BY <2>2, OutdatedGood DEF told
    <3> QED BY <1>8, <2>3, <3>1, AccountsAssumption DEF Good, Editing
  <2>8. Good(r, user')
    BY <2>3, <2>6, <2>7 DEF Good, Signing, Editing
  <2>9. /\ browser' \in [Browsers -> Browser] /\ browser'[b] = r
        /\ \A c \in Browsers \ {b} : browser'[c] = Outdated(user')[c]
    BY <2>3, <2>5, <2>6
  <2>10. \A c \in Browsers : \/ browser'[c] = Outdated(user')[c]
                             \/ Good(browser'[c], user') /\ browser'[c].staff = Null
    BY <2>6, <2>8, <2>9
  <2>11. Exists(member.org) /\ acts' \in 0..MaxActs
    BY <1>1, <1>3, <1>8, <2>1
  <2> QED BY <1>8, <2>1, <2>9, <2>10, <2>11, ChangeRow
<1>9. ASSUME NEW e \in Emails, NEW r \in Roles, NEW a \in BOOLEAN, handleSaveEdit(b, e, r, a)
      PROVE  Inv'
  <2>1. PICK u \in Users : u = browser[b].staff
    BY <1>1, <1>9 DEF handleSaveEdit, Good, Editing
  <2>2. browser[b].seen \in Member /\ browser[b].seen.org = browser[b].org
    BY <1>1, <1>9 DEF handleSaveEdit, Good, Editing
  <2>3. PICK member \in Member :
          /\ member = [browser[b].seen EXCEPT !.email = e, !.role = r, !.active = a]
          /\ member.org = browser[b].org
    <3> DEFINE form == [browser[b].seen EXCEPT !.email = e, !.role = r, !.active = a]
    <3>1. form \in Member /\ form.org = browser[b].org
      BY <2>2 DEF Member
    <3> QED BY <3>1
  <2>4. updateStaff(b, u, member) /\ UNCHANGED <<org, acts>>
    BY <1>9, <2>1, <2>3 DEF handleSaveEdit
  <2>5. user[u].org = browser[b].org
    BY <2>4 DEF updateStaff
  <2> QED BY <1>8, <2>1, <2>3, <2>4, <2>5
<1>10. ASSUME handleDeactivate(b) PROVE Inv'
  <2>1. PICK u \in Users : u = browser[b].staff /\ user[u] \in Member
    BY <1>1, <1>10 DEF handleDeactivate
  <2>2. PICK member \in Member : member = [user[u] EXCEPT !.active = FALSE] /\ member.org = user[u].org
    <3> DEFINE off == [user[u] EXCEPT !.active = FALSE]
    <3>1. off \in Member /\ off.org = user[u].org
      BY <2>1 DEF Member
    <3> QED BY <3>1
  <2>3. updateStaff(b, u, member) /\ UNCHANGED <<org, acts>>
    BY <1>10, <2>1, <2>2 DEF handleDeactivate
  <2> QED BY <1>8, <2>1, <2>2, <2>3
<1>11. ASSUME completeOnboarding(b) PROVE Inv'
  <2>1. /\ org' = [org EXCEPT ![browser[b].org] = "onboarded"] /\ org[browser[b].org] = "new"
        /\ UNCHANGED <<user, browser, acts>>
    BY <1>11 DEF completeOnboarding
  <2>2. org \in [Orgs -> {"free", "new", "onboarded", "deleted"}]
    BY DEF Inv, Tables
  <2>3. browser[b].org \in Orgs
    BY <1>1, <1>11 DEF completeOnboarding, RolesGuard, Good, Signing
  <2>4. \A o \in Orgs : Exists(o)' <=> Exists(o)
    BY <2>1, <2>2, <2>3 DEF Exists
  <2>5. org' \in [Orgs -> {"free", "new", "onboarded", "deleted"}] /\ Rows' = Rows
    BY <2>1, <2>2 DEF Rows
  <2>6. \A u \in Rows : user[u].org \in Orgs
    BY <1>1 DEF Member
  <2>7. Tables'
    BY <2>1, <2>4, <2>5, <2>6 DEF Inv, Tables
  <2>8. Led'
    BY <2>1, <2>4, <2>5 DEF Inv, Led, Leads
  <2> QED BY <2>1, <2>7, <2>8 DEF Inv
<1> QED BY <1>5, <1>6, <1>7, <1>9, <1>10, <1>11

\* Both deletions.
LEMMA DeleteStep ==
  ASSUME Inv, NEW b \in Browsers,
         \/ \E heard \in BOOLEAN : handleDeleteOrganization(b, heard)
         \/ \E o \in Orgs : adminDeleteOrganization(b, o)
  PROVE  Inv'
<1>1. acts' \in 0..MaxActs
  BY AccountsAssumption DEF Inv, handleDeleteOrganization, adminDeleteOrganization, Act
<1>2. PICK o \in Orgs : RemoveOrganization(o)
  BY DEF Inv, Good, Signing, handleDeleteOrganization, adminDeleteOrganization,
     deleteOrganization, RolesGuard
<1>3. user' \in [Users -> Member \union {NoMember}]
  BY <1>2 DEF Inv, Tables, RemoveOrganization
<1>4. Outdated(user') \in [Browsers -> Browser]
  BY <1>3, Told
<1>5. CASE browser' = Outdated(user')
  BY <1>1, <1>2, <1>4, <1>5, RemoveStep
<1>6. CASE browser' = [Outdated(user') EXCEPT ![b] = SignedOut]
  <2>1. /\ browser' \in [Browsers -> Browser] /\ browser'[b] = SignedOut
        /\ \A c \in Browsers \ {b} : browser'[c] = Outdated(user')[c]
    BY <1>4, <1>6, SignedOutGood DEF Good
  <2> QED BY <1>1, <1>2, <2>1, SignedOutGood, RemoveStep
<1> QED BY <1>5, <1>6 DEF handleDeleteOrganization, adminDeleteOrganization

\* In every reachable state the tables keep their keys, browsers know what they
\* know, and every organization is led.
THEOREM Invariance == Spec => []Inv
<1>1. Inv /\ [Next]_vars => Inv'
  <2>1. ASSUME Inv, UNCHANGED vars PROVE Inv'
    BY <2>1 DEF vars, Inv, Tables, Rows, Exists, Led, Leads
  <2>2. ASSUME Inv, NEW b \in Browsers, BrowserStep(b) PROVE Inv'
    BY <2>2, SigningStep, PageStep, DeleteStep DEF BrowserStep
  <2> QED BY <2>1, <2>2 DEF Next
<1> QED BY InitInv, <1>1, PTL DEF Spec

\* The tables have their types, users belong to organizations that exist, and an
\* address occurs once in an organization.
THEOREM TypeCorrect == Spec => []TypeOK
<1>1. Inv => TypeOK
  BY DEF Inv, Tables, TypeOK
<1> QED BY Invariance, <1>1, PTL

\* A token grants what its user's row says unless the row changed since, for every
\* way to sign in (login, loginOrRegisterWithGoogle, registerAdmin).
THEOREM RightsExplained == Spec => []RightsAreExplained
<1>1. Inv => RightsAreExplained
  BY DEF Inv, Good, Signing, Rights, RightsAreExplained
<1> QED BY Invariance, <1>1, PTL

\* No sequence of edits, with whatever tokens, leaves an organization without an
\* active admin (updateStaff, deactivateStaff, listStaff).
THEOREM OrganizationsLed == Spec => []OrganizationsAreLed
<1>1. Inv => OrganizationsAreLed
  BY DEF Inv, Led, Leads, OrganizationsAreLed
<1> QED BY Invariance, <1>1, PTL

\* The staff page shows the row, or the row changed under it (openEditModal,
\* updateStaff).
THEOREM PageExplained == Spec => []PageIsExplained
<1>1. Inv => PageIsExplained
  BY DEF Inv, Good, Editing, PageIsExplained
<1> QED BY Invariance, <1>1, PTL

\* A second organization is founded for an address only when nobody active had it,
\* or he came while the sign-in was under way (loginOrRegisterWithGoogle).
THEOREM SecondHomeExplained == Spec => SecondHomeIsExplained
<1>1. Inv => \A b \in Browsers :
        browser[b].pc = "found" /\ ~browser[b].stale =>
          \A u \in Rows : ~Holds(user[u], lower[browser[b].email])
  BY DEF Inv, Good, Signing, Rows
<1>2. Inv => [\A b \in Browsers :
        browser[b].pc = "found" /\ browser'[b].pc = "google" /\ ~browser[b].stale =>
          \A u \in Rows : ~Holds(user[u], lower[browser[b].email])]_vars
  BY <1>1
<1> QED BY Invariance, <1>2, PTL DEF SecondHomeIsExplained
-----------------------------------------------------------------------------
(***************************************************************************)
(* The list of conversations                                               *)
(***************************************************************************)
\* What a request carries and what answers it.
Replies == Conversation \union {Nobody, Refused}
Requests == [op : {"list", "star"}, arg : BOOLEAN \union {Nobody}, done : BOOLEAN, value : Replies]

\* Only the star sends something, and can be refused.
Formed(c) ==
  /\ c.op = "star" => c.arg \in BOOLEAN
  /\ c.done => c.value \in Conversation \/ (c.op = "star" /\ c.value = Refused)

ListTypeOK ==
  /\ role \in {"ADMIN", "AGENT"} /\ channel \in {"EMAIL", "META"} /\ joined \in BOOLEAN
  /\ row \in Conversation /\ row.there # "hidden"
  /\ mail \in Conversation \union {Nobody}
  /\ feed \in Seq(Conversation \union {Nobody})
  /\ calls \in Seq(Requests) /\ \A i \in DOMAIN calls : Formed(calls[i])
  /\ entry \in Conversation \union {Nobody} /\ starring \in BOOLEAN
  /\ newest \in Nat /\ steps \in Nat /\ faults \in Nat

\* The list has at most one star under way.
OneStar ==
  \A i, j \in DOMAIN calls :
    calls[i].op = "star" => starring /\ (calls[j].op = "star" => i = j)

\* The latest version that differs from the row, if at all, in a star that is about
\* to be answered.
StarServed ==
  \E i \in DOMAIN calls :
    /\ calls[i].op = "star" /\ calls[i].done /\ calls[i].value # Refused
    /\ calls[i].value.n = row.n
Base == IF StarServed THEN row.n - 1 ELSE row.n

\* What was read of the row, and is on its way to the list, is what it was.
Alike(r, s) == r.status = s.status /\ r.holder = s.holder /\ r.unread = s.unread /\ r.last = s.last
Seen(r) ==
  /\ r.n <= row.n
  /\ r.n >= Base => Alike(r, row)
  /\ r.n = row.n => r.starred = row.starred
MailSeen(r) == Seen(r) /\ (r.n >= Base => r.there = "yes" /\ row.there = "yes")
ListSeen(r) == Seen(r) /\ (r.n >= Base => (r.there = "yes" <=> Listed))
StarSeen(r) == r.n <= row.n /\ (r.n = row.n => r.starred = row.starred)
AllSeen ==
  /\ newest <= row.n
  /\ mail # Nobody => MailSeen(mail)
  /\ \A i \in DOMAIN feed : feed[i] # Nobody => MailSeen(feed[i])
  /\ \A i \in DOMAIN calls :
       calls[i].done /\ calls[i].value # Refused =>
         IF calls[i].op = "star" THEN StarSeen(calls[i].value) ELSE ListSeen(calls[i].value)

\* The entry is the row, but for the star that is about to be answered; or something
\* is on its way that will make it so, or be known to be older.
Causes == {"quiet", "lost", "ignored", "failed", "older"}
Explained == causes \intersect Causes # {}
Current ==
  /\ newest >= Base
  /\ Listed <=> entry # Nobody
  /\ entry # Nobody =>
       /\ entry.status = row.status /\ entry.holder = row.holder /\ entry.unread = row.unread
       /\ "preview" \in causes \/ entry.last = row.last
       /\ newest = row.n => entry.starred = row.starred
Tells(r) == r.n >= Base \/ r.n < newest
Coming ==
  \/ mail # Nobody /\ Tells(mail)
  \/ \E i \in DOMAIN feed : feed[i] = Nobody \/ Tells(feed[i])
  \/ \E i \in DOMAIN calls : calls[i].op = "list" /\ (calls[i].done => Tells(calls[i].value))
CurrentOrComing == Explained \/ Current \/ Coming

ListInv == ListTypeOK /\ OneStar /\ AllSeen /\ CurrentOrComing
-----------------------------------------------------------------------------
(***************************************************************************)
(* The requests of the list                                                *)
(***************************************************************************)
\* RemoveAt leaves what was before, and moves what was behind.
LEMMA RemovingAt ==
  ASSUME NEW S, NEW s \in Seq(S), NEW i \in DOMAIN s
  PROVE  /\ RemoveAt(s, i) \in Seq(S) /\ DOMAIN RemoveAt(s, i) = 1..Len(s) - 1
         /\ \A j \in 1..Len(s) - 1 : RemoveAt(s, i)[j] = IF j < i THEN s[j] ELSE s[j + 1]
<1> DEFINE a == SubSeq(s, 1, i - 1)
           b == SubSeq(s, i + 1, Len(s))
<1>1. Len(s) \in Nat /\ i \in 1..Len(s) /\ DOMAIN s = 1..Len(s)
  BY LenProperties
<1>2. \A j \in 1..Len(s) : s[j] \in S
  BY ElementOfSeq
<1>3. /\ a \in Seq(S) /\ Len(a) = i - 1
      /\ \A j \in 1..i - 1 : a[j] = s[j]
  <2>1. \A j \in 1..i - 1 : s[j] \in S
    BY <1>1, <1>2
  <2>2. /\ SubSeq(s, 1, i - 1) \in Seq(S)
        /\ Len(SubSeq(s, 1, i - 1)) = IF 1 <= i - 1 THEN (i - 1) - 1 + 1 ELSE 0
        /\ \A j \in 1..(i - 1) - 1 + 1 : SubSeq(s, 1, i - 1)[j] = s[1 + j - 1]
    BY <1>1, <2>1, SubSeqProperties
  <2>3. QED
    BY <1>1, <2>2
<1>4. /\ b \in Seq(S) /\ Len(b) = Len(s) - i
      /\ \A j \in 1..Len(s) - i : b[j] = s[i + j]
  <2>1. \A j \in i + 1..Len(s) : s[j] \in S
    BY <1>1, <1>2
  <2>2. /\ SubSeq(s, i + 1, Len(s)) \in Seq(S)
        /\ Len(SubSeq(s, i + 1, Len(s))) =
             IF i + 1 <= Len(s) THEN Len(s) - (i + 1) + 1 ELSE 0
        /\ \A j \in 1..Len(s) - (i + 1) + 1 : SubSeq(s, i + 1, Len(s))[j] = s[(i + 1) + j - 1]
    BY <1>1, <2>1, SubSeqProperties
  <2>3. QED
    BY <1>1, <2>2
<1> HIDE DEF a, b
<1> DEFINE t == a \o b
<1>5. /\ t \in Seq(S) /\ Len(t) = Len(a) + Len(b)
      /\ \A j \in 1..Len(a) + Len(b) : t[j] = IF j <= Len(a) THEN a[j] ELSE b[j - Len(a)]
  BY <1>3, <1>4, ConcatProperties
<1>6. RemoveAt(s, i) = t
  BY DEF RemoveAt, a, b
<1> HIDE DEF t
<1>7. Len(a) = i - 1 /\ Len(b) = Len(s) - i /\ Len(a) + Len(b) = Len(s) - 1
  BY <1>1, <1>3, <1>4
<1>8. DOMAIN t = 1..Len(s) - 1
  BY <1>5, <1>7, LenProperties
<1>9. \A j \in 1..Len(s) - 1 : t[j] = IF j <= i - 1 THEN a[j] ELSE b[j - (i - 1)]
  BY <1>5, <1>7
<1>10. ASSUME NEW j \in 1..Len(s) - 1 PROVE t[j] = IF j < i THEN s[j] ELSE s[j + 1]
  <2>1. CASE j < i
    <3>1. j \in 1..i - 1 /\ t[j] = a[j]
      BY <1>1, <1>9, <2>1
    <3>2. QED
      BY <1>3, <2>1, <3>1
  <2>2. CASE j >= i
    <3>1. j - (i - 1) \in 1..Len(s) - i /\ t[j] = b[j - (i - 1)]
      BY <1>1, <1>9, <2>2
    <3>2. b[j - (i - 1)] = s[i + (j - (i - 1))] /\ i + (j - (i - 1)) = j + 1
      BY <1>1, <1>4, <3>1
    <3>3. QED
      BY <1>1, <2>2, <3>1, <3>2
  <2>3. QED
    BY <1>1, <2>1, <2>2
<1>11. QED
  BY <1>5, <1>6, <1>8, <1>10

\* Append adds one at the end, and leaves the others where they are.
LEMMA Appending ==
  ASSUME NEW S, NEW s \in Seq(S), NEW e \in S
  PROVE  /\ Append(s, e) \in Seq(S) /\ DOMAIN Append(s, e) = 1..Len(s) + 1 /\ Len(s) \in Nat
         /\ DOMAIN s = 1..Len(s) /\ \A j \in DOMAIN s : Append(s, e)[j] = s[j]
         /\ Append(s, e)[Len(s) + 1] = e
<1>1. Len(s) \in Nat /\ DOMAIN s = 1..Len(s)
  BY LenProperties
<1>2. /\ Append(s, e) \in Seq(S) /\ Len(Append(s, e)) = Len(s) + 1
      /\ \A j \in 1..Len(s) : Append(s, e)[j] = s[j]
      /\ Append(s, e)[Len(s) + 1] = e
  BY AppendProperties
<1>3. DOMAIN Append(s, e) = 1..Len(s) + 1
  BY <1>2, LenProperties
<1>4. QED
  BY <1>1, <1>2, <1>3

\* Tail moves all but the first.
LEMMA TakingHead ==
  ASSUME NEW S, NEW s \in Seq(S), s # <<>>
  PROVE  /\ Tail(s) \in Seq(S) /\ Head(s) \in S /\ Head(s) = s[1] /\ 1 \in DOMAIN s
         /\ \A j \in DOMAIN Tail(s) : j + 1 \in DOMAIN s /\ Tail(s)[j] = s[j + 1]
         /\ \A j \in DOMAIN s \ {1} : j - 1 \in DOMAIN Tail(s) /\ Tail(s)[j - 1] = s[j]
<1>1. /\ Tail(s) \in Seq(S) /\ Head(s) \in S /\ Len(Tail(s)) = Len(s) - 1
      /\ \A j \in 1..Len(Tail(s)) : Tail(s)[j] = s[j + 1]
      /\ Len(s) \in Nat \ {0} /\ Head(s) = s[1]
  BY HeadTailProperties, EmptySeq
<1>2. DOMAIN s = 1..Len(s) /\ DOMAIN Tail(s) = 1..Len(s) - 1
  BY <1>1
<1>3. ASSUME NEW j \in DOMAIN s \ {1} PROVE j - 1 \in 1..Len(Tail(s)) /\ (j - 1) + 1 = j
  BY <1>1, <1>2
<1>4. QED
  BY <1>1, <1>2, <1>3

\* A request of the list, and what answers it.
LEMMA CallTypes ==
  ASSUME ListTypeOK, NEW i \in DOMAIN calls
  PROVE  /\ calls[i] \in Requests /\ Formed(calls[i]) /\ calls[i].op \in {"list", "star"}
         /\ i \in 1..Len(calls) /\ Len(calls) \in Nat /\ DOMAIN calls = 1..Len(calls)
         /\ calls[i].done /\ calls[i].value # Refused =>
              calls[i].value \in Conversation /\ calls[i].value.n \in Nat
<1>1. calls[i] \in Requests /\ i \in 1..Len(calls) /\ Len(calls) \in Nat /\ DOMAIN calls = 1..Len(calls)
  BY LenProperties, ElementOfSeq DEF ListTypeOK
<1>2. Formed(calls[i])
  BY DEF ListTypeOK
<1>3. QED
  BY <1>1, <1>2 DEF Requests, Formed, Conversation

\* A request that is done with leaves the others, and at most one star.
LEMMA Dropped ==
  ASSUME ListTypeOK, OneStar, NEW i \in DOMAIN calls, calls' = RemoveAt(calls, i),
         starring /\ calls[i].op # "star" => starring'
  PROVE  /\ calls' \in Seq(Requests) /\ \A j \in DOMAIN calls' : Formed(calls'[j])
         /\ OneStar'
         /\ \A j \in DOMAIN calls' : \E k \in DOMAIN calls \ {i} : calls'[j] = calls[k]
         /\ \A k \in DOMAIN calls \ {i} : \E j \in DOMAIN calls' : calls'[j] = calls[k]
<1>1. /\ calls' \in Seq(Requests) /\ DOMAIN calls' = 1..Len(calls) - 1
      /\ \A j \in 1..Len(calls) - 1 : calls'[j] = IF j < i THEN calls[j] ELSE calls[j + 1]
  BY RemovingAt DEF ListTypeOK
<1>2. Len(calls) \in Nat /\ i \in 1..Len(calls) /\ DOMAIN calls = 1..Len(calls)
  BY CallTypes
<1> DEFINE k(j) == IF j < i THEN j ELSE j + 1
<1>3. ASSUME NEW j \in DOMAIN calls'
      PROVE  k(j) \in DOMAIN calls \ {i} /\ calls'[j] = calls[k(j)]
  BY <1>1, <1>2
<1>4. ASSUME NEW l \in DOMAIN calls \ {i}
      PROVE  \E j \in DOMAIN calls' : calls'[j] = calls[l]
  <2>1. CASE l < i
    <3>1. l \in DOMAIN calls' /\ calls'[l] = calls[l]
      BY <1>1, <1>2, <2>1
    <3>2. QED
      BY <3>1
  <2>2. CASE l > i
    <3>1. l - 1 \in DOMAIN calls' /\ calls'[l - 1] = calls[l]
      BY <1>1, <1>2, <2>2
    <3>2. QED
      BY <3>1
  <2>3. QED
    BY <1>2, <2>1, <2>2
<1>5. ASSUME NEW j \in DOMAIN calls', NEW l \in DOMAIN calls', k(j) = k(l) PROVE j = l
  BY <1>1, <1>2, <1>5
<1> HIDE DEF k
<1>6. OneStar'
  <2> SUFFICES ASSUME NEW j \in DOMAIN calls', NEW l \in DOMAIN calls', calls'[j].op = "star"
               PROVE  starring' /\ (calls'[l].op = "star" => j = l)
    BY DEF OneStar
  <2>1. k(j) \in DOMAIN calls \ {i} /\ calls[k(j)].op = "star"
    BY <1>3
  <2>2. starring /\ calls[i].op # "star"
    BY <2>1 DEF OneStar
  <2>3. calls'[l].op = "star" => k(j) = k(l)
    BY <1>3, <2>1 DEF OneStar
  <2>4. QED
    BY <1>5, <2>2, <2>3
<1>7. \A j \in DOMAIN calls' : Formed(calls'[j])
  BY <1>3 DEF ListTypeOK
<1>8. QED
  BY <1>1, <1>3, <1>4, <1>6, <1>7

\* A request that is served is answered with v, and the others stay.
LEMMA ServedWith ==
  ASSUME ListTypeOK, OneStar, NEW i \in DOMAIN calls, NEW v \in Replies, Answered(i, v),
         v \in Conversation \/ (calls[i].op = "star" /\ v = Refused), UNCHANGED starring
  PROVE  /\ calls' \in Seq(Requests) /\ (\A j \in DOMAIN calls' : Formed(calls'[j])) /\ OneStar'
         /\ DOMAIN calls' = DOMAIN calls /\ \A j \in DOMAIN calls \ {i} : calls'[j] = calls[j]
         /\ calls'[i].op = calls[i].op /\ calls'[i].done /\ calls'[i].value = v
<1> DEFINE c == [calls[i] EXCEPT !.done = TRUE, !.value = v]
<1>1. /\ calls[i] \in Requests /\ Formed(calls[i]) /\ calls \in Seq(Requests)
  BY CallTypes DEF ListTypeOK
<1>2. c \in Requests /\ c.op = calls[i].op /\ c.arg = calls[i].arg /\ c.done /\ c.value = v
  BY <1>1 DEF Requests
<1>3. calls' = [calls EXCEPT ![i] = c]
  BY <1>1 DEF Answered, Requests
<1> HIDE DEF c
<1>4. Formed(c)
  BY <1>1, <1>2 DEF Formed
<1>5. /\ calls' \in Seq(Requests) /\ DOMAIN calls' = DOMAIN calls
      /\ calls'[i] = c /\ \A j \in DOMAIN calls \ {i} : calls'[j] = calls[j]
  BY <1>1, <1>2, <1>3
<1>6. OneStar'
  BY <1>2, <1>5 DEF OneStar
<1>7. QED
  BY <1>2, <1>4, <1>5, <1>6 DEF ListTypeOK
-----------------------------------------------------------------------------
(***************************************************************************)
(* The row changes                                                         *)
(***************************************************************************)
\* The base is the row, or the version before it.
LEMMA BaseType ==
  ASSUME ListTypeOK
  PROVE  row.n \in Nat /\ Base \in Int /\ Base <= row.n /\ row.n - 1 <= Base
<1>1. row.n \in Nat
  BY DEF ListTypeOK, Conversation
<1>2. QED
  BY <1>1 DEF Base

\* All that was read before a change is older than the row, whatever it says.
LEMMA RowMoves ==
  ASSUME ListTypeOK, AllSeen, row' \in Conversation, row'.n = row.n + 1, calls' = calls
  PROVE  /\ Base' = row'.n /\ row.n \in Nat
         /\ \A r \in Conversation : r.n <= row.n => MailSeen(r)' /\ ListSeen(r)' /\ StarSeen(r)'
<1>1. row.n \in Nat /\ row'.n \in Nat
  BY DEF ListTypeOK, Conversation
<1>2. ~StarServed'
  <2> SUFFICES ASSUME NEW i \in DOMAIN calls, calls[i].op = "star", calls[i].done,
                      calls[i].value # Refused, calls[i].value.n = row'.n
               PROVE  FALSE
    BY DEF StarServed
  <2>1. calls[i].value.n <= row.n
    BY DEF AllSeen, StarSeen
  <2>2. QED
    BY <1>1, <2>1
<1>3. Base' = row'.n
  BY <1>2 DEF Base
<1>4. ASSUME NEW r \in Conversation, r.n <= row.n
      PROVE  MailSeen(r)' /\ ListSeen(r)' /\ StarSeen(r)'
  <2>1. r.n \in Nat
    BY DEF Conversation
  <2>2. r.n <= row'.n /\ ~(r.n >= Base') /\ r.n # row'.n
    BY <1>1, <1>3, <1>4, <2>1
  <2>3. QED
    BY <2>2 DEF MailSeen, ListSeen, StarSeen, Seen
<1>5. QED
  BY <1>1, <1>3, <1>4

\* A mail holds the row as it is, the others are told to load it, or the change is a
\* cause.
LEMMA Announced ==
  ASSUME InboxListAssumption, ListInv,
         row' \in Conversation, row'.there # "hidden", row'.n = row.n + 1,
         UNCHANGED <<role, channel, joined, browserVars>>,
         mail' = mail \/ (mail' = row' /\ row'.there = "yes"),
         feed' = feed \/ feed' = Append(feed, Nobody),
         steps' \in Nat, faults' \in Nat,
         Explained' \/ mail' = row' \/ feed' = Append(feed, Nobody)
  PROVE  ListInv'
<1>1. /\ ListTypeOK /\ AllSeen /\ calls' = calls /\ entry' = entry /\ starring' = starring
      /\ newest' = newest
  BY DEF ListInv, browserVars
<1>2. /\ Base' = row'.n /\ row.n \in Nat
      /\ \A r \in Conversation : r.n <= row.n => MailSeen(r)' /\ ListSeen(r)' /\ StarSeen(r)'
  BY <1>1, RowMoves
<1>3. feed \in Seq(Conversation \union {Nobody}) /\ feed' \in Seq(Conversation \union {Nobody})
  BY <1>1 DEF ListTypeOK
<1>4. /\ \A i \in DOMAIN feed' : feed'[i] = Nobody \/ \E j \in DOMAIN feed : feed'[i] = feed[j]
      /\ feed' = Append(feed, Nobody) => \E i \in DOMAIN feed' : feed'[i] = Nobody
  <2>1. CASE feed' = feed
    <3>1. feed = Append(feed, Nobody) => Len(feed) + 1 \in DOMAIN feed /\ feed[Len(feed) + 1] = Nobody
      BY <1>3, Appending
    <3>2. QED
      BY <2>1, <3>1
  <2>2. CASE feed' = Append(feed, Nobody)
    <3>1. /\ DOMAIN feed' = 1..Len(feed) + 1 /\ DOMAIN feed = 1..Len(feed) /\ Len(feed) \in Nat
          /\ \A j \in DOMAIN feed : feed'[j] = feed[j]
          /\ feed'[Len(feed) + 1] = Nobody
      BY <1>3, <2>2, Appending
    <3>2. \A i \in DOMAIN feed' : i \in DOMAIN feed \/ i = Len(feed) + 1
      BY <3>1
    <3>3. Len(feed) + 1 \in DOMAIN feed'
      BY <3>1
    <3>4. QED
      BY <3>1, <3>2, <3>3
  <2>3. QED
    BY <2>1, <2>2
<1>5. ListTypeOK'
  BY <1>1, <1>3 DEF ListTypeOK
<1>6. OneStar'
  BY <1>1 DEF ListInv, OneStar
<1>7. AllSeen'
  <2>1. newest' <= row'.n
    BY <1>1, <1>2 DEF AllSeen, ListTypeOK
  <2>2. mail' # Nobody => MailSeen(mail)'
    <3>1. CASE mail' = mail
      BY <1>1, <1>2, <3>1 DEF AllSeen, MailSeen, Seen, ListTypeOK
    <3>2. CASE mail' = row' /\ row'.there = "yes"
      BY <1>2, <3>2 DEF MailSeen, Seen, Alike
    <3>3. QED
      BY <3>1, <3>2
  <2>3. ASSUME NEW i \in DOMAIN feed', feed'[i] # Nobody PROVE MailSeen(feed[i])'
    <3>1. PICK j \in DOMAIN feed : feed'[i] = feed[j]
      BY <1>4, <2>3
    <3>2. feed[j] \in Conversation /\ feed[j].n <= row.n
      BY <1>1, <1>3, <2>3, <3>1 DEF AllSeen, MailSeen, Seen
    <3>3. \A r : r = feed[j] => MailSeen(r)'
      BY <1>2, <3>2
    <3>4. QED
      BY <3>1, <3>3
  <2>4. ASSUME NEW i \in DOMAIN calls, calls[i].done, calls[i].value # Refused
        PROVE  LET r == calls[i].value
               IN  \A s : s = r => StarSeen(s)' /\ ListSeen(s)'
    <3>1. calls[i].value \in Conversation /\ calls[i].value.n <= row.n
      BY <1>1, <2>4, CallTypes DEF AllSeen, StarSeen, ListSeen, Seen
    <3>2. QED
      BY <1>2, <3>1
  <2>5. QED
    BY <1>1, <2>1, <2>2, <2>3, <2>4 DEF AllSeen
<1>8. CurrentOrComing'
  <2>1. CASE Explained'
    BY <2>1 DEF CurrentOrComing
  <2>2. CASE mail' = row'
    BY <1>2, <2>2 DEF CurrentOrComing, Coming, Tells, InboxListAssumption
  <2>3. CASE feed' = Append(feed, Nobody)
    BY <1>4, <2>3 DEF CurrentOrComing, Coming
  <2>4. QED
    BY <2>1, <2>2, <2>3
<1>9. QED
  BY <1>5, <1>6, <1>7, <1>8 DEF ListInv

\* Messages, mails, routing, replies and quiet changes.
LEMMA ChangesKeep ==
  ASSUME InboxListAssumption, ListInv,
         \/ Arrive \/ RateByMail \/ ChangeQuietly
         \/ \E h \in {"me", "other", Nobody} : RouteTo(h)
         \/ \E by \in {"me", "other"} : Reply(by)
  PROVE  ListInv'
<1>1. /\ row \in Conversation /\ row.there # "hidden" /\ row.n \in Nat /\ row.last \in Nat
      /\ row.unread \in Nat /\ row.mine \in BOOLEAN /\ row.starred \in BOOLEAN
      /\ steps \in Nat /\ faults \in Nat
  BY DEF ListInv, ListTypeOK, Conversation
<1>2. ASSUME NEW r \in Conversation, r.there # "hidden", Change(r)
      PROVE  /\ row' \in Conversation /\ row'.there = r.there /\ row'.there # "hidden"
             /\ row'.n = row.n + 1
  BY <1>1, <1>2 DEF Change, Conversation
<1>3. ASSUME Step PROVE steps' \in Nat
  BY <1>1, <1>3 DEF Step
<1>4. ASSUME NEW e, Emit(e)
      PROVE  feed' = Append(feed, e) \/ (feed' = feed /\ Explained')
  BY <1>4 DEF Emit, Explained, Causes
<1>5. CASE Arrive
  <2>1. Counted \in Conversation /\ Counted.there = "yes"
    <3> DEFINE unread == row.unread + 1
               last == row.last + 1
    <3>1. unread \in Nat /\ last \in Nat
      BY <1>1
    <3>2. Counted = [row EXCEPT !.there = "yes", !.unread = unread, !.last = last]
      BY DEF Counted
    <3> HIDE DEF unread, last
    <3>3. QED
      BY <1>1, <3>1, <3>2 DEF Conversation
  <2>2. row' \in Conversation /\ row'.there = "yes" /\ row'.n = row.n + 1
    BY <1>2, <1>5, <2>1 DEF Arrive
  <2>3. UNCHANGED <<role, channel, joined, browserVars, faults>> /\ steps' \in Nat
    BY <1>3, <1>5 DEF Arrive
  <2>4. \/ Emit(Nobody) /\ mail' = mail
        \/ mail' = row' /\ feed' = feed
    BY <1>5 DEF Arrive
  <2>5. QED
    BY <1>1, <1>4, <2>2, <2>3, <2>4, Announced
<1>6. CASE RateByMail
  <2> DEFINE r == [row EXCEPT !.status = "CLOSED"]
  <2>1. r \in Conversation /\ r.there = "yes" /\ Change(r) /\ mail' = row'
    BY <1>1, <1>6 DEF RateByMail, Conversation, Ended
  <2>2. UNCHANGED <<role, channel, joined, feed, browserVars, steps, faults>>
    BY <1>6 DEF RateByMail
  <2> HIDE DEF r
  <2>3. QED
    BY <1>1, <1>2, <2>1, <2>2, Announced
<1>7. CASE ChangeQuietly
  <2>1. PICK r \in Quietly \ {row} : Change(r)
    BY <1>7 DEF ChangeQuietly
  <2>2. r \in Conversation /\ r.there # "hidden"
    <3> DEFINE star == ~row.starred
    <3>1. star \in BOOLEAN
      OBVIOUS
    <3>2. \/ \E h \in {"me", "other", Nobody} : r = [row EXCEPT !.holder = h]
          \/ \E s \in Ended \union {"OPEN"} : r = [row EXCEPT !.status = s]
          \/ r = [row EXCEPT !.starred = star] \/ r = [row EXCEPT !.unread = 0]
          \/ r = [row EXCEPT !.mine = TRUE] \/ r = [row EXCEPT !.there = "deleted"]
      BY <2>1 DEF Quietly
    <3> HIDE DEF star
    <3>3. CASE \E h \in {"me", "other", Nobody} : r = [row EXCEPT !.holder = h]
      BY <1>1, <3>3 DEF Conversation
    <3>4. CASE \E s \in Ended \union {"OPEN"} : r = [row EXCEPT !.status = s]
      BY <1>1, <3>4 DEF Conversation
    <3>5. CASE r = [row EXCEPT !.starred = star] \/ r = [row EXCEPT !.mine = TRUE]
      BY <1>1, <3>1, <3>5 DEF Conversation
    <3>6. CASE r = [row EXCEPT !.unread = 0] \/ r = [row EXCEPT !.there = "deleted"]
      BY <1>1, <3>6 DEF Conversation
    <3>7. QED
      BY <3>2, <3>3, <3>4, <3>5, <3>6
  <2>3. /\ UNCHANGED <<role, channel, mail, joined, feed, browserVars, faults>>
        /\ Explained' /\ steps' \in Nat
    BY <1>3, <1>7 DEF ChangeQuietly, Explained, Causes
  <2>4. QED
    BY <1>1, <1>2, <2>1, <2>2, <2>3, Announced
<1>8. ASSUME NEW h \in {"me", "other", Nobody}, RouteTo(h) PROVE ListInv'
  <2> DEFINE r == [row EXCEPT !.holder = h]
  <2>1. r \in Conversation /\ r.there = "yes" /\ Change(r) /\ Emit(Nobody)
    BY <1>1, <1>8 DEF RouteTo, Conversation
  <2>2. UNCHANGED <<role, channel, mail, joined, browserVars, faults>> /\ steps' \in Nat
    BY <1>3, <1>8 DEF RouteTo
  <2> HIDE DEF r
  <2>3. QED
    BY <1>1, <1>2, <1>4, <2>1, <2>2, Announced
<1>9. ASSUME NEW by \in {"me", "other"}, Reply(by) PROVE ListInv'
  <2> DEFINE mine == row.mine \/ by = "me"
             last == row.last + 1
             r == [row EXCEPT !.last = last, !.mine = mine]
  <2>1. Change(r) /\ Emit(Nobody) /\ row.there = "yes"
    BY <1>9 DEF Reply
  <2>2. mine \in BOOLEAN /\ last \in Nat
    BY <1>1
  <2> HIDE DEF mine, last
  <2>3. r \in Conversation /\ r.there = "yes"
    BY <1>1, <2>1, <2>2 DEF Conversation
  <2>4. UNCHANGED <<role, channel, mail, joined, browserVars, faults>> /\ steps' \in Nat
    BY <1>3, <1>9 DEF Reply
  <2> HIDE DEF r
  <2>5. QED
    BY <1>1, <1>2, <1>4, <2>1, <2>3, <2>4, Announced
<1>10. QED
  BY <1>5, <1>6, <1>7, <1>8, <1>9
-----------------------------------------------------------------------------
(***************************************************************************)
(* The row stays                                                           *)
(***************************************************************************)
\* What is like the row stays so while the row does.
LEMMA RowStays ==
  ASSUME ListTypeOK, UNCHANGED <<role, row>>, Base <= Base'
  PROVE  /\ Base' \in Int /\ Base' <= row.n
         /\ \A r \in Conversation : /\ MailSeen(r) => MailSeen(r)'
                                    /\ ListSeen(r) => ListSeen(r)'
                                    /\ StarSeen(r) => StarSeen(r)'
<1>1. /\ row.n \in Nat /\ Base \in Int /\ Base' \in Int /\ Base' <= row.n
  BY BaseType DEF Base
<1>2. ASSUME NEW r \in Conversation PROVE r.n \in Nat /\ (r.n >= Base' => r.n >= Base)
  BY <1>1 DEF Conversation
<1>3. Listed' <=> Listed
  BY DEF Listed
<1>4. QED
  BY <1>1, <1>2, <1>3 DEF MailSeen, ListSeen, StarSeen, Seen, Alike

\* What tells of the row goes on doing so.
LEMMA StillTells ==
  ASSUME ListTypeOK, AllSeen, UNCHANGED <<role, row>>, Base <= Base',
         newest' \in Nat, newest <= newest',
         Base' = Base \/ newest' = row.n
  PROVE  \A r \in Conversation \union {Nobody} :
           r # Nobody /\ r.n <= row.n /\ Tells(r) => Tells(r)'
<1> SUFFICES ASSUME NEW r \in Conversation, r.n <= row.n, Tells(r) PROVE Tells(r)'
  OBVIOUS
<1>1. r.n \in Nat /\ row.n \in Nat /\ newest \in Nat /\ Base \in Int /\ Base' \in Int /\ Base' <= row.n
  BY BaseType DEF Conversation, ListTypeOK, Base
<1>2. row.n - 1 <= Base
  BY BaseType
<1>3. r.n >= Base' \/ r.n < newest'
  BY <1>1, <1>2 DEF Tells
<1>4. QED
  BY <1>3 DEF Tells

\* The mail is sent to whoever has joined.
LEMMA MailKeeps ==
  ASSUME InboxListAssumption, ListInv, AnnounceMail
  PROVE  ListInv'
<1>1. /\ mail # Nobody /\ mail' = Nobody /\ Emit(mail)
      /\ UNCHANGED <<role, channel, row, joined, calls, entry, starring, newest, steps, faults>>
  BY DEF AnnounceMail, browserVars
<1>2. Base' = Base /\ row.n \in Nat /\ Base \in Int /\ ListTypeOK
  BY <1>1, BaseType DEF Base, StarServed, ListInv
<1>3. /\ feed \in Seq(Conversation \union {Nobody}) /\ mail \in Conversation /\ newest \in Nat
  BY <1>1, <1>2 DEF ListTypeOK
<1>4. \A r \in Conversation : /\ MailSeen(r) => MailSeen(r)'
                              /\ ListSeen(r) => ListSeen(r)'
                              /\ StarSeen(r) => StarSeen(r)'
  BY <1>1, <1>2, RowStays
<1>5. /\ \A i \in DOMAIN feed' : feed'[i] = mail \/ \E j \in DOMAIN feed : feed'[i] = feed[j]
      /\ \A j \in DOMAIN feed : \E i \in DOMAIN feed' : feed'[i] = feed[j]
      /\ Explained' \/ \E i \in DOMAIN feed' : feed'[i] = mail
      /\ feed' \in Seq(Conversation \union {Nobody})
  <2>1. CASE feed' = feed /\ causes' = causes \union {"lost"}
    BY <1>3, <2>1 DEF Explained, Causes
  <2>2. CASE feed' = Append(feed, mail)
    <3>1. /\ DOMAIN feed' = 1..Len(feed) + 1 /\ DOMAIN feed = 1..Len(feed) /\ Len(feed) \in Nat
          /\ \A j \in DOMAIN feed : feed'[j] = feed[j]
          /\ feed'[Len(feed) + 1] = mail /\ feed' \in Seq(Conversation \union {Nobody})
      BY <1>3, <2>2, Appending
    <3>2. \A i \in DOMAIN feed' : i \in DOMAIN feed \/ i = Len(feed) + 1
      BY <3>1
    <3>3. Len(feed) + 1 \in DOMAIN feed' /\ \A i \in DOMAIN feed : i \in DOMAIN feed'
      BY <3>1
    <3>4. QED
      BY <3>1, <3>2, <3>3
  <2>3. QED
    BY <1>1, <2>1, <2>2 DEF Emit
<1>6. ListTypeOK' /\ OneStar'
  BY <1>1, <1>2, <1>5 DEF ListInv, ListTypeOK, OneStar
<1>7. AllSeen'
  <2>1. ASSUME NEW i \in DOMAIN feed', feed'[i] # Nobody PROVE MailSeen(feed[i])'
    <3>1. PICK r \in Conversation : r = feed'[i] /\ MailSeen(r)
      BY <1>1, <1>3, <1>5, <2>1 DEF ListInv, AllSeen
    <3>2. QED
      BY <1>4, <3>1
  <2>2. ASSUME NEW i \in DOMAIN calls, calls[i].done, calls[i].value # Refused
        PROVE  IF calls[i].op = "star" THEN StarSeen(calls[i].value)' ELSE ListSeen(calls[i].value)'
    <3>1. calls[i].value \in Conversation
      BY <1>2, <2>2, CallTypes
    <3>2. QED
      BY <1>1, <1>4, <2>2, <3>1 DEF ListInv, AllSeen
  <2>3. QED
    BY <1>1, <1>2, <2>1, <2>2 DEF ListInv, AllSeen
<1>8. CurrentOrComing'
  <2>1. CASE Explained'
    BY <2>1 DEF CurrentOrComing
  <2>2. CASE ~Explained'
    <3>1. causes' = causes /\ ~Explained
      BY <1>1, <2>2 DEF Emit, Explained, Causes
    <3>2. CASE Current
      BY <1>1, <1>2, <3>1, <3>2 DEF Current, CurrentOrComing, Listed
    <3>3. CASE Coming
      BY <1>1, <1>2, <1>5, <2>2, <3>3 DEF Coming, Tells, CurrentOrComing
    <3>4. QED
      BY <3>1, <3>2, <3>3 DEF ListInv, CurrentOrComing
  <2>3. QED
    BY <2>1, <2>2
<1>9. QED
  BY <1>6, <1>7, <1>8 DEF ListInv
-----------------------------------------------------------------------------
(***************************************************************************)
(* The server answers                                                      *)
(***************************************************************************)
\* An answer that leaves the row.
LEMMA AnswerKeeps ==
  ASSUME InboxListAssumption, ListInv, NEW i \in DOMAIN calls, ~calls[i].done,
         NEW v \in Replies, Answered(i, v),
         UNCHANGED <<role, channel, server, entry, starring, newest, causes, steps, faults>>,
         \/ calls[i].op = "list" /\ v \in Conversation /\ ListSeen(v) /\ v.n = row.n
         \/ calls[i].op = "star" /\ v = Refused
  PROVE  ListInv'
<1>1. ListTypeOK /\ OneStar /\ AllSeen /\ row.n \in Nat /\ Base \in Int /\ Base <= row.n
  BY BaseType DEF ListInv
<1>2. /\ calls' \in Seq(Requests) /\ (\A j \in DOMAIN calls' : Formed(calls'[j])) /\ OneStar'
      /\ DOMAIN calls' = DOMAIN calls /\ \A j \in DOMAIN calls \ {i} : calls'[j] = calls[j]
      /\ calls'[i].op = calls[i].op /\ calls'[i].done /\ calls'[i].value = v
  BY <1>1, ServedWith
<1>3. UNCHANGED <<role, row, mail, feed, joined>>
  BY DEF server
<1>4. calls[i].op = "list" => v # Refused
  BY DEF InboxListAssumption
<1>5. Base' = Base
  <2>1. StarServed' <=> StarServed
    BY <1>2, <1>3 DEF StarServed
  <2>2. QED
    BY <1>3, <2>1 DEF Base
<1>6. \A r \in Conversation : /\ MailSeen(r) => MailSeen(r)'
                              /\ ListSeen(r) => ListSeen(r)'
                              /\ StarSeen(r) => StarSeen(r)'
  BY <1>1, <1>3, <1>5, RowStays
<1>7. ListTypeOK'
  BY <1>1, <1>2, <1>3 DEF ListTypeOK
<1>8. AllSeen'
  <2>1. ASSUME NEW j \in DOMAIN feed, feed[j] # Nobody PROVE MailSeen(feed[j])'
    <3>1. PICK r \in Conversation : r = feed[j] /\ MailSeen(r)
      BY <1>1, <2>1 DEF AllSeen, ListTypeOK
    <3>2. QED
      BY <1>3, <1>6, <3>1
  <2>2. ASSUME mail # Nobody PROVE MailSeen(mail)'
    <3>1. PICK r \in Conversation : r = mail /\ MailSeen(r)
      BY <1>1, <2>2 DEF AllSeen, ListTypeOK
    <3>2. QED
      BY <1>3, <1>6, <3>1
  <2>3. ASSUME NEW j \in DOMAIN calls, calls'[j].done, calls'[j].value # Refused
        PROVE  IF calls'[j].op = "star" THEN StarSeen(calls[j].value)' ELSE ListSeen(calls[j].value)'
    <3>1. CASE j = i
      BY <1>2, <1>4, <1>6, <2>3, <3>1
    <3>2. CASE j # i
      <4>1. calls'[j] = calls[j] /\ calls[j].value \in Conversation
        BY <1>1, <1>2, <2>3, <3>2, CallTypes
      <4>2. QED
        BY <1>1, <1>6, <2>3, <4>1 DEF AllSeen
    <3>3. QED
      BY <3>1, <3>2
  <2>4. QED
    BY <1>1, <1>2, <1>3, <2>1, <2>2, <2>3 DEF AllSeen
<1>9. CurrentOrComing'
  <2>1. CASE calls[i].op = "list"
    <3>1. \A r : r = v => Tells(r)'
      BY <1>1, <1>3, <1>5, <2>1 DEF Tells
    <3>2. Coming'
      BY <1>2, <2>1, <3>1 DEF Coming
    <3>3. QED
      BY <3>2 DEF CurrentOrComing
  <2>2. CASE calls[i].op = "star"
    <3>1. CASE Explained
      BY <3>1 DEF Explained, CurrentOrComing
    <3>2. CASE Current
      BY <1>3, <1>5, <3>2 DEF Current, Listed, CurrentOrComing
    <3>3. CASE Coming
      BY <1>2, <1>3, <1>5, <2>2, <3>3 DEF Coming, Tells, CurrentOrComing
    <3>4. QED
      BY <3>1, <3>2, <3>3 DEF ListInv, CurrentOrComing
  <2>3. QED
    BY <1>1, <2>1, <2>2, CallTypes
<1>10. QED
  BY <1>2, <1>7, <1>8, <1>9 DEF ListInv

\* A star changes the row, and its answer says so.
LEMMA StarKeeps ==
  ASSUME InboxListAssumption, ListInv, NEW i \in DOMAIN calls, ~calls[i].done,
         calls[i].op = "star", Change([row EXCEPT !.starred = calls[i].arg]), Answered(i, row'),
         UNCHANGED <<role, channel, mail, joined, feed, entry, starring, newest, causes, steps, faults>>
  PROVE  ListInv'
<1>1. ListTypeOK /\ OneStar /\ AllSeen /\ row.n \in Nat /\ row \in Conversation
  BY BaseType DEF ListInv, ListTypeOK
<1>2. /\ row' \in Conversation /\ row'.n = row.n + 1 /\ row'.there = row.there
      /\ row'.status = row.status /\ row'.holder = row.holder /\ row'.unread = row.unread
      /\ row'.last = row.last /\ row'.mine = row.mine
  <2> DEFINE star == calls[i].arg
             r == [row EXCEPT !.starred = star]
  <2>1. star \in BOOLEAN
    BY <1>1, CallTypes DEF Formed
  <2> HIDE DEF star
  <2>2. /\ r \in Conversation /\ r.there = row.there /\ r.status = row.status /\ r.last = row.last
        /\ r.holder = row.holder /\ r.unread = row.unread /\ r.mine = row.mine
    BY <1>1, <2>1 DEF Conversation
  <2>3. Change(r)
    BY DEF star
  <2> HIDE DEF r
  <2> DEFINE n == row.n + 1
  <2>4. row' = [r EXCEPT !.n = n]
    BY <2>3, Zenon DEF Change
  <2>5. n \in Nat
    BY <1>1
  <2> HIDE DEF n
  <2>6. /\ row' \in Conversation /\ row'.n = n /\ row'.there = row.there
        /\ row'.status = row.status /\ row'.holder = row.holder /\ row'.unread = row.unread
        /\ row'.last = row.last /\ row'.mine = row.mine
    BY <2>2, <2>4, <2>5 DEF Conversation
  <2>7. QED
    BY <2>6 DEF n
<1>3. row' \in Replies /\ row' # Refused
  BY <1>2 DEF Replies, InboxListAssumption
<1>4. /\ calls' \in Seq(Requests) /\ (\A j \in DOMAIN calls' : Formed(calls'[j])) /\ OneStar'
      /\ DOMAIN calls' = DOMAIN calls /\ \A j \in DOMAIN calls \ {i} : calls'[j] = calls[j]
      /\ calls'[i].op = calls[i].op /\ calls'[i].done /\ calls'[i].value = row'
  BY <1>1, <1>2, <1>3, ServedWith
<1>5. Base = row.n /\ Base' = row.n
  <2>1. ~StarServed
    BY <1>1 DEF StarServed, OneStar
  <2>2. StarServed'
    BY <1>3, <1>4 DEF StarServed
  <2>3. QED
    BY <1>1, <1>2, <2>1, <2>2 DEF Base
<1>6. Listed' <=> Listed
  BY <1>2 DEF Listed
<1>7. ASSUME NEW r \in Conversation
      PROVE  (MailSeen(r) => MailSeen(r)') /\ (ListSeen(r) => ListSeen(r)')
  <2>1. r.n \in Nat
    BY DEF Conversation
  <2>2. Seen(r) => Seen(r)'
    BY <1>1, <1>2, <1>5, <2>1 DEF Seen, Alike
  <2>3. QED
    BY <1>2, <1>5, <1>6, <2>2 DEF MailSeen, ListSeen
<1>8. \A r : r = row' => StarSeen(r)'
  BY <1>1, <1>2 DEF StarSeen
<1>9. ListTypeOK'
  BY <1>1, <1>2, <1>4 DEF ListTypeOK
<1>10. newest \in Nat /\ newest <= row.n /\ newest <= row'.n
  BY <1>1, <1>2 DEF AllSeen, ListTypeOK
<1>11. AllSeen'
  <2>1. \A j \in DOMAIN feed : feed[j] # Nobody => MailSeen(feed[j])'
    <3>1. \A j \in DOMAIN feed : feed[j] \in Conversation \union {Nobody}
      BY <1>1 DEF ListTypeOK
    <3>2. QED
      BY <1>1, <1>7, <3>1 DEF AllSeen
  <2>2. mail # Nobody => MailSeen(mail)'
    BY <1>1, <1>7 DEF AllSeen, ListTypeOK
  <2>3. ASSUME NEW j \in DOMAIN calls, calls'[j].done, calls'[j].value # Refused
        PROVE  IF calls'[j].op = "star" THEN StarSeen(calls[j].value)' ELSE ListSeen(calls[j].value)'
    <3>1. CASE j = i
      BY <1>4, <1>8, <3>1
    <3>2. CASE j # i
      <4>1. calls'[j] = calls[j] /\ calls[j].value \in Conversation /\ calls[j].op # "star"
        BY <1>1, <1>4, <2>3, <3>2, CallTypes DEF OneStar
      <4>2. QED
        BY <1>1, <1>7, <2>3, <4>1 DEF AllSeen
    <3>3. QED
      BY <3>1, <3>2
  <2>4. QED
    BY <1>4, <1>10, <2>1, <2>2, <2>3 DEF AllSeen
<1>12. CurrentOrComing'
  <2>1. CASE Explained
    BY <2>1 DEF Explained, CurrentOrComing
  <2>2. CASE Current
    <3>1. newest # row'.n
      BY <1>1, <1>2, <1>10
    <3>2. QED
      BY <1>2, <1>5, <1>6, <2>2, <3>1 DEF Current, CurrentOrComing
  <2>3. CASE Coming
    BY <1>4, <1>5, <2>3 DEF Coming, Tells, CurrentOrComing
  <2>4. QED
    BY <2>1, <2>2, <2>3 DEF ListInv, CurrentOrComing
<1>13. QED
  BY <1>4, <1>9, <1>11, <1>12 DEF ListInv

\* Lists and stars are answered.
LEMMA ServeKeeps ==
  ASSUME InboxListAssumption, ListInv, NEW i \in DOMAIN calls, Serve(i)
  PROVE  ListInv'
<1>1. /\ ~calls[i].done
      /\ UNCHANGED <<role, channel, mail, joined, feed, entry, starring, newest, causes, steps, faults>>
      /\ ServeList(i) \/ ServeStar(i)
  BY DEF Serve
<1>2. row \in Conversation /\ row.n \in Nat
  BY DEF ListInv, ListTypeOK, Conversation
<1>3. CASE ServeList(i)
  <2> DEFINE v == IF Listed THEN row ELSE [row EXCEPT !.there = "hidden"]
  <2>1. calls[i].op = "list" /\ Answered(i, v) /\ row' = row
    BY <1>3 DEF ServeList
  <2>2. /\ v \in Conversation /\ v.n = row.n /\ Alike(v, row) /\ v.starred = row.starred
        /\ v.there = "yes" <=> Listed
    BY <1>2 DEF Conversation, Listed, Alike
  <2> HIDE DEF v
  <2>3. ListSeen(v) /\ v \in Replies
    BY <1>2, <2>2 DEF ListSeen, Seen, Replies
  <2>4. QED
    BY <1>1, <2>1, <2>2, <2>3, AnswerKeeps DEF server
<1>4. CASE ServeStar(i)
  <2>1. CASE row.there = "yes" /\ (role = "ADMIN" \/ row.holder = "me")
    BY <1>1, <1>4, <2>1, StarKeeps DEF ServeStar
  <2>2. CASE ~(row.there = "yes" /\ (role = "ADMIN" \/ row.holder = "me"))
    <3>1. calls[i].op = "star" /\ Answered(i, Refused) /\ row' = row /\ Refused \in Replies
      BY <1>4, <2>2 DEF ServeStar, Replies
    <3>2. QED
      BY <1>1, <3>1, AnswerKeeps DEF server
  <2>3. QED
    BY <2>1, <2>2
<1>5. QED
  BY <1>1, <1>3, <1>4
-----------------------------------------------------------------------------
(***************************************************************************)
(* An answer reaches the list                                              *)
(***************************************************************************)
\* Only the answer to the star moves the base, and then to the row.
LEMMA Used ==
  ASSUME ListInv, NEW i \in DOMAIN calls, calls' = RemoveAt(calls, i),
         UNCHANGED <<role, row>>, starring /\ calls[i].op # "star" => starring'
  PROVE  /\ Base <= Base' /\ Base' \in Int /\ Base' <= row.n
         /\ calls[i].op = "list" => Base' = Base
         /\ calls[i].op = "star" =>
              /\ Base' = row.n
              /\ Base = row.n \/ (calls[i].value # Refused /\ calls[i].value.n = row.n)
<1>1. ListTypeOK /\ OneStar /\ row.n \in Nat /\ Base \in Int /\ Base <= row.n
  BY BaseType DEF ListInv
<1>2. /\ \A j \in DOMAIN calls' : \E k \in DOMAIN calls \ {i} : calls'[j] = calls[k]
      /\ \A k \in DOMAIN calls \ {i} : \E j \in DOMAIN calls' : calls'[j] = calls[k]
  BY <1>1, Dropped
<1>3. StarServed' => StarServed
  BY <1>2 DEF StarServed
<1>4. CASE calls[i].op = "list"
  <2>1. StarServed => StarServed'
    BY <1>2, <1>4 DEF StarServed
  <2>2. Base' = Base
    BY <1>3, <2>1 DEF Base
  <2>3. QED
    BY <1>1, <1>4, <2>2
<1>5. CASE calls[i].op = "star"
  <2>1. \A k \in DOMAIN calls \ {i} : calls[k].op # "star"
    BY <1>1, <1>5 DEF OneStar
  <2>2. ~StarServed'
    BY <1>2, <2>1 DEF StarServed
  <2>3. StarServed => calls[i].value # Refused /\ calls[i].value.n = row.n
    BY <2>1 DEF StarServed
  <2>4. QED
    BY <1>1, <1>5, <2>2, <2>3 DEF Base
<1>6. QED
  BY <1>1, <1>4, <1>5, CallTypes

\* Whatever the list makes of an answer, the rest of what it knows stays.
LEMMA Received ==
  ASSUME ListInv, NEW i \in DOMAIN calls, calls' = RemoveAt(calls, i),
         UNCHANGED <<role, channel, server, steps>>, faults' \in Nat,
         entry' \in Conversation \union {Nobody}, starring' \in BOOLEAN,
         starring /\ calls[i].op # "star" => starring',
         newest' \in Nat, newest' <= row.n,
         CurrentOrComing'
  PROVE  ListInv'
<1>1. ListTypeOK /\ OneStar /\ AllSeen
  BY DEF ListInv
<1>2. UNCHANGED <<row, mail, feed, joined>>
  BY DEF server
<1>3. /\ calls' \in Seq(Requests) /\ (\A j \in DOMAIN calls' : Formed(calls'[j])) /\ OneStar'
      /\ \A j \in DOMAIN calls' : \E k \in DOMAIN calls \ {i} : calls'[j] = calls[k]
  BY <1>1, Dropped
<1>4. Base <= Base'
  BY <1>2, Used
<1>5. \A r \in Conversation : /\ MailSeen(r) => MailSeen(r)'
                              /\ ListSeen(r) => ListSeen(r)'
                              /\ StarSeen(r) => StarSeen(r)'
  BY <1>1, <1>2, <1>4, RowStays
<1>6. ListTypeOK'
  BY <1>1, <1>2, <1>3 DEF ListTypeOK
<1>7. AllSeen'
  <2>1. ASSUME NEW j \in DOMAIN feed, feed[j] # Nobody PROVE MailSeen(feed[j])'
    <3>1. PICK r \in Conversation : r = feed[j] /\ MailSeen(r)
      BY <1>1, <2>1 DEF AllSeen, ListTypeOK
    <3>2. QED
      BY <1>2, <1>5, <3>1
  <2>2. ASSUME mail # Nobody PROVE MailSeen(mail)'
    <3>1. PICK r \in Conversation : r = mail /\ MailSeen(r)
      BY <1>1, <2>2 DEF AllSeen, ListTypeOK
    <3>2. QED
      BY <1>2, <1>5, <3>1
  <2>3. ASSUME NEW j \in DOMAIN calls', calls'[j].done, calls'[j].value # Refused
        PROVE  IF calls'[j].op = "star" THEN StarSeen(calls[j].value)' ELSE ListSeen(calls[j].value)'
    <3>1. PICK k \in DOMAIN calls \ {i} : calls'[j] = calls[k]
      BY <1>3
    <3>2. PICK r \in Conversation : r = calls[k].value
      BY <1>1, <2>3, <3>1, CallTypes
    <3>3. IF calls[k].op = "star" THEN StarSeen(r) ELSE ListSeen(r)
      BY <1>1, <2>3, <3>1, <3>2 DEF AllSeen
    <3>4. IF calls[k].op = "star" THEN StarSeen(r)' ELSE ListSeen(r)'
      BY <1>5, <3>3
    <3>5. QED
      BY <3>1, <3>2, <3>4
  <2>4. QED
    BY <1>2, <2>1, <2>2, <2>3 DEF AllSeen
<1>8. QED
  BY <1>3, <1>6, <1>7 DEF ListInv

\* An answer that says nothing leaves what is coming.
LEMMA StillComing ==
  ASSUME InboxListAssumption, ListInv, NEW i \in DOMAIN calls, calls' = RemoveAt(calls, i),
         UNCHANGED <<role, channel, server>>,
         starring /\ calls[i].op # "star" => starring',
         newest' \in Nat, newest <= newest', Base' = Base \/ newest' = row.n,
         calls[i].op = "star" \/ (calls[i].done /\ ~Tells(calls[i].value)),
         Coming
  PROVE  Coming'
<1>1. ListTypeOK /\ OneStar /\ AllSeen
  BY DEF ListInv
<1>2. UNCHANGED <<row, mail, feed>>
  BY DEF server
<1>3. Base <= Base'
  BY <1>2, Used
<1>4. \A r \in Conversation \union {Nobody} :
        r # Nobody /\ r.n <= row.n /\ Tells(r) => Tells(r)'
  BY <1>1, <1>2, <1>3, StillTells
<1>5. CASE mail # Nobody /\ Tells(mail)
  <2>1. mail \in Conversation /\ mail.n <= row.n
    BY <1>1, <1>5 DEF AllSeen, MailSeen, Seen, ListTypeOK
  <2>2. \A r : r = mail => Tells(r)'
    BY <1>4, <1>5, <2>1
  <2>3. QED
    BY <1>2, <1>5, <2>2 DEF Coming
<1>6. CASE \E j \in DOMAIN feed : feed[j] = Nobody \/ Tells(feed[j])
  <2>1. PICK j \in DOMAIN feed : feed[j] = Nobody \/ Tells(feed[j])
    BY <1>6
  <2>2. CASE feed[j] = Nobody
    BY <1>2, <2>2 DEF Coming
  <2>3. CASE feed[j] # Nobody
    <3>1. feed[j] \in Conversation /\ feed[j].n <= row.n
      BY <1>1, <2>3 DEF AllSeen, MailSeen, Seen, ListTypeOK
    <3>2. \A r : r = feed[j] => Tells(r)'
      BY <1>4, <2>1, <2>3, <3>1
    <3>3. QED
      BY <1>2, <3>2 DEF Coming
  <2>4. QED
    BY <2>2, <2>3
<1>7. CASE \E j \in DOMAIN calls : calls[j].op = "list" /\ (calls[j].done => Tells(calls[j].value))
  <2>1. PICK k \in DOMAIN calls : calls[k].op = "list" /\ (calls[k].done => Tells(calls[k].value))
    BY <1>7
  <2>2. k # i
    BY <2>1
  <2>3. PICK j \in DOMAIN calls' : calls'[j] = calls[k]
    BY <1>1, <2>2, Dropped
  <2>4. ASSUME calls[k].done PROVE \A r : r = calls[k].value => Tells(r)'
    <3>1. calls[k].value # Refused
      BY <1>1, <2>1, <2>4, CallTypes DEF Formed, InboxListAssumption
    <3>2. calls[k].value \in Conversation /\ calls[k].value.n <= row.n
      BY <1>1, <2>1, <2>4, <3>1, CallTypes DEF AllSeen, ListSeen, Seen
    <3>3. calls[k].value # Nobody
      BY <3>2 DEF InboxListAssumption
    <3>4. QED
      BY <1>4, <2>1, <2>4, <3>2, <3>3
  <2>5. calls'[j].op = "list" /\ (calls'[j].done => \A r : r = calls'[j].value => Tells(r)')
    BY <2>1, <2>3, <2>4
  <2>6. QED
    BY <2>5 DEF Coming
<1>8. QED
  BY <1>5, <1>6, <1>7 DEF Coming

\* A list is the entry as the row was when it was read.
LEMMA ListShown ==
  ASSUME InboxListAssumption, ListInv, NEW i \in DOMAIN calls, calls[i].done,
         calls[i].value # Refused, ShowList(i), calls' = RemoveAt(calls, i),
         UNCHANGED <<role, channel, server, steps, faults>>
  PROVE  ListInv'
<1> DEFINE r == calls[i].value
<1>1. /\ ListTypeOK /\ AllSeen /\ newest \in Nat /\ newest <= row.n /\ row.n \in Nat
      /\ Base \in Int /\ Base <= row.n
  BY BaseType DEF ListInv, ListTypeOK, AllSeen
<1>2. calls[i].op = "list" /\ entry' = (IF r.there = "yes" THEN r ELSE Nobody) /\ Shows(r, {})
      /\ starring' = starring
  BY DEF ShowList
<1>3. r \in Conversation /\ r.n \in Nat /\ ListSeen(r) /\ r # Nobody
  BY <1>1, <1>2, CallTypes DEF AllSeen, InboxListAssumption
<1>4. (~Tells(r) => ~Tells(calls[i].value)) /\ (starring /\ calls[i].op # "star" => starring')
  BY <1>2
<1> HIDE DEF r
<1>5. UNCHANGED <<row, mail, feed, joined>>
  BY DEF server
<1>6. Base' = Base
  BY <1>2, <1>4, <1>5, Used
<1>7. newest' = (IF r.n > newest THEN r.n ELSE newest) /\ newest' \in Nat /\ newest <= newest'
      /\ newest' <= row.n /\ r.n <= newest' /\ r.n <= row.n
  BY <1>1, <1>2, <1>3 DEF Shows, ListSeen, Seen
<1>8. ASSUME r.n >= Base, newest' = r.n, r.n = row.n \/ causes' = causes PROVE Current'
  <2>1. Alike(r, row) /\ (r.there = "yes" <=> Listed) /\ (r.n = row.n => r.starred = row.starred)
    BY <1>3, <1>8 DEF ListSeen, Seen
  <2>2. (Listed' <=> Listed) /\ newest' >= Base'
    BY <1>5, <1>6, <1>8 DEF Listed
  <2>3. Listed' <=> entry' # Nobody
    BY <1>2, <1>3, <2>1, <2>2
  <2>4. entry' # Nobody => entry' = r
    BY <1>2
  <2>5. QED
    BY <1>5, <1>8, <2>1, <2>2, <2>3, <2>4 DEF Current, Alike
<1>9. CurrentOrComing'
  <2>1. CASE r.n = row.n
    <3>1. newest' = r.n
      BY <1>1, <1>3, <1>7, <2>1
    <3>2. QED
      BY <1>1, <1>8, <2>1, <3>1 DEF CurrentOrComing
  <2>2. CASE r.n # row.n /\ r.n < newest
    BY <1>2, <2>2 DEF Shows, Explained, Causes, CurrentOrComing
  <2>3. CASE r.n # row.n /\ ~(r.n < newest)
    <3>1. causes' = causes /\ newest' = r.n
      BY <1>1, <1>2, <1>3, <1>7, <2>3 DEF Shows
    <3>2. CASE r.n >= Base
      BY <1>8, <3>1, <3>2 DEF CurrentOrComing
    <3>3. CASE ~(r.n >= Base)
      <4>1. ~Tells(r)
        BY <2>3, <3>3 DEF Tells
      <4>2. CASE Explained
        BY <3>1, <4>2 DEF Explained, CurrentOrComing
      <4>3. ~Current
        BY <1>1, <1>3, <1>7, <3>1, <3>3 DEF Current
      <4>4. CASE Coming
        BY <1>4, <1>5, <1>6, <1>7, <4>1, <4>4, StillComing DEF CurrentOrComing
      <4>5. QED
        BY <4>2, <4>3, <4>4 DEF ListInv, CurrentOrComing
    <3>4. QED
      BY <3>2, <3>3
  <2>4. QED
    BY <2>1, <2>2, <2>3
<1>10. entry' \in Conversation \union {Nobody} /\ starring' \in BOOLEAN /\ faults' \in Nat
  BY <1>1, <1>2, <1>3 DEF ListTypeOK
<1>11. QED
  BY <1>4, <1>7, <1>9, <1>10, Received

\* A star leaves the rest of the entry.
LEMMA StarShown ==
  ASSUME InboxListAssumption, ListInv, NEW i \in DOMAIN calls, calls[i].done,
         calls[i].value # Refused, ShowStar(i), calls' = RemoveAt(calls, i),
         UNCHANGED <<role, channel, server, steps, faults>>
  PROVE  ListInv'
<1> DEFINE r == calls[i].value
           star == r.starred
<1>1. /\ ListTypeOK /\ AllSeen /\ newest \in Nat /\ newest <= row.n /\ row.n \in Nat
      /\ Base \in Int /\ Base <= row.n
  BY BaseType DEF ListInv, ListTypeOK, AllSeen
<1>2. /\ calls[i].op = "star" /\ starring' = FALSE
      /\ entry' = (IF entry = Nobody THEN entry ELSE [entry EXCEPT !.starred = star])
      /\ newest' = (IF r.n > newest THEN r.n ELSE newest)
      /\ causes' = (IF r.n < newest THEN causes \union {"older"} ELSE causes)
  BY DEF ShowStar
<1>3. r \in Conversation /\ r.n \in Nat /\ StarSeen(r) /\ star \in BOOLEAN
  <2>1. r \in Conversation
    BY <1>1, CallTypes
  <2>2. QED
    BY <1>1, <1>2, <2>1 DEF AllSeen, Conversation
<1>4. UNCHANGED <<row, mail, feed, joined>>
  BY DEF server
<1>5. Base' = row.n /\ (Base = row.n \/ r.n = row.n)
  BY <1>2, <1>4, Used
<1>6. StarSeen(r) => (r.n = row.n => star = row.starred)
  BY DEF StarSeen
<1> HIDE DEF r, star
<1>7. /\ newest' \in Nat /\ newest <= newest' /\ newest' <= row.n /\ r.n <= row.n
      /\ (~(r.n < newest) => newest' = r.n /\ causes' = causes)
  BY <1>1, <1>2, <1>3 DEF StarSeen
<1>8. /\ entry' \in Conversation \union {Nobody}
      /\ entry' # Nobody <=> entry # Nobody
      /\ entry' # Nobody =>
           /\ entry'.status = entry.status /\ entry'.holder = entry.holder
           /\ entry'.unread = entry.unread /\ entry'.last = entry.last /\ entry'.starred = star
  <2>1. CASE entry = Nobody
    BY <1>2, <2>1
  <2>2. CASE entry # Nobody
    <3>1. entry \in Conversation /\ entry' = [entry EXCEPT !.starred = star]
      BY <1>1, <1>2, <2>2 DEF ListTypeOK
    <3>2. entry' \in Conversation
      BY <1>3, <3>1 DEF Conversation
    <3>3. /\ entry'.status = entry.status /\ entry'.holder = entry.holder
          /\ entry'.unread = entry.unread /\ entry'.last = entry.last /\ entry'.starred = star
      BY <3>1 DEF Conversation
    <3>4. QED
      BY <2>2, <3>2, <3>3 DEF InboxListAssumption
  <2>3. QED
    BY <2>1, <2>2
<1>9. CurrentOrComing'
  <2>1. CASE r.n < newest
    BY <1>2, <2>1 DEF Explained, Causes, CurrentOrComing
  <2>2. CASE ~(r.n < newest)
    <3>1. newest' = r.n /\ causes' = causes
      BY <1>7, <2>2
    <3>2. CASE Explained
      BY <3>1, <3>2 DEF Explained, CurrentOrComing
    <3>3. CASE Current
      <4>1. r.n = row.n
        BY <1>1, <1>3, <1>5, <1>7, <3>1, <3>3 DEF Current
      <4>2. star = row.starred /\ newest' >= Base'
        BY <1>1, <1>3, <1>5, <1>6, <3>1, <4>1
      <4>3. Listed' <=> Listed
        BY <1>4 DEF Listed
      <4>4. QED
        BY <1>4, <1>8, <3>1, <3>3, <4>2, <4>3 DEF Current, CurrentOrComing
    <3>4. CASE Coming
      <4>1. Base' = Base \/ newest' = row.n
        BY <1>5, <3>1
      <4>2. QED
        BY <1>2, <1>7, <3>4, <4>1, StillComing DEF CurrentOrComing
    <3>5. QED
      BY <3>2, <3>3, <3>4 DEF ListInv, CurrentOrComing
  <2>3. QED
    BY <2>1, <2>2
<1>10. starring' \in BOOLEAN /\ faults' \in Nat
  BY <1>1, <1>2 DEF ListTypeOK
<1>11. QED
  BY <1>2, <1>7, <1>8, <1>9, <1>10, Received

\* A request that fails is a cause.
LEMMA FailureKeeps ==
  ASSUME InboxListAssumption, ListInv, NEW i \in DOMAIN calls, calls' = RemoveAt(calls, i),
         Failed(i), UNCHANGED <<role, channel, server, steps>>, faults' \in Nat
  PROVE  ListInv'
<1>1. ListTypeOK /\ AllSeen /\ newest <= row.n
  BY DEF ListInv, AllSeen
<1>2. starring' \in BOOLEAN /\ entry' = entry /\ newest' = newest /\ Explained'
      /\ (starring /\ calls[i].op # "star" => starring')
  BY DEF Failed, Explained, Causes
<1>3. QED
  BY <1>1, <1>2, Received DEF ListTypeOK, CurrentOrComing

\* Answers and failures reach the list.
LEMMA AnswersKeep ==
  ASSUME InboxListAssumption, ListInv, NEW i \in DOMAIN calls, Answer(i) \/ Fail(i)
  PROVE  ListInv'
<1>1. faults \in Nat
  BY DEF ListInv, ListTypeOK
<1>2. CASE Answer(i)
  <2>1. /\ calls[i].done /\ calls' = RemoveAt(calls, i)
        /\ UNCHANGED <<role, channel, server, steps, faults>>
    BY <1>2 DEF Answer
  <2>2. CASE calls[i].value = Refused
    BY <1>1, <1>2, <2>1, <2>2, FailureKeeps DEF Answer
  <2>3. CASE calls[i].value # Refused
    BY <1>2, <2>1, <2>3, ListShown, StarShown DEF Answer
  <2>4. QED
    BY <2>2, <2>3
<1>3. CASE Fail(i)
  <2>1. faults' \in Nat
    BY <1>1, <1>3 DEF Fail
  <2>2. QED
    BY <1>3, <2>1, FailureKeeps DEF Fail
<1>4. QED
  BY <1>2, <1>3
-----------------------------------------------------------------------------
(***************************************************************************)
(* The list hears of the row, and asks                                     *)
(***************************************************************************)
\* A request that is sent is the last one, and not answered.
LEMMA Asked ==
  ASSUME ListInv, NEW c \in Requests, Formed(c), ~c.done, calls' = Append(calls, c),
         row' = row, starring => starring', c.op = "star" => ~starring /\ starring'
  PROVE  /\ calls' \in Seq(Requests) /\ (\A j \in DOMAIN calls' : Formed(calls'[j]))
         /\ OneStar' /\ Base' = Base
         /\ \A j \in DOMAIN calls' : calls'[j] = c \/ \E k \in DOMAIN calls : calls'[j] = calls[k]
         /\ \A k \in DOMAIN calls : \E j \in DOMAIN calls' : calls'[j] = calls[k]
         /\ \E j \in DOMAIN calls' : calls'[j] = c
<1>1. /\ ListTypeOK /\ OneStar /\ calls \in Seq(Requests)
      /\ \A j \in DOMAIN calls : Formed(calls[j])
  BY DEF ListInv, ListTypeOK
<1>2. /\ calls' \in Seq(Requests) /\ DOMAIN calls' = 1..Len(calls) + 1 /\ Len(calls) \in Nat
      /\ DOMAIN calls = 1..Len(calls) /\ \A j \in DOMAIN calls : calls'[j] = calls[j]
      /\ calls'[Len(calls) + 1] = c
  BY <1>1, Appending
<1>3. /\ \A j \in DOMAIN calls' : j \in DOMAIN calls \/ j = Len(calls) + 1
      /\ \A j \in DOMAIN calls : j \in DOMAIN calls'
      /\ Len(calls) + 1 \in DOMAIN calls'
  BY <1>2
<1>4. \A j \in DOMAIN calls' : Formed(calls'[j])
  BY <1>1, <1>2, <1>3
<1>5. OneStar'
  <2> SUFFICES ASSUME NEW i \in DOMAIN calls', NEW j \in DOMAIN calls', calls'[i].op = "star"
               PROVE  starring' /\ (calls'[j].op = "star" => i = j)
    BY DEF OneStar
  <2>1. CASE c.op = "star"
    <3>1. \A k \in DOMAIN calls : calls[k].op # "star"
      BY <1>1, <2>1 DEF OneStar
    <3>2. QED
      BY <1>2, <1>3, <2>1, <3>1
  <2>2. CASE c.op # "star"
    BY <1>1, <1>2, <1>3, <2>2 DEF OneStar
  <2>3. QED
    BY <2>1, <2>2
<1>6. StarServed' <=> StarServed
  <2>1. StarServed => StarServed'
    BY <1>2, <1>3 DEF StarServed
  <2>2. StarServed' => StarServed
    BY <1>2, <1>3 DEF StarServed
  <2>3. QED
    BY <2>1, <2>2
<1>7. Base' = Base
  BY <1>6 DEF Base
<1>8. QED
  BY <1>2, <1>3, <1>4, <1>5, <1>7

\* What was read stays what it is while neither the row nor an answer moves.
LEMMA Undisturbed ==
  ASSUME ListInv, UNCHANGED <<role, channel, row>>, Base' = Base,
         ListTypeOK', OneStar', newest' <= row.n,
         mail' = mail,
         \A j \in DOMAIN feed' : \E k \in DOMAIN feed : feed'[j] = feed[k],
         \A j \in DOMAIN calls' :
           ~calls'[j].done \/ \E k \in DOMAIN calls : calls'[j] = calls[k],
         CurrentOrComing'
  PROVE  ListInv'
<1>1. ListTypeOK /\ AllSeen /\ Base \in Int
  BY BaseType DEF ListInv
<1>2. \A r \in Conversation : /\ MailSeen(r) => MailSeen(r)'
                              /\ ListSeen(r) => ListSeen(r)'
                              /\ StarSeen(r) => StarSeen(r)'
  BY <1>1, RowStays
<1>3. ASSUME NEW j \in DOMAIN feed', feed'[j] # Nobody PROVE MailSeen(feed[j])'
  <2>1. PICK k \in DOMAIN feed : feed'[j] = feed[k]
    BY <1>3
  <2>2. PICK r \in Conversation : r = feed[k] /\ MailSeen(r)
    BY <1>1, <1>3, <2>1 DEF AllSeen, ListTypeOK
  <2>3. QED
    BY <1>2, <2>1, <2>2
<1>4. ASSUME mail # Nobody PROVE MailSeen(mail)'
  <2>1. PICK r \in Conversation : r = mail /\ MailSeen(r)
    BY <1>1, <1>4 DEF AllSeen, ListTypeOK
  <2>2. QED
    BY <1>2, <2>1
<1>5. ASSUME NEW j \in DOMAIN calls', calls'[j].done, calls'[j].value # Refused
      PROVE  IF calls'[j].op = "star" THEN StarSeen(calls[j].value)' ELSE ListSeen(calls[j].value)'
  <2>1. PICK k \in DOMAIN calls : calls'[j] = calls[k]
    BY <1>5
  <2>2. PICK r \in Conversation : r = calls[k].value
    BY <1>1, <1>5, <2>1, CallTypes
  <2>3. IF calls[k].op = "star" THEN StarSeen(r) ELSE ListSeen(r)
    BY <1>1, <1>5, <2>1, <2>2 DEF AllSeen
  <2>4. IF calls[k].op = "star" THEN StarSeen(r)' ELSE ListSeen(r)'
    BY <1>2, <2>3
  <2>5. QED
    BY <2>1, <2>2, <2>4
<1>6. AllSeen'
  BY <1>3, <1>4, <1>5 DEF AllSeen
<1>7. QED
  BY <1>6 DEF ListInv

\* The entry is the row of a mail, but for what was written last.
LEMMA MailMerged ==
  ASSUME InboxListAssumption, ListInv, feed # <<>>, Head(feed) # Nobody, ~NotHis(Head(feed)),
         Merge(Head(feed)), feed' = Tail(feed), UNCHANGED <<role, channel, row, mail>>
  PROVE  /\ entry' \in Conversation /\ newest' \in Nat /\ newest' <= row.n /\ Base' = Base
         /\ CurrentOrComing'
<1> DEFINE r == Head(feed)
           last == IF entry = Nobody THEN 0 ELSE entry.last
<1>1. /\ ListTypeOK /\ AllSeen /\ newest \in Nat /\ newest <= row.n /\ row.n \in Nat
      /\ Base \in Int /\ Base <= row.n
  BY BaseType DEF ListInv, ListTypeOK, AllSeen
<1>2. /\ r \in Conversation \union {Nobody} /\ r = feed[1] /\ 1 \in DOMAIN feed
      /\ \A j \in DOMAIN feed \ {1} : j - 1 \in DOMAIN feed' /\ feed'[j - 1] = feed[j]
  BY <1>1, TakingHead DEF ListTypeOK
<1>3. r \in Conversation /\ r.n \in Nat /\ MailSeen(r) /\ ~NotHis(r)
  <2>1. r \in Conversation
    BY <1>2
  <2>2. QED
    BY <1>1, <1>2, <2>1 DEF AllSeen, Conversation
<1>4. last \in Nat
  <2>1. entry # Nobody => entry.last \in Nat
    BY <1>1 DEF ListTypeOK, Conversation
  <2>2. QED
    BY <2>1
<1>5. entry' = [r EXCEPT !.last = last] /\ Shows(r, {"preview"}) /\ calls' = calls
  BY DEF Merge
<1> HIDE DEF r, last
<1>6. /\ entry' \in Conversation /\ entry' # Nobody /\ entry'.status = r.status
      /\ entry'.holder = r.holder /\ entry'.unread = r.unread /\ entry'.starred = r.starred
  <2>1. /\ entry' \in Conversation /\ entry'.status = r.status
        /\ entry'.holder = r.holder /\ entry'.unread = r.unread /\ entry'.starred = r.starred
    BY <1>3, <1>4, <1>5 DEF Conversation
  <2>2. QED
    BY <2>1 DEF InboxListAssumption
<1>7. Base' = Base
  BY <1>5 DEF Base, StarServed
<1>8. newest' = (IF r.n > newest THEN r.n ELSE newest) /\ newest' \in Nat /\ newest <= newest'
      /\ newest' <= row.n /\ r.n <= newest' /\ r.n <= row.n
  BY <1>1, <1>3, <1>5 DEF Shows, MailSeen, Seen
<1>9. ASSUME r.n >= Base, newest' = r.n, "preview" \in causes' PROVE Current'
  <2>1. /\ Alike(r, row) /\ row.there = "yes" /\ (r.n = row.n => r.starred = row.starred)
    BY <1>3, <1>9 DEF MailSeen, Seen
  <2>2. Listed'
    BY <1>1, <1>3, <2>1 DEF Listed, NotHis, Alike, ListTypeOK
  <2>3. QED
    BY <1>6, <1>7, <1>9, <2>1, <2>2 DEF Current, Alike
<1>10. CurrentOrComing'
  <2>1. CASE r.n = row.n
    <3>1. newest' = r.n /\ "preview" \in causes'
      BY <1>1, <1>3, <1>5, <1>8, <2>1 DEF Shows
    <3>2. QED
      BY <1>1, <1>9, <2>1, <3>1 DEF CurrentOrComing
  <2>2. CASE r.n # row.n /\ r.n < newest
    BY <1>5, <2>2 DEF Shows, Explained, Causes, CurrentOrComing
  <2>3. CASE r.n # row.n /\ ~(r.n < newest)
    <3>1. causes' = causes \union {"preview"} /\ newest' = r.n
      BY <1>1, <1>3, <1>5, <1>8, <2>3 DEF Shows
    <3>2. CASE r.n >= Base
      BY <1>9, <3>1, <3>2 DEF CurrentOrComing
    <3>3. CASE ~(r.n >= Base)
      <4>1. ~Tells(r)
        BY <2>3, <3>3 DEF Tells
      <4>2. CASE Explained
        BY <3>1, <4>2 DEF Explained, CurrentOrComing
      <4>3. ~Current
        BY <1>1, <1>3, <1>8, <3>1, <3>3 DEF Current
      <4>4. CASE Coming
        <5>1. \A s \in Conversation \union {Nobody} :
                s # Nobody /\ s.n <= row.n /\ Tells(s) => Tells(s)'
          BY <1>1, <1>7, <1>8, StillTells
        <5>2. CASE mail # Nobody /\ Tells(mail)
          <6>1. mail \in Conversation /\ mail.n <= row.n
            BY <1>1, <5>2 DEF AllSeen, MailSeen, Seen, ListTypeOK
          <6>2. \A s : s = mail => Tells(s)'
            BY <5>1, <5>2, <6>1
          <6>3. QED
            BY <5>2, <6>2 DEF Coming, CurrentOrComing
        <5>3. CASE \E j \in DOMAIN feed : feed[j] = Nobody \/ Tells(feed[j])
          <6>1. PICK j \in DOMAIN feed : feed[j] = Nobody \/ Tells(feed[j])
            BY <5>3
          <6>2. j # 1
            BY <1>2, <1>3, <4>1, <6>1 DEF InboxListAssumption
          <6>3. j - 1 \in DOMAIN feed' /\ feed'[j - 1] = feed[j]
            BY <1>2, <6>2
          <6>4. CASE feed[j] = Nobody
            BY <6>3, <6>4 DEF Coming, CurrentOrComing
          <6>5. CASE feed[j] # Nobody
            <7>1. feed[j] \in Conversation /\ feed[j].n <= row.n
              BY <1>1, <6>5 DEF AllSeen, MailSeen, Seen, ListTypeOK
            <7>2. \A s : s = feed[j] => Tells(s)'
              BY <5>1, <6>1, <6>5, <7>1
            <7>3. QED
              BY <6>3, <7>2 DEF Coming, CurrentOrComing
          <6>6. QED
            BY <6>4, <6>5
        <5>4. CASE \E j \in DOMAIN calls :
                     calls[j].op = "list" /\ (calls[j].done => Tells(calls[j].value))
          <6>1. PICK j \in DOMAIN calls :
                  calls[j].op = "list" /\ (calls[j].done => Tells(calls[j].value))
            BY <5>4
          <6>2. ASSUME calls[j].done PROVE \A s : s = calls[j].value => Tells(s)'
            <7>1. calls[j].value # Refused
              BY <1>1, <6>1, <6>2, CallTypes DEF Formed, InboxListAssumption
            <7>2. calls[j].value \in Conversation /\ calls[j].value.n <= row.n
              BY <1>1, <6>1, <6>2, <7>1, CallTypes DEF AllSeen, ListSeen, Seen
            <7>3. calls[j].value # Nobody
              BY <7>2 DEF InboxListAssumption
            <7>4. QED
              BY <5>1, <6>1, <6>2, <7>2, <7>3
          <6>3. QED
            BY <1>5, <6>1, <6>2 DEF Coming, CurrentOrComing
        <5>5. QED
          BY <4>4, <5>2, <5>3, <5>4 DEF Coming
      <4>5. QED
        BY <4>2, <4>3, <4>4 DEF ListInv, CurrentOrComing
    <3>4. QED
      BY <3>2, <3>3
  <2>4. QED
    BY <2>1, <2>2, <2>3
<1>11. QED
  BY <1>6, <1>7, <1>8, <1>10

\* An event loads the list, is passed over, or brings the row.
LEMMA UpdateKeeps ==
  ASSUME InboxListAssumption, ListInv, handleUpdate
  PROVE  ListInv'
<1> DEFINE r == Head(feed)
<1>1. /\ ListTypeOK /\ OneStar /\ newest \in Nat /\ newest <= row.n
      /\ feed \in Seq(Conversation \union {Nobody}) /\ calls \in Seq(Requests)
  BY DEF ListInv, ListTypeOK, AllSeen
<1>2. /\ feed # <<>> /\ feed' = Tail(feed)
      /\ UNCHANGED <<role, channel, row, mail, joined, starring, steps, faults>>
      /\ \/ r = Nobody /\ Reload
         \/ r # Nobody /\ NotHis(r) /\ Ignore
         \/ r # Nobody /\ ~NotHis(r) /\ Merge(r)
  BY DEF handleUpdate
<1>3. /\ feed' \in Seq(Conversation \union {Nobody})
      /\ \A j \in DOMAIN feed' : \E k \in DOMAIN feed : feed'[j] = feed[k]
  BY <1>1, <1>2, TakingHead
<1>4. CASE r = Nobody /\ Reload
  <2> DEFINE c == Call("list", Nobody)
  <2>1. calls' = Append(calls, c) /\ UNCHANGED <<entry, newest, causes>>
    BY <1>4 DEF Reload
  <2>2. c \in Requests /\ Formed(c) /\ ~c.done /\ c.op = "list"
    BY DEF Call, Requests, Replies, Formed
  <2> HIDE DEF c
  <2>3. /\ calls' \in Seq(Requests) /\ (\A j \in DOMAIN calls' : Formed(calls'[j]))
        /\ OneStar' /\ Base' = Base
        /\ \A j \in DOMAIN calls' : calls'[j] = c \/ \E k \in DOMAIN calls : calls'[j] = calls[k]
        /\ \E j \in DOMAIN calls' : calls'[j] = c
    BY <1>2, <2>1, <2>2, Asked
  <2>4. ListTypeOK'
    BY <1>1, <1>2, <1>3, <2>1, <2>3 DEF ListTypeOK
  <2>5. CurrentOrComing'
    BY <2>2, <2>3 DEF CurrentOrComing, Coming
  <2>6. \A j \in DOMAIN calls' : ~calls'[j].done \/ \E k \in DOMAIN calls : calls'[j] = calls[k]
    BY <2>2, <2>3
  <2>7. QED
    BY <1>1, <1>2, <1>3, <2>1, <2>3, <2>4, <2>5, <2>6, Undisturbed
<1>5. CASE Ignore
  <2>1. UNCHANGED <<calls, entry, newest>> /\ Explained'
    BY <1>5 DEF Ignore, Explained, Causes
  <2>2. ListTypeOK' /\ OneStar' /\ CurrentOrComing' /\ Base' = Base
    BY <1>1, <1>2, <1>3, <2>1 DEF ListTypeOK, OneStar, CurrentOrComing, Base, StarServed
  <2>3. QED
    BY <1>1, <1>2, <1>3, <2>1, <2>2, Undisturbed
<1>6. CASE r # Nobody /\ ~NotHis(r) /\ Merge(r)
  <2>1. /\ entry' \in Conversation /\ newest' \in Nat /\ newest' <= row.n /\ Base' = Base
        /\ CurrentOrComing'
    BY <1>2, <1>6, MailMerged
  <2>2. calls' = calls
    BY <1>6 DEF Merge
  <2>3. ListTypeOK' /\ OneStar'
    BY <1>1, <1>2, <1>3, <2>1, <2>2 DEF ListTypeOK, OneStar
  <2>4. QED
    BY <1>1, <1>2, <1>3, <2>1, <2>2, <2>3, Undisturbed
<1>7. QED
  BY <1>2, <1>4, <1>5, <1>6

\* The star waits for its answer, and the entry with it.
LEMMA ToggleKeeps ==
  ASSUME InboxListAssumption, ListInv, handleToggleStar
  PROVE  ListInv'
<1> DEFINE star == ~entry.starred
           c == Call("star", star)
<1>1. /\ ListTypeOK /\ OneStar /\ newest \in Nat /\ newest <= row.n /\ steps \in Nat
      /\ Base \in Int
  BY BaseType DEF ListInv, ListTypeOK, AllSeen
<1>2. /\ ~starring /\ starring' = TRUE /\ calls' = Append(calls, c) /\ steps' = steps + 1
      /\ UNCHANGED <<role, channel, row, mail, joined, feed, entry, newest, causes, faults>>
  BY DEF handleToggleStar, Step, server
<1>3. star \in BOOLEAN
  OBVIOUS
<1> HIDE DEF star
<1>4. c \in Requests /\ Formed(c) /\ ~c.done /\ c.op = "star"
  BY <1>3 DEF Call, Requests, Replies, Formed
<1> HIDE DEF c
<1>5. /\ calls' \in Seq(Requests) /\ (\A j \in DOMAIN calls' : Formed(calls'[j]))
      /\ OneStar' /\ Base' = Base
      /\ \A j \in DOMAIN calls' : calls'[j] = c \/ \E k \in DOMAIN calls : calls'[j] = calls[k]
      /\ \A k \in DOMAIN calls : \E j \in DOMAIN calls' : calls'[j] = calls[k]
  BY <1>2, <1>4, Asked
<1>6. ListTypeOK'
  BY <1>1, <1>2, <1>5 DEF ListTypeOK
<1>7. CurrentOrComing'
  <2>1. CASE Explained
    BY <1>2, <2>1 DEF Explained, CurrentOrComing
  <2>2. CASE Current
    BY <1>2, <1>5, <2>2 DEF Current, Listed, CurrentOrComing
  <2>3. CASE Coming
    BY <1>2, <1>5, <2>3 DEF Coming, Tells, CurrentOrComing
  <2>4. QED
    BY <2>1, <2>2, <2>3 DEF ListInv, CurrentOrComing
<1>8. \A j \in DOMAIN calls' : ~calls'[j].done \/ \E k \in DOMAIN calls : calls'[j] = calls[k]
  BY <1>4, <1>5
<1>9. QED
  BY <1>1, <1>2, <1>5, <1>6, <1>7, <1>8, Undisturbed

\* A lost connection takes the events on it.
LEMMA SocketKeeps ==
  ASSUME ListInv, Join \/ Drop
  PROVE  ListInv'
<1>1. /\ ListTypeOK /\ OneStar /\ newest <= row.n /\ faults \in Nat
  BY DEF ListInv, ListTypeOK, AllSeen
<1>2. /\ UNCHANGED <<role, channel, row, mail, calls, entry, starring, newest, steps>>
      /\ joined' \in BOOLEAN /\ faults' \in Nat
      /\ (feed' = feed /\ causes' = causes) \/ (feed' = <<>> /\ Explained')
  <2>1. CASE Join
    BY <1>1, <2>1 DEF Join, browserVars
  <2>2. CASE Drop
    <3>1. /\ joined' = FALSE /\ faults' = faults + 1 /\ feed' = <<>>
          /\ causes' = IF feed = <<>> THEN causes ELSE causes \union {"lost"}
          /\ UNCHANGED <<role, channel, row, mail, calls, entry, starring, newest, steps>>
      BY <2>2 DEF Drop, browserVars
    <3>2. faults' \in Nat
      BY <1>1, <3>1
    <3>3. joined' \in BOOLEAN
      BY <3>1, Zenon
    <3>4. feed # <<>> => Explained'
      BY <3>1 DEF Explained, Causes
    <3>5. QED
      BY <3>1, <3>2, <3>3, <3>4
  <2>3. QED
    BY <2>1, <2>2
<1>3. /\ feed' \in Seq(Conversation \union {Nobody})
      /\ \A j \in DOMAIN feed' : \E k \in DOMAIN feed : feed'[j] = feed[k]
  <2>1. CASE feed' = feed
    BY <1>1, <2>1 DEF ListTypeOK
  <2>2. CASE feed' = <<>>
    <3>1. feed' \in Seq(Conversation \union {Nobody})
      BY <2>2, EmptySeq
    <3>2. DOMAIN feed' = {}
      BY <2>2
    <3>3. QED
      BY <3>1, <3>2
  <2>3. QED
    BY <1>2, <2>1, <2>2
<1>4. Base' = Base
  BY <1>2 DEF Base, StarServed
<1>5. ListTypeOK' /\ OneStar'
  BY <1>1, <1>2, <1>3 DEF ListTypeOK, OneStar
<1>6. CurrentOrComing'
  <2>1. CASE Explained'
    BY <2>1 DEF CurrentOrComing
  <2>2. CASE feed' = feed /\ causes' = causes
    BY <1>2, <1>4, <2>2 DEF ListInv, CurrentOrComing, Explained, Current, Coming, Tells, Listed
  <2>3. QED
    BY <1>2, <2>1, <2>2
<1>7. QED
  BY <1>1, <1>2, <1>3, <1>4, <1>5, <1>6, Undisturbed

\* The first load is under way.
LEMMA ListStarts ==
  ASSUME InboxListAssumption, ListInit
  PROVE  ListInv
<1> DEFINE c == Call("list", Nobody)
<1>1. c \in Requests /\ Formed(c) /\ ~c.done /\ c.op = "list"
  BY DEF Call, Requests, Replies, Formed
<1>2. calls = <<c>>
  BY DEF ListInit
<1> HIDE DEF c
<1>3. /\ calls \in Seq(Requests) /\ DOMAIN calls = {1} /\ calls[1] = c
  BY <1>1, <1>2
<1>4. /\ role \in {"ADMIN", "AGENT"} /\ channel \in {"EMAIL", "META"} /\ joined \in BOOLEAN
      /\ mail = Nobody /\ feed = <<>> /\ entry = Nobody /\ starring \in BOOLEAN
      /\ newest = 0 /\ steps = 0 /\ faults = 0
  BY DEF ListInit
<1>5. row \in Conversation /\ row.there # "hidden" /\ row.n = 0
  <2>1. PICK t \in {"no", "yes"} :
          row = [there |-> t, status |-> "OPEN", holder |-> Nobody, starred |-> FALSE,
                 unread |-> 0, last |-> 0, mine |-> FALSE, n |-> 0]
    BY DEF ListInit
  <2>2. QED
    BY <2>1 DEF Conversation
<1>6. ListTypeOK
  BY <1>1, <1>3, <1>4, <1>5 DEF ListTypeOK
<1>7. OneStar /\ AllSeen /\ Coming
  BY <1>1, <1>3, <1>4, <1>5 DEF OneStar, AllSeen, Coming
<1>8. QED
  BY <1>6, <1>7 DEF ListInv, CurrentOrComing
-----------------------------------------------------------------------------
(***************************************************************************)
(* The results                                                             *)
(***************************************************************************)
\* The list is the row, or something is on its way that makes it so, or it is known
\* why not: useConversationInbox.ts against all that changes a conversation.
THEOREM ListInvariance == ListSpec => []ListInv
<1> USE InboxListAssumption
<1>1. ListInit => ListInv
  BY ListStarts
<1>2. ListInv /\ [ListNext]_listVars => ListInv'
  <2> SUFFICES ASSUME ListInv, [ListNext]_listVars PROVE ListInv'
    OBVIOUS
  <2>1. ASSUME UNCHANGED listVars PROVE ListInv'
    <3>1. UNCHANGED <<role, channel, row, mail, joined, feed, calls, entry, starring, newest,
                      causes, steps, faults>>
      BY <2>1 DEF listVars, server, browserVars
    <3>2. ListTypeOK' /\ OneStar' /\ Base' = Base
      BY <3>1 DEF ListInv, ListTypeOK, OneStar, Base, StarServed
    <3>3. AllSeen'
      BY <3>1, <3>2 DEF ListInv, AllSeen, MailSeen, ListSeen, StarSeen, Seen, Alike, Listed
    <3>4. CurrentOrComing'
      BY <3>1, <3>2 DEF ListInv, CurrentOrComing, Explained, Current, Coming, Tells, Listed
    <3>5. QED
      BY <3>2, <3>3, <3>4 DEF ListInv
  <2>2. ASSUME NEW i \in DOMAIN calls, Serve(i) \/ Answer(i) \/ Fail(i) PROVE ListInv'
    BY <2>2, ServeKeeps, AnswersKeep
  <2>3. QED
    BY <2>1, <2>2, ChangesKeep, MailKeeps, SocketKeeps, UpdateKeeps, ToggleKeeps DEF ListNext
<1>3. QED
  BY <1>1, <1>2, PTL DEF ListSpec

\* The requests of the list, its events and its entry have their types.
THEOREM ListTypeCorrect == ListSpec => []ListTypeOK
<1>1. ListInv => ListTypeOK
  BY DEF ListInv
<1>2. QED
  BY <1>1, ListInvariance, PTL

\* Once nothing is under way the list of useConversationInbox.ts shows the row, but for
\* a change nobody announced, an event or a request lost, a mail of somebody else, an
\* answer or a row that was overtaken, and the preview of a mail.
THEOREM ListCurrent == ListSpec => []ListIsCurrent
<1>1. ListInv => ListIsCurrent
  <2> SUFFICES ASSUME ListInv, Quiet PROVE
        \/ Explained \/ (~Listed /\ entry = Nobody)
        \/ /\ Listed /\ entry # Nobody /\ Same(entry, row)
           /\ "preview" \in causes \/ entry.last = row.last
    BY DEF ListIsCurrent, Explained, Causes
  <2>1. DOMAIN calls = {} /\ DOMAIN feed = {} /\ mail = Nobody
    BY DEF Quiet
  <2>2. ~StarServed /\ ~Coming
    BY <2>1 DEF StarServed, Coming
  <2>3. Base = row.n /\ newest \in Nat /\ row.n \in Nat /\ newest <= row.n
    BY <2>2 DEF Base, ListInv, ListTypeOK, AllSeen, Conversation
  <2>4. Current => newest = row.n
    BY <2>3 DEF Current
  <2>5. Explained \/ Current
    BY <2>2 DEF ListInv, CurrentOrComing
  <2>6. QED
    BY <2>4, <2>5 DEF Current, Same
<1>2. QED
  BY <1>1, ListInvariance, PTL
=============================================================================
