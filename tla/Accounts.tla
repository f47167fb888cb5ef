------------------------------ MODULE Accounts ------------------------------
(***************************************************************************)
(* Organizations, their members, and the browsers signed in as them:       *)
(* auth.service.ts, staff.service.ts, the staff page and the super admin's *)
(* page.  A token says what its user was when he signed in; the guards ask *)
(* the token, never the table.                                             *)
(***************************************************************************)
EXTENDS Integers, FiniteSets

CONSTANTS
  Orgs, Users,      \* ids the database hands out
  Browsers,
  Emails,           \* addresses as they are typed
  lower,            \* toLowerCase().trim() of an address
  SUPER_ADMIN_EMAIL,
  maxSeats,         \* CAPS[plan].maxSeats; the table has null for every plan
  Null,
  MaxActs           \* bound: requests of all browsers

ASSUME AccountsAssumption ==
  /\ lower \in [Emails -> Emails]
  /\ \A e \in Emails : lower[lower[e]] = lower[e]
  /\ SUPER_ADMIN_EMAIL \in Emails
  /\ Null \notin Orgs \union Users
  /\ maxSeats \in Nat \union {Null}
  /\ MaxActs \in Nat

VARIABLES
  org,      \* per id: "free", "new" (not onboarded), "onboarded" or "deleted"
  user,     \* the table of users
  browser,  \* per browser: the token, the sign-in under way, the staff page
  acts

vars == <<org, user, browser, acts>>

Roles == {"ADMIN", "AGENT"}
Member == [org : Orgs, email : Emails, role : Roles, active : BOOLEAN]
NoMember == [org |-> Null, email |-> Null, role |-> Null, active |-> FALSE]
Row(o, e, r) == [org |-> o, email |-> e, role |-> r, active |-> TRUE]

\* pc: signed out; the password or the Google sign-in is waiting for its answer,
\* or about to found an organization; on the callback page with a token; signed in.
\* seen: the row the staff page shows and edits.  stale: the user's row changed
\* since the sign-in read it, or one with his address turned up.  old: the row of
\* the page changed since it was loaded.
Browser ==
  [pc : {"out", "login", "google", "found", "callback", "in"},
   user : Users \union {Null}, org : Orgs \union {Null}, role : Roles \union {Null},
   email : Emails \union {Null},
   staff : Users \union {Null}, seen : Member \union {NoMember},
   stale : BOOLEAN, old : BOOLEAN]
SignedOut ==
  [pc |-> "out", user |-> Null, org |-> Null, role |-> Null, email |-> Null,
   staff |-> Null, seen |-> NoMember, stale |-> FALSE, old |-> FALSE]

Rows == {u \in Users : user[u].org # Null}
Exists(o) == org[o] \in {"new", "onboarded"}

Init ==
  /\ org = [o \in Orgs |-> "free"]
  /\ user = [u \in Users |-> NoMember]
  /\ browser = [b \in Browsers |-> SignedOut]
  /\ acts = 0

\* Foreign key and @@unique([orgId, email]) of User.
TypeOK ==
  /\ org \in [Orgs -> {"free", "new", "onboarded", "deleted"}]
  /\ user \in [Users -> Member \union {NoMember}]
  /\ \A u \in Rows : Exists(user[u].org)
  /\ \A u, v \in Rows : user[u].org = user[v].org /\ user[u].email = user[v].email => u = v
  /\ browser \in [Browsers -> Browser]
  /\ acts \in 0..MaxActs

Act == acts < MaxActs /\ acts' = acts + 1

Rights(row) == <<row.org, row.role, row.active>>
Holds(row, e) == row.email = e /\ row.active

\* history: what the browsers know when the table of users becomes "table".
Outdated(table) ==
  [b \in Browsers |->
     LET r == browser[b]
     IN [r EXCEPT
          !.stale = \/ @
                    \/ r.user # Null /\ Rights(table[r.user]) # Rights(user[r.user])
                    \/ /\ r.pc = "found"
                       /\ \E u \in Users : Holds(table[u], r.email) /\ ~Holds(user[u], r.email),
          !.old = @ \/ (r.staff # Null /\ table[r.staff] # user[r.staff])]]

\* An id no row has or, as they are never used twice, had while a browser knew it.
Fresh(u) == u \notin Rows /\ \A b \in Browsers : u \notin {browser[b].user, browser[b].staff}

\* A new organization and its admin, in one transaction.
Found(o, u, e, state) ==
  /\ org[o] = "free"
  /\ Fresh(u)
  /\ org' = [org EXCEPT ![o] = state]
  /\ user' = [user EXCEPT ![u] = Row(o, e, "ADMIN")]

\* signToken
Token(u, row, stale) ==
  [SignedOut EXCEPT !.pc = "in", !.user = u, !.org = row.org, !.role = row.role,
                    !.stale = stale]
-----------------------------------------------------------------------------
(***************************************************************************)
(* Signing in                                                              *)
(***************************************************************************)
\* Passwords are hashed before the transaction; nothing is read in it.
registerAdmin(b, e) ==
  /\ Act
  /\ browser[b].pc = "out"
  /\ \E o \in Orgs, u \in Users :
       /\ Found(o, u, e, "onboarded")
       /\ browser' = [Outdated(user') EXCEPT ![b] = Token(u, Row(o, e, "ADMIN"), FALSE)]

\* Mutant of ActiveWith: members who were deactivated sign in as well.
KnownWith(e, chosen) == {u \in Rows : user[u].email = e /\ chosen \in {Null, user[u].org}}

\* findMany({ where: { email, isActive: true } })
ActiveWith(e, chosen) ==
  {u \in Rows : /\ user[u].email = e /\ user[u].active
                /\ chosen \in {Null, user[u].org}}

\* The rows are read, the password is compared with the first one's; without a
\* choice of organization the address must be of a single one.
login(b, e, chosen) ==
  /\ Act
  /\ browser[b].pc = "out"
  /\ LET found == ActiveWith(e, chosen)
     IN /\ Cardinality({user[u].org : u \in found}) = 1
        /\ \E u \in found :
             browser' = [browser EXCEPT ![b] = [Token(u, user[u], FALSE) EXCEPT !.pc = "login"]]
  /\ UNCHANGED <<org, user>>

\* The token is made of the row read before.
LoginAnswer(b) ==
  /\ browser[b].pc = "login"
  /\ browser' = [browser EXCEPT ![b].pc = "in"]
  /\ UNCHANGED <<org, user, acts>>

\* Mutant of loginOrRegisterWithGoogle: the address is looked up as Google spells it.
LookUpAsSpelled(b, e) ==
  /\ Act
  /\ browser[b].pc = "out"
  /\ LET found == ActiveWith(e, Null)
     IN \/ \E u \in found :
             browser' = [browser EXCEPT ![b] = [Token(u, user[u], FALSE) EXCEPT !.pc = "google"]]
        \/ /\ found = {}
           /\ browser' = [browser EXCEPT ![b].pc = "found", ![b].email = e]
  /\ UNCHANGED <<org, user>>

\* The address of a Google account is looked up in lower case; among several
\* rows the database's first is taken.
loginOrRegisterWithGoogle(b, e) ==
  /\ Act
  /\ browser[b].pc = "out"
  /\ LET found == ActiveWith(lower[e], Null)
     IN \/ \E u \in found :
             browser' = [browser EXCEPT ![b] = [Token(u, user[u], FALSE) EXCEPT !.pc = "google"]]
        \/ /\ found = {}
           /\ browser' = [browser EXCEPT ![b].pc = "found", ![b].email = lower[e]]
  /\ UNCHANGED <<org, user>>

\* No row was found: a new organization, not onboarded yet.
FoundByGoogle(b) ==
  /\ browser[b].pc = "found"
  /\ \E o \in Orgs, u \in Users :
       /\ Found(o, u, browser[b].email, "new")
       /\ browser' = [Outdated(user') EXCEPT ![b] =
            [Token(u, Row(o, browser[b].email, "ADMIN"), FALSE) EXCEPT !.pc = "google"]]
  /\ UNCHANGED acts

\* The browser is sent to the callback page with the token.
Redirected(u, row, stale) == [Token(u, row, stale) EXCEPT !.pc = "callback"]

\* The row is read again, by id, for the token; when it is gone the answer is an
\* error.  isActive is that of the first read.
GoogleAnswer(b) ==
  LET u == browser[b].user
      row == user[u]
  IN /\ browser[b].pc = "google"
     /\ browser' = [browser EXCEPT ![b] =
          IF u \in Rows /\ row.org = browser[b].org
          THEN Redirected(u, row, browser[b].stale /\ ~row.active) ELSE SignedOut]
     /\ UNCHANGED <<org, user, acts>>

\* The page keeps the token and asks getMe for its user, whatever he has become
\* since; without an answer it forgets the token.
validateTokenAndNavigate(b) ==
  /\ browser[b].pc = "callback"
  /\ \/ /\ browser[b].user \in Rows
        /\ browser' = [browser EXCEPT ![b].pc = "in"]
     \/ browser' = [browser EXCEPT ![b] = SignedOut]
  /\ UNCHANGED <<org, user, acts>>

\* Logged out, the token's seven days are over, or getMe did not find the row.
SignOut(b) ==
  /\ browser[b].pc = "in"
  /\ browser' = [browser EXCEPT ![b] = SignedOut]
  /\ UNCHANGED <<org, user, acts>>
-----------------------------------------------------------------------------
(***************************************************************************)
(* The staff page                                                          *)
(***************************************************************************)
\* The guards ask the token.
RolesGuard(b) == browser[b].pc = "in" /\ browser[b].role = "ADMIN"

capabilities == [seats |-> maxSeats]
countActiveSeats(o) == Cardinality({u \in Rows : user[u].org = o /\ user[u].active})

\* Limits nothing as long as the table of plans says null.
assertCanAddSeat(o) ==
  IF capabilities.seats = Null THEN TRUE ELSE countActiveSeats(o) < capabilities.seats

Unused(o, e, u) == \A v \in Rows \ {u} : ~(user[v].org = o /\ user[v].email = e)

\* The token's organization may be gone: the foreign key refuses.
createStaff(o, e) ==
  /\ assertCanAddSeat(o)
  /\ Exists(o) /\ Unused(o, e, Null)
  /\ \E u \in Users : Fresh(u) /\ user' = [user EXCEPT ![u] = Row(o, e, "AGENT")]

\* The page asks for the list again; an open row is not touched.
handleCreateStaff(b, e) ==
  /\ Act
  /\ RolesGuard(b)
  /\ createStaff(browser[b].org, e)
  /\ browser' = Outdated(user')
  /\ UNCHANGED org

\* Mutant of listStaff: admins are listed as well.
ListEverybody(b) == {u \in Rows : user[u].org = browser[b].org}

listStaff(b) == {u \in Rows : user[u].org = browser[b].org /\ user[u].role # "ADMIN"}

\* Mutant of openEditModal: the box starts ticked, as for a new member.
OpenTicked(b, u) ==
  /\ Act
  /\ RolesGuard(b)
  /\ u \in listStaff(b)
  /\ browser' = [browser EXCEPT ![b].staff = u, ![b].old = FALSE,
                                ![b].seen = [user[u] EXCEPT !.active = TRUE]]
  /\ UNCHANGED <<org, user>>

\* loadStaff and, any time later, the row an admin opens or deactivates: what
\* the page knows of it is what the list said.
openEditModal(b, u) ==
  /\ Act
  /\ RolesGuard(b)
  /\ u \in listStaff(b)
  /\ browser' = [browser EXCEPT ![b].staff = u, ![b].seen = user[u], ![b].old = FALSE]
  /\ UNCHANGED <<org, user>>

\* The member is looked up within the organization and written by id.  Only a
\* row read as inactive asks for a seat.
updateStaff(b, u, row) ==
  /\ u \in Rows /\ user[u].org = browser[b].org
  /\ Unused(row.org, row.email, u)
  /\ row.active /\ ~user[u].active => assertCanAddSeat(row.org)
  /\ user' = [user EXCEPT ![u] = row]
  /\ browser' = [Outdated(user') EXCEPT ![b].staff = Null, ![b].seen = NoMember,
                                        ![b].old = FALSE]

\* The form sends every field, also those that were not touched.
handleSaveEdit(b, e, r, a) ==
  /\ RolesGuard(b)
  /\ browser[b].staff # Null
  /\ updateStaff(b, browser[b].staff,
                 [browser[b].seen EXCEPT !.email = e, !.role = r, !.active = a])
  /\ UNCHANGED <<org, acts>>

\* deactivateStaff: one field of the row, whatever the list said.
handleDeactivate(b) ==
  LET u == browser[b].staff
  IN /\ RolesGuard(b)
     /\ u # Null /\ u \in Rows
     /\ updateStaff(b, u, [user[u] EXCEPT !.active = FALSE])
     /\ UNCHANGED <<org, acts>>

\* Whose address it is the token says, in the organization the token names.
updateProfile(u, o, e) ==
  /\ u \in Rows /\ user[u].org = o
  /\ Unused(o, e, u)
  /\ user' = [user EXCEPT ![u].email = e]

\* The settings page sends the address it shows, edited or not, and reads its user
\* again.
handleUpdateProfile(b, e) ==
  /\ Act
  /\ browser[b].pc = "in"
  /\ updateProfile(browser[b].user, browser[b].org, e)
  /\ browser' = Outdated(user')
  /\ UNCHANGED org

\* With the organization gone nothing is written and the answer is an error.
completeOnboarding(b) ==
  /\ RolesGuard(b)
  /\ org[browser[b].org] = "new"
  /\ org' = [org EXCEPT ![browser[b].org] = "onboarded"]
  /\ UNCHANGED <<user, browser, acts>>

\* What both deletions do to the accounts; module Erasure has the rest.
RemoveOrganization(o) ==
  /\ org' = [org EXCEPT ![o] = "deleted"]
  /\ user' = [u \in Users |-> IF user[u].org = o THEN NoMember ELSE user[u]]

\* The token decides, also when its user is an admin no more.
deleteOrganization(b) ==
  /\ RolesGuard(b)
  /\ Exists(browser[b].org)
  /\ RemoveOrganization(browser[b].org)

\* The settings page then logs out, if it hears of it.
handleDeleteOrganization(b, heard) ==
  /\ Act
  /\ deleteOrganization(b)
  /\ browser' = IF heard THEN [Outdated(user') EXCEPT ![b] = SignedOut] ELSE Outdated(user')

\* SuperAdminGuard is the one guard that looks at the table.
SuperAdminGuard(b) ==
  LET u == browser[b].user
  IN browser[b].pc = "in" /\ u \in Rows /\ user[u].email = SUPER_ADMIN_EMAIL

adminDeleteOrganization(b, o) ==
  /\ Act
  /\ SuperAdminGuard(b)
  /\ Exists(o)
  /\ RemoveOrganization(o)
  /\ browser' = Outdated(user')
-----------------------------------------------------------------------------
BrowserStep(b) ==
  \/ LoginAnswer(b)
  \/ FoundByGoogle(b)
  \/ GoogleAnswer(b)
  \/ validateTokenAndNavigate(b)
  \/ SignOut(b)
  \/ \E u \in Users : openEditModal(b, u)
  \/ \E e \in Emails :
       \/ registerAdmin(b, e)
       \/ \E chosen \in Orgs \union {Null} : login(b, e, chosen)
       \/ loginOrRegisterWithGoogle(b, e)
       \/ handleCreateStaff(b, e)
       \/ handleUpdateProfile(b, e)
       \/ \E r \in Roles, a \in BOOLEAN : handleSaveEdit(b, e, r, a)
  \/ handleDeactivate(b)
  \/ completeOnboarding(b)
  \/ \E heard \in BOOLEAN : handleDeleteOrganization(b, heard)
  \/ \E o \in Orgs : adminDeleteOrganization(b, o)

Next == \E b \in Browsers : BrowserStep(b)

Spec == Init /\ [][Next]_vars
-----------------------------------------------------------------------------
(***************************************************************************)
(* Properties                                                              *)
(***************************************************************************)
\* A token grants what the row of its user says, or that row changed after the
\* sign-in read it (JwtStrategy.validate looks nothing up).
RightsAreExplained ==
  \A b \in Browsers :
    browser[b].pc = "in" /\ ~browser[b].stale =>
      LET row == user[browser[b].user]
      IN row.org = browser[b].org /\ row.role = browser[b].role /\ row.active

\* An organization has an active admin, whoever edits whom: updateStaff and
\* deactivateStaff would take the last one's rights, and tokens of former admins
\* still act, but the page lists no admins, and its founder is one from the start.
OrganizationsAreLed ==
  \A o \in Orgs :
    Exists(o) =>
      \E u \in Rows : user[u].org = o /\ user[u].role = "ADMIN" /\ user[u].active

\* What the staff page shows of a member is his row, or the row changed after the
\* list was loaded: saving a form then takes back nobody else's change
\* (handleSaveEdit sends all fields).
PageIsExplained ==
  \A b \in Browsers :
    browser[b].staff # Null /\ ~browser[b].old => user[browser[b].staff] = browser[b].seen

\* A Google sign-in founds an organization only for an address no active member
\* has, spelled in lower case, unless he turned up while the request was under
\* way (loginOrRegisterWithGoogle: findMany, then create; addresses typed into a
\* form keep their capitals).
SecondHomeIsExplained ==
  [][\A b \in Browsers :
       browser[b].pc = "found" /\ browser'[b].pc = "google" /\ ~browser[b].stale =>
         \A u \in Rows : ~Holds(user[u], lower[browser[b].email])]_vars
=============================================================================
