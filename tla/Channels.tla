------------------------------ MODULE Channels ------------------------------
(***************************************************************************)
(* The pages and numbers organizations connect: social-accounts.service.ts *)
(* with the channels page that calls it.  Connecting takes several calls   *)
(* of Meta's API, which may fail; requests of all organizations interleave *)
(* and a restart of the server loses them.                                 *)
(***************************************************************************)
EXTENDS Integers, FiniteSets

CONSTANTS
  Orgs,
  Accounts,   \* ids of SocialAccount rows
  Pages,      \* Facebook pages
  Instagrams, \* Instagram business accounts
  linked,     \* the page an Instagram account belongs to
  Numbers,    \* WhatsApp Business Account ids
  Tasks,      \* bound: connections and repairs under way at a time
  Null,
  MaxActs, MaxFaults  \* bounds: requests of all pages; failed calls, restarts

ASSUME ChannelsAssumption ==
  /\ linked \in [Instagrams -> Pages]
  /\ Pages \intersect Instagrams = {}
  /\ Numbers \intersect (Pages \union Instagrams) = {}
  /\ Null \notin Orgs \union Accounts \union Pages \union Instagrams \union Numbers
  /\ MaxActs \in Nat /\ MaxFaults \in Nat

VARIABLES
  account,     \* the table of social accounts
  task,        \* requests to connect or repair
  subscribed,  \* ids whose webhook fields the app is subscribed to, at Meta
  doubled,     \* history: ids that came to a second organization by an edit, or by
               \* a connection whose check was out of date
  unheard,     \* history: ids whose subscription failed
  acts, faults

vars == <<account, task, subscribed, doubled, unheard, acts, faults>>

Channel == {"FACEBOOK_MESSENGER", "INSTAGRAM", "WHATSAPP"}
OauthChannels == {"FACEBOOK_MESSENGER", "INSTAGRAM"}
Ids == Pages \union Instagrams \union Numbers
IdsOf(channel) ==
  CASE channel = "FACEBOOK_MESSENGER" -> Pages
    [] channel = "INSTAGRAM" -> Instagrams
    [] channel = "WHATSAPP" -> Numbers \union {Null}

Account ==
  {r \in [org : Orgs, channel : Channel, pageId : Ids \union {Null}, isActive : BOOLEAN] :
     r.pageId \in IdsOf(r.channel)}
NoAccount == [org |-> Null, channel |-> Null, pageId |-> Null, isActive |-> FALSE]
Row(o, channel, id) == [org |-> o, channel |-> channel, pageId |-> id, isActive |-> TRUE]

\* pc: free; the admin is at Facebook; the pages are known, the page was found to
\* be nobody else's, the subscription was asked for; a repair has read its row.
\* late: the page came to another organization after the check.
Free == [pc |-> "free", org |-> Null, channel |-> Null, pageId |-> Null,
         id |-> Null, late |-> FALSE]
Task ==
  [pc : {"free", "consent", "pages", "subscribe", "save", "repair", "repaired"},
   org : Orgs \union {Null}, channel : Channel \union {Null}, pageId : Ids \union {Null},
   id : Accounts \union {Null}, late : BOOLEAN]

Rows == {a \in Accounts : account[a].org # Null}
Of(o, channel) == {a \in Rows : account[a].org = o /\ account[a].channel = channel}
InUse(o, id) == \E a \in Rows : account[a].pageId = id /\ account[a].org # o
\* @@unique([orgId, channel, pageId]); nulls are different from each other.
Unique(row, but) ==
  row.pageId # Null =>
    \A a \in Of(row.org, row.channel) \ {but} : account[a].pageId # row.pageId

Init ==
  /\ account = [a \in Accounts |-> NoAccount]
  /\ task = [t \in Tasks |-> Free]
  /\ subscribed = {}
  /\ doubled = {} /\ unheard = {}
  /\ acts = 0 /\ faults = 0

\* With the unique key of SocialAccount (organization, channel, page).
TypeOK ==
  /\ account \in [Accounts -> Account \union {NoAccount}]
  /\ \A a \in Rows : Unique(account[a], a)
  /\ task \in [Tasks -> Task]
  /\ subscribed \subseteq Ids /\ doubled \subseteq Ids /\ unheard \subseteq Ids
  /\ acts \in 0..MaxActs /\ faults \in 0..MaxFaults

Act == acts < MaxActs /\ acts' = acts + 1 /\ UNCHANGED faults
Fault == faults < MaxFaults /\ faults' = faults + 1 /\ UNCHANGED acts
Steps == UNCHANGED <<acts, faults>>
-----------------------------------------------------------------------------
(***************************************************************************)
(* Typed credentials: the form of the WhatsApp channel                     *)
(***************************************************************************)
\* history: o has the id from now on; checks of others are out of date.
Taken(o, id) ==
  [t \in Tasks |-> IF /\ task[t].pc \in {"subscribe", "save"}
                      /\ task[t].org # o /\ task[t].pageId = id
                   THEN [task[t] EXCEPT !.late = TRUE] ELSE task[t]]

\* The id is looked up among other organizations before it is stored; the list
\* that offered "Connect" may be old.
create(o, id) ==
  /\ Act
  /\ id # Null => ~InUse(o, id)
  /\ Unique(Row(o, "WHATSAPP", id), Null)
  /\ \E a \in Accounts \ Rows : account' = [account EXCEPT ![a] = Row(o, "WHATSAPP", id)]
  /\ task' = Taken(o, id)
  /\ UNCHANGED <<subscribed, doubled, unheard>>

\* Edited fields are stored as typed; an empty one is left as it was.
update(o, a, id) ==
  /\ Act
  /\ a \in Of(o, "WHATSAPP")
  /\ id # Null
  /\ Unique([account[a] EXCEPT !.pageId = id], a)
  /\ account' = [account EXCEPT ![a].pageId = id]
  /\ task' = Taken(o, id)
  /\ doubled' = IF InUse(o, id) THEN doubled \union {id} ELSE doubled
  /\ UNCHANGED <<subscribed, unheard>>

\* The same endpoint, with isActive; the page does not offer it.
switchOff(o, a) ==
  /\ Act
  /\ a \in Rows /\ account[a].org = o
  /\ account' = [account EXCEPT ![a].isActive = FALSE]
  /\ UNCHANGED <<task, subscribed, doubled, unheard>>

\* Disconnect: the row goes, the subscription at Meta stays.
remove(o, a) ==
  /\ Act
  /\ a \in Rows /\ account[a].org = o
  /\ account' = [account EXCEPT ![a] = NoAccount]
  /\ UNCHANGED <<task, subscribed, doubled, unheard>>
-----------------------------------------------------------------------------
(***************************************************************************)
(* Connecting with Meta                                                    *)
(***************************************************************************)
\* The signed state says who started; the browser leaves for Facebook.
getOauthUrl(t, o, channel) ==
  /\ Act
  /\ task[t].pc = "free"
  /\ task' = [task EXCEPT ![t] = [Free EXCEPT !.pc = "consent", !.org = o, !.channel = channel]]
  /\ UNCHANGED <<account, subscribed, doubled, unheard>>

\* Back from Facebook, within the hour (verifyState): the code is exchanged and
\* the first page, or page with an Instagram account, is chosen.
FetchPages(t) ==
  /\ task[t].pc = "consent"
  /\ \E id \in IdsOf(task[t].channel) :
       task' = [task EXCEPT ![t].pc = "pages", ![t].pageId = id]
  /\ Steps
  /\ UNCHANGED <<account, subscribed, doubled, unheard>>

\* The admin refuses or comes too late, a call fails, the page is somebody
\* else's: oauthCallback goes back to the channels page with an error.
GiveUp(t) ==
  /\ \/ task[t].pc \in {"consent", "pages"} /\ Fault
     \/ task[t].pc = "pages" /\ InUse(task[t].org, task[t].pageId) /\ Steps
  /\ task' = [task EXCEPT ![t] = Free]
  /\ UNCHANGED <<account, subscribed, doubled, unheard>>

\* Mutant of CheckPage: only pages that are switched on count.
CheckActivePage(t) ==
  /\ task[t].pc = "pages"
  /\ ~\E a \in Rows : /\ account[a].pageId = task[t].pageId
                      /\ account[a].org # task[t].org /\ account[a].isActive
  /\ task' = [task EXCEPT ![t].pc = "subscribe"]
  /\ Steps
  /\ UNCHANGED <<account, subscribed, doubled, unheard>>

CheckPage(t) ==
  /\ task[t].pc = "pages"
  /\ ~InUse(task[t].org, task[t].pageId)
  /\ task' = [task EXCEPT ![t].pc = "subscribe"]
  /\ Steps
  /\ UNCHANGED <<account, subscribed, doubled, unheard>>

\* The Instagram account's messages come through its page.
Subject(channel, id) == IF channel = "INSTAGRAM" THEN linked[id] ELSE id

\* A failure is logged, and the connection goes on.
subscribePageToApp(id) ==
  \/ /\ subscribed' = subscribed \union {id}
     /\ unheard' = unheard \ {id}
     /\ Steps
  \/ /\ Fault
     /\ unheard' = unheard \union {id}
     /\ UNCHANGED subscribed

\* Mutant of Subscribe: the account is stored first and subscribed in the
\* background.
SubscribeLater(t) ==
  /\ task[t].pc = "subscribe"
  /\ task' = [task EXCEPT ![t].pc = "save"]
  /\ Steps
  /\ UNCHANGED <<account, subscribed, unheard, doubled>>

Subscribe(t) ==
  /\ task[t].pc = "subscribe"
  /\ subscribePageToApp(Subject(task[t].channel, task[t].pageId))
  /\ task' = [task EXCEPT ![t].pc = "save"]
  /\ UNCHANGED <<account, doubled>>

\* upsert: by organization, channel and page.
Save(t) ==
  LET r == task[t]
      row == Row(r.org, r.channel, r.pageId)
      same == {a \in Of(r.org, r.channel) : account[a].pageId = r.pageId}
  IN /\ r.pc = "save"
     /\ \E a \in (IF same # {} THEN same ELSE Accounts \ Rows) :
          account' = [account EXCEPT ![a] = row]
     /\ doubled' = IF r.late THEN doubled \union {r.pageId} ELSE doubled
     /\ task' = [Taken(r.org, r.pageId) EXCEPT ![t] = Free]
     /\ Steps
     /\ UNCHANGED <<subscribed, unheard>>
-----------------------------------------------------------------------------
(***************************************************************************)
(* Repair                                                                  *)
(***************************************************************************)
repair(t, o, a) ==
  /\ Act
  /\ task[t].pc = "free"
  /\ a \in Rows /\ account[a].org = o
  /\ task' = [task EXCEPT ![t] = [Free EXCEPT !.pc = "repair", !.org = o, !.id = a,
                !.channel = account[a].channel, !.pageId = account[a].pageId]]
  /\ UNCHANGED <<account, subscribed, doubled, unheard>>

\* For Instagram the call names the Instagram account, not its page: it answers
\* for an id nothing is delivered for.
RepairSubscribe(t) ==
  /\ task[t].pc = "repair"
  /\ IF task[t].channel \in OauthChannels THEN subscribePageToApp(task[t].pageId)
                                          ELSE Steps /\ UNCHANGED <<subscribed, unheard>>
  /\ task' = [task EXCEPT ![t].pc = "repaired"]
  /\ UNCHANGED <<account, doubled>>

\* Mutant of Repaired: the row read before the call is written back.
StoreRead(t) ==
  LET r == task[t]
  IN /\ r.pc = "repaired"
     /\ account' = [account EXCEPT ![r.id] = Row(r.org, r.channel, r.pageId)]
     /\ task' = [task EXCEPT ![t] = Free]
     /\ Steps
     /\ UNCHANGED <<subscribed, unheard, doubled>>

\* updateMany: nothing, when the row was removed meanwhile.
Repaired(t) ==
  LET r == task[t]
  IN /\ r.pc = "repaired"
     /\ account' = IF r.id \in Rows /\ account[r.id].org = r.org
                   THEN [account EXCEPT ![r.id].isActive = TRUE] ELSE account
     /\ task' = [task EXCEPT ![t] = Free]
     /\ Steps
     /\ UNCHANGED <<subscribed, unheard, doubled>>

\* The server restarts: its requests are lost, the browsers at Facebook are not.
Restart ==
  /\ Fault
  /\ task' = [t \in Tasks |-> IF task[t].pc = "consent" THEN task[t] ELSE Free]
  /\ UNCHANGED <<account, subscribed, doubled, unheard>>
-----------------------------------------------------------------------------
TaskStep(t) ==
  \/ \E o \in Orgs, channel \in OauthChannels : getOauthUrl(t, o, channel)
  \/ FetchPages(t) \/ GiveUp(t) \/ CheckPage(t) \/ Subscribe(t) \/ Save(t)
  \/ \E o \in Orgs, a \in Accounts : repair(t, o, a)
  \/ RepairSubscribe(t) \/ Repaired(t)

OrgStep(o) ==
  \/ \E id \in Numbers \union {Null} : create(o, id)
  \/ \E a \in Accounts, id \in Numbers : update(o, a, id)
  \/ \E a \in Accounts : remove(o, a) \/ switchOff(o, a)

Next ==
  \/ \E t \in Tasks : TaskStep(t)
  \/ \E o \in Orgs : OrgStep(o)
  \/ Restart

Spec == Init /\ [][Next]_vars
-----------------------------------------------------------------------------
(***************************************************************************)
(* Properties                                                              *)
(***************************************************************************)
\* A page, Instagram or WhatsApp account belongs to one organization, unless two
\* connections overlapped or somebody edited an id (create and handleOauthCallback
\* look for another organization's row; the unique key does not, and findOrgByPageId
\* takes whichever row comes first).
OneOrganizationPerId ==
  \A a, b \in Rows :
    account[a].pageId # Null /\ account[a].pageId = account[b].pageId
      /\ account[a].org # account[b].org => account[a].pageId \in doubled

\* An account that is switched on delivers: the app is subscribed to its page, or
\* the call failed and nobody has repaired it (handleOauthCallback subscribes before
\* it saves, so that no restart comes between).
ActiveIsHeard ==
  \A a \in Rows :
    account[a].isActive /\ account[a].channel \in OauthChannels =>
      Subject(account[a].channel, account[a].pageId) \in subscribed \union unheard

\* A removed account comes back only when somebody connects the page or types its
\* credentials: a repair under way does not bring it back.
RemovedStaysRemoved ==
  [][\A a \in Accounts :
       a \notin Rows /\ account'[a] # NoAccount =>
         \/ acts' # acts
         \/ \E t \in Tasks : task[t].pc = "save" /\ task'[t].pc = "free"]_vars
=============================================================================
