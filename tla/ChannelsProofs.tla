---------------------------- MODULE ChannelsProofs ----------------------------
(***************************************************************************)
(* A page has one organization, an active account is heard and a removed   *)
(* one stays removed, for any number of organizations, accounts, pages,    *)
(* requests and faults.                                                    *)
(***************************************************************************)
EXTENDS Channels, TLAPS

\* A connection that found the page free may trust that until it saves, unless it
\* is told otherwise.
CheckedIsFree ==
  \A t \in Tasks :
    task[t].pc \in {"subscribe", "save"} /\ ~task[t].late => ~InUse(task[t].org, task[t].pageId)

\* Who asked Meta for the subscription got an answer, and every account of a page
\* came from a connection that did, whether it is switched on or not.
Heard(channel, id) == Subject(channel, id) \in subscribed \union unheard
SavedIsHeard ==
  /\ \A t \in Tasks : task[t].pc = "save" => Heard(task[t].channel, task[t].pageId)
  /\ \A a \in Rows : account[a].channel \in OauthChannels =>
       Heard(account[a].channel, account[a].pageId)

\* Who is connected with Meta, or repaired.
Connecting ==
  \A t \in Tasks :
    /\ task[t].pc # "free" => task[t].org \in Orgs /\ task[t].channel \in Channel
    /\ task[t].pc \in {"consent", "pages", "subscribe", "save"} => task[t].channel \in OauthChannels
    /\ task[t].pc \in {"pages", "subscribe", "save"} => task[t].pageId \in IdsOf(task[t].channel)
    /\ task[t].pc \in {"repair", "repaired"} =>
         /\ task[t].id \in Accounts
         /\ task[t].pageId \in IdsOf(task[t].channel)

Inv == TypeOK /\ Connecting /\ CheckedIsFree /\ OneOrganizationPerId /\ SavedIsHeard

\* The table is empty and nothing is under way.
LEMMA InitInv == Init => Inv
<1> SUFFICES ASSUME Init PROVE Inv
  OBVIOUS
<1> USE ChannelsAssumption DEF Init
<1>1. Rows = {} /\ \A t \in Tasks : task[t].pc = "free"
  BY DEF Rows, NoAccount, Free
<1>2. TypeOK
  BY <1>1 DEF TypeOK, Free, Task
<1> QED
  BY <1>1, <1>2 DEF Inv, Connecting, CheckedIsFree, OneOrganizationPerId, SavedIsHeard

\* Ids of channels, and rows made of them.
LEMMA RowType ==
  ASSUME NEW o \in Orgs, NEW channel \in Channel, NEW id \in IdsOf(channel)
  PROVE  /\ Row(o, channel, id) \in Account
         /\ Row(o, channel, id).org = o /\ o # Null
         /\ Row(o, channel, id).channel = channel
         /\ Row(o, channel, id).pageId = id
         /\ id \in Ids \union {Null}
BY ChannelsAssumption DEF Row, Account, IdsOf, Channel, Ids

\* Once asked for, a page stays heard.
LEMMA HeardStays ==
  ASSUME NEW id, subscribePageToApp(id)
  PROVE  /\ subscribed \union unheard \subseteq subscribed' \union unheard'
         /\ id \in subscribed' \union unheard'
BY DEF subscribePageToApp

\* A row written under its unique key leaves the table as it has to be.
LEMMA WriteRow ==
  ASSUME TypeOK, NEW a \in Accounts, NEW row \in Account, Unique(row, a),
         account' = [account EXCEPT ![a] = row]
  PROVE  /\ account' \in [Accounts -> Account \union {NoAccount}]
         /\ Rows' = Rows \union {a}
         /\ \A x \in Rows' : Unique(account[x], x)'
<1>1. row.org \in Orgs /\ row.org # Null
  BY ChannelsAssumption DEF Account
<1>2. account' \in [Accounts -> Account \union {NoAccount}]
  BY DEF TypeOK
<1>3. Rows' = Rows \union {a}
  BY <1>1 DEF Rows, TypeOK
<1>4. ASSUME NEW x \in Rows', NEW y \in Rows', y # x, account'[x].pageId # Null,
             account'[y].org = account'[x].org, account'[y].channel = account'[x].channel
      PROVE  account'[y].pageId # account'[x].pageId
  <2>1. CASE x = a
    <3>1. account'[x] = row /\ account'[y] = account[y] /\ y \in Rows
      BY <2>1, <1>3, <1>4 DEF TypeOK
    <3> QED BY <3>1, <2>1, <1>4 DEF Unique, Of
  <2>2. CASE y = a
    <3>1. account'[y] = row /\ account'[x] = account[x] /\ x \in Rows
      BY <2>2, <1>3, <1>4 DEF TypeOK
    <3> QED BY <3>1, <2>2, <1>4 DEF Unique, Of
  <2>3. CASE x # a /\ y # a
    <3>1. account'[x] = account[x] /\ account'[y] = account[y] /\ x \in Rows /\ y \in Rows
      BY <2>3, <1>3, <1>4 DEF TypeOK, Rows
    <3> QED BY <3>1, <1>4 DEF TypeOK, Unique, Of
  <2> QED BY <2>1, <2>2, <2>3
<1>5. \A x \in Rows' : Unique(account[x], x)'
  BY <1>4 DEF Unique, Of
<1> QED BY <1>2, <1>3, <1>5

\* Neither a row that goes nor one that is switched disturbs the others.
LEMMA KeepRow ==
  ASSUME TypeOK, NEW a \in Accounts,
         \/ account' = [account EXCEPT ![a] = NoAccount]
         \/ a \in Rows /\ \E on \in BOOLEAN : account' = [account EXCEPT ![a].isActive = on]
  PROVE  /\ account' \in [Accounts -> Account \union {NoAccount}]
         /\ Rows' \subseteq Rows
         /\ \A x \in Rows' : /\ account'[x].org = account[x].org
                             /\ account'[x].channel = account[x].channel
                             /\ account'[x].pageId = account[x].pageId
         /\ \A x \in Rows' : Unique(account[x], x)'
<1>1. CASE account' = [account EXCEPT ![a] = NoAccount]
  BY <1>1 DEF TypeOK, Rows, NoAccount, Unique, Of
<1>2. CASE a \in Rows /\ \E on \in BOOLEAN : account' = [account EXCEPT ![a].isActive = on]
  <2>1. PICK on \in BOOLEAN : account' = [account EXCEPT ![a].isActive = on]
    BY <1>2
  <2>2. account[a] \in Account
    BY <1>2 DEF TypeOK, Rows, NoAccount
  <2>3. [account[a] EXCEPT !.isActive = on] \in Account
    BY <2>2 DEF Account, IdsOf
  <2>4. account' = [account EXCEPT ![a] = [account[a] EXCEPT !.isActive = on]]
    BY <2>1 DEF TypeOK
  <2>5. Unique([account[a] EXCEPT !.isActive = on], a)
    BY <1>2, <2>2 DEF TypeOK, Unique, Of, Account
  <2>6. /\ account' \in [Accounts -> Account \union {NoAccount}]
        /\ Rows' = Rows \union {a}
        /\ \A x \in Rows' : Unique(account[x], x)'
    BY <2>3, <2>4, <2>5, WriteRow
  <2>7. \A x \in Accounts : /\ account'[x].org = account[x].org
                            /\ account'[x].channel = account[x].channel
                            /\ account'[x].pageId = account[x].pageId
    BY <2>2, <2>4 DEF TypeOK, Account
  <2> QED BY <1>2, <2>6, <2>7 DEF Rows
<1> QED BY <1>1, <1>2

\* Telling the tasks that a page was taken changes nothing else of them.
LEMMA TakenType ==
  ASSUME Inv, NEW o, NEW id
  PROVE  /\ Taken(o, id) \in [Tasks -> Task]
         /\ \A t \in Tasks :
              /\ Taken(o, id)[t].pc = task[t].pc /\ Taken(o, id)[t].org = task[t].org
              /\ Taken(o, id)[t].channel = task[t].channel
              /\ Taken(o, id)[t].pageId = task[t].pageId /\ Taken(o, id)[t].id = task[t].id
              /\ task[t].late => Taken(o, id)[t].late
              /\ task[t].pc \in {"subscribe", "save"} /\ task[t].org # o /\ task[t].pageId = id
                   => Taken(o, id)[t].late
BY DEF Inv, TypeOK, Taken, Task

\* What a task holds is of the kinds it is declared with.
Fits(r) ==
  /\ r.pc # "free" => r.org \in Orgs /\ r.channel \in Channel
  /\ r.pc \in {"consent", "pages", "subscribe", "save"} => r.channel \in OauthChannels
  /\ r.pc \in {"pages", "subscribe", "save"} => r.pageId \in IdsOf(r.channel)
  /\ r.pc \in {"repair", "repaired"} => r.id \in Accounts /\ r.pageId \in IdsOf(r.channel)

\* A task that ended holds nothing.
LEMMA FreeFits == Fits(Free) /\ Free \in Task
BY DEF Fits, Free, Task

\* No step leaves the types or the unique key of the accounts.
LEMMA TypeStep ==
  ASSUME Inv, [Next]_vars
  PROVE  TypeOK' /\ Connecting'
<1> USE ChannelsAssumption
<1> DEFINE AccountsFit == /\ account' \in [Accounts -> Account \union {NoAccount}]
                          /\ \A a \in Rows' : Unique(account[a], a)'
           Tasking == task' \in [Tasks -> Task] /\ \A t \in Tasks : Fits(task'[t])
           SetsFit == /\ subscribed' \subseteq Ids /\ doubled' \subseteq Ids /\ unheard' \subseteq Ids
                      /\ acts' \in 0..MaxActs /\ faults' \in 0..MaxFaults
<1>1. ASSUME AccountsFit, Tasking, SetsFit PROVE TypeOK' /\ Connecting'
  BY <1>1 DEF TypeOK, Connecting, Fits
<1>2. \A t \in Tasks : Fits(task[t]) /\ task[t] \in Task
  BY DEF Inv, TypeOK, Connecting, Fits
<1>3. /\ account \in [Accounts -> Account \union {NoAccount}] /\ task \in [Tasks -> Task]
      /\ \A a \in Rows : Unique(account[a], a)
      /\ subscribed \subseteq Ids /\ doubled \subseteq Ids /\ unheard \subseteq Ids
      /\ acts \in 0..MaxActs /\ faults \in 0..MaxFaults
  BY DEF Inv, TypeOK
<1>4. ASSUME UNCHANGED account PROVE AccountsFit
  BY <1>3, <1>4 DEF Rows, Unique, Of
<1>5. ASSUME NEW t \in Tasks, NEW r \in Task, Fits(r), task' = [task EXCEPT ![t] = r] PROVE Tasking
  BY <1>2, <1>3, <1>5
<1>6. ASSUME NEW o, NEW id, task' = Taken(o, id) PROVE Tasking
  BY <1>2, <1>6, TakenType DEF Fits
<1>7. ASSUME UNCHANGED task PROVE Tasking
  BY <1>2, <1>3, <1>7
<1>8. ASSUME NEW o \in Orgs, NEW id \in Numbers \union {Null}, create(o, id)
      PROVE  AccountsFit /\ Tasking /\ SetsFit
  <2>1. PICK a \in Accounts \ Rows : account' = [account EXCEPT ![a] = Row(o, "WHATSAPP", id)]
    BY <1>8 DEF create
  <2>2. Row(o, "WHATSAPP", id) \in Account
    BY <1>8, RowType DEF IdsOf, Channel
  <2>4. Unique(Row(o, "WHATSAPP", id), a)
    BY <1>8 DEF create, Unique, Of, Rows
  <2>3. AccountsFit
    BY <2>1, <2>2, <2>4, WriteRow DEF Inv
  <2> QED BY <1>3, <1>6, <1>8, <2>3 DEF create, Act
<1>9. ASSUME NEW o \in Orgs, NEW a \in Accounts, NEW id \in Numbers, update(o, a, id)
      PROVE  AccountsFit /\ Tasking /\ SetsFit
  <2>1. account[a] \in Account /\ account[a].channel = "WHATSAPP"
    BY <1>3, <1>9 DEF update, Of, Rows, NoAccount
  <2> DEFINE row == [account[a] EXCEPT !.pageId = id]
  <2>2. row \in Account
    BY <2>1, RowType DEF Account, IdsOf, Ids
  <2>3. account' = [account EXCEPT ![a] = row] /\ Unique(row, a)
    BY <1>3, <1>9 DEF update
  <2>4. AccountsFit
    BY <2>2, <2>3, WriteRow DEF Inv
  <2>5. doubled' \subseteq Ids
    BY <1>3, <1>9 DEF update, Ids
  <2>6. Tasking
    BY <1>6, <1>9 DEF update
  <2>7. SetsFit
    BY <1>3, <1>9, <2>5 DEF update, Act
  <2> QED BY <2>4, <2>6, <2>7
<1>10. ASSUME NEW o \in Orgs, NEW a \in Accounts, remove(o, a) \/ switchOff(o, a)
       PROVE  AccountsFit /\ Tasking /\ SetsFit
  <2>1. AccountsFit
    BY <1>10, KeepRow DEF remove, switchOff, Inv
  <2> QED BY <1>3, <1>7, <1>10, <2>1 DEF remove, switchOff, Act
<1>11. ASSUME NEW t \in Tasks, NEW o \in Orgs, NEW channel \in OauthChannels,
              getOauthUrl(t, o, channel)
       PROVE  AccountsFit /\ Tasking /\ SetsFit
  <2> DEFINE r == [Free EXCEPT !.pc = "consent", !.org = o, !.channel = channel]
  <2>1. r \in Task /\ Fits(r)
    BY DEF Fits, Free, Task, OauthChannels, Channel
  <2>2. task' = [task EXCEPT ![t] = r]
    BY <1>11 DEF getOauthUrl
  <2> HIDE DEF r
  <2>3. Tasking
    BY <1>5, <2>1, <2>2
  <2> QED BY <1>3, <1>4, <1>11, <2>3 DEF getOauthUrl, Act
<1>12. ASSUME NEW t \in Tasks, FetchPages(t) PROVE AccountsFit /\ Tasking /\ SetsFit
  <2>1. PICK id \in IdsOf(task[t].channel) :
          task' = [task EXCEPT ![t].pc = "pages", ![t].pageId = id]
    BY <1>12 DEF FetchPages
  <2> DEFINE r == [task[t] EXCEPT !.pc = "pages", !.pageId = id]
  <2>2. task' = [task EXCEPT ![t] = r]
    BY <1>3, <2>1
  <2>3. id \in Ids \union {Null}
    BY <1>2, <1>12, RowType DEF FetchPages, Fits
  <2>4. r \in Task /\ Fits(r)
    BY <1>2, <1>12, <2>3 DEF FetchPages, Fits, Task
  <2> QED BY <1>3, <1>4, <1>5, <1>12, <2>2, <2>4 DEF FetchPages, Steps
<1>13. ASSUME NEW t \in Tasks, GiveUp(t) PROVE AccountsFit /\ Tasking /\ SetsFit
  <2>1. Tasking
    BY <1>5, <1>13, FreeFits DEF GiveUp
  <2> QED BY <1>3, <1>4, <1>13, <2>1 DEF GiveUp, Fault, Steps
<1>14. ASSUME NEW t \in Tasks, CheckPage(t) PROVE AccountsFit /\ Tasking /\ SetsFit
  <2> DEFINE r == [task[t] EXCEPT !.pc = "subscribe"]
  <2>1. r \in Task /\ Fits(r) /\ task' = [task EXCEPT ![t] = r]
    BY <1>2, <1>3, <1>14 DEF CheckPage, Fits, Task
  <2> QED BY <1>3, <1>4, <1>5, <1>14, <2>1 DEF CheckPage, Steps
<1>15. ASSUME NEW t \in Tasks, Subscribe(t) PROVE AccountsFit /\ Tasking /\ SetsFit
  <2> DEFINE r == [task[t] EXCEPT !.pc = "save"]
  <2>1. r \in Task /\ Fits(r) /\ task' = [task EXCEPT ![t] = r]
    BY <1>2, <1>3, <1>15 DEF Subscribe, Fits, Task
  <2>2. Subject(task[t].channel, task[t].pageId) \in Ids
    BY <1>2, <1>15 DEF Subscribe, Fits, IdsOf, OauthChannels, Subject, Ids
  <2>3. SetsFit
    BY <1>3, <1>15, <2>2 DEF Subscribe, subscribePageToApp, Fault, Steps
  <2> QED BY <1>4, <1>5, <1>15, <2>1, <2>3 DEF Subscribe
<1>16. ASSUME NEW t \in Tasks, Save(t) PROVE AccountsFit /\ Tasking /\ SetsFit
  <2> DEFINE row == Row(task[t].org, task[t].channel, task[t].pageId)
             same == {a \in Of(task[t].org, task[t].channel) : account[a].pageId = task[t].pageId}
  <2>1. task[t].org \in Orgs /\ task[t].channel \in Channel
        /\ task[t].pageId \in IdsOf(task[t].channel) /\ task[t].pageId \in Ids
    BY <1>2, <1>16 DEF Save, Fits, OauthChannels, IdsOf, Ids
  <2>2. PICK a \in (IF same # {} THEN same ELSE Accounts \ Rows) :
          account' = [account EXCEPT ![a] = row]
    BY <1>16 DEF Save
  <2>3. a \in Accounts
    BY <2>2 DEF Of, Rows
  <2>4. row.org = task[t].org /\ row.channel = task[t].channel /\ row.pageId = task[t].pageId
    BY DEF Row
  <2>5. row \in Account
    BY <2>1, RowType
  <2>6. Unique(row, a)
    <3>1. CASE same = {}
      BY <2>4, <3>1 DEF Unique
    <3>2. CASE same # {}
      <4>1. a \in Rows /\ account[a].org = task[t].org /\ account[a].channel = task[t].channel
            /\ account[a].pageId = task[t].pageId
        BY <2>2, <3>2 DEF Of
      <4> QED BY <1>3, <2>4, <4>1 DEF Unique
    <3> QED BY <3>1, <3>2
  <2>7. AccountsFit
    BY <2>2, <2>3, <2>5, <2>6, WriteRow DEF Inv
  <2>8. Tasking
    <3>1. \A x \in Tasks : Fits(Taken(task[t].org, task[t].pageId)[x])
      BY <1>2, TakenType DEF Fits
    <3>2. task' = [Taken(task[t].org, task[t].pageId) EXCEPT ![t] = Free]
      BY <1>16 DEF Save
    <3> QED BY <3>1, <3>2, TakenType, FreeFits
  <2>9. SetsFit
    BY <1>3, <1>16, <2>1 DEF Save, Steps
  <2> QED BY <2>7, <2>8, <2>9
<1>17. ASSUME NEW t \in Tasks, NEW o \in Orgs, NEW a \in Accounts, repair(t, o, a)
       PROVE  AccountsFit /\ Tasking /\ SetsFit
  <2> DEFINE r == [Free EXCEPT !.pc = "repair", !.org = o, !.id = a,
                     !.channel = account[a].channel, !.pageId = account[a].pageId]
  <2>1. account[a] \in Account
    BY <1>3, <1>17 DEF repair, Rows, NoAccount
  <2>2. account[a].channel \in Channel /\ account[a].pageId \in IdsOf(account[a].channel)
        /\ account[a].pageId \in Ids \union {Null}
    BY <2>1 DEF Account
  <2>3. r \in Task /\ Fits(r)
    BY <2>2 DEF Fits, Free, Task
  <2>4. task' = [task EXCEPT ![t] = r]
    BY <1>17 DEF repair
  <2> HIDE DEF r
  <2>5. Tasking
    BY <1>5, <2>3, <2>4
  <2> QED BY <1>3, <1>4, <1>17, <2>5 DEF repair, Act
<1>18. ASSUME NEW t \in Tasks, RepairSubscribe(t) PROVE AccountsFit /\ Tasking /\ SetsFit
  <2> DEFINE r == [task[t] EXCEPT !.pc = "repaired"]
  <2>1. r \in Task /\ Fits(r) /\ task' = [task EXCEPT ![t] = r]
    BY <1>2, <1>3, <1>18 DEF RepairSubscribe, Fits, Task
  <2>2. task[t].channel \in OauthChannels => task[t].pageId \in Ids
    BY <1>2, <1>18 DEF RepairSubscribe, Fits, IdsOf, OauthChannels, Ids
  <2>3. SetsFit
    BY <1>3, <1>18, <2>2 DEF RepairSubscribe, subscribePageToApp, Fault, Steps
  <2> QED BY <1>4, <1>5, <1>18, <2>1, <2>3 DEF RepairSubscribe
<1>19. ASSUME NEW t \in Tasks, Repaired(t) PROVE AccountsFit /\ Tasking /\ SetsFit
  <2>1. AccountsFit
    BY <1>4, <1>19, KeepRow DEF Repaired, Inv, Rows
  <2>2. Tasking
    BY <1>5, <1>19, FreeFits DEF Repaired
  <2> QED BY <1>3, <1>19, <2>1, <2>2 DEF Repaired, Steps
<1>20. ASSUME Restart PROVE AccountsFit /\ Tasking /\ SetsFit
  <2>1. Tasking
    BY <1>2, <1>20, FreeFits DEF Restart
  <2> QED BY <1>3, <1>4, <1>20, <2>1 DEF Restart, Fault
<1>21. ASSUME UNCHANGED vars PROVE AccountsFit /\ Tasking /\ SetsFit
  BY <1>3, <1>4, <1>7, <1>21 DEF vars
<1> QED
  BY <1>1, <1>8, <1>9, <1>10, <1>11, <1>12, <1>13, <1>14, <1>15, <1>16, <1>17, <1>18, <1>19,
     <1>20, <1>21 DEF Next, TaskStep, OrgStep

\* The tasks' view of the table, and the table itself, when nobody new has an id.
LEMMA NobodyNew ==
  ASSUME Inv,
         Rows' \subseteq Rows,
         \A a \in Rows' : account'[a].org = account[a].org /\ account'[a].pageId = account[a].pageId,
         \A t \in Tasks : task'[t].pc \in {"subscribe", "save"} /\ ~task'[t].late =>
           \/ task[t].pc \in {"subscribe", "save"} /\ ~task[t].late
                /\ task'[t].org = task[t].org /\ task'[t].pageId = task[t].pageId
           \/ ~InUse(task'[t].org, task'[t].pageId),
         doubled \subseteq doubled'
  PROVE  CheckedIsFree' /\ OneOrganizationPerId'
<1>1. \A o, id : InUse(o, id)' => InUse(o, id)
  BY DEF InUse
<1>2. CheckedIsFree'
  BY <1>1 DEF Inv, CheckedIsFree
<1>3. OneOrganizationPerId'
  BY DEF Inv, OneOrganizationPerId
<1> QED BY <1>2, <1>3

\* Whoever found id free hears that o has it.
Told(o, id) == \A t \in Tasks : task'[t] = Taken(o, id)[t] \/ task'[t].pc = "free"

\* The same when o comes to have id: whoever relies on a check is told, and an id
\* others have is counted.
LEMMA OneTakes ==
  ASSUME Inv, NEW a \in Accounts, NEW row, NEW o \in Orgs, NEW id,
         row.org = o, row.pageId = id,
         account' = [account EXCEPT ![a] = row],
         a \in Rows => account[a].org = o,
         Told(o, id),
         doubled \subseteq doubled',
         id # Null /\ InUse(o, id) => id \in doubled'
  PROVE  CheckedIsFree' /\ OneOrganizationPerId'
<1>1. Rows' = Rows \union {a} /\ account'[a] = row /\ \A x \in Accounts \ {a} : account'[x] = account[x]
  BY ChannelsAssumption DEF Inv, TypeOK, Rows
<1>2. CheckedIsFree'
  <2> SUFFICES ASSUME NEW t \in Tasks, task'[t].pc \in {"subscribe", "save"}, ~task'[t].late,
                      NEW x \in Rows', account'[x].pageId = task'[t].pageId,
                      account'[x].org # task'[t].org
               PROVE  FALSE
    BY DEF CheckedIsFree, InUse
  <2>1. /\ task[t].pc \in {"subscribe", "save"} /\ ~task[t].late
        /\ task'[t].org = task[t].org /\ task'[t].pageId = task[t].pageId
        /\ ~(task[t].org # o /\ task[t].pageId = id)
    BY TakenType DEF Inv, TypeOK, Task, Told
  <2>2. CASE x = a
    BY <1>1, <2>1, <2>2
  <2>3. CASE x # a
    BY <1>1, <2>1, <2>3 DEF Inv, CheckedIsFree, InUse, Rows
  <2> QED BY <2>2, <2>3
<1>3. OneOrganizationPerId'
  <2> SUFFICES ASSUME NEW x \in Rows', NEW y \in Rows', account'[x].pageId # Null,
                      account'[x].pageId = account'[y].pageId, account'[x].org # account'[y].org
               PROVE  account'[x].pageId \in doubled'
    BY DEF OneOrganizationPerId
  <2>1. CASE x # a /\ y # a
    BY <1>1, <2>1 DEF Inv, OneOrganizationPerId, Rows
  <2>2. CASE x = a
    BY <1>1, <2>2 DEF InUse, Rows
  <2>3. CASE y = a
    BY <1>1, <2>3 DEF InUse, Rows
  <2> QED BY <2>1, <2>2, <2>3
<1> QED BY <1>2, <1>3

\* Every way to come by an id looks for others that have it, or is counted.
LEMMA FreeStep ==
  ASSUME Inv, [Next]_vars
  PROVE  CheckedIsFree' /\ OneOrganizationPerId'
<1> USE ChannelsAssumption
<1>1. ASSUME NEW o \in Orgs, NEW id \in Numbers \union {Null}, create(o, id)
      PROVE  CheckedIsFree' /\ OneOrganizationPerId'
  <2>1. PICK a \in Accounts \ Rows : account' = [account EXCEPT ![a] = Row(o, "WHATSAPP", id)]
    BY <1>1 DEF create
  <2>2. Row(o, "WHATSAPP", id).org = o /\ Row(o, "WHATSAPP", id).pageId = id
    BY DEF Row
  <2>3. task' = Taken(o, id) /\ doubled' = doubled /\ (id # Null => ~InUse(o, id))
    BY <1>1 DEF create
  <2>4. Told(o, id)
    BY <2>3 DEF Told
  <2> QED BY <2>1, <2>2, <2>3, <2>4, OneTakes
<1>2. ASSUME NEW o \in Orgs, NEW a \in Accounts, NEW id \in Numbers, update(o, a, id)
      PROVE  CheckedIsFree' /\ OneOrganizationPerId'
  <2>1. account[a] \in Account /\ account[a].org = o
    BY <1>2 DEF Inv, TypeOK, update, Of, Rows, NoAccount
  <2> DEFINE row == [account[a] EXCEPT !.pageId = id]
  <2>2. row.org = o /\ row.pageId = id /\ account' = [account EXCEPT ![a] = row]
    BY <1>2, <2>1 DEF Inv, TypeOK, update, Account
  <2>3. task' = Taken(o, id) /\ doubled \subseteq doubled' /\ (InUse(o, id) => id \in doubled')
    BY <1>2 DEF update
  <2>4. Told(o, id)
    BY <2>3 DEF Told
  <2> HIDE DEF row
  <2> QED BY <2>1, <2>2, <2>3, <2>4, OneTakes
<1>3. ASSUME NEW o \in Orgs, NEW a \in Accounts, remove(o, a) \/ switchOff(o, a)
      PROVE  CheckedIsFree' /\ OneOrganizationPerId'
  <2>1. task' = task /\ doubled' = doubled
    BY <1>3 DEF remove, switchOff
  <2> QED BY <1>3, <2>1, KeepRow, NobodyNew DEF remove, switchOff, Inv
<1>4. ASSUME NEW t \in Tasks,
             \/ FetchPages(t) \/ GiveUp(t) \/ CheckPage(t) \/ Subscribe(t) \/ RepairSubscribe(t)
             \/ \E o \in Orgs, channel \in OauthChannels : getOauthUrl(t, o, channel)
             \/ \E o \in Orgs, a \in Accounts : repair(t, o, a)
      PROVE  CheckedIsFree' /\ OneOrganizationPerId'
  <2>1. UNCHANGED <<account, doubled>>
    BY <1>4 DEF FetchPages, GiveUp, CheckPage, Subscribe, RepairSubscribe, getOauthUrl, repair
  <2>2. Rows' = Rows
    BY <2>1 DEF Rows
  <2>3. ASSUME NEW x \in Tasks, task'[x].pc \in {"subscribe", "save"}, ~task'[x].late
        PROVE  \/ task[x].pc \in {"subscribe", "save"} /\ ~task[x].late
                    /\ task'[x].org = task[x].org /\ task'[x].pageId = task[x].pageId
               \/ ~InUse(task'[x].org, task'[x].pageId)
    <3>1. task[x] \in Task /\ task \in [Tasks -> Task]
      BY DEF Inv, TypeOK
    <3>2. CASE CheckPage(t)
      BY <2>3, <3>1, <3>2 DEF CheckPage, Task
    <3>3. CASE Subscribe(t)
      BY <2>3, <3>1, <3>3 DEF Subscribe, Task
    <3>4. CASE FetchPages(t) \/ GiveUp(t) \/ RepairSubscribe(t)
      BY <2>3, <3>1, <3>4 DEF FetchPages, GiveUp, RepairSubscribe, Free, Task
    <3>5. CASE \E o \in Orgs, channel \in OauthChannels : getOauthUrl(t, o, channel)
      BY <2>3, <3>1, <3>5 DEF getOauthUrl, Free
    <3>6. CASE \E o \in Orgs, a \in Accounts : repair(t, o, a)
      BY <2>3, <3>1, <3>6 DEF repair, Free
    <3> QED BY <1>4, <3>2, <3>3, <3>4, <3>5, <3>6
  <2> QED BY <2>1, <2>2, <2>3, NobodyNew
<1>5. ASSUME NEW t \in Tasks, Save(t) PROVE CheckedIsFree' /\ OneOrganizationPerId'
  <2>0. PICK id : id = task[t].pageId
    OBVIOUS
  <2>1. PICK o \in Orgs : o = task[t].org
    BY <1>5 DEF Inv, Connecting, Save
  <2>2. PICK a \in Accounts : /\ account' = [account EXCEPT ![a] = Row(o, task[t].channel, id)]
                              /\ a \in Rows => account[a].org = o
    BY <1>5, <2>0, <2>1 DEF Save, Of, Rows
  <2>3. PICK row : row = Row(o, task[t].channel, id)
    OBVIOUS
  <2>4. row.org = o /\ row.pageId = id
    BY <2>3 DEF Row
  <2>5. Told(o, id)
    <3>1. task' = [Taken(o, id) EXCEPT ![t] = Free]
      BY <1>5, <2>0, <2>1 DEF Save
    <3> QED BY <3>1, TakenType DEF Free, Told
  <2>6. doubled \subseteq doubled' /\ (InUse(o, id) => id \in doubled')
    BY <1>5, <2>0, <2>1 DEF Save, Inv, CheckedIsFree
  <2>7. account' = [account EXCEPT ![a] = row]
    BY <2>2, <2>3
  <2> QED BY <2>2, <2>4, <2>5, <2>6, <2>7, OneTakes
<1>6. ASSUME NEW t \in Tasks, Repaired(t) PROVE CheckedIsFree' /\ OneOrganizationPerId'
  <2>1. Rows' \subseteq Rows /\ \A a \in Rows' : /\ account'[a].org = account[a].org
                                                 /\ account'[a].pageId = account[a].pageId
    BY <1>6, KeepRow DEF Repaired, Inv, Rows
  <2>2. doubled' = doubled /\ \A x \in Tasks : task'[x] = task[x] \/ task'[x].pc = "free"
    BY <1>6 DEF Repaired, Free, Inv, TypeOK
  <2> QED BY <2>1, <2>2, NobodyNew
<1>7. CASE Restart
  <2>1. UNCHANGED <<account, doubled>> /\ Rows' = Rows
        /\ \A x \in Tasks : task'[x] = task[x] \/ task'[x].pc = "free"
    BY <1>7 DEF Restart, Free, Rows
  <2> QED BY <2>1, NobodyNew
<1>8. CASE UNCHANGED vars
  BY <1>8, NobodyNew DEF vars, Rows
<1> QED
  BY <1>1, <1>2, <1>3, <1>4, <1>5, <1>6, <1>7, <1>8 DEF Next, TaskStep, OrgStep

\* No row of a page is stored before the app asked for its messages, and what was
\* asked for stays so.
LEMMA HeardStep ==
  ASSUME Inv, [Next]_vars
  PROVE  SavedIsHeard'
<1>1. ASSUME subscribed \union unheard \subseteq subscribed' \union unheard',
             \A t \in Tasks : task'[t].pc = "save" =>
               \/ task[t].pc = "save" /\ UNCHANGED <<task[t].channel, task[t].pageId>>
               \/ Heard(task[t].channel, task[t].pageId)' ,
             \A a \in Rows' : account'[a].channel \in OauthChannels =>
               \/ a \in Rows /\ UNCHANGED <<account[a].channel, account[a].pageId>>
               \/ Heard(account'[a].channel, account'[a].pageId)
      PROVE  SavedIsHeard'
  BY <1>1 DEF Inv, SavedIsHeard, Heard, Subject
<1>2. ASSUME NEW o \in Orgs, NEW id \in Numbers \union {Null}, create(o, id)
      PROVE  SavedIsHeard'
  <2>1. PICK a \in Accounts \ Rows : account' = [account EXCEPT ![a] = Row(o, "WHATSAPP", id)]
    BY <1>2 DEF create
  <2>2. UNCHANGED <<subscribed, unheard>> /\ task' = Taken(o, id)
    BY <1>2 DEF create
  <2>3. \A t \in Tasks : task'[t].pc = task[t].pc /\ UNCHANGED <<task[t].channel, task[t].pageId>>
    BY <2>2, TakenType
  <2>4. \A x \in Accounts : account'[x].channel \in OauthChannels => account'[x] = account[x]
    BY <2>1 DEF Inv, TypeOK, Row, OauthChannels
  <2> QED BY <1>1, <2>2, <2>3, <2>4 DEF Rows
<1>3. ASSUME NEW o \in Orgs, NEW a \in Accounts, NEW id \in Numbers, update(o, a, id)
      PROVE  SavedIsHeard'
  <2>1. UNCHANGED <<subscribed, unheard>> /\ task' = Taken(o, id)
    BY <1>3 DEF update
  <2>2. \A t \in Tasks : task'[t].pc = task[t].pc /\ UNCHANGED <<task[t].channel, task[t].pageId>>
    BY <2>1, TakenType
  <2>3. \A x \in Accounts : account'[x].channel \in OauthChannels => account'[x] = account[x]
    <3>1. account[a] \in Account /\ account[a].channel = "WHATSAPP"
      BY <1>3 DEF Inv, TypeOK, update, Of, Rows, NoAccount
    <3> QED BY <1>3, <3>1 DEF Inv, TypeOK, update, OauthChannels, Account
  <2> QED BY <1>1, <2>1, <2>2, <2>3 DEF Rows
<1>4. ASSUME NEW o \in Orgs, NEW a \in Accounts, remove(o, a) \/ switchOff(o, a)
      PROVE  SavedIsHeard'
  <2>1. UNCHANGED <<task, subscribed, unheard>>
    BY <1>4 DEF remove, switchOff
  <2>2. Rows' \subseteq Rows
        /\ \A x \in Rows' : UNCHANGED <<account[x].channel, account[x].pageId>>
    BY <1>4, KeepRow DEF remove, switchOff, Inv
  <2> QED BY <1>1, <2>1, <2>2
<1>5. ASSUME NEW t \in Tasks, FetchPages(t) \/ GiveUp(t) \/ CheckPage(t)
      PROVE  SavedIsHeard'
  <2>1. UNCHANGED <<account, subscribed, unheard>> /\ Rows' = Rows
    BY <1>5 DEF FetchPages, GiveUp, CheckPage, Rows
  <2>2. \A x \in Tasks : task'[x].pc = "save" => task'[x] = task[x]
    BY <1>5 DEF Inv, TypeOK, Task, Free, FetchPages, GiveUp, CheckPage
  <2> QED BY <1>1, <2>1, <2>2
<1>6. ASSUME NEW t \in Tasks,
             \/ \E o \in Orgs, channel \in OauthChannels : getOauthUrl(t, o, channel)
             \/ \E o \in Orgs, a \in Accounts : repair(t, o, a)
      PROVE  SavedIsHeard'
  <2>1. UNCHANGED <<account, subscribed, unheard>> /\ Rows' = Rows
    BY <1>6 DEF getOauthUrl, repair, Rows
  <2>2. \A x \in Tasks : task'[x].pc = "save" => task'[x] = task[x]
    BY <1>6 DEF Inv, TypeOK, Free, getOauthUrl, repair
  <2> QED BY <1>1, <2>1, <2>2
<1>7. ASSUME NEW t \in Tasks, Subscribe(t) PROVE SavedIsHeard'
  <2>1. UNCHANGED account /\ Rows' = Rows
    BY <1>7 DEF Subscribe, Rows
  <2>2. /\ subscribed \union unheard \subseteq subscribed' \union unheard'
        /\ Subject(task[t].channel, task[t].pageId) \in subscribed' \union unheard'
    BY <1>7, HeardStays DEF Subscribe
  <2>3. task[t] \in Task /\ \A x \in Tasks \ {t} : task'[x] = task[x]
    BY <1>7 DEF Inv, TypeOK, Subscribe
  <2>4. task'[t].channel = task[t].channel /\ task'[t].pageId = task[t].pageId
    BY <1>7, <2>3 DEF Inv, TypeOK, Subscribe, Task
  <2>5. Heard(task[t].channel, task[t].pageId)'
    BY <2>2, <2>4 DEF Heard, Subject
  <2> QED BY <1>1, <2>1, <2>2, <2>3, <2>5
<1>8. ASSUME NEW t \in Tasks, Save(t) PROVE SavedIsHeard'
  <2> DEFINE row == Row(task[t].org, task[t].channel, task[t].pageId)
             same == {a \in Of(task[t].org, task[t].channel) : account[a].pageId = task[t].pageId}
  <2>1. PICK a \in (IF same # {} THEN same ELSE Accounts \ Rows) :
          account' = [account EXCEPT ![a] = row]
    BY <1>8 DEF Save
  <2>2. a \in Accounts
    BY <2>1 DEF Of, Rows
  <2>3. UNCHANGED <<subscribed, unheard>>
        /\ task' = [Taken(task[t].org, task[t].pageId) EXCEPT ![t] = Free]
    BY <1>8 DEF Save
  <2>4. \A x \in Tasks : task'[x].pc = "save" =>
          task[x].pc = "save" /\ UNCHANGED <<task[x].channel, task[x].pageId>>
    BY <2>3, TakenType DEF Free
  <2>5. row.channel = task[t].channel /\ row.pageId = task[t].pageId
    BY DEF Row
  <2>6. account'[a] = row /\ \A x \in Accounts \ {a} : account'[x] = account[x]
    BY <2>1, <2>2 DEF Inv, TypeOK
  <2> HIDE DEF row
  <2>7. Heard(account'[a].channel, account'[a].pageId)
    BY <1>8, <2>3, <2>5, <2>6 DEF Inv, SavedIsHeard, Heard, Save
  <2> QED BY <1>1, <2>3, <2>4, <2>6, <2>7 DEF Rows
<1>9. ASSUME NEW t \in Tasks, RepairSubscribe(t) PROVE SavedIsHeard'
  <2>1. UNCHANGED account /\ Rows' = Rows
    BY <1>9 DEF RepairSubscribe, Rows
  <2>2. subscribed \union unheard \subseteq subscribed' \union unheard'
    BY <1>9, HeardStays DEF RepairSubscribe
  <2>3. \A x \in Tasks : task'[x].pc = "save" => task'[x] = task[x]
    BY <1>9 DEF Inv, TypeOK, Task, RepairSubscribe
  <2> QED BY <1>1, <2>1, <2>2, <2>3
<1>10. ASSUME NEW t \in Tasks, Repaired(t) PROVE SavedIsHeard'
  <2>1. UNCHANGED <<subscribed, unheard>>
        /\ \A x \in Tasks : task'[x].pc = "save" => task'[x] = task[x]
    BY <1>10 DEF Inv, TypeOK, Free, Repaired
  <2>2. Rows' \subseteq Rows
        /\ \A x \in Rows' : UNCHANGED <<account[x].channel, account[x].pageId>>
    BY <1>10, KeepRow DEF Repaired, Inv, Rows
  <2> QED BY <1>1, <2>1, <2>2
<1>11. CASE Restart
  <2>1. UNCHANGED <<account, subscribed, unheard>> /\ Rows' = Rows
        /\ \A x \in Tasks : task'[x].pc = "save" => task'[x] = task[x]
    BY <1>11 DEF Restart, Free, Rows
  <2> QED BY <1>1, <2>1
<1>12. CASE UNCHANGED vars
  BY <1>1, <1>12 DEF vars, Rows
<1> QED
  BY <1>2, <1>3, <1>4, <1>5, <1>6, <1>7, <1>8, <1>9, <1>10, <1>11, <1>12
  DEF Next, TaskStep, OrgStep

\* In every reachable state the table keeps its types and its unique key, a page
\* found free is free or the connection knows, and what is stored was asked for.
THEOREM Invariance == Spec => []Inv
<1>1. Inv /\ [Next]_vars => Inv'
  BY TypeStep, FreeStep, HeardStep DEF Inv
<1> QED BY InitInv, <1>1, PTL DEF Spec

\* The tables of social accounts and the tasks have their types, and an
\* organization connects a page once per channel.
THEOREM TypeCorrect == Spec => []TypeOK
<1>1. Inv => TypeOK
  BY DEF Inv
<1> QED BY Invariance, <1>1, PTL

\* However many organizations connect the same page at once, two of them have it
\* only when the later one's check was out of date or an id was edited (create,
\* update, handleOauthCallback).
THEOREM OneOrganization == Spec => []OneOrganizationPerId
<1>1. Inv => OneOrganizationPerId
  BY DEF Inv
<1> QED BY Invariance, <1>1, PTL

\* An active account's page is subscribed, or its subscription was refused,
\* wherever a restart hits (handleOauthCallback, repair).
THEOREM ActiveAccountsHeard == Spec => []ActiveIsHeard
<1>1. Inv => ActiveIsHeard
  BY DEF Inv, SavedIsHeard, Heard, ActiveIsHeard
<1> QED BY Invariance, <1>1, PTL

\* Only a connection that saves, and a request that somebody makes, fills an empty
\* row; a repair that ends finds its row removed and leaves it so.
THEOREM RemovedStays == Spec => RemovedStaysRemoved
<1> DEFINE Stays(a) == a \notin Rows /\ account'[a] # NoAccount =>
                         \/ acts' # acts
                         \/ \E t \in Tasks : task[t].pc = "save" /\ task'[t].pc = "free"
<1>1. Inv /\ [Next]_vars => [\A a \in Accounts : Stays(a)]_vars
  <2> SUFFICES ASSUME Inv, Next, NEW a \in Accounts, a \notin Rows,
                      account'[a] # NoAccount, acts' = acts
               PROVE  \E t \in Tasks : task[t].pc = "save" /\ task'[t].pc = "free"
    BY DEF vars
  <2>1. /\ account[a] = NoAccount /\ acts \in Nat /\ task \in [Tasks -> Task]
        /\ account \in [Accounts -> Account \union {NoAccount}]
    BY ChannelsAssumption DEF Inv, TypeOK, Rows, Account
  <2>2. ~Act
    BY <2>1 DEF Act
  <2>3. ASSUME NEW t \in Tasks, Save(t)
        PROVE  task[t].pc = "save" /\ task'[t].pc = "free"
    BY <2>1, <2>3, TakenType DEF Save, Free
  <2>4. account' # account
    BY <2>1
  <2>5. ASSUME NEW t \in Tasks, Repaired(t) PROVE FALSE
    <3>1. task[t].id \in Rows /\ account' = [account EXCEPT ![task[t].id].isActive = TRUE]
      BY <2>4, <2>5 DEF Repaired
    <3> QED BY <2>1, <3>1
  <2> QED
    BY <2>2, <2>3, <2>4, <2>5
    DEF Next, TaskStep, OrgStep, create, update, remove, switchOff, getOauthUrl, FetchPages,
        GiveUp, CheckPage, Subscribe, repair, RepairSubscribe, Restart
<1> HIDE DEF Stays
<1>2. Spec => [][\A a \in Accounts : Stays(a)]_vars
  BY <1>1, Invariance, PTL DEF Spec
<1> USE DEF Stays
<1> QED BY <1>2 DEF RemovedStaysRemoved
=============================================================================
