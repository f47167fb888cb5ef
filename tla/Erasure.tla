------------------------------- MODULE Erasure -------------------------------
(***************************************************************************)
(* Rows that refer to each other, the requests that add or edit rows, and  *)
(* the routines that delete a conversation, a customer, a tag, an          *)
(* organization or everything, statement by statement.  The database       *)
(* refuses to delete a row that is referred to, and to add one that refers *)
(* to nothing; a transaction locks what it has deleted until it ends.      *)
(***************************************************************************)
EXTENDS Integers, Sequences, FiniteSets

CONSTANTS
  Row,       \* the rows there can be
  Table,     \* Table[r]: the table of r
  Refs,      \* Refs[r]: the rows r refers to
  Tenant,    \* Tenant[r]: the organization r is about
  By,        \* By[r]: the user an audit row names
  NoRow,
  Keeper,    \* the users with the address that delete-all-users-except.js keeps
  Actor,     \* bound: requests and scripts at a time
  Databases, \* what the database may hold at first
  MaxOps,    \* bound: requests and scripts started
  MaxFaults  \* bound: crashes and failing statements

\* The foreign keys that refuse a deletion (ON DELETE RESTRICT).
References ==
  [Organization |-> {}, AuthCode |-> {},
   Department |-> {"Organization"}, User |-> {"Organization"},
   Customer |-> {"Organization"}, Tag |-> {"Organization"},
   RoutingSettings |-> {"Organization"}, AuditLog |-> {"Organization"},
   AutoReply |-> {"Organization"}, SavedReply |-> {"Organization"},
   SocialAccount |-> {"Organization"},
   Conversation |-> {"Customer", "Organization"},
   Message |-> {"Conversation", "Organization"},
   CustomerNote |-> {"Customer", "User", "Organization"},
   CustomerTag |-> {"Customer", "Tag", "Organization"},
   ConversationTag |-> {"Conversation", "Tag", "Organization"},
   ConversationNote |-> {"Conversation", "User", "Organization"}]
Tables == DOMAIN References

\* A nullable column, or a row of _DepartmentToUser, goes with either of the two
\* rows it connects (ON DELETE SET NULL, CASCADE).
Links == {"assignedTo", "departmentId", "DepartmentToUser"}

ASSUME ErasureAssumption ==
  /\ Table \in [Row -> Tables \union Links]
  /\ Refs \in [Row -> SUBSET Row]
  /\ Tenant \in [Row -> Row] /\ By \in [Row -> Row] /\ NoRow \notin Row
  /\ \A r \in Row : Table[r] \in Tables =>
       /\ \A s \in Refs[r] : Table[s] \in References[Table[r]] /\ Tenant[s] = Tenant[r]
       /\ \A t \in References[Table[r]] : \E s \in Refs[r] : Table[s] = t
       /\ \A s, u \in Refs[r] : Table[s] = Table[u] => s = u
  /\ \A r \in Row : Table[r] = "Organization" => Tenant[r] = r
  /\ \A r \in Row : Table[r] \in Links => \A s \in Refs[r] : Table[s] \in Tables
  /\ Keeper \subseteq Row
  /\ \A rows \in Databases : rows \subseteq Row /\ \A r \in rows : Refs[r] \subseteq rows
  /\ MaxOps \in Nat /\ MaxFaults \in Nat

VARIABLES
  db,     \* the rows committed
  gone,   \* gone[p]: rows the open transaction of p has deleted
  job,    \* job[p]: what p is doing
  took,   \* history: rows p deleted outside a transaction
  upset,  \* history: while p ran, somebody added a row to what it deletes,
          \* deleted what its row refers to, held its rows, or it broke down;
          \* or its organization was gone before
  ops, faults

vars == <<db, gone, job, took, upset, ops, faults>>

Visible(p) == db \ gone[p]
Locked(p) == UNION {gone[q] : q \in Actor \ {p}}
Children(rows) == {r \in Row : Refs[r] \cap rows # {}}
-----------------------------------------------------------------------------
(***************************************************************************)
(* What there is to do.  A statement deletes the rows of a table that a    *)
(* condition selects.                                                      *)
(***************************************************************************)
S(table, where) == [table |-> table, where |-> where]
Everything(tables, where) == [i \in DOMAIN tables |-> S(tables[i], where)]

\* Mutant of deleteConversation: the conversation goes before its notes.
deleteConversationEarly ==
  [of |-> "Conversation", reads |-> FALSE, atomic |-> TRUE,
   steps |-> <<S("Message", "of"), S("Conversation", "self"),
             S("ConversationNote", "of"), S("ConversationTag", "of")>>]

deleteConversation ==
  [of |-> "Conversation", reads |-> FALSE, atomic |-> TRUE,
   steps |-> <<S("Message", "of"), S("ConversationNote", "of"),
             S("ConversationTag", "of"), S("Conversation", "self")>>]

\* Mutant of deleteCustomer: the statements are not a transaction.
deleteCustomerPlainly ==
  [of |-> "Customer", reads |-> TRUE, atomic |-> FALSE,
   steps |-> <<S("Message", "in"), S("ConversationNote", "in"),
             S("ConversationTag", "in"), S("Conversation", "of"),
             S("CustomerTag", "of"), S("CustomerNote", "of"), S("Customer", "self")>>]

\* The conversations are read before the transaction starts.
deleteCustomer ==
  [of |-> "Customer", reads |-> TRUE, atomic |-> TRUE,
   steps |-> <<S("Message", "in"), S("ConversationNote", "in"),
             S("ConversationTag", "in"), S("Conversation", "of"),
             S("CustomerTag", "of"), S("CustomerNote", "of"), S("Customer", "self")>>]

\* Mutant of deleteCustomerData: the customer himself is left.
deleteCustomerDataOnly ==
  [of |-> "Customer", reads |-> TRUE, atomic |-> TRUE,
   steps |-> <<S("Message", "in"), S("ConversationNote", "in"),
               S("ConversationTag", "in"), S("Conversation", "listed"),
               S("CustomerTag", "of"), S("CustomerNote", "of")>>]

\* Here they are read inside, and only they are deleted.
deleteCustomerData ==
  [of |-> "Customer", reads |-> TRUE, atomic |-> TRUE,
   steps |-> <<S("Message", "in"), S("ConversationNote", "in"),
             S("ConversationTag", "in"), S("Conversation", "listed"),
             S("CustomerTag", "of"), S("CustomerNote", "of"), S("Customer", "self")>>]

deleteTag ==
  [of |-> "Tag", reads |-> FALSE, atomic |-> FALSE,
   steps |-> <<S("ConversationTag", "of"), S("CustomerTag", "of"), S("Tag", "self")>>]

\* Mutant of deleteOrganization: the condition on messages is lost.
deleteOrganizationWide ==
  [of |-> "Organization", reads |-> FALSE, atomic |-> TRUE,
   steps |-> <<S("Message", "all")>> \o Everything(<<"ConversationTag", "ConversationNote",
     "Conversation", "CustomerTag", "CustomerNote", "Customer", "SavedReply", "AutoReply",
     "RoutingSettings", "Department", "SocialAccount", "Tag", "AuditLog", "User">>, "tenant")
     \o <<S("Organization", "self")>>]

\* An administrator of the organization deletes it.
deleteOrganization ==
  [of |-> "Organization", reads |-> FALSE, atomic |-> TRUE,
   steps |-> Everything(<<"Message", "ConversationTag", "ConversationNote", "Conversation",
     "CustomerTag", "CustomerNote", "Customer", "SavedReply", "AutoReply", "RoutingSettings",
     "Department", "SocialAccount", "Tag", "AuditLog", "User">>, "tenant")
     \o <<S("Organization", "self")>>]

\* A super-administrator does; the condition on the codes is no condition.
adminDeleteOrganization ==
  [of |-> "Organization", reads |-> FALSE, atomic |-> TRUE,
   steps |-> Everything(<<"Message", "ConversationTag", "ConversationNote", "Conversation",
     "CustomerTag", "CustomerNote", "Customer", "SavedReply", "AutoReply", "RoutingSettings",
     "Tag", "AuditLog">>, "tenant") \o <<S("AuthCode", "all")>> \o
     Everything(<<"SocialAccount", "Department", "User">>, "tenant")
     \o <<S("Organization", "self")>>]

\* delete-org-by-email.ts, for one of the organizations it finds.
deleteOrgByEmail ==
  [of |-> "Organization", reads |-> FALSE, atomic |-> FALSE,
   steps |-> Everything(<<"ConversationTag", "CustomerTag", "Message", "ConversationNote",
     "CustomerNote", "Conversation", "Customer", "SavedReply", "AutoReply", "Tag",
     "Department", "SocialAccount", "AuditLog", "RoutingSettings", "User">>, "tenant")
     \o <<S("Organization", "self")>>]

\* clear-orgs-channels.js
clearOrgsChannels ==
  [of |-> "Organization", reads |-> FALSE, atomic |-> TRUE,
   steps |-> Everything(<<"AuthCode", "ConversationTag", "CustomerTag", "ConversationNote",
     "CustomerNote", "Message", "AuditLog", "SavedReply", "AutoReply", "RoutingSettings",
     "Conversation", "Customer", "Tag", "SocialAccount", "User", "Department",
     "Organization">>, "all")]

\* delete-all-users-except.js: the users to delete are read first.
deleteAllUsersExcept ==
  [of |-> "User", reads |-> TRUE, atomic |-> TRUE,
   steps |-> <<S("ConversationNote", "in"), S("CustomerNote", "in"), S("AuditLog", "by"),
             S("User", "listed")>>]

\* truncate-all-app-data.js: one statement, which waits for every lock.
truncateAll ==
  [of |-> "Organization", reads |-> FALSE, atomic |-> FALSE,
   steps |-> <<S("every table", "all")>>]

\* Requests that delete one row, then write an audit row.
removeCustomerTag ==
  [of |-> "CustomerTag", reads |-> FALSE, atomic |-> FALSE,
   steps |-> <<S("CustomerTag", "self")>>]

removeConversationTag ==
  [of |-> "ConversationTag", reads |-> FALSE, atomic |-> FALSE,
   steps |-> <<S("ConversationTag", "self")>>]

deleteSavedReply ==
  [of |-> "SavedReply", reads |-> FALSE, atomic |-> FALSE,
   steps |-> <<S("SavedReply", "self")>>]

Erasure ==
  [deleteConversation |-> deleteConversation, deleteCustomer |-> deleteCustomer,
   deleteCustomerData |-> deleteCustomerData, deleteTag |-> deleteTag,
   deleteOrganization |-> deleteOrganization,
   adminDeleteOrganization |-> adminDeleteOrganization,
   deleteOrgByEmail |-> deleteOrgByEmail, clearOrgsChannels |-> clearOrgsChannels,
   deleteAllUsersExcept |-> deleteAllUsersExcept, truncateAll |-> truncateAll,
   removeCustomerTag |-> removeCustomerTag, removeConversationTag |-> removeConversationTag,
   deleteSavedReply |-> deleteSavedReply]

\* A request that adds a row first finds the rows of these tables it refers to.
\* A keyed one looks whether its row is there already.
addCustomerTag == [table |-> "CustomerTag", finds |-> {"Customer", "Tag"}, keyed |-> TRUE]

addConversationTag ==
  [table |-> "ConversationTag", finds |-> {"Conversation", "Tag"}, keyed |-> TRUE]

upsertCustomerNote == [table |-> "CustomerNote", finds |-> {"Customer"}, keyed |-> TRUE]

createConversationNote ==
  [table |-> "ConversationNote", finds |-> {"Conversation"}, keyed |-> FALSE]

createSavedReply == [table |-> "SavedReply", finds |-> {}, keyed |-> FALSE]

createForOrg == [table |-> "AutoReply", finds |-> {}, keyed |-> FALSE]

createTag == [table |-> "Tag", finds |-> {}, keyed |-> FALSE]

createCustomer == [table |-> "Customer", finds |-> {}, keyed |-> FALSE]

createConversation == [table |-> "Conversation", finds |-> {"Customer"}, keyed |-> FALSE]

storeMessage == [table |-> "Message", finds |-> {"Conversation"}, keyed |-> FALSE]

Addition ==
  [addCustomerTag |-> addCustomerTag, addConversationTag |-> addConversationTag,
   upsertCustomerNote |-> upsertCustomerNote, createConversationNote |-> createConversationNote,
   createSavedReply |-> createSavedReply, createForOrg |-> createForOrg,
   createTag |-> createTag, createCustomer |-> createCustomer,
   createConversation |-> createConversation, storeMessage |-> storeMessage]

\* A request that edits a row finds it, writes, and reads it again for its answer;
\* insists: it fails if the row is gone by then.
updateTag == [table |-> "Tag", insists |-> FALSE]

updateSavedReply == [table |-> "SavedReply", insists |-> TRUE]

updateForOrg == [table |-> "AutoReply", insists |-> TRUE]

Edition ==
  [updateTag |-> updateTag, updateSavedReply |-> updateSavedReply, updateForOrg |-> updateForOrg]

\* These write an audit row at the end, and fail if that fails.
Logged == {"removeCustomerTag", "removeConversationTag", "deleteSavedReply",
         "addCustomerTag", "addConversationTag", "createConversationNote", "createSavedReply",
         "updateSavedReply"}
-----------------------------------------------------------------------------
(***************************************************************************)
(* State                                                                   *)
(***************************************************************************)
Erases(j) == j.kind \in DOMAIN Erasure
Adds(j) == j.kind \in DOMAIN Addition
Edits(j) == j.kind \in DOMAIN Edition
Steps(j) == Erasure[j.kind].steps
Runs(p) == job[p].pc \in {"look", "write", "commit", "log"}

Idle == [kind |-> "none", pc |-> "idle", at |-> 1, target |-> NoRow, ids |-> {}]
Kinds == DOMAIN Erasure \union DOMAIN Addition \union DOMAIN Edition
Job == [kind : Kinds, pc : {"look", "write", "commit", "log"},
        at : 1..18, target : Row, ids : SUBSET Row]
Ended == [kind : Kinds \union {"none"}, pc : {"idle", "ok", "error"},
          at : {1}, target : {NoRow}, ids : {{}}]

Init ==
  /\ db \in Databases
  /\ gone = [p \in Actor |-> {}]
  /\ job = [p \in Actor |-> Idle]
  /\ took = [p \in Actor |-> {}]
  /\ upset = [p \in Actor |-> FALSE]
  /\ ops = 0
  /\ faults = 0

\* What is in progress is a routine under way: a job holds its statement, target and
\* the ids it has selected, and only a transaction has deleted rows to give back.
TypeOK ==
  /\ db \subseteq Row
  /\ gone \in [Actor -> SUBSET Row] /\ \A p \in Actor : gone[p] # {} => Runs(p)
  /\ job \in [Actor -> Job \union Ended]
  /\ took \in [Actor -> SUBSET Row]
  /\ upset \in [Actor -> BOOLEAN]
  /\ ops \in 0..MaxOps /\ faults \in 0..MaxFaults

\* What a statement of the job selects, in whatever the database holds.
Selected(j, s) ==
  {r \in Row :
    /\ s.table \in {Table[r], "every table"}
    /\ \/ s.where = "self" /\ r = j.target
       \/ s.where = "of" /\ j.target \in Refs[r]
       \/ s.where = "in" /\ Refs[r] \cap j.ids # {}
       \/ s.where = "listed" /\ r \in j.ids
       \/ s.where = "by" /\ By[r] \in j.ids
       \/ s.where = "tenant" /\ Tenant[r] = j.target
       \/ s.where = "all"}

\* The job deletes r, or something r refers to.
Meets(j, r) ==
  \E i \in DOMAIN Steps(j) : LET hit == Selected(j, Steps(j)[i])
                           IN  r \in hit \/ Refs[r] \cap hit # {}

\* What the others have to suffer from rows that are added and deleted.
Upsets(p, added, deleted) ==
  upset' = [q \in Actor |->
    \/ upset[q]
    \/ /\ q # p /\ Runs(q)
       /\ \/ Erases(job[q]) /\ \E r \in added : Meets(job[q], r)
          \/ Adds(job[q]) /\ (job[q].target \in added \/ Refs[job[q].target] \cap deleted # {})
          \/ Edits(job[q]) /\ job[q].target \in deleted
          \/ job[q].kind \in Logged /\ Tenant[job[q].target] \in deleted]

Ends(p, outcome) == job' = [job EXCEPT ![p] = [Idle EXCEPT !.pc = outcome, !.kind = job[p].kind]]
Goes(p, pc) == job' = [job EXCEPT ![p].pc = pc]
\* After the work: an audit row, or nothing.
Finish(p) == IF job[p].kind \in Logged THEN Goes(p, "log") ELSE Ends(p, "ok")
Counted == UNCHANGED <<ops, faults>>
-----------------------------------------------------------------------------
(***************************************************************************)
(* Steps                                                                   *)
(***************************************************************************)
Free(p) == ops < MaxOps /\ ~Runs(p)
Begin(p, kind, target, pc, ids, orphan) ==
  /\ ops' = ops + 1
  /\ job' = [job EXCEPT ![p] = [kind |-> kind, pc |-> pc, at |-> 1, target |-> target, ids |-> ids]]
  /\ took' = [took EXCEPT ![p] = {}]
  /\ upset' = [upset EXCEPT ![p] = orphan]
  /\ UNCHANGED <<db, gone, faults>>

\* What is read before the first statement.
Listed(kind, target) ==
  IF kind = "deleteAllUsersExcept" THEN {u \in db : Table[u] = "User"} \ Keeper
  ELSE IF Erasure[kind].reads
  THEN {r \in db : Table[r] = "Conversation" /\ target \in Refs[r]}
  ELSE {}

\* An erasure of a row that is not found ends at once.  A tag is taken off a
\* customer or conversation that is found, whether or not it is on it.
StartErasure(p) ==
  /\ Free(p)
  /\ \E kind \in DOMAIN Erasure, target \in Row :
       /\ Table[target] = Erasure[kind].of
       /\ \/ target \in db
          \/ /\ kind \in {"removeCustomerTag", "removeConversationTag"}
             /\ \A r \in Refs[target] : Table[r] # "Tag" => r \in db
       /\ kind = "deleteAllUsersExcept" => target \in Keeper
       /\ Begin(p, kind, target, "write", Listed(kind, target), FALSE)

\* A token outlives its user and organization, so a request without a look at
\* either may come late.
StartAddition(p) ==
  /\ Free(p)
  /\ \E kind \in DOMAIN Addition, target \in Row :
       /\ Table[target] = Addition[kind].table
       /\ Addition[kind].keyed \/ (target \notin db /\ \A q \in Actor : Runs(q) => job[q].target # target)
       /\ \A r \in Refs[target] : Table[r] \in Addition[kind].finds => r \in db
       /\ Begin(p, kind, target, IF Addition[kind].keyed THEN "look" ELSE "write", {},
                ~(Refs[target] \subseteq db))

StartEdit(p) ==
  /\ Free(p)
  /\ \E kind \in DOMAIN Edition, target \in db :
       /\ Table[target] = Edition[kind].table
       /\ Begin(p, kind, target, "write", {}, FALSE)

\* An UPDATE waits for the lock on its row, and writes nothing if that is gone.
Edit(p) ==
  /\ job[p].pc = "write" /\ Edits(job[p])
  /\ job[p].target \notin Locked(p)
  /\ Goes(p, "look")
  /\ UNCHANGED <<db, gone, took, upset>> /\ Counted

ReadAgain(p) ==
  /\ job[p].pc = "look" /\ Edits(job[p])
  /\ IF job[p].target \in db \/ ~Edition[job[p].kind].insists THEN Finish(p) ELSE Ends(p, "error")
  /\ UNCHANGED <<db, gone, took, upset>> /\ Counted

\* A row that is there is kept, or its content written anew.
Look(p) ==
  /\ job[p].pc = "look" /\ Adds(job[p])
  /\ \/ job[p].target \notin db /\ Goes(p, "write")
     \/ job[p].target \in db /\ Finish(p)
  /\ UNCHANGED <<db, gone, took, upset>> /\ Counted

\* An INSERT waits for locks on its row and on those it refers to.
Insert(p) ==
  LET row == job[p].target
  IN  /\ job[p].pc = "write" /\ Adds(job[p])
      /\ ({row} \union Refs[row]) \cap Locked(p) = {}
      /\ \/ /\ row \notin db /\ Refs[row] \subseteq db
            /\ db' = db \union {row}
            /\ Upsets(p, {row}, {})
            /\ Finish(p)
         \/ /\ row \in db \/ ~(Refs[row] \subseteq db)
            /\ Ends(p, "error")
            /\ UNCHANGED <<db, upset>>
      /\ UNCHANGED <<gone, took>> /\ Counted

\* The audit row refers to the organization.
Log(p) ==
  LET org == Tenant[job[p].target]
  IN  /\ job[p].pc = "log"
      /\ org \notin Locked(p)
      /\ \/ org \in db /\ Ends(p, "ok")
         \/ org \notin db /\ Ends(p, "error")
      /\ UNCHANGED <<db, gone, took, upset>> /\ Counted

\* Columns and memberships that go with the rows.
Fall(p, hit) == {l \in Visible(p) : Table[l] \in Links /\ Refs[l] \cap hit # {}}
Blocked(p, hit) == (hit \union Children(hit)) \cap Locked(p) # {}
Refused(p, hit) == \E r \in Visible(p) \ hit : Table[r] \notin Links /\ Refs[r] \cap hit # {}

After(p) ==
  IF job[p].at < Len(Steps(job[p])) THEN job' = [job EXCEPT ![p].at = @ + 1]
  ELSE IF Erasure[job[p].kind].atomic THEN Goes(p, "commit")
  ELSE Finish(p)

\* The statement goes through, inside a transaction or on its own.
Delete(p, rows) ==
  /\ IF Erasure[job[p].kind].atomic
       THEN /\ gone' = [gone EXCEPT ![p] = @ \union rows]
          /\ UNCHANGED <<db, took, upset>>
       ELSE /\ db' = db \ rows
          /\ took' = [took EXCEPT ![p] = @ \union rows]
          /\ Upsets(p, {}, rows)
          /\ UNCHANGED gone
  /\ After(p)

\* A foreign key refuses it, and the transaction is rolled back.
Refuse(p) ==
  /\ gone' = [gone EXCEPT ![p] = {}]
  /\ Ends(p, "error")
  /\ UNCHANGED <<db, took, upset>>

\* A statement that waits for a lock may time out, or the database breaks a
\* deadlock.
GiveUp(p) ==
  /\ gone' = [gone EXCEPT ![p] = {}]
  /\ upset' = [upset EXCEPT ![p] = TRUE]
  /\ Ends(p, "error")
  /\ UNCHANGED <<db, took>>

Statement(p) ==
  /\ job[p].pc = "write" /\ Erases(job[p])
  /\ LET hit == Selected(job[p], Steps(job[p])[job[p].at]) \cap Visible(p)
     IN  \/ Blocked(p, hit) /\ GiveUp(p)
         \/ ~Blocked(p, hit) /\ Refused(p, hit) /\ Refuse(p)
         \/ ~Blocked(p, hit) /\ ~Refused(p, hit) /\ Delete(p, hit \union Fall(p, hit))
  /\ Counted

Commit(p) ==
  /\ job[p].pc = "commit"
  /\ db' = db \ gone[p]
  /\ gone' = [gone EXCEPT ![p] = {}]
  /\ Upsets(p, {}, gone[p])
  /\ Ends(p, "ok")
  /\ UNCHANGED took
  /\ Counted

\* A crash, or a statement that fails for another reason.
Fail(p) ==
  /\ faults < MaxFaults /\ faults' = faults + 1
  /\ Runs(p)
  /\ gone' = [gone EXCEPT ![p] = {}]
  /\ upset' = [upset EXCEPT ![p] = TRUE]
  /\ Ends(p, "error")
  /\ UNCHANGED <<db, took, ops>>

Next ==
  \E p \in Actor :
    \/ StartErasure(p) \/ StartAddition(p) \/ Look(p) \/ Insert(p) \/ Log(p)
    \/ StartEdit(p) \/ Edit(p) \/ ReadAgain(p)
    \/ Statement(p) \/ Commit(p) \/ Fail(p)

Spec == Init /\ [][Next]_vars
-----------------------------------------------------------------------------
(***************************************************************************)
(* Properties                                                              *)
(***************************************************************************)
\* "Delete in order to satisfy foreign key constraints": a routine that deletes,
\* or a request that adds or edits a row, fails only when somebody else adds to what
\* it deletes, or deletes what it refers to or edits, while it runs, or something
\* breaks down; whatever the database holds.
RefusedIsExplained == \A p \in Actor : job[p].pc = "error" => upset[p]

\* A routine that fails has deleted nothing, but for deleteTag and deleteOrgByEmail,
\* which are no transaction, and the requests whose audit row could not be written.
AllOrNothing ==
  \A p \in Actor : job[p].pc = "error" /\ took[p] # {} =>
    job[p].kind \in {"deleteTag", "deleteOrgByEmail"} \union Logged

\* What is to be deleted is gone when its last statement is done, and with it
\* every row about it: no message, note or tag of an erased customer is left.
Aim(j) == IF j.kind = "deleteAllUsersExcept" THEN j.ids ELSE {j.target}
ErasedIsGone ==
  [][\A p \in Actor :
       Erases(job[p]) /\ job[p].pc \in {"write", "commit"} /\ job'[p].pc \in {"log", "ok"}
       => (Aim(job[p]) \union Children(Aim(job[p]))) \cap db' = {}]_vars

\* Deleting one organization, customer, conversation or tag takes nothing but
\* what is about it, and nothing of another organization, but for the sign-in
\* codes that adminDeleteOrganization sweeps.  A column or membership goes only
\* with a row it names (nothing checks that the department of a reply is of its
\* organization).
About(row) ==
  IF Table[row] = "Organization" THEN {r \in Row : Tenant[r] = row}
  ELSE {row} \union Children({row}) \union Children(Children({row}))
OthersKeepTheirs ==
  [][\A r \in db \ db' : \E p \in Actor :
       /\ Runs(p) /\ Erases(job[p])
       /\ \/ job[p].kind \in {"clearOrgsChannels", "truncateAll", "deleteAllUsersExcept"}
          \/ job[p].kind = "adminDeleteOrganization" /\ Table[r] = "AuthCode"
          \/ Table[r] \in Links /\ Refs[r] \cap (db \ db') # {}
          \/ Tenant[r] = Tenant[job[p].target] /\ r \in About(job[p].target)]_vars

=============================================================================
