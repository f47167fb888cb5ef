--------------------------- MODULE CustomerProofs ---------------------------
(***************************************************************************)
(* Theorems about the records of customers.  Erasure: what is refused was  *)
(* disturbed, what fails has deleted nothing, what is erased is gone and   *)
(* what belongs to others stays, for every database, whatever its rows     *)
(* refer to, and any number of requests and scripts.  Contact: what views, *)
(* forms, refreshes and answers hold of one customer is stored or known to *)
(* be older, for any number of views, users and texts.                     *)
(***************************************************************************)
EXTENDS Erasure, Contact, TLAPS

\* The routines that go by the organization of a row.
Swept == {"deleteOrganization", "adminDeleteOrganization", "deleteOrgByEmail"}

\* Which tables refer to which.
LEMMA WhoRefers ==
  ASSUME NEW t \in Tables
  PROVE  /\ References[t] \subseteq {"Organization", "Customer", "Conversation", "Tag", "User"}
         /\ "Organization" \in References[t] <=> t \notin {"Organization", "AuthCode"}
         /\ "Customer" \in References[t] => t \in {"Conversation", "CustomerNote", "CustomerTag"}
         /\ "Conversation" \in References[t] =>
              t \in {"Message", "ConversationTag", "ConversationNote"}
         /\ "Tag" \in References[t] => t \in {"CustomerTag", "ConversationTag"}
         /\ "User" \in References[t] => t \in {"CustomerNote", "ConversationNote"}
BY DEF Tables, References

\* The tables by name.
LEMMA AllTables ==
  Tables = {"Organization", "AuthCode", "Department", "User", "Customer", "Tag",
            "RoutingSettings", "AuditLog", "AutoReply", "SavedReply", "SocialAccount",
            "Conversation", "Message", "CustomerNote", "CustomerTag", "ConversationTag",
            "ConversationNote"}
BY DEF Tables, References

\* The names of the routines that delete.
RoutineNames == {"deleteConversation", "deleteCustomer", "deleteCustomerData", "deleteTag",
   "deleteOrganization", "adminDeleteOrganization", "deleteOrgByEmail", "clearOrgsChannels",
   "deleteAllUsersExcept", "truncateAll", "removeCustomerTag", "removeConversationTag",
   "deleteSavedReply"}

\* The routines by name.
LEMMA Routines ==
  /\ Erasure["deleteConversation"] = deleteConversation
  /\ Erasure["deleteCustomer"] = deleteCustomer
  /\ Erasure["deleteCustomerData"] = deleteCustomerData
  /\ Erasure["deleteTag"] = deleteTag
  /\ Erasure["deleteOrganization"] = deleteOrganization
  /\ Erasure["adminDeleteOrganization"] = adminDeleteOrganization
  /\ Erasure["deleteOrgByEmail"] = deleteOrgByEmail
  /\ Erasure["clearOrgsChannels"] = clearOrgsChannels
  /\ Erasure["deleteAllUsersExcept"] = deleteAllUsersExcept
  /\ Erasure["truncateAll"] = truncateAll
  /\ Erasure["removeCustomerTag"] = removeCustomerTag
  /\ Erasure["removeConversationTag"] = removeConversationTag
  /\ Erasure["deleteSavedReply"] = deleteSavedReply
BY DEF Erasure

\* How many statements each routine has.
LEMMA Lengths ==
  /\ Len(deleteConversation.steps) = 4 /\ DOMAIN deleteConversation.steps = 1..4
  /\ Len(deleteCustomer.steps) = 7 /\ DOMAIN deleteCustomer.steps = 1..7
  /\ Len(deleteCustomerData.steps) = 7 /\ DOMAIN deleteCustomerData.steps = 1..7
  /\ Len(deleteTag.steps) = 3 /\ DOMAIN deleteTag.steps = 1..3
  /\ Len(deleteAllUsersExcept.steps) = 4 /\ DOMAIN deleteAllUsersExcept.steps = 1..4
  /\ Len(truncateAll.steps) = 1 /\ DOMAIN truncateAll.steps = 1..1
  /\ Len(removeCustomerTag.steps) = 1 /\ DOMAIN removeCustomerTag.steps = 1..1
  /\ Len(removeConversationTag.steps) = 1 /\ DOMAIN removeConversationTag.steps = 1..1
  /\ Len(deleteSavedReply.steps) = 1 /\ DOMAIN deleteSavedReply.steps = 1..1
  /\ Len(deleteOrganization.steps) = 16 /\ DOMAIN deleteOrganization.steps = 1..16
  /\ Len(adminDeleteOrganization.steps) = 17 /\ DOMAIN adminDeleteOrganization.steps = 1..17
  /\ Len(deleteOrgByEmail.steps) = 16 /\ DOMAIN deleteOrgByEmail.steps = 1..16
  /\ Len(clearOrgsChannels.steps) = 17 /\ DOMAIN clearOrgsChannels.steps = 1..17
<1>1. Len(deleteOrganization.steps) = 16 /\ DOMAIN deleteOrganization.steps = 1..16
  BY DEF deleteOrganization, Everything
<1>2. Len(adminDeleteOrganization.steps) = 17 /\ DOMAIN adminDeleteOrganization.steps = 1..17
  BY DEF adminDeleteOrganization, Everything
<1>3. Len(deleteOrgByEmail.steps) = 16 /\ DOMAIN deleteOrgByEmail.steps = 1..16
  BY DEF deleteOrgByEmail, Everything
<1>4. Len(clearOrgsChannels.steps) = 17 /\ DOMAIN clearOrgsChannels.steps = 1..17
  BY DEF clearOrgsChannels, Everything
<1> QED
  BY <1>1, <1>2, <1>3, <1>4 DEF deleteConversation, deleteCustomer, deleteCustomerData,
     deleteTag, deleteAllUsersExcept, truncateAll, removeCustomerTag, removeConversationTag,
     deleteSavedReply

\* The routines that are no transaction.
Alone == {"deleteTag", "deleteOrgByEmail", "truncateAll", "removeCustomerTag",
          "removeConversationTag", "deleteSavedReply"}

\* Which routines are transactions; those that are not have one statement, but for
\* two.
LEMMA Atomic ==
  ASSUME NEW kind \in DOMAIN Erasure
  PROVE  /\ kind \in RoutineNames
         /\ Erasure[kind].atomic = (kind \notin Alone)
         /\ Len(Erasure[kind].steps) \in 1..17
         /\ DOMAIN Erasure[kind].steps = 1..Len(Erasure[kind].steps)
         /\ kind \in Alone \ {"deleteTag", "deleteOrgByEmail"} => Len(Erasure[kind].steps) = 1
<1>1. kind \in RoutineNames
  BY DEF Erasure, RoutineNames
<1>2. /\ deleteConversation.atomic = TRUE /\ deleteCustomer.atomic = TRUE
      /\ deleteCustomerData.atomic = TRUE /\ deleteOrganization.atomic = TRUE
      /\ adminDeleteOrganization.atomic = TRUE /\ clearOrgsChannels.atomic = TRUE
      /\ deleteAllUsersExcept.atomic = TRUE /\ deleteTag.atomic = FALSE
      /\ deleteOrgByEmail.atomic = FALSE /\ truncateAll.atomic = FALSE
      /\ removeCustomerTag.atomic = FALSE /\ removeConversationTag.atomic = FALSE
      /\ deleteSavedReply.atomic = FALSE
  BY DEF deleteConversation, deleteCustomer, deleteCustomerData, deleteTag, deleteAllUsersExcept,
     truncateAll, removeCustomerTag, removeConversationTag, deleteSavedReply, deleteOrganization,
     adminDeleteOrganization, deleteOrgByEmail, clearOrgsChannels
<1>3. Erasure[kind].atomic = (kind \notin Alone)
  BY <1>1, <1>2, Routines DEF RoutineNames, Alone
<1>4. /\ Len(Erasure[kind].steps) \in 1..17
      /\ DOMAIN Erasure[kind].steps = 1..Len(Erasure[kind].steps)
      /\ kind \in Alone \ {"deleteTag", "deleteOrgByEmail"} => Len(Erasure[kind].steps) = 1
  BY <1>1, Lengths, Routines DEF RoutineNames, Alone
<1> QED BY <1>1, <1>3, <1>4

\* A routine that deletes a table's rows of an organization has deleted before
\* what refers to them.
Sorted(steps, where) ==
  \A i \in 1..Len(steps), t \in Tables :
    steps[i].table \in References[t] => \E k \in 1..i : steps[k] = S(t, where)
Uniform(steps) ==
  \A i \in 1..Len(steps) :
    /\ steps[i].table \in Tables
    /\ \/ steps[i].where = "tenant"
       \/ steps[i].where = "self" /\ steps[i].table = "Organization"
       \/ steps[i].table = "AuthCode"
Whole(steps) ==
  \A i \in 1..Len(steps) : steps[i].table \in Tables /\ steps[i].where = "all"

\* The administrator's deletion comes to rows after those that refer to them.
LEMMA deleteOrganizationSorted ==
  Sorted(deleteOrganization.steps, "tenant") /\ Uniform(deleteOrganization.steps)
<1> DEFINE st == deleteOrganization.steps
<1>1. /\ Len(st) = 16
      /\ st[1] = S("Message", "tenant") /\ st[2] = S("ConversationTag", "tenant")
      /\ st[3] = S("ConversationNote", "tenant") /\ st[4] = S("Conversation", "tenant")
      /\ st[5] = S("CustomerTag", "tenant") /\ st[6] = S("CustomerNote", "tenant")
      /\ st[7] = S("Customer", "tenant") /\ st[8] = S("SavedReply", "tenant")
      /\ st[9] = S("AutoReply", "tenant") /\ st[10] = S("RoutingSettings", "tenant")
      /\ st[11] = S("Department", "tenant") /\ st[12] = S("SocialAccount", "tenant")
      /\ st[13] = S("Tag", "tenant") /\ st[14] = S("AuditLog", "tenant")
      /\ st[15] = S("User", "tenant") /\ st[16] = S("Organization", "self")
  BY DEF deleteOrganization, Everything
<1> HIDE DEF st
<1>2. \A a, b : S(a, b).table = a /\ S(a, b).where = b
  BY DEF S
<1>3. ASSUME NEW i \in 1..16
      PROVE  /\ st[i].table = "Conversation" => i = 4
             /\ st[i].table = "Customer" => i = 7
             /\ st[i].table = "Tag" => i = 13
             /\ st[i].table = "User" => i = 15
             /\ st[i].table = "Organization" => i = 16
             /\ st[i].table \in Tables
             /\ \/ st[i].where = "tenant"
                \/ st[i].where = "self" /\ st[i].table = "Organization"
                \/ st[i].table = "AuthCode"
  BY <1>1, <1>2, AllTables
<1>4. \A t \in Tables \ {"Organization", "AuthCode"} : \E k \in 1..16 : st[k] = S(t, "tenant")
  BY <1>1, AllTables
<1>5. \A t \in {"Message", "ConversationTag", "ConversationNote"} :
        \E k \in 1..3 : st[k] = S(t, "tenant")
  BY <1>1
<1>6. \A t \in {"Conversation", "CustomerTag", "CustomerNote"} :
        \E k \in 1..6 : st[k] = S(t, "tenant")
  BY <1>1
<1>7. ASSUME NEW i \in 1..16, NEW t \in Tables, st[i].table \in References[t]
      PROVE  \E k \in 1..i : st[k] = S(t, "tenant")
  <2>1. CASE st[i].table = "Organization"
    BY <1>3, <1>4, <1>7, <2>1, WhoRefers
  <2>2. CASE st[i].table = "Customer"
    BY <1>3, <1>6, <1>7, <2>2, WhoRefers
  <2>3. CASE st[i].table = "Conversation"
    BY <1>3, <1>5, <1>7, <2>3, WhoRefers
  <2>4. CASE st[i].table \in {"Tag", "User"}
    BY <1>3, <1>5, <1>6, <1>7, <2>4, WhoRefers
  <2> QED BY <1>7, <2>1, <2>2, <2>3, <2>4, WhoRefers
<1> QED BY <1>1, <1>3, <1>7 DEF st, Sorted, Uniform

\* So does the super-administrator's,
LEMMA adminDeleteOrganizationSorted ==
  Sorted(adminDeleteOrganization.steps, "tenant") /\ Uniform(adminDeleteOrganization.steps)
<1> DEFINE st == adminDeleteOrganization.steps
<1>1. /\ Len(st) = 17
      /\ st[1] = S("Message", "tenant") /\ st[2] = S("ConversationTag", "tenant")
      /\ st[3] = S("ConversationNote", "tenant") /\ st[4] = S("Conversation", "tenant")
      /\ st[5] = S("CustomerTag", "tenant") /\ st[6] = S("CustomerNote", "tenant")
      /\ st[7] = S("Customer", "tenant") /\ st[8] = S("SavedReply", "tenant")
      /\ st[9] = S("AutoReply", "tenant") /\ st[10] = S("RoutingSettings", "tenant")
      /\ st[11] = S("Tag", "tenant") /\ st[12] = S("AuditLog", "tenant")
      /\ st[13] = S("AuthCode", "all") /\ st[14] = S("SocialAccount", "tenant")
      /\ st[15] = S("Department", "tenant") /\ st[16] = S("User", "tenant")
      /\ st[17] = S("Organization", "self")
  BY DEF adminDeleteOrganization, Everything
<1> HIDE DEF st
<1>2. \A a, b : S(a, b).table = a /\ S(a, b).where = b
  BY DEF S
<1>3. ASSUME NEW i \in 1..17
      PROVE  /\ st[i].table = "Conversation" => i = 4
             /\ st[i].table = "Customer" => i = 7
             /\ st[i].table = "Tag" => i = 11
             /\ st[i].table = "User" => i = 16
             /\ st[i].table = "Organization" => i = 17
             /\ st[i].table \in Tables
             /\ \/ st[i].where = "tenant"
                \/ st[i].where = "self" /\ st[i].table = "Organization"
                \/ st[i].table = "AuthCode"
  BY <1>1, <1>2, AllTables
<1>4. \A t \in Tables \ {"Organization", "AuthCode"} : \E k \in 1..17 : st[k] = S(t, "tenant")
  BY <1>1, AllTables
<1>5. \A t \in {"Message", "ConversationTag", "ConversationNote"} :
        \E k \in 1..3 : st[k] = S(t, "tenant")
  BY <1>1
<1>6. \A t \in {"Conversation", "CustomerTag", "CustomerNote"} :
        \E k \in 1..6 : st[k] = S(t, "tenant")
  BY <1>1
<1>7. ASSUME NEW i \in 1..17, NEW t \in Tables, st[i].table \in References[t]
      PROVE  \E k \in 1..i : st[k] = S(t, "tenant")
  <2>1. CASE st[i].table = "Organization"
    BY <1>3, <1>4, <1>7, <2>1, WhoRefers
  <2>2. CASE st[i].table = "Customer"
    BY <1>3, <1>6, <1>7, <2>2, WhoRefers
  <2>3. CASE st[i].table = "Conversation"
    BY <1>3, <1>5, <1>7, <2>3, WhoRefers
  <2>4. CASE st[i].table \in {"Tag", "User"}
    BY <1>3, <1>5, <1>6, <1>7, <2>4, WhoRefers
  <2> QED BY <1>7, <2>1, <2>2, <2>3, <2>4, WhoRefers
<1> QED BY <1>1, <1>3, <1>7 DEF st, Sorted, Uniform

\* the script for the organizations of an address,
LEMMA deleteOrgByEmailSorted ==
  Sorted(deleteOrgByEmail.steps, "tenant") /\ Uniform(deleteOrgByEmail.steps)
<1> DEFINE st == deleteOrgByEmail.steps
<1>1. /\ Len(st) = 16
      /\ st[1] = S("ConversationTag", "tenant") /\ st[2] = S("CustomerTag", "tenant")
      /\ st[3] = S("Message", "tenant") /\ st[4] = S("ConversationNote", "tenant")
      /\ st[5] = S("CustomerNote", "tenant") /\ st[6] = S("Conversation", "tenant")
      /\ st[7] = S("Customer", "tenant") /\ st[8] = S("SavedReply", "tenant")
      /\ st[9] = S("AutoReply", "tenant") /\ st[10] = S("Tag", "tenant")
      /\ st[11] = S("Department", "tenant") /\ st[12] = S("SocialAccount", "tenant")
      /\ st[13] = S("AuditLog", "tenant") /\ st[14] = S("RoutingSettings", "tenant")
      /\ st[15] = S("User", "tenant") /\ st[16] = S("Organization", "self")
  BY DEF deleteOrgByEmail, Everything
<1> HIDE DEF st
<1>2. \A a, b : S(a, b).table = a /\ S(a, b).where = b
  BY DEF S
<1>3. ASSUME NEW i \in 1..16
      PROVE  /\ st[i].table = "Conversation" => i = 6
             /\ st[i].table = "Customer" => i = 7
             /\ st[i].table = "Tag" => i = 10
             /\ st[i].table = "User" => i = 15
             /\ st[i].table = "Organization" => i = 16
             /\ st[i].table \in Tables
             /\ \/ st[i].where = "tenant"
                \/ st[i].where = "self" /\ st[i].table = "Organization"
                \/ st[i].table = "AuthCode"
  BY <1>1, <1>2, AllTables
<1>4. \A t \in Tables \ {"Organization", "AuthCode"} : \E k \in 1..16 : st[k] = S(t, "tenant")
  BY <1>1, AllTables
<1>5. \A t \in {"Message", "ConversationTag", "ConversationNote"} :
        \E k \in 1..4 : st[k] = S(t, "tenant")
  BY <1>1
<1>6. \A t \in {"Conversation", "CustomerTag", "CustomerNote"} :
        \E k \in 1..6 : st[k] = S(t, "tenant")
  BY <1>1
<1>7. ASSUME NEW i \in 1..16, NEW t \in Tables, st[i].table \in References[t]
      PROVE  \E k \in 1..i : st[k] = S(t, "tenant")
  <2>1. CASE st[i].table = "Organization"
    BY <1>3, <1>4, <1>7, <2>1, WhoRefers
  <2>2. CASE st[i].table = "Customer"
    BY <1>3, <1>6, <1>7, <2>2, WhoRefers
  <2>3. CASE st[i].table = "Conversation"
    BY <1>3, <1>5, <1>7, <2>3, WhoRefers
  <2>4. CASE st[i].table \in {"Tag", "User"}
    BY <1>3, <1>5, <1>6, <1>7, <2>4, WhoRefers
  <2> QED BY <1>7, <2>1, <2>2, <2>3, <2>4, WhoRefers
<1> QED BY <1>1, <1>3, <1>7 DEF st, Sorted, Uniform

\* and the one that clears all.
LEMMA clearOrgsChannelsSorted ==
  Sorted(clearOrgsChannels.steps, "all") /\ Whole(clearOrgsChannels.steps)
<1> DEFINE st == clearOrgsChannels.steps
<1>1. /\ Len(st) = 17
      /\ st[1] = S("AuthCode", "all") /\ st[2] = S("ConversationTag", "all")
      /\ st[3] = S("CustomerTag", "all") /\ st[4] = S("ConversationNote", "all")
      /\ st[5] = S("CustomerNote", "all") /\ st[6] = S("Message", "all")
      /\ st[7] = S("AuditLog", "all") /\ st[8] = S("SavedReply", "all")
      /\ st[9] = S("AutoReply", "all") /\ st[10] = S("RoutingSettings", "all")
      /\ st[11] = S("Conversation", "all") /\ st[12] = S("Customer", "all")
      /\ st[13] = S("Tag", "all") /\ st[14] = S("SocialAccount", "all")
      /\ st[15] = S("User", "all") /\ st[16] = S("Department", "all")
      /\ st[17] = S("Organization", "all")
  BY DEF clearOrgsChannels, Everything
<1> HIDE DEF st
<1>2. \A a, b : S(a, b).table = a /\ S(a, b).where = b
  BY DEF S
<1>3. ASSUME NEW i \in 1..17
      PROVE  /\ st[i].table = "Conversation" => i = 11
             /\ st[i].table = "Customer" => i = 12
             /\ st[i].table = "Tag" => i = 13
             /\ st[i].table = "User" => i = 15
             /\ st[i].table = "Organization" => i = 17
             /\ st[i].table \in Tables
             /\ st[i].where = "all"
  BY <1>1, <1>2, AllTables
<1>4. \A t \in Tables \ {"Organization", "AuthCode"} : \E k \in 1..17 : st[k] = S(t, "all")
  BY <1>1, AllTables
<1>5. \A t \in {"Message", "ConversationTag", "ConversationNote"} :
        \E k \in 1..6 : st[k] = S(t, "all")
  BY <1>1
<1>6. \A t \in {"Conversation", "CustomerTag", "CustomerNote"} :
        \E k \in 1..11 : st[k] = S(t, "all")
  BY <1>1
<1>7. ASSUME NEW i \in 1..17, NEW t \in Tables, st[i].table \in References[t]
      PROVE  \E k \in 1..i : st[k] = S(t, "all")
  <2>1. CASE st[i].table = "Organization"
    BY <1>3, <1>4, <1>7, <2>1, WhoRefers
  <2>2. CASE st[i].table = "Customer"
    BY <1>3, <1>6, <1>7, <2>2, WhoRefers
  <2>3. CASE st[i].table = "Conversation"
    BY <1>3, <1>5, <1>7, <2>3, WhoRefers
  <2>4. CASE st[i].table \in {"Tag", "User"}
    BY <1>3, <1>5, <1>6, <1>7, <2>4, WhoRefers
  <2> QED BY <1>7, <2>1, <2>2, <2>3, <2>4, WhoRefers
<1> QED BY <1>1, <1>3, <1>7 DEF st, Sorted, Whole

\* A routine for a customer knows his conversation c.
Reads(j, c) ==
  j.kind \in {"deleteCustomer", "deleteCustomerData"} /\ Table[c] = "Conversation"
    /\ j.target \in Refs[c] => c \in j.ids

\* Every routine comes to a row after the rows that refer to it.
LEMMA ChildrenFirst ==
  ASSUME NEW j, j.kind \in DOMAIN Erasure, j.target \in Row,
         Table[j.target] = Erasure[j.kind].of,
         NEW i \in 1..Len(Steps(j)), NEW s \in Row, s \in Selected(j, Steps(j)[i]),
         NEW r \in Row, s \in Refs[r], Table[r] \in Tables, Reads(j, s), Reads(j, r)
  PROVE  \E k \in 1..i : r \in Selected(j, Steps(j)[k])
<1> DEFINE Found == \E k \in 1..i : r \in Selected(j, Steps(j)[k])
<1>1. Table[s] \in References[Table[r]] /\ Tenant[s] = Tenant[r]
  BY ErasureAssumption
<1>a. Table[s] # "AuthCode" /\ "every table" \notin Tables
  BY <1>1, WhoRefers, AllTables
<1>b. (Table[s] = "Organization" => Tenant[s] = s)
  BY ErasureAssumption
<1>2. ASSUME NEW steps, Steps(j) = steps, Sorted(steps, "tenant"), Uniform(steps)
      PROVE  Found
  <2>2. steps[i].table = Table[s] /\ Tenant[s] = j.target
    BY <1>2, <1>a, <1>b DEF Selected, Uniform
  <2>3. PICK k \in 1..i : steps[k] = S(Table[r], "tenant")
    BY <1>1, <1>2, <2>2 DEF Sorted
  <2>4. r \in Selected(j, S(Table[r], "tenant"))
    BY <1>1, <2>2, <1>a DEF Selected, S
  <2> QED BY <1>2, <2>3, <2>4
<1>3. CASE j.kind = "deleteConversation"
  <2>1. /\ Len(Steps(j)) = 4
        /\ Steps(j)[1] = S("Message", "of") /\ Steps(j)[2] = S("ConversationNote", "of")
        /\ Steps(j)[3] = S("ConversationTag", "of") /\ Steps(j)[4] = S("Conversation", "self")
    BY <1>3, Routines DEF Steps, deleteConversation
  <2>2. ASSUME i \in {1, 2, 3} PROVE FALSE
    <3>1. \E table \in {"Message", "ConversationNote", "ConversationTag"}, where \in {"of"} :
            s \in Selected(j, S(table, where))
      BY <2>1, <2>2
    <3>2. Table[s] \in {"Message", "ConversationNote", "ConversationTag"}
      BY <3>1 DEF Selected, S
    <3> QED BY <1>1, <3>2, WhoRefers
  <2>3. CASE i = 4
    <3>1. s \in Selected(j, S("Conversation", "self"))
      BY <2>1, <2>3
    <3>2. Table[s] = "Conversation" /\ s = j.target
      BY <3>1 DEF Selected, S
    <3>3. Table[r] \in {"Message", "ConversationTag", "ConversationNote"}
      BY <1>1, <3>2, WhoRefers
    <3>4. ASSUME Table[r] \in {"Message", "ConversationNote", "ConversationTag"} PROVE Found
      <4>1. \E k \in {1, 2, 3} : Steps(j)[k] = S(Table[r], "of")
        BY <2>1, <3>4
      <4>2. r \in Selected(j, S(Table[r], "of"))
        BY <1>3, <3>2, <3>4 DEF Selected, S
      <4> QED BY <2>3, <4>1, <4>2
    <3> QED BY <3>3, <3>4
  <2> QED
    <3>1. i \in 1..4
      BY <2>1
    <3> QED BY <3>1, <2>2, <2>3
<1>4. CASE j.kind = "deleteCustomer"
  <2>1. /\ Len(Steps(j)) = 7
        /\ Steps(j)[1] = S("Message", "in") /\ Steps(j)[2] = S("ConversationNote", "in")
        /\ Steps(j)[3] = S("ConversationTag", "in") /\ Steps(j)[4] = S("Conversation", "of")
        /\ Steps(j)[5] = S("CustomerTag", "of") /\ Steps(j)[6] = S("CustomerNote", "of")
        /\ Steps(j)[7] = S("Customer", "self")
    BY <1>4, Routines DEF Steps, deleteCustomer
  <2>2. ASSUME i \in {1, 2, 3, 5, 6} PROVE FALSE
    <3>1. \E table \in {"Message", "ConversationNote", "ConversationTag", "CustomerTag",
                        "CustomerNote"}, where \in {"in", "of"} :
            s \in Selected(j, S(table, where))
      BY <2>1, <2>2
    <3>2. Table[s] \in {"Message", "ConversationNote", "ConversationTag", "CustomerTag",
                        "CustomerNote"}
      BY <3>1 DEF Selected, S
    <3> QED BY <1>1, <3>2, WhoRefers
  <2>3. CASE i = 4
    <3>1. s \in Selected(j, S("Conversation", "of"))
      BY <2>1, <2>3
    <3>2. Table[s] = "Conversation" /\ j.target \in Refs[s]
      BY <3>1 DEF Selected, S
    <3>3. Table[r] \in {"Message", "ConversationTag", "ConversationNote"}
      BY <1>1, <3>2, WhoRefers
    <3>4. s \in j.ids
      BY <1>4, <3>2 DEF Reads
    <3>5. ASSUME Table[r] \in {"Message", "ConversationNote", "ConversationTag"} PROVE Found
      <4>1. \E k \in {1, 2, 3} : Steps(j)[k] = S(Table[r], "in")
        BY <2>1, <3>5
      <4>2. r \in Selected(j, S(Table[r], "in"))
        BY <1>4, <3>2, <3>4, <3>5 DEF Selected, S
      <4> QED BY <2>3, <4>1, <4>2
    <3> QED BY <3>3, <3>5
  <2>4. CASE i = 7
    <3>1. s \in Selected(j, S("Customer", "self"))
      BY <2>1, <2>4
    <3>2. Table[s] = "Customer" /\ s = j.target
      BY <3>1 DEF Selected, S
    <3>3. Table[r] \in {"Conversation", "CustomerTag", "CustomerNote"}
      BY <1>1, <3>2, WhoRefers
    <3>4. ASSUME Table[r] \in {"Conversation", "CustomerTag", "CustomerNote"} PROVE Found
      <4>1. \E k \in {4, 5, 6} : Steps(j)[k] = S(Table[r], "of")
        BY <2>1, <3>4
      <4>2. r \in Selected(j, S(Table[r], "of"))
        BY <1>4, <3>2, <3>4 DEF Selected, S
      <4> QED BY <2>4, <4>1, <4>2
    <3> QED BY <3>3, <3>4
  <2> QED
    <3>1. i \in 1..7
      BY <2>1
    <3> QED BY <3>1, <2>2, <2>3, <2>4
<1>5. CASE j.kind = "deleteCustomerData"
  <2>1. /\ Len(Steps(j)) = 7
        /\ Steps(j)[1] = S("Message", "in") /\ Steps(j)[2] = S("ConversationNote", "in")
        /\ Steps(j)[3] = S("ConversationTag", "in") /\ Steps(j)[4] = S("Conversation", "listed")
        /\ Steps(j)[5] = S("CustomerTag", "of") /\ Steps(j)[6] = S("CustomerNote", "of")
        /\ Steps(j)[7] = S("Customer", "self")
    BY <1>5, Routines DEF Steps, deleteCustomerData
  <2>2. ASSUME i \in {1, 2, 3, 5, 6} PROVE FALSE
    <3>1. \E table \in {"Message", "ConversationNote", "ConversationTag", "CustomerTag",
                        "CustomerNote"}, where \in {"in", "of"} :
            s \in Selected(j, S(table, where))
      BY <2>1, <2>2
    <3>2. Table[s] \in {"Message", "ConversationNote", "ConversationTag", "CustomerTag",
                        "CustomerNote"}
      BY <3>1 DEF Selected, S
    <3> QED BY <1>1, <3>2, WhoRefers
  <2>3. CASE i = 4
    <3>1. s \in Selected(j, S("Conversation", "listed"))
      BY <2>1, <2>3
    <3>2. Table[s] = "Conversation" /\ s \in j.ids
      BY <3>1 DEF Selected, S
    <3>3. Table[r] \in {"Message", "ConversationTag", "ConversationNote"}
      BY <1>1, <3>2, WhoRefers
    <3>4. ASSUME Table[r] \in {"Message", "ConversationNote", "ConversationTag"} PROVE Found
      <4>1. \E k \in {1, 2, 3} : Steps(j)[k] = S(Table[r], "in")
        BY <2>1, <3>4
      <4>2. r \in Selected(j, S(Table[r], "in"))
        BY <1>5, <3>2, <3>4 DEF Selected, S
      <4> QED BY <2>3, <4>1, <4>2
    <3> QED BY <3>3, <3>4
  <2>4. CASE i = 7
    <3>1. s \in Selected(j, S("Customer", "self"))
      BY <2>1, <2>4
    <3>2. Table[s] = "Customer" /\ s = j.target
      BY <3>1 DEF Selected, S
    <3>3. Table[r] \in {"Conversation", "CustomerTag", "CustomerNote"}
      BY <1>1, <3>2, WhoRefers
    <3>4. ASSUME Table[r] \in {"Conversation"} PROVE Found
      <4>1. \E k \in {4} : Steps(j)[k] = S(Table[r], "listed")
        BY <2>1, <3>4
      <4>2. r \in Selected(j, S(Table[r], "listed"))
        BY <1>5, <3>2, <3>4 DEF Selected, S, Reads
      <4> QED BY <2>4, <4>1, <4>2
    <3>5. ASSUME Table[r] \in {"CustomerTag", "CustomerNote"} PROVE Found
      <4>1. \E k \in {5, 6} : Steps(j)[k] = S(Table[r], "of")
        BY <2>1, <3>5
      <4>2. r \in Selected(j, S(Table[r], "of"))
        BY <1>5, <3>2, <3>5 DEF Selected, S
      <4> QED BY <2>4, <4>1, <4>2
    <3> QED BY <3>3, <3>4, <3>5
  <2> QED
    <3>1. i \in 1..7
      BY <2>1
    <3> QED BY <3>1, <2>2, <2>3, <2>4
<1>6. CASE j.kind = "deleteTag"
  <2>1. /\ Len(Steps(j)) = 3
        /\ Steps(j)[1] = S("ConversationTag", "of") /\ Steps(j)[2] = S("CustomerTag", "of")
        /\ Steps(j)[3] = S("Tag", "self")
    BY <1>6, Routines DEF Steps, deleteTag
  <2>2. ASSUME i \in {1, 2} PROVE FALSE
    <3>1. \E table \in {"ConversationTag", "CustomerTag"}, where \in {"of"} :
            s \in Selected(j, S(table, where))
      BY <2>1, <2>2
    <3>2. Table[s] \in {"ConversationTag", "CustomerTag"}
      BY <3>1 DEF Selected, S
    <3> QED BY <1>1, <3>2, WhoRefers
  <2>3. CASE i = 3
    <3>1. s \in Selected(j, S("Tag", "self"))
      BY <2>1, <2>3
    <3>2. Table[s] = "Tag" /\ s = j.target
      BY <3>1 DEF Selected, S
    <3>3. Table[r] \in {"CustomerTag", "ConversationTag"}
      BY <1>1, <3>2, WhoRefers
    <3>4. ASSUME Table[r] \in {"ConversationTag", "CustomerTag"} PROVE Found
      <4>1. \E k \in {1, 2} : Steps(j)[k] = S(Table[r], "of")
        BY <2>1, <3>4
      <4>2. r \in Selected(j, S(Table[r], "of"))
        BY <1>6, <3>2, <3>4 DEF Selected, S
      <4> QED BY <2>3, <4>1, <4>2
    <3> QED BY <3>3, <3>4
  <2> QED
    <3>1. i \in 1..3
      BY <2>1
    <3> QED BY <3>1, <2>2, <2>3
<1>7. CASE j.kind = "deleteAllUsersExcept"
  <2>1. /\ Len(Steps(j)) = 4
        /\ Steps(j)[1] = S("ConversationNote", "in") /\ Steps(j)[2] = S("CustomerNote", "in")
        /\ Steps(j)[3] = S("AuditLog", "by") /\ Steps(j)[4] = S("User", "listed")
    BY <1>7, Routines DEF Steps, deleteAllUsersExcept
  <2>2. ASSUME i \in {1, 2, 3} PROVE FALSE
    <3>1. \E table \in {"ConversationNote", "CustomerNote", "AuditLog"}, where \in {"by", "in"} :
            s \in Selected(j, S(table, where))
      BY <2>1, <2>2
    <3>2. Table[s] \in {"ConversationNote", "CustomerNote", "AuditLog"}
      BY <3>1 DEF Selected, S
    <3> QED BY <1>1, <3>2, WhoRefers
  <2>3. CASE i = 4
    <3>1. s \in Selected(j, S("User", "listed"))
      BY <2>1, <2>3
    <3>2. Table[s] = "User" /\ s \in j.ids
      BY <3>1 DEF Selected, S
    <3>3. Table[r] \in {"CustomerNote", "ConversationNote"}
      BY <1>1, <3>2, WhoRefers
    <3>4. ASSUME Table[r] \in {"ConversationNote", "CustomerNote"} PROVE Found
      <4>1. \E k \in {1, 2} : Steps(j)[k] = S(Table[r], "in")
        BY <2>1, <3>4
      <4>2. r \in Selected(j, S(Table[r], "in"))
        BY <1>7, <3>2, <3>4 DEF Selected, S
      <4> QED BY <2>3, <4>1, <4>2
    <3> QED BY <3>3, <3>4
  <2> QED
    <3>1. i \in 1..4
      BY <2>1
    <3> QED BY <3>1, <2>2, <2>3
<1>8. CASE j.kind \in {"removeCustomerTag", "removeConversationTag", "deleteSavedReply"}
  <2>1. /\ Len(Steps(j)) = 1
        /\ Steps(j)[1] \in {S("CustomerTag", "self"), S("ConversationTag", "self"),
                            S("SavedReply", "self")}
    BY <1>8, Routines DEF Steps, removeCustomerTag, removeConversationTag, deleteSavedReply
  <2>a. \E table \in {"CustomerTag", "ConversationTag", "SavedReply"} :
          s \in Selected(j, S(table, "self"))
    BY <2>1
  <2>2. Table[s] \in {"CustomerTag", "ConversationTag", "SavedReply"}
    BY <2>a DEF Selected, S
  <2> QED BY <1>1, <2>2, WhoRefers
<1>9. CASE j.kind = "truncateAll"
  <2>1. Steps(j) = truncateAll.steps
    BY <1>9, Routines DEF Steps
  <2>2. Len(truncateAll.steps) = 1 /\ truncateAll.steps[1] = S("every table", "all")
    BY DEF truncateAll
  <2>3. r \in Selected(j, S("every table", "all"))
    BY DEF Selected, S
  <2>4. Steps(j)[1] = S("every table", "all") /\ Len(Steps(j)) = 1
    BY <2>1, <2>2
  <2>5. \A k \in 1..1 : k = 1
    OBVIOUS
  <2> QED BY <2>3, <2>4, <2>5
<1>10. CASE j.kind = "clearOrgsChannels"
  <2>1. Steps(j) = clearOrgsChannels.steps
    BY <1>10, Routines DEF Steps
  <2>2. Steps(j)[i].table = Table[s]
    BY <1>a, <2>1, clearOrgsChannelsSorted DEF Selected, Whole
  <2>3. PICK k \in 1..i : Steps(j)[k] = S(Table[r], "all")
    BY <1>1, <2>1, <2>2, clearOrgsChannelsSorted DEF Sorted
  <2>4. r \in Selected(j, S(Table[r], "all"))
    BY DEF Selected, S
  <2> QED BY <2>3, <2>4
<1>11. CASE j.kind = "deleteOrganization"
  BY <1>2, <1>11, Routines, deleteOrganizationSorted DEF Steps
<1>12. CASE j.kind = "adminDeleteOrganization"
  BY <1>2, <1>12, Routines, adminDeleteOrganizationSorted DEF Steps
<1>13. CASE j.kind = "deleteOrgByEmail"
  BY <1>2, <1>13, Routines, deleteOrgByEmailSorted DEF Steps
<1> QED
  BY <1>3, <1>4, <1>5, <1>6, <1>7, <1>8, <1>9, <1>10, <1>11, <1>12, <1>13, Atomic DEF RoutineNames
-----------------------------------------------------------------------------
(***************************************************************************)
(* The invariant                                                           *)
(***************************************************************************)
\* A routine or request under way is at a statement it has, about a row of its
\* table; it has a row to log only if it logs.
Underway(j) ==
  /\ j \in Job
  /\ Erases(j) => /\ j.pc \in {"write", "commit", "log"}
                  /\ Table[j.target] = Erasure[j.kind].of
                  /\ j.at \in 1..Len(Steps(j))
  /\ Adds(j) => j.pc # "commit" /\ Table[j.target] = Addition[j.kind].table
  /\ Edits(j) => j.pc # "commit" /\ Table[j.target] = Edition[j.kind].table
  /\ j.pc = "log" => j.kind \in Logged
Begun == \A p \in Actor : job[p] \in Ended \/ Underway(job[p])

\* Only a transaction under way has something to give back.
Deleting(p) ==
  /\ Erases(job[p]) /\ job[p].pc \in {"write", "commit"}
  /\ Erasure[job[p].kind].atomic
Reversible == \A p \in Actor : gone[p] # {} => Deleting(p)

\* The database keeps its foreign keys, and so does what each transaction sees;
\* no row is deleted by two of them.
Consistent ==
  /\ \A r \in db : Refs[r] \subseteq db
  /\ \A p \in Actor : gone[p] \subseteq db
  /\ \A p \in Actor : \A r \in Visible(p) : Refs[r] \cap gone[p] = {}
  /\ \A p, q \in Actor : p # q => gone[p] \cap gone[q] = {}

\* Nobody has disturbed p: what its statements have deleted so far is still gone,
\* the conversations of its customer are those it read; the row it adds is missing
\* and what it refers to is there; the row it edits is there, and its organization.
Undisturbed(p) ==
  /\ Erases(job[p]) /\ job[p].pc = "write" =>
       /\ \A k \in 1..(job[p].at - 1) :
            Selected(job[p], Steps(job[p])[k]) \cap Visible(p) = {}
       /\ \A c \in db : Reads(job[p], c)
  /\ Adds(job[p]) /\ job[p].pc \in {"look", "write"} => Refs[job[p].target] \subseteq db
  /\ Adds(job[p]) /\ job[p].pc = "write" => job[p].target \notin db
  /\ Edits(job[p]) /\ job[p].pc \in {"look", "write"} => job[p].target \in db
  /\ job[p].kind \in Logged => Tenant[job[p].target] \in db
Explained == \A p \in Actor : upset[p] \/ (Runs(p) => Undisturbed(p))

\* Rows are deleted for good, before the end, by routines that are no transaction
\* and have statements left, or a row to log.
Piecemeal == {"deleteTag", "deleteOrgByEmail"} \union Logged
Committed ==
  \A p \in Actor : took[p] # {} /\ (Runs(p) \/ job[p].pc = "error") => job[p].kind \in Piecemeal

Inv ==
  /\ TypeOK /\ Begun /\ Reversible /\ Consistent /\ Explained /\ Committed
  /\ RefusedIsExplained
-----------------------------------------------------------------------------
(***************************************************************************)
(* What a job becomes                                                      *)
(***************************************************************************)
\* A job is of one sort.
LEMMA SortsApart ==
  ASSUME NEW j
  PROVE  /\ Erases(j) => ~Adds(j) /\ ~Edits(j)
         /\ Adds(j) => ~Edits(j)
         /\ j.kind \in Kinds <=> Erases(j) \/ Adds(j) \/ Edits(j)
BY DEF Erases, Adds, Edits, Kinds, Erasure, Addition, Edition

\* The tables of rows that are added, edited or logged: all name an organization.
LEMMA TablesOf ==
  ASSUME NEW j
  PROVE  /\ Adds(j) => Addition[j.kind].table \in Tables \ {"Organization", "AuthCode"}
         /\ Edits(j) => Edition[j.kind].table \in Tables \ {"Organization", "AuthCode"}
         /\ Erases(j) /\ j.kind \in Logged =>
              Erasure[j.kind].of \in Tables \ {"Organization", "AuthCode"}
<1>1. Adds(j) => Addition[j.kind].table \in
        {"CustomerTag", "ConversationTag", "CustomerNote", "ConversationNote", "SavedReply",
         "AutoReply", "Tag", "Customer", "Conversation", "Message"}
  BY DEF Adds, Addition, addCustomerTag, addConversationTag, upsertCustomerNote,
     createConversationNote, createSavedReply, createForOrg, createTag, createCustomer,
     createConversation, storeMessage
<1>2. Edits(j) => Edition[j.kind].table \in {"Tag", "SavedReply", "AutoReply"}
  BY DEF Edits, Edition, updateTag, updateSavedReply, updateForOrg
<1>3. Erases(j) /\ j.kind \in Logged =>
        j.kind \in {"removeCustomerTag", "removeConversationTag", "deleteSavedReply"}
  BY DEF Erases, Erasure, Logged
<1>4. /\ removeCustomerTag.of = "CustomerTag" /\ removeConversationTag.of = "ConversationTag"
      /\ deleteSavedReply.of = "SavedReply"
  BY DEF removeCustomerTag, removeConversationTag, deleteSavedReply
<1>5. Erases(j) /\ j.kind \in Logged =>
        Erasure[j.kind].of \in {"CustomerTag", "ConversationTag", "SavedReply"}
  BY <1>3, <1>4, Routines
<1> QED BY <1>1, <1>2, <1>5, AllTables

\* A row of theirs refers to its organization.
LEMMA OrganizationOf ==
  ASSUME NEW r \in Row, Table[r] \in Tables \ {"Organization", "AuthCode"}
  PROVE  Tenant[r] \in Refs[r] /\ Table[Tenant[r]] = "Organization"
<1>1. "Organization" \in References[Table[r]]
  BY WhoRefers
<1>2. PICK s \in Refs[r] : Table[s] = "Organization"
  BY <1>1, ErasureAssumption
<1>3. s \in Row /\ Tenant[s] = s /\ Tenant[s] = Tenant[r]
  BY <1>2, ErasureAssumption
<1> QED BY <1>2, <1>3

\* Links are no tables, and nothing refers to them.
LEMMA LinksApart ==
  /\ Tables \cap Links = {}
  /\ \A r \in Row : \A s \in Refs[r] : s \in Row /\ Table[s] \in Tables
<1>1. Tables \cap Links = {}
  BY AllTables DEF Links
<1>2. ASSUME NEW r \in Row, NEW s \in Refs[r] PROVE s \in Row /\ Table[s] \in Tables
  <2>1. s \in Row
    BY ErasureAssumption
  <2>2. CASE Table[r] \in Links
    BY <2>2, ErasureAssumption
  <2>3. CASE Table[r] \in Tables
    BY <2>3, ErasureAssumption, WhoRefers, AllTables
  <2> QED BY <2>1, <2>2, <2>3, ErasureAssumption
<1> QED BY <1>1, <1>2

\* A job that ends keeps its name only.
LEMMA Ending ==
  ASSUME NEW j, Underway(j), NEW outcome \in {"ok", "error"}
  PROVE  [Idle EXCEPT !.pc = outcome, !.kind = j.kind] \in Ended
BY DEF Underway, Job, Ended, Idle

\* A job that goes on keeps what it is about.
LEMMA Going ==
  ASSUME NEW j, Underway(j), NEW pc \in {"look", "write", "commit", "log"},
         Erases(j) => pc # "look", ~Erases(j) => pc # "commit",
         pc = "log" => j.kind \in Logged
  PROVE  /\ Underway([j EXCEPT !.pc = pc])
         /\ [j EXCEPT !.pc = pc].pc = pc
<1> DEFINE n == [j EXCEPT !.pc = pc]
<1>1. /\ n \in Job /\ n.pc = pc /\ n.kind = j.kind /\ n.target = j.target /\ n.at = j.at
  BY DEF Underway, Job
<1>2. /\ Erases(n) <=> Erases(j)
      /\ Adds(n) <=> Adds(j)
      /\ Edits(n) <=> Edits(j)
      /\ Steps(n) = Steps(j)
  BY <1>1 DEF Erases, Adds, Edits, Steps
<1> HIDE DEF n
<1>3. Underway(n)
  BY <1>1, <1>2, SortsApart DEF Underway
<1> QED BY <1>1, <1>3 DEF n

\* Nor does the place of a job matter to what its statements select.
LEMMA SameSelection ==
  ASSUME NEW j, NEW k, NEW s, k.target = j.target, k.ids = j.ids
  PROVE  Selected(k, s) = Selected(j, s)
BY DEF Selected
-----------------------------------------------------------------------------
(***************************************************************************)
(* What the others notice                                                  *)
(***************************************************************************)
\* What q does not mind being added and deleted.
Spared(q, added, deleted) ==
  /\ Erases(job[q]) => \A r \in added : ~Meets(job[q], r)
  /\ Adds(job[q]) => job[q].target \notin added /\ Refs[job[q].target] \cap deleted = {}
  /\ Edits(job[q]) => job[q].target \notin deleted
  /\ job[q].kind \in Logged => Tenant[job[q].target] \notin deleted

\* Whoever is disturbed by a step knows it afterwards.
Noticed(q, added, deleted) ==
  /\ upset[q] => upset'[q]
  /\ upset'[q] \/ (Runs(q) => Spared(q, added, deleted))

\* The history of a step tells the others what they are to notice.
LEMMA UpsetsNoticed ==
  ASSUME TypeOK, NEW p \in Actor, NEW added, NEW deleted, Upsets(p, added, deleted)
  PROVE  /\ upset' \in [Actor -> BOOLEAN] /\ upset'[p] = upset[p]
         /\ \A q \in Actor \ {p} : Noticed(q, added, deleted)
<1>1. upset \in [Actor -> BOOLEAN]
  BY DEF TypeOK
<1>2. upset' \in [Actor -> BOOLEAN]
  BY DEF Upsets
<1>3. ASSUME NEW q \in Actor
      PROVE  upset'[q] <=>
               \/ upset[q]
               \/ /\ q # p /\ Runs(q)
                  /\ \/ Erases(job[q]) /\ \E r \in added : Meets(job[q], r)
                     \/ Adds(job[q]) /\ (job[q].target \in added
                                           \/ Refs[job[q].target] \cap deleted # {})
                     \/ Edits(job[q]) /\ job[q].target \in deleted
                     \/ job[q].kind \in Logged /\ Tenant[job[q].target] \in deleted
  BY DEF Upsets
<1>4. upset'[p] = upset[p]
  BY <1>1, <1>2, <1>3
<1> QED BY <1>2, <1>3, <1>4 DEF Noticed, Spared

\* A step that adds and deletes nothing disturbs nobody.
LEMMA NothingNoticed ==
  ASSUME NEW q \in Actor, upset[q] => upset'[q]
  PROVE  Noticed(q, {}, {})
BY DEF Noticed, Spared

\* Whoever has a conversation of the customer to be deleted meets it.
LEMMA MeetsConversation ==
  ASSUME NEW j, Underway(j), Erases(j), NEW c \in Row, ~Reads(j, c)
  PROVE  Meets(j, c)
<1>1. j.kind \in {"deleteCustomer", "deleteCustomerData"} /\ j.target \in Refs[c]
  BY DEF Reads
<1>2. Erasure[j.kind].of = "Customer"
  BY <1>1, Routines DEF deleteCustomer, deleteCustomerData
<1>3. j.target \in Row /\ Table[j.target] = "Customer"
  BY <1>2 DEF Underway, Job
<1>4. /\ DOMAIN Steps(j) = 1..7
      /\ Steps(j)[7] = S("Customer", "self")
  <2>1. CASE j.kind = "deleteCustomer"
    <3>1. deleteCustomer.steps[7] = S("Customer", "self")
      BY DEF deleteCustomer
    <3> QED BY <2>1, <3>1, Routines, Lengths DEF Steps
  <2>2. CASE j.kind = "deleteCustomerData"
    <3>1. deleteCustomerData.steps[7] = S("Customer", "self")
      BY DEF deleteCustomerData
    <3> QED BY <2>2, <3>1, Routines, Lengths DEF Steps
  <2> QED BY <1>1, <2>1, <2>2
<1>5. j.target \in Selected(j, S("Customer", "self"))
  BY <1>3 DEF Selected, S
<1>6. 7 \in DOMAIN Steps(j) /\ j.target \in Selected(j, Steps(j)[7])
  BY <1>4, <1>5
<1>7. Refs[c] \cap Selected(j, Steps(j)[7]) # {}
  BY <1>1, <1>6
<1> QED BY <1>6, <1>7 DEF Meets

\* A statement that selects a row meets it.
LEMMA MeetsSelected ==
  ASSUME NEW j, Underway(j), Erases(j), NEW k \in 1..Len(Steps(j)),
         NEW r \in Selected(j, Steps(j)[k])
  PROVE  Meets(j, r)
<1>1. DOMAIN Steps(j) = 1..Len(Steps(j))
  BY Atomic DEF Erases, Steps
<1> QED BY <1>1 DEF Meets

\* Who does not notice rows that come and go is not disturbed by them.
LEMMA OthersUndisturbed ==
  ASSUME Inv, NEW q \in Actor, NEW added, NEW deleted, added \subseteq Row,
         job'[q] = job[q], gone'[q] = gone[q],
         db' \subseteq db \union added, db \subseteq db' \union deleted,
         Noticed(q, added, deleted)
  PROVE  upset'[q] \/ (Runs(q)' => Undisturbed(q)')
<1>1. Runs(q)' <=> Runs(q)
  BY DEF Runs
<1>2. SUFFICES ASSUME ~upset'[q], Runs(q) PROVE Undisturbed(q)'
  BY <1>1
<1>3. Undisturbed(q) /\ Spared(q, added, deleted)
  BY <1>2 DEF Noticed, Inv, Explained
<1>4. Underway(job[q])
  BY <1>2 DEF Inv, Begun, Ended, Runs
<1>5. ASSUME Erases(job[q]), job[q].pc = "write"
      PROVE  /\ \A k \in 1..(job[q].at - 1) :
                  Selected(job[q], Steps(job[q])[k]) \cap (db' \ gone[q]) = {}
             /\ \A c \in db' : Reads(job[q], c)
  <2>1. ASSUME NEW k \in 1..(job[q].at - 1),
               NEW r \in Selected(job[q], Steps(job[q])[k]), r \in db' \ gone[q]
        PROVE  FALSE
    <3>1. CASE r \in db
      BY <1>3, <1>5, <2>1, <3>1 DEF Undisturbed, Visible
    <3>2. CASE r \in added
      <4>1. k \in 1..Len(Steps(job[q]))
        <5>1. /\ job[q].at \in 1..18
              /\ job[q].at \in 1..Len(Steps(job[q]))
              /\ Len(Steps(job[q])) \in 1..17
          BY <1>4, <1>5, Atomic DEF Underway, Job, Erases, Steps
        <5> QED BY <5>1
      <4>2. Meets(job[q], r)
        BY <1>4, <1>5, <4>1, MeetsSelected
      <4> QED BY <1>3, <1>5, <3>2, <4>2 DEF Spared
    <3> QED BY <2>1, <3>1, <3>2
  <2>2. ASSUME NEW c \in db' PROVE Reads(job[q], c)
    <3>1. CASE c \in db
      BY <1>3, <1>5, <3>1 DEF Undisturbed
    <3>2. CASE c \in added
      <4>1. c \in Row /\ ~Meets(job[q], c)
        BY <1>3, <1>5, <3>2 DEF Spared
      <4> QED BY <1>4, <1>5, <4>1, MeetsConversation
    <3> QED BY <3>1, <3>2
  <2> QED BY <2>1, <2>2
<1>6. Adds(job[q]) /\ job[q].pc \in {"look", "write"} => Refs[job[q].target] \subseteq db'
  BY <1>3 DEF Undisturbed, Spared
<1>7. Adds(job[q]) /\ job[q].pc = "write" => job[q].target \notin db'
  BY <1>3 DEF Undisturbed, Spared
<1>8. Edits(job[q]) /\ job[q].pc \in {"look", "write"} => job[q].target \in db'
  BY <1>3 DEF Undisturbed, Spared
<1>9. job[q].kind \in Logged => Tenant[job[q].target] \in db'
  BY <1>3 DEF Undisturbed, Spared
<1> QED BY <1>5, <1>6, <1>7, <1>8, <1>9 DEF Undisturbed, Visible
-----------------------------------------------------------------------------
(***************************************************************************)
(* What a step of p has to show                                            *)
(***************************************************************************)
\* p's job becomes another one, or goes on; the others' are left alone.
Moves(p) ==
  /\ job' \in [Actor -> Job \union Ended]
  /\ \A q \in Actor \ {p} : job'[q] = job[q]
  /\ job'[p] \in Ended \/ Underway(job'[p])

\* A step that deals with p only in the state of the actors, shows the others what
\* it adds and deletes, and leaves p undisturbed, keeps the invariant.
LEMMA StepInv ==
  ASSUME Inv, NEW p \in Actor, NEW added, NEW deleted, added \subseteq Row,
         Moves(p), Consistent',
         db' \subseteq db \union added, db \subseteq db' \union deleted,
         gone' \in [Actor -> SUBSET Row], \A q \in Actor \ {p} : gone'[q] = gone[q],
         gone'[p] # {} => Deleting(p)',
         took' \in [Actor -> SUBSET Row], \A q \in Actor \ {p} : took'[q] = took[q],
         upset' \in [Actor -> BOOLEAN], \A q \in Actor \ {p} : Noticed(q, added, deleted),
         ops' \in 0..MaxOps, faults' \in 0..MaxFaults,
         job'[p].pc = "error" => upset'[p],
         upset'[p] \/ (Runs(p)' => Undisturbed(p)'),
         took'[p] # {} /\ (Runs(p)' \/ job'[p].pc = "error") => job'[p].kind \in Piecemeal
  PROVE  Inv'
<1>1. Begun'
  BY DEF Begun, Inv, Moves
<1>2. Reversible'
  <2>1. \A q \in Actor \ {p} : Deleting(q)' <=> Deleting(q)
    BY DEF Deleting, Moves
  <2> QED BY <2>1 DEF Reversible, Inv
<1>3. TypeOK'
  <2>1. \A q \in Actor : gone'[q] # {} => Runs(q)'
    BY <1>2 DEF Reversible, Deleting, Runs
  <2>2. db' \subseteq Row
    BY DEF Inv, TypeOK
  <2> QED BY <2>1, <2>2 DEF TypeOK, Moves
<1>4. Explained'
  <2>1. ASSUME NEW q \in Actor \ {p} PROVE upset'[q] \/ (Runs(q)' => Undisturbed(q)')
    BY <2>1, OthersUndisturbed DEF Moves
  <2> QED BY <2>1 DEF Explained
<1>5. Committed'
  <2>1. \A q \in Actor \ {p} : Runs(q)' <=> Runs(q)
    BY DEF Moves, Runs
  <2> QED BY <2>1 DEF Committed, Inv, Moves
<1>6. RefusedIsExplained'
  BY DEF RefusedIsExplained, Inv, Moves, Noticed
<1> QED BY <1>1, <1>2, <1>3, <1>4, <1>5, <1>6 DEF Inv
-----------------------------------------------------------------------------
(***************************************************************************)
(* How p's job moves                                                       *)
(***************************************************************************)
\* Who runs is at a step of its routine or request.
LEMMA Busy ==
  ASSUME Inv, NEW p \in Actor, Runs(p)
  PROVE  Underway(job[p]) /\ job \in [Actor -> Job \union Ended] /\ job[p] \in Job
BY DEF Inv, Begun, Ended, Runs, TypeOK, Underway

\* A job ends.
LEMMA JobEnds ==
  ASSUME Inv, NEW p \in Actor, Runs(p), NEW outcome \in {"ok", "error"}, Ends(p, outcome)
  PROVE  /\ Moves(p) /\ job'[p] \in Ended
         /\ job'[p].pc = outcome /\ job'[p].kind = job[p].kind /\ ~Runs(p)'
<1> DEFINE j == [Idle EXCEPT !.pc = outcome, !.kind = job[p].kind]
<1>1. j \in Ended /\ j.pc = outcome /\ j.kind = job[p].kind
  BY Busy, Ending DEF Idle
<1>2. job' = [job EXCEPT ![p] = j] /\ job \in [Actor -> Job \union Ended]
  BY Busy DEF Ends
<1> HIDE DEF j
<1>3. job'[p] = j /\ (\A q \in Actor \ {p} : job'[q] = job[q])
      /\ job' \in [Actor -> Job \union Ended]
  BY <1>1, <1>2
<1> QED BY <1>1, <1>3 DEF Moves, Runs

\* A job goes on to another kind of step.
LEMMA JobGoes ==
  ASSUME Inv, NEW p \in Actor, Runs(p), NEW pc \in {"look", "write", "commit", "log"},
         Erases(job[p]) => pc # "look", ~Erases(job[p]) => pc # "commit",
         pc = "log" => job[p].kind \in Logged, Goes(p, pc)
  PROVE  /\ Moves(p) /\ Underway(job'[p]) /\ job'[p].pc = pc
         /\ job'[p].kind = job[p].kind /\ job'[p].target = job[p].target
         /\ job'[p].ids = job[p].ids
<1> DEFINE j == [job[p] EXCEPT !.pc = pc]
<1>1. Underway(job[p]) /\ job \in [Actor -> Job \union Ended] /\ job[p] \in Job
  BY Busy
<1>2. Underway(j) /\ j.pc = pc /\ j \in Job
  BY <1>1, Going DEF Underway
<1>3. j.kind = job[p].kind /\ j.target = job[p].target /\ j.ids = job[p].ids
  BY <1>1 DEF Job
<1>4. job' = [job EXCEPT ![p] = j]
  BY <1>1 DEF Goes
<1> HIDE DEF j
<1>5. job'[p] = j /\ (\A q \in Actor \ {p} : job'[q] = job[q])
      /\ job' \in [Actor -> Job \union Ended]
  BY <1>1, <1>2, <1>4
<1> QED BY <1>2, <1>3, <1>5 DEF Moves

\* A job is done with its work.
LEMMA JobFinishes ==
  ASSUME Inv, NEW p \in Actor, Runs(p), Finish(p)
  PROVE  /\ Moves(p) /\ job'[p].kind = job[p].kind
         /\ job'[p].pc \in {"ok", "log"}
         /\ job'[p].pc = "log" => /\ job[p].kind \in Logged
                                  /\ job'[p].target = job[p].target /\ job'[p].ids = job[p].ids
<1>1. CASE job[p].kind \in Logged
  <2>1. Goes(p, "log")
    BY <1>1 DEF Finish
  <2> QED BY <1>1, <2>1, JobGoes
<1>2. CASE job[p].kind \notin Logged
  <2>1. Ends(p, "ok")
    BY <1>2 DEF Finish
  <2> QED BY <2>1, JobEnds
<1> QED BY <1>1, <1>2

\* The statement after one that is not the last.
LEMMA NextPlace ==
  ASSUME NEW at \in 1..18, NEW last \in 1..17, at < last
  PROVE  at + 1 \in 1..18 /\ at + 1 \in 1..last
OBVIOUS

\* A routine goes on to its next statement.
LEMMA JobNext ==
  ASSUME Inv, NEW p \in Actor, Runs(p), Erases(job[p]), job[p].pc = "write",
         job[p].at < Len(Steps(job[p])), job' = [job EXCEPT ![p].at = @ + 1]
  PROVE  /\ Moves(p) /\ Underway(job'[p]) /\ job'[p].pc = "write"
         /\ job'[p].kind = job[p].kind /\ job'[p].target = job[p].target
         /\ job'[p].ids = job[p].ids /\ job'[p].at = job[p].at + 1
         /\ Erases(job'[p]) /\ Steps(job'[p]) = Steps(job[p])
<1> DEFINE j == [job[p] EXCEPT !.at = @ + 1]
<1>1. Underway(job[p]) /\ job \in [Actor -> Job \union Ended] /\ job[p] \in Job
  BY Busy
<1>2. job[p].at \in 1..18 /\ Len(Steps(job[p])) \in 1..17
  BY <1>1, Atomic DEF Job, Erases, Steps
<1>3. job[p].at + 1 \in 1..18 /\ job[p].at + 1 \in 1..Len(Steps(job[p]))
  BY <1>2, NextPlace
<1>4. /\ j \in Job /\ j.kind = job[p].kind /\ j.target = job[p].target /\ j.ids = job[p].ids
      /\ j.at = job[p].at + 1 /\ j.pc = job[p].pc
  BY <1>1, <1>3 DEF Job
<1>5. job' = [job EXCEPT ![p] = j]
  BY <1>1
<1> HIDE DEF j
<1>6. job'[p] = j /\ (\A q \in Actor \ {p} : job'[q] = job[q])
      /\ job' \in [Actor -> Job \union Ended]
  BY <1>1, <1>4, <1>5
<1>7. Erases(j) /\ Steps(j) = Steps(job[p]) /\ ~Adds(j) /\ ~Edits(j)
  BY <1>4, SortsApart DEF Erases, Steps
<1>8. Underway(j)
  BY <1>1, <1>3, <1>4, <1>7 DEF Underway
<1> QED BY <1>4, <1>6, <1>7, <1>8 DEF Moves

\* What is left to do after the work needs the organization only.
LEMMA Finished ==
  ASSUME Inv, NEW p \in Actor, Runs(p), Finish(p),
         upset'[p] \/ (job[p].kind \in Logged => Tenant[job[p].target] \in db')
  PROVE  /\ upset'[p] \/ (Runs(p)' => Undisturbed(p)')
         /\ job'[p].pc # "error"
         /\ Runs(p)' => job[p].kind \in Piecemeal
<1>1. /\ job'[p].kind = job[p].kind
      /\ job'[p].pc \in {"ok", "log"}
      /\ job'[p].pc = "log" => job[p].kind \in Logged /\ job'[p].target = job[p].target
  BY JobFinishes
<1>2. Runs(p)' => job'[p].pc = "log"
  BY <1>1 DEF Runs
<1> QED BY <1>1, <1>2 DEF Undisturbed, Piecemeal
-----------------------------------------------------------------------------
(***************************************************************************)
(* Foreign keys                                                            *)
(***************************************************************************)
\* What a statement deletes when nothing refuses it: rows that p sees and nobody
\* else is deleting, and that nothing refers to which stays.
LEMMA RowsGo ==
  ASSUME Inv, NEW p \in Actor, NEW hit, hit \subseteq Visible(p),
         NEW rows, rows = hit \union Fall(p, hit), ~Blocked(p, hit), ~Refused(p, hit)
  PROVE  /\ rows \subseteq Visible(p)
         /\ \A q \in Actor \ {p} : gone[q] \cap rows = {}
         /\ \A r \in Visible(p) \ rows : Refs[r] \cap rows = {}
<1>1. db \subseteq Row /\ Visible(p) \subseteq db
  BY DEF Inv, TypeOK, Visible
<1>2. rows \subseteq Visible(p) /\ rows \subseteq hit \union Children(hit)
  BY <1>1 DEF Fall, Children
<1>3. \A q \in Actor \ {p} : gone[q] \cap rows = {}
  BY <1>2 DEF Blocked, Locked
<1>4. ASSUME NEW r \in Visible(p) \ rows, NEW s \in Refs[r], s \in rows
      PROVE  FALSE
  <2>1. CASE s \in hit
    BY <1>4, <2>1 DEF Refused, Fall
  <2>2. CASE s \in Fall(p, hit)
    <3>1. Table[s] \in Links /\ Table[s] \in Tables
      BY <1>1, <2>2, LinksApart DEF Fall
    <3> QED BY <3>1, LinksApart
  <2> QED BY <1>4, <2>1, <2>2
<1> QED BY <1>2, <1>3, <1>4

\* Foreign keys hold after a statement in a transaction,
LEMMA KeysAfterMark ==
  ASSUME Inv, NEW p \in Actor, NEW rows, rows \subseteq Visible(p),
         \A q \in Actor \ {p} : gone[q] \cap rows = {},
         \A r \in Visible(p) \ rows : Refs[r] \cap rows = {},
         db' = db, gone' = [gone EXCEPT ![p] = @ \union rows]
  PROVE  Consistent' /\ gone' \in [Actor -> SUBSET Row]
<1>1. gone \in [Actor -> SUBSET Row] /\ db \subseteq Row /\ Consistent
  BY DEF Inv, TypeOK
<1>2. gone'[p] = gone[p] \union rows /\ \A q \in Actor \ {p} : gone'[q] = gone[q]
  BY <1>1
<1>3. rows \subseteq Row /\ rows \subseteq db
  BY <1>1 DEF Visible
<1>4. gone' \in [Actor -> SUBSET Row]
  BY <1>1, <1>3
<1>5. \A r \in db' : Refs[r] \subseteq db'
  BY <1>1 DEF Consistent
<1>6. \A q \in Actor : gone'[q] \subseteq db'
  BY <1>1, <1>2, <1>3 DEF Consistent
<1>7. \A q \in Actor : \A r \in Visible(q)' : Refs[r] \cap gone'[q] = {}
  BY <1>1, <1>2 DEF Consistent, Visible
<1>8. \A q, u \in Actor : q # u => gone'[q] \cap gone'[u] = {}
  BY <1>1, <1>2 DEF Consistent
<1> QED BY <1>4, <1>5, <1>6, <1>7, <1>8 DEF Consistent

\* after one on its own, and after a commit,
LEMMA KeysAfterDeletion ==
  ASSUME Inv, NEW p \in Actor, NEW rows, rows \subseteq db,
         \A q \in Actor \ {p} : gone[q] \cap rows = {},
         \A r \in db \ rows : Refs[r] \cap rows = {},
         db' = db \ rows, gone' = [gone EXCEPT ![p] = {}]
  PROVE  Consistent' /\ gone' \in [Actor -> SUBSET Row]
<1>1. gone \in [Actor -> SUBSET Row] /\ db \subseteq Row /\ Consistent
  BY DEF Inv, TypeOK
<1>2. gone'[p] = {} /\ \A q \in Actor \ {p} : gone'[q] = gone[q]
  BY <1>1
<1>3. gone' \in [Actor -> SUBSET Row]
  BY <1>1
<1>4. \A r \in db' : Refs[r] \subseteq db'
  BY <1>1 DEF Consistent
<1>5. \A q \in Actor : gone'[q] \subseteq db'
  BY <1>1, <1>2 DEF Consistent
<1>6. \A q \in Actor : \A r \in Visible(q)' : Refs[r] \cap gone'[q] = {}
  BY <1>1, <1>2 DEF Consistent, Visible
<1>7. \A q, u \in Actor : q # u => gone'[q] \cap gone'[u] = {}
  BY <1>1, <1>2 DEF Consistent
<1> QED BY <1>3, <1>4, <1>5, <1>6, <1>7 DEF Consistent

\* after a rollback,
LEMMA KeysAfterRelease ==
  ASSUME Inv, NEW p \in Actor, db' = db, gone' = [gone EXCEPT ![p] = {}]
  PROVE  Consistent' /\ gone' \in [Actor -> SUBSET Row]
<1>1. gone \in [Actor -> SUBSET Row] /\ db \subseteq Row /\ Consistent
  BY DEF Inv, TypeOK
<1>2. gone'[p] = {} /\ \A q \in Actor \ {p} : gone'[q] = gone[q]
  BY <1>1
<1>3. gone' \in [Actor -> SUBSET Row]
  BY <1>1
<1> QED BY <1>1, <1>2, <1>3 DEF Consistent, Visible

\* and after an insertion.
LEMMA KeysAfterInsertion ==
  ASSUME Inv, NEW p \in Actor, gone[p] = {}, NEW new \in Row,
         ({new} \union Refs[new]) \cap Locked(p) = {},
         Refs[new] \subseteq db, db' = db \union {new}, gone' = gone
  PROVE  Consistent' /\ gone' \in [Actor -> SUBSET Row]
<1>1. gone \in [Actor -> SUBSET Row] /\ db \subseteq Row /\ Consistent
  BY DEF Inv, TypeOK
<1>2. \A q \in Actor : Refs[new] \cap gone[q] = {}
  BY DEF Locked
<1>3. \A q \in Actor : \A r \in Visible(q)' : Refs[r] \cap gone'[q] = {}
  BY <1>1, <1>2 DEF Consistent, Visible
<1> QED BY <1>1, <1>3 DEF Consistent
-----------------------------------------------------------------------------
(***************************************************************************)
(* The steps of a request that adds or edits a row, and the failures       *)
(***************************************************************************)
\* Who deletes nothing in a transaction has nothing to give back.
LEMMA NothingToRelease ==
  ASSUME Inv, NEW p \in Actor, ~Deleting(p)
  PROVE  gone[p] = {} /\ gone = [gone EXCEPT ![p] = {}]
<1>1. gone[p] = {} /\ gone \in [Actor -> SUBSET Row]
  BY DEF Inv, Reversible, TypeOK
<1> QED BY <1>1

\* A request that fails gives its rows back, and was disturbed.
LEMMA Aborts ==
  ASSUME Inv, NEW p \in Actor, Runs(p), Ends(p, "error"),
         db' = db, gone' = [gone EXCEPT ![p] = {}], took' = took,
         upset' \in [Actor -> BOOLEAN], upset'[p], \A q \in Actor \ {p} : upset'[q] = upset[q],
         ops' \in 0..MaxOps, faults' \in 0..MaxFaults
  PROVE  Inv'
<1>1. Moves(p) /\ job'[p].kind = job[p].kind /\ ~Runs(p)'
  BY JobEnds
<1>2. Consistent' /\ gone' \in [Actor -> SUBSET Row]
  BY KeysAfterRelease
<1>3. \A q \in Actor : took'[q] = took[q] /\ took' \in [Actor -> SUBSET Row]
  BY DEF Inv, TypeOK
<1>4. gone'[p] = {} /\ \A q \in Actor \ {p} : gone'[q] = gone[q]
  BY DEF Inv, TypeOK
<1>5. took[p] # {} => job[p].kind \in Piecemeal
  BY DEF Inv, Committed
<1>6. \A q \in Actor \ {p} : Noticed(q, {}, {})
  BY NothingNoticed
<1>7. db' \subseteq db \union {} /\ db \subseteq db' \union {}
  OBVIOUS
<1> QED BY <1>1, <1>2, <1>3, <1>4, <1>5, <1>6, <1>7, StepInv

\* A step that deals with p's job only, outside a transaction.
LEMMA Passes ==
  ASSUME Inv, NEW p \in Actor, Runs(p), ~Deleting(p), Moves(p),
         UNCHANGED <<db, gone, took, upset, ops, faults>>,
         job'[p].pc = "error" => upset[p],
         upset[p] \/ (Runs(p)' => Undisturbed(p)'),
         job'[p].kind = job[p].kind
  PROVE  Inv'
<1>1. gone[p] = {} /\ gone' = [gone EXCEPT ![p] = {}]
  BY NothingToRelease
<1>2. Consistent' /\ gone' \in [Actor -> SUBSET Row]
  BY <1>1, KeysAfterRelease
<1>3. /\ took' \in [Actor -> SUBSET Row] /\ upset' \in [Actor -> BOOLEAN]
      /\ ops' \in 0..MaxOps /\ faults' \in 0..MaxFaults
  BY DEF Inv, TypeOK
<1>4. took[p] # {} => job[p].kind \in Piecemeal
  BY DEF Inv, Committed
<1>5. \A q \in Actor \ {p} : Noticed(q, {}, {})
  BY NothingNoticed
<1>6. db' \subseteq db \union {} /\ db \subseteq db' \union {}
  OBVIOUS
<1>7. (\A q \in Actor \ {p} : gone'[q] = gone[q] /\ took'[q] = took[q]) /\ gone'[p] = {}
  BY <1>1
<1> QED BY <1>2, <1>3, <1>4, <1>5, <1>6, <1>7, StepInv

\* An edit writes.
LEMMA EditStep ==
  ASSUME Inv, NEW p \in Actor, Edit(p)
  PROVE  Inv'
<1>1. Runs(p) /\ Edits(job[p]) /\ ~Erases(job[p]) /\ ~Adds(job[p]) /\ job[p].pc = "write"
  BY SortsApart DEF Edit, Runs
<1>2. /\ Moves(p) /\ job'[p].pc = "look"
      /\ job'[p].kind = job[p].kind /\ job'[p].target = job[p].target
  BY <1>1, JobGoes DEF Edit
<1>3. upset[p] \/ Undisturbed(p)
  BY <1>1 DEF Inv, Explained
<1>4. ~Erases(job'[p]) /\ ~Adds(job'[p]) /\ Edits(job'[p])
  BY <1>1, <1>2 DEF Erases, Adds, Edits
<1>5. upset[p] \/ Undisturbed(p)'
  BY <1>1, <1>2, <1>3, <1>4 DEF Undisturbed, Edit
<1> QED BY <1>1, <1>2, <1>5, Passes DEF Edit, Counted, Deleting

\* It reads its row again: gone only if that was noticed.
LEMMA ReadAgainStep ==
  ASSUME Inv, NEW p \in Actor, ReadAgain(p)
  PROVE  Inv'
<1>1. Runs(p) /\ Edits(job[p]) /\ ~Erases(job[p]) /\ job[p].pc = "look" /\ ~Deleting(p)
  BY SortsApart DEF ReadAgain, Runs, Deleting
<1>2. upset[p] \/ Undisturbed(p)
  BY <1>1 DEF Inv, Explained
<1>3. CASE job[p].target \in db \/ ~Edition[job[p].kind].insists
  <2>1. Finish(p)
    BY <1>3 DEF ReadAgain
  <2>2. Moves(p) /\ job'[p].kind = job[p].kind
    BY <1>1, <2>1, JobFinishes
  <2>3. upset'[p] \/ (job[p].kind \in Logged => Tenant[job[p].target] \in db')
    BY <1>2 DEF Undisturbed, ReadAgain
  <2>4. (upset'[p] \/ (Runs(p)' => Undisturbed(p)')) /\ job'[p].pc # "error"
    BY <1>1, <2>1, <2>3, Finished
  <2> QED BY <1>1, <2>2, <2>4, Passes DEF ReadAgain, Counted
<1>4. CASE ~(job[p].target \in db \/ ~Edition[job[p].kind].insists)
  <2>1. Ends(p, "error")
    BY <1>4 DEF ReadAgain
  <2>2. Moves(p) /\ job'[p].kind = job[p].kind /\ ~Runs(p)'
    BY <1>1, <2>1, JobEnds
  <2>3. upset[p]
    BY <1>1, <1>2, <1>4 DEF Undisturbed
  <2> QED BY <1>1, <2>2, <2>3, Passes DEF ReadAgain, Counted
<1> QED BY <1>3, <1>4

\* A request looks whether its row is there.
LEMMA LookStep ==
  ASSUME Inv, NEW p \in Actor, Look(p)
  PROVE  Inv'
<1>1. /\ Runs(p) /\ Adds(job[p]) /\ ~Erases(job[p]) /\ ~Edits(job[p])
      /\ job[p].pc = "look" /\ ~Deleting(p)
  BY SortsApart DEF Look, Runs, Deleting
<1>2. upset[p] \/ Undisturbed(p)
  BY <1>1 DEF Inv, Explained
<1>3. CASE job[p].target \notin db /\ Goes(p, "write")
  <2>1. /\ Moves(p) /\ job'[p].pc = "write"
        /\ job'[p].kind = job[p].kind /\ job'[p].target = job[p].target
    BY <1>1, <1>3, JobGoes
  <2>2. ~Erases(job'[p]) /\ Adds(job'[p]) /\ ~Edits(job'[p])
    BY <1>1, <2>1 DEF Erases, Adds, Edits
  <2>3. upset[p] \/ Undisturbed(p)'
    BY <1>1, <1>2, <1>3, <2>1, <2>2 DEF Undisturbed, Look
  <2> QED BY <1>1, <2>1, <2>3, Passes DEF Look, Counted
<1>4. CASE job[p].target \in db /\ Finish(p)
  <2>1. Moves(p) /\ job'[p].kind = job[p].kind
    BY <1>1, <1>4, JobFinishes
  <2>2. upset'[p] \/ (job[p].kind \in Logged => Tenant[job[p].target] \in db')
    BY <1>2 DEF Undisturbed, Look
  <2>3. (upset'[p] \/ (Runs(p)' => Undisturbed(p)')) /\ job'[p].pc # "error"
    BY <1>1, <1>4, <2>2, Finished
  <2> QED BY <1>1, <2>1, <2>3, Passes DEF Look, Counted
<1> QED BY <1>3, <1>4 DEF Look

\* A request writes its audit row: refused only if its organization has gone.
LEMMA LogStep ==
  ASSUME Inv, NEW p \in Actor, Log(p)
  PROVE  Inv'
<1>1. Runs(p) /\ job[p].pc = "log" /\ ~Deleting(p)
  BY DEF Log, Runs, Deleting
<1>2. job[p].kind \in Logged
  BY <1>1, Busy DEF Underway
<1>3. upset[p] \/ Tenant[job[p].target] \in db
  BY <1>1, <1>2 DEF Inv, Explained, Undisturbed
<1>4. CASE Tenant[job[p].target] \in db /\ Ends(p, "ok")
  <2>1. Moves(p) /\ job'[p].kind = job[p].kind /\ ~Runs(p)' /\ job'[p].pc = "ok"
    BY <1>1, <1>4, JobEnds
  <2> QED BY <1>1, <2>1, Passes DEF Log, Counted
<1>5. CASE Tenant[job[p].target] \notin db /\ Ends(p, "error")
  <2>1. Moves(p) /\ job'[p].kind = job[p].kind /\ ~Runs(p)'
    BY <1>1, <1>5, JobEnds
  <2> QED BY <1>1, <1>3, <1>5, <2>1, Passes DEF Log, Counted
<1> QED BY <1>4, <1>5 DEF Log

\* A request adds its row: refused only if somebody was first, or has deleted what it
\* refers to.
LEMMA InsertStep ==
  ASSUME Inv, NEW p \in Actor, Insert(p)
  PROVE  Inv'
<1> DEFINE new == job[p].target
<1>1. Runs(p) /\ Adds(job[p]) /\ ~Erases(job[p]) /\ job[p].pc = "write" /\ ~Deleting(p)
  BY SortsApart DEF Insert, Runs, Deleting
<1>2. upset[p] \/ Undisturbed(p)
  BY <1>1 DEF Inv, Explained
<1>3. new \in Row
  BY <1>1, Busy DEF Job
<1>4. CASE new \in db \/ ~(Refs[new] \subseteq db)
  <2>1. Ends(p, "error") /\ UNCHANGED <<db, upset>>
    BY <1>4 DEF Insert
  <2>2. Moves(p) /\ job'[p].kind = job[p].kind /\ ~Runs(p)'
    BY <1>1, <2>1, JobEnds
  <2>3. upset[p]
    BY <1>1, <1>2, <1>4 DEF Undisturbed
  <2> QED BY <1>1, <2>1, <2>2, <2>3, Passes DEF Insert, Counted
<1>5. CASE new \notin db /\ Refs[new] \subseteq db
  <2> DEFINE added == {new}
             deleted == {}
  <2>1. db' = db \union {new} /\ Upsets(p, {new}, {}) /\ Finish(p)
        /\ ({new} \union Refs[new]) \cap Locked(p) = {}
    BY <1>5 DEF Insert
  <2>2. Moves(p) /\ job'[p].kind = job[p].kind
    BY <1>1, <2>1, JobFinishes
  <2>3. gone[p] = {} /\ gone' = gone
    BY <1>1, NothingToRelease DEF Insert
  <2>4. Consistent' /\ gone' \in [Actor -> SUBSET Row]
    BY <1>3, <1>5, <2>1, <2>3, KeysAfterInsertion
  <2>5. TypeOK
    BY DEF Inv
  <2>6. /\ upset' \in [Actor -> BOOLEAN] /\ upset'[p] = upset[p]
        /\ \A q \in Actor \ {p} : Noticed(q, added, deleted)
    BY <2>1, <2>5, UpsetsNoticed
  <2>7. upset'[p] \/ (job[p].kind \in Logged => Tenant[job[p].target] \in db')
    BY <1>2, <2>1, <2>6 DEF Undisturbed
  <2>8. /\ upset'[p] \/ (Runs(p)' => Undisturbed(p)')
        /\ job'[p].pc # "error"
    BY <1>1, <2>1, <2>7, Finished
  <2>9. /\ took' \in [Actor -> SUBSET Row] /\ ops' \in 0..MaxOps /\ faults' \in 0..MaxFaults
        /\ \A q \in Actor : took'[q] = took[q]
    BY <2>5 DEF Insert, Counted, TypeOK
  <2>10. took'[p] # {} => job'[p].kind \in Piecemeal
    BY <1>1, <2>2, <2>9 DEF Inv, Committed
  <2>11. /\ added \subseteq Row
         /\ db' \subseteq db \union added /\ db \subseteq db' \union deleted
         /\ gone'[p] = {} /\ \A q \in Actor \ {p} : gone'[q] = gone[q]
    BY <1>3, <2>1, <2>3
  <2> HIDE DEF added, deleted
  <2> QED BY <2>2, <2>4, <2>6, <2>8, <2>9, <2>10, <2>11, StepInv
<1> QED BY <1>4, <1>5

\* Something breaks down.
LEMMA FailStep ==
  ASSUME Inv, NEW p \in Actor, Fail(p)
  PROVE  Inv'
<1>1. /\ upset' \in [Actor -> BOOLEAN] /\ upset'[p]
      /\ \A q \in Actor \ {p} : upset'[q] = upset[q]
      /\ ops' \in 0..MaxOps
  BY DEF Fail, Inv, TypeOK
<1>2. faults' \in 0..MaxFaults
  <2>1. faults \in 0..MaxFaults /\ faults < MaxFaults /\ faults' = faults + 1 /\ MaxFaults \in Nat
    BY ErasureAssumption DEF Fail, Inv, TypeOK
  <2> QED BY <2>1
<1> QED BY <1>1, <1>2, Aborts DEF Fail
-----------------------------------------------------------------------------
(***************************************************************************)
(* Starting                                                                *)
(***************************************************************************)
\* A job that starts undisturbed, or knows that its organization is gone, keeps the
\* invariant.
LEMMA Begins ==
  ASSUME Inv, NEW p \in Actor, Free(p), NEW kind, NEW target, NEW pc, NEW ids,
         NEW orphan \in BOOLEAN, Begin(p, kind, target, pc, ids, orphan),
         Underway([kind |-> kind, pc |-> pc, at |-> 1, target |-> target, ids |-> ids]),
         orphan \/ Undisturbed(p)'
  PROVE  Inv'
<1> DEFINE j == [kind |-> kind, pc |-> pc, at |-> 1, target |-> target, ids |-> ids]
<1>1. job' = [job EXCEPT ![p] = j] /\ Underway(j) /\ j \in Job
  BY DEF Begin, Underway
<1>2. j.pc \in {"look", "write", "commit", "log"}
  BY <1>1 DEF Job
<1> HIDE DEF j
<1>3. job'[p] = j /\ (\A q \in Actor \ {p} : job'[q] = job[q])
      /\ job' \in [Actor -> Job \union Ended]
  BY <1>1 DEF Inv, TypeOK
<1>4. Moves(p) /\ job'[p].pc # "error"
  BY <1>1, <1>2, <1>3 DEF Moves
<1>5. gone[p] = {} /\ gone' = [gone EXCEPT ![p] = {}] /\ db' = db
  BY NothingToRelease DEF Begin, Free, Runs, Deleting
<1>6. Consistent' /\ gone' \in [Actor -> SUBSET Row]
  BY <1>5, KeysAfterRelease
<1>7. /\ took' \in [Actor -> SUBSET Row] /\ upset' \in [Actor -> BOOLEAN]
      /\ took'[p] = {} /\ upset'[p] = orphan
      /\ \A q \in Actor \ {p} : took'[q] = took[q] /\ upset'[q] = upset[q] /\ gone'[q] = gone[q]
  BY <1>5 DEF Begin, Inv, TypeOK
<1>8. faults' \in 0..MaxFaults
  BY DEF Begin, Inv, TypeOK
<1>9. ops' \in 0..MaxOps
  <2>1. ops \in 0..MaxOps /\ ops < MaxOps /\ ops' = ops + 1 /\ MaxOps \in Nat
    BY ErasureAssumption DEF Begin, Free, Inv, TypeOK
  <2> QED BY <2>1
<1>10. \A q \in Actor \ {p} : Noticed(q, {}, {})
  BY <1>7, NothingNoticed
<1>11. db' \subseteq db \union {} /\ db \subseteq db' \union {} /\ gone'[p] = {}
  BY <1>5, <1>7 DEF Inv, TypeOK
<1> QED BY <1>4, <1>6, <1>7, <1>8, <1>9, <1>10, <1>11, StepInv

\* The organization of a row that the database holds is there.
LEMMA OrganizationIsThere ==
  ASSUME Inv, NEW r \in Row, Refs[r] \subseteq db,
         Table[r] \in Tables \ {"Organization", "AuthCode"}
  PROVE  Tenant[r] \in db
BY OrganizationOf

\* An edit starts on a row that is there.
LEMMA StartEditStep ==
  ASSUME Inv, NEW p \in Actor, StartEdit(p)
  PROVE  Inv'
<1>1. PICK kind \in DOMAIN Edition, target \in db :
        /\ Table[target] = Edition[kind].table
        /\ Begin(p, kind, target, "write", {}, FALSE)
  BY DEF StartEdit
<1> DEFINE j == [kind |-> kind, pc |-> "write", at |-> 1, target |-> target, ids |-> {}]
<1>2. Edits(j) /\ ~Erases(j) /\ ~Adds(j) /\ j.kind \in Kinds
  BY SortsApart DEF Edits
<1>3. target \in Row /\ Refs[target] \subseteq db
  BY DEF Inv, TypeOK, Consistent
<1>4. Underway(j)
  BY <1>1, <1>2, <1>3 DEF Underway, Job
<1>5. Tenant[target] \in db
  BY <1>1, <1>2, <1>3, TablesOf, OrganizationIsThere
<1>6. job'[p] = j /\ db' = db
  BY <1>1 DEF Begin, Inv, TypeOK
<1>7. Undisturbed(p)'
  BY <1>2, <1>5, <1>6 DEF Undisturbed
<1> QED BY <1>1, <1>4, <1>7, Begins DEF StartEdit

\* An addition starts, or knows that its organization is gone.
LEMMA StartAdditionStep ==
  ASSUME Inv, NEW p \in Actor, StartAddition(p)
  PROVE  Inv'
<1>1. PICK kind \in DOMAIN Addition, target \in Row :
        /\ Table[target] = Addition[kind].table
        /\ Addition[kind].keyed \/ target \notin db
        /\ Begin(p, kind, target, IF Addition[kind].keyed THEN "look" ELSE "write", {},
                 ~(Refs[target] \subseteq db))
  BY DEF StartAddition
<1> DEFINE pc == IF Addition[kind].keyed THEN "look" ELSE "write"
           j == [kind |-> kind, pc |-> pc, at |-> 1, target |-> target, ids |-> {}]
           orphan == ~(Refs[target] \subseteq db)
<1>2. Adds(j) /\ ~Erases(j) /\ ~Edits(j) /\ j.kind \in Kinds
  BY SortsApart DEF Adds
<1>3. pc \in {"look", "write"} /\ (pc = "write" => target \notin db)
  BY <1>1
<1>4. Underway(j)
  BY <1>1, <1>2, <1>3 DEF Underway, Job
<1>5. orphan \/ Tenant[target] \in db
  BY <1>1, <1>2, TablesOf, OrganizationIsThere
<1>6. job'[p] = j /\ db' = db
  BY <1>1 DEF Begin, Inv, TypeOK
<1>7. orphan \/ Undisturbed(p)'
  BY <1>2, <1>3, <1>5, <1>6 DEF Undisturbed
<1>8. Begin(p, kind, target, pc, {}, orphan) /\ orphan \in BOOLEAN
  BY <1>1
<1>9. Free(p)
  BY DEF StartAddition
<1> HIDE DEF orphan, pc
<1> QED BY <1>4, <1>7, <1>8, <1>9, Begins

\* The first statement.
LEMMA FirstPlace ==
  ASSUME NEW last \in 1..17
  PROVE  1 \in 1..last /\ 1 \in 1..18
OBVIOUS

\* An erasure starts, with the conversations it reads.
LEMMA StartErasureStep ==
  ASSUME Inv, NEW p \in Actor, StartErasure(p)
  PROVE  Inv'
<1>1. PICK kind \in DOMAIN Erasure, target \in Row :
        /\ Table[target] = Erasure[kind].of
        /\ \/ target \in db
           \/ /\ kind \in {"removeCustomerTag", "removeConversationTag"}
              /\ \A r \in Refs[target] : Table[r] # "Tag" => r \in db
        /\ Begin(p, kind, target, "write", Listed(kind, target), FALSE)
  BY DEF StartErasure
<1> DEFINE ids == Listed(kind, target)
           j == [kind |-> kind, pc |-> "write", at |-> 1, target |-> target, ids |-> ids]
<1>2. Erases(j) /\ ~Adds(j) /\ ~Edits(j) /\ j.kind \in Kinds
  BY SortsApart DEF Erases
<1>3. db \subseteq Row /\ \A r \in db : Refs[r] \subseteq db
  BY DEF Inv, TypeOK, Consistent
<1>4. ids \subseteq Row
  BY <1>3 DEF Listed
<1>5. 1 \in 1..Len(Steps(j)) /\ 1 \in 1..18
  <2>1. Len(Steps(j)) \in 1..17
    BY <1>2, Atomic DEF Erases, Steps
  <2> QED BY <2>1, FirstPlace
<1>6. Underway(j)
  BY <1>1, <1>2, <1>4, <1>5 DEF Underway, Job
<1>7. kind \in Logged => Tenant[target] \in db
  <2>1. SUFFICES ASSUME kind \in Logged PROVE Tenant[target] \in db
    OBVIOUS
  <2>2. Table[target] \in Tables \ {"Organization", "AuthCode"}
    BY <1>1, <1>2, <2>1, TablesOf
  <2>3. Tenant[target] \in Refs[target] /\ Table[Tenant[target]] # "Tag"
    BY <2>2, OrganizationOf
  <2> QED BY <1>1, <1>3, <2>3
<1>8. \A c \in db : Reads(j, c)
  <2>1. ASSUME NEW c \in db, kind \in {"deleteCustomer", "deleteCustomerData"},
               Table[c] = "Conversation", target \in Refs[c]
        PROVE  c \in ids
    <3>1. Erasure[kind].reads
      BY <2>1, Routines DEF deleteCustomer, deleteCustomerData
    <3> QED BY <2>1, <3>1 DEF Listed
  <2> QED BY <2>1 DEF Reads
<1>9. job'[p] = j /\ db' = db
  BY <1>1 DEF Begin, Inv, TypeOK
<1>10. 1..(j.at - 1) = {}
  OBVIOUS
<1>11. Undisturbed(p)'
  BY <1>2, <1>7, <1>8, <1>9, <1>10 DEF Undisturbed
<1>12. Free(p) /\ Begin(p, kind, target, "write", ids, FALSE)
  BY <1>1 DEF StartErasure
<1> HIDE DEF ids
<1> QED BY <1>6, <1>11, <1>12, Begins
-----------------------------------------------------------------------------
(***************************************************************************)
(* The statements of a routine                                             *)
(***************************************************************************)
\* Statements up to this one are this one and those before.
LEMMA Before ==
  ASSUME NEW at \in 1..18, NEW k \in 1..at
  PROVE  k = at \/ k \in 1..(at - 1)
OBVIOUS

\* Statements before the next one, too.
LEMMA DoneBefore ==
  ASSUME NEW at \in 1..18, NEW k \in 1..((at + 1) - 1)
  PROVE  k = at \/ k \in 1..(at - 1)
OBVIOUS

\* What a foreign key refuses: something was added that the statements before would
\* have deleted.
LEMMA RefusalExplained ==
  ASSUME Inv, NEW p \in Actor, job[p].pc = "write", Erases(job[p]),
         Refused(p, Selected(job[p], Steps(job[p])[job[p].at]) \cap Visible(p))
  PROVE  upset[p]
<1> DEFINE j == job[p]
           hit == Selected(j, Steps(j)[j.at]) \cap Visible(p)
<1>1. SUFFICES ASSUME ~upset[p] PROVE FALSE
  OBVIOUS
<1>2. Runs(p) /\ Underway(j) /\ j \in Job
  BY Busy DEF Runs
<1>3. Undisturbed(p)
  BY <1>1, <1>2 DEF Inv, Explained
<1>4. PICK r \in Visible(p) \ hit : Table[r] \notin Links /\ Refs[r] \cap hit # {}
  BY DEF Refused
<1>5. PICK s \in Refs[r] : s \in hit
  BY <1>4
<1>6. r \in db /\ s \in db /\ r \in Row /\ s \in Row
  BY <1>4, <1>5 DEF Visible, Inv, TypeOK
<1>7. Table[r] \in Tables
  BY <1>4, <1>6, ErasureAssumption
<1>8. Reads(j, r) /\ Reads(j, s)
  BY <1>3, <1>6 DEF Undisturbed
<1>9. /\ j.at \in 1..Len(Steps(j)) /\ j.at \in 1..18
      /\ j.target \in Row /\ Table[j.target] = Erasure[j.kind].of /\ j.kind \in DOMAIN Erasure
  BY <1>2 DEF Underway, Job, Erases
<1>10. s \in Selected(j, Steps(j)[j.at])
  BY <1>5
<1> HIDE DEF j
<1>11. PICK k \in 1..j.at : r \in Selected(j, Steps(j)[k])
  BY <1>5, <1>6, <1>7, <1>8, <1>9, <1>10, ChildrenFirst
<1>12. CASE k = j.at
  BY <1>4, <1>11, <1>12 DEF hit
<1>13. CASE k \in 1..(j.at - 1)
  <2>1. Selected(j, Steps(j)[k]) \cap Visible(p) = {}
    BY <1>3, <1>13 DEF Undisturbed, j
  <2> QED BY <1>4, <1>11, <2>1
<1> QED BY <1>9, <1>12, <1>13, Before

\* A request that takes one row off, and logs it, leaves its organization.
LEMMA OrganizationStays ==
  ASSUME Inv, NEW p \in Actor, job[p].pc = "write", Erases(job[p]), job[p].kind \in Logged,
         NEW hit, hit \subseteq Selected(job[p], Steps(job[p])[job[p].at])
  PROVE  Tenant[job[p].target] \notin hit \union Fall(p, hit)
<1> DEFINE j == job[p]
<1>1. Underway(j) /\ j \in Job
  BY Busy DEF Runs
<1>2. Table[j.target] \in Tables \ {"Organization", "AuthCode"} /\ j.target \in Row
  BY <1>1, TablesOf DEF Underway, Job
<1>3. Table[Tenant[j.target]] = "Organization"
  BY <1>2, OrganizationOf
<1>4. j.kind \in {"removeCustomerTag", "removeConversationTag", "deleteSavedReply"}
  BY DEF Erases, Erasure, Logged
<1>5. /\ Len(Steps(j)) = 1
      /\ Steps(j)[1] \in {S("CustomerTag", "self"), S("ConversationTag", "self"),
                          S("SavedReply", "self")}
  BY <1>4, Routines DEF Steps, removeCustomerTag, removeConversationTag, deleteSavedReply
<1>6. j.at = 1
  <2>1. j.at \in 1..1 /\ \A k \in 1..1 : k = 1
    BY <1>1, <1>5 DEF Underway
  <2> QED BY <2>1
<1>7. hit \subseteq {j.target}
  <2>1. PICK table : Steps(j)[1] = S(table, "self")
    BY <1>5
  <2>2. hit \subseteq Selected(j, S(table, "self"))
    BY <1>6, <2>1
  <2> QED BY <2>2 DEF Selected, S
<1>8. Tenant[j.target] \notin hit
  BY <1>2, <1>3, <1>7
<1>9. Tenant[j.target] \notin Fall(p, hit)
  BY <1>3, LinksApart, AllTables DEF Fall
<1> QED BY <1>8, <1>9

\* After a statement that went through, its rows are gone for p as well.
LEMMA Advances ==
  ASSUME Inv, NEW p \in Actor, job[p].pc = "write", Erases(job[p]), After(p),
         Selected(job[p], Steps(job[p])[job[p].at]) \cap Visible(p)' = {},
         Visible(p)' \subseteq Visible(p), db' \subseteq db, upset'[p] = upset[p],
         job[p].kind \in Logged => Tenant[job[p].target] \in db' \/ upset[p]
  PROVE  /\ Moves(p) /\ job'[p].kind = job[p].kind /\ job'[p].pc # "error"
         /\ upset'[p] \/ (Runs(p)' => Undisturbed(p)')
         /\ Erasure[job[p].kind].atomic => Deleting(p)'
         /\ ~Erasure[job[p].kind].atomic /\ Runs(p)' => job[p].kind \in Piecemeal
<1> DEFINE j == job[p]
<1>1. Runs(p) /\ Underway(j) /\ j \in Job
  BY Busy DEF Runs
<1>2. upset[p] \/ Undisturbed(p)
  BY <1>1 DEF Inv, Explained
<1>3. /\ j.kind \in RoutineNames /\ Erasure[j.kind].atomic = (j.kind \notin Alone)
      /\ Len(Steps(j)) \in 1..17
      /\ j.kind \in Alone \ {"deleteTag", "deleteOrgByEmail"} => Len(Steps(j)) = 1
  BY Atomic DEF Erases, Steps
<1>4. j.at \in 1..18 /\ j.at \in 1..Len(Steps(j))
  BY <1>1 DEF Underway, Job
<1>5. CASE j.at < Len(Steps(j))
  <2>1. job' = [job EXCEPT ![p].at = @ + 1]
    BY <1>5 DEF After
  <2>2. /\ Moves(p) /\ Underway(job'[p]) /\ job'[p].pc = "write"
        /\ job'[p].kind = j.kind /\ job'[p].target = j.target
        /\ job'[p].ids = j.ids /\ job'[p].at = j.at + 1
        /\ Erases(job'[p]) /\ Steps(job'[p]) = Steps(j)
    BY <1>1, <1>5, <2>1, JobNext
  <2>3. ~Adds(job'[p]) /\ ~Edits(job'[p])
    BY <2>2, SortsApart
  <2>4. ASSUME Undisturbed(p), NEW k \in 1..((j.at + 1) - 1)
        PROVE  Selected(job'[p], Steps(j)[k]) \cap Visible(p)' = {}
    <3>1. Selected(job'[p], Steps(j)[k]) = Selected(j, Steps(j)[k])
      BY <2>2, SameSelection
    <3>2. CASE k = j.at
      BY <3>1, <3>2
    <3>3. CASE k \in 1..(j.at - 1)
      BY <2>4, <3>1, <3>3 DEF Undisturbed
    <3> QED BY <1>4, <3>2, <3>3, DoneBefore
  <2>5. ASSUME Undisturbed(p), NEW c \in db' PROVE Reads(job'[p], c)
    BY <2>2, <2>5 DEF Undisturbed, Reads
  <2>6. upset[p] \/ Undisturbed(p)'
    <3>1. SUFFICES ASSUME ~upset[p], Undisturbed(p) PROVE Undisturbed(p)'
      BY <1>2
    <3>2. \A k \in 1..(job'[p].at - 1) :
            Selected(job'[p], Steps(job'[p])[k]) \cap Visible(p)' = {}
      BY <2>2, <2>4, <3>1
    <3>3. \A c \in db' : Reads(job'[p], c)
      BY <2>5, <3>1
    <3>4. job'[p].kind \in Logged => Tenant[job'[p].target] \in db'
      BY <2>2, <3>1
    <3> QED BY <2>3, <3>2, <3>3, <3>4 DEF Undisturbed
  <2>7. j.kind \in Alone => j.kind \in Piecemeal
    <3>1. 1 \notin {n \in 1..17 : j.at < n}
      BY <1>4
    <3>2. Len(Steps(j)) # 1
      BY <1>3, <1>5, <3>1
    <3> QED BY <1>3, <3>2 DEF Piecemeal
  <2> QED BY <1>3, <2>2, <2>6, <2>7 DEF Deleting
<1>6. CASE ~(j.at < Len(Steps(j))) /\ Erasure[j.kind].atomic
  <2>1. Goes(p, "commit")
    BY <1>6 DEF After
  <2>2. /\ Moves(p) /\ job'[p].pc = "commit" /\ job'[p].kind = j.kind
    BY <1>1, <2>1, JobGoes
  <2>3. ~Adds(job'[p]) /\ ~Edits(job'[p]) /\ Erases(job'[p])
    BY <2>2, SortsApart DEF Erases
  <2>4. j.kind \notin Logged
    BY <1>3, <1>6 DEF Alone, Logged, RoutineNames
  <2>5. Undisturbed(p)'
    BY <2>2, <2>3, <2>4 DEF Undisturbed
  <2> QED BY <1>6, <2>2, <2>3, <2>5 DEF Deleting
<1>7. CASE ~(j.at < Len(Steps(j))) /\ ~Erasure[j.kind].atomic
  <2>1. Finish(p)
    BY <1>7 DEF After
  <2>2. Moves(p) /\ job'[p].kind = j.kind
    BY <1>1, <2>1, JobFinishes
  <2>3. upset'[p] \/ (j.kind \in Logged => Tenant[j.target] \in db')
    OBVIOUS
  <2>4. /\ upset'[p] \/ (Runs(p)' => Undisturbed(p)')
        /\ job'[p].pc # "error"
        /\ Runs(p)' => j.kind \in Piecemeal
    BY <1>1, <2>1, <2>3, Finished
  <2> QED BY <1>7, <2>2, <2>4
<1> QED BY <1>5, <1>6, <1>7

\* A statement goes through.
LEMMA DeleteStep ==
  ASSUME Inv, NEW p \in Actor, job[p].pc = "write", Erases(job[p]),
         NEW hit, hit = Selected(job[p], Steps(job[p])[job[p].at]) \cap Visible(p),
         ~Blocked(p, hit), ~Refused(p, hit),
         NEW rows, rows = hit \union Fall(p, hit), Delete(p, rows), UNCHANGED <<ops, faults>>
  PROVE  Inv'
<1>1. TypeOK /\ Runs(p)
  BY DEF Inv, Runs
<1>2. /\ rows \subseteq Visible(p)
      /\ \A q \in Actor \ {p} : gone[q] \cap rows = {}
      /\ \A r \in Visible(p) \ rows : Refs[r] \cap rows = {}
  <2>1. hit \subseteq Visible(p)
    OBVIOUS
  <2> QED BY ONLY Inv, p \in Actor, ~Blocked(p, hit), ~Refused(p, hit),
                  rows = hit \union Fall(p, hit), <2>1, RowsGo
<1>3. After(p) /\ ops' \in 0..MaxOps /\ faults' \in 0..MaxFaults
  BY <1>1 DEF Delete, TypeOK
<1>4. upset[p] \/ (job[p].kind \in Logged => Tenant[job[p].target] \in db \ rows)
  <2>1. job[p].kind \in Logged => Tenant[job[p].target] \notin rows
    BY OrganizationStays
  <2> QED BY <1>1, <2>1 DEF Inv, Explained, Undisturbed
<1>5. CASE Erasure[job[p].kind].atomic
  <2>1. gone' = [gone EXCEPT ![p] = @ \union rows] /\ UNCHANGED <<db, took, upset>>
    BY <1>5 DEF Delete
  <2>2. Consistent' /\ gone' \in [Actor -> SUBSET Row]
    BY <1>2, <2>1, KeysAfterMark
  <2>3. gone'[p] = gone[p] \union rows /\ \A q \in Actor \ {p} : gone'[q] = gone[q]
    BY <1>1, <2>1 DEF TypeOK
  <2>4. Visible(p)' = Visible(p) \ rows
    BY <2>1, <2>3 DEF Visible
  <2>5. /\ Moves(p) /\ job'[p].kind = job[p].kind /\ job'[p].pc # "error"
        /\ upset'[p] \/ (Runs(p)' => Undisturbed(p)')
        /\ Deleting(p)'
    BY <1>3, <1>4, <1>5, <2>1, <2>4, Advances
  <2>6. /\ took' \in [Actor -> SUBSET Row] /\ upset' \in [Actor -> BOOLEAN]
        /\ \A q \in Actor : took'[q] = took[q]
    BY <1>1, <2>1 DEF TypeOK
  <2>7. took'[p] # {} => job'[p].kind \in Piecemeal
    BY <1>1, <2>1, <2>5 DEF Inv, Committed
  <2>8. \A q \in Actor \ {p} : Noticed(q, {}, {})
    BY <2>1, NothingNoticed
  <2>9. db' \subseteq db \union {} /\ db \subseteq db' \union {}
    BY <2>1
  <2> QED BY <1>3, <2>2, <2>3, <2>5, <2>6, <2>7, <2>8, <2>9, StepInv
<1>6. CASE ~Erasure[job[p].kind].atomic
  <2>1. /\ db' = db \ rows /\ took' = [took EXCEPT ![p] = @ \union rows]
        /\ Upsets(p, {}, rows) /\ gone' = gone
    BY <1>6 DEF Delete
  <2>2. gone[p] = {} /\ gone = [gone EXCEPT ![p] = {}]
    BY <1>6, NothingToRelease DEF Deleting
  <2>3. Visible(p) = db /\ Visible(p)' = db \ rows
    BY <2>1, <2>2 DEF Visible
  <2>4. Consistent' /\ gone' \in [Actor -> SUBSET Row]
    BY <1>2, <2>1, <2>2, <2>3, KeysAfterDeletion
  <2>5. /\ upset' \in [Actor -> BOOLEAN] /\ upset'[p] = upset[p]
        /\ \A q \in Actor \ {p} : Noticed(q, {}, rows)
    BY <1>1, <2>1, UpsetsNoticed
  <2>6. /\ Moves(p) /\ job'[p].kind = job[p].kind /\ job'[p].pc # "error"
        /\ upset'[p] \/ (Runs(p)' => Undisturbed(p)')
        /\ Runs(p)' => job[p].kind \in Piecemeal
    BY <1>3, <1>4, <1>6, <2>1, <2>3, <2>5, Advances
  <2>7. /\ took' \in [Actor -> SUBSET Row]
        /\ \A q \in Actor \ {p} : took'[q] = took[q]
    <3>1. rows \subseteq Row
      BY <1>1, <1>2 DEF TypeOK, Visible
    <3> QED BY <1>1, <2>1, <3>1 DEF TypeOK
  <2>8. db' \subseteq db \union {} /\ db \subseteq db' \union rows
    BY <2>1
  <2>9. gone'[p] = {} /\ \A q \in Actor \ {p} : gone'[q] = gone[q]
    BY <2>1, <2>2
  <2> QED BY <1>3, <2>4, <2>5, <2>6, <2>7, <2>8, <2>9, StepInv
<1> QED BY <1>5, <1>6

\* A statement goes through, is refused or is given up.
LEMMA StatementStep ==
  ASSUME Inv, NEW p \in Actor, Statement(p)
  PROVE  Inv'
<1> DEFINE hit == Selected(job[p], Steps(job[p])[job[p].at]) \cap Visible(p)
<1>1. job[p].pc = "write" /\ Erases(job[p]) /\ Runs(p) /\ UNCHANGED <<ops, faults>>
  BY DEF Statement, Runs, Counted
<1>2. /\ upset \in [Actor -> BOOLEAN] /\ ops' \in 0..MaxOps /\ faults' \in 0..MaxFaults
  BY <1>1 DEF Inv, TypeOK
<1>3. CASE Blocked(p, hit) /\ GiveUp(p)
  <2>1. /\ upset' \in [Actor -> BOOLEAN] /\ upset'[p]
        /\ \A q \in Actor \ {p} : upset'[q] = upset[q]
    BY <1>2, <1>3 DEF GiveUp
  <2> QED BY <1>1, <1>2, <1>3, <2>1, Aborts DEF GiveUp
<1>4. CASE Refused(p, hit) /\ Refuse(p)
  <2>1. upset[p] /\ upset' = upset
    BY <1>1, <1>4, RefusalExplained DEF Refuse
  <2> QED BY <1>1, <1>2, <1>4, <2>1, Aborts DEF Refuse
<1>5. CASE ~Blocked(p, hit) /\ ~Refused(p, hit) /\ Delete(p, hit \union Fall(p, hit))
  <2> HIDE DEF hit
  <2>1. hit = Selected(job[p], Steps(job[p])[job[p].at]) \cap Visible(p)
    BY DEF hit
  <2> QED BY <1>1, <1>5, <2>1, DeleteStep
<1> QED BY <1>3, <1>4, <1>5 DEF Statement

\* A transaction commits.
LEMMA CommitStep ==
  ASSUME Inv, NEW p \in Actor, Commit(p)
  PROVE  Inv'
<1>1. TypeOK /\ Consistent /\ Runs(p) /\ Ends(p, "ok")
  BY DEF Inv, Commit, Runs
<1>2. Moves(p) /\ job'[p].kind = job[p].kind /\ job'[p].pc = "ok" /\ ~Runs(p)'
  BY <1>1, JobEnds
<1>3. Consistent' /\ gone' \in [Actor -> SUBSET Row]
  <2>1. gone[p] \subseteq db /\ \A q \in Actor \ {p} : gone[q] \cap gone[p] = {}
    BY <1>1 DEF Consistent
  <2>2. \A r \in db \ gone[p] : Refs[r] \cap gone[p] = {}
    BY <1>1 DEF Consistent, Visible
  <2> QED BY <2>1, <2>2, KeysAfterDeletion DEF Commit
<1>4. /\ upset' \in [Actor -> BOOLEAN] /\ upset'[p] = upset[p]
      /\ \A q \in Actor \ {p} : Noticed(q, {}, gone[p])
  BY <1>1, UpsetsNoticed DEF Commit
<1>5. /\ gone'[p] = {} /\ \A q \in Actor \ {p} : gone'[q] = gone[q]
      /\ took' \in [Actor -> SUBSET Row] /\ \A q \in Actor : took'[q] = took[q]
      /\ ops' \in 0..MaxOps /\ faults' \in 0..MaxFaults
  BY <1>1 DEF Commit, Counted, TypeOK
<1>6. db' \subseteq db \union {} /\ db \subseteq db' \union gone[p]
  BY DEF Commit
<1> DEFINE deleted == gone[p]
<1>7. db \subseteq db' \union deleted /\ \A q \in Actor \ {p} : Noticed(q, {}, deleted)
  BY <1>4, <1>6
<1> HIDE DEF deleted
<1> QED BY <1>2, <1>3, <1>4, <1>5, <1>6, <1>7, StepInv
-----------------------------------------------------------------------------
(***************************************************************************)
(* The theorems                                                            *)
(***************************************************************************)
\* Initially the invariant holds.
LEMMA InitInv == Init => Inv
<1> SUFFICES ASSUME Init PROVE Inv
  OBVIOUS
<1>1. db \subseteq Row /\ \A r \in db : Refs[r] \subseteq db
  BY ErasureAssumption DEF Init
<1>2. Idle \in Ended
  BY DEF Idle, Ended
<1>3. \A p \in Actor : /\ job[p] = Idle /\ gone[p] = {} /\ took[p] = {} /\ ~Runs(p)
                       /\ job[p].pc # "error"
  BY DEF Init, Runs, Idle
<1>4. TypeOK
  <2>1. ops \in 0..MaxOps /\ faults \in 0..MaxFaults
    BY ErasureAssumption DEF Init
  <2> QED BY <1>1, <1>2, <1>3, <2>1 DEF Init, TypeOK
<1>5. Begun /\ Reversible /\ Explained /\ Committed /\ RefusedIsExplained
  BY <1>2, <1>3 DEF Begun, Reversible, Explained, Committed, RefusedIsExplained
<1>6. Consistent
  BY <1>1, <1>3 DEF Consistent
<1> QED BY <1>4, <1>5, <1>6 DEF Inv

\* Every step keeps the invariant.
LEMMA NextInv == Inv /\ [Next]_vars => Inv'
<1> SUFFICES ASSUME Inv, [Next]_vars PROVE Inv'
  OBVIOUS
<1>1. ASSUME NEW p \in Actor, StartErasure(p) PROVE Inv'
  BY <1>1, StartErasureStep
<1>2. ASSUME NEW p \in Actor, StartAddition(p) PROVE Inv'
  BY <1>2, StartAdditionStep
<1>3. ASSUME NEW p \in Actor, StartEdit(p) PROVE Inv'
  BY <1>3, StartEditStep
<1>4. ASSUME NEW p \in Actor, Look(p) PROVE Inv'
  BY <1>4, LookStep
<1>5. ASSUME NEW p \in Actor, Insert(p) PROVE Inv'
  BY <1>5, InsertStep
<1>6. ASSUME NEW p \in Actor, Log(p) PROVE Inv'
  BY <1>6, LogStep
<1>7. ASSUME NEW p \in Actor, Edit(p) PROVE Inv'
  BY <1>7, EditStep
<1>8. ASSUME NEW p \in Actor, ReadAgain(p) PROVE Inv'
  BY <1>8, ReadAgainStep
<1>9. ASSUME NEW p \in Actor, Statement(p) PROVE Inv'
  BY <1>9, StatementStep
<1>10. ASSUME NEW p \in Actor, Commit(p) PROVE Inv'
  BY <1>10, CommitStep
<1>11. ASSUME NEW p \in Actor, Fail(p) PROVE Inv'
  BY <1>11, FailStep
<1>12. CASE UNCHANGED vars
  BY <1>12 DEF vars, Inv, TypeOK, Begun, Reversible, Deleting, Consistent, Visible, Explained,
     Runs, Undisturbed, Committed, RefusedIsExplained
<1> QED
  BY <1>1, <1>2, <1>3, <1>4, <1>5, <1>6, <1>7, <1>8, <1>9, <1>10, <1>11, <1>12 DEF Next

\* The inductive invariant.
THEOREM Invariance == Spec => []Inv
BY InitInv, NextInv, PTL DEF Spec

\* Every job is one the code can be at, and deletes in a transaction only while it
\* runs (TypeOK).
THEOREM TypeCorrect == Spec => []TypeOK
<1>1. Inv => TypeOK
  BY DEF Inv
<1> QED BY <1>1, Invariance, PTL

\* Whatever the database holds and however many requests and scripts interleave: what
\* fails was disturbed by another that added to what it deletes, deleted what it needs,
\* or held its rows, or something broke down.
THEOREM RefusalsExplained == Spec => []RefusedIsExplained
<1>1. Inv => RefusedIsExplained
  BY DEF Inv
<1> QED BY <1>1, Invariance, PTL

\* What fails has deleted nothing, but for deleteTag, deleteOrgByEmail and the
\* requests whose audit row is refused.
THEOREM NothingHalfDone == Spec => []AllOrNothing
<1>1. Inv => AllOrNothing
  BY DEF Inv, Committed, AllOrNothing, Piecemeal
<1> QED BY <1>1, Invariance, PTL

\* No statement, in a transaction or not, leaves a row that refers to one that is
\* gone, in the database or in what a transaction sees (Consistent).
THEOREM KeysHold == Spec => []Consistent
<1>1. Inv => Consistent
  BY DEF Inv
<1> QED BY <1>1, Invariance, PTL
-----------------------------------------------------------------------------
(***************************************************************************)
(* What is erased is gone                                                  *)
(***************************************************************************)
\* A transaction about to commit has deleted what it was to delete; the rows that
\* delete-all-users-except.js has listed are users; a row that is new is nobody
\* else's matter.
Adding(q) == Adds(job[q]) /\ ~Addition[job[q].kind].keyed /\ job[q].pc = "write"
Aimed(p) ==
  /\ Erases(job[p]) /\ job[p].pc = "commit" =>
       Erasure[job[p].kind].atomic /\ Aim(job[p]) \cap Visible(p) = {}
  /\ Erases(job[p]) /\ job[p].kind = "deleteAllUsersExcept" =>
       \A u \in job[p].ids : Table[u] = "User"
  /\ Adds(job[p]) /\ job[p].pc = "look" => Addition[job[p].kind].keyed
  /\ Adding(p) => /\ job[p].target \notin db
                  /\ \A q \in Actor \ {p} : Runs(q) => job[q].target # job[p].target
AimInv == \A p \in Actor : Aimed(p)

\* Which rows are looked for before they are added, and which not.
LEMMA Keyed ==
  ASSUME NEW kind \in DOMAIN Addition
  PROVE  /\ Addition[kind].keyed =>
              Addition[kind].table \in {"CustomerTag", "ConversationTag", "CustomerNote"}
         /\ ~Addition[kind].keyed =>
              Addition[kind].table \in {"ConversationNote", "SavedReply", "AutoReply", "Tag",
                                        "Customer", "Conversation", "Message"}
BY DEF Addition, addCustomerTag, addConversationTag, upsertCustomerNote,
   createConversationNote, createSavedReply, createForOrg, createTag, createCustomer,
   createConversation, storeMessage

\* What routines of one transaction are about.
LEMMA AtomicOf ==
  ASSUME NEW kind \in DOMAIN Erasure, Erasure[kind].atomic
  PROVE  Erasure[kind].of \in {"Conversation", "Customer", "Organization", "User"}
<1>1. kind \in {"deleteConversation", "deleteCustomer", "deleteCustomerData",
                "deleteOrganization", "adminDeleteOrganization", "clearOrgsChannels",
                "deleteAllUsersExcept"}
  BY Atomic DEF RoutineNames, Alone
<1> QED
  BY <1>1, Routines DEF deleteConversation, deleteCustomer, deleteCustomerData,
     deleteOrganization, adminDeleteOrganization, clearOrgsChannels, deleteAllUsersExcept

\* The last statement of a routine selects what it is to delete.
LEMMA LastSelectsAim ==
  ASSUME NEW j, Underway(j), Erases(j), ~(j.at < Len(Steps(j))), NEW r \in Aim(j),
         j.kind = "deleteAllUsersExcept" => \A u \in j.ids : Table[u] = "User"
  PROVE  r \in Selected(j, Steps(j)[j.at])
<1> DEFINE of == Erasure[j.kind].of
           last == Len(Steps(j))
<1>1. j \in Job /\ j.target \in Row /\ Table[j.target] = of /\ j.kind \in RoutineNames
  BY Atomic DEF Underway, Job, Erases
<1>2. j.at = last
  <2>1. \A n \in 1..17 : \A at \in 1..n : ~(at < n) => at = n
    OBVIOUS
  <2> QED BY <2>1, Atomic DEF Underway, Erases, Steps
<1>3. CASE j.kind = "deleteAllUsersExcept"
  <2>1. Steps(j)[last] = S("User", "listed")
    BY <1>3, Routines, Lengths DEF Steps, deleteAllUsersExcept
  <2>2. r \in Row /\ r \in j.ids /\ Table[r] = "User"
    BY <1>1, <1>3 DEF Aim, Job
  <2>3. r \in Selected(j, S("User", "listed"))
    BY <2>2 DEF Selected, S
  <2> QED BY <1>2, <2>1, <2>3
<1>4. CASE j.kind # "deleteAllUsersExcept"
  <2>1. r = j.target
    BY <1>4 DEF Aim
  <2>2. ASSUME NEW where \in {"self", "all"}, Steps(j)[last] = S(of, where)
        PROVE  r \in Selected(j, Steps(j)[j.at])
    <3>1. r \in Selected(j, S(of, where))
      BY <1>1, <2>1 DEF Selected, S
    <3> QED BY <1>2, <2>2, <3>1
  <2>3. CASE j.kind = "truncateAll"
    <3>1. Steps(j)[last] = S("every table", "all")
      <4>1. truncateAll.steps[1] = S("every table", "all")
        BY DEF truncateAll
      <4> QED BY <2>3, <4>1, Routines, Lengths DEF Steps
    <3>2. r \in Selected(j, S("every table", "all"))
      BY <1>1, <2>1 DEF Selected, S
    <3> QED BY <1>2, <3>1, <3>2
  <2>4. CASE j.kind = "deleteConversation"
    <3>1. of = "Conversation" /\ Steps(j)[last] = S("Conversation", "self")
      BY <2>4, Routines, Lengths DEF Steps, deleteConversation
    <3> QED BY <2>2, <3>1
  <2>5. CASE j.kind = "deleteCustomer"
    <3>1. of = "Customer" /\ Steps(j)[last] = S("Customer", "self")
      BY <2>5, Routines, Lengths DEF Steps, deleteCustomer
    <3> QED BY <2>2, <3>1
  <2>6. CASE j.kind = "deleteCustomerData"
    <3>1. of = "Customer" /\ Steps(j)[last] = S("Customer", "self")
      BY <2>6, Routines, Lengths DEF Steps, deleteCustomerData
    <3> QED BY <2>2, <3>1
  <2>7. CASE j.kind = "deleteTag"
    <3>1. of = "Tag" /\ Steps(j)[last] = S("Tag", "self")
      BY <2>7, Routines, Lengths DEF Steps, deleteTag
    <3> QED BY <2>2, <3>1
  <2>8. CASE j.kind = "deleteOrganization"
    <3>1. of = "Organization" /\ Steps(j)[last] = S("Organization", "self")
      BY <2>8, Routines, Lengths DEF Steps, deleteOrganization, Everything
    <3> QED BY <2>2, <3>1
  <2>9. CASE j.kind = "adminDeleteOrganization"
    <3>1. of = "Organization" /\ Steps(j)[last] = S("Organization", "self")
      BY <2>9, Routines, Lengths DEF Steps, adminDeleteOrganization, Everything
    <3> QED BY <2>2, <3>1
  <2>10. CASE j.kind = "deleteOrgByEmail"
    <3>1. of = "Organization" /\ Steps(j)[last] = S("Organization", "self")
      BY <2>10, Routines, Lengths DEF Steps, deleteOrgByEmail, Everything
    <3> QED BY <2>2, <3>1
  <2>11. CASE j.kind = "clearOrgsChannels"
    <3>1. of = "Organization" /\ Steps(j)[last] = S("Organization", "all")
      BY <2>11, Routines, Lengths DEF Steps, clearOrgsChannels, Everything
    <3> QED BY <2>2, <3>1
  <2>12. CASE j.kind = "removeCustomerTag"
    <3>1. of = "CustomerTag" /\ Steps(j)[last] = S("CustomerTag", "self")
      BY <2>12, Routines, Lengths DEF Steps, removeCustomerTag
    <3> QED BY <2>2, <3>1
  <2>13. CASE j.kind = "removeConversationTag"
    <3>1. of = "ConversationTag" /\ Steps(j)[last] = S("ConversationTag", "self")
      BY <2>13, Routines, Lengths DEF Steps, removeConversationTag
    <3> QED BY <2>2, <3>1
  <2>14. CASE j.kind = "deleteSavedReply"
    <3>1. of = "SavedReply" /\ Steps(j)[last] = S("SavedReply", "self")
      BY <2>14, Routines, Lengths DEF Steps, deleteSavedReply
    <3> QED BY <2>2, <3>1
  <2> QED
    BY <1>1, <1>4, <2>3, <2>4, <2>5, <2>6, <2>7, <2>8, <2>9, <2>10, <2>11, <2>12, <2>13, <2>14
       DEF RoutineNames
<1> QED BY <1>3, <1>4

\* A step that is about p, and adds at most the row p is adding, keeps it.
LEMMA AimStep ==
  ASSUME Inv, AimInv, NEW p \in Actor,
         \A q \in Actor \ {p} : job'[q] = job[q] /\ gone'[q] = gone[q],
         \/ db' \subseteq db
         \/ Adds(job[p]) /\ job[p].pc = "write" /\ db' \subseteq db \union {job[p].target},
         Aimed(p)',
         Runs(p)' => \A q \in Actor \ {p} : Adding(q) => job'[p].target # job[q].target
  PROVE  AimInv'
<1> DEFINE added == db' \ db
<1>0. /\ db' \subseteq db \union added /\ added \subseteq {job[p].target}
      /\ added # {} => Adds(job[p]) /\ job[p].pc = "write"
  OBVIOUS
<1> HIDE DEF added
<1> SUFFICES ASSUME NEW q \in Actor \ {p} PROVE Aimed(q)'
  BY DEF AimInv
<1>1. Aimed(q) /\ Aimed(p) /\ job'[q] = job[q] /\ gone'[q] = gone[q]
  BY DEF AimInv
<1>2. \A u \in Actor : Runs(u) => Underway(job[u])
  BY Busy
<1>3. ASSUME NEW r \in added
      PROVE  /\ r = job[p].target /\ Adds(job[p]) /\ job[p].pc = "write" /\ Runs(p)
             /\ Table[r] = Addition[job[p].kind].table
  BY <1>0, <1>2, <1>3 DEF Runs, Underway
<1>4. ASSUME Erases(job[q]), job[q].pc = "commit"
      PROVE  Aim(job[q]) \cap (db' \ gone[q]) = {}
  <2>1. SUFFICES ASSUME NEW r \in Aim(job[q]), r \in added PROVE FALSE
    BY <1>0, <1>1, <1>4 DEF Aimed, Visible
  <2>2. Runs(q) /\ Underway(job[q]) /\ Erasure[job[q].kind].atomic
    BY <1>1, <1>2, <1>4 DEF Runs, Aimed
  <2>3. r = job[p].target /\ Adds(job[p]) /\ Runs(p) /\ Table[r] = Addition[job[p].kind].table
    BY <1>3, <2>1
  <2>4. job[p].kind \in DOMAIN Addition
    BY <2>3 DEF Adds
  <2>5. CASE job[q].kind = "deleteAllUsersExcept"
    <3>1. Table[r] = "User"
      BY <1>1, <1>4, <2>1, <2>5 DEF Aim, Aimed
    <3> QED BY <2>3, <2>4, <3>1, Keyed
  <2>6. CASE job[q].kind # "deleteAllUsersExcept"
    <3>1. r = job[q].target
      BY <2>1, <2>6 DEF Aim
    <3>2. Addition[job[p].kind].keyed
      BY <1>1, <1>3, <2>1, <2>2, <2>3, <3>1 DEF Aimed, Adding
    <3>3. Table[r] \in {"CustomerTag", "ConversationTag", "CustomerNote"}
      BY <2>3, <2>4, <3>2, Keyed
    <3>4. Table[r] \in {"Conversation", "Customer", "Organization", "User"}
      BY <1>4, <2>2, <3>1, AtomicOf DEF Underway, Erases
    <3> QED BY <3>3, <3>4
  <2> QED BY <2>5, <2>6
<1>5. ASSUME Adding(q)
      PROVE  /\ job[q].target \notin db'
             /\ \A u \in Actor \ {q} : Runs(u)' => job'[u].target # job[q].target
  <2>1. job[q].target \notin added
    BY <1>1, <1>3, <1>5 DEF Aimed
  <2>2. ASSUME NEW u \in Actor \ {q}, Runs(u)' PROVE job'[u].target # job[q].target
    <3>1. CASE u = p
      BY <1>5, <2>2, <3>1
    <3>2. CASE u # p
      BY <1>1, <1>5, <2>2, <3>2 DEF Aimed, Runs
    <3> QED BY <3>1, <3>2
  <2> QED BY <1>0, <1>1, <1>5, <2>1, <2>2 DEF Aimed
<1> QED BY <1>1, <1>4, <1>5 DEF Aimed, Adding, Visible

\* A job that goes on stays what it is.
LEMMA AimGoesOn ==
  ASSUME Inv, AimInv, NEW p \in Actor, Runs(p), Moves(p),
         \A q \in Actor \ {p} : gone'[q] = gone[q],
         \/ db' \subseteq db
         \/ Adds(job[p]) /\ job[p].pc = "write" /\ db' \subseteq db \union {job[p].target},
         job'[p].kind = job[p].kind,
         Runs(p)' => job'[p].target = job[p].target /\ job'[p].ids = job[p].ids,
         Adds(job[p]) => job'[p].pc # "look" /\ ~Adding(p)',
         Erases(job[p]) /\ job'[p].pc = "commit" =>
           Erasure[job[p].kind].atomic /\ Aim(job[p]) \cap Visible(p)' = {}
  PROVE  AimInv'
<1>1. Aimed(p) /\ Underway(job[p])
  BY Busy DEF AimInv
<1>2. /\ Erases(job'[p]) <=> Erases(job[p])
      /\ Adds(job'[p]) <=> Adds(job[p])
  BY DEF Erases, Adds
<1>3. CASE Runs(p)'
  <2>1. Aim(job'[p]) = Aim(job[p])
    BY <1>3 DEF Aim
  <2>2. Aimed(p)'
    BY <1>1, <1>2, <1>3, <2>1 DEF Aimed, Adding
  <2>3. \A q \in Actor \ {p} : Adding(q) => job'[p].target # job[q].target
    BY <1>3 DEF AimInv, Aimed
  <2> QED BY <2>2, <2>3, AimStep DEF Moves
<1>4. CASE ~Runs(p)'
  <2>1. job'[p] \in Ended
    BY <1>4 DEF Moves, Underway, Job, Runs
  <2>2. job'[p].ids = {}
    BY <2>1 DEF Ended
  <2>3. Aimed(p)'
    BY <1>4, <2>2 DEF Aimed, Adding, Runs
  <2> QED BY <1>4, <2>3, AimStep DEF Moves
<1> QED BY <1>3, <1>4

\* A request that fails, for whatever reason.
LEMMA AimFails ==
  ASSUME Inv, AimInv, NEW p \in Actor, Runs(p), NEW outcome \in {"ok", "error"},
         Ends(p, outcome), \A q \in Actor \ {p} : gone'[q] = gone[q], db' \subseteq db
  PROVE  AimInv'
<1>1. Moves(p) /\ job'[p].kind = job[p].kind /\ ~Runs(p)'
  BY JobEnds
<1>2. job'[p].pc \notin {"look", "write", "commit"} /\ ~Adding(p)'
  BY <1>1 DEF Runs, Adding
<1> QED BY <1>1, <1>2, AimGoesOn

\* A request that is done with its work, and adds at most the row it is adding.
LEMMA AimFinishes ==
  ASSUME Inv, AimInv, NEW p \in Actor, Runs(p), Finish(p),
         \A q \in Actor \ {p} : gone'[q] = gone[q],
         \/ db' \subseteq db
         \/ Adds(job[p]) /\ job[p].pc = "write" /\ db' \subseteq db \union {job[p].target}
  PROVE  AimInv'
<1>1. /\ Moves(p) /\ job'[p].kind = job[p].kind
      /\ job'[p].pc \in {"ok", "log"}
      /\ job'[p].pc = "log" => job'[p].target = job[p].target /\ job'[p].ids = job[p].ids
  BY JobFinishes
<1>2. Runs(p)' => job'[p].target = job[p].target /\ job'[p].ids = job[p].ids
  BY <1>1 DEF Runs
<1>3. job'[p].pc \notin {"look", "write", "commit"} /\ ~Adding(p)'
  BY <1>1 DEF Adding
<1> QED BY <1>1, <1>2, <1>3, AimGoesOn

\* A job that starts, on a row that is there or nobody is adding.
LEMMA AimBegins ==
  ASSUME Inv, AimInv, NEW p \in Actor, NEW kind, NEW target, NEW pc, NEW ids, NEW orphan,
         Begin(p, kind, target, pc, ids, orphan), pc # "commit",
         kind = "deleteAllUsersExcept" => \A u \in ids : Table[u] = "User",
         kind \in DOMAIN Addition =>
           /\ pc = "look" => Addition[kind].keyed
           /\ pc = "write" /\ ~Addition[kind].keyed =>
                target \notin db /\ \A q \in Actor : Runs(q) => job[q].target # target,
         \A q \in Actor \ {p} : Adding(q) => target # job[q].target
  PROVE  AimInv'
<1> DEFINE j == [kind |-> kind, pc |-> pc, at |-> 1, target |-> target, ids |-> ids]
<1>1. /\ job'[p] = j /\ \A q \in Actor \ {p} : job'[q] = job[q]
      /\ db' = db /\ gone' = gone
  BY DEF Begin, Inv, TypeOK
<1>2. j.kind = kind /\ j.pc = pc /\ j.target = target /\ j.ids = ids
  OBVIOUS
<1> HIDE DEF j
<1>3. \A q \in Actor \ {p} : Runs(q)' => Runs(q)
  BY <1>1 DEF Runs
<1>4. Aimed(p)'
  BY <1>1, <1>2, <1>3 DEF Aimed, Adding, Adds
<1>5. db' \subseteq db
  BY <1>1
<1> QED BY <1>1, <1>2, <1>4, <1>5, AimStep

\* A row that is there, or is looked for, is not one somebody is adding unseen.
LEMMA NotAdding ==
  ASSUME Inv, AimInv, NEW q \in Actor, Adding(q), NEW target \in Row,
         target \in db \/ Table[target] \in {"CustomerTag", "ConversationTag", "CustomerNote"}
  PROVE  target # job[q].target
<1>1. Underway(job[q]) /\ job[q].kind \in DOMAIN Addition
  BY Busy DEF Adding, Adds, Runs
<1>2. Table[job[q].target] = Addition[job[q].kind].table
  BY <1>1 DEF Underway, Adding
<1>3. Table[job[q].target] \notin {"CustomerTag", "ConversationTag", "CustomerNote"}
  BY <1>1, <1>2, Keyed DEF Adding
<1>4. job[q].target \notin db
  BY DEF AimInv, Aimed
<1> QED BY <1>3, <1>4

\* Starts keep AimInv.
LEMMA AimStarts ==
  ASSUME Inv, AimInv, NEW p \in Actor, StartErasure(p) \/ StartAddition(p) \/ StartEdit(p)
  PROVE  AimInv'
<1>1. CASE StartErasure(p)
  <2>1. PICK kind \in DOMAIN Erasure, target \in Row :
          /\ Table[target] = Erasure[kind].of
          /\ target \in db \/ kind \in {"removeCustomerTag", "removeConversationTag"}
          /\ Begin(p, kind, target, "write", Listed(kind, target), FALSE)
    BY <1>1 DEF StartErasure
  <2>2. target \in db \/ Table[target] \in {"CustomerTag", "ConversationTag", "CustomerNote"}
    BY <2>1, Routines DEF removeCustomerTag, removeConversationTag
  <2>3. kind \notin DOMAIN Addition
    BY <2>1 DEF Erasure, Addition
  <2>4. kind = "deleteAllUsersExcept" => \A u \in Listed(kind, target) : Table[u] = "User"
    BY DEF Listed
  <2>5. \A q \in Actor \ {p} : Adding(q) => target # job[q].target
    BY <2>2, NotAdding
  <2> QED BY <2>1, <2>3, <2>4, <2>5, AimBegins
<1>2. CASE StartAddition(p)
  <2>1. PICK kind \in DOMAIN Addition, target \in Row :
          /\ Table[target] = Addition[kind].table
          /\ \/ Addition[kind].keyed
             \/ target \notin db /\ \A q \in Actor : Runs(q) => job[q].target # target
          /\ Begin(p, kind, target, IF Addition[kind].keyed THEN "look" ELSE "write", {},
                   ~(Refs[target] \subseteq db))
    BY <1>2 DEF StartAddition
  <2> DEFINE pc == IF Addition[kind].keyed THEN "look" ELSE "write"
             orphan == ~(Refs[target] \subseteq db)
  <2>2. kind # "deleteAllUsersExcept"
    BY <2>1 DEF Addition
  <2>3. \A q \in Actor \ {p} : Adding(q) => target # job[q].target
    <3>1. CASE Addition[kind].keyed
      BY <2>1, <3>1, Keyed, NotAdding
    <3>2. CASE ~Addition[kind].keyed
      BY <2>1, <3>2 DEF Adding, Runs
    <3> QED BY <3>1, <3>2
  <2>4. /\ pc # "commit" /\ (pc = "look" => Addition[kind].keyed)
        /\ pc = "write" /\ ~Addition[kind].keyed =>
             target \notin db /\ \A q \in Actor : Runs(q) => job[q].target # target
    BY <2>1
  <2>5. Begin(p, kind, target, pc, {}, orphan)
    BY <2>1
  <2> HIDE DEF pc, orphan
  <2> QED BY <2>2, <2>3, <2>4, <2>5, AimBegins
<1>3. CASE StartEdit(p)
  <2>1. PICK kind \in DOMAIN Edition, target \in db : Begin(p, kind, target, "write", {}, FALSE)
    BY <1>3 DEF StartEdit
  <2>2. kind \notin DOMAIN Addition /\ kind # "deleteAllUsersExcept"
    BY <2>1 DEF Edition, Addition
  <2>3. target \in Row
    BY DEF Inv, TypeOK
  <2>4. \A q \in Actor \ {p} : Adding(q) => target # job[q].target
    BY <2>3, NotAdding
  <2> QED BY <2>1, <2>2, <2>4, AimBegins
<1> QED BY <1>1, <1>2, <1>3

\* So do requests, failures and commits,
LEMMA AimRequests ==
  ASSUME Inv, AimInv, NEW p \in Actor,
         Look(p) \/ Insert(p) \/ Log(p) \/ Edit(p) \/ ReadAgain(p) \/ Fail(p) \/ Commit(p)
  PROVE  AimInv'
<1>1. CASE Look(p)
  <2>1. Runs(p) /\ Adds(job[p]) /\ ~Erases(job[p]) /\ db' = db /\ gone' = gone
        /\ job[p].pc = "look"
    BY <1>1, SortsApart DEF Look, Runs
  <2>2. CASE Goes(p, "write")
    <3>1. /\ Moves(p) /\ job'[p].pc = "write" /\ job'[p].kind = job[p].kind
          /\ job'[p].target = job[p].target /\ job'[p].ids = job[p].ids
      BY <2>1, <2>2, JobGoes
    <3>2. ~Adding(p)'
      BY <2>1, <3>1 DEF AimInv, Aimed, Adding
    <3>3. db' \subseteq db
      BY <2>1
    <3> QED BY <2>1, <3>1, <3>2, <3>3, AimGoesOn
  <2>3. CASE Finish(p)
    <3>1. db' \subseteq db
      BY <2>1
    <3> QED BY <2>1, <2>3, <3>1, AimFinishes
  <2> QED BY <1>1, <2>2, <2>3 DEF Look
<1>2. CASE Insert(p)
  <2>1. Runs(p) /\ Adds(job[p]) /\ job[p].pc = "write" /\ gone' = gone
    BY <1>2 DEF Insert, Runs
  <2>2. CASE db' = db \union {job[p].target} /\ Finish(p)
    BY <2>1, <2>2, AimFinishes
  <2>3. CASE Ends(p, "error") /\ UNCHANGED <<db, upset>>
    BY <2>1, <2>3, AimFails
  <2> QED BY <1>2, <2>2, <2>3 DEF Insert
<1>3. CASE Log(p)
  BY <1>3, AimFails DEF Log, Runs
<1>4. CASE Edit(p)
  <2>1. Runs(p) /\ Edits(job[p]) /\ ~Erases(job[p]) /\ ~Adds(job[p]) /\ db' = db /\ gone' = gone
    BY <1>4, SortsApart DEF Edit, Runs
  <2>2. /\ Moves(p) /\ job'[p].pc = "look" /\ job'[p].kind = job[p].kind
        /\ job'[p].target = job[p].target /\ job'[p].ids = job[p].ids
    BY <1>4, <2>1, JobGoes DEF Edit
  <2>3. db' \subseteq db
    BY <2>1
  <2> QED BY <2>1, <2>2, <2>3, AimGoesOn
<1>5. CASE ReadAgain(p)
  <2>1. Runs(p) /\ db' = db /\ gone' = gone /\ (Finish(p) \/ Ends(p, "error"))
    BY <1>5 DEF ReadAgain, Runs
  <2>2. db' \subseteq db
    BY <2>1
  <2> QED BY <2>1, <2>2, AimFinishes, AimFails
<1>6. CASE Fail(p)
  BY <1>6, AimFails DEF Fail, Inv, TypeOK
<1>7. CASE Commit(p)
  <2>1. Runs(p) /\ Ends(p, "ok") /\ db' \subseteq db
    BY <1>7 DEF Commit, Runs
  <2>2. \A q \in Actor \ {p} : gone'[q] = gone[q]
    BY <1>7 DEF Commit, Inv, TypeOK
  <2> QED BY <2>1, <2>2, AimFails
<1> QED BY <1>1, <1>2, <1>3, <1>4, <1>5, <1>6, <1>7

\* A statement that goes through: what it selects is gone for p, and it is the last
\* one when p is done or commits.
LEMMA AimDelete ==
  ASSUME Inv, AimInv, NEW p \in Actor, job[p].pc = "write", Erases(job[p]),
         NEW rows, Selected(job[p], Steps(job[p])[job[p].at]) \cap Visible(p) \subseteq rows,
         rows \subseteq Row, Delete(p, rows)
  PROVE  /\ AimInv'
         /\ job'[p].pc \in {"log", "ok"} => Aim(job[p]) \cap db' = {}
<1>1. /\ Runs(p) /\ Underway(job[p]) /\ ~Adds(job[p]) /\ Aimed(p)
  BY Busy, SortsApart DEF Runs, AimInv
<1>2. /\ \A q \in Actor \ {p} : gone'[q] = gone[q]
      /\ db' \subseteq db /\ Visible(p)' = Visible(p) \ rows
      /\ ~Erasure[job[p].kind].atomic => gone'[p] = {}
  <2>1. CASE Erasure[job[p].kind].atomic
    BY <2>1 DEF Delete, Inv, TypeOK, Visible
  <2>2. CASE ~Erasure[job[p].kind].atomic
    <3>1. gone[p] = {}
      BY <2>2, NothingToRelease DEF Deleting
    <3> QED BY <2>2, <3>1 DEF Delete, Visible
  <2> QED BY <2>1, <2>2
<1>3. ASSUME ~(job[p].at < Len(Steps(job[p]))) PROVE Aim(job[p]) \cap Visible(p)' = {}
  BY <1>1, <1>2, <1>3, LastSelectsAim DEF Aimed
<1>4. db' \subseteq db
  BY <1>2
<1>5. CASE job[p].at < Len(Steps(job[p]))
  <2>1. job' = [job EXCEPT ![p].at = @ + 1]
    BY <1>5 DEF Delete, After
  <2>2. /\ Moves(p) /\ job'[p].pc = "write"
        /\ job'[p].kind = job[p].kind /\ job'[p].target = job[p].target
        /\ job'[p].ids = job[p].ids
    BY <1>1, <1>5, <2>1, JobNext
  <2> QED BY <1>1, <1>2, <1>4, <2>2, AimGoesOn
<1>6. CASE ~(job[p].at < Len(Steps(job[p]))) /\ Erasure[job[p].kind].atomic
  <2>1. Goes(p, "commit")
    BY <1>6 DEF Delete, After
  <2>2. /\ Moves(p) /\ job'[p].pc = "commit"
        /\ job'[p].kind = job[p].kind /\ job'[p].target = job[p].target
        /\ job'[p].ids = job[p].ids
    BY <1>1, <2>1, JobGoes
  <2> QED BY <1>1, <1>2, <1>3, <1>4, <1>6, <2>2, AimGoesOn
<1>7. CASE ~(job[p].at < Len(Steps(job[p]))) /\ ~Erasure[job[p].kind].atomic
  <2>1. Finish(p)
    BY <1>7 DEF Delete, After
  <2>2. AimInv'
    BY <1>1, <1>2, <1>4, <2>1, AimFinishes
  <2>3. Aim(job[p]) \cap db' = {}
    BY <1>2, <1>3, <1>7 DEF Visible
  <2> QED BY <2>2, <2>3
<1> QED BY <1>5, <1>6, <1>7

\* and statements.
LEMMA AimStatement ==
  ASSUME Inv, AimInv, NEW p \in Actor, Statement(p)
  PROVE  /\ AimInv'
         /\ job'[p].pc \in {"log", "ok"} => Aim(job[p]) \cap db' = {}
<1> DEFINE hit == Selected(job[p], Steps(job[p])[job[p].at]) \cap Visible(p)
<1>1. job[p].pc = "write" /\ Erases(job[p]) /\ Runs(p)
  BY DEF Statement, Runs
<1>2. CASE GiveUp(p) \/ Refuse(p)
  <2>1. Ends(p, "error") /\ db' = db /\ \A q \in Actor \ {p} : gone'[q] = gone[q]
    BY <1>2 DEF GiveUp, Refuse, Inv, TypeOK
  <2>2. job'[p].pc = "error"
    BY <1>1, <2>1, JobEnds
  <2> QED BY <1>1, <2>1, <2>2, AimFails
<1>3. CASE Delete(p, hit \union Fall(p, hit))
  <2> DEFINE rows == hit \union Fall(p, hit)
  <2>1. rows \subseteq Row /\ hit \subseteq rows
    BY DEF Selected, Fall, Visible, Inv, TypeOK
  <2> HIDE DEF rows
  <2> QED BY <1>1, <1>3, <2>1, AimDelete DEF rows
<1> QED BY <1>2, <1>3 DEF Statement

\* Every step keeps AimInv.
LEMMA AimNext == Inv /\ AimInv /\ [Next]_vars => AimInv'
<1> SUFFICES ASSUME Inv, AimInv, [Next]_vars PROVE AimInv'
  OBVIOUS
<1>1. ASSUME NEW p \in Actor, StartErasure(p) \/ StartAddition(p) \/ StartEdit(p) PROVE AimInv'
  BY <1>1, AimStarts
<1>2. ASSUME NEW p \in Actor,
             Look(p) \/ Insert(p) \/ Log(p) \/ Edit(p) \/ ReadAgain(p) \/ Fail(p) \/ Commit(p)
      PROVE  AimInv'
  BY <1>2, AimRequests
<1>3. ASSUME NEW p \in Actor, Statement(p) PROVE AimInv'
  BY <1>3, AimStatement
<1>4. CASE UNCHANGED vars
  BY <1>4 DEF vars, AimInv, Aimed, Adding, Runs, Visible
<1> QED BY <1>1, <1>2, <1>3, <1>4 DEF Next

\* Initially AimInv holds.
LEMMA InitAim == Init => AimInv
BY DEF Init, AimInv, Aimed, Adding, Idle

\* Nobody's step is another's.
LEMMA OnlyOwnSteps ==
  ASSUME Inv, NEW p \in Actor, NEW q \in Actor \ {p},
         \/ StartErasure(q) \/ StartAddition(q) \/ Look(q) \/ Insert(q) \/ Log(q)
         \/ StartEdit(q) \/ Edit(q) \/ ReadAgain(q)
         \/ Statement(q) \/ Commit(q) \/ Fail(q)
  PROVE  job'[p] = job[p]
<1> p \in DOMAIN job
  BY DEF Inv, TypeOK
<1>1. CASE StartErasure(q) \/ StartAddition(q) \/ StartEdit(q)
  BY <1>1 DEF StartErasure, StartAddition, StartEdit, Begin
<1>2. CASE Look(q) \/ Insert(q) \/ Log(q) \/ Edit(q) \/ ReadAgain(q) \/ Fail(q) \/ Commit(q)
  BY <1>2 DEF Look, Insert, Log, Edit, ReadAgain, Fail, Commit, Finish, Ends, Goes
<1>3. CASE Statement(q)
  <2>1. CASE GiveUp(q) \/ Refuse(q)
    BY <2>1 DEF GiveUp, Refuse, Ends
  <2>2. CASE After(q)
    BY <2>2 DEF After, Finish, Ends, Goes
  <2> QED BY <1>3, <2>1, <2>2 DEF Statement, Delete
<1> QED BY <1>1, <1>2, <1>3

\* What was to be deleted is gone when a routine is done.
LEMMA ErasedStep ==
  ASSUME Inv, AimInv, Consistent', [Next]_vars, NEW p \in Actor, Erases(job[p]),
         job[p].pc \in {"write", "commit"}, job'[p].pc \in {"log", "ok"}
  PROVE  (Aim(job[p]) \union Children(Aim(job[p]))) \cap db' = {}
<1>1. Aim(job[p]) \cap db' = {}
  <2>1. Runs(p) /\ ~Adds(job[p]) /\ ~Edits(job[p])
    BY SortsApart DEF Runs
  <2>2. job'[p] # job[p]
    OBVIOUS
  <2>3. PICK q \in Actor :
          \/ StartErasure(q) \/ StartAddition(q) \/ Look(q) \/ Insert(q) \/ Log(q)
          \/ StartEdit(q) \/ Edit(q) \/ ReadAgain(q)
          \/ Statement(q) \/ Commit(q) \/ Fail(q)
    BY <2>2 DEF Next, vars
  <2>4. q = p
    BY <2>2, <2>3, OnlyOwnSteps
  <2>5. CASE Statement(p)
    BY <2>5, AimStatement
  <2>6. CASE Commit(p)
    BY <2>6 DEF Commit, AimInv, Aimed, Visible
  <2>7. CASE Fail(p)
    BY <2>1, <2>7, JobEnds DEF Fail
  <2>8. CASE \/ StartErasure(p) \/ StartAddition(p) \/ Look(p) \/ Insert(p) \/ Log(p)
             \/ StartEdit(p) \/ Edit(p) \/ ReadAgain(p)
    BY <2>1, <2>8 DEF StartErasure, StartAddition, StartEdit, Free, Look, Insert, Log, Edit,
       ReadAgain
  <2> QED BY <2>3, <2>4, <2>5, <2>6, <2>7, <2>8
<1> QED BY <1>1 DEF Children, Consistent

\* When its last statement is done, what a routine was to delete is gone, and no row
\* is left that is about it, also if others added some in between.
THEOREM ErasedGone == Spec => ErasedIsGone
<1>1. Inv /\ AimInv /\ Inv' /\ [Next]_vars =>
        [\A p \in Actor :
           Erases(job[p]) /\ job[p].pc \in {"write", "commit"} /\ job'[p].pc \in {"log", "ok"}
           => (Aim(job[p]) \union Children(Aim(job[p]))) \cap db' = {}]_vars
  BY ErasedStep DEF Inv
<1> QED BY <1>1, InitInv, NextInv, InitAim, AimNext, PTL DEF Spec, ErasedIsGone
-----------------------------------------------------------------------------
(***************************************************************************)
(* What belongs to others is left                                          *)
(***************************************************************************)
\* The routines that are not about one organization, customer, conversation or tag.
Sweeps == {"clearOrgsChannels", "truncateAll", "deleteAllUsersExcept"}
Own(j, r) ==
  \/ j.kind = "adminDeleteOrganization" /\ Table[r] = "AuthCode"
  \/ Tenant[r] = Tenant[j.target] /\ r \in About(j.target)

\* What a transaction has deleted so far is its own, or names such a row; the
\* conversations it has read are the customer's.
Minding(p) ==
  Runs(p) /\ Erases(job[p]) /\ job[p].kind \notin Sweeps =>
    /\ \A c \in job[p].ids : Table[c] = "Conversation" /\ job[p].target \in Refs[c]
    /\ \A r \in gone[p] : Own(job[p], r) \/ (Table[r] \in Links /\ Refs[r] \cap gone[p] # {})
OwnInv == \A p \in Actor : Minding(p)

\* Two of the three routines for an organization leave the sign-in codes.
LEMMA CodesLeft ==
  /\ \A i \in 1..16 : deleteOrganization.steps[i].table # "AuthCode"
  /\ \A i \in 1..16 : deleteOrgByEmail.steps[i].table # "AuthCode"
<1>1. \A a, b : S(a, b).table = a
  BY DEF S
<1>2. ASSUME NEW i \in 1..16 PROVE deleteOrganization.steps[i].table # "AuthCode"
  BY <1>1 DEF deleteOrganization, Everything
<1>3. ASSUME NEW i \in 1..16 PROVE deleteOrgByEmail.steps[i].table # "AuthCode"
  BY <1>1 DEF deleteOrgByEmail, Everything
<1> QED BY <1>2, <1>3

\* The conditions of the routines for a customer, conversation, tag or reply.
Narrow == {"deleteConversation", "deleteCustomer", "deleteCustomerData", "deleteTag",
           "removeCustomerTag", "removeConversationTag", "deleteSavedReply"}

\* Their statements are about the target, or the conversations read.
LEMMA NarrowSteps ==
  ASSUME NEW kind \in Narrow, NEW i \in 1..Len(Erasure[kind].steps)
  PROVE  /\ Erasure[kind].steps[i].table \in Tables
         /\ Erasure[kind].steps[i].where \in {"self", "of", "in", "listed"}
         /\ Erasure[kind].of # "Organization"
<1>1. \A a, b : S(a, b).table = a /\ S(a, b).where = b
  BY DEF S
<1>2. CASE kind = "deleteConversation"
  BY <1>1, <1>2, Routines, Lengths, AllTables DEF deleteConversation
<1>3. CASE kind = "deleteCustomer"
  BY <1>1, <1>3, Routines, Lengths, AllTables DEF deleteCustomer
<1>4. CASE kind = "deleteCustomerData"
  BY <1>1, <1>4, Routines, Lengths, AllTables DEF deleteCustomerData
<1>5. CASE kind = "deleteTag"
  BY <1>1, <1>5, Routines, Lengths, AllTables DEF deleteTag
<1>6. CASE kind \in {"removeCustomerTag", "removeConversationTag", "deleteSavedReply"}
  <2>1. \A k \in 1..1 : k = 1
    OBVIOUS
  <2> QED BY <1>1, <1>6, <2>1, Routines, Lengths, AllTables
          DEF removeCustomerTag, removeConversationTag, deleteSavedReply
<1> QED BY <1>2, <1>3, <1>4, <1>5, <1>6 DEF Narrow

\* What a statement selects is about the target.
LEMMA SelectsOwn ==
  ASSUME NEW j, Underway(j), Erases(j), j.kind \notin Sweeps,
         \A c \in j.ids : Table[c] = "Conversation" /\ j.target \in Refs[c],
         NEW i \in 1..Len(Steps(j)), NEW r \in Selected(j, Steps(j)[i])
  PROVE  Own(j, r)
<1>1. /\ j.target \in Row /\ Table[j.target] = Erasure[j.kind].of /\ j.kind \in RoutineNames
      /\ j.ids \subseteq Row /\ r \in Row
  BY Atomic DEF Underway, Job, Erases, Selected
<1>2. CASE j.kind \in Swept
  <2>1. Erasure[j.kind].of = "Organization"
    <3>1. /\ deleteOrganization.of = "Organization" /\ deleteOrgByEmail.of = "Organization"
          /\ adminDeleteOrganization.of = "Organization"
      BY DEF deleteOrganization, adminDeleteOrganization, deleteOrgByEmail
    <3> QED BY <1>2, <3>1, Routines DEF Swept
  <2>2. Tenant[j.target] = j.target /\ About(j.target) = {u \in Row : Tenant[u] = j.target}
    BY <1>1, <2>1, ErasureAssumption DEF About
  <2>3. Uniform(Steps(j))
    BY <1>2, Routines, deleteOrganizationSorted, adminDeleteOrganizationSorted,
       deleteOrgByEmailSorted DEF Swept, Steps
  <2>4. CASE Steps(j)[i].where = "tenant"
    BY <1>1, <2>2, <2>4 DEF Selected, Own
  <2>5. CASE Steps(j)[i].where = "self"
    BY <1>1, <2>2, <2>5 DEF Selected, Own
  <2>6. CASE Steps(j)[i].table = "AuthCode"
    <3>1. Table[r] = "AuthCode"
      BY <2>6 DEF Selected
    <3>2. j.kind = "adminDeleteOrganization"
      <4>1. CASE j.kind = "deleteOrganization"
        <5>1. Steps(j) = deleteOrganization.steps /\ i \in 1..16
          BY <4>1, Routines, Lengths DEF Steps
        <5> QED BY <2>6, <5>1, CodesLeft
      <4>2. CASE j.kind = "deleteOrgByEmail"
        <5>1. Steps(j) = deleteOrgByEmail.steps /\ i \in 1..16
          BY <4>2, Routines, Lengths DEF Steps
        <5> QED BY <2>6, <5>1, CodesLeft
      <4> QED BY <1>2, <4>1, <4>2 DEF Swept
    <3> QED BY <3>1, <3>2 DEF Own
  <2> QED BY <2>3, <2>4, <2>5, <2>6 DEF Uniform
<1>3. CASE j.kind \in Narrow
  <2>1. /\ Steps(j)[i].table \in Tables
        /\ Steps(j)[i].where \in {"self", "of", "in", "listed"}
        /\ Table[j.target] # "Organization"
    BY <1>1, <1>3, NarrowSteps DEF Steps
  <2>2. Table[r] = Steps(j)[i].table /\ Table[r] \in Tables
    BY <2>1, AllTables DEF Selected
  <2>3. About(j.target) = {j.target} \union Children({j.target})
                            \union Children(Children({j.target}))
    BY <2>1 DEF About
  <2>4. \A u \in Row : \A s \in Refs[u] : Table[u] \in Tables => Tenant[u] = Tenant[s]
    BY ErasureAssumption
  <2>5. \A c \in j.ids : c \in Children({j.target}) /\ Tenant[c] = Tenant[j.target]
    BY <1>1, <2>4, AllTables DEF Children
  <2>6. CASE Steps(j)[i].where = "self"
    BY <2>3, <2>6 DEF Selected, Own
  <2>7. CASE Steps(j)[i].where = "of"
    <3>1. j.target \in Refs[r]
      BY <2>7 DEF Selected
    <3> QED BY <1>1, <2>2, <2>3, <2>4, <3>1 DEF Children, Own
  <2>8. CASE Steps(j)[i].where = "in"
    <3>1. PICK c \in j.ids : c \in Refs[r]
      BY <2>8 DEF Selected
    <3>2. r \in Children(Children({j.target}))
      BY <1>1, <2>5, <3>1 DEF Children
    <3>3. Tenant[r] = Tenant[j.target]
      BY <1>1, <2>2, <2>4, <2>5, <3>1
    <3> QED BY <2>3, <3>2, <3>3 DEF Own
  <2>9. CASE Steps(j)[i].where = "listed"
    <3>1. r \in j.ids
      BY <2>9 DEF Selected
    <3> QED BY <2>3, <2>5, <3>1 DEF Own
  <2> QED BY <2>1, <2>6, <2>7, <2>8, <2>9
<1> QED BY <1>1, <1>2, <1>3 DEF RoutineNames, Swept, Narrow, Sweeps

\* What a statement deletes is its own, or names what it deletes.
LEMMA RowsOwn ==
  ASSUME Inv, OwnInv, NEW p \in Actor, job[p].pc = "write", Erases(job[p]),
         job[p].kind \notin Sweeps,
         NEW hit, hit \subseteq Selected(job[p], Steps(job[p])[job[p].at]),
         NEW r \in hit \union Fall(p, hit)
  PROVE  Own(job[p], r) \/ (Table[r] \in Links /\ Refs[r] \cap hit # {})
<1>1. Runs(p) /\ Underway(job[p])
  BY Busy DEF Runs
<1>2. /\ \A c \in job[p].ids : Table[c] = "Conversation" /\ job[p].target \in Refs[c]
      /\ job[p].at \in 1..Len(Steps(job[p]))
  BY <1>1 DEF OwnInv, Minding, Underway
<1>3. CASE r \in hit
  BY <1>1, <1>2, <1>3, SelectsOwn
<1>4. CASE r \in Fall(p, hit)
  BY <1>4 DEF Fall
<1> QED BY <1>3, <1>4

\* A statement outside a transaction deletes at once.
LEMMA OwnDelete ==
  ASSUME Inv, OwnInv, NEW p \in Actor, job[p].pc = "write", Erases(job[p]),
         NEW hit, hit = Selected(job[p], Steps(job[p])[job[p].at]) \cap Visible(p),
         NEW rows, rows = hit \union Fall(p, hit), Delete(p, rows)
  PROVE  /\ Minding(p)'
         /\ job[p].kind \notin Sweeps => \A r \in db \ db' :
              Own(job[p], r) \/ (Table[r] \in Links /\ Refs[r] \cap (db \ db') # {})
<1>1. Runs(p) /\ Underway(job[p]) /\ Minding(p) /\ gone \in [Actor -> SUBSET Row]
  BY Busy DEF Runs, OwnInv, Inv, TypeOK
<1>2. hit \subseteq Selected(job[p], Steps(job[p])[job[p].at])
  OBVIOUS
<1>3. job[p].kind \notin Sweeps =>
        \A r \in rows : Own(job[p], r) \/ (Table[r] \in Links /\ Refs[r] \cap rows # {})
  BY <1>2, RowsOwn
<1>4. rows \subseteq Visible(p) /\ Visible(p) \subseteq db
  BY DEF Fall, Visible
<1>5. /\ job'[p].kind = job[p].kind
      /\ Runs(p)' => job'[p].target = job[p].target /\ job'[p].ids = job[p].ids
  <2>1. CASE job[p].at < Len(Steps(job[p]))
    BY <1>1, <2>1, JobNext DEF Delete, After
  <2>2. CASE ~(job[p].at < Len(Steps(job[p]))) /\ Erasure[job[p].kind].atomic
    BY <1>1, <2>2, JobGoes DEF Delete, After
  <2>3. CASE ~(job[p].at < Len(Steps(job[p]))) /\ ~Erasure[job[p].kind].atomic
    BY <1>1, <2>3, JobFinishes DEF Delete, After, Runs
  <2> QED BY <2>1, <2>2, <2>3
<1>6. \A r : Runs(p)' /\ Own(job[p], r) => Own(job'[p], r)
  BY <1>5 DEF Own
<1>7. CASE Erasure[job[p].kind].atomic
  <2>1. gone'[p] = gone[p] \union rows /\ db' = db
    BY <1>1, <1>7 DEF Delete
  <2>2. ASSUME Runs(p)', job[p].kind \notin Sweeps, NEW r \in gone'[p]
        PROVE  Own(job'[p], r) \/ (Table[r] \in Links /\ Refs[r] \cap gone'[p] # {})
    BY <1>1, <1>3, <1>6, <2>1, <2>2 DEF Minding
  <2>3. Minding(p)'
    BY <1>1, <1>5, <2>2 DEF Minding
  <2> QED BY <2>1, <2>3
<1>8. CASE ~Erasure[job[p].kind].atomic
  <2>1. gone[p] = {} /\ gone' = gone /\ db' = db \ rows
    BY <1>8, NothingToRelease DEF Deleting, Delete
  <2>2. Minding(p)'
    BY <1>1, <1>5, <2>1 DEF Minding
  <2>3. db \ db' = rows
    BY <1>4, <2>1
  <2> QED BY <1>3, <2>2, <2>3
<1> QED BY <1>7, <1>8

\* A step of p that leaves its transaction as it is, or ends it.
LEMMA OwnGoesOn ==
  ASSUME Inv, OwnInv, NEW p \in Actor, Runs(p), Moves(p),
         gone'[p] = gone[p] \/ ~Erases(job[p]) \/ ~Runs(p)',
         job'[p].kind = job[p].kind,
         Runs(p)' => job'[p].target = job[p].target /\ job'[p].ids = job[p].ids
  PROVE  Minding(p)'
<1>1. Minding(p)
  BY DEF OwnInv
<1>2. \A r : Runs(p)' /\ Own(job[p], r) => Own(job'[p], r)
  BY DEF Own
<1> QED BY <1>1, <1>2 DEF Minding, Erases

\* What each step of p deletes, and what it remembers.
LEMMA OwnStep ==
  ASSUME Inv, OwnInv, NEW p \in Actor,
         \/ StartErasure(p) \/ StartAddition(p) \/ Look(p) \/ Insert(p) \/ Log(p)
         \/ StartEdit(p) \/ Edit(p) \/ ReadAgain(p)
         \/ Statement(p) \/ Commit(p) \/ Fail(p)
  PROVE  /\ OwnInv'
         /\ \A r \in db \ db' :
              /\ Runs(p) /\ Erases(job[p])
              /\ \/ job[p].kind \in Sweeps \/ Own(job[p], r)
                 \/ Table[r] \in Links /\ Refs[r] \cap (db \ db') # {}
<1>1. \A q \in Actor \ {p} : job'[q] = job[q]
  BY OnlyOwnSteps
<1>2. \A q \in Actor \ {p} : gone'[q] = gone[q]
  BY DEF Inv, TypeOK, StartErasure, StartAddition, StartEdit, Begin, Look, Insert, Log, Edit,
     ReadAgain, Statement, GiveUp, Refuse, Delete, Commit, Fail
<1>3. ASSUME Minding(p)' PROVE OwnInv'
  BY <1>1, <1>2, <1>3 DEF OwnInv, Minding, Runs
<1>4. CASE StartErasure(p)
  <2>1. PICK kind \in DOMAIN Erasure, target \in Row :
          Begin(p, kind, target, "write", Listed(kind, target), FALSE)
    BY <1>4 DEF StartErasure
  <2> DEFINE j == [kind |-> kind, pc |-> "write", at |-> 1, target |-> target,
                   ids |-> Listed(kind, target)]
  <2>2. job'[p] = j /\ db' = db /\ gone' = gone
    BY <2>1 DEF Begin, Inv, TypeOK
  <2>3. gone[p] = {}
    BY <1>4, NothingToRelease DEF StartErasure, Free, Runs, Deleting
  <2>4. kind \notin Sweeps =>
          \A c \in Listed(kind, target) : Table[c] = "Conversation" /\ target \in Refs[c]
    BY DEF Listed, Sweeps
  <2>5. Minding(p)'
    BY <2>2, <2>3, <2>4 DEF Minding
  <2> QED BY <1>3, <2>2, <2>5
<1>5. CASE StartAddition(p) \/ StartEdit(p)
  <2>1. PICK kind, target, pc, ids, orphan :
          /\ kind \in DOMAIN Addition \union DOMAIN Edition
          /\ Begin(p, kind, target, pc, ids, orphan)
    BY <1>5 DEF StartAddition, StartEdit
  <2>2. kind \notin DOMAIN Erasure
    BY <2>1 DEF Addition, Edition, Erasure
  <2>3. job'[p].kind = kind /\ db' = db
    BY <2>1 DEF Begin, Inv, TypeOK
  <2> QED BY <1>3, <2>2, <2>3 DEF Minding, Erases
<1>6. CASE Look(p) \/ Insert(p) \/ Log(p) \/ Edit(p) \/ ReadAgain(p) \/ Fail(p)
  <2>1. Runs(p) /\ db \ db' = {}
    BY <1>6 DEF Look, Insert, Log, Edit, ReadAgain, Fail, Runs
  <2>2. CASE Finish(p)
    <3>1. /\ Moves(p) /\ job'[p].kind = job[p].kind
          /\ Runs(p)' => job'[p].target = job[p].target /\ job'[p].ids = job[p].ids
      BY <2>1, <2>2, JobFinishes DEF Runs
    <3>2. gone'[p] = gone[p] \/ ~Runs(p)'
      <4>1. CASE Fail(p)
        BY <2>1, <4>1, JobEnds DEF Fail
      <4> QED BY <1>6, <4>1 DEF Look, Insert, Log, Edit, ReadAgain
    <3> QED BY <1>3, <2>1, <3>1, <3>2, OwnGoesOn
  <2>3. CASE \E outcome \in {"ok", "error"} : Ends(p, outcome)
    <3>1. Moves(p) /\ job'[p].kind = job[p].kind /\ ~Runs(p)'
      BY <2>1, <2>3, JobEnds
    <3> QED BY <1>3, <2>1, <3>1, OwnGoesOn
  <2>4. CASE \E pc \in {"look", "write"} : Goes(p, pc) /\ ~Erases(job[p])
    <3>1. /\ Moves(p) /\ job'[p].kind = job[p].kind
          /\ job'[p].target = job[p].target /\ job'[p].ids = job[p].ids
      BY <2>1, <2>4, JobGoes
    <3> QED BY <1>3, <2>1, <2>4, <3>1, OwnGoesOn
  <2> QED
    BY <1>6, <2>2, <2>3, <2>4, SortsApart DEF Look, Insert, Log, Edit, ReadAgain, Fail
<1>7. CASE Statement(p)
  <2> DEFINE hit == Selected(job[p], Steps(job[p])[job[p].at]) \cap Visible(p)
             rows == hit \union Fall(p, hit)
  <2>1. job[p].pc = "write" /\ Erases(job[p]) /\ Runs(p)
    BY <1>7 DEF Statement, Runs
  <2>2. CASE GiveUp(p) \/ Refuse(p)
    <3>1. Ends(p, "error") /\ db' = db
      BY <2>2 DEF GiveUp, Refuse
    <3>2. Moves(p) /\ job'[p].kind = job[p].kind /\ ~Runs(p)'
      BY <2>1, <3>1, JobEnds
    <3> QED BY <1>3, <2>1, <3>1, <3>2, OwnGoesOn
  <2>3. CASE Delete(p, rows)
    <3> HIDE DEF rows, hit
    <3>1. hit = Selected(job[p], Steps(job[p])[job[p].at]) \cap Visible(p)
      BY DEF hit
    <3>2. rows = hit \union Fall(p, hit)
      BY DEF rows
    <3> QED BY <1>3, <2>1, <2>3, <3>1, <3>2, OwnDelete
  <2> QED BY <1>7, <2>2, <2>3 DEF Statement
<1>8. CASE Commit(p)
  <2>1. Runs(p) /\ Ends(p, "ok") /\ db' = db \ gone[p] /\ job[p].pc = "commit"
    BY <1>8 DEF Commit, Runs
  <2>2. Moves(p) /\ job'[p].kind = job[p].kind /\ ~Runs(p)'
    BY <2>1, JobEnds
  <2>3. db \ db' = gone[p]
    BY <2>1 DEF Inv, Consistent
  <2>4. Erases(job[p])
    BY <2>1, Busy, SortsApart DEF Underway, Job
  <2>5. job[p].kind \notin Sweeps => \A r \in gone[p] :
          Own(job[p], r) \/ (Table[r] \in Links /\ Refs[r] \cap gone[p] # {})
    BY <2>1, <2>4 DEF OwnInv, Minding
  <2>6. Minding(p)'
    BY <2>1, <2>2, OwnGoesOn
  <2> QED BY <1>3, <2>1, <2>3, <2>4, <2>5, <2>6
<1> QED BY <1>4, <1>5, <1>6, <1>7, <1>8

\* Deleting one organization, customer, conversation or tag leaves what is not about
\* it, and the other organizations, whatever the database holds and whoever else is
\* at work.
THEOREM OthersKept == Spec => OthersKeepTheirs
<1>1. Init => OwnInv
  BY DEF Init, OwnInv, Minding, Idle, Runs
<1>2. ASSUME Inv, OwnInv, [Next]_vars
      PROVE  /\ OwnInv'
             /\ \A r \in db \ db' : \E p \in Actor :
                  /\ Runs(p) /\ Erases(job[p])
                  /\ \/ job[p].kind \in Sweeps \/ Own(job[p], r)
                     \/ Table[r] \in Links /\ Refs[r] \cap (db \ db') # {}
  <2>1. CASE UNCHANGED vars
    BY <1>2, <2>1 DEF vars, OwnInv, Minding, Runs
  <2>2. CASE Next
    <3>1. PICK p \in Actor :
            \/ StartErasure(p) \/ StartAddition(p) \/ Look(p) \/ Insert(p) \/ Log(p)
            \/ StartEdit(p) \/ Edit(p) \/ ReadAgain(p)
            \/ Statement(p) \/ Commit(p) \/ Fail(p)
      BY <2>2 DEF Next
    <3> QED BY <1>2, <3>1, OwnStep
  <2> QED BY <1>2, <2>1, <2>2
<1>3. Inv /\ OwnInv /\ [Next]_vars =>
        [\A r \in db \ db' : \E p \in Actor :
           /\ Runs(p) /\ Erases(job[p])
           /\ \/ job[p].kind \in {"clearOrgsChannels", "truncateAll", "deleteAllUsersExcept"}
              \/ job[p].kind = "adminDeleteOrganization" /\ Table[r] = "AuthCode"
              \/ Table[r] \in Links /\ Refs[r] \cap (db \ db') # {}
              \/ Tenant[r] = Tenant[job[p].target] /\ r \in About(job[p].target)]_vars
  BY <1>2 DEF Sweeps, Own
<1>4. Inv /\ OwnInv /\ [Next]_vars => OwnInv'
  BY <1>2
<1> QED BY <1>1, <1>3, <1>4, InitInv, NextInv, PTL DEF Spec, OthersKeepTheirs
-----------------------------------------------------------------------------
(***************************************************************************)
(* Contact details and private notes                                       *)
(***************************************************************************)
\* Details, forms and refreshes; answers to getNote.
Details == [Fields -> Values \union Pictures]
Forms == [open : BOOLEAN, first : [Typed -> Values \union Pictures], late : SUBSET Fields]
Syncs == [pc : {"none", "asking", "written"}, read : Details, late : SUBSET Fields]
Notes == [content : Values, old : BOOLEAN]

DetailsTypeOK ==
  /\ row \in Details /\ meant \in Details /\ isSaved \in BOOLEAN /\ undone \subseteq Fields
  /\ shown \in [Views -> Details] /\ late \in [Views -> SUBSET Fields]
  /\ form \in [Views -> Forms] /\ reload \subseteq Views /\ sync \in [Views -> Syncs]

NotesTypeOK ==
  /\ userOf \in [Views -> Users] /\ note \in [Users -> Values \union {NoNote}]
  /\ base \in [Views -> [loaded : BOOLEAN, content : Values]]
  /\ fetch \in [Views -> SUBSET Notes]
  /\ saving \in [Views -> [pc : {"none", "create", "update"}, content : Values]]
  /\ behind \subseteq Views

\* What a form was opened with, or a refresh has read, is stored, unless it was
\* changed since: then the form or the refresh holds the field as late.
FormsKnow ==
  \A v \in Views, f \in Typed :
    form[v].open /\ form[v].first[f] # row[f] => f \in form[v].late
SyncsKnow ==
  \A v \in Views, f \in Fields :
    sync[v].pc = "asking" /\ sync[v].read[f] # row[f] => f \in sync[v].late

\* An answer that is not old holds the note as it is stored.
FetchesKnow ==
  \A v \in Views, r \in Notes :
    r \in fetch[v] /\ ~r.old => r.content = Content(note[userOf[v]])

DetailsInv == DetailsTypeOK /\ FormsKnow /\ SyncsKnow /\ EditsAreKept /\ ViewIsExplained
NotesInv == NotesTypeOK /\ FetchesKnow /\ NoteIsExplained
ContactInv == DetailsInv /\ NotesInv
-----------------------------------------------------------------------------
LEMMA FieldTypes ==
  /\ Typed \subseteq Fields /\ FromMeta \subseteq Fields /\ Blank \in Values
  /\ \A p \in Profiles : \A f \in FromMeta : p[f] \in Values \union Pictures
  /\ Closed \in Forms /\ ~Closed.open
  /\ NoSync \in Syncs /\ NoSync.pc = "none"
  /\ [NoSync EXCEPT !.pc = "written"] \in Syncs /\ [NoSync EXCEPT !.pc = "written"].pc = "written"
<1>1. /\ Typed \subseteq Fields /\ FromMeta \subseteq Fields /\ Blank \in Values
  BY DEF Fields, Values
<1>2. ASSUME NEW p \in Profiles, NEW f \in FromMeta PROVE p[f] \in Values \union Pictures
  BY DEF Profiles, FromMeta, Values
<1>3. Closed \in Forms /\ ~Closed.open
  BY <1>1 DEF Closed, Forms
<1>4. NoSync \in Syncs /\ NoSync.pc = "none"
  BY <1>1 DEF NoSync, Syncs, Details
<1>5. [NoSync EXCEPT !.pc = "written"] \in Syncs /\ [NoSync EXCEPT !.pc = "written"].pc = "written"
  BY <1>4 DEF Syncs
<1>6. QED
  BY <1>1, <1>2, <1>3, <1>4, <1>5

\* Whatever is written, forms and refreshes keep what they have read and learn what
\* has changed.
LEMMA Rewriting ==
  ASSUME DetailsInv, NEW new \in Details
  PROVE  /\ FormsAfter(new) \in [Views -> Forms] /\ SyncsAfter(new) \in [Views -> Syncs]
         /\ \A v \in Views : SyncsAfter(new)[v].pc = sync[v].pc
         /\ \A v \in Views, f \in Typed :
              FormsAfter(new)[v].open /\ FormsAfter(new)[v].first[f] # new[f]
                => f \in FormsAfter(new)[v].late
         /\ \A v \in Views, f \in Fields :
              SyncsAfter(new)[v].pc = "asking" /\ SyncsAfter(new)[v].read[f] # new[f]
                => f \in SyncsAfter(new)[v].late
<1>1. Outdated(new) \subseteq Fields
  BY DEF Outdated
<1>2. ASSUME NEW v \in Views
      PROVE  /\ FormsAfter(new)[v] \in Forms
             /\ FormsAfter(new)[v].open =>
                  /\ form[v].open /\ FormsAfter(new)[v].first = form[v].first
                  /\ FormsAfter(new)[v].late = form[v].late \union Outdated(new)
  <2>1. form[v] \in Forms
    BY DEF DetailsInv, DetailsTypeOK
  <2>2. CASE form[v].open
    <3>1. FormsAfter(new)[v] = [form[v] EXCEPT !.late = @ \union Outdated(new)]
      BY <2>2 DEF FormsAfter
    <3>2. QED
      BY <1>1, <2>1, <2>2, <3>1 DEF Forms
  <2>3. CASE ~form[v].open
    BY <2>3, FieldTypes DEF FormsAfter
  <2>4. QED
    BY <2>2, <2>3
<1>3. ASSUME NEW v \in Views
      PROVE  /\ SyncsAfter(new)[v] \in Syncs /\ SyncsAfter(new)[v].pc = sync[v].pc
             /\ sync[v].pc = "asking" =>
                  /\ SyncsAfter(new)[v].read = sync[v].read
                  /\ SyncsAfter(new)[v].late = sync[v].late \union Outdated(new)
  <2>1. sync[v] \in Syncs
    BY DEF DetailsInv, DetailsTypeOK
  <2>2. CASE sync[v].pc = "asking"
    <3>1. SyncsAfter(new)[v] = [sync[v] EXCEPT !.late = @ \union Outdated(new)]
      BY <2>2 DEF SyncsAfter
    <3>2. QED
      BY <1>1, <2>1, <2>2, <3>1 DEF Syncs
  <2>3. CASE sync[v].pc # "asking"
    BY <2>1, <2>3 DEF SyncsAfter
  <2>4. QED
    BY <2>2, <2>3
<1>4. /\ FormsAfter(new) \in [Views -> Forms] /\ SyncsAfter(new) \in [Views -> Syncs]
  BY <1>2, <1>3 DEF FormsAfter, SyncsAfter
<1>5. ASSUME NEW v \in Views, NEW f \in Typed, FormsAfter(new)[v].open,
             FormsAfter(new)[v].first[f] # new[f]
      PROVE  f \in FormsAfter(new)[v].late
  <2>1. form[v].open /\ form[v].first[f] # new[f]
    BY <1>2, <1>5
  <2>2. CASE form[v].first[f] # row[f]
    BY <1>2, <1>5, <2>1, <2>2 DEF DetailsInv, FormsKnow
  <2>3. CASE form[v].first[f] = row[f]
    BY <1>2, <1>5, <2>1, <2>3, FieldTypes DEF Outdated
  <2>4. QED
    BY <2>2, <2>3
<1>6. ASSUME NEW v \in Views, NEW f \in Fields, SyncsAfter(new)[v].pc = "asking",
             SyncsAfter(new)[v].read[f] # new[f]
      PROVE  f \in SyncsAfter(new)[v].late
  <2>1. sync[v].pc = "asking" /\ sync[v].read[f] # new[f]
    BY <1>3, <1>6
  <2>2. CASE sync[v].read[f] # row[f]
    BY <1>3, <1>6, <2>1, <2>2 DEF DetailsInv, SyncsKnow
  <2>3. CASE sync[v].read[f] = row[f]
    BY <1>3, <1>6, <2>1, <2>3 DEF Outdated
  <2>4. QED
    BY <2>2, <2>3
<1>7. QED
  BY <1>3, <1>4, <1>5, <1>6

\* Every view but the one that wrote learns what has changed.
LEMMA WritingRow ==
  ASSUME DetailsInv, NEW new \in Details, NEW by \in SUBSET Views, Write(new, by)
  PROVE  /\ row' = new /\ late' \in [Views -> SUBSET Fields]
         /\ \A v \in Views \ by : \A f \in Fields :
              (shown[v][f] # row[f] => f \in late[v]) => (shown[v][f] # new[f] => f \in late'[v])
<1>1. late' \in [Views -> SUBSET Fields]
  BY DEF Write, Outdated, DetailsInv, DetailsTypeOK
<1>2. ASSUME NEW v \in Views \ by, NEW f \in Fields, shown[v][f] # row[f] => f \in late[v],
             shown[v][f] # new[f]
      PROVE  f \in late'[v]
  <2>1. late'[v] = late[v] \union Outdated(new)
    BY DEF Write
  <2>2. QED
    BY <1>2, <2>1 DEF Outdated
<1>3. QED
  BY <1>1, <1>2 DEF Write

\* A field that is not meant to change keeps its value, or is known to be undone.
LEMMA Intending ==
  ASSUME DetailsInv, NEW new \in Details, row' = new,
         NEW given \in SUBSET Fields, NEW back \in SUBSET Fields, Intend(given, back, new),
         \A f \in Fields \ (given \union back) : new[f] = row[f]
  PROVE  meant' \in Details /\ undone' \subseteq Fields /\ EditsAreKept'
<1>1. meant' \in Details
  BY DEF Intend, Details, DetailsInv, DetailsTypeOK
<1>2. undone' \subseteq Fields
  BY DEF Intend, DetailsInv, DetailsTypeOK
<1>3. ASSUME NEW f \in Fields, row'[f] # meant'[f] PROVE f \in undone'
  <2>1. meant'[f] = IF f \in given THEN new[f] ELSE meant[f]
    BY DEF Intend
  <2>2. f \notin given /\ new[f] # meant'[f]
    BY <1>3, <2>1
  <2>3. CASE f \in back
    BY <2>2, <2>3 DEF Intend
  <2>4. CASE f \notin back
    <3>1. row[f] # meant[f]
      BY <1>3, <2>1, <2>2, <2>4
    <3>2. f \in undone
      BY <3>1 DEF DetailsInv, EditsAreKept
    <3>3. QED
      BY <2>2, <3>2 DEF Intend
  <2>5. QED
    BY <2>3, <2>4
<1>4. QED
  BY <1>1, <1>2, <1>3 DEF EditsAreKept
-----------------------------------------------------------------------------
(***************************************************************************)
(* Messages, forms and refreshes                                           *)
(***************************************************************************)
\* A message of the customer writes only fields that were received.
LEMMA MessageDetails ==
  ASSUME DetailsInv, NEW p \in Profiles, MessageArrives(p)
  PROVE  DetailsInv'
<1> DEFINE new == Received(p)
           given == {f \in FromMeta : p[f] # Blank}
<1>1. new \in Details
  BY FieldTypes DEF Received, Details, DetailsInv, DetailsTypeOK
<1>2. given \in SUBSET Fields /\ \A f \in Fields \ (given \union {}) : new[f] = row[f]
  BY FieldTypes DEF Received
<1>3. /\ Write(new, {}) /\ Intend(given, {}, new)
      /\ form' = FormsAfter(new) /\ sync' = SyncsAfter(new)
      /\ UNCHANGED <<isSaved, shown, reload>>
  BY DEF MessageArrives
<1> HIDE DEF new, given
<1>4. /\ row' = new /\ late' \in [Views -> SUBSET Fields]
      /\ \A v \in Views : \A f \in Fields :
           (shown[v][f] # row[f] => f \in late[v]) => (shown[v][f] # new[f] => f \in late'[v])
  BY <1>1, <1>3, WritingRow
<1>5. meant' \in Details /\ undone' \subseteq Fields /\ EditsAreKept'
  BY <1>1, <1>2, <1>3, <1>4, Intending
<1>6. DetailsTypeOK' /\ FormsKnow' /\ SyncsKnow'
  BY <1>1, <1>3, <1>4, <1>5, Rewriting DEF DetailsInv, DetailsTypeOK, FormsKnow, SyncsKnow
<1>7. ViewIsExplained'
  <2>1. \A v \in Views : sync'[v].pc = sync[v].pc
    BY <1>1, <1>3, Rewriting
  <2>2. QED
    BY <1>3, <1>4, <2>1 DEF DetailsInv, ViewIsExplained
<1>8. QED
  BY <1>5, <1>6, <1>7 DEF DetailsInv

\* The saved form may write back what was changed since it was opened, and then
\* the field is undone.
LEMMA SaveDetails ==
  ASSUME DetailsInv, NEW v \in Views, NEW typed \in [Typed -> Values], SaveContact(v, typed)
  PROVE  DetailsInv'
<1> DEFINE new == Updated(typed)
           given == {f \in Sent(typed) : typed[f] # form[v].first[f]}
           back == (Sent(typed) \ given) \intersect form[v].late
<1>1. new \in Details
  BY FieldTypes DEF Updated, Sent, Details, DetailsInv, DetailsTypeOK
<1>2. given \in SUBSET Fields /\ back \in SUBSET Fields
  BY FieldTypes DEF Sent
<1>3. ASSUME NEW f \in Fields \ (given \union back) PROVE new[f] = row[f]
  <2>1. CASE f \notin Sent(typed)
    BY <2>1 DEF Updated
  <2>2. CASE f \in Sent(typed)
    <3>1. f \in Typed /\ new[f] = typed[f] /\ typed[f] = form[v].first[f] /\ f \notin form[v].late
      BY <1>3, <2>2 DEF Sent, Updated
    <3>2. form[v].open
      BY DEF SaveContact
    <3>3. QED
      BY <3>1, <3>2 DEF DetailsInv, FormsKnow
  <2>3. QED
    BY <2>1, <2>2
<1>4. /\ Write(new, {v}) /\ Intend(given, back, new)
      /\ form' = [FormsAfter(new) EXCEPT ![v] = Closed] /\ sync' = SyncsAfter(new)
      /\ isSaved' = TRUE /\ reload' = reload \union {v} /\ shown' = shown
  BY DEF SaveContact
<1> HIDE DEF new, given, back
<1>5. /\ row' = new /\ late' \in [Views -> SUBSET Fields]
      /\ \A w \in Views \ {v} : \A f \in Fields :
           (shown[w][f] # row[f] => f \in late[w]) => (shown[w][f] # new[f] => f \in late'[w])
  BY <1>1, <1>4, WritingRow
<1>6. meant' \in Details /\ undone' \subseteq Fields /\ EditsAreKept'
  BY <1>1, <1>2, <1>3, <1>4, <1>5, Intending
<1>7. form' \in [Views -> Forms] /\ FormsKnow'
  <2>1. /\ form' \in [Views -> Forms] /\ ~form'[v].open
        /\ \A w \in Views \ {v} : form'[w] = FormsAfter(new)[w]
    BY <1>1, <1>4, Rewriting, FieldTypes
  <2>2. QED
    BY <1>1, <1>5, <2>1, Rewriting DEF FormsKnow
<1>8. DetailsTypeOK' /\ SyncsKnow'
  BY <1>1, <1>4, <1>5, <1>6, <1>7, Rewriting DEF DetailsInv, DetailsTypeOK, SyncsKnow
<1>9. ViewIsExplained'
  <2>1. \A w \in Views : sync'[w].pc = sync[w].pc
    BY <1>1, <1>4, Rewriting
  <2>2. QED
    BY <1>4, <1>5, <2>1 DEF DetailsInv, ViewIsExplained
<1>10. QED
  BY <1>6, <1>7, <1>8, <1>9 DEF DetailsInv

\* So may a refresh, with a field that Meta did not send.
LEMMA ProfileDetails ==
  ASSUME DetailsInv, NEW v \in Views, NEW p \in Profiles, WriteProfile(v, p)
  PROVE  DetailsInv'
<1> DEFINE new == Refreshed(v, p)
           given == {f \in FromMeta : p[f] # Blank}
           back == (FromMeta \ given) \intersect sync[v].late
           written == [NoSync EXCEPT !.pc = "written"]
<1>1. new \in Details
  <2>1. sync[v].read \in Details
    BY DEF DetailsInv, DetailsTypeOK, Syncs
  <2>2. QED
    BY <2>1, FieldTypes DEF Refreshed, Details, DetailsInv, DetailsTypeOK
<1>2. given \in SUBSET Fields /\ back \in SUBSET Fields
  BY FieldTypes
<1>3. ASSUME NEW f \in Fields \ (given \union back) PROVE new[f] = row[f]
  <2>1. CASE f \notin FromMeta
    BY <2>1 DEF Refreshed
  <2>2. CASE f \in FromMeta
    <3>1. new[f] = sync[v].read[f] /\ f \notin sync[v].late
      BY <1>3, <2>2 DEF Refreshed
    <3>2. sync[v].pc = "asking"
      BY DEF WriteProfile
    <3>3. QED
      BY <3>1, <3>2 DEF DetailsInv, SyncsKnow
  <2>3. QED
    BY <2>1, <2>2
<1>4. /\ Write(new, {v}) /\ Intend(given, back, new)
      /\ form' = FormsAfter(new) /\ sync' = [SyncsAfter(new) EXCEPT ![v] = written]
      /\ UNCHANGED <<isSaved, shown, reload>>
  BY DEF WriteProfile
<1>5. written \in Syncs /\ written.pc = "written"
  BY FieldTypes
<1> HIDE DEF new, given, back, written
<1>6. /\ row' = new /\ late' \in [Views -> SUBSET Fields]
      /\ \A w \in Views \ {v} : \A f \in Fields :
           (shown[w][f] # row[f] => f \in late[w]) => (shown[w][f] # new[f] => f \in late'[w])
  BY <1>1, <1>4, WritingRow
<1>7. meant' \in Details /\ undone' \subseteq Fields /\ EditsAreKept'
  BY <1>1, <1>2, <1>3, <1>4, <1>6, Intending
<1>8. /\ sync' \in [Views -> Syncs] /\ sync'[v].pc = "written"
      /\ \A w \in Views \ {v} : sync'[w] = SyncsAfter(new)[w] /\ sync'[w].pc = sync[w].pc
  BY <1>1, <1>4, <1>5, Rewriting
<1>9. SyncsKnow'
  BY <1>1, <1>6, <1>8, Rewriting DEF SyncsKnow
<1>10. DetailsTypeOK' /\ FormsKnow'
  BY <1>1, <1>4, <1>6, <1>7, <1>8, Rewriting DEF DetailsInv, DetailsTypeOK, FormsKnow
<1>11. ViewIsExplained'
  BY <1>4, <1>6, <1>8 DEF DetailsInv, ViewIsExplained
<1>12. QED
  BY <1>7, <1>9, <1>10, <1>11 DEF DetailsInv

\* Nothing is written: a view reads, opens its form, asks, is answered, or is not.
LEMMA ViewDetails ==
  ASSUME DetailsInv, NEW v \in Views,
         Load(v) \/ ToggleEdit(v) \/ StartSync(v) \/ ShowProfile(v) \/ LoseDetails(v)
  PROVE  DetailsInv'
<1>1. CASE Load(v)
  <2>1. /\ shown' = [shown EXCEPT ![v] = row] /\ late' = [late EXCEPT ![v] = {}]
        /\ reload' = reload \ {v} /\ UNCHANGED <<row, isSaved, form, sync, meant, undone>>
    BY <1>1 DEF Load, Show
  <2>2. shown' \in [Views -> Details] /\ late' \in [Views -> SUBSET Fields]
    BY <2>1 DEF DetailsInv, DetailsTypeOK
  <2>3. ViewIsExplained'
    BY <2>1 DEF DetailsInv, DetailsTypeOK, ViewIsExplained
  <2>4. QED
    BY <2>1, <2>2, <2>3 DEF DetailsInv, DetailsTypeOK, FormsKnow, SyncsKnow, EditsAreKept
<1>2. CASE ToggleEdit(v)
  <2> DEFINE first == [f \in Typed |-> shown[v][f]]
             older == {f \in Fields : shown[v][f] # row[f]}
             new == IF form[v].open THEN Closed
                    ELSE [open |-> TRUE, first |-> first, late |-> older]
  <2>1. /\ form' = [form EXCEPT ![v] = new]
        /\ UNCHANGED <<row, isSaved, shown, reload, sync, meant, undone, late>>
    BY <1>2 DEF ToggleEdit
  <2>2. /\ first \in [Typed -> Values \union Pictures] /\ older \in SUBSET Fields
        /\ \A f \in Typed : first[f] # row[f] => f \in older
    BY FieldTypes DEF DetailsInv, DetailsTypeOK, Details
  <2> HIDE DEF first, older
  <2>3. new \in Forms /\ \A f \in Typed : new.open /\ new.first[f] # row[f] => f \in new.late
    BY <2>2, FieldTypes DEF Forms
  <2> HIDE DEF new
  <2>4. form' \in [Views -> Forms] /\ FormsKnow'
    BY <2>1, <2>3 DEF DetailsInv, DetailsTypeOK, FormsKnow
  <2>5. QED
    BY <2>1, <2>4 DEF DetailsInv, DetailsTypeOK, SyncsKnow, EditsAreKept, ViewIsExplained
<1>3. CASE StartSync(v)
  <2> DEFINE new == [pc |-> "asking", read |-> row, late |-> {}]
  <2>1. /\ sync' = [sync EXCEPT ![v] = new] /\ sync[v].pc = "none"
        /\ UNCHANGED <<row, isSaved, shown, form, reload, meant, undone, late>>
    BY <1>3 DEF StartSync
  <2>2. new \in Syncs /\ new.pc = "asking" /\ new.read = row
    BY DEF Syncs, DetailsInv, DetailsTypeOK
  <2> HIDE DEF new
  <2>3. sync' \in [Views -> Syncs] /\ SyncsKnow'
    BY <2>1, <2>2 DEF DetailsInv, DetailsTypeOK, SyncsKnow
  <2>4. ViewIsExplained'
    BY <2>1, <2>2 DEF DetailsInv, DetailsTypeOK, ViewIsExplained
  <2>5. QED
    BY <2>1, <2>3, <2>4 DEF DetailsInv, DetailsTypeOK, FormsKnow, EditsAreKept
<1>4. CASE ShowProfile(v)
  <2> DEFINE customer == Answer(v).customer
             older == Answer(v).older
  <2>1. /\ shown' = [shown EXCEPT ![v] = customer] /\ late' = [late EXCEPT ![v] = older]
        /\ sync' = [sync EXCEPT ![v] = NoSync] /\ sync[v].pc # "none"
        /\ UNCHANGED <<row, isSaved, form, reload, meant, undone>>
    BY <1>4 DEF ShowProfile, Show
  <2>2. /\ customer \in Details /\ older \in SUBSET Fields
        /\ \A f \in Fields : customer[f] # row[f] => f \in older
    <3>1. sync[v] \in Syncs /\ row \in Details
      BY DEF DetailsInv, DetailsTypeOK
    <3>2. CASE sync[v].pc = "written"
      BY <3>1, <3>2 DEF Answer
    <3>3. CASE sync[v].pc = "asking"
      BY <3>1, <3>3 DEF Answer, Syncs, DetailsInv, SyncsKnow
    <3>4. QED
      BY <2>1, <3>1, <3>2, <3>3 DEF Syncs
  <2> HIDE DEF customer, older
  <2>3. /\ shown' \in [Views -> Details] /\ late' \in [Views -> SUBSET Fields]
        /\ sync' \in [Views -> Syncs] /\ sync'[v].pc = "none"
    BY <2>1, <2>2, FieldTypes DEF DetailsInv, DetailsTypeOK
  <2>4. SyncsKnow'
    BY <2>1, <2>3 DEF DetailsInv, DetailsTypeOK, SyncsKnow
  <2>5. ViewIsExplained'
    BY <2>1, <2>2 DEF DetailsInv, DetailsTypeOK, ViewIsExplained
  <2>6. QED
    BY <2>1, <2>3, <2>4, <2>5 DEF DetailsInv, DetailsTypeOK, FormsKnow, EditsAreKept
<1>5. CASE LoseDetails(v)
  <2>1. /\ late' = [late EXCEPT ![v] = Fields]
        /\ reload' \subseteq reload /\ reload \subseteq reload' \union {v}
        /\ sync' = sync \/ sync' = [sync EXCEPT ![v] = NoSync]
        /\ UNCHANGED <<row, isSaved, shown, form, meant, undone>>
    BY <1>5 DEF LoseDetails
  <2>2. /\ late' \in [Views -> SUBSET Fields] /\ sync' \in [Views -> Syncs]
        /\ \A w \in Views : sync'[w] = sync[w] \/ (w = v /\ sync'[w].pc = "none")
    BY <2>1, FieldTypes DEF DetailsInv, DetailsTypeOK
  <2>3. SyncsKnow'
    BY <2>1, <2>2 DEF DetailsInv, SyncsKnow
  <2>4. ViewIsExplained'
    BY <2>1, <2>2 DEF DetailsInv, DetailsTypeOK, ViewIsExplained
  <2>5. QED
    BY <2>1, <2>2, <2>3, <2>4 DEF DetailsInv, DetailsTypeOK, FormsKnow, EditsAreKept
<1>6. QED
  BY <1>1, <1>2, <1>3, <1>4, <1>5
-----------------------------------------------------------------------------
(***************************************************************************)
(* Private notes                                                           *)
(***************************************************************************)
\* A stored note, with all that was read of an older one marked as such.
LEMMA StoreNote ==
  ASSUME ContactAssumption, NotesInv, NEW v \in Views, NEW heard \in BOOLEAN,
         Store(v, heard), UNCHANGED userOf
  PROVE  /\ note' \in [Users -> Values \union {NoNote}]
         /\ base' \in [Views -> [loaded : BOOLEAN, content : Values]]
         /\ fetch' \in [Views -> SUBSET Notes] /\ behind' \subseteq Views
         /\ FetchesKnow' /\ NoteIsExplained'
<1> DEFINE others == {w \in Views \ {v} : userOf[w] = userOf[v]}
           content == saving[v].content
<1>1. content \in Values /\ content # NoNote /\ userOf[v] \in Users
  BY DEF NotesInv, NotesTypeOK, ContactAssumption, Values
<1>2. /\ note' = [note EXCEPT ![userOf[v]] = content]
      /\ base' = IF heard THEN [base EXCEPT ![v].content = content] ELSE base
      /\ fetch' = [w \in Views |-> IF w \in others \union {v}
                     THEN {[r EXCEPT !.old = TRUE] : r \in fetch[w]} ELSE fetch[w]]
      /\ behind' = (behind \ {v}) \union others \union (IF heard THEN {} ELSE {v})
  BY DEF Store
<1>3. /\ others \subseteq Views /\ v \notin others
      /\ \A w \in Views : w = v \/ w \in others \/ userOf[w] # userOf[v]
  OBVIOUS
<1> HIDE DEF others, content
<1>4. note' \in [Users -> Values \union {NoNote}] /\ note'[userOf[v]] = content
  BY <1>1, <1>2 DEF NotesInv, NotesTypeOK
<1>5. /\ base' \in [Views -> [loaded : BOOLEAN, content : Values]]
      /\ heard => base'[v].content = content
      /\ \A w \in Views \ {v} : base'[w] = base[w]
  BY <1>1, <1>2 DEF NotesInv, NotesTypeOK
<1>6. ASSUME NEW r \in Notes PROVE [r EXCEPT !.old = TRUE] \in Notes /\ [r EXCEPT !.old = TRUE].old
  BY DEF Notes
<1>7. \A w \in Views :
        /\ fetch[w] \subseteq Notes
        /\ w \in others \union {v} => \A r \in fetch'[w] : r \in Notes /\ r.old
        /\ w \notin others \union {v} => fetch'[w] = fetch[w]
  <2> SUFFICES ASSUME NEW w \in Views
               PROVE  /\ fetch[w] \subseteq Notes
                      /\ w \in others \union {v} => \A r \in fetch'[w] : r \in Notes /\ r.old
                      /\ w \notin others \union {v} => fetch'[w] = fetch[w]
    OBVIOUS
  <2>1. fetch[w] \subseteq Notes
    BY DEF NotesInv, NotesTypeOK
  <2>2. CASE w \in others \union {v}
    <3>1. fetch'[w] = {[r EXCEPT !.old = TRUE] : r \in fetch[w]}
      BY <1>2, <2>2
    <3>2. ASSUME NEW s \in fetch'[w] PROVE s \in Notes /\ s.old
      <4>1. PICK r \in fetch[w] : s = [r EXCEPT !.old = TRUE]
        BY <3>1, <3>2
      <4>2. QED
        BY <1>6, <2>1, <4>1
    <3>3. QED
      BY <2>1, <2>2, <3>2
  <2>3. CASE w \notin others \union {v}
    BY <1>2, <2>1, <2>3
  <2>4. QED
    BY <2>2, <2>3
<1>8. fetch' \in [Views -> SUBSET Notes]
  <2>1. ASSUME NEW w \in Views PROVE fetch'[w] \in SUBSET Notes
    <3>1. CASE w \in others \union {v}
      BY <1>7, <3>1
    <3>2. CASE w \notin others \union {v}
      BY <1>7, <3>2
    <3>3. QED
      BY <3>1, <3>2
  <2> DEFINE F(w) == IF w \in others \union {v}
                       THEN {[r EXCEPT !.old = TRUE] : r \in fetch[w]} ELSE fetch[w]
  <2>2. fetch' = [w \in Views |-> F(w)]
    BY <1>2
  <2> HIDE DEF F
  <2>3. QED
    BY <2>1, <2>2
<1>9. \A w \in Views : userOf[w] # userOf[v] => note'[userOf[w]] = note[userOf[w]]
  BY <1>2 DEF NotesInv, NotesTypeOK
<1>10. FetchesKnow'
  <2> SUFFICES ASSUME NEW w \in Views, NEW r \in Notes, r \in fetch'[w], ~r.old
               PROVE  r.content = Content(note[userOf[w]])'
    BY DEF FetchesKnow
  <2>1. w \notin others \union {v} /\ r \in fetch[w]
    BY <1>7
  <2>2. userOf[w] # userOf[v] /\ note'[userOf[w]] = note[userOf[w]]
    BY <1>3, <1>9, <2>1
  <2>3. QED
    BY <2>1, <2>2 DEF NotesInv, FetchesKnow, Content
<1>11. NoteIsExplained'
  <2> SUFFICES ASSUME NEW w \in Views, base'[w].loaded, w \notin behind'
               PROVE  base'[w].content = Content(note[userOf[w]])'
    BY DEF NoteIsExplained
  <2>1. CASE w = v
    <3>1. heard /\ base'[w].content = content
      BY <1>2, <1>5, <2>1
    <3>2. QED
      BY <1>1, <1>4, <2>1, <3>1 DEF Content
  <2>2. CASE w # v
    <3>1. w \notin others /\ w \notin behind
      BY <1>2, <2>2
    <3>2. userOf[w] # userOf[v] /\ base'[w] = base[w] /\ note'[userOf[w]] = note[userOf[w]]
      BY <1>3, <1>5, <1>9, <2>2, <3>1
    <3>3. QED
      BY <3>1, <3>2 DEF NotesInv, NoteIsExplained, Content
  <2>3. QED
    BY <2>1, <2>2
<1>12. behind' \subseteq Views
  BY <1>2, <1>3 DEF NotesInv, NotesTypeOK
<1>13. QED
  BY <1>4, <1>5, <1>8, <1>10, <1>11, <1>12

\* A note is asked for, shown, typed, stored or rejected, or an answer is lost.
LEMMA NoteSteps ==
  ASSUME ContactAssumption, NotesInv, NEW v \in Views,
         \/ FetchNote(v) \/ ShowNote(v) \/ NoteUnread(v)
         \/ \E heard \in BOOLEAN : SaveNote(v, heard)
         \/ \E c \in Values : StartSaveNote(v, c)
  PROVE  NotesInv'
<1>1. CASE FetchNote(v)
  <2> DEFINE r == [content |-> Content(note[userOf[v]]), old |-> FALSE]
  <2>1. /\ fetch' = [fetch EXCEPT ![v] = @ \union {r}]
        /\ UNCHANGED <<note, base, saving, behind, userOf>>
    BY <1>1 DEF FetchNote
  <2>2. r \in Notes /\ r.content = Content(note[userOf[v]])
    <3>1. userOf[v] \in Users /\ note[userOf[v]] \in Values \union {NoNote}
      BY DEF NotesInv, NotesTypeOK
    <3>2. Content(note[userOf[v]]) \in Values
      BY <3>1, FieldTypes DEF Content
    <3>3. QED
      BY <3>2 DEF Notes
  <2> HIDE DEF r
  <2>3. fetch' \in [Views -> SUBSET Notes] /\ FetchesKnow'
    BY <2>1, <2>2 DEF NotesInv, NotesTypeOK, FetchesKnow, Content
  <2>4. QED
    BY <2>1, <2>3 DEF NotesInv, NotesTypeOK, NoteIsExplained, Content
<1>2. CASE ShowNote(v)
  <2>1. PICK r \in fetch[v] :
          /\ base' = [base EXCEPT ![v] = [loaded |-> TRUE, content |-> r.content]]
          /\ fetch' = [fetch EXCEPT ![v] = @ \ {r}]
          /\ behind' = IF r.old THEN behind \union {v} ELSE behind \ {v}
          /\ UNCHANGED <<note, saving, userOf>>
    BY <1>2 DEF ShowNote
  <2>2. r \in Notes /\ r.content \in Values /\ (~r.old => r.content = Content(note[userOf[v]]))
    BY DEF NotesInv, NotesTypeOK, FetchesKnow, Notes
  <2>3. /\ base' \in [Views -> [loaded : BOOLEAN, content : Values]]
        /\ base'[v].content = r.content /\ \A w \in Views \ {v} : base'[w] = base[w]
    BY <2>1, <2>2 DEF NotesInv, NotesTypeOK
  <2>4. fetch' \in [Views -> SUBSET Notes] /\ FetchesKnow'
    BY <2>1 DEF NotesInv, NotesTypeOK, FetchesKnow, Content
  <2>5. NoteIsExplained'
    BY <2>1, <2>2, <2>3 DEF NotesInv, NoteIsExplained, Content
  <2>6. QED
    BY <2>1, <2>3, <2>4, <2>5 DEF NotesInv, NotesTypeOK
<1>3. CASE NoteUnread(v)
  <2>1. PICK r \in fetch[v] : fetch' = [fetch EXCEPT ![v] = @ \ {r}]
    BY <1>3 DEF NoteUnread
  <2>2. /\ base' = [base EXCEPT ![v].loaded = TRUE] /\ behind' = behind \union {v}
        /\ UNCHANGED <<note, saving, userOf>>
    BY <1>3 DEF NoteUnread
  <2>3. /\ base' \in [Views -> [loaded : BOOLEAN, content : Values]]
        /\ \A w \in Views \ {v} : base'[w] = base[w]
    BY <2>2 DEF NotesInv, NotesTypeOK
  <2>4. fetch' \in [Views -> SUBSET Notes] /\ FetchesKnow'
    BY <2>1, <2>2 DEF NotesInv, NotesTypeOK, FetchesKnow, Content
  <2>5. NoteIsExplained'
    BY <2>2, <2>3 DEF NotesInv, NoteIsExplained, Content
  <2>6. QED
    BY <2>2, <2>3, <2>4, <2>5 DEF NotesInv, NotesTypeOK
<1>4. ASSUME NEW heard \in BOOLEAN, SaveNote(v, heard) PROVE NotesInv'
  <2>1. /\ saving' = [saving EXCEPT ![v] = NoSave] /\ UNCHANGED userOf
        /\ Rejected(v) \/ Store(v, heard)
    BY <1>4 DEF SaveNote
  <2>2. saving' \in [Views -> [pc : {"none", "create", "update"}, content : Values]]
    BY <2>1, FieldTypes DEF NotesInv, NotesTypeOK, NoSave
  <2>3. CASE Rejected(v)
    BY <2>1, <2>2, <2>3
       DEF Rejected, NotesInv, NotesTypeOK, FetchesKnow, NoteIsExplained, Content
  <2>4. CASE Store(v, heard)
    BY <2>1, <2>2, <2>4, StoreNote DEF NotesInv, NotesTypeOK
  <2>5. QED
    BY <2>1, <2>3, <2>4
<1>5. ASSUME NEW c \in Values, StartSaveNote(v, c) PROVE NotesInv'
  <2> DEFINE new == [pc |-> IF note[userOf[v]] = NoNote THEN "create" ELSE "update", content |-> c]
  <2>1. saving' = [saving EXCEPT ![v] = new] /\ UNCHANGED <<note, base, fetch, behind, userOf>>
    BY <1>5 DEF StartSaveNote
  <2>2. new \in [pc : {"none", "create", "update"}, content : Values]
    OBVIOUS
  <2> HIDE DEF new
  <2>3. saving' \in [Views -> [pc : {"none", "create", "update"}, content : Values]]
    BY <2>1, <2>2 DEF NotesInv, NotesTypeOK
  <2>4. QED
    BY <2>1, <2>3 DEF NotesInv, NotesTypeOK, FetchesKnow, NoteIsExplained, Content
<1>6. QED
  BY <1>1, <1>2, <1>3, <1>4, <1>5
-----------------------------------------------------------------------------
\* Steps about the details leave the notes alone, and steps about the notes the
\* details.
LEMMA Apart ==
  /\ DetailsInv /\ UNCHANGED detailVars => DetailsInv'
  /\ NotesInv /\ UNCHANGED <<noteVars, userOf>> => NotesInv'
<1>1. ASSUME DetailsInv, UNCHANGED detailVars PROVE DetailsInv'
  BY <1>1 DEF detailVars, DetailsInv, DetailsTypeOK, FormsKnow, SyncsKnow, EditsAreKept,
              ViewIsExplained
<1>2. ASSUME NotesInv, UNCHANGED <<noteVars, userOf>> PROVE NotesInv'
  BY <1>2 DEF noteVars, NotesInv, NotesTypeOK, FetchesKnow, NoteIsExplained, Content
<1>3. QED
  BY <1>1, <1>2

LEMMA InitContact == ContactInit => ContactInv
<1> SUFFICES ASSUME ContactInit PROVE ContactInv
  OBVIOUS
<1>1. DetailsTypeOK /\ NotesTypeOK
  <2>1. row \in Details /\ meant = row
    BY FieldTypes DEF ContactInit, Details
  <2>2. /\ shown = [v \in Views |-> row] /\ late = [v \in Views |-> {}]
        /\ form = [v \in Views |-> Closed] /\ sync = [v \in Views |-> NoSync]
        /\ isSaved = FALSE /\ undone = {} /\ reload = {}
    BY DEF ContactInit
  <2>3. DetailsTypeOK
    BY <2>1, <2>2, FieldTypes DEF DetailsTypeOK
  <2>4. [loaded |-> FALSE, content |-> Blank] \in [loaded : BOOLEAN, content : Values]
    BY FieldTypes
  <2>5. NoSave \in [pc : {"none", "create", "update"}, content : Values]
    BY FieldTypes DEF NoSave
  <2>6. /\ base = [v \in Views |-> [loaded |-> FALSE, content |-> Blank]]
        /\ fetch = [v \in Views |-> {}] /\ saving = [v \in Views |-> NoSave]
        /\ behind = {} /\ userOf \in [Views -> Users] /\ note = [u \in Users |-> NoNote]
    BY DEF ContactInit
  <2>7. NotesTypeOK
    BY <2>4, <2>5, <2>6 DEF NotesTypeOK
  <2>8. QED
    BY <2>3, <2>7
<1>2. FormsKnow /\ SyncsKnow
  BY FieldTypes DEF ContactInit, FormsKnow, SyncsKnow
<1>3. EditsAreKept /\ ViewIsExplained
  BY DEF ContactInit, EditsAreKept, ViewIsExplained
<1>4. FetchesKnow /\ NoteIsExplained
  BY DEF ContactInit, FetchesKnow, NoteIsExplained
<1>5. QED
  BY <1>1, <1>2, <1>3, <1>4 DEF ContactInv, DetailsInv, NotesInv

\* In every reachable state every copy of the details and of the notes, in a form,
\* a refresh, a view or an answer, is the stored one or known to be older.
THEOREM ContactInvariance == ContactSpec => []ContactInv
<1>1. ContactInv /\ [ContactNext]_contactVars => ContactInv'
  <2> SUFFICES ASSUME ContactInv, [ContactNext]_contactVars PROVE ContactInv'
    OBVIOUS
  <2>1. ASSUME NEW p \in Profiles, MessageArrives(p) PROVE ContactInv'
    BY <2>1, MessageDetails, Apart DEF ContactInv, MessageArrives
  <2>2. ASSUME NEW v \in Views,
               Load(v) \/ ToggleEdit(v) \/ StartSync(v) \/ ShowProfile(v) \/ LoseDetails(v)
        PROVE  ContactInv'
    <3>1. UNCHANGED <<noteVars, userOf>>
      BY <2>2 DEF Load, ToggleEdit, StartSync, ShowProfile, LoseDetails
    <3>2. QED
      BY <2>2, <3>1, ViewDetails, Apart DEF ContactInv
  <2>3. ASSUME NEW v \in Views, NEW typed \in [Typed -> Values], SaveContact(v, typed)
        PROVE  ContactInv'
    BY <2>3, SaveDetails, Apart DEF ContactInv, SaveContact
  <2>4. ASSUME NEW v \in Views, NEW p \in Profiles, WriteProfile(v, p) PROVE ContactInv'
    BY <2>4, ProfileDetails, Apart DEF ContactInv, WriteProfile
  <2>5. ASSUME NEW v \in Views,
               \/ FetchNote(v) \/ ShowNote(v) \/ NoteUnread(v)
               \/ \E heard \in BOOLEAN : SaveNote(v, heard)
               \/ \E c \in Values : StartSaveNote(v, c)
        PROVE  ContactInv'
    <3>1. UNCHANGED detailVars
      BY <2>5 DEF FetchNote, ShowNote, NoteUnread, SaveNote, StartSaveNote
    <3>2. QED
      BY <2>5, <3>1, ContactAssumption, NoteSteps, Apart DEF ContactInv
  <2>6. CASE UNCHANGED contactVars
    BY <2>6, Apart DEF contactVars, ContactInv
  <2>7. QED
    BY <2>1, <2>2, <2>3, <2>4, <2>5, <2>6 DEF ContactNext
<1>2. QED
  BY <1>1, InitContact, PTL DEF ContactSpec

\* The customer, the views, their forms and refreshes, the notes and the answers have
\* their types in every reachable state.
THEOREM ContactTypeCorrect == ContactSpec => [](DetailsTypeOK /\ NotesTypeOK)
<1>1. ContactInv => DetailsTypeOK /\ NotesTypeOK
  BY DEF ContactInv, DetailsInv, NotesInv
<1>2. QED
  BY <1>1, ContactInvariance, PTL

\* What was last typed or received for a field stays stored until a form or a refresh
\* writes back what it had read before; for any number of views, in any order.
THEOREM EditsKept == ContactSpec => []EditsAreKept
<1>1. ContactInv => EditsAreKept
  BY DEF ContactInv, DetailsInv
<1>2. QED
  BY <1>1, ContactInvariance, PTL

\* A view with no request under way shows the stored details but for fields that
\* others changed since, or whose answer was lost.
THEOREM ViewExplained == ContactSpec => []ViewIsExplained
<1>1. ContactInv => ViewIsExplained
  BY DEF ContactInv, DetailsInv
<1>2. QED
  BY <1>1, ContactInvariance, PTL

\* A note that a view has loaded or saved is the stored one unless another view saved
\* it, it was saved while it was loaded, or an answer was lost.
THEOREM NoteExplained == ContactSpec => []NoteIsExplained
<1>1. ContactInv => NoteIsExplained
  BY DEF ContactInv, NotesInv
<1>2. QED
  BY <1>1, ContactInvariance, PTL
=============================================================================
