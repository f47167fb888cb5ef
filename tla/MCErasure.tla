----------------------------- MODULE MCErasure -----------------------------
(***************************************************************************)
(* Two organizations: A has a row in every table, B the few that an erasure *)
(* of A's must leave alone.                                                *)
(***************************************************************************)
EXTENDS Erasure, TLC

OfA ==
  [A |-> "Organization", keeper |-> "User", agent |-> "User", sales |-> "Department",
   joe |-> "Customer", chat |-> "Conversation", hello |-> "Message", tag |-> "Tag",
   chatTag |-> "ConversationTag", joeTag |-> "CustomerTag", chatNote |-> "ConversationNote",
   joeNote |-> "CustomerNote", saved |-> "SavedReply", auto |-> "AutoReply",
   rules |-> "RoutingSettings", page |-> "SocialAccount", log |-> "AuditLog",
   assigned |-> "assignedTo", member |-> "DepartmentToUser", code |-> "AuthCode"]
OfB ==
  [B |-> "Organization", ann |-> "Customer", codeB |-> "AuthCode", talk |-> "Conversation",
   hi |-> "Message"]

MCRow == DOMAIN OfA \union DOMAIN OfB
MCTable == OfA @@ OfB
MCTenant == [r \in MCRow |-> IF r \in DOMAIN OfA THEN "A" ELSE "B"]
MCBy == [r \in MCRow |-> "agent"]

More ==
  [chat |-> {"joe"}, hello |-> {"chat"}, chatTag |-> {"chat", "tag"}, joeTag |-> {"joe", "tag"},
   chatNote |-> {"chat", "agent"}, joeNote |-> {"joe", "agent"}, talk |-> {"ann"},
   hi |-> {"talk"}, assigned |-> {"chat", "agent"}, member |-> {"sales", "agent"}]
Unowned == {"A", "B", "code", "codeB", "assigned", "member"}
MCRefs ==
  [r \in MCRow |-> (IF r \in Unowned THEN {} ELSE {MCTenant[r]}) \union
                   (IF r \in DOMAIN More THEN More[r] ELSE {})]

\* Everything is there, or a message and the customer's tag are missing.
MCDatabases == {MCRow, MCRow \ {"hello", "joeTag"}}

Alike == Permutations(Actor)
=============================================================================
