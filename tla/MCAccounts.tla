----------------------------- MODULE MCAccounts -----------------------------
(***************************************************************************)
(* An instance of Accounts for TLC: one person whose address is typed in   *)
(* two ways, and the super admin.                                          *)
(***************************************************************************)
EXTENDS Accounts, TLC

CONSTANTS ann, Ann, o1, o2, u1, u2, u3, u4, b1, b2

MCEmails == {ann, Ann}
MClower == [e \in MCEmails |-> ann]
Alike == Permutations(Orgs) \union Permutations(Users) \union Permutations(Browsers)
=============================================================================
