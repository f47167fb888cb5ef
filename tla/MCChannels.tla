----------------------------- MODULE MCChannels -----------------------------
(***************************************************************************)
(* An instance of Channels for TLC: two pages, one of them with an         *)
(* Instagram account.                                                      *)
(***************************************************************************)
EXTENDS Channels, TLC

CONSTANTS p1, p2, i1

MClinked == [i \in {i1} |-> p1]
Alike == Permutations(Orgs) \union Permutations(Accounts) \union Permutations(Tasks)
=============================================================================
