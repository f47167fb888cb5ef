------------------------------ MODULE MCRouting ------------------------------
(***************************************************************************)
(* Small instances of Routing for TLC: an admin and two agents.            *)
(***************************************************************************)
EXTENDS Routing, TLC

CONSTANTS boss, ann, bob

MCUsers == {boss, ann, bob}
RoutingSymmetry == Permutations({ann, bob}) \union Permutations(Convs)
=============================================================================
