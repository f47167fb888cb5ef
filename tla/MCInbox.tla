------------------------------- MODULE MCInbox -------------------------------
(***************************************************************************)
(* Small instances of Inbox for TLC.                                       *)
(***************************************************************************)
EXTENDS Inbox, TLC

CONSTANTS m1, m2, m3, k1, k2

\* m1 and m2 come from one customer, m3 from another.
MCSenderOf == [m \in Mids |-> IF m = m3 THEN k2 ELSE k1]

\* m2 reads as a number (a rating, a menu choice), the others do not.
MCTextOf == [m \in Mids |-> IF m = m2 THEN "number" ELSE "words"]
AllNumbers == [m \in Mids |-> "number"]

HandlerSymmetry == Permutations(Handlers)

OneByOne == {<<m>> : m \in Mids}
PairAndSecond == {<<m1, m2>>, <<m2>>}
=============================================================================
