------------------------------ MODULE Delivery ------------------------------
(***************************************************************************)
(* What staff may rely on when they read the delivery state of a reply:    *)
(* it is PENDING until it is settled, it is SENT only after the Graph API  *)
(* has accepted it, an outcome is never revised, and nothing is submitted  *)
(* to the customer once the outcome is known.  Once the queue has given a  *)
(* job to a second worker while the first was still at it, an outcome may  *)
(* be revised, and a settled reply submitted, but still SENT is true and   *)
(* a deleted reply stays deleted.                                          *)
(***************************************************************************)
EXTENDS Naturals

CONSTANT Msgs \* the replies staff write

VARIABLES
  status,   \* Message.status; "none" before the row is written, "deleted" after
  accepted, \* how often the Graph API has accepted each reply
  shared    \* two workers have had one job at a time

vars == <<status, accepted, shared>>

Init ==
  /\ status = [m \in Msgs |-> "none"]
  /\ accepted = [m \in Msgs |-> 0]
  /\ shared = FALSE

Save(m) ==
  /\ status[m] = "none"
  /\ status' = [status EXCEPT ![m] = "PENDING"]
  /\ UNCHANGED <<accepted, shared>>

Accept(m) ==
  /\ status[m] \in {"PENDING", "deleted"} \/ (shared /\ status[m] # "none")
  /\ accepted' = [accepted EXCEPT ![m] = @ + 1]
  /\ UNCHANGED <<status, shared>>

\* The outcome; once jobs are shared, also another one, or a new attempt.
Settle(m, outcome) ==
  /\ \/ status[m] = "PENDING" /\ outcome # "PENDING"
     \/ shared /\ status[m] \notin {"none", "deleted"}
  /\ outcome = "SENT" => accepted[m] > 0
  /\ status' = [status EXCEPT ![m] = outcome]
  /\ UNCHANGED <<accepted, shared>>

\* The conversation is deleted, and the reply with it.
Remove(m) ==
  /\ status[m] # "none"
  /\ status' = [status EXCEPT ![m] = "deleted"]
  /\ UNCHANGED <<accepted, shared>>

Share ==
  /\ shared' = TRUE
  /\ UNCHANGED <<status, accepted>>

Next ==
  \/ Share
  \/ \E m \in Msgs :
       \/ Save(m) \/ Accept(m) \/ Remove(m)
       \/ \E outcome \in {"PENDING", "SENT", "FAILED"} : Settle(m, outcome)

Spec == Init /\ [][Next]_vars
=============================================================================
