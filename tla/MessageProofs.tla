--------------------------- MODULE MessageProofs ---------------------------
(***************************************************************************)
(* Theorems about the messages of the staff: OutboundDelivery, which       *)
(* delivers them, for every set of messages and workers and every number   *)
(* of faults; and Thread, the page they are written on, for every set of   *)
(* messages and notes, every number of requests and every order of the     *)
(* answers and events.                                                     *)
(***************************************************************************)
EXTENDS OutboundDelivery, Thread, FiniteSetTheorems, SequenceTheorems, TLAPS

\* Requests and jobs never work on the same message, and whoever is about to
\* write SENT has seen the Graph API accept it.
RequestInv ==
  \A m \in Msgs :
    /\ status[m] = "none" => req[m] = "new"
    /\ req[m] \in {"respond", "send", "sent", "failing"} =>
         m \notin Queued /\ status[m] \in {"PENDING", "deleted"}
    /\ req[m] = "sent" => accepted[m] > 0
    /\ jobs[m].state # "none" => m \in Queued /\ status[m] # "none"

WorkerInv ==
  \A w \in Workers :
    ws[w].pc # "idle" =>
      /\ ws[w].msg \in Queued /\ status[ws[w].msg] # "none"
      /\ ws[w].pc = "sent" => accepted[ws[w].msg] > 0

Inv == TypeOK /\ RequestInv /\ WorkerInv /\ SentWasAccepted

\* Before anything is written no request or job is bound to a message.
LEMMA InitInv == Init => Inv
BY DeliveryAssumption
   DEF Init, Inv, TypeOK, RequestInv, WorkerInv, SentWasAccepted, Statuses,
       JobStates, Job, Worker, Idle

\* The statements of createMessage, and deleteConversation.
LEMMA RequestKeeps ==
  ASSUME Inv, NEW m \in Msgs,
         Save(m) \/ RequestStep(m) \/ RequestCrash(m) \/ Delete(m)
  PROVE  Inv'
<1> USE DeliveryAssumption
<1>1. TypeOK'
  <2>1. faults' \in 0..MaxFaults /\ UNCHANGED <<ws, retryCount, overlaps>>
    BY DEF Inv, TypeOK, Save, RequestStep, SetFirstResponse, Send, MarkSent,
           MarkFailed, RequestCrash, Delete, Fault, rows
  <2>2. status' \in [Msgs -> Statuses]
    BY DEF Inv, TypeOK, Save, RequestStep, SetFirstResponse, Send, MarkSent,
           MarkFailed, RequestCrash, Delete, SetStatus, rows, Statuses
  <2>3. req' \in [Msgs -> {"new", "respond", "send", "sent", "failing", "done"}]
    BY DEF Inv, TypeOK, Save, RequestStep, SetFirstResponse, Send, MarkSent,
           MarkFailed, RequestCrash, Delete, ReqGoto
  <2>4. accepted' \in [Msgs -> Nat]
    BY DEF Inv, TypeOK, Save, RequestStep, SetFirstResponse, Send, MarkSent,
           MarkFailed, RequestCrash, Delete, Accepted
  <2>5. jobs' \in [Msgs -> Job]
    BY DEF Inv, TypeOK, Save, RequestStep, SetFirstResponse, Send, MarkSent,
           MarkFailed, RequestCrash, Delete, SetJob, Job, JobStates
  <2>6. QED
    BY <2>1, <2>2, <2>3, <2>4, <2>5 DEF Inv, TypeOK
<1>2. \A n \in Msgs : /\ accepted'[n] \in Nat /\ accepted'[n] >= accepted[n]
                      /\ status'[n] = "none" => status[n] = "none"
  <2>1. \A n \in Msgs : accepted'[n] \in Nat /\ accepted'[n] >= accepted[n]
    BY DEF Inv, TypeOK, Save, RequestStep, SetFirstResponse, Send, MarkSent,
           MarkFailed, RequestCrash, Delete, Accepted
  <2>2. \A n \in Msgs : status'[n] = "none" => status[n] = "none"
    BY DEF Inv, TypeOK, Save, RequestStep, SetFirstResponse, Send, MarkSent,
           MarkFailed, RequestCrash, Delete, SetStatus, rows
  <2>3. QED
    BY <2>1, <2>2
<1>3. RequestInv'
  BY <1>2 DEF Inv, TypeOK, RequestInv, Save, RequestStep, SetFirstResponse, Send,
         MarkSent, MarkFailed, RequestCrash, Delete, SetStatus, SetJob, ReqGoto,
         Accepted, rows, JobStates, Job
<1>4. WorkerInv'
  BY <1>2 DEF Inv, WorkerInv, TypeOK, Save, RequestStep, SetFirstResponse, Send,
         MarkSent, MarkFailed, RequestCrash, Delete
<1>5. SentWasAccepted'
  BY <1>2 DEF Inv, RequestInv, SentWasAccepted, TypeOK, Save, RequestStep,
         SetFirstResponse, Send, MarkSent, MarkFailed, RequestCrash, Delete,
         SetStatus, rows
<1>6. QED
  BY <1>1, <1>3, <1>4, <1>5 DEF Inv

\* The statements of processOutboundJob, and the end of the job.
LEMMA WorkerKeeps ==
  ASSUME Inv, NEW w \in Workers, WorkerStep(w)
  PROVE  Inv'
<1> USE DeliveryAssumption
<1> DEFINE m == ws[w].msg
<1>1. /\ m \in Queued /\ m \in Msgs /\ status[m] # "none"
      /\ ws[w].pc # "idle" /\ ws \in [Workers -> Worker] /\ UNCHANGED req
  BY DEF Inv, WorkerInv, TypeOK, WorkerStep, JobCheck, JobSend, JobMarkSent,
         JobMarkFailed, JobReturns, JobThrows, Finish
<1>2. \A n \in Msgs : accepted'[n] \in Nat /\ accepted'[n] >= accepted[n]
  BY <1>1 DEF Inv, TypeOK, WorkerStep, JobCheck, JobSend, JobMarkSent,
              JobMarkFailed, JobReturns, JobThrows, Finish, Accepted
<1>3. /\ status' \in [Msgs -> Statuses]
      /\ \A n \in Msgs : n # m => status'[n] = status[n]
      /\ status'[m] # "none"
      /\ status'[m] = "SENT" => status[m] = "SENT" \/ ws[w].pc = "sent"
  BY <1>1 DEF Inv, TypeOK, WorkerStep, JobCheck, JobSend, JobMarkSent,
              JobMarkFailed, JobReturns, JobThrows, Finish, SetStatus, rows,
              Statuses, RetryLimit
<1>4. CASE JobCheck(w) \/ JobSend(w) \/ JobMarkSent(w) \/ JobMarkFailed(w)
  <2>1. \/ ws' = [ws EXCEPT ![w] =
                    [pc |-> "send", msg |-> m, retry |-> retryCount[m]]]
        \/ Goto(w, "sent") /\ Accepted(m)
        \/ Goto(w, "failing") \/ Goto(w, "return") \/ Goto(w, "throw")
    BY <1>4 DEF JobCheck, JobSend, JobMarkSent, JobMarkFailed
  <2>2. ws' \in [Workers -> Worker] /\ WorkerInv'
    <3>1. CASE ws' = [ws EXCEPT ![w] =
                        [pc |-> "send", msg |-> m, retry |-> retryCount[m]]]
      BY <1>1, <1>2, <1>3, <3>1 DEF Inv, TypeOK, WorkerInv, Worker
    <3>2. CASE Goto(w, "sent") /\ Accepted(m)
      BY <1>1, <1>2, <1>3, <3>2 DEF Inv, TypeOK, WorkerInv, Worker, Goto, Accepted
    <3>3. CASE Goto(w, "failing") \/ Goto(w, "return") \/ Goto(w, "throw")
      BY <1>1, <1>2, <1>3, <3>3 DEF Inv, TypeOK, WorkerInv, Worker, Goto
    <3>4. QED
      BY <2>1, <3>1, <3>2, <3>3
  <2>3. retryCount' \in [Msgs -> Nat] /\ UNCHANGED jobs
    BY <1>1, <1>4 DEF Inv, TypeOK, JobCheck, JobSend, JobMarkSent, JobMarkFailed,
                      rows, Worker
  <2>4. /\ accepted' \in [Msgs -> Nat]
        /\ faults' \in 0..MaxFaults /\ overlaps' \in 0..MaxOverlaps
    BY <1>1, <1>4 DEF Inv, TypeOK, JobCheck, JobSend, JobMarkSent, JobMarkFailed,
                      Accepted, Fault
  <2>5. TypeOK' /\ RequestInv'
    BY <1>1, <1>2, <1>3, <2>2, <2>3, <2>4 DEF Inv, TypeOK, RequestInv
  <2>6. QED
    BY <1>1, <1>2, <1>3, <2>2, <2>5 DEF Inv, WorkerInv, SentWasAccepted, TypeOK
<1>5. CASE JobReturns(w) \/ JobThrows(w)
  <2>1. PICK state \in JobStates \ {"none"}, made \in Nat : Finish(w, state, made)
    BY <1>1, <1>5 DEF JobReturns, JobThrows, JobStates, Inv, TypeOK, Job
  <2>2. jobs' \in [Msgs -> Job] /\ \A n \in Msgs : n # m => jobs'[n] = jobs[n]
    BY <1>1, <2>1 DEF Inv, TypeOK, Finish, SetJob, Job
  <2>3. ws' \in [Workers -> Worker] /\ WorkerInv'
    BY <1>1, <2>1 DEF Inv, TypeOK, WorkerInv, Finish, Worker, Idle, rows
  <2>4. UNCHANGED <<rows, req, accepted, faults, overlaps>>
    BY <2>1 DEF Finish
  <2>5. TypeOK' /\ RequestInv' /\ SentWasAccepted'
    BY <1>1, <2>2, <2>3, <2>4 DEF Inv, TypeOK, RequestInv, SentWasAccepted, rows
  <2>6. QED
    BY <2>3, <2>5 DEF Inv
<1>6. QED
  BY <1>4, <1>5 DEF WorkerStep

\* What BullMQ does with jobs and workers.
LEMMA QueueKeeps ==
  ASSUME Inv,
         \/ \E w \in Workers : Take(w) \/ WorkerCrash(w)
         \/ \E m \in Msgs : Requeue(m)
  PROVE  Inv'
<1> USE DeliveryAssumption
<1>1. UNCHANGED <<rows, req, accepted>>
  BY DEF Take, WorkerCrash, Requeue
<1>2. CASE \E w \in Workers : Take(w)
  <2>1. PICK w \in Workers : Take(w)
    BY <1>2
  <2>2. PICK m \in Msgs :
          /\ jobs[m].state = "waiting"
          /\ SetJob(m, "active", jobs[m].made, jobs[m].stalled, w)
          /\ ws' = [ws EXCEPT ![w] = [pc |-> "check", msg |-> m, retry |-> 0]]
    BY <2>1 DEF Take
  <2>3. m \in Queued /\ status[m] # "none"
    BY <2>2 DEF Inv, RequestInv
  <2>4. TypeOK'
    BY <1>1, <2>1, <2>2 DEF Inv, TypeOK, Take, SetJob, rows, Worker, Job, JobStates
  <2>5. RequestInv' /\ WorkerInv' /\ SentWasAccepted'
    BY <1>1, <2>2, <2>3 DEF Inv, TypeOK, RequestInv, WorkerInv, SentWasAccepted,
                            SetJob, rows, Job
  <2>6. QED
    BY <2>4, <2>5 DEF Inv
<1>3. CASE \E w \in Workers : WorkerCrash(w)
  BY <1>1, <1>3 DEF Inv, TypeOK, RequestInv, WorkerInv, SentWasAccepted,
                    WorkerCrash, rows, Worker, Idle, Fault
<1>4. CASE \E m \in Msgs : Requeue(m)
  <2>1. PICK m \in Msgs : Requeue(m)
    BY <1>4
  <2>2. m \in Queued /\ status[m] # "none" /\ jobs[m] \in Job /\ UNCHANGED <<ws, faults>>
    BY <2>1 DEF Inv, TypeOK, RequestInv, Requeue
  <2>3. jobs' \in [Msgs -> Job]
    BY <2>1, <2>2 DEF Inv, TypeOK, Requeue, SetJob, Job, JobStates
  <2>4. overlaps' \in 0..MaxOverlaps
    BY <2>1 DEF Inv, TypeOK, Requeue
  <2>5. \A n \in Msgs : n # m => jobs'[n] = jobs[n]
    BY <2>1 DEF Inv, TypeOK, Requeue, SetJob
  <2>6. QED
    BY <1>1, <2>2, <2>3, <2>4, <2>5
       DEF Inv, TypeOK, RequestInv, WorkerInv, SentWasAccepted, rows
<1>5. QED
  BY <1>2, <1>3, <1>4

\* No step, fault or deletion breaks the invariant.
LEMMA InvStep == Inv /\ [Next]_vars => Inv'
<1> SUFFICES ASSUME Inv, [Next]_vars PROVE Inv'
  OBVIOUS
<1>1. CASE Next
  BY <1>1, RequestKeeps, WorkerKeeps, QueueKeeps DEF Next
<1>2. CASE UNCHANGED vars
  BY <1>2 DEF vars, rows, Inv, TypeOK, RequestInv, WorkerInv, SentWasAccepted
<1>3. QED
  BY <1>1, <1>2

\* In every reachable state requests and jobs work on different messages, and
\* nobody is about to write SENT before the Graph API has accepted.
THEOREM Invariance == Spec => []Inv
<1>1. QED
  BY InitInv, InvStep, PTL DEF Spec

\* Statuses, jobs, requests and workers have their types in every reachable state.
THEOREM TypeCorrect == Spec => []TypeOK
<1>1. Inv => TypeOK
  BY DEF Inv
<1>2. QED
  BY <1>1, Invariance, PTL

\* The status SENT of a staff reply is never wrong: the Graph API has accepted
\* the reply, whatever failed in between and whoever wrote the status.
THEOREM SentIsTrue == Spec => []SentWasAccepted
<1>1. Inv => SentWasAccepted
  BY DEF Inv
<1>2. QED
  BY <1>1, Invariance, PTL
-----------------------------------------------------------------------------
(***************************************************************************)
(* The delivery promise.  Until a job is shared the worker that has it     *)
(* holds its lock, so no two workers have the same message; hence nobody   *)
(* settles a message between a worker's check and its update.              *)
(***************************************************************************)
Exclusive ==
  \A w \in Workers :
    ws[w].pc # "idle" =>
      /\ jobs[ws[w].msg].state = "active"
      /\ jobs[ws[w].msg].owner = w
      /\ ws[w].pc \in {"send", "sent", "failing"} =>
           status[ws[w].msg] \in {"PENDING", "deleted"}

\* In a state of Exclusive every step of a worker is one Delivery allows.
LEMMA WorkerRefines ==
  ASSUME Inv, Exclusive, NEW w \in Workers, WorkerStep(w)
  PROVE  Exclusive' /\ [Promise!Next]_(Promise!vars)
<1> USE DeliveryAssumption
<1> DEFINE m == ws[w].msg
<1>1. m \in Msgs /\ ws[w].pc # "idle" /\ jobs[m].owner = w
  BY DEF Inv, WorkerInv, Exclusive, WorkerStep, JobCheck, JobSend, JobMarkSent,
         JobMarkFailed, JobReturns, JobThrows
<1>2. \A v \in Workers : v # w => /\ ws'[v] = ws[v]
                                  /\ ws[v].pc # "idle" => ws[v].msg # m
  BY <1>1 DEF Inv, TypeOK, Exclusive, WorkerStep, JobCheck, JobSend, JobMarkSent,
              JobMarkFailed, JobReturns, JobThrows, Finish, Goto
<1>3. \A n \in Msgs : n # m => status'[n] = status[n] /\ jobs'[n] = jobs[n]
  BY <1>1 DEF Inv, TypeOK, WorkerStep, JobCheck, JobSend, JobMarkSent,
              JobMarkFailed, JobReturns, JobThrows, SetStatus, Finish, SetJob, rows
<1>4. \/ ws'[w].pc = "idle"
      \/ /\ UNCHANGED jobs
         /\ ws'[w].msg = m
         /\ ws'[w].pc \in {"send", "sent", "failing"} =>
              UNCHANGED status /\ status[m] \in {"PENDING", "deleted"}
  BY <1>1 DEF Inv, TypeOK, Worker, Exclusive, WorkerStep, JobCheck, JobSend,
              JobMarkSent, JobMarkFailed, JobReturns, JobThrows, Finish, Goto,
              Idle, rows
<1>5. Exclusive'
  <2>1. ASSUME NEW v \in Workers, ws'[v].pc # "idle"
        PROVE  /\ jobs'[ws'[v].msg].state = "active"
               /\ jobs'[ws'[v].msg].owner = v
               /\ ws'[v].pc \in {"send", "sent", "failing"} =>
                    status'[ws'[v].msg] \in {"PENDING", "deleted"}
    <3>1. CASE v = w
      BY <1>1, <1>4, <2>1, <3>1 DEF Exclusive
    <3>2. CASE v # w
      BY <1>2, <1>3, <2>1, <3>2 DEF Exclusive, Inv, WorkerInv
    <3>3. QED
      BY <3>1, <3>2
  <2>2. QED
    BY <2>1 DEF Exclusive
<1>6. [Promise!Next]_(Promise!vars)
  <2>0. UNCHANGED overlaps
    BY DEF WorkerStep, JobCheck, JobSend, JobMarkSent, JobMarkFailed, JobReturns,
           JobThrows, Finish
  <2>1. CASE JobCheck(w) \/ JobReturns(w) \/ JobThrows(w)
    BY <2>0, <2>1 DEF JobCheck, JobReturns, JobThrows, Finish, rows, Promise!vars
  <2>2. CASE JobSend(w)
    BY <1>1, <2>0, <2>2 DEF JobSend, rows, Accepted, Exclusive, Promise!vars, Promise!Next,
                      Promise!Accept
  <2>3. CASE JobMarkSent(w)
    BY <1>1, <2>0, <2>3 DEF JobMarkSent, SetStatus, Exclusive, Inv, WorkerInv, TypeOK,
                      Promise!vars, Promise!Next, Promise!Settle
  <2>4. CASE JobMarkFailed(w)
    <3>1. UNCHANGED accepted
      BY <2>4 DEF JobMarkFailed
    <3>2. \/ UNCHANGED status
          \/ /\ status[m] = "PENDING"
             /\ status' = [status EXCEPT ![m] = "FAILED"]
      BY <1>1, <2>4 DEF JobMarkFailed, SetStatus, Exclusive, Inv, TypeOK, rows
    <3>3. QED
      BY <1>1, <2>0, <3>1, <3>2 DEF Promise!vars, Promise!Next, Promise!Settle
  <2>5. QED
    BY <2>1, <2>2, <2>3, <2>4 DEF WorkerStep
<1>7. QED
  BY <1>5, <1>6

\* Each statement of a request is a step of the promise or none.
LEMMA RequestRefines ==
  ASSUME Inv, NEW m \in Msgs,
         Save(m) \/ RequestStep(m) \/ RequestCrash(m) \/ Delete(m)
  PROVE  (Exclusive => Exclusive') /\ [Promise!Next]_(Promise!vars)
<1> USE DeliveryAssumption
<1>1. UNCHANGED <<ws, overlaps>>
  BY DEF Save, RequestStep, SetFirstResponse, Send, MarkSent, MarkFailed,
         RequestCrash, Delete
<1>2. \A n \in Msgs : n # m => status'[n] = status[n] /\ jobs'[n] = jobs[n]
  BY DEF Inv, TypeOK, Save, RequestStep, SetFirstResponse, Send, MarkSent,
         MarkFailed, RequestCrash, Delete, SetStatus, SetJob, rows
<1>3. \A w \in Workers : ws[w].pc # "idle" =>
        /\ ws[w].msg \in Queued /\ ws[w].msg \in Msgs
        /\ status[ws[w].msg] # "none"
  BY DEF Inv, WorkerInv, RequestInv
<1>4. CASE Save(m)
  <2>1. \A w \in Workers : ws[w].pc # "idle" => ws[w].msg # m
    BY <1>3, <1>4 DEF Save
  <2>2. Exclusive => Exclusive'
    BY <1>1, <1>2, <1>3, <2>1 DEF Exclusive
  <2>3. Promise!Save(m)
    BY <1>1, <1>4 DEF Save, SetStatus, Promise!Save
  <2>4. QED
    BY <2>2, <2>3 DEF Promise!Next
<1>5. CASE Delete(m)
  <2>1. status' = [status EXCEPT ![m] = "deleted"] /\ UNCHANGED <<jobs, accepted>>
    BY <1>5 DEF Delete, SetStatus
  <2>2. Exclusive => Exclusive'
    BY <1>1, <1>3, <2>1 DEF Exclusive, Inv, TypeOK
  <2>3. Promise!Remove(m)
    BY <1>1, <1>5, <2>1 DEF Delete, Promise!Remove
  <2>4. QED
    BY <2>2, <2>3 DEF Promise!Next
<1>6. CASE RequestStep(m) \/ RequestCrash(m)
  <2>1. UNCHANGED jobs /\ m \notin Queued /\ req[m] \notin {"new", "done"}
    BY <1>6 DEF RequestStep, SetFirstResponse, Send, MarkSent, MarkFailed,
                RequestCrash, Inv, RequestInv, TypeOK
  <2>2. Exclusive => Exclusive'
    BY <1>1, <1>2, <1>3, <2>1 DEF Exclusive
  <2>3. status[m] \in {"PENDING", "deleted"} /\ (req[m] = "sent" => accepted[m] > 0)
    BY <2>1 DEF Inv, RequestInv, TypeOK
  <2>4. CASE UNCHANGED <<status, accepted>>
    BY <1>1, <2>2, <2>4 DEF Promise!vars
  <2>5. CASE UNCHANGED status /\ Accepted(m)
    BY <1>1, <2>2, <2>3, <2>5 DEF Accepted, Promise!Next, Promise!Accept
  <2>6. CASE UNCHANGED accepted /\ status # status'
    BY <1>1, <1>6, <2>2, <2>3, <2>6 DEF RequestStep, SetFirstResponse, Send, MarkSent,
       MarkFailed, RequestCrash, SetStatus, rows, Promise!Next, Promise!Settle
  <2>7. QED
    BY <1>6, <2>2, <2>4, <2>5, <2>6 DEF RequestStep, SetFirstResponse, Send, MarkSent,
       MarkFailed, RequestCrash, rows
<1>7. QED
  BY <1>4, <1>5, <1>6

\* The queue itself changes nothing of what is promised but by sharing a job.
LEMMA QueueRefines ==
  ASSUME Inv, Exclusive,
         \/ \E w \in Workers : Take(w) \/ WorkerCrash(w)
         \/ \E m \in Msgs : Requeue(m)
  PROVE  (overlaps' = overlaps => Exclusive') /\ [Promise!Next]_(Promise!vars)
<1> USE DeliveryAssumption
<1>1. UNCHANGED <<status, accepted>>
  BY DEF Take, WorkerCrash, Requeue, rows
<1>0. [Promise!Next]_(Promise!vars)
  BY <1>1 DEF Take, WorkerCrash, Requeue, Inv, TypeOK, Promise!vars, Promise!Next,
              Promise!Share
<1>2. CASE \E w \in Workers : Take(w)
  <2>1. PICK w \in Workers : Take(w)
    BY <1>2
  <2>2. PICK m \in Msgs :
          /\ jobs[m].state = "waiting"
          /\ SetJob(m, "active", jobs[m].made, jobs[m].stalled, w)
          /\ ws' = [ws EXCEPT ![w] = [pc |-> "check", msg |-> m, retry |-> 0]]
    BY <2>1 DEF Take
  <2>3. \A v \in Workers : v # w => ws'[v] = ws[v] /\ (ws[v].pc # "idle" => ws[v].msg # m)
    BY <2>2 DEF Inv, TypeOK, Exclusive
  <2>4. ws'[w] = [pc |-> "check", msg |-> m, retry |-> 0]
    BY <2>2 DEF Inv, TypeOK
  <2>5. Exclusive'
    BY <1>1, <2>2, <2>3, <2>4 DEF SetJob, Exclusive, Inv, TypeOK, WorkerInv
  <2>6. QED
    BY <1>0, <2>5
<1>3. CASE \E w \in Workers : WorkerCrash(w)
  BY <1>0, <1>1, <1>3 DEF WorkerCrash, Exclusive, Inv, TypeOK, Idle
<1>4. CASE \E m \in Msgs : Requeue(m)
  <2>1. PICK m \in Msgs : Requeue(m)
    BY <1>4
  <2>2. overlaps' = overlaps => ~Busy(m)
    BY <2>1 DEF Requeue, Inv, TypeOK
  <2>3. overlaps' = overlaps => Exclusive'
    BY <1>1, <2>1, <2>2 DEF Requeue, Busy, SetJob, Exclusive, Inv, TypeOK, WorkerInv
  <2>4. QED
    BY <1>0, <2>3
<1>5. QED
  BY <1>2, <1>3, <1>4

\* Once a job has been shared a worker may revise an outcome, but to SENT only
\* after an acceptance, and never that of a deleted reply.
LEMMA SharedRefines ==
  ASSUME Inv, overlaps > 0, NEW w \in Workers, WorkerStep(w)
  PROVE  [Promise!Next]_(Promise!vars)
<1> USE DeliveryAssumption
<1> DEFINE m == ws[w].msg
<1>1. m \in Msgs /\ status[m] # "none" /\ (ws[w].pc = "sent" => accepted[m] > 0)
  BY DEF Inv, WorkerInv, WorkerStep, JobCheck, JobSend, JobMarkSent, JobMarkFailed,
         JobReturns, JobThrows
<1>2. UNCHANGED overlaps
  BY DEF WorkerStep, JobCheck, JobSend, JobMarkSent, JobMarkFailed, JobReturns,
         JobThrows, Finish
<1>3. CASE UNCHANGED <<status, accepted>>
  BY <1>2, <1>3 DEF Promise!vars
<1>4. CASE UNCHANGED status /\ Accepted(m)
  BY <1>1, <1>2, <1>4 DEF Accepted, Promise!Next, Promise!Accept
<1>5. ASSUME NEW outcome \in {"PENDING", "SENT", "FAILED"}, SetStatus(m, outcome),
             status[m] # "deleted", outcome = "SENT" => ws[w].pc = "sent",
             UNCHANGED accepted
      PROVE  [Promise!Next]_(Promise!vars)
  <2>1. Promise!Settle(m, outcome)
    BY <1>1, <1>2, <1>5 DEF SetStatus, Promise!Settle
  <2>2. QED
    BY <1>1, <2>1 DEF Promise!Next
<1>6. CASE JobCheck(w) \/ JobReturns(w) \/ JobThrows(w)
  BY <1>3, <1>6 DEF JobCheck, JobReturns, JobThrows, Finish, rows
<1>7. CASE JobSend(w)
  BY <1>3, <1>4, <1>7 DEF JobSend, rows
<1>8. CASE JobMarkSent(w)
  BY <1>3, <1>5, <1>8 DEF JobMarkSent, SetStatus
<1>9. CASE JobMarkFailed(w)
  <2>1. UNCHANGED accepted /\ ws[w].pc = "failing"
    BY <1>9 DEF JobMarkFailed
  <2>2. UNCHANGED status \/ SetStatus(m, "FAILED") \/ SetStatus(m, "PENDING")
    BY <1>9 DEF JobMarkFailed, rows
  <2>3. CASE status[m] = "deleted"
    BY <1>3, <2>1, <2>2, <2>3 DEF SetStatus
  <2>4. CASE status[m] # "deleted"
    BY <1>3, <1>5, <2>1, <2>2, <2>4
  <2>5. QED
    BY <2>3, <2>4
<1>10. QED
  BY <1>6, <1>7, <1>8, <1>9 DEF WorkerStep

\* Every behaviour of the code is one Delivery allows, however many requests,
\* workers, retries, crashes, lost responses and shared jobs there are.
THEOREM KeepsPromise == Spec => DeliveryPromise
<1> DEFINE UntilShared == overlaps = 0 => Exclusive
<1>1. Init => UntilShared /\ Promise!Init
  BY DEF Init, Exclusive, Idle, Promise!Init
<1>2. Inv /\ UntilShared /\ [Next]_vars => UntilShared' /\ [Promise!Next]_(Promise!vars)
  <2> SUFFICES ASSUME Inv, UntilShared, [Next]_vars
               PROVE  UntilShared' /\ [Promise!Next]_(Promise!vars)
    OBVIOUS
  <2>1. overlaps \in Nat /\ overlaps' \in Nat /\ overlaps' >= overlaps
    BY DeliveryAssumption
       DEF Inv, TypeOK, Next, vars, rows, Save, RequestStep, SetFirstResponse, Send,
           MarkSent, MarkFailed, RequestCrash, Delete, Requeue, Take, WorkerStep,
           WorkerCrash, JobCheck, JobSend, JobMarkSent, JobMarkFailed, JobReturns,
           JobThrows, Finish
  <2>2. CASE UNCHANGED vars
    BY <2>2 DEF vars, rows, Exclusive, Promise!vars
  <2>3. CASE \E m \in Msgs : Save(m) \/ RequestStep(m) \/ RequestCrash(m) \/ Delete(m)
    BY <2>1, <2>3, RequestRefines
  <2>4. CASE \E w \in Workers : WorkerStep(w)
    BY <2>1, <2>4, WorkerRefines, SharedRefines
  <2>5. CASE \/ \E w \in Workers : Take(w) \/ WorkerCrash(w)
             \/ \E m \in Msgs : Requeue(m)
    <3>1. CASE overlaps = 0
      BY <2>1, <2>5, <3>1, QueueRefines
    <3>2. CASE overlaps > 0
      BY <2>1, <2>5, <3>2 DEF Take, WorkerCrash, Requeue, rows, Promise!vars
    <3>3. QED
      BY <2>1, <3>1, <3>2
  <2>6. QED
    BY <2>2, <2>3, <2>4, <2>5 DEF Next
<1>3. QED
  BY <1>1, <1>2, Invariance, PTL DEF Spec, DeliveryPromise, Promise!Spec
-----------------------------------------------------------------------------
(***************************************************************************)
(* Duplicates.  A queued message may be submitted once for every worker    *)
(* that is still trying it and once more if its job is open, that is       *)
(* waiting, or active while the lock's holder is gone.  What was accepted  *)
(* already and these open submissions together stay within one, plus one   *)
(* for every fault and every overlap.                                      *)
(***************************************************************************)
Trying(m) ==
  {w \in Workers : ws[w].msg = m /\ ws[w].pc \in {"check", "send", "failing", "throw"}}

OwnerAtIt(m) ==
  \E w \in Workers : jobs[m].owner = w /\ ws[w].pc # "idle" /\ ws[w].msg = m

Open(m) ==
  jobs[m].state = "waiting" \/ (jobs[m].state = "active" /\ ~OwnerAtIt(m))

Submissions(m) == Cardinality(Trying(m)) + (IF Open(m) THEN 1 ELSE 0)

BudgetInv ==
  /\ \A m \in Queued : accepted[m] + Submissions(m) <= 1 + faults + overlaps
  /\ \A m \in Msgs : status[m] = "none" => accepted[m] = 0
  /\ \A m \in Msgs \ Queued :
       /\ accepted[m] <= 1
       /\ req[m] \in {"new", "respond", "send"} => accepted[m] = 0

\* A finite set counted with and without one of its elements.
LEMMA WithOrWithout ==
  ASSUME NEW S, IsFiniteSet(S), NEW x
  PROVE  /\ Cardinality(S \ {x}) \in Nat
         /\ Cardinality(S) = Cardinality(S \ {x}) + (IF x \in S THEN 1 ELSE 0)
BY FS_RemoveElement, FS_CardinalityType

\* The workers busy with a message can be counted.
LEMMA TryingFinite ==
  ASSUME IsFiniteSet(Workers), NEW m
  PROVE  IsFiniteSet(Trying(m)) /\ Cardinality(Trying(m)) \in Nat
<1>1. Trying(m) \subseteq Workers
  BY DEF Trying
<1>2. QED
  BY <1>1, FS_Subset, FS_CardinalityType

\* A step of worker w on message m changes the submissions of m only by w's
\* own part and by its job.
LEMMA OwnPart ==
  ASSUME IsFiniteSet(Workers), NEW w \in Workers, NEW m,
         \A v \in Workers : v # w => ws'[v] = ws[v]
  PROVE  \E k \in Nat :
           /\ Cardinality(Trying(m)) = k + (IF w \in Trying(m) THEN 1 ELSE 0)
           /\ Cardinality(Trying(m))' = k + (IF w \in Trying(m)' THEN 1 ELSE 0)
<1>1. Trying(m) \ {w} = Trying(m)' \ {w}
  BY DEF Trying
<1>2. IsFiniteSet(Trying(m)) /\ IsFiniteSet(Trying(m)')
  <2>1. Trying(m)' \subseteq Workers
    BY DEF Trying
  <2>2. QED
    BY <2>1, TryingFinite, FS_Subset
<1>3. /\ Cardinality(Trying(m) \ {w}) \in Nat
      /\ Cardinality(Trying(m)) =
           Cardinality(Trying(m) \ {w}) + (IF w \in Trying(m) THEN 1 ELSE 0)
  BY <1>2, WithOrWithout
<1>4. Cardinality(Trying(m)') =
        Cardinality(Trying(m)' \ {w}) + (IF w \in Trying(m)' THEN 1 ELSE 0)
  BY <1>2, WithOrWithout
<1>5. QED
  BY <1>1, <1>3, <1>4

\* Nothing has been submitted yet.
LEMMA InitBudget == Init => BudgetInv
<1> SUFFICES ASSUME Init PROVE BudgetInv
  OBVIOUS
<1>1. \A m \in Msgs : Trying(m) = {} /\ ~Open(m) /\ accepted[m] = 0
  BY DEF Init, Trying, Open, Idle
<1>2. ASSUME NEW m \in Msgs
      PROVE  Submissions(m) = 0
  <2>1. Cardinality(Trying(m)) = 0
    BY <1>1, FS_EmptySet
  <2>2. QED
    BY <1>1, <2>1 DEF Submissions
<1>3. QED
  BY <1>1, <1>2, DeliveryAssumption DEF Init, BudgetInv

\* A message whose job, workers and count of acceptances stay as they are.
LEMMA Untouched ==
  ASSUME NEW m, Trying(m)' = Trying(m), Open(m)' <=> Open(m)
  PROVE  Submissions(m)' = Submissions(m)
BY DEF Submissions

\* A request delivers its message once, and leaves the queued ones alone.
LEMMA RequestBudget ==
  ASSUME IsFiniteSet(Workers), Inv, BudgetInv, NEW m \in Msgs,
         Save(m) \/ RequestStep(m) \/ RequestCrash(m) \/ Delete(m)
  PROVE  BudgetInv'
<1> USE DeliveryAssumption
<1>1. /\ UNCHANGED <<ws, overlaps>>
      /\ faults \in Nat /\ faults' \in Nat /\ faults' >= faults /\ overlaps \in Nat
  BY DEF Inv, TypeOK, Save, RequestStep, SetFirstResponse, Send, MarkSent,
         MarkFailed, RequestCrash, Delete, Fault
<1>2. /\ \A n \in Queued : accepted'[n] = accepted[n]
      /\ \A n \in Msgs : accepted[n] \in Nat /\ (n # m => accepted'[n] = accepted[n])
  BY DEF Inv, TypeOK, RequestInv, Save, RequestStep, SetFirstResponse, Send,
         MarkSent, MarkFailed, RequestCrash, Delete, Accepted
<1>3. \A n \in Queued : accepted'[n] + Submissions(n)' <= 1 + faults' + overlaps'
  <2> TAKE n \in Queued
  <2>1. Trying(n)' = Trying(n) /\ Submissions(n) \in Nat
    <3>1. Trying(n)' = Trying(n)
      BY <1>1 DEF Trying
    <3>2. Cardinality(Trying(n)) \in Nat
      BY TryingFinite
    <3>3. QED
      BY <3>1, <3>2 DEF Submissions
  <2>2. CASE UNCHANGED jobs \/ n # m
    <3>1. jobs'[n] = jobs[n]
      BY <2>2 DEF Inv, TypeOK, Save, SetJob, RequestStep, SetFirstResponse, Send,
                  MarkSent, MarkFailed, RequestCrash, Delete
    <3>2. Open(n)' <=> Open(n)
      BY <1>1, <3>1 DEF Open, OwnerAtIt
    <3>3. Submissions(n)' = Submissions(n)
      BY <2>1, <3>2, Untouched
    <3>4. QED
      BY <1>1, <1>2, <2>1, <3>3 DEF BudgetInv
  <2>3. CASE jobs' # jobs /\ n = m
    <3>1. Save(m)
      BY <2>3 DEF RequestStep, SetFirstResponse, Send, MarkSent, MarkFailed,
                  RequestCrash, Delete
    <3>2. status[n] = "none" /\ accepted'[n] = 0
      BY <2>3, <3>1, <1>2 DEF Save, BudgetInv
    <3>3. Trying(n) = {}
      BY <3>2 DEF Trying, Inv, WorkerInv
    <3>4. Cardinality(Trying(n)') = 0
      BY <2>1, <3>3, FS_EmptySet
    <3>5. Submissions(n)' \in {0, 1}
      BY <3>4 DEF Submissions
    <3>6. QED
      BY <1>1, <3>2, <3>5
  <2>4. QED
    BY <2>2, <2>3
<1>4. \A n \in Msgs : status'[n] = "none" => accepted'[n] = 0
  BY <1>2 DEF Inv, TypeOK, RequestInv, BudgetInv, Save, RequestStep,
     SetFirstResponse, Send, MarkSent, MarkFailed, RequestCrash, Delete,
     SetStatus, rows
<1>5. \A n \in Msgs \ Queued :
        /\ accepted'[n] <= 1
        /\ req'[n] \in {"new", "respond", "send"} => accepted'[n] = 0
  BY <1>2 DEF Inv, TypeOK, RequestInv, BudgetInv, Save, RequestStep,
     SetFirstResponse, Send, MarkSent, MarkFailed, RequestCrash, Delete,
     ReqGoto, Accepted
<1>6. QED
  BY <1>3, <1>4, <1>5 DEF BudgetInv

\* The submissions of the messages a worker does not have.
LEMMA OthersBudget ==
  ASSUME IsFiniteSet(Workers), NEW w \in Workers, NEW m, NEW n, n # m,
         \A v \in Workers : v # w => ws'[v] = ws[v],
         ws[w].pc = "idle" \/ ws[w].msg = m, ws'[w].pc = "idle" \/ ws'[w].msg = m,
         jobs'[n] = jobs[n]
  PROVE  Submissions(n)' = Submissions(n) /\ Submissions(n) \in Nat
<1>1. Trying(n)' = Trying(n)
  BY DEF Trying
<1>2. OwnerAtIt(n)' <=> OwnerAtIt(n)
  BY DEF OwnerAtIt
<1>3. Open(n)' <=> Open(n)
  BY <1>2 DEF Open
<1>4. QED
  BY <1>1, <1>3, Untouched, TryingFinite DEF Submissions

\* A delivery spends its submission, and only a fault makes the worker ask for
\* another.
LEMMA WorkerBudget ==
  ASSUME IsFiniteSet(Workers), Inv, BudgetInv, NEW w \in Workers, WorkerStep(w),
         NEW m, ws[w].msg = m
  PROVE  BudgetInv'
<1> USE DeliveryAssumption
<1>1. /\ m \in Queued /\ m \in Msgs /\ status[m] # "none" /\ ws[w].pc # "idle"
      /\ UNCHANGED <<req, overlaps>>
      /\ faults \in Nat /\ faults' \in Nat /\ faults' >= faults /\ overlaps \in Nat
      /\ accepted[m] \in Nat /\ accepted'[m] \in Nat
  BY DEF Inv, TypeOK, WorkerInv, WorkerStep, JobCheck, JobSend, JobMarkSent,
         JobMarkFailed, JobReturns, JobThrows, Finish, Fault, Accepted
<1>2. /\ \A v \in Workers : v # w => ws'[v] = ws[v]
      /\ ws'[w].pc = "idle" \/ ws'[w].msg = m
  BY <1>1 DEF Inv, TypeOK, Worker, WorkerStep, JobCheck, JobSend, JobMarkSent,
              JobMarkFailed, JobReturns, JobThrows, Finish, Goto, Idle
<1>3. \A n \in Msgs : n # m => /\ jobs'[n] = jobs[n]
                               /\ accepted'[n] = accepted[n]
                               /\ status'[n] = status[n]
  BY <1>1 DEF Inv, TypeOK, WorkerStep, JobCheck, JobSend, JobMarkSent,
              JobMarkFailed, JobReturns, JobThrows, Finish, SetJob, Accepted,
              SetStatus, rows
<1>4. \A n \in Queued : n # m =>
        accepted'[n] + Submissions(n)' <= 1 + faults' + overlaps'
  <2> SUFFICES ASSUME NEW n \in Queued, n # m
               PROVE  accepted'[n] + Submissions(n)' <= 1 + faults' + overlaps'
    OBVIOUS
  <2>1. jobs'[n] = jobs[n] /\ accepted'[n] = accepted[n] /\ accepted[n] \in Nat
    BY <1>3 DEF Inv, TypeOK
  <2>2. Submissions(n)' = Submissions(n) /\ Submissions(n) \in Nat
    BY <1>2, <2>1, OthersBudget
  <2>3. QED
    BY <1>1, <2>1, <2>2 DEF BudgetInv
<1>5. accepted'[m] + Submissions(m)' <= 1 + faults' + overlaps'
  <2> DEFINE mine == IF w \in Trying(m) THEN 1 ELSE 0
             mine2 == IF w \in Trying(m)' THEN 1 ELSE 0
             pend == IF Open(m) THEN 1 ELSE 0
             pend2 == IF Open(m)' THEN 1 ELSE 0
  <2>1. PICK k \in Nat : /\ Cardinality(Trying(m)) = k + mine
                         /\ Cardinality(Trying(m))' = k + mine2
    BY <1>2, OwnPart
  <2>2. Submissions(m) = k + mine + pend /\ Submissions(m)' = k + mine2 + pend2
    BY <2>1 DEF Submissions
  <2>3. accepted[m] + (k + mine + pend) <= 1 + faults + overlaps
    BY <1>1, <2>2 DEF BudgetInv
  <2>4. w \in Trying(m) <=> ws[w].pc \in {"check", "send", "failing", "throw"}
    BY DEF Trying
  <2>5. w \in Trying(m)' <=>
          ws'[w].msg = m /\ ws'[w].pc \in {"check", "send", "failing", "throw"}
    BY DEF Trying
  <2>6. CASE JobCheck(w) \/ JobSend(w) \/ JobMarkSent(w) \/ JobMarkFailed(w)
    <3>1. UNCHANGED jobs /\ ws'[w].pc # "idle" /\ ws'[w].msg = m
      BY <1>2, <2>6 DEF JobCheck, JobSend, JobMarkSent, JobMarkFailed, Goto, Inv,
                        TypeOK, Worker
    <3>2. Open(m)' <=> Open(m)
      BY <1>1, <1>2, <3>1 DEF Open, OwnerAtIt
    <3>3. accepted'[m] + mine2 <= accepted[m] + mine + (faults' - faults)
      <4>1. CASE JobCheck(w)
        BY <1>1, <2>4, <2>5, <4>1 DEF JobCheck
      <4>2. CASE JobSend(w)
        BY <1>1, <2>4, <2>5, <4>2 DEF JobSend, Goto, Accepted, Fault, Inv, TypeOK, Worker
      <4>3. CASE JobMarkSent(w)
        BY <1>1, <2>4, <2>5, <4>3 DEF JobMarkSent, Goto, Fault, Inv, TypeOK, Worker
      <4>4. CASE JobMarkFailed(w)
        BY <1>1, <2>4, <2>5, <4>4 DEF JobMarkFailed
      <4>5. QED
        BY <2>6, <4>1, <4>2, <4>3, <4>4
    <3>4. QED
      BY <1>1, <2>2, <2>3, <3>2, <3>3
  <2>7. CASE JobReturns(w) \/ JobThrows(w)
    <3>1. accepted'[m] = accepted[m] /\ mine2 = 0
      BY <2>5, <2>7 DEF JobReturns, JobThrows, Finish, Idle, Inv, TypeOK
    <3>2. CASE jobs[m].owner # w
      <4>1. UNCHANGED jobs
        BY <1>1, <2>7, <3>2 DEF JobReturns, JobThrows, Finish
      <4>2. Open(m)' <=> Open(m)
        BY <1>1, <1>2, <3>2, <4>1 DEF Open, OwnerAtIt
      <4>3. QED
        BY <1>1, <2>2, <2>3, <3>1, <4>2
    <3>3. CASE jobs[m].owner = w /\ JobReturns(w)
      <4>1. jobs'[m].state = "completed"
        BY <1>1, <3>3 DEF JobReturns, Finish, SetJob, Inv, TypeOK
      <4>2. ~Open(m)'
        BY <4>1 DEF Open
      <4>3. QED
        BY <1>1, <2>2, <2>3, <3>1, <4>2
    <3>4. CASE JobThrows(w)
      <4>1. mine = 1
        BY <2>4, <3>4 DEF JobThrows
      <4>2. QED
        BY <1>1, <2>2, <2>3, <3>1, <4>1
    <3>5. QED
      BY <2>7, <3>2, <3>3, <3>4
  <2>8. QED
    BY <2>6, <2>7 DEF WorkerStep
<1>6. status'[m] # "none"
  BY <1>1 DEF WorkerStep, JobCheck, JobSend, JobMarkSent, JobMarkFailed,
              JobReturns, JobThrows, Finish, SetStatus, rows, Inv, TypeOK
<1>7. QED
  BY <1>1, <1>3, <1>4, <1>5, <1>6 DEF BudgetInv

\* Taking a job hands its open submission over to the worker.
LEMMA TakeBudget ==
  ASSUME IsFiniteSet(Workers), Inv, BudgetInv, NEW w \in Workers, Take(w)
  PROVE  BudgetInv'
<1> USE DeliveryAssumption
<1>1. PICK m \in Msgs :
        /\ jobs[m].state = "waiting"
        /\ SetJob(m, "active", jobs[m].made, jobs[m].stalled, w)
        /\ ws' = [ws EXCEPT ![w] = [pc |-> "check", msg |-> m, retry |-> 0]]
  BY DEF Take
<1>2. ws[w].pc = "idle" /\ UNCHANGED <<rows, req, accepted, faults, overlaps>>
  BY DEF Take
<1>3. ws \in [Workers -> Worker] /\ jobs \in [Msgs -> Job] /\ accepted \in [Msgs -> Nat]
      /\ faults \in Nat /\ overlaps \in Nat /\ m \in Queued
  BY <1>1 DEF Inv, TypeOK, RequestInv
<1>4. /\ \A v \in Workers : v # w => ws'[v] = ws[v]
      /\ ws'[w].pc = "check" /\ ws'[w].msg = m
      /\ jobs'[m].state = "active" /\ jobs'[m].owner = w
      /\ \A n \in Msgs : n # m => jobs'[n] = jobs[n]
  BY <1>1, <1>3 DEF SetJob
<1>5. ASSUME NEW n \in Queued, n # m
      PROVE  accepted[n] + Submissions(n)' <= 1 + faults + overlaps
  BY <1>2, <1>3, <1>4, <1>5, OthersBudget DEF BudgetInv
<1>6. accepted[m] + Submissions(m)' <= 1 + faults + overlaps
  <2>1. PICK k \in Nat :
          /\ Cardinality(Trying(m)) = k + (IF w \in Trying(m) THEN 1 ELSE 0)
          /\ Cardinality(Trying(m))' = k + (IF w \in Trying(m)' THEN 1 ELSE 0)
    BY <1>4, OwnPart
  <2>2. Open(m) /\ ~Open(m)'
    BY <1>1, <1>4 DEF Open, OwnerAtIt
  <2>3. w \notin Trying(m) /\ w \in Trying(m)'
    BY <1>2, <1>4 DEF Trying
  <2>4. Submissions(m) = k + 1 /\ Submissions(m)' = k + 1
    BY <2>1, <2>2, <2>3 DEF Submissions
  <2>5. QED
    BY <1>3, <2>4 DEF BudgetInv
<1>7. QED
  BY <1>2, <1>5, <1>6 DEF BudgetInv, rows

\* A worker that dies has cost a fault.
LEMMA CrashBudget ==
  ASSUME IsFiniteSet(Workers), Inv, BudgetInv, NEW w \in Workers, WorkerCrash(w),
         NEW m, ws[w].msg = m
  PROVE  BudgetInv'
<1> USE DeliveryAssumption
<1>1. /\ ws[w].pc # "idle" /\ ws' = [ws EXCEPT ![w] = Idle]
      /\ faults' = faults + 1 /\ UNCHANGED <<rows, req, jobs, accepted, overlaps>>
  BY DEF WorkerCrash, Fault
<1>2. ws \in [Workers -> Worker] /\ accepted \in [Msgs -> Nat]
      /\ faults \in Nat /\ overlaps \in Nat /\ m \in Queued
  BY <1>1 DEF Inv, TypeOK, WorkerInv
<1>3. (\A v \in Workers : v # w => ws'[v] = ws[v]) /\ ws'[w].pc = "idle"
  BY <1>1, <1>2 DEF Idle
<1>4. ASSUME NEW n \in Queued, n # m
      PROVE  accepted[n] + Submissions(n)' <= 1 + faults' + overlaps
  <2>1. Submissions(n)' = Submissions(n) /\ Submissions(n) \in Nat
    BY <1>1, <1>3, <1>4, OthersBudget
  <2>2. QED
    BY <1>1, <1>2, <2>1 DEF BudgetInv
<1>5. accepted[m] + Submissions(m)' <= 1 + faults' + overlaps
  <2>1. PICK k \in Nat :
          /\ Cardinality(Trying(m)) = k + (IF w \in Trying(m) THEN 1 ELSE 0)
          /\ Cardinality(Trying(m))' = k + (IF w \in Trying(m)' THEN 1 ELSE 0)
    BY <1>3, OwnPart
  <2>2. w \notin Trying(m)'
    BY <1>3 DEF Trying
  <2>3. Submissions(m) >= k /\ Submissions(m)' <= k + 1
        /\ Submissions(m) \in Nat /\ Submissions(m)' \in Nat
    BY <2>1, <2>2 DEF Submissions
  <2>4. QED
    BY <1>1, <1>2, <2>3 DEF BudgetInv
<1>6. QED
  BY <1>1, <1>4, <1>5 DEF BudgetInv, rows

\* Taking back a job whose worker is still busy costs an overlap.
LEMMA RequeueBudget ==
  ASSUME IsFiniteSet(Workers), Inv, BudgetInv, NEW m \in Msgs, Requeue(m)
  PROVE  BudgetInv'
<1> USE DeliveryAssumption
<1>1. /\ jobs[m].state = "active"
      /\ UNCHANGED <<rows, req, ws, accepted, faults>>
      /\ \A n \in Msgs : n # m => jobs'[n] = jobs[n]
      /\ IF Busy(m) THEN overlaps' = overlaps + 1 ELSE overlaps' = overlaps
  BY DEF Requeue, SetJob, Inv, TypeOK
<1>2. m \in Queued /\ accepted \in [Msgs -> Nat] /\ faults \in Nat /\ overlaps \in Nat
  BY <1>1 DEF Inv, TypeOK, RequestInv
<1>3. \A n : Trying(n)' = Trying(n) /\ Cardinality(Trying(n)) \in Nat
  BY <1>1, TryingFinite DEF Trying
<1>4. ASSUME NEW n \in Queued, n # m
      PROVE  accepted[n] + Submissions(n)' <= 1 + faults + overlaps'
  <2>1. Open(n)' <=> Open(n)
    BY <1>1, <1>4 DEF Open, OwnerAtIt
  <2>2. Submissions(n)' = Submissions(n) /\ Submissions(n) \in Nat
    BY <1>3, <2>1, Untouched DEF Submissions
  <2>3. QED
    BY <1>1, <1>2, <2>2 DEF BudgetInv
<1>5. accepted[m] + Submissions(m)' <= 1 + faults + overlaps'
  <2>1. Busy(m) \/ Open(m)
    BY <1>1 DEF Busy, Open, OwnerAtIt
  <2>2. /\ Submissions(m) \in Nat /\ Submissions(m)' \in Nat
        /\ Submissions(m)' <= Submissions(m) + 1
        /\ Open(m) => Submissions(m)' <= Submissions(m)
    BY <1>3 DEF Submissions
  <2>3. QED
    BY <1>1, <1>2, <2>1, <2>2 DEF BudgetInv
<1>6. QED
  BY <1>1, <1>4, <1>5 DEF BudgetInv, rows

\* A customer gets a reply more than once only as often as something broke:
\* for every number of replies and workers, the Graph API accepts a reply at
\* most once, and once more for each fault and each overlap.  Refusals and the
\* retries they cause never repeat an accepted reply.
THEOREM DuplicatesBounded ==
  ASSUME IsFiniteSet(Workers)
  PROVE  Spec => []DuplicatesNeedFaults
<1>1. Inv /\ BudgetInv /\ [Next]_vars => BudgetInv'
  <2> SUFFICES ASSUME Inv, BudgetInv, [Next]_vars PROVE BudgetInv'
    OBVIOUS
  <2>1. CASE Next
    BY <2>1, RequestBudget, WorkerBudget, TakeBudget, CrashBudget, RequeueBudget
       DEF Next
  <2>2. CASE UNCHANGED vars
    <3>1. \A n : Submissions(n)' = Submissions(n)
      BY <2>2, Untouched DEF vars, Trying, Open, OwnerAtIt
    <3>2. QED
      BY <2>2, <3>1 DEF vars, rows, BudgetInv
  <2>3. QED
    BY <2>1, <2>2
<1>2. Inv /\ BudgetInv => DuplicatesNeedFaults
  <2> SUFFICES ASSUME Inv, BudgetInv, NEW m \in Msgs
               PROVE  accepted[m] <= 1 + faults + overlaps
    BY DEF DuplicatesNeedFaults
  <2>1. accepted[m] \in Nat /\ faults \in Nat /\ overlaps \in Nat
    BY DeliveryAssumption DEF Inv, TypeOK
  <2>2. Submissions(m) \in Nat
    BY TryingFinite DEF Submissions
  <2>3. QED
    BY <2>1, <2>2, DeliveryAssumption DEF BudgetInv
<1>3. QED
  BY <1>1, <1>2, InitBudget, Invariance, PTL DEF Spec
-----------------------------------------------------------------------------
(***************************************************************************)
(* The page of a conversation                                              *)
(***************************************************************************)
\* What a request carries, what follows it, and what answers it.
Args == Posts \union {Nobody} \union Ended \union {"OPEN", "PENDING"} \union BOOLEAN
Nexts == Posts \union {Nobody, "sending", "saving", "assigning", "updatingStar"}
Replies == {Nobody, Refused} \union Conversation \union Posts \union SUBSET Posts
Requests == [op : Ops, arg : Args, next : Nexts, done : BOOLEAN, value : Replies]

\* Posts are written here, the star and the status are what was chosen, and the
\* answers that hold the row are rows.
Formed(c) ==
  /\ c.op = "message" => c.arg \in Mine \intersect Messages
  /\ c.op \in {"note", "handoff"} => c.arg \in Mine \intersect Notes
  /\ c.op = "star" => c.arg \in BOOLEAN
  /\ c.op = "status" => c.arg \in {"OPEN", "PENDING"}
  /\ c.op = "end" => c.arg \in Ended

ThreadTypeOK ==
  /\ role \in {"ADMIN", "AGENT"} /\ row \in Conversation
  /\ stored \subseteq Posts /\ lost \subseteq Posts /\ old \subseteq Messages
  /\ joined \in BOOLEAN /\ wire \in Seq(Posts \union {"updated"})
  /\ calls \in Seq(Requests) /\ \A c \in ToSet(calls) : Formed(c)
  /\ page \in Conversation \union {Nobody}
  /\ shown \in [Posts -> Nat] /\ busy \subseteq Nexts
  /\ newest \in Nat /\ dim \in BOOLEAN /\ acts \in Nat /\ failures \in Nat

\* A post that is stored is shown, known to be missed, or on its way.
StoredIsComing == \A p \in stored : shown[p] > 0 \/ p \in lost \/ p \in ToSet(wire)

\* A row that was read is the stored one or an older one.
Seen(r) == r \in Conversation /\ r.n <= row.n /\ (r.n = row.n => r = row)
AnswersSeen ==
  /\ newest <= row.n
  /\ \A c \in ToSet(calls) :
       c.done /\ c.value # Refused /\ c.op \in {"load", "star", "status"} =>
         /\ Seen(c.value)
         /\ c.op = "status" => c.value.status = c.arg

\* The row as it is has been shown last, or will be loaded.
Current == newest = row.n /\ page # Nobody /\ Same(page, row)
Coming ==
  \/ "updated" \in ToSet(wire)
  \/ \E c \in ToSet(calls) : c.op = "load" /\ (~c.done \/ c.value = row)
CurrentOrComing == dim \/ Current \/ Coming

-----------------------------------------------------------------------------
(***************************************************************************)
(* Sequences, by what is in them                                           *)
(***************************************************************************)
LEMMA SmallSets ==
  /\ ToSet(<<>>) = {}
  /\ \A a : ToSet(<<a>>) = {a}
  /\ \A a, b : ToSet(<<a, b>>) = {a, b}
BY DEF ToSet

LEMMA InSeq ==
  ASSUME NEW S, NEW s \in Seq(S)
  PROVE  ToSet(s) \subseteq S /\ (s = <<>> <=> ToSet(s) = {})
BY DEF ToSet

LEMMA Joining ==
  ASSUME NEW S, NEW s \in Seq(S), NEW t \in Seq(S)
  PROVE  s \o t \in Seq(S) /\ ToSet(s \o t) = ToSet(s) \union ToSet(t)
<1>1. /\ s \o t \in Seq(S) /\ Len(s \o t) = Len(s) + Len(t)
      /\ \A i \in 1..Len(s) + Len(t) :
           (s \o t)[i] = IF i <= Len(s) THEN s[i] ELSE t[i - Len(s)]
  BY ConcatProperties
<1>2. Len(s) \in Nat /\ Len(t) \in Nat /\ DOMAIN s = 1..Len(s) /\ DOMAIN t = 1..Len(t)
      /\ DOMAIN (s \o t) = 1..Len(s) + Len(t)
  BY <1>1, LenProperties
<1>3. ASSUME NEW i \in 1..Len(s) + Len(t) PROVE (s \o t)[i] \in ToSet(s) \union ToSet(t)
  BY <1>1, <1>2 DEF ToSet
<1>4. ASSUME NEW i \in 1..Len(s) PROVE s[i] \in ToSet(s \o t)
  BY <1>1, <1>2 DEF ToSet
<1>5. ASSUME NEW i \in 1..Len(t) PROVE t[i] \in ToSet(s \o t)
  <2>1. i + Len(s) \in 1..Len(s) + Len(t) /\ (s \o t)[i + Len(s)] = t[i]
    BY <1>1, <1>2
  <2>2. QED
    BY <1>2, <2>1 DEF ToSet
<1>6. QED
  BY <1>1, <1>2, <1>3, <1>4, <1>5 DEF ToSet

LEMMA Adding ==
  ASSUME NEW S, NEW s \in Seq(S), NEW e \in S
  PROVE  Append(s, e) \in Seq(S) /\ ToSet(Append(s, e)) = ToSet(s) \union {e}
<1>1. Append(s, e) = s \o <<e>> /\ <<e>> \in Seq(S)
  OBVIOUS
<1>2. ToSet(<<e>>) = {e}
  BY SmallSets
<1>3. s \o <<e>> \in Seq(S) /\ ToSet(s \o <<e>>) = ToSet(s) \union ToSet(<<e>>)
  BY <1>1, Joining
<1>4. QED
  BY <1>1, <1>2, <1>3

LEMMA Taking ==
  ASSUME NEW S, NEW s \in Seq(S), s # <<>>
  PROVE  /\ Tail(s) \in Seq(S) /\ Head(s) \in S
         /\ ToSet(s) = {Head(s)} \union ToSet(Tail(s))
<1>1. /\ Tail(s) \in Seq(S) /\ Head(s) \in S /\ Len(Tail(s)) = Len(s) - 1
      /\ \A i \in 1..Len(Tail(s)) : Tail(s)[i] = s[i + 1]
      /\ Len(s) \in Nat \ {0} /\ Head(s) = s[1]
  BY HeadTailProperties, EmptySeq
<1>2. DOMAIN s = 1..Len(s) /\ DOMAIN Tail(s) = 1..Len(s) - 1
  BY <1>1
<1>3. ASSUME NEW i \in DOMAIN s PROVE s[i] \in {Head(s)} \union ToSet(Tail(s))
  <2>1. CASE i = 1
    BY <1>1, <2>1
  <2>2. CASE i # 1
    <3>1. i - 1 \in 1..Len(Tail(s)) /\ Tail(s)[i - 1] = s[i]
      BY <1>1, <1>2, <2>2
    <3>2. QED
      BY <1>1, <1>2, <3>1 DEF ToSet
  <2>3. QED
    BY <2>1, <2>2
<1>4. ASSUME NEW i \in DOMAIN Tail(s) PROVE Tail(s)[i] \in ToSet(s)
  BY <1>1, <1>2 DEF ToSet
<1>5. s[1] \in ToSet(s)
  BY <1>1, <1>2 DEF ToSet
<1>6. QED
  BY <1>1, <1>3, <1>4, <1>5 DEF ToSet

LEMMA Removing ==
  ASSUME NEW S, NEW s \in Seq(S), NEW i \in DOMAIN s
  PROVE  /\ RemoveAt(s, i) \in Seq(S)
         /\ ToSet(RemoveAt(s, i)) \subseteq ToSet(s)
         /\ ToSet(s) \subseteq ToSet(RemoveAt(s, i)) \union {s[i]}
<1> DEFINE a == SubSeq(s, 1, i - 1)
           b == SubSeq(s, i + 1, Len(s))
<1>1. Len(s) \in Nat /\ i \in 1..Len(s) /\ DOMAIN s = 1..Len(s)
  BY LenProperties
<1>2. \A j \in 1..Len(s) : s[j] \in S
  BY ElementOfSeq
<1>3. /\ a \in Seq(S) /\ Len(a) = i - 1
      /\ \A j \in 1..i - 1 : a[j] = s[j]
  <2>1. \A j \in 1..i - 1 : s[j] \in S
    BY <1>1, <1>2
  <2>2. /\ SubSeq(s, 1, i - 1) \in Seq(S)
        /\ Len(SubSeq(s, 1, i - 1)) = IF 1 <= i - 1 THEN (i - 1) - 1 + 1 ELSE 0
        /\ \A j \in 1..(i - 1) - 1 + 1 : SubSeq(s, 1, i - 1)[j] = s[1 + j - 1]
    BY <1>1, <2>1, SubSeqProperties
  <2>3. QED
    BY <1>1, <2>2
<1>4. /\ b \in Seq(S) /\ Len(b) = Len(s) - i
      /\ \A j \in 1..Len(s) - i : b[j] = s[i + j]
  <2>1. \A j \in i + 1..Len(s) : s[j] \in S
    BY <1>1, <1>2
  <2>2. /\ SubSeq(s, i + 1, Len(s)) \in Seq(S)
        /\ Len(SubSeq(s, i + 1, Len(s))) =
             IF i + 1 <= Len(s) THEN Len(s) - (i + 1) + 1 ELSE 0
        /\ \A j \in 1..Len(s) - (i + 1) + 1 : SubSeq(s, i + 1, Len(s))[j] = s[(i + 1) + j - 1]
    BY <1>1, <2>1, SubSeqProperties
  <2>3. QED
    BY <1>1, <2>2
<1> HIDE DEF a, b
<1>5. a \o b \in Seq(S) /\ ToSet(a \o b) = ToSet(a) \union ToSet(b)
  BY <1>3, <1>4, Joining
<1>6. ToSet(a) \subseteq ToSet(s) /\ ToSet(b) \subseteq ToSet(s)
  <2>1. DOMAIN a = 1..i - 1 /\ DOMAIN b = 1..Len(s) - i
    BY <1>1, <1>3, <1>4
  <2>2. \A j \in DOMAIN a : a[j] = s[j] /\ j \in DOMAIN s
    BY <1>1, <1>3, <2>1
  <2>3. \A j \in DOMAIN b : b[j] = s[i + j] /\ i + j \in DOMAIN s
    BY <1>1, <1>4, <2>1
  <2>4. QED
    BY <2>2, <2>3 DEF ToSet
<1>7. ASSUME NEW j \in 1..Len(s), j # i PROVE s[j] \in ToSet(a) \union ToSet(b)
  <2>1. CASE j < i
    <3>1. j \in DOMAIN a /\ a[j] = s[j]
      BY <1>1, <1>3, <2>1
    <3>2. QED
      BY <3>1 DEF ToSet
  <2>2. CASE j > i
    <3>1. j - i \in DOMAIN b /\ b[j - i] = s[j]
      BY <1>1, <1>4, <2>2
    <3>2. QED
      BY <3>1 DEF ToSet
  <2>3. QED
    BY <1>1, <1>7, <2>1, <2>2
<1>8. RemoveAt(s, i) = a \o b
  BY DEF RemoveAt, a, b
<1>9. ToSet(s) \subseteq ToSet(a \o b) \union {s[i]}
  BY <1>1, <1>5, <1>7 DEF ToSet
<1>10. QED
  BY <1>5, <1>6, <1>8, <1>9
-----------------------------------------------------------------------------
(***************************************************************************)
(* What the steps do to requests, events and posts                         *)
(***************************************************************************)
Events == Posts \union {"updated"}

LEMMA NewCall ==
  ASSUME NEW op \in Ops, NEW arg \in Args, NEW next \in Nexts
  PROVE  /\ Call(op, arg, next) \in Requests
         /\ ~Call(op, arg, next).done
         /\ Call(op, arg, next).op = op /\ Call(op, arg, next).arg = arg
BY DEF Call, Requests, Replies

LEMMA CallType ==
  ASSUME ThreadTypeOK, NEW i \in DOMAIN calls
  PROVE  /\ calls[i] \in Requests /\ calls[i] \in ToSet(calls) /\ Formed(calls[i])
         /\ calls[i].op \in Ops /\ calls[i].arg \in Args /\ calls[i].next \in Nexts
<1>1. calls[i] \in ToSet(calls) /\ calls \in Seq(Requests)
  BY DEF ThreadTypeOK, ToSet
<1>2. calls[i] \in Requests /\ Formed(calls[i])
  BY <1>1, InSeq DEF ThreadTypeOK
<1>3. QED
  BY <1>1, <1>2 DEF Requests

\* An answer leaves the other requests, and what was asked.
LEMMA Answering ==
  ASSUME ThreadTypeOK, NEW i \in DOMAIN calls, NEW v \in Replies, Answered(i, v)
  PROVE  \E c \in ToSet(calls') :
           /\ c.done /\ c.value = v
           /\ c.op = calls[i].op /\ c.arg = calls[i].arg /\ c.next = calls[i].next
           /\ calls' \in Seq(Requests) /\ (\A d \in ToSet(calls') : Formed(d))
           /\ ToSet(calls') \subseteq ToSet(calls) \union {c}
           /\ ToSet(calls) \subseteq ToSet(calls') \union {calls[i]}
<1> DEFINE c == [calls[i] EXCEPT !.done = TRUE, !.value = v]
<1>1. /\ calls \in Seq(Requests) /\ DOMAIN calls = 1..Len(calls) /\ Len(calls) \in Nat
      /\ calls[i] \in Requests /\ calls[i] \in ToSet(calls) /\ Formed(calls[i])
  BY DEF ThreadTypeOK, ToSet
<1>2. /\ c \in Requests /\ c.done /\ c.value = v
      /\ c.op = calls[i].op /\ c.arg = calls[i].arg /\ c.next = calls[i].next
  BY <1>1 DEF Requests
<1>3. calls' = [calls EXCEPT ![i] = c]
  BY <1>1 DEF Answered, Requests
<1> HIDE DEF c
<1>4. Formed(c)
  BY <1>1, <1>2 DEF Formed
<1>5. /\ calls' \in Seq(Requests) /\ DOMAIN calls' = DOMAIN calls
      /\ \A j \in DOMAIN calls : calls'[j] = IF j = i THEN c ELSE calls[j]
  BY <1>1, <1>2, <1>3
<1>6. /\ c \in ToSet(calls') /\ ToSet(calls') \subseteq ToSet(calls) \union {c}
      /\ ToSet(calls) \subseteq ToSet(calls') \union {calls[i]}
  BY <1>1, <1>5 DEF ToSet
<1>7. \A d \in ToSet(calls') : Formed(d)
  BY <1>4, <1>6 DEF ThreadTypeOK
<1>8. QED
  BY <1>2, <1>5, <1>6, <1>7

\* A request that is done with is followed by others.
LEMMA Following ==
  ASSUME ThreadTypeOK, NEW i \in DOMAIN calls, NEW t \in Seq(Requests),
         \A c \in ToSet(t) : Formed(c), calls' = Rest(i) \o t
  PROVE  /\ calls' \in Seq(Requests) /\ \A c \in ToSet(calls') : Formed(c)
         /\ ToSet(calls') \subseteq ToSet(calls) \union ToSet(t)
         /\ ToSet(calls) \subseteq ToSet(calls') \union {calls[i]}
<1>1. /\ Rest(i) \in Seq(Requests) /\ ToSet(Rest(i)) \subseteq ToSet(calls)
      /\ ToSet(calls) \subseteq ToSet(Rest(i)) \union {calls[i]}
  BY Removing DEF ThreadTypeOK, Rest
<1>2. calls' \in Seq(Requests) /\ ToSet(calls') = ToSet(Rest(i)) \union ToSet(t)
  BY <1>1, Joining
<1>3. QED
  BY <1>1, <1>2 DEF ThreadTypeOK

\* Whoever has joined gets the events, and what others miss is known.
LEMMA Emitting ==
  ASSUME ThreadTypeOK, NEW events \in Seq(Events), Emit(events)
  PROVE  /\ wire' \in Seq(Events) /\ lost' \subseteq Posts
         /\ ToSet(wire) \subseteq ToSet(wire') /\ lost \subseteq lost'
         /\ joined => ToSet(events) \subseteq ToSet(wire')
         /\ \A p \in Posts \intersect ToSet(events) : p \in lost' \/ p \in ToSet(wire')
<1>1. wire \in Seq(Events)
  BY DEF ThreadTypeOK, Events
<1>2. wire \o events \in Seq(Events)
      /\ ToSet(wire \o events) = ToSet(wire) \union ToSet(events)
  BY <1>1, Joining
<1>3. QED
  BY <1>1, <1>2 DEF Emit, ThreadTypeOK

\* What a page may show.
LEMMA Showing ==
  ASSUME ThreadTypeOK
  PROVE  /\ \A p : /\ Once(shown, p) \in [Posts -> Nat]
                   /\ \A q \in Posts : Once(shown, p)[q] = IF q = p /\ shown[q] = 0 THEN 1 ELSE shown[q]
         /\ \A list : Merged(list) \in [Posts -> Nat] /\ Replaced(list) \in [Posts -> Nat]
<1>1. shown \in [Posts -> Nat]
  BY DEF ThreadTypeOK
<1>2. ASSUME NEW p
      PROVE  /\ Once(shown, p) \in [Posts -> Nat]
             /\ \A q \in Posts : Once(shown, p)[q] = IF q = p /\ shown[q] = 0 THEN 1 ELSE shown[q]
  <2>1. CASE p \in Posts
    BY <1>1, <2>1 DEF Once
  <2>2. CASE p \notin Posts
    <3>1. [shown EXCEPT ![p] = 1] = shown
      BY <1>1, <2>2
    <3>2. QED
      BY <1>1, <2>2, <3>1 DEF Once
  <2>3. QED
    BY <2>1, <2>2
<1>3. ASSUME NEW list PROVE Merged(list) \in [Posts -> Nat] /\ Replaced(list) \in [Posts -> Nat]
  BY <1>1 DEF Merged, Replaced
<1>4. QED
  BY <1>2, <1>3

\* What follows an answer is a load, a list or the notes.
LEMMA Follows ==
  ASSUME NEW next \in Nexts
  PROVE  /\ ReloadNotes \in Seq(Requests) /\ After(next) \in Seq(Requests)
         /\ Reload(next) \in Seq(Requests)
         /\ <<Call("list", Nobody, "sending")>> \in Seq(Requests)
         /\ \A c \in ToSet(ReloadNotes) \union ToSet(After(next)) \union ToSet(Reload(next))
                     \union ToSet(<<Call("list", Nobody, "sending")>>) :
              ~c.done /\ Formed(c)
         /\ Call("load", Nobody, next) \in ToSet(Reload(next))
<1> DEFINE list == Call("list", Nobody, "sending")
           notes == Call("notes", Nobody, Nobody)
           load == Call("load", Nobody, next)
<1>1. /\ Nobody \in Args /\ Nobody \in Nexts /\ "sending" \in Nexts
      /\ {"list", "notes", "load"} \subseteq Ops
  BY DEF Args, Nexts, Ops
<1>2. /\ list \in Requests /\ ~list.done /\ list.op = "list"
      /\ notes \in Requests /\ ~notes.done /\ notes.op = "notes"
      /\ load \in Requests /\ ~load.done /\ load.op = "load"
  BY <1>1, NewCall
<1> HIDE DEF list, notes, load
<1>3. Formed(list) /\ Formed(notes) /\ Formed(load)
  BY <1>2 DEF Formed
<1>4. /\ ToSet(<<list>>) = {list} /\ ToSet(<<notes>>) = {notes} /\ ToSet(<<load>>) = {load}
      /\ ToSet(<<>>) = {}
  BY SmallSets
<1>5. <<list>> \in Seq(Requests) /\ <<notes>> \in Seq(Requests) /\ <<load>> \in Seq(Requests)
      /\ <<>> \in Seq(Requests)
  BY <1>2
<1>6. /\ ReloadNotes = <<notes>> /\ Reload(next) = <<load>>
      /\ After(next) \in {<<list>>, <<>>}
  BY DEF ReloadNotes, Reload, After, list, notes, load
<1>7. QED
  BY <1>2, <1>3, <1>4, <1>5, <1>6 DEF list, load

\* What the page sends.
LEMMA Submitting ==
  ASSUME ThreadTypeOK, NEW op \in Ops, NEW arg \in Args, NEW flag \in Nexts, NEW ready,
         Submit(op, arg, flag, ready), Formed(Call(op, arg, flag))
  PROVE  /\ ThreadTypeOK'
         /\ ToSet(calls') = ToSet(calls) \union {Call(op, arg, flag)}
         /\ ~Call(op, arg, flag).done /\ Call(op, arg, flag).op = op
         /\ Call(op, arg, flag).arg = arg
<1>1. /\ Call(op, arg, flag) \in Requests /\ ~Call(op, arg, flag).done
      /\ Call(op, arg, flag).op = op /\ Call(op, arg, flag).arg = arg
  BY NewCall
<1>2. calls' \in Seq(Requests) /\ ToSet(calls') = ToSet(calls) \union {Call(op, arg, flag)}
  BY <1>1, Adding DEF Submit, ThreadTypeOK
<1>3. acts' \in Nat /\ busy' \subseteq Nexts
  BY DEF Submit, Act, ThreadTypeOK
<1>4. \A c \in ToSet(calls') : Formed(c)
  BY <1>2 DEF ThreadTypeOK
<1>5. QED
  BY <1>1, <1>2, <1>3, <1>4 DEF Submit, ThreadTypeOK

\* All that is sent: a message, a handoff, a note, or a change of the row.
LEMMA Sending ==
  ASSUME ThreadAssumption, ThreadTypeOK, Staff
  PROVE  /\ ThreadTypeOK'
         /\ UNCHANGED <<row, stored, wire, page, shown, newest, dim, lost>>
         /\ ToSet(calls) \subseteq ToSet(calls')
         /\ \A c \in ToSet(calls') \ ToSet(calls) : ~c.done
<1>1. /\ Posts \subseteq Args /\ BOOLEAN \subseteq Args /\ {"OPEN", "PENDING"} \subseteq Args
      /\ Ended \subseteq Args /\ Nobody \in Args
      /\ {Nobody, "sending", "saving", "assigning", "updatingStar"} \subseteq Nexts
      /\ {"message", "note", "handoff", "assign", "status", "star", "end"} \subseteq Ops
  BY DEF Args, Nexts, Ops
<1>2. ASSUME NEW op \in Ops, NEW arg \in Args, NEW flag \in Nexts
      PROVE  /\ Call(op, arg, flag).op = op /\ Call(op, arg, flag).arg = arg
  BY NewCall
<1>3. CASE sendMessage
  <2>1. PICK p \in Mine : Submit(IF p \in Messages THEN "message" ELSE "handoff", p, "sending", CanSend)
    BY <1>3 DEF sendMessage
  <2> DEFINE op == IF p \in Messages THEN "message" ELSE "handoff"
  <2>2. op \in Ops /\ p \in Args /\ "sending" \in Nexts
    BY <1>1 DEF ThreadAssumption
  <2>3. Formed(Call(op, p, "sending"))
    BY <1>2, <2>2 DEF Formed, ThreadAssumption, Posts
  <2>4. Submit(op, p, "sending", CanSend)
    BY <2>1
  <2> HIDE DEF op
  <2>5. QED
    BY <2>2, <2>3, <2>4, Submitting DEF Submit
<1>4. CASE addNote
  <2>1. PICK p \in Mine \intersect Notes : Submit("note", p, "saving", TRUE)
    BY <1>4 DEF addNote
  <2>2. p \in Args /\ Formed(Call("note", p, "saving"))
    BY <1>1, <1>2 DEF Formed, ThreadAssumption, Posts
  <2>3. QED
    BY <1>1, <2>1, <2>2, Submitting DEF Submit
<1>5. CASE onAssign
  <2>1. Formed(Call("assign", Nobody, "assigning"))
    BY <1>1, <1>2 DEF Formed
  <2>2. QED
    BY <1>1, <1>5, <2>1, Submitting DEF Submit, onAssign
<1>6. CASE handleToggleStar
  <2>1. PICK s \in BOOLEAN : Submit("star", s, "updatingStar", s = ~page.starred)
    BY <1>6 DEF handleToggleStar
  <2>2. Formed(Call("star", s, "updatingStar"))
    BY <1>1, <1>2 DEF Formed
  <2> DEFINE ready == s = ~page.starred
  <2>3. Submit("star", s, "updatingStar", ready) /\ s \in Args
    BY <1>1, <2>1
  <2> HIDE DEF ready
  <2>4. QED
    BY <1>1, <2>2, <2>3, Submitting DEF Submit
<1>7. CASE onStatusChange
  <2>1. PICK s \in {"OPEN", "PENDING"} :
          Submit("status", s, Nobody, page.status \notin Ended \union {s})
    BY <1>7 DEF onStatusChange
  <2>2. Formed(Call("status", s, Nobody))
    BY <1>1, <1>2 DEF Formed
  <2>3. QED
    BY <1>1, <2>1, <2>2, Submitting DEF Submit
<1>8. CASE handleEnd
  <2>1. PICK s \in Ended : Submit("end", s, Nobody, page.status # s)
    BY <1>8 DEF handleEnd
  <2>2. Formed(Call("end", s, Nobody))
    BY <1>1, <1>2 DEF Formed
  <2>3. QED
    BY <1>1, <2>1, <2>2, Submitting DEF Submit
<1>9. QED
  BY <1>3, <1>4, <1>5, <1>6, <1>7, <1>8 DEF Staff

\* What a request makes of the row.
LEMMA Writing ==
  ASSUME ThreadTypeOK, NEW c \in Requests, Formed(c),
         c.op \in {"handoff", "assign", "status", "star", "end"}
  PROVE  /\ [Wanted(c) EXCEPT !.n = @ + 1] \in Conversation
         /\ [Wanted(c) EXCEPT !.n = @ + 1].n = row.n + 1
         /\ c.op = "status" => [Wanted(c) EXCEPT !.n = @ + 1].status = c.arg
<1> DEFINE w == Wanted(c)
<1>1. row \in Conversation
  BY DEF ThreadTypeOK
<1>2. w \in Conversation /\ w.n = row.n /\ (c.op = "status" => w.status = c.arg)
  <2>1. CASE c.op \in {"assign", "handoff"}
    <3>1. w = [row EXCEPT !.holder = "other"]
      BY <2>1 DEF Wanted
    <3>2. QED
      BY <1>1, <2>1, <3>1 DEF Conversation, Holders
  <2>2. CASE c.op \in {"status", "end"}
    <3>1. w = [row EXCEPT !.status = c.arg]
      BY <2>2 DEF Wanted
    <3>2. c.arg \in {"OPEN", "PENDING"} \union Ended
      BY <2>2 DEF Formed
    <3>3. QED
      BY <1>1, <2>2, <3>1, <3>2 DEF Conversation
  <2>3. CASE c.op = "star"
    <3>1. w = [row EXCEPT !.starred = c.arg]
      BY <2>3 DEF Wanted
    <3>2. c.arg \in BOOLEAN
      BY <2>3 DEF Formed
    <3>3. QED
      BY <1>1, <2>3, <3>1, <3>2 DEF Conversation
  <2>4. QED
    BY <2>1, <2>2, <2>3
<1> HIDE DEF w
<1>3. /\ [w EXCEPT !.n = @ + 1] \in Conversation
      /\ [w EXCEPT !.n = @ + 1].n = row.n + 1
      /\ c.op = "status" => [w EXCEPT !.n = @ + 1].status = c.arg
  BY <1>1, <1>2 DEF Conversation
<1>4. QED
  BY <1>3 DEF w

\* What the server answers, and what becomes of the rows.
Answers(i, v) ==
  \E c \in ToSet(calls') :
    /\ c.done /\ c.value = v
    /\ c.op = calls[i].op /\ c.arg = calls[i].arg
    /\ ToSet(calls') \subseteq ToSet(calls) \union {c}
    /\ ToSet(calls) \subseteq ToSet(calls') \union {calls[i]}

LEMMA Served ==
  ASSUME ThreadAssumption, ThreadTypeOK, NEW i \in DOMAIN calls, Serve(i)
  PROVE  /\ ThreadTypeOK'
         /\ UNCHANGED <<page, shown, newest>>
         /\ lost \subseteq lost' /\ ToSet(wire) \subseteq ToSet(wire')
         /\ stored \subseteq stored'
         /\ \A p \in stored' \ stored : p \in lost' \/ p \in ToSet(wire')
         /\ dim => dim'
         /\ row' = row \/ (row'.n = row.n + 1 /\ dim')
         /\ ~calls[i].done
         /\ \E v : /\ Answers(i, v)
                   /\ calls[i].op = "load" => v = row /\ row' = row
                   /\ calls[i].op \in {"star", "status"} /\ v # Refused =>
                        v = row' /\ (calls[i].op = "status" => row'.status = calls[i].arg)
<1> DEFINE c == calls[i]
           Goal(v) == /\ row' \in Conversation /\ calls' \in Seq(Requests)
                      /\ \A d \in ToSet(calls') : Formed(d)
                      /\ wire' \in Seq(Events) /\ stored' \subseteq Posts /\ lost' \subseteq Posts
                      /\ lost \subseteq lost' /\ ToSet(wire) \subseteq ToSet(wire')
                      /\ stored \subseteq stored'
                      /\ \A p \in stored' \ stored : p \in lost' \/ p \in ToSet(wire')
                      /\ row' = row \/ row'.n = row.n + 1
                      /\ Answers(i, v)
                      /\ c.op = "load" => v = row /\ row' = row
                      /\ c.op \in {"star", "status"} /\ v # Refused =>
                           v = row' /\ (c.op = "status" => row'.status = c.arg)
<1>1. /\ c \in Requests /\ Formed(c) /\ calls \in Seq(Requests) /\ c.op \in Ops
      /\ row \in Conversation /\ wire \in Seq(Events) /\ stored \subseteq Posts
      /\ lost \subseteq Posts /\ ~c.done
  <2>1. c \in Requests /\ Formed(c) /\ c.op \in Ops
    BY CallType
  <2>2. ~c.done
    BY DEF Serve
  <2>3. QED
    BY <2>1, <2>2 DEF ThreadTypeOK, Events
<1>2. ASSUME NEW v \in Replies, Answered(i, v)
      PROVE  Answers(i, v) /\ calls' \in Seq(Requests) /\ (\A d \in ToSet(calls') : Formed(d))
  BY <1>2, Answering DEF Answers
<1>3. /\ Refused \in Replies /\ Conversation \subseteq Replies /\ SUBSET Posts \subseteq Replies
      /\ Posts \subseteq Replies
  BY DEF Replies
<1>4. \E v : Goal(v)
  <2>1. CASE ServeLoad(i)
    <3>1. Answered(i, row) /\ row \in Replies
      BY <1>1, <1>3, <2>1 DEF ServeLoad
    <3>2. Goal(row)
      BY <1>1, <1>2, <2>1, <3>1 DEF ServeLoad
    <3>3. QED
      BY <3>2
  <2>2. CASE ServeNotes(i)
    <3>1. Answered(i, stored \intersect Notes) /\ stored \intersect Notes \in Replies
      BY <1>1, <1>3, <2>2 DEF ServeNotes
    <3>2. Goal(stored \intersect Notes)
      BY <1>1, <1>2, <2>2, <3>1 DEF ServeNotes
    <3>3. QED
      BY <3>2
  <2>3. CASE ServeList(i)
    <3>1. PICK v \in Replies : Answered(i, v)
      BY <1>1, <1>3, <2>3 DEF ServeList
    <3>2. Goal(v)
      BY <1>1, <1>2, <2>3, <3>1 DEF ServeList
    <3>3. QED
      BY <3>2
  <2>4. CASE ServePost(i)
    <3>1. c.op \in {"message", "note"} /\ UNCHANGED row
      BY <2>4 DEF ServePost
    <3>2. c.arg \in Posts
      BY <1>1, <3>1 DEF Formed, Posts
    <3>3. CASE c.op = "message" /\ ~MaySend
      <4>1. Answered(i, Refused) /\ UNCHANGED <<stored, wire, lost>>
        BY <2>4, <3>3 DEF ServePost
      <4>2. Goal(Refused)
        BY <1>1, <1>2, <1>3, <3>1, <4>1
      <4>3. QED
        BY <4>2
    <3>4. CASE ~(c.op = "message" /\ ~MaySend)
      <4>1. PICK events \in {<<"updated", c.arg>>, <<c.arg>>} : Emit(events)
        BY <2>4, <3>4 DEF ServePost
      <4>2. stored' = stored \union {c.arg}
        BY <2>4, <3>4 DEF ServePost
      <4>3. PICK v \in Replies : Answered(i, v)
        BY <1>3, <2>4, <3>2, <3>4 DEF ServePost
      <4>4. events \in Seq(Events) /\ c.arg \in ToSet(events)
        <5>1. CASE events = <<c.arg>>
          BY <3>2, <5>1, SmallSets DEF Events
        <5>2. CASE events = <<"updated", c.arg>>
          BY <3>2, <5>2, SmallSets DEF Events
        <5>3. QED
          BY <4>1, <5>1, <5>2
      <4>5. Goal(v)
        BY <1>1, <1>2, <3>1, <3>2, <4>1, <4>2, <4>3, <4>4, Emitting
      <4>6. QED
        BY <4>5
    <3>5. QED
      BY <3>3, <3>4
  <2>5. CASE ServeChange(i)
    <3>1. c.op \in {"assign", "status", "star", "end"} /\ UNCHANGED <<stored, wire, lost>>
      BY <2>5 DEF ServeChange
    <3> DEFINE r == [Wanted(c) EXCEPT !.n = @ + 1]
    <3>2. r \in Conversation /\ r.n = row.n + 1 /\ (c.op = "status" => r.status = c.arg)
      BY <1>1, <3>1, Writing
    <3>3. \/ row' = r /\ Answered(i, r)
          \/ Answered(i, Refused) /\ UNCHANGED row
      BY <2>5 DEF ServeChange
    <3> HIDE DEF r
    <3>4. CASE row' = r /\ Answered(i, r)
      <4>1. r \in Replies
        BY <1>3, <3>2
      <4>2. Goal(r)
        BY <1>1, <1>2, <3>1, <3>2, <3>4, <4>1
      <4>3. QED
        BY <4>2
    <3>5. CASE Answered(i, Refused) /\ UNCHANGED row
      <4>1. Goal(Refused)
        BY <1>1, <1>2, <1>3, <3>1, <3>5
      <4>2. QED
        BY <4>1
    <3>6. QED
      BY <3>3, <3>4, <3>5
  <2>6. CASE ServeHandoff(i)
    <3>1. c.op = "handoff"
      BY <2>6 DEF ServeHandoff
    <3> DEFINE r == [Wanted(c) EXCEPT !.n = @ + 1]
    <3>2. r \in Conversation /\ r.n = row.n + 1
      BY <1>1, <3>1, Writing
    <3>3. \/ /\ row' = r /\ Answered(i, r) /\ stored' = stored \union {c.arg} /\ Emit(<<c.arg>>)
          \/ Answered(i, Refused) /\ UNCHANGED <<row, stored, wire, lost>>
      BY <2>6 DEF ServeHandoff
    <3> HIDE DEF r
    <3>4. CASE /\ row' = r /\ Answered(i, r) /\ stored' = stored \union {c.arg} /\ Emit(<<c.arg>>)
      <4>1. r \in Replies /\ c.arg \in Posts
        BY <1>1, <1>3, <3>1, <3>2 DEF Formed, Posts
      <4>2. <<c.arg>> \in Seq(Events) /\ c.arg \in ToSet(<<c.arg>>)
        BY <4>1, SmallSets DEF Events
      <4>3. Goal(r)
        BY <1>1, <1>2, <3>1, <3>2, <3>4, <4>1, <4>2, Emitting
      <4>4. QED
        BY <4>3
    <3>5. CASE Answered(i, Refused) /\ UNCHANGED <<row, stored, wire, lost>>
      <4>1. Goal(Refused)
        BY <1>1, <1>2, <1>3, <3>1, <3>5
      <4>2. QED
        BY <4>1
    <3>6. QED
      BY <3>3, <3>4, <3>5
  <2>7. QED
    BY <2>1, <2>2, <2>3, <2>4, <2>5, <2>6 DEF Serve
<1>5. PICK v : Goal(v)
  BY <1>4
<1>6. /\ UNCHANGED <<role, old, joined, page, shown, busy, newest, acts, failures>>
      /\ dim' = (dim \/ row' # row)
  BY DEF Serve
<1>7. ThreadTypeOK'
  BY <1>5, <1>6 DEF ThreadTypeOK, Events
<1>8. QED
  BY <1>1, <1>5, <1>6, <1>7

\* What an answer or a failure makes of the posts: nothing is shown twice, and
\* what is no longer shown is known to be missed.
Keeps ==
  /\ UNCHANGED <<role, row, stored, old, joined, wire, acts>>
  /\ shown' \in [Posts -> Nat] /\ lost' \subseteq Posts /\ busy' \subseteq Nexts
  /\ \A p \in Posts : shown'[p] <= 1 \/ p \in Mine \intersect Notes
  /\ \A p \in stored : shown[p] > 0 \/ p \in lost => shown'[p] > 0 \/ p \in lost'
Follow(i) ==
  /\ calls' \in Seq(Requests) /\ \A c \in ToSet(calls') : Formed(c)
  /\ ToSet(calls) \subseteq ToSet(calls') \union {calls[i]}
  /\ \A c \in ToSet(calls') \ ToSet(calls) : ~c.done

\* Whoever shows a row shows one that was stored: the loaded one, or a field.
ShowsRow(i) ==
  /\ calls[i].done
  /\ \E r :
       /\ Seen(r) /\ Shows(r) /\ page' \in Conversation \union {Nobody}
       /\ calls[i].op = "load" => r = calls[i].value /\ page' = r
       /\ page # Nobody /\ Same(page, row) /\ r = row => page' # Nobody /\ Same(page', row)
       /\ page = Nobody => calls[i].op = "load" \/ page' = Nobody
ShowsNoRow(i) ==
  UNCHANGED <<page, newest>> /\ dim' = (dim \/ calls[i].op = "load")

LEMMA Rests ==
  ASSUME ThreadTypeOK, NEW i \in DOMAIN calls, NEW t \in Seq(Requests), calls' = Rest(i) \o t,
         \A c \in ToSet(t) : ~c.done /\ Formed(c)
  PROVE  Follow(i)
BY Following DEF Follow

LEMMA RestsAlone ==
  ASSUME ThreadTypeOK, NEW i \in DOMAIN calls, calls' = Rest(i)
  PROVE  Follow(i)
<1>1. /\ Rest(i) \in Seq(Requests) /\ ToSet(Rest(i)) \subseteq ToSet(calls)
      /\ ToSet(calls) \subseteq ToSet(Rest(i)) \union {calls[i]}
  BY Removing DEF ThreadTypeOK, Rest
<1>2. QED
  BY <1>1 DEF Follow, ThreadTypeOK

LEMMA Failing ==
  ASSUME ThreadAssumption, ThreadTypeOK, OthersShownOnce, NEW i \in DOMAIN calls, Failed(i),
         UNCHANGED <<role, row, stored, old, joined, wire, acts>>
  PROVE  Keeps /\ Follow(i) /\ ShowsNoRow(i)
<1> DEFINE c == calls[i]
<1>1. c \in Requests /\ c.next \in Nexts /\ shown \in [Posts -> Nat]
  BY CallType DEF ThreadTypeOK
<1>2. \/ shown' = Once(shown, c.next)
      \/ shown' = shown
  BY DEF Failed, Show
<1>3. shown' \in [Posts -> Nat] /\ \A p \in Posts : shown'[p] <= 1 \/ p \in Mine \intersect Notes
  <2>1. CASE shown' = Once(shown, c.next)
    BY <1>1, <2>1, Showing DEF OthersShownOnce
  <2>2. CASE shown' = shown
    BY <1>1, <2>2 DEF OthersShownOnce
  <2>3. QED
    BY <1>2, <2>1, <2>2
<1>4. lost' = {p \in lost \union stored : shown'[p] = 0}
  BY DEF Failed, Account
<1>5. \A p \in stored : shown'[p] > 0 \/ p \in lost'
  BY <1>3, <1>4 DEF ThreadTypeOK
<1>6. busy' \subseteq Nexts
  BY DEF Failed, Finished, ThreadTypeOK
<1>7. lost' \subseteq Posts
  BY <1>4 DEF ThreadTypeOK
<1>8. Keeps
  BY <1>3, <1>5, <1>6, <1>7 DEF Keeps
<1>9. PICK t \in {<<Call("list", Nobody, "sending")>>, After(c.next), <<>>} : calls' = Rest(i) \o t
  BY DEF Failed
<1>10. t \in Seq(Requests) /\ \A d \in ToSet(t) : ~d.done /\ Formed(d)
  <2>1. ToSet(<<>>) = {} /\ <<>> \in Seq(Requests)
    BY SmallSets
  <2>2. QED
    BY <1>1, <1>9, <2>1, Follows
<1>11. Follow(i)
  BY <1>9, <1>10, Rests
<1>12. ShowsNoRow(i)
  BY DEF Failed, Show, ShowsNoRow
<1>13. QED
  BY <1>8, <1>11, <1>12

\* Answers that leave the posts alone.
LEMMA SameShown ==
  ASSUME ThreadTypeOK, OthersShownOnce, shown' = shown, Account({}), busy' \subseteq Nexts,
         UNCHANGED <<role, row, stored, old, joined, wire, acts>>
  PROVE  Keeps
<1>1. lost' = {p \in lost : shown[p] = 0}
  BY DEF Account
<1>2. QED
  BY <1>1 DEF Keeps, OthersShownOnce, ThreadTypeOK

LEMMA Loading ==
  ASSUME ThreadAssumption, ThreadTypeOK, AnswersSeen, OthersShownOnce, NEW i \in DOMAIN calls,
         calls[i].done, calls[i].value # Refused, ShowLoaded(i),
         UNCHANGED <<role, row, stored, old, joined, wire, acts>>
  PROVE  Keeps /\ Follow(i) /\ ShowsRow(i)
<1> DEFINE c == calls[i]
<1>1. /\ c.next \in Nexts /\ shown \in [Posts -> Nat] /\ c \in ToSet(calls) /\ c.op = "load"
  BY CallType DEF ThreadTypeOK, ShowLoaded
<1>2. Seen(c.value) /\ c.value \in Conversation
  BY <1>1 DEF AnswersSeen, Seen
<1>3. shown' = Once(shown, c.next) \/ shown' = shown
  BY DEF ShowLoaded, Show
<1>4. /\ shown' \in [Posts -> Nat] /\ \A p \in Posts : shown'[p] <= 1 \/ p \in Mine \intersect Notes
      /\ \A p \in Posts : shown[p] > 0 => shown'[p] > 0
  <2>1. CASE shown' = Once(shown, c.next)
    BY <1>1, <2>1, Showing DEF OthersShownOnce
  <2>2. CASE shown' = shown
    BY <1>1, <2>2 DEF OthersShownOnce
  <2>3. QED
    BY <1>3, <2>1, <2>2
<1>5. lost' = {p \in lost : shown'[p] = 0} /\ busy' \subseteq Nexts
  BY DEF ShowLoaded, Account, Finished, ThreadTypeOK
<1>6. Keeps
  BY <1>4, <1>5 DEF Keeps, ThreadTypeOK
<1>7. calls' = (Rest(i) \o ReloadNotes) \o After(c.next)
  BY DEF ShowLoaded
<1>8. /\ ReloadNotes \in Seq(Requests) /\ After(c.next) \in Seq(Requests)
      /\ \A d \in ToSet(ReloadNotes) \union ToSet(After(c.next)) : ~d.done /\ Formed(d)
  BY <1>1, Follows
<1>9. /\ Rest(i) \in Seq(Requests) /\ ToSet(Rest(i)) \subseteq ToSet(calls)
      /\ ToSet(calls) \subseteq ToSet(Rest(i)) \union {calls[i]}
  BY Removing DEF ThreadTypeOK, Rest
<1>10. /\ Rest(i) \o ReloadNotes \in Seq(Requests)
       /\ ToSet(Rest(i) \o ReloadNotes) = ToSet(Rest(i)) \union ToSet(ReloadNotes)
  BY <1>8, <1>9, Joining
<1>11. /\ calls' \in Seq(Requests)
       /\ ToSet(calls') = ToSet(Rest(i) \o ReloadNotes) \union ToSet(After(c.next))
  <2> DEFINE a == Rest(i) \o ReloadNotes
             b == After(c.next)
  <2>1. a \in Seq(Requests) /\ b \in Seq(Requests) /\ calls' = a \o b
    BY <1>7, <1>8, <1>10
  <2> HIDE DEF a, b
  <2>2. calls' \in Seq(Requests) /\ ToSet(calls') = ToSet(a) \union ToSet(b)
    BY <2>1, Joining
  <2>3. QED
    BY <2>2 DEF a, b
<1>12. Follow(i)
  BY <1>8, <1>9, <1>10, <1>11 DEF Follow, ThreadTypeOK
<1>13. ShowsRow(i)
  <2>1. Shows(c.value) /\ page' = c.value
    BY DEF ShowLoaded, Show
  <2>2. page' # Nobody
    BY <1>2, <2>1 DEF ThreadAssumption
  <2>3. c.value = row => Same(page', row)
    BY <2>1 DEF Same
  <2>4. QED
    BY <1>1, <1>2, <2>1, <2>2, <2>3 DEF ShowsRow
<1>14. QED
  BY <1>6, <1>12, <1>13

LEMMA Changing ==
  ASSUME ThreadAssumption, ThreadTypeOK, AnswersSeen, OthersShownOnce, NEW i \in DOMAIN calls,
         calls[i].done, calls[i].value # Refused, ShowChanged(i),
         UNCHANGED <<role, row, stored, old, joined, wire, acts>>
  PROVE  Keeps /\ Follow(i) /\ ShowsRow(i)
<1> DEFINE c == calls[i]
<1>1. c.op \in {"star", "status"} /\ c \in ToSet(calls) /\ shown' = shown /\ c.next \in Nexts
  BY CallType DEF ShowChanged, Show
<1>2. Seen(c.value) /\ c.value \in Conversation /\ (c.op = "status" => c.value.status = c.arg)
  BY <1>1 DEF AnswersSeen, Seen
<1>3. busy' \subseteq Nexts /\ Account({})
  BY DEF ShowChanged, ThreadTypeOK
<1>4. Keeps
  BY <1>1, <1>3, SameShown
<1>5. PICK t \in {ReloadNotes, <<>>} : calls' = Rest(i) \o t
  BY DEF ShowChanged
<1>6. t \in Seq(Requests) /\ \A d \in ToSet(t) : ~d.done /\ Formed(d)
  <2>1. ToSet(<<>>) = {} /\ <<>> \in Seq(Requests)
    BY SmallSets
  <2>2. QED
    BY <1>1, <1>5, <2>1, Follows
<1>7. Follow(i)
  BY <1>5, <1>6, Rests
<1>8. page' = IF page = Nobody THEN page
              ELSE IF c.op = "star" THEN [page EXCEPT !.starred = c.value.starred]
              ELSE [page EXCEPT !.status = c.arg]
  BY DEF ShowChanged, Show
<1>9. ASSUME page # Nobody
      PROVE  /\ page' \in Conversation
             /\ Same(page, row) /\ c.value = row => Same(page', row)
  <2>1. page \in Conversation
    BY <1>9 DEF ThreadTypeOK
  <2>2. CASE c.op = "star"
    <3>1. page' = [page EXCEPT !.starred = c.value.starred]
      BY <1>8, <1>9, <2>2
    <3>2. QED
      BY <1>2, <2>1, <3>1 DEF Conversation, Same
  <2>3. CASE c.op = "status"
    <3>1. page' = [page EXCEPT !.status = c.value.status]
      BY <1>2, <1>8, <1>9, <2>3
    <3>2. QED
      BY <1>2, <2>1, <3>1 DEF Conversation, Same
  <2>4. QED
    BY <1>1, <2>2, <2>3
<1>10. ShowsRow(i)
  <2>1. Shows(c.value)
    BY DEF ShowChanged
  <2>2. page = Nobody => page' = Nobody
    BY <1>8
  <2>3. page # Nobody => page' # Nobody
    BY <1>9 DEF ThreadAssumption
  <2>4. QED
    BY <1>1, <1>2, <1>9, <2>1, <2>2, <2>3 DEF ShowsRow
<1>11. QED
  BY <1>4, <1>7, <1>10

LEMMA Listing ==
  ASSUME ThreadAssumption, ThreadTypeOK, OthersShownOnce, NEW i \in DOMAIN calls, ShowList(i),
         UNCHANGED <<role, row, stored, old, joined, wire, acts>>
  PROVE  Keeps /\ Follow(i) /\ ShowsNoRow(i)
<1> DEFINE c == calls[i]
           missed == ((IF c.op = "list" THEN old ELSE Notes) \intersect stored) \ c.value
<1>1. c.op \in {"list", "notes"} /\ shown \in [Posts -> Nat]
  BY DEF ShowList, ThreadTypeOK
<1>2. shown' \in [Posts -> Nat] /\ \A p \in Posts : shown'[p] <= 1 \/ p \in Mine \intersect Notes
  <2>1. CASE c.op = "list"
    <3>1. shown' = Merged(c.value)
      BY <2>1 DEF ShowList, Show
    <3>2. QED
      BY <1>1, <3>1 DEF Merged, OthersShownOnce
  <2>2. CASE c.op = "notes"
    <3>1. shown' = Replaced(c.value)
      BY <2>2 DEF ShowList, Show
    <3>2. QED
      BY <1>1, <3>1 DEF Replaced, OthersShownOnce
  <2>3. QED
    BY <1>1, <2>1, <2>2
<1>3. ASSUME NEW p \in stored, shown[p] > 0, ~(shown'[p] > 0) PROVE p \in missed
  <2>1. p \in Posts /\ shown'[p] = 0
    BY <1>2, <1>3 DEF ThreadTypeOK
  <2>2. CASE c.op = "list"
    <3>1. shown' = Merged(c.value)
      BY <2>2 DEF ShowList, Show
    <3>2. p \notin c.value /\ p \in old
      BY <1>1, <1>3, <2>1, <3>1 DEF Merged
    <3>3. QED
      BY <2>2, <3>2
  <2>3. CASE c.op = "notes"
    <3>1. shown' = Replaced(c.value)
      BY <2>3 DEF ShowList, Show
    <3>2. p \notin c.value /\ p \in Notes
      BY <1>1, <1>3, <2>1, <3>1 DEF Replaced
    <3>3. QED
      BY <2>3, <3>2
  <2>4. QED
    BY <1>1, <2>2, <2>3
<1>4. lost' = {p \in lost \union missed : shown'[p] = 0}
  BY DEF ShowList, Account
<1>5. missed \subseteq stored
  OBVIOUS
<1> HIDE DEF missed
<1>6. \A p \in stored : shown[p] > 0 \/ p \in lost => shown'[p] > 0 \/ p \in lost'
  BY <1>2, <1>3, <1>4 DEF ThreadTypeOK
<1>7. busy' \subseteq Nexts /\ calls' = Rest(i)
  BY DEF ShowList, ThreadTypeOK
<1>8. Keeps
  BY <1>2, <1>4, <1>5, <1>6, <1>7 DEF Keeps, ThreadTypeOK
<1>9. Follow(i)
  BY <1>7, RestsAlone
<1>10. ShowsNoRow(i)
  BY <1>1 DEF ShowList, Show, ShowsNoRow, ThreadTypeOK
<1>11. QED
  BY <1>8, <1>9, <1>10

LEMMA Writes ==
  ASSUME ThreadAssumption, ThreadTypeOK, OthersShownOnce, NEW i \in DOMAIN calls, AfterWrite(i),
         UNCHANGED <<role, row, stored, old, joined, wire, acts>>
  PROVE  Keeps /\ Follow(i) /\ ShowsNoRow(i)
<1> DEFINE c == calls[i]
           next == IF c.op = "message" THEN c.arg ELSE c.next
<1>1. Keeps
  BY SameShown DEF AfterWrite, Show, ThreadTypeOK
<1>2. next \in Nexts
  BY CallType DEF Formed, Nexts, Posts
<1>3. calls' = Rest(i) \o Reload(next)
  BY DEF AfterWrite
<1> HIDE DEF next
<1>4. Follow(i)
  BY <1>2, <1>3, Follows, Rests
<1>5. ShowsNoRow(i)
  BY DEF AfterWrite, Show, ShowsNoRow, ThreadTypeOK
<1>6. QED
  BY <1>1, <1>4, <1>5

LEMMA Noting ==
  ASSUME ThreadAssumption, ThreadTypeOK, OthersShownOnce, NEW i \in DOMAIN calls, ShowNote(i),
         UNCHANGED <<role, row, stored, old, joined, wire, acts>>
  PROVE  Keeps /\ Follow(i) /\ ShowsNoRow(i)
<1> DEFINE p == calls[i].arg
<1>1. p \in Mine \intersect Notes /\ p \in Posts
  BY CallType DEF ShowNote, Formed, Posts
<1>2. shown' = [shown EXCEPT ![p] = @ + 1] /\ shown \in [Posts -> Nat]
  BY DEF ShowNote, Show, ThreadTypeOK
<1> HIDE DEF p
<1>3. /\ shown' \in [Posts -> Nat] /\ \A q \in Posts : shown'[q] <= 1 \/ q \in Mine \intersect Notes
      /\ \A q \in Posts : shown[q] > 0 => shown'[q] > 0
  BY <1>1, <1>2 DEF OthersShownOnce
<1>4. lost' = {q \in lost : shown'[q] = 0} /\ busy' \subseteq Nexts
  BY DEF ShowNote, Account, ThreadTypeOK
<1>5. Keeps
  BY <1>3, <1>4 DEF Keeps, ThreadTypeOK
<1>6. Follow(i)
  BY RestsAlone DEF ShowNote
<1>7. ShowsNoRow(i)
  BY DEF ShowNote, Show, ShowsNoRow, ThreadTypeOK
<1>8. QED
  BY <1>5, <1>6, <1>7

\* Every answer and every failure.
LEMMA Used ==
  ASSUME ThreadAssumption, ThreadTypeOK, AnswersSeen, OthersShownOnce, NEW i \in DOMAIN calls,
         Answer(i) \/ Fail(i)
  PROVE  /\ ThreadTypeOK' /\ OthersShownOnce'
         /\ Keeps /\ Follow(i) /\ (ShowsRow(i) \/ ShowsNoRow(i))
<1>1. UNCHANGED <<role, row, stored, old, joined, wire, acts>> /\ failures' \in Nat
  BY DEF Answer, Fail, ThreadTypeOK
<1>2. Keeps /\ Follow(i) /\ (ShowsRow(i) \/ ShowsNoRow(i))
  <2>1. CASE Failed(i)
    BY <1>1, <2>1, Failing
  <2>2. CASE /\ calls[i].done /\ calls[i].value # Refused
             /\ ShowLoaded(i) \/ ShowChanged(i) \/ ShowList(i) \/ AfterWrite(i) \/ ShowNote(i)
    BY <1>1, <2>2, Loading, Changing, Listing, Writes, Noting
  <2>3. QED
    BY <2>1, <2>2 DEF Answer, Fail
<1>3. /\ page' \in Conversation \union {Nobody} /\ newest' \in Nat /\ dim' \in BOOLEAN
  <2>1. CASE ShowsRow(i)
    <3>1. PICK r : Seen(r) /\ Shows(r) /\ page' \in Conversation \union {Nobody}
      BY <2>1 DEF ShowsRow
    <3>2. r.n \in Nat
      BY <3>1 DEF Seen, Conversation
    <3>3. QED
      BY <3>1, <3>2 DEF Shows, ThreadTypeOK
  <2>2. CASE ShowsNoRow(i)
    BY <2>2 DEF ShowsNoRow, ThreadTypeOK
  <2>3. QED
    BY <1>2, <2>1, <2>2
<1>4. ThreadTypeOK'
  BY <1>1, <1>2, <1>3 DEF ThreadTypeOK, Keeps, Follow
<1>5. OthersShownOnce'
  BY <1>2 DEF OthersShownOnce, Keeps
<1>6. QED
  BY <1>2, <1>4, <1>5
-----------------------------------------------------------------------------
(***************************************************************************)
(* Posts are shown, and the row is current                                 *)
(***************************************************************************)
\* What holds in every reachable state, in one inductive invariant.
ThreadInv == ThreadTypeOK /\ OthersShownOnce /\ StoredIsComing /\ AnswersSeen /\ CurrentOrComing

LEMMA InitThread ==
  ASSUME ThreadAssumption, ThreadInit
  PROVE  ThreadInv
<1> DEFINE load == Call("load", Nobody, Nobody)
           list == Call("list", Nobody, Nobody)
<1>1. /\ load \in Requests /\ ~load.done /\ load.op = "load"
      /\ list \in Requests /\ ~list.done /\ list.op = "list"
  <2>1. {"load", "list"} \subseteq Ops /\ Nobody \in Args /\ Nobody \in Nexts
    BY DEF Ops, Args, Nexts
  <2>2. QED
    BY <2>1, NewCall
<1>2. calls = <<load, list>>
  BY DEF ThreadInit
<1> HIDE DEF load, list
<1>3. calls \in Seq(Requests) /\ ToSet(calls) = {load, list}
  BY <1>1, <1>2, SmallSets
<1>4. Formed(load) /\ Formed(list)
  BY <1>1 DEF Formed
<1>5. row \in Conversation /\ row.n = 0
  <2>1. row \in [status : {"OPEN"}, holder : {"me", Nobody}, starred : {FALSE}, n : {0}]
    BY DEF ThreadInit
  <2>2. row = [status |-> row.status, holder |-> row.holder, starred |-> row.starred, n |-> row.n]
    BY <2>1
  <2>3. /\ row.status = "OPEN" /\ row.holder \in {"me", Nobody}
        /\ row.starred \in {FALSE} /\ row.n = 0
    BY <2>1
  <2>4. /\ row.status \in {"OPEN", "PENDING"} \union Ended /\ row.holder \in Holders
        /\ row.starred \in BOOLEAN /\ row.n \in Nat
    <3>1. row.starred \in BOOLEAN
      BY <2>3, Zenon
    <3>2. QED
      BY <2>3, <3>1 DEF Holders
  <2>5. row \in Conversation
    BY <2>2, <2>4 DEF Conversation
  <2>6. QED
    BY <2>3, <2>5
<1>6. ThreadTypeOK
  <2>1. /\ role \in {"ADMIN", "AGENT"} /\ stored = {} /\ lost = {} /\ old = {}
        /\ joined = FALSE /\ wire = <<>> /\ page = Nobody /\ busy = {}
        /\ newest = 0 /\ dim = FALSE /\ acts = 0 /\ failures = 0
        /\ shown = [p \in Posts |-> 0]
    BY DEF ThreadInit
  <2>2. wire \in Seq(Posts \union {"updated"}) /\ shown \in [Posts -> Nat]
    BY <2>1
  <2>3. QED
    BY <1>3, <1>4, <1>5, <2>1, <2>2 DEF ThreadTypeOK
<1>7. OthersShownOnce /\ StoredIsComing
  BY DEF ThreadInit, OthersShownOnce, StoredIsComing
<1>8. AnswersSeen
  BY <1>1, <1>3, <1>5 DEF AnswersSeen, ThreadInit
<1>9. CurrentOrComing
  BY <1>1, <1>3 DEF CurrentOrComing, Coming
<1>10. QED
  BY <1>6, <1>7, <1>8, <1>9 DEF ThreadInv

\* A step that leaves the requests, the row and what is shown of it.
LEMMA StillCurrent ==
  ASSUME AnswersSeen, CurrentOrComing, UNCHANGED <<row, calls, page, newest>>,
         "updated" \in ToSet(wire) => "updated" \in ToSet(wire') \/ dim', dim => dim'
  PROVE  AnswersSeen' /\ CurrentOrComing'
<1>1. AnswersSeen'
  BY DEF AnswersSeen, Seen
<1>2. CurrentOrComing'
  BY DEF CurrentOrComing, Current, Coming
<1>3. QED
  BY <1>1, <1>2

\* A change of the row makes all that was read older.
LEMMA RowChanges ==
  ASSUME ThreadTypeOK, AnswersSeen, row' \in Conversation, row'.n = row.n + 1,
         newest' = newest, calls' = calls
  PROVE  AnswersSeen'
<1>1. row.n \in Nat /\ newest \in Nat
  BY DEF ThreadTypeOK, Conversation
<1>2. ASSUME NEW r, Seen(r) PROVE Seen(r)'
  BY <1>1, <1>2 DEF Seen, Conversation
<1>3. QED
  BY <1>1, <1>2 DEF AnswersSeen

LEMMA ElsewhereInv ==
  ASSUME ThreadAssumption, ThreadInv, Elsewhere
  PROVE  ThreadInv'
<1>1. ASSUME NEW p \in Posts, Post(p) PROVE ThreadInv'
  <2> DEFINE events == IF p \in Messages THEN <<"updated", p>> ELSE <<p>>
  <2>1. events \in Seq(Events) /\ p \in ToSet(events)
    <3>1. <<"updated", p>> \in Seq(Events) /\ <<p>> \in Seq(Events)
      BY DEF Events
    <3>2. QED
      BY <3>1, SmallSets
  <2>2. Emit(events)
    BY <1>1 DEF Post
  <2> HIDE DEF events
  <2>3. /\ wire' \in Seq(Events) /\ lost' \subseteq Posts
        /\ ToSet(wire) \subseteq ToSet(wire') /\ lost \subseteq lost'
        /\ p \in lost' \/ p \in ToSet(wire')
    BY <2>1, <2>2, Emitting DEF ThreadInv
  <2>4. ThreadTypeOK'
    BY <1>1, <2>3 DEF ThreadInv, ThreadTypeOK, Post, Act, Events
  <2>5. OthersShownOnce' /\ StoredIsComing'
    BY <1>1, <2>3 DEF ThreadInv, Post, OthersShownOnce, StoredIsComing
  <2>6. AnswersSeen' /\ CurrentOrComing'
    BY <1>1, <2>3, StillCurrent DEF ThreadInv, Post
  <2>7. QED
    BY <2>4, <2>5, <2>6 DEF ThreadInv
<1>2. ASSUME NEW p \in Posts, Age(p) PROVE ThreadInv'
  <2>1. ThreadTypeOK'
    BY <1>2 DEF ThreadInv, ThreadTypeOK, Age, pageVars
  <2>2. OthersShownOnce' /\ StoredIsComing'
    BY <1>2 DEF ThreadInv, Age, pageVars, OthersShownOnce, StoredIsComing
  <2>3. AnswersSeen' /\ CurrentOrComing'
    BY <1>2, StillCurrent DEF ThreadInv, Age, pageVars
  <2>4. QED
    BY <2>1, <2>2, <2>3 DEF ThreadInv
<1>3. ASSUME NEW s \in {"OPEN", "CLOSED"},
             ChangeQuietly([row EXCEPT !.status = s, !.holder = "me"])
      PROVE  ThreadInv'
  <2> DEFINE r == [row EXCEPT !.status = s, !.holder = "me"]
  <2>1. row' = [r EXCEPT !.n = row.n + 1] /\ row \in Conversation
    BY <1>3 DEF ChangeQuietly, ThreadInv, ThreadTypeOK
  <2>2. r \in Conversation
    BY <2>1 DEF Conversation, Holders, Ended
  <2> HIDE DEF r
  <2>3. row' \in Conversation /\ row'.n = row.n + 1
    BY <2>1, <2>2 DEF Conversation
  <2>4. dim' = TRUE /\ acts' \in Nat
        /\ UNCHANGED <<role, stored, old, joined, wire, calls, page, shown, busy, newest, lost, failures>>
    BY <1>3 DEF ChangeQuietly, Act, ThreadInv, ThreadTypeOK
  <2>5. ThreadTypeOK'
    BY <2>3, <2>4 DEF ThreadInv, ThreadTypeOK
  <2>6. OthersShownOnce' /\ StoredIsComing'
    BY <2>4 DEF ThreadInv, OthersShownOnce, StoredIsComing
  <2>7. AnswersSeen' /\ CurrentOrComing'
    BY <2>3, <2>4, RowChanges DEF ThreadInv, CurrentOrComing
  <2>8. QED
    BY <2>5, <2>6, <2>7 DEF ThreadInv
<1>4. ASSUME NEW holder \in {"me", "other"}, RouteTo(holder) PROVE ThreadInv'
  <2>1. row' = [row EXCEPT !.holder = holder, !.n = @ + 1] /\ row \in Conversation
    BY <1>4 DEF RouteTo, ThreadInv, ThreadTypeOK
  <2>2. row' \in Conversation /\ row'.n = row.n + 1
    <3> DEFINE r == [row EXCEPT !.holder = holder]
    <3>1. r \in Conversation /\ r.n = row.n
      BY <2>1 DEF Conversation, Holders
    <3>2. row' = [r EXCEPT !.n = @ + 1]
      BY <2>1 DEF Conversation
    <3> HIDE DEF r
    <3>3. QED
      BY <3>1, <3>2 DEF Conversation
  <2>3. <<"updated">> \in Seq(Events) /\ ToSet(<<"updated">>) = {"updated"}
    BY SmallSets DEF Events
  <2>4. Emit(<<"updated">>)
    BY <1>4 DEF RouteTo
  <2>5. /\ wire' \in Seq(Events) /\ lost' \subseteq Posts
        /\ ToSet(wire) \subseteq ToSet(wire') /\ lost \subseteq lost'
        /\ joined => "updated" \in ToSet(wire')
    BY <2>3, <2>4, Emitting DEF ThreadInv
  <2>6. dim' = (dim \/ ~joined) /\ acts' \in Nat
        /\ UNCHANGED <<role, stored, old, joined, calls, page, shown, busy, newest, failures>>
    BY <1>4 DEF RouteTo, Act, ThreadInv, ThreadTypeOK
  <2>7. ThreadTypeOK'
    BY <2>2, <2>5, <2>6 DEF ThreadInv, ThreadTypeOK, Events
  <2>8. OthersShownOnce' /\ StoredIsComing'
    BY <2>5, <2>6 DEF ThreadInv, OthersShownOnce, StoredIsComing
  <2>9. AnswersSeen' /\ CurrentOrComing'
    BY <2>2, <2>5, <2>6, RowChanges DEF ThreadInv, CurrentOrComing, Coming
  <2>10. QED
    BY <2>7, <2>8, <2>9 DEF ThreadInv
<1>5. QED
  BY <1>1, <1>2, <1>3, <1>4 DEF Elsewhere

LEMMA StaffInv ==
  ASSUME ThreadAssumption, ThreadInv, Staff
  PROVE  ThreadInv'
<1>1. /\ ThreadTypeOK'
      /\ UNCHANGED <<row, stored, wire, page, shown, newest, dim, lost>>
      /\ ToSet(calls) \subseteq ToSet(calls')
      /\ \A c \in ToSet(calls') \ ToSet(calls) : ~c.done
  BY Sending DEF ThreadInv
<1>2. OthersShownOnce' /\ StoredIsComing'
  BY <1>1 DEF ThreadInv, OthersShownOnce, StoredIsComing
<1>3. AnswersSeen'
  BY <1>1 DEF ThreadInv, AnswersSeen, Seen
<1>4. CurrentOrComing'
  BY <1>1 DEF ThreadInv, CurrentOrComing, Current, Coming
<1>5. QED
  BY <1>1, <1>2, <1>3, <1>4 DEF ThreadInv

LEMMA SocketInv ==
  ASSUME ThreadAssumption, ThreadInv, Deliver \/ Join \/ Drop
  PROVE  ThreadInv'
<1>1. CASE Deliver
  <2> DEFINE h == Head(wire)
  <2>1. /\ wire # <<>> /\ wire' = Tail(wire) /\ page' = page /\ lost' = {p \in lost : shown'[p] = 0}
        /\ shown' = IF h \in Posts THEN Once(shown, h) ELSE shown
        /\ calls' = IF h \in Notes THEN calls ELSE calls \o Reload(Nobody)
        /\ UNCHANGED <<role, row, stored, old, joined, busy, newest, dim, acts, failures>>
    BY <1>1 DEF Deliver, Show, Account
  <2>2. /\ wire' \in Seq(Events) /\ h \in Events /\ ToSet(wire) = {h} \union ToSet(wire')
    BY <2>1, Taking DEF ThreadInv, ThreadTypeOK, Events
  <2> HIDE DEF h
  <2>3. /\ shown' \in [Posts -> Nat] /\ \A p \in Posts : shown'[p] <= 1 \/ p \in Mine \intersect Notes
        /\ \A p \in Posts : shown[p] > 0 \/ p = h => shown'[p] > 0
    BY <2>1, Showing DEF ThreadInv, ThreadTypeOK, OthersShownOnce
  <2>4. /\ calls' \in Seq(Requests) /\ \A c \in ToSet(calls') : Formed(c)
        /\ ToSet(calls) \subseteq ToSet(calls')
        /\ \A c \in ToSet(calls') \ ToSet(calls) : ~c.done
        /\ h = "updated" => Call("load", Nobody, Nobody) \in ToSet(calls')
    <3>1. CASE h \in Notes
      BY <2>1, <3>1 DEF ThreadInv, ThreadTypeOK, ThreadAssumption, Posts
    <3>2. CASE h \notin Notes
      <4>1. /\ Reload(Nobody) \in Seq(Requests) /\ \A c \in ToSet(Reload(Nobody)) : ~c.done /\ Formed(c)
            /\ Call("load", Nobody, Nobody) \in ToSet(Reload(Nobody))
        BY Follows DEF Nexts
      <4>2. calls' \in Seq(Requests) /\ ToSet(calls') = ToSet(calls) \union ToSet(Reload(Nobody))
        BY <2>1, <3>2, <4>1, Joining DEF ThreadInv, ThreadTypeOK
      <4>3. QED
        BY <4>1, <4>2 DEF ThreadInv, ThreadTypeOK
    <3>3. QED
      BY <3>1, <3>2
  <2>5. ThreadTypeOK'
    BY <2>1, <2>2, <2>3, <2>4 DEF ThreadInv, ThreadTypeOK, Events
  <2>6. OthersShownOnce'
    BY <2>3 DEF OthersShownOnce
  <2>7. StoredIsComing'
    <3>1. ASSUME NEW p \in stored, ~(shown'[p] > 0), p \notin lost' PROVE p \in ToSet(wire')
      <4>1. p \in Posts /\ p \notin lost /\ ~(shown[p] > 0) /\ p # h
        BY <2>1, <2>3, <3>1 DEF ThreadInv, ThreadTypeOK
      <4>2. QED
        BY <2>2, <4>1 DEF ThreadInv, StoredIsComing
    <3>2. QED
      BY <2>1, <3>1 DEF StoredIsComing
  <2>8. AnswersSeen'
    BY <2>1, <2>4 DEF ThreadInv, AnswersSeen, Seen
  <2>9. CurrentOrComing'
    <3>1. CASE "updated" \in ToSet(wire) /\ h = "updated"
      <4>1. /\ Call("load", Nobody, Nobody).op = "load" /\ ~Call("load", Nobody, Nobody).done
        BY DEF Call
      <4>2. QED
        BY <2>4, <3>1, <4>1 DEF CurrentOrComing, Coming
    <3>2. CASE ~("updated" \in ToSet(wire) /\ h = "updated")
      BY <2>1, <2>2, <2>4, <3>2 DEF ThreadInv, CurrentOrComing, Current, Coming
    <3>3. QED
      BY <3>1, <3>2
  <2>10. QED
    BY <2>5, <2>6, <2>7, <2>8, <2>9 DEF ThreadInv
<1>2. CASE Join
  <2>1. ThreadTypeOK'
    BY <1>2 DEF ThreadInv, ThreadTypeOK, Join, pageVars
  <2>2. OthersShownOnce' /\ StoredIsComing'
    BY <1>2 DEF ThreadInv, Join, pageVars, OthersShownOnce, StoredIsComing
  <2>3. AnswersSeen' /\ CurrentOrComing'
    BY <1>2, StillCurrent DEF ThreadInv, Join, pageVars
  <2>4. QED
    BY <2>1, <2>2, <2>3 DEF ThreadInv
<1>3. CASE Drop
  <2>1. /\ wire' = <<>> /\ joined' = FALSE /\ failures' \in Nat
        /\ lost' = lost \union {p \in ToSet(wire) \intersect Posts : shown[p] = 0}
        /\ dim' = (dim \/ "updated" \in ToSet(wire))
        /\ UNCHANGED <<role, row, stored, old, calls, page, shown, busy, newest, acts>>
    BY <1>3 DEF Drop, ThreadInv, ThreadTypeOK
  <2>2. ThreadTypeOK'
    <3>1. wire' \in Seq(Events) /\ lost' \subseteq Posts
      BY <2>1 DEF ThreadInv, ThreadTypeOK
    <3>2. QED
      BY <2>1, <3>1 DEF ThreadInv, ThreadTypeOK, Events
  <2>3. OthersShownOnce'
    BY <2>1 DEF ThreadInv, OthersShownOnce
  <2>4. StoredIsComing'
    <3>1. ASSUME NEW p \in stored PROVE shown[p] > 0 \/ p \in lost'
      <4>1. p \in Posts /\ shown[p] \in Nat
        BY DEF ThreadInv, ThreadTypeOK
      <4>2. QED
        BY <2>1, <4>1 DEF ThreadInv, StoredIsComing
    <3>2. QED
      BY <2>1, <3>1 DEF StoredIsComing
  <2>5. AnswersSeen' /\ CurrentOrComing'
    BY <2>1, StillCurrent DEF ThreadInv
  <2>6. QED
    BY <2>2, <2>3, <2>4, <2>5 DEF ThreadInv
<1>4. QED
  BY <1>1, <1>2, <1>3

LEMMA ServeInv ==
  ASSUME ThreadAssumption, ThreadInv, NEW i \in DOMAIN calls, Serve(i)
  PROVE  ThreadInv'
<1>1. ThreadTypeOK /\ AnswersSeen /\ ThreadTypeOK' /\ UNCHANGED <<page, shown, newest>>
      /\ calls[i] \in ToSet(calls)
  BY Served, CallType DEF ThreadInv
<1>2. /\ lost \subseteq lost' /\ ToSet(wire) \subseteq ToSet(wire')
      /\ stored \subseteq stored'
      /\ \A p \in stored' \ stored : p \in lost' \/ p \in ToSet(wire')
      /\ dim => dim'
      /\ row' = row \/ (row'.n = row.n + 1 /\ dim')
      /\ ~calls[i].done
  BY Served DEF ThreadInv
<1>3. PICK v : /\ Answers(i, v)
               /\ calls[i].op = "load" => v = row /\ row' = row
               /\ calls[i].op \in {"star", "status"} /\ v # Refused =>
                    v = row' /\ (calls[i].op = "status" => row'.status = calls[i].arg)
  BY Served DEF ThreadInv
<1>4. PICK c \in ToSet(calls') :
        /\ c.done /\ c.value = v
        /\ c.op = calls[i].op /\ c.arg = calls[i].arg
        /\ ToSet(calls') \subseteq ToSet(calls) \union {c}
        /\ ToSet(calls) \subseteq ToSet(calls') \union {calls[i]}
  BY <1>3 DEF Answers
<1>5. OthersShownOnce' /\ StoredIsComing'
  BY <1>1, <1>2 DEF ThreadInv, OthersShownOnce, StoredIsComing
<1>6. row \in Conversation /\ row' \in Conversation /\ row.n \in Nat /\ newest \in Nat
  BY <1>1 DEF ThreadTypeOK, Conversation
<1>7. ASSUME NEW r, Seen(r) PROVE Seen(r)'
  BY <1>2, <1>6, <1>7 DEF Seen, Conversation
<1>8. \A r : r = row' => Seen(r)'
  BY <1>6 DEF Seen, Conversation
<1>9. AnswersSeen'
  <2>1. newest' <= row'.n
    BY <1>1, <1>2, <1>6 DEF AnswersSeen
  <2>2. ASSUME NEW d \in ToSet(calls'), d.done, d.value # Refused,
               d.op \in {"load", "star", "status"}
        PROVE  Seen(d.value)' /\ (d.op = "status" => d.value.status = d.arg)
    <3>1. CASE d = c
      BY <1>3, <1>4, <1>8, <2>2, <3>1
    <3>2. CASE d # c
      BY <1>1, <1>4, <1>7, <2>2, <3>2 DEF AnswersSeen
    <3>3. QED
      BY <3>1, <3>2
  <2>3. QED
    BY <2>1, <2>2 DEF AnswersSeen
<1>10. CurrentOrComing'
  <2>1. CASE row' # row
    BY <1>2, <2>1 DEF CurrentOrComing
  <2>2. CASE row' = row
    BY <1>1, <1>2, <1>3, <1>4, <2>2 DEF ThreadInv, CurrentOrComing, Current, Coming
  <2>3. QED
    BY <2>1, <2>2
<1>11. QED
  BY <1>1, <1>5, <1>9, <1>10 DEF ThreadInv

LEMMA UseInv ==
  ASSUME ThreadAssumption, ThreadInv, NEW i \in DOMAIN calls, Answer(i) \/ Fail(i)
  PROVE  ThreadInv'
<1>1. ThreadTypeOK /\ AnswersSeen /\ ThreadTypeOK' /\ OthersShownOnce' /\ calls[i] \in ToSet(calls)
  BY Used, CallType DEF ThreadInv
<1>2. Keeps /\ Follow(i)
  BY Used DEF ThreadInv
<1>3. ShowsRow(i) \/ ShowsNoRow(i)
  BY Used DEF ThreadInv
<1>4. UNCHANGED <<row, stored, wire>>
      /\ ToSet(calls) \subseteq ToSet(calls') \union {calls[i]}
      /\ \A c \in ToSet(calls') \ ToSet(calls) : ~c.done
  BY <1>2 DEF Keeps, Follow
<1>5. StoredIsComing'
  BY <1>2, <1>4 DEF ThreadInv, StoredIsComing, Keeps
<1>6. row.n \in Nat /\ newest \in Nat
  BY <1>1 DEF ThreadTypeOK, Conversation
<1>7. AnswersSeen'
  <2>1. newest' <= row.n
    <3>1. CASE ShowsRow(i)
      <4>1. PICK r : Seen(r) /\ Shows(r)
        BY <3>1 DEF ShowsRow
      <4>2. r.n \in Nat /\ r.n <= row.n
        BY <4>1 DEF Seen, Conversation
      <4>3. QED
        BY <1>1, <1>6, <4>1, <4>2 DEF Shows, AnswersSeen
    <3>2. CASE ShowsNoRow(i)
      BY <1>1, <3>2 DEF ShowsNoRow, AnswersSeen
    <3>3. QED
      BY <1>3, <3>1, <3>2
  <2>2. QED
    BY <1>1, <1>4, <2>1 DEF AnswersSeen, Seen
<1>8. CurrentOrComing'
  <2>1. SUFFICES ASSUME ~dim' PROVE Current' \/ Coming'
    BY DEF CurrentOrComing
  <2>2. CASE ShowsNoRow(i)
    <3>1. ~dim /\ calls[i].op # "load" /\ UNCHANGED <<page, newest>>
      BY <2>1, <2>2 DEF ShowsNoRow
    <3>2. QED
      BY <1>4, <3>1 DEF ThreadInv, CurrentOrComing, Current, Coming
  <2>3. CASE ShowsRow(i)
    <3>1. PICK r :
            /\ Seen(r) /\ Shows(r)
            /\ calls[i].op = "load" => r = calls[i].value /\ page' = r
            /\ page # Nobody /\ Same(page, row) /\ r = row => page' # Nobody /\ Same(page', row)
            /\ page = Nobody => calls[i].op = "load" \/ page' = Nobody
      BY <2>3 DEF ShowsRow
    <3>2. /\ newest' = IF r.n > newest THEN r.n ELSE newest
          /\ (dim \/ r.n < newest) => r.n = row.n /\ page' # Nobody /\ Same(page', row)
      BY <2>1, <3>1 DEF Shows
    <3>3. r.n \in Nat /\ r.n <= row.n /\ (r.n = row.n => r = row) /\ r \in Conversation
      BY <3>1 DEF Seen, Conversation
    <3>4. newest <= row.n
      BY <1>1 DEF AnswersSeen
    <3>5. CASE r.n = row.n /\ page' # Nobody /\ Same(page', row)
      BY <1>4, <1>6, <3>2, <3>3, <3>4, <3>5 DEF Current
    <3>6. CASE ~(r.n = row.n /\ page' # Nobody /\ Same(page', row))
      <4>1. ~dim /\ ~(r.n < newest)
        BY <3>2, <3>6
      <4>2. CASE Current
        BY <1>6, <3>1, <3>3, <3>6, <4>1, <4>2 DEF Current
      <4>3. CASE Coming
        <5>1. CASE calls[i].op = "load" /\ calls[i].value = row
          <6>1. page' = row /\ r = row
            BY <3>1, <5>1
          <6>2. page' # Nobody /\ Same(page', row)
            BY <1>1, <6>1 DEF ThreadTypeOK, ThreadAssumption, Same
          <6>3. QED
            BY <3>6, <6>1, <6>2
        <5>2. CASE ~(calls[i].op = "load" /\ calls[i].value = row)
          <6>1. calls[i].done
            BY <2>3 DEF ShowsRow
          <6>2. QED
            BY <1>4, <4>3, <5>2, <6>1 DEF Coming
        <5>3. QED
          BY <5>1, <5>2
      <4>4. QED
        BY <4>1, <4>2, <4>3 DEF ThreadInv, CurrentOrComing
    <3>7. QED
      BY <3>5, <3>6
  <2>4. QED
    BY <1>3, <2>2, <2>3
<1>9. QED
  BY <1>1, <1>5, <1>7, <1>8 DEF ThreadInv

\* In every reachable state what is stored is shown, missed or on its way, and the
\* row is shown as it is, about to be, or known to be older; whatever order answers
\* and events come in.
THEOREM ThreadInvariance == ThreadSpec => []ThreadInv
<1>1. ThreadInit => ThreadInv
  BY ThreadAssumption, InitThread
<1>2. ThreadInv /\ [ThreadNext]_threadVars => ThreadInv'
  <2> SUFFICES ASSUME ThreadInv, [ThreadNext]_threadVars PROVE ThreadInv'
    OBVIOUS
  <2>1. CASE Elsewhere
    BY <2>1, ThreadAssumption, ElsewhereInv
  <2>2. CASE Staff
    BY <2>2, ThreadAssumption, StaffInv
  <2>3. CASE Deliver \/ Join \/ Drop
    BY <2>3, ThreadAssumption, SocketInv
  <2>4. ASSUME NEW i \in DOMAIN calls, Serve(i) \/ Answer(i) \/ Fail(i) PROVE ThreadInv'
    BY <2>4, ThreadAssumption, ServeInv, UseInv
  <2>5. CASE UNCHANGED threadVars
    BY <2>5 DEF threadVars, pageVars, ThreadInv, ThreadTypeOK, OthersShownOnce, StoredIsComing,
       AnswersSeen, Seen, CurrentOrComing, Current, Coming
  <2>6. QED
    BY <2>1, <2>2, <2>3, <2>4, <2>5 DEF ThreadNext
<1>3. QED
  BY <1>1, <1>2, PTL DEF ThreadSpec

\* The row, the posts, the events, the requests of the page and what it shows have
\* their types in every reachable state.
THEOREM ThreadTypeCorrect == ThreadSpec => []ThreadTypeOK
<1>1. ThreadInv => ThreadTypeOK
  BY DEF ThreadInv
<1>2. QED
  BY <1>1, ThreadInvariance, PTL

\* Once nothing is under way, the page shows every message and note that is stored,
\* but for those whose event or list is known to have been missed.
THEOREM PostsShown == ThreadSpec => []PostsAreShown
<1>1. ThreadInv => PostsAreShown
  BY SmallSets DEF ThreadInv, StoredIsComing, PostsAreShown, Quiet
<1>2. QED
  BY <1>1, ThreadInvariance, PTL

\* Once nothing is under way, the page shows the status, the star and the assignee
\* as they are stored, unless one of the listed causes explains the difference.
THEOREM RowCurrent == ThreadSpec => []ConversationIsCurrent
<1>1. ThreadInv => ConversationIsCurrent
  BY SmallSets DEF ThreadInv, CurrentOrComing, Current, Coming, ConversationIsCurrent, Quiet
<1>2. QED
  BY <1>1, ThreadInvariance, PTL

\* No message is ever shown twice, nor a note but one that is written on the page.
THEOREM ShownOnce == ThreadSpec => []OthersShownOnce
<1>1. ThreadInv => OthersShownOnce
  BY DEF ThreadInv
<1>2. QED
  BY <1>1, ThreadInvariance, PTL
=============================================================================
