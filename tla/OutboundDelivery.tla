-------------------------- MODULE OutboundDelivery --------------------------
(***************************************************************************)
(* How a staff reply reaches the customer.  createMessage saves it PENDING *)
(* and submits it to the Graph API in the same request; messages in Queued *)
(* go through the BullMQ queue meta-outbound instead, whose worker runs    *)
(* processOutboundJob.  One action per awaited statement; the database,    *)
(* the network and the process may fail at each of them.                   *)
(***************************************************************************)
EXTENDS Naturals

CONSTANTS
  Msgs,       \* the replies staff write to customers of social channels
  Queued,     \* those handed to the outbound queue
  Workers,    \* instances of the queue's worker
  NoWorker,   \* no lock holder
  MaxFaults,  \* bound: database errors, lost responses, crashes
  MaxOverlaps \* bound: jobs given away while their worker is still at it

ASSUME DeliveryAssumption ==
  /\ Queued \subseteq Msgs
  /\ NoWorker \notin Workers
  /\ MaxFaults \in Nat
  /\ MaxOverlaps \in Nat

VARIABLES
  status,     \* Message.status; "none" before the row, "deleted" after it
  retryCount, \* Message.retryCount
  req,        \* the createMessage request of each message
  jobs,       \* the queue's jobs
  ws,         \* the workers' program counters and local variables
  accepted,   \* history: how often the Graph API accepted each message
  faults,     \* faults so far
  overlaps    \* overlaps so far

rows == <<status, retryCount>>
vars == <<rows, req, jobs, ws, accepted, faults, overlaps>>

Attempts == 3     \* attempts of a queued job
RetryLimit == 3   \* retryCount at which a message is FAILED
StalledLimit == 1 \* BullMQ's default maxStalledCount

Statuses == {"none", "PENDING", "SENT", "FAILED", "deleted"}
JobStates == {"none", "waiting", "active", "completed", "failed"}
Job == [state : JobStates, made : Nat, stalled : Nat,
        owner : Workers \union {NoWorker}]
Worker == [pc : {"idle", "check", "send", "sent", "failing", "return", "throw"},
           msg : Msgs \union {"none"}, retry : Nat]
Idle == [pc |-> "idle", msg |-> "none", retry |-> 0]

Init ==
  /\ status = [m \in Msgs |-> "none"]
  /\ retryCount = [m \in Msgs |-> 0]
  /\ req = [m \in Msgs |-> "new"]
  /\ jobs = [m \in Msgs |->
       [state |-> "none", made |-> 0, stalled |-> 0, owner |-> NoWorker]]
  /\ ws = [w \in Workers |-> Idle]
  /\ accepted = [m \in Msgs |-> 0]
  /\ faults = 0
  /\ overlaps = 0

\* A row's status is one of the enum's, a request and a worker are at one of their
\* statements, and what counts stays within its bound.
TypeOK ==
  /\ status \in [Msgs -> Statuses]
  /\ retryCount \in [Msgs -> Nat]
  /\ req \in [Msgs -> {"new", "respond", "send", "sent", "failing", "done"}]
  /\ jobs \in [Msgs -> Job]
  /\ ws \in [Workers -> Worker]
  /\ accepted \in [Msgs -> Nat]
  /\ faults \in 0..MaxFaults
  /\ overlaps \in 0..MaxOverlaps

\* message.updateMany: a deleted row stays deleted.
SetStatus(m, s) ==
  status' = IF status[m] = "deleted" THEN status
                                     ELSE [status EXCEPT ![m] = s]

ReqGoto(m, pc) == req' = [req EXCEPT ![m] = pc]
Goto(w, pc) == ws' = [ws EXCEPT ![w].pc = pc]
SetJob(m, state, made, stalled, owner) ==
  jobs' = [jobs EXCEPT ![m] = [state |-> state, made |-> made,
                               stalled |-> stalled, owner |-> owner]]
Fault == faults < MaxFaults /\ faults' = faults + 1
Accepted(m) == accepted' = [accepted EXCEPT ![m] = @ + 1]
-----------------------------------------------------------------------------
(***************************************************************************)
(* createMessage                                                           *)
(***************************************************************************)
\* The row is written PENDING; firstResponseTime comes next if it was null.
Save(m) ==
  /\ status[m] = "none"
  /\ SetStatus(m, "PENDING")
  /\ IF m \in Queued
       THEN /\ SetJob(m, "waiting", 0, 0, NoWorker)
            /\ ReqGoto(m, "done")
       ELSE /\ \E pc \in {"respond", "send"} : ReqGoto(m, pc)
            /\ UNCHANGED jobs
  /\ UNCHANGED <<retryCount, ws, accepted, faults, overlaps>>

SetFirstResponse(m) ==
  /\ req[m] = "respond"
  /\ \/ ReqGoto(m, "send") /\ UNCHANGED faults
     \/ ReqGoto(m, "done") /\ Fault
  /\ UNCHANGED <<rows, jobs, ws, accepted, overlaps>>

\* Mutant of Send: the response's status is not looked at.
SendUnchecked(m) ==
  /\ req[m] = "send"
  /\ ReqGoto(m, "sent")
  /\ Accepted(m) \/ UNCHANGED accepted
  /\ UNCHANGED <<rows, jobs, ws, faults, overlaps>>

\* The Graph API accepts or refuses; a lost response looks like a refusal.
Send(m) ==
  /\ req[m] = "send"
  /\ \/ ReqGoto(m, "sent") /\ Accepted(m) /\ UNCHANGED faults
     \/ ReqGoto(m, "failing") /\ UNCHANGED <<accepted, faults>>
     \/ ReqGoto(m, "failing") /\ Accepted(m) /\ Fault
  /\ UNCHANGED <<rows, jobs, ws, overlaps>>

\* The update to SENT is inside the try: when it fails, the catch runs.
MarkSent(m) ==
  /\ req[m] = "sent"
  /\ \/ SetStatus(m, "SENT") /\ ReqGoto(m, "done") /\ UNCHANGED faults
     \/ ReqGoto(m, "failing") /\ Fault /\ UNCHANGED status
  /\ UNCHANGED <<retryCount, jobs, ws, accepted, overlaps>>

MarkFailed(m) ==
  /\ req[m] = "failing"
  /\ ReqGoto(m, "done")
  /\ \/ SetStatus(m, "FAILED") /\ UNCHANGED faults
     \/ Fault /\ UNCHANGED status
  /\ UNCHANGED <<retryCount, jobs, ws, accepted, overlaps>>

RequestCrash(m) ==
  /\ req[m] \notin {"new", "done"}
  /\ ReqGoto(m, "done")
  /\ Fault
  /\ UNCHANGED <<rows, jobs, ws, accepted, overlaps>>

\* deleteConversation removes the messages of the conversation.
Delete(m) ==
  /\ status[m] \notin {"none", "deleted"}
  /\ SetStatus(m, "deleted")
  /\ UNCHANGED <<retryCount, req, jobs, ws, accepted, faults, overlaps>>

RequestStep(m) ==
  SetFirstResponse(m) \/ Send(m) \/ MarkSent(m) \/ MarkFailed(m)
-----------------------------------------------------------------------------
(***************************************************************************)
(* The queue (BullMQ) and its worker                                       *)
(***************************************************************************)
Take(w) ==
  /\ ws[w].pc = "idle"
  /\ \E m \in Msgs :
       /\ jobs[m].state = "waiting"
       /\ SetJob(m, "active", jobs[m].made, jobs[m].stalled, w)
       /\ ws' = [ws EXCEPT ![w] = [pc |-> "check", msg |-> m, retry |-> 0]]
  /\ UNCHANGED <<rows, req, accepted, faults, overlaps>>

\* Mutant of JobCheck: only a missing message is skipped.
JobCheckMissing(w) ==
  LET m == ws[w].msg
  IN  /\ ws[w].pc = "check"
      /\ IF status[m] = "deleted"
           THEN Goto(w, "return")
           ELSE ws' = [ws EXCEPT ![w] =
                         [pc |-> "send", msg |-> m, retry |-> retryCount[m]]]
      /\ UNCHANGED <<rows, req, jobs, accepted, faults, overlaps>>

\* message.findFirst: a missing message or one that is not PENDING is skipped.
JobCheck(w) ==
  LET m == ws[w].msg
  IN  /\ ws[w].pc = "check"
      /\ \/ status[m] # "PENDING" /\ Goto(w, "return") /\ UNCHANGED faults
         \/ /\ status[m] = "PENDING"
            /\ ws' = [ws EXCEPT ![w] =
                        [pc |-> "send", msg |-> m, retry |-> retryCount[m]]]
            /\ UNCHANGED faults
         \/ Goto(w, "throw") /\ Fault
      /\ UNCHANGED <<rows, req, jobs, accepted, overlaps>>

\* Mutant of JobSend: an acceptance may be taken for a failure.
JobSendStrict(w) ==
  /\ ws[w].pc = "send"
  /\ Accepted(ws[w].msg)
  /\ Goto(w, "sent") \/ Goto(w, "failing")
  /\ UNCHANGED <<rows, req, jobs, faults, overlaps>>

JobSend(w) ==
  /\ ws[w].pc = "send"
  /\ \/ Goto(w, "sent") /\ Accepted(ws[w].msg) /\ UNCHANGED faults
     \/ Goto(w, "failing") /\ UNCHANGED <<accepted, faults>>
     \/ Goto(w, "failing") /\ Accepted(ws[w].msg) /\ Fault
  /\ UNCHANGED <<rows, req, jobs, overlaps>>

JobMarkSent(w) ==
  /\ ws[w].pc = "sent"
  /\ \/ SetStatus(ws[w].msg, "SENT") /\ Goto(w, "return") /\ UNCHANGED faults
     \/ Goto(w, "failing") /\ Fault /\ UNCHANGED status
  /\ UNCHANGED <<retryCount, req, jobs, accepted, overlaps>>

\* Mutant of JobMarkFailed: gives up only beyond the limit.
JobMarkFailedLate(w) ==
  LET m == ws[w].msg
      newRetry == ws[w].retry + 1
  IN  /\ ws[w].pc = "failing"
      /\ SetStatus(m, IF newRetry > RetryLimit THEN "FAILED" ELSE "PENDING")
      /\ retryCount' = [retryCount EXCEPT ![m] = newRetry]
      /\ Goto(w, IF newRetry > RetryLimit THEN "return" ELSE "throw")
      /\ UNCHANGED <<req, jobs, accepted, faults, overlaps>>

\* The new retryCount comes from the row as JobCheck read it; below the limit
\* the error is thrown again for the queue to retry.
JobMarkFailed(w) ==
  LET m == ws[w].msg
      newRetry == ws[w].retry + 1
      last == newRetry >= RetryLimit
  IN  /\ ws[w].pc = "failing"
      /\ \/ /\ SetStatus(m, IF last THEN "FAILED" ELSE "PENDING")
            /\ retryCount' = IF status[m] = "deleted" THEN retryCount
                             ELSE [retryCount EXCEPT ![m] = newRetry]
            /\ Goto(w, IF last THEN "return" ELSE "throw")
            /\ UNCHANGED faults
         \/ Goto(w, "throw") /\ Fault /\ UNCHANGED rows
      /\ UNCHANGED <<req, jobs, accepted, overlaps>>

\* Only the holder of a job's lock can move it.
Finish(w, state, made) ==
  LET m == ws[w].msg
  IN  /\ IF jobs[m].owner = w
           THEN SetJob(m, state, made, jobs[m].stalled, NoWorker)
           ELSE UNCHANGED jobs
      /\ ws' = [ws EXCEPT ![w] = Idle]
      /\ UNCHANGED <<rows, req, accepted, faults, overlaps>>

JobReturns(w) ==
  ws[w].pc = "return" /\ Finish(w, "completed", jobs[ws[w].msg].made)

\* An exception out of processOutboundJob uses up one of the job's attempts.
JobThrows(w) ==
  LET made == jobs[ws[w].msg].made + 1
  IN  /\ ws[w].pc = "throw"
      /\ Finish(w, IF made < Attempts THEN "waiting" ELSE "failed", made)

WorkerCrash(w) ==
  /\ ws[w].pc # "idle"
  /\ ws' = [ws EXCEPT ![w] = Idle]
  /\ Fault
  /\ UNCHANGED <<rows, req, jobs, accepted, overlaps>>

Busy(m) == \E w \in Workers : ws[w].pc # "idle" /\ ws[w].msg = m

\* The lock of an active job ran out: its worker is gone, or has just not
\* renewed it in time and goes on.  The job is retried once.
Requeue(m) ==
  /\ jobs[m].state = "active"
  /\ IF Busy(m) THEN overlaps < MaxOverlaps /\ overlaps' = overlaps + 1
                ELSE UNCHANGED overlaps
  /\ SetJob(m, IF jobs[m].stalled < StalledLimit THEN "waiting" ELSE "failed",
            jobs[m].made, jobs[m].stalled + 1, NoWorker)
  /\ UNCHANGED <<rows, req, ws, accepted, faults>>

WorkerStep(w) ==
  \/ JobCheck(w) \/ JobSend(w) \/ JobMarkSent(w) \/ JobMarkFailed(w)
  \/ JobReturns(w) \/ JobThrows(w)
-----------------------------------------------------------------------------
Next ==
  \/ \E m \in Msgs :
       \/ Save(m) \/ RequestStep(m) \/ RequestCrash(m) \/ Delete(m)
       \/ Requeue(m)
  \/ \E w \in Workers : Take(w) \/ WorkerStep(w) \/ WorkerCrash(w)

Spec == Init /\ [][Next]_vars

\* Node runs a started request on; BullMQ runs the jobs it holds.
FairSpec ==
  /\ Spec
  /\ \A m \in Msgs : WF_vars(RequestStep(m)) /\ WF_vars(Requeue(m))
  /\ \A w \in Workers : WF_vars(Take(w)) /\ WF_vars(WorkerStep(w))
-----------------------------------------------------------------------------
\* A reply shown as SENT has been accepted by the Graph API, whatever fails
\* and however often its job is repeated.
SentWasAccepted ==
  \A m \in Msgs : status[m] = "SENT" => accepted[m] > 0

\* The customer gets a reply twice only if a fault or an overlap made it so:
\* retries after a refusal and repeated jobs alone never do.
DuplicatesNeedFaults ==
  \A m \in Msgs : accepted[m] <= 1 + faults + overlaps

\* Unless something breaks or a job is shared, every reply is eventually SENT or
\* FAILED: the job's attempts and the message's retryCount run out together.
PendingIsSettled ==
  \A m \in Msgs : status[m] = "PENDING" ~> status[m] # "PENDING" \/ faults + overlaps > 0

\* The delivery states keep what Delivery promises: an outcome is final, and ends
\* all submissions, until a job is taken from a worker that is still at it.
Promise == INSTANCE Delivery WITH shared <- overlaps > 0
DeliveryPromise == Promise!Spec
=============================================================================
