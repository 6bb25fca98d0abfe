--------------------------- MODULE DispatchQueue ---------------------------
(***************************************************************************)
(* The durable wakeups of one terminal: the row of                         *)
(* terminal_dispatch_request that coalesces requests, and the domain       *)
(* workers that lease it (repositories/dispatch.py and                     *)
(* BackgroundWorkerService.process_dispatch_batch).                        *)
(*                                                                         *)
(* A worker leases the row in one transaction.  In a second one it locks   *)
(* the terminal, decides from what it reads, and only at the end of that   *)
(* transaction completes or retries the request by the revision it leased; *)
(* PostgreSQL runs it at READ COMMITTED, so transactions of others commit  *)
(* between the read and the end.                                           *)
(***************************************************************************)
EXTENDS Integers

CONSTANTS
    Workers,      \* domain worker processes
    MaxJobs,      \* bound on the jobs ever queued
    MaxRequests   \* bound on the wakeups raised without a new job

ASSUME QueueAssumption == MaxJobs \in Nat /\ MaxRequests \in Nat

NoRequest == [status |-> "NONE", revision |-> 0]

VARIABLES
    request,    \* the terminal_dispatch_request row, or NoRow
    leaseOver,  \* the row's locked_until has passed
    queued,     \* jobs of the terminal that are QUEUED
    arrived,    \* jobs queued so far
    raised,     \* wakeups raised so far without a new job
    free,       \* the machine can take a job: no active job, gate open
    worker      \* [phase, revision, verdict, missed] of each worker

queueVars == <<request, leaseOver, queued, arrived, raised, free, worker>>

(* `missed': a request was raised after this worker read the queue.        *)
IdleWorker == [phase |-> "idle", revision |-> 0, verdict |-> "none", missed |-> FALSE]
Leased(revision) ==
    [phase |-> "leased", revision |-> revision, verdict |-> "none", missed |-> FALSE]

QueueInit ==
    /\ request = NoRequest
    /\ leaseOver = FALSE
    /\ queued = 0
    /\ arrived = 0
    /\ raised = 0
    /\ free = TRUE
    /\ worker = [w \in Workers |-> IdleWorker]

-----------------------------------------------------------------------------
(* DispatchRepository                                                      *)

(* The row after an upsert: a leased row stays leased, and its revision    *)
(* tells the worker that leased it.                                        *)
Enqueued ==
    IF request = NoRequest THEN [status |-> "PENDING", revision |-> 1]
    ELSE [status |-> IF request.status = "PROCESSING" THEN "PROCESSING" ELSE "PENDING",
          revision |-> request.revision + 1]

RequestDispatch ==
    /\ request' = Enqueued
    /\ worker' = [w \in Workers |->
                    [worker[w] EXCEPT !.missed = @ \/ worker[w].phase = "decided"]]

(* What the row becomes when its lease is given back without finishing it. *)
Released(status) == [request EXCEPT !.status = status]

(* Mutant: the request is deleted even if it was raised again.             *)
CompletedAlways(revision) == NoRequest

Completed(revision) ==
    IF request.revision = revision THEN NoRequest
    ELSE IF request.status = "PROCESSING" THEN Released("PENDING")
    ELSE request

RequestRetried(revision) ==
    IF request.revision = revision /\ request # NoRequest THEN Released("RETRY")
    ELSE IF request.status = "PROCESSING" THEN Released("PENDING")
    ELSE request

-----------------------------------------------------------------------------
(* A transaction queues a job and raises a request with it.                *)
QueueJob ==
    /\ arrived < MaxJobs
    /\ arrived' = arrived + 1
    /\ queued' = queued + 1
    /\ RequestDispatch
    /\ UNCHANGED <<leaseOver, raised, free>>

(* The machine finishes, comes online or empties its slot: this raises a   *)
(* request, except when a never-sent command expires or the machine merely *)
(* stops reporting busy.                                                   *)
MachineFree ==
    /\ ~free
    /\ free' = TRUE
    /\ \/ /\ raised < MaxRequests
          /\ raised' = raised + 1
          /\ RequestDispatch
       \/ UNCHANGED <<request, worker, raised>>
    /\ UNCHANGED <<leaseOver, queued, arrived>>

(* A customer cancels a queued order, perhaps the very one that an open    *)
(* dispatch transaction has chosen.                                        *)
CancelJob ==
    /\ queued > 0
    /\ queued' = queued - 1
    /\ \E chosen \in BOOLEAN :
          /\ queued = 1 => chosen
          /\ worker' = [w \in Workers |->
                          IF chosen /\ worker[w].verdict = "dispatch"
                            THEN [worker[w] EXCEPT !.verdict = "changed"]
                            ELSE worker[w]]
    /\ UNCHANGED <<request, leaseOver, arrived, raised, free>>

(* repair_missing: rebuild a wakeup that was lost.                         *)
RepairMissing ==
    /\ request = NoRequest
    /\ queued > 0
    /\ request' = [status |-> "PENDING", revision |-> 1]
    /\ UNCHANGED <<leaseOver, queued, arrived, raised, free, worker>>

LeaseExpires ==
    /\ request.status = "PROCESSING"
    /\ ~leaseOver
    /\ leaseOver' = TRUE
    /\ UNCHANGED <<request, queued, arrived, raised, free, worker>>

-----------------------------------------------------------------------------
(* process_dispatch_batch                                                  *)

(* Mutant: a lease that ran out is not taken over.                         *)
ClaimUnleased(w) ==
    /\ worker[w].phase = "idle"
    /\ request.status \in {"PENDING", "RETRY"}
    /\ request' = Released("PROCESSING")
    /\ leaseOver' = FALSE
    /\ worker' = [worker EXCEPT ![w] = Leased(request.revision)]
    /\ UNCHANGED <<queued, arrived, raised, free>>

ClaimRequest(w) ==
    /\ worker[w].phase = "idle"
    /\ \/ request.status \in {"PENDING", "RETRY"}
       \/ request.status = "PROCESSING" /\ leaseOver
    /\ request' = Released("PROCESSING")
    /\ leaseOver' = FALSE
    /\ worker' = [worker EXCEPT ![w] = Leased(request.revision)]
    /\ UNCHANGED <<queued, arrived, raised, free>>

(* The terminal row lock lets one dispatch transaction run at a time.      *)
TerminalLocked == \E w \in Workers : worker[w].phase = "decided"

(* dispatch_next_order_result, and whether its caller keeps the request.   *)
Verdict ==
    IF free /\ queued > 0 THEN "dispatch"
    ELSE IF ~free /\ queued > 0 THEN "retry"
    ELSE "complete"

Decided(revision) ==
    [phase |-> "decided", revision |-> revision, verdict |-> Verdict, missed |-> FALSE]

Decide(w) ==
    /\ worker[w].phase = "leased"
    /\ ~TerminalLocked
    /\ worker' = [worker EXCEPT ![w] = Decided(worker[w].revision)]
    /\ UNCHANGED <<request, leaseOver, queued, arrived, raised, free>>

(* The transaction commits.  If the job it chose was cancelled meanwhile   *)
(* (QUEUE_CHANGED), it keeps the request while anything else is queued.    *)
Commit(w) ==
    LET taken == worker[w].verdict = "dispatch"
        keep == \/ worker[w].verdict = "retry"
                \/ worker[w].verdict = "changed" /\ queued > 0
    IN /\ worker[w].phase = "decided"
       /\ request' = IF keep THEN RequestRetried(worker[w].revision)
                     ELSE Completed(worker[w].revision)
       /\ queued' = IF taken THEN queued - 1 ELSE queued
       /\ free' = (free /\ ~taken)
       /\ worker' = [worker EXCEPT ![w] = IdleWorker]
       /\ UNCHANGED <<leaseOver, arrived, raised>>

(* The transaction fails and is rolled back; the worker retries later.     *)
Fail(w) ==
    /\ worker[w].phase # "idle"
    /\ request' = RequestRetried(worker[w].revision)
    /\ worker' = [worker EXCEPT ![w] = IdleWorker]
    /\ UNCHANGED <<leaseOver, queued, arrived, raised, free>>

(* The worker process dies and restarts; its lease is left behind.         *)
WorkerCrash(w) ==
    /\ worker[w].phase # "idle"
    /\ worker' = [worker EXCEPT ![w] = IdleWorker]
    /\ UNCHANGED <<request, leaseOver, queued, arrived, raised, free>>

-----------------------------------------------------------------------------
QueueNext ==
    \/ QueueJob
    \/ MachineFree
    \/ CancelJob
    \/ RepairMissing
    \/ LeaseExpires
    \/ \E w \in Workers : ClaimRequest(w) \/ Decide(w) \/ Commit(w) \/ Fail(w) \/ WorkerCrash(w)

QueueSpec == QueueInit /\ [][QueueNext]_queueVars

(* The workers' loops run for ever, and time passes.  A transaction that   *)
(* is started again and again does not fail for ever.                      *)
Fairness ==
    /\ WF_queueVars(RepairMissing)
    /\ WF_queueVars(LeaseExpires)
    /\ \A w \in Workers : WF_queueVars(ClaimRequest(w)) /\ SF_queueVars(Decide(w))
                          /\ SF_queueVars(Commit(w))

FairQueueSpec == QueueSpec /\ Fairness

-----------------------------------------------------------------------------
(* Properties                                                              *)

(* The row and the workers keep their shape.                               *)
QueueTypeOK ==
    /\ request \in [status: {"NONE", "PENDING", "PROCESSING", "RETRY"}, revision: Nat]
    /\ request.status = "NONE" <=> request = NoRequest
    /\ leaseOver \in BOOLEAN
    /\ queued \in 0..MaxJobs
    /\ arrived \in 0..MaxJobs
    /\ raised \in 0..MaxRequests
    /\ free \in BOOLEAN
    /\ worker \in [Workers -> [phase: {"idle", "leased", "decided"},
                               revision: Nat,
                               verdict: {"none", "dispatch", "changed", "retry",
                                         "complete"},
                               missed: BOOLEAN]]

(* "A request raised while this one was being processed ... remains queued *)
(* for the following dispatch pass" (DispatchRepository.complete): a pass  *)
(* never deletes the row when a request came after it read the queue.      *)
RaisedRequestSurvives ==
    [][\A w \in Workers :
          worker[w].phase = "decided" /\ worker[w].missed /\ worker'[w] = IdleWorker
             => request' # NoRequest]_queueVars

(* Queued work and a machine that can take it never stay beside each other *)
(* for ever, whichever wakeups are dropped, workers die or leases run out. *)
FreeMachineIsUsed == ~<>[](queued > 0 /\ free)
=============================================================================
