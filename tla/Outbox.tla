------------------------------- MODULE Outbox -------------------------------
(***************************************************************************)
(* From a committed row to a running job: the outbox table, its drain, and *)
(* the BullMQ queues as this code uses them.                               *)
(*                                                                         *)
(* BullMQ ignores an add whose job id it still holds; it holds a job while *)
(* it is ready, in the hands of a worker, or retained after its end.  The  *)
(* lock of a job can be lost under a worker that goes on (its process dies *)
(* or stalls): the job is ready again and may run twice.                   *)
(***************************************************************************)
EXTENDS Naturals

CONSTANTS
    Rows,             \* outbox rows
    JobIds,           \* BullMQ job ids, the rows' own (outbox-<row>) among them
    JobAttempts,      \* attempts of a job (8 in the code)
    DispatchAttempts, \* OUTBOX_MAX_ATTEMPTS (10 in the code)
    Faults            \* bound: how many faults a behaviour has

VARIABLES
    outbox,  \* a row: none, pending or dispatched; and its failed dispatches
    job,     \* a job: none, ready, active, done or failed; and its failed attempts
    faults   \* faults left

NoRow == [at |-> "none", tries |-> 0]
NoJob == [at |-> "none", tries |-> 0]

QueueTypeOK ==
    /\ outbox \in [Rows -> [at : {"none", "pending", "dispatched"}, tries : 0..DispatchAttempts]]
    /\ job \in [JobIds -> [at : {"none", "ready", "active", "done", "failed"},
                           tries : 0..JobAttempts]]
    /\ faults \in 0..Faults

QueueInit ==
    /\ outbox = [r \in Rows |-> NoRow]
    /\ job = [j \in JobIds |-> NoJob]
    /\ faults = Faults

Fault == faults > 0 /\ faults' = faults - 1

-----------------------------------------------------------------------------
(* Queues.                                                                 *)

\* add under an id that is held is silently ignored
Enqueued(jobs, j) == IF jobs[j].at = "none" THEN [jobs EXCEPT ![j].at = "ready"] ELSE jobs

Ended(jobs, j) == [jobs EXCEPT ![j].at = "done"]

\* a handler that throws: another attempt, or the failed set
Thrown(jobs, j) ==
    [jobs EXCEPT ![j] = [at    |-> IF @.tries + 1 < JobAttempts THEN "ready" ELSE "failed",
                         tries |-> @.tries + 1]]

\* Mutant: failed jobs are kept for good.
ForgetCompleted(j) ==
    /\ job[j].at = "done"
    /\ job' = [job EXCEPT ![j] = NoJob]
    /\ UNCHANGED <<outbox, faults>>

\* removeOnComplete after a day, removeOnFail after a week
Forget(j) ==
    /\ job[j].at \in {"done", "failed"}
    /\ job' = [job EXCEPT ![j] = NoJob]
    /\ UNCHANGED <<outbox, faults>>

-----------------------------------------------------------------------------
(* The drain.  FOR UPDATE SKIP LOCKED: a row is in one drain at a time.    *)

\* record(): the row commits with the change it reports
Recorded(rows, r) == [rows EXCEPT ![r].at = "pending"]

Claimable(r) == outbox[r].at = "pending" /\ outbox[r].tries < DispatchAttempts

Drain(r) ==
    /\ Claimable(r)
    /\ job' = Enqueued(job, r)
    /\ outbox' = [outbox EXCEPT ![r].at = "dispatched"]
    /\ UNCHANGED faults

\* Redis does not answer: one attempt less, later
DrainFails(r) ==
    /\ Claimable(r)
    /\ Fault
    /\ outbox' = [outbox EXCEPT ![r].tries = @ + 1]
    /\ UNCHANGED job

\* enqueued, and then the transaction is lost
DrainDies(r) ==
    /\ Claimable(r)
    /\ Fault
    /\ job' = Enqueued(job, r)
    /\ UNCHANGED outbox

\* what reconcile() reports and nothing tries any more
Exhausted(r) == outbox[r].at = "pending" /\ ~Claimable(r)

Draining == \E r \in Rows : Drain(r) \/ DrainFails(r) \/ DrainDies(r)
=============================================================================
