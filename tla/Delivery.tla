------------------------------ MODULE Delivery ------------------------------
(***************************************************************************)
(* From an occasion to a message in somebody's inbox: the notification row *)
(* with its dedupe key, the claim-send-settle of the workers, the sweep    *)
(* for stalled rows, and the provider's verdicts through the inbox table.  *)
(***************************************************************************)
EXTENDS Naturals, FiniteSets

CONSTANTS
    Notices,   \* dedupe keys: one per occasion, channel and booking
    Senders,   \* the notification queue's concurrency
    None, JobAttempts, DispatchAttempts, Faults,
    MaxCopies, \* bound: messages and doubts are counted up to here
    Reported,  \* bound: the copies the provider reports on
    EventTypes \* what it reports: readResend(), readTwilio()

ASSUME QueueAssumption ==
    JobAttempts \in Nat \ {0} /\ DispatchAttempts \in Nat \ {0} /\ Faults \in Nat
ASSUME BoundAssumption ==
    MaxCopies \in Nat \ {0} /\ Reported \subseteq Nat \ {0} /\ IsFiniteSet(Senders)
ASSUME TypesAssumption == EventTypes \subseteq {"sent", "delivered", "complained", "bounced"}

\* Job ids: the outbox rows of an occasion and of its sending, the sweep's re-drive
\* of the current window, the inbox row of a provider event.
OutboxRows == {"occasion", "send"} \X Notices
Redrives   == {"redrive"} \X Notices
Events     == EventTypes \X Notices \X Reported
JobNames   == OutboxRows \cup Redrives \cup Events

VARIABLES
    outbox, job, faults,
    sender,  \* what each sending worker has in hand: step, job, accepted copy
    status,  \* notifications.status, "absent" before the row
    known,   \* the copy whose providerMessageId is on the row, 0 for none
    copies,  \* messages the provider has accepted
    inbox,   \* messaging_webhook_events: none, recorded, processed
    stale,   \* is the row older than the stall window?
    doubts   \* ghost: claims given up while their message may have been out

INSTANCE Outbox WITH Rows <- OutboxRows, JobIds <- JobNames

vars == <<outbox, job, faults, sender, status, known, copies, inbox, stale, doubts>>
noticeVars == <<status, known, copies, doubts>>

Settled == {"DELIVERED", "FAILED"}
OneMore(count) == IF count < MaxCopies THEN count + 1 ELSE count
AtRest == [at |-> "idle", job |-> None, locked |-> FALSE, copy |-> 0]

TypeOK ==
    /\ QueueTypeOK
    /\ sender \in [Senders -> [at : {"idle", "running", "read", "claimed", "accepted"},
                               job : JobNames \cup {None}, locked : BOOLEAN,
                               copy : 0..MaxCopies]]
    /\ status \in [Notices -> Settled \cup {"absent", "PENDING", "SENDING", "SENT"}]
    /\ known \in [Notices -> 0..MaxCopies]
    /\ copies \in [Notices -> 0..MaxCopies]
    /\ inbox \in [Events -> {"none", "recorded", "processed"}]
    /\ stale \in [Notices -> BOOLEAN]
    /\ doubts \in [Notices -> 0..MaxCopies]

Init ==
    /\ QueueInit
    /\ sender = [w \in Senders |-> AtRest]
    /\ status = [n \in Notices |-> "absent"]
    /\ known = [n \in Notices |-> 0]
    /\ copies = [n \in Notices |-> 0]
    /\ inbox = [e \in Events |-> "none"]
    /\ stale = [n \in Notices |-> FALSE]
    /\ doubts = [n \in Notices |-> 0]

-----------------------------------------------------------------------------
(* The occasion: a booking event, recorded with the change it reports.     *)

Record(n) ==
    /\ outbox[<<"occasion", n>>].at = "none"
    /\ outbox' = Recorded(outbox, <<"occasion", n>>)
    /\ UNCHANGED <<job, faults, sender, noticeVars, inbox, stale>>

\* queue(): insert unless the dedupe key exists, with the row that sends it
Queue(n) ==
    \/ /\ status[n] = "absent"
       /\ status' = [status EXCEPT ![n] = "PENDING"]
       /\ outbox' = Recorded(outbox, <<"send", n>>)
    \/ /\ status[n] # "absent"
       /\ UNCHANGED <<status, outbox>>

\* The job's transaction; a worker that dies after it leaves the job to run again.
HandleOccasion(n) ==
    LET j == <<"occasion", n>> IN
    /\ job[j].at = "ready"
    /\ \/ Queue(n) /\ job' = Ended(job, j) /\ UNCHANGED faults
       \/ Queue(n) /\ Fault /\ UNCHANGED job
       \/ Fault /\ job' = Thrown(job, j) /\ UNCHANGED <<status, outbox>>
    /\ UNCHANGED <<sender, known, copies, doubts, inbox, stale>>

-----------------------------------------------------------------------------
(* send(): read, claim, deliver, settle.                                   *)

NoticeOf(w) == sender[w].job[2]
Leaves(w) == sender' = [sender EXCEPT ![w] = AtRest]

\* the end of a handler counts if the worker still has the job's lock
Returns(w) == /\ job' = IF sender[w].locked THEN Ended(job, sender[w].job) ELSE job
              /\ Leaves(w)
Throws(w)  == /\ job' = IF sender[w].locked THEN Thrown(job, sender[w].job) ELSE job
              /\ Leaves(w)

Take(w, j) ==
    /\ sender[w].at = "idle"
    /\ job[j].at = "ready"
    /\ job' = [job EXCEPT ![j].at = "active"]
    /\ sender' = [sender EXCEPT ![w] = 
                                [at |-> "running", job |-> j, locked |-> TRUE, copy |-> 0]]
    /\ UNCHANGED <<outbox, faults, noticeVars, inbox, stale>>

SendRead(w) ==
    /\ sender[w].at = "running"
    /\ \/ /\ status[NoticeOf(w)] = "PENDING"
          /\ sender' = [sender EXCEPT ![w].at = "read"]
          /\ UNCHANGED job
       \/ /\ status[NoticeOf(w)] # "PENDING"
          /\ Returns(w)
    /\ UNCHANGED <<outbox, faults, noticeVars, inbox, stale>>

\* Mutant: the status is read, and written without asking again.
SendClaimUnasked(w) ==
    /\ sender[w].at = "read"
    /\ status' = [status EXCEPT ![NoticeOf(w)] = "SENDING"]
    /\ sender' = [sender EXCEPT ![w].at = "claimed"]
    /\ UNCHANGED <<outbox, job, faults, known, copies, doubts, inbox, stale>>

SendClaim(w) ==
    LET n == NoticeOf(w) IN
    /\ sender[w].at = "read"
    /\ \/ /\ status[n] = "PENDING"
          /\ status' = [status EXCEPT ![n] = "SENDING"]
          /\ sender' = [sender EXCEPT ![w].at = "claimed"]
          /\ UNCHANGED job
       \/ /\ status[n] # "PENDING"
          /\ Returns(w)
          /\ UNCHANGED status
    /\ UNCHANGED <<outbox, faults, known, copies, doubts, inbox, stale>>

Deliver(w) ==
    LET n == NoticeOf(w) IN
    /\ sender[w].at = "claimed"
    /\ copies' = [copies EXCEPT ![n] = OneMore(@)]
    /\ sender' = [sender EXCEPT ![w].at = "accepted", ![w].copy = OneMore(copies[n])]
    /\ UNCHANGED <<outbox, job, faults, status, known, doubts, inbox, stale>>

\* neither settlement asks what the row's status has become meanwhile
MarkSent(w) ==
    LET n == NoticeOf(w) IN
    /\ sender[w].at = "accepted"
    /\ status' = [status EXCEPT ![n] = "SENT"]
    /\ known' = [known EXCEPT ![n] = sender[w].copy]
    /\ Returns(w)
    /\ UNCHANGED <<outbox, faults, copies, doubts, inbox, stale>>

\* recordFailure(): retryable, back to PENDING and thrown; permanent, FAILED.  An
\* error after the provider accepted (a lost answer, a failed update) is retryable.
RecordFailure(w) ==
    LET n == NoticeOf(w) IN
    /\ sender[w].at \in {"claimed", "accepted"}
    /\ Fault
    /\ \/ /\ status' = [status EXCEPT ![n] = "PENDING"]
          /\ doubts' = [doubts EXCEPT ![n] = IF sender[w].at = "accepted" THEN OneMore(@) ELSE @]
          /\ Throws(w)
       \/ /\ sender[w].at = "claimed"
          /\ status' = [status EXCEPT ![n] = "FAILED"]
          /\ Returns(w)
          /\ UNCHANGED doubts
    /\ UNCHANGED <<outbox, known, copies, inbox, stale>>

\* The process dies, the shutdown does not wait long enough, a template throws.
SenderDies(w) ==
    /\ sender[w].at # "idle"
    /\ Fault
    /\ Throws(w)
    /\ UNCHANGED <<outbox, noticeVars, inbox, stale>>

LockLost(w) ==
    /\ sender[w].at # "idle" /\ sender[w].locked
    /\ Fault
    /\ job' = [job EXCEPT ![sender[w].job].at = "ready"]
    /\ sender' = [sender EXCEPT ![w].locked = FALSE]
    /\ UNCHANGED <<outbox, noticeVars, inbox, stale>>

-----------------------------------------------------------------------------
(* sweep.notifications: give back what a dead worker claimed, re-drive.    *)

Sweep(n) ==
    /\ stale[n] /\ status[n] \in {"PENDING", "SENDING"}
    /\ status' = [status EXCEPT ![n] = "PENDING"]
    /\ doubts' = [doubts EXCEPT ![n] = IF status[n] = "SENDING" THEN OneMore(@) ELSE @]
    /\ job' = Enqueued(job, <<"redrive", n>>)
    /\ UNCHANGED <<outbox, faults, sender, known, copies, inbox, stale>>

\* Mutant: one job id per notification, whatever the window.
WindowPassesUnseen(n) ==
    /\ status[n] # "absent"
    /\ stale' = [stale EXCEPT ![n] = TRUE]
    /\ UNCHANGED <<outbox, job, faults, sender, noticeVars, inbox>>

\* The next window's job id is a new one.  Bound: a re-drive is over by then.
WindowPasses(n) ==
    /\ status[n] # "absent"
    /\ job[<<"redrive", n>>].at \in {"none", "done", "failed"}
    /\ job' = [job EXCEPT ![<<"redrive", n>>] = NoJob]
    /\ stale' = [stale EXCEPT ![n] = TRUE]
    /\ UNCHANGED <<outbox, faults, sender, noticeVars, inbox>>

-----------------------------------------------------------------------------
(* The provider's verdict: webhook, inbox, job.                            *)

\* A repeated delivery finds the event recorded and changes nothing.
ProviderReports(e) ==
    /\ e[3] <= copies[e[2]]
    /\ inbox[e] = "none"
    /\ inbox' = [inbox EXCEPT ![e] = "recorded"]
    /\ \/ job' = Enqueued(job, e) /\ UNCHANGED faults
       \/ Fault /\ UNCHANGED job
    /\ UNCHANGED <<outbox, sender, noticeVars, stale>>

\* sweep.inbox, under the same job id: ignored while the failed job is retained
ReconcileInbox(e) ==
    /\ inbox[e] = "recorded"
    /\ job' = Enqueued(job, e)
    /\ UNCHANGED <<outbox, faults, sender, noticeVars, inbox, stale>>

\* A complaint is about a message that arrived; "sent" is no verdict yet.
VerdictOf(type) ==
    CASE type \in {"delivered", "complained"} -> "DELIVERED"
      [] type = "bounced" -> "FAILED"
      [] type = "sent" -> None

\* Mutant: the late verdict overwrites the first.
ApplyDeliveryStatusLatest(e) ==
    status' = IF VerdictOf(e[1]) # None /\ known[e[2]] = e[3]
              THEN [status EXCEPT ![e[2]] = VerdictOf(e[1])]
              ELSE status

\* matched by providerMessageId; a settled row stays as it is
ApplyDeliveryStatus(e) ==
    status' = IF /\ VerdictOf(e[1]) # None
                 /\ known[e[2]] = e[3]
                 /\ status[e[2]] \notin Settled
              THEN [status EXCEPT ![e[2]] = VerdictOf(e[1])]
              ELSE status

HandleVerdict(e) ==
    /\ job[e].at = "ready"
    /\ \/ /\ ApplyDeliveryStatus(e)
          /\ inbox' = [inbox EXCEPT ![e] = "processed"]
          /\ job' = Ended(job, e)
          /\ UNCHANGED faults
       \/ /\ ApplyDeliveryStatus(e) \/ UNCHANGED status   \* applied or not, not marked
          /\ Fault
          /\ job' = Thrown(job, e)
          /\ UNCHANGED inbox
    /\ UNCHANGED <<outbox, sender, known, copies, doubts, stale>>

-----------------------------------------------------------------------------
Step(w) == SendRead(w) \/ SendClaim(w) \/ Deliver(w) \/ MarkSent(w)

Elsewhere == UNCHANGED <<sender, noticeVars, inbox, stale>>

\* Jobs that may be added again; what becomes of any other ended job is of no effect.
Addable == {r \in OutboxRows : outbox[r].at = "pending"}
           \cup {e \in Events : inbox[e] = "recorded"}

Next ==
    \/ Draining /\ Elsewhere
    \/ \E j \in Addable : Forget(j) /\ Elsewhere
    \/ \E n \in Notices : Record(n) \/ HandleOccasion(n) \/ Sweep(n) \/ WindowPasses(n)
    \/ \E w \in Senders, n \in Notices, k \in {"send", "redrive"} : Take(w, <<k, n>>)
    \/ \E w \in Senders : Step(w) \/ RecordFailure(w) \/ SenderDies(w) \/ LockLost(w)
    \/ \E e \in Events : ProviderReports(e) \/ ReconcileInbox(e) \/ HandleVerdict(e)

\* The drain ticks, workers finish what they have in hand and take every waiting job
\* in turn, the sweeps are repeatable jobs, retained jobs are removed with time.
Fairness ==
    /\ \A r \in OutboxRows : WF_vars(Drain(r) /\ Elsewhere)
    /\ \A n \in Notices : /\ WF_vars(HandleOccasion(n))
                          /\ WF_vars(Sweep(n)) /\ WF_vars(WindowPasses(n))
    /\ \A j \in Redrives : SF_vars(\E w \in Senders : Take(w, j))
    /\ \A w \in Senders : WF_vars(Step(w))
    /\ \A e \in Events : /\ WF_vars(ReconcileInbox(e))
                         /\ WF_vars(HandleVerdict(e))
                         /\ WF_vars(e \in Addable /\ Forget(e) /\ Elsewhere)

Spec == Init /\ [][Next]_vars /\ Fairness

-----------------------------------------------------------------------------
(* Properties.                                                             *)

\* Every row and job is well formed, and whatever is enqueued, run or swept twice: a
\* second message goes out only after a claim was given up whose message may have been
\* on its way.
OneMessagePerDoubt == TypeOK /\ \A n \in Notices : copies[n] <= 1 + doubts[n]

\* A row that a verdict or a permanent failure has settled stays so, unless two
\* workers sent it: then the slower one's mark overwrites.
SettledStaysSettled ==
    [][\A n \in Notices : status[n] \in Settled /\ doubts[n] = 0 => status'[n] = status[n]]_vars

\* An occasion that was recorded reaches somebody, or stays visible as failed.
OccasionIsAnnounced ==
    \A n \in Notices :
        outbox[<<"occasion", n>>].at # "none" ~>
            \/ status[n] \in {"SENT", "DELIVERED", "FAILED"}
            \/ job[<<"occasion", n>>].at = "failed" \/ Exhausted(<<"occasion", n>>)

\* A verdict that reached the inbox is handled, whatever its job went through.
VerdictIsHandled == \A e \in Events : inbox[e] = "recorded" ~> inbox[e] = "processed"
=============================================================================
