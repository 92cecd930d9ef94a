--------------------------- MODULE DeliveryProofs ---------------------------
(***************************************************************************)
(* What is proved about Delivery for every set of notices and workers and  *)
(* every number of attempts and faults.                                    *)
(*                                                                         *)
(* OneMessagePerDoubt is not inductive: what forbids a second message is   *)
(* that the claim of the first is still standing.  So the messages on      *)
(* their way are counted with those accepted, and one of them is covered   *)
(* by the row's status while that is past PENDING (Counted).  A verdict    *)
(* stays because, without a doubt, whoever is sending found the row in     *)
(* SENDING and nobody else does (Undoubted).                               *)
(***************************************************************************)
EXTENDS Delivery, FiniteSetTheorems, TLAPS

-----------------------------------------------------------------------------
(* The inductive invariant.                                                *)

JobsType == [JobNames -> [at : {"none", "ready", "active", "done", "failed"},
                          tries : 0..JobAttempts]]

\* A job that may run again has attempts left.
GoodJobs(jobs) ==
    /\ jobs \in JobsType
    /\ \A j \in JobNames : jobs[j].at # "failed" => jobs[j].tries < JobAttempts

Sendings == {"send", "redrive"} \X Notices

\* What a worker has in hand is a sending, and active while it has the lock of it.
HandsOK ==
    /\ \A w \in Senders :
          /\ sender[w].at # "idle" => sender[w].job \in Sendings
          /\ sender[w].locked => sender[w].at # "idle" /\ job[sender[w].job].at = "active"
    /\ \A v, w \in Senders :
          sender[v].locked /\ sender[w].locked /\ sender[v].job = sender[w].job => v = w

QueueInv == TypeOK /\ GoodJobs(job) /\ HandsOK

Claims(n) == {w \in Senders : sender[w].at = "claimed" /\ sender[w].job[2] = n}
Covered(n) == IF status[n] \in {"absent", "PENDING"} THEN 0 ELSE 1

Counted(n) == doubts[n] # MaxCopies =>
                  copies[n] + Cardinality(Claims(n)) <= doubts[n] + Covered(n)

\* w has claimed n and not settled it
Sending(w, n) == sender[w].at \in {"claimed", "accepted"} /\ sender[w].job[2] = n

Undoubted(n) == doubts[n] = 0 =>
    /\ \A w \in Senders : Sending(w, n) => status[n] = "SENDING"
    /\ \A v, w \in Senders : Sending(v, n) /\ Sending(w, n) => v = w
    /\ status[n] \in {"absent", "PENDING", "SENDING"} => known[n] = 0

IInv == QueueInv /\ \A n \in Notices : Counted(n) /\ Undoubted(n)

-----------------------------------------------------------------------------
(* The queues.                                                             *)

\* An add leaves the queue well formed and every active job active.
LEMMA EnqueuedGood ==
    ASSUME NEW jobs, GoodJobs(jobs), NEW j \in JobNames
    PROVE  /\ GoodJobs(Enqueued(jobs, j))
           /\ \A k \in JobNames : jobs[k].at = "active" => Enqueued(jobs, j)[k] = jobs[k]
  BY DEF GoodJobs, JobsType, Enqueued

\* So does the end of a job that has not failed, for every other job.
LEMMA EndedGood ==
    ASSUME NEW jobs, GoodJobs(jobs), NEW j \in JobNames, jobs[j].at # "failed"
    PROVE  /\ GoodJobs(Ended(jobs, j))
           /\ \A k \in JobNames \ {j} : Ended(jobs, j)[k] = jobs[k]
  BY DEF GoodJobs, JobsType, Ended

\* And so does a throw: it uses an attempt that was left.
LEMMA ThrownGood ==
    ASSUME NEW jobs, GoodJobs(jobs), NEW j \in JobNames, jobs[j].at # "failed"
    PROVE  /\ GoodJobs(Thrown(jobs, j))
           /\ \A k \in JobNames \ {j} : Thrown(jobs, j)[k] = jobs[k]
  BY QueueAssumption DEF GoodJobs, JobsType, Thrown

\* A job that is forgotten starts afresh.
LEMMA ForgottenGood ==
    ASSUME NEW jobs, GoodJobs(jobs), NEW j \in JobNames
    PROVE  /\ GoodJobs([jobs EXCEPT ![j] = NoJob])
           /\ \A k \in JobNames \ {j} : [jobs EXCEPT ![j] = NoJob][k] = jobs[k]
  BY QueueAssumption DEF GoodJobs, JobsType, NoJob

\* Every name of a job is one.
LEMMA Names ==
    /\ OutboxRows \subseteq JobNames /\ Events \subseteq JobNames
    /\ Sendings \subseteq JobNames
    /\ \A n \in Notices : /\ <<"occasion", n>> \in OutboxRows /\ <<"send", n>> \in OutboxRows
                          /\ <<"redrive", n>> \in JobNames
  BY DEF OutboxRows, Redrives, JobNames, Sendings

\* A count that saturates stays within its bound and moves by one at most.
LEMMA OneMoreFacts ==
    ASSUME NEW c \in 0..MaxCopies
    PROVE  /\ OneMore(c) \in 0..MaxCopies /\ OneMore(c) <= c + 1
           /\ OneMore(c) = MaxCopies \/ OneMore(c) = c + 1
           /\ OneMore(c) # 0
  BY BoundAssumption DEF OneMore

-----------------------------------------------------------------------------
(* Initially nobody has anything in hand.                                  *)

LEMMA InitIInv == Init => IInv
  <1> SUFFICES ASSUME Init PROVE IInv
    OBVIOUS
  <1>1. TypeOK
    BY QueueAssumption, BoundAssumption
    DEF Init, QueueInit, TypeOK, QueueTypeOK, NoRow, NoJob, AtRest
  <1>2. GoodJobs(job)
    BY QueueAssumption DEF Init, QueueInit, GoodJobs, JobsType, NoJob
  <1>3. HandsOK
    BY DEF Init, HandsOK, AtRest
  <1>4. ASSUME NEW n \in Notices PROVE Counted(n) /\ Undoubted(n)
    <2>1. Claims(n) = {}
      BY DEF Init, Claims, AtRest
    <2> QED
      BY <2>1, FS_EmptySet DEF Init, Counted, Covered, Undoubted, Sending, AtRest
  <1> QED
    BY <1>1, <1>2, <1>3, <1>4 DEF IInv, QueueInv
-----------------------------------------------------------------------------
(* What the workers have in hand.                                          *)

\* Nobody loses a job that stays active.
LEMMA HandsKept ==
    ASSUME QueueInv, sender' = sender,
           \A k \in JobNames : job[k].at = "active" => job'[k] = job[k]
    PROVE  HandsOK'
  <1>1. ASSUME NEW w \in Senders, sender[w].locked
        PROVE  sender[w].job \in JobNames /\ job[sender[w].job].at = "active"
    BY <1>1, Names DEF QueueInv, HandsOK
  <1>2. \A w \in Senders : sender'[w].locked => job'[sender'[w].job].at = "active"
    BY <1>1
  <1> QED
    BY <1>2 DEF QueueInv, HandsOK

\* A worker that goes back to rest takes its own job only out of others' way.
LEMMA HandBack ==
    ASSUME QueueInv, NEW w \in Senders, Leaves(w),
           sender[w].locked => \A k \in JobNames \ {sender[w].job} : job'[k] = job[k],
           ~sender[w].locked => job' = job
    PROVE  HandsOK'
  <1>1. /\ sender'[w] = AtRest
        /\ \A v \in Senders \ {w} : sender'[v] = sender[v]
    BY DEF Leaves, QueueInv, TypeOK
  <1>2. ASSUME NEW v \in Senders
        PROVE  /\ sender'[v].at # "idle" => sender'[v].job \in Sendings
               /\ sender'[v].locked => sender'[v].at # "idle"
                                       /\ job'[sender'[v].job].at = "active"
    <2>1. CASE v = w
      BY <1>1, <2>1 DEF AtRest
    <2>2. CASE v # w /\ sender[v].locked
      <3>1. sender[v].job \in JobNames /\ job[sender[v].job].at = "active"
        BY <2>2, Names DEF QueueInv, HandsOK
      <3>2. sender[w].locked => sender[v].job # sender[w].job
        BY <2>2 DEF QueueInv, HandsOK
      <3> QED
        BY <1>1, <2>2, <3>1, <3>2 DEF QueueInv, HandsOK
    <2>3. CASE v # w /\ ~sender[v].locked
      BY <1>1, <2>3 DEF QueueInv, HandsOK
    <2> QED
      BY <2>1, <2>2, <2>3
  <1>3. ASSUME NEW u \in Senders, NEW v \in Senders,
               sender'[u].locked, sender'[v].locked, sender'[u].job = sender'[v].job
        PROVE  u = v
    BY <1>1, <1>3 DEF AtRest, QueueInv, HandsOK
  <1> QED
    BY <1>2, <1>3 DEF HandsOK

\* A handler that returns or throws leaves the queue and the hands in order.
LEMMA Lets ==
    ASSUME QueueInv, NEW w \in Senders, sender[w].at # "idle", Returns(w) \/ Throws(w)
    PROVE  GoodJobs(job)' /\ HandsOK' /\ Leaves(w)
  <1>1. sender[w].job \in JobNames
    BY Names DEF QueueInv, HandsOK
  <1>2. sender[w].locked => job[sender[w].job].at = "active"
    BY DEF QueueInv, HandsOK
  <1>3. CASE ~sender[w].locked
    <2>1. job' = job /\ Leaves(w)
      BY <1>3 DEF Returns, Throws
    <2> QED
      BY <1>3, <2>1, HandBack DEF QueueInv
  <1>4. CASE sender[w].locked /\ Returns(w)
    <2>1. job' = Ended(job, sender[w].job) /\ Leaves(w)
      BY <1>4 DEF Returns
    <2>2. /\ GoodJobs(Ended(job, sender[w].job))
          /\ \A k \in JobNames \ {sender[w].job} : Ended(job, sender[w].job)[k] = job[k]
      BY <1>1, <1>2, <1>4, EndedGood DEF QueueInv
    <2> QED
      BY <1>4, <2>1, <2>2, HandBack
  <1>5. CASE sender[w].locked /\ Throws(w)
    <2>1. job' = Thrown(job, sender[w].job) /\ Leaves(w)
      BY <1>5 DEF Throws
    <2>2. /\ GoodJobs(Thrown(job, sender[w].job))
          /\ \A k \in JobNames \ {sender[w].job} : Thrown(job, sender[w].job)[k] = job[k]
      BY <1>1, <1>2, <1>5, ThrownGood DEF QueueInv
    <2> QED
      BY <1>5, <2>1, <2>2, HandBack
  <1> QED
    BY <1>3, <1>4, <1>5

\* A step that changes how far a sender is, and nothing of the queue, is in order.
LEMMA Goes ==
    ASSUME QueueInv, NEW w \in Senders, NEW a \in {"read", "claimed", "accepted"},
           NEW c \in 0..MaxCopies, sender[w].at # "idle", job' = job,
           \/ sender' = [sender EXCEPT ![w].at = a]
           \/ sender' = [sender EXCEPT ![w].at = a, ![w].copy = c]
    PROVE  /\ HandsOK'
           /\ sender' \in [Senders -> [at : {"idle", "running", "read", "claimed", "accepted"},
                                       job : JobNames \cup {None}, locked : BOOLEAN,
                                       copy : 0..MaxCopies]]
  <1>1. /\ sender'[w].at = a /\ sender'[w].job = sender[w].job
        /\ sender'[w].locked = sender[w].locked
        /\ \A v \in Senders \ {w} : sender'[v] = sender[v]
    BY DEF QueueInv, TypeOK
  <1>2. HandsOK'
    <2>1. \A v \in Senders : /\ sender'[v].job = sender[v].job
                             /\ sender'[v].locked = sender[v].locked
                             /\ sender[v].at # "idle" <=> sender'[v].at # "idle"
      BY <1>1
    <2>2. \A v \in Senders : /\ sender[v].at # "idle" => sender[v].job \in Sendings
                             /\ sender[v].locked =>
                                   sender[v].at # "idle" /\ job[sender[v].job].at = "active"
      BY DEF QueueInv, HandsOK
    <2>3. \A u, v \in Senders : sender[u].locked /\ sender[v].locked
                                 /\ sender[u].job = sender[v].job => u = v
      BY DEF QueueInv, HandsOK
    <2>4. \A u, v \in Senders : sender'[u].locked /\ sender'[v].locked
                                 /\ sender'[u].job = sender'[v].job => u = v
      BY <2>1, <2>3
    <2> QED
      BY <2>1, <2>2, <2>4 DEF HandsOK
  <1> QED
    BY <1>2 DEF QueueInv, TypeOK
-----------------------------------------------------------------------------
(* Messages on their way.                                                  *)

\* The workers are finitely many, and so are those with a claim.
LEMMA ClaimsFinite ==
    ASSUME NEW n
    PROVE  IsFiniteSet(Claims(n)) /\ Cardinality(Claims(n)) \in Nat
  BY BoundAssumption, FS_Subset, FS_CardinalityType, Claims(n) \in SUBSET Senders DEF Claims

\* Where the row and the messages of a notice stay, and no worker comes to send it,
\* what is said of it stays.
LEMMA Untouched ==
    ASSUME IInv, NEW n \in Notices,
           status'[n] = status[n], known'[n] = known[n],
           copies'[n] = copies[n], doubts'[n] = doubts[n],
           \A w \in Senders : sender'[w] = sender[w] \/ ~Sending(w, n)'
    PROVE  Counted(n)' /\ Undoubted(n)'
  <1>1. \A w \in Senders : Sending(w, n)' => sender'[w] = sender[w] /\ Sending(w, n)
    BY DEF Sending
  <1>2. Undoubted(n)'
    BY <1>1 DEF IInv, Undoubted, Sending
  <1>3. Claims(n)' \in SUBSET Claims(n)
    BY <1>1 DEF Claims, Sending
  <1>4. /\ Cardinality(Claims(n)') <= Cardinality(Claims(n))
        /\ Cardinality(Claims(n)) \in Nat /\ Cardinality(Claims(n)') \in Nat
    BY <1>3, ClaimsFinite, FS_Subset, FS_CardinalityType
  <1>5. copies[n] \in Nat /\ doubts[n] \in Nat
    BY BoundAssumption DEF IInv, QueueInv, TypeOK
  <1> QED
    BY <1>2, <1>4, <1>5 DEF IInv, Counted, Covered

\* What a worker does with its claim is nothing to the other notices.
LEMMA OthersUntouched ==
    ASSUME IInv, NEW w \in Senders, sender[w].at # "idle",
           NEW n \in Notices \ {NoticeOf(w)},
           status'[n] = status[n], known'[n] = known[n],
           copies'[n] = copies[n], doubts'[n] = doubts[n],
           \A v \in Senders \ {w} : sender'[v] = sender[v],
           sender'[w].job = sender[w].job \/ sender'[w].at = "idle"
    PROVE  Counted(n)' /\ Undoubted(n)'
  <1>1. ~Sending(w, n)'
    BY DEF Sending, NoticeOf
  <1> QED
    BY <1>1, Untouched

\* A worker that gives its claim up, or passes it on, leaves one claim less.
LEMMA ClaimLess ==
    ASSUME NEW w \in Senders, NEW n,
           \A v \in Senders \ {w} : sender'[v] = sender[v], sender'[w].at # "claimed"
    PROVE  /\ Cardinality(Claims(n)') \in Nat
           /\ Cardinality(Claims(n)') = IF w \in Claims(n) THEN Cardinality(Claims(n)) - 1
                                                          ELSE Cardinality(Claims(n))
  <1>1. Claims(n)' = Claims(n) \ {w}
    BY DEF Claims
  <1> QED
    BY <1>1, ClaimsFinite, FS_RemoveElement, FS_CardinalityType

\* A worker that claims adds one.
LEMMA ClaimMore ==
    ASSUME NEW w \in Senders, NEW n, w \notin Claims(n),
           \A v \in Senders \ {w} : sender'[v] = sender[v],
           sender'[w].at = "claimed", sender'[w].job[2] = n
    PROVE  Cardinality(Claims(n)') = Cardinality(Claims(n)) + 1
  <1>1. Claims(n)' = Claims(n) \cup {w}
    BY DEF Claims
  <1> QED
    BY <1>1, ClaimsFinite, FS_AddElement
-----------------------------------------------------------------------------
(* Every step keeps the queue and the hands in order.                      *)

\* Types, apart from the queue's jobs and what GoodJobs says of them.
SenderType == [Senders -> [at : {"idle", "running", "read", "claimed", "accepted"},
                           job : JobNames \cup {None}, locked : BOOLEAN,
                           copy : 0..MaxCopies]]
RestType ==
    /\ outbox \in [OutboxRows -> [at : {"none", "pending", "dispatched"},
                                  tries : 0..DispatchAttempts]]
    /\ faults \in 0..Faults
    /\ status \in [Notices -> Settled \cup {"absent", "PENDING", "SENDING", "SENT"}]
    /\ known \in [Notices -> 0..MaxCopies]
    /\ copies \in [Notices -> 0..MaxCopies]
    /\ inbox \in [Events -> {"none", "recorded", "processed"}]
    /\ stale \in [Notices -> BOOLEAN]
    /\ doubts \in [Notices -> 0..MaxCopies]

LEMMA Types == GoodJobs(job) => (TypeOK <=> sender \in SenderType /\ RestType)
  BY DEF GoodJobs, JobsType, TypeOK, QueueTypeOK, SenderType, RestType

\* A fault is taken from those left.
LEMMA FaultType == RestType /\ Fault => faults' \in 0..Faults
  BY QueueAssumption DEF RestType, Fault

\* Leaving is a step to a known state.
LEMMA LeavesType ==
    ASSUME NEW w \in Senders, sender \in SenderType, Leaves(w)
    PROVE  /\ sender' \in SenderType /\ sender'[w] = AtRest
           /\ \A v \in Senders \ {w} : sender'[v] = sender[v]
  BY BoundAssumption DEF SenderType, Leaves, AtRest

\* The outbox and its drain: a dispatched row, an attempt less, a job added.
LEMMA DrainStep ==
    ASSUME QueueInv, Draining, Elsewhere
    PROVE  QueueInv'
  <1>1. sender \in SenderType /\ RestType
    BY Types DEF QueueInv
  <1>2. PICK r \in OutboxRows : Drain(r) \/ DrainFails(r) \/ DrainDies(r)
    BY DEF Draining
  <1>3. job' = job \/ job' = Enqueued(job, r)
    BY <1>2 DEF Drain, DrainFails, DrainDies
  <1>4. GoodJobs(job)' /\ HandsOK'
    BY <1>3, EnqueuedGood, HandsKept, Names DEF QueueInv, Elsewhere
  <1>5. outbox' \in [OutboxRows -> [at : {"none", "pending", "dispatched"},
                                    tries : 0..DispatchAttempts]]
    BY <1>1, <1>2, QueueAssumption DEF RestType, Drain, DrainFails, DrainDies, Claimable
  <1>6. faults' \in 0..Faults
    BY <1>1, <1>2, FaultType DEF RestType, Drain, DrainFails, DrainDies
  <1>7. sender' \in SenderType /\ RestType'
    BY <1>1, <1>5, <1>6 DEF RestType, Elsewhere, noticeVars, SenderType
  <1> QED
    BY <1>4, <1>7, Types DEF QueueInv, GoodJobs, JobsType, TypeOK, QueueTypeOK, SenderType,
                             RestType

\* The steps that leave the workers' hands alone.
About(n)   == Record(n) \/ HandleOccasion(n) \/ Sweep(n) \/ WindowPasses(n)
Reports(e) == ProviderReports(e) \/ ReconcileInbox(e) \/ HandleVerdict(e)
Around ==
    \/ \E j \in Addable : Forget(j) /\ Elsewhere
    \/ \E n \in Notices : About(n)
    \/ \E e \in Events : Reports(e)

LEMMA QueueAround ==
    ASSUME QueueInv, Around
    PROVE  QueueInv'
  <1>1. sender \in SenderType /\ RestType
    BY Types DEF QueueInv
  <1>2. sender' = sender
    BY DEF Around, About, Reports, Elsewhere, Record, HandleOccasion, Sweep, WindowPasses,
           ProviderReports, ReconcileInbox, HandleVerdict
  <1>3. \/ job' = job
        \/ \E k \in JobNames : job' = Enqueued(job, k)
        \/ \E k \in JobNames : /\ job[k].at \in {"none", "done", "failed"}
                               /\ job' = [job EXCEPT ![k] = NoJob]
        \/ \E k \in JobNames : /\ job[k].at = "ready"
                               /\ job' = Ended(job, k) \/ job' = Thrown(job, k)
    BY Names DEF Around, About, Reports, Addable, Forget, Record, HandleOccasion, Sweep,
                 WindowPasses, ProviderReports, ReconcileInbox, HandleVerdict
  <1>4. GoodJobs(job)' /\ HandsOK'
    <2>1. CASE job' = job
      BY <1>2, <2>1, HandsKept DEF QueueInv
    <2>2. ASSUME NEW k \in JobNames, job' = Enqueued(job, k)
          PROVE  GoodJobs(job)' /\ HandsOK'
      BY <1>2, <2>2, EnqueuedGood, HandsKept DEF QueueInv
    <2>3. ASSUME NEW k \in JobNames, job[k].at \in {"none", "done", "failed"},
                 job' = [job EXCEPT ![k] = NoJob]
          PROVE  GoodJobs(job)' /\ HandsOK'
      <3>1. \A i \in JobNames : job[i].at = "active" => job'[i] = job[i]
        BY <2>3, ForgottenGood DEF QueueInv
      <3> QED
        BY <1>2, <2>3, <3>1, ForgottenGood, HandsKept DEF QueueInv
    <2>4. ASSUME NEW k \in JobNames, job[k].at = "ready",
                 job' = Ended(job, k) \/ job' = Thrown(job, k)
          PROVE  GoodJobs(job)' /\ HandsOK'
      <3>1. GoodJobs(job)' /\ \A i \in JobNames \ {k} : job'[i] = job[i]
        BY <2>4, EndedGood, ThrownGood DEF QueueInv
      <3>2. \A i \in JobNames : job[i].at = "active" => job'[i] = job[i]
        BY <2>4, <3>1
      <3> QED
        BY <1>2, <3>1, <3>2, HandsKept
    <2> QED
      BY <1>3, <2>1, <2>2, <2>3, <2>4
  <1>5. RestType'
    <2>1. faults' = faults \/ Fault
      BY DEF Around, About, Reports, Forget, Elsewhere, Record, HandleOccasion, Sweep,
             WindowPasses, ProviderReports, ReconcileInbox, HandleVerdict
    <2>2. faults' \in 0..Faults
      BY <1>1, <2>1, FaultType DEF RestType
    <2>3. ASSUME NEW j, Forget(j) /\ Elsewhere PROVE RestType'
      BY <1>1, <2>2, <2>3 DEF RestType, Forget, Elsewhere, noticeVars
    <2>4. ASSUME NEW n \in Notices, Record(n) PROVE RestType'
      BY <1>1, <2>2, <2>4, Names DEF RestType, Record, Recorded, noticeVars
    <2>5. ASSUME NEW n \in Notices, HandleOccasion(n) PROVE RestType'
      <3>1. Queue(n) \/ UNCHANGED <<status, outbox>>
        BY <2>5 DEF HandleOccasion
      <3>2. status' \in [Notices -> Settled \cup {"absent", "PENDING", "SENDING", "SENT"}]
        BY <1>1, <3>1 DEF RestType, Queue
      <3>3. outbox' \in [OutboxRows -> [at : {"none", "pending", "dispatched"},
                                        tries : 0..DispatchAttempts]]
        <4>1. outbox' = outbox \/ outbox' = [outbox EXCEPT ![<<"send", n>>].at = "pending"]
          BY <3>1 DEF Queue, Recorded
        <4> QED
          BY <1>1, <4>1 DEF RestType
      <3> QED
        BY <1>1, <2>2, <2>5, <3>2, <3>3 DEF RestType, HandleOccasion
    <2>6. ASSUME NEW n \in Notices, Sweep(n) PROVE RestType'
      BY <1>1, <2>2, <2>6, OneMoreFacts DEF RestType, Sweep
    <2>7. ASSUME NEW n \in Notices, WindowPasses(n) PROVE RestType'
      BY <1>1, <2>2, <2>7 DEF RestType, WindowPasses, noticeVars
    <2>8. ASSUME NEW e \in Events, ProviderReports(e) \/ ReconcileInbox(e)
          PROVE  RestType'
      BY <1>1, <2>2, <2>8 DEF RestType, ProviderReports, ReconcileInbox, noticeVars
    <2>9. ASSUME NEW e \in Events, HandleVerdict(e) PROVE RestType'
      <3>1. e[2] \in Notices /\ e[1] \in EventTypes
        BY DEF Events
      <3>2. VerdictOf(e[1]) \in Settled \cup {None}
        BY <3>1, TypesAssumption DEF VerdictOf, Settled
      <3>3. ApplyDeliveryStatus(e) \/ UNCHANGED status
        BY <2>9 DEF HandleVerdict
      <3>4. status' \in [Notices -> Settled \cup {"absent", "PENDING", "SENDING", "SENT"}]
        BY <1>1, <3>1, <3>2, <3>3 DEF RestType, ApplyDeliveryStatus
      <3> QED
        BY <1>1, <2>2, <2>9, <3>4 DEF RestType, HandleVerdict
    <2> QED
      BY <2>3, <2>4, <2>5, <2>6, <2>7, <2>8, <2>9 DEF Around, About, Reports
  <1> QED
    BY <1>1, <1>2, <1>4, <1>5, Types DEF QueueInv, GoodJobs, JobsType, TypeOK, QueueTypeOK,
                                         SenderType, RestType
\* A worker takes a job that is ready: nobody else has it.
LEMMA TakeStep ==
    ASSUME QueueInv, NEW w \in Senders, NEW j \in Sendings, Take(w, j)
    PROVE  QueueInv'
  <1>1. sender \in SenderType /\ RestType
    BY Types DEF QueueInv
  <1>2. j \in JobNames /\ job[j].at = "ready" /\ job[j].tries < JobAttempts
    BY Names DEF Take, QueueInv, GoodJobs
  <1>3. /\ sender' \in SenderType
        /\ sender'[w] = [at |-> "running", job |-> j, locked |-> TRUE, copy |-> 0]
        /\ \A v \in Senders \ {w} : sender'[v] = sender[v]
    BY <1>1, <1>2, BoundAssumption DEF Take, SenderType
  <1>4. /\ GoodJobs(job)' /\ job'[j].at = "active"
        /\ \A k \in JobNames \ {j} : job'[k] = job[k]
    BY <1>2 DEF Take, QueueInv, GoodJobs, JobsType
  <1>5. \A v \in Senders \ {w} : sender[v].locked => sender[v].job \in JobNames \ {j}
    BY <1>2, Names DEF QueueInv, HandsOK
  <1>6. HandsOK'
    <2>1. ASSUME NEW v \in Senders
          PROVE  /\ sender'[v].at # "idle" => sender'[v].job \in Sendings
                 /\ sender'[v].locked => sender'[v].at # "idle"
                                         /\ job'[sender'[v].job].at = "active"
      BY <1>3, <1>4, <1>5 DEF QueueInv, HandsOK
    <2>2. ASSUME NEW u \in Senders, NEW v \in Senders,
                 sender'[u].locked, sender'[v].locked, sender'[u].job = sender'[v].job
          PROVE  u = v
      BY <1>3, <1>5, <2>2 DEF QueueInv, HandsOK
    <2> QED
      BY <2>1, <2>2 DEF HandsOK
  <1>7. RestType'
    BY <1>1 DEF Take, RestType, noticeVars
  <1> QED
    BY <1>3, <1>4, <1>6, <1>7 DEF QueueInv, GoodJobs, JobsType, TypeOK, QueueTypeOK,
                                  SenderType, RestType

\* A worker that loses its lock gives the job back; what it goes on with is its own.
LEMMA LockLostStep ==
    ASSUME QueueInv, NEW w \in Senders, LockLost(w)
    PROVE  QueueInv'
  <1>1. sender \in SenderType /\ RestType
    BY Types DEF QueueInv
  <1>2. /\ sender[w].job \in JobNames /\ job[sender[w].job].at = "active"
        /\ job[sender[w].job].tries < JobAttempts
    BY Names DEF LockLost, QueueInv, HandsOK, GoodJobs
  <1>3. /\ sender' \in SenderType /\ ~sender'[w].locked
        /\ sender'[w].at = sender[w].at /\ sender'[w].job = sender[w].job
        /\ \A v \in Senders \ {w} : sender'[v] = sender[v]
    BY <1>1 DEF LockLost, SenderType
  <1>4. GoodJobs(job)' /\ \A k \in JobNames \ {sender[w].job} : job'[k] = job[k]
    BY <1>2 DEF LockLost, QueueInv, GoodJobs, JobsType
  <1>5. \A v \in Senders \ {w} : sender[v].locked => sender[v].job \in JobNames \ {sender[w].job}
    BY <1>2, Names DEF LockLost, QueueInv, HandsOK
  <1>6. HandsOK'
    <2>1. ASSUME NEW v \in Senders
          PROVE  /\ sender'[v].at # "idle" => sender'[v].job \in Sendings
                 /\ sender'[v].locked => sender'[v].at # "idle"
                                         /\ job'[sender'[v].job].at = "active"
      BY <1>3, <1>4, <1>5 DEF QueueInv, HandsOK
    <2>2. ASSUME NEW u \in Senders, NEW v \in Senders,
                 sender'[u].locked, sender'[v].locked, sender'[u].job = sender'[v].job
          PROVE  u = v
      BY <1>3, <2>2 DEF QueueInv, HandsOK
    <2> QED
      BY <2>1, <2>2 DEF HandsOK
  <1>7. RestType'
    BY <1>1, FaultType DEF LockLost, RestType, noticeVars
  <1> QED
    BY <1>3, <1>4, <1>6, <1>7 DEF QueueInv, GoodJobs, JobsType, TypeOK, QueueTypeOK,
                                  SenderType, RestType

\* The steps of a worker between taking a job and leaving it.
LEMMA WorkerStep ==
    ASSUME QueueInv, NEW w \in Senders, Step(w) \/ RecordFailure(w) \/ SenderDies(w)
    PROVE  QueueInv'
  <1>1. sender \in SenderType /\ RestType
    BY Types DEF QueueInv
  <1>2. sender[w].at # "idle"
    BY DEF Step, SendRead, SendClaim, Deliver, MarkSent, RecordFailure, SenderDies
  <1>3. NoticeOf(w) \in Notices
    BY <1>2 DEF NoticeOf, QueueInv, HandsOK, Sendings
  <1>4. OneMore(copies[NoticeOf(w)]) \in 0..MaxCopies /\ sender[w].copy \in 0..MaxCopies
    BY <1>1, <1>3, OneMoreFacts DEF RestType, SenderType
  <1>5. GoodJobs(job)' /\ HandsOK' /\ sender' \in SenderType
    <2>1. CASE Returns(w) \/ Throws(w)
      BY <1>1, <1>2, <2>1, Lets, LeavesType
    <2>2. CASE /\ job' = job
               /\ \/ sender' = [sender EXCEPT ![w].at = "read"]
                  \/ sender' = [sender EXCEPT ![w].at = "claimed"]
                  \/ sender' = [sender EXCEPT ![w].at = "accepted",
                                              ![w].copy = OneMore(copies[NoticeOf(w)])]
      BY <1>2, <1>4, <2>2, Goes DEF SenderType, QueueInv
    <2> QED
      BY <2>1, <2>2 DEF Step, SendRead, SendClaim, Deliver, MarkSent, RecordFailure, SenderDies
  <1>6. RestType'
    <2>1. CASE SendRead(w)
      BY <1>1, <2>1 DEF RestType, SendRead, noticeVars
    <2>2. CASE SendClaim(w)
      BY <1>1, <1>3, <2>2 DEF RestType, SendClaim
    <2>3. CASE Deliver(w)
      BY <1>1, <1>3, <1>4, <2>3 DEF RestType, Deliver
    <2>4. CASE MarkSent(w)
      BY <1>1, <1>3, <1>4, <2>4 DEF RestType, MarkSent
    <2>5. CASE RecordFailure(w)
      BY <1>1, <1>3, <2>5, FaultType, OneMoreFacts DEF RestType, RecordFailure, Settled
    <2>6. CASE SenderDies(w)
      BY <1>1, <2>6, FaultType DEF RestType, SenderDies, noticeVars
    <2> QED
      BY <2>1, <2>2, <2>3, <2>4, <2>5, <2>6 DEF Step
  <1> QED
    BY <1>5, <1>6 DEF QueueInv, GoodJobs, JobsType, TypeOK, QueueTypeOK, SenderType, RestType
-----------------------------------------------------------------------------
(* Every step keeps what is said of the notices.                           *)

\* The counts of a notice are numbers.
LEMMA Counts ==
    ASSUME IInv, NEW n \in Notices
    PROVE  /\ copies[n] \in Nat /\ doubts[n] \in Nat /\ Cardinality(Claims(n)) \in Nat
           /\ copies[n] \in 0..MaxCopies /\ doubts[n] \in 0..MaxCopies
           /\ Counted(n) /\ Undoubted(n)
  BY ClaimsFinite, BoundAssumption DEF IInv, QueueInv, TypeOK

\* A job that is taken, or lost under its worker, is no claim.
LEMMA HandsNotices ==
    ASSUME IInv, NEW w \in Senders, NEW j \in Sendings, Take(w, j) \/ LockLost(w),
           NEW n \in Notices
    PROVE  Counted(n)' /\ Undoubted(n)'
  <1>1. CASE Take(w, j)
    <2>1. /\ \A v \in Senders \ {w} : sender'[v] = sender[v]
          /\ ~Sending(w, n)'
      BY <1>1 DEF Take, Sending, IInv, QueueInv, TypeOK
    <2> QED
      BY <1>1, <2>1, Untouched DEF Take, noticeVars
  <1>2. CASE LockLost(w)
    <2>1. \A v \in Senders : sender'[v].at = sender[v].at /\ sender'[v].job = sender[v].job
      BY <1>2 DEF LockLost, IInv, QueueInv, TypeOK
    <2>2. Claims(n)' = Claims(n) /\ \A v \in Senders : Sending(v, n)' <=> Sending(v, n)
      BY <2>1 DEF Claims, Sending
    <2>3. status' = status /\ known' = known /\ copies' = copies /\ doubts' = doubts
      BY <1>2 DEF LockLost, noticeVars
    <2>4. Undoubted(n)'
      BY <2>2, <2>3, Counts DEF Undoubted
    <2>5. Counted(n)'
      BY <2>2, <2>3, Counts DEF Counted, Covered
    <2> QED
      BY <2>4, <2>5
  <1> QED
    BY <1>1, <1>2

\* A verdict settles the row of a message that is known, which nobody is sending.
LEMMA VerdictNotices ==
    ASSUME IInv, NEW e \in Events, ApplyDeliveryStatus(e), NEW n \in Notices,
           sender' = sender, known' = known, copies' = copies, doubts' = doubts
    PROVE  Counted(n)' /\ Undoubted(n)'
  <1>1. /\ e[2] \in Notices /\ e[1] \in EventTypes /\ e[3] # 0
        /\ VerdictOf(e[1]) \in Settled \cup {None}
    BY TypesAssumption, BoundAssumption DEF Events, VerdictOf, Settled
  <1>2. CASE status'[n] = status[n]
    BY <1>2, Untouched
  <1>3. CASE status'[n] # status[n]
    <2>1. n = e[2] /\ known[n] = e[3] /\ status'[n] \in Settled
      BY <1>1, <1>3 DEF ApplyDeliveryStatus, IInv, QueueInv, TypeOK
    <2>2. Claims(n)' = Claims(n)
      BY DEF Claims
    <2>3. Counted(n)'
      BY <2>1, <2>2, Counts DEF Counted, Covered, Settled
    <2>4. Undoubted(n)'
      BY <1>1, <2>1, Counts DEF Undoubted, Sending, Settled
    <2> QED
      BY <2>3, <2>4
  <1> QED
    BY <1>2, <1>3

\* The steps that leave the workers' hands alone.
LEMMA NoticesAround ==
    ASSUME IInv, Around, NEW m \in Notices
    PROVE  Counted(m)' /\ Undoubted(m)'
  <1>1. CASE UNCHANGED sender /\ UNCHANGED noticeVars
    BY <1>1, Untouched DEF noticeVars
  <1>2. ASSUME NEW n \in Notices, HandleOccasion(n)
        PROVE  Counted(m)' /\ Undoubted(m)'
    <2>1. UNCHANGED <<sender, known, copies, doubts>> /\ (Queue(n) \/ UNCHANGED status)
      BY <1>2 DEF HandleOccasion
    <2>2. CASE status'[m] = status[m]
      BY <2>1, <2>2, Untouched
    <2>3. CASE status'[m] # status[m]
      <3>1. status[m] = "absent" /\ status'[m] = "PENDING"
        BY <2>1, <2>3 DEF Queue, IInv, QueueInv, TypeOK
      <3>2. Claims(m)' = Claims(m)
        BY <2>1 DEF Claims
      <3>3. Counted(m)'
        BY <2>1, <3>1, <3>2, Counts DEF Counted, Covered
      <3>4. Undoubted(m)'
        BY <2>1, <3>1, Counts DEF Undoubted, Sending
      <3> QED
        BY <3>3, <3>4
    <2> QED
      BY <2>2, <2>3
  <1>3. ASSUME NEW n \in Notices, Sweep(n)
        PROVE  Counted(m)' /\ Undoubted(m)'
    <2>1. UNCHANGED <<sender, known, copies>>
      BY <1>3 DEF Sweep
    <2>2. CASE status'[m] = status[m] /\ doubts'[m] = doubts[m]
      BY <2>1, <2>2, Untouched
    <2>3. CASE status'[m] # status[m] \/ doubts'[m] # doubts[m]
      <3>1. /\ status[m] = "SENDING" /\ status'[m] = "PENDING"
            /\ doubts'[m] = OneMore(doubts[m])
        BY <1>3, <2>3 DEF Sweep, IInv, QueueInv, TypeOK
      <3>2. Claims(m)' = Claims(m)
        BY <2>1 DEF Claims
      <3>3. Counted(m)'
        BY <2>1, <3>1, <3>2, Counts, OneMoreFacts, BoundAssumption DEF Counted, Covered
      <3>4. Undoubted(m)'
        BY <3>1, Counts, OneMoreFacts DEF Undoubted
      <3> QED
        BY <3>3, <3>4
    <2> QED
      BY <2>2, <2>3
  <1>4. ASSUME NEW e \in Events, HandleVerdict(e)
        PROVE  Counted(m)' /\ Undoubted(m)'
    <2>1. UNCHANGED <<sender, known, copies, doubts>>
      BY <1>4 DEF HandleVerdict
    <2>2. CASE ApplyDeliveryStatus(e)
      BY <2>1, <2>2, VerdictNotices
    <2>3. CASE UNCHANGED status
      BY <2>1, <2>3, Untouched
    <2> QED
      BY <1>4, <2>2, <2>3 DEF HandleVerdict
  <1> QED
    BY <1>1, <1>2, <1>3, <1>4
    DEF Around, About, Reports, Elsewhere, Record, WindowPasses, ProviderReports, ReconcileInbox
\* A worker that asks before it claims is the only one to send, and its claim is covered.
LEMMA ClaimNotices ==
    ASSUME IInv, NEW w \in Senders, NEW n \in Notices, n = NoticeOf(w),
           SendClaim(w), status[n] = "PENDING"
    PROVE  Counted(n)' /\ Undoubted(n)'
  <1>1. /\ status'[n] = "SENDING"
        /\ sender' = [sender EXCEPT ![w].at = "claimed"]
        /\ UNCHANGED <<known, copies, doubts>>
    BY DEF SendClaim, IInv, QueueInv, TypeOK
  <1>2. /\ sender'[w].at = "claimed" /\ sender'[w].job[2] = n
        /\ \A v \in Senders \ {w} : sender'[v] = sender[v]
        /\ w \notin Claims(n)
    BY <1>1 DEF SendClaim, NoticeOf, Claims, IInv, QueueInv, TypeOK
  <1>3. Cardinality(Claims(n)') = Cardinality(Claims(n)) + 1
    BY <1>2, ClaimMore
  <1>4. Counted(n)'
    BY <1>1, <1>3, Counts DEF Counted, Covered
  <1>5. Undoubted(n)'
    <2>1. doubts[n] = 0 => \A v \in Senders : ~Sending(v, n)
      BY Counts DEF Undoubted
    <2>2. doubts[n] = 0 => \A v \in Senders \ {w} : ~Sending(v, n)'
      BY <1>2, <2>1 DEF Sending
    <2> QED
      BY <1>1, <2>2, Counts DEF Undoubted
  <1> QED
    BY <1>4, <1>5

\* The provider accepts: what was on its way has arrived.
LEMMA DeliverNotices ==
    ASSUME IInv, NEW w \in Senders, NEW n \in Notices, n = NoticeOf(w),
           Deliver(w)
    PROVE  Counted(n)' /\ Undoubted(n)'
  <1>1. /\ copies'[n] = OneMore(copies[n]) /\ copies[n] \in 0..MaxCopies
        /\ UNCHANGED <<status, known, doubts>>
    BY DEF Deliver, IInv, QueueInv, TypeOK
  <1>2. /\ sender'[w].at = "accepted" /\ sender'[w].job = sender[w].job
        /\ \A v \in Senders \ {w} : sender'[v] = sender[v]
        /\ w \in Claims(n)
    BY DEF Deliver, NoticeOf, Claims, IInv, QueueInv, TypeOK
  <1>3. /\ Cardinality(Claims(n)') = Cardinality(Claims(n)) - 1
        /\ Cardinality(Claims(n)') \in Nat
    BY <1>2, ClaimLess
  <1>4. Counted(n)'
    BY <1>1, <1>3, Counts, OneMoreFacts, BoundAssumption DEF Counted, Covered
  <1>5. \A v \in Senders : Sending(v, n)' <=> Sending(v, n)
    BY <1>2 DEF Sending, Claims
  <1>6. Undoubted(n)'
    BY <1>1, <1>5, Counts DEF Undoubted
  <1> QED
    BY <1>4, <1>6

\* A settlement ends the one sending there is, or there is a doubt.
LEMMA SettleNotices ==
    ASSUME IInv, NEW w \in Senders, NEW n \in Notices, n = NoticeOf(w),
           MarkSent(w) \/ RecordFailure(w)
    PROVE  Counted(n)' /\ Undoubted(n)'
  <1>1. /\ Sending(w, n) /\ Leaves(w)
        /\ w \in Claims(n) <=> sender[w].at = "claimed"
    BY DEF MarkSent, RecordFailure, Returns, Throws, NoticeOf, Sending, Claims, IInv, QueueInv,
           HandsOK, Sendings
  <1>2. /\ sender'[w] = AtRest /\ sender'[w].at = "idle"
        /\ \A v \in Senders \ {w} : sender'[v] = sender[v]
    BY <1>1 DEF Leaves, AtRest, IInv, QueueInv, TypeOK
  <1>3. /\ Cardinality(Claims(n)') \in Nat
        /\ Cardinality(Claims(n)') = IF sender[w].at = "claimed" THEN Cardinality(Claims(n)) - 1
                                                                 ELSE Cardinality(Claims(n))
    BY <1>1, <1>2, ClaimLess
  <1>4. doubts[n] = 0 => \A v \in Senders : ~Sending(v, n)'
    <2>1. doubts[n] = 0 => \A v \in Senders \ {w} : ~Sending(v, n)
      BY <1>1, Counts DEF Undoubted
    <2> QED
      BY <1>2, <2>1 DEF Sending
  <1>5. CASE MarkSent(w)
    <2>1. /\ status'[n] = "SENT" /\ UNCHANGED <<copies, doubts>>
      BY <1>1, <1>5 DEF MarkSent, IInv, QueueInv, TypeOK
    <2>2. Counted(n)'
      BY <1>1, <1>3, <2>1, Counts DEF Counted, Covered
    <2>3. Undoubted(n)'
      BY <1>4, <2>1 DEF Undoubted
    <2> QED
      BY <2>2, <2>3
  <1>6. CASE RecordFailure(w)
    <2>1. /\ UNCHANGED <<copies, known>>
          /\ \/ /\ status'[n] = "PENDING" /\ sender[w].at = "accepted"
                /\ doubts'[n] = OneMore(doubts[n])
             \/ /\ status'[n] \in {"PENDING", "FAILED"} /\ sender[w].at = "claimed"
                /\ doubts'[n] = doubts[n]
      BY <1>1, <1>6 DEF RecordFailure, IInv, QueueInv, TypeOK
    <2>2. Counted(n)'
      BY <1>1, <1>3, <2>1, Counts, OneMoreFacts, BoundAssumption DEF Counted, Covered
    <2>3. doubts'[n] = 0 => doubts[n] = 0 /\ known[n] = 0
      <3>1. doubts'[n] = 0 => doubts[n] = 0
        BY <1>1, <2>1, Counts, OneMoreFacts
      <3> QED
        BY <1>1, <3>1, Counts DEF Undoubted
    <2>4. Undoubted(n)'
      BY <1>4, <2>1, <2>3 DEF Undoubted
    <2> QED
      BY <2>2, <2>4
  <1> QED
    BY <1>5, <1>6

\* The steps of a worker between taking a job and leaving it.
LEMMA WorkerNotices ==
    ASSUME IInv, NEW w \in Senders, Step(w) \/ RecordFailure(w) \/ SenderDies(w),
           NEW m \in Notices
    PROVE  Counted(m)' /\ Undoubted(m)'
  <1>1. sender[w].at # "idle" /\ NoticeOf(w) \in Notices
    BY DEF Step, SendRead, SendClaim, Deliver, MarkSent, RecordFailure, SenderDies, NoticeOf,
           IInv, QueueInv, HandsOK, Sendings
  <1>2. /\ \A v \in Senders \ {w} : sender'[v] = sender[v]
        /\ sender'[w].job = sender[w].job \/ sender'[w].at = "idle"
    BY DEF Step, SendRead, SendClaim, Deliver, MarkSent, RecordFailure, SenderDies, Returns,
           Throws, Leaves, AtRest, IInv, QueueInv, TypeOK
  <1>3. CASE m # NoticeOf(w)
    <2>1. /\ status'[m] = status[m] /\ known'[m] = known[m]
          /\ copies'[m] = copies[m] /\ doubts'[m] = doubts[m]
      BY <1>1, <1>3 DEF Step, SendRead, SendClaim, Deliver, MarkSent, RecordFailure, SenderDies,
                        noticeVars, IInv, QueueInv, TypeOK
    <2> QED
      BY <1>1, <1>2, <1>3, <2>1, OthersUntouched
  <1>4. CASE m = NoticeOf(w) /\ sender'[w].at \notin {"claimed", "accepted"}
                             /\ UNCHANGED noticeVars
    BY <1>2, <1>4, Untouched DEF Sending, noticeVars
  <1>5. CASE \/ SendRead(w) \/ SenderDies(w)
             \/ SendClaim(w) /\ status[NoticeOf(w)] # "PENDING"
    <2>1. UNCHANGED noticeVars
      BY <1>5 DEF SendRead, SenderDies, SendClaim, noticeVars
    <2>2. sender'[w].at \in {"idle", "read"}
      BY <1>5 DEF SendRead, SenderDies, SendClaim, Returns, Throws, Leaves, AtRest,
                  IInv, QueueInv, TypeOK
    <2> QED
      BY <1>3, <1>4, <2>1, <2>2
  <1>6. CASE m = NoticeOf(w) /\ SendClaim(w) /\ status[NoticeOf(w)] = "PENDING"
    BY <1>6, ClaimNotices
  <1>7. CASE m = NoticeOf(w) /\ Deliver(w)
    BY <1>7, DeliverNotices
  <1>8. CASE m = NoticeOf(w) /\ (MarkSent(w) \/ RecordFailure(w))
    BY <1>8, SettleNotices
  <1> QED
    BY <1>3, <1>5, <1>6, <1>7, <1>8 DEF Step

-----------------------------------------------------------------------------
(* The theorems.                                                           *)

\* The invariant is inductive.
LEMMA StepIInv == IInv /\ [Next]_vars => IInv'
  <1> SUFFICES ASSUME IInv, [Next]_vars PROVE IInv'
    OBVIOUS
  <1>1. CASE UNCHANGED vars
    BY <1>1 DEF vars, IInv, QueueInv, TypeOK, QueueTypeOK, GoodJobs, JobsType, HandsOK, Counted,
                Undoubted, Covered, Claims, Sending
  <1>2. ASSUME NEW w \in Senders, NEW n \in Notices, NEW k \in {"send", "redrive"},
               Take(w, <<k, n>>)
        PROVE  IInv'
    BY <1>2, TakeStep, HandsNotices, <<k, n>> \in Sendings DEF IInv, Sendings
  <1>3. ASSUME NEW w \in Senders, Step(w) \/ RecordFailure(w) \/ SenderDies(w)
        PROVE  IInv'
    BY <1>3, WorkerStep, WorkerNotices DEF IInv
  <1>4. ASSUME NEW w \in Senders, LockLost(w)
        PROVE  IInv'
    <2>1. sender[w].job \in Sendings
      BY <1>4 DEF LockLost, IInv, QueueInv, HandsOK
    <2> QED
      BY <1>4, <2>1, LockLostStep, HandsNotices DEF IInv
  <1>5. CASE Draining /\ Elsewhere
    <2>1. \A m \in Notices : Counted(m)' /\ Undoubted(m)'
      BY <1>5, Untouched DEF Elsewhere, noticeVars
    <2> QED
      BY <1>5, <2>1, DrainStep DEF IInv
  <1>6. CASE Around
    BY <1>6, QueueAround, NoticesAround DEF IInv
  <1> QED
    BY <1>1, <1>2, <1>3, <1>4, <1>5, <1>6 DEF Next, Around, About, Reports

\* For every number of notices, workers, attempts and faults: rows and jobs are well
\* formed, and a second message goes out only after a claim was given up whose message
\* may have been on its way.
THEOREM DoubledOnlyInDoubt == Spec => []OneMessagePerDoubt
  <1>1. IInv => OneMessagePerDoubt
    <2> SUFFICES ASSUME IInv PROVE OneMessagePerDoubt
      OBVIOUS
    <2>1. ASSUME NEW n \in Notices PROVE copies[n] <= 1 + doubts[n]
      BY Counts, BoundAssumption DEF Counted, Covered
    <2> QED
      BY <2>1 DEF OneMessagePerDoubt, IInv, QueueInv
  <1> QED
    BY <1>1, InitIInv, StepIInv, PTL DEF Spec

\* While nobody doubts a notice, no step takes back what settled it: neither a later
\* verdict nor the mark of a worker.
LEMMA SettledStep ==
    ASSUME IInv, [Next]_vars, NEW n \in Notices, status[n] \in Settled, doubts[n] = 0
    PROVE  status'[n] = status[n]
  <1>1. /\ \A w \in Senders : ~Sending(w, n)
        /\ status[n] \notin {"absent", "PENDING", "SENDING", "SENT"}
    BY Counts DEF Undoubted, Settled
  <1>2. ASSUME NEW w \in Senders, Step(w) \/ RecordFailure(w)
        PROVE  status'[n] = status[n]
    <2>1. NoticeOf(w) # n \/ sender[w].at \in {"running", "read"}
      BY <1>1, <1>2 DEF Sending, NoticeOf, Step, SendRead, SendClaim, Deliver, MarkSent,
                        RecordFailure
    <2> QED
      BY <1>1, <1>2, <2>1 DEF Step, SendRead, SendClaim, Deliver, MarkSent, RecordFailure,
                              noticeVars, IInv, QueueInv, TypeOK
  <1>3. CASE Around
    BY <1>1, <1>3 DEF Around, About, Reports, Elsewhere, noticeVars, Record, HandleOccasion,
                      Queue, Sweep, WindowPasses, ProviderReports, ReconcileInbox, HandleVerdict,
                      ApplyDeliveryStatus, IInv, QueueInv, TypeOK
  <1>4. CASE UNCHANGED status
    BY <1>4
  <1> QED
    BY <1>2, <1>3, <1>4 DEF Next, Around, About, Reports, Elsewhere, noticeVars, Take, SenderDies,
                            LockLost, vars

\* What a verdict or a permanent failure settled stays settled, unless two workers sent.
THEOREM SettledForGood == Spec => SettledStaysSettled
  <1>1. IInv /\ [Next]_vars =>
            [\A n \in Notices :
                status[n] \in Settled /\ doubts[n] = 0 => status'[n] = status[n]]_vars
    BY SettledStep
  <1> QED
    BY <1>1, InitIInv, StepIInv, PTL DEF Spec, SettledStaysSettled
=============================================================================
