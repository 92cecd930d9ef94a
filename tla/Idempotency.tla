---------------------------- MODULE Idempotency ----------------------------
(***************************************************************************)
(* POST /public/bookings behind its Idempotency-Key: the key rows with     *)
(* lease, binding and stored response, the requests running under them,    *)
(* and the holds those requests put on the calendar.                       *)
(*                                                                         *)
(* Time is one bit per row (expiresAt has passed) and one state per hold.  *)
(***************************************************************************)
CONSTANTS
    Keys,        \* Idempotency-Key values
    Employees,
    Times,       \* start times on offer
    Services,
    Requests,    \* requests that may be running at the same time
    None,
    AnyEmployee, \* the customer's answer "any available employee"
    Outliving,   \* may a request still run when its lease has passed?
    BoundSwept   \* may the nightly sweep strike while a given-up hold lives?

ASSUME DistinctAssumption ==
    /\ None \notin Keys \cup Employees \cup Times \cup Services \cup {AnyEmployee} \cup Requests
    /\ None \notin Employees \X Times
    /\ AnyEmployee \notin Employees
ASSUME FlagsAssumption == Outliving \in BOOLEAN /\ BoundSwept \in BOOLEAN

VARIABLES
    row,      \* idempotency_keys by key
    request,  \* what each running request is doing
    waiting,  \* the request whose answer the customer awaits
    hold      \* the booking that blocks an employee at a time

serverVars == <<row, request, hold>>

Places == Employees \X Times
Bodies == [service : Services, employee : Employees \cup {AnyEmployee}, slot : Times]

\* A row: the request it fingerprints, the booking it is bound to, and whether
\* expiresAt (lease while in progress, replay window once completed) has passed.
Rows == [state : {"ABSENT", "IN_PROGRESS", "COMPLETED"}, body : Bodies \cup {None},
         booking : Places \cup {None}, lapsed : BOOLEAN]
NoRow == [state |-> "ABSENT", body |-> None, booking |-> None, lapsed |-> FALSE]

Running == {"arrived", "begun", "reserving", "held", "failing"}
Outcomes == {"CREATED", "SLOT_UNAVAILABLE", "IDEMPOTENCY_KEY_REUSED", "OTHER"}
RequestStates == [at : Running \cup {"idle", "done"}, key : Keys \cup {None},
                  body : Bodies \cup {None}, booking : Places \cup {None},
                  outcome : Outcomes \cup {None}]
Idle == [at |-> "idle", key |-> None, body |-> None, booking |-> None, outcome |-> None]

\* A hold: live (PENDING_PAYMENT before expiresAt), lapsed (past it, still blocking
\* until the expiry saga lets go), or another booking, a paid one included.
Holds == [state : {"free", "live", "lapsed", "other"},
          key : Keys \cup {None}]
Free == [state |-> "free", key |-> None]

ServerTypeOK ==
    /\ row \in [Keys -> Rows]
    /\ request \in [Requests -> RequestStates]
    /\ waiting \in Requests \cup {None}
    /\ hold \in [Places -> Holds]

ServerInit ==
    /\ row = [k \in Keys |-> NoRow]
    /\ request = [r \in Requests |-> Idle]
    /\ waiting = None
    /\ hold = [p \in Places |-> Free]

\* an answer nobody awaits is gone
Finish(r, outcome, booking) ==
    request' = [request EXCEPT ![r] =
        IF waiting = r THEN [@ EXCEPT !.at = "done", !.outcome = outcome, !.booking = booking]
                       ELSE Idle]

-----------------------------------------------------------------------------
(* The interceptor: claim the key, or answer from what the row says.       *)

Send(r, k, body) ==
    /\ request[r].at = "idle"
    /\ request' = [request EXCEPT ![r] =
                     [at |-> "arrived", key |-> k, body |-> body,
                      booking |-> None, outcome |-> None]]
    /\ UNCHANGED <<row, hold>>

\* insert, or a completed row whose replay window has closed
Unclaimed(k) == row[k].state = "ABSENT" \/ (row[k].state = "COMPLETED" /\ row[k].lapsed)

BeginNew(r) ==
    LET k == request[r].key IN
    /\ request[r].at = "arrived"
    /\ Unclaimed(k)
    /\ row' = [row EXCEPT ![k] = [NoRow EXCEPT !.state = "IN_PROGRESS",
                                               !.body = request[r].body]]
    /\ request' = [request EXCEPT ![r].at = "begun"]
    /\ UNCHANGED hold

\* Mutant: a retry takes the lease over while the first attempt runs.
TakeOverLease(r) ==
    LET k == request[r].key IN
    /\ request[r].at = "arrived"
    /\ row[k].state = "IN_PROGRESS"
    /\ row[k].body = request[r].body
    /\ row' = [row EXCEPT ![k].lapsed = FALSE]
    /\ request' = [request EXCEPT ![r].at = "begun"]
    /\ UNCHANGED hold

TakeOverExpiredLease(r) ==
    LET k == request[r].key IN
    /\ request[r].at = "arrived"
    /\ row[k].state = "IN_PROGRESS" /\ row[k].lapsed
    /\ row[k].body = request[r].body
    /\ row' = [row EXCEPT ![k].lapsed = FALSE]
    /\ request' = [request EXCEPT ![r].at = "begun"]
    /\ UNCHANGED hold

\* Mutant: a stored response is replayed without comparing the fingerprint.
BeginAnsweredUnread(r) ==
    LET k == request[r].key IN
    /\ request[r].at = "arrived"
    /\ ~Unclaimed(k)
    /\ \/ row[k].state = "COMPLETED" /\ Finish(r, "CREATED", row[k].booking)
       \/ row[k].state = "IN_PROGRESS" /\ ~row[k].lapsed /\ Finish(r, "OTHER", None)
    /\ UNCHANGED <<row, hold>>

BeginAnswered(r) ==
    LET k == request[r].key IN
    /\ request[r].at = "arrived"
    /\ ~Unclaimed(k)
    /\ \/ /\ row[k].body # request[r].body
          /\ Finish(r, "IDEMPOTENCY_KEY_REUSED", None)
       \/ /\ row[k].body = request[r].body
          /\ row[k].state = "COMPLETED"
          /\ Finish(r, "CREATED", row[k].booking)
       \/ /\ row[k].body = request[r].body
          /\ row[k].state = "IN_PROGRESS" /\ ~row[k].lapsed
          /\ Finish(r, "OTHER", None)
    /\ UNCHANGED <<row, hold>>

-----------------------------------------------------------------------------
(* The handler: resume the hold this key names, or reserve.                *)

Resumable(k) == /\ row[k].booking # None
                /\ hold[row[k].booking].state = "live"
                /\ hold[row[k].booking].key = k

\* Mutant: every attempt reserves anew.
ResumeNever(r) ==
    /\ request[r].at = "begun"
    /\ request' = [request EXCEPT ![r].at = "reserving"]
    /\ UNCHANGED <<row, hold>>

Resume(r) ==
    LET k == request[r].key IN
    /\ request[r].at = "begun"
    /\ request' = [request EXCEPT
           ![r].at = IF Resumable(k) THEN "held" ELSE "reserving",
           ![r].booking = IF Resumable(k) THEN row[k].booking ELSE None]
    /\ UNCHANGED <<row, hold>>

\* The employee asked for; for "any", one the earlier snapshot found free.
Candidates(body) == IF body.employee = AnyEmployee THEN Employees ELSE {body.employee}

Reserve(r) ==
    LET k == request[r].key
        body == request[r].body IN
    /\ request[r].at = "reserving"
    /\ row[k].state = "IN_PROGRESS"
    /\ \E e \in Candidates(body) :
         LET p == <<e, body.slot>> IN
         /\ hold[p].state = "free"
         /\ hold' = [hold EXCEPT ![p] = [state |-> "live", key |-> k]]
         /\ row' = [row EXCEPT ![k].booking = p]
         /\ request' = [request EXCEPT ![r].at = "held", ![r].booking = p]

\* the slot is checked under the calendar lock before the key is claimed
ReserveRefused(r) ==
    LET k == request[r].key
        places == {<<e, request[r].body.slot>> : e \in Candidates(request[r].body)} IN
    /\ request[r].at = "reserving"
    /\ \/ /\ \E p \in places : hold[p].state # "free"
          /\ request' = [request EXCEPT ![r].at = "failing",
                                        ![r].outcome = "SLOT_UNAVAILABLE"]
       \/ /\ \E p \in places : hold[p].state = "free"
          /\ row[k].state # "IN_PROGRESS"
          /\ request' = [request EXCEPT ![r].at = "failing",
                                        ![r].outcome = "IDEMPOTENCY_KEY_REUSED"]
    /\ UNCHANGED <<row, hold>>

\* validation, onboarding gate, booking window; or the provider is unreachable
HandlerFails(r) ==
    /\ request[r].at \in {"begun", "held"}
    /\ request' = [request EXCEPT ![r].at = "failing", ![r].outcome = "OTHER"]
    /\ UNCHANGED <<row, hold>>

-----------------------------------------------------------------------------
(* Ends of a request.                                                      *)

Complete(r) ==
    LET k == request[r].key IN
    /\ request[r].at = "held"
    /\ row' = IF row[k].state = "IN_PROGRESS"
              THEN [row EXCEPT ![k].state = "COMPLETED", ![k].lapsed = FALSE,
                               ![k].booking = request[r].booking]
              ELSE row
    /\ Finish(r, "CREATED", request[r].booking)
    /\ UNCHANGED hold

\* Mutant: a failed attempt deletes its row, bound or not.
AbandonBound(r) ==
    LET k == request[r].key IN
    /\ request[r].at = "failing"
    /\ row' = IF row[k].state = "IN_PROGRESS" THEN [row EXCEPT ![k] = NoRow] ELSE row
    /\ Finish(r, request[r].outcome, None)
    /\ UNCHANGED hold

Abandon(r) ==
    LET k == request[r].key IN
    /\ request[r].at = "failing"
    /\ row' = IF row[k].state # "IN_PROGRESS" THEN row
              ELSE IF row[k].booking = None
                   THEN [row EXCEPT ![k] = NoRow]
                   ELSE [row EXCEPT ![k].lapsed = TRUE]
    /\ Finish(r, request[r].outcome, None)
    /\ UNCHANGED hold

\* the process dies; nothing is abandoned
Dies(r) ==
    /\ request[r].at \in Running
    /\ Finish(r, "OTHER", None)
    /\ UNCHANGED <<row, hold>>

Server(r) ==
    \/ BeginNew(r) \/ TakeOverExpiredLease(r) \/ BeginAnswered(r)
    \/ Resume(r) \/ Reserve(r) \/ ReserveRefused(r) \/ HandlerFails(r)
    \/ Complete(r) \/ Abandon(r) \/ Dies(r)

-----------------------------------------------------------------------------
(* Time, the sweep and the other customers.                                *)

Busy(k) == \E r \in Requests : request[r].key = k /\ request[r].at \in Running \ {"arrived"}

LeaseLapses(k) ==
    /\ row[k].state = "IN_PROGRESS" /\ ~row[k].lapsed
    /\ Outliving \/ ~Busy(k)
    /\ row' = [row EXCEPT ![k].lapsed = TRUE]
    /\ UNCHANGED <<request, hold>>

\* a day later: nothing of the attempt is under way or held any more
ReplayWindowCloses(k) ==
    /\ row[k].state = "COMPLETED" /\ ~row[k].lapsed
    /\ \A r \in Requests : request[r].key # k
    /\ \A p \in Places : ~(hold[p].key = k /\ hold[p].state = "live")
    /\ row' = [row EXCEPT ![k].lapsed = TRUE]
    /\ UNCHANGED <<request, hold>>

Sweep(k) ==
    /\ row[k].state # "ABSENT" /\ row[k].lapsed
    /\ BoundSwept \/ ~Resumable(k)
    /\ row' = [row EXCEPT ![k] = NoRow]
    /\ UNCHANGED <<request, hold>>

HoldLapses(p) ==
    /\ hold[p].state = "live"
    /\ hold' = [hold EXCEPT ![p].state = "lapsed"]
    /\ UNCHANGED <<row, request>>

HoldReleased(p) ==
    /\ hold[p].state = "lapsed"
    /\ hold' = [hold EXCEPT ![p] = Free]
    /\ UNCHANGED <<row, request>>

Booked == [state |-> "other", key |-> None]

\* another customer books, or a booking is cancelled
OthersBook(p) ==
    /\ hold[p] \in {Free, Booked}
    /\ hold' = [hold EXCEPT ![p] = IF @ = Free THEN Booked ELSE Free]
    /\ UNCHANGED <<row, request>>

Environment ==
    \/ \E k \in Keys : LeaseLapses(k) \/ ReplayWindowCloses(k) \/ Sweep(k)
    \/ \E p \in Places : HoldLapses(p) \/ HoldReleased(p) \/ OthersBook(p)
=============================================================================
