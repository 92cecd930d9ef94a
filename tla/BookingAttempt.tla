-------------------------- MODULE BookingAttempt --------------------------
(***************************************************************************)
(* One customer's browser, driving POST /public/bookings: the wizard's     *)
(* draft with its idempotency key, the page on screen and the submission   *)
(* being waited for, composed with the server of Idempotency.              *)
(***************************************************************************)
EXTENDS Idempotency

VARIABLES
    draft,       \* the draft store: what sessionStorage keeps
    reservation, \* the created booking, in memory only
    page         \* the route

browserVars == <<draft, reservation, page, waiting>>
vars == <<row, request, hold, draft, reservation, page, waiting>>

Pages == {"wizard", "checkout", "stripe", "success", "canceled"}

\* employee None: not asked yet. offer: ghost, what the chosen time was offered for.
Drafts == [key : Keys \cup {None}, service : Services \cup {None},
           employee : Employees \cup {AnyEmployee, None}, slot : Times \cup {None},
           offer : (Services \X (Employees \cup {AnyEmployee})) \cup {None}]
EmptyDraft == [key |-> None, service |-> None, employee |-> None, slot |-> None,
               offer |-> None]

TypeOK ==
    /\ ServerTypeOK
    /\ draft \in Drafts
    /\ reservation \in Places \cup {None}
    /\ page \in Pages

Init ==
    /\ ServerInit
    /\ \E k \in Keys : draft = [EmptyDraft EXCEPT !.key = k]
    /\ reservation = None
    /\ page = "wizard"

-----------------------------------------------------------------------------
(* The draft store.                                                        *)

\* begin(): keeps the key of an attempt in progress
Begun(d, k) == IF d.key = None THEN [d EXCEPT !.key = k] ELSE d

\* crypto.randomUUID(): a key of which nothing is left anywhere is as good as new
Minted(k) == /\ k # draft.key
             /\ row[k].state = "ABSENT"
             /\ \A r \in Requests : request[r].key # k
             /\ \A p \in Places : hold[p].key # k

SetService(d, v) ==
    IF d.service = v THEN d
    ELSE [d EXCEPT !.service = v, !.employee = None, !.slot = None, !.offer = None]

SetEmployee(d, e) ==
    IF d.employee = e THEN d
    ELSE [d EXCEPT !.employee = e, !.slot = None, !.offer = None]

SetSlot(d, t) == [d EXCEPT !.slot = t, !.offer = <<d.service, d.employee>>]

ClearSlot(d) == [d EXCEPT !.slot = None, !.offer = None]

ExpireReservation(d, k) == [ClearSlot(d) EXCEPT !.key = k]

CanReach(d, step) ==
    /\ step # "service" => d.service # None
    /\ step \in {"slot", "details"} => d.employee # None
    /\ step = "details" => d.slot # None

-----------------------------------------------------------------------------
(* The wizard's pages.                                                     *)

\* The steps are one page here: indicator, deep link and back button lead to every
\* step CanReach admits, and to no other (enforceReachable).
ChooseService(v) ==
    /\ page = "wizard" /\ waiting = None
    /\ draft' = SetService(draft, v)
    /\ UNCHANGED <<serverVars, reservation, page, waiting>>

ChooseEmployee(e) ==
    /\ page = "wizard" /\ waiting = None
    /\ CanReach(draft, "employee")
    /\ draft' = SetEmployee(draft, e)
    /\ UNCHANGED <<serverVars, reservation, page, waiting>>

SelectSlot(t) ==
    /\ page = "wizard" /\ waiting = None
    /\ CanReach(draft, "slot")
    /\ draft' = SetSlot(draft, t)
    /\ UNCHANGED <<serverVars, reservation, page, waiting>>

Submit(r) ==
    /\ page = "wizard" /\ waiting = None
    /\ CanReach(draft, "details")
    /\ Send(r, draft.key, [service |-> draft.service, employee |-> draft.employee,
                           slot |-> draft.slot])
    /\ waiting' = r
    /\ UNCHANGED <<draft, reservation, page>>

Created(r) ==
    /\ waiting = r /\ request[r].at = "done" /\ request[r].outcome = "CREATED"
    /\ reservation' = request[r].booking
    /\ page' = "checkout"
    /\ waiting' = None
    /\ request' = [request EXCEPT ![r] = Idle]
    /\ UNCHANGED <<row, hold, draft>>

Refused(r) ==
    /\ waiting = r /\ request[r].at = "done" /\ request[r].outcome # "CREATED"
    /\ \/ /\ request[r].outcome = "SLOT_UNAVAILABLE"
          /\ draft' = ClearSlot(draft) /\ reservation' = None /\ UNCHANGED page
       \/ /\ request[r].outcome = "IDEMPOTENCY_KEY_REUSED"
          /\ \E k \in Keys : Minted(k) /\ draft' = Begun(EmptyDraft, k)
          /\ reservation' = None /\ UNCHANGED page
       \/ /\ request[r].outcome = "OTHER"
          /\ UNCHANGED <<draft, reservation, page>>
    /\ waiting' = None
    /\ request' = [request EXCEPT ![r] = Idle]
    /\ UNCHANGED <<row, hold>>

\* the answer is lost on the way: the page shows an error and stays
AnswerLost(r) ==
    /\ waiting = r
    /\ waiting' = None
    /\ request' = [request EXCEPT ![r] = IF @.at = "done" THEN Idle ELSE @]
    /\ UNCHANGED <<row, hold, draft, reservation, page>>

\* memory is gone, sessionStorage is not; a request under way goes on
Reload ==
    /\ page \in {"wizard", "checkout"}
    /\ reservation' = None /\ waiting' = None
    /\ page' = "wizard"
    /\ request' = [r \in Requests |-> IF request[r].at = "done" THEN Idle ELSE request[r]]
    /\ UNCHANGED <<row, hold, draft>>

-----------------------------------------------------------------------------
(* After the reservation: checkout, success and cancelled pages.           *)

CountdownEnds ==
    /\ page = "checkout" /\ reservation # None
    /\ hold[reservation].state # "live" \/ hold[reservation].key # draft.key
    /\ \E k \in Keys : Minted(k) /\ draft' = ExpireReservation(draft, k)
    /\ reservation' = None
    /\ page' = "wizard"
    /\ UNCHANGED <<serverVars, waiting>>

Redirect ==
    /\ page = "checkout" /\ reservation # None
    /\ page' = "stripe"
    /\ UNCHANGED <<serverVars, draft, reservation, waiting>>

Pay ==
    /\ page = "stripe"
    /\ hold[reservation].state \in {"live", "lapsed"}
    /\ hold[reservation].key = draft.key
    /\ hold' = [hold EXCEPT ![reservation] = Booked]
    /\ draft' = EmptyDraft
    /\ reservation' = None
    /\ page' = "success"
    /\ UNCHANGED <<row, request, waiting>>

GiveUpPayment ==
    /\ page = "stripe"
    /\ reservation' = None
    /\ page' \in {"canceled", "wizard"}   \* cancelUrl, or the back button
    /\ UNCHANGED <<serverVars, draft, waiting>>

Restart ==
    /\ page \in {"success", "canceled"}
    /\ \E k \in Keys : Minted(k) /\ draft' = Begun(EmptyDraft, k)
    /\ page' = "wizard"
    /\ UNCHANGED <<serverVars, reservation, waiting>>

Browser ==
    \/ \E v \in Services : ChooseService(v)
    \/ \E e \in Employees \cup {AnyEmployee} : ChooseEmployee(e)
    \/ \E t \in Times : SelectSlot(t)
    \/ \E r \in Requests : Submit(r) \/ Created(r) \/ Refused(r) \/ AnswerLost(r)
    \/ Reload \/ CountdownEnds \/ Redirect \/ Pay \/ GiveUpPayment \/ Restart

Next ==
    \/ Browser
    \/ (\E r \in Requests : Server(r)) /\ UNCHANGED browserVars
    \/ Environment /\ UNCHANGED browserVars

Spec == Init /\ [][Next]_vars

-----------------------------------------------------------------------------
(* Properties.                                                             *)

\* The answer a browser accepts is a booking of what it asked for: the key's row
\* never hands out the booking of another request.
AnswerFitsRequest ==
    \A r \in Requests :
        waiting = r /\ request[r].at = "done" /\ request[r].outcome = "CREATED" =>
            LET p == request[r].booking IN
            /\ p[2] = request[r].body.slot
            /\ request[r].body.employee \in {p[1], AnyEmployee}

\* One key never keeps two slots from others: a retry resumes, it does not book again.
OneHoldPerKey ==
    \A p, q \in Places :
        /\ hold[p].state = "live" /\ hold[q].state = "live"
        /\ hold[p].key = hold[q].key
        => p = q

\* A customer who retries is not refused by the hold of the attempt before, nor given a
\* second one (resume and abandon in idempotency.service.ts).
RetryFindsItsHold ==
    /\ OneHoldPerKey
    /\ \A r \in Requests :
          request[r].at = "failing" /\ request[r].outcome = "SLOT_UNAVAILABLE" =>
              \A p \in Places : hold[p].state = "live" => hold[p].key # request[r].key

\* Every row and page is well formed, and of the requests of one key at most one is
\* past begin(): the lease, its take-over and its return keep the others out.
OneAttemptAtATime ==
    /\ TypeOK
    /\ \A r, s \in Requests :
          /\ request[r].key = request[s].key
          /\ {request[r].at, request[s].at} \subseteq Running \ {"arrived"}
          => r = s
=============================================================================
