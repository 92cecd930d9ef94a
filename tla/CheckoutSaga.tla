---------------------------- MODULE CheckoutSaga ----------------------------
(***************************************************************************)
(* From "I would like this slot" to a slot that is kept or let go.         *)
(*                                                                         *)
(* The API process reserves a slot, opens a Checkout session at the        *)
(* payment provider outside any transaction and attaches it to the booking *)
(* in a second transaction.  The customer may pay as long as the session   *)
(* is open.  When the hold lapses, the worker process moves the booking to *)
(* EXPIRING, asks the provider to expire the session and lets the answer   *)
(* decide.  In parallel the provider's webhook events reach the inbox and  *)
(* are handled, at least once and in any order with the expiry saga.       *)
(*                                                                         *)
(* One database transaction is one action: every transaction modelled here *)
(* takes the booking row FOR UPDATE (or, for a reservation, the employee's *)
(* advisory lock) before it reads what it decides on.  The code between    *)
(* two transactions or provider calls is not atomic, so the worker is a    *)
(* set of positions: any number of jobs may stand at each, and one that    *)
(* dies simply leaves its position.                                        *)
(***************************************************************************)
EXTENDS BookingStatus, Naturals

CONSTANTS
    Bookings,       \* reservation attempts; each is made at most once
    Overlap,        \* the pairs {b, c} whose blocks meet on one employee's calendar
    LateCheckout    \* may a checkout request still be running when its hold lapses?

ASSUME OverlapAssumption == Overlap \subseteq SUBSET Bookings
ASSUME LateCheckoutAssumption == LateCheckout \in BOOLEAN

VARIABLES
    (* bookings, payments and management_tokens rows *)
    status,         \* Booking.status, Absent before the row exists
    attached,       \* Booking.stripeCheckoutSessionId is not null
    payment,        \* Payment.status of the session's row, "none" without a row
    tokens,         \* management tokens issued, each with its BOOKING_CONFIRMED event
    lapsed,         \* Booking.expiresAt has passed
    (* the API process and its customer *)
    checkout,       \* where the request of this idempotency key stands
    url,            \* the customer has been handed the session's URL
    (* the payment provider *)
    session,        \* state of the booking's Checkout session
    event,          \* how far the session's one webhook event has come
    (* the worker process *)
    handler,        \* where handlers of that event stand
    saga,           \* where runs of phase two of the expiry stand
    escalated       \* payment.after_terminal was reported

rows     == <<status, attached, payment, tokens>>
api      == <<checkout, url>>
provider == <<session, event>>
worker   == <<handler, saga, escalated>>
vars     == <<rows, lapsed, api, provider, worker>>

-----------------------------------------------------------------------------
Conflicts(b) == {c \in Bookings \ {b} : {b, c} \in Overlap}

\* Mutant: the overlap check forgets that EXPIRING occupies the slot.
SlotFreeOnceExpiring(b) ==
    \A c \in Conflicts(b) : status[c] \notin Blocking \ {"EXPIRING"}

\* bookings_no_overlap, and the re-check made inside the calendar lock.
SlotFree(b) == \A c \in Conflicts(b) : status[c] \notin Blocking

\* Every write of a status asserts the transition first.  The history row of
\* the same transaction repeats the move and is left out.
Move(b, to) ==
    /\ CanTransition(status[b], to)
    /\ status' = [status EXCEPT ![b] = to]

Init ==
    /\ status    = [b \in Bookings |-> Absent]
    /\ attached  = [b \in Bookings |-> FALSE]
    /\ payment   = [b \in Bookings |-> "none"]
    /\ tokens    = [b \in Bookings |-> 0]
    /\ lapsed    = [b \in Bookings |-> FALSE]
    /\ checkout  = [b \in Bookings |-> "idle"]
    /\ url       = [b \in Bookings |-> FALSE]
    /\ session   = [b \in Bookings |-> "none"]
    /\ event     = [b \in Bookings |-> "none"]
    /\ handler   = [b \in Bookings |-> {}]
    /\ saga      = [b \in Bookings |-> {}]
    /\ escalated = [b \in Bookings |-> FALSE]

-----------------------------------------------------------------------------
(***************************************************************************)
(* The API process.                                                        *)
(***************************************************************************)

\* A customer's reservation commits, and its request goes on to the provider.
ReserveOnline(b) ==
    /\ SlotFree(b)
    /\ status[b] = Absent
    /\ Move(b, "PENDING_PAYMENT")
    /\ checkout' = [checkout EXCEPT ![b] = "creating"]
    /\ UNCHANGED <<attached, payment, tokens, lapsed, url, provider, worker>>

\* The office books without payment: confirmed, with its token, on creation.
ReserveOffice(b) ==
    /\ SlotFree(b)
    /\ status[b] = Absent
    /\ Move(b, "CONFIRMED")
    /\ tokens' = [tokens EXCEPT ![b] = @ + 1]
    /\ UNCHANGED <<attached, payment, lapsed, api, provider, worker>>

\* A retry under the same idempotency key finds its own live hold.  While a
\* request of this key is in progress it is refused, and once a URL was handed
\* out it is answered with the stored response.
Resume(b) ==
    /\ status[b] = "PENDING_PAYMENT"
    /\ ~lapsed[b]
    /\ ~url[b]
    /\ checkout[b] = "idle"
    /\ checkout' = [checkout EXCEPT ![b] = "creating"]
    /\ UNCHANGED <<rows, lapsed, url, provider, worker>>

\* The provider opens the session, or returns the one this key already opened.
\* The answer may be lost.
CreateSession(b) ==
    /\ checkout[b] = "creating"
    /\ session' = [session EXCEPT ![b] = IF @ = "none" THEN "open" ELSE @]
    /\ \E next \in {"attaching", "idle"} : checkout' = [checkout EXCEPT ![b] = next]
    /\ UNCHANGED <<rows, lapsed, url, event, worker>>

\* Transaction two.  It asks nothing of the booking's status.  The response
\* with the URL is sent after the commit, and may be lost.
Attach(b) ==
    /\ checkout[b] = "attaching"
    /\ attached' = [attached EXCEPT ![b] = TRUE]
    /\ payment' = [payment EXCEPT ![b] = IF @ = "none" THEN "PENDING" ELSE @]
    /\ url' \in {url, [url EXCEPT ![b] = TRUE]}
    /\ checkout' = [checkout EXCEPT ![b] = "idle"]
    /\ UNCHANGED <<status, tokens, lapsed, provider, worker>>

\* The provider refuses, a transaction fails or the process dies.
AbandonCheckout(b) ==
    /\ checkout[b] # "idle"
    /\ checkout' = [checkout EXCEPT ![b] = "idle"]
    /\ UNCHANGED <<rows, lapsed, url, provider, worker>>

-----------------------------------------------------------------------------
(***************************************************************************)
(* The customer, the provider and the clock.                               *)
(***************************************************************************)

\* Only somebody who was given the URL of an open session can complete it.
Payable(b) == session[b] = "open" /\ url[b]

Complete(b, how) ==
    /\ Payable(b)
    /\ session' = [session EXCEPT ![b] = how]
    /\ event' = [event EXCEPT ![b] = "sent"]
    /\ UNCHANGED <<rows, lapsed, api, worker>>

Pay(b) == Complete(b, "paid")

\* An asynchronous method that slipped past the card-only restriction.
CompleteUnpaid(b) == Complete(b, "unpaid")

\* The session's own expires_at, never earlier than the hold's.
SessionTimesOut(b) ==
    /\ session[b] = "open"
    /\ lapsed[b]
    /\ session' = [session EXCEPT ![b] = "expired"]
    /\ event' = [event EXCEPT ![b] = "sent"]
    /\ UNCHANGED <<rows, lapsed, api, worker>>

HoldLapses(b) ==
    /\ status[b] = "PENDING_PAYMENT"
    /\ ~lapsed[b]
    /\ LateCheckout \/ checkout[b] = "idle"
    /\ lapsed' = [lapsed EXCEPT ![b] = TRUE]
    /\ UNCHANGED <<rows, api, provider, worker>>

-----------------------------------------------------------------------------
(***************************************************************************)
(* Two ways to settle a booking, each one transaction.                     *)
(***************************************************************************)

\* Mutant: a second confirmation is not recognised as one.
ConfirmPaidAgain(b) ==
    \/ /\ status[b] \in Terminal
       /\ escalated' = [escalated EXCEPT ![b] = TRUE]
       /\ UNCHANGED rows
    \/ /\ status[b] \in Blocking
       /\ status' = [status EXCEPT ![b] = "CONFIRMED"]
       /\ attached' = [attached EXCEPT ![b] = TRUE]
       /\ payment' = [payment EXCEPT ![b] = "SUCCEEDED"]
       /\ tokens' = [tokens EXCEPT ![b] = @ + 1]
       /\ UNCHANGED escalated

\* Mutant: a payment for a settled booking is taken for a duplicate event.
ConfirmPaidSilently(b) ==
    \/ /\ status[b] \in Terminal \cup {"CONFIRMED"}
       /\ UNCHANGED <<rows, escalated>>
    \/ /\ status[b] \in {"PENDING_PAYMENT", "EXPIRING"}
       /\ Move(b, "CONFIRMED")
       /\ attached' = [attached EXCEPT ![b] = TRUE]
       /\ payment' = [payment EXCEPT ![b] = "SUCCEEDED"]
       /\ tokens' = [tokens EXCEPT ![b] = @ + 1]
       /\ UNCHANGED escalated

\* Mutant: a duplicate event of a confirmed booking is reported for refund.
ConfirmPaidLoudly(b) ==
    \/ /\ status[b] \in Terminal \cup {"CONFIRMED"}
       /\ escalated' = [escalated EXCEPT ![b] = TRUE]
       /\ UNCHANGED rows
    \/ /\ status[b] \in {"PENDING_PAYMENT", "EXPIRING"}
       /\ Move(b, "CONFIRMED")
       /\ attached' = [attached EXCEPT ![b] = TRUE]
       /\ payment' = [payment EXCEPT ![b] = "SUCCEEDED"]
       /\ tokens' = [tokens EXCEPT ![b] = @ + 1]
       /\ UNCHANGED escalated

ConfirmPaid(b) ==
    \/ /\ status[b] = "CONFIRMED"
       /\ UNCHANGED <<rows, escalated>>
    \/ /\ status[b] \in Terminal
       /\ escalated' = [escalated EXCEPT ![b] = TRUE]
       /\ UNCHANGED rows
    \/ /\ status[b] \in {"PENDING_PAYMENT", "EXPIRING"}
       /\ Move(b, "CONFIRMED")
       /\ attached' = [attached EXCEPT ![b] = TRUE]
       /\ payment' = [payment EXCEPT ![b] = "SUCCEEDED"]
       /\ tokens' = [tokens EXCEPT ![b] = @ + 1]
       /\ UNCHANGED escalated

MarkPaymentFailed(b) ==
    \/ /\ status[b] # "PENDING_PAYMENT"
       /\ UNCHANGED rows
    \/ /\ status[b] = "PENDING_PAYMENT"
       /\ Move(b, "PAYMENT_FAILED")
       /\ payment' = [payment EXCEPT ![b] = IF @ = "PENDING" THEN "FAILED" ELSE @]
       /\ UNCHANGED <<attached, tokens>>

-----------------------------------------------------------------------------
(***************************************************************************)
(* The worker process: webhook events.                                     *)
(***************************************************************************)

\* The event is stored in the inbox; a redelivery is a duplicate of that row.
ReceiveEvent(b) ==
    /\ event[b] = "sent"
    /\ event' = [event EXCEPT ![b] = "stored"]
    /\ UNCHANGED <<rows, lapsed, api, session, worker>>

\* A job, first or redelivered, reads a row that is not processed yet.
ReadEvent(b) ==
    /\ event[b] = "stored"
    /\ handler' = [handler EXCEPT ![b] = @ \cup {"dispatching"}]
    /\ UNCHANGED <<rows, lapsed, api, provider, saga, escalated>>

\* Mutant: payment_status is not read, a completed session is a paid one.
DispatchUnread(b) ==
    \/ session[b] \in {"paid", "unpaid"} /\ ConfirmPaid(b)
    \/ session[b] = "expired" /\ MarkPaymentFailed(b) /\ UNCHANGED escalated

\* What the event means is the state the session ended in.
Dispatch(b) ==
    \/ session[b] = "paid" /\ ConfirmPaid(b)
    \/ session[b] = "unpaid" /\ UNCHANGED <<rows, escalated>>
    \/ session[b] = "expired" /\ MarkPaymentFailed(b) /\ UNCHANGED escalated

\* Another handler of the same event may still be where this one was.
DispatchEvent(b) ==
    /\ "dispatching" \in handler[b]
    /\ Dispatch(b)
    /\ \E others \in {{}, {"dispatching"}} :
         handler' = [handler EXCEPT ![b] = {"marking"} \cup others]
    /\ UNCHANGED <<lapsed, api, provider, saga>>

MarkProcessed(b) ==
    /\ "marking" \in handler[b]
    /\ event' = [event EXCEPT ![b] = "processed"]
    /\ handler' = [handler EXCEPT ![b] = @ \ {"marking"}]
    /\ UNCHANGED <<rows, lapsed, api, session, saga, escalated>>

HandlerDies(b) ==
    /\ \E step \in handler[b] :
         handler' = [handler EXCEPT ![b] = @ \ {step}]
    /\ UNCHANGED <<rows, lapsed, api, provider, saga, escalated>>

-----------------------------------------------------------------------------
(***************************************************************************)
(* The worker process: the expiry saga.  A delayed job, the job phase one  *)
(* asks for and two sweeps all lead here, so any booking may be picked up  *)
(* at any time and by several workers at once.                             *)
(***************************************************************************)

BeginExpiry(b) ==
    /\ status[b] = "PENDING_PAYMENT"
    /\ lapsed[b]
    /\ Move(b, "EXPIRING")
    /\ UNCHANGED <<attached, payment, tokens, lapsed, api, provider, worker>>

\* Mutant: the naive expiry, "expiresAt has passed, so free the slot".
CompleteExpiryUnasked(b) ==
    /\ status[b] = "EXPIRING"
    /\ saga' = [saga EXCEPT ![b] = @ \cup {"releasing"}]
    /\ UNCHANGED <<rows, lapsed, api, provider, handler, escalated>>

\* Mutant: a booking that never got a session is not settled.
CompleteExpiryAttached(b) ==
    /\ status[b] = "EXPIRING"
    /\ attached[b]
    /\ saga' = [saga EXCEPT ![b] = @ \cup {"asking"}]
    /\ UNCHANGED <<rows, lapsed, api, provider, handler, escalated>>

\* Read without a lock: what is decided here is acted on later.
CompleteExpiry(b) ==
    /\ status[b] = "EXPIRING"
    /\ saga' = [saga EXCEPT ![b] = @ \cup {IF attached[b] THEN "asking" ELSE "releasing"}]
    /\ UNCHANGED <<rows, lapsed, api, provider, handler, escalated>>

\* Mutant: "already complete" is read as "nothing left to ask".
VerdictUnread(b) == "releasing"

\* The step the provider's answer leads to.
Verdict(b) == IF session[b] = "paid" THEN "confirming" ELSE "releasing"

\* The provider expires an open session and answers for one that has ended.
\* When the answer is lost, or another worker asks too, "asking" stays.
ExpireSession(b) ==
    /\ "asking" \in saga[b]
    /\ session' = [session EXCEPT ![b] = IF @ = "open" THEN "expired" ELSE @]
    /\ event' = [event EXCEPT ![b] = IF session[b] = "open" THEN "sent" ELSE @]
    /\ \E next \in {{"asking"}, {Verdict(b)}, {"asking", Verdict(b)}} :
         saga' = [saga EXCEPT ![b] = (@ \ {"asking"}) \cup next]
    /\ UNCHANGED <<rows, lapsed, api, handler, escalated>>

\* Mutant: the status read before the provider call is trusted.
ReleaseUnchecked(b) ==
    /\ "releasing" \in saga[b]
    /\ status' = [status EXCEPT ![b] = "EXPIRED"]
    /\ saga' = [saga EXCEPT ![b] = @ \ {"releasing"}]
    /\ UNCHANGED <<attached, payment, tokens, lapsed, api, provider, handler, escalated>>

\* Under the lock the status is read again: a confirmation in between wins.
Release(b) ==
    /\ "releasing" \in saga[b]
    /\ IF status[b] = "EXPIRING"
       THEN Move(b, "EXPIRED") /\ UNCHANGED <<attached, payment, tokens>>
       ELSE UNCHANGED rows
    /\ saga' = [saga EXCEPT ![b] = @ \ {"releasing"}]
    /\ UNCHANGED <<lapsed, api, provider, handler, escalated>>

ConfirmInstead(b) ==
    /\ "confirming" \in saga[b]
    /\ ConfirmPaid(b)
    /\ saga' = [saga EXCEPT ![b] = @ \ {"confirming"}]
    /\ UNCHANGED <<lapsed, api, provider, handler>>

SagaDies(b) ==
    /\ \E step \in saga[b] :
         saga' = [saga EXCEPT ![b] = @ \ {step}]
    /\ UNCHANGED <<rows, lapsed, api, provider, handler, escalated>>

-----------------------------------------------------------------------------
ApiStep(b) ==
    \/ ReserveOnline(b) \/ ReserveOffice(b) \/ Resume(b)
    \/ CreateSession(b) \/ Attach(b) \/ AbandonCheckout(b)

EnvironmentStep(b) ==
    Pay(b) \/ CompleteUnpaid(b) \/ SessionTimesOut(b) \/ HoldLapses(b)

EventStep(b) ==
    ReceiveEvent(b) \/ ReadEvent(b) \/ DispatchEvent(b) \/ MarkProcessed(b) \/ HandlerDies(b)

SagaStep(b) ==
    \/ BeginExpiry(b) \/ CompleteExpiry(b) \/ ExpireSession(b)
    \/ Release(b) \/ ConfirmInstead(b) \/ SagaDies(b)

Next == \E b \in Bookings :
            ApiStep(b) \/ EnvironmentStep(b) \/ EventStep(b) \/ SagaStep(b)

\* Requests end and time passes; the provider redelivers until it is answered
\* and the inbox reconciler re-enqueues; the expiry job is retried with backoff
\* and re-driven by a sweep each minute.  None of it is starved by crashes that
\* strike again and again, hence strong fairness on every step of a job.
Fairness == \A b \in Bookings :
    /\ WF_vars(CreateSession(b) \/ Attach(b) \/ AbandonCheckout(b))
    /\ SF_vars(HoldLapses(b))
    /\ WF_vars(ReceiveEvent(b))
    /\ WF_vars(ReadEvent(b)) /\ SF_vars(DispatchEvent(b)) /\ SF_vars(MarkProcessed(b))
    /\ WF_vars(BeginExpiry(b)) /\ WF_vars(CompleteExpiry(b))
    /\ SF_vars(ExpireSession(b) /\ "asking" \notin saga'[b])
    /\ SF_vars(Release(b)) /\ SF_vars(ConfirmInstead(b))

Spec == Init /\ [][Next]_vars /\ Fairness
-----------------------------------------------------------------------------
(***************************************************************************)
(* Properties.                                                             *)
(***************************************************************************)

\* Every variable has its type.
TypeOK ==
    /\ status \in [Bookings -> Statuses \cup {Absent}]
    /\ attached \in [Bookings -> BOOLEAN]
    /\ payment \in [Bookings -> {"none", "PENDING", "SUCCEEDED", "FAILED"}]
    /\ tokens \in [Bookings -> Nat]
    /\ lapsed \in [Bookings -> BOOLEAN]
    /\ checkout \in [Bookings -> {"idle", "creating", "attaching"}]
    /\ url \in [Bookings -> BOOLEAN]
    /\ session \in [Bookings -> {"none", "open", "paid", "unpaid", "expired"}]
    /\ event \in [Bookings -> {"none", "sent", "stored", "processed"}]
    /\ handler \in [Bookings -> SUBSET {"dispatching", "marking"}]
    /\ saga \in [Bookings -> SUBSET {"asking", "releasing", "confirming"}]
    /\ escalated \in [Bookings -> BOOLEAN]

\* Two bookings that meet on one employee's calendar never both occupy it,
\* also while one of them is between "lapsed" and "let go" (EXPIRING).
NoDoubleBooking ==
    \A b \in Bookings : \A c \in Conflicts(b) :
        ~(status[b] \in Blocking /\ status[c] \in Blocking)

\* A slot is let go only once nobody has paid for it and nobody still can:
\* what the two phases of the expiry are for.
ReleasedIsUnpayable ==
    \A b \in Bookings :
        status[b] \in {"EXPIRED", "PAYMENT_FAILED"} =>
            session[b] # "paid" /\ ~Payable(b)

\* Webhook and expiry saga may both discover the payment; together they issue
\* one management token and one confirmation, and none for a lost booking.
ConfirmedOnce ==
    \A b \in Bookings : tokens[b] = (IF status[b] = "CONFIRMED" THEN 1 ELSE 0)

\* Nobody gets an appointment without paying for it, and the payment row says
\* so; the office's bookings, which never open a session, are the exception.
\* Conversely no row claims money for a booking that is not confirmed, and webhook and
\* expiry together confirm once (booking-confirmation.service.ts).
KeptIsPaidFor ==
    /\ ConfirmedOnce
    /\ \A b \in Bookings :
          /\ status[b] = "CONFIRMED" /\ session[b] # "none" =>
                session[b] = "paid" /\ payment[b] = "SUCCEEDED" /\ attached[b]
          /\ payment[b] = "SUCCEEDED" => status[b] = "CONFIRMED" /\ session[b] = "paid"

\* payment.after_terminal raises an alarm for money that really was taken for
\* an appointment that does not exist, not for a redelivered event.
EscalatedIsOwed ==
    \A b \in Bookings :
        escalated[b] => session[b] = "paid" /\ status[b] \in Terminal

\* What makes the properties above inductive when no checkout outlives its
\* hold.  From the lapse on the session can get no new payer: every run of the
\* saga that decided to release did so on an answer that stays true.
SagaInvariant ==
    \A b \in Bookings :
        /\ status[b] = Absent => session[b] = "none" /\ checkout[b] = "idle" /\ ~lapsed[b]
        /\ status[b] \in {Absent, "PENDING_PAYMENT", "EXPIRING", "CONFIRMED",
                          "EXPIRED", "PAYMENT_FAILED"}
        /\ status[b] = "CONFIRMED" /\ session[b] = "none" => checkout[b] = "idle"
        /\ status[b] = "PAYMENT_FAILED" => session[b] = "expired"
        /\ status[b] \in {"EXPIRING", "EXPIRED"} => lapsed[b]
        /\ lapsed[b] => checkout[b] = "idle"
        /\ url[b] => attached[b]
        /\ session[b] \in {"paid", "unpaid"} => url[b]
        /\ "releasing" \in saga[b] => session[b] # "paid" /\ ~Payable(b)
        /\ "confirming" \in saga[b] => session[b] = "paid"
        /\ saga[b] # {} => lapsed[b]

\* Every hold is settled: an abandoned checkout does not block the calendar
\* forever.
HoldIsSettled ==
    \A b \in Bookings :
        status[b] = "PENDING_PAYMENT" ~> status[b] \in Terminal \cup {"CONFIRMED"}

\* Even where a checkout outlives its hold, money taken ends in a confirmed booking or in
\* front of somebody who can refund it - and nobody is shown money that was not taken.
PaidIsNeverForgotten ==
    /\ []EscalatedIsOwed
    /\ \A b \in Bookings : session[b] = "paid" ~> status[b] = "CONFIRMED" \/ escalated[b]

-----------------------------------------------------------------------------
(***************************************************************************)
(* The saga implements the promise made to the customer.                   *)
(***************************************************************************)

PromiseOf(b) ==
    CASE status[b] = Absent                             -> "none"
      [] status[b] \in {"PENDING_PAYMENT", "EXPIRING"} -> "held"
      [] status[b] = "CONFIRMED"                        -> "kept"
      [] OTHER                                          -> "released"

Promise == INSTANCE SlotPromise WITH
    promise <- [b \in Bookings |-> PromiseOf(b)],
    charged <- [b \in Bookings |-> session[b] = "paid"]

\* A customer is charged only while the slot is held, a charged hold is kept
\* and never released, and no overlapping promise is ever alive.
RefinesPromise == Promise!Spec

=============================================================================
