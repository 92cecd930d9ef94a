----------------------------- MODULE Decisions ------------------------------
(***************************************************************************)
(* What happens to a confirmed booking: the customer cancels or asks to,   *)
(* asks for another time, the office decides, cancels, or notes who came.  *)
(*                                                                         *)
(* Each operation is one transaction that locks the booking's row before   *)
(* it looks at the status, and is one action here.  Two are not.  A        *)
(* customer's cancellation looks at the booking first and locks later.     *)
(* The approval of a new time locks the request and the calendars, but     *)
(* reads the booking without its row lock and writes it by id at the end;  *)
(* what other transactions do to the booking in between is lost on it.     *)
(* Disturbed says whether they get the chance.                             *)
(*                                                                         *)
(* The calendar locks are left out, which only adds behaviour: of two      *)
(* transactions that want one slot the exclusion constraint admits one.    *)
(***************************************************************************)
EXTENDS Integers, BookingStatus

CONSTANTS
    Bookings,   \* booking rows that may come to exist
    Requests,   \* rows of cancellation_requests and reschedule_requests
    Slots,      \* blocks of employees' time, no two of which overlap
    None,       \* no row, no slot
    Policies,   \* answers of the cancellation policy: "free", or "fee" for a decision
    Disturbed   \* may a booking be written while its new time is being approved?

ASSUME NoneAssumption == None \notin Bookings \cup Slots
ASSUME PoliciesAssumption == Policies \subseteq {"free", "fee"}
ASSUME DisturbedAssumption == Disturbed \in BOOLEAN

VARIABLES
    (* bookings, management_tokens, outbox *)
    status,
    slot,
    replaces,   \* Booking.rescheduledFromBookingId
    root,       \* Booking.financialRootBookingId, or the booking itself
    live,       \* the booking has a management token that is not revoked
    canceled,   \* BOOKING_CANCELED events recorded
    (* requests *)
    about,      \* the booking
    wants,      \* the requested slot, None for a cancellation request
    decision,
    (* transactions and requests in progress *)
    asked,      \* cancellations that passed the checks made without a lock
    approving,  \* the approval has read the booking
    (* time *)
    phase

rows     == <<status, slot, replaces, root, live, canceled>>
requests == <<about, wants, decision>>
progress == <<asked, approving>>
vars     == <<rows, requests, progress, phase>>

-----------------------------------------------------------------------------
Replacements(b) == {c \in Bookings : replaces[c] = b}

SlotFree(s) == \A b \in Bookings : slot[b] = s => status[b] \notin Blocking

IsCancellation(q) == about[q] # None /\ wants[q] = None
IsReschedule(q)   == about[q] # None /\ wants[q] # None

Pending(b) == {q \in Requests : about[q] = b /\ decision[q] = "PENDING"}

\* A transaction that writes booking b does not commit inside an approval.
Undisturbed(b) == Disturbed \/ \A q \in Requests : about[q] = b => ~approving[q]

Move(b, to) ==
    /\ CanTransition(status[b], to)
    /\ status' = [status EXCEPT ![b] = to]

Decide(q, d) == decision' = [decision EXCEPT ![q] = d]

Init ==
    /\ status = [b \in Bookings |-> Absent]
    /\ slot = [b \in Bookings |-> None]
    /\ replaces = [b \in Bookings |-> None]
    /\ root = [b \in Bookings |-> None]
    /\ live = [b \in Bookings |-> FALSE]
    /\ canceled = [b \in Bookings |-> 0]
    /\ about = [q \in Requests |-> None]
    /\ wants = [q \in Requests |-> None]
    /\ decision = [q \in Requests |-> "PENDING"]
    /\ asked = [b \in Bookings |-> {}]
    /\ approving = [q \in Requests |-> FALSE]
    /\ phase = [s \in Slots |-> "ahead"]

-----------------------------------------------------------------------------
(***************************************************************************)
(* The customer.                                                           *)
(***************************************************************************)

\* A booking reaches CONFIRMED; how is the checkout's business.
Book(b, s) ==
    /\ status[b] = Absent
    /\ SlotFree(s)
    /\ phase[s] = "ahead"
    /\ Move(b, "CONFIRMED")
    /\ slot' = [slot EXCEPT ![b] = s]
    /\ root' = [root EXCEPT ![b] = b]
    /\ live' = [live EXCEPT ![b] = TRUE]
    /\ UNCHANGED <<replaces, canceled, requests, progress, phase>>

\* The checks without a lock; the policy decides whether a fee may apply.
CancelByCustomer(b) ==
    /\ status[b] = "CONFIRMED"
    /\ phase[slot[b]] = "ahead"
    /\ \E policy \in Policies : asked' = [asked EXCEPT ![b] = @ \cup {policy}]
    /\ UNCHANGED <<rows, requests, approving, phase>>

\* Mutant: the status is not read again under the lock.
CancelImmediatelyUnread(b) ==
    /\ "free" \in asked[b]
    /\ Undisturbed(b)
    /\ status' = [status EXCEPT ![b] = "CANCELED_BY_CUSTOMER"]
    /\ canceled' = [canceled EXCEPT ![b] = @ + 1]
    /\ asked' = [asked EXCEPT ![b] = @ \ {"free"}]
    /\ UNCHANGED <<slot, replaces, root, live, requests, approving, phase>>

CancelImmediately(b) ==
    /\ "free" \in asked[b]
    /\ Undisturbed(b)
    /\ status[b] = "CONFIRMED"
    /\ Move(b, "CANCELED_BY_CUSTOMER")
    /\ canceled' = [canceled EXCEPT ![b] = @ + 1]
    /\ asked' = [asked EXCEPT ![b] = @ \ {"free"}]
    /\ UNCHANGED <<slot, replaces, root, live, requests, approving, phase>>

\* At most one cancellation request of a booking is open.
OpenRequest(b, q) ==
    /\ "fee" \in asked[b]
    /\ status[b] = "CONFIRMED"
    /\ about[q] = None
    /\ ~\E p \in Pending(b) : IsCancellation(p)
    /\ about' = [about EXCEPT ![q] = b]
    /\ asked' = [asked EXCEPT ![b] = @ \ {"fee"}]
    /\ UNCHANGED <<rows, wants, decision, approving, phase>>

\* At most one reschedule request of a booking is open.  The check that the slot
\* looks free is made without a lock and binds nobody.
RequestByCustomer(b, q, s) ==
    /\ status[b] = "CONFIRMED"
    /\ phase[slot[b]] = "ahead"
    /\ about[q] = None
    /\ ~\E p \in Pending(b) : IsReschedule(p)
    /\ about' = [about EXCEPT ![q] = b]
    /\ wants' = [wants EXCEPT ![q] = s]
    /\ UNCHANGED <<rows, decision, progress, phase>>

-----------------------------------------------------------------------------
(***************************************************************************)
(* The office.                                                             *)
(***************************************************************************)
RejectCancellation(q) ==
    /\ IsCancellation(q)
    /\ decision[q] = "PENDING"
    /\ Decide(q, "REJECTED")
    /\ UNCHANGED <<rows, about, wants, progress, phase>>

ApproveCancellation(q) ==
    LET b == about[q] IN
    /\ IsCancellation(q)
    /\ decision[q] = "PENDING"
    /\ Undisturbed(b)
    /\ status[b] = "CONFIRMED"
    /\ Move(b, "CANCELED_BY_CUSTOMER")
    /\ canceled' = [canceled EXCEPT ![b] = @ + 1]
    /\ Decide(q, "APPROVED")
    /\ UNCHANGED <<slot, replaces, root, live, about, wants, progress, phase>>

\* Mutant: whatever the business cancellation overtakes is closed as approved.
CloseOpenRequestsAlike(b) ==
    /\ \A q \in Pending(b) : ~approving[q]
    /\ decision' = [q \in Requests |-> IF q \in Pending(b) THEN "APPROVED" ELSE decision[q]]

\* Mutant: only cancellation requests are closed.
CloseOpenRequestsPartly(b) ==
    decision' = [q \in Requests |->
                    IF q \in Pending(b) /\ IsCancellation(q) THEN "APPROVED" ELSE decision[q]]

\* The update waits for the row lock of a request under approval.
CloseOpenRequests(b) ==
    /\ \A q \in Pending(b) : ~approving[q]
    /\ decision' = [q \in Requests |->
                       IF q \notin Pending(b) THEN decision[q]
                       ELSE IF IsCancellation(q) THEN "APPROVED" ELSE "REJECTED"]

CancelByBusiness(b) ==
    /\ status[b] = "CONFIRMED"
    /\ Move(b, "CANCELED_BY_BUSINESS")
    /\ canceled' = [canceled EXCEPT ![b] = @ + 1]
    /\ CloseOpenRequests(b)
    /\ UNCHANGED <<slot, replaces, root, live, about, wants, progress, phase>>

RejectReschedule(q) ==
    /\ IsReschedule(q)
    /\ decision[q] = "PENDING"
    /\ ~approving[q]
    /\ Decide(q, "REJECTED")
    /\ UNCHANGED <<rows, about, wants, progress, phase>>

\* Under the request's row lock; the booking is read without one.
BeginApproval(q) ==
    /\ IsReschedule(q)
    /\ decision[q] = "PENDING"
    /\ ~approving[q]
    /\ status[about[q]] = "CONFIRMED"
    /\ SlotFree(wants[q])
    /\ phase[wants[q]] = "ahead"
    /\ approving' = [approving EXCEPT ![q] = TRUE]
    /\ UNCHANGED <<rows, requests, asked, phase>>

\* Mutant: the exclusion constraint is gone, the earlier look at the slot decides.
InsertReplacementUnchecked(b, c, s) ==
    /\ status[c] = Absent
    /\ status' = [status EXCEPT ![c] = "CONFIRMED", ![b] = "CANCELED_BY_BUSINESS"]
    /\ slot' = [slot EXCEPT ![c] = s]
    /\ replaces' = [replaces EXCEPT ![c] = b]
    /\ root' = [root EXCEPT ![c] = root[b]]

\* The constraint admits the replacement; the original is written by its id.
InsertReplacement(b, c, s) ==
    /\ status[c] = Absent
    /\ SlotFree(s)
    /\ status' = [status EXCEPT ![c] = "CONFIRMED", ![b] = "CANCELED_BY_BUSINESS"]
    /\ slot' = [slot EXCEPT ![c] = s]
    /\ replaces' = [replaces EXCEPT ![c] = b]
    /\ root' = [root EXCEPT ![c] = root[b]]

Rotate(b, c) == live' = [live EXCEPT ![b] = FALSE, ![c] = TRUE]

CommitApproval(q, c) ==
    /\ approving[q]
    /\ InsertReplacement(about[q], c, wants[q])
    /\ Rotate(about[q], c)
    /\ Decide(q, "APPROVED")
    /\ approving' = [approving EXCEPT ![q] = FALSE]
    /\ UNCHANGED <<canceled, about, wants, asked, phase>>

\* The slot was taken, the transaction timed out or lost a deadlock.
AbortApproval(q) ==
    /\ approving[q]
    /\ approving' = [approving EXCEPT ![q] = FALSE]
    /\ UNCHANGED <<rows, requests, asked, phase>>

\* COMPLETED once it is over, NO_SHOW once it has begun.
Settle(b, to) ==
    /\ to \in {"COMPLETED", "NO_SHOW"}
    /\ Undisturbed(b)
    /\ Move(b, to)
    /\ phase[slot[b]] \in (IF to = "COMPLETED" THEN {"over"} ELSE {"running", "over"})
    /\ UNCHANGED <<slot, replaces, root, live, canceled, requests, progress, phase>>

TimePasses(s) ==
    /\ phase[s] # "over"
    /\ phase' = [phase EXCEPT ![s] = IF @ = "ahead" THEN "running" ELSE "over"]
    /\ UNCHANGED <<rows, requests, progress>>

-----------------------------------------------------------------------------
Next ==
    \/ \E b \in Bookings :
         \/ \E s \in Slots : Book(b, s)
         \/ CancelByCustomer(b)
         \/ CancelImmediately(b)
         \/ \E q \in Requests : OpenRequest(b, q)
         \/ \E q \in Requests, s \in Slots : RequestByCustomer(b, q, s)
         \/ CancelByBusiness(b)
         \/ \E to \in Terminal : Settle(b, to)
    \/ \E q \in Requests :
         \/ RejectCancellation(q)
         \/ ApproveCancellation(q)
         \/ RejectReschedule(q)
         \/ BeginApproval(q)
         \/ \E c \in Bookings : CommitApproval(q, c)
         \/ AbortApproval(q)
    \/ \E s \in Slots : TimePasses(s)

Spec == Init /\ [][Next]_vars

-----------------------------------------------------------------------------
(***************************************************************************)
(* Properties.                                                             *)
(***************************************************************************)

\* Every variable has its type; a booking that exists has its slot, and its root
\* among the bookings, so that its money is found.
TypeOK ==
    /\ status \in [Bookings -> Statuses \cup {Absent}]
    /\ slot \in [Bookings -> Slots \cup {None}]
    /\ replaces \in [Bookings -> Bookings \cup {None}]
    /\ root \in [Bookings -> Bookings \cup {None}]
    /\ \A b \in Bookings : /\ (status[b] = Absent) = (root[b] = None)
                           /\ (slot[b] = None) = (root[b] = None)
    /\ live \in [Bookings -> BOOLEAN]
    /\ canceled \in [Bookings -> Nat]
    /\ about \in [Requests -> Bookings \cup {None}]
    /\ wants \in [Requests -> Slots \cup {None}]
    /\ decision \in [Requests -> {"PENDING", "APPROVED", "REJECTED"}]
    /\ asked \in [Bookings -> SUBSET Policies]
    /\ approving \in [Requests -> BOOLEAN]
    /\ phase \in [Slots -> {"ahead", "running", "over"}]

\* No two standing bookings share a slot, although approvals take slots that
\* were free when the customer asked.
NoDoubleBooking ==
    \A b, c \in Bookings :
        status[b] \in Blocking /\ status[c] \in Blocking /\ slot[b] = slot[c] => b = c

\* However often it is moved, an appointment stands once, and of its links only
\* the last one works.
OneAppointment ==
    /\ \A b, c \in Bookings :
          root[b] = root[c] /\ status[b] = "CONFIRMED" /\ status[c] = "CONFIRMED" => b = c
    /\ \A b \in Bookings : Replacements(b) # {} => status[b] \in Terminal /\ ~live[b]
    /\ \A b \in Bookings : status[b] = "CONFIRMED" => live[b]

\* A customer told that the booking is canceled, and given money back for it, was
\* told so once and has no appointment left in its place.
CancellationIsMeant ==
    \A b \in Bookings : canceled[b] > 0 =>
        /\ canceled[b] = 1
        /\ status[b] \in {"CANCELED_BY_CUSTOMER", "CANCELED_BY_BUSINESS"}
        /\ Replacements(b) = {}

\* An approved request had the effect that was asked for.
DecisionIsCarriedOut ==
    \A q \in Requests : decision[q] = "APPROVED" =>
        IF IsCancellation(q)
        THEN canceled[about[q]] > 0
        ELSE \E c \in Replacements(about[q]) : slot[c] = wants[q]

\* What is known of one booking: it stands with nothing said or done about its
\* end, or it has ended, once.
Sound(b) ==
    /\ status[b] \in {Absent, "CONFIRMED"} \cup Terminal
    /\ status[b] \in {Absent, "CONFIRMED"} => canceled[b] = 0 /\ Replacements(b) = {}
    /\ status[b] # Absent => status[root[b]] # Absent
    /\ \A c \in Replacements(b) : status[c] # Absent

\* What is known of one request: it is about a booking, an approval under way
\* holds it open and relies on the booking standing, and no other is open.
Grounded(q) ==
    /\ about[q] = None => wants[q] = None /\ ~approving[q] /\ decision[q] = "PENDING"
    /\ about[q] # None => status[about[q]] # Absent
    /\ approving[q] => /\ IsReschedule(q)
                       /\ decision[q] = "PENDING"
                       /\ status[about[q]] = "CONFIRMED"
    /\ \A p \in Requests :
          /\ IsReschedule(p) /\ decision[p] = "PENDING" /\ about[p] = about[q]
          /\ IsReschedule(q) /\ decision[q] = "PENDING"
          => p = q

\* The unlocked read of an approval stays true until its write, and requests and
\* bookings agree; the properties above rest on this.
DecisionInvariant ==
    /\ \A b \in Bookings : Sound(b)
    /\ \A q \in Requests : Grounded(q)

\* No transition leaves a terminal status, whoever gets there first.
TerminalIsFinal ==
    [][\A b \in Bookings : status[b] \in Terminal => status'[b] = status[b]]_vars

\* A request is decided once, also while another decision is under way.
DecidedOnce ==
    [][\A q \in Requests : decision[q] # "PENDING" =>
           decision'[q] = decision[q] /\ about'[q] = about[q]]_vars

\* The booking an appointment has become.
Last(a) == CHOOSE b \in Bookings : root[b] = a /\ Replacements(b) = {}

Outcome(s) ==
    CASE s = "CONFIRMED" -> "standing"
      [] s = "COMPLETED" -> "kept"
      [] s = "NO_SHOW"   -> "missed"
      [] OTHER           -> "canceled"

Fate  == [a \in Bookings |-> IF root[a] = a THEN Outcome(status[Last(a)]) ELSE "none"]
Place == [a \in Bookings |-> IF root[a] = a THEN slot[Last(a)] ELSE None]

Customer == INSTANCE Appointment WITH Customers <- Bookings, fate <- Fate, place <- Place

\* Requests, decisions and replaced rows add up to one appointment that stands,
\* moves and ends once.
RefinesAppointment == Customer!Spec

=============================================================================
