------------------------------- MODULE Manage -------------------------------
(***************************************************************************)
(* What a customer does from the link in their mail (ManageBooking.vue),   *)
(* what the office decides about it (RequestsPage.vue), and the money a    *)
(* cancellation moves.  Time passes, money comes and goes and the policy   *)
(* is edited between what a page says, what is asked and what is done.     *)
(*                                                                         *)
(* One appointment: the row that was paid, and the row of an approved move. *)
(* Card money can be given back by refunds, cash only at the desk.         *)
(***************************************************************************)
EXTENDS Integers

CONSTANTS
    Price,        \* cents the card was charged
    CashRange,    \* what manual payments, corrections included, may come to
    Terms,        \* settings: [hours, policy, fixed, percent]
    Original, Replacement,
    Begins,       \* the hour each row's appointment begins at
    GraceEnds,    \* the hour its link expires: MANAGEMENT_TOKEN_GRACE_DAYS after its end
    LastHour,     \* bound on time
    Visits,       \* the customer's requests that may be under way at once
    Petitions,    \* cancellation requests there may be
    SameTab,      \* may another link be opened in a tab that shows one?
    MaxChanges    \* bound: payments, refunds and edits of the policy

Copies == {Original, Replacement}
Absent == [at |-> "none"]

ASSUME ManageAssumption ==
    /\ Price \in Nat /\ CashRange \subseteq Int /\ 0 \in CashRange /\ Original # Replacement
    /\ Terms \subseteq [hours : Nat, policy : {"NONE", "FIXED_AMOUNT", "PERCENTAGE"},
                        fixed : Nat, percent : 0..100]
    /\ {Begins, GraceEnds} \subseteq [Copies -> Nat]
    /\ {LastHour, MaxChanges} \subseteq Nat /\ SameTab \in BOOLEAN
    /\ Absent \notin Visits

VARIABLES
    hour,
    terms,      \* the organization's settings
    standing,   \* bookings.status of both rows
    link,       \* their management tokens: none, live, revoked
    cash,       \* sum of the manual payments
    refund,     \* refund rows: the desk's, and the one a cancellation reserved
    petition,   \* cancellation_requests
    visit,      \* the customer's requests under way
    tab,        \* ManageBooking.vue
    queue,      \* RequestsPage.vue: what each listed request showed
    comingBack,  \* what the customer was told is coming back
    changes

manage == <<hour, terms, standing, link, cash, refund, petition, visit, tab, queue, comingBack, changes>>
records == <<standing, link, petition, comingBack>>
world == <<hour, terms, cash, changes>>

NoRefund == [amount |-> 0, status |-> "none"]
NoPetition == [row |-> Original, state |-> "none", suggested |-> 0, retained |-> 0,
               untouched |-> FALSE]

\* view: what the page shows; seen: what it showed when the customer confirmed;
\* outcome: the answer to that
FreshTab(r) == [link |-> r, view |-> Absent, seen |-> Absent, outcome |-> Absent,
                loads |-> Absent, asks |-> Absent]

ManageInit ==
    /\ hour = 0
    /\ terms \in Terms
    /\ standing = [r \in Copies |-> IF r = Original THEN "CONFIRMED" ELSE "none"]
    /\ link = [r \in Copies |-> IF r = Original THEN "live" ELSE "none"]
    /\ cash = 0
    /\ refund = [k \in {"desk", "cancellation"} |-> NoRefund]
    /\ petition = [p \in Petitions |-> NoPetition]
    /\ visit = [v \in Visits |-> Absent]
    /\ tab = FreshTab(Original)
    /\ queue = [p \in Petitions |-> Absent]
    /\ comingBack = -1
    /\ changes = 0

-----------------------------------------------------------------------------
(* Money                                                                   *)

Least(a, b) == IF a < b THEN a ELSE b
Most(a, b) == IF a > b THEN a ELSE b

\* receivedFrom, through the chain's financial root
receivedFrom == Price + cash

\* Truncated towards zero; only ever asked of a positive amount
percent(amount, share) == (amount * share) \div 100

retainedFor(paid, t) ==
    IF paid <= 0 THEN 0
    ELSE CASE t.policy = "NONE" -> 0
           [] t.policy = "FIXED_AMOUNT" -> Least(t.fixed, paid)
           [] t.policy = "PERCENTAGE" -> percent(paid, t.percent)

\* Mutant: at the very limit a fee applies already
FeeAppliesAtLimit(r, t) == Begins[r] - hour <= t.hours

feeApplies(r, t) == Begins[r] - hour < t.hours

freeUntil(r, t) == Begins[r] - t.hours

computeSuggestedRetainedAmount(r, paid, t) ==
    IF feeApplies(r, t) THEN retainedFor(paid, t) ELSE 0

committed == {k \in DOMAIN refund : refund[k].status = "PENDING"}
Of(k) == IF k \in committed THEN refund[k].amount ELSE 0

\* Decided and not failed, so no longer there to give
reserved == Of("desk") + Of("cancellation")
refundable == Price - reserved

\* Mutant: the target is sent again, whatever has gone back already
AdditionalGross(target) == Least(target, refundable)

\* CUMULATIVE_TARGET: what is missing, as far as the card goes
additionalFor(target) == Least(Most(target - reserved, 0), refundable)

reserveRefund(amount) ==
    refund' = IF amount > 0
              THEN [refund EXCEPT !["cancellation"] = [amount |-> amount, status |-> "PENDING"]]
              ELSE refund

-----------------------------------------------------------------------------
(* The customer's requests: the guard, and the handler's reads             *)

Ended(r) == standing[r] # "CONFIRMED" \/ Begins[r] <= hour

To(v, step) == visit' = [visit EXCEPT ![v] = step]
Denied(v, code) == To(v, [at |-> "answered", op |-> visit[v].op, code |-> code])

Resolves(r) == link[r] = "live" /\ hour < GraceEnds[r]

ManagementTokenGuard(v) ==
    /\ visit[v].at = "sent"
    /\ \/ Resolves(visit[v].row) /\ To(v, [visit[v] EXCEPT !.at = "resolved"])
       \/ ~Resolves(visit[v].row) /\ Denied(v, "UNAUTHENTICATED")
    /\ UNCHANGED <<records, world, refund, tab, queue>>

\* What the page says beforehand
ViewOf(r) ==
    LET kept == computeSuggestedRetainedAmount(r, receivedFrom, terms) IN
    [at |-> "shown", row |-> r, paid |-> receivedFrom, terms |-> terms,
     freeUntil |-> freeUntil(r, terms), feeApplies |-> feeApplies(r, terms), retained |-> kept,
     refund |-> receivedFrom - kept, cancellable |-> ~Ended(r)]

View(v) ==
    /\ visit[v].at = "resolved" /\ visit[v].op = "view"
    /\ To(v, [at |-> "answered", op |-> "view", code |-> "ok", view |-> ViewOf(visit[v].row)])
    /\ UNCHANGED <<records, world, refund, tab, queue>>

\* Unlocked: status, time, money and policy, as they are now
CancelByCustomer(v) ==
    LET r == visit[v].row IN
    /\ visit[v].at = "resolved" /\ visit[v].op = "cancel"
    /\ \/ Ended(r) /\ Denied(v, "BOOKING_NOT_CANCELLABLE")
       \/ ~Ended(r) /\ To(v,
            [at |-> IF feeApplies(r, terms) THEN "asking" ELSE "cancelling", op |-> "cancel",
             row |-> r, paid |-> receivedFrom, terms |-> terms, hour |-> hour,
             retained |-> computeSuggestedRetainedAmount(r, receivedFrom, terms)])
    /\ UNCHANGED <<records, world, refund, tab, queue>>

Tells(v, kind, amount) ==
    To(v, [at |-> "answered", op |-> "cancel", code |-> kind, amount |-> amount,
           row |-> visit[v].row, paid |-> visit[v].paid, terms |-> visit[v].terms,
           hour |-> visit[v].hour])

\* Everything paid, on the booking as the lock finds it
CancelImmediately(v) ==
    LET r == visit[v].row
        additional == additionalFor(visit[v].paid) IN
    /\ visit[v].at = "cancelling"
    /\ \/ /\ standing[r] = "CONFIRMED"
          /\ standing' = [standing EXCEPT ![r] = "CANCELED_BY_CUSTOMER"]
          /\ reserveRefund(additional)
          /\ comingBack' = additional
          /\ Tells(v, "CANCELED", additional)
       \/ /\ standing[r] # "CONFIRMED"
          /\ Denied(v, "BOOKING_NOT_CANCELLABLE")
          /\ UNCHANGED <<standing, refund, comingBack>>
    /\ UNCHANGED <<link, petition, world, tab, queue>>

OpenFor(r) == {p \in Petitions : petition[p].state = "PENDING" /\ petition[p].row = r}

\* One PENDING request per booking: cancellation_requests_one_open
OpenRequest(v) ==
    LET r == visit[v].row IN
    /\ visit[v].at = "asking"
    /\ \/ /\ standing[r] = "CONFIRMED" /\ OpenFor(r) = {}
          /\ \E p \in Petitions :
               /\ petition[p].state = "none" /\ \A q \in 1..(p - 1) : petition[q].state # "none"
               /\ petition' = [petition EXCEPT ![p] =
                    [NoPetition EXCEPT !.row = r, !.state = "PENDING", !.suggested = visit[v].retained]]
          /\ Tells(v, "REQUESTED", visit[v].retained)
       \/ /\ standing[r] # "CONFIRMED" \/ OpenFor(r) # {}
          /\ Denied(v, "BOOKING_NOT_CANCELLABLE")
          /\ UNCHANGED petition
    /\ UNCHANGED <<standing, link, comingBack, world, refund, tab, queue>>

-----------------------------------------------------------------------------
(* The customer's tab                                                      *)

Request(v, op, r) == visit[v] = Absent /\ To(v, [at |-> "sent", op |-> op, row |-> r])

\* The link is followed into a new tab; into one that is on the page it is a change of
\* the fragment, which changes the token and reads nothing
Follow(v, r) ==
    /\ link[r] # "none"
    /\ \/ /\ Request(v, "view", r)
          /\ tab' = [FreshTab(r) EXCEPT !.loads = v]
       \/ /\ SameTab /\ tab.link # r
          /\ tab' = [tab EXCEPT !.link = r]
          /\ UNCHANGED visit
    /\ UNCHANGED <<records, world, refund, queue>>

ConfirmCancellation(v) ==
    /\ tab.view # Absent /\ tab.view.cancellable /\ tab.outcome = Absent /\ tab.asks = Absent
    /\ Request(v, "cancel", tab.link)
    /\ tab' = [tab EXCEPT !.asks = v, !.seen = tab.view]
    /\ UNCHANGED <<records, world, refund, queue>>

\* An answer nobody awaits is gone; so is one the network loses
Drop(v) ==
    /\ visit[v].at = "answered"
    /\ To(v, Absent)
    /\ tab' = CASE tab.asks = v -> [tab EXCEPT !.asks = Absent]
                [] tab.loads = v -> [tab EXCEPT !.loads = Absent]
                [] OTHER -> tab
    /\ UNCHANGED <<records, world, refund, queue>>

ReceiveView(v) ==
    /\ visit[v].at = "answered" /\ tab.loads = v
    /\ tab' = [tab EXCEPT !.loads = Absent,
                          !.view = IF visit[v].code = "ok" THEN visit[v].view ELSE @]
    /\ To(v, Absent)
    /\ UNCHANGED <<records, world, refund, queue>>

\* After a success the page is read again
ReceiveOutcome(v) ==
    /\ visit[v].at = "answered" /\ tab.asks = v
    /\ IF visit[v].code \in {"CANCELED", "REQUESTED"}
       THEN /\ tab' = [tab EXCEPT !.asks = Absent, !.loads = v, !.outcome = visit[v]]
            /\ To(v, [at |-> "sent", op |-> "view", row |-> tab.link])
       ELSE /\ tab' = [tab EXCEPT !.asks = Absent]
            /\ To(v, Absent)
    /\ UNCHANGED <<records, world, refund, queue>>

-----------------------------------------------------------------------------
(* The office                                                              *)

\* PENDING requests with what was paid; what the screen held is replaced
LoadQueue ==
    /\ queue' = [p \in Petitions |->
         IF petition[p].state = "PENDING"
         THEN [at |-> "listed", paid |-> receivedFrom]
         ELSE Absent]
    /\ UNCHANGED <<records, world, refund, visit, tab>>

\* Mutant: an untouched field means the policy of today
RetainedNow(p, typed) ==
    IF typed = -1 THEN computeSuggestedRetainedAmount(petition[p].row, receivedFrom, terms) ELSE typed

\* -1: the field was left alone, and the frozen suggestion counts
RetainedOf(p, typed) == IF typed = -1 THEN petition[p].suggested ELSE typed

validateRetained(p, typed) == RetainedOf(p, typed) \in 0..receivedFrom

\* Both sides of decideRequest; a refused decision changes nothing.  A rejection sends no
\* amount, and the suggestion is asked about all the same
DecideCancellation(p, typed) ==
    LET r == petition[p].row
        kept == RetainedOf(p, typed)
        additional == additionalFor(receivedFrom - kept) IN
    /\ queue[p] # Absent /\ typed <= queue[p].paid
    /\ petition[p].state = "PENDING"
    /\ \/ /\ standing[r] = "CONFIRMED" /\ validateRetained(p, typed)
          /\ standing' = [standing EXCEPT ![r] = "CANCELED_BY_CUSTOMER"]
          /\ reserveRefund(additional)
          /\ comingBack' = additional
          /\ petition' = [petition EXCEPT ![p].state = "APPROVED", ![p].retained = kept,
                                          ![p].untouched = (typed = -1)]
       \/ /\ validateRetained(p, -1)
          /\ petition' = [petition EXCEPT ![p].state = "REJECTED"]
          /\ UNCHANGED <<standing, refund, comingBack>>
    /\ queue' = [queue EXCEPT ![p] = Absent]
    /\ UNCHANGED <<link, world, visit, tab>>

\* The office may name an amount, which is sent on top of what has gone back
cancelByBusiness(r, amount) ==
    /\ standing[r] = "CONFIRMED"
    /\ amount <= refundable
    /\ standing' = [standing EXCEPT ![r] = "CANCELED_BY_BUSINESS"]
    /\ reserveRefund(amount)
    /\ petition' = [p \in Petitions |->
         IF p \in OpenFor(r) THEN [petition[p] EXCEPT !.state = "APPROVED"] ELSE petition[p]]
    /\ UNCHANGED <<link, comingBack, world, visit, tab, queue>>

\* An approved move: the old links die with the old row
Rotate ==
    /\ standing[Original] = "CONFIRMED"
    /\ standing' = [standing EXCEPT ![Original] = "CANCELED_BY_BUSINESS", ![Replacement] = "CONFIRMED"]
    /\ link' = [link EXCEPT ![Original] = "revoked", ![Replacement] = "live"]
    /\ UNCHANGED <<petition, comingBack, world, refund, visit, tab, queue>>

Change ==
    /\ changes < MaxChanges /\ changes' = changes + 1
    /\ \/ /\ cash' \in CashRange \ {cash} /\ UNCHANGED <<terms, refund>>
       \/ /\ terms' \in Terms \ {terms} /\ UNCHANGED <<cash, refund>>
       \/ /\ refund["desk"].status = "none"
          /\ \E amount \in 1..refundable :
               refund' = [refund EXCEPT !["desk"] = [amount |-> amount, status |-> "PENDING"]]
          /\ UNCHANGED <<cash, terms>>
    /\ UNCHANGED <<hour, records, visit, tab, queue>>

\* One that succeeds counts as before
RefundFails(k) ==
    /\ refund[k].status = "PENDING"
    /\ refund' = [refund EXCEPT ![k].status = "FAILED"]
    /\ UNCHANGED <<records, world, visit, tab, queue>>

HourPasses ==
    /\ hour < LastHour /\ hour' = hour + 1
    /\ UNCHANGED <<records, terms, cash, changes, refund, visit, tab, queue>>

ManageNext ==
    \/ \E v \in Visits :
         \/ ManagementTokenGuard(v) \/ View(v) \/ CancelByCustomer(v)
         \/ CancelImmediately(v) \/ OpenRequest(v)
         \/ (\E r \in Copies : Follow(v, r))
         \/ ConfirmCancellation(v) \/ Drop(v) \/ ReceiveView(v) \/ ReceiveOutcome(v)
    \/ LoadQueue
    \/ \E p \in Petitions, typed \in -1..(Price + 1) : DecideCancellation(p, typed)
    \/ \E r \in Copies, amount \in 0..Price : cancelByBusiness(r, amount)
    \/ Rotate \/ Change \/ HourPasses
    \/ \E k \in DOMAIN refund : RefundFails(k)

-----------------------------------------------------------------------------
(* Properties                                                              *)

\* Every row is well formed and the card never gives back more than it took; and what the
\* customer is told beforehand is what is done.  What they cancel is the appointment the
\* page shows; while neither money nor policy has changed, the page's free-until says
\* whether that is a cancellation or a request, and its fee what is suggested; a request
\* that is approved as it stands retains what the customer was told when they asked; and
\* what was announced as coming back is what was reserved (cancellation-fee.ts,
\* manage.controller.ts, openRequest and decideRequest).
SaidIsDone ==
    /\ standing \in [Copies -> {"none", "CONFIRMED", "CANCELED_BY_CUSTOMER", "CANCELED_BY_BUSINESS"}]
    /\ link \in [Copies -> {"none", "live", "revoked"}] /\ tab.link \in Copies
    /\ \A k \in DOMAIN refund : refund[k].amount \in 0..Price
    /\ reserved <= Price
    /\ tab.outcome # Absent => tab.outcome.row = tab.seen.row
    /\ tab.outcome # Absent /\ tab.outcome.terms = tab.seen.terms /\ tab.outcome.paid = tab.seen.paid =>
         /\ tab.outcome.code = "REQUESTED" <=> tab.outcome.hour > tab.seen.freeUntil
         /\ tab.outcome.code = "REQUESTED" /\ tab.seen.feeApplies =>
              tab.outcome.amount = tab.seen.retained
    /\ \A p \in Petitions :
         petition[p].state = "APPROVED" /\ petition[p].untouched =>
             petition[p].retained = petition[p].suggested
    /\ comingBack # -1 => refund["cancellation"].amount = comingBack

\* Card money the business holds
HeldOnCard == Price - reserved

Kept(r) ==
    IF \E p \in OpenFor(r) : petition'[p].state = "APPROVED"
    THEN petition'[CHOOSE p \in OpenFor(r) : petition'[p].state = "APPROVED"].retained ELSE 0

\* Of a customer who cancels the business keeps on the card what it has decided to keep
\* and does not hold in cash already - nothing, if nobody had to decide - and never takes
\* back what it had refunded before, pending refunds included.  Excused is a cancellation
\* whose money changed between its read and its lock.
HeldAsDecided ==
    [][\A r \in Copies :
         /\ standing[r] = "CONFIRMED" /\ standing'[r] = "CANCELED_BY_CUSTOMER"
         /\ ~\E v \in Visits : visit[v].at = "cancelling" /\ visit'[v] # visit[v]
                                /\ visit[v].paid # receivedFrom
         => HeldOnCard' = Least(HeldOnCard, Most(Kept(r) - cash, 0))]_manage
=============================================================================
