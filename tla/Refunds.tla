------------------------------ MODULE Refunds -------------------------------
(***************************************************************************)
(* Money going back to the customer of one payment.                        *)
(*                                                                         *)
(* A refund is reserved under the payment's row lock, executed by a job    *)
(* that calls the provider outside any transaction, and settled by         *)
(* whatever arrives first: the provider's answer or one of its webhook     *)
(* events.  Answers can be lost, jobs repeat, events come in any order and *)
(* more than once; they all meet in applySettlement.                       *)
(*                                                                         *)
(* Reserving is one action: it holds the payment's row lock from before    *)
(* its reads to its commit, and whoever settles needs that lock to commit. *)
(* Settling is two: it locks the refund's row only, sums what READ         *)
(* COMMITTED shows it, and the payment's row is locked by the write that   *)
(* follows.  In between another settlement may commit.                     *)
(***************************************************************************)
EXTENDS Integers, FiniteSets, Functions

CONSTANTS
    Refunds,            \* refund rows that may come to exist
    Amount,             \* what the customer paid
    Overlapping,        \* may settlements of two refunds overlap in time?
    LateFailures,       \* does the provider report failures of refunds it has paid?
    TimingOut           \* do settlements fail on the database while a job waits for them?

\* However often money goes back, the rows any moment has seen are finitely many.
ASSUME RefundsAssumption == IsFiniteSet(Refunds)
ASSUME AmountAssumption == Amount \in Nat
ASSUME OverlappingAssumption == Overlapping \in BOOLEAN
ASSUME LateFailuresAssumption == LateFailures \in BOOLEAN
ASSUME TimingOutAssumption == TimingOut \in BOOLEAN

VARIABLES
    (* refunds and payments rows, and the outbox *)
    state,          \* Refund.status, "none" before the row exists
    cents,          \* Refund.amountCents
    refunded,       \* Payment.refundedAmountCents
    charge,         \* Payment.stripeChargeId is not null; never changes here
    announced,      \* REFUND_SUCCEEDED events recorded
    (* the worker process *)
    calling,        \* a job has read the refund as pending and calls the provider
    answers,        \* outcomes on their way to applySettlement
    settling,       \* where the settlement between its sum and its commit leads
    sum,            \* what that settlement summed
    (* the payment provider *)
    money,          \* what became of the refund there
    told            \* statuses it has an event for

rows     == <<state, cents, refunded, charge, announced>>
settlement == <<settling, sum>>
worker   == <<calling, answers, settlement>>
provider == <<money, told>>
vars     == <<rows, worker, provider>>

-----------------------------------------------------------------------------
Settled == {"SUCCEEDED", "FAILED", "CANCELED"}
Status  == Settled \cup {"PENDING"}
Idle    == "none"

Total(f) == FoldFunction(+, 0, f)

\* The sum of the amounts of a set of refunds.
SumOf(S) == Total([r \in S |-> cents[r]])

InState(s) == {r \in Refunds : state[r] = s}

\* Mutant: only what has settled counts as given away.
ReservedSettled == refunded

Reserved   == refunded + SumOf(InState("PENDING"))
Refundable == Amount - Reserved

\* Mutant: what is not known to have failed is taken for a success.
ProviderStatusHopeful(s) ==
    CASE s = "failed" -> "FAILED" [] s = "canceled" -> "CANCELED" [] OTHER -> "SUCCEEDED"

\* Mutant: a canceled refund is taken for one that is still under way.
ProviderStatusOpen(s) ==
    CASE s = "succeeded" -> "SUCCEEDED" [] s = "failed" -> "FAILED" [] OTHER -> "PENDING"

ProviderStatus(s) ==
    CASE s = "succeeded" -> "SUCCEEDED"
      [] s = "failed"    -> "FAILED"
      [] s = "canceled"  -> "CANCELED"
      [] OTHER           -> "PENDING"

Init ==
    /\ state = [r \in Refunds |-> "none"]
    /\ cents = [r \in Refunds |-> 0]
    /\ refunded = 0
    /\ charge \in BOOLEAN
    /\ announced = [r \in Refunds |-> 0]
    /\ calling = [r \in Refunds |-> FALSE]
    /\ answers = [r \in Refunds |-> {}]
    /\ settling = [r \in Refunds |-> Idle]
    /\ sum = [r \in Refunds |-> 0]
    /\ money = [r \in Refunds |-> "none"]
    /\ told = [r \in Refunds |-> {}]

-----------------------------------------------------------------------------
(***************************************************************************)
(* Deciding on a refund.                                                   *)
(***************************************************************************)

\* The payment must not be REFUNDED, and the amount must be left.
Reserve(r, a) ==
    /\ state[r] = "none"
    /\ refunded < Amount
    /\ a > 0
    /\ a <= Refundable
    /\ state' = [state EXCEPT ![r] = "PENDING"]
    /\ cents' = [cents EXCEPT ![r] = a]
    /\ UNCHANGED <<refunded, charge, announced, worker, provider>>

RequestAdditional(r) == \E a \in 1 .. Amount : Reserve(r, a)

\* A cancellation aims at a total given back, and takes what is left of it.
RequestTarget(r) ==
    \E target \in 0 .. Amount + 1 :
        Reserve(r, IF target - Reserved < Refundable THEN target - Reserved ELSE Refundable)

-----------------------------------------------------------------------------
(***************************************************************************)
(* The job that moves the money.                                           *)
(***************************************************************************)

\* Read outside any transaction.  Without a charge there is nothing to call.
Execute(r) ==
    /\ state[r] = "PENDING"
    /\ IF charge
       THEN /\ calling' = [calling EXCEPT ![r] = TRUE]
            /\ UNCHANGED answers
       ELSE /\ answers' = [answers EXCEPT ![r] = @ \cup {"FAILED"}]
            /\ UNCHANGED calling
    /\ UNCHANGED <<rows, settlement, provider>>

\* What the provider has not refused or taken back.
Live == {r \in Refunds : money[r] \in {"pending", "succeeded"}}
Covered(r) == SumOf(Live) + cents[r] <= Amount

\* The first call with this key creates the refund or is rejected for good;
\* every further one gets the original outcome back.
Honour(r) ==
    \/ /\ money[r] # "none"
       /\ UNCHANGED provider
    \/ /\ money[r] = "none"
       /\ Covered(r)
       /\ \E first \in {"pending", "succeeded"} :
            /\ money' = [money EXCEPT ![r] = first]
            /\ told' = [told EXCEPT ![r] = {first}]
    \/ /\ money[r] = "none"
       /\ money' = [money EXCEPT ![r] = "refused"]
       /\ UNCHANGED told

\* The answer goes to applySettlement, or is lost and the job tries again.  The
\* call and the settlement share one try: when the settlement's transaction times
\* out, which leaves nothing behind, the error is taken for the provider's
\* rejection.  Another execution of the same refund may be where this one was.
CreateRefund(r) ==
    /\ calling[r]
    /\ Honour(r)
    /\ \E answer \in (IF money'[r] = "refused" THEN {"FAILED"}
                      ELSE {ProviderStatus(s) : s \in told'[r]}
                           \cup (IF TimingOut THEN {"FAILED"} ELSE {})) :
         answers' \in {answers, [answers EXCEPT ![r] = @ \cup {answer}]}
    /\ calling' \in {calling, [calling EXCEPT ![r] = FALSE]}
    /\ UNCHANGED <<rows, settlement>>

\* The call never got through, or the worker dies.
CallFails(r) ==
    /\ calling[r]
    /\ calling' = [calling EXCEPT ![r] = FALSE]
    /\ UNCHANGED <<rows, answers, settlement, provider>>

-----------------------------------------------------------------------------
(***************************************************************************)
(* The provider, later.                                                    *)
(***************************************************************************)
Resolve(r) ==
    /\ money[r] = "pending"
    /\ \E end \in {"succeeded", "failed", "canceled"} :
         /\ money' = [money EXCEPT ![r] = end]
         /\ told' = [told EXCEPT ![r] = @ \cup {end}]
    /\ UNCHANGED <<rows, worker>>

\* "Failed" about money that already went back.
ReportLateFailure(r) ==
    /\ LateFailures
    /\ money[r] = "succeeded"
    /\ told' = [told EXCEPT ![r] = @ \cup {"failed"}]
    /\ UNCHANGED <<rows, worker, money>>

-----------------------------------------------------------------------------
(***************************************************************************)
(* Settlement.                                                             *)
(***************************************************************************)

\* An event reaches a handler; any event may do so again, in any order.
Deliver(r, s) ==
    /\ s \in told[r]
    /\ answers' = [answers EXCEPT ![r] = @ \cup {ProviderStatus(s)}]
    /\ UNCHANGED <<rows, calling, settlement, provider>>

LoseAnswer(r) ==
    /\ \E answer \in answers[r] : answers' = [answers EXCEPT ![r] = @ \ {answer}]
    /\ UNCHANGED <<rows, calling, settlement, provider>>

\* Mutant: the refund has already left the bank, so it counts before it settles.
PaidWithPending(r, to) == SumOf(InState("SUCCEEDED") \cup InState("PENDING"))

\* The sum the settling transaction sees: what is committed, and its own write.
PaidWith(r, to) == SumOf(InState("SUCCEEDED") \cup (IF to = "SUCCEEDED" THEN {r} ELSE {}))

\* Mutant: a settled refund is settled again.
BeginSettlementAgain(r, to) ==
    /\ settling[r] = Idle
    /\ Overlapping \/ \A q \in Refunds : settling[q] = Idle
    /\ to \in answers[r]
    /\ answers' = [answers EXCEPT ![r] = @ \ {to}]
    /\ settling' = [settling EXCEPT ![r] = to]
    /\ sum' = [sum EXCEPT ![r] = PaidWith(r, to)]
    /\ UNCHANGED <<rows, calling, provider>>

\* Under the refund's row lock: only a pending refund moves.
BeginSettlement(r, to) ==
    /\ settling[r] = Idle
    /\ Overlapping \/ \A q \in Refunds : settling[q] = Idle
    /\ to \in answers[r]
    /\ answers' = [answers EXCEPT ![r] = @ \ {to}]
    /\ IF state[r] = "PENDING"
       THEN /\ settling' = [settling EXCEPT ![r] = to]
            /\ sum' = [sum EXCEPT ![r] = PaidWith(r, to)]
       ELSE UNCHANGED settlement
    /\ UNCHANGED <<rows, calling, provider>>

CommitSettlement(r) ==
    /\ settling[r] # Idle
    /\ state' = [state EXCEPT ![r] = settling[r]]
    /\ refunded' = sum[r]
    /\ announced' = [announced EXCEPT ![r] = @ + IF settling[r] = "SUCCEEDED" THEN 1 ELSE 0]
    /\ settling' = [settling EXCEPT ![r] = Idle]
    /\ sum' = [sum EXCEPT ![r] = 0]
    /\ UNCHANGED <<cents, charge, calling, answers, provider>>

\* The transaction times out or its process dies.
AbortSettlement(r) ==
    /\ settling[r] # Idle
    /\ settling' = [settling EXCEPT ![r] = Idle]
    /\ sum' = [sum EXCEPT ![r] = 0]
    /\ UNCHANGED <<rows, calling, answers, provider>>

-----------------------------------------------------------------------------
Decide(r)  == RequestAdditional(r) \/ RequestTarget(r)
Job(r)     == Execute(r) \/ CreateRefund(r) \/ CallFails(r)
Outside(r) == Resolve(r) \/ ReportLateFailure(r)
Settle(r)  ==
    \/ \E s \in {"pending", "succeeded", "failed", "canceled"} : Deliver(r, s)
    \/ LoseAnswer(r)
    \/ \E to \in Status : BeginSettlement(r, to)
    \/ CommitSettlement(r)
    \/ AbortSettlement(r)

Next == \E r \in Refunds : Decide(r) \/ Job(r) \/ Outside(r) \/ Settle(r)

\* Transactions end.  The provider resolves what it accepted and redelivers its
\* events until they are stored; the inbox sweep drives a stored event again
\* until it is handled, and not only while another handler holds the refund's
\* row.  A job gives up after eight attempts, so nothing is assumed of it.
Fairness == \A r \in Refunds :
    /\ WF_vars(Resolve(r))
    /\ WF_vars(CommitSettlement(r) \/ AbortSettlement(r))
    /\ \A s \in {"succeeded", "failed", "canceled"} : SF_vars(settling[r] = Idle /\ Deliver(r, s))
    /\ \A to \in Settled :
         /\ SF_vars(BeginSettlement(r, to))
         /\ SF_vars(CommitSettlement(r) /\ settling[r] = to)

Spec == Init /\ [][Next]_vars /\ Fairness
-----------------------------------------------------------------------------
(***************************************************************************)
(* Properties.                                                             *)
(***************************************************************************)

\* Every variable has its type.
TypeOK ==
    /\ state \in [Refunds -> Status \cup {"none"}]
    /\ cents \in [Refunds -> 0 .. Amount]
    /\ refunded \in Nat
    /\ charge \in BOOLEAN
    /\ announced \in [Refunds -> Nat]
    /\ calling \in [Refunds -> BOOLEAN]
    /\ answers \in [Refunds -> SUBSET Status]
    /\ settling \in [Refunds -> Status \cup {Idle}]
    /\ sum \in [Refunds -> Nat]
    /\ money \in [Refunds -> {"none", "pending", "succeeded", "failed", "canceled", "refused"}]
    /\ told \in [Refunds -> SUBSET {"pending", "succeeded", "failed", "canceled"}]

\* The payment's denormalised total equals the sum of its SUCCEEDED refunds,
\* whatever order answers and events settled them in.
TotalIsSum == refunded = SumOf(InState("SUCCEEDED"))

\* What was given back and what is promised never exceed what was paid, in the
\* window before the provider answers as well.
NeverOverRefunded == SumOf(InState("SUCCEEDED")) + SumOf(InState("PENDING")) <= Amount

\* A refund the office was told is on its way is not rejected by the provider for lack of
\* money on the charge, and the books never promise more than was paid.
PromiseIsCovered ==
    /\ NeverOverRefunded
    /\ \A r \in Refunds : state[r] = "PENDING" /\ money[r] = "none" => Covered(r)

\* A settled refund says what really happened to the money: only a permanent
\* rejection is recorded as a failure.  Excepted is a refund the provider has
\* paid and itself reports as failed.
BooksFollowTheMoney ==
    \A r \in Refunds :
        /\ state[r] = "SUCCEEDED" => money[r] = "succeeded"
        /\ state[r] \in {"FAILED", "CANCELED"} =>
              \/ money[r] \notin {"pending", "succeeded"}
              \/ LateFailures /\ "failed" \in told[r]

\* However often a refund is settled, its customer is told of the money once,
\* and only if it really went back.
AnnouncedOnce ==
    \A r \in Refunds :
        /\ announced[r] = (IF state[r] = "SUCCEEDED" THEN 1 ELSE 0)
        /\ announced[r] > 0 => money[r] = "succeeded"

\* An outcome under way to applySettlement, or half settled, or in the books, is
\* one the provider really reported.
Reported(r) ==
    /\ state[r] = "none" => ~calling[r] /\ answers[r] = {} /\ settling[r] = Idle
                              /\ money[r] = "none" /\ told[r] = {}
    /\ ~charge => ~calling[r] /\ money[r] = "none"
    /\ money[r] \in {"none", "refused"} => told[r] = {}
    /\ "succeeded" \in told[r] => money[r] = "succeeded"
    /\ "canceled" \in told[r] => money[r] = "canceled"
    /\ "failed" \in told[r] =>
          money[r] = "failed" \/ (LateFailures /\ money[r] = "succeeded")
    /\ settling[r] # Idle => state[r] = "PENDING"
    /\ \A to \in answers[r] \cup {settling[r], state[r]} :
          /\ to = "SUCCEEDED" => money[r] = "succeeded"
          /\ to = "CANCELED" => money[r] = "canceled"
          /\ to = "FAILED" => ~charge \/ money[r] = "refused" \/ "failed" \in told[r] \/ TimingOut

\* applySettlement is only ever called with what the provider reported, and holds
\* only pending refunds; this is what makes the two properties above inductive.
SettlementInvariant == \A r \in Refunds : Reported(r)

\* A settled refund is never moved again, also not by a late event that says
\* "failed" about money that already went back.
SettledIsFinal ==
    [][\A r \in Refunds : state[r] \in Settled =>
           state'[r] = state[r] /\ cents'[r] = cents[r]]_vars

\* Once the provider has made up its mind, the books get to know, whether or not
\* the job that asked for the refund lived to hear the answer.
MoneyReachesTheBooks ==
    \A r \in Refunds :
        money[r] \in {"succeeded", "failed", "canceled"} ~> state[r] \in Settled

Ledger == INSTANCE RefundLedger WITH
    entry <- [r \in Refunds |-> CASE state[r] = "none"      -> "none"
                                  [] state[r] = "PENDING"   -> "promised"
                                  [] state[r] = "SUCCEEDED" -> "paid"
                                  [] OTHER                  -> "refused"],
    total <- refunded

\* Each refund is promised once and ends as paid or refused, and the total moves
\* by exactly the refund that ends as paid.
RefinesLedger == Ledger!Spec

=============================================================================
