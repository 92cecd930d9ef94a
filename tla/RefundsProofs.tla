--------------------------- MODULE RefundsProofs ----------------------------
(***************************************************************************)
(* What is proved about Refunds for every set of refunds and every amount, *)
(* and about Manage for every price, policy and number of visits.          *)
(*                                                                         *)
(* The books follow the provider: an outcome enters them only if it was    *)
(* reported (SettlementInvariant), it enters once, and it stays.  And while *)
(* settlements do not overlap the payment's total is the sum of its        *)
(* refunds: the sum counts cents, so it is a cardinality, and what was     *)
(* given and what is promised stay within the charge (MoneyInv).  Each     *)
(* step of the tables is then a step of the ledger, or none.               *)
(*                                                                         *)
(* What a customer is told is done: what a request has read, an answer     *)
(* says and the page shows are about one row, under one policy, at one     *)
(* hour (VisitsOK, TabOK).  And what is kept was decided: a row stands     *)
(* until one cancellation, which finds no refund of its kind (BooksInv).   *)
(***************************************************************************)
EXTENDS Refunds, Manage, FiniteSetTheorems, TLAPS

\* The shape of the variables a settlement touches.
Shape ==
    /\ state \in [Refunds -> Status \cup {"none"}]
    /\ cents = [r \in Refunds |-> cents[r]]
    /\ charge \in BOOLEAN
    /\ announced \in [Refunds -> Nat]
    /\ calling \in [Refunds -> BOOLEAN]
    /\ answers \in [Refunds -> SUBSET Status]
    /\ settling \in [Refunds -> Status \cup {Idle}]
    /\ money \in [Refunds -> {"none", "pending", "succeeded", "failed", "canceled", "refused"}]
    /\ told \in [Refunds -> SUBSET {"pending", "succeeded", "failed", "canceled"}]

IInv ==
    /\ Shape
    /\ SettlementInvariant
    /\ TimingOut \/ BooksFollowTheMoney
    /\ AnnouncedOnce

\* A provider's word is stored as one of the four statuses, and as a settled
\* one only if it is the provider's word for it (PROVIDER_STATUS).
LEMMA Translation ==
    ASSUME NEW s
    PROVE  /\ ProviderStatus(s) \in Status
           /\ ProviderStatus(s) = "SUCCEEDED" => s = "succeeded"
           /\ ProviderStatus(s) = "FAILED" => s = "failed"
           /\ ProviderStatus(s) = "CANCELED" => s = "canceled"
  BY DEF ProviderStatus, Status, Settled

\* Initially nothing was asked for.
LEMMA InitIInv == Init => IInv
  BY DEF Init, IInv, Shape, SettlementInvariant, Reported, BooksFollowTheMoney, AnnouncedOnce,
         Status, Settled, Idle

\* What is said of one refund rests on its own entries only.
Same(q) ==
    /\ charge' = charge
    /\ state'[q] = state[q] /\ calling'[q] = calling[q] /\ answers'[q] = answers[q]
    /\ settling'[q] = settling[q] /\ money'[q] = money[q] /\ told'[q] = told[q]

\* So a step that keeps these entries keeps what is said of the refund.
LEMMA Elsewhere ==
    ASSUME NEW q \in Refunds, Reported(q), Same(q)
    PROVE  Reported(q)'
  BY DEF Reported, Same, Idle

\* Reserving creates a pending refund the provider knows nothing of.
LEMMA ReserveStep ==
    ASSUME IInv, NEW r \in Refunds, NEW a, Reserve(r, a)
    PROVE  IInv'
<1> USE DEF Reserve, IInv, Shape, SettlementInvariant, Reported, BooksFollowTheMoney,
        AnnouncedOnce, Status, Settled, Idle, rows, worker, settlement, provider
<1>1. Shape'
  OBVIOUS
<1>2. (TimingOut \/ BooksFollowTheMoney)' /\ AnnouncedOnce'
  OBVIOUS
<1>3. ASSUME NEW q \in Refunds PROVE Reported(q)'
  <2>1. CASE q = r
    BY <2>1
  <2>2. CASE q # r
    BY <2>2
  <2> QED  BY <2>1, <2>2
<1> QED  BY <1>1, <1>2, <1>3

\* A job that reads the refund, calls the provider or loses the call reports
\* nothing the provider did not say.
LEMMA JobStep ==
    ASSUME IInv, NEW r \in Refunds, Job(r)
    PROVE  IInv'
<1> USE DEF IInv, Shape, SettlementInvariant, Reported, BooksFollowTheMoney, AnnouncedOnce,
        Status, Settled, Idle, rows, settlement, provider
<1>1. CASE Execute(r)
  <2>1. CASE charge /\ calling' = [calling EXCEPT ![r] = TRUE] /\ UNCHANGED answers
    BY <1>1, <2>1 DEF Execute
  <2>2. CASE ~charge /\ UNCHANGED calling /\ answers' = [answers EXCEPT ![r] = @ \cup {"FAILED"}]
    <3>1. Shape'
      BY <1>1, <2>2 DEF Execute
    <3>2. SettlementInvariant'
      BY <1>1, <2>2 DEF Execute
    <3> QED  BY <1>1, <2>2, <3>1, <3>2 DEF Execute
  <2> QED  BY <1>1, <2>1, <2>2 DEF Execute
<1>2. CASE CreateRefund(r)
  <2>1. PICK answer \in (IF money'[r] = "refused" THEN {"FAILED"}
                         ELSE {ProviderStatus(s) : s \in told'[r]}
                              \cup (IF TimingOut THEN {"FAILED"} ELSE {})) :
            answers' \in {answers, [answers EXCEPT ![r] = @ \cup {answer}]}
    BY <1>2 DEF CreateRefund
  <2>2. answer \in Status
    <3>1. CASE answer = "FAILED"
      BY <3>1
    <3>2. CASE answer # "FAILED"
      BY <2>1, <3>2, Translation
    <3> QED  BY <3>1, <3>2
  <2>3. Shape'
    <3>1. answers' \in [Refunds -> SUBSET Status]
      BY <2>1, <2>2
    <3>2. calling' \in [Refunds -> BOOLEAN]
      BY <1>2 DEF CreateRefund
    <3>3. /\ money' \in [Refunds -> {"none", "pending", "succeeded", "failed", "canceled", "refused"}]
          /\ told' \in [Refunds -> SUBSET {"pending", "succeeded", "failed", "canceled"}]
      BY <1>2 DEF CreateRefund, Honour
    <3> QED  BY <1>2, <3>1, <3>2, <3>3 DEF CreateRefund
  <2>4. /\ UNCHANGED <<rows, settlement>>
        /\ answer = "SUCCEEDED" => "succeeded" \in told'[r]
        /\ answer = "CANCELED" => "canceled" \in told'[r]
        /\ answer = "FAILED" => money'[r] = "refused" \/ "failed" \in told'[r] \/ TimingOut
    BY <1>2, <2>1, Translation DEF CreateRefund
  <2>5. CASE UNCHANGED provider
    <3>1. \A q \in Refunds : Reported(q)'
      BY <1>2, <2>1, <2>4, <2>5 DEF CreateRefund
    <3>2. (TimingOut \/ BooksFollowTheMoney)' /\ AnnouncedOnce'
      BY <2>4, <2>5
    <3> QED  BY <2>3, <3>1, <3>2
  <2>6. CASE /\ money[r] = "none"
             /\ \E first \in {"pending", "succeeded"} :
                  /\ money' = [money EXCEPT ![r] = first]
                  /\ told' = [told EXCEPT ![r] = {first}]
    <3>1. PICK first \in {"pending", "succeeded"} :
              /\ money' = [money EXCEPT ![r] = first]
              /\ told' = [told EXCEPT ![r] = {first}]
      BY <2>6
    <3>2. calling[r] /\ calling' \in {calling, [calling EXCEPT ![r] = FALSE]}
      BY <1>2 DEF CreateRefund
    <3>3. ASSUME NEW q \in Refunds PROVE Reported(q)'
      <4>1. CASE q = r
        <5>1. /\ money'[r] = first /\ told'[r] = {first}
              /\ answers'[r] \in {answers[r], answers[r] \cup {answer}}
              /\ calling'[r] \in BOOLEAN
              /\ UNCHANGED <<charge, state[r], settling[r]>>
          BY <2>1, <2>4, <3>1, <3>2, ZenonT(60)
        <5>2. Reported(r) /\ money[r] = "none" /\ calling[r]
          BY <2>6, <3>2
        <5> QED  BY <2>4, <3>1, <4>1, <5>1, <5>2
      <4>2. CASE q # r
        <5>1. Same(q)
          BY <2>1, <2>4, <3>1, <3>2, <4>2 DEF Same
        <5> QED  BY <5>1, Elsewhere
      <4> QED  BY <4>1, <4>2
    <3>4. TimingOut \/ state[r] \notin Settled
      BY <2>6, <3>2
    <3>5. (TimingOut \/ BooksFollowTheMoney)'
      BY <2>4, <3>1, <3>4
    <3>6. AnnouncedOnce'
      BY <2>4, <2>6, <3>1
    <3> QED  BY <2>3, <3>3, <3>5, <3>6
  <2>7. CASE /\ money[r] = "none"
             /\ money' = [money EXCEPT ![r] = "refused"]
             /\ UNCHANGED told
    <3>1. \A q \in Refunds : Reported(q)'
      BY <1>2, <2>1, <2>4, <2>7 DEF CreateRefund
    <3>2. (TimingOut \/ BooksFollowTheMoney)' /\ AnnouncedOnce'
      BY <2>4, <2>7
    <3> QED  BY <2>3, <3>1, <3>2
  <2> QED  BY <1>2, <2>5, <2>6, <2>7 DEF CreateRefund, Honour
<1>3. CASE CallFails(r)
  BY <1>3 DEF CallFails
<1> QED  BY <1>1, <1>2, <1>3 DEF Job

\* The provider makes up its mind once; what it reports late is marked as such.
LEMMA OutsideStep ==
    ASSUME IInv, NEW r \in Refunds, Outside(r)
    PROVE  IInv'
<1> USE DEF IInv, Shape, SettlementInvariant, Reported, BooksFollowTheMoney, AnnouncedOnce,
        Status, Settled, Idle, rows, worker, settlement
<1>1. CASE Resolve(r)
  <2>1. PICK end \in {"succeeded", "failed", "canceled"} :
            /\ money' = [money EXCEPT ![r] = end]
            /\ told' = [told EXCEPT ![r] = @ \cup {end}]
    BY <1>1 DEF Resolve
  <2>2. money[r] = "pending" /\ UNCHANGED <<rows, worker>>
    BY <1>1 DEF Resolve
  <2>3. Shape'
    BY <2>1, <2>2
  <2>4. (TimingOut \/ BooksFollowTheMoney)' /\ AnnouncedOnce'
    BY <2>1, <2>2
  <2>5. ASSUME NEW q \in Refunds PROVE Reported(q)'
    <3>1. CASE q = r
      BY <2>1, <2>2, <3>1
    <3>2. CASE q # r
      BY <2>1, <2>2, <3>2
    <3> QED  BY <3>1, <3>2
  <2> QED  BY <2>3, <2>4, <2>5
<1>2. CASE ReportLateFailure(r)
  <2>1. /\ LateFailures
        /\ money[r] = "succeeded"
        /\ told' = [told EXCEPT ![r] = @ \cup {"failed"}]
        /\ UNCHANGED <<rows, worker, money>>
    BY <1>2 DEF ReportLateFailure
  <2>2. Shape'
    BY <2>1
  <2>3. (TimingOut \/ BooksFollowTheMoney)' /\ AnnouncedOnce'
    BY <2>1
  <2>4. ASSUME NEW q \in Refunds PROVE Reported(q)'
    <3>1. CASE q = r
      BY <2>1, <3>1
    <3>2. CASE q # r
      BY <2>1, <3>2
    <3> QED  BY <3>1, <3>2
  <2> QED  BY <2>2, <2>3, <2>4
<1> QED  BY <1>1, <1>2 DEF Outside

\* Settling moves a pending refund to an outcome that was reported, and
\* announces it exactly if it succeeded.
LEMMA SettleStep ==
    ASSUME IInv, NEW r \in Refunds, Settle(r)
    PROVE  IInv'
<1> USE DEF IInv, Shape, SettlementInvariant, Reported, BooksFollowTheMoney, AnnouncedOnce,
        Status, Settled, Idle, rows, settlement, provider
<1>1. ASSUME NEW s, Deliver(r, s) PROVE IInv'
  BY <1>1, Translation DEF Deliver
<1>2. CASE LoseAnswer(r)
  BY <1>2 DEF LoseAnswer
<1>3. ASSUME NEW to \in Status, BeginSettlement(r, to) PROVE IInv'
  <2>1. CASE state[r] = "PENDING"
    <3>1. /\ answers' = [answers EXCEPT ![r] = @ \ {to}]
          /\ settling' = [settling EXCEPT ![r] = to]
          /\ to \in answers[r]
          /\ UNCHANGED <<rows, calling, provider>>
      BY <1>3, <2>1 DEF BeginSettlement
    <3>2. Shape' /\ (TimingOut \/ BooksFollowTheMoney)' /\ AnnouncedOnce'
      BY <3>1
    <3>3. ASSUME NEW q \in Refunds PROVE Reported(q)'
      <4>1. CASE q = r
        <5>1. /\ settling'[r] = to
              /\ answers'[r] = answers[r] \ {to}
              /\ UNCHANGED <<state[r], charge, calling[r], money[r], told[r]>>
          BY <3>1
        <5> QED  BY <2>1, <3>1, <4>1, <5>1
      <4>2. CASE q # r
        <5>1. Same(q)
          BY <3>1, <4>2 DEF Same
        <5> QED  BY <5>1, Elsewhere
      <4> QED  BY <4>1, <4>2
    <3> QED  BY <3>2, <3>3
  <2>2. CASE state[r] # "PENDING"
    BY <1>3, <2>2 DEF BeginSettlement
  <2> QED  BY <2>1, <2>2
<1>4. CASE CommitSettlement(r)
  <2>1. Shape'
    BY <1>4 DEF CommitSettlement
  <2>2. /\ settling[r] # Idle
        /\ state' = [state EXCEPT ![r] = settling[r]]
        /\ settling' = [settling EXCEPT ![r] = Idle]
        /\ UNCHANGED <<charge, calling, answers, provider>>
    BY <1>4 DEF CommitSettlement
  <2>3. (TimingOut \/ BooksFollowTheMoney)'
    BY <2>2
  <2>4. AnnouncedOnce'
    BY <1>4 DEF CommitSettlement
  <2>5. ASSUME NEW q \in Refunds PROVE Reported(q)'
    <3>1. CASE q = r
      <4>1. /\ state'[r] = settling[r]
            /\ settling'[r] = Idle
            /\ UNCHANGED <<charge, calling[r], answers[r], money[r], told[r]>>
        BY <2>2
      <4> QED  BY <2>2, <3>1, <4>1
    <3>2. CASE q # r
      <4>1. Same(q)
        BY <2>2, <3>2 DEF Same
      <4> QED  BY <4>1, Elsewhere
    <3> QED  BY <3>1, <3>2
  <2> QED  BY <2>1, <2>3, <2>4, <2>5
<1>5. CASE AbortSettlement(r)
  <2>1. Shape'
    BY <1>5 DEF AbortSettlement
  <2>2. (TimingOut \/ BooksFollowTheMoney)' /\ AnnouncedOnce'
    BY <1>5 DEF AbortSettlement
  <2>3. ASSUME NEW q \in Refunds PROVE Reported(q)'
    <3>1. CASE q = r
      BY <1>5, <3>1 DEF AbortSettlement
    <3>2. CASE q # r
      <4>1. Same(q)
        BY <1>5, <3>2 DEF AbortSettlement, Same
      <4> QED  BY <4>1, Elsewhere
    <3> QED  BY <3>1, <3>2
  <2> QED  BY <2>1, <2>2, <2>3
<1> QED  BY <1>1, <1>2, <1>3, <1>4, <1>5 DEF Settle

\* Every step preserves the invariant.
LEMMA IInvStep == IInv /\ [Next]_vars => IInv'
<1> SUFFICES ASSUME IInv, [Next]_vars PROVE IInv'
  OBVIOUS
<1>1. CASE UNCHANGED vars
  BY <1>1 DEF vars, rows, worker, settlement, provider, IInv, Shape, SettlementInvariant, Reported,
              BooksFollowTheMoney, AnnouncedOnce
<1>2. ASSUME NEW r \in Refunds, Decide(r) PROVE IInv'
  <2>1. PICK a : Reserve(r, a)
    BY <1>2 DEF Decide, RequestAdditional, RequestTarget
  <2> QED  BY <2>1, ReserveStep
<1> QED  BY <1>1, <1>2, JobStep, OutsideStep, SettleStep DEF Next

\* Whatever order the provider's answers and events come in, however often, and
\* also when settlements overlap or time out: success is announced once, and
\* only when the provider reported it (applySettlement).
THEOREM SuccessIsReal == Spec => [](SettlementInvariant /\ AnnouncedOnce)
<1>1. IInv => SettlementInvariant /\ AnnouncedOnce
  BY DEF IInv
<1> QED  BY <1>1, InitIInv, IInvStep, PTL DEF Spec

\* While no settlement times out under a job the books, failures included, say
\* what became of the money (execute).
THEOREM BooksAreTrue == ASSUME ~TimingOut PROVE Spec => []BooksFollowTheMoney
<1>1. IInv => BooksFollowTheMoney
  BY DEF IInv
<1> QED  BY <1>1, InitIInv, IInvStep, PTL DEF Spec

\* A settled refund is never moved or changed again (OPEN_REFUND_STATUSES).
LEMMA FinalStep ==
    ASSUME IInv, [Next]_vars, NEW r \in Refunds, state[r] \in Settled
    PROVE  state'[r] = state[r] /\ cents'[r] = cents[r]
<1>1. CASE UNCHANGED vars
  BY <1>1 DEF vars, rows
<1>2. ASSUME NEW q \in Refunds, Decide(q) PROVE state'[r] = state[r] /\ cents'[r] = cents[r]
  <2>1. PICK a : Reserve(q, a)
    BY <1>2 DEF Decide, RequestAdditional, RequestTarget
  <2> QED  BY <2>1 DEF Reserve, IInv, Shape, Settled
<1>3. ASSUME NEW q \in Refunds, Job(q) \/ Outside(q) PROVE UNCHANGED rows
  BY <1>3 DEF Job, Execute, CreateRefund, CallFails, Outside, Resolve, ReportLateFailure
<1>4. ASSUME NEW q \in Refunds, Settle(q) PROVE state'[r] = state[r] /\ cents'[r] = cents[r]
  <2>1. CASE CommitSettlement(q)
    BY <2>1 DEF CommitSettlement, IInv, Shape, SettlementInvariant, Reported, Settled, Status, Idle
  <2>2. CASE ~CommitSettlement(q)
    BY <1>4, <2>2 DEF Settle, Deliver, LoseAnswer, BeginSettlement, AbortSettlement, rows
  <2> QED  BY <2>1, <2>2
<1> QED  BY <1>1, <1>2, <1>3, <1>4 DEF Next, rows

\* No execution ever moves a settled refund.
THEOREM SettledStays == Spec => SettledIsFinal
<1>1. IInv /\ [Next]_vars =>
        [\A r \in Refunds : state[r] \in Settled => state'[r] = state[r] /\ cents'[r] = cents[r]]_vars
  BY FinalStep
<1> QED  BY <1>1, InitIInv, IInvStep, PTL DEF Spec, SettledIsFinal

-----------------------------------------------------------------------------
\* A settlement under way has summed what its commit will make true, and is
\* the only one.
SummedRight ==
    /\ sum = [r \in Refunds |-> sum[r]]
    /\ \A r \in Refunds : settling[r] # Idle => sum[r] = PaidWith(r, settling[r])
    /\ \A q, r \in Refunds : settling[q] # Idle /\ settling[r] # Idle => q = r

\* Sums of refunds that keep their amounts, and only of those, are kept.
LEMMA SameSums ==
    ASSUME InState("SUCCEEDED")' = InState("SUCCEEDED"),
           \A r \in Refunds : state[r] # "none" => cents'[r] = cents[r]
    PROVE  /\ SumOf(InState("SUCCEEDED"))' = SumOf(InState("SUCCEEDED"))
           /\ \A r \in Refunds : \A to : state[r] # "none" => PaidWith(r, to)' = PaidWith(r, to)
<1>1. ASSUME NEW S \in SUBSET Refunds, \A r \in S : state[r] # "none"
      PROVE  [r \in S |-> cents'[r]] = [r \in S |-> cents[r]]
  BY <1>1
<1>3. SumOf(InState("SUCCEEDED"))' = SumOf(InState("SUCCEEDED"))
  <2>1. InState("SUCCEEDED") \in SUBSET Refunds
        /\ \A r \in InState("SUCCEEDED") : state[r] # "none"
    BY DEF InState
  <2> QED  BY <1>1, <2>1 DEF SumOf
<1>4. ASSUME NEW r \in Refunds, NEW to, state[r] # "none"
      PROVE  PaidWith(r, to)' = PaidWith(r, to)
  <2> DEFINE S == InState("SUCCEEDED") \cup (IF to = "SUCCEEDED" THEN {r} ELSE {})
  <2>1. S \in SUBSET Refunds /\ \A q \in S : state[q] # "none"
    BY <1>4 DEF InState
  <2> QED  BY <1>1, <2>1 DEF SumOf, PaidWith
<1> QED  BY <1>3, <1>4

\* Steps that move no amount and settle nothing keep the total and the sums.
LEMMA TotalStutters ==
    ASSUME IInv, TotalIsSum, SummedRight, UNCHANGED <<rows, settlement>>
    PROVE  TotalIsSum' /\ SummedRight'
<1>1. InState("SUCCEEDED")' = InState("SUCCEEDED")
  BY DEF rows, InState
<1>2. \A r \in Refunds : settling[r] # Idle => state[r] # "none"
  BY DEF IInv, SettlementInvariant, Reported
<1> QED  BY <1>1, <1>2, SameSums DEF TotalIsSum, SummedRight, rows, settlement

\* While settlements do not overlap every step keeps the payment's total equal
\* to the sum of its refunds.
LEMMA TotalStep ==
    ASSUME ~Overlapping, IInv, TotalIsSum, SummedRight, [Next]_vars
    PROVE  TotalIsSum' /\ SummedRight'
<1>1. CASE UNCHANGED vars
  BY <1>1, TotalStutters DEF vars, worker
<1>2. ASSUME NEW r \in Refunds, Decide(r) PROVE TotalIsSum' /\ SummedRight'
  <2>1. PICK a : Reserve(r, a)
    BY <1>2 DEF Decide, RequestAdditional, RequestTarget
  <2>2. InState("SUCCEEDED")' = InState("SUCCEEDED")
    BY <2>1 DEF Reserve, InState, IInv, Shape
  <2>3. \A q \in Refunds : state[q] # "none" => cents'[q] = cents[q]
    BY <2>1 DEF Reserve, IInv, Shape
  <2>4. \A q \in Refunds : settling[q] # Idle => state[q] # "none"
    BY DEF IInv, SettlementInvariant, Reported
  <2>5. UNCHANGED <<refunded, settling, sum>>
    BY <2>1 DEF Reserve, worker, settlement
  <2> QED  BY <2>2, <2>3, <2>4, <2>5, SameSums DEF TotalIsSum, SummedRight
<1>3. ASSUME NEW r \in Refunds, Job(r) \/ Outside(r) PROVE TotalIsSum' /\ SummedRight'
  <2>1. UNCHANGED <<rows, settlement>>
    BY <1>3 DEF Job, Execute, CreateRefund, CallFails, Outside, Resolve, ReportLateFailure, worker
  <2> QED  BY <2>1, TotalStutters
<1>4. ASSUME NEW r \in Refunds, Settle(r) PROVE TotalIsSum' /\ SummedRight'
  <2>1. CASE UNCHANGED <<rows, settlement>>
    BY <2>1, TotalStutters
  <2>2. ASSUME NEW to, BeginSettlement(r, to), state[r] = "PENDING"
        PROVE  TotalIsSum' /\ SummedRight'
    <3>1. /\ UNCHANGED <<state, cents, refunded>>
          /\ settling' = [settling EXCEPT ![r] = to]
          /\ sum' = [sum EXCEPT ![r] = PaidWith(r, to)]
          /\ \A q \in Refunds : settling[q] = Idle
      BY <2>2 DEF BeginSettlement, rows
    <3>2. InState("SUCCEEDED")' = InState("SUCCEEDED")
      BY <3>1 DEF InState
    <3>3. /\ SumOf(InState("SUCCEEDED"))' = SumOf(InState("SUCCEEDED"))
          /\ PaidWith(r, to)' = PaidWith(r, to)
      BY <2>2, <3>1, <3>2, SameSums
    <3>4. SummedRight'
      BY <3>1, <3>3 DEF SummedRight, IInv, Shape
    <3> QED  BY <3>1, <3>3, <3>4 DEF TotalIsSum
  <2>3. CASE CommitSettlement(r)
    <3>1. /\ state' = [state EXCEPT ![r] = settling[r]]
          /\ state[r] = "PENDING"
          /\ refunded' = PaidWith(r, settling[r])
          /\ UNCHANGED cents
      BY <2>3 DEF CommitSettlement, IInv, SettlementInvariant, Reported, SummedRight
    <3>2. InState("SUCCEEDED")' =
            InState("SUCCEEDED") \cup (IF settling[r] = "SUCCEEDED" THEN {r} ELSE {})
      BY <3>1 DEF InState, IInv, Shape
    <3>3. TotalIsSum'
      BY <3>1, <3>2 DEF TotalIsSum, PaidWith, SumOf
    <3>4. /\ sum' = [sum EXCEPT ![r] = 0]
          /\ settling' = [settling EXCEPT ![r] = Idle]
          /\ settling[r] # Idle
      BY <2>3 DEF CommitSettlement
    <3>5. \A q \in Refunds : settling'[q] = Idle
      BY <3>4 DEF SummedRight, IInv, Shape
    <3> QED  BY <3>3, <3>4, <3>5 DEF SummedRight
  <2>4. CASE AbortSettlement(r)
    <3>1. /\ sum' = [sum EXCEPT ![r] = 0]
          /\ settling' = [settling EXCEPT ![r] = Idle]
          /\ settling[r] # Idle
          /\ UNCHANGED <<state, cents, refunded>>
      BY <2>4 DEF AbortSettlement, rows
    <3>2. \A q \in Refunds : settling'[q] = Idle
      BY <3>1 DEF SummedRight, IInv, Shape
    <3>3. InState("SUCCEEDED")' = InState("SUCCEEDED")
      BY <3>1 DEF InState
    <3>4. SumOf(InState("SUCCEEDED"))' = SumOf(InState("SUCCEEDED"))
      BY <3>1, <3>3, SameSums
    <3> QED  BY <3>1, <3>2, <3>4 DEF SummedRight, TotalIsSum
  <2> QED  BY <1>4, <2>1, <2>2, <2>3, <2>4
           DEF Settle, Deliver, LoseAnswer, BeginSettlement
<1> QED  BY <1>1, <1>2, <1>3, <1>4 DEF Next

\* A payment without refunds has a refunded total of zero.
LEMMA NothingRefunded == Init => TotalIsSum /\ SummedRight
<1> SUFFICES ASSUME Init PROVE TotalIsSum /\ SummedRight
  OBVIOUS
<1>1. InState("SUCCEEDED") = {}
  BY DEF Init, InState
<1>2. ASSUME NEW f, DOMAIN f = {} PROVE Total(f) = 0
  BY <1>2 DEF Total, FoldFunction, FoldFunctionOnSet, MapThenFoldSet
<1>3. SumOf({}) = 0
  BY <1>2 DEF SumOf
<1> QED  BY <1>1, <1>3 DEF Init, TotalIsSum, SummedRight

\* The payment's denormalised total is the sum of its SUCCEEDED refunds, in
\* every execution in which settlements of one payment do not overlap
\* (recomputePaymentTotals).
THEOREM TotalAlwaysSum == ASSUME ~Overlapping PROVE Spec => []TotalIsSum
<1>1. Init => IInv /\ TotalIsSum /\ SummedRight
  BY InitIInv, NothingRefunded
<1>2. (IInv /\ TotalIsSum /\ SummedRight) /\ [Next]_vars => (IInv /\ TotalIsSum /\ SummedRight)'
  BY IInvStep, TotalStep
<1> QED  BY <1>1, <1>2, PTL DEF Spec

-----------------------------------------------------------------------------
(***************************************************************************)
(* Sums of refunds.                                                        *)
(***************************************************************************)

\* A refund's amount, cent by cent: the sum of the amounts of refunds is the
\* number of their cents, in whatever order a fold takes the refunds.
Coins(c, S) == {k \in S \X (1 .. Amount) : k[2] <= c[k[1]]}

\* One refund has as many cents as its amount says.
LEMMA CoinsOfOne ==
    ASSUME NEW r, NEW c, c[r] \in 0 .. Amount
    PROVE  Cardinality(Coins(c, {r})) = c[r]
<1>1. Coins(c, {r}) = {r} \X (1 .. c[r])
  BY AmountAssumption DEF Coins
<1>2. IsFiniteSet({r}) /\ Cardinality({r}) = 1
  BY FS_Singleton
<1>3. c[r] \in Nat
  BY AmountAssumption
<1>4. IsFiniteSet(1 .. c[r]) /\ Cardinality(1 .. c[r]) = c[r]
  <2>1. 1 \in Int /\ c[r] \in Int
    BY <1>3
  <2>2. /\ IsFiniteSet(1 .. c[r])
        /\ Cardinality(1 .. c[r]) = IF 1 > c[r] THEN 0 ELSE c[r] - 1 + 1
    BY <2>1, FS_Interval
  <2> QED  BY <1>3, <2>2
<1>5. Cardinality({r} \X (1 .. c[r])) = 1 * c[r]
  <2>1. Cardinality({r} \X (1 .. c[r])) = Cardinality({r}) * Cardinality(1 .. c[r])
    BY <1>2, <1>4, FS_Product, Zenon
  <2> QED  BY <1>2, <1>4, <2>1, Zenon
<1>6. PICK n \in Nat : n = c[r]
  BY <1>3
<1>7. Cardinality(Coins(c, {r})) = 1 * n
  BY <1>1, <1>5, <1>6, Zenon
<1> QED  BY <1>6, <1>7

\* The cents of finitely many refunds are finitely many.
LEMMA CoinsAreFinite ==
    ASSUME NEW S, IsFiniteSet(S), NEW c
    PROVE  IsFiniteSet(Coins(c, S)) /\ Cardinality(Coins(c, S)) \in Nat
<1>1. IsFiniteSet(1 .. Amount)
  <2>1. 1 \in Int /\ Amount \in Int
    BY AmountAssumption
  <2> QED  BY <2>1, FS_Interval
<1>2. IsFiniteSet(S \X (1 .. Amount))
  BY <1>1, FS_Product
<1>3. IsFiniteSet(Coins(c, S))
  <2>1. Coins(c, S) \in SUBSET (S \X (1 .. Amount))
    BY DEF Coins
  <2> QED  BY <1>2, <2>1, FS_Subset
<1> QED  BY <1>3, FS_CardinalityType

\* Refunds that have nothing in common share no cent.
LEMMA CoinsAdd ==
    ASSUME NEW S, NEW T, IsFiniteSet(S), IsFiniteSet(T), S \cap T = {}, NEW c
    PROVE  Cardinality(Coins(c, S \cup T)) = Cardinality(Coins(c, S)) + Cardinality(Coins(c, T))
<1>1. /\ IsFiniteSet(Coins(c, S)) /\ Cardinality(Coins(c, S)) \in Nat
      /\ IsFiniteSet(Coins(c, T)) /\ Cardinality(Coins(c, T)) \in Nat
  BY CoinsAreFinite
<1>2. /\ Coins(c, S \cup T) = Coins(c, S) \cup Coins(c, T)
      /\ Coins(c, S) \cap Coins(c, T) = {}
  BY DEF Coins
<1>3. Cardinality(Coins(c, S) \cup Coins(c, T)) =
        Cardinality(Coins(c, S)) + Cardinality(Coins(c, T)) - Cardinality({})
  BY <1>1, <1>2, FS_Union
<1>4. Cardinality({}) = 0
  BY FS_EmptySet
<1>5. Cardinality(Coins(c, S \cup T)) = Cardinality(Coins(c, S)) + Cardinality(Coins(c, T)) - 0
  BY <1>2, <1>3, <1>4, Zenon
<1> QED  BY <1>1, <1>5

\* What FoldFunction computes over the subsets of a set, one element at a time.
Folding(f, S, g) ==
    g = [s \in SUBSET S |->
            IF s = {} THEN 0 ELSE f[CHOOSE x \in s : TRUE] + g[s \ {CHOOSE x \in s : TRUE}]]

\* Counting cents is such a computation.
LEMMA CountingFolds ==
    ASSUME NEW S, IsFiniteSet(S), NEW c, \A r \in S : c[r] \in 0 .. Amount
    PROVE  Folding([r \in S |-> c[r]], S, [s \in SUBSET S |-> Cardinality(Coins(c, s))])
<1> DEFINE f == [r \in S |-> c[r]]
           g == [s \in SUBSET S |-> Cardinality(Coins(c, s))]
<1>1. ASSUME NEW s \in SUBSET S, s # {}
      PROVE  g[s] = f[CHOOSE x \in s : TRUE] + g[s \ {CHOOSE x \in s : TRUE}]
  <2>1. PICK x : x = (CHOOSE y \in s : TRUE)
    OBVIOUS
  <2>2. x \in s /\ x \in S
    BY <1>1, <2>1
  <2>3. IsFiniteSet({x}) /\ IsFiniteSet(s \ {x}) /\ IsFiniteSet(s)
    <3>1. IsFiniteSet(s)
      BY FS_Subset
    <3> QED  BY <3>1, FS_Singleton, FS_RemoveElement
  <2>4. s = {x} \cup (s \ {x}) /\ {x} \cap (s \ {x}) = {}
    BY <2>2
  <2>5. Cardinality(Coins(c, {x} \cup (s \ {x}))) =
          Cardinality(Coins(c, {x})) + Cardinality(Coins(c, s \ {x}))
    BY <2>3, <2>4, CoinsAdd
  <2>6. Cardinality(Coins(c, {x})) = c[x]
    BY <2>2, CoinsOfOne
  <2>7. g[s] = f[x] + g[s \ {x}]
    <3>1. g[s] = Cardinality(Coins(c, s)) /\ g[s \ {x}] = Cardinality(Coins(c, s \ {x}))
      OBVIOUS
    <3>2. f[x] = c[x]
      BY <2>2
    <3>3. Cardinality(Coins(c, s)) = c[x] + Cardinality(Coins(c, s \ {x}))
      BY <2>4, <2>5, <2>6
    <3> QED  BY <3>1, <3>2, <3>3
  <2> QED  BY <2>1, <2>7
<1>2. g[{}] = 0
  <2>1. Coins(c, {}) = {}
    BY DEF Coins
  <2> QED  BY <2>1, FS_EmptySet
<1>3. ASSUME NEW s \in SUBSET S
      PROVE  g[s] = IF s = {} THEN 0 ELSE f[CHOOSE x \in s : TRUE] + g[s \ {CHOOSE x \in s : TRUE}]
  <2>1. CASE s = {}
    BY <1>2, <2>1
  <2>2. CASE s # {}
    BY <1>1, <2>2
  <2> QED  BY <2>1, <2>2
<1>4. g = [s \in SUBSET S |-> g[s]]
  OBVIOUS
<1> HIDE DEF f, g
<1>5. Folding(f, S, g)
  BY <1>3, <1>4 DEF Folding
<1> QED  BY <1>5 DEF f, g

\* And no other computation gives anything else: there would be a smallest set
\* of refunds for which it did.
LEMMA FoldsAgree ==
    ASSUME NEW S, IsFiniteSet(S), NEW f, NEW g, NEW h, Folding(f, S, g), Folding(f, S, h)
    PROVE  g[S] = h[S]
<1>1. IsWellFoundedOn(StrictSubsetOrdering(S), SUBSET S)
  BY FS_StrictSubsetOrderingWellFounded, FS_FiniteSubsetsOfFinite, Zenon
<1> DEFINE Apart == {s \in SUBSET S : g[s] # h[s]}
<1>2. SUFFICES ASSUME Apart # {} PROVE FALSE
  OBVIOUS
<1>3. PICK s \in Apart : \A t \in Apart : ~(<<t, s>> \in StrictSubsetOrdering(S))
  <2>1. Apart \subseteq SUBSET S
    OBVIOUS
  <2> HIDE DEF Apart
  <2> QED  BY <1>1, <1>2, <2>1, WFMin, Zenon
<1>4. s \in SUBSET S /\ g[s] # h[s]
  OBVIOUS
<1>5. PICK x : x = (CHOOSE y \in s : TRUE)
  OBVIOUS
<1>6. /\ g[s] = IF s = {} THEN 0 ELSE f[x] + g[s \ {x}]
      /\ h[s] = IF s = {} THEN 0 ELSE f[x] + h[s \ {x}]
  BY <1>4, <1>5 DEF Folding
<1>7. s # {}
  BY <1>4, <1>6
<1>8. x \in s
  BY <1>5, <1>7
<1>9. g[s \ {x}] # h[s \ {x}]
  BY <1>4, <1>6, <1>7
<1>10. s \ {x} \in Apart /\ <<s \ {x}, s>> \in StrictSubsetOrdering(S)
  BY <1>4, <1>8, <1>9 DEF StrictSubsetOrdering
<1> QED  BY <1>3, <1>10

\* The sum of the amounts of refunds is the number of their cents.
LEMMA SumIsCount ==
    ASSUME NEW S, IsFiniteSet(S), NEW c, \A r \in S : c[r] \in 0 .. Amount
    PROVE  Total([r \in S |-> c[r]]) = Cardinality(Coins(c, S))
<1> DEFINE f == [r \in S |-> c[r]]
           g == [s \in SUBSET S |-> Cardinality(Coins(c, s))]
<1>1. Folding(f, S, g)
  BY CountingFolds
<1>2. g[S] = Cardinality(Coins(c, S))
  OBVIOUS
<1>3. DOMAIN f = S
  OBVIOUS
<1> HIDE DEF f, g
<1>4. Total(f) = (CHOOSE h : Folding(f, S, h))[S]
  BY <1>3 DEF Total, FoldFunction, FoldFunctionOnSet, MapThenFoldSet, Folding
<1>5. PICK h : h = (CHOOSE i : Folding(f, S, i))
  OBVIOUS
<1>6. Folding(f, S, h)
  BY <1>1, <1>5, Zenon
<1>7. h[S] = g[S]
  BY <1>1, <1>6, FoldsAgree
<1> QED  BY <1>2, <1>4, <1>5, <1>7 DEF f

-----------------------------------------------------------------------------
(***************************************************************************)
(* What is promised.                                                       *)
(***************************************************************************)

\* Sums of the amounts of refunds are numbers.
LEMMA SumIsNumber ==
    ASSUME NEW c, \A r \in Refunds : c[r] \in 0 .. Amount, NEW S \in SUBSET Refunds
    PROVE  /\ Total([r \in S |-> c[r]]) = Cardinality(Coins(c, S))
           /\ Total([r \in S |-> c[r]]) \in Nat
           /\ IsFiniteSet(S) /\ IsFiniteSet(Coins(c, S))
<1>1. IsFiniteSet(S)
  BY RefundsAssumption, FS_Subset
<1>2. \A r \in S : c[r] \in 0 .. Amount
  OBVIOUS
<1>3. Total([r \in S |-> c[r]]) = Cardinality(Coins(c, S))
  BY <1>1, <1>2, SumIsCount
<1> QED  BY <1>1, <1>3, CoinsAreFinite

\* They add up.
LEMMA SumsAdd ==
    ASSUME NEW c, \A r \in Refunds : c[r] \in 0 .. Amount,
           NEW S \in SUBSET Refunds, NEW T \in SUBSET Refunds, S \cap T = {}
    PROVE  Total([r \in S \cup T |-> c[r]]) = Total([r \in S |-> c[r]]) + Total([r \in T |-> c[r]])
<1>1. IsFiniteSet(S) /\ IsFiniteSet(T)
  BY SumIsNumber
<1>2. Cardinality(Coins(c, S \cup T)) = Cardinality(Coins(c, S)) + Cardinality(Coins(c, T))
  BY <1>1, CoinsAdd
<1>3. S \cup T \in SUBSET Refunds
  OBVIOUS
<1>4. Total([r \in S \cup T |-> c[r]]) = Cardinality(Coins(c, S \cup T))
  BY <1>3, SumIsNumber
<1>5. Total([r \in S |-> c[r]]) = Cardinality(Coins(c, S))
  BY SumIsNumber
<1>6. Total([r \in T |-> c[r]]) = Cardinality(Coins(c, T))
  BY SumIsNumber
<1> QED  BY <1>2, <1>4, <1>5, <1>6, Zenon

\* And they grow with the set.
LEMMA SumsGrow ==
    ASSUME NEW c, \A r \in Refunds : c[r] \in 0 .. Amount,
           NEW T \in SUBSET Refunds, NEW S \in SUBSET T
    PROVE  Total([r \in S |-> c[r]]) <= Total([r \in T |-> c[r]])
<1>1. Coins(c, S) \in SUBSET Coins(c, T)
  BY DEF Coins
<1>2. IsFiniteSet(Coins(c, T))
  BY SumIsNumber
<1>3. Cardinality(Coins(c, S)) <= Cardinality(Coins(c, T))
  BY <1>1, <1>2, FS_Subset
<1>4. S \in SUBSET Refunds
  OBVIOUS
<1>5. Total([r \in S |-> c[r]]) = Cardinality(Coins(c, S))
  BY <1>4, SumIsNumber
<1>6. Total([r \in T |-> c[r]]) = Cardinality(Coins(c, T))
  BY SumIsNumber
<1> QED  BY <1>3, <1>5, <1>6

\* One refund more is its amount more.
LEMMA OneMore ==
    ASSUME NEW c, \A r \in Refunds : c[r] \in 0 .. Amount,
           NEW S \in SUBSET Refunds, NEW q \in Refunds, q \notin S
    PROVE  Total([r \in S \cup {q} |-> c[r]]) = Total([r \in S |-> c[r]]) + c[q]
<1>1. {q} \in SUBSET Refunds /\ S \cap {q} = {}
  OBVIOUS
<1>2. Total([r \in S \cup {q} |-> c[r]]) = Total([r \in S |-> c[r]]) + Total([r \in {q} |-> c[r]])
  BY <1>1, SumsAdd
<1>3. IsFiniteSet({q}) /\ \A r \in {q} : c[r] \in 0 .. Amount
  BY FS_Singleton
<1>4. Total([r \in {q} |-> c[r]]) = Cardinality(Coins(c, {q}))
  BY <1>3, SumIsCount
<1>5. Cardinality(Coins(c, {q})) = c[q]
  BY CoinsOfOne
<1> QED  BY <1>2, <1>4, <1>5, Zenon

PaidBack == InState("SUCCEEDED")
Pending  == InState("PENDING")

\* Amounts are within what was paid, and so are all that counts together.
MoneyInv ==
    /\ cents \in [Refunds -> 0 .. Amount]
    /\ NeverOverRefunded

\* What is paid and promised together is the sum of the two.
LEMMA GivenAway ==
    ASSUME MoneyInv
    PROVE  /\ SumOf(PaidBack \cup Pending) = SumOf(PaidBack) + SumOf(Pending)
           /\ SumOf(PaidBack \cup Pending) <= Amount
           /\ SumOf(PaidBack) \in Nat /\ SumOf(Pending) \in Nat
<1>1. \A r \in Refunds : cents[r] \in 0 .. Amount
  BY DEF MoneyInv
<1>2. PaidBack \in SUBSET Refunds /\ Pending \in SUBSET Refunds /\ PaidBack \cap Pending = {}
  BY DEF PaidBack, Pending, InState
<1>3. SumOf(PaidBack \cup Pending) = SumOf(PaidBack) + SumOf(Pending)
  BY <1>1, <1>2, SumsAdd DEF SumOf
<1>4. SumOf(PaidBack) \in Nat /\ SumOf(Pending) \in Nat
  BY <1>1, <1>2, SumIsNumber DEF SumOf
<1> QED  BY <1>3, <1>4 DEF MoneyInv, NeverOverRefunded, PaidBack, Pending

\* A payment without refunds owes nothing.
LEMMA NothingPromised == Init => MoneyInv
<1> SUFFICES ASSUME Init PROVE MoneyInv
  OBVIOUS
<1>1. cents \in [Refunds -> 0 .. Amount]
  BY AmountAssumption DEF Init
<1>2. InState("SUCCEEDED") = {} /\ InState("PENDING") = {}
  BY DEF Init, InState
<1>3. SumOf({}) = 0
  <2>1. IsFiniteSet({}) /\ \A r \in {} : cents[r] \in 0 .. Amount
    BY FS_EmptySet
  <2>2. Coins(cents, {}) = {}
    BY DEF Coins
  <2>3. Total([r \in {} |-> cents[r]]) = Cardinality(Coins(cents, {}))
    BY <2>1, SumIsCount
  <2> QED  BY <2>2, <2>3, FS_EmptySet, Zenon DEF SumOf
<1> QED  BY <1>1, <1>2, <1>3, AmountAssumption DEF MoneyInv, NeverOverRefunded

\* What may still be given back is what was paid less all that counts.
LEMMA WhatIsLeft ==
    ASSUME MoneyInv, TotalIsSum
    PROVE  /\ Refundable = Amount - (SumOf(PaidBack) + SumOf(Pending))
           /\ Refundable \in 0 .. Amount
           /\ refunded = SumOf(PaidBack)
<1>1. refunded = SumOf(PaidBack)
  BY DEF TotalIsSum, PaidBack
<1>2. PICK p \in Nat : p = SumOf(PaidBack)
  BY GivenAway
<1>3. PICK o \in Nat : o = SumOf(Pending)
  BY GivenAway
<1>4. Reserved = p + o
  BY <1>1, <1>2, <1>3 DEF Reserved, Pending
<1>5. p + o <= Amount
  BY <1>2, <1>3, GivenAway
<1> QED  BY <1>1, <1>2, <1>3, <1>4, <1>5, AmountAssumption DEF Refundable

\* Whichever way it is asked for, a reservation is of a number of cents.
LEMMA WhatIsReserved ==
    ASSUME MoneyInv, TotalIsSum, NEW r \in Refunds, Decide(r)
    PROVE  \E a \in Int : Reserve(r, a)
<1>1. CASE RequestAdditional(r)
  BY <1>1 DEF RequestAdditional
<1>2. CASE RequestTarget(r)
  <2>1. PICK target \in Int :
          Reserve(r, IF target - Reserved < Refundable THEN target - Reserved ELSE Refundable)
    BY <1>2 DEF RequestTarget
  <2>2. Refundable \in Int /\ Refundable = Amount - (SumOf(PaidBack) + SumOf(Pending))
    BY WhatIsLeft, AmountAssumption
  <2>3. Reserved = SumOf(PaidBack) + SumOf(Pending)
    BY WhatIsLeft DEF Reserved, Pending
  <2>4. Reserved \in Int
    BY <2>3, GivenAway
  <2> QED  BY <2>1, <2>2, <2>4
<1> QED  BY <1>1, <1>2 DEF Decide

\* A reservation takes of what is left, and promises it.
LEMMA ReservePromises ==
    ASSUME IInv, MoneyInv, TotalIsSum, NEW r \in Refunds, NEW a \in Int, Reserve(r, a)
    PROVE  /\ a \in 1 .. Amount - refunded
           /\ MoneyInv'
<1>0. /\ state[r] = "none"
      /\ state' = [state EXCEPT ![r] = "PENDING"]
      /\ cents' = [cents EXCEPT ![r] = a]
      /\ a > 0 /\ a <= Refundable
  BY DEF Reserve
<1>1. PICK p \in Nat : p = SumOf(PaidBack)
  BY GivenAway
<1>2. PICK o \in Nat : o = SumOf(Pending)
  BY GivenAway
<1>3. Refundable = Amount - (p + o) /\ refunded = p
  BY <1>1, <1>2, WhatIsLeft
<1>4. a \in 1 .. Amount - p /\ a \in 0 .. Amount /\ p + (o + a) <= Amount
  BY <1>0, <1>1, <1>2, <1>3, AmountAssumption
<1>5. cents' \in [Refunds -> 0 .. Amount]
  BY <1>0, <1>4 DEF MoneyInv
<1>6. /\ InState("SUCCEEDED")' = PaidBack
      /\ InState("PENDING")' = Pending \cup {r}
      /\ r \notin PaidBack /\ r \notin Pending
  BY <1>0 DEF InState, PaidBack, Pending, IInv, Shape
<1>7. PaidBack \in SUBSET Refunds /\ Pending \in SUBSET Refunds
  BY DEF PaidBack, Pending, InState
<1>8. PICK c : c = cents'
  OBVIOUS
<1>9. (\A q \in Refunds : c[q] \in 0 .. Amount) /\ c[r] = a
  BY <1>0, <1>5, <1>8 DEF MoneyInv
<1>10. /\ [q \in PaidBack |-> c[q]] = [q \in PaidBack |-> cents[q]]
       /\ [q \in Pending |-> c[q]] = [q \in Pending |-> cents[q]]
  BY <1>0, <1>6, <1>7, <1>8 DEF MoneyInv
<1>11. Total([q \in Pending \cup {r} |-> c[q]]) = Total([q \in Pending |-> c[q]]) + c[r]
  BY <1>6, <1>7, <1>9, OneMore
<1>12. SumOf(InState("SUCCEEDED"))' = p
  BY <1>1, <1>6, <1>8, <1>10 DEF SumOf
<1>13. SumOf(InState("PENDING"))' = o + a
  <2>1. SumOf(InState("PENDING"))' = Total([q \in Pending \cup {r} |-> c[q]])
    BY <1>6, <1>8 DEF SumOf
  <2>2. Total([q \in Pending |-> c[q]]) = o
    BY <1>2, <1>10 DEF SumOf
  <2> QED  BY <1>9, <1>11, <2>1, <2>2
<1>14. NeverOverRefunded'
  <2>1. NeverOverRefunded' <=> SumOf(InState("SUCCEEDED"))' + SumOf(InState("PENDING"))' <= Amount
    BY DEF NeverOverRefunded
  <2> QED  BY <1>4, <1>12, <1>13, <2>1
<1> QED  BY <1>3, <1>4, <1>5, <1>14 DEF MoneyInv

\* A settlement promises nothing: what counts afterwards counted before.
LEMMA CommitPromisesNothing ==
    ASSUME IInv, MoneyInv, NEW r \in Refunds, CommitSettlement(r)
    PROVE  MoneyInv'
<1>1. /\ state' = [state EXCEPT ![r] = settling[r]]
      /\ state[r] = "PENDING"
      /\ cents' = cents
  BY DEF CommitSettlement, IInv, SettlementInvariant, Reported
<1>2. PICK P : P = InState("SUCCEEDED")'
  OBVIOUS
<1>3. PICK Q : Q = InState("PENDING")'
  OBVIOUS
<1>4. /\ P \in SUBSET Refunds /\ Q \in SUBSET Refunds
      /\ P \cap Q = {}
      /\ P \cup Q \subseteq PaidBack \cup Pending
      /\ PaidBack \cup Pending \in SUBSET Refunds
  BY <1>1, <1>2, <1>3 DEF PaidBack, Pending, InState, IInv, Shape
<1>5. \A q \in Refunds : cents[q] \in 0 .. Amount
  BY DEF MoneyInv
<1>6. SumOf(P \cup Q) = SumOf(P) + SumOf(Q)
  <2>1. P \in SUBSET Refunds /\ Q \in SUBSET Refunds /\ P \cap Q = {}
    BY <1>4
  <2> QED  BY <1>5, <2>1, SumsAdd, Zenon DEF SumOf
<1>7. SumOf(P \cup Q) <= SumOf(PaidBack \cup Pending)
  BY <1>4, <1>5, SumsGrow DEF SumOf
<1>8. SumOf(P) \in Nat /\ SumOf(Q) \in Nat /\ SumOf(PaidBack \cup Pending) \in Nat
  BY <1>4, <1>5, SumIsNumber DEF SumOf
<1>9. SumOf(P) + SumOf(Q) <= Amount
  BY <1>6, <1>7, <1>8, GivenAway, AmountAssumption
<1>10. SumOf(InState("SUCCEEDED"))' = SumOf(P) /\ SumOf(InState("PENDING"))' = SumOf(Q)
  BY <1>1, <1>2, <1>3 DEF SumOf
<1> QED  BY <1>1, <1>9, <1>10 DEF MoneyInv, NeverOverRefunded

\* Nothing else moves an amount or a status.
LEMMA MoneyStep ==
    ASSUME IInv, MoneyInv, TotalIsSum, [Next]_vars
    PROVE  MoneyInv'
<1>1. ASSUME UNCHANGED <<state, cents>> PROVE MoneyInv'
  BY <1>1 DEF MoneyInv, NeverOverRefunded, SumOf, InState
<1>2. ASSUME NEW r \in Refunds, Decide(r) PROVE MoneyInv'
  <2>1. PICK a \in Int : Reserve(r, a)
    BY <1>2, WhatIsReserved
  <2> QED  BY <2>1, ReservePromises
<1>3. ASSUME NEW r \in Refunds, Job(r) \/ Outside(r) PROVE UNCHANGED <<state, cents>>
  BY <1>3 DEF Job, Execute, CreateRefund, CallFails, Outside, Resolve, ReportLateFailure, rows
<1>4. ASSUME NEW r \in Refunds, Settle(r), ~CommitSettlement(r) PROVE UNCHANGED <<state, cents>>
  BY <1>4 DEF Settle, Deliver, LoseAnswer, BeginSettlement, AbortSettlement, rows
<1>5. CASE UNCHANGED vars
  BY <1>1, <1>5 DEF vars, rows
<1> QED  BY <1>1, <1>2, <1>3, <1>4, <1>5, CommitPromisesNothing DEF Next

\* Everything that holds while settlements of one payment do not overlap.
OrderlyInv == IInv /\ TotalIsSum /\ SummedRight /\ MoneyInv

LEMMA Orderly ==
    ASSUME ~Overlapping
    PROVE  Spec => []OrderlyInv
<1>1. Init => OrderlyInv
  BY InitIInv, NothingRefunded, NothingPromised DEF OrderlyInv
<1>2. OrderlyInv /\ [Next]_vars => OrderlyInv'
  BY IInvStep, TotalStep, MoneyStep DEF OrderlyInv
<1> QED  BY <1>1, <1>2, PTL DEF Spec

\* What the provider holds is in the books, and so is the refund asked of it next.
LEMMA LiveIsGiven ==
    ASSUME IInv, MoneyInv, ~TimingOut, ~LateFailures
    PROVE  PromiseIsCovered
<1>1. ASSUME NEW r \in Refunds, state[r] = "PENDING", money[r] = "none" PROVE Covered(r)
  <2>1. ASSUME NEW q \in Live PROVE q \in PaidBack \cup Pending
    <3>1. q \in Refunds /\ money[q] \in {"pending", "succeeded"}
      BY DEF Live
    <3>2. state[q] # "none"
      BY <3>1 DEF IInv, SettlementInvariant, Reported
    <3>3. state[q] \notin {"FAILED", "CANCELED"}
      BY <3>1 DEF IInv, BooksFollowTheMoney
    <3>4. state[q] \in Status \cup {"none"}
      BY <3>1 DEF IInv, Shape
    <3> QED  BY <3>1, <3>2, <3>3, <3>4 DEF PaidBack, Pending, InState, Status, Settled
  <2>2. /\ Live \in SUBSET Refunds /\ Live \cup {r} \in SUBSET Refunds
        /\ r \notin Live
        /\ Live \cup {r} \subseteq PaidBack \cup Pending
        /\ PaidBack \cup Pending \in SUBSET Refunds
    BY <1>1, <2>1 DEF Live, PaidBack, Pending, InState
  <2>3. \A q \in Refunds : cents[q] \in 0 .. Amount
    BY DEF MoneyInv
  <2>4. SumOf(Live \cup {r}) = SumOf(Live) + cents[r]
    BY <2>2, <2>3, OneMore DEF SumOf
  <2>5. SumOf(Live \cup {r}) <= SumOf(PaidBack \cup Pending)
    BY <2>2, <2>3, SumsGrow DEF SumOf
  <2>6. SumOf(Live \cup {r}) \in Nat /\ SumOf(PaidBack \cup Pending) \in Nat
    BY <2>2, <2>3, SumIsNumber DEF SumOf
  <2>7. SumOf(Live \cup {r}) <= Amount
    BY <2>5, <2>6, GivenAway, AmountAssumption
  <2> QED  BY <2>4, <2>7 DEF Covered
<1> QED  BY <1>1 DEF PromiseIsCovered, MoneyInv

\* While settlements of one payment do not overlap, what was given back and what is
\* promised never exceed what was paid (assertRefundable under the payment's lock).
THEOREM GivenWithinPaid == ASSUME ~Overlapping PROVE Spec => []NeverOverRefunded
<1>1. OrderlyInv => NeverOverRefunded
  BY DEF OrderlyInv, MoneyInv
<1> QED  BY <1>1, Orderly, PTL

\* And unless the provider takes back what it has paid, or a settlement that timed
\* out passed for its refusal, the charge still holds every refund it is asked for.
THEOREM PromisesAreCovered ==
    ASSUME ~Overlapping, ~TimingOut, ~LateFailures
    PROVE  Spec => []PromiseIsCovered
<1>1. OrderlyInv => PromiseIsCovered
  BY LiveIsGiven DEF OrderlyInv
<1> QED  BY <1>1, Orderly, PTL

-----------------------------------------------------------------------------
(***************************************************************************)
(* The ledger.                                                             *)
(***************************************************************************)
Entry(s) ==
    CASE s = "none"      -> "none"
      [] s = "PENDING"   -> "promised"
      [] s = "SUCCEEDED" -> "paid"
      [] OTHER           -> "refused"

\* A reservation is a promise.
LEMMA ReserveIsPromise ==
    ASSUME OrderlyInv, NEW r \in Refunds, NEW a \in Int, Reserve(r, a)
    PROVE  Ledger!Promise(r)
<1>1. /\ state[r] = "none"
      /\ state' = [state EXCEPT ![r] = "PENDING"]
      /\ cents' = [cents EXCEPT ![r] = a]
      /\ refunded' = refunded
  BY DEF Reserve
<1>2. a \in 1 .. Amount - refunded
  BY ReservePromises DEF OrderlyInv
<1>3. [q \in Refunds |-> Entry(state'[q])] = [[q \in Refunds |-> Entry(state[q])] EXCEPT ![r] = "promised"]
  BY <1>1 DEF Entry, OrderlyInv, IInv, Shape
<1> QED  BY <1>1, <1>2, <1>3 DEF Ledger!Promise, Entry

\* A commit pays, refuses, or changes nothing.
LEMMA CommitIsEntry ==
    ASSUME OrderlyInv, NEW r \in Refunds, CommitSettlement(r)
    PROVE  Ledger!Pay(r) \/ Ledger!Refuse(r) \/ UNCHANGED Ledger!vars
<1>1. /\ state[r] = "PENDING"
      /\ settling[r] \in Status
      /\ state' = [state EXCEPT ![r] = settling[r]]
      /\ cents' = cents
      /\ refunded' = PaidWith(r, settling[r])
  BY DEF CommitSettlement, OrderlyInv, IInv, Shape, SettlementInvariant, Reported, SummedRight
<1>2. /\ PaidBack \in SUBSET Refunds /\ r \notin PaidBack /\ r \in Pending
      /\ PaidBack \cup {r} \in SUBSET Refunds
      /\ PaidBack \cup {r} \subseteq PaidBack \cup Pending
      /\ PaidBack \cup Pending \in SUBSET Refunds
  BY <1>1 DEF PaidBack, Pending, InState
<1>3. \A q \in Refunds : cents[q] \in 0 .. Amount
  BY DEF OrderlyInv, MoneyInv
<1>4. refunded = SumOf(PaidBack)
  BY DEF OrderlyInv, TotalIsSum, PaidBack
<1>5. [q \in Refunds |-> Entry(state'[q])] =
        [[q \in Refunds |-> Entry(state[q])] EXCEPT ![r] = Entry(settling[r])]
  BY <1>1 DEF OrderlyInv, IInv, Shape
<1>6. CASE settling[r] = "SUCCEEDED"
  <2>1. refunded' = SumOf(PaidBack \cup {r})
    BY <1>1, <1>6 DEF PaidWith, PaidBack
  <2>2. SumOf(PaidBack \cup {r}) = SumOf(PaidBack) + cents[r]
    BY <1>2, <1>3, OneMore DEF SumOf
  <2>3. SumOf(PaidBack \cup {r}) <= Amount
    <3>1. SumOf(PaidBack \cup {r}) <= SumOf(PaidBack \cup Pending)
      BY <1>2, <1>3, SumsGrow DEF SumOf
    <3>2. SumOf(PaidBack \cup {r}) \in Nat /\ SumOf(PaidBack \cup Pending) \in Nat
      BY <1>2, <1>3, SumIsNumber DEF SumOf
    <3>3. SumOf(PaidBack \cup Pending) <= Amount
      BY GivenAway DEF OrderlyInv
    <3> QED  BY <3>1, <3>2, <3>3, AmountAssumption
  <2>4. Entry(state[r]) = "promised" /\ Entry(settling[r]) = "paid"
    BY <1>1, <1>6 DEF Entry
  <2>5. refunded' = refunded + cents[r] /\ refunded + cents[r] <= Amount
    BY <1>4, <2>1, <2>2, <2>3
  <2>6. Ledger!Pay(r)
    BY <1>1, <1>5, <2>4, <2>5 DEF Ledger!Pay, Entry
  <2> QED  BY <2>6
<1>7. CASE settling[r] # "SUCCEEDED"
  <2>1. refunded' = refunded
    BY <1>1, <1>4, <1>7 DEF PaidWith, PaidBack
  <2>2. CASE settling[r] = "PENDING"
    <3>1. state' = state
      BY <1>1, <2>2 DEF OrderlyInv, IInv, Shape
    <3> QED  BY <1>1, <2>1, <3>1 DEF Ledger!vars
  <2>3. CASE settling[r] \in {"FAILED", "CANCELED"}
    <3>1. Entry(state[r]) = "promised" /\ Entry(settling[r]) = "refused"
      BY <1>1, <2>3 DEF Entry
    <3>2. Ledger!Refuse(r)
      BY <1>1, <1>5, <2>1, <3>1 DEF Ledger!Refuse, Entry
    <3> QED  BY <3>2
  <2> QED  BY <1>1, <1>7, <2>2, <2>3 DEF Status, Settled
<1> QED  BY <1>6, <1>7

\* Every step of the refunds is one of the ledger, or none.
LEMMA StepOfTheLedger ==
    ASSUME OrderlyInv, [Next]_vars
    PROVE  [Ledger!Next]_(Ledger!vars)
<1>1. ASSUME UNCHANGED <<state, cents, refunded>> PROVE UNCHANGED Ledger!vars
  BY <1>1 DEF Ledger!vars
<1>2. ASSUME NEW r \in Refunds, Decide(r) PROVE Ledger!Next
  <2>1. PICK a \in Int : Reserve(r, a)
    BY <1>2, WhatIsReserved DEF OrderlyInv
  <2> QED  BY <2>1, ReserveIsPromise DEF Ledger!Next
<1>3. ASSUME NEW r \in Refunds, Job(r) \/ Outside(r) PROVE UNCHANGED <<state, cents, refunded>>
  BY <1>3 DEF Job, Execute, CreateRefund, CallFails, Outside, Resolve, ReportLateFailure, rows
<1>4. ASSUME NEW r \in Refunds, Settle(r), ~CommitSettlement(r)
      PROVE  UNCHANGED <<state, cents, refunded>>
  BY <1>4 DEF Settle, Deliver, LoseAnswer, BeginSettlement, AbortSettlement, rows
<1>5. ASSUME NEW r \in Refunds, CommitSettlement(r) PROVE Ledger!Next \/ UNCHANGED Ledger!vars
  BY <1>5, CommitIsEntry DEF Ledger!Next
<1>6. CASE UNCHANGED vars
  BY <1>1, <1>6 DEF vars, rows
<1> QED  BY <1>1, <1>2, <1>3, <1>4, <1>5, <1>6 DEF Next

\* While settlements of one payment do not overlap, the payment's refunds are a
\* ledger: each is promised once and ends as paid or refused, and the total moves
\* by exactly the refund that ends as paid.
THEOREM RefundsAreALedger == ASSUME ~Overlapping PROVE Spec => RefinesLedger
<1>1. Init => Ledger!Init
  BY DEF Init, Ledger!Init
<1>2. OrderlyInv /\ [Next]_vars => [Ledger!Next]_(Ledger!vars)
  BY StepOfTheLedger
<1> QED  BY <1>1, <1>2, Orderly, PTL DEF Spec, RefinesLedger, Ledger!Spec

-----------------------------------------------------------------------------
(* Manage: what is inductive                                               *)

ManageSpec == ManageInit /\ [][ManageNext]_manage

Purposes == {"desk", "cancellation"}
Standings == {"none", "CONFIRMED", "CANCELED_BY_CUSTOMER", "CANCELED_BY_BUSINESS"}

\* The books of a booking
BooksTyped ==
    /\ hour \in Nat /\ terms \in Terms /\ cash \in Int
    /\ standing \in [Copies -> Standings]
    /\ link \in [Copies -> {"none", "live", "revoked"}]
    /\ refund \in [Purposes -> [amount : 0..Price, status : {"none", "PENDING", "FAILED"}]]

\* The card never gives back more than it took
CardCovers == reserved <= Price

\* One row stands at a time, and while it does nothing was cancelled
StandingIsUncancelled ==
    /\ standing[Original] = "CONFIRMED" => standing[Replacement] = "none"
    /\ \A r \in Copies : standing[r] = "CONFIRMED" =>
          refund["cancellation"] = NoRefund /\ comingBack = -1

AnnouncedIsReserved == comingBack # -1 => refund["cancellation"].amount = comingBack

\* An open request carries no decision yet; one approved untouched retains its suggestion
PetitionsDecided ==
    /\ DOMAIN petition = Petitions
    /\ \A p \in Petitions :
          LET q == petition[p] IN
          /\ q \in [row : Copies, state : {"none", "PENDING", "APPROVED", "REJECTED"},
                    suggested : {q.suggested}, retained : {q.retained},
                    untouched : {q.untouched}]
          /\ q.state = "PENDING" => ~q.untouched
          /\ q.state = "APPROVED" /\ q.untouched => q.retained = q.suggested

\* A page that was read
PageOK(w) ==
    /\ w # Absent /\ w.row \in Copies /\ w.terms \in Terms
    /\ w.freeUntil = Begins[w.row] - w.terms.hours
    /\ w.feeApplies => w.retained = retainedFor(w.paid, w.terms)

\* An answer to a cancellation that was heeded
HeededOK(x) ==
    /\ x # Absent /\ x.row \in Copies
    /\ x.code = "REQUESTED" <=> x.hour > Begins[x.row] - x.terms.hours
    /\ x.code = "REQUESTED" => x.amount = retainedFor(x.paid, x.terms)

\* A request before it has read anything, one that has read what it will be decided by,
\* and one that is answered
Underway(x) == x \in [at : {"sent", "resolved"}, op : {"view", "cancel"}, row : Copies]

Weighed(x) ==
    /\ x.at \in {"asking", "cancelling"} /\ x.op = "cancel" /\ x.row \in Copies
    /\ x.paid \in Int /\ x.terms \in Terms /\ x.hour \in Nat
    /\ x.at = "asking" <=> Begins[x.row] - x.hour < x.terms.hours
    /\ x.at = "asking" => x.retained = retainedFor(x.paid, x.terms)

Heeded == {"CANCELED", "REQUESTED"}

AnsweredOK(x) ==
    /\ x.at = "answered" /\ x.op \in {"view", "cancel"}
    /\ x.op = "view" /\ x.code = "ok" => PageOK(x.view)
    /\ x.op = "cancel" /\ x.code \in Heeded => HeededOK(x)

VisitsOK ==
    /\ DOMAIN visit = Visits
    /\ \A v \in Visits : visit[v] # Absent =>
          Underway(visit[v]) \/ Weighed(visit[v]) \/ AnsweredOK(visit[v])

\* The row a request is about, or an answer
Concerns(x, r) ==
    /\ x.at # "answered" => x.row = r
    /\ x.at = "answered" /\ x.op = "view" /\ x.code = "ok" => x.view.row = r
    /\ x.at = "answered" /\ x.op = "cancel" /\ x.code \in Heeded => x.row = r

\* What a tab waits for is about the row it shows
TabOK ==
    /\ tab \in [link : Copies, view : {tab.view}, seen : {tab.seen}, outcome : {tab.outcome},
                loads : Visits \cup {Absent}, asks : Visits \cup {Absent}]
    /\ tab.view # Absent => PageOK(tab.view) /\ tab.view.row = tab.link
    /\ tab.asks # Absent =>
          /\ visit[tab.asks] # Absent /\ visit[tab.asks].op = "cancel"
          /\ Concerns(visit[tab.asks], tab.link)
          /\ PageOK(tab.seen) /\ tab.seen.row = tab.link
    /\ tab.loads # Absent =>
          /\ visit[tab.loads] # Absent /\ visit[tab.loads].op = "view"
          /\ Concerns(visit[tab.loads], tab.link)
    /\ tab.outcome # Absent =>
          /\ HeededOK(tab.outcome) /\ PageOK(tab.seen) /\ tab.outcome.row = tab.seen.row

BooksInv ==
    /\ BooksTyped /\ CardCovers /\ StandingIsUncancelled /\ AnnouncedIsReserved
    /\ PetitionsDecided

-----------------------------------------------------------------------------
(* The books                                                               *)

\* What the refund rows have promised, row by row
Promised(f) ==
    (IF f["desk"].status = "PENDING" THEN f["desk"].amount ELSE 0)
    + (IF f["cancellation"].status = "PENDING" THEN f["cancellation"].amount ELSE 0)

\* A row that has not failed is promised, whoever asked for it
LEMMA ReservedIsPromised ==
    ASSUME DOMAIN refund = Purposes
    PROVE  reserved = Promised(refund)
  BY DEF reserved, Of, committed, Promised, Purposes

\* The same of the rows a step leaves
LEMMA PromisedAfter ==
    ASSUME DOMAIN refund' = Purposes
    PROVE  reserved' = Promised(refund')
  BY DEF reserved, Of, committed, Promised, Purposes

\* What is promised is an amount
LEMMA PromisedIsAmount ==
    ASSUME BooksTyped
    PROVE  reserved \in Nat /\ refundable = Price - reserved /\ Price \in Nat
<1>1. Price \in Nat
  BY ManageAssumption
<1>2. /\ refund["desk"].amount \in Nat /\ refund["cancellation"].amount \in Nat
      /\ DOMAIN refund = Purposes
  BY <1>1 DEF BooksTyped, Purposes
<1>3. reserved = Promised(refund)
  BY <1>2, ReservedIsPromised
<1> QED  BY <1>1, <1>2, <1>3 DEF Promised, refundable

\* What is missing towards a target is between nothing and what the card has left
LEMMA MissingIsCovered ==
    ASSUME BooksTyped, CardCovers, NEW target \in Int
    PROVE  additionalFor(target) \in Int /\ 0 <= additionalFor(target)
           /\ additionalFor(target) <= refundable
<1>1. reserved \in Nat /\ refundable = Price - reserved /\ Price \in Nat
  BY PromisedIsAmount
<1>2. reserved <= Price
  BY DEF CardCovers
<1> QED  BY <1>1, <1>2 DEF additionalFor, Least, Most

\* Before a cancellation its refund row is blank: reserving adds exactly the amount
LEMMA ReservingAdds ==
    ASSUME BooksTyped, CardCovers, refund["cancellation"] = NoRefund,
           NEW a \in Int, 0 <= a, a <= refundable, reserveRefund(a)
    PROVE  /\ refund' \in [Purposes -> [amount : 0..Price, status : {"none", "PENDING", "FAILED"}]]
           /\ reserved' = reserved + a
           /\ refund'["cancellation"].amount = a
<1>1. reserved \in Nat /\ refundable = Price - reserved /\ Price \in Nat
  BY PromisedIsAmount
<1>2. a \in 0..Price
  BY <1>1
<1>3. refund \in [Purposes -> [amount : 0..Price, status : {"none", "PENDING", "FAILED"}]]
  BY DEF BooksTyped
<1>4. reserved = Promised(refund)
  BY <1>3, ReservedIsPromised
<1>5. refund["desk"].amount \in Nat
  BY <1>1, <1>3 DEF Purposes
<1>6. refund["cancellation"].status = "none" /\ refund["cancellation"].amount = 0
  BY DEF NoRefund
<1>7. CASE a > 0
  <2>1. refund' = [refund EXCEPT !["cancellation"] = [amount |-> a, status |-> "PENDING"]]
    BY <1>7 DEF reserveRefund
  <2>2. refund' \in [Purposes -> [amount : 0..Price, status : {"none", "PENDING", "FAILED"}]]
    BY <1>2, <1>3, <2>1 DEF Purposes
  <2>3. /\ refund'["desk"] = refund["desk"]
        /\ refund'["cancellation"] = [amount |-> a, status |-> "PENDING"]
    BY <1>3, <2>1 DEF Purposes
  <2>4. reserved' = Promised(refund')
    BY <2>2, PromisedAfter
  <2>5. Promised(refund') = Promised(refund) + a
    BY <1>5, <1>6, <2>3 DEF Promised
  <2> QED  BY <1>4, <2>2, <2>3, <2>4, <2>5
<1>8. CASE ~(a > 0)
  <2>1. a = 0 /\ refund' = refund
    BY <1>8 DEF reserveRefund
  <2>2. reserved' = Promised(refund')
    BY <1>3, <2>1, PromisedAfter
  <2> QED  BY <1>1, <1>3, <1>4, <1>6, <2>1, <2>2
<1> QED  BY <1>7, <1>8

\* Steps that leave rows, links, money given back and requests alone
LEMMA BooksAtRest ==
    ASSUME BooksInv, UNCHANGED <<standing, link, comingBack, refund, petition>>,
           hour' \in Nat, terms' \in Terms, cash' \in Int
    PROVE  BooksInv'
<1>1. BooksTyped'
  BY DEF BooksInv, BooksTyped
<1>2. CardCovers'
  BY DEF BooksInv, CardCovers, reserved, Of, committed
<1>3. StandingIsUncancelled' /\ AnnouncedIsReserved' /\ PetitionsDecided'
  BY DEF BooksInv, StandingIsUncancelled, AnnouncedIsReserved, PetitionsDecided
<1> QED  BY <1>1, <1>2, <1>3 DEF BooksInv

\* A standing row is cancelled and an amount the card covers goes back.  It is the only
\* standing row, so none is left
LEMMA Cancelling ==
    ASSUME BooksInv, NEW r \in Copies, standing[r] = "CONFIRMED",
           NEW to \in {"CANCELED_BY_CUSTOMER", "CANCELED_BY_BUSINESS"},
           standing' = [standing EXCEPT ![r] = to],
           NEW a \in Int, 0 <= a, a <= refundable, reserveRefund(a),
           comingBack' \in {comingBack, a}, UNCHANGED <<link, world>>
    PROVE  BooksTyped' /\ CardCovers' /\ StandingIsUncancelled' /\ AnnouncedIsReserved'
<1>1. BooksTyped /\ CardCovers
  BY DEF BooksInv
<1>2. refund["cancellation"] = NoRefund /\ comingBack = -1
  BY DEF BooksInv, StandingIsUncancelled
<1>3. /\ refund' \in [Purposes -> [amount : 0..Price, status : {"none", "PENDING", "FAILED"}]]
      /\ reserved' = reserved + a
      /\ refund'["cancellation"].amount = a
  BY <1>1, <1>2, ReservingAdds
<1>4. standing' \in [Copies -> Standings]
  BY <1>1 DEF BooksTyped, Standings
<1>5. BooksTyped'
  BY <1>1, <1>3, <1>4 DEF BooksTyped, world
<1>6. CardCovers'
  BY <1>1, <1>3, PromisedIsAmount DEF CardCovers
<1>7. ASSUME NEW q \in Copies PROVE standing'[q] # "CONFIRMED"
  BY <1>1 DEF BooksInv, BooksTyped, StandingIsUncancelled, Copies
<1>8. StandingIsUncancelled'
  BY <1>7 DEF StandingIsUncancelled, Copies
<1>9. AnnouncedIsReserved'
  BY <1>2, <1>3 DEF AnnouncedIsReserved
<1> QED  BY <1>5, <1>6, <1>8, <1>9
-----------------------------------------------------------------------------
(* Each operation on the books                                             *)

\* A request that was asked for is open and nobody has touched it
LEMMA OpenRequestKeepsBooks ==
    ASSUME BooksInv, NEW v \in Visits, OpenRequest(v), visit[v].row \in Copies
    PROVE  BooksInv'
<1>1. UNCHANGED <<standing, link, comingBack, refund, hour, terms, cash>>
  BY DEF OpenRequest, world
<1>2. BooksTyped' /\ CardCovers' /\ StandingIsUncancelled' /\ AnnouncedIsReserved'
  BY <1>1 DEF BooksInv, BooksTyped, CardCovers, reserved, Of, committed,
              StandingIsUncancelled, AnnouncedIsReserved
<1>3. PetitionsDecided'
  <2>1. CASE UNCHANGED petition
    BY <2>1 DEF BooksInv, PetitionsDecided
  <2>2. CASE ~UNCHANGED petition
    <3>1. PICK p \in Petitions :
             petition' = [petition EXCEPT ![p] =
                [NoPetition EXCEPT !.row = visit[v].row, !.state = "PENDING",
                                   !.suggested = visit[v].retained]]
      BY <2>2 DEF OpenRequest
    <3>2. PICK f : f = FALSE
      OBVIOUS
    <3>3. PICK w : /\ petition' = [petition EXCEPT ![p] = w]
                   /\ w \in [row : Copies, state : {"PENDING"}, suggested : {visit[v].retained},
                             retained : {0}, untouched : {f}]
      <4>1. NoPetition = [row |-> Original, state |-> "none", suggested |-> 0, retained |-> 0,
                          untouched |-> f]
        BY <3>2, Zenon DEF NoPetition
      <4>2. [NoPetition EXCEPT !.row = visit[v].row, !.state = "PENDING",
                               !.suggested = visit[v].retained]
            \in [row : Copies, state : {"PENDING"}, suggested : {visit[v].retained},
                 retained : {0}, untouched : {f}]
        BY <4>1
      <4> QED  BY <3>1, <4>2, Zenon
    <3>4. ~f
      BY <3>2
    <3>5. ASSUME NEW q \in Petitions, q # p PROVE petition'[q] = petition[q]
      BY <3>3, <3>5 DEF BooksInv, PetitionsDecided
    <3>6. petition'[p] = w
      BY <3>3 DEF BooksInv, PetitionsDecided
    <3> QED  BY <3>3, <3>4, <3>5, <3>6 DEF BooksInv, PetitionsDecided
  <2> QED  BY <2>1, <2>2
<1> QED  BY <1>2, <1>3 DEF BooksInv

\* Nobody decides about a cancellation in time: the row goes, everything paid goes back
LEMMA CancelImmediatelyKeepsBooks ==
    ASSUME BooksInv, NEW v \in Visits, CancelImmediately(v), Weighed(visit[v])
    PROVE  BooksInv'
<1>1. UNCHANGED <<link, petition, world>>
  BY DEF CancelImmediately
<1>2. BooksTyped /\ CardCovers
  BY DEF BooksInv
<1>3. visit[v].row \in Copies /\ visit[v].paid \in Int
  BY DEF Weighed
<1>4. CASE standing[visit[v].row] = "CONFIRMED"
  <2> DEFINE r == visit[v].row
             a == additionalFor(visit[v].paid)
  <2>1. /\ standing' = [standing EXCEPT ![r] = "CANCELED_BY_CUSTOMER"]
        /\ reserveRefund(a)
        /\ comingBack' = a
    BY <1>4 DEF CancelImmediately
  <2>2. a \in Int /\ 0 <= a /\ a <= refundable
    BY <1>2, <1>3, MissingIsCovered
  <2>3. r \in Copies /\ standing[r] = "CONFIRMED"
    BY <1>3, <1>4
  <2> HIDE DEF a, r
  <2>4. BooksTyped' /\ CardCovers' /\ StandingIsUncancelled' /\ AnnouncedIsReserved'
    BY <1>1, <2>1, <2>2, <2>3, Cancelling
  <2>5. PetitionsDecided'
    BY <1>1 DEF BooksInv, PetitionsDecided
  <2> QED  BY <2>4, <2>5 DEF BooksInv
<1>5. CASE standing[visit[v].row] # "CONFIRMED"
  <2>1. UNCHANGED <<standing, refund, comingBack>>
    BY <1>5 DEF CancelImmediately
  <2> QED  BY <1>1, <1>2, <2>1, BooksAtRest DEF BooksTyped, world
<1> QED  BY <1>4, <1>5

\* What is retained is an amount up to what was paid
LEMMA RetainedIsAmount ==
    ASSUME BooksTyped, NEW p \in Petitions, NEW typed \in Int, validateRetained(p, typed)
    PROVE  receivedFrom \in Int /\ RetainedOf(p, typed) \in Int
<1>1. receivedFrom \in Int
  BY PromisedIsAmount DEF BooksTyped, receivedFrom
<1> QED  BY <1>1 DEF validateRetained

\* The office's decision.  Approved, it keeps what was typed, or what was suggested
LEMMA DecideCancellationKeepsBooks ==
    ASSUME BooksInv, NEW p \in Petitions, NEW typed \in Int, DecideCancellation(p, typed)
    PROVE  BooksInv'
<1> DEFINE r == petition[p].row
           kept == RetainedOf(p, typed)
           a == additionalFor(receivedFrom - kept)
<1>1. UNCHANGED <<link, world>> /\ petition[p].state = "PENDING"
  BY DEF DecideCancellation
<1>2. BooksTyped /\ CardCovers /\ PetitionsDecided
  BY DEF BooksInv
<1>3. r \in Copies /\ ~petition[p].untouched
  BY <1>1, <1>2 DEF PetitionsDecided
<1>4. CASE /\ standing[r] = "CONFIRMED" /\ validateRetained(p, typed)
           /\ standing' = [standing EXCEPT ![r] = "CANCELED_BY_CUSTOMER"]
           /\ reserveRefund(a)
           /\ comingBack' = a
           /\ petition' = [petition EXCEPT ![p].state = "APPROVED", ![p].retained = kept,
                                           ![p].untouched = (typed = -1)]
  <2>1. receivedFrom \in Int /\ kept \in Int
    BY <1>2, <1>4, RetainedIsAmount
  <2>2. receivedFrom - kept \in Int
    BY <2>1
  <2>3. a \in Int /\ 0 <= a /\ a <= refundable
    BY <1>2, <2>2, MissingIsCovered
  <2>4. PICK u \in BOOLEAN : u = (typed = -1)
    OBVIOUS
  <2>5. petition' = [petition EXCEPT ![p].state = "APPROVED", ![p].retained = kept,
                                    ![p].untouched = u]
    BY <1>4, <2>4, Zenon
  <2>6. u => kept = petition[p].suggested
    BY <2>4 DEF RetainedOf
  <2> HIDE DEF a, kept, r
  <2>7. BooksTyped' /\ CardCovers' /\ StandingIsUncancelled' /\ AnnouncedIsReserved'
    BY <1>1, <1>3, <1>4, <2>3, Cancelling
  <2>8. PetitionsDecided'
    BY <1>2, <2>5, <2>6 DEF PetitionsDecided
  <2> QED  BY <2>7, <2>8 DEF BooksInv
<1>5. CASE /\ petition' = [petition EXCEPT ![p].state = "REJECTED"]
           /\ UNCHANGED <<standing, refund, comingBack>>
  <2>1. BooksTyped' /\ CardCovers' /\ StandingIsUncancelled' /\ AnnouncedIsReserved'
    BY <1>1, <1>5 DEF BooksInv, BooksTyped, CardCovers, reserved, Of, committed,
                      StandingIsUncancelled, AnnouncedIsReserved, world
  <2>2. PetitionsDecided'
    BY <1>2, <1>5 DEF PetitionsDecided
  <2> QED  BY <2>1, <2>2 DEF BooksInv
<1> QED  BY <1>4, <1>5 DEF DecideCancellation

\* The business cancels, on top of what has gone back; its open request is settled with it
LEMMA CancelByBusinessKeepsBooks ==
    ASSUME BooksInv, NEW r \in Copies, NEW amount \in 0..Price, cancelByBusiness(r, amount)
    PROVE  BooksInv'
<1>1. BooksTyped' /\ CardCovers' /\ StandingIsUncancelled' /\ AnnouncedIsReserved'
  <2>1. amount \in Int /\ 0 <= amount
    BY PromisedIsAmount DEF BooksInv
  <2> QED  BY <2>1, Cancelling DEF cancelByBusiness
<1>2. PetitionsDecided'
  <2>1. petition' = [p \in Petitions |->
           IF p \in OpenFor(r) THEN [petition[p] EXCEPT !.state = "APPROVED"] ELSE petition[p]]
    BY DEF cancelByBusiness
  <2>2. ASSUME NEW p \in Petitions
        PROVE  petition'[p] = IF p \in OpenFor(r) THEN [petition[p] EXCEPT !.state = "APPROVED"]
                                                  ELSE petition[p]
    BY <2>1
  <2>3. ASSUME NEW p \in OpenFor(r) PROVE petition[p].state = "PENDING" /\ p \in Petitions
    BY DEF OpenFor
  <2> QED  BY <2>1, <2>2, <2>3 DEF BooksInv, PetitionsDecided
<1> QED  BY <1>1, <1>2 DEF BooksInv

\* A move leaves the paid row and lets the new one stand
LEMMA RotateKeepsBooks == ASSUME BooksInv, Rotate PROVE BooksInv'
<1>1. /\ standing[Original] = "CONFIRMED"
      /\ standing' = [standing EXCEPT ![Original] = "CANCELED_BY_BUSINESS", ![Replacement] = "CONFIRMED"]
      /\ link' = [link EXCEPT ![Original] = "revoked", ![Replacement] = "live"]
      /\ UNCHANGED <<petition, comingBack, world, refund>>
  BY DEF Rotate
<1>2. refund["cancellation"] = NoRefund /\ comingBack = -1
  BY <1>1 DEF BooksInv, StandingIsUncancelled, Copies
<1>3. Original # Replacement
  BY ManageAssumption
<1>4. BooksTyped'
  BY <1>1 DEF BooksInv, BooksTyped, world, Standings, Copies
<1>5. standing'[Original] # "CONFIRMED"
  BY <1>1, <1>3 DEF BooksInv, BooksTyped, Copies
<1>6. StandingIsUncancelled'
  BY <1>1, <1>2, <1>5 DEF StandingIsUncancelled, NoRefund
<1>7. CardCovers' /\ AnnouncedIsReserved' /\ PetitionsDecided'
  BY <1>1 DEF BooksInv, CardCovers, reserved, Of, committed, AnnouncedIsReserved, PetitionsDecided
<1> QED  BY <1>4, <1>6, <1>7 DEF BooksInv

\* Cash, an edit of the policy, or a refund from the desk out of what the card has left
LEMMA ChangeKeepsBooks == ASSUME BooksInv, Change PROVE BooksInv'
<1>1. UNCHANGED <<hour, standing, link, petition, comingBack>>
  BY DEF Change, records
<1>2. BooksTyped /\ CardCovers
  BY DEF BooksInv
<1>3. CASE UNCHANGED refund
  <2>1. terms' \in Terms /\ cash' \in Int
    BY <1>2, <1>3, ManageAssumption DEF Change, BooksTyped
  <2> QED  BY <1>1, <1>2, <1>3, <2>1, BooksAtRest DEF BooksTyped
<1>4. CASE ~UNCHANGED refund
  <2>1. PICK a \in 1..refundable :
           refund' = [refund EXCEPT !["desk"] = [amount |-> a, status |-> "PENDING"]]
    BY <1>4 DEF Change
  <2>2. UNCHANGED <<cash, terms>> /\ refund["desk"].status = "none"
    BY <1>4 DEF Change
  <2>3. reserved \in Nat /\ refundable = Price - reserved /\ Price \in Nat
    BY <1>2, PromisedIsAmount
  <2>4. a \in 0..Price /\ a <= Price - reserved
    BY <2>1, <2>3
  <2>5. refund \in [Purposes -> [amount : 0..Price, status : {"none", "PENDING", "FAILED"}]]
    BY <1>2 DEF BooksTyped
  <2>6. refund' \in [Purposes -> [amount : 0..Price, status : {"none", "PENDING", "FAILED"}]]
    BY <2>1, <2>4, <2>5 DEF Purposes
  <2>7. /\ refund'["desk"] = [amount |-> a, status |-> "PENDING"]
        /\ refund'["cancellation"] = refund["cancellation"]
    BY <2>1, <2>5 DEF Purposes
  <2>8. reserved = Promised(refund) /\ reserved' = Promised(refund')
    BY <2>5, <2>6, ReservedIsPromised, PromisedAfter
  <2>9. refund["cancellation"].amount \in Nat
    BY <2>3, <2>5 DEF Purposes
  <2>10. reserved' <= Price
    BY <2>2, <2>3, <2>4, <2>7, <2>8, <2>9 DEF Promised
  <2>11. BooksTyped' /\ CardCovers'
    BY <1>1, <1>2, <2>2, <2>6, <2>10 DEF BooksTyped, CardCovers
  <2>12. StandingIsUncancelled' /\ AnnouncedIsReserved' /\ PetitionsDecided'
    BY <1>1, <2>7 DEF BooksInv, StandingIsUncancelled, AnnouncedIsReserved, PetitionsDecided
  <2> QED  BY <2>11, <2>12 DEF BooksInv
<1> QED  BY <1>3, <1>4

\* A refund that fails is given back to the card; what was announced stays announced
LEMMA RefundFailsKeepsBooks ==
    ASSUME BooksInv, NEW k \in DOMAIN refund, RefundFails(k)
    PROVE  BooksInv'
<1>1. /\ refund[k].status = "PENDING"
      /\ refund' = [refund EXCEPT ![k].status = "FAILED"]
      /\ UNCHANGED <<standing, link, petition, comingBack, hour, terms, cash>>
  BY DEF RefundFails, records, world
<1>2. refund \in [Purposes -> [amount : 0..Price, status : {"none", "PENDING", "FAILED"}]]
  BY DEF BooksInv, BooksTyped
<1>3. k \in Purposes
  BY <1>2
<1>4. refund' \in [Purposes -> [amount : 0..Price, status : {"none", "PENDING", "FAILED"}]]
  BY <1>1, <1>2, <1>3
<1>5. /\ refund'[k].status = "FAILED" /\ refund'[k].amount = refund[k].amount
      /\ \A j \in Purposes : j # k => refund'[j] = refund[j]
  BY <1>1, <1>2, <1>3
<1>6. BooksTyped'
  BY <1>1, <1>4 DEF BooksInv, BooksTyped
<1>7. CardCovers'
  <2>1. reserved = Promised(refund) /\ reserved' = Promised(refund')
    BY <1>2, <1>4, ReservedIsPromised, PromisedAfter
  <2>2. reserved <= Price /\ Price \in Nat
    BY PromisedIsAmount DEF BooksInv, CardCovers
  <2>3. refund["desk"].amount \in Nat /\ refund["cancellation"].amount \in Nat
    BY <1>2, <2>2 DEF Purposes
  <2>4. Promised(refund') <= Promised(refund)
    <3>1. CASE k = "desk"
      BY <1>1, <1>5, <2>3, <3>1 DEF Promised, Purposes
    <3>2. CASE k = "cancellation"
      BY <1>1, <1>5, <2>3, <3>2 DEF Promised, Purposes
    <3> QED  BY <1>3, <3>1, <3>2 DEF Purposes
  <2>5. Promised(refund) \in Int /\ Promised(refund') \in Int
    BY <1>4, <2>2, <2>3 DEF Promised, Purposes
  <2> QED  BY <2>1, <2>2, <2>4, <2>5 DEF CardCovers
<1>8. StandingIsUncancelled'
  <2>1. CASE k = "cancellation"
    <3>1. ASSUME NEW r \in Copies PROVE standing[r] # "CONFIRMED"
      BY <1>1, <2>1 DEF BooksInv, StandingIsUncancelled, NoRefund
    <3> QED  BY <1>1, <3>1 DEF StandingIsUncancelled, Copies
  <2>2. CASE k # "cancellation"
    BY <1>1, <1>5, <2>2 DEF BooksInv, StandingIsUncancelled, Purposes
  <2> QED  BY <2>1, <2>2
<1>9. AnnouncedIsReserved' /\ PetitionsDecided'
  <2>1. refund'["cancellation"].amount = refund["cancellation"].amount
    BY <1>3, <1>5 DEF Purposes
  <2> QED  BY <1>1, <2>1 DEF BooksInv, AnnouncedIsReserved, PetitionsDecided
<1> QED  BY <1>6, <1>7, <1>8, <1>9 DEF BooksInv
-----------------------------------------------------------------------------
(* The customer's requests, and the tab that waits for them                *)

RequestOK(x) == Underway(x) \/ Weighed(x) \/ AnsweredOK(x)

\* A request at a step of its own is there, and is what that step left
LEMMA AtStep ==
    ASSUME VisitsOK, NEW v \in Visits, visit[v].at # "none"
    PROVE  /\ visit[v] # Absent
           /\ visit[v].at \in {"sent", "resolved"} => Underway(visit[v])
           /\ visit[v].at \in {"asking", "cancelling"} => Weighed(visit[v])
           /\ visit[v].at = "answered" => AnsweredOK(visit[v])
           /\ visit[v].op \in {"view", "cancel"}
<1>1. visit[v] # Absent
  BY DEF Absent
<1>2. Underway(visit[v]) \/ Weighed(visit[v]) \/ AnsweredOK(visit[v])
  BY <1>1 DEF VisitsOK
<1>3. Underway(visit[v]) => visit[v].at \in {"sent", "resolved"} /\ visit[v].op \in {"view", "cancel"}
  BY DEF Underway
<1>4. Weighed(visit[v]) => visit[v].at \in {"asking", "cancelling"} /\ visit[v].op \in {"view", "cancel"}
  BY DEF Weighed
<1>5. AnsweredOK(visit[v]) => visit[v].at = "answered" /\ visit[v].op \in {"view", "cancel"}
  BY DEF AnsweredOK
<1> QED  BY <1>1, <1>2, <1>3, <1>4, <1>5

\* A step of the server answers the same question about the same row
Serves(v) ==
    \E y : /\ visit' = [visit EXCEPT ![v] = y]
          /\ y # Absent /\ RequestOK(y) /\ y.op = visit[v].op
          /\ \A r \in Copies : Concerns(visit[v], r) => Concerns(y, r)

\* A refusal carries nothing that anybody will rely on
LEMMA DenialServes ==
    ASSUME VisitsOK, NEW v \in Visits, NEW code, Denied(v, code), code \notin Heeded \cup {"ok"},
           visit[v].at # "none"
    PROVE  Serves(v)
<1> DEFINE y == [at |-> "answered", op |-> visit[v].op, code |-> code]
<1>1. visit' = [visit EXCEPT ![v] = y]
  BY DEF Denied, To
<1>2. visit[v].op \in {"view", "cancel"}
  BY AtStep
<1>3. y.at = "answered" /\ y.op = visit[v].op /\ y.code = code
  OBVIOUS
<1> HIDE DEF y
<1>4. y # Absent
  BY <1>3 DEF Absent
<1>5. AnsweredOK(y)
  BY <1>2, <1>3 DEF AnsweredOK, Heeded
<1>6. ASSUME NEW r \in Copies PROVE Concerns(y, r)
  BY <1>3 DEF Concerns, Heeded
<1> QED  BY <1>1, <1>3, <1>4, <1>5, <1>6 DEF Serves, RequestOK

\* The guard lets a request through with the row of its link
LEMMA GuardServes ==
    ASSUME VisitsOK, NEW v \in Visits, ManagementTokenGuard(v)
    PROVE  Serves(v)
<1>1. visit[v].at = "sent"
  BY DEF ManagementTokenGuard
<1>2. Underway(visit[v])
  BY <1>1, AtStep
<1>3. CASE To(v, [visit[v] EXCEPT !.at = "resolved"])
  <2> DEFINE y == [visit[v] EXCEPT !.at = "resolved"]
  <2>1. visit' = [visit EXCEPT ![v] = y]
    BY <1>3 DEF To
  <2>2. Underway(y) /\ y.at = "resolved" /\ y.op = visit[v].op /\ y.row = visit[v].row
    BY <1>2 DEF Underway
  <2> HIDE DEF y
  <2>3. y # Absent
    BY <2>2 DEF Absent
  <2>4. ASSUME NEW r \in Copies, Concerns(visit[v], r) PROVE Concerns(y, r)
    BY <1>1, <2>2, <2>4 DEF Concerns
  <2> QED  BY <2>1, <2>2, <2>3, <2>4 DEF Serves, RequestOK
<1>4. CASE Denied(v, "UNAUTHENTICATED")
  BY <1>1, <1>4, DenialServes DEF Heeded
<1> QED  BY <1>3, <1>4 DEF ManagementTokenGuard

\* A page says of its row what the policy says at that hour
LEMMA ViewServes ==
    ASSUME VisitsOK, BooksTyped, NEW v \in Visits, View(v)
    PROVE  Serves(v)
<1> DEFINE q == visit[v].row
           w == ViewOf(q)
           y == [at |-> "answered", op |-> "view", code |-> "ok", view |-> w]
<1>1. visit[v].at = "resolved" /\ visit[v].op = "view"
  BY DEF View
<1>2. q \in Copies
  BY <1>1, AtStep DEF Underway
<1>3. visit' = [visit EXCEPT ![v] = y]
  BY DEF View, To
<1>4. /\ w.at = "shown" /\ w.row = q /\ w.terms = terms /\ w.paid = receivedFrom
      /\ w.freeUntil = freeUntil(q, terms)
      /\ w.feeApplies = feeApplies(q, terms)
      /\ w.retained = computeSuggestedRetainedAmount(q, receivedFrom, terms)
  BY Zenon DEF ViewOf
<1>5. y.at = "answered" /\ y.op = "view" /\ y.code = "ok" /\ y.view = w
  OBVIOUS
<1> HIDE DEF w, y, q
<1>6. PageOK(w)
  <2>1. w # Absent
    BY <1>4 DEF Absent
  <2>2. w.freeUntil = Begins[w.row] - w.terms.hours
    BY <1>4 DEF freeUntil
  <2>3. ASSUME w.feeApplies PROVE w.retained = retainedFor(w.paid, w.terms)
    <3>1. feeApplies(q, terms)
      BY <1>4, <2>3, Zenon
    <3>2. computeSuggestedRetainedAmount(q, receivedFrom, terms) = retainedFor(receivedFrom, terms)
      BY <3>1 DEF computeSuggestedRetainedAmount
    <3> QED  BY <1>4, <3>2
  <2>4. w.row \in Copies /\ w.terms \in Terms
    BY <1>2, <1>4 DEF BooksTyped
  <2> QED  BY <2>1, <2>2, <2>3, <2>4 DEF PageOK
<1>7. AnsweredOK(y)
  BY <1>5, <1>6 DEF AnsweredOK
<1>8. y # Absent
  BY <1>5 DEF Absent
<1>9. ASSUME NEW r \in Copies, Concerns(visit[v], r) PROVE Concerns(y, r)
  <2>1. q = r
    BY <1>1, <1>9 DEF Concerns, q
  <2> QED  BY <1>4, <1>5, <2>1 DEF Concerns
<1> QED  BY <1>1, <1>3, <1>5, <1>7, <1>8, <1>9 DEF Serves, RequestOK

\* What the handler of a cancellation has read, before any lock
LEMMA CancelByCustomerServes ==
    ASSUME VisitsOK, BooksTyped, NEW v \in Visits, CancelByCustomer(v)
    PROVE  Serves(v)
<1> DEFINE q == visit[v].row
<1>1. visit[v].at = "resolved" /\ visit[v].op = "cancel"
  BY DEF CancelByCustomer
<1>2. q \in Copies
  BY <1>1, AtStep DEF Underway
<1>3. CASE Denied(v, "BOOKING_NOT_CANCELLABLE")
  BY <1>1, <1>3, DenialServes DEF Heeded
<1>4. CASE ~Denied(v, "BOOKING_NOT_CANCELLABLE")
  <2> DEFINE y == [at |-> IF feeApplies(q, terms) THEN "asking" ELSE "cancelling", op |-> "cancel",
                   row |-> q, paid |-> receivedFrom, terms |-> terms, hour |-> hour,
                   retained |-> computeSuggestedRetainedAmount(q, receivedFrom, terms)]
  <2>1. visit' = [visit EXCEPT ![v] = y]
    BY <1>4 DEF CancelByCustomer, To
  <2>2. /\ y.at = IF feeApplies(q, terms) THEN "asking" ELSE "cancelling"
        /\ y.op = "cancel" /\ y.row = q /\ y.paid = receivedFrom /\ y.terms = terms
        /\ y.hour = hour
        /\ y.retained = computeSuggestedRetainedAmount(q, receivedFrom, terms)
    OBVIOUS
  <2> HIDE DEF y, q
  <2>3. Weighed(y)
    <3>1. receivedFrom \in Int
      BY PromisedIsAmount DEF BooksTyped, receivedFrom
    <3>2. y.at = "asking" <=> Begins[y.row] - y.hour < y.terms.hours
      BY <2>2 DEF feeApplies
    <3>3. y.at = "asking" => y.retained = retainedFor(y.paid, y.terms)
      BY <2>2 DEF computeSuggestedRetainedAmount
    <3>4. y.terms \in Terms /\ y.hour \in Nat /\ y.row \in Copies
      BY <1>2, <2>2 DEF BooksTyped
    <3>5. y.at \in {"asking", "cancelling"}
      BY <2>2
    <3> QED  BY <2>2, <3>1, <3>2, <3>3, <3>4, <3>5 DEF Weighed
  <2>4. y # Absent
    BY <2>3 DEF Weighed, Absent
  <2>5. ASSUME NEW r \in Copies, Concerns(visit[v], r) PROVE Concerns(y, r)
    <3>1. q = r
      BY <1>1, <2>5 DEF Concerns, q
    <3> QED  BY <2>2, <3>1 DEF Concerns
  <2> QED  BY <1>1, <2>1, <2>2, <2>3, <2>4, <2>5 DEF Serves, RequestOK
<1> QED  BY <1>3, <1>4

\* An answer that was heeded says when and by what it was decided
LEMMA TellingServes ==
    ASSUME VisitsOK, NEW v \in Visits, NEW kind \in Heeded, NEW amount, Tells(v, kind, amount),
           visit[v].at = IF kind = "REQUESTED" THEN "asking" ELSE "cancelling",
           kind = "REQUESTED" => amount = visit[v].retained
    PROVE  Serves(v)
<1> DEFINE y == [at |-> "answered", op |-> "cancel", code |-> kind, amount |-> amount,
                 row |-> visit[v].row, paid |-> visit[v].paid, terms |-> visit[v].terms,
                 hour |-> visit[v].hour]
<1>1. visit' = [visit EXCEPT ![v] = y]
  BY DEF Tells, To
<1>2. /\ y.at = "answered" /\ y.op = "cancel" /\ y.code = kind /\ y.amount = amount
      /\ y.row = visit[v].row /\ y.paid = visit[v].paid /\ y.terms = visit[v].terms
      /\ y.hour = visit[v].hour
  OBVIOUS
<1> HIDE DEF y
<1>3. Weighed(visit[v])
  BY AtStep DEF Heeded
<1>4. y # Absent
  BY <1>2 DEF Absent
<1>5. HeededOK(y)
  <2>1. /\ visit[v].at = "asking" <=> Begins[y.row] - y.hour < y.terms.hours
        /\ visit[v].at = "asking" => visit[v].retained = retainedFor(y.paid, y.terms)
        /\ y.row \in Copies /\ y.terms \in Terms /\ y.hour \in Nat
    BY <1>2, <1>3 DEF Weighed
  <2>2. Begins[y.row] \in Int /\ y.terms.hours \in Int
    BY <2>1, ManageAssumption
  <2>3. y.code = "REQUESTED" <=> visit[v].at = "asking"
    BY <1>2 DEF Heeded
  <2>4. y.code = "REQUESTED" <=> y.hour > Begins[y.row] - y.terms.hours
    BY <2>1, <2>2, <2>3
  <2>5. y.code = "REQUESTED" => y.amount = retainedFor(y.paid, y.terms)
    BY <1>2, <2>1, <2>3
  <2> QED  BY <1>4, <2>1, <2>4, <2>5 DEF HeededOK
<1>6. AnsweredOK(y)
  BY <1>2, <1>5 DEF AnsweredOK
<1>7. ASSUME NEW r \in Copies, Concerns(visit[v], r) PROVE Concerns(y, r)
  BY <1>2, <1>7 DEF Concerns, Heeded
<1>8. visit[v].op = "cancel"
  BY <1>3 DEF Weighed
<1> QED  BY <1>1, <1>2, <1>4, <1>6, <1>7, <1>8 DEF Serves, RequestOK

\* Both ways of carrying out a cancellation answer so, or refuse
LEMMA CarryingOutServes ==
    ASSUME VisitsOK, NEW v \in Visits, CancelImmediately(v) \/ OpenRequest(v)
    PROVE  Serves(v)
<1>1. CASE CancelImmediately(v)
  <2>1. visit[v].at = "cancelling"
    BY <1>1 DEF CancelImmediately
  <2>2. CASE \E a : Tells(v, "CANCELED", a)
    <3>1. PICK a : Tells(v, "CANCELED", a)
      BY <2>2
    <3> QED  BY <2>1, <3>1, TellingServes DEF Heeded
  <2>3. CASE Denied(v, "BOOKING_NOT_CANCELLABLE")
    BY <2>1, <2>3, DenialServes DEF Heeded
  <2> QED  BY <1>1, <2>2, <2>3, Zenon DEF CancelImmediately
<1>2. CASE OpenRequest(v)
  <2>1. visit[v].at = "asking"
    BY <1>2 DEF OpenRequest
  <2>2. CASE Tells(v, "REQUESTED", visit[v].retained)
    BY <2>1, <2>2, TellingServes DEF Heeded
  <2>3. CASE Denied(v, "BOOKING_NOT_CANCELLABLE")
    BY <2>1, <2>3, DenialServes DEF Heeded
  <2> QED  BY <1>2, <2>2, <2>3, Zenon DEF OpenRequest
<1> QED  BY <1>1, <1>2
\* So what is under way stays in order, and about the row the tab shows
LEMMA ServedStaysInOrder ==
    ASSUME VisitsOK, TabOK, NEW v \in Visits, Serves(v), visit[v] # Absent, UNCHANGED tab
    PROVE  TabOK'
<1>1. PICK y : /\ visit' = [visit EXCEPT ![v] = y]
               /\ y # Absent /\ y.op = visit[v].op
               /\ \A r \in Copies : Concerns(visit[v], r) => Concerns(y, r)
  BY DEF Serves
<1>2. DOMAIN visit = Visits
  BY DEF VisitsOK
<1>3. visit'[v] = y /\ \A u \in Visits : u # v => visit'[u] = visit[u]
  BY <1>1, <1>2
<1>4. tab.link \in Copies /\ tab.asks \in Visits \cup {Absent} /\ tab.loads \in Visits \cup {Absent}
  BY DEF TabOK
<1>5. tab.asks # Absent =>
          /\ visit'[tab.asks] # Absent /\ visit'[tab.asks].op = "cancel"
          /\ Concerns(visit'[tab.asks], tab.link)
  BY <1>1, <1>3, <1>4 DEF TabOK
<1>6. tab.loads # Absent =>
          /\ visit'[tab.loads] # Absent /\ visit'[tab.loads].op = "view"
          /\ Concerns(visit'[tab.loads], tab.link)
  BY <1>1, <1>3, <1>4 DEF TabOK
<1> QED  BY <1>5, <1>6 DEF TabOK

\* A step that puts an acceptable request, or none, in the place of one
LEMMA ReplacedIsOK ==
    ASSUME VisitsOK, NEW v \in Visits, NEW y, visit' = [visit EXCEPT ![v] = y],
           y = Absent \/ RequestOK(y)
    PROVE  VisitsOK'
  BY DEF VisitsOK, RequestOK

\* A request that was just sent
LEMMA SentIsOK ==
    ASSUME NEW op \in {"view", "cancel"}, NEW r \in Copies, NEW y,
           y = [at |-> "sent", op |-> op, row |-> r]
    PROVE  y # Absent /\ RequestOK(y) /\ y.op = op /\ Concerns(y, r)
  BY DEF Absent, RequestOK, Underway, Concerns

\* All requests are in order whatever the tab does, in one tab or in two
LEMMA RequestsStayInOrder ==
    ASSUME BooksInv, VisitsOK, tab.link \in Copies, [ManageNext]_manage
    PROVE  VisitsOK'
<1>1. CASE UNCHANGED visit
  BY <1>1 DEF VisitsOK
<1>2. ASSUME NEW v \in Visits, Serves(v) PROVE VisitsOK'
  BY <1>2, ReplacedIsOK DEF Serves
<1>3. ASSUME NEW v \in Visits, To(v, Absent) PROVE VisitsOK'
  BY <1>3, ReplacedIsOK DEF To
<1>4. ASSUME NEW v \in Visits, NEW op \in {"view", "cancel"}, NEW r \in Copies,
             To(v, [at |-> "sent", op |-> op, row |-> r])
      PROVE  VisitsOK'
  <2>1. PICK y : y = [at |-> "sent", op |-> op, row |-> r]
    OBVIOUS
  <2>2. RequestOK(y)
    BY <2>1, SentIsOK
  <2>3. visit' = [visit EXCEPT ![v] = y]
    BY <1>4, <2>1 DEF To
  <2> QED  BY <2>2, <2>3, ReplacedIsOK
<1>5. ASSUME NEW v \in Visits,
             \/ ManagementTokenGuard(v) \/ View(v) \/ CancelByCustomer(v)
             \/ CancelImmediately(v) \/ OpenRequest(v)
      PROVE  VisitsOK'
  <2>1. Serves(v)
    BY <1>5, GuardServes, ViewServes, CancelByCustomerServes, CarryingOutServes DEF BooksInv
  <2> QED  BY <1>2, <2>1
<1>6. ASSUME NEW v \in Visits, \E r \in Copies : Follow(v, r) PROVE VisitsOK'
  BY <1>1, <1>4, <1>6 DEF Follow, Request
<1>7. ASSUME NEW v \in Visits, ConfirmCancellation(v) PROVE VisitsOK'
  BY <1>4, <1>7 DEF ConfirmCancellation, Request
<1>8. ASSUME NEW v \in Visits, Drop(v) \/ ReceiveView(v) \/ ReceiveOutcome(v) PROVE VisitsOK'
  BY <1>3, <1>4, <1>8 DEF Drop, ReceiveView, ReceiveOutcome
<1>9. ASSUME \/ LoadQueue \/ Rotate \/ Change \/ HourPasses
             \/ \E p \in Petitions, typed \in -1..(Price + 1) : DecideCancellation(p, typed)
             \/ \E r \in Copies, amount \in 0..Price : cancelByBusiness(r, amount)
             \/ \E k \in DOMAIN refund : RefundFails(k)
      PROVE  UNCHANGED <<visit, tab>>
  BY <1>9 DEF LoadQueue, Rotate, Change, HourPasses, DecideCancellation, cancelByBusiness, RefundFails
<1> QED  BY <1>1, <1>5, <1>6, <1>7, <1>8, <1>9 DEF ManageNext, manage

-----------------------------------------------------------------------------
(* Each operation of the tab                                               *)

\* The parts of a tab
LEMMA TabHas ==
    ASSUME TabOK
    PROVE  /\ DOMAIN tab = {"link", "view", "seen", "outcome", "loads", "asks"}
           /\ tab.link \in Copies
           /\ tab.loads \in Visits \cup {Absent} /\ tab.asks \in Visits \cup {Absent}
  BY DEF TabOK

\* A link into a new tab: it shows nothing and waits for its page
LEMMA FollowKeepsTab ==
    ASSUME ~SameTab, VisitsOK, TabOK, NEW v \in Visits, NEW r \in Copies, Follow(v, r)
    PROVE  TabOK'
<1>1. tab' = [FreshTab(r) EXCEPT !.loads = v]
  BY DEF Follow
<1>2. PICK y : y = [at |-> "sent", op |-> "view", row |-> r]
  OBVIOUS
<1>3. y # Absent /\ y.op = "view" /\ Concerns(y, r)
  BY <1>2, SentIsOK
<1>4. visit' = [visit EXCEPT ![v] = y]
  BY <1>2 DEF Follow, Request, To
<1>5. visit'[v] = y
  BY <1>4 DEF VisitsOK
<1>6. tab' \in [link : {r}, view : {Absent}, seen : {Absent}, outcome : {Absent},
                loads : {v}, asks : {Absent}]
  BY <1>1 DEF FreshTab
<1> QED  BY <1>3, <1>5, <1>6 DEF TabOK

\* The customer confirms what the page shows
LEMMA ConfirmKeepsTab ==
    ASSUME VisitsOK, TabOK, NEW v \in Visits, ConfirmCancellation(v)
    PROVE  TabOK'
<1>1. /\ tab.view # Absent /\ tab.outcome = Absent /\ visit[v] = Absent
      /\ tab' = [tab EXCEPT !.asks = v, !.seen = tab.view]
  BY DEF ConfirmCancellation, Request
<1>2. PICK y : y = [at |-> "sent", op |-> "cancel", row |-> tab.link]
  OBVIOUS
<1>3. y # Absent /\ y.op = "cancel" /\ Concerns(y, tab.link)
  BY <1>2, SentIsOK, TabHas
<1>4. visit' = [visit EXCEPT ![v] = y]
  BY <1>2 DEF ConfirmCancellation, Request, To
<1>5. visit'[v] = y /\ \A u \in Visits : u # v => visit'[u] = visit[u]
  BY <1>4 DEF VisitsOK
<1>6. tab' \in [link : {tab.link}, view : {tab.view}, seen : {tab.view}, outcome : {Absent},
                loads : {tab.loads}, asks : {v}]
  BY <1>1 DEF TabOK
<1>7. tab.loads # Absent => tab.loads \in Visits /\ tab.loads # v
  BY <1>1 DEF TabOK
<1> QED  BY <1>1, <1>3, <1>5, <1>6, <1>7 DEF TabOK

\* A lost answer is awaited no more; the other one still is
LEMMA DropKeepsTab ==
    ASSUME VisitsOK, TabOK, NEW v \in Visits, Drop(v)
    PROVE  TabOK'
<1>1. /\ visit[v].at = "answered" /\ visit' = [visit EXCEPT ![v] = Absent]
      /\ tab' = CASE tab.asks = v -> [tab EXCEPT !.asks = Absent]
                   [] tab.loads = v -> [tab EXCEPT !.loads = Absent]
                   [] OTHER -> tab
  BY DEF Drop, To
<1>2. v # Absent
  BY ManageAssumption
<1>3. \A u \in Visits : u # v => visit'[u] = visit[u]
  BY <1>1 DEF VisitsOK
<1>4. ~(tab.asks = v /\ tab.loads = v)
  BY <1>2 DEF TabOK
<1>5. CASE tab.asks = v
  <2>1. tab' \in [link : {tab.link}, view : {tab.view}, seen : {tab.seen}, outcome : {tab.outcome},
                  loads : {tab.loads}, asks : {Absent}]
    BY <1>1, <1>5 DEF TabOK
  <2> QED  BY <1>3, <1>4, <1>5, <2>1 DEF TabOK
<1>6. CASE tab.loads = v
  <2>1. tab' \in [link : {tab.link}, view : {tab.view}, seen : {tab.seen}, outcome : {tab.outcome},
                  loads : {Absent}, asks : {tab.asks}]
    BY <1>1, <1>4, <1>6 DEF TabOK
  <2> QED  BY <1>3, <1>4, <1>6, <2>1 DEF TabOK
<1>7. CASE tab.asks # v /\ tab.loads # v
  <2>1. tab' = tab
    BY <1>1, <1>7
  <2> QED  BY <1>3, <1>7, <2>1 DEF TabOK
<1> QED  BY <1>5, <1>6, <1>7

\* A page that arrives is about the row of the link
LEMMA ReceiveViewKeepsTab ==
    ASSUME VisitsOK, TabOK, NEW v \in Visits, ReceiveView(v)
    PROVE  TabOK'
<1>1. /\ visit[v].at = "answered" /\ tab.loads = v /\ visit' = [visit EXCEPT ![v] = Absent]
      /\ tab' = [tab EXCEPT !.loads = Absent,
                            !.view = IF visit[v].code = "ok" THEN visit[v].view ELSE tab.view]
  BY DEF ReceiveView, To
<1>2. v # Absent
  BY ManageAssumption
<1>3. \A u \in Visits : u # v => visit'[u] = visit[u]
  BY <1>1 DEF VisitsOK
<1>4. AnsweredOK(visit[v]) /\ visit[v].op = "view" /\ Concerns(visit[v], tab.link)
  BY <1>1, <1>2, AtStep DEF TabOK
<1>5. tab.asks # v
  BY <1>2, <1>4 DEF TabOK
<1>6. PICK w : w = IF visit[v].code = "ok" THEN visit[v].view ELSE tab.view
  OBVIOUS
<1>7. w # Absent => PageOK(w) /\ w.row = tab.link
  BY <1>1, <1>4, <1>6 DEF AnsweredOK, Concerns, TabOK
<1>8. tab' \in [link : {tab.link}, view : {w}, seen : {tab.seen}, outcome : {tab.outcome},
                loads : {Absent}, asks : {tab.asks}]
  BY <1>1, <1>6 DEF TabOK
<1> QED  BY <1>3, <1>5, <1>7, <1>8 DEF TabOK

\* The answer to what was confirmed is about the row that was shown
LEMMA ReceiveOutcomeKeepsTab ==
    ASSUME VisitsOK, TabOK, NEW v \in Visits, ReceiveOutcome(v)
    PROVE  TabOK'
<1>1. visit[v].at = "answered" /\ tab.asks = v
  BY DEF ReceiveOutcome
<1>2. v # Absent
  BY ManageAssumption
<1>3. /\ AnsweredOK(visit[v]) /\ visit[v].op = "cancel" /\ Concerns(visit[v], tab.link)
      /\ PageOK(tab.seen) /\ tab.seen.row = tab.link
  BY <1>1, <1>2, AtStep DEF TabOK
<1>4. tab.loads # v
  BY <1>2, <1>3 DEF TabOK
<1>5. CASE visit[v].code \in Heeded
  <2>1. PICK y : y = [at |-> "sent", op |-> "view", row |-> tab.link]
    OBVIOUS
  <2>2. y # Absent /\ y.op = "view" /\ Concerns(y, tab.link)
    BY <2>1, SentIsOK, TabHas
  <2>3. visit' = [visit EXCEPT ![v] = y]
    BY <1>5, <2>1 DEF ReceiveOutcome, To, Heeded
  <2>4. visit'[v] = y
    BY <2>3 DEF VisitsOK
  <2>5. tab' = [tab EXCEPT !.asks = Absent, !.loads = v, !.outcome = visit[v]]
    BY <1>5 DEF ReceiveOutcome, Heeded
  <2>6. tab' \in [link : {tab.link}, view : {tab.view}, seen : {tab.seen}, outcome : {visit[v]},
                  loads : {v}, asks : {Absent}]
    BY <2>5 DEF TabOK
  <2>7. HeededOK(visit[v]) /\ visit[v].row = tab.seen.row
    BY <1>1, <1>3, <1>5 DEF AnsweredOK, Concerns
  <2> QED  BY <1>3, <2>2, <2>4, <2>6, <2>7 DEF TabOK
<1>6. CASE visit[v].code \notin Heeded
  <2>1. tab' = [tab EXCEPT !.asks = Absent] /\ visit' = [visit EXCEPT ![v] = Absent]
    BY <1>6 DEF ReceiveOutcome, To, Heeded
  <2>2. \A u \in Visits : u # v => visit'[u] = visit[u]
    BY <2>1 DEF VisitsOK
  <2>3. tab' \in [link : {tab.link}, view : {tab.view}, seen : {tab.seen}, outcome : {tab.outcome},
                  loads : {tab.loads}, asks : {Absent}]
    BY <2>1 DEF TabOK
  <2> QED  BY <1>4, <2>2, <2>3 DEF TabOK
<1> QED  BY <1>5, <1>6
-----------------------------------------------------------------------------
(* What is said is done, and what is kept was decided                      *)

\* Initially one row stands and one page may be asked for.
LEMMA InitManageInv == ManageInit => BooksInv /\ VisitsOK /\ TabOK
<1> SUFFICES ASSUME ManageInit PROVE BooksInv /\ VisitsOK /\ TabOK
  OBVIOUS
<1>1. Price \in Nat /\ Original # Replacement /\ 0 \in Int
  BY ManageAssumption
<1>2. /\ refund = [k \in Purposes |-> NoRefund]
      /\ NoRefund \in [amount : 0..Price, status : {"none", "PENDING", "FAILED"}]
  BY <1>1 DEF ManageInit, NoRefund, Purposes
<1>3. BooksTyped
  BY <1>1, <1>2 DEF ManageInit, BooksTyped, Standings, Copies
<1>4. reserved = 0
  BY <1>2, ReservedIsPromised DEF Promised, NoRefund, Purposes
<1>5. CardCovers /\ StandingIsUncancelled /\ AnnouncedIsReserved
  BY <1>1, <1>2, <1>4 DEF ManageInit, CardCovers, StandingIsUncancelled, AnnouncedIsReserved,
                          Purposes, Copies
<1>6. PetitionsDecided
  <2>1. PICK f : f = FALSE
    OBVIOUS
  <2>2. NoPetition = [row |-> Original, state |-> "none", suggested |-> 0, retained |-> 0,
                      untouched |-> f]
    BY <2>1, Zenon DEF NoPetition
  <2>3. \A p \in Petitions : petition[p] = NoPetition
    BY DEF ManageInit
  <2> QED  BY <2>2, <2>3 DEF ManageInit, PetitionsDecided, Copies
<1>7. VisitsOK
  BY DEF ManageInit, VisitsOK
<1>8. tab \in [link : {Original}, view : {Absent}, seen : {Absent}, outcome : {Absent},
               loads : {Absent}, asks : {Absent}]
  BY DEF ManageInit, FreshTab
<1>9. TabOK
  BY <1>8 DEF TabOK, Copies
<1> QED  BY <1>3, <1>5, <1>6, <1>7, <1>9 DEF BooksInv

\* No step spoils the books.
LEMMA BooksStep ==
    ASSUME BooksInv, VisitsOK, [ManageNext]_manage
    PROVE  BooksInv'
<1>1. hour \in Nat /\ terms \in Terms /\ cash \in Int
  BY DEF BooksInv, BooksTyped
<1>2. CASE UNCHANGED <<standing, link, comingBack, refund, petition, hour, terms, cash>>
  BY <1>1, <1>2, BooksAtRest
<1>3. ASSUME NEW v \in Visits,
             \/ ManagementTokenGuard(v) \/ View(v) \/ CancelByCustomer(v)
             \/ (\E r \in Copies : Follow(v, r))
             \/ ConfirmCancellation(v) \/ Drop(v) \/ ReceiveView(v) \/ ReceiveOutcome(v)
      PROVE  BooksInv'
  BY <1>2, <1>3 DEF ManagementTokenGuard, View, CancelByCustomer, Follow, ConfirmCancellation,
                    Drop, ReceiveView, ReceiveOutcome, records, world
<1>4. ASSUME NEW v \in Visits, CancelImmediately(v) PROVE BooksInv'
  BY <1>4, CancelImmediatelyKeepsBooks, AtStep DEF CancelImmediately
<1>5. ASSUME NEW v \in Visits, OpenRequest(v) PROVE BooksInv'
  <2>1. visit[v].row \in Copies
    BY <1>5, AtStep DEF OpenRequest, Weighed
  <2> QED  BY <1>5, <2>1, OpenRequestKeepsBooks
<1>6. CASE LoadQueue
  BY <1>2, <1>6 DEF LoadQueue, records, world
<1>7. CASE HourPasses
  <2>1. hour' \in Nat
    BY <1>1, <1>7 DEF HourPasses
  <2> QED  BY <1>1, <1>7, <2>1, BooksAtRest DEF HourPasses, records
<1>8. ASSUME NEW p \in Petitions, NEW typed \in -1..(Price + 1), DecideCancellation(p, typed)
      PROVE  BooksInv'
  <2>1. typed \in Int
    BY PromisedIsAmount DEF BooksInv
  <2> QED  BY <1>8, <2>1, DecideCancellationKeepsBooks
<1> QED  BY <1>2, <1>3, <1>4, <1>5, <1>6, <1>7, <1>8, CancelByBusinessKeepsBooks,
            RotateKeepsBooks, ChangeKeepsBooks, RefundFailsKeepsBooks DEF ManageNext, manage

\* Nor what the tab knows, while a link is not followed in a tab that shows another.
LEMMA TabStep ==
    ASSUME ~SameTab, BooksInv, VisitsOK, TabOK, [ManageNext]_manage
    PROVE  TabOK'
<1>1. CASE UNCHANGED <<visit, tab>>
  BY <1>1 DEF TabOK, Concerns
<1>2. ASSUME NEW v \in Visits,
             \/ ManagementTokenGuard(v) \/ View(v) \/ CancelByCustomer(v)
             \/ CancelImmediately(v) \/ OpenRequest(v)
      PROVE  TabOK'
  <2>1. Serves(v)
    BY <1>2, GuardServes, ViewServes, CancelByCustomerServes, CarryingOutServes DEF BooksInv
  <2>2. visit[v] # Absent
    BY <1>2 DEF ManagementTokenGuard, View, CancelByCustomer, CancelImmediately, OpenRequest, Absent
  <2>3. UNCHANGED tab
    BY <1>2 DEF ManagementTokenGuard, View, CancelByCustomer, CancelImmediately, OpenRequest
  <2> QED  BY <2>1, <2>2, <2>3, ServedStaysInOrder
<1>3. ASSUME NEW v \in Visits,
             \/ \E r \in Copies : Follow(v, r)
             \/ ConfirmCancellation(v) \/ Drop(v) \/ ReceiveView(v) \/ ReceiveOutcome(v)
      PROVE  TabOK'
  BY <1>3, FollowKeepsTab, ConfirmKeepsTab, DropKeepsTab, ReceiveViewKeepsTab,
     ReceiveOutcomeKeepsTab
<1>4. ASSUME \/ LoadQueue \/ Rotate \/ Change \/ HourPasses
             \/ \E p \in Petitions, typed \in -1..(Price + 1) : DecideCancellation(p, typed)
             \/ \E r \in Copies, amount \in 0..Price : cancelByBusiness(r, amount)
             \/ \E k \in DOMAIN refund : RefundFails(k)
      PROVE  UNCHANGED <<visit, tab>>
  BY <1>4 DEF LoadQueue, Rotate, Change, HourPasses, DecideCancellation, cancelByBusiness, RefundFails
<1> QED  BY <1>1, <1>2, <1>3, <1>4 DEF ManageNext, manage

\* What the invariant says is what the customer was promised.
LEMMA InOrderIsSaid == BooksInv /\ TabOK => SaidIsDone
<1> SUFFICES ASSUME BooksInv, TabOK PROVE SaidIsDone
  OBVIOUS
<1>1. /\ standing \in [Copies -> {"none", "CONFIRMED", "CANCELED_BY_CUSTOMER", "CANCELED_BY_BUSINESS"}]
      /\ link \in [Copies -> {"none", "live", "revoked"}]
      /\ \A k \in DOMAIN refund : refund[k].amount \in 0..Price
      /\ reserved <= Price
      /\ comingBack # -1 => refund["cancellation"].amount = comingBack
  BY DEF BooksInv, BooksTyped, Standings, CardCovers, AnnouncedIsReserved
<1>2. \A p \in Petitions : petition[p].state = "APPROVED" /\ petition[p].untouched =>
             petition[p].retained = petition[p].suggested
  BY DEF BooksInv, PetitionsDecided
<1>3. tab.link \in Copies
  BY TabHas
<1>4. ASSUME tab.outcome # Absent
      PROVE  HeededOK(tab.outcome) /\ PageOK(tab.seen) /\ tab.outcome.row = tab.seen.row
  BY <1>4 DEF TabOK
<1>5. ASSUME tab.outcome # Absent, tab.outcome.terms = tab.seen.terms, tab.outcome.paid = tab.seen.paid
      PROVE  /\ tab.outcome.code = "REQUESTED" <=> tab.outcome.hour > tab.seen.freeUntil
             /\ tab.outcome.code = "REQUESTED" /\ tab.seen.feeApplies =>
                  tab.outcome.amount = tab.seen.retained
  BY <1>4, <1>5 DEF HeededOK, PageOK
<1> QED  BY <1>1, <1>2, <1>3, <1>4, <1>5 DEF SaidIsDone

\* What a customer is told beforehand is what is done, for every policy and price, as long
\* as no link is followed in a tab that shows another appointment (cancellation-fee.ts,
\* manage.controller.ts, openRequest, decideRequest and ManageBooking.vue).
THEOREM WhatIsSaidIsDone == ASSUME ~SameTab PROVE ManageSpec => []SaidIsDone
<1>1. ManageInit => BooksInv /\ VisitsOK /\ TabOK
  BY InitManageInv
<1>2. (BooksInv /\ VisitsOK /\ TabOK) /\ [ManageNext]_manage => (BooksInv /\ VisitsOK /\ TabOK)'
  BY BooksStep, RequestsStayInOrder, TabStep, TabHas
<1>3. BooksInv /\ VisitsOK /\ TabOK => SaidIsDone
  BY InOrderIsSaid
<1> QED  BY <1>1, <1>2, <1>3, PTL DEF ManageSpec

\* A tab shows some link
Linked ==
    DOMAIN tab = {"link", "view", "seen", "outcome", "loads", "asks"} /\ tab.link \in Copies

\* It does so in one tab or in two
LEMMA LinkStaysTyped ==
    ASSUME Linked, [ManageNext]_manage
    PROVE  Linked'
<1> USE DEF Linked
<1>1. CASE UNCHANGED tab
  BY <1>1
<1>2. ASSUME NEW v \in Visits, NEW r \in Copies, Follow(v, r)
      PROVE  Linked'
  BY <1>2 DEF Follow, FreshTab
<1>3. ASSUME NEW v \in Visits,
             ConfirmCancellation(v) \/ Drop(v) \/ ReceiveView(v) \/ ReceiveOutcome(v)
      PROVE  Linked'
  BY <1>3 DEF ConfirmCancellation, Drop, ReceiveView, ReceiveOutcome
<1>4. ASSUME ManageNext,
             ~\E v \in Visits : \/ (\E r \in Copies : Follow(v, r))
                               \/ ConfirmCancellation(v) \/ Drop(v) \/ ReceiveView(v) \/ ReceiveOutcome(v)
      PROVE  UNCHANGED tab
  BY <1>4 DEF ManageNext, ManagementTokenGuard, View, CancelByCustomer, CancelImmediately, OpenRequest,
              LoadQueue, Rotate, Change, HourPasses, DecideCancellation, cancelByBusiness, RefundFails
<1> QED  BY <1>1, <1>2, <1>3, <1>4 DEF manage

\* A cumulative target leaves the business with what it keeps beyond the cash it has, and
\* never with more than it held.
LEMMA TargetLeavesTheRest ==
    ASSUME BooksTyped, CardCovers, refund["cancellation"] = NoRefund, NEW kept \in Int,
           reserveRefund(additionalFor(receivedFrom - kept))
    PROVE  HeldOnCard' = Least(HeldOnCard, Most(kept - cash, 0))
<1>1. reserved \in Nat /\ refundable = Price - reserved /\ Price \in Nat /\ reserved <= Price
  BY PromisedIsAmount DEF CardCovers
<1>2. cash \in Int
  BY DEF BooksTyped
<1>3. receivedFrom - kept \in Int
  BY <1>1, <1>2 DEF receivedFrom
<1>4. PICK a : a = additionalFor(receivedFrom - kept)
  OBVIOUS
<1>5. a \in Int /\ 0 <= a /\ a <= refundable
  BY <1>3, <1>4, MissingIsCovered
<1>6. reserved' = reserved + a
  BY <1>4, <1>5, ReservingAdds
<1>7. a = Least(Most(Price + cash - kept - reserved, 0), Price - reserved)
  BY <1>1, <1>2, <1>4 DEF additionalFor, receivedFrom
<1> QED  BY <1>1, <1>2, <1>6, <1>7 DEF HeldOnCard, Least, Most

\* The step at which a customer's cancellation takes effect, by the policy or by decision.
LEMMA DecidedStep ==
    ASSUME BooksInv, VisitsOK, NEW r \in Copies,
           standing[r] = "CONFIRMED", standing'[r] = "CANCELED_BY_CUSTOMER",
           ~\E v \in Visits : visit[v].at = "cancelling" /\ visit'[v] # visit[v]
                                /\ visit[v].paid # receivedFrom,
           [ManageNext]_manage
    PROVE  HeldOnCard' = Least(HeldOnCard, Most(Kept(r) - cash, 0))
<1>1. BooksTyped /\ CardCovers
  BY DEF BooksInv
<1>2. refund["cancellation"] = NoRefund
  BY DEF BooksInv, StandingIsUncancelled
<1>3. standing \in [Copies -> Standings] /\ standing' # standing
  BY <1>1 DEF BooksTyped
<1>4. ASSUME NEW v \in Visits, CancelImmediately(v)
      PROVE  HeldOnCard' = Least(HeldOnCard, Most(Kept(r) - cash, 0))
  <2>1. visit[v].at = "cancelling" /\ UNCHANGED petition
    BY <1>4 DEF CancelImmediately
  <2>2. reserveRefund(additionalFor(visit[v].paid))
    BY <1>3, <1>4 DEF CancelImmediately
  <2>3. visit'[v] # visit[v]
    <3>1. visit'[v].at = "answered"
      BY <1>4 DEF CancelImmediately, Tells, Denied, To, VisitsOK
    <3> QED  BY <2>1, <3>1
  <2>4. visit[v].paid = receivedFrom
    BY <2>1, <2>3
  <2>5. receivedFrom \in Int
    BY <1>1, PromisedIsAmount DEF BooksTyped, receivedFrom
  <2>6. reserveRefund(additionalFor(receivedFrom - 0))
    BY <2>2, <2>4, <2>5
  <2>7. Kept(r) = 0
    BY <2>1 DEF Kept, OpenFor
  <2> QED  BY <1>1, <1>2, <2>6, <2>7, TargetLeavesTheRest
<1>5. ASSUME NEW p \in Petitions, NEW typed \in Int, DecideCancellation(p, typed)
      PROVE  HeldOnCard' = Least(HeldOnCard, Most(Kept(r) - cash, 0))
  <2> DEFINE kept == RetainedOf(p, typed)
  <2>1. /\ petition[p].state = "PENDING" /\ validateRetained(p, typed)
        /\ standing' = [standing EXCEPT ![petition[p].row] = "CANCELED_BY_CUSTOMER"]
        /\ reserveRefund(additionalFor(receivedFrom - kept))
        /\ petition' = [petition EXCEPT ![p].state = "APPROVED", ![p].retained = kept,
                                        ![p].untouched = (typed = -1)]
    BY <1>3, <1>5 DEF DecideCancellation
  <2>2. kept \in Int
    BY <1>1, <2>1, RetainedIsAmount
  <2>3. petition[p].row = r
    BY <1>3, <2>1
  <2>4. DOMAIN petition = Petitions
    BY DEF BooksInv, PetitionsDecided
  <2>5. PICK u : u = (typed = -1)
    OBVIOUS
  <2>6. petition' = [petition EXCEPT ![p].state = "APPROVED", ![p].retained = kept, ![p].untouched = u]
    BY <2>1, <2>5, Zenon
  <2>7. petition[p] \in [row : Copies, state : {"none", "PENDING", "APPROVED", "REJECTED"},
                    suggested : {petition[p].suggested}, retained : {petition[p].retained},
                    untouched : {petition[p].untouched}]
    BY DEF BooksInv, PetitionsDecided
  <2> HIDE DEF kept
  <2>8. /\ petition'[p].state = "APPROVED" /\ petition'[p].retained = kept
        /\ \A q \in Petitions : q # p => petition'[q] = petition[q]
    BY <2>4, <2>6, <2>7
  <2>9. p \in OpenFor(r)
    BY <2>1, <2>3 DEF OpenFor
  <2>10. ASSUME NEW q \in OpenFor(r), petition'[q].state = "APPROVED" PROVE q = p
    BY <2>8, <2>10 DEF OpenFor
  <2>11. (CHOOSE q \in OpenFor(r) : petition'[q].state = "APPROVED") = p
    BY <2>8, <2>9, <2>10
  <2>12. Kept(r) = kept
    BY <2>8, <2>9, <2>11 DEF Kept
  <2>13. reserveRefund(additionalFor(receivedFrom - kept))
    BY <2>1 DEF kept
  <2> QED  BY <1>1, <1>2, <2>2, <2>12, <2>13, TargetLeavesTheRest
<1>6. ASSUME NEW q \in Copies, NEW amount, cancelByBusiness(q, amount) PROVE FALSE
  BY <1>3, <1>6 DEF cancelByBusiness
<1>7. CASE Rotate
  BY <1>3, <1>7 DEF Rotate, Copies
<1>8. \A typed \in -1..(Price + 1) : typed \in Int
  BY <1>1, PromisedIsAmount
<1>9. CASE ManageNext
  <2>1. \/ \E v \in Visits : CancelImmediately(v)
        \/ \E p \in Petitions, typed \in -1..(Price + 1) : DecideCancellation(p, typed)
        \/ \E q \in Copies, amount \in 0..Price : cancelByBusiness(q, amount)
        \/ Rotate
    BY <1>3, <1>9 DEF ManageNext, ManagementTokenGuard, View, CancelByCustomer, OpenRequest, Follow,
                      ConfirmCancellation, Drop, ReceiveView, ReceiveOutcome, LoadQueue, Change,
                      HourPasses, RefundFails, records
  <2> QED  BY <1>4, <1>5, <1>6, <1>7, <1>8, <2>1
<1> QED  BY <1>3, <1>9 DEF manage

\* Of a customer who cancels the business keeps what it decided to keep, in cash or on the
\* card, and takes back nothing it has refunded, for every price, policy and sequence of
\* payments (reserveInTransaction with CUMULATIVE_TARGET, decideRequest).
THEOREM WhatIsKeptWasDecided == ManageSpec => HeldAsDecided
<1>1. ManageInit => BooksInv /\ VisitsOK /\ Linked
  BY InitManageInv, TabHas DEF Linked
<1>2. (BooksInv /\ VisitsOK /\ Linked) /\ [ManageNext]_manage => (BooksInv /\ VisitsOK /\ Linked)'
  BY BooksStep, RequestsStayInOrder, LinkStaysTyped DEF Linked
<1>3. (BooksInv /\ VisitsOK) /\ [ManageNext]_manage =>
         [\A r \in Copies :
            /\ standing[r] = "CONFIRMED" /\ standing'[r] = "CANCELED_BY_CUSTOMER"
            /\ ~\E v \in Visits : visit[v].at = "cancelling" /\ visit'[v] # visit[v]
                                   /\ visit[v].paid # receivedFrom
            => HeldOnCard' = Least(HeldOnCard, Most(Kept(r) - cash, 0))]_manage
  BY DecidedStep
<1> QED  BY <1>1, <1>2, <1>3, PTL DEF ManageSpec, HeldAsDecided
=============================================================================
