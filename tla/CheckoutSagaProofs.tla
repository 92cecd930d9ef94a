------------------------ MODULE CheckoutSagaProofs ------------------------
(***************************************************************************)
(* Theorems about CheckoutSaga, for any set of bookings and any overlaps   *)
(* between them.                                                           *)
(***************************************************************************)
EXTENDS CheckoutSaga, TLAPS

\* Every action keeps every variable in its type.
LEMMA TypeStep == TypeOK /\ [Next]_vars => TypeOK'
<1> SUFFICES ASSUME TypeOK, [Next]_vars PROVE TypeOK'
  OBVIOUS
<1> USE DEF TypeOK, rows, api, provider, worker, Statuses, Blocking, Terminal, Absent
<1>1. CASE UNCHANGED vars
  BY <1>1 DEF vars
<1>2. ASSUME NEW b \in Bookings, ApiStep(b) PROVE TypeOK'
  <2>1. CASE ReserveOnline(b)  BY <2>1 DEF ReserveOnline, Move
  <2>2. CASE ReserveOffice(b)  BY <2>2 DEF ReserveOffice, Move
  <2>3. CASE Resume(b)         BY <2>3 DEF Resume
  <2>4. CASE CreateSession(b)  BY <2>4 DEF CreateSession
  <2>5. CASE Attach(b)         BY <2>5 DEF Attach
  <2>6. CASE AbandonCheckout(b) BY <2>6 DEF AbandonCheckout
  <2> QED  BY <1>2, <2>1, <2>2, <2>3, <2>4, <2>5, <2>6 DEF ApiStep
<1>3. ASSUME NEW b \in Bookings, EnvironmentStep(b) PROVE TypeOK'
  BY <1>3, ZenonT(60) DEF EnvironmentStep, Pay, CompleteUnpaid, Complete, SessionTimesOut, HoldLapses
<1>4. ASSUME NEW b \in Bookings, ConfirmPaid(b)
      PROVE  /\ status' \in [Bookings -> Statuses \cup {Absent}]
             /\ attached' \in [Bookings -> BOOLEAN]
             /\ payment' \in [Bookings -> {"none", "PENDING", "SUCCEEDED", "FAILED"}]
             /\ tokens' \in [Bookings -> Nat]
             /\ escalated' \in [Bookings -> BOOLEAN]
  <2>1. CASE UNCHANGED <<rows, escalated>>
    BY <2>1
  <2>2. CASE UNCHANGED rows /\ escalated' = [escalated EXCEPT ![b] = TRUE]
    BY <2>2
  <2>3. CASE /\ Move(b, "CONFIRMED")
             /\ attached' = [attached EXCEPT ![b] = TRUE]
             /\ payment' = [payment EXCEPT ![b] = "SUCCEEDED"]
             /\ tokens' = [tokens EXCEPT ![b] = @ + 1]
             /\ UNCHANGED escalated
    BY <2>3 DEF Move
  <2> QED  BY <1>4, <2>1, <2>2, <2>3 DEF ConfirmPaid
<1>5. ASSUME NEW b \in Bookings, EventStep(b) PROVE TypeOK'
  <2>1. CASE ReceiveEvent(b)   BY <2>1 DEF ReceiveEvent
  <2>2. CASE ReadEvent(b)      BY <2>2 DEF ReadEvent
  <2>3. CASE DispatchEvent(b)
    <3>1. CASE session[b] = "paid" /\ ConfirmPaid(b)
      BY <2>3, <3>1, <1>4 DEF DispatchEvent
    <3>2. CASE session[b] = "unpaid" /\ UNCHANGED <<rows, escalated>>
      BY <2>3, <3>2 DEF DispatchEvent
    <3>3. CASE session[b] = "expired" /\ MarkPaymentFailed(b) /\ UNCHANGED escalated
      BY <2>3, <3>3 DEF DispatchEvent, MarkPaymentFailed, Move
    <3> QED  BY <2>3, <3>1, <3>2, <3>3 DEF DispatchEvent, Dispatch
  <2>4. CASE MarkProcessed(b)  BY <2>4 DEF MarkProcessed
  <2>5. CASE HandlerDies(b)    BY <2>5 DEF HandlerDies
  <2> QED  BY <1>5, <2>1, <2>2, <2>3, <2>4, <2>5 DEF EventStep
<1>6. ASSUME NEW b \in Bookings, SagaStep(b) PROVE TypeOK'
  <2>1. CASE BeginExpiry(b)    BY <2>1 DEF BeginExpiry, Move
  <2>2. CASE CompleteExpiry(b) BY <2>2 DEF CompleteExpiry
  <2>3. CASE ExpireSession(b)  BY <2>3 DEF ExpireSession, Verdict
  <2>4. CASE Release(b)        BY <2>4 DEF Release, Move
  <2>5. CASE ConfirmInstead(b) BY <2>5, <1>4 DEF ConfirmInstead
  <2>6. CASE SagaDies(b)       BY <2>6 DEF SagaDies
  <2> QED  BY <1>6, <2>1, <2>2, <2>3, <2>4, <2>5, <2>6 DEF SagaStep
<1> QED  BY <1>1, <1>2, <1>3, <1>5, <1>6 DEF Next

\* Type correctness holds whether or not checkouts outlive their holds.
THEOREM TypeCorrect == Spec => []TypeOK
<1>1. Init => TypeOK
  BY DEF Init, TypeOK, Statuses, Absent
<1> QED  BY <1>1, TypeStep, PTL DEF Spec
-----------------------------------------------------------------------------
\* The inductive invariant of the saga while no checkout outlives its hold.
IInv == TypeOK /\ SagaInvariant /\ ReleasedIsUnpayable /\ ConfirmedOnce /\ KeptIsPaidFor

LEMMA InitIInv == Init => IInv
BY DEF Init, IInv, TypeOK, SagaInvariant, ReleasedIsUnpayable, ConfirmedOnce,
       KeptIsPaidFor, Payable, Statuses, Absent

\* One step of one booking keeps the invariant of every booking.
LEMMA IInvStep ==
    ASSUME ~LateCheckout
    PROVE  IInv /\ [Next]_vars => IInv'
<1> SUFFICES ASSUME IInv, [Next]_vars PROVE IInv'
  OBVIOUS
<1>0. TypeOK /\ TypeOK'
  BY TypeStep DEF IInv
<1> DEFINE Safe == SagaInvariant /\ ReleasedIsUnpayable /\ ConfirmedOnce /\ KeptIsPaidFor
<1> SUFFICES Safe'
  BY <1>0 DEF IInv
<1>s. Safe
  BY DEF IInv
<1> USE <1>0, <1>s DEF TypeOK, SagaInvariant, ReleasedIsUnpayable, ConfirmedOnce, KeptIsPaidFor,
                 Payable, rows, api, provider, worker, Statuses, Blocking, Terminal, Absent
<1>1. CASE UNCHANGED vars
  BY <1>1 DEF vars
<1>2. ASSUME NEW b \in Bookings, ApiStep(b) PROVE Safe'
  <2>1. CASE ReserveOnline(b)  BY <2>1 DEF ReserveOnline, Move
  <2>2. CASE ReserveOffice(b)  BY <2>2 DEF ReserveOffice, Move
  <2>3. CASE Resume(b)         BY <2>3 DEF Resume
  <2>4. CASE CreateSession(b)  BY <2>4 DEF CreateSession
  <2>5. CASE Attach(b)         BY <2>5 DEF Attach
  <2>6. CASE AbandonCheckout(b) BY <2>6 DEF AbandonCheckout
  <2> QED  BY <1>2, <2>1, <2>2, <2>3, <2>4, <2>5, <2>6 DEF ApiStep
<1>3. ASSUME NEW b \in Bookings, EnvironmentStep(b) PROVE Safe'
  <2>1. CASE Pay(b)             BY <2>1 DEF Pay, Complete
  <2>2. CASE CompleteUnpaid(b)  BY <2>2 DEF CompleteUnpaid, Complete
  <2>3. CASE SessionTimesOut(b) BY <2>3 DEF SessionTimesOut
  <2>4. CASE HoldLapses(b)      BY <2>4 DEF HoldLapses
  <2> QED  BY <1>3, <2>1, <2>2, <2>3, <2>4 DEF EnvironmentStep
<1>5. ASSUME NEW b \in Bookings, EventStep(b) PROVE Safe'
  <2>1. CASE ReceiveEvent(b)   BY <2>1 DEF ReceiveEvent
  <2>2. CASE ReadEvent(b)      BY <2>2 DEF ReadEvent
  <2>3. CASE DispatchEvent(b)
    <3>1. CASE session[b] = "paid" /\ ConfirmPaid(b)
      BY <2>3, <3>1 DEF DispatchEvent, ConfirmPaid, Move
    <3>2. CASE session[b] = "unpaid" /\ UNCHANGED <<rows, escalated>>
      BY <2>3, <3>2 DEF DispatchEvent
    <3>3. CASE session[b] = "expired" /\ MarkPaymentFailed(b) /\ UNCHANGED escalated
      BY <2>3, <3>3 DEF DispatchEvent, MarkPaymentFailed, Move
    <3> QED  BY <2>3, <3>1, <3>2, <3>3 DEF DispatchEvent, Dispatch
  <2>4. CASE MarkProcessed(b)  BY <2>4 DEF MarkProcessed
  <2>5. CASE HandlerDies(b)    BY <2>5 DEF HandlerDies
  <2> QED  BY <1>5, <2>1, <2>2, <2>3, <2>4, <2>5 DEF EventStep
<1>6. ASSUME NEW b \in Bookings, SagaStep(b) PROVE Safe'
  <2>1. CASE BeginExpiry(b)    BY <2>1 DEF BeginExpiry, Move
  <2>2. CASE CompleteExpiry(b) BY <2>2 DEF CompleteExpiry
  <2>3. CASE ExpireSession(b)  BY <2>3 DEF ExpireSession, Verdict
  <2>4. CASE Release(b)        BY <2>4 DEF Release, Move
  <2>5. CASE ConfirmInstead(b) BY <2>5 DEF ConfirmInstead, ConfirmPaid, Move
  <2>6. CASE SagaDies(b)       BY <2>6 DEF SagaDies
  <2> QED  BY <1>6, <2>1, <2>2, <2>3, <2>4, <2>5, <2>6 DEF SagaStep
<1> QED  BY <1>1, <1>2, <1>3, <1>5, <1>6 DEF Next

\* While no checkout outlives its hold: a released slot was not paid for and can
\* no longer be, a confirmation happens once, and it is paid for.
THEOREM SagaSafe ==
    ASSUME ~LateCheckout
    PROVE  Spec => [](SagaInvariant /\ ReleasedIsUnpayable /\ ConfirmedOnce /\ KeptIsPaidFor)
<1>1. IInv => SagaInvariant /\ ReleasedIsUnpayable /\ ConfirmedOnce /\ KeptIsPaidFor
  BY DEF IInv
<1> QED  BY <1>1, InitIInv, IInvStep, PTL DEF Spec

\* While no checkout outlives its hold, every online booking that is kept was
\* paid for (confirmPaid, completeExpiry).
THEOREM KeptIsPaid == ASSUME ~LateCheckout PROVE Spec => []KeptIsPaidFor
<1>1. IInv => KeptIsPaidFor
  BY DEF IInv
<1> QED  BY <1>1, InitIInv, IInvStep, PTL DEF Spec

-----------------------------------------------------------------------------
\* No step but a reservation lets a booking occupy a slot it did not occupy.
LEMMA OccupiedByReservation ==
    ASSUME TypeOK, NEW b \in Bookings, NEW c \in Bookings, status'[c] \in Blocking,
           ApiStep(b) \/ EnvironmentStep(b) \/ EventStep(b) \/ SagaStep(b)
    PROVE  status[c] \in Blocking \/ (c = b /\ SlotFree(b) /\ status' = [status EXCEPT ![b] = status'[b]])
<1> USE DEF TypeOK, rows, Blocking, Terminal, Absent, CanTransition, Transitions
<1>1. CASE ReserveOnline(b) \/ ReserveOffice(b)
  BY <1>1 DEF ReserveOnline, ReserveOffice, Move
<1>2. CASE Resume(b) \/ CreateSession(b) \/ Attach(b) \/ AbandonCheckout(b)
  BY <1>2 DEF Resume, CreateSession, Attach, AbandonCheckout
<1>3. CASE EnvironmentStep(b)
  BY <1>3 DEF EnvironmentStep, Pay, CompleteUnpaid, Complete, SessionTimesOut, HoldLapses
<1>4. ASSUME ConfirmPaid(b) \/ MarkPaymentFailed(b) PROVE status[c] \in Blocking
  BY <1>4 DEF ConfirmPaid, MarkPaymentFailed, Move
<1>5. CASE EventStep(b)
  BY <1>4, <1>5 DEF EventStep, ReceiveEvent, ReadEvent, DispatchEvent, Dispatch,
                    MarkProcessed, HandlerDies
<1>6. CASE SagaStep(b)
  BY <1>4, <1>6 DEF SagaStep, BeginExpiry, CompleteExpiry, ExpireSession, Release,
                    ConfirmInstead, SagaDies, Move
<1> QED  BY <1>1, <1>2, <1>3, <1>5, <1>6 DEF ApiStep

\* Overlapping bookings never both occupy the calendar, for any overlaps and
\* also where checkouts outlive their holds.
THEOREM NeverDoubleBooked == Spec => []NoDoubleBooking
<1> DEFINE Inv == TypeOK /\ NoDoubleBooking
<1>1. Init => Inv
  BY DEF Init, TypeOK, NoDoubleBooking, Conflicts, Statuses, Blocking, Terminal, Absent
<1>2. Inv /\ [Next]_vars => Inv'
  <2> SUFFICES ASSUME Inv, [Next]_vars PROVE NoDoubleBooking'
    BY TypeStep
  <2>1. CASE UNCHANGED vars
    BY <2>1 DEF vars, rows, NoDoubleBooking, Conflicts
  <2>2. ASSUME NEW b \in Bookings,
               ApiStep(b) \/ EnvironmentStep(b) \/ EventStep(b) \/ SagaStep(b)
        PROVE  NoDoubleBooking'
    <3> SUFFICES ASSUME NEW c \in Bookings, NEW d \in Conflicts(c),
                        status'[c] \in Blocking, status'[d] \in Blocking
                 PROVE  FALSE
      BY DEF NoDoubleBooking, Conflicts
    <3>1. d \in Bookings /\ c # d /\ c \in Conflicts(d)
      <4>1. {c, d} = {d, c}
        OBVIOUS
      <4> QED  BY <4>1 DEF Conflicts
    <3>2. status[c] \in Blocking \/ (c = b /\ SlotFree(b) /\ status' = [status EXCEPT ![b] = status'[b]])
      BY <2>2, OccupiedByReservation
    <3>3. status[d] \in Blocking \/ (d = b /\ SlotFree(b) /\ status' = [status EXCEPT ![b] = status'[b]])
      BY <2>2, <3>1, OccupiedByReservation
    <3>4. ~(status[c] \in Blocking /\ status[d] \in Blocking)
      BY DEF NoDoubleBooking
    <3> QED  BY <3>1, <3>2, <3>3, <3>4 DEF SlotFree, TypeOK
  <2> QED  BY <2>1, <2>2 DEF Next
<1>3. Inv => NoDoubleBooking
  OBVIOUS
<1> QED  BY <1>1, <1>2, <1>3, PTL DEF Spec

-----------------------------------------------------------------------------
(***************************************************************************)
(* The saga implements SlotPromise.  A step that changes neither a status  *)
(* nor whether a session is paid is a stutter; of the others each maps to  *)
(* one step of the promise.                                                *)
(***************************************************************************)

LEMMA PromiseStutters ==
    ASSUME status' = status,
           \A c \in Bookings : (session'[c] = "paid") <=> (session[c] = "paid")
    PROVE  UNCHANGED Promise!vars
BY DEF Promise!vars, PromiseOf

\* Settling a held booking keeps the promise if it was paid and lets it go if
\* it was not; settling a settled one changes nothing.
LEMMA SettleStep ==
    ASSUME IInv, NEW b \in Bookings, UNCHANGED session,
           \/ ConfirmPaid(b) /\ session[b] = "paid"
           \/ MarkPaymentFailed(b) /\ session[b] = "expired"
    PROVE  Promise!Next \/ UNCHANGED Promise!vars
<1> USE DEF IInv, TypeOK, rows, PromiseOf, Statuses, Blocking, Terminal, Absent
<1>1. CASE status' = status
  BY <1>1, PromiseStutters
<1>2. CASE /\ status[b] \in {"PENDING_PAYMENT", "EXPIRING"}
           /\ status' = [status EXCEPT ![b] = "CONFIRMED"]
           /\ session[b] = "paid"
  <2>1. Promise!Keep(b)
    BY <1>2 DEF Promise!Keep
  <2> QED  BY <2>1 DEF Promise!Next
<1>3. CASE /\ status[b] = "PENDING_PAYMENT"
           /\ status' = [status EXCEPT ![b] = "PAYMENT_FAILED"]
           /\ session[b] = "expired"
  <2>1. Promise!Release(b)
    BY <1>3 DEF Promise!Release
  <2> QED  BY <2>1 DEF Promise!Next
<1> QED  BY <1>1, <1>2, <1>3 DEF ConfirmPaid, MarkPaymentFailed, Move

LEMMA RefinementStep ==
    ASSUME IInv, [Next]_vars
    PROVE  Promise!Next \/ UNCHANGED Promise!vars
<1> USE DEF IInv, TypeOK, rows, provider
<1>1. CASE UNCHANGED vars
  BY <1>1, PromiseStutters DEF vars
<1>2. ASSUME NEW b \in Bookings, ReserveOnline(b) \/ ReserveOffice(b)
      PROVE  Promise!Next \/ UNCHANGED Promise!vars
  <2>1. \E to \in {"PENDING_PAYMENT", "CONFIRMED"} : status' = [status EXCEPT ![b] = to]
    BY <1>2 DEF ReserveOnline, ReserveOffice, Move
  <2>2. UNCHANGED session
    BY <1>2 DEF ReserveOnline, ReserveOffice
  <2>3. status[b] = Absent /\ SlotFree(b)
    BY <1>2 DEF ReserveOnline, ReserveOffice
  <2>4. \A c \in Promise!Conflicts(b) : PromiseOf(c) \notin Promise!Alive
    BY <2>3 DEF SlotFree, Conflicts, Promise!Conflicts, Promise!Alive, PromiseOf, Blocking, Absent
  <2> DEFINE P == [c \in Bookings |-> PromiseOf(c)]
  <2>5. \E p \in Promise!Alive : P' = [P EXCEPT ![b] = p]
    <3>1. PICK to \in {"PENDING_PAYMENT", "CONFIRMED"} : status' = [status EXCEPT ![b] = to]
      BY <2>1
    <3>2. CASE to = "PENDING_PAYMENT"
      <4>1. P' = [P EXCEPT ![b] = "held"]
        BY <3>1, <3>2 DEF PromiseOf, Absent
      <4> QED  BY <4>1 DEF Promise!Alive
    <3>3. CASE to = "CONFIRMED"
      <4>1. P' = [P EXCEPT ![b] = "kept"]
        BY <3>1, <3>3 DEF PromiseOf, Absent
      <4> QED  BY <4>1 DEF Promise!Alive
    <3> QED  BY <3>2, <3>3
  <2>6. P[b] = "none" /\ \A c \in Promise!Conflicts(b) : P[c] \notin Promise!Alive
    <3>1. P[b] = "none"
      BY <2>3 DEF PromiseOf, Absent
    <3>2. \A c \in Promise!Conflicts(b) : P[c] = PromiseOf(c)
      BY DEF Promise!Conflicts
    <3> QED  BY <2>4, <3>1, <3>2
  <2>7. Promise!Hold(b)
    BY <2>2, <2>5, <2>6 DEF Promise!Hold
  <2> QED  BY <2>7 DEF Promise!Next
<1>3. ASSUME NEW b \in Bookings,
             Resume(b) \/ CreateSession(b) \/ Attach(b) \/ AbandonCheckout(b)
      PROVE  UNCHANGED Promise!vars
  BY <1>3, PromiseStutters DEF Resume, CreateSession, Attach, AbandonCheckout
<1>4. ASSUME NEW b \in Bookings, Pay(b) PROVE Promise!Next \/ UNCHANGED Promise!vars
  <2>1. status[b] \in {"PENDING_PAYMENT", "EXPIRING"}
    BY <1>4 DEF Pay, Complete, Payable, SagaInvariant, KeptIsPaidFor, ReleasedIsUnpayable, Absent
  <2>2. Promise!Charge(b)
    BY <1>4, <2>1 DEF Pay, Complete, Promise!Charge, PromiseOf, Absent
  <2> QED  BY <2>2 DEF Promise!Next
<1>5. ASSUME NEW b \in Bookings, CompleteUnpaid(b) \/ SessionTimesOut(b) \/ HoldLapses(b)
      PROVE  UNCHANGED Promise!vars
  BY <1>5, PromiseStutters DEF CompleteUnpaid, Complete, Payable, SessionTimesOut, HoldLapses
<1>6. ASSUME NEW b \in Bookings, EventStep(b) PROVE Promise!Next \/ UNCHANGED Promise!vars
  <2>1. CASE DispatchEvent(b)
    <3>1. UNCHANGED session
      BY <2>1 DEF DispatchEvent
    <3>2. CASE session[b] = "unpaid" /\ UNCHANGED rows
      BY <3>1, <3>2, PromiseStutters
    <3> QED  BY <2>1, <3>1, <3>2, SettleStep DEF DispatchEvent, Dispatch
  <2>2. CASE ReceiveEvent(b) \/ ReadEvent(b) \/ MarkProcessed(b) \/ HandlerDies(b)
    BY <2>2, PromiseStutters DEF ReceiveEvent, ReadEvent, MarkProcessed, HandlerDies
  <2> QED  BY <1>6, <2>1, <2>2 DEF EventStep
<1>7. ASSUME NEW b \in Bookings, BeginExpiry(b) PROVE UNCHANGED Promise!vars
  BY <1>7 DEF BeginExpiry, Move, Promise!vars, PromiseOf, Absent
<1>8. ASSUME NEW b \in Bookings, Release(b) PROVE Promise!Next \/ UNCHANGED Promise!vars
  <2>1. UNCHANGED session
    BY <1>8 DEF Release
  <2>2. CASE status[b] = "EXPIRING"
    <3>1. session[b] # "paid" /\ status' = [status EXCEPT ![b] = "EXPIRED"]
      BY <1>8, <2>2 DEF Release, Move, SagaInvariant
    <3>2. Promise!Release(b)
      BY <2>1, <2>2, <3>1 DEF Promise!Release, PromiseOf, Absent
    <3> QED  BY <3>2 DEF Promise!Next
  <2>3. CASE status[b] # "EXPIRING"
    BY <1>8, <2>1, <2>3, PromiseStutters DEF Release
  <2> QED  BY <2>2, <2>3
<1>9. ASSUME NEW b \in Bookings, ConfirmInstead(b) PROVE Promise!Next \/ UNCHANGED Promise!vars
  BY <1>9, SettleStep DEF ConfirmInstead, SagaInvariant
<1>10. ASSUME NEW b \in Bookings, CompleteExpiry(b) \/ ExpireSession(b) \/ SagaDies(b)
       PROVE  UNCHANGED Promise!vars
  BY <1>10, PromiseStutters DEF CompleteExpiry, ExpireSession, SagaDies
<1> QED  BY <1>1, <1>2, <1>3, <1>4, <1>5, <1>6, <1>7, <1>8, <1>9, <1>10
         DEF Next, ApiStep, EnvironmentStep, SagaStep

\* While no checkout outlives its hold, the saga keeps the promise: a customer
\* is charged only while the slot is held for them, and a charged hold is kept.
THEOREM SagaKeepsPromise ==
    ASSUME ~LateCheckout
    PROVE  Spec => RefinesPromise
<1>1. Init => Promise!Init
  BY ZenonT(60) DEF Init, Promise!Init, PromiseOf, Absent
<1>2. IInv /\ [Next]_vars => [Promise!Next]_(Promise!vars)
  BY RefinementStep
<1> QED  BY <1>1, <1>2, InitIInv, IInvStep, PTL DEF Spec, RefinesPromise, Promise!Spec

=============================================================================
