-------------------------- MODULE DecisionsProofs ---------------------------
(***************************************************************************)
(* What is proved about Decisions for every set of bookings, requests and  *)
(* slots.  No slot is ever taken twice.  And if no booking is written      *)
(* while its new time is being approved, terminal statuses are final, an   *)
(* appointment stands once, and what was announced and decided is so.      *)
(***************************************************************************)
EXTENDS Decisions, TLAPS

-----------------------------------------------------------------------------
(***************************************************************************)
(* The exclusion constraint, with or without disturbed approvals.          *)
(***************************************************************************)

\* A request is about a booking that exists; only a new time not yet decided is
\* held for approval.
Filed ==
    \A q \in Requests :
        /\ about[q] # None => status[about[q]] # Absent
        /\ about[q] = None => decision[q] = "PENDING"
        /\ approving[q] => IsReschedule(q) /\ decision[q] = "PENDING"

Occupied == TypeOK /\ Filed /\ NoDoubleBooking

LEMMA OccupiedInit == Init => Occupied
  BY NoneAssumption
  DEF Init, Occupied, TypeOK, Filed, NoDoubleBooking, Statuses, Blocking, Terminal, Absent,
      IsReschedule

\* The type invariant is inductive, given the booking an approval writes exists.
LEMMA TypeStep == TypeOK /\ Filed /\ [Next]_vars => TypeOK'
<1> SUFFICES ASSUME TypeOK, Filed, [Next]_vars PROVE TypeOK'
  OBVIOUS
<1> USE NoneAssumption DEF TypeOK, rows, requests, progress, Move, Decide
<1>1. CASE UNCHANGED vars
  BY <1>1 DEF vars
<1>2. ASSUME NEW b \in Bookings, NEW s \in Slots, Book(b, s) PROVE TypeOK'
  BY <1>2 DEF Book, Statuses, Blocking, Absent
<1>3. ASSUME NEW b \in Bookings, CancelByCustomer(b) PROVE TypeOK'
  BY <1>3 DEF CancelByCustomer
<1>4. ASSUME NEW b \in Bookings, CancelImmediately(b) PROVE TypeOK'
  BY <1>4 DEF CancelImmediately, Statuses, Terminal, Absent
<1>5. ASSUME NEW b \in Bookings, NEW q \in Requests, OpenRequest(b, q) PROVE TypeOK'
  BY <1>5 DEF OpenRequest
<1>6. ASSUME NEW b \in Bookings, NEW q \in Requests, NEW s \in Slots, RequestByCustomer(b, q, s)
      PROVE  TypeOK'
  BY <1>6 DEF RequestByCustomer
<1>7. ASSUME NEW b \in Bookings, CancelByBusiness(b) PROVE TypeOK'
  BY <1>7 DEF CancelByBusiness, CloseOpenRequests, Statuses, Terminal, Absent
<1>8. ASSUME NEW b \in Bookings, NEW to \in Terminal, Settle(b, to) PROVE TypeOK'
  <2>1. status[b] # Absent /\ to # Absent /\ to \in Statuses
    BY <1>8, ZenonT(60) DEF Settle, CanTransition, Transitions, Statuses, Terminal, Absent
  <2>2. /\ status' = [status EXCEPT ![b] = to]
        /\ UNCHANGED <<slot, replaces, root, live, canceled, requests, progress, phase>>
    BY <1>8 DEF Settle
  <2> QED  BY <2>1, <2>2
<1>9. ASSUME NEW q \in Requests, RejectCancellation(q) \/ RejectReschedule(q) PROVE TypeOK'
  BY <1>9 DEF RejectCancellation, RejectReschedule
<1>10. ASSUME NEW q \in Requests, ApproveCancellation(q) PROVE TypeOK'
  <2>1. about[q] \in Bookings /\ "CANCELED_BY_CUSTOMER" \in Statuses \ {Absent}
    BY <1>10 DEF ApproveCancellation, IsCancellation, Statuses, Terminal, Absent
  <2>2. /\ status[about[q]] # Absent
        /\ status' = [status EXCEPT ![about[q]] = "CANCELED_BY_CUSTOMER"]
        /\ canceled' = [canceled EXCEPT ![about[q]] = @ + 1]
        /\ decision' = [decision EXCEPT ![q] = "APPROVED"]
        /\ UNCHANGED <<slot, replaces, root, live, about, wants, progress, phase>>
    BY <1>10 DEF ApproveCancellation, Absent
  <2> QED  BY <2>1, <2>2
<1>11. ASSUME NEW q \in Requests, BeginApproval(q) \/ AbortApproval(q) PROVE TypeOK'
  <2>1. /\ \E held \in BOOLEAN : approving' = [approving EXCEPT ![q] = held]
        /\ UNCHANGED <<rows, requests, asked, phase>>
    BY <1>11 DEF BeginApproval, AbortApproval
  <2> QED  BY <2>1
<1>12. ASSUME NEW q \in Requests, NEW c \in Bookings, CommitApproval(q, c) PROVE TypeOK'
  <2>1. /\ about[q] \in Bookings /\ wants[q] \in Slots
        /\ status[about[q]] # Absent /\ status[c] = Absent
    BY <1>12 DEF Filed, CommitApproval, IsReschedule, InsertReplacement
  <2>2. Statuses \cup {Absent} = {"PENDING_PAYMENT", "EXPIRING", "CONFIRMED", "EXPIRED",
            "PAYMENT_FAILED", "CANCELED_BY_CUSTOMER", "CANCELED_BY_BUSINESS", "COMPLETED",
            "NO_SHOW", "ABSENT"}
    BY DEF Statuses, Blocking, Terminal, Absent
  <2> QED  BY <1>12, <2>1, <2>2 DEF CommitApproval, InsertReplacement, Rotate, Absent
<1>13. ASSUME NEW s \in Slots, TimePasses(s) PROVE TypeOK'
  BY <1>13 DEF TimePasses
<1> QED
  BY <1>1, <1>2, <1>3, <1>4, <1>5, <1>6, <1>7, <1>8, <1>9, <1>10, <1>11, <1>12, <1>13 DEF Next

\* Requests keep to existing bookings, and the constraint to one booking a slot.
LEMMA OccupiedStep == Occupied /\ [Next]_vars => Occupied'
<1> SUFFICES ASSUME Occupied, [Next]_vars PROVE Filed' /\ NoDoubleBooking'
  BY TypeStep DEF Occupied
<1> USE NoneAssumption
    DEF Occupied, TypeOK, Filed, NoDoubleBooking, IsReschedule, IsCancellation,
        rows, requests, progress, Decide
<1>1. CASE UNCHANGED vars
  BY <1>1 DEF vars
<1>2. ASSUME NEW b \in Bookings, NEW s \in Slots, Book(b, s) PROVE Filed' /\ NoDoubleBooking'
  BY <1>2 DEF Book, Move, SlotFree, Blocking, Absent
<1>3. ASSUME NEW b \in Bookings, CancelByCustomer(b) PROVE Filed' /\ NoDoubleBooking'
  BY <1>3 DEF CancelByCustomer
<1>4. ASSUME NEW b \in Bookings, CancelImmediately(b) PROVE Filed' /\ NoDoubleBooking'
  BY <1>4 DEF CancelImmediately, Move, Blocking, Absent
<1>5. ASSUME NEW b \in Bookings, NEW q \in Requests, OpenRequest(b, q)
      PROVE  Filed' /\ NoDoubleBooking'
  BY <1>5 DEF OpenRequest, Absent
<1>6. ASSUME NEW b \in Bookings, NEW q \in Requests, NEW s \in Slots, RequestByCustomer(b, q, s)
      PROVE  Filed' /\ NoDoubleBooking'
  BY <1>6 DEF RequestByCustomer, Absent
<1>7. ASSUME NEW b \in Bookings, CancelByBusiness(b) PROVE Filed' /\ NoDoubleBooking'
  BY <1>7 DEF CancelByBusiness, CloseOpenRequests, Pending, Move, Blocking, Absent
<1>8. ASSUME NEW b \in Bookings, NEW to \in Terminal, Settle(b, to)
      PROVE  Filed' /\ NoDoubleBooking'
  BY <1>8 DEF Settle, Move, Blocking, Absent
<1>9. ASSUME NEW q \in Requests, RejectCancellation(q) \/ RejectReschedule(q)
      PROVE  Filed' /\ NoDoubleBooking'
  BY <1>9 DEF RejectCancellation, RejectReschedule
<1>10. ASSUME NEW q \in Requests, ApproveCancellation(q) PROVE Filed' /\ NoDoubleBooking'
  BY <1>10 DEF ApproveCancellation, Move, Blocking, Absent
<1>11. ASSUME NEW q \in Requests, BeginApproval(q) \/ AbortApproval(q)
       PROVE  Filed' /\ NoDoubleBooking'
  BY <1>11 DEF BeginApproval, AbortApproval
<1>12. ASSUME NEW q \in Requests, NEW c \in Bookings, CommitApproval(q, c)
       PROVE  Filed' /\ NoDoubleBooking'
  BY <1>12 DEF CommitApproval, InsertReplacement, SlotFree, Blocking, Absent
<1>13. ASSUME NEW s \in Slots, TimePasses(s) PROVE Filed' /\ NoDoubleBooking'
  BY <1>13 DEF TimePasses
<1> QED
  BY <1>1, <1>2, <1>3, <1>4, <1>5, <1>6, <1>7, <1>8, <1>9, <1>10, <1>11, <1>12, <1>13 DEF Next

\* Every variable keeps its type, and a booking that exists its slot and its root.
THEOREM TypeCorrect == Spec => []TypeOK
<1>1. Occupied => TypeOK
  BY DEF Occupied
<1> QED  BY <1>1, OccupiedInit, OccupiedStep, PTL DEF Spec

\* No two standing bookings share a slot, whatever happens to a booking while its
\* new time is being approved (bookings_no_overlap, calendar_constraints:42-46).
THEOREM NeverDoubleBooked == Spec => []NoDoubleBooking
<1>1. Occupied => NoDoubleBooking
  BY DEF Occupied
<1> QED  BY <1>1, OccupiedInit, OccupiedStep, PTL DEF Spec

-----------------------------------------------------------------------------
(***************************************************************************)
(* The bookings, when no approval is disturbed.  Whatever the operation,   *)
(* the rows do one of three things or nothing.                             *)
(***************************************************************************)
Appears(b, s) ==
    /\ status[b] = Absent /\ SlotFree(s)
    /\ status' = [status EXCEPT ![b] = "CONFIRMED"]
    /\ slot' = [slot EXCEPT ![b] = s]
    /\ root' = [root EXCEPT ![b] = b]
    /\ live' = [live EXCEPT ![b] = TRUE]
    /\ UNCHANGED <<replaces, canceled>>

Ends(b, to) ==
    /\ status[b] = "CONFIRMED"
    /\ status' = [status EXCEPT ![b] = to]
    /\ \/ UNCHANGED canceled
       \/ /\ to \in {"CANCELED_BY_CUSTOMER", "CANCELED_BY_BUSINESS"}
          /\ canceled' = [canceled EXCEPT ![b] = @ + 1]
    /\ UNCHANGED <<slot, replaces, root, live>>

Moves(b, c, s) ==
    /\ status[b] = "CONFIRMED"
    /\ InsertReplacement(b, c, s)
    /\ Rotate(b, c)
    /\ UNCHANGED canceled

RowsStep ==
    \/ UNCHANGED rows
    \/ \E b \in Bookings :
         \/ \E s \in Slots : Appears(b, s)
         \/ \E to \in Terminal : Ends(b, to)
         \/ \E c \in Bookings, s \in Slots : Moves(b, c, s)

RowsSound ==
    /\ \A b \in Bookings : Sound(b)
    /\ OneAppointment
    /\ CancellationIsMeant

\* Links, announcements and the one standing row of an appointment stay together.
LEMMA RowsKept ==
    ASSUME TypeOK, RowsSound, RowsStep
    PROVE  RowsSound'
<1> USE NoneAssumption
    DEF TypeOK, RowsSound, Sound, OneAppointment, CancellationIsMeant, Replacements
<1>1. CASE UNCHANGED rows
  BY <1>1 DEF rows
<1>2. ASSUME NEW b \in Bookings, NEW s \in Slots, Appears(b, s) PROVE RowsSound'
  <2>1. (\A a \in Bookings : Sound(a))'
    BY <1>2 DEF Appears, Terminal, Absent
  <2>2. OneAppointment'
    BY <1>2 DEF Appears, Terminal, Absent
  <2>3. CancellationIsMeant'
    BY <1>2 DEF Appears, Absent
  <2> QED  BY <2>1, <2>2, <2>3
<1>3. ASSUME NEW b \in Bookings, NEW to \in Terminal, Ends(b, to) PROVE RowsSound'
  <2>1. (\A a \in Bookings : Sound(a))'
    BY <1>3 DEF Ends, Terminal, Absent
  <2>2. OneAppointment'
    BY <1>3 DEF Ends, Terminal, Absent
  <2>3. CancellationIsMeant'
    BY <1>3 DEF Ends, Absent
  <2> QED  BY <2>1, <2>2, <2>3
<1>4. ASSUME NEW b \in Bookings, NEW c \in Bookings, NEW s \in Slots, Moves(b, c, s)
      PROVE  RowsSound'
  <2>0. b # c /\ root[b] \in Bookings /\ canceled[b] = 0 /\ canceled[c] = 0
    BY <1>4 DEF Moves, InsertReplacement, Absent
  <2>1. (\A a \in Bookings : Sound(a))'
    BY <1>4, <2>0 DEF Moves, InsertReplacement, Terminal, Absent
  <2>2. OneAppointment'
    BY <1>4, <2>0 DEF Moves, InsertReplacement, Rotate, Terminal, Absent
  <2>3. CancellationIsMeant'
    BY <1>4, <2>0 DEF Moves, InsertReplacement, Absent
  <2> QED  BY <2>1, <2>2, <2>3
<1> QED  BY <1>1, <1>2, <1>3, <1>4 DEF RowsStep

-----------------------------------------------------------------------------
(***************************************************************************)
(* The requests, when no approval is disturbed.                            *)
(***************************************************************************)
RequestsSound == (\A q \in Requests : Grounded(q)) /\ DecisionIsCarriedOut

Sure == Occupied /\ RowsSound /\ RequestsSound

LEMMA SureInit == Init => Sure
  BY OccupiedInit, NoneAssumption
  DEF Init, Sure, RowsSound, RequestsSound, Sound, Grounded, OneAppointment, CancellationIsMeant,
      DecisionIsCarriedOut, Replacements, IsReschedule, Absent

\* A booking that ends outside an approval had none under way, and was its own.
LEMMA SureStep ==
    ASSUME ~Disturbed, Sure, [Next]_vars
    PROVE  RowsStep /\ RequestsSound'
<1> USE NoneAssumption
    DEF Sure, Occupied, TypeOK, RowsSound, RequestsSound, Grounded, DecisionIsCarriedOut,
        IsReschedule, IsCancellation, Decide, rows, requests, progress
<1>1. CASE UNCHANGED vars
  BY <1>1 DEF vars, RowsStep, Replacements
<1>2. ASSUME NEW b \in Bookings, NEW s \in Slots, Book(b, s) PROVE RowsStep /\ RequestsSound'
  <2>1. RowsStep
    BY <1>2 DEF Book, Move, RowsStep, Appears
  <2>2. \A q \in Requests : Grounded(q)'
    BY <1>2 DEF Book, Move, Absent
  <2>3. DecisionIsCarriedOut'
    BY <1>2 DEF Book, Move, Sound, Replacements, Absent
  <2> QED  BY <2>1, <2>2, <2>3
<1>3. ASSUME NEW b \in Bookings, CancelByCustomer(b) PROVE RowsStep /\ RequestsSound'
  BY <1>3 DEF CancelByCustomer, RowsStep, Replacements
<1>4. ASSUME NEW b \in Bookings, CancelImmediately(b) PROVE RowsStep /\ RequestsSound'
  <2>1. RowsStep
    BY <1>4 DEF CancelImmediately, Move, RowsStep, Ends, Terminal
  <2>2. \A q \in Requests : Grounded(q)'
    BY <1>4 DEF CancelImmediately, Move, Undisturbed, Absent
  <2>3. DecisionIsCarriedOut'
    BY <1>4 DEF CancelImmediately, Replacements
  <2> QED  BY <2>1, <2>2, <2>3
<1>5. ASSUME NEW b \in Bookings, NEW q \in Requests, OpenRequest(b, q)
      PROVE  RowsStep /\ RequestsSound'
  <2>1. RowsStep
    BY <1>5 DEF OpenRequest, RowsStep
  <2>2. \A p \in Requests : Grounded(p)'
    BY <1>5 DEF OpenRequest, Pending, Absent
  <2>3. DecisionIsCarriedOut'
    BY <1>5 DEF OpenRequest, Replacements
  <2> QED  BY <2>1, <2>2, <2>3
<1>6. ASSUME NEW b \in Bookings, NEW q \in Requests, NEW s \in Slots, RequestByCustomer(b, q, s)
      PROVE  RowsStep /\ RequestsSound'
  <2>1. RowsStep
    BY <1>6 DEF RequestByCustomer, RowsStep
  <2>2. \A p \in Requests : Grounded(p)'
    BY <1>6 DEF RequestByCustomer, Pending, Absent
  <2>3. DecisionIsCarriedOut'
    BY <1>6 DEF RequestByCustomer, Replacements
  <2> QED  BY <2>1, <2>2, <2>3
<1>7. ASSUME NEW b \in Bookings, CancelByBusiness(b) PROVE RowsStep /\ RequestsSound'
  <2>1. RowsStep
    BY <1>7 DEF CancelByBusiness, Move, RowsStep, Ends, Terminal
  <2>2. \A q \in Requests : Grounded(q)'
    BY <1>7 DEF CancelByBusiness, CloseOpenRequests, Pending, Move, Absent
  <2>3. DecisionIsCarriedOut'
    BY <1>7 DEF CancelByBusiness, CloseOpenRequests, Pending, Replacements
  <2> QED  BY <2>1, <2>2, <2>3
<1>8. ASSUME NEW b \in Bookings, NEW to \in Terminal, Settle(b, to)
      PROVE  RowsStep /\ RequestsSound'
  <2>0. status[b] = "CONFIRMED"
    BY <1>8, ZenonT(60) DEF Settle, Move, CanTransition, Transitions, Terminal, Absent
  <2>1. RowsStep
    BY <1>8, <2>0 DEF Settle, Move, RowsStep, Ends
  <2>2. \A q \in Requests : Grounded(q)'
    BY <1>8, <2>0 DEF Settle, Move, Undisturbed, Absent
  <2>3. DecisionIsCarriedOut'
    BY <1>8 DEF Settle, Replacements
  <2> QED  BY <2>1, <2>2, <2>3
<1>9. ASSUME NEW q \in Requests, RejectCancellation(q) \/ RejectReschedule(q)
      PROVE  RowsStep /\ RequestsSound'
  BY <1>9 DEF RejectCancellation, RejectReschedule, RowsStep, Replacements
<1>10. ASSUME NEW q \in Requests, ApproveCancellation(q) PROVE RowsStep /\ RequestsSound'
  <2>1. RowsStep
    BY <1>10 DEF ApproveCancellation, Move, RowsStep, Ends, Terminal
  <2>2. \A p \in Requests : Grounded(p)'
    BY <1>10 DEF ApproveCancellation, Move, Undisturbed, Absent
  <2>3. DecisionIsCarriedOut'
    BY <1>10 DEF ApproveCancellation, Replacements
  <2> QED  BY <2>1, <2>2, <2>3
<1>11. ASSUME NEW q \in Requests, BeginApproval(q) \/ AbortApproval(q)
       PROVE  RowsStep /\ RequestsSound'
  BY <1>11 DEF BeginApproval, AbortApproval, RowsStep, Replacements
<1>12. ASSUME NEW q \in Requests, NEW c \in Bookings, CommitApproval(q, c)
       PROVE  RowsStep /\ RequestsSound'
  <2>0. /\ status[c] = Absent /\ status[about[q]] = "CONFIRMED"
        /\ about[q] \in Bookings /\ wants[q] \in Slots
    BY <1>12 DEF CommitApproval, InsertReplacement
  <2>1. RowsStep
    BY <1>12, <2>0 DEF CommitApproval, RowsStep, Moves
  <2>2. \A p \in Requests : Grounded(p)'
    BY <1>12, <2>0 DEF CommitApproval, InsertReplacement, Absent
  <2>3. DecisionIsCarriedOut'
    BY <1>12, <2>0 DEF CommitApproval, InsertReplacement, Sound, Replacements, Absent
  <2> QED  BY <2>1, <2>2, <2>3
<1>13. ASSUME NEW s \in Slots, TimePasses(s) PROVE RowsStep /\ RequestsSound'
  BY <1>13 DEF TimePasses, RowsStep, Replacements
<1> QED
  BY <1>1, <1>2, <1>3, <1>4, <1>5, <1>6, <1>7, <1>8, <1>9, <1>10, <1>11, <1>12, <1>13 DEF Next

LEMMA SureInvariant == ASSUME ~Disturbed PROVE Spec => []Sure
<1>1. ~Disturbed /\ Sure /\ [Next]_vars => Sure'
  BY SureStep, OccupiedStep, RowsKept DEF Sure, Occupied
<1>2. Sure /\ [Next]_vars => Sure'
  BY <1>1
<1> QED  BY <1>2, SureInit, PTL DEF Spec

-----------------------------------------------------------------------------
(***************************************************************************)
(* The theorems about undisturbed approvals.                               *)
(***************************************************************************)

\* A moved appointment stands once, with one working link
\* (reschedule.service.ts:310-334, management-token.service.ts:97-110).
THEOREM StandsOnce == ASSUME ~Disturbed PROVE Spec => []OneAppointment
<1>1. Sure => OneAppointment
  BY DEF Sure, RowsSound
<1> QED  BY <1>1, SureInvariant, PTL

\* A canceled booking was announced once and has no replacement
\* (cancellation.service.ts:138-208, 352-450, 459-552).
THEOREM AnnouncedAndMeant == ASSUME ~Disturbed PROVE Spec => []CancellationIsMeant
<1>1. Sure => CancellationIsMeant
  BY DEF Sure, RowsSound
<1> QED  BY <1>1, SureInvariant, PTL

\* Approved requests had their effect, also those a business cancellation closed
\* (cancellation.service.ts:561-585).
THEOREM CarriedOut == ASSUME ~Disturbed PROVE Spec => []DecisionIsCarriedOut
<1>1. Sure => DecisionIsCarriedOut
  BY DEF Sure, RequestsSound
<1> QED  BY <1>1, SureInvariant, PTL

\* What an approval read of the booking stays true until it writes.
THEOREM ReadStaysTrue == ASSUME ~Disturbed PROVE Spec => []DecisionInvariant
<1>1. Sure => DecisionInvariant
  BY DEF Sure, RowsSound, RequestsSound, DecisionInvariant
<1> QED  BY <1>1, SureInvariant, PTL

\* No transition leaves a terminal status (booking-status.machine.ts:22).
THEOREM TerminalStays == ASSUME ~Disturbed PROVE Spec => TerminalIsFinal
<1>1. ASSUME Sure, [Next]_vars
      PROVE  [\A b \in Bookings : status[b] \in Terminal => status'[b] = status[b]]_vars
  <2>1. RowsStep
    BY <1>1, SureStep
  <2>2. ASSUME NEW b \in Bookings, status[b] \in Terminal PROVE status'[b] = status[b]
    <3>1. status \in [Bookings -> Statuses \cup {Absent}] /\ status[b] \notin {Absent, "CONFIRMED"}
      BY <1>1, <2>2 DEF Sure, Occupied, TypeOK, Terminal, Absent
    <3>2. CASE UNCHANGED rows
      BY <3>2 DEF rows
    <3>3. CASE \E a \in Bookings, s \in Slots : Appears(a, s)
      BY <3>1, <3>3 DEF Appears
    <3>4. CASE \E a \in Bookings, to \in Terminal : Ends(a, to)
      BY <3>1, <3>4 DEF Ends
    <3>5. CASE \E a, c \in Bookings, s \in Slots : Moves(a, c, s)
      BY <3>1, <3>5 DEF Moves, InsertReplacement
    <3> QED  BY <2>1, <3>2, <3>3, <3>4, <3>5 DEF RowsStep
  <2> QED  BY <2>2
<1>2. Sure /\ [Next]_vars
        => [\A b \in Bookings : status[b] \in Terminal => status'[b] = status[b]]_vars
  BY <1>1
<1> QED  BY <1>2, SureInvariant, PTL DEF Spec, TerminalIsFinal

\* A request that was decided stays decided, and about the same booking
\* (reschedule.service.ts:463-511).
THEOREM DecisionStands == Spec => DecidedOnce
<1>1. ASSUME Occupied, [Next]_vars, NEW q \in Requests, decision[q] # "PENDING"
      PROVE  decision'[q] = decision[q] /\ about'[q] = about[q]
  <2> USE <1>1 DEF Occupied, TypeOK, Filed, requests, rows, progress, Decide
  <2>1. about[q] # None
    OBVIOUS
  <2>2. CASE UNCHANGED requests
    BY <2>2
  <2>3. CASE \E b \in Bookings, p \in Requests :
                \/ OpenRequest(b, p)
                \/ \E s \in Slots : RequestByCustomer(b, p, s)
    BY <2>1, <2>3 DEF OpenRequest, RequestByCustomer
  <2>4. CASE \E b \in Bookings : CancelByBusiness(b)
    BY <2>4 DEF CancelByBusiness, CloseOpenRequests, Pending
  <2>5. CASE \E p \in Requests :
                \/ RejectCancellation(p) \/ ApproveCancellation(p) \/ RejectReschedule(p)
                \/ \E c \in Bookings : CommitApproval(p, c)
    BY <2>5 DEF RejectCancellation, ApproveCancellation, RejectReschedule, CommitApproval
  <2>6. CASE \E b \in Bookings :
                \/ \E s \in Slots : Book(b, s)
                \/ CancelByCustomer(b) \/ CancelImmediately(b)
                \/ \E to \in Terminal : Settle(b, to)
    BY <2>2, <2>6 DEF Book, CancelByCustomer, CancelImmediately, Settle
  <2>7. CASE \/ \E p \in Requests : BeginApproval(p) \/ AbortApproval(p)
             \/ \E s \in Slots : TimePasses(s)
    BY <2>2, <2>7 DEF BeginApproval, AbortApproval, TimePasses
  <2> QED  BY <2>2, <2>3, <2>4, <2>5, <2>6, <2>7 DEF Next, vars
<1>2. Occupied /\ [Next]_vars
        => [\A q \in Requests : decision[q] # "PENDING" =>
              decision'[q] = decision[q] /\ about'[q] = about[q]]_vars
  BY <1>1
<1> QED  BY <1>2, OccupiedInit, OccupiedStep, PTL DEF Spec, DecidedOnce

-----------------------------------------------------------------------------
(***************************************************************************)
(* The refinement: the chain of rows from an appointment's first booking   *)
(* has one end, and that end is the appointment.                           *)
(***************************************************************************)
IsLast(a, b) == root[b] = a /\ Replacements(b) = {}

Chained ==
    \A a \in Bookings :
        /\ root[a] # None => root[root[a]] = root[a]
        /\ root[a] = a => \E b \in Bookings : IsLast(a, b)
        /\ \A b, c \in Bookings : IsLast(a, b) /\ IsLast(a, c) => b = c

LEMMA ChainedInit == Init => Chained
  BY NoneAssumption DEF Init, Chained, IsLast

LEMMA ChainedStep ==
    ASSUME TypeOK, \A b \in Bookings : Sound(b), Chained, RowsStep
    PROVE  Chained'
<1> USE NoneAssumption
<1>0. /\ root \in [Bookings -> Bookings \cup {None}]
      /\ replaces \in [Bookings -> Bookings \cup {None}]
      /\ \A b \in Bookings : (status[b] = Absent) <=> (root[b] = None)
      /\ \A b \in Bookings : root[b] # None => root[root[b]] = root[b]
      /\ \A b, d \in Bookings : replaces[d] = b => root[b] # None /\ root[d] # None
  <2>1. \A b, d \in Bookings : replaces[d] = b => root[b] # None /\ root[d] # None
    BY DEF TypeOK, Sound, Replacements, Absent
  <2> QED  BY <2>1 DEF TypeOK, Chained
<1>1. CASE UNCHANGED rows
  BY <1>1 DEF rows, Chained, IsLast, Replacements
<1>2. ASSUME NEW b \in Bookings, NEW s \in Slots, Appears(b, s) PROVE Chained'
  <2>1. /\ root[b] = None /\ replaces' = replaces /\ root' = [root EXCEPT ![b] = b]
        /\ \A d \in Bookings : replaces[d] # b
    BY <1>0, <1>2 DEF Appears
  <2>2. \A a \in Bookings : root[a] # b
    BY <1>0, <2>1
  <2>3. \A d \in Bookings : IsLast(b, d)' <=> d = b
    BY <1>0, <2>1, <2>2 DEF IsLast, Replacements
  <2>4. \A a, d \in Bookings : a # b => (IsLast(a, d)' <=> IsLast(a, d))
    BY <1>0, <2>1 DEF IsLast, Replacements
  <2>5. \A a \in Bookings : /\ root'[a] # None => root'[root'[a]] = root'[a]
                            /\ a # b /\ root'[a] = a => root[a] = a
    BY <1>0, <2>1, <2>2
  <2> QED  BY <2>3, <2>4, <2>5 DEF Chained
<1>3. ASSUME NEW b \in Bookings, NEW to \in Terminal, Ends(b, to) PROVE Chained'
  BY <1>3 DEF Ends, Chained, IsLast, Replacements
<1>4. ASSUME NEW b \in Bookings, NEW c \in Bookings, NEW s \in Slots, Moves(b, c, s)
      PROVE  Chained'
  <2>0. PICK r \in Bookings : root[b] = r
    BY <1>0, <1>4 DEF Moves, Absent
  <2>1. /\ status[b] = "CONFIRMED" /\ status[c] = Absent
        /\ replaces' = [replaces EXCEPT ![c] = b] /\ root' = [root EXCEPT ![c] = r]
    BY <1>4, <2>0 DEF Moves, InsertReplacement
  <2>2. /\ b # c /\ root[r] = r /\ root[c] = None /\ replaces[c] = None /\ r # c
        /\ IsLast(r, b)
    BY <1>0, <2>0, <2>1 DEF Sound, IsLast, Absent
  <2>3. \A d \in Bookings : root[d] # c /\ replaces[d] # c
    BY <1>0, <2>2
  <2>4. \A d \in Bookings : d # c => root'[d] = root[d]
    BY <1>0, <2>1, <2>2
  <2>5. Replacements(b)' # {} /\ Replacements(c)' = {}
    BY <1>0, <2>1, <2>2, <2>3 DEF Replacements
  <2>6. ASSUME NEW d \in Bookings, d # b PROVE Replacements(d)' = Replacements(d)
    <3>1. \A e \in Bookings : replaces'[e] = d <=> replaces[e] = d
      BY <1>0, <2>1, <2>2, <2>3, <2>6
    <3> QED  BY <3>1 DEF Replacements
  <2>7. root'[c] = r
    BY <1>0, <2>1
  <2>8. \A d \in Bookings : IsLast(r, d)' <=> d = c
    <3>1. IsLast(r, c)'
      BY <2>5, <2>7, Zenon DEF IsLast
    <3>2. ASSUME NEW d \in Bookings, IsLast(r, d)', d # c PROVE FALSE
      <4>1. d # b /\ IsLast(r, d)
        BY <2>4, <2>5, <2>6, <3>2 DEF IsLast
      <4> QED  BY <2>2, <4>1 DEF Chained
    <3> QED  BY <3>1, <3>2
  <2>9. ASSUME NEW a \in Bookings, NEW d \in Bookings, a # r
        PROVE  IsLast(a, d)' <=> IsLast(a, d)
    <3>1. CASE d = c
      BY <2>2, <2>7, <2>9, <3>1 DEF IsLast
    <3>2. CASE d = b
      BY <2>2, <2>4, <2>9, <3>2 DEF IsLast
    <3>3. CASE d # c /\ d # b
      BY <2>4, <2>6, <3>3 DEF IsLast
    <3> QED  BY <3>1, <3>2, <3>3
  <2>10. \A a \in Bookings : /\ root'[a] # None => root'[root'[a]] = root'[a]
                             /\ root'[a] = a => root[a] = a
    BY <1>0, <2>1, <2>2, <2>3
  <2>11. ASSUME NEW a \in Bookings
         PROVE  /\ root[a] = a => \E d \in Bookings : IsLast(a, d)'
                /\ \A d, e \in Bookings : IsLast(a, d)' /\ IsLast(a, e)' => d = e
    <3>1. CASE a = r
      BY <2>8, <3>1
    <3>2. CASE a # r
      BY <2>9, <3>2 DEF Chained
    <3> QED  BY <3>1, <3>2
  <2> QED  BY <2>10, <2>11 DEF Chained
<1> QED  BY <1>1, <1>2, <1>3, <1>4 DEF RowsStep

\* An appointment that was made is what and where its last booking is.
LEMMA FateIs ==
    ASSUME Chained, NEW a \in Bookings, NEW b \in Bookings, IsLast(a, b), root[a] = a
    PROVE  Fate[a] = Outcome(status[b]) /\ Place[a] = slot[b]
<1>1. Last(a) = b
  BY DEF Chained, Last, IsLast
<1> QED  BY <1>1 DEF Fate, Place

LEMMA FateIsNext ==
    ASSUME Chained', NEW a \in Bookings, NEW b \in Bookings, IsLast(a, b)', root'[a] = a
    PROVE  Fate'[a] = Outcome(status'[b]) /\ Place'[a] = slot'[b]
<1>1. Last(a)' = b
  BY DEF Chained, Last, IsLast
<1> QED  BY <1>1 DEF Fate, Place

LEMMA FateKept ==
    ASSUME Chained, Chained', NEW a \in Bookings, (root'[a] = a) <=> (root[a] = a),
           \A b \in Bookings : root[a] = a /\ IsLast(a, b) =>
               IsLast(a, b)' /\ status'[b] = status[b] /\ slot'[b] = slot[b]
    PROVE  Fate'[a] = Fate[a] /\ Place'[a] = Place[a]
<1>1. CASE root[a] # a
  BY <1>1 DEF Fate, Place
<1>2. CASE root[a] = a
  <2>1. PICK b \in Bookings : IsLast(a, b)
    BY <1>2 DEF Chained
  <2>2. Fate[a] = Outcome(status[b]) /\ Place[a] = slot[b]
    BY <1>2, <2>1, FateIs
  <2>3. Fate'[a] = Outcome(status'[b]) /\ Place'[a] = slot'[b]
    BY <1>2, <2>1, FateIsNext
  <2>4. status'[b] = status[b] /\ slot'[b] = slot[b]
    BY <1>2, <2>1
  <2> QED  BY <2>2, <2>3, <2>4 DEF Outcome
<1> QED  BY <1>1, <1>2

LEMMA OutcomeIs ==
    \A s : /\ Outcome(s) \in {"standing", "kept", "missed", "canceled"}
           /\ Outcome(s) = "standing" <=> s = "CONFIRMED"
  BY DEF Outcome

\* A slot the constraint leaves free is a place where no appointment stands.
LEMMA FreePlace ==
    ASSUME Chained, NEW s \in Slots, SlotFree(s)
    PROVE  ~Customer!Taken(s)
<1> SUFFICES ASSUME NEW a \in Bookings, Fate[a] = "standing", Place[a] = s PROVE FALSE
  BY DEF Customer!Taken
<1>1. root[a] = a
  BY DEF Fate
<1>2. PICK b \in Bookings : IsLast(a, b)
  BY <1>1 DEF Chained
<1>3. status[b] = "CONFIRMED" /\ slot[b] = s
  BY <1>1, <1>2, FateIs, OutcomeIs
<1> QED  BY <1>3 DEF SlotFree, Blocking

LEMMA RefineInit == Init => Customer!Init
  BY NoneAssumption DEF Init, Customer!Init, Fate, Place

\* What the rows do is a step of the appointment, or none.
LEMMA RefineStep ==
    ASSUME TypeOK, RowsSound, Chained, Chained', RowsStep
    PROVE  Customer!Next \/ UNCHANGED <<Fate, Place>>
<1> USE NoneAssumption
<1>0. /\ root \in [Bookings -> Bookings \cup {None}]
      /\ replaces \in [Bookings -> Bookings \cup {None}]
      /\ status \in [Bookings -> Statuses \cup {Absent}] /\ slot \in [Bookings -> Slots \cup {None}]
      /\ \A b \in Bookings : (status[b] = Absent) <=> (root[b] = None)
      /\ \A b, d \in Bookings : replaces[d] = b => root[b] # None /\ root[d] # None
      /\ \A b \in Bookings : root[b] # None => root[root[b]] # None /\ root[root[b]] = root[b]
  <2>1. \A b, d \in Bookings : replaces[d] = b => root[b] # None /\ root[d] # None
    BY DEF TypeOK, RowsSound, Sound, Replacements, Absent
  <2> QED  BY <2>1 DEF TypeOK, Chained
<1>f. /\ Fate = [a \in Bookings |-> Fate[a]] /\ Place = [a \in Bookings |-> Place[a]]
      /\ Fate' = [a \in Bookings |-> Fate'[a]] /\ Place' = [a \in Bookings |-> Place'[a]]
  BY Zenon DEF Fate, Place
<1>1. CASE UNCHANGED rows
  BY <1>1 DEF rows, Fate, Place, Last, Replacements, Outcome
<1>2. ASSUME NEW b \in Bookings, NEW s \in Slots, Appears(b, s) PROVE Customer!Next
  <2>1. /\ root[b] = None /\ replaces' = replaces /\ root' = [root EXCEPT ![b] = b]
        /\ status' = [status EXCEPT ![b] = "CONFIRMED"] /\ slot' = [slot EXCEPT ![b] = s]
        /\ \A d \in Bookings : replaces[d] # b
    BY <1>0, <1>2 DEF Appears
  <2>2. root'[b] = b /\ IsLast(b, b)' /\ status'[b] = "CONFIRMED" /\ slot'[b] = s
    BY <1>0, <2>1 DEF IsLast, Replacements
  <2>3. Fate[b] = "none" /\ Fate'[b] = "standing" /\ Place'[b] = s
    <3>1. Fate[b] = "none"
      BY <2>1 DEF Fate
    <3> QED  BY <2>2, <3>1, FateIsNext, OutcomeIs
  <2>4. ASSUME NEW a \in Bookings, a # b PROVE Fate'[a] = Fate[a] /\ Place'[a] = Place[a]
    <3>1. (root'[a] = a) <=> (root[a] = a)
      BY <1>0, <2>1, <2>4
    <3>2. ASSUME NEW d \in Bookings, root[a] = a, IsLast(a, d)
          PROVE  IsLast(a, d)' /\ status'[d] = status[d] /\ slot'[d] = slot[d]
      <4>1. d # b
        BY <2>1, <3>2 DEF IsLast
      <4> QED  BY <1>0, <2>1, <3>2, <4>1 DEF IsLast, Replacements
    <3> QED  BY <3>1, <3>2, FateKept
  <2>5. ~Customer!Taken(s)
    BY <1>2, FreePlace DEF Appears
  <2>6. Fate' = [Fate EXCEPT ![b] = "standing"] /\ Place' = [Place EXCEPT ![b] = s]
    BY <1>f, <2>3, <2>4
  <2> QED  BY <2>3, <2>5, <2>6 DEF Customer!Next, Customer!Make
<1>3. ASSUME NEW b \in Bookings, NEW to \in Terminal, Ends(b, to) PROVE Customer!Next
  <2>0. PICK r \in Bookings : root[b] = r
    BY <1>0, <1>3 DEF Ends, Absent
  <2>1. /\ replaces' = replaces /\ root' = root /\ slot' = slot
        /\ status[b] = "CONFIRMED" /\ status' = [status EXCEPT ![b] = to]
    BY <1>3 DEF Ends
  <2>2. /\ root[r] = r /\ IsLast(r, b) /\ root'[r] = r /\ status'[b] = to
        /\ \A a, d \in Bookings : IsLast(a, d)' <=> IsLast(a, d)
    BY <1>0, <2>0, <2>1 DEF RowsSound, Sound, IsLast, Replacements
  <2>3. /\ Fate[r] = "standing" /\ Fate'[r] \in {"canceled", "kept", "missed"}
        /\ Place'[r] = Place[r]
    <3>1. to # "CONFIRMED"
      BY DEF Terminal
    <3>2. Fate[r] = Outcome("CONFIRMED") /\ Place[r] = slot[b]
      BY <2>1, <2>2, FateIs
    <3>3. Fate'[r] = Outcome(to) /\ Place'[r] = slot'[b]
      BY <2>2, FateIsNext
    <3> QED  BY <2>1, <3>1, <3>2, <3>3, OutcomeIs
  <2>4. ASSUME NEW a \in Bookings, a # r PROVE Fate'[a] = Fate[a] /\ Place'[a] = Place[a]
    <3>1. ASSUME NEW d \in Bookings, root[a] = a, IsLast(a, d)
          PROVE  IsLast(a, d)' /\ status'[d] = status[d] /\ slot'[d] = slot[d]
      BY <1>0, <2>0, <2>1, <2>2, <2>4, <3>1 DEF IsLast
    <3> QED  BY <2>1, <3>1, FateKept
  <2>5. Fate' = [Fate EXCEPT ![r] = Fate'[r]] /\ Place' = Place
    BY <1>f, <2>3, <2>4
  <2> QED  BY <2>3, <2>5 DEF Customer!Next, Customer!End
<1>4. ASSUME NEW b \in Bookings, NEW c \in Bookings, NEW s \in Slots, Moves(b, c, s)
      PROVE  Customer!Next
  <2>0. PICK r \in Bookings : root[b] = r
    BY <1>0, <1>4 DEF Moves, Absent
  <2>1. /\ status[b] = "CONFIRMED" /\ status[c] = Absent /\ SlotFree(s)
        /\ status' = [status EXCEPT ![c] = "CONFIRMED", ![b] = "CANCELED_BY_BUSINESS"]
        /\ slot' = [slot EXCEPT ![c] = s]
        /\ replaces' = [replaces EXCEPT ![c] = b] /\ root' = [root EXCEPT ![c] = r]
    BY <1>4, <2>0 DEF Moves, InsertReplacement
  <2>2. /\ b # c /\ root[r] = r /\ root[c] = None /\ replaces[c] = None /\ r # c
        /\ \A d \in Bookings : root[d] # c /\ replaces[d] # c
    BY <1>0, <2>0, <2>1 DEF Absent
  <2>3. IsLast(r, b)
    BY <2>0, <2>1 DEF RowsSound, Sound, IsLast
  <2>4. root'[r] = r /\ IsLast(r, c)' /\ status'[c] = "CONFIRMED" /\ slot'[c] = s
    BY <1>0, <2>1, <2>2 DEF IsLast, Replacements
  <2>5. Fate[r] = "standing" /\ Fate'[r] = "standing" /\ Place'[r] = s
    <3>1. Fate[r] = Outcome("CONFIRMED")
      BY <2>1, <2>2, <2>3, FateIs
    <3>2. Fate'[r] = Outcome("CONFIRMED") /\ Place'[r] = s
      BY <2>4, FateIsNext
    <3> QED  BY <3>1, <3>2, OutcomeIs
  <2>6. ASSUME NEW a \in Bookings, a # r PROVE Fate'[a] = Fate[a] /\ Place'[a] = Place[a]
    <3>1. (root'[a] = a) <=> (root[a] = a)
      BY <1>0, <2>1, <2>2
    <3>2. ASSUME NEW d \in Bookings, root[a] = a, IsLast(a, d)
          PROVE  IsLast(a, d)' /\ status'[d] = status[d] /\ slot'[d] = slot[d]
      <4>1. d # b /\ d # c
        BY <2>0, <2>2, <2>6, <3>2 DEF IsLast
      <4>2. \A e \in Bookings : replaces'[e] = d => replaces[e] = d
        BY <1>0, <2>1, <2>2, <4>1
      <4>3. root'[d] = a /\ status'[d] = status[d] /\ slot'[d] = slot[d]
        BY <1>0, <2>1, <3>2, <4>1 DEF IsLast
      <4> QED  BY <3>2, <4>2, <4>3 DEF IsLast, Replacements
    <3> QED  BY <3>1, <3>2, FateKept
  <2>7. ~Customer!Taken(s)
    BY <2>1, FreePlace
  <2>8. Fate' = Fate /\ Place' = [Place EXCEPT ![r] = s]
    BY <1>f, <2>5, <2>6
  <2> QED  BY <2>5, <2>7, <2>8 DEF Customer!Next, Customer!Move
<1> QED  BY <1>1, <1>2, <1>3, <1>4 DEF RowsStep

\* The rows, requests and decisions of an appointment implement the appointment:
\* it stands at one place, moves to free places, and ends once.
THEOREM Refinement == ASSUME ~Disturbed PROVE Spec => RefinesAppointment
<1>1. Init => Sure /\ Chained
  BY SureInit, ChainedInit
<1>2. Sure /\ Chained /\ [Next]_vars => Sure' /\ Chained'
  BY SureStep, OccupiedStep, RowsKept, ChainedStep DEF Sure, Occupied, RowsSound
<1>3. Sure /\ Chained /\ Chained' /\ [Next]_vars => [Customer!Next]_<<Fate, Place>>
  BY SureStep, RefineStep DEF Sure, Occupied
<1> QED
  BY <1>1, <1>2, <1>3, RefineInit, PTL DEF Spec, RefinesAppointment, Customer!Spec, Customer!vars

=============================================================================
