-------------------------------- MODULE Desk --------------------------------
(***************************************************************************)
(* The office screens that move money or take an appointment by hand       *)
(* (BookingDetail.vue, NewBooking.vue), the requests they send, and what   *)
(* those do to one booking, the booking it may be moved to, their money    *)
(* and one free time in the diary.  Answers are lost, late or repeated,    *)
(* and the operator tries again.                                           *)
(*                                                                         *)
(* An intent is what an operator means by one filled-in form: a new one    *)
(* begins when the form is changed or its dialog is closed.                *)
(***************************************************************************)
EXTENDS Integers, FiniteSetsExt

CONSTANTS
    Screens,
    Calls,        \* requests that may be under way at the same time
    Keys,         \* Idempotency-Key values
    First, Second, \* the booking that was paid, and the one a move puts in its place
    Charge,       \* cents the card was charged, on First
    Roles,        \* the sets of operations some role may see
    MaxIntents,   \* intents a screen acts on
    Unfinished    \* may the key's completion fail after the commit?

ASSUME DeskAssumption ==
    /\ First # Second /\ {First, Second} \cap {"None"} = {} /\ "None" \notin Keys
    /\ Charge \in Nat /\ MaxIntents \in Nat /\ Unfinished \in BOOLEAN

VARIABLES
    booking,  \* status and financialRootBookingId of both rows
    diary,    \* what stands at the free time: "free", "taken", "ours"
    entries,  \* what was carried out: manual payments, refunds, cancellations, bookings
    key,      \* idempotency_keys
    call,     \* the requests
    screen,   \* the operators' screens
    reported  \* intents a screen reported as carried out

desk == <<booking, diary, entries, key, call, screen, reported>>
server == <<booking, diary, entries, key>>

Rows == {First, Second}
Keyed == {"payment", "refund", "cancel", "create"}
Kinds == Keyed \cup {"attend"}

\* Euros as typed, in cents.  A correction is negative, and "create" has its time.
Typeable(kind) ==
    CASE kind = "payment" -> {-1, 1} [] kind \in {"refund", "cancel", "create"} -> {1}
      [] OTHER -> {}

NoCall == [at |-> "idle"]
NoKey == [state |-> "ABSENT", body |-> "None", lapsed |-> FALSE]
AtRest == [step |-> "rest", call |-> "None", kind |-> "None", applied |-> FALSE]

DeskInit ==
    /\ booking = [b \in Rows |-> [status |-> IF b = First THEN "CONFIRMED" ELSE "ABSENT",
                                  root |-> "None"]]
    /\ diary = "free"
    /\ entries = {}
    /\ key = [k \in Keys |-> NoKey]
    /\ call = [c \in Calls |-> NoCall]
    /\ \E can \in Roles : screen =
         [s \in Screens |->
            [on |-> First, can |-> can, dialog |-> "None", form |-> [k \in Kinds |-> 0],
             key |-> "None", intent |-> 1, tried |-> FALSE, action |-> AtRest,
             shown |-> [open |-> TRUE, paid |-> Charge]]]
    /\ reported = {}

-----------------------------------------------------------------------------
(* Where the money of a booking is, whichever row of the chain is asked.   *)

RootBookingId(b) == IF booking[b].root = "None" THEN b ELSE booking[b].root

Sum(S) == MapThenSumSet(LAMBDA e : e.amount, S)
Charged(root) == IF root = First THEN Charge ELSE 0
\* Mutant: refunds are selected by the booking they were issued on
ReadRootsByBooking(b) ==
    [payments |-> Charged(RootBookingId(b)),
     manual |-> {e \in entries : e.kind = "payment" /\ e.root = RootBookingId(b)},
     refunds |-> {e \in entries : e.kind \in {"refund", "cancel"} /\ e.on = b}]

\* Refunds through the payment they reduce, not through the booking they name
ReadRoots(b) ==
    [payments |-> Charged(RootBookingId(b)),
     manual |-> {e \in entries : e.kind = "payment" /\ e.root = RootBookingId(b)},
     refunds |-> {e \in entries : e.kind \in {"refund", "cancel"} /\ e.root = RootBookingId(b)}]

ReceivedFrom(b) == ReadRoots(b).payments + Sum(ReadRoots(b).manual)
RefundedFrom(b) == Sum(ReadRoots(b).refunds)
Refundable(b) == ReadRoots(b).payments - RefundedFrom(b)

\* A line of a list, and the head of the booking's page
Shown(b) == [open |-> booking[b].status = "CONFIRMED", paid |-> ReceivedFrom(b)]

\* The customer's page: each financial root of theirs once
LifetimeValue ==
    MapThenSumSet(LAMBDA root : ReceivedFrom(root) - RefundedFrom(root),
                  {RootBookingId(b) : b \in {d \in Rows : booking[d].status # "ABSENT"}})

\* The dashboard's tile, which joins on the root in SQL; the price is what was charged
Unpaid ==
    {b \in Rows :
        /\ booking[b].status = "CONFIRMED"
        /\ Charged(RootBookingId(b))
             + Sum({e \in entries : e.kind = "payment" /\ e.root = RootBookingId(b)}) < Charge}

-----------------------------------------------------------------------------
(* The screen                                                              *)

\* A changed form, or a closed dialog, is a different operation
NewIntent(scr) ==
    [scr EXCEPT !.key = "None", !.tried = FALSE, !.intent = IF scr.tried THEN @ + 1 ELSE @]

\* The action bar: every button behind a capability and what the screen shows
CanOpen(scr, kind) ==
    /\ kind \in scr.can
    /\ kind \in {"cancel", "attend"} => scr.shown.open
    /\ kind = "refund" => scr.shown.paid > 0

Open(s, kind) ==
    /\ screen[s].dialog = "None"
    /\ CanOpen(screen[s], kind)
    /\ screen' = [screen EXCEPT ![s].dialog = kind]
    /\ UNCHANGED <<server, call, reported>>

Type(s, amount) ==
    LET scr == screen[s] IN
    /\ scr.dialog # "None"
    /\ amount \in Typeable(scr.dialog) \ {scr.form[scr.dialog]}
    /\ screen' = [screen EXCEPT ![s] = NewIntent([scr EXCEPT !.form[scr.dialog] = amount])]
    /\ UNCHANGED <<server, call, reported>>

\* Escape or the backdrop, which SfModal heeds while the action is still busy
Close(s) ==
    /\ screen[s].dialog # "None"
    /\ screen' = [screen EXCEPT ![s] = NewIntent([screen[s] EXCEPT !.dialog = "None"])]
    /\ UNCHANGED <<server, call, reported>>

Valid(scr) ==
    LET amount == scr.form[scr.dialog] IN
    CASE scr.dialog \in {"payment", "create"} -> amount # 0
      [] scr.dialog = "refund" -> amount > 0 /\ amount <= scr.shown.paid
      [] OTHER -> TRUE

Held == {screen[s].key : s \in Screens} \cup {call[c].key : c \in {d \in Calls : call[d] # NoCall}}
Unused == {k \in Keys \ Held : key[k] = NoKey}

\* Mutant: a key per attempt
KeyPerAttempt(scr) == Unused

CurrentKey(scr) ==
    IF scr.dialog \notin Keyed THEN {"None"}
    ELSE IF scr.key # "None" THEN {scr.key} ELSE Unused

\* confirmComplete, confirmCancel, confirmPayment, confirmRefund; submit in NewBooking.
\* The client retries reads only.
Confirm(s, c) ==
    LET scr == screen[s] IN
    /\ scr.dialog # "None" /\ scr.action.step = "rest" /\ Valid(scr)
    /\ scr.intent <= MaxIntents /\ call[c] = NoCall
    /\ \E k \in CurrentKey(scr) :
         /\ call' = [call EXCEPT ![c] =
              [at |-> "sent", intent |-> <<s, scr.intent>>, key |-> k, heard |-> TRUE,
               body |-> [kind |-> scr.dialog, on |-> scr.on, amount |-> scr.form[scr.dialog]]]]
         /\ screen' = [screen EXCEPT ![s] =
              [scr EXCEPT !.key = k, !.tried = TRUE,
                          !.action = [step |-> "waiting", call |-> c, kind |-> scr.dialog,
                                      applied |-> FALSE]]]
    /\ UNCHANGED <<server, reported>>

\* Refetch after every action but a booking taken by hand, which has no page yet
Heard(scr, answer) ==
    LET k == scr.action.kind IN
    IF k = "create"
    THEN IF answer = "SLOT_UNAVAILABLE"
         THEN NewIntent([scr EXCEPT !.action = AtRest, !.form[k] = 0])
         ELSE IF answer = "ok"
         THEN NewIntent([scr EXCEPT !.action = AtRest, !.form[k] = 0, !.dialog = "None"])
         ELSE [scr EXCEPT !.action = AtRest]
    ELSE [scr EXCEPT !.action.step = "reading", !.action.call = "None",
                     !.action.applied = answer = "ok"]

Answered == {"ok", "refused", "SLOT_UNAVAILABLE", "busy"}

Deliver(c) ==
    LET s == call[c].intent[1] IN
    /\ call[c].at \in Answered
    /\ call' = [call EXCEPT ![c] = NoCall]
    /\ IF call[c].heard
       THEN /\ screen' = [screen EXCEPT ![s] = Heard(screen[s], call[c].at)]
            /\ reported' = IF call[c].at = "ok" THEN reported \cup {call[c].intent} ELSE reported
       ELSE UNCHANGED <<screen, reported>>
    /\ UNCHANGED server

\* The connection drops: the request goes on without a listener, or never arrives
LoseAnswer(s) ==
    LET c == screen[s].action.call IN
    /\ screen[s].action.step = "waiting"
    /\ screen' = [screen EXCEPT ![s] = Heard(screen[s], "lost")]
    /\ \/ call' = [call EXCEPT ![c].heard = FALSE]
       \/ call[c].at = "sent" /\ call' = [call EXCEPT ![c] = NoCall]
    /\ UNCHANGED <<server, reported>>

\* OfficeBookingsService.detail: the row, and then the financials
ReadBooking(s) ==
    /\ screen[s].action.step = "reading"
    /\ screen' = [screen EXCEPT ![s].action.step = "read",
                                ![s].shown.open = Shown(screen[s].on).open]
    /\ UNCHANGED <<server, call, reported>>

\* On success the form is cleared and whatever dialog is open by now is closed
Finish(scr) ==
    IF scr.action.applied
    THEN NewIntent([scr EXCEPT !.form[scr.action.kind] = 0, !.dialog = "None", !.action = AtRest])
    ELSE [scr EXCEPT !.action = AtRest]

ReadMoney(s) ==
    /\ screen[s].action.step = "read"
    /\ screen' = [screen EXCEPT ![s] =
         Finish([screen[s] EXCEPT !.shown.paid = Shown(screen[s].on).paid])]
    /\ UNCHANGED <<server, call, reported>>

\* Refetch's failure is swallowed: the old figures stay
ReadFails(s) ==
    /\ screen[s].action.step = "reading"
    /\ screen' = [screen EXCEPT ![s] = Finish(screen[s])]
    /\ UNCHANGED <<server, call, reported>>

\* Another booking of the chain is opened on the screen: a page of its own
Visit(s) ==
    /\ screen[s].on = First /\ booking[Second].status # "ABSENT"
    /\ screen[s].dialog = "None" /\ screen[s].action.step = "rest"
    /\ screen' = [screen EXCEPT ![s] = NewIntent([screen[s] EXCEPT
         !.on = Second, !.form = [k \in Kinds |-> 0], !.shown = Shown(Second)])]
    /\ UNCHANGED <<server, call, reported>>

-----------------------------------------------------------------------------
(* The server                                                              *)

\* Mutant: an attempt in progress is answered as if it had succeeded
ReplyEarly(c) == IF key[call[c].key].body # call[c].body THEN "refused" ELSE "ok"

\* IDEMPOTENCY_KEY_REUSED, the stored answer, or REQUEST_IN_PROGRESS
Reply(c) ==
    LET k == key[call[c].key] IN
    IF k.body # call[c].body THEN "refused" ELSE IF k.state = "COMPLETED" THEN "ok" ELSE "busy"

TakenOver(c) ==
    LET k == key[call[c].key] IN k.state = "IN_PROGRESS" /\ k.lapsed /\ k.body = call[c].body

BeginAnswered(c) ==
    LET k == call[c].key IN
    /\ call[c].at = "sent" /\ k # "None" /\ key[k].state # "ABSENT"
    /\ ~TakenOver(c)
    /\ call' = [call EXCEPT ![c].at = Reply(c)]
    /\ UNCHANGED <<server, screen, reported>>

Begin(c) ==
    LET k == call[c].key IN
    /\ call[c].at = "sent"
    /\ \/ k = "None" /\ UNCHANGED key
       \/ /\ k # "None"
          /\ key[k].state = "ABSENT" \/ TakenOver(c)
          /\ key' = [key EXCEPT ![k] = [state |-> "IN_PROGRESS", body |-> call[c].body,
                                        lapsed |-> FALSE]]
    /\ call' = [call EXCEPT ![c].at = "running"]
    /\ UNCHANGED <<booking, diary, entries, screen, reported>>

\* Mutant: a manual payment is recorded against the booking on the screen
RecordedOnScreen(c) ==
    [kind |-> call[c].body.kind, on |-> call[c].body.on, intent |-> call[c].intent,
     n |-> Cardinality(entries), amount |-> call[c].body.amount,
     root |-> IF call[c].body.kind = "payment" THEN call[c].body.on
              ELSE RootBookingId(call[c].body.on)]

Recorded(c) ==
    [kind |-> call[c].body.kind, on |-> call[c].body.on, intent |-> call[c].intent,
     n |-> Cardinality(entries), amount |-> call[c].body.amount,
     root |-> RootBookingId(call[c].body.on)]

Handling(c, kind) == call[c].at = "running" /\ call[c].body.kind = kind

Committed(c) ==
    /\ entries' = entries \cup {Recorded(c)}
    /\ call' = [call EXCEPT ![c].at = "committed"]
    /\ UNCHANGED <<key, screen, reported>>

\* ManualPaymentService.record: no booking of this chain is EXPIRED or PAYMENT_FAILED
RecordManualPayment(c) ==
    /\ Handling(c, "payment")
    /\ Committed(c)
    /\ UNCHANGED <<booking, diary>>

IssueRefund(c) ==
    /\ Handling(c, "refund")
    /\ call[c].body.amount <= Refundable(call[c].body.on)
    /\ Committed(c)
    /\ UNCHANGED <<booking, diary>>

\* With the refund that was typed, if one was, in the same transaction
CancelByBusiness(c) ==
    LET b == call[c].body.on IN
    /\ Handling(c, "cancel")
    /\ booking[b].status = "CONFIRMED"
    /\ call[c].body.amount = 0 \/ call[c].body.amount <= Refundable(b)
    /\ booking' = [booking EXCEPT ![b].status = "CANCELED_BY_BUSINESS"]
    /\ Committed(c)
    /\ UNCHANGED diary

\* Completed or no-show; the route has no key, the status machine refuses the second
Attend(c) ==
    LET b == call[c].body.on IN
    /\ Handling(c, "attend")
    /\ booking[b].status = "CONFIRMED"
    /\ booking' = [booking EXCEPT ![b].status = "COMPLETED"]
    /\ entries' = entries \cup {Recorded(c)}
    /\ call' = [call EXCEPT ![c].at = "ok"]
    /\ UNCHANGED <<diary, key, screen, reported>>

CreateManual(c) ==
    /\ Handling(c, "create")
    /\ diary = "free"
    /\ diary' = "ours"
    /\ Committed(c)
    /\ UNCHANGED booking

Refusal(c) ==
    LET b == call[c].body.on IN
    CASE call[c].body.kind = "payment" -> FALSE
      [] call[c].body.kind = "refund" -> call[c].body.amount > Refundable(b)
      [] call[c].body.kind = "cancel" -> \/ booking[b].status # "CONFIRMED"
                                         \/ call[c].body.amount > Refundable(b)
      [] call[c].body.kind = "attend" -> booking[b].status # "CONFIRMED"
      [] OTHER -> diary # "free"

\* The handler throws; abandon deletes a key that names no reservation
Refuse(c) ==
    /\ call[c].at = "running" /\ Refusal(c)
    /\ call' = [call EXCEPT ![c].at =
         IF call[c].body.kind = "create" THEN "SLOT_UNAVAILABLE" ELSE "refused"]
    /\ key' = [k \in Keys |-> IF k = call[c].key THEN NoKey ELSE key[k]]
    /\ UNCHANGED <<booking, diary, entries, screen, reported>>

\* Mutant: the answer is sent without being stored
CompleteUnstored(c) ==
    /\ call[c].at = "committed"
    /\ key' = [key EXCEPT ![call[c].key] = NoKey]
    /\ call' = [call EXCEPT ![c].at = "ok"]
    /\ UNCHANGED <<booking, diary, entries, screen, reported>>

Complete(c) ==
    /\ call[c].at = "committed"
    /\ key' = [key EXCEPT ![call[c].key].state = "COMPLETED"]
    /\ call' = [call EXCEPT ![c].at = "ok"]
    /\ UNCHANGED <<booking, diary, entries, screen, reported>>

\* The process dies, or (Unfinished) cannot store the answer of what it committed
Dies(c) ==
    /\ call[c].at = "running" \/ (Unfinished /\ call[c].at = "committed")
    /\ call' = [call EXCEPT ![c].at = "busy"]
    /\ UNCHANGED <<server, screen, reported>>

LeaseLapses(k) ==
    /\ key[k].state = "IN_PROGRESS" /\ ~key[k].lapsed
    /\ k \notin {call[c].key : c \in {d \in Calls : call[d].at \in {"running", "committed"}}}
    /\ key' = [key EXCEPT ![k].lapsed = TRUE]
    /\ UNCHANGED <<booking, diary, entries, call, screen, reported>>

\* A day later; nobody leaves a dialog open that long with its answer outstanding
Sweep(k) ==
    /\ key[k].state = "COMPLETED" \/ key[k].lapsed
    /\ k \notin Held
    /\ key' = [key EXCEPT ![k] = NoKey]
    /\ UNCHANGED <<booking, diary, entries, call, screen, reported>>

\* A move approved elsewhere: the replacement names the row the money is on
Moved ==
    /\ booking[First].status = "CONFIRMED" /\ booking[Second].status = "ABSENT"
    /\ booking' = [booking EXCEPT ![First].status = "CANCELED_BY_CUSTOMER",
                     ![Second] = [status |-> "CONFIRMED", root |-> RootBookingId(First)]]
    /\ UNCHANGED <<diary, entries, key, call, screen, reported>>

OthersBook ==
    /\ \E s \in Screens : "create" \in screen[s].can
    /\ diary = "free"
    /\ diary' = "taken"
    /\ UNCHANGED <<booking, entries, key, call, screen, reported>>

Operator(s) ==
    \/ \E kind \in Kinds : Open(s, kind)
    \/ \E amount \in -1..1 : Type(s, amount)
    \/ \E c \in Calls : Confirm(s, c)
    \/ Close(s) \/ LoseAnswer(s) \/ Visit(s)
    \/ ReadBooking(s) \/ ReadMoney(s) \/ ReadFails(s)

Handler(c) ==
    \/ BeginAnswered(c) \/ Begin(c)
    \/ RecordManualPayment(c) \/ IssueRefund(c) \/ CancelByBusiness(c)
    \/ Attend(c) \/ CreateManual(c) \/ Refuse(c)
    \/ Complete(c) \/ Dies(c) \/ Deliver(c)

DeskNext ==
    \/ \E s \in Screens : Operator(s)
    \/ \E c \in Calls : Handler(c)
    \/ \E k \in Keys : LeaseLapses(k) \/ Sweep(k)
    \/ Moved \/ OthersBook

-----------------------------------------------------------------------------
(* Properties                                                              *)

\* Whatever answers are lost and however often the operator tries again, one filled-in
\* form moves money, cancels or books at most once, and has done so when the screen
\* says it has: attemptKey in BookingDetail.vue, idempotencyKey in NewBooking.vue and
\* the interceptor behind @Idempotent.
CarriedOutOnce ==
    /\ \A e, f \in entries : e.intent = f.intent => e = f
    /\ \A i \in reported : \E e \in entries : e.intent = i

\* Every booking of the chain shows the whole of its money - what was charged, taken at
\* the desk and given back, wherever each was recorded - and the customer's page and the
\* dashboard count it once (booking-financials.service.ts and its three readers).
FiguresAgree ==
    LET taken == Sum({e \in entries : e.kind = "payment"})
        returned == Sum({e \in entries : e.kind \in {"refund", "cancel"}}) IN
    /\ \A b \in Rows : booking[b].status # "ABSENT" =>
          ReceivedFrom(b) = Charge + taken /\ RefundedFrom(b) = returned
    /\ LifetimeValue = Charge + taken - returned
    /\ Unpaid = {b \in Rows : booking[b].status = "CONFIRMED" /\ taken < 0}
=============================================================================
