---------------------------- MODULE SlotPromise ----------------------------
(***************************************************************************)
(* What the checkout of the booking service promises its customers, with   *)
(* no database, provider or job in sight:                                  *)
(*                                                                         *)
(*   - two overlapping reservations are never both alive;                  *)
(*   - a customer can be charged only while the slot is held for them;     *)
(*   - a slot whose customer was charged is kept, never released.          *)
(*                                                                         *)
(* CheckoutSaga implements it (Promise!Spec there).                        *)
(***************************************************************************)
CONSTANTS
    Bookings,   \* reservation attempts; each is made at most once
    Overlap     \* the pairs {b, c} whose blocks meet on one employee's calendar

VARIABLES
    promise,    \* what each attempt has been promised
    charged     \* whether its customer has been charged

vars == <<promise, charged>>

Alive == {"held", "kept"}

Conflicts(b) == {c \in Bookings \ {b} : {b, c} \in Overlap}

Init ==
    /\ promise = [b \in Bookings |-> "none"]
    /\ charged = [b \in Bookings |-> FALSE]

\* A slot is promised only where no overlapping promise is alive.  The office
\* books without payment, so its promise is kept from the start.
Hold(b) ==
    /\ promise[b] = "none"
    /\ \A c \in Conflicts(b) : promise[c] \notin Alive
    /\ \E p \in Alive : promise' = [promise EXCEPT ![b] = p]
    /\ UNCHANGED charged

Charge(b) ==
    /\ promise[b] = "held"
    /\ charged' = [charged EXCEPT ![b] = TRUE]
    /\ UNCHANGED promise

Keep(b) ==
    /\ promise[b] = "held"
    /\ charged[b]
    /\ promise' = [promise EXCEPT ![b] = "kept"]
    /\ UNCHANGED charged

Release(b) ==
    /\ promise[b] = "held"
    /\ ~charged[b]
    /\ promise' = [promise EXCEPT ![b] = "released"]
    /\ UNCHANGED charged

Next == \E b \in Bookings : Hold(b) \/ Charge(b) \/ Keep(b) \/ Release(b)

Spec == Init /\ [][Next]_vars

=============================================================================
