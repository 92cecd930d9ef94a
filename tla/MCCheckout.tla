----------------------------- MODULE MCCheckout -----------------------------
(***************************************************************************)
(* Small instances of CheckoutSaga for TLC: two attempts that meet on one  *)
(* employee's calendar, or a single one.                                   *)
(***************************************************************************)
EXTENDS CheckoutSaga

CONSTANTS b1, b2

TwoBookings == {b1, b2}
OneBooking  == {b1}

PairOverlaps == {{b1, b2}}
NoOverlap    == {}

=============================================================================
