--------------------------- MODULE BookingStatus ---------------------------
(***************************************************************************)
(* The booking status machine every service of the API writes through      *)
(* (booking/booking-status.machine.ts).  It is pure: the sets of statuses  *)
(* and the permitted moves between them.  Absent is the `null` a booking    *)
(* is created from.                                                        *)
(***************************************************************************)

Absent == "ABSENT"

\* The statuses that occupy an employee.
Blocking == {"PENDING_PAYMENT", "EXPIRING", "CONFIRMED"}

Terminal == {"EXPIRED", "PAYMENT_FAILED", "CANCELED_BY_CUSTOMER",
             "CANCELED_BY_BUSINESS", "COMPLETED", "NO_SHOW"}

Statuses == Blocking \cup Terminal

Transitions(from) ==
  CASE from = Absent            -> {"PENDING_PAYMENT", "CONFIRMED"}
    [] from = "PENDING_PAYMENT" -> {"EXPIRING", "CONFIRMED", "PAYMENT_FAILED"}
    [] from = "EXPIRING"        -> {"EXPIRED", "CONFIRMED"}
    [] from = "CONFIRMED"       -> {"CANCELED_BY_CUSTOMER", "CANCELED_BY_BUSINESS",
                                    "COMPLETED", "NO_SHOW"}
    [] OTHER                    -> {}

\* assertTransition lets the write through exactly when this holds.
CanTransition(from, to) == to \in Transitions(from)

=============================================================================
