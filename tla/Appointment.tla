---------------------------- MODULE Appointment -----------------------------
(***************************************************************************)
(* What a customer who has booked may rely on, with no rows, requests or   *)
(* links in sight: an appointment stands at one place, may be moved to a   *)
(* place where nobody stands, and ends once.  A canceled appointment is    *)
(* neither moved nor brought back.                                         *)
(*                                                                         *)
(* Decisions implements it (Customer!Spec there).                          *)
(***************************************************************************)
CONSTANTS
    Customers,  \* appointments that may come to be made
    Slots,      \* places in the calendar
    None        \* no place

VARIABLES
    fate,       \* what became of each appointment
    place       \* where it stands, or last stood

vars == <<fate, place>>

Taken(s) == \E a \in Customers : fate[a] = "standing" /\ place[a] = s

Init ==
    /\ fate = [a \in Customers |-> "none"]
    /\ place = [a \in Customers |-> None]

Make(a) ==
    /\ fate[a] = "none"
    /\ fate' = [fate EXCEPT ![a] = "standing"]
    /\ \E s \in Slots : ~Taken(s) /\ place' = [place EXCEPT ![a] = s]

Move(a) ==
    /\ fate[a] = "standing"
    /\ \E s \in Slots : ~Taken(s) /\ place' = [place EXCEPT ![a] = s]
    /\ UNCHANGED fate

End(a) ==
    /\ fate[a] = "standing"
    /\ \E f \in {"canceled", "kept", "missed"} : fate' = [fate EXCEPT ![a] = f]
    /\ UNCHANGED place

Next == \E a \in Customers : Make(a) \/ Move(a) \/ End(a)

Spec == Init /\ [][Next]_vars

=============================================================================
