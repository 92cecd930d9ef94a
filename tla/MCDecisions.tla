---------------------------- MODULE MCDecisions -----------------------------
(***************************************************************************)
(* A small instance of Decisions for TLC: three booking rows are two       *)
(* customers of whom one moves, or one who moves twice; two requests; and  *)
(* two slots, which suffice to collide.                                    *)
(***************************************************************************)
EXTENDS Decisions, FiniteSets, TLC

CONSTANTS b1, b2, b3, q1, q2, s1, s2

AllBookings == {b1, b2, b3}
AllRequests == {q1, q2}
TwoSlots    == {s1, s2}

EitherPolicy == {"free", "fee"}

\* At most two cancellations have been checked and not yet been written.
FewAsked ==
    Cardinality({x \in Bookings \X Policies : x[2] \in asked[x[1]]}) <= 2

\* Nothing in Decisions tells bookings, requests or slots apart.
Interchangeable ==
    Permutations(AllBookings) \cup Permutations(AllRequests) \cup Permutations(Slots)

=============================================================================
