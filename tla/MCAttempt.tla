----------------------------- MODULE MCAttempt ------------------------------
(***************************************************************************)
(* One browser with two keys to mint, two requests in flight, and a time   *)
(* at which two employees are free.                                        *)
(***************************************************************************)
EXTENDS BookingAttempt, TLC

CONSTANTS k1, k2, e1, e2, t1, v1, r1, r2

TwoKeys      == {k1, k2}
TwoEmployees == {e1, e2}
OneTime      == {t1}
OneService   == {v1}
TwoRequests  == {r1, r2}

\* Nothing in BookingAttempt tells keys, employees or requests apart.
Interchangeable ==
    Permutations(TwoKeys) \cup Permutations(TwoEmployees) \cup Permutations(TwoRequests)
=============================================================================
