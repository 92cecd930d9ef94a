---------------------------- MODULE RefundLedger ----------------------------
(***************************************************************************)
(* What refunds promise the accounts, with no database, provider or job in *)
(* sight: a refund is promised once, ends as paid or refused, and the      *)
(* total paid back grows by exactly the refunds that end as paid.          *)
(*                                                                         *)
(* Refunds implements it (Ledger!Spec there).                              *)
(***************************************************************************)
EXTENDS Integers

CONSTANTS Refunds, Amount

VARIABLES
    entry,  \* what became of each refund
    cents,  \* how much each refund is about
    total   \* what the payment says was paid back

vars == <<entry, cents, total>>

Init ==
    /\ entry = [r \in Refunds |-> "none"]
    /\ cents = [r \in Refunds |-> 0]
    /\ total = 0

Promise(r) ==
    /\ entry[r] = "none"
    /\ \E a \in 1 .. Amount - total : cents' = [cents EXCEPT ![r] = a]
    /\ entry' = [entry EXCEPT ![r] = "promised"]
    /\ UNCHANGED total

Pay(r) ==
    /\ entry[r] = "promised"
    /\ total + cents[r] <= Amount
    /\ entry' = [entry EXCEPT ![r] = "paid"]
    /\ total' = total + cents[r]
    /\ UNCHANGED cents

Refuse(r) ==
    /\ entry[r] = "promised"
    /\ entry' = [entry EXCEPT ![r] = "refused"]
    /\ UNCHANGED <<cents, total>>

Next == \E r \in Refunds : Promise(r) \/ Pay(r) \/ Refuse(r)

Spec == Init /\ [][Next]_vars

=============================================================================
