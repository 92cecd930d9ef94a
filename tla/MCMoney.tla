------------------------------ MODULE MCMoney -------------------------------
(***************************************************************************)
(* How a cancellation comes to owe money (Manage), and how refunds pay it  *)
(* (Refunds).  They share no variable, so a behaviour that moves one while *)
(* the other rests shows all that an interleaving would.                   *)
(***************************************************************************)
EXTENDS MCRefunds, Manage, TLC

\* Free until an hour before for half of the money, or until two for a fixed fee; the
\* link of the paid row expires while time still passes
MCTerms == {[hours |-> 1, policy |-> "PERCENTAGE", fixed |-> 0, percent |-> 50],
            [hours |-> 2, policy |-> "FIXED_AMOUNT", fixed |-> 2, percent |-> 0]}
MCBegins == [r \in Copies |-> IF r = Original THEN 2 ELSE 3]
MCGrace  == [r \in Copies |-> MCBegins[r] + 1]

\* Nothing in Manage tells the requests of a browser apart.
Interchangeable == Permutations(Visits)

VARIABLE turn

MoneyInit ==
    /\ turn \in {"deciding", "paying"}
    /\ Init /\ ManageInit
    /\ turn = "paying" => terms.hours = 1
    /\ turn = "deciding" => charge

MoneyNext ==
    /\ UNCHANGED turn
    /\ \/ turn = "deciding" /\ ManageNext /\ UNCHANGED vars
       \/ turn = "paying" /\ Next /\ UNCHANGED manage

MoneySpec == MoneyInit /\ [][MoneyNext]_<<turn, vars, manage>>
=============================================================================
