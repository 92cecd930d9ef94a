----------------------------- MODULE MCRefunds ------------------------------
(***************************************************************************)
(* Small instances of Refunds for TLC: two or one refunds of a payment of  *)
(* two cents, so that one refund can be partial and two can exceed it.     *)
(***************************************************************************)
EXTENDS Refunds

CONSTANTS r1, r2

TwoRefunds == {r1, r2}
OneRefund  == {r1}

=============================================================================
