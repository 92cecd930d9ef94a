----------------------------- MODULE MCDelivery -----------------------------
(***************************************************************************)
(* One notification, two workers on its queue, and a provider that reports *)
(* two things about the first message, in either order.                    *)
(***************************************************************************)
EXTENDS Delivery

CONSTANTS n1, w1, w2

OneNotice  == {n1}
TwoSenders == {w1, w2}
FirstCopy  == {1}
TwoReports == {"complained", "bounced"}
=============================================================================
