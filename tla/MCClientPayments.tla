--------------------------- MODULE MCClientPayments ---------------------------
(* Instances of ClientPayments for TLC. *)
EXTENDS ClientPayments
CONSTANTS i1, l1, p1, p2, n1, c1, c2

OneInvoice == {i1}
OneLink == {l1}
TwoPayments == {p1, p2}
TwoCopies == {c1, c2}

\* Staff type an ordinary number or the one that the gateway payment will need.
ClashingNumber == {n1, GatewayNumber(l1)}
=============================================================================
