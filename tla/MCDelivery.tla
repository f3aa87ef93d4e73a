----------------------------- MODULE MCDelivery -----------------------------
(* Instances of Delivery for TLC. *)
EXTENDS Delivery

CONSTANTS d1, d2, c1

\* What comes after the first release may be registered with any uri.
SecondOutright == [digest : {d2}, uri : {"public", d1, d2}]
=============================================================================
