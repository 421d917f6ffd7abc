----------------------------- MODULE MCOddsWait -----------------------------
(* An order waits on a service that is stopped and started again; odds of 0  *)
(* and 2 lie on either side of its minimum, if it has one.                   *)
EXTENDS OddsWait

CONSTANT order

OneWaiter == {order}
TwoRates == {0, 2}
TwoMinimums == {0, 1}
=============================================================================
