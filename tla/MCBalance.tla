------------------------------ MODULE MCBalance ------------------------------
(* Two accounts over three days of two hours: a round within the recording   *)
(* hour and one after it; the panel shows two rows.                          *)
EXTENDS DailyProfits

TwoValues == {1, 2}
=============================================================================
