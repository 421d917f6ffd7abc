---------------------------- MODULE MCSettlement ----------------------------
(* One time unit stands for the match window (30 s); a day is a few units,   *)
(* so that orders settle across midnight.  Two stakes let two orders of one  *)
(* account be placed at once.  What the polls rest on is checked beside      *)
(* them: the pages of the ledger, with one entry more than fits into them,   *)
(* and the lengths of contracts, for every number that some list knows and   *)
(* others around them.                                                       *)
EXTENDS Settlement

CONSTANTS a1

OneAccount == {a1}
TwoAmounts == {5, 7}
OnePeriod == {1}
SomeNumbers == {1, 2, 3, 4, 5, 7, 10, 15, 30, 45, 60, 90, 120, 300}
=============================================================================
