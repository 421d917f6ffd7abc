----------------------------- MODULE SingleOrder -----------------------------
(* What the single-account dispatch modes promise of one signal (random,     *)
(* weighted and round-robin pick one account): at most one order is placed,  *)
(* and once the signal has been dealt with nothing more is placed.  The      *)
(* promise of a single order ends when a reply is lost in a way that the     *)
(* program takes for a rejection.                                            *)
EXTENDS Naturals

VARIABLES placed,   \* orders the exchange has accepted for the signal
          over,     \* the signal has been dealt with
          excused   \* a lost reply was taken for a rejection

vars == <<placed, over, excused>>

Init == placed = 0 /\ over = FALSE /\ excused = FALSE

Place ==
    /\ ~over
    /\ placed = 0 \/ excused
    /\ placed' = placed + 1
    /\ UNCHANGED <<over, excused>>

Excuse == ~over /\ excused' = TRUE /\ UNCHANGED <<placed, over>>

Conclude == ~over /\ over' = TRUE /\ UNCHANGED <<placed, excused>>

Next == Place \/ Excuse \/ Conclude

Spec == Init /\ [][Next]_vars
=============================================================================
