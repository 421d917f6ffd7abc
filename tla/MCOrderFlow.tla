----------------------------- MODULE MCOrderFlow -----------------------------
(* Three tries stand for eleven and two or three fallback attempts for five: *)
(* the first, a middle and the last one all occur.                           *)
EXTENDS OrderFlow

RawLast == {N}
=============================================================================
