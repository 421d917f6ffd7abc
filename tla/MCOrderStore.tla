---------------------------- MODULE MCOrderStore ----------------------------
(* A table of two records and three ids: evictions, restarts and ids that    *)
(* are issued again after a crash all occur.  The store treats all final     *)
(* statuses and all results alike, so one of each is enough.                 *)
EXTENDS OrderStore

TwoHosts == {[mount |-> FALSE, readErrors |-> FALSE], [mount |-> TRUE, readErrors |-> TRUE]}
OneOutcome == {"success"}
OneResult == {"win"}
=============================================================================
