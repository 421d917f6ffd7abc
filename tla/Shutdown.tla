------------------------------- MODULE Shutdown -------------------------------
(* How the process ends (cmd/server/main.go), with what it has to wind down: *)
(* the inbound signal connections of internal/wsserver/wsserver.go, the      *)
(* order goroutines of internal/signals/processor.go, counted in             *)
(* Processor.orders, and the order table. The upstream connections, which    *)
(* are stopped between CloseAll and Shutdown, are in UpstreamConn.           *)
EXTENDS Naturals, FiniteSets

CONSTANTS
    Clients,     \* parties that push signals
    MaxOrders    \* bound: signals that become orders

ASSUME ShutdownAssumption == MaxOrders \in Nat

Orders == 1..MaxOrders

VARIABLES
    main,        \* where main() is, see Stages
    accepting,   \* http.Server accepts connections
    conn,        \* per client: where its HandleWS is
    registered,  \* Server.conns
    collected,   \* CloseAll's copy of it
    closed,      \* clients whose socket has been closed
    order,       \* per order goroutine: none, counted, sent, done
    saved,       \* orders whose outcome is in the final snapshot
    early,       \* history: orders counted before main() began to wait for them
    gaveUp       \* history: the wait for them expired

vars == <<main, accepting, conn, registered, collected, closed, order, saved, early, gaveUp>>
sockets == <<conn, registered, closed>>
goroutines == <<order, early, gaveUp>>

Stages == {"up", "quit", "collected", "closed", "draining", "waiting", "waited", "exited"}

TypeOK ==
    /\ main \in Stages
    /\ accepting \in BOOLEAN
    /\ conn \in [Clients -> {"none", "request", "upgraded", "open", "handling"}]
    /\ registered \subseteq Clients /\ collected \subseteq Clients /\ closed \subseteq Clients
    /\ order \in [Orders -> {"none", "counted", "sent", "done"}]
    /\ saved \subseteq Orders /\ early \subseteq Orders /\ gaveUp \in BOOLEAN

Init ==
    /\ main = "up" /\ accepting = TRUE
    /\ conn = [c \in Clients |-> "none"]
    /\ registered = {} /\ collected = {} /\ closed = {}
    /\ order = [o \in Orders |-> "none"]
    /\ saved = {} /\ early = {} /\ gaveUp = FALSE

Running == main # "exited"

-----------------------------------------------------------------------------
(* Inbound connections: HandleWS, a goroutine per connection.                *)

Move(c, from, to) == Running /\ conn[c] = from /\ conn' = [conn EXCEPT ![c] = to]

Request(c) ==
    /\ accepting /\ Move(c, "none", "request")
    /\ UNCHANGED <<main, accepting, registered, collected, closed, goroutines, saved>>

\* A wrong key, or an upgrade that fails.
Refuse(c) ==
    /\ Move(c, "request", "none")
    /\ UNCHANGED <<main, accepting, registered, collected, closed, goroutines, saved>>

\* From here on the connection is hijacked: http.Server forgets it.
Upgrade(c) ==
    /\ Move(c, "request", "upgraded")
    /\ closed' = closed \ {c}
    /\ UNCHANGED <<main, accepting, registered, collected, goroutines, saved>>

AddConn(c) ==
    /\ Move(c, "upgraded", "open")
    /\ registered' = registered \cup {c}
    /\ UNCHANGED <<main, accepting, collected, closed, goroutines, saved>>

\* ReadMessage returns a signal.
ReadSignal(c) ==
    /\ c \notin closed /\ Move(c, "open", "handling")
    /\ UNCHANGED <<main, accepting, registered, collected, closed, goroutines, saved>>

\* Handle ends without an order, or executeTask counts one and starts it.
Ignore(c) ==
    /\ Move(c, "handling", "open")
    /\ UNCHANGED <<main, accepting, registered, collected, closed, goroutines, saved>>

Counted == {o \in Orders : order[o] # "none"}

ExecuteTask(c) ==
    /\ Move(c, "handling", "open")
    /\ \E o \in Orders \ Counted :
          /\ o = Cardinality(Counted) + 1
          /\ order' = [order EXCEPT ![o] = "counted"]
          /\ early' = IF main \in {"waiting", "waited"} THEN early ELSE early \cup {o}
    /\ UNCHANGED <<main, accepting, registered, collected, closed, saved, gaveUp>>

\* The peer closes, or the read deadline passes.
Drop(c) ==
    /\ Running /\ conn[c] \in {"open", "handling"} /\ c \notin closed
    /\ closed' = closed \cup {c}
    /\ UNCHANGED <<main, accepting, conn, registered, collected, goroutines, saved>>

\* ReadMessage fails: removeConn. (To close this socket once more does nothing.)
RemoveConn(c) ==
    /\ c \in closed /\ Move(c, "open", "none")
    /\ registered' = registered \ {c}
    /\ collected' = collected \ {c}
    /\ UNCHANGED <<main, accepting, closed, goroutines, saved>>

-----------------------------------------------------------------------------
(* Order goroutines.                                                         *)

OrderStep(o, from, to) ==
    /\ Running /\ order[o] = from
    /\ order' = [order EXCEPT ![o] = to]
    /\ UNCHANGED <<main, accepting, sockets, collected, saved, early, gaveUp>>

SendOrder(o) == OrderStep(o, "counted", "sent")
FinishOrder(o) == OrderStep(o, "sent", "done")

\* Mutant of InFlight: counts an order only once it has been sent.
InFlightSent == {o \in Orders : order[o] = "sent"}

InFlight == {o \in Orders : order[o] \in {"counted", "sent"}}

-----------------------------------------------------------------------------
(* main().                                                                   *)

Stage(from, to) == main = from /\ main' = to

\* SIGINT or SIGTERM.
Quit ==
    /\ Stage("up", "quit")
    /\ UNCHANGED <<accepting, sockets, collected, goroutines, saved>>

\* CloseAll: the connections are copied under the lock and closed after it.
CollectConns ==
    /\ Stage("quit", "collected")
    /\ collected' = registered
    /\ UNCHANGED <<accepting, sockets, goroutines, saved>>

CloseConns ==
    /\ Stage("collected", "closed")
    /\ closed' = closed \cup collected
    /\ UNCHANGED <<accepting, conn, registered, collected, goroutines, saved>>

\* http.Server.Shutdown closes the listener and waits for its requests, for at
\* most five seconds.
StopListening ==
    /\ Stage("closed", "draining")
    /\ accepting' = FALSE
    /\ UNCHANGED <<sockets, collected, goroutines, saved>>

Drained ==
    /\ Stage("draining", "waiting")
    /\ UNCHANGED <<accepting, sockets, collected, goroutines, saved>>

\* Processor.Stop: WaitOrders polls the count, for at most five seconds.
WaitOrders ==
    /\ Stage("waiting", "waited")
    /\ gaveUp' = (InFlight # {})
    /\ UNCHANGED <<accepting, sockets, collected, order, early, saved>>

\* Store.Close writes the final snapshot, and main returns.
CloseStore ==
    /\ Stage("waited", "exited")
    /\ saved' = {o \in Orders : order[o] = "done"}
    /\ UNCHANGED <<accepting, sockets, collected, goroutines>>

MainNext ==
    Quit \/ CollectConns \/ CloseConns \/ StopListening \/ Drained \/ WaitOrders \/ CloseStore

Next ==
    \/ MainNext
    \/ \E c \in Clients : \/ Request(c) \/ Refuse(c) \/ Upgrade(c) \/ AddConn(c)
                          \/ ReadSignal(c) \/ Ignore(c) \/ ExecuteTask(c)
                          \/ Drop(c) \/ RemoveConn(c)
    \/ \E o \in Orders : SendOrder(o) \/ FinishOrder(o)

Spec == Init /\ [][Next]_vars

-----------------------------------------------------------------------------
(* Properties.                                                               *)

\* "Let order requests that were already submitted finish instead of cutting
\* them off mid-flight": unless the wait expired, an order counted before main()
\* began to wait is done at exit, and its outcome is in the final snapshot.
SubmittedOrdersSaved ==
    (main = "exited" /\ ~gaveUp) => \A o \in early : order[o] = "done" /\ o \in saved
=============================================================================
