----------------------------- MODULE TFRealtime -----------------------------
(* internal/tfrealtime/service.go: the goroutine that keeps the TurboFlow    *)
(* odds feed connected, the cached odds, and the channel that is closed and  *)
(* replaced on every push.  The feed is external.                            *)
EXTENDS Integers

CONSTANTS
    Rates,       \* odds a push may carry; 0 is no odds
    MaxRuns,     \* bound: calls of Start that start a goroutine
    MaxPushes    \* bound: pushes from the feed

ASSUME RealtimeAssumption ==
    Rates \subseteq Nat /\ 0 \in Rates /\ MaxRuns \in Nat /\ MaxPushes \in Nat

Runs == 1..MaxRuns
NoRun == 0

VARIABLES
    runCtx,      \* the run that owns Service.runCtx and cancel
    conn,        \* Service.conn: the run whose connection it is
    connected,   \* snapshot.Connected
    lastError,   \* snapshot.LastError is set
    odds,        \* snapshot.Pairs of one symbol, as the rate of one direction
    revision,    \* snapshot.Revision, also the identity of updateCh
    run,         \* per goroutine: program point, cancelled, connection open
    nruns,
    stop         \* a Stop that has released the lock: the run it will cancel
                 \*   and the connection it will close

tfvars == <<runCtx, conn, connected, lastError, odds, revision, run, nruns, stop>>

RunState == [cancelled : BOOLEAN, open : BOOLEAN,
             pc : {"new", "pick", "dial", "dialed", "published", "subscribe",
                   "read", "cleanup", "sleep", "exited"}]

TFTypeOK ==
    /\ runCtx \in 0..MaxRuns /\ conn \in 0..MaxRuns
    /\ connected \in BOOLEAN /\ lastError \in BOOLEAN
    /\ odds \in Rates
    /\ revision \in 0..MaxPushes
    /\ run \in [Runs -> RunState]
    /\ nruns \in 0..MaxRuns
    /\ stop \in [run : 0..MaxRuns, conn : 0..MaxRuns]

NoStop == [run |-> NoRun, conn |-> NoRun]

TFInit ==
    /\ runCtx = NoRun /\ conn = NoRun
    /\ connected = FALSE /\ lastError = FALSE
    /\ odds = 0 /\ revision = 0
    /\ run = [r \in Runs |-> [cancelled |-> FALSE, open |-> FALSE, pc |-> "new"]]
    /\ nruns = 0 /\ stop = NoStop

Goto(r, from, to) ==
    /\ run[r].pc = from
    /\ run' = [run EXCEPT ![r].pc = to]

SetError == connected' = FALSE /\ lastError' = TRUE

-----------------------------------------------------------------------------

\* Mutant of Start: starts a second goroutine.
StartAgain ==
    /\ nruns < MaxRuns
    /\ nruns' = nruns + 1
    /\ runCtx' = nruns'
    /\ run' = [run EXCEPT ![nruns'].pc = "pick"]
    /\ UNCHANGED <<conn, connected, lastError, odds, revision, stop>>

Start ==
    /\ runCtx = NoRun /\ nruns < MaxRuns
    /\ nruns' = nruns + 1
    /\ runCtx' = nruns'
    /\ run' = [run EXCEPT ![nruns'].pc = "pick"]
    /\ UNCHANGED <<conn, connected, lastError, odds, revision, stop>>

\* Stop forgets the run and its connection under the lock ...
Stop ==
    /\ stop = NoStop
    /\ stop' = [run |-> runCtx, conn |-> conn]
    /\ runCtx' = NoRun /\ conn' = NoRun /\ connected' = FALSE
    /\ UNCHANGED <<lastError, odds, revision, run, nruns>>

\* ... and cancels and closes them once it has released it.
FinishStop ==
    /\ stop # NoStop
    /\ run' = [r \in Runs |-> [run[r] EXCEPT
                            !.cancelled = IF r = stop.run THEN TRUE ELSE @,
                            !.open = IF r = stop.conn THEN FALSE ELSE @]]
    /\ stop' = NoStop
    /\ UNCHANGED <<runCtx, conn, connected, lastError, odds, revision, nruns>>

\* runOnce: an account with a token, no account at all (idle), or accounts
\* without tokens (an error).
PickAccount(r) ==
    /\ Goto(r, "pick", "dial")
    /\ UNCHANGED <<runCtx, conn, connected, lastError, odds, revision, nruns, stop>>

NoAccount(r) ==
    /\ Goto(r, "pick", "sleep")
    /\ connected' = FALSE /\ lastError' = FALSE
    /\ UNCHANGED <<runCtx, conn, odds, revision, nruns, stop>>

NoToken(r) ==
    /\ Goto(r, "pick", "sleep")
    /\ SetError
    /\ UNCHANGED <<runCtx, conn, odds, revision, nruns, stop>>

\* The dial does not take the context: Stop does not interrupt it.
DialOk(r) ==
    /\ run[r].pc = "dial"
    /\ run' = [run EXCEPT ![r].pc = "dialed", ![r].open = TRUE]
    /\ UNCHANGED <<runCtx, conn, connected, lastError, odds, revision, nruns, stop>>

DialFails(r) ==
    /\ Goto(r, "dial", "sleep")
    /\ IF run[r].cancelled THEN UNCHANGED <<connected, lastError>> ELSE SetError
    /\ UNCHANGED <<runCtx, conn, odds, revision, nruns, stop>>

\* Under the lock: publish the connection unless stopped while dialling.
Publish(r) ==
    /\ ~run[r].cancelled
    /\ Goto(r, "dialed", "published")
    /\ conn' = r
    /\ UNCHANGED <<runCtx, connected, lastError, odds, revision, nruns, stop>>

DropDialed(r) ==
    /\ run[r].cancelled /\ run[r].pc = "dialed"
    /\ run' = [run EXCEPT ![r].pc = "sleep", ![r].open = FALSE]
    /\ UNCHANGED <<runCtx, conn, connected, lastError, odds, revision, nruns, stop>>

\* setConnected(true) takes the lock again.
MarkConnected(r) ==
    /\ Goto(r, "published", "subscribe")
    /\ connected' = TRUE /\ lastError' = FALSE
    /\ UNCHANGED <<runCtx, conn, odds, revision, nruns, stop>>

Subscribe(r) ==
    /\ run[r].open
    /\ Goto(r, "subscribe", "read")
    /\ UNCHANGED <<runCtx, conn, connected, lastError, odds, revision, nruns, stop>>

\* Writing the subscription or reading fails: Stop's doing, or an error.
ConnectionFails(r) ==
    /\ run[r].pc \in {"subscribe", "read"}
    /\ run' = [run EXCEPT ![r].pc = "cleanup"]
    /\ IF run[r].cancelled THEN UNCHANGED <<connected, lastError>> ELSE SetError
    /\ UNCHANGED <<runCtx, conn, odds, revision, nruns, stop>>

\* Mutant of Notify: keeps the channel that waiters hold.
NotifyNobody == UNCHANGED revision

\* notifyLocked: close the channel that waiters hold and make a new one.
Notify == revision' = revision + 1

\* handleMessage with usable odds (a frame may still be in the read buffer
\* when Stop closes the connection).
HandleOdds(r, rate) ==
    /\ run[r].pc = "read" /\ revision < MaxPushes
    /\ odds' = rate
    /\ connected' = TRUE /\ lastError' = FALSE
    /\ Notify
    /\ UNCHANGED <<runCtx, conn, run, nruns, stop>>

\* A rejected subscription: an error, though the connection stays.
SubscribeRejected(r) ==
    /\ run[r].pc = "read"
    /\ SetError
    /\ UNCHANGED <<runCtx, conn, odds, revision, run, nruns, stop>>

\* Mutant of Cleanup: leaves the closed connection in place.
CleanupKeepsConn(r) ==
    /\ run[r].pc = "cleanup"
    /\ run' = [run EXCEPT ![r].pc = "sleep", ![r].open = FALSE]
    /\ stop' = IF stop.conn = r THEN [stop EXCEPT !.conn = NoRun] ELSE stop
    /\ UNCHANGED <<runCtx, conn, connected, lastError, odds, revision, nruns>>

\* The deferred functions of runOnce.  A Stop that was about to close this
\* connection finds it closed.
Cleanup(r) ==
    /\ run[r].pc = "cleanup"
    /\ run' = [run EXCEPT ![r].pc = "sleep", ![r].open = FALSE]
    /\ conn' = IF conn = r THEN NoRun ELSE conn
    /\ stop' = IF stop.conn = r THEN [stop EXCEPT !.conn = NoRun] ELSE stop
    /\ UNCHANGED <<runCtx, connected, lastError, odds, revision, nruns>>

\* The select between the context and the timer: a timer that has fired may win
\* over a context that is cancelled.
Retry(r) ==
    /\ Goto(r, "sleep", "pick")
    /\ UNCHANGED <<runCtx, conn, connected, lastError, odds, revision, nruns, stop>>

\* Only the run that still owns runCtx clears it.
Exit(r) ==
    /\ run[r].cancelled
    /\ Goto(r, "sleep", "exited")
    /\ runCtx' = IF runCtx = r THEN NoRun ELSE runCtx
    /\ UNCHANGED <<conn, connected, lastError, odds, revision, nruns, stop>>

RunStep(r) ==
    \/ PickAccount(r) \/ NoAccount(r) \/ NoToken(r)
    \/ DialOk(r) \/ DialFails(r) \/ Publish(r) \/ DropDialed(r)
    \/ MarkConnected(r) \/ Subscribe(r) \/ ConnectionFails(r)
    \/ \E rate \in Rates : HandleOdds(r, rate)
    \/ SubscribeRejected(r) \/ Cleanup(r) \/ Retry(r) \/ Exit(r)

TFNext == Start \/ Stop \/ FinishStop \/ \E r \in Runs : RunStep(r)

TFSpec == TFInit /\ [][TFNext]_tfvars

-----------------------------------------------------------------------------
(* Properties.                                                               *)

Started(r) == run[r].pc # "new"

\* A restart is not undone by the goroutine of the run before it: the run that
\* owns runCtx is alive and not cancelled, and every other one is cancelled (or
\* about to be).
OwnerIsAlive ==
    runCtx # NoRun => /\ run[runCtx].pc \notin {"new", "exited"}
                      /\ ~run[runCtx].cancelled
                      /\ \A r \in Runs \ {runCtx, stop.run} :
                            Started(r) => run[r].cancelled

\* The connection that Stop would close is open: a reconnecting run forgets its
\* old connection, and never one that a later run has published.
PublishedIsOpen == conn # NoRun => run[conn].open
=============================================================================
