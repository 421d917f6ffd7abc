--------------------------- MODULE OddsWaitProofs ---------------------------
(* Proofs about the odds service and the orders that wait on it: for any     *)
(* number of runs, pushes and waiting orders and any odds.                   *)
EXTENDS OddsWait, TLAPS

-----------------------------------------------------------------------------
(* Types.  The Boolean fields of the snapshot go to a prover of their own.   *)

Flags == connected \in BOOLEAN /\ lastError \in BOOLEAN

Shape ==
    /\ runCtx \in 0..MaxRuns /\ conn \in 0..MaxRuns
    /\ odds \in Rates
    /\ revision \in 0..MaxPushes
    /\ run \in [Runs -> RunState]
    /\ nruns \in 0..MaxRuns
    /\ stop \in [run : 0..MaxRuns, conn : 0..MaxRuns]

\* The service keeps its scalar variables within their ranges.
LEMMA FlagsStep == Flags /\ [TFNext]_tfvars => Flags'
  BY DEF TFNext, RunStep, Start, Stop, FinishStop, PickAccount, NoAccount, NoToken, DialOk,
         DialFails, Publish, DropDialed, MarkConnected, Subscribe, ConnectionFails,
         SubscribeRejected, Cleanup, Retry, Exit, HandleOdds, SetError, Flags, tfvars

\* The service keeps the states of its goroutines within their ranges.
LEMMA ShapeStep == Shape /\ [TFNext]_tfvars => Shape'
<1> SUFFICES ASSUME Shape, [TFNext]_tfvars PROVE Shape'
  OBVIOUS
<1> USE RealtimeAssumption DEF Shape
<1>1. CASE Start
  <2>1. nruns' \in 1..MaxRuns /\ nruns' \in 0..MaxRuns
    BY <1>1 DEF Start
  <2>2. run' \in [Runs -> RunState]
    BY <1>1, <2>1 DEF Start, RunState, Runs
  <2> QED
    BY <1>1, <2>1, <2>2 DEF Start
<1>2. CASE Stop
  BY <1>2 DEF Stop, NoRun
<1>3. CASE FinishStop
  <2>1. run' \in [Runs -> RunState]
    <3>1. ASSUME NEW r \in Runs, NEW c \in BOOLEAN, NEW o \in BOOLEAN
          PROVE  [run[r] EXCEPT !.cancelled = c, !.open = o] \in RunState
      BY DEF RunState
    <3>2. \A r \in Runs : run[r].cancelled \in BOOLEAN /\ run[r].open \in BOOLEAN
      BY DEF RunState
    <3> QED
      BY <1>3, <3>1, <3>2 DEF FinishStop
  <2>2. NoStop \in [run : 0..MaxRuns, conn : 0..MaxRuns]
    BY DEF NoStop, NoRun
  <2> QED
    BY <1>3, <2>1, <2>2 DEF FinishStop
<1>4. ASSUME NEW r \in Runs, PickAccount(r) \/ NoAccount(r) \/ NoToken(r) \/ DialOk(r) PROVE Shape'
  BY <1>4 DEF PickAccount, NoAccount, NoToken, DialOk, Goto, SetError, RunState
<1>5. ASSUME NEW r \in Runs, DialFails(r) \/ MarkConnected(r) PROVE Shape'
  BY <1>5 DEF DialFails, MarkConnected, Goto, RunState
<1>6. ASSUME NEW r \in Runs, DropDialed(r) PROVE Shape'
  <2>1. [run[r] EXCEPT !.pc = "sleep", !.open = FALSE] \in RunState
    BY DEF RunState
  <2>2. run' = [run EXCEPT ![r] = [run[r] EXCEPT !.pc = "sleep", !.open = FALSE]]
    BY <1>6 DEF DropDialed
  <2>3. run' \in [Runs -> RunState]
    BY <2>1, <2>2
  <2> QED
    BY <1>6, <2>3 DEF DropDialed
<1>7. ASSUME NEW r \in Runs, Publish(r) PROVE Shape'
  <2>1. r \in 0..MaxRuns
    BY DEF Runs
  <2> QED
    BY <1>7, <2>1 DEF Publish, Goto, RunState
<1>8. ASSUME NEW r \in Runs, Subscribe(r) \/ ConnectionFails(r) \/ SubscribeRejected(r) PROVE Shape'
  BY <1>8 DEF Subscribe, ConnectionFails, SubscribeRejected, Goto, SetError, RunState
<1>9. ASSUME NEW r \in Runs, NEW rate \in Rates, HandleOdds(r, rate) PROVE Shape'
  BY <1>9 DEF HandleOdds, Notify
<1>10. ASSUME NEW r \in Runs, Cleanup(r) PROVE Shape'
  <2>1. run' \in [Runs -> RunState]
    <3>1. [run[r] EXCEPT !.pc = "sleep", !.open = FALSE] \in RunState
      BY DEF RunState
    <3>2. run' = [run EXCEPT ![r] = [run[r] EXCEPT !.pc = "sleep", !.open = FALSE]]
      BY <1>10 DEF Cleanup
    <3> QED
      BY <3>1, <3>2
  <2>2. stop' \in [run : 0..MaxRuns, conn : 0..MaxRuns]
    BY <1>10 DEF Cleanup, NoRun
  <2> QED
    BY <1>10, <2>1, <2>2 DEF Cleanup, NoRun
<1>11. ASSUME NEW r \in Runs, Retry(r) \/ Exit(r) PROVE Shape'
  BY <1>11 DEF Retry, Exit, Goto, RunState, NoRun
<1>12. CASE UNCHANGED tfvars
  BY <1>12 DEF tfvars
<1> QED
  BY <1>1, <1>2, <1>3, <1>4, <1>5, <1>6, <1>7, <1>8, <1>9, <1>10, <1>11, <1>12 DEF TFNext, RunStep

-----------------------------------------------------------------------------
(* Life cycle of the service's goroutines.  A Stop forgets the owner before  *)
(* it cancels it, so between the two steps one run besides the owner may     *)
(* still go on: the one that Stop holds.                                     *)

\* Runs not started yet are untouched.
Unstarted == \A r \in Runs : r > nruns => run[r].pc = "new" /\ ~run[r].cancelled

OwnerLives == runCtx # NoRun => run[runCtx].pc \notin {"new", "exited"} /\ ~run[runCtx].cancelled

\* The owner and the run that Stop holds are different ones, and all others are over.
OthersCancelled ==
    /\ runCtx <= nruns /\ stop.run <= nruns
    /\ stop.run # NoRun => stop.run # runCtx
    /\ \A r \in Runs : (r # runCtx /\ r # stop.run /\ Started(r)) => run[r].cancelled

LifeInv == Unstarted /\ OwnerLives /\ OthersCancelled

\* Starts, stops and exits leave one run in charge.
LEMMA LifeInvStep == Shape /\ LifeInv /\ [TFNext]_tfvars => LifeInv'
<1> SUFFICES ASSUME Shape, LifeInv, [TFNext]_tfvars PROVE LifeInv'
  OBVIOUS
<1> USE RealtimeAssumption DEF Shape, LifeInv, Unstarted, OwnerLives, OthersCancelled, Started
<1>1. CASE Start
  BY <1>1 DEF Start, RunState, Runs, NoRun
<1>2. CASE Stop
  BY <1>2 DEF Stop, NoStop, NoRun, Runs
<1>3. CASE FinishStop
  <2>1. \A r \in Runs : /\ run'[r].pc = run[r].pc
                        /\ r = stop.run => run'[r].cancelled
                        /\ r # stop.run => run'[r].cancelled = run[r].cancelled
    <3> SUFFICES ASSUME NEW r \in Runs
        PROVE /\ run'[r].pc = run[r].pc
              /\ r = stop.run => run'[r].cancelled
              /\ r # stop.run => run'[r].cancelled = run[r].cancelled
      OBVIOUS
    <3>1. run[r] \in RunState
      OBVIOUS
    <3>2. run'[r] = [run[r] EXCEPT !.cancelled = IF r = stop.run THEN TRUE ELSE run[r].cancelled,
                                   !.open = IF r = stop.conn THEN FALSE ELSE run[r].open]
      BY <1>3 DEF FinishStop
    <3>3. run'[r].pc = run[r].pc
      BY <3>1, <3>2 DEF RunState
    <3>4. run'[r].cancelled = IF r = stop.run THEN TRUE ELSE run[r].cancelled
      BY <3>1, <3>2 DEF RunState
    <3> QED
      BY <3>3, <3>4
  <2>2. stop'.run = NoRun /\ runCtx' = runCtx /\ nruns' = nruns
    BY <1>3 DEF FinishStop, NoStop
  <2>3. Unstarted'
    BY <2>1, <2>2 DEF NoRun, Runs
  <2>4. OwnerLives'
    BY <2>1, <2>2 DEF NoRun, Runs
  <2>5. OthersCancelled'
    BY <2>1, <2>2 DEF NoRun, Runs
  <2> QED
    BY <2>3, <2>4, <2>5
<1>4. ASSUME NEW r \in Runs, NEW pc, pc \notin {"new", "exited"}, run[r].pc # "new",
             run' = [run EXCEPT ![r].pc = pc], UNCHANGED <<runCtx, stop, nruns>>
      PROVE LifeInv'
  BY <1>4 DEF RunState, NoRun, Runs
<1>5. ASSUME NEW r \in Runs, PickAccount(r) \/ NoAccount(r) \/ NoToken(r) \/ DialFails(r)
      PROVE LifeInv'
  BY <1>4, <1>5 DEF PickAccount, NoAccount, NoToken, DialFails, Goto
<1>6. ASSUME NEW r \in Runs, Publish(r) \/ MarkConnected(r) \/ Subscribe(r)
      PROVE LifeInv'
  <2>1. CASE Publish(r)
    BY <1>4, <2>1 DEF Publish, Goto
  <2>2. CASE MarkConnected(r)
    BY <1>4, <2>2 DEF MarkConnected, Goto
  <2>3. CASE Subscribe(r)
    BY <1>4, <2>3 DEF Subscribe, Goto
  <2> QED
    BY <1>6, <2>1, <2>2, <2>3
<1>7. ASSUME NEW r \in Runs, Retry(r) \/ ConnectionFails(r) PROVE LifeInv'
  <2>1. run[r].pc # "new" /\ UNCHANGED <<runCtx, stop, nruns>>
    BY <1>7 DEF Retry, ConnectionFails, Goto
  <2>2. \/ run' = [run EXCEPT ![r].pc = "pick"]
        \/ run' = [run EXCEPT ![r].pc = "cleanup"]
    BY <1>7 DEF Retry, ConnectionFails, Goto
  <2> QED
    BY <1>4, <2>1, <2>2
<1>8. ASSUME NEW r \in Runs, DialOk(r) \/ DropDialed(r) PROVE LifeInv'
  <2>1. /\ run[r].pc # "new" /\ run'[r].pc \notin {"new", "exited"}
        /\ run'[r].cancelled = run[r].cancelled
        /\ \A s \in Runs \ {r} : run'[s] = run[s]
        /\ UNCHANGED <<runCtx, stop, nruns>>
    BY <1>8 DEF DialOk, DropDialed, RunState
  <2> QED
    BY <2>1 DEF NoRun, Runs
<1>9. ASSUME NEW r \in Runs, Cleanup(r) PROVE LifeInv'
  <2>1. stop'.run = stop.run
    BY <1>9 DEF Cleanup
  <2> QED
    BY <1>9, <2>1 DEF Cleanup, RunState, NoRun, Runs
<1>10. ASSUME NEW r \in Runs, Exit(r) PROVE LifeInv'
  BY <1>10 DEF Exit, Goto, RunState, NoRun, Runs
<1>11. ASSUME NEW r \in Runs, NEW rate \in Rates, HandleOdds(r, rate) \/ SubscribeRejected(r)
      PROVE LifeInv'
  BY <1>11 DEF HandleOdds, SubscribeRejected
<1>12. CASE UNCHANGED tfvars
  BY <1>12 DEF tfvars
<1> QED
  BY <1>1, <1>2, <1>3, <1>5, <1>6, <1>7, <1>8, <1>9, <1>10, <1>11, <1>12 DEF TFNext, RunStep

-----------------------------------------------------------------------------
(* Connections.                                                              *)

\* Where a goroutine is while it has a published connection of its own.
Published == {"published", "subscribe", "read", "cleanup"}

\* A dialled connection is open until it is published or dropped.
DialedIsOpen == \A r \in Runs : run[r].pc = "dialed" => run[r].open

\* The connection in Service.conn is open, and is not the one that a Stop is
\* about to close.
ConnInv ==
    /\ conn # NoRun => run[conn].pc \in Published /\ run[conn].open
    /\ stop.conn # NoRun => run[stop.conn].pc \in Published /\ stop.conn # conn

OpenInv == DialedIsOpen /\ ConnInv

\* Dials, cleanups and stops never leave a closed connection published.
LEMMA OpenInvStep == Shape /\ LifeInv /\ OpenInv /\ [TFNext]_tfvars => OpenInv'
<1> SUFFICES ASSUME Shape, LifeInv, OpenInv, [TFNext]_tfvars PROVE OpenInv'
  OBVIOUS
<1> USE RealtimeAssumption DEF Shape, OpenInv, DialedIsOpen, ConnInv, Published
<1>1. CASE Start
  <2>1. nruns + 1 \in Runs /\ run[nruns + 1].pc = "new"
    BY <1>1 DEF Start, Runs, LifeInv, Unstarted
  <2> QED
    BY <1>1, <2>1 DEF Start, RunState, Runs, NoRun
<1>2. CASE Stop
  BY <1>2 DEF Stop, NoStop, NoRun, Runs
<1>3. CASE FinishStop
  <2>1. stop'.conn = NoRun /\ conn' = conn
    BY <1>3 DEF FinishStop, NoStop
  <2>2. ASSUME NEW r \in Runs
        PROVE /\ run'[r].pc = run[r].pc
              /\ r # stop.conn => run'[r].open = run[r].open
    <3>1. run[r] \in RunState
      OBVIOUS
    <3>2. run'[r] = [run[r] EXCEPT !.cancelled = IF r = stop.run THEN TRUE ELSE run[r].cancelled,
                                   !.open = IF r = stop.conn THEN FALSE ELSE run[r].open]
      BY <1>3 DEF FinishStop
    <3> QED
      BY <3>1, <3>2 DEF RunState
  <2> QED
    BY <2>1, <2>2 DEF NoRun, Runs
<1>4. ASSUME NEW r \in Runs, NEW pc, run' = [run EXCEPT ![r].pc = pc],
             UNCHANGED <<conn, stop>>, pc # "dialed",
             run[r].pc \in Published => pc \in Published
      PROVE OpenInv'
  BY <1>4 DEF RunState, NoRun, Runs
<1>5. ASSUME NEW r \in Runs, PickAccount(r) \/ NoAccount(r) \/ NoToken(r)
      PROVE OpenInv'
  BY <1>4, <1>5 DEF PickAccount, NoAccount, NoToken, Goto
<1>6. ASSUME NEW r \in Runs, DialFails(r) \/ Retry(r) \/ Exit(r) PROVE OpenInv'
  BY <1>4, <1>6 DEF DialFails, Retry, Exit, Goto
<1>7. ASSUME NEW r \in Runs, MarkConnected(r) \/ Subscribe(r) PROVE OpenInv'
  BY <1>4, <1>7 DEF MarkConnected, Subscribe, Goto
<1>8. ASSUME NEW r \in Runs, ConnectionFails(r) PROVE OpenInv'
  BY <1>4, <1>8 DEF ConnectionFails
<1>9. ASSUME NEW r \in Runs, DialOk(r) PROVE OpenInv'
  BY <1>9 DEF DialOk, RunState, NoRun, Runs
<1>10. ASSUME NEW r \in Runs, Publish(r) PROVE OpenInv'
  BY <1>10 DEF Publish, Goto, RunState, NoRun, Runs
<1>11. ASSUME NEW r \in Runs, DropDialed(r) PROVE OpenInv'
  BY <1>11 DEF DropDialed, RunState, NoRun, Runs
<1>12. ASSUME NEW r \in Runs, NEW rate \in Rates, HandleOdds(r, rate) \/ SubscribeRejected(r)
       PROVE OpenInv'
  BY <1>12 DEF HandleOdds, SubscribeRejected
<1>13. ASSUME NEW r \in Runs, Cleanup(r) PROVE OpenInv'
  <2>1. stop'.conn = IF stop.conn = r THEN NoRun ELSE stop.conn
    BY <1>13 DEF Cleanup
  <2> QED
    BY <1>13, <2>1 DEF Cleanup, RunState, NoRun, Runs
<1>14. CASE UNCHANGED tfvars
  BY <1>14 DEF tfvars
<1> QED
  BY <1>1, <1>2, <1>3, <1>5, <1>6, <1>7, <1>8, <1>9, <1>10, <1>11, <1>12, <1>13, <1>14
     DEF TFNext, RunStep

-----------------------------------------------------------------------------
(* The waiting orders.                                                       *)

WaitShape ==
    /\ w \in [Waiters -> WaitState]
    /\ placed \in [Waiters -> Nat]

\* An order has subscribed to a channel that has existed; if it still is the
\* current one, then no odds have come since the order found them too low.
SubscribedInv ==
    /\ \A x \in Waiters : w[x].channel <= revision
    /\ BlockedMeansLow

WaitInv == WaitShape /\ SubscribedInv /\ PlacedOnce

\* Odds change only together with the channel.
LEMMA OddsChangeIsAnnounced ==
    Shape /\ [TFNext]_tfvars => \/ odds' = odds /\ revision' = revision
                               \/ revision' = revision + 1
<1> SUFFICES ASSUME Shape, [TFNext]_tfvars
    PROVE (odds' = odds /\ revision' = revision) \/ revision' = revision + 1
  OBVIOUS
<1>1. ASSUME NEW r \in Runs, NEW rate \in Rates, HandleOdds(r, rate) PROVE revision' = revision + 1
  BY <1>1 DEF HandleOdds, Notify
<1>2. CASE ~\E r \in Runs, rate \in Rates : HandleOdds(r, rate)
  BY <1>2 DEF TFNext, RunStep, Start, Stop, FinishStop, PickAccount, NoAccount, NoToken,
              DialOk, DialFails, Publish, DropDialed, MarkConnected, Subscribe,
              ConnectionFails, SubscribeRejected, Cleanup, Retry, Exit, tfvars
<1> QED
  BY <1>1, <1>2

\* A step of the service disturbs no waiting order.
LEMMA ServiceKeepsWaitInv ==
    Shape /\ WaitInv /\ [TFNext]_tfvars /\ UNCHANGED wvars => WaitInv'
<1> SUFFICES ASSUME Shape, WaitInv, [TFNext]_tfvars, UNCHANGED wvars PROVE WaitInv'
  OBVIOUS
<1>1. w' = w /\ placed' = placed
  BY DEF wvars
<1>2. \A x \in Waiters : w[x].channel \in 0..MaxPushes /\ w[x].channel <= revision
  BY DEF WaitInv, WaitShape, WaitState, SubscribedInv
<1>3. SubscribedInv'
  BY <1>1, <1>2, OddsChangeIsAnnounced, RealtimeAssumption
     DEF Shape, WaitInv, SubscribedInv, BlockedMeansLow, Reached
<1> QED
  BY <1>1, <1>3 DEF WaitInv, WaitShape, PlacedOnce

\* A step of one order: it moves on within its states, and places when it enters
\* "placed".
LEMMA OrderKeepsWaitInv ==
    ASSUME Shape, WaitInv, NEW x \in Waiters, UNCHANGED tfvars,
           Dispatch(x) \/ WaitStep(x) \/ TimerFires(x) \/ ContextEnds(x)
    PROVE  WaitInv'
<1> USE RealtimeAssumption DEF WaitInv, WaitShape, SubscribedInv, BlockedMeansLow, PlacedOnce, Reached
<1>0. odds' = odds /\ revision' = revision /\ revision \in 0..MaxPushes
  BY DEF tfvars, Shape
<1>1. CASE \E from \in {"new", "first", "select"}, to \in {"first", "subscribe", "failed"} :
              Move(x, from, to) /\ placed' = placed
  BY <1>0, <1>1 DEF Move, WaitState
<1>2. CASE Block(x)
  BY <1>0, <1>2 DEF Block, Move, WaitState
<1>3. CASE \E from \in {"first", "check", "select"} : PlaceFrom(x, from)
  BY <1>0, <1>3 DEF PlaceFrom, Move, WaitState
<1>4. CASE SubscribeUpdates(x)
  <2>1. w' \in [Waiters -> WaitState]
    <3>1. [w[x] EXCEPT !.pc = "check", !.channel = revision] \in WaitState
      BY <1>0 DEF WaitState
    <3>2. w' = [w EXCEPT ![x] = [w[x] EXCEPT !.pc = "check", !.channel = revision]]
      BY <1>4 DEF SubscribeUpdates
    <3> QED
      BY <3>1, <3>2
  <2>2. /\ w[x].pc = "subscribe" /\ w'[x].pc = "check" /\ w'[x].channel = revision
        /\ \A y \in Waiters \ {x} : w'[y] = w[y]
        /\ placed' = placed
    BY <1>4 DEF SubscribeUpdates, WaitState
  <2> QED
    BY <1>0, <2>1, <2>2
<1>5. CASE TimerFires(x) \/ ContextEnds(x)
  <2>1. w' \in [Waiters -> WaitState]
    <3>1. CASE TimerFires(x)
      <4>1. [w[x] EXCEPT !.fired = TRUE] \in WaitState
        BY DEF WaitState
      <4> QED
        BY <3>1, <4>1 DEF TimerFires
    <3>2. CASE ContextEnds(x)
      <4>1. [w[x] EXCEPT !.ended = TRUE] \in WaitState
        BY DEF WaitState
      <4> QED
        BY <3>2, <4>1 DEF ContextEnds
    <3> QED
      BY <1>5, <3>1, <3>2
  <2>2. \A y \in Waiters : /\ w'[y].pc = w[y].pc /\ w'[y].min = w[y].min
                           /\ w'[y].channel = w[y].channel
    BY <1>5 DEF TimerFires, ContextEnds, WaitState
  <2>3. placed' = placed
    BY <1>5 DEF TimerFires, ContextEnds
  <2> QED
    BY <1>0, <2>1, <2>2, <2>3
<1> QED
  BY <1>1, <1>2, <1>3, <1>4, <1>5
     DEF Dispatch, WaitStep, PlaceUnconditionally, PlaceAtOnce, BeginWait, PlaceOnOdds, WakeUp,
         PlaceOnTimeout, GiveUp

-----------------------------------------------------------------------------
(* The whole.                                                                *)

IInv == Flags /\ Shape /\ LifeInv /\ OpenInv /\ WaitInv

\* The invariant holds before the service is started.
LEMMA IInvInit == Init => IInv
<1> SUFFICES ASSUME Init PROVE IInv
  OBVIOUS
<1> USE RealtimeAssumption DEF Init, TFInit
<1>1. Flags
  BY DEF Flags
<1>2. Shape
  <2>1. run \in [Runs -> RunState]
    BY DEF RunState
  <2>2. stop \in [run : 0..MaxRuns, conn : 0..MaxRuns]
    BY DEF NoStop, NoRun
  <2> QED
    BY <2>1, <2>2 DEF Shape, NoRun
<1>3. LifeInv /\ OpenInv
  BY DEF LifeInv, Unstarted, OwnerLives, OthersCancelled, OpenInv, DialedIsOpen, ConnInv,
         Started, NoStop, NoRun
<1>4. \A x \in Waiters : w[x].pc = "new" /\ w[x].channel = 0
  OBVIOUS
<1>5. WaitShape
  <2>1. ASSUME NEW x \in Waiters PROVE w[x] \in WaitState
    <3>1. w[x] \in [pc : {"new"}, min : Minimums, channel : {0}, fired : {FALSE}, ended : {FALSE}]
      OBVIOUS
    <3> QED
      BY <3>1, {FALSE} \subseteq BOOLEAN, {0} \subseteq 0..MaxPushes,
         {"new"} \subseteq {"new", "first", "subscribe", "check", "select", "placed", "failed"}
         DEF WaitState
  <2> QED
    BY <2>1 DEF WaitShape
<1>6. SubscribedInv /\ PlacedOnce
  BY <1>4 DEF SubscribedInv, BlockedMeansLow, PlacedOnce
<1> QED
  BY <1>1, <1>2, <1>3, <1>5, <1>6 DEF IInv, WaitInv

\* Neither the service nor an order breaks the invariant.
LEMMA IInvStep == IInv /\ [Next]_vars => IInv'
<1> SUFFICES ASSUME IInv, [Next]_vars PROVE IInv'
  OBVIOUS
<1>1. [TFNext]_tfvars
  BY DEF Next, WaitStep, Dispatch, PlaceUnconditionally, PlaceAtOnce, BeginWait,
         SubscribeUpdates, PlaceOnOdds, Block, WakeUp, PlaceOnTimeout, GiveUp, TimerFires,
         ContextEnds, vars
<1>2. (Flags /\ Shape /\ LifeInv /\ OpenInv)'
  BY <1>1, FlagsStep, ShapeStep, LifeInvStep, OpenInvStep DEF IInv
<1>3. WaitInv'
  <2>1. CASE UNCHANGED wvars
    BY <1>1, <2>1, ServiceKeepsWaitInv DEF IInv
  <2>2. ASSUME NEW x \in Waiters,
               Dispatch(x) \/ WaitStep(x) \/ TimerFires(x) \/ ContextEnds(x)
        PROVE WaitInv'
    <3>1. UNCHANGED tfvars
      BY <2>2 DEF WaitStep, Dispatch, PlaceUnconditionally, PlaceAtOnce, BeginWait,
                  SubscribeUpdates, PlaceOnOdds, Block, WakeUp, PlaceOnTimeout, GiveUp,
                  TimerFires, ContextEnds
    <3> QED
      BY <2>2, <3>1, OrderKeepsWaitInv DEF IInv
  <2> QED
    BY <2>1, <2>2 DEF Next, vars
<1> QED
  BY <1>2, <1>3 DEF IInv

\* The invariant holds in every behaviour.
LEMMA IInvCorrect == Spec => []IInv
  BY IInvInit, IInvStep, PTL DEF Spec

\* Every variable of the service and of the waiting orders keeps to its range.
THEOREM TypeCorrect == Spec => []TypeOK
<1>1. IInv => TypeOK
  BY DEF IInv, Flags, Shape, WaitInv, WaitShape, TypeOK, TFTypeOK
<1> QED
  BY <1>1, IInvCorrect, PTL

\* No stopped goroutine undoes a restart (tfrealtime/service.go, Start): the run
\* that owns the service is alive and the others are cancelled.
THEOREM OwnerCorrect == Spec => []OwnerIsAlive
<1>1. IInv => OwnerIsAlive
  BY DEF IInv, LifeInv, OwnerLives, OthersCancelled, OwnerIsAlive
<1> QED
  BY <1>1, IInvCorrect, PTL

\* The connection that Stop would close is open (tfrealtime/service.go, runOnce).
THEOREM PublishedCorrect == Spec => []PublishedIsOpen
<1>1. IInv => PublishedIsOpen
  BY DEF IInv, OpenInv, ConnInv, PublishedIsOpen
<1> QED
  BY <1>1, IInvCorrect, PTL

\* An order never sleeps through odds that it waits for (processor.go,
\* placeOrderWithOdds): the channel is taken before the odds are read.
THEOREM NoMissedUpdate == Spec => []BlockedMeansLow
<1>1. IInv => BlockedMeansLow
  BY DEF IInv, WaitInv, SubscribedInv
<1> QED
  BY <1>1, IInvCorrect, PTL

\* "places the order exactly once" (comment of placeOrderWithOdds).
THEOREM PlacedOnceCorrect == Spec => []PlacedOnce
<1>1. IInv => PlacedOnce
  BY DEF IInv, WaitInv
<1> QED
  BY <1>1, IInvCorrect, PTL
=============================================================================
