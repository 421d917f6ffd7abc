---------------------------- MODULE ServerProofs ----------------------------
(* Proofs about what surrounds the trading core, for any clients, orders,    *)
(* panels, accounts and wallets: the shutdown sequence (Shutdown), the log   *)
(* and its panels (LogStream), the daily snapshot (Balance) and the profits  *)
(* worked out from it (DailyProfits).                                        *)
EXTENDS Shutdown, LogStream, DailyProfits,
        FiniteSetTheorems, SequenceTheorems, WellFoundedInduction, TLAPS

\* Every step leaves main, connections and orders at one of their program points.
LEMMA PointsKept == TypeOK /\ [Next]_vars => TypeOK'
<1> SUFFICES ASSUME TypeOK, [Next]_vars PROVE TypeOK'
  OBVIOUS
<1> USE DEF TypeOK, sockets, goroutines
<1>1. CASE UNCHANGED vars
  BY <1>1 DEF vars
<1>2. CASE MainNext
  <2>1. main' \in Stages
    BY <1>2 DEF MainNext, Quit, CollectConns, CloseConns, StopListening, Drained, WaitOrders,
                CloseStore, Stage, Stages
  <2> QED
    BY <1>2, <2>1 DEF MainNext, Quit, CollectConns, CloseConns, StopListening, Drained,
                      WaitOrders, CloseStore
<1>3. ASSUME NEW c \in Clients,
             \/ Request(c) \/ Refuse(c) \/ Upgrade(c) \/ AddConn(c) \/ ReadSignal(c)
             \/ Ignore(c) \/ Drop(c) \/ RemoveConn(c)
      PROVE  TypeOK'
  BY <1>3 DEF Request, Refuse, Upgrade, AddConn, ReadSignal, Ignore, Drop, RemoveConn, Move
<1>4. ASSUME NEW c \in Clients, ExecuteTask(c) PROVE TypeOK'
  BY <1>4 DEF ExecuteTask, Move
<1>5. ASSUME NEW o \in Orders, SendOrder(o) \/ FinishOrder(o) PROVE TypeOK'
  BY <1>5 DEF SendOrder, FinishOrder, OrderStep
<1> QED
  BY <1>1, <1>2, <1>3, <1>4, <1>5 DEF Next

\* main() and every connection and order goroutine it winds down are at one of their
\* program points (main.go, wsserver.go, processor.go).
THEOREM TypeCorrect == Spec => []TypeOK
<1>1. Init => TypeOK
  BY DEF Init, TypeOK, Stages
<1> QED
  BY <1>1, PointsKept, PTL DEF Spec

OrderShape ==
    /\ order \in [Orders -> {"none", "counted", "sent", "done"}]
    /\ early \subseteq Orders

\* Orders counted in time exist, and the wait that did not expire has seen all
\* of them done; the final snapshot has their outcomes.
EarlyInv ==
    /\ \A o \in early : order[o] # "none"
    /\ (main \in {"waited", "exited"} /\ ~gaveUp) => \A o \in early : order[o] = "done"
    /\ main = "exited" => saved = {o \in Orders : order[o] = "done"}

IInv == OrderShape /\ EarlyInv

\* No order runs before the first signal.
LEMMA IInvInit == Init => IInv
  BY DEF Init, IInv, OrderShape, EarlyInv

\* No step of main(), a connection or an order loses an order that is counted.
LEMMA IInvStep == IInv /\ [Next]_vars => IInv'
<1> SUFFICES ASSUME IInv, [Next]_vars PROVE IInv'
  OBVIOUS
<1> USE DEF IInv, OrderShape, EarlyInv, goroutines, sockets
<1>1. ASSUME UNCHANGED <<order, early, gaveUp, saved>>,
             main' = main \/ main' \notin {"waited", "exited"}
      PROVE IInv'
  BY <1>1
<1>2. ASSUME NEW c \in Clients,
             Request(c) \/ Refuse(c) \/ Upgrade(c) \/ AddConn(c) \/ ReadSignal(c)
               \/ Ignore(c) \/ Drop(c) \/ RemoveConn(c)
      PROVE IInv'
  BY <1>1, <1>2 DEF Request, Refuse, Upgrade, AddConn, ReadSignal, Ignore, Drop, RemoveConn
<1>3. ASSUME NEW c \in Clients, ExecuteTask(c) PROVE IInv'
  <2>1. PICK o \in Orders \ Counted :
          /\ order' = [order EXCEPT ![o] = "counted"]
          /\ early' = IF main \in {"waiting", "waited"} THEN early ELSE early \cup {o}
    BY <1>3 DEF ExecuteTask
  <2>2. main' = main /\ main # "exited" /\ gaveUp' = gaveUp
    BY <1>3 DEF ExecuteTask, Move, Running
  <2>3. order[o] = "none"
    BY DEF Counted
  <2> QED
    BY <2>1, <2>2, <2>3
<1>4. ASSUME NEW o \in Orders, NEW from, NEW to, OrderStep(o, from, to),
             <<from, to>> \in {<<"counted", "sent">>, <<"sent", "done">>}
      PROVE IInv'
  BY <1>4 DEF OrderStep, Running
<1>5. ASSUME NEW o \in Orders, SendOrder(o) \/ FinishOrder(o) PROVE IInv'
  BY <1>4, <1>5 DEF SendOrder, FinishOrder
<1>6. CASE Quit \/ CollectConns \/ CloseConns \/ StopListening \/ Drained
  BY <1>1, <1>6 DEF Quit, CollectConns, CloseConns, StopListening, Drained, Stage
<1>7. CASE WaitOrders
  <2>1. main' = "waited" /\ UNCHANGED <<order, early, saved>> /\ gaveUp' = (InFlight # {})
    BY <1>7 DEF WaitOrders, Stage
  <2>2. ASSUME ~gaveUp', NEW o \in early PROVE order[o] = "done"
    <3>1. o \notin InFlight
      BY <2>1, <2>2
    <3> QED
      BY <3>1 DEF InFlight
  <2> QED
    BY <2>1, <2>2
<1>8. CASE CloseStore
  BY <1>8 DEF CloseStore, Stage
<1>9. CASE UNCHANGED vars
  BY <1>9 DEF vars
<1> QED
  BY <1>2, <1>3, <1>5, <1>6, <1>7, <1>8, <1>9 DEF Next, MainNext

\* "Let order requests that were already submitted finish instead of cutting
\* them off mid-flight" (processor.go, Stop; main.go, the shutdown sequence).
THEOREM OrdersSaved == Spec => []SubmittedOrdersSaved
<1>1. IInv => SubmittedOrdersSaved
  BY DEF IInv, OrderShape, EarlyInv, SubmittedOrdersSaved
<1> QED
  BY <1>1, IInvInit, IInvStep, PTL DEF Spec

-----------------------------------------------------------------------------
(* The log stream.                                                          *)

\* What the ring, the channels and the panels hold are entries that were logged.
Entries == 1..MaxLogs
Panels ==
    /\ entries \in Seq(Entries) /\ Len(entries) <= MaxEntries
    /\ nlogs \in 0..MaxLogs
    /\ listening \subseteq Streams
    /\ chan \in [Streams -> Seq(Entries)] /\ \A s \in Streams : Len(chan[s]) <= Buffer
    /\ pc \in [Streams -> {"closed", "subscribed", "live"}]
    /\ written \in [Streams -> Seq(Entries)]
    /\ since \in [Streams -> Nat] /\ dropped \in [Streams -> BOOLEAN]

\* The ring holds the newest entries without a gap, and every open stream is a listener.
Ring ==
    /\ \A i \in 1..Len(entries) : entries[i] = nlogs - Len(entries) + i
    /\ \A s \in Streams : pc[s] # "closed" => s \in listening

StreamInv == Panels /\ Ring /\ NoGap

\* Before the first entry nobody listens.
LEMMA StreamInit == LogInit => StreamInv
<1> SUFFICES ASSUME LogInit PROVE StreamInv
  OBVIOUS
<1>1. MaxEntries \in Nat \ {0} /\ Buffer \in Nat \ {0} /\ MaxLogs \in Nat
  BY LogAssumption
<1>2. <<>> \in Seq(Entries) /\ Len(<<>>) = 0
  OBVIOUS
<1> QED
  BY <1>1, <1>2 DEF LogInit, StreamInv, Panels, Ring, NoGap

\* One critical section appends an entry to the ring and to every channel with room.
LEMMA LogKeeps == ASSUME StreamInv, Log PROVE StreamInv'
<1> DEFINE e == nlogs + 1
<1>1. /\ MaxEntries \in Nat \ {0} /\ Buffer \in Nat \ {0} /\ MaxLogs \in Nat
      /\ nlogs \in Nat /\ e \in Entries /\ nlogs' = e /\ nlogs < e
      /\ entries \in Seq(Entries) /\ Len(entries) <= MaxEntries
      /\ UNCHANGED <<listening, pc, written, since>>
  BY LogAssumption DEF Log, StreamInv, Panels, Entries
<1>2. /\ entries' \in Seq(Entries) /\ Len(entries') <= MaxEntries
      /\ \A i \in 1..Len(entries') : entries'[i] = nlogs' - Len(entries') + i
  <2>1. \A i \in 1..Len(entries) : entries[i] = nlogs - Len(entries) + i
    BY DEF StreamInv, Ring
  <2>2. CASE Len(entries) >= MaxEntries
    <3>1. entries' = Append(Tail(entries), e) /\ entries # <<>>
      BY <1>1, <2>2 DEF Log, Push
    <3>2. /\ Tail(entries) \in Seq(Entries) /\ Len(Tail(entries)) = Len(entries) - 1
          /\ \A i \in 1..(Len(entries) - 1) : Tail(entries)[i] = entries[i + 1]
      BY <1>1, <3>1
    <3>3. /\ entries' \in Seq(Entries) /\ Len(entries') = Len(entries) /\ Len(entries) \in Nat \ {0}
          /\ entries'[Len(entries)] = e
          /\ \A i \in 1..(Len(entries) - 1) : entries'[i] = entries[i + 1]
      BY <1>1, <3>1, <3>2
    <3> HIDE DEF e
    <3>4. ASSUME NEW i \in 1..Len(entries) PROVE entries'[i] = nlogs' - Len(entries') + i
      <4>1. CASE i = Len(entries)
        BY <1>1, <3>3, <4>1 DEF Entries
      <4>2. CASE i # Len(entries)
        <5>1. i \in 1..(Len(entries) - 1) /\ i + 1 \in 1..Len(entries)
          BY <3>3, <4>2
        <5>2. entries'[i] = nlogs - Len(entries) + (i + 1)
          BY <2>1, <3>3, <5>1
        <5> QED
          BY <1>1, <3>3, <5>1, <5>2 DEF e
      <4> QED
        BY <4>1, <4>2
    <3> QED
      BY <1>1, <3>3, <3>4
  <2>3. CASE ~(Len(entries) >= MaxEntries)
    <3>1. entries' = Append(entries, e)
      BY <2>3 DEF Log, Push
    <3>2. /\ entries' \in Seq(Entries) /\ Len(entries') = Len(entries) + 1 /\ Len(entries) \in Nat
          /\ entries'[Len(entries) + 1] = e
          /\ \A i \in 1..Len(entries) : entries'[i] = entries[i]
      BY <1>1, <3>1
    <3> QED
      BY <1>1, <2>1, <2>3, <3>2
  <2> QED
    BY <2>2, <2>3
<1>3. ASSUME NEW s \in Streams
      PROVE  /\ chan'[s] \in Seq(Entries) /\ Len(chan'[s]) <= Buffer
             /\ Waiting(s) \subseteq Waiting(s)'
             /\ s \in listening /\ ~dropped'[s] => e \in Waiting(s)'
             /\ dropped[s] => dropped'[s]
  <2>1. /\ chan[s] \in Seq(Entries) /\ Len(chan[s]) <= Buffer
        /\ chan'[s] = IF s \in listening /\ HasRoom(s) THEN Append(chan[s], e) ELSE chan[s]
        /\ dropped'[s] <=> dropped[s] \/ (s \in listening /\ ~HasRoom(s))
    BY DEF StreamInv, Panels, Log
  <2> HIDE DEF e
  <2>2. CASE s \in listening /\ HasRoom(s)
    <3>1. /\ chan'[s] \in Seq(Entries) /\ Len(chan'[s]) = Len(chan[s]) + 1
          /\ chan'[s][Len(chan[s]) + 1] = e /\ Len(chan[s]) \in Nat
          /\ \A i \in 1..Len(chan[s]) : chan'[s][i] = chan[s][i]
      BY <1>1, <2>1, <2>2
    <3>2. Len(chan[s]) < Buffer
      BY <2>2 DEF HasRoom
    <3>3. /\ DOMAIN chan'[s] = 1..(Len(chan[s]) + 1) /\ DOMAIN chan[s] = 1..Len(chan[s])
          /\ \A i \in 1..Len(chan[s]) : i \in 1..(Len(chan[s]) + 1)
          /\ Len(chan[s]) + 1 \in 1..(Len(chan[s]) + 1)
      BY <2>1, <3>1
    <3>4. Waiting(s) \subseteq Waiting(s)' /\ e \in Waiting(s)'
      BY <3>1, <3>3 DEF Waiting
    <3>5. Len(chan'[s]) <= Buffer
      BY <1>1, <3>1, <3>2
    <3> QED
      BY <2>1, <3>1, <3>4, <3>5
  <2>3. CASE ~(s \in listening /\ HasRoom(s))
    BY <2>1, <2>3 DEF Waiting
  <2> QED
    BY <2>2, <2>3
<1>4. Panels'
  <2>1. chan' \in [Streams -> Seq(Entries)]
    BY <1>3 DEF Log
  <2>2. dropped' \in [Streams -> BOOLEAN]
    BY DEF Log, StreamInv, Panels
  <2> QED
    BY <1>1, <1>2, <1>3, <2>1, <2>2 DEF StreamInv, Panels, Entries
<1>5. Ring'
  BY <1>1, <1>2 DEF StreamInv, Ring
<1>6. NoGap'
  <2> SUFFICES ASSUME NEW s \in Streams, pc[s] = "live", ~dropped'[s]
               PROVE  since[s]..e \subseteq Shown(s) \cup Waiting(s)'
    BY <1>1 DEF NoGap, Shown
  <2>1. since[s]..nlogs \subseteq Shown(s) \cup Waiting(s) /\ since[s] \in Nat
    BY <1>3 DEF StreamInv, NoGap, Panels
  <2>2. e \in Waiting(s)'
    BY <1>3 DEF StreamInv, Ring
  <2>3. since[s]..e \subseteq (since[s]..nlogs) \cup {e}
    BY <1>1, <2>1
  <2> QED
    BY <1>3, <2>1, <2>2, <2>3
<1> QED
  BY <1>4, <1>5, <1>6 DEF StreamInv

\* The steps of one stream: subscribing, replaying the ring, forwarding, leaving.
LEMMA PanelKeeps ==
    ASSUME StreamInv, NEW s \in Streams,
           \/ Subscribe(s) \/ Replay(s) \/ Forward(s) \/ Leave(s)
    PROVE  StreamInv'
<1>1. /\ MaxEntries \in Nat \ {0} /\ Buffer \in Nat \ {0} /\ MaxLogs \in Nat /\ nlogs \in 0..MaxLogs
      /\ Panels /\ Ring /\ NoGap /\ UNCHANGED <<entries, nlogs>>
      /\ <<>> \in Seq(Entries) /\ Len(<<>>) = 0
  BY LogAssumption DEF StreamInv, Panels, Subscribe, Replay,
         Forward, Leave
<1>2. ASSUME Panels', s \in listening' \/ pc'[s] = "closed",
             \A r \in Streams : r # s =>
                 /\ pc'[r] = pc[r] /\ chan'[r] = chan[r] /\ written'[r] = written[r]
                 /\ since'[r] = since[r] /\ dropped'[r] = dropped[r]
                 /\ r \in listening' <=> r \in listening,
             (pc'[s] = "live" /\ ~dropped'[s]) =>
                 since'[s]..nlogs \subseteq Shown(s)' \cup Waiting(s)'
      PROVE  StreamInv'
  <2>1. Ring'
    BY <1>1, <1>2 DEF Ring
  <2>2. ASSUME NEW r \in Streams, pc'[r] = "live", ~dropped'[r]
        PROVE  since'[r]..nlogs \subseteq Shown(r)' \cup Waiting(r)'
    <3>1. CASE r = s
      BY <1>2, <2>2, <3>1
    <3>2. CASE r # s
      BY <1>1, <1>2, <2>2, <3>2 DEF NoGap, Shown, Waiting
    <3> QED
      BY <3>1, <3>2
  <2> QED
    BY <1>1, <1>2, <2>1, <2>2 DEF StreamInv, NoGap
<1>3. CASE Subscribe(s)
  BY <1>1, <1>2, <1>3 DEF Subscribe, Panels
<1>4. CASE Leave(s)
  <2>1. chan' \in [Streams -> Seq(Entries)] /\ written' \in [Streams -> Seq(Entries)]
    BY <1>1, <1>4 DEF Leave, Panels
  <2>2. Panels'
    BY <1>1, <1>4, <2>1 DEF Leave, Panels
  <2> QED
    BY <1>1, <1>2, <1>4, <2>2 DEF Leave, Panels
<1>5. CASE Replay(s)
  <2> DEFINE first == IF entries = <<>> THEN nlogs + 1 ELSE Head(entries)
  <2>1. /\ entries \in Seq(Entries) /\ Len(entries) \in Nat
        /\ \A i \in 1..Len(entries) : entries[i] = nlogs - Len(entries) + i
    BY <1>1 DEF Panels, Ring
  <2>2. first = nlogs - Len(entries) + 1 /\ first \in Nat
    <3>1. CASE entries = <<>>
      BY <1>1, <3>1
    <3>2. CASE entries # <<>>
      <4>1. Len(entries) # 0 /\ first = entries[1] /\ entries[1] \in Entries
        BY <2>1, <3>2
      <4> QED
        BY <2>1, <4>1 DEF Entries
    <3> QED
      BY <3>1, <3>2
  <2>3. /\ pc' = [pc EXCEPT ![s] = "live"] /\ pc[s] = "subscribed"
        /\ written' = [written EXCEPT ![s] = entries]
        /\ since' = [since EXCEPT ![s] = first] /\ UNCHANGED <<listening, chan, dropped>>
    BY <1>5 DEF Replay
  <2> HIDE DEF first
  <2>4. Panels'
    BY <1>1, <2>1, <2>2, <2>3 DEF Panels
  <2>5. since'[s]..nlogs \subseteq Shown(s)'
    <3> SUFFICES ASSUME NEW x \in first..nlogs PROVE \E i \in 1..Len(entries) : x = entries[i]
      BY <1>1, <2>1, <2>3 DEF Panels, Shown
    <3>1. x - (nlogs - Len(entries)) \in 1..Len(entries)
      BY <1>1, <2>1, <2>2
    <3>2. entries[x - (nlogs - Len(entries))] = x
      BY <1>1, <2>1, <2>2, <3>1
    <3> QED
      BY <3>1, <3>2
  <2>6. s \in listening
    BY <1>1, <2>3 DEF Ring
  <2> QED
    BY <1>1, <1>2, <2>3, <2>4, <2>5, <2>6 DEF Panels
<1>6. CASE Forward(s)
  <2>1. /\ chan[s] \in Seq(Entries) /\ chan[s] # <<>> /\ written[s] \in Seq(Entries)
        /\ written' = [written EXCEPT ![s] = Append(written[s], Head(chan[s]))]
        /\ chan' = [chan EXCEPT ![s] = Tail(chan[s])]
        /\ UNCHANGED <<listening, pc, since, dropped>> /\ pc[s] = "live"
    BY <1>1, <1>6 DEF Forward, Panels
  <2>2. /\ Tail(chan[s]) \in Seq(Entries) /\ Len(Tail(chan[s])) = Len(chan[s]) - 1
        /\ Len(chan[s]) \in Nat \ {0} /\ Head(chan[s]) = chan[s][1] /\ Head(chan[s]) \in Entries
        /\ \A i \in 1..(Len(chan[s]) - 1) : Tail(chan[s])[i] = chan[s][i + 1]
    BY <2>1
  <2>3. /\ Append(written[s], Head(chan[s])) \in Seq(Entries)
        /\ Len(Append(written[s], Head(chan[s]))) = Len(written[s]) + 1 /\ Len(written[s]) \in Nat
        /\ \A i \in 1..Len(written[s]) : Append(written[s], Head(chan[s]))[i] = written[s][i]
        /\ Append(written[s], Head(chan[s]))[Len(written[s]) + 1] = Head(chan[s])
    BY <2>1, <2>2
  <2>4. /\ chan'[s] = Tail(chan[s]) /\ written'[s] = Append(written[s], Head(chan[s]))
        /\ \A r \in Streams : r # s => chan'[r] = chan[r] /\ written'[r] = written[r]
    BY <1>1, <2>1 DEF Panels
  <2>5. Panels'
    <3>1. chan' \in [Streams -> Seq(Entries)] /\ written' \in [Streams -> Seq(Entries)]
      BY <1>1, <2>1, <2>2, <2>3 DEF Panels
    <3>2. ASSUME NEW r \in Streams PROVE Len(chan'[r]) <= Buffer
      <4>1. Len(chan[r]) <= Buffer
        BY <1>1 DEF Panels
      <4>2. CASE r = s
        <5>1. Len(chan'[s]) = Len(chan[s]) - 1 /\ Len(chan[s]) \in Nat
          BY <2>2, <2>4
        <5> QED
          BY <1>1, <4>1, <4>2, <5>1
      <4>3. CASE r # s
        BY <2>4, <4>1, <4>3
      <4> QED
        BY <4>2, <4>3
    <3> QED
      BY <1>1, <2>1, <3>1, <3>2 DEF Panels
  <2>6. Shown(s) \cup Waiting(s) \subseteq Shown(s)' \cup Waiting(s)'
    <3>1. Shown(s) \subseteq Shown(s)' /\ Head(chan[s]) \in Shown(s)'
      <4>1. /\ DOMAIN written'[s] = 1..(Len(written[s]) + 1) /\ DOMAIN written[s] = 1..Len(written[s])
            /\ \A i \in 1..Len(written[s]) : i \in 1..(Len(written[s]) + 1)
            /\ Len(written[s]) + 1 \in 1..(Len(written[s]) + 1)
        BY <2>1, <2>3, <2>4
      <4> QED
        BY <2>3, <2>4, <4>1 DEF Shown
    <3>2. ASSUME NEW i \in 1..Len(chan[s]), i # 1 PROVE chan[s][i] \in Waiting(s)'
      <4>1. i - 1 \in 1..(Len(chan[s]) - 1)
        BY <2>2, <3>2
      <4>2. Tail(chan[s])[i - 1] = chan[s][i]
        BY <2>2, <4>1
      <4>3. DOMAIN chan'[s] = 1..(Len(chan[s]) - 1)
        BY <2>2, <2>4
      <4> QED
        BY <2>4, <4>1, <4>2, <4>3 DEF Waiting
    <3> QED
      BY <2>1, <2>2, <3>1, <3>2 DEF Waiting
  <2> QED
    BY <1>1, <1>2, <2>1, <2>4, <2>5, <2>6 DEF Ring, NoGap
<1> QED
  BY <1>3, <1>4, <1>5, <1>6

\* Every step of the log and of its panels keeps the invariant.
LEMMA StreamStep ==
    ASSUME StreamInv, [LogNext]_logvars PROVE StreamInv'
<1>1. CASE UNCHANGED logvars
  <2>1. UNCHANGED <<entries, nlogs, listening, chan, pc, written, since, dropped>>
    BY <1>1 DEF logvars
  <2>2. Panels'
    BY <2>1 DEF StreamInv, Panels
  <2>3. Ring'
    BY <2>1 DEF StreamInv, Ring
  <2>4. NoGap'
    BY <2>1 DEF StreamInv, NoGap, Shown, Waiting
  <2> QED
    BY <2>2, <2>3, <2>4 DEF StreamInv
<1>2. CASE Log
  BY <1>2, LogKeeps
<1>3. ASSUME NEW s \in Streams,
             Subscribe(s) \/ Replay(s) \/ Forward(s) \/ Leave(s)
      PROVE  StreamInv'
  BY <1>3, PanelKeeps
<1> QED
  BY <1>1, <1>2, <1>3 DEF LogNext

\* What the log holds and what its channels carry are entries that were logged, the
\* ring within Logger.max and a channel within its capacity (logs.go, log).
THEOREM StreamTypes == LogSpec => []LogTypeOK
<1>1. StreamInv => LogTypeOK
  BY DEF StreamInv, Panels, Entries, LogTypeOK
<1> QED
  BY <1>1, StreamInit, StreamStep, PTL DEF LogSpec

\* "an entry logged during the replay cannot fall into the gap between snapshot and
\* subscription" (main.go, handleLogsStream, which subscribes before it reads the ring).
THEOREM NothingFallsIntoTheGap == LogSpec => []NoGap
<1>1. StreamInv => NoGap
  BY DEF StreamInv
<1> QED
  BY <1>1, StreamInit, StreamStep, PTL DEF LogSpec

-----------------------------------------------------------------------------
(* The daily snapshot.                                                       *)

RoundTypes ==
    /\ round \in [Accounts -> Kinds] /\ cfg \in [Accounts -> Kinds]
    /\ at \in 0..(N + 2)
    /\ balances \in [Accounts -> Info]

\* What a round has done with the accounts it has passed: one to be fetched either was,
\* or carries an error; a disabled one has no entry, nor has a removed one in the end.
Passed ==
    \A a \in Accounts : a < at =>
        /\ round[a] = "tracked" =>
               a \in fetched \/ (balances[a].present /\ balances[a].error)
        /\ round[a] = "off" => ~balances[a].present
        /\ (round[a] = "removed" /\ at = N + 2) => ~balances[a].present

RoundInv == RoundTypes /\ Passed

\* A new process has passed no account.
LEMMA RoundInit == BalanceInit => RoundInv
<1>1. N \in Nat /\ 0 \in 0..(N + 2) /\ \A a \in Accounts : ~(a < 0)
  BY BalanceAssumption DEF Accounts
<1>2. NoInfo \in Info
  BY DEF NoInfo, Info
<1> QED
  BY <1>1, <1>2 DEF BalanceInit, RoundInv, RoundTypes, Passed, Kinds

\* Whatever becomes of an account's fetch, the round goes on to the next one.
LEMMA FetchKeeps ==
    ASSUME RoundInv, at \in Accounts,
           NEW b \in Info, FetchDone(b), fetched \subseteq fetched',
           round[at] = "tracked" => at \in fetched' \/ (b.present /\ b.error),
           round[at] = "off" => ~b.present
    PROVE  RoundInv'
<1>1. /\ N \in Nat /\ at \in 1..N /\ at' = at + 1 /\ UNCHANGED <<cfg, round>>
      /\ balances' = [balances EXCEPT ![at] = b]
  BY BalanceAssumption DEF Accounts, FetchDone
<1>2. RoundTypes'
  BY <1>1 DEF RoundInv, RoundTypes
<1>3. \A a \in Accounts : a # at => balances'[a] = balances[a]
  BY <1>1 DEF RoundInv, RoundTypes
<1>4. balances'[at] = b
  BY <1>1 DEF RoundInv, RoundTypes
<1>5. ASSUME NEW a \in Accounts, a < at' PROVE (a < at \/ a = at) /\ at' # N + 2
  BY <1>1, <1>5 DEF Accounts
<1>6. Passed'
  BY <1>1, <1>3, <1>4, <1>5 DEF RoundInv, Passed
<1> QED
  BY <1>2, <1>6 DEF RoundInv

\* Nothing that happens between two fetches makes a round forget an error.
LEMMA RoundStep ==
    ASSUME RoundInv, [BalanceNext]_balancevars
    PROVE  RoundInv'
<1>1. N \in Nat /\ at \in 0..(N + 2) /\ Values \subseteq Nat
  BY BalanceAssumption DEF RoundInv, RoundTypes
<1>2. CASE Tick \/ UNCHANGED balancevars
  BY <1>2 DEF Tick, balancevars, RoundInv, RoundTypes, Passed
<1>3. ASSUME NEW a \in Accounts, NEW kind \in Kinds, ChangeConfig(a, kind)
      PROVE  RoundInv'
  BY <1>3 DEF ChangeConfig, RoundInv, RoundTypes, Passed
<1>4. CASE Restart
  <2>1. NoInfo \in Info
    BY DEF NoInfo, Info
  <2>2. 0 \in 0..(N + 2) /\ \A a \in Accounts : ~(a < 0)
    BY <1>1 DEF Accounts
  <2> QED
    BY <1>4, <2>1, <2>2 DEF Restart, RoundInv, RoundTypes, Passed
<1>5. CASE StartRound
  <2>1. 1 \in 0..(N + 2) /\ \A a \in Accounts : ~(a < 1)
    BY <1>1 DEF Accounts
  <2> QED
    BY <1>5, <2>1 DEF StartRound, RoundInv, RoundTypes, Passed
<1>6. ASSUME NEW total \in Values, FetchOk(total) PROVE RoundInv'
  <2> DEFINE b == [total |-> total, error |-> FALSE, present |-> TRUE]
  <2>1. b \in Info
    BY DEF Info
  <2> QED
    BY <1>6, <2>1, FetchKeeps DEF FetchOk
<1>7. CASE FetchFails
  <2> DEFINE b == [balances[at] EXCEPT !.error = TRUE, !.present = TRUE]
  <2>1. at \in Accounts /\ round[at] = "tracked" /\ FetchDone(b) /\ fetched' = fetched
    BY <1>7 DEF FetchFails
  <2>2. b \in Info /\ b.present /\ b.error
    BY <2>1 DEF RoundInv, RoundTypes, Info
  <2> HIDE DEF b
  <2> QED
    BY <2>1, <2>2, FetchKeeps
<1>8. CASE NotFetched
  <2> DEFINE b == IF round[at] = "off" THEN NoInfo ELSE balances[at]
  <2>1. at \in Accounts /\ round[at] # "tracked" /\ FetchDone(b) /\ fetched' = fetched
    BY <1>8 DEF NotFetched
  <2>2. b \in Info /\ (round[at] = "off" => ~b.present)
    BY <2>1 DEF RoundInv, RoundTypes, Info, NoInfo
  <2> HIDE DEF b
  <2> QED
    BY <2>1, <2>2, FetchKeeps
<1>9. CASE Prune
  <2>1. /\ at = N + 1 /\ at' = N + 2 /\ UNCHANGED <<cfg, round, fetched>>
        /\ balances' = [a \in Accounts |->
                           IF round[a] = "removed" THEN NoInfo ELSE balances[a]]
    BY <1>1, <1>9 DEF Prune
  <2>2. NoInfo \in Info /\ ~NoInfo.present
    BY DEF NoInfo, Info
  <2>3. RoundTypes'
    BY <1>1, <2>1, <2>2 DEF RoundInv, RoundTypes
  <2>4. \A a \in Accounts : a < at
    BY <1>1, <2>1 DEF Accounts
  <2>5. \A a \in Accounts : /\ round[a] = "removed" => ~balances'[a].present
                            /\ round[a] # "removed" => balances'[a] = balances[a]
    BY <2>1, <2>2
  <2>6. Passed'
    BY <2>1, <2>4, <2>5 DEF RoundInv, Passed
  <2> QED
    BY <2>3, <2>6 DEF RoundInv
<1>10. ASSUME NEW readable \in BOOLEAN, NEW writable \in BOOLEAN, Record(readable, writable)
       PROVE  RoundInv'
  <2>1. at' = 0 /\ 0 \in 0..(N + 2) /\ UNCHANGED <<cfg, round, balances, fetched>>
    BY <1>1, <1>10 DEF Record
  <2>2. \A a \in Accounts : ~(a < 0)
    BY <1>1 DEF Accounts
  <2> QED
    BY <2>1, <2>2 DEF RoundInv, RoundTypes, Passed
<1> QED
  BY <1>2, <1>3, <1>4, <1>5, <1>6, <1>7, <1>8, <1>9, <1>10 DEF BalanceNext

\* A snapshot is recorded only at the end of a round in which no fetch failed.
LEMMA RecordsWholeRound ==
    ASSUME RoundInv, [BalanceNext]_balancevars,
           snapshots' # snapshots, NEW a \in Accounts
    PROVE  /\ round[a] = "tracked" => a \in fetched
           /\ balances[a].present => a \in fetched \/ round[a] = "other"
<1>1. PICK readable \in BOOLEAN, writable \in BOOLEAN : Record(readable, writable)
  BY DEF BalanceNext, balancevars, Tick, ChangeConfig, Restart,
         StartRound, FetchOk, FetchFails, NotFetched,
         FetchDone, Prune
<1>2. at = N + 2 /\ Failed = {}
  BY <1>1 DEF Record
<1>3. ~(balances[a].present /\ balances[a].error)
  BY <1>2 DEF Failed, Tracked
<1>4. a < at
  BY <1>2, BalanceAssumption DEF Accounts
<1>5. round[a] \in {"tracked", "other", "off", "removed"}
  BY DEF RoundInv, RoundTypes, Kinds
<1> QED
  BY <1>2, <1>3, <1>4, <1>5 DEF RoundInv, Passed

\* "only when all tracked accounts were fetched in this round" (balance.go,
\* recordDailySnapshotIfNeeded): a daily total never mixes in a wallet that an earlier
\* round read, save for an account whose type is no longer fetched.
THEOREM SnapshotsAreFresh == BalanceSpec => SnapshotIsFresh
<1>1. RoundInv /\ [BalanceNext]_balancevars =>
        [snapshots' # snapshots =>
            \A a \in Tracked \ fetched : round[a] = "other"]_balancevars
  BY RecordsWholeRound DEF Tracked
<1> QED
  BY <1>1, RoundInit, RoundStep, PTL DEF BalanceSpec, SnapshotIsFresh

\* ... and the wallet of no account that the round was to fetch is missing from it.
THEOREM SnapshotsAreComplete == BalanceSpec => SnapshotIsComplete
<1>1. RoundInv /\ [BalanceNext]_balancevars =>
        [snapshots' # snapshots =>
            \A a \in Accounts : round[a] = "tracked" => a \in fetched]_balancevars
  BY RecordsWholeRound
<1> QED
  BY <1>1, RoundInit, RoundStep, PTL DEF BalanceSpec, SnapshotIsComplete

\* Numbers are well-ordered: what takes the place of an induction below.
LEMMA LeastNat == ASSUME NEW S \in SUBSET Nat, S # {} PROVE \E n \in S : \A m \in S : n <= m
<1> DEFINE R == OpToRel(<, Nat)
<1>1. IsWellFoundedOn(R, Nat)
  BY NatLessThanWellFounded
<1>2. \A x, y \in Nat : <<y, x>> \in R <=> y < x
  BY DEF OpToRel
<1> HIDE DEF R
<1>3. PICK x \in S : \A y \in S : <<y, x>> \notin R
  BY <1>1, WFMin
<1>4. \A y \in S : ~(y < x)
  BY <1>2, <1>3
<1>5. \A y \in S : x <= y
  BY <1>4
<1> QED
  BY <1>5

-----------------------------------------------------------------------------
(* Balance and DailyProfits.  Total sums up by a fold, that is by a function *)
(* on the subsets of the accounts that is defined in terms of itself: it     *)
(* exists, as it can be built up by size, and its values are numbers, as     *)
(* there is no smallest set for which it is not.                             *)

\* What the fold of Total takes next, what is left then, and the equation.
Pick(s) == CHOOSE x \in s : TRUE
Smaller(s) == s \ {Pick(s)}
SumOf(s, g) == IF s = {} THEN 0 ELSE balances[Pick(s)].total + g[Smaller(s)]
UpToSize(S, n) == {s \in SUBSET S : Cardinality(s) <= n}
Sums(g, T) == g = [s \in T |-> SumOf(s, g)]

\* What is left is smaller by one.
LEMMA SubsetSizes ==
    ASSUME NEW S, IsFiniteSet(S), NEW s \in SUBSET S
    PROVE  /\ Cardinality(s) \in Nat /\ Cardinality(s) <= Cardinality(S)
           /\ Cardinality(s) = 0 <=> s = {}
           /\ s # {} => /\ Pick(s) \in S /\ Smaller(s) \in SUBSET S
                        /\ Cardinality(Smaller(s)) = Cardinality(s) - 1
<1>1. IsFiniteSet(s) /\ Cardinality(s) <= Cardinality(S)
  BY FS_Subset
<1>2. Cardinality(s) \in Nat /\ (Cardinality(s) = 0 <=> s = {})
  BY <1>1, FS_CardinalityType, FS_EmptySet
<1>3. ASSUME s # {} PROVE Pick(s) \in s
  BY <1>3 DEF Pick
<1>4. ASSUME s # {} PROVE Cardinality(Smaller(s)) = Cardinality(s) - 1
  BY <1>1, <1>3, <1>4, FS_RemoveElement DEF Smaller
<1> QED
  BY <1>1, <1>2, <1>3, <1>4 DEF Smaller

\* For the subsets up to any size there is a function that satisfies the equation.
LEMMA SumsExist ==
    ASSUME NEW S, IsFiniteSet(S), NEW n \in Nat
    PROVE  \E g : Sums(g, UpToSize(S, n))
<1> DEFINE Bad == {m \in Nat : ~\E g : Sums(g, UpToSize(S, m))}
<1> SUFFICES ASSUME Bad # {} PROVE FALSE
  OBVIOUS
<1>1. PICK m \in Bad : \A k \in Bad : m <= k
  BY LeastNat
<1>2. m \in Nat /\ ~\E g : Sums(g, UpToSize(S, m))
  BY <1>1
<1>3. ASSUME NEW k \in Nat, k < m PROVE \E g : Sums(g, UpToSize(S, k))
  BY <1>1, <1>3
<1> HIDE DEF Bad
<1>4. CASE m = 0
  <2> DEFINE h == [s \in UpToSize(S, 0) |-> 0]
  <2>1. \A s \in UpToSize(S, 0) : s = {}
    BY SubsetSizes DEF UpToSize
  <2>2. \A s \in UpToSize(S, 0) : SumOf(s, h) = 0
    BY <2>1 DEF SumOf
  <2>3. Sums(h, UpToSize(S, 0))
    BY <2>2 DEF Sums
  <2> QED
    BY <1>2, <1>4, <2>3
<1>5. CASE m # 0
  <2>1. m - 1 \in Nat /\ m - 1 < m
    BY <1>2, <1>5
  <2>2. PICK g : Sums(g, UpToSize(S, m - 1))
    BY <1>3, <2>1
  <2> DEFINE h == [s \in UpToSize(S, m) |-> SumOf(s, g)]
  <2>3. ASSUME NEW s \in UpToSize(S, m) PROVE SumOf(s, g) = SumOf(s, h)
    <3>1. CASE s = {}
      BY <3>1 DEF SumOf
    <3>2. CASE s # {}
      <4>1. s \in SUBSET S /\ Cardinality(s) \in Nat /\ Cardinality(s) <= m
        BY SubsetSizes DEF UpToSize
      <4>2. Smaller(s) \in SUBSET S /\ Cardinality(Smaller(s)) <= m - 1 /\ Cardinality(Smaller(s)) <= m
        BY <1>2, <3>2, <4>1, SubsetSizes
      <4>3. Smaller(s) \in UpToSize(S, m - 1) /\ Smaller(s) \in UpToSize(S, m)
        BY <4>2 DEF UpToSize
      <4>4. g[Smaller(s)] = SumOf(Smaller(s), g)
        BY <2>2, <4>3 DEF Sums
      <4>5. h[Smaller(s)] = SumOf(Smaller(s), g)
        BY <4>3
      <4> QED
        BY <3>2, <4>4, <4>5 DEF SumOf
    <3> QED
      BY <3>1, <3>2
  <2>4. Sums(h, UpToSize(S, m))
    BY <2>3 DEF Sums
  <2> QED
    BY <1>2, <2>4
<1> QED
  BY <1>4, <1>5

\* The sum of wallets that have been fetched (balance.go, recordDailySnapshotIfNeeded
\* and Summary).
LEMMA TotalIsNat ==
    ASSUME NEW S, IsFiniteSet(S), \A a \in S : balances[a].total \in Nat
    PROVE  Total(S) \in Nat
<1> DEFINE sums == CHOOSE g : g = [s \in SUBSET S |-> SumOf(s, g)]
<1>1. Total(S) = sums[S]
  BY DEF Total, MapThenSumSet, MapThenFoldSet, SumOf, Pick, Smaller
<1>2. sums = [s \in SUBSET S |-> SumOf(s, sums)]
  <2>1. SUBSET S = UpToSize(S, Cardinality(S)) /\ Cardinality(S) \in Nat
    BY SubsetSizes, FS_CardinalityType DEF UpToSize
  <2>2. \E g : g = [s \in SUBSET S |-> SumOf(s, g)]
    <3>1. PICK g : Sums(g, UpToSize(S, Cardinality(S)))
      BY <2>1, SumsExist
    <3> QED
      BY <2>1, <3>1 DEF Sums
  <2> QED
    BY <2>2
<1> HIDE DEF sums
<1> DEFINE Bad == {n \in Nat : \E s \in SUBSET S : Cardinality(s) = n /\ sums[s] \notin Nat}
<1>3. SUFFICES ASSUME Bad # {} PROVE FALSE
  <2>1. S \in SUBSET S /\ Cardinality(S) \in Nat
    BY FS_CardinalityType
  <2> QED
    BY <1>1, <1>3, <2>1
<1>4. PICK n \in Bad : \A k \in Bad : n <= k
  BY <1>3, LeastNat
<1>5. PICK s \in SUBSET S : Cardinality(s) = n /\ sums[s] \notin Nat
  BY <1>4
<1>6. ASSUME NEW t \in SUBSET S, Cardinality(t) \in Nat, Cardinality(t) < n PROVE sums[t] \in Nat
  BY <1>4, <1>6
<1> HIDE DEF Bad
<1>7. CASE s = {}
  BY <1>2, <1>5, <1>7 DEF SumOf
<1>8. CASE s # {}
  <2>1. /\ Pick(s) \in S /\ Smaller(s) \in SUBSET S /\ Cardinality(s) \in Nat
        /\ Cardinality(Smaller(s)) \in Nat /\ Cardinality(Smaller(s)) = Cardinality(s) - 1
    BY <1>8, SubsetSizes
  <2>2. sums[Smaller(s)] \in Nat
    BY <1>5, <1>6, <2>1
  <2>3. sums[s] = balances[Pick(s)].total + sums[Smaller(s)]
    BY <1>2, <1>8 DEF SumOf
  <2> QED
    BY <1>5, <2>1, <2>2, <2>3
<1> QED
  BY <1>7, <1>8

Snapshot == [date : 0..MaxDay, total : Nat]

\* The file has one snapshot a day, the newest last, and none of a day to come.
History ==
    /\ snapshots \in Seq(Snapshot)
    /\ \A i, j \in DOMAIN snapshots : i < j => snapshots[i].date < snapshots[j].date
    /\ \A i \in DOMAIN snapshots : snapshots[i].date <= day

Clock ==
    /\ day \in 0..MaxDay /\ hour \in 0..(Hours - 1) /\ polled \in BOOLEAN
    /\ changes \in 0..MaxChanges /\ fetched \subseteq Accounts
    /\ cfg \in [Accounts -> Kinds] /\ round \in [Accounts -> Kinds] /\ at \in 0..(N + 2)

\* A wallet without an error has a total that was fetched.
Known ==
    /\ balances \in [Accounts -> Info]
    /\ \A a \in Accounts : balances[a].present /\ ~balances[a].error => balances[a].total \in Nat

HistoryInv == Clock /\ Known /\ History

\* A process starts with no wallets and, the first time, no file.
LEMMA HistoryInit == BalanceInit => HistoryInv
<1> SUFFICES ASSUME BalanceInit PROVE HistoryInv
  OBVIOUS
<1>1. NoInfo \in Info /\ ~NoInfo.present
  BY DEF NoInfo, Info
<1>2. <<>> \in Seq(Snapshot) /\ DOMAIN <<>> = {}
  OBVIOUS
<1>3. Clock
  <2>1. 0 \in 0..MaxDay /\ 0 \in 0..(Hours - 1) /\ 0 \in 0..MaxChanges /\ 0 \in 0..(N + 2)
    BY BalanceAssumption
  <2>2. "tracked" \in Kinds
    BY DEF Kinds
  <2> QED
    BY <2>1, <2>2 DEF BalanceInit, Clock
<1>4. Known
  BY <1>1 DEF BalanceInit, Known
<1>5. History
  BY <1>2 DEF BalanceInit, History
<1> QED
  BY <1>3, <1>4, <1>5 DEF HistoryInv

\* The end of a fetch, whatever came of it.
LEMMA FetchKnows ==
    ASSUME HistoryInv, at \in Accounts, NEW b \in Info, FetchDone(b), fetched' \subseteq Accounts,
           b.present /\ ~b.error => b.total \in Nat
    PROVE  HistoryInv'
<1>1. N \in Nat /\ at \in 1..N /\ at' \in 0..(N + 2)
  BY BalanceAssumption DEF Accounts, FetchDone
<1>2. balances' = [balances EXCEPT ![at] = b] /\ UNCHANGED <<cfg, round, snapshots, clock, changes>>
  BY DEF FetchDone
<1>3. Known'
  BY <1>2 DEF HistoryInv, Known
<1>4. Clock' /\ History'
  BY <1>1, <1>2 DEF HistoryInv, Clock, History, clock
<1> QED
  BY <1>3, <1>4 DEF HistoryInv

\* There are finitely many accounts.
LEMMA AccountsFinite == ASSUME NEW S \in SUBSET Accounts PROVE IsFiniteSet(S)
<1>1. IsFiniteSet(1..N)
  BY BalanceAssumption, FS_Interval
<1> QED
  BY <1>1, FS_Subset DEF Accounts

\* The end of a round, with its snapshot where one is due (balance.go,
\* recordDailySnapshotIfNeeded): of a new day, after those of earlier ones.
LEMMA RecordKeeps ==
    ASSUME HistoryInv,
           NEW readable \in BOOLEAN, NEW writable \in BOOLEAN, Record(readable, writable)
    PROVE  HistoryInv'
<1> DEFINE old == Loaded(readable)
           new == [date |-> day, total |-> Total(Tracked)]
<1>1. at' = 0 /\ polled' = TRUE /\ UNCHANGED <<cfg, round, balances, day, hour, changes, fetched>>
  BY DEF Record
<1>2. Clock' /\ Known'
  BY <1>1, BalanceAssumption DEF HistoryInv, Clock, Known
<1>3. /\ old \in Seq(Snapshot)
      /\ \A i, j \in DOMAIN old : i < j => old[i].date < old[j].date
      /\ \A i \in DOMAIN old : old[i].date <= day
  BY DEF HistoryInv, History, Loaded
<1>4. CASE snapshots' = snapshots
  BY <1>1, <1>2, <1>4 DEF HistoryInv, History
<1>5. CASE snapshots' # snapshots
  <2>1. snapshots' = Append(old, new) /\ ~Recorded(old) /\ Failed = {}
    BY <1>5 DEF Record
  <2>2. new \in Snapshot
    <3>1. \A a \in Tracked : balances[a].total \in Nat
      BY <2>1 DEF Failed, Tracked, HistoryInv, Known, Info
    <3>2. Total(Tracked) \in Nat
      BY <3>1, AccountsFinite, TotalIsNat DEF Tracked
    <3> QED
      BY <3>2 DEF Snapshot, HistoryInv, Clock
  <2>3. \A i \in DOMAIN old : old[i].date < day
    <3> SUFFICES ASSUME NEW i \in DOMAIN old PROVE old[i].date < day
      OBVIOUS
    <3>1. old[i].date # day /\ old[i].date <= day
      BY <1>3, <2>1 DEF Recorded
    <3>2. old[i] \in Snapshot
      BY <1>3
    <3> QED
      BY <3>1, <3>2 DEF HistoryInv, Clock, Snapshot
  <2> HIDE DEF old
  <2>4. /\ snapshots' \in Seq(Snapshot) /\ Len(old) \in Nat /\ DOMAIN old = 1..Len(old)
        /\ DOMAIN snapshots' = 1..(Len(old) + 1)
        /\ \A i \in 1..Len(old) : snapshots'[i] = old[i]
        /\ snapshots'[Len(old) + 1] = new
    BY <1>3, <2>1, <2>2
  <2>5. new.date = day
    OBVIOUS
  <2> HIDE DEF new
  <2>6. ASSUME NEW i \in DOMAIN snapshots', NEW j \in DOMAIN snapshots', i < j
        PROVE  snapshots'[i].date < snapshots'[j].date
    <3>1. i \in 1..Len(old)
      BY <2>4, <2>6
    <3>2. CASE j = Len(old) + 1
      BY <2>3, <2>4, <2>5, <3>1, <3>2
    <3>3. CASE j # Len(old) + 1
      <4>1. j \in 1..Len(old)
        BY <2>4, <3>3
      <4> QED
        BY <1>3, <2>4, <2>6, <3>1, <4>1
    <3> QED
      BY <3>2, <3>3
  <2>7. ASSUME NEW i \in DOMAIN snapshots' PROVE snapshots'[i].date <= day'
    <3>1. CASE i = Len(old) + 1
      BY <1>1, <2>4, <2>5, <3>1 DEF HistoryInv, Clock
    <3>2. CASE i # Len(old) + 1
      <4>1. i \in 1..Len(old)
        BY <2>4, <3>2
      <4> QED
        BY <1>1, <1>3, <2>4, <4>1
    <3> QED
      BY <3>1, <3>2
  <2> QED
    BY <1>2, <2>4, <2>6, <2>7 DEF HistoryInv, History
<1> QED
  BY <1>4, <1>5

\* Every step keeps the file a history.
LEMMA HistoryStep == ASSUME HistoryInv, [BalanceNext]_balancevars PROVE HistoryInv'
<1>1. CASE UNCHANGED balancevars
  BY <1>1 DEF balancevars, HistoryInv, Clock, Known, History
<1>2. CASE Tick
  <2>1. day' \in 0..MaxDay /\ day <= day' /\ hour' \in 0..(Hours - 1) /\ polled' = FALSE
    BY <1>2, BalanceAssumption DEF Tick, HistoryInv, Clock
  <2>2. UNCHANGED <<cfg, round, at, balances, snapshots, changes, fetched>>
    BY <1>2 DEF Tick
  <2>3. ASSUME NEW i \in DOMAIN snapshots PROVE snapshots[i].date <= day'
    <3>1. snapshots[i] \in Snapshot /\ snapshots[i].date <= day /\ day \in 0..MaxDay
      BY DEF HistoryInv, History, Clock
    <3> QED
      BY <2>1, <3>1 DEF Snapshot
  <2> QED
    BY <2>1, <2>2, <2>3 DEF HistoryInv, Clock, Known, History
<1>3. ASSUME NEW a \in Accounts, NEW kind \in Kinds, ChangeConfig(a, kind) PROVE HistoryInv'
  <2>1. cfg' \in [Accounts -> Kinds] /\ changes' \in 0..MaxChanges
    BY <1>3, BalanceAssumption DEF ChangeConfig, HistoryInv, Clock
  <2> QED
    BY <1>3, <2>1 DEF ChangeConfig, clock, HistoryInv, Clock, Known, History
<1>4. CASE Restart
  <2>1. NoInfo \in Info /\ ~NoInfo.present
    BY DEF NoInfo, Info
  <2>2. changes' \in 0..MaxChanges /\ 0 \in 0..(N + 2)
    BY <1>4, BalanceAssumption DEF Restart, HistoryInv, Clock
  <2> QED
    BY <1>4, <2>1, <2>2 DEF Restart, HistoryInv, Clock, Known, History
<1>5. CASE StartRound
  <2>1. 1 \in 0..(N + 2)
    BY BalanceAssumption
  <2> QED
    BY <1>5, <2>1 DEF StartRound, clock, HistoryInv, Clock, Known, History
<1>6. ASSUME NEW total \in Values, FetchOk(total) PROVE HistoryInv'
  <2> DEFINE b == [total |-> total, error |-> FALSE, present |-> TRUE]
  <2>1. b \in Info /\ b.total \in Nat
    BY BalanceAssumption DEF Info
  <2>2. at \in Accounts /\ FetchDone(b) /\ fetched' \subseteq Accounts
    BY <1>6 DEF FetchOk, HistoryInv, Clock
  <2> HIDE DEF b
  <2> QED
    BY <2>1, <2>2, FetchKnows
<1>7. CASE FetchFails
  <2> DEFINE b == [balances[at] EXCEPT !.error = TRUE, !.present = TRUE]
  <2>1. at \in Accounts /\ FetchDone(b) /\ fetched' \subseteq Accounts
    BY <1>7 DEF FetchFails, HistoryInv, Clock
  <2>2. b \in Info /\ b.error
    BY <2>1 DEF HistoryInv, Known, Info
  <2> HIDE DEF b
  <2> QED
    BY <2>1, <2>2, FetchKnows
<1>8. CASE NotFetched
  <2> DEFINE b == IF round[at] = "off" THEN NoInfo ELSE balances[at]
  <2>1. at \in Accounts /\ FetchDone(b) /\ fetched' \subseteq Accounts
    BY <1>8 DEF NotFetched, HistoryInv, Clock
  <2>2. b \in Info /\ (b.present /\ ~b.error => b.total \in Nat)
    BY <2>1 DEF HistoryInv, Known, Info, NoInfo
  <2> HIDE DEF b
  <2> QED
    BY <2>1, <2>2, FetchKnows
<1>9. CASE Prune
  <2>1. NoInfo \in Info /\ ~NoInfo.present
    BY DEF NoInfo, Info
  <2>2. at' \in 0..(N + 2)
    BY <1>9, BalanceAssumption DEF Prune
  <2>3. Known'
    BY <1>9, <2>1 DEF Prune, HistoryInv, Known
  <2> QED
    BY <1>9, <2>2, <2>3 DEF Prune, clock, HistoryInv, Clock, History
<1>10. ASSUME NEW readable \in BOOLEAN, NEW writable \in BOOLEAN, Record(readable, writable)
       PROVE  HistoryInv'
  BY <1>10, RecordKeeps
<1> QED
  BY <1>1, <1>2, <1>3, <1>4, <1>5, <1>6, <1>7, <1>8, <1>9, <1>10 DEF BalanceNext

\* One snapshot a day, by day.
Increasing(s) == \A i, j \in DOMAIN s : i < j => s[i].date < s[j].date

\* recentDailyProfits sorts what it has loaded: the days still follow one another.
LEMMA SortedByDate ==
    ASSUME NEW s \in Seq(Snapshot), Increasing(s)
    PROVE  /\ ByDate(s) \in Seq(Snapshot) /\ Len(ByDate(s)) = Len(s)
           /\ Increasing(ByDate(s))
           /\ \A i \in DOMAIN ByDate(s) : \E j \in DOMAIN s : ByDate(s)[i] = s[j]
<1> DEFINE p == Sorting(s)
<1>1. DOMAIN s = 1..Len(s) /\ Len(s) \in Nat /\ \A i \in 1..Len(s) : s[i] \in Snapshot
  OBVIOUS
<1>2. \A x \in Snapshot : x.date \in Nat
  BY BalanceAssumption DEF Snapshot
<1>3. /\ p \in [DOMAIN s -> DOMAIN s]
      /\ \A i, j \in DOMAIN s : i < j => p[i] # p[j] /\ s[p[i]].date <= s[p[j]].date
  <2> DEFINE q == [i \in DOMAIN s |-> i]
  <2>1. q \in [DOMAIN s -> DOMAIN s]
    OBVIOUS
  <2>2. ASSUME NEW i \in DOMAIN s, NEW j \in DOMAIN s, i < j
        PROVE  q[i] # q[j] /\ s[q[i]].date <= s[q[j]].date
    <3>1. s[i].date < s[j].date
      BY <2>2 DEF Increasing
    <3> QED
      BY <1>1, <1>2, <2>2, <3>1
  <2> HIDE DEF q
  <2>3. \E r \in [DOMAIN s -> DOMAIN s] :
           \A i, j \in DOMAIN s : i < j => r[i] # r[j] /\ s[r[i]].date <= s[r[j]].date
    BY <2>1, <2>2
  <2> QED
    BY <2>3 DEF Sorting
<1> HIDE DEF p
<1> DEFINE t == [i \in DOMAIN s |-> s[p[i]]]
<1>4. ByDate(s) = t
  BY DEF ByDate, p
<1>5. t \in Seq(Snapshot) /\ Len(t) = Len(s) /\ DOMAIN t = DOMAIN s
  <2>1. t \in [1..Len(s) -> Snapshot]
    BY <1>1, <1>3
  <2> QED
    BY <1>1, <2>1
<1>6. ASSUME NEW i \in DOMAIN s, NEW j \in DOMAIN s, i < j PROVE t[i].date < t[j].date
  <2>1. p[i] # p[j] /\ s[p[i]].date <= s[p[j]].date /\ p[i] \in DOMAIN s /\ p[j] \in DOMAIN s
    BY <1>3, <1>6
  <2>2. p[i] < p[j] \/ p[j] < p[i]
    BY <1>1, <2>1
  <2>3. s[p[i]].date # s[p[j]].date
    <3>1. s[p[i]].date \in Nat /\ s[p[j]].date \in Nat
      BY <1>1, <1>2, <2>1
    <3> QED
      BY <2>1, <2>2, <3>1 DEF Increasing
  <2>4. s[p[i]].date \in Nat /\ s[p[j]].date \in Nat
    BY <1>1, <1>2, <2>1
  <2> QED
    BY <2>1, <2>3, <2>4
<1>7. Increasing(t)
  BY <1>5, <1>6 DEF Increasing
<1>8. \A i \in DOMAIN t : p[i] \in DOMAIN s /\ t[i] = s[p[i]]
  BY <1>3, <1>5
<1> HIDE DEF t
<1> QED
  BY <1>4, <1>5, <1>7, <1>8

\* What the panel shows of a day.
Rows == [date : Nat, baseline : Int, profit : Int]

\* Rows that add up to a total on a day.
AddUp(rows, today, total) ==
    LET n == Len(rows)
    IN  /\ \A i \in 1..(n - 1) : rows[i].baseline + rows[i].profit = rows[i + 1].baseline
        /\ \A i, j \in DOMAIN rows : i < j => rows[i].date < rows[j].date
        /\ rows[n].baseline + rows[n].profit = total /\ rows[n].date = today

\* ... as named parts, for a table of known length.
LEMMA AddUpIntro ==
    ASSUME NEW rows, NEW n, Len(rows) = n, DOMAIN rows = 1..n, NEW today, NEW total,
           \A i \in 1..(n - 1) : rows[i].baseline + rows[i].profit = rows[i + 1].baseline,
           \A i, j \in 1..n : i < j => rows[i].date < rows[j].date,
           rows[n].baseline + rows[n].profit = total /\ rows[n].date = today
    PROVE  AddUp(rows, today, total)
  BY Zenon DEF AddUp

\* The newest of them still do.
LEMMA NewestAddUp ==
    ASSUME NEW rows \in Seq(Rows), rows # <<>>, NEW today, NEW total, AddUp(rows, today, total)
    PROVE  AddUp(Newest(rows), today, total)
<1> DEFINE n == Len(rows)
           k == IF n > MaxDays THEN n - MaxDays + 1 ELSE 1
           t == SubSeq(rows, k, n)
<1>1. n \in Nat \ {0} /\ DOMAIN rows = 1..n
  OBVIOUS
<1>2. k \in 1..n
  BY <1>1, ProfitsAssumption
<1>3. Newest(rows) = t
  BY DEF Newest
<1> HIDE DEF k
<1>4. /\ Len(t) = n - k + 1 /\ DOMAIN t = 1..(n - k + 1)
      /\ \A i \in 1..(n - k + 1) : t[i] = rows[k + i - 1]
  <2>1. \A i \in k..n : rows[i] \in Rows
    BY <1>1, <1>2
  <2>2. k <= n /\ k \in Int /\ n \in Int
    BY <1>1, <1>2
  <2> HIDE DEF n
  <2>3. /\ t \in Seq(Rows) /\ Len(t) = n - k + 1
        /\ \A i \in 1..(n - k + 1) : t[i] = rows[k + i - 1]
    BY <2>1, <2>2, SubSeqProperties
  <2> QED
    BY <2>3, LenProperties
<1> HIDE DEF n, t
<1>5. \A i \in 1..(n - k + 1) : k + i - 1 \in 1..n
  BY <1>1, <1>2
<1>6. ASSUME NEW i \in 1..(n - k) PROVE t[i].baseline + t[i].profit = t[i + 1].baseline
  <2>1. /\ i \in 1..(n - k + 1) /\ i + 1 \in 1..(n - k + 1) /\ k + (i + 1) - 1 = (k + i - 1) + 1
        /\ k + i - 1 \in 1..(n - 1)
    BY <1>1, <1>2
  <2> QED
    BY <1>4, <2>1 DEF AddUp, n
<1>7. ASSUME NEW i \in 1..(n - k + 1), NEW j \in 1..(n - k + 1), i < j PROVE t[i].date < t[j].date
  <2>1. k + i - 1 < k + j - 1
    BY <1>1, <1>2, <1>7
  <2> QED
    BY <1>1, <1>4, <1>5, <2>1 DEF AddUp
<1>8. t[n - k + 1] = rows[n] /\ n - k + 1 - 1 = n - k
  <2>1. n - k + 1 \in 1..(n - k + 1) /\ k + (n - k + 1) - 1 = n
    BY <1>1, <1>2
  <2> QED
    BY <1>1, <1>2, <1>4, <2>1
<1>9. t[n - k + 1].baseline + t[n - k + 1].profit = total /\ t[n - k + 1].date = today
  BY <1>8 DEF AddUp, n
<1>10. \A j \in 1..(n - k) : t[j].baseline + t[j].profit = t[j + 1].baseline
  BY <1>6
<1>11. \A i, j \in 1..(n - k + 1) : i < j => t[i].date < t[j].date
  BY <1>7
<1>12. AddUp(t, today, total)
  <2>1. PICK m : m = n - k + 1
    OBVIOUS
  <2>2. Len(t) = m /\ DOMAIN t = 1..m
    BY <1>4, <2>1
  <2>3. \A i \in 1..(m - 1) : t[i].baseline + t[i].profit = t[i + 1].baseline
    <3>1. m - 1 = n - k
      BY <1>1, <1>2, <2>1
    <3> QED
      BY <1>10, <3>1
  <2>4. \A i, j \in 1..m : i < j => t[i].date < t[j].date
    BY <1>11, <2>1
  <2>5. t[m].baseline + t[m].profit = total /\ t[m].date = today
    BY <1>9, <2>1
  <2> QED
    BY <2>2, <2>3, <2>4, <2>5, AddUpIntro, Zenon
<1> QED
  BY <1>3, <1>12

\* The rows made of a history add up (balance.go, recentDailyProfits).
LEMMA ProfitsOfHistory == ASSUME HistoryInv PROVE ProfitsAddUp
<1> SUFFICES ASSUME NEW readable \in BOOLEAN
             PROVE  AddUp(RecentDailyProfits(readable), day, CurrentTotal)
  BY DEF ProfitsAddUp, AddUp
<1> DEFINE s == ByDate(Loaded(readable))
           n == Len(s)
           c == CurrentTotal
<1>1. c \in Nat
  <2> DEFINE S == {a \in Accounts : balances[a].total # None}
  <2>1. \A a \in S : balances[a].total \in Nat
    BY BalanceAssumption DEF HistoryInv, Known, Info
  <2>2. IsFiniteSet(S)
    BY AccountsFinite
  <2> HIDE DEF S
  <2>3. Total(S) \in Nat
    BY <2>1, <2>2, TotalIsNat
  <2> QED
    BY <2>3 DEF CurrentTotal, S
<1>2. /\ Loaded(readable) \in Seq(Snapshot) /\ Increasing(Loaded(readable))
      /\ \A i \in DOMAIN Loaded(readable) : Loaded(readable)[i].date <= day
  BY DEF HistoryInv, History, Loaded, Increasing
<1>3. /\ s \in Seq(Snapshot) /\ Increasing(s) /\ \A i \in DOMAIN s : s[i].date <= day
      /\ day \in Nat /\ MaxDay \in Nat
  <2> HIDE DEF s
  <2>1. /\ s \in Seq(Snapshot) /\ Increasing(s)
        /\ \A i \in DOMAIN s : \E j \in DOMAIN Loaded(readable) : s[i] = Loaded(readable)[j]
    BY <1>2, SortedByDate DEF s
  <2>2. day \in Nat /\ MaxDay \in Nat
    BY BalanceAssumption DEF HistoryInv, Clock
  <2> QED
    BY <1>2, <2>1, <2>2
<1> HIDE DEF s, c
<1>4. /\ n \in Nat /\ n = Len(s) /\ DOMAIN s = 1..n
      /\ \A i \in 1..n : s[i].date \in Nat /\ s[i].total \in Nat
  <2>1. n \in Nat /\ DOMAIN s = 1..n /\ \A i \in 1..n : s[i] \in Snapshot
    BY <1>3
  <2> QED
    BY <1>3, <2>1 DEF Snapshot
<1> DEFINE last == n - 1
           today == Row(day, s[n].total, c)
           earlier == [i \in 1..last |-> Row(s[i].date, s[i].total, s[i + 1].total)]
           rows == earlier \o <<today>>
<1>5. RecentDailyProfits(readable) = IF n = 0 THEN <<Row(day, 0, c)>> ELSE Newest(rows)
  BY DEF RecentDailyProfits, s, c
<1> HIDE DEF n
<1>6. CASE n = 0
  <2> DEFINE one == <<Row(day, 0, c)>>
  <2>1. Len(one) = 1 /\ DOMAIN one = 1..1 /\ one[1] = Row(day, 0, c)
    OBVIOUS
  <2>2. one[1].baseline + one[1].profit = c /\ one[1].date = day
    BY <1>1, <2>1 DEF Row
  <2> HIDE DEF one
  <2>3. AddUp(one, day, c)
    BY <2>1, <2>2 DEF AddUp
  <2> QED
    BY <1>5, <1>6, <2>3 DEF one, c
<1>7. CASE n # 0
  <2>1. /\ last \in Nat /\ last + 1 = n /\ n \in 1..n /\ n - 1 = last
        /\ \A i \in 1..last : i \in 1..n /\ i + 1 \in 1..n /\ i # n
        /\ \A i \in 1..n : i # n => i \in 1..last
    BY <1>4, <1>7
  <2> HIDE DEF last
  <2>2. today \in Rows /\ today.date = day /\ today.baseline = s[n].total
        /\ today.baseline + today.profit = c
    <3>1. s[n].total \in Nat
      BY <1>4, <2>1
    <3> QED
      BY <1>1, <1>3, <3>1 DEF Rows, Row
  <2>3. ASSUME NEW i \in 1..last
        PROVE  /\ earlier[i] \in Rows /\ earlier[i].date = s[i].date
               /\ earlier[i].baseline = s[i].total
               /\ earlier[i].baseline + earlier[i].profit = s[i + 1].total
    <3>1. s[i].date \in Nat /\ s[i].total \in Nat /\ s[i + 1].total \in Nat
      BY <1>4, <2>1
    <3>2. earlier[i] = Row(s[i].date, s[i].total, s[i + 1].total)
      OBVIOUS
    <3> HIDE DEF earlier
    <3> QED
      BY <3>1, <3>2 DEF Rows, Row
  <2>4. earlier \in Seq(Rows) /\ Len(earlier) = last
    <3>1. earlier \in [1..last -> Rows]
      BY <2>3
    <3> HIDE DEF earlier
    <3> QED
      BY <2>1, <3>1
  <2> HIDE DEF earlier, today
  <2>5. <<today>> \in Seq(Rows) /\ Len(<<today>>) = 1 /\ <<today>>[1] = today
    BY <2>2
  <2>6. /\ rows \in Seq(Rows) /\ Len(rows) = n /\ DOMAIN rows = 1..n
        /\ \A i \in 1..last : rows[i] = earlier[i]
        /\ rows[n] = today
    <3>1. /\ rows \in Seq(Rows) /\ Len(rows) = last + 1
          /\ \A i \in 1..(last + 1) :
                rows[i] = IF i <= last THEN earlier[i] ELSE <<today>>[i - last]
      BY <2>4, <2>5, ConcatProperties
    <3> HIDE DEF rows
    <3>2. n - last = 1 /\ ~(n <= last) /\ \A i \in 1..last : i <= last
      BY <1>4, <2>1
    <3>3. \A i \in 1..n : rows[i] = IF i <= last THEN earlier[i] ELSE <<today>>[i - last]
      BY <2>1, <3>1
    <3>4. rows[n] = today
      BY <2>1, <2>5, <3>2, <3>3
    <3>5. \A i \in 1..last : rows[i] = earlier[i]
      BY <2>1, <3>2, <3>3
    <3> QED
      BY <2>1, <3>1, <3>4, <3>5
  <2> HIDE DEF rows
  <2>7. ASSUME NEW i \in 1..n PROVE rows[i].baseline = s[i].total
    <3>1. CASE i = n
      BY <2>2, <2>6, <3>1
    <3>2. CASE i # n
      BY <2>1, <2>3, <2>6, <3>2
    <3> QED
      BY <3>1, <3>2
  <2>8. \A i \in 1..(n - 1) : rows[i].baseline + rows[i].profit = rows[i + 1].baseline
    BY <2>1, <2>3, <2>6, <2>7
  <2>9. ASSUME NEW i \in 1..n, NEW j \in 1..n, i < j PROVE rows[i].date < rows[j].date
    <3>1. i \in 1..last
      BY <1>4, <2>1, <2>9
    <3>2. rows[i].date = s[i].date
      BY <2>3, <2>6, <3>1
    <3>3. s[i].date < s[j].date /\ s[j].date <= day
      BY <1>3, <1>4, <2>9 DEF Increasing
    <3>4. CASE j = n
      <4>1. s[i].date \in Nat /\ s[j].date \in Nat
        BY <1>4
      <4> QED
        BY <1>3, <2>2, <2>6, <3>2, <3>3, <3>4, <4>1
    <3>5. CASE j # n
      BY <2>1, <2>3, <2>6, <3>2, <3>3, <3>5
    <3> QED
      BY <3>4, <3>5
  <2>10. AddUp(rows, day, c)
    <3>1. rows[n].baseline + rows[n].profit = c /\ rows[n].date = day
      BY <2>2, <2>6
    <3> QED
      BY <2>6, <2>8, <2>9, <3>1, AddUpIntro, Zenon
  <2>11. rows # <<>>
    BY <1>4, <1>7, <2>6
  <2>12. AddUp(Newest(rows), day, c)
    BY <2>6, <2>10, <2>11, NewestAddUp
  <2> QED
    BY <1>5, <1>7, <2>12 DEF c
<1> QED
  BY <1>6, <1>7

\* Whatever days are missing from daily_balance.json, and whenever the panel asks
\* (balance.go, Summary), no profit is lost and none is shown twice.
THEOREM ProfitsAlwaysAddUp == BalanceSpec => []ProfitsAddUp
  BY HistoryInit, HistoryStep, ProfitsOfHistory, PTL DEF BalanceSpec

\* The clock, the configuration and its copy, the wallets and the file keep their types.
THEOREM BalanceTypes == BalanceSpec => []BalanceTypeOK
<1>1. HistoryInv => BalanceTypeOK
  BY DEF HistoryInv, Clock, Known, History, Snapshot, BalanceTypeOK
<1> QED
  BY <1>1, HistoryInit, HistoryStep, PTL DEF BalanceSpec
=============================================================================
