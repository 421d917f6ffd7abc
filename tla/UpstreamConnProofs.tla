------------------------- MODULE UpstreamConnProofs -------------------------
(* Proofs about UpstreamConn: for any upstreams, addresses, handlers that run *)
(* at the same time, and any number of connections and loops.                *)
EXTENDS UpstreamConn, TLAPS

-----------------------------------------------------------------------------
(* The inductive invariant.                                                  *)

\* Whoever is between RemoveUnwanted and EndSync holds the mutex, and nobody else.
Mutex == \A h \in Handlers : hs[h].pc \in {"syncing", "waiting"} <=> holder = h

\* Manager.conns holds Conns that were created for their upstream.
Owned == \A u \in Upstreams : conns[u] # 0 => conns[u] <= nconns /\ co[conns[u]].up = u

\* The loops that were started, each for a Conn that exists.
Started == \A l \in LoopIds : /\ lo[l].pc = "new" <=> l > nloops
                              /\ l <= nloops => lo[l].conn <= nconns

\* The context of a Conn is that of a loop of its own.
OwnContext == \A c \in ConnIds : co[c].cur # 0 => co[c].cur <= nloops /\ lo[co[c].cur].conn = c

\* loopDone is the loop of the Conn that has not returned yet; there is at most one.
OwnLoopDone == \A c \in ConnIds :
    co[c].loopDone # 0 => lo[co[c].loopDone].conn = c /\ Alive(co[c].loopDone)
OneLoop == \A l \in LoopIds : Alive(l) => co[lo[l].conn].loopDone = l

\* A loop that has not been cancelled is that of a running Conn that is in use.
Feeds == \A l \in LoopIds : (Alive(l) /\ ~lo[l].cancelled) =>
    /\ co[lo[l].conn].running
    /\ co[lo[l].conn].cur = l
    /\ conns[UpOf(l)] = lo[l].conn

\* A running Conn has a loop, which has not been cancelled.
RunsALoop == \A c \in ConnIds : co[c].running =>
    co[c].cur # 0 /\ co[c].loopDone = co[c].cur /\ ~lo[co[c].cur].cancelled

\* A live connection is read by the loop whose context is in force.
LiveIsRead == \A c \in ConnIds : co[c].live # 0 =>
    co[c].running /\ co[c].cur = co[c].live /\ lo[co[c].live].pc \in {"read", "handling"}

\* A loop returns only because it was cancelled.
EndsCancelled == \A l \in LoopIds : lo[l].pc = "ending" => lo[l].cancelled

\* Start is called for a Conn that does not run, whose previous loop it waits for.
StartsStopped == \A h \in Handlers : hs[h].pc = "waiting" =>
    LET c == conns[hs[h].up]
    IN  /\ c # 0 /\ ~co[c].running /\ co[c].entry.enabled
        /\ co[c].loopDone \in {0, hs[h].prev}

\* What Sync has done for each upstream, but for the one it is starting.
Applied == \A u \in Upstreams : conns[u] # 0 =>
    LET c == co[conns[u]]
    IN  /\ c.running => c.entry.enabled
        /\ (u \notin skipped /\ c.entry.enabled /\ c.entry.url # NoUrl) =>
               c.running \/ \E h \in Handlers : hs[h].pc = "waiting" /\ hs[h].up = u

LoopInv == /\ Started /\ OwnContext /\ OwnLoopDone /\ OneLoop /\ Feeds
           /\ RunsALoop /\ LiveIsRead /\ EndsCancelled

Inv == TypeOK /\ Mutex /\ Owned /\ LoopInv /\ StartsStopped /\ Applied

-----------------------------------------------------------------------------
(* Types.                                                                    *)

LEMMA Types ==
    ASSUME TypeOK
    PROVE  /\ MaxConns \in Nat \ {0} /\ MaxLoops \in Nat /\ MaxUpdates \in Nat
           /\ nconns \in 0..MaxConns /\ nloops \in 0..MaxLoops /\ updates \in 0..MaxUpdates
           /\ Absent \in Entries /\ NoUrl # Absent.url
           /\ \A h \in Handlers : /\ hs[h].pc \in {"idle", "updated", "loaded", "syncing", "waiting"}
                                  /\ hs[h].seen \in [Upstreams -> Entries]
                                  /\ hs[h].work \in SUBSET Upstreams
                                  /\ hs[h].up \in Upstreams /\ hs[h].prev \in 0..MaxLoops
           /\ \A c \in ConnIds : /\ co[c].up \in Upstreams /\ co[c].entry \in Entries
                                 /\ co[c].cur \in 0..MaxLoops /\ co[c].running \in BOOLEAN
                                 /\ co[c].loopDone \in 0..MaxLoops /\ co[c].live \in 0..MaxLoops
           /\ \A l \in LoopIds : /\ lo[l].conn \in ConnIds /\ lo[l].cancelled \in BOOLEAN
                                 /\ lo[l].frame \in BOOLEAN
                                 /\ lo[l].url \in Urls \cup {NoUrl, Absent.url}
                                 /\ lo[l].pc \in {"new", "top", "dial", "dialed", "read",
                                                  "handling", "sleep", "ending", "exited"}
           /\ \A e \in Entries : e.enabled \in BOOLEAN /\ e.url \in Urls \cup {NoUrl, Absent.url}
<1>1. /\ MaxConns \in Nat \ {0} /\ MaxLoops \in Nat /\ MaxUpdates \in Nat
      /\ nconns \in 0..MaxConns /\ nloops \in 0..MaxLoops /\ updates \in 0..MaxUpdates
  BY UpstreamAssumption DEF TypeOK
<1>2. Absent \in Entries /\ NoUrl # Absent.url
  BY DEF Entries, Absent, NoUrl
<1>3. \A h \in Handlers : hs[h] \in HandlerState
  BY DEF TypeOK
<1>4. \A c \in ConnIds : co[c] \in ConnState
  BY DEF TypeOK
<1>5. \A l \in LoopIds : lo[l] \in LoopState
  BY DEF TypeOK
<1>6. \A e \in Entries : e.enabled \in BOOLEAN /\ e.url \in Urls \cup {NoUrl, Absent.url}
  <2> SUFFICES ASSUME NEW e \in Entries
               PROVE e.enabled \in BOOLEAN /\ e.url \in Urls \cup {NoUrl, Absent.url}
    OBVIOUS
  <2>1. CASE e = Absent
    BY <2>1 DEF Absent
  <2>2. CASE e \in [enabled : BOOLEAN, url : Urls \cup {NoUrl}]
    BY <2>2
  <2> QED
    BY <2>1, <2>2 DEF Entries
<1> QED
  BY <1>1, <1>2, <1>3, <1>4, <1>5, <1>6 DEF HandlerState, ConnState, LoopState

\* Conn.Stop cancels the loop in force and nothing else of the loops; of the Conns it
\* changes only whether they run and what is live.
LEMMA StopEffect ==
    ASSUME TypeOK, NEW S
    PROVE  /\ StoppedConns(S) \in [ConnIds -> ConnState]
           /\ StoppedLoops(S) \in [LoopIds -> LoopState]
           /\ \A c \in ConnIds :
                 /\ StoppedConns(S)[c].up = co[c].up /\ StoppedConns(S)[c].entry = co[c].entry
                 /\ StoppedConns(S)[c].cur = co[c].cur
                 /\ StoppedConns(S)[c].loopDone = co[c].loopDone
                 /\ c \in S => ~StoppedConns(S)[c].running /\ StoppedConns(S)[c].live = 0
                 /\ c \notin S => StoppedConns(S)[c] = co[c]
           /\ \A l \in LoopIds :
                 /\ StoppedLoops(S)[l].conn = lo[l].conn /\ StoppedLoops(S)[l].pc = lo[l].pc
                 /\ (\E c \in S : co[c].cur = l) => StoppedLoops(S)[l].cancelled
                 /\ ~(\E c \in S : co[c].cur = l) => StoppedLoops(S)[l] = lo[l]
<1>1. ASSUME NEW c \in ConnIds
      PROVE  /\ StoppedConns(S)[c] \in ConnState
             /\ StoppedConns(S)[c].up = co[c].up /\ StoppedConns(S)[c].entry = co[c].entry
             /\ StoppedConns(S)[c].cur = co[c].cur
             /\ StoppedConns(S)[c].loopDone = co[c].loopDone
             /\ c \in S => ~StoppedConns(S)[c].running /\ StoppedConns(S)[c].live = 0
             /\ c \notin S => StoppedConns(S)[c] = co[c]
  <2>1. co[c] \in ConnState /\ 0 \in 0..MaxLoops
    BY Types DEF TypeOK
  <2>2. CASE c \in S
    BY <2>1, <2>2 DEF StoppedConns, ConnState
  <2>3. CASE c \notin S
    BY <2>1, <2>3 DEF StoppedConns
  <2> QED
    BY <2>2, <2>3
<1>2. ASSUME NEW l \in LoopIds
      PROVE  /\ StoppedLoops(S)[l] \in LoopState
             /\ StoppedLoops(S)[l].conn = lo[l].conn /\ StoppedLoops(S)[l].pc = lo[l].pc
             /\ (\E c \in S : co[c].cur = l) => StoppedLoops(S)[l].cancelled
             /\ ~(\E c \in S : co[c].cur = l) => StoppedLoops(S)[l] = lo[l]
  <2>1. lo[l] \in LoopState
    BY DEF TypeOK
  <2>2. CASE \E c \in S : co[c].cur = l
    BY <2>1, <2>2 DEF StoppedLoops, LoopState
  <2>3. CASE ~\E c \in S : co[c].cur = l
    BY <2>1, <2>3 DEF StoppedLoops
  <2> QED
    BY <2>2, <2>3
<1>3. StoppedConns(S) \in [ConnIds -> ConnState] /\ StoppedLoops(S) \in [LoopIds -> LoopState]
  BY <1>1, <1>2 DEF StoppedConns, StoppedLoops
<1> QED
  BY <1>1, <1>2, <1>3

\* A step of the loop l that changes nothing but its own program point, address and
\* frame, and leaves it alive.
LoopMoves(l) ==
    /\ UNCHANGED co /\ UNCHANGED loopless
    /\ lo' \in [LoopIds -> LoopState]
    /\ \A m \in LoopIds : m # l => lo'[m] = lo[m]
    /\ lo'[l].conn = lo[l].conn /\ lo'[l].cancelled = lo[l].cancelled
    /\ Alive(l) /\ lo'[l].pc \notin {"new", "exited"}
    /\ lo[l].pc \in {"read", "handling"} => lo'[l].pc \in {"read", "handling"}
    /\ lo'[l].pc = "ending" => lo[l].cancelled

LEMMA Moves ==
    ASSUME Inv, NEW l \in LoopIds,
           \/ LoopTop(l) \/ DialOk(l) \/ DialFails(l) \/ DropDialed(l) \/ Receive(l)
           \/ Handle(l) \/ HandleDone(l) \/ Wake(l)
    PROVE  LoopMoves(l)
<1>0. TypeOK /\ lo[l] \in LoopState /\ lo \in [LoopIds -> LoopState]
  BY DEF Inv, TypeOK
<1>2. ASSUME NEW from, NEW to \in {"dialed", "sleep", "ending", "read", "top"},
             Goto(l, from, to)
      PROVE  /\ lo[l].pc = from
             /\ lo' \in [LoopIds -> LoopState] /\ \A m \in LoopIds : m # l => lo'[m] = lo[m]
             /\ lo'[l].conn = lo[l].conn /\ lo'[l].cancelled = lo[l].cancelled
             /\ lo'[l].pc = to
  BY <1>0, <1>2 DEF Goto, LoopState
<1>3. CASE LoopTop(l)
  <2> DEFINE url == co[lo[l].conn].entry.url
             to == CASE lo[l].cancelled -> "ending"
                     [] ~lo[l].cancelled /\ url = NoUrl -> "sleep"
                     [] OTHER -> "dial"
  <2>1. url \in Urls \cup {NoUrl, Absent.url}
    BY <1>0, Types
  <2>2. to \in {"ending", "sleep", "dial"} /\ (to = "ending" => lo[l].cancelled)
    BY <1>0, Types
  <2>3. lo' = [lo EXCEPT ![l].url = url, ![l].pc = to] /\ lo[l].pc = "top"
    BY <1>3 DEF LoopTop
  <2> HIDE DEF url, to
  <2>4. /\ lo' \in [LoopIds -> LoopState] /\ \A m \in LoopIds : m # l => lo'[m] = lo[m]
        /\ lo'[l].conn = lo[l].conn /\ lo'[l].cancelled = lo[l].cancelled
        /\ lo'[l].pc = to
    BY <1>0, <2>1, <2>2, <2>3 DEF LoopState
  <2> QED
    BY <1>3, <2>2, <2>3, <2>4 DEF LoopTop, LoopMoves, Alive
<1>4. CASE DialOk(l) \/ DialFails(l) \/ HandleDone(l) \/ Wake(l)
  BY <1>2, <1>4 DEF DialOk, DialFails, HandleDone, Wake, LoopMoves, Alive
<1>5. CASE DropDialed(l)
  <2>1. lo[l].pc = "dialed" /\ Alive(l)
    BY <1>2, <1>5 DEF DropDialed, Alive
  <2>2. lo[l].cancelled
    BY <1>5, <2>1 DEF DropDialed, MayGoLive, Inv, LoopInv, Feeds
  <2> QED
    BY <1>2, <1>5, <2>1, <2>2 DEF DropDialed, LoopMoves
<1>6. CASE Receive(l) \/ Handle(l)
  <2>1. /\ lo[l].pc \in {"read", "handling"} /\ lo'[l].pc \in {"read", "handling"}
        /\ lo' \in [LoopIds -> LoopState] /\ \A m \in LoopIds : m # l => lo'[m] = lo[m]
        /\ lo'[l].conn = lo[l].conn /\ lo'[l].cancelled = lo[l].cancelled
    <3>1. CASE Receive(l)
      BY <1>0, <3>1 DEF Receive, LoopState
    <3>2. CASE Handle(l)
      BY <1>0, <3>2 DEF Handle, LoopState
    <3> QED
      BY <1>6, <3>1, <3>2
  <2>2. UNCHANGED co /\ UNCHANGED loopless
    BY <1>6 DEF Receive, Handle
  <2> QED
    BY <2>1, <2>2 DEF LoopMoves, Alive
<1> QED
  BY <1>3, <1>4, <1>5, <1>6

\* Such a step preserves the invariant.
LEMMA MovesKeep == ASSUME Inv, NEW l \in LoopIds, LoopMoves(l) PROVE Inv'
<1>1. UNCHANGED <<cfg, updates, hs, holder, stopping, conns, nconns, nloops, skipped, co>>
  BY DEF LoopMoves, loopless
<1>2. TypeOK' /\ Mutex' /\ Owned' /\ StartsStopped' /\ Applied'
  <2>1. TypeOK'
    BY <1>1 DEF Inv, TypeOK, LoopMoves
  <2>2. Mutex' /\ Owned'
    BY <1>1 DEF Inv, Mutex, Owned
  <2>3. StartsStopped' /\ Applied'
    BY <1>1 DEF Inv, StartsStopped, Applied
  <2> QED
    BY <2>1, <2>2, <2>3
<1>3. \A m \in LoopIds : /\ lo'[m].conn = lo[m].conn /\ lo'[m].cancelled = lo[m].cancelled
                         /\ lo'[m].pc \in {"new", "exited"} => lo'[m].pc = lo[m].pc
                         /\ lo[m].pc \in {"new", "exited"} => lo'[m].pc = lo[m].pc
                         /\ lo[m].pc \in {"read", "handling"} => lo'[m].pc \in {"read", "handling"}
                         /\ (lo'[m].pc = "ending" /\ lo[m].pc # "ending") => lo[m].cancelled
  BY DEF LoopMoves, Alive
<1>4. Started' /\ Feeds' /\ OneLoop' /\ EndsCancelled'
  BY <1>1, <1>3 DEF Inv, LoopInv, Started, Feeds, OneLoop, EndsCancelled, Alive, UpOf
<1>5. ASSUME NEW c \in ConnIds
      PROVE /\ co[c].cur # 0 => co[c].cur \in LoopIds
            /\ co[c].loopDone # 0 => co[c].loopDone \in LoopIds
            /\ co[c].live # 0 => co[c].live \in LoopIds
  BY Types DEF Inv, LoopIds
<1>6. OwnContext' /\ OwnLoopDone' /\ RunsALoop' /\ LiveIsRead'
  BY <1>1, <1>3, <1>5 DEF Inv, LoopInv, OwnContext, OwnLoopDone, RunsALoop, LiveIsRead, Alive
<1> QED
  BY <1>2, <1>4, <1>6 DEF Inv, LoopInv

\* What the numbers that stand for loops refer to.
LEMMA LoopRefs ==
    ASSUME Inv, NEW c \in ConnIds
    PROVE  /\ co[c].cur # 0 => co[c].cur \in LoopIds
           /\ co[c].loopDone # 0 => co[c].loopDone \in LoopIds
           /\ co[c].live # 0 => co[c].live \in LoopIds
  BY Types DEF Inv, LoopIds

\* Going live and losing the connection change what is live of the loop's Conn, and
\* nothing else of the Conns.
LEMMA LiveKeeps == ASSUME Inv, NEW l \in LoopIds, GoLive(l) \/ ReadEnds(l) PROVE Inv'
<1> DEFINE d == lo[l].conn
<1>0. /\ TypeOK /\ lo[l] \in LoopState /\ lo \in [LoopIds -> LoopState]
      /\ co \in [ConnIds -> ConnState] /\ d \in ConnIds /\ co[d] \in ConnState
  BY Types DEF Inv, TypeOK
<1>a. l \in 0..MaxLoops /\ 0 \in 0..MaxLoops /\ l # 0
  BY Types DEF Inv, LoopIds
<1> HIDE DEF d
<1>1. UNCHANGED <<cfg, updates, hs, holder, stopping, conns, nconns, nloops, skipped>>
  BY DEF GoLive, ReadEnds, loopless
<1>2. /\ lo' \in [LoopIds -> LoopState] /\ (\A m \in LoopIds : m # l => lo'[m] = lo[m])
      /\ lo'[l].conn = d /\ lo'[l].cancelled = lo[l].cancelled
      /\ lo[l].pc \in {"dialed", "read"} /\ lo'[l].pc \in {"read", "sleep"}
  <2>1. CASE GoLive(l)
    BY <1>0, <2>1 DEF GoLive, Goto, LoopState, d
  <2>2. CASE ReadEnds(l)
    BY <1>0, <2>2 DEF ReadEnds, LoopState, d
  <2> QED
    BY <2>1, <2>2
<1>3. /\ co' \in [ConnIds -> ConnState] /\ (\A c \in ConnIds : c # d => co'[c] = co[c])
      /\ co'[d].up = co[d].up /\ co'[d].entry = co[d].entry /\ co'[d].cur = co[d].cur
      /\ co'[d].running = co[d].running /\ co'[d].loopDone = co[d].loopDone
      /\ \/ co'[d].live = l /\ lo'[l].pc = "read" /\ co[d].running /\ co[d].cur = l
         \/ co'[d].live = 0
         \/ co'[d].live = co[d].live /\ co[d].live # l
  <2>1. CASE GoLive(l)
    <3>1. co' = [co EXCEPT ![d].live = l] /\ co[d].running /\ co[d].cur = l
      BY <2>1 DEF GoLive, MayGoLive, d
    <3>2. lo'[l].pc = "read"
      BY <1>0, <2>1 DEF GoLive, Goto, LoopState
    <3> QED
      BY <1>0, <1>a, <3>1, <3>2 DEF ConnState
  <2>2. CASE ReadEnds(l)
    <3>1. co' = [co EXCEPT ![d].live = IF co[d].live = l THEN 0 ELSE co[d].live]
      BY <2>2 DEF ReadEnds, d
    <3> QED
      BY <1>0, <1>a, <3>1 DEF ConnState
  <2> QED
    BY <2>1, <2>2
<1>4. \A m \in LoopIds : /\ lo'[m].conn = lo[m].conn /\ lo'[m].cancelled = lo[m].cancelled
                         /\ (Alive(m))' <=> Alive(m)
                         /\ lo'[m].pc = "new" <=> lo[m].pc = "new"
                         /\ lo'[m].pc = "ending" <=> lo[m].pc = "ending"
                         /\ m # l => lo'[m].pc = lo[m].pc
  BY <1>2 DEF Alive, d
<1>5. \A c \in ConnIds : /\ co'[c].up = co[c].up /\ co'[c].entry = co[c].entry
                         /\ co'[c].cur = co[c].cur /\ co'[c].running = co[c].running
                         /\ co'[c].loopDone = co[c].loopDone
                         /\ c # d => co'[c].live = co[c].live
  BY <1>3
<1>6. TypeOK'
  BY <1>0, <1>1, <1>2, <1>3 DEF TypeOK
<1>7. \A u \in Upstreams : conns[u] # 0 => conns[u] \in ConnIds
  BY <1>0 DEF TypeOK, ConnIds
<1>8. \A h \in Handlers : hs[h].up \in Upstreams
  BY <1>0, Types
<1>9. Mutex' /\ Owned' /\ StartsStopped' /\ Applied'
  BY <1>1, <1>5, <1>7, <1>8 DEF Inv, Mutex, Owned, StartsStopped, Applied
<1>10. \A m \in LoopIds : lo[m].conn \in ConnIds
  BY <1>0, Types
<1>11. Started' /\ EndsCancelled' /\ Feeds' /\ OneLoop'
  BY <1>1, <1>4, <1>5, <1>10 DEF Inv, LoopInv, Started, EndsCancelled, Feeds, OneLoop, UpOf
<1>12. OwnContext' /\ OwnLoopDone' /\ RunsALoop'
  BY <1>1, <1>4, <1>5, LoopRefs DEF Inv, LoopInv, OwnContext, OwnLoopDone, RunsALoop
<1>13. LiveIsRead'
  <2> SUFFICES ASSUME NEW c \in ConnIds, co'[c].live # 0
               PROVE co'[c].running /\ co'[c].cur = co'[c].live
                     /\ lo'[co'[c].live].pc \in {"read", "handling"}
    BY DEF LiveIsRead
  <2>1. CASE c = d /\ co'[d].live = l
    BY <1>2, <1>3, <1>a, <2>1
  <2>2. CASE co'[c].live = co[c].live /\ co[c].live # l
    <3>1. /\ co[c].running /\ co[c].cur = co[c].live
          /\ lo[co[c].live].pc \in {"read", "handling"} /\ co[c].live \in LoopIds
      BY <2>2, LoopRefs DEF Inv, LoopInv, LiveIsRead
    <3> QED
      BY <1>4, <1>5, <2>2, <3>1
  <2>3. CASE c # d /\ co[c].live = l
    <3>1. lo[co[c].cur].conn = c /\ co[c].cur = l
      BY <1>a, <2>3 DEF Inv, LoopInv, LiveIsRead, OwnContext
    <3> QED
      BY <2>3, <3>1 DEF d
  <2> QED
    BY <1>3, <1>5, <2>1, <2>2, <2>3
<1> QED
  BY <1>6, <1>9, <1>11, <1>12, <1>13 DEF Inv, LoopInv

\* A loop that returns was cancelled, so its Conn does not run and has no connection:
\* what the deferred function changes is that there is no loop to wait for.
LEMMA LoopExitKeeps == ASSUME Inv, NEW l \in LoopIds, LoopExit(l) PROVE Inv'
<1> DEFINE d == lo[l].conn
<1>1. /\ TypeOK /\ lo[l] \in LoopState /\ lo \in [LoopIds -> LoopState]
      /\ co \in [ConnIds -> ConnState] /\ d \in ConnIds /\ co[d] \in ConnState
      /\ 0 \in 0..MaxLoops /\ l # 0
  <2>1. TypeOK
    BY DEF Inv
  <2>2. lo \in [LoopIds -> LoopState] /\ co \in [ConnIds -> ConnState]
    BY <2>1 DEF TypeOK
  <2>3. d \in ConnIds /\ MaxLoops \in Nat
    BY <2>1, Types
  <2> HIDE DEF d
  <2>4. 0 \in 0..MaxLoops /\ l # 0
    BY <2>3 DEF LoopIds
  <2> QED
    BY <2>1, <2>2, <2>3, <2>4
<1>2. lo[l].pc = "ending" /\ Alive(l) /\ lo[l].cancelled /\ co[d].loopDone = l
  BY DEF LoopExit, Goto, Alive, Inv, LoopInv, OneLoop, EndsCancelled
<1>3. ~co[d].running /\ co[d].live = 0
  BY <1>1, <1>2 DEF Inv, LoopInv, RunsALoop, LiveIsRead
<1>4. co' = [co EXCEPT ![d].loopDone = 0, ![d].running = FALSE]
  BY <1>2 DEF LoopExit
<1> HIDE DEF d
<1>5. /\ co' \in [ConnIds -> ConnState] /\ \A c \in ConnIds : c # d => co'[c] = co[c]
      /\ co'[d].up = co[d].up /\ co'[d].entry = co[d].entry /\ co'[d].cur = co[d].cur
      /\ co'[d].loopDone = 0 /\ ~co'[d].running /\ co'[d].live = 0
  BY <1>1, <1>3, <1>4 DEF ConnState
<1>6. \A c \in ConnIds : /\ co'[c].up = co[c].up /\ co'[c].entry = co[c].entry
                         /\ co'[c].cur = co[c].cur /\ co'[c].live = co[c].live
                         /\ co'[c].running <=> co[c].running
                         /\ co'[c].loopDone = IF c = d THEN 0 ELSE co[c].loopDone
  BY <1>3, <1>5
<1>7. /\ lo' \in [LoopIds -> LoopState] /\ \A m \in LoopIds : m # l => lo'[m] = lo[m]
      /\ lo'[l].conn = lo[l].conn /\ lo'[l].cancelled = lo[l].cancelled
      /\ lo'[l].pc = "exited"
  BY <1>1 DEF LoopExit, Goto, LoopState
<1>8. \A m \in LoopIds : /\ lo'[m].conn = lo[m].conn /\ lo'[m].cancelled = lo[m].cancelled
                         /\ (Alive(m))' <=> Alive(m) /\ m # l
                         /\ lo'[m].pc = "new" <=> lo[m].pc = "new"
                         /\ m # l => lo'[m].pc = lo[m].pc
  BY <1>2, <1>7 DEF Alive
<1>9. UNCHANGED <<cfg, updates, hs, holder, stopping, conns, nconns, nloops, skipped>>
  BY DEF LoopExit, loopless
<1>10. TypeOK'
  BY <1>1, <1>5, <1>7, <1>9 DEF TypeOK
<1>11. /\ \A u \in Upstreams : conns[u] # 0 => conns[u] \in ConnIds
       /\ \A h \in Handlers : hs[h].up \in Upstreams
       /\ \A m \in LoopIds : lo[m].conn \in ConnIds
  BY <1>1, Types DEF TypeOK, ConnIds
<1>12. Mutex' /\ Owned' /\ Applied'
  BY <1>6, <1>9, <1>11 DEF Inv, Mutex, Owned, Applied
<1>13. StartsStopped'
  BY <1>6, <1>9, <1>11 DEF Inv, StartsStopped
<1>14. Started' /\ Feeds'
  BY <1>6, <1>8, <1>9, <1>11 DEF Inv, LoopInv, Started, Feeds, UpOf
<1>15. EndsCancelled'
  BY <1>7, <1>8 DEF Inv, LoopInv, EndsCancelled
<1>16. OneLoop'
  BY <1>2, <1>6, <1>8, <1>11 DEF Inv, LoopInv, OneLoop, d
<1>17. OwnContext' /\ OwnLoopDone' /\ LiveIsRead'
  <2>1. OwnContext'
    BY <1>6, <1>8, <1>9, LoopRefs DEF Inv, LoopInv, OwnContext
  <2>2. OwnLoopDone'
    <3> SUFFICES ASSUME NEW c \in ConnIds, co'[c].loopDone # 0
                 PROVE lo'[co'[c].loopDone].conn = c /\ (Alive(co[c].loopDone))'
                       /\ co'[c].loopDone = co[c].loopDone
      BY <1>8, LoopRefs DEF OwnLoopDone, Alive
    <3>1. c # d /\ co'[c].loopDone = co[c].loopDone
      BY <1>6
    <3>2. co[c].loopDone \in LoopIds /\ lo[co[c].loopDone].conn = c /\ Alive(co[c].loopDone)
      BY <3>1, LoopRefs DEF Inv, LoopInv, OwnLoopDone
    <3>3. co[c].loopDone # l
      BY <3>1, <3>2 DEF d
    <3> QED
      BY <1>8, <3>1, <3>2, <3>3
  <2>3. LiveIsRead'
    BY <1>2, <1>6, <1>8, LoopRefs DEF Inv, LoopInv, LiveIsRead
  <2> QED
    BY <2>1, <2>2, <2>3
<1>18. RunsALoop'
  BY <1>3, <1>6, <1>8, LoopRefs DEF Inv, LoopInv, RunsALoop
<1> QED
  BY <1>10, <1>12, <1>13, <1>14, <1>15, <1>16, <1>17, <1>18 DEF Inv, LoopInv

\* Every step of a loop preserves the invariant.
LEMMA LoopKeeps == ASSUME Inv, NEW l \in LoopIds, LoopStep(l) PROVE Inv'
  BY Moves, MovesKeep, LiveKeeps, LoopExitKeeps DEF LoopStep

-----------------------------------------------------------------------------
(* The handlers, as long as they leave the Conns and the loops alone.        *)

LEMMA LoopsUntouched ==
    ASSUME Inv, UNCHANGED <<conns, co, lo, nconns, nloops>>
    PROVE  LoopInv' /\ Owned'
  BY DEF Inv, LoopInv, Owned, Started, OwnContext, OwnLoopDone, OneLoop, Feeds, RunsALoop,
         LiveIsRead, EndsCancelled, Alive, UpOf

\* No handler but the one that holds the mutex is between RemoveUnwanted and EndSync.
LEMMA OthersWait ==
    ASSUME Inv
    PROVE  /\ \A h, k \in Handlers : (/\ hs[h].pc \in {"syncing", "waiting"}
                                      /\ hs[k].pc \in {"syncing", "waiting"}) => h = k
           /\ holder = Nobody => \A h \in Handlers : hs[h].pc \notin {"syncing", "waiting"}
  BY UpstreamAssumption DEF Inv, Mutex

\* Saving the configuration and reading it back, before Sync takes the mutex.
LEMMA RequestKeeps ==
    ASSUME Inv, NEW h \in Handlers,
           \/ \E next \in [Upstreams -> Entries] : SaveConfig(h, next)
           \/ \E ids \in SUBSET Upstreams, enabled \in BOOLEAN : SetEnabled(h, ids, enabled)
           \/ ReadConfig(h)
    PROVE  Inv'
<1>1. /\ TypeOK /\ hs[h] \in HandlerState /\ hs \in [Handlers -> HandlerState]
      /\ cfg \in [Upstreams -> Entries]
  BY DEF Inv, TypeOK
<1>2. UNCHANGED <<holder, stopping, conns, co, lo, nconns, nloops, skipped>>
  BY DEF SaveConfig, SetEnabled, ReadConfig
<1>3. /\ hs' \in [Handlers -> HandlerState] /\ \A k \in Handlers : k # h => hs'[k] = hs[k]
      /\ hs[h].pc \in {"idle", "updated"} /\ hs'[h].pc \in {"updated", "loaded"}
  <2>1. CASE hs[h].pc = "idle" /\ hs' = [hs EXCEPT ![h].pc = "updated"]
    BY <1>1, <2>1 DEF HandlerState
  <2>2. CASE hs[h].pc = "updated" /\ hs' = [hs EXCEPT ![h].pc = "loaded", ![h].seen = cfg]
    BY <1>1, <2>2 DEF HandlerState
  <2> QED
    BY <2>1, <2>2 DEF SaveConfig, SetEnabled, ReadConfig
<1>4. cfg' \in [Upstreams -> Entries] /\ updates' \in 0..MaxUpdates
  <2>1. CASE \E next \in [Upstreams -> Entries] : SaveConfig(h, next)
    BY <1>1, <2>1, Types DEF SaveConfig
  <2>2. CASE \E ids \in SUBSET Upstreams, enabled \in BOOLEAN : SetEnabled(h, ids, enabled)
    <3>1. PICK ids \in SUBSET Upstreams, enabled \in BOOLEAN : SetEnabled(h, ids, enabled)
      BY <2>2
    <3>2. ASSUME NEW u \in Upstreams, cfg[u] # Absent
          PROVE [cfg[u] EXCEPT !.enabled = enabled] \in Entries
      <4>1. cfg[u] \in [enabled : BOOLEAN, url : Urls \cup {NoUrl}]
        BY <1>1, <3>2 DEF Entries
      <4>2. [cfg[u] EXCEPT !.enabled = enabled] \in [enabled : BOOLEAN, url : Urls \cup {NoUrl}]
        BY <4>1
      <4> QED
        BY <4>2 DEF Entries
    <3>3. cfg' \in [Upstreams -> Entries]
      BY <1>1, <3>1, <3>2 DEF SetEnabled
    <3> QED
      BY <1>1, <3>1, <3>3, Types DEF SetEnabled
  <2>3. CASE ReadConfig(h)
    BY <1>1, <2>3, Types DEF ReadConfig
  <2> QED
    BY <2>1, <2>2, <2>3
<1>5. TypeOK'
  BY <1>1, <1>2, <1>3, <1>4 DEF TypeOK
<1>6. Mutex'
  BY <1>2, <1>3 DEF Inv, Mutex
<1>7. StartsStopped' /\ Applied'
  <2>1. \A k \in Handlers : /\ hs'[k].pc = "waiting" <=> hs[k].pc = "waiting"
                            /\ hs[k].pc = "waiting" => hs'[k] = hs[k]
    BY <1>3
  <2> QED
    BY <1>2, <2>1 DEF Inv, StartsStopped, Applied
<1> QED
  BY <1>2, <1>5, <1>6, <1>7, LoopsUntouched DEF Inv

\* Giving up a start, and the end of Sync.
LEMMA LeaveKeeps ==
    ASSUME Inv, NEW h \in Handlers, SkipStart(h) \/ EndSync(h)
    PROVE  Inv'
<1>1. /\ TypeOK /\ hs[h] \in HandlerState /\ hs \in [Handlers -> HandlerState]
      /\ 0 \in 0..MaxLoops
  BY Types DEF Inv, TypeOK
<1>2. UNCHANGED <<cfg, updates, stopping, conns, co, lo, nconns, nloops>>
  BY DEF SkipStart, EndSync
<1>3. CASE SkipStart(h)
  <2>1. /\ hs' \in [Handlers -> HandlerState] /\ \A k \in Handlers : k # h => hs'[k] = hs[k]
        /\ hs[h].pc = "waiting" /\ hs'[h].pc = "syncing"
    BY <1>1, <1>3 DEF SkipStart, HandlerState
  <2>2. holder' = holder /\ skipped' = skipped \cup {hs[h].up} /\ hs[h].up \in Upstreams
    BY <1>1, <1>3, Types DEF SkipStart
  <2>3. TypeOK' /\ Mutex'
    BY <1>2, <2>1, <2>2 DEF Inv, TypeOK, Mutex
  <2>4. StartsStopped'
    BY <1>2, <2>1 DEF Inv, StartsStopped
  <2>5. Applied'
    BY <1>2, <2>1, <2>2 DEF Inv, Applied
  <2> QED
    BY <1>2, <2>3, <2>4, <2>5, LoopsUntouched DEF Inv
<1>4. CASE EndSync(h)
  <2>1. /\ hs' \in [Handlers -> HandlerState] /\ \A k \in Handlers : k # h => hs'[k] = hs[k]
        /\ hs[h].pc = "syncing" /\ hs'[h].pc = "idle"
    BY <1>1, <1>4 DEF EndSync, HandlerState
  <2>2. holder' = Nobody /\ skipped' = skipped
    BY <1>4 DEF EndSync
  <2>3. TypeOK'
    BY <1>2, <2>1, <2>2 DEF Inv, TypeOK
  <2>4. Mutex'
    <3>1. \A k \in Handlers : hs'[k].pc \notin {"syncing", "waiting"}
      BY <2>1, OthersWait
    <3> QED
      BY <2>2, <3>1, UpstreamAssumption DEF Mutex
  <2>5. StartsStopped'
    BY <1>2, <2>1 DEF Inv, StartsStopped
  <2>6. Applied'
    BY <1>2, <2>1, <2>2 DEF Inv, Applied
  <2> QED
    BY <1>2, <2>3, <2>4, <2>5, <2>6, LoopsUntouched DEF Inv
<1> QED
  BY <1>3, <1>4

-----------------------------------------------------------------------------
(* The handlers that hold the mutex.                                         *)

\* Whatever Sync and StopAll stop, and whatever they forget of it, the loops and the
\* Conns agree afterwards.
LEMMA StopKeepsLoops ==
    ASSUME Inv, NEW S \in SUBSET ConnIds,
           lo' = StoppedLoops(S), nconns' = nconns, nloops' = nloops,
           \A c \in ConnIds : /\ co'[c].up = co[c].up /\ co'[c].cur = co[c].cur
                              /\ co'[c].loopDone = co[c].loopDone
                              /\ co'[c].running = StoppedConns(S)[c].running
                              /\ co'[c].live = StoppedConns(S)[c].live,
           \A u \in Upstreams : conns[u] # 0 /\ conns'[u] # conns[u] => conns[u] \in S
    PROVE  LoopInv'
<1>1. TypeOK /\ LoopInv
  BY DEF Inv
<1>2. \A c \in ConnIds : /\ c \in S => ~co'[c].running /\ co'[c].live = 0
                         /\ c \notin S => co'[c].running = co[c].running /\ co'[c].live = co[c].live
  BY <1>1, StopEffect
<1>3. \A l \in LoopIds : /\ lo'[l].conn = lo[l].conn /\ lo'[l].pc = lo[l].pc
                         /\ (Alive(l))' <=> Alive(l)
                         /\ (\E c \in S : co[c].cur = l) => lo'[l].cancelled
                         /\ ~(\E c \in S : co[c].cur = l) => lo'[l].cancelled = lo[l].cancelled
                         /\ lo[l].cancelled => lo'[l].cancelled
                         /\ lo[l].conn \in ConnIds /\ co[lo[l].conn].up \in Upstreams
  BY <1>1, StopEffect, Types DEF Alive
<1>4. Started' /\ OwnContext' /\ OneLoop' /\ EndsCancelled'
  <2>1. Started' /\ EndsCancelled'
    BY <1>1, <1>3 DEF LoopInv, Started, EndsCancelled
  <2>2. OwnContext' /\ OneLoop'
    BY <1>1, <1>3, LoopRefs DEF LoopInv, OwnContext, OneLoop
  <2> QED
    BY <2>1, <2>2
<1>5. OwnLoopDone'
  <2> SUFFICES ASSUME NEW c \in ConnIds, co'[c].loopDone # 0
               PROVE lo'[co'[c].loopDone].conn = c /\ (Alive(co[c].loopDone))'
                     /\ co'[c].loopDone = co[c].loopDone
    BY DEF OwnLoopDone, Alive
  <2> QED
    BY <1>1, <1>3, LoopRefs DEF LoopInv, OwnLoopDone
<1>6. Feeds'
  <2> SUFFICES ASSUME NEW l \in LoopIds, (Alive(l))', ~lo'[l].cancelled
               PROVE /\ co'[lo'[l].conn].running /\ co'[lo'[l].conn].cur = l
                     /\ conns'[co'[lo'[l].conn].up] = lo'[l].conn
    BY DEF Feeds, UpOf
  <2> DEFINE d == lo[l].conn
  <2>1. /\ Alive(l) /\ ~lo[l].cancelled /\ lo'[l].conn = d /\ d \in ConnIds
        /\ co[d].up \in Upstreams /\ co'[d].up = co[d].up /\ co'[d].cur = co[d].cur
    BY <1>3
  <2>2. co[d].running /\ co[d].cur = l /\ conns[co[d].up] = d
    BY <1>1, <2>1 DEF LoopInv, Feeds, UpOf
  <2>3. d \notin S
    BY <1>3, <2>2
  <2>4. conns'[co[d].up] = d
    BY <2>1, <2>2, <2>3 DEF ConnIds
  <2> QED
    BY <1>2, <2>1, <2>2, <2>3, <2>4
<1>7. RunsALoop'
  <2> SUFFICES ASSUME NEW c \in ConnIds, co'[c].running
               PROVE /\ co'[c].cur # 0 /\ co'[c].loopDone = co'[c].cur
                     /\ ~lo'[co'[c].cur].cancelled
    BY DEF RunsALoop
  <2>1. c \notin S /\ co[c].running /\ co'[c].cur = co[c].cur /\ co'[c].loopDone = co[c].loopDone
    BY <1>2
  <2>2. /\ co[c].cur # 0 /\ co[c].loopDone = co[c].cur /\ ~lo[co[c].cur].cancelled
        /\ co[c].cur \in LoopIds /\ lo[co[c].cur].conn = c
    BY <1>1, <2>1, LoopRefs DEF LoopInv, RunsALoop, OwnContext
  <2>3. ~\E d \in S : co[d].cur = co[c].cur
    BY <1>1, <2>1, <2>2 DEF LoopInv, OwnContext
  <2> QED
    BY <1>3, <2>1, <2>2, <2>3
<1>8. LiveIsRead'
  BY <1>1, <1>2, <1>3, LoopRefs DEF LoopInv, LiveIsRead
<1> QED
  BY <1>4, <1>5, <1>6, <1>7, <1>8 DEF LoopInv

\* Two upstreams never share a Conn.
LEMMA OwnConn ==
    ASSUME Inv, NEW u \in Upstreams, conns[u] # 0
    PROVE  /\ conns[u] \in ConnIds /\ co[conns[u]].up = u
           /\ \A v \in Upstreams : conns[v] = conns[u] => v = u
  BY DEF Inv, TypeOK, Owned, ConnIds

\* Forgetting the upstreams that left the configuration, and shutting down.
LEMMA RemoveKeeps ==
    ASSUME Inv, (\E h \in Handlers : RemoveUnwanted(h)) \/ StopAll
    PROVE  Inv'
<1>1. /\ TypeOK /\ hs \in [Handlers -> HandlerState] /\ conns \in [Upstreams -> 0..MaxConns]
      /\ 0 \in 0..MaxConns
  BY Types DEF Inv, TypeOK
<1>2. PICK G \in SUBSET Upstreams :
          /\ \A u \in G : conns[u] # 0
          /\ co' = StoppedConns({conns[u] : u \in G}) /\ lo' = StoppedLoops({conns[u] : u \in G})
          /\ conns' \in [Upstreams -> 0..MaxConns]
          /\ \A u \in Upstreams : /\ u \in G => conns'[u] = 0
                                  /\ u \notin G => conns'[u] = conns[u]
  <2>1. CASE StopAll
    <3> DEFINE G == {u \in Upstreams : conns[u] # 0}
    <3>1. /\ G \in SUBSET Upstreams /\ \A u \in G : conns[u] # 0
          /\ co' = StoppedConns({conns[u] : u \in G}) /\ lo' = StoppedLoops({conns[u] : u \in G})
          /\ conns' \in [Upstreams -> 0..MaxConns]
          /\ \A u \in Upstreams : conns'[u] = 0 /\ (u \notin G => conns[u] = 0)
      BY <1>1, <2>1 DEF StopAll
    <3> QED
      BY <3>1
  <2>2. ASSUME NEW h \in Handlers, RemoveUnwanted(h)
        PROVE \E G \in SUBSET Upstreams :
          /\ \A u \in G : conns[u] # 0
          /\ co' = StoppedConns({conns[u] : u \in G}) /\ lo' = StoppedLoops({conns[u] : u \in G})
          /\ conns' \in [Upstreams -> 0..MaxConns]
          /\ \A u \in Upstreams : /\ u \in G => conns'[u] = 0
                                  /\ u \notin G => conns'[u] = conns[u]
    <3> DEFINE G == {u \in Upstreams : conns[u] # 0 /\ hs[h].seen[u] = Absent}
    <3>1. /\ G \in SUBSET Upstreams /\ \A u \in G : conns[u] # 0
          /\ co' = StoppedConns({conns[u] : u \in G}) /\ lo' = StoppedLoops({conns[u] : u \in G})
          /\ conns' = [u \in Upstreams |-> IF u \in G THEN 0 ELSE conns[u]]
      BY <2>2 DEF RemoveUnwanted
    <3> HIDE DEF G
    <3>2. conns' \in [Upstreams -> 0..MaxConns]
      BY <1>1, <3>1
    <3> QED
      BY <3>1, <3>2
  <2> QED
    BY <2>1, <2>2
<1> DEFINE S == {conns[u] : u \in G}
<1>3. S \in SUBSET ConnIds
  BY <1>2, OwnConn
<1> HIDE DEF S
<1>4. /\ co' = StoppedConns(S) /\ lo' = StoppedLoops(S)
      /\ \A u \in Upstreams : /\ conns'[u] # 0 => conns'[u] = conns[u] /\ conns[u] \notin S
                              /\ (conns[u] # 0 /\ conns'[u] # conns[u]) => conns[u] \in S
  BY <1>2, OwnConn DEF S
<1>5. /\ UNCHANGED <<cfg, updates, nconns, nloops, skipped>> /\ holder = Nobody
      /\ stopping' \in BOOLEAN
  BY <1>1 DEF RemoveUnwanted, StopAll, TypeOK
<1>6. /\ co' \in [ConnIds -> ConnState] /\ lo' \in [LoopIds -> LoopState]
      /\ \A c \in ConnIds : /\ co'[c].up = co[c].up /\ co'[c].cur = co[c].cur
                            /\ co'[c].loopDone = co[c].loopDone
                            /\ c \notin S => co'[c] = co[c]
  BY <1>1, <1>4, StopEffect
<1>7. LoopInv'
  BY <1>3, <1>4, <1>5, <1>6, StopKeepsLoops
<1>8. Owned' /\ \A u \in Upstreams : conns'[u] # 0 =>
          conns'[u] = conns[u] /\ co'[conns'[u]] = co[conns[u]]
  BY <1>4, <1>5, <1>6, OwnConn DEF Inv, Owned
<1>9. /\ hs' \in [Handlers -> HandlerState] /\ holder' \in Handlers \cup {Nobody}
      /\ Mutex' /\ \A k \in Handlers : hs[k].pc # "waiting" /\ hs'[k].pc # "waiting"
  <2>1. \A k \in Handlers : hs[k].pc \notin {"syncing", "waiting"}
    BY <1>5, OthersWait
  <2>2. CASE StopAll
    BY <1>1, <2>1, <2>2 DEF StopAll, Inv, TypeOK, Mutex
  <2>3. ASSUME NEW h \in Handlers, RemoveUnwanted(h)
        PROVE /\ hs' \in [Handlers -> HandlerState] /\ holder' \in Handlers \cup {Nobody}
              /\ Mutex' /\ \A k \in Handlers : hs'[k].pc # "waiting"
    <3>1. /\ holder' = h
          /\ hs' = [hs EXCEPT ![h].pc = "syncing",
                              ![h].work = {u \in Upstreams : hs[h].seen[u] # Absent}]
      BY <2>3 DEF RemoveUnwanted
    <3>2. /\ hs' \in [Handlers -> HandlerState] /\ hs'[h].pc = "syncing"
          /\ \A k \in Handlers : k # h => hs'[k] = hs[k]
      <4> DEFINE work == {u \in Upstreams : hs[h].seen[u] # Absent}
                 new == [hs[h] EXCEPT !.pc = "syncing", !.work = work]
      <4>1. hs \in [Handlers -> HandlerState] /\ hs' = [hs EXCEPT ![h] = new]
        BY <1>1, <3>1
      <4>2. work \subseteq Upstreams
        OBVIOUS
      <4> HIDE DEF work
      <4>3. new \in HandlerState /\ new.pc = "syncing"
        BY <4>1, <4>2 DEF HandlerState
      <4> HIDE DEF new
      <4> QED
        BY <4>1, <4>3
    <3> QED
      BY <2>1, <3>1, <3>2 DEF Mutex
  <2> QED
    BY <2>1, <2>2, <2>3
<1>10. TypeOK'
  BY <1>1, <1>2, <1>5, <1>6, <1>9 DEF TypeOK
<1>11. StartsStopped' /\ Applied'
  BY <1>5, <1>8, <1>9 DEF Inv, StartsStopped, Applied
<1> QED
  BY <1>7, <1>8, <1>9, <1>10, <1>11 DEF Inv

\* Taking over the entry of an upstream that has a Conn.
LEMMA ReuseKeeps ==
    ASSUME Inv, NEW h \in Handlers, NEW u \in Upstreams, ReuseConn(h, u)
    PROVE  Inv'
<1> DEFINE c == conns[u]
           e == hs[h].seen[u]
           changed == co[c].entry.url # e.url
           stop == {x \in {c} : changed \/ (~e.enabled /\ co[c].running)}
           start == e.enabled /\ (changed \/ ~co[c].running)
           pc == IF start THEN "waiting" ELSE "syncing"
<1>1. /\ TypeOK /\ hs \in [Handlers -> HandlerState] /\ hs[h] \in HandlerState
      /\ co \in [ConnIds -> ConnState] /\ 0 \in 0..MaxLoops
  BY Types DEF Inv, TypeOK
<1>2. /\ hs[h].pc = "syncing" /\ c # 0
      /\ co' = [StoppedConns(stop) EXCEPT ![c].entry = e]
      /\ lo' = StoppedLoops(stop)
      /\ hs' = [hs EXCEPT ![h].work = @ \ {u}, ![h].pc = pc,
                          ![h].up = u, ![h].prev = co[c].loopDone]
      /\ UNCHANGED <<cfg, updates, holder, stopping, conns, nconns, nloops, skipped>>
  BY DEF ReuseConn
<1>3. /\ c \in ConnIds /\ co[c].up = u /\ \A v \in Upstreams : v # u => conns[v] # c
      /\ e \in Entries /\ co[c].loopDone \in 0..MaxLoops /\ e.enabled \in BOOLEAN
      /\ stop \in SUBSET ConnIds /\ \A x \in ConnIds : x # c => x \notin stop
      /\ pc \in {"waiting", "syncing"} /\ hs[h].work \ {u} \in SUBSET Upstreams
  BY <1>1, <1>2, OwnConn, Types
<1>4. /\ pc = "waiting" <=> start
      /\ start => e.enabled /\ (c \in stop \/ ~co[c].running)
      /\ (c \notin stop /\ co[c].running) => e.enabled /\ ~start
      /\ e.enabled => start \/ (c \notin stop /\ co[c].running)
  OBVIOUS
<1> HIDE DEF c, e, stop, start, pc
<1>5. /\ co' \in [ConnIds -> ConnState] /\ co'[c].entry = e
      /\ \A x \in ConnIds : /\ co'[x].up = co[x].up /\ co'[x].cur = co[x].cur
                            /\ co'[x].loopDone = co[x].loopDone
                            /\ co'[x].running = StoppedConns(stop)[x].running
                            /\ co'[x].live = StoppedConns(stop)[x].live
                            /\ x \in stop => ~co'[x].running
                            /\ x \notin stop => co'[x].running = co[x].running
                            /\ x # c => co'[x] = co[x]
  <2>1. /\ StoppedConns(stop) \in [ConnIds -> ConnState]
        /\ StoppedConns(stop)[c] \in ConnState
    BY <1>1, <1>3, StopEffect
  <2>2. /\ co' \in [ConnIds -> ConnState] /\ co'[c].entry = e
        /\ co'[c].up = StoppedConns(stop)[c].up /\ co'[c].cur = StoppedConns(stop)[c].cur
        /\ co'[c].loopDone = StoppedConns(stop)[c].loopDone
        /\ co'[c].running = StoppedConns(stop)[c].running
        /\ co'[c].live = StoppedConns(stop)[c].live
        /\ \A x \in ConnIds : x # c => co'[x] = StoppedConns(stop)[x]
    BY <1>2, <1>3, <2>1 DEF ConnState
  <2> QED
    BY <1>1, <1>3, <2>2, StopEffect
<1>6. LoopInv'
  BY <1>2, <1>3, <1>5, StopKeepsLoops
<1>7. /\ hs' \in [Handlers -> HandlerState] /\ \A k \in Handlers : k # h => hs'[k] = hs[k]
      /\ hs'[h].pc = pc /\ hs'[h].up = u /\ hs'[h].prev = co[c].loopDone
  <2>1. hs'[h] = [hs[h] EXCEPT !.work = hs[h].work \ {u}, !.pc = pc, !.up = u,
                               !.prev = co[c].loopDone]
    BY <1>1, <1>2
  <2>2. \A k \in Handlers : k # h => hs'[k] = hs[k]
    BY <1>1, <1>2
  <2>3. hs'[h] \in HandlerState
    BY <1>1, <1>3, <2>1 DEF HandlerState
  <2>4. hs' \in [Handlers -> HandlerState]
    BY <1>1, <1>2, <2>2, <2>3
  <2> QED
    BY <1>1, <2>1, <2>2, <2>4 DEF HandlerState
<1>8. \A k \in Handlers : k # h => hs[k].pc \notin {"syncing", "waiting"}
  BY <1>2, OthersWait
<1>9. TypeOK'
  BY <1>2, <1>5, <1>7, StopEffect DEF Inv, TypeOK
<1>10. Mutex'
  BY <1>2, <1>3, <1>7, <1>8 DEF Inv, Mutex
<1>11. Owned'
  BY <1>2, <1>5, OwnConn DEF Inv, Owned
<1>12. StartsStopped'
  <2>1. \A k \in Handlers : hs'[k].pc = "waiting" => k = h /\ start
    BY <1>4, <1>7, <1>8
  <2>2. start => ~co'[c].running /\ co'[c].entry.enabled
    BY <1>3, <1>4, <1>5
  <2>3. conns'[hs'[h].up] = c /\ c # 0 /\ co'[c].loopDone = hs'[h].prev
    BY <1>2, <1>3, <1>5, <1>7 DEF c
  <2> QED
    BY <2>1, <2>2, <2>3 DEF StartsStopped
<1>13. Applied'
  <2> SUFFICES ASSUME NEW v \in Upstreams, conns'[v] # 0
               PROVE  /\ co'[conns'[v]].running => co'[conns'[v]].entry.enabled
                      /\ (/\ v \notin skipped' /\ co'[conns'[v]].entry.enabled
                          /\ co'[conns'[v]].entry.url # NoUrl) =>
                             \/ co'[conns'[v]].running
                             \/ \E k \in Handlers : hs'[k].pc = "waiting" /\ hs'[k].up = v
    BY DEF Applied
  <2>1. CASE v = u
    <3>1. conns'[v] = c
      BY <1>2, <2>1 DEF c
    <3>2. co'[c].running => e.enabled
      BY <1>3, <1>4, <1>5
    <3>3. e.enabled => co'[c].running \/ (hs'[h].pc = "waiting" /\ hs'[h].up = u)
      BY <1>3, <1>4, <1>5, <1>7
    <3> QED
      BY <1>5, <2>1, <3>1, <3>2, <3>3
  <2>2. CASE v # u
    <3>1. conns'[v] = conns[v] /\ co'[conns[v]] = co[conns[v]]
      BY <1>2, <1>3, <1>5, <2>2, OwnConn
    <3>2. \A k \in Handlers : hs[k].pc # "waiting"
      BY <1>2, <1>8
    <3> QED
      BY <1>2, <3>1, <3>2 DEF Inv, Applied
  <2> QED
    BY <2>1, <2>2
<1> QED
  BY <1>6, <1>9, <1>10, <1>11, <1>12, <1>13 DEF Inv

\* An upstream that has no Conn gets a new one, which no loop knows yet.
LEMMA CreateKeeps ==
    ASSUME Inv, NEW h \in Handlers, NEW u \in Upstreams, CreateConn(h, u)
    PROVE  Inv'
<1> DEFINE n == nconns + 1
           e == hs[h].seen[u]
           start == e.enabled /\ e.url # NoUrl
           pc == IF start THEN "waiting" ELSE "syncing"
           new == [up |-> u, entry |-> e, cur |-> 0, running |-> FALSE, loopDone |-> 0, live |-> 0]
<1>1. /\ TypeOK /\ hs \in [Handlers -> HandlerState] /\ hs[h] \in HandlerState
      /\ co \in [ConnIds -> ConnState] /\ 0 \in 0..MaxLoops
      /\ conns \in [Upstreams -> 0..MaxConns]
  BY Types DEF Inv, TypeOK
<1>2. /\ hs[h].pc = "syncing" /\ conns[u] = 0 /\ nconns < MaxConns
      /\ nconns' = n /\ conns' = [conns EXCEPT ![u] = n] /\ co' = [co EXCEPT ![n] = new]
      /\ hs' = [hs EXCEPT ![h].work = @ \ {u}, ![h].pc = pc, ![h].up = u, ![h].prev = 0]
      /\ UNCHANGED <<cfg, updates, holder, stopping, lo, nloops, skipped>>
  BY DEF CreateConn
<1>3. /\ n \in ConnIds /\ n \in 0..MaxConns /\ n # 0 /\ nconns < n /\ nconns <= n
      /\ \A x \in 0..MaxConns : x <= nconns => x # n /\ x <= n
  BY <1>1, <1>2, Types DEF ConnIds
<1>4. /\ e \in Entries /\ e.enabled \in BOOLEAN
      /\ pc \in {"waiting", "syncing"} /\ (pc = "waiting" <=> start)
      /\ hs[h].work \ {u} \in SUBSET Upstreams
  BY <1>1, Types
<1>5. /\ new \in ConnState /\ new.up = u /\ new.entry = e /\ new.cur = 0 /\ ~new.running
      /\ new.loopDone = 0 /\ new.live = 0
  BY <1>1, <1>4 DEF ConnState
<1>6. start <=> e.enabled /\ e.url # NoUrl
  OBVIOUS
<1> HIDE DEF n, e, start, pc, new
<1>7. /\ co' \in [ConnIds -> ConnState] /\ co'[n] = new
      /\ \A x \in ConnIds : x # n => co'[x] = co[x]
      /\ conns' \in [Upstreams -> 0..MaxConns] /\ conns'[u] = n
      /\ \A v \in Upstreams : v # u => conns'[v] = conns[v]
  BY <1>1, <1>2, <1>3, <1>5
<1>8. \A v \in Upstreams : conns[v] # 0 =>
          /\ v # u /\ conns[v] \in ConnIds /\ conns[v] # n /\ conns[v] <= nconns
          /\ conns[v] <= n /\ co'[conns[v]] = co[conns[v]]
  BY <1>1, <1>2, <1>3, <1>7, OwnConn DEF Inv, Owned
<1>9. \A l \in LoopIds : l <= nloops =>
          /\ lo[l].conn \in ConnIds /\ lo[l].conn # n /\ lo[l].conn <= n
          /\ co'[lo[l].conn] = co[lo[l].conn]
  <2> SUFFICES ASSUME NEW l \in LoopIds, l <= nloops
               PROVE  /\ lo[l].conn \in ConnIds /\ lo[l].conn # n /\ lo[l].conn <= n
                      /\ co'[lo[l].conn] = co[lo[l].conn]
    OBVIOUS
  <2>1. lo[l].conn \in ConnIds /\ lo[l].conn <= nconns
    BY <1>1, Types DEF Inv, LoopInv, Started
  <2>2. lo[l].conn \in 0..MaxConns
    BY <2>1, <1>1, Types DEF ConnIds
  <2> QED
    BY <1>3, <1>7, <2>1, <2>2
<1>10. \A l \in LoopIds : Alive(l) => l <= nloops
  BY <1>1, Types DEF Inv, LoopInv, Started, Alive, LoopIds
<1>11. /\ hs' \in [Handlers -> HandlerState] /\ \A k \in Handlers : k # h => hs'[k] = hs[k]
       /\ hs'[h].pc = pc /\ hs'[h].up = u /\ hs'[h].prev = 0
  <2>1. hs'[h] = [hs[h] EXCEPT !.work = hs[h].work \ {u}, !.pc = pc, !.up = u, !.prev = 0]
    BY <1>1, <1>2
  <2>2. \A k \in Handlers : k # h => hs'[k] = hs[k]
    BY <1>1, <1>2
  <2>3. hs'[h] \in HandlerState
    BY <1>1, <1>4, <2>1 DEF HandlerState
  <2>4. hs' \in [Handlers -> HandlerState]
    BY <1>1, <1>2, <2>2, <2>3
  <2> QED
    BY <1>1, <2>1, <2>2, <2>4 DEF HandlerState
<1>12. \A k \in Handlers : k # h => hs[k].pc \notin {"syncing", "waiting"}
  BY <1>2, OthersWait
<1>13. TypeOK'
  BY <1>1, <1>2, <1>3, <1>7, <1>11 DEF TypeOK
<1>14. Mutex'
  BY <1>2, <1>4, <1>11, <1>12 DEF Inv, Mutex
<1>15. Owned'
  BY <1>2, <1>3, <1>5, <1>7, <1>8, OwnConn DEF Owned
<1>16. Started' /\ EndsCancelled'
  BY <1>2, <1>9 DEF Inv, LoopInv, Started, EndsCancelled
<1>17. OwnContext'
  BY <1>2, <1>5, <1>7 DEF Inv, LoopInv, OwnContext
<1>18. OwnLoopDone' /\ RunsALoop' /\ LiveIsRead'
  BY <1>2, <1>5, <1>7 DEF Inv, LoopInv, OwnLoopDone, RunsALoop, LiveIsRead, Alive
<1>19. OneLoop'
  BY <1>2, <1>9, <1>10 DEF Inv, LoopInv, OneLoop, Alive
<1>20. Feeds'
  <2> SUFFICES ASSUME NEW l \in LoopIds, Alive(l), ~lo[l].cancelled
               PROVE /\ co'[lo[l].conn].running /\ co'[lo[l].conn].cur = l
                     /\ conns'[co'[lo[l].conn].up] = lo[l].conn
    BY <1>2 DEF Feeds, Alive, UpOf
  <2>1. /\ co[lo[l].conn].running /\ co[lo[l].conn].cur = l /\ lo[l].conn \in ConnIds
        /\ conns[co[lo[l].conn].up] = lo[l].conn /\ co'[lo[l].conn] = co[lo[l].conn]
        /\ co[lo[l].conn].up \in Upstreams
    BY <1>1, <1>9, <1>10, Types DEF Inv, LoopInv, Feeds, UpOf
  <2>2. lo[l].conn # 0
    BY <2>1 DEF ConnIds
  <2> QED
    BY <1>7, <1>8, <2>1, <2>2
<1>21. StartsStopped'
  <2>1. \A k \in Handlers : hs'[k].pc = "waiting" => k = h /\ start
    BY <1>4, <1>11, <1>12
  <2>2. start => e.enabled
    BY <1>6
  <2> QED
    BY <1>3, <1>5, <1>7, <1>11, <2>1, <2>2 DEF StartsStopped
<1>22. Applied'
  <2> SUFFICES ASSUME NEW v \in Upstreams, conns'[v] # 0
               PROVE  /\ co'[conns'[v]].running => co'[conns'[v]].entry.enabled
                      /\ (/\ v \notin skipped' /\ co'[conns'[v]].entry.enabled
                          /\ co'[conns'[v]].entry.url # NoUrl) =>
                             \/ co'[conns'[v]].running
                             \/ \E k \in Handlers : hs'[k].pc = "waiting" /\ hs'[k].up = v
    BY DEF Applied
  <2>1. CASE v = u
    BY <1>4, <1>5, <1>6, <1>7, <1>11, <2>1
  <2>2. CASE v # u
    <3>1. conns'[v] = conns[v] /\ co'[conns[v]] = co[conns[v]] /\ conns[v] # 0
      BY <1>7, <1>8, <2>2
    <3>2. \A k \in Handlers : hs[k].pc # "waiting"
      BY <1>2, <1>12
    <3> QED
      BY <1>2, <3>1, <3>2 DEF Inv, Applied
  <2> QED
    BY <2>1, <2>2
<1> QED
  BY <1>13, <1>14, <1>15, <1>16, <1>17, <1>18, <1>19, <1>20, <1>21, <1>22 DEF Inv, LoopInv

\* A new loop: the Conn does not run and its previous loop has returned, so nothing
\* else reads for it.
LEMMA StartKeeps == ASSUME Inv, NEW h \in Handlers, StartLoop(h) PROVE Inv'
<1> DEFINE n == nloops + 1
           u == hs[h].up
           c == conns[u]
           new == [conn |-> c, cancelled |-> FALSE, frame |-> FALSE, url |-> NoUrl, pc |-> "top"]
<1>1. /\ TypeOK /\ hs \in [Handlers -> HandlerState] /\ hs[h] \in HandlerState
      /\ co \in [ConnIds -> ConnState] /\ 0 \in 0..MaxLoops /\ lo \in [LoopIds -> LoopState]
      /\ skipped \in SUBSET Upstreams
  BY Types DEF Inv, TypeOK
<1>2. /\ hs[h].pc = "waiting" /\ nloops < MaxLoops
      /\ hs[h].prev # 0 => lo[hs[h].prev].pc = "exited"
      /\ nloops' = n /\ lo' = [lo EXCEPT ![n] = new] /\ skipped' = skipped \ {u}
      /\ co' = [co EXCEPT ![c].cur = n, ![c].running = TRUE, ![c].loopDone = n]
      /\ hs' = [hs EXCEPT ![h].pc = "syncing", ![h].prev = 0]
      /\ UNCHANGED <<cfg, updates, holder, stopping, conns, nconns>>
  BY DEF StartLoop
<1>3. /\ n \in LoopIds /\ n \in 0..MaxLoops /\ n # 0 /\ n <= nloops'
      /\ \A x \in LoopIds : /\ x <= nloops => x # n /\ x <= n
                            /\ x <= n => x = n \/ x <= nloops
                            /\ x > n => x > nloops /\ x # n
                            /\ (x > nloops /\ x # n) => x > n
                            /\ (x > nloops \/ x <= nloops) /\ ~(x > n /\ x <= n)
      /\ ~(n > n) /\ n > nloops
  <2>1. n = nloops + 1 /\ nloops \in Nat /\ MaxLoops \in Nat /\ n <= MaxLoops /\ nloops' = n
    BY <1>1, <1>2, Types
  <2> HIDE DEF n
  <2> QED
    BY <2>1 DEF LoopIds
<1>4. u \in Upstreams /\ c # 0 /\ ~co[c].running /\ co[c].entry.enabled
  BY <1>1, <1>2, Types DEF Inv, StartsStopped
<1>5. /\ c \in ConnIds /\ c <= nconns /\ co[c].up = u /\ conns[u] = c
      /\ \A v \in Upstreams : v # u => conns[v] # c
  BY <1>4, OwnConn DEF Inv, Owned
<1>6. co[c].loopDone = 0 /\ co[c].live = 0
  <2>1. co[c].loopDone \in {0, hs[h].prev}
    BY <1>2 DEF Inv, StartsStopped
  <2>2. co[c].loopDone # 0 => lo[co[c].loopDone].pc # "exited"
    BY <1>5 DEF Inv, LoopInv, OwnLoopDone, Alive
  <2>3. co[c].live = 0
    BY <1>4, <1>5 DEF Inv, LoopInv, LiveIsRead
  <2> QED
    BY <1>2, <2>1, <2>2, <2>3
<1>7. /\ new \in LoopState /\ new.conn = c /\ ~new.cancelled /\ new.pc = "top"
  BY <1>5 DEF LoopState
<1> HIDE DEF n, u, c, new
<1>8. /\ co' \in [ConnIds -> ConnState] /\ \A x \in ConnIds : x # c => co'[x] = co[x]
      /\ co'[c].up = u /\ co'[c].entry = co[c].entry /\ co'[c].cur = n
      /\ co'[c].running /\ co'[c].loopDone = n /\ co'[c].live = 0
  <2>1. co[c] \in ConnState
    BY <1>1, <1>5
  <2> QED
    BY <1>1, <1>2, <1>3, <1>5, <1>6, <2>1 DEF ConnState
<1>9. /\ lo' \in [LoopIds -> LoopState] /\ lo'[n] = new
      /\ \A l \in LoopIds : l # n => lo'[l] = lo[l]
  BY <1>1, <1>2, <1>3, <1>7
<1>10. /\ hs' \in [Handlers -> HandlerState] /\ \A k \in Handlers : k # h => hs'[k] = hs[k]
       /\ hs'[h].pc = "syncing"
  BY <1>1, <1>2 DEF HandlerState
<1>11. \A k \in Handlers : k # h => hs[k].pc \notin {"syncing", "waiting"}
  BY <1>2, OthersWait
<1>12. \A l \in LoopIds : /\ lo[l].conn \in ConnIds
                          /\ Alive(l) => l # n /\ lo[l].conn # c /\ lo'[l] = lo[l]
                                         /\ co'[lo[l].conn] = co[lo[l].conn]
                          /\ l # n => ((Alive(l))' <=> Alive(l))
  <2> SUFFICES ASSUME NEW l \in LoopIds
               PROVE  /\ lo[l].conn \in ConnIds
                      /\ Alive(l) => l # n /\ lo[l].conn # c /\ lo'[l] = lo[l]
                                     /\ co'[lo[l].conn] = co[lo[l].conn]
                      /\ l # n => ((Alive(l))' <=> Alive(l))
    OBVIOUS
  <2>1. lo[l].conn \in ConnIds /\ l # 0
    BY <1>1, Types DEF LoopIds
  <2>2. Alive(l) => l # n
    BY <1>3 DEF Inv, LoopInv, Started, Alive
  <2>3. Alive(l) => lo[l].conn # c
    BY <1>6, <2>1 DEF Inv, LoopInv, OneLoop
  <2> QED
    BY <1>8, <1>9, <2>1, <2>2, <2>3 DEF Alive
<1>13. \A x \in ConnIds :
          /\ co[x].cur # 0 => co[x].cur \in LoopIds /\ co[x].cur <= nloops /\ co[x].cur # n
                              /\ co[x].cur <= n /\ lo'[co[x].cur] = lo[co[x].cur]
          /\ co[x].loopDone # 0 => co[x].loopDone \in LoopIds /\ Alive(co[x].loopDone)
                              /\ lo'[co[x].loopDone] = lo[co[x].loopDone]
          /\ co[x].live # 0 => co[x].live = co[x].cur /\ co[x].cur # 0
  <2> SUFFICES ASSUME NEW x \in ConnIds
               PROVE
          /\ co[x].cur # 0 => co[x].cur \in LoopIds /\ co[x].cur <= nloops /\ co[x].cur # n
                              /\ co[x].cur <= n /\ lo'[co[x].cur] = lo[co[x].cur]
          /\ co[x].loopDone # 0 => co[x].loopDone \in LoopIds /\ Alive(co[x].loopDone)
                              /\ lo'[co[x].loopDone] = lo[co[x].loopDone]
          /\ co[x].live # 0 => co[x].live = co[x].cur /\ co[x].cur # 0
    OBVIOUS
  <2>1. co[x].cur # 0 => co[x].cur \in LoopIds /\ co[x].cur <= nloops
    BY LoopRefs DEF Inv, LoopInv, OwnContext
  <2>2. co[x].cur # 0 => co[x].cur # n /\ co[x].cur <= n /\ lo'[co[x].cur] = lo[co[x].cur]
    BY <1>3, <1>9, <2>1
  <2>3. co[x].loopDone # 0 => co[x].loopDone \in LoopIds /\ Alive(co[x].loopDone)
                              /\ lo'[co[x].loopDone] = lo[co[x].loopDone]
    BY <1>12, LoopRefs DEF Inv, LoopInv, OwnLoopDone
  <2>4. co[x].live # 0 => co[x].live = co[x].cur /\ co[x].cur # 0
    BY DEF Inv, LoopInv, LiveIsRead
  <2> QED
    BY <2>1, <2>2, <2>3, <2>4
<1>14. TypeOK'
  BY <1>1, <1>2, <1>3, <1>8, <1>9, <1>10 DEF TypeOK
<1>15. Mutex'
  BY <1>2, <1>10, <1>11 DEF Inv, Mutex
<1>16. Owned'
  BY <1>2, <1>5, <1>8, OwnConn DEF Inv, Owned
<1>17. Started'
  <2> SUFFICES ASSUME NEW l \in LoopIds
               PROVE  /\ lo'[l].pc = "new" <=> l > n
                      /\ l <= n => lo'[l].conn <= nconns
    BY <1>2 DEF Started
  <2>1. CASE l = n
    BY <1>3, <1>5, <1>7, <1>9, <2>1
  <2>2. CASE l # n
    <3>1. (lo[l].pc = "new" <=> l > nloops) /\ (l <= nloops => lo[l].conn <= nconns)
      BY DEF Inv, LoopInv, Started
    <3> QED
      BY <1>3, <1>9, <2>2, <3>1
  <2> QED
    BY <2>1, <2>2
<1>18. OwnContext'
  BY <1>2, <1>3, <1>7, <1>8, <1>9, <1>13 DEF Inv, LoopInv, OwnContext
<1>19. OwnLoopDone'
  <2> SUFFICES ASSUME NEW x \in ConnIds, co'[x].loopDone # 0
               PROVE lo'[co'[x].loopDone].conn = x
                     /\ lo'[co'[x].loopDone].pc \notin {"new", "exited"}
    BY DEF OwnLoopDone, Alive
  <2>1. CASE x = c
    BY <1>7, <1>8, <1>9, <2>1
  <2>2. CASE x # c
    BY <1>8, <1>13, <2>2 DEF Inv, LoopInv, OwnLoopDone, Alive
  <2> QED
    BY <2>1, <2>2
<1>20. OneLoop' /\ EndsCancelled'
  <2>1. OneLoop'
    BY <1>7, <1>8, <1>9, <1>12 DEF Inv, LoopInv, OneLoop
  <2>2. EndsCancelled'
    BY <1>7, <1>9 DEF Inv, LoopInv, EndsCancelled
  <2> QED
    BY <2>1, <2>2
<1>21. Feeds'
  <2> SUFFICES ASSUME NEW l \in LoopIds, (Alive(l))', ~lo'[l].cancelled
               PROVE /\ co'[lo'[l].conn].running /\ co'[lo'[l].conn].cur = l
                     /\ conns[co'[lo'[l].conn].up] = lo'[l].conn
    BY <1>2 DEF Feeds, UpOf
  <2>1. CASE l = n
    BY <1>5, <1>7, <1>8, <1>9, <2>1
  <2>2. CASE l # n
    BY <1>9, <1>12, <2>2 DEF Inv, LoopInv, Feeds, UpOf
  <2> QED
    BY <2>1, <2>2
<1>22. RunsALoop' /\ LiveIsRead'
  <2>1. RunsALoop'
    BY <1>3, <1>7, <1>8, <1>9, <1>13 DEF Inv, LoopInv, RunsALoop
  <2>2. LiveIsRead'
    BY <1>8, <1>13 DEF Inv, LoopInv, LiveIsRead
  <2> QED
    BY <2>1, <2>2
<1>23. StartsStopped' /\ Applied'
  <2>1. \A k \in Handlers : hs'[k].pc # "waiting"
    BY <1>10, <1>11
  <2>2. Applied'
    <3> SUFFICES ASSUME NEW v \in Upstreams, conns[v] # 0
                 PROVE  /\ co'[conns[v]].running => co'[conns[v]].entry.enabled
                        /\ (/\ v \notin skipped' /\ co'[conns[v]].entry.enabled
                            /\ co'[conns[v]].entry.url # NoUrl) => co'[conns[v]].running
      BY <1>2 DEF Applied
    <3>1. CASE v = u
      BY <1>4, <1>5, <1>8, <3>1 DEF c, u
    <3>2. CASE v # u
      <4>1. co'[conns[v]] = co[conns[v]]
        BY <1>5, <1>8, <3>2, OwnConn
      <4>2. \A k \in Handlers : hs[k].pc = "waiting" => hs[k].up = u
        BY <1>11 DEF u
      <4> QED
        BY <1>2, <3>2, <4>1, <4>2 DEF Inv, Applied
    <3> QED
      BY <3>1, <3>2
  <2> QED
    BY <2>1, <2>2 DEF StartsStopped
<1> QED
  BY <1>14, <1>15, <1>16, <1>17, <1>18, <1>19, <1>20, <1>21, <1>22, <1>23 DEF Inv, LoopInv

-----------------------------------------------------------------------------
(* The invariant and what follows from it.                                   *)

LEMMA Starts == Init => Inv
<1> SUFFICES ASSUME Init PROVE Inv
  OBVIOUS
<1>1. /\ MaxConns \in Nat \ {0} /\ MaxLoops \in Nat /\ MaxUpdates \in Nat
      /\ Nobody \notin Handlers /\ (CHOOSE u \in Upstreams : TRUE) \in Upstreams
      /\ Absent \in Entries
  BY UpstreamAssumption DEF Entries
<1>2. /\ 0 \in 0..MaxLoops /\ 0 \in 0..MaxConns /\ 0 \in 0..MaxUpdates /\ 1 \in ConnIds
      /\ \A l \in LoopIds : l > 0 /\ ~(l <= 0)
  BY <1>1 DEF ConnIds, LoopIds
<1>3. /\ \A h \in Handlers : hs[h].pc = "idle"
      /\ \A c \in ConnIds : /\ co[c].cur = 0 /\ ~co[c].running
                            /\ co[c].loopDone = 0 /\ co[c].live = 0
      /\ \A l \in LoopIds : lo[l].pc = "new"
      /\ \A u \in Upstreams : conns[u] = 0
      /\ holder = Nobody /\ nloops = 0 /\ nconns = 0
  BY DEF Init
<1>4. TypeOK
  <2>1. cfg \in [Upstreams -> Entries]
    BY <1>1 DEF Init
  <2>2. hs \in [Handlers -> HandlerState]
    BY <1>1, <1>2, <2>1 DEF Init, HandlerState
  <2>3. co \in [ConnIds -> ConnState]
    BY <1>1, <1>2 DEF Init, ConnState
  <2>4. lo \in [LoopIds -> LoopState]
    BY <1>2 DEF Init, LoopState
  <2> QED
    BY <1>1, <1>2, <2>1, <2>2, <2>3, <2>4 DEF Init, TypeOK
<1>5. Mutex /\ Owned /\ StartsStopped /\ Applied
  BY <1>1, <1>3 DEF Mutex, Owned, StartsStopped, Applied
<1>6. LoopInv
  BY <1>2, <1>3 DEF LoopInv, Started, OwnContext, OwnLoopDone, OneLoop, Feeds, RunsALoop,
                    LiveIsRead, EndsCancelled, Alive
<1> QED
  BY <1>4, <1>5, <1>6 DEF Inv

LEMMA Keeps == Inv /\ [Next]_vars => Inv'
<1> SUFFICES ASSUME Inv, [Next]_vars PROVE Inv'
  OBVIOUS
<1>1. CASE UNCHANGED vars
  <2>1. UNCHANGED <<cfg, updates, hs, holder, stopping, conns, co, lo, nconns, nloops, skipped>>
    BY <1>1 DEF vars
  <2>2. TypeOK' /\ Mutex' /\ StartsStopped' /\ Applied'
    BY <2>1 DEF Inv, TypeOK, Mutex, StartsStopped, Applied
  <2> QED
    BY <2>1, <2>2, LoopsUntouched DEF Inv
<1>2. ASSUME NEW h \in Handlers, SyncStep(h) PROVE Inv'
  BY <1>2, RequestKeeps, RemoveKeeps, CreateKeeps, ReuseKeeps, StartKeeps, LeaveKeeps DEF SyncStep
<1>3. CASE \E h \in Handlers :
              \/ \E next \in [Upstreams -> Entries] : SaveConfig(h, next)
              \/ \E ids \in SUBSET Upstreams, enabled \in BOOLEAN : SetEnabled(h, ids, enabled)
  BY <1>3, RequestKeeps
<1>4. CASE StopAll
  BY <1>4, RemoveKeeps
<1>5. CASE \E l \in LoopIds : LoopStep(l)
  BY <1>5, LoopKeeps
<1> QED
  BY <1>1, <1>2, <1>3, <1>4, <1>5 DEF Next

LEMMA Correct == Spec => []Inv
  BY Starts, Keeps, PTL DEF Spec

\* wsclient.go keeps its state well formed: every Conn, loop and handler is in one of
\* its program points, with numbers that refer to Conns and loops.
THEOREM TypeCorrect == Spec => []TypeOK
<1>1. Inv => TypeOK
  BY DEF Inv
<1> QED
  BY <1>1, Correct, PTL

\* Start waits for the loop that was stopped (loopDone), so two loops of one Conn never
\* run at the same time, however Sync, Stop and the dials interleave.
THEOREM LoopsAreSingle == Spec => []OneLoopPerConn
<1>1. Inv => OneLoopPerConn
  BY Types DEF Inv, LoopInv, OneLoop, OneLoopPerConn
<1> QED
  BY <1>1, Correct, PTL

\* Of the loops of one upstream, those of the Conns it had earlier included, at most
\* one has not been cancelled: a signal is never taken twice.
THEOREM FeedsAreSingle == Spec => []OneFeedPerUpstream
<1>1. Inv => OneFeedPerUpstream
  BY Types DEF Inv, LoopInv, Feeds, OneFeedPerUpstream
<1> QED
  BY <1>1, Correct, PTL

\* The check under the lock after a dial (c.ctx, c.running) keeps a connection that
\* Stop overtook from being published.
THEOREM NoConnectionOutlivesStop == Spec => []NoZombie
<1>1. Inv => NoZombie
  BY DEF Inv, LoopInv, LiveIsRead, RunsALoop, NoZombie
<1> QED
  BY <1>1, Correct, PTL

\* When all requests have been answered, Sync has left every Conn running or stopped as
\* its entry says, but for an upstream whose Start gave up waiting.
THEOREM SyncIsApplied == Spec => []SyncApplied
<1>1. Inv => SyncApplied
  BY DEF Inv, Applied, SyncApplied, Idle
<1> QED
  BY <1>1, Correct, PTL
=============================================================================
