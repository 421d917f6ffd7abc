---------------------------- MODULE UpstreamConn ----------------------------
(* internal/wsclient/wsclient.go: the manager that keeps one client          *)
(* connection per configured upstream, the loop goroutine of each            *)
(* connection, and the HTTP handlers of cmd/server/main.go that change the   *)
(* configuration and call Sync.  The upstream servers are external: a dial   *)
(* may fail, a connection may drop, a frame may arrive at any time.          *)
EXTENDS Integers

CONSTANTS
    Upstreams,    \* upstream ids
    Handlers,     \* HTTP requests that may run at the same time
    Urls,         \* configured addresses (URL and key)
    MaxUpdates,   \* bound: configuration changes
    MaxConns,     \* bound: Conn objects created
    MaxLoops      \* bound: loop goroutines started

NoUrl == "none"
Absent == [enabled |-> FALSE, url |-> "absent"]

\* What the configuration says of an upstream.
Entries == {Absent} \cup [enabled : BOOLEAN, url : Urls \cup {NoUrl}]

ConnIds == 1..MaxConns
LoopIds == 1..MaxLoops

Nobody == "nobody"

ASSUME UpstreamAssumption ==
    /\ MaxUpdates \in Nat /\ MaxConns \in Nat \ {0} /\ MaxLoops \in Nat
    /\ Urls \subseteq STRING /\ NoUrl \notin Urls /\ Absent.url \notin Urls
    /\ Upstreams # {} /\ Nobody \notin Handlers

VARIABLES
    cfg,        \* the live configuration
    updates,    \* configuration changes so far
    hs,         \* handlers: program point, configuration read, upstreams left,
                \*   upstream being started, the loop Start waits for
    holder,     \* Manager.mu: the handler that holds it, or nobody
    stopping,   \* StopAll has run: the server is shutting down
    conns,      \* Manager.conns: the Conn of an upstream, 0 for none
    co,         \* Conn objects
    lo,         \* loop goroutines, each with a context of its own
    nconns, nloops,
    skipped     \* upstreams whose last Start gave up waiting

vars == <<cfg, updates, hs, holder, stopping, conns, co, lo, nconns, nloops, skipped>>
loopless == <<cfg, updates, hs, holder, stopping, conns, nconns, nloops, skipped>>

HandlerState == [pc : {"idle", "updated", "loaded", "syncing", "waiting"},
                 seen : [Upstreams -> Entries], work : SUBSET Upstreams,
                 up : Upstreams, prev : 0..MaxLoops]
\* cur: the loop that c.ctx belongs to; live: the loop whose connection is c.conn.
ConnState == [up : Upstreams, entry : Entries, cur : 0..MaxLoops,
              running : BOOLEAN, loopDone : 0..MaxLoops, live : 0..MaxLoops]
LoopState == [conn : ConnIds, cancelled : BOOLEAN, frame : BOOLEAN,
              url : Urls \cup {NoUrl, Absent.url},
              pc : {"new", "top", "dial", "dialed", "read", "handling", "sleep",
                    "ending", "exited"}]

TypeOK ==
    /\ cfg \in [Upstreams -> Entries]
    /\ updates \in 0..MaxUpdates
    /\ hs \in [Handlers -> HandlerState]
    /\ holder \in Handlers \cup {Nobody}
    /\ stopping \in BOOLEAN
    /\ conns \in [Upstreams -> 0..MaxConns]
    /\ co \in [ConnIds -> ConnState]
    /\ lo \in [LoopIds -> LoopState]
    /\ nconns \in 0..MaxConns /\ nloops \in 0..MaxLoops
    /\ skipped \subseteq Upstreams

Init ==
    /\ cfg = [u \in Upstreams |-> Absent] /\ updates = 0
    /\ hs = [h \in Handlers |-> [pc |-> "idle", seen |-> cfg, work |-> {},
                                 up |-> CHOOSE u \in Upstreams : TRUE, prev |-> 0]]
    /\ holder = Nobody /\ stopping = FALSE
    /\ conns = [u \in Upstreams |-> 0]
    /\ co = [c \in ConnIds |-> [up |-> CHOOSE u \in Upstreams : TRUE, entry |-> Absent,
                                cur |-> 0, running |-> FALSE, loopDone |-> 0, live |-> 0]]
    /\ lo = [l \in LoopIds |-> [conn |-> 1, cancelled |-> FALSE, frame |-> FALSE,
                                url |-> NoUrl, pc |-> "new"]]
    /\ nconns = 0 /\ nloops = 0 /\ skipped = {}

-----------------------------------------------------------------------------
(* Conn.Stop: cancel the context, close and forget the connection.           *)

StoppedConns(S) == [c \in ConnIds |->
    IF c \in S THEN [co[c] EXCEPT !.live = 0, !.running = FALSE] ELSE co[c]]

StoppedLoops(S) == [l \in LoopIds |->
    IF \E c \in S : co[c].cur = l THEN [lo[l] EXCEPT !.cancelled = TRUE] ELSE lo[l]]

-----------------------------------------------------------------------------
(* The handlers.                                                             *)

\* POST /api/config replaces the upstream list.
SaveConfig(h, next) ==
    /\ hs[h].pc = "idle" /\ updates < MaxUpdates
    /\ cfg' = next
    /\ updates' = updates + 1
    /\ hs' = [hs EXCEPT ![h].pc = "updated"]
    /\ UNCHANGED <<holder, stopping, conns, co, lo, nconns, nloops, skipped>>

\* setUpstreamsEnabled: one upstream, or all of them; absent ones are not found.
SetEnabled(h, ids, enabled) ==
    /\ hs[h].pc = "idle" /\ updates < MaxUpdates
    /\ \E u \in ids : cfg[u] # Absent
    /\ cfg' = [u \in Upstreams |-> IF u \in ids /\ cfg[u] # Absent
                                   THEN [cfg[u] EXCEPT !.enabled = enabled]
                                   ELSE cfg[u]]
    /\ updates' = updates + 1
    /\ hs' = [hs EXCEPT ![h].pc = "updated"]
    /\ UNCHANGED <<holder, stopping, conns, co, lo, nconns, nloops, skipped>>

\* Sync reads the configuration before it takes Manager.mu.
ReadConfig(h) ==
    /\ hs[h].pc = "updated"
    /\ hs' = [hs EXCEPT ![h].pc = "loaded", ![h].seen = cfg]
    /\ UNCHANGED <<cfg, updates, holder, stopping, conns, co, lo, nconns, nloops, skipped>>

\* Mutant of RemoveUnwanted: forgets a connection without stopping it.
RemoveWithoutStop(h) ==
    LET gone == {u \in Upstreams : conns[u] # 0 /\ hs[h].seen[u] = Absent}
    IN  /\ hs[h].pc = "loaded" /\ holder = Nobody
        /\ holder' = h
        /\ conns' = [u \in Upstreams |-> IF u \in gone THEN 0 ELSE conns[u]]
        /\ hs' = [hs EXCEPT ![h].pc = "syncing",
                            ![h].work = {u \in Upstreams : hs[h].seen[u] # Absent}]
        /\ UNCHANGED <<cfg, updates, stopping, co, lo, nconns, nloops, skipped>>

\* Under the mutex: stop and forget the connections that are no longer wanted.
RemoveUnwanted(h) ==
    LET gone == {u \in Upstreams : conns[u] # 0 /\ hs[h].seen[u] = Absent}
        old == {conns[u] : u \in gone}
    IN  /\ hs[h].pc = "loaded" /\ holder = Nobody
        /\ holder' = h
        /\ co' = StoppedConns(old) /\ lo' = StoppedLoops(old)
        /\ conns' = [u \in Upstreams |-> IF u \in gone THEN 0 ELSE conns[u]]
        /\ hs' = [hs EXCEPT ![h].pc = "syncing",
                            ![h].work = {u \in Upstreams : hs[h].seen[u] # Absent}]
        /\ UNCHANGED <<cfg, updates, stopping, nconns, nloops, skipped>>

\* An upstream with no Conn yet gets one, started only with a URL.
CreateConn(h, u) ==
    LET e == hs[h].seen[u] IN
    /\ hs[h].pc = "syncing" /\ u \in hs[h].work /\ conns[u] = 0
    /\ nconns < MaxConns
    /\ nconns' = nconns + 1
    /\ conns' = [conns EXCEPT ![u] = nconns']
    /\ co' = [co EXCEPT ![nconns'] = [up |-> u, entry |-> e, cur |-> 0,
                                      running |-> FALSE, loopDone |-> 0, live |-> 0]]
    /\ hs' = [hs EXCEPT ![h].work = @ \ {u},
                        ![h].pc = IF e.enabled /\ e.url # NoUrl THEN "waiting" ELSE "syncing",
                        ![h].up = u, ![h].prev = 0]
    /\ UNCHANGED <<cfg, updates, holder, stopping, lo, nloops, skipped>>

\* Mutant of ReuseConn: a disabled upstream is not stopped.
ReuseDisabled(h, u) ==
    LET c == conns[u]
        e == hs[h].seen[u]
        changed == co[c].entry.url # e.url
        stop == {x \in {c} : changed}
        start == e.enabled /\ (changed \/ ~co[c].running)
    IN  /\ hs[h].pc = "syncing" /\ u \in hs[h].work /\ c # 0
        /\ co' = [StoppedConns(stop) EXCEPT ![c].entry = e]
        /\ lo' = StoppedLoops(stop)
        /\ hs' = [hs EXCEPT ![h].work = @ \ {u},
                            ![h].pc = IF start THEN "waiting" ELSE "syncing",
                            ![h].up = u, ![h].prev = co[c].loopDone]
        /\ UNCHANGED <<cfg, updates, holder, stopping, conns, nconns, nloops, skipped>>

\* An existing Conn takes over the entry, stops if it changed or is disabled,
\* and goes on to Start when it is enabled and not running.
ReuseConn(h, u) ==
    LET c == conns[u]
        e == hs[h].seen[u]
        changed == co[c].entry.url # e.url
        stop == {x \in {c} : changed \/ (~e.enabled /\ co[c].running)}
        start == e.enabled /\ (changed \/ ~co[c].running)
    IN  /\ hs[h].pc = "syncing" /\ u \in hs[h].work /\ c # 0
        /\ co' = [StoppedConns(stop) EXCEPT ![c].entry = e]
        /\ lo' = StoppedLoops(stop)
        /\ hs' = [hs EXCEPT ![h].work = @ \ {u},
                            ![h].pc = IF start THEN "waiting" ELSE "syncing",
                            ![h].up = u, ![h].prev = co[c].loopDone]
        /\ UNCHANGED <<cfg, updates, holder, stopping, conns, nconns, nloops, skipped>>

\* Mutant of StartLoop: does not wait for the previous loop.
StartLoopAtOnce(h) ==
    LET u == hs[h].up
        c == conns[u]
    IN  /\ hs[h].pc = "waiting"
        /\ nloops < MaxLoops
        /\ nloops' = nloops + 1
        /\ co' = [co EXCEPT ![c].cur = nloops', ![c].running = TRUE,
                            ![c].loopDone = nloops']
        /\ lo' = [lo EXCEPT ![nloops'] = [conn |-> c, cancelled |-> FALSE,
                                          frame |-> FALSE, url |-> NoUrl, pc |-> "top"]]
        /\ hs' = [hs EXCEPT ![h].pc = "syncing", ![h].prev = 0]
        /\ skipped' = skipped \ {u}
        /\ UNCHANGED <<cfg, updates, holder, stopping, conns, nconns>>

\* Start, once the previous loop has returned: a new context and a new loop.
StartLoop(h) ==
    LET u == hs[h].up
        c == conns[u]
    IN  /\ hs[h].pc = "waiting"
        /\ hs[h].prev # 0 => lo[hs[h].prev].pc = "exited"
        /\ nloops < MaxLoops
        /\ nloops' = nloops + 1
        /\ co' = [co EXCEPT ![c].cur = nloops', ![c].running = TRUE,
                            ![c].loopDone = nloops']
        /\ lo' = [lo EXCEPT ![nloops'] = [conn |-> c, cancelled |-> FALSE,
                                          frame |-> FALSE, url |-> NoUrl, pc |-> "top"]]
        /\ hs' = [hs EXCEPT ![h].pc = "syncing", ![h].prev = 0]
        /\ skipped' = skipped \ {u}
        /\ UNCHANGED <<cfg, updates, holder, stopping, conns, nconns>>

\* Start gives up after loopStopWait: "start skipped".
SkipStart(h) ==
    /\ hs[h].pc = "waiting" /\ hs[h].prev # 0 /\ lo[hs[h].prev].pc # "exited"
    /\ hs' = [hs EXCEPT ![h].pc = "syncing", ![h].prev = 0]
    /\ skipped' = skipped \cup {hs[h].up}
    /\ UNCHANGED <<cfg, updates, holder, stopping, conns, co, lo, nconns, nloops>>

EndSync(h) ==
    /\ hs[h].pc = "syncing" /\ hs[h].work = {}
    /\ holder' = Nobody
    /\ hs' = [hs EXCEPT ![h].pc = "idle"]
    /\ UNCHANGED <<cfg, updates, stopping, conns, co, lo, nconns, nloops, skipped>>

\* Shutdown: main calls StopAll while HTTP requests are still being served.
StopAll ==
    LET all == {conns[u] : u \in {x \in Upstreams : conns[x] # 0}} IN
    /\ ~stopping /\ holder = Nobody
    /\ stopping' = TRUE
    /\ co' = StoppedConns(all) /\ lo' = StoppedLoops(all)
    /\ conns' = [u \in Upstreams |-> 0]
    /\ UNCHANGED <<cfg, updates, hs, holder, nconns, nloops, skipped>>

-----------------------------------------------------------------------------
(* Conn.loop.                                                                *)

Goto(l, from, to) == lo[l].pc = from /\ lo' = [lo EXCEPT ![l].pc = to]

\* Top of the loop: leave if cancelled, idle without a URL, else dial.
LoopTop(l) ==
    LET url == co[lo[l].conn].entry.url IN
    /\ lo[l].pc = "top"
    /\ lo' = [lo EXCEPT ![l].url = url,
                        ![l].pc = CASE lo[l].cancelled -> "ending"
                                    [] ~lo[l].cancelled /\ url = NoUrl -> "sleep"
                                    [] OTHER -> "dial"]
    /\ UNCHANGED co /\ UNCHANGED loopless

\* A cancelled dial fails, unless the handshake was already over.
DialOk(l) == Goto(l, "dial", "dialed") /\ UNCHANGED co /\ UNCHANGED loopless
DialFails(l) == Goto(l, "dial", "sleep") /\ UNCHANGED co /\ UNCHANGED loopless

\* Mutant of MayGoLive: publishes a dial that Stop overtook.
AlwaysGoLive(l) == TRUE

\* The check under the lock before a connection goes live.
MayGoLive(l) ==
    LET c == lo[l].conn IN
    /\ ~lo[l].cancelled
    /\ co[c].running
    /\ co[c].cur = l

GoLive(l) ==
    /\ MayGoLive(l)
    /\ Goto(l, "dialed", "read")
    /\ co' = [co EXCEPT ![lo[l].conn].live = l]
    /\ UNCHANGED loopless

DropDialed(l) ==
    /\ ~MayGoLive(l)
    /\ Goto(l, "dialed", "ending")
    /\ UNCHANGED co /\ UNCHANGED loopless

\* A frame reaches the client while the connection is open.  Closing the
\* connection does not take back what was already read into the buffer.
Receive(l) ==
    /\ lo[l].pc \in {"read", "handling"} /\ ~lo[l].cancelled /\ ~lo[l].frame
    /\ lo' = [lo EXCEPT ![l].frame = TRUE]
    /\ UNCHANGED co /\ UNCHANGED loopless

\* readLoop takes the frame and calls processor.Handle.
Handle(l) ==
    /\ lo[l].pc = "read" /\ lo[l].frame
    /\ lo' = [lo EXCEPT ![l].pc = "handling", ![l].frame = FALSE]
    /\ UNCHANGED co /\ UNCHANGED loopless

HandleDone(l) == Goto(l, "handling", "read") /\ UNCHANGED co /\ UNCHANGED loopless

\* Mutant of ReadEnds: a dropped connection ends the loop.
ReadEndsLoop(l) ==
    LET c == lo[l].conn IN
    /\ lo[l].pc = "read"
    /\ lo' = [lo EXCEPT ![l].pc = "ending", ![l].frame = FALSE]
    /\ co' = [co EXCEPT ![c].live = IF co[c].live = l THEN 0 ELSE co[c].live]
    /\ UNCHANGED loopless

\* The read fails, because of Stop, the deadline or the peer, and a frame not
\* yet read is lost: forget the connection if it is still ours, then back off.
ReadEnds(l) ==
    LET c == lo[l].conn IN
    /\ lo[l].pc = "read"
    /\ lo' = [lo EXCEPT ![l].pc = "sleep", ![l].frame = FALSE]
    /\ co' = [co EXCEPT ![c].live = IF co[c].live = l THEN 0 ELSE co[c].live]
    /\ UNCHANGED loopless

Wake(l) == Goto(l, "sleep", "top") /\ UNCHANGED co /\ UNCHANGED loopless

\* The deferred function of the loop.
LoopExit(l) ==
    LET c == lo[l].conn IN
    /\ Goto(l, "ending", "exited")
    /\ co' = IF co[c].loopDone = l
             THEN [co EXCEPT ![c].loopDone = 0, ![c].running = FALSE]
             ELSE co
    /\ UNCHANGED loopless

LoopStep(l) ==
    \/ LoopTop(l) \/ DialOk(l) \/ DialFails(l) \/ GoLive(l) \/ DropDialed(l)
    \/ Receive(l) \/ Handle(l) \/ HandleDone(l) \/ ReadEnds(l) \/ Wake(l)
    \/ LoopExit(l)

SyncStep(h) ==
    \/ ReadConfig(h) \/ RemoveUnwanted(h)
    \/ \E u \in Upstreams : CreateConn(h, u) \/ ReuseConn(h, u)
    \/ StartLoop(h) \/ SkipStart(h) \/ EndSync(h)

Next ==
    \/ \E h \in Handlers :
          \/ \E next \in [Upstreams -> Entries] : SaveConfig(h, next)
          \/ \E ids \in SUBSET Upstreams, enabled \in BOOLEAN : SetEnabled(h, ids, enabled)
          \/ SyncStep(h)
    \/ StopAll
    \/ \E l \in LoopIds : LoopStep(l)

Spec == Init /\ [][Next]_vars

\* Goroutines are scheduled, the server answers a dial now and then, and a
\* context that is cancelled ends dials, sleeps and reads.
Fairness ==
    /\ \A h \in Handlers : WF_vars(SyncStep(h))
    /\ \A l \in LoopIds :
          /\ WF_vars(LoopTop(l)) /\ WF_vars(Wake(l)) /\ WF_vars(LoopExit(l))
          /\ WF_vars(GoLive(l)) /\ WF_vars(DropDialed(l))
          /\ WF_vars(DialOk(l) \/ DialFails(l)) /\ SF_vars(DialOk(l))
          /\ WF_vars(Handle(l)) /\ WF_vars(HandleDone(l))
          /\ WF_vars(lo[l].cancelled /\ ReadEnds(l))

FairSpec == Spec /\ Fairness

-----------------------------------------------------------------------------
(* Properties.                                                               *)

Alive(l) == lo[l].pc \notin {"new", "exited"}
UpOf(l) == co[lo[l].conn].up
Idle == \A h \in Handlers : hs[h].pc = "idle"

\* Two loops of one Conn never run at the same time, whatever Sync, Stop and
\* Start do while an old loop is still dialling or handling a signal.
OneLoopPerConn ==
    \A l, m \in LoopIds : (Alive(l) /\ Alive(m) /\ lo[l].conn = lo[m].conn) => l = m

\* Two connections of one upstream never both feed signals: all but one of its
\* loops have been cancelled.
OneFeedPerUpstream ==
    \A l, m \in LoopIds :
        (/\ Alive(l) /\ Alive(m) /\ UpOf(l) = UpOf(m)
         /\ ~lo[l].cancelled /\ ~lo[m].cancelled) => l = m

\* A connection is live only for the loop whose context is in force: a dial
\* that Stop overtook is never published.
NoZombie ==
    \A c \in ConnIds : co[c].live # 0 =>
        /\ co[c].running
        /\ co[c].cur = co[c].live
        /\ ~lo[co[c].live].cancelled

\* "disconnect" disconnects: when every request has been answered, nothing runs
\* that the configuration does not enable.
DisconnectDisconnects ==
    (Idle /\ ~stopping) =>
        \A u \in Upstreams : (conns[u] # 0 /\ co[conns[u]].running) => cfg[u].enabled

\* When every request has been answered, a connection runs exactly as the entry
\* that it was last given says, save the upstreams whose Start gave up.
SyncApplied ==
    (Idle /\ ~stopping) =>
        \A u \in Upstreams : conns[u] # 0 =>
            LET c == co[conns[u]] IN
            /\ c.running => c.entry.enabled
            /\ (u \notin skipped /\ c.entry.enabled /\ c.entry.url # NoUrl) => c.running

\* An upstream that stays enabled is connected again and again, however often
\* dials fail and connections drop, unless its Start gave up.
Wanted(u) ==
    /\ conns[u] # 0 /\ u \notin skipped
    /\ co[conns[u]].entry.enabled /\ co[conns[u]].entry.url # NoUrl
KeepsConnecting ==
    \A u \in Upstreams :
        <>[](Idle /\ Wanted(u)) => []<>(conns[u] # 0 /\ co[conns[u]].live # 0)
=============================================================================
