------------------------------ MODULE LogStream ------------------------------
(* The log of internal/logs/logs.go, a ring of the newest entries with       *)
(* listeners, and its readers, handleLogsStream in cmd/server/main.go: each  *)
(* subscribes, replays the ring and then forwards what its channel receives. *)
(* An entry is the number of its call; stdout and order.log are left out.    *)
EXTENDS Naturals, Sequences

CONSTANTS
    Streams,     \* panels with the log pane open
    MaxEntries,  \* Logger.max
    Buffer,      \* capacity of a listener's channel
    MaxLogs      \* bound: entries

ASSUME LogAssumption == MaxEntries \in Nat \ {0} /\ Buffer \in Nat \ {0} /\ MaxLogs \in Nat

VARIABLES
    entries,   \* Logger.entries
    nlogs,
    listening, \* Logger.listeners, by stream
    chan,      \* per stream: its channel
    pc,        \* per stream: closed, subscribed, live
    written,   \* per stream: what has been written to the panel
    since,     \* history, per stream: the first entry it should show
    dropped    \* history, per stream: an entry found its channel full

logvars == <<entries, nlogs, listening, chan, pc, written, since, dropped>>

LogTypeOK ==
    /\ entries \in Seq(1..MaxLogs) /\ Len(entries) <= MaxEntries
    /\ nlogs \in 0..MaxLogs
    /\ listening \subseteq Streams
    /\ \A s \in Streams :
          /\ chan[s] \in Seq(1..MaxLogs) /\ Len(chan[s]) <= Buffer
          /\ pc[s] \in {"closed", "subscribed", "live"}
          /\ written[s] \in Seq(1..MaxLogs)
          /\ since[s] \in Nat /\ dropped[s] \in BOOLEAN

LogInit ==
    /\ entries = <<>> /\ nlogs = 0
    /\ listening = {}
    /\ chan = [s \in Streams |-> <<>>]
    /\ pc = [s \in Streams |-> "closed"]
    /\ written = [s \in Streams |-> <<>>]
    /\ since = [s \in Streams |-> 0]
    /\ dropped = [s \in Streams |-> FALSE]

-----------------------------------------------------------------------------

\* The ring keeps the newest entries.
Push(e) == IF Len(entries) >= MaxEntries THEN Append(Tail(entries), e) ELSE Append(entries, e)

HasRoom(s) == Len(chan[s]) < Buffer

\* Mutant of Log: a full channel ends the loop over the listeners.
LogStopsAtFull ==
    LET e == nlogs + 1
        full == \E s \in listening : ~HasRoom(s)
    IN  /\ nlogs < MaxLogs
        /\ nlogs' = e
        /\ entries' = Push(e)
        /\ chan' = [s \in Streams |->
                      IF s \in listening /\ ~full THEN Append(chan[s], e) ELSE chan[s]]
        /\ dropped' = [s \in Streams |-> dropped[s] \/ (s \in listening /\ ~HasRoom(s))]
        /\ UNCHANGED <<listening, pc, written, since>>

\* log: one critical section; a full channel misses the entry.
Log ==
    LET e == nlogs + 1 IN
    /\ nlogs < MaxLogs
    /\ nlogs' = e
    /\ entries' = Push(e)
    /\ chan' = [s \in Streams |->
                  IF s \in listening /\ HasRoom(s) THEN Append(chan[s], e) ELSE chan[s]]
    /\ dropped' = [s \in Streams |-> dropped[s] \/ (s \in listening /\ ~HasRoom(s))]
    /\ UNCHANGED <<listening, pc, written, since>>

\* AddListener.
Subscribe(s) ==
    /\ pc[s] = "closed"
    /\ pc' = [pc EXCEPT ![s] = "subscribed"]
    /\ listening' = listening \cup {s}
    /\ UNCHANGED <<entries, nlogs, chan, written, since, dropped>>

\* Entries, replayed to the panel.
Replay(s) ==
    /\ pc[s] = "subscribed"
    /\ pc' = [pc EXCEPT ![s] = "live"]
    /\ written' = [written EXCEPT ![s] = entries]
    /\ since' = [since EXCEPT ![s] = IF entries = <<>> THEN nlogs + 1 ELSE Head(entries)]
    /\ UNCHANGED <<entries, nlogs, listening, chan, dropped>>

\* Mutant of Forward: takes the entry and writes nothing.
ForwardNothing(s) ==
    /\ pc[s] = "live" /\ chan[s] # <<>>
    /\ chan' = [chan EXCEPT ![s] = Tail(@)]
    /\ UNCHANGED <<entries, nlogs, listening, pc, written, since, dropped>>

Forward(s) ==
    /\ pc[s] = "live" /\ chan[s] # <<>>
    /\ written' = [written EXCEPT ![s] = Append(@, Head(chan[s]))]
    /\ chan' = [chan EXCEPT ![s] = Tail(@)]
    /\ UNCHANGED <<entries, nlogs, listening, pc, since, dropped>>

\* The panel goes away: cancel drops the channel, a new stream has a new one.
Leave(s) ==
    /\ pc[s] = "live"
    /\ pc' = [pc EXCEPT ![s] = "closed"]
    /\ listening' = listening \ {s}
    /\ chan' = [chan EXCEPT ![s] = <<>>]
    /\ written' = [written EXCEPT ![s] = <<>>]
    /\ since' = [since EXCEPT ![s] = 0]
    /\ dropped' = [dropped EXCEPT ![s] = FALSE]
    /\ UNCHANGED <<entries, nlogs>>

LogNext == Log \/ \E s \in Streams : Subscribe(s) \/ Replay(s) \/ Forward(s) \/ Leave(s)

LogSpec == LogInit /\ [][LogNext]_logvars

\* A stream's goroutine replays and forwards as long as its panel is there.
LogFairSpec == LogSpec /\ \A s \in Streams : WF_logvars(Replay(s)) /\ WF_logvars(Forward(s))

-----------------------------------------------------------------------------
(* Properties.                                                               *)

Shown(s) == {written[s][i] : i \in DOMAIN written[s]}
Waiting(s) == {chan[s][i] : i \in DOMAIN chan[s]}

\* "an entry logged during the replay cannot fall into the gap between snapshot
\* and subscription": everything since the oldest replayed entry has been shown
\* or is on its way, unless the panel fell a whole buffer behind.
NoGap ==
    \A s \in Streams : (pc[s] = "live" /\ ~dropped[s])
        => since[s]..nlogs \subseteq Shown(s) \cup Waiting(s)

\* What a panel that stays shows: no entry that it was to be sent is lost later.
EveryEntryShown ==
    \A s \in Streams, e \in 1..MaxLogs :
        (pc[s] = "live" /\ e \in Waiting(s)) ~> (e \in Shown(s) \/ pc[s] = "closed")
=============================================================================
