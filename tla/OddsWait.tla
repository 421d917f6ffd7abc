------------------------------ MODULE OddsWait ------------------------------
(* placeOrderWithOdds of internal/signals/processor.go over the realtime     *)
(* odds service: an order of a TurboFlow account waits until the cached odds *)
(* reach the account's minimum, a 50 s timer fires or its context ends.      *)
EXTENDS TFRealtime

CONSTANTS
    Waiters,      \* orders waiting at the same time
    Minimums      \* minOdds an account may have; 0: not configured

ASSUME WaitAssumption == Minimums \subseteq Nat /\ Minimums # {}

VARIABLES
    w,            \* per order: program point, minimum odds, subscribed channel,
                  \*   timer fired, context ended
    placed        \* history: calls of PlaceOrder, per order

wvars == <<w, placed>>
vars == <<tfvars, wvars>>

WaitState == [pc : {"new", "first", "subscribe", "check", "select", "placed", "failed"},
              min : Minimums, channel : 0..MaxPushes, fired : BOOLEAN, ended : BOOLEAN]

TypeOK ==
    /\ TFTypeOK
    /\ w \in [Waiters -> WaitState]
    /\ placed \in [Waiters -> Nat]

Init ==
    /\ TFInit
    /\ w \in [Waiters -> [pc : {"new"}, min : Minimums, channel : {0},
                          fired : {FALSE}, ended : {FALSE}]]
    /\ placed = [x \in Waiters |-> 0]

\* currentDirectionOdds: whatever the cache holds, connected or not.
Reached(x) == odds >= w[x].min

Move(x, from, to) ==
    /\ w[x].pc = from
    /\ w' = [w EXCEPT ![x].pc = to]

PlaceFrom(x, from) ==
    /\ Move(x, from, "placed")
    /\ placed' = [placed EXCEPT ![x] = @ + 1]

-----------------------------------------------------------------------------

\* A signal dispatches the order.
Dispatch(x) == Move(x, "new", "first") /\ UNCHANGED <<tfvars, placed>>

\* No minimum configured: straight to PlaceOrder.
PlaceUnconditionally(x) ==
    /\ w[x].min = 0
    /\ PlaceFrom(x, "first")
    /\ UNCHANGED tfvars

PlaceAtOnce(x) ==
    /\ w[x].min > 0 /\ Reached(x)
    /\ PlaceFrom(x, "first")
    /\ UNCHANGED tfvars

BeginWait(x) ==
    /\ w[x].min > 0 /\ ~Reached(x)
    /\ Move(x, "first", "subscribe")
    /\ UNCHANGED <<tfvars, placed>>

\* Updates(): the channel is taken before the odds are read.
SubscribeUpdates(x) ==
    /\ w[x].pc = "subscribe"
    /\ w' = [w EXCEPT ![x].pc = "check", ![x].channel = revision]
    /\ UNCHANGED <<tfvars, placed>>

PlaceOnOdds(x) ==
    /\ Reached(x)
    /\ PlaceFrom(x, "check")
    /\ UNCHANGED tfvars

\* The odds just read are too low: block in the select.
Block(x) ==
    /\ ~Reached(x)
    /\ Move(x, "check", "select")
    /\ UNCHANGED <<tfvars, placed>>

\* The select.  Any of its ready cases may be chosen.
WakeUp(x) ==
    /\ w[x].channel # revision
    /\ Move(x, "select", "subscribe")
    /\ UNCHANGED <<tfvars, placed>>

\* Mutant of PlaceOnTimeout: goes on waiting after placing.
TimeoutPlacesAgain(x) ==
    /\ w[x].fired /\ w[x].pc = "select" /\ placed[x] = 0
    /\ placed' = [placed EXCEPT ![x] = @ + 1]
    /\ UNCHANGED <<tfvars, w>>

\* Mutant of PlaceOnTimeout: no fallback when the odds are too low.
TimeoutOnlyOnOdds(x) ==
    /\ w[x].fired /\ Reached(x)
    /\ PlaceFrom(x, "select")
    /\ UNCHANGED tfvars

PlaceOnTimeout(x) ==
    /\ w[x].fired
    /\ PlaceFrom(x, "select")
    /\ UNCHANGED tfvars

GiveUp(x) ==
    /\ w[x].ended
    /\ Move(x, "select", "failed")
    /\ UNCHANGED <<tfvars, placed>>

\* Time: the 50 s timer fires, and the context of the order (50 s and more) ends
\* after it.
TimerFires(x) ==
    /\ w[x].pc \in {"subscribe", "check", "select"} /\ ~w[x].fired
    /\ w' = [w EXCEPT ![x].fired = TRUE]
    /\ UNCHANGED <<tfvars, placed>>

ContextEnds(x) ==
    /\ w[x].fired /\ w[x].pc \in {"subscribe", "check", "select"} /\ ~w[x].ended
    /\ w' = [w EXCEPT ![x].ended = TRUE]
    /\ UNCHANGED <<tfvars, placed>>

WaitStep(x) ==
    \/ PlaceUnconditionally(x) \/ PlaceAtOnce(x) \/ BeginWait(x)
    \/ SubscribeUpdates(x) \/ PlaceOnOdds(x) \/ Block(x)
    \/ WakeUp(x) \/ PlaceOnTimeout(x) \/ GiveUp(x)

Next ==
    \/ TFNext /\ UNCHANGED wvars
    \/ \E x \in Waiters : Dispatch(x) \/ WaitStep(x) \/ TimerFires(x) \/ ContextEnds(x)

Spec == Init /\ [][Next]_vars

\* Waiters are scheduled and timers fire.  Nothing is assumed of the feed.
FairSpec == Spec /\ \A x \in Waiters : WF_vars(WaitStep(x)) /\ WF_vars(TimerFires(x))

-----------------------------------------------------------------------------
(* Properties.                                                               *)

\* No update is missed: an order that is blocked, its channel still open, is
\* blocked because the cached odds are too low.
BlockedMeansLow ==
    \A x \in Waiters : (w[x].pc = "select" /\ w[x].channel = revision) => ~Reached(x)

\* "places the order exactly once": never twice, and once when the wait is over
\* with anything but the end of its context.
PlacedOnce ==
    \A x \in Waiters : placed[x] = IF w[x].pc = "placed" THEN 1 ELSE 0

\* Every dispatched order is placed or fails, whatever the feed does.
WaitEnds ==
    \A x \in Waiters : w[x].pc = "first" ~> w[x].pc \in {"placed", "failed"}
=============================================================================
