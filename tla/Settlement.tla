----------------------------- MODULE Settlement -----------------------------
(* internal/settle/service.go over the table of internal/orders: the poller  *)
(* fetches each account's ledger, pairs every order entry with the nearest   *)
(* local record and writes win, loss or pending into it.  The ledger carries *)
(* no order id, so nothing but account, amount and time links the two.       *)
(* The exchange (accepting orders, posting payouts) is external.             *)
EXTENDS OrderRing, Contracts, LedgerPages

CONSTANTS
    Accounts,     \* enabled Binance tasks
    Amounts,      \* stakes
    Periods,      \* settlement times a task is configured with
    Window,       \* matchWindow
    Latency,      \* bound: from Begin to the ledger entry of an accepted order
    Buffer,       \* settleBuffer
    MaxSettle,    \* maxSettle: the deadline of an entry without a record
    Day,          \* length of a calendar day
    MinGap,       \* orders of one account and amount are this far apart
    MaxId,        \* bound: orders
    MaxTime       \* bound: clock

ASSUME SettlementAssumption ==
    /\ {Window, Latency, Buffer, MaxSettle, MinGap, MaxId, MaxTime} \subseteq Nat
    /\ Day \in Nat \ {0}
    /\ Periods \subseteq Nat

\* The operator's signals: two orders of one account and amount are never so close
\* that an entry of one lies within the match window of the other.
ASSUME GapAssumption == MinGap > Window + Latency

VARIABLES
    clock,
    recs,         \* the order table
    ledger,       \* order entries: one per accepted order
    paid,         \* orders whose payout has been posted
    left,         \* accounts the running poll has still to fetch
    todo,         \* fetched entries of the current account, not yet reconciled
    seenPaid,     \* payouts up to the poll's instant: those its fetches return
    pollNow,      \* pollOnce's now; NotPolling between polls
    counted,      \* next: per account, the entries in the summary being built
    nextOk,       \* next: the accounts whose summary has no Error
    stats,        \* Service.stats: per account, the entries the summary counts
    statsOk,      \* Service.stats: the accounts whose summary has no Error
    updatedAt,    \* Service.updatedAt
    windowStart   \* Service.windowStart

published == <<stats, statsOk, updatedAt, windowStart>>
vars == <<clock, recs, ledger, paid, left, todo, seenPaid, pollNow, counted,
          nextOk, published>>

NotPolling == -1

Order == [id : 1..MaxId, task : Accounts, amount : Amounts, time : 0..MaxTime,
          period : Periods, result : Results]

\* A ledger entry.  "order" is what the ledger does not tell: which order it is.
Entry == [order : 1..MaxId, task : Accounts, amount : Amounts, time : 0..MaxTime]

Verdict == [entry : Entry, result : Results]

TypeOK ==
    /\ clock \in 0..MaxTime
    /\ recs \in Seq(Order) /\ Len(recs) <= MaxRecs
    /\ ledger \subseteq Entry
    /\ paid \subseteq 1..MaxId /\ seenPaid \subseteq 1..MaxId
    /\ left \subseteq Accounts
    /\ todo \subseteq ledger
    /\ pollNow \in {NotPolling} \cup 0..MaxTime
    /\ counted \in [Accounts -> SUBSET Verdict]
    /\ stats \in [Accounts -> SUBSET Verdict]
    /\ nextOk \subseteq Accounts /\ statsOk \subseteq Accounts
    /\ updatedAt \in 0..MaxTime /\ windowStart \in 0..MaxTime

Init ==
    /\ clock = 0 /\ recs = <<>> /\ ledger = {} /\ paid = {}
    /\ left = {} /\ todo = {} /\ seenPaid = {} /\ pollNow = NotPolling
    /\ counted = [a \in Accounts |-> {}] /\ stats = [a \in Accounts |-> {}]
    /\ nextOk = {} /\ statsOk = {}
    /\ updatedAt = 0 /\ windowStart = 0

StartOfDay(now) == (now \div Day) * Day

NewestId == IF recs = <<>> THEN 0 ELSE recs[Len(recs)].id

-----------------------------------------------------------------------------
(* Orders and the exchange.                                                  *)

Tick ==
    /\ clock < MaxTime
    /\ clock' = clock + 1
    /\ UNCHANGED <<recs, ledger, paid, left, todo, seenPaid, pollNow, counted,
                   nextOk, published>>

\* PlaceOrder begins its record.  Orders of one account and amount are MinGap apart,
\* also those that the table has no room for any more.
Place(a, amount, period) ==
    /\ NewestId < MaxId
    /\ \A i \in DOMAIN recs :
          (recs[i].task = a /\ recs[i].amount = amount)
             => clock - recs[i].time >= MinGap
    /\ \A e \in ledger :
          (e.task = a /\ e.amount = amount) => clock - e.time >= MinGap - Latency
    /\ recs' = Push(recs, [id |-> NewestId + 1, task |-> a, amount |-> amount,
                           time |-> clock, period |-> period, result |-> "none"])
    /\ UNCHANGED <<clock, ledger, paid, left, todo, seenPaid, pollNow, counted,
                   nextOk, published>>

\* The exchange accepts the order.  One that it refuses never gets an entry.
Accept(i) ==
    LET r == recs[i] IN
    /\ \A e \in ledger : e.order # r.id
    /\ clock <= r.time + Latency
    /\ ledger' = ledger \cup {[order |-> r.id, task |-> r.task,
                               amount |-> r.amount, time |-> clock]}
    /\ UNCHANGED <<clock, recs, paid, left, todo, seenPaid, pollNow, counted,
                   nextOk, published>>

\* The exchange pays a winner at any time after the entry, late ones included.
Payout(e) ==
    /\ e.order \notin paid
    /\ clock > e.time
    /\ paid' = paid \cup {e.order}
    /\ UNCHANGED <<clock, recs, ledger, left, todo, seenPaid, pollNow, counted,
                   nextOk, published>>

-----------------------------------------------------------------------------
(* The poll.                                                                 *)

StartPoll ==
    /\ pollNow = NotPolling
    /\ pollNow' = clock
    /\ left' = Accounts
    /\ seenPaid' = paid
    /\ counted' = [a \in Accounts |-> {}]
    /\ nextOk' = {}
    /\ UNCHANGED <<clock, recs, ledger, paid, todo, published>>

\* Mutant of Fetched: looks back only to the start of the day.
FetchedToday(a) == {e \in ledger : e.task = a /\ e.time >= StartOfDay(pollNow) /\ e.time <= pollNow}

\* fetchLedger looks back from the start of the day far enough for orders that
\* settle across midnight, and up to the poll's own instant.
Fetched(a) ==
    {e \in ledger : /\ e.task = a
                    /\ e.time >= StartOfDay(pollNow) - (MaxSettle + Buffer)
                    /\ e.time <= pollNow}

NextAccount(a) ==
    /\ pollNow # NotPolling /\ todo = {} /\ a \in left
    /\ left' = left \ {a}

Fetch(a) ==
    /\ NextAccount(a)
    /\ todo' = Fetched(a)
    /\ nextOk' = nextOk \cup {a}
    /\ UNCHANGED <<clock, recs, ledger, paid, seenPaid, pollNow, counted, published>>

\* Mutant of FetchFails: carries the previous summary over as it is.
FetchFailsUnmarked(a) ==
    /\ NextAccount(a)
    /\ counted' = [counted EXCEPT ![a] = stats[a]]
    /\ nextOk' = IF a \in statsOk THEN nextOk \cup {a} ELSE nextOk
    /\ UNCHANGED <<clock, recs, ledger, paid, todo, seenPaid, pollNow, published>>

\* The request fails: the account keeps its previous summary, marked with the error.
FetchFails(a) ==
    /\ NextAccount(a)
    /\ counted' = [counted EXCEPT ![a] = stats[a]]
    /\ UNCHANGED <<clock, recs, ledger, paid, todo, seenPaid, pollNow, nextOk, published>>

\* Credentials missing: an empty summary, marked with the error. Or the task is
\* disabled: none, which is not told apart from that here.
Skip(a) ==
    /\ NextAccount(a)
    /\ UNCHANGED <<clock, recs, ledger, paid, todo, seenPaid, pollNow, counted,
                   nextOk, published>>

Match(e) == FindMatch(recs, e.task, e.amount, e.time, Window)

PeriodOf(id) == recs[Newest(recs, id)].period

\* Mutant of Deadline: leaves no time for a late payout.
DeadlineAtOnce(e) == e.time + (IF Match(e) # 0 THEN PeriodOf(Match(e)) ELSE MaxSettle)

Deadline(e) == e.time + Buffer + (IF Match(e) # 0 THEN PeriodOf(Match(e)) ELSE MaxSettle)

ResultOf(e) == CASE e.order \in seenPaid -> "win"
                 [] e.order \notin seenPaid /\ pollNow > Deadline(e) -> "loss"
                 [] OTHER -> "pending"

\* One entry: match, derive, write, count.  Entries come in the server's order.
Reconcile(e) ==
    /\ todo' = todo \ {e}
    /\ recs' = IF Match(e) # 0 THEN SetResultOf(recs, Match(e), ResultOf(e)) ELSE recs
    /\ counted' = IF e.time < StartOfDay(pollNow) THEN counted
                  ELSE [counted EXCEPT ![e.task] =
                           @ \cup {[entry |-> e, result |-> ResultOf(e)]}]
    /\ UNCHANGED <<clock, ledger, paid, left, seenPaid, pollNow, nextOk, published>>

Publish ==
    /\ pollNow # NotPolling /\ left = {} /\ todo = {}
    /\ stats' = counted /\ statsOk' = nextOk
    /\ updatedAt' = pollNow /\ windowStart' = StartOfDay(pollNow)
    /\ pollNow' = NotPolling
    /\ counted' = [a \in Accounts |-> {}] /\ nextOk' = {}
    /\ seenPaid' = {}
    /\ UNCHANGED <<clock, recs, ledger, paid, left, todo>>

Exchange ==
    \/ \E i \in DOMAIN recs : Accept(i)
    \/ \E e \in ledger : Payout(e)

Next ==
    \/ Tick
    \/ \E a \in Accounts, amount \in Amounts, period \in Periods :
          Place(a, amount, period)
    \/ Exchange
    \/ StartPoll
    \/ \E a \in Accounts : Fetch(a) \/ FetchFails(a) \/ Skip(a)
    \/ \E e \in todo : Reconcile(e)
    \/ Publish

Spec == Init /\ [][Next]_vars

\* The ticker keeps polling, a poll runs to its end, and the ledger of every
\* account is reachable again and again.
Fairness ==
    /\ WF_vars(StartPoll) /\ WF_vars(Publish)
    /\ \A a \in Accounts : WF_vars(Fetch(a) \/ FetchFails(a) \/ Skip(a))
                           /\ SF_vars(Fetch(a))
    /\ WF_vars(\E e \in todo : Reconcile(e))

FairSpec == Spec /\ Fairness

-----------------------------------------------------------------------------
(* Properties.                                                               *)

\* A record shown as won is an order that the exchange paid: payouts are
\* credited to the order that earned them, however often the same ledger
\* entries are polled again.
WinsArePaid == \A i \in DOMAIN recs : recs[i].result = "win" => recs[i].id \in paid

\* A record is shown as lost only when its own contract has run out and the
\* buffer for a late payout has passed.
LossIsLate ==
    \A i \in DOMAIN recs : recs[i].result = "loss" => clock > recs[i].time + recs[i].period + Buffer

\* A settled result is only ever corrected from loss to win: no poll turns a
\* win back, and none reopens a loss.
ResultsOnlyImprove ==
    [][ \A i \in DOMAIN recs, j \in DOMAIN recs' :
          (recs[i].id = recs'[j].id /\ recs[i].result \in {"win", "loss"})
             => \/ recs'[j].result = recs[i].result
                \/ recs[i].result = "loss" /\ recs'[j].result = "win" ]_vars

\* The summary of an account counts exactly its order entries of a stretch of time;
\* those of the last instant may have been posted after the fetch.
Covers(a, from, to) ==
    /\ \A v \in stats[a] :
          v.entry \in ledger /\ v.entry.task = a /\ from <= v.entry.time /\ v.entry.time <= to
    /\ \A e \in ledger :
          (e.task = a /\ from <= e.time /\ e.time < to) => \E v \in stats[a] : v.entry = e

\* "stats cover [WindowStart, UpdatedAt]" (service.go:70): every summary that is
\* published without an error counts the orders of that window, each of them and no
\* other, across midnight and while orders are accepted during the poll.  Against that
\* comment, a summary with an error covers the window of an earlier poll, of the same
\* day or not, or is empty.
StatsCoverWindow ==
    \A a \in Accounts :
        IF a \in statsOk THEN Covers(a, windowStart, updatedAt)
        ELSE \E now \in 0..updatedAt : Covers(a, StartOfDay(now), now)

\* The five readers of an order's period agree on the contract, except on bare numbers,
\* which are seconds on one platform and minutes on another (order.go:113, 138): none asks
\* for another length, waits for another end, or looks at the odds of another contract.
OnlyBareNumbersDiffer == recs # <<>> => ReadersDifferOnBareNumbers

\* Whatever the exchange posts between two requests of a poll, fetchLedger credits no
\* payout twice, leaves nothing out that fits into the pages, and is not cut between
\* an order and its payout.
FetchIsFaithful == pollNow # NotPolling => Misread = {}

\* A paid order is eventually shown as won, also after a conservative loss,
\* unless its record is evicted or its entry is older than the polls look back.
WinsAreFound ==
    \A id \in 1..MaxId :
        (id \in paid /\ id \in IdsOf(recs))
            ~> \/ \E i \in DOMAIN recs : recs[i].id = id /\ recs[i].result = "win"
               \/ id \notin IdsOf(recs)
               \/ \E e \in ledger : /\ e.order = id
                                    /\ e.time < StartOfDay(clock) - (MaxSettle + Buffer)
=============================================================================
