# A TLA+ model of ws-order-go

ws-order-go is a server that receives trading signals over WebSocket, as a
client of configured upstreams and as a server that other parties push to, and
turns each of them into orders on binary-option exchanges (Binance, TurboFlow,
HiBT, or a raw webhook). This directory holds TLA+ specifications of the parts
of it that decide something, TLC configurations that check them on small
instances, and theorems about them that TLAPS proves for all instances.

Paths below are relative to `src/`.

## 1. The system

### Components, their state and their operations

| Component | Code | State | Operations |
|---|---|---|---|
| order store | `internal/orders/store.go` | a bounded slice of order records, the next id, a dirty flag, `orders.json` | `Begin`, `Update`, `SetResult`, `FindMatch`, the flusher, `Close`, `load` |
| settlement | `internal/settle/service.go` | per-account statistics, the results it writes into the order store | one poll per tick: fetch each ledger, match, mark win / loss / pending |
| upstream client | `internal/wsclient/wsclient.go` | a map of connections; per connection its entry, a running flag, a context, the live socket, a done channel | `Sync`, `StopAll`, `Start`, `Stop`, the loop goroutine |
| order client | `internal/order/order.go` | none between calls; the record of the call in the store | `PlaceOrder` and its retries |
| signal processor | `internal/signals/processor.go` | skip counters, round-robin cursors (one mutex), the group of order goroutines | `Handle`, dispatch, `placeOrderWithOdds`, `tryFallbackOrder`, `WaitOrders` |
| odds feed | `internal/tfrealtime/service.go` | the context and connection of the current run, cached odds, the waiter channel | `Start`, `Stop`, `runOnce`, `GetPair`, `Updates` |
| configuration | `internal/config/config.go` | the configuration in memory and `config.json` | `LoadManager`, `Update`, `saveLocked` |
| time ranges and ids | `internal/config/time_ranges.go` | none; the ids and ranges it normalises are kept in the configuration | `PrepareTasks`, `IsTimeAllowed` |
| balance | `internal/balance/balance.go` | the last wallet of each account, `daily_balance.json` | one round per tick, the daily snapshot, `Summary` |
| log | `internal/logs/logs.go`, `handleLogsStream` | a ring of entries, listeners with bounded channels | `log`, `AddListener`, `Entries`, forward |
| inbound server | `internal/wsserver/wsserver.go` | the set of open connections | upgrade, read loop, `CloseAll` |
| server | `cmd/server/main.go` | wiring and the shutdown sequence | panel handlers, `main` |
| panel | `web/` | browser state only | requests to the handlers |

### How they interact

    upstream servers --> wsclient --+                      +--> exchange
                                    +--> signals --> order +
    pushing parties --> wsserver  --+      |   |        |
                                           |   |        +--> order store --> orders.json
                         tfrealtime -------+   |                  ^
                         balance --------------+              settlement <-- ledger
    panel --> HTTP handlers --> config.Manager --> config.json
                           +--> wsclient.Sync

- *Calls.* A loop goroutine of `wsclient`, or a connection of `wsserver`, calls
  `Processor.Handle`, which starts order goroutines; they call `PlaceOrder`,
  which opens and closes a record in the order store.
- *Shared state.* The order store is written by order goroutines and by
  settlement; the skip counters and cursors by every goroutine that handles a
  signal; the configuration by every HTTP request; the cached odds by the
  feed's goroutine.
- *Channels.* `tfrealtime` closes and replaces a channel at every push; the log
  copies every entry into bounded channels; `Stop` and `Start` of a connection
  hand over through a `done` channel.
- *Lifetime.* `main` stops the parts in a fixed order: settlement, balance and
  the feed are cancelled, the listeners close, the processor is drained and the
  order store flushed last.

### What is hard about it

Concurrency: `Sync` reads the configuration outside its own lock; a stopped loop may
still be dialling; a stopped feed's cleanup runs beside its successor; the store's
writer works outside the lock. Failure: lost replies to requests that have taken effect,
failed writes, a crash between truncating and writing. Ordering: a ledger that names no
order is polled again and again; a log entry between replay and subscription. Time:
retries with deadlines, a conservative loss that a late payout corrects, a day that ends
between two polls, windows that run across midnight. Data that several places interpret
on their own: the period of a contract is read by five parsers, an amount passes through
sorting, picking and fallback, and counters and bindings hang on ids that may be
generated. Every such place is listed with its line under `hazards` in `PROJECT.json`,
with the properties that cover it.

### What makes each part correct

- *Order store*: ids never collide, nothing acknowledged as saved is missing
  from the file, and the file loses only what the capacity pushes out.
- *Settlement*: a win is a payout of that very order; a result never gets worse;
  a paid order is found in the end; a summary covers
  the window it is shown with; a ledger that
  grows while it is paged through is read whole.
- *Periods*: the contract that is asked for, the odds that are looked at and the
  end that is waited for belong together.
- *Upstream client*: one live loop per connection and one feed per upstream; no
  socket survives its `Stop`; what was asked last is what runs; an enabled
  upstream keeps reconnecting.
- *Order client and processor*: at most one order per signal where one account
  is to be picked, all accounts tried before giving up, a final status on every
  record, an end to every signal, a fair rotation and a draw as even as promised,
  quotas that are kept, amounts within the configured limits, as far as rounding
  goes, and of the account that places the order, as far as a strategy binds it.
- *Odds feed*: no missed update, no order placed twice by timer and push, a
  restart that its predecessor cannot undo.
- *Configuration*: memory and disk agree, also when a write fails; a restart finds
  the last save; what the environment overrides stays out of the file.
- *Time ranges and ids*: what is accepted is read as it was entered; an account
  keeps its id whatever happens to the others.
- *Balance*: a daily baseline is the sum of one round over all accounts, and the
  daily profits add up to the current total.
- *Log*: no gap between replay and live entries.
- *Shutdown*: what was submitted is finished and saved.

## 2. The modules

| Module | Models | Uses |
|---|---|---|
| `OrderRing` | the ring operations of the store, as operators | |
| `OrderStore` | the store with its flusher, file, crash and restart | `OrderRing` |
| `Settlement` | poll, matching, verdicts, statistics, with the exchange's ledger | extends `OrderRing`, `Contracts`, `LedgerPages` |
| `LedgerPages` | the pages of one fetch, while the ledger grows (operators) | |
| `Contracts` | the five readers of a period (operators) | |
| `UpstreamConn` | manager, connections, loops, panel requests, shutdown | |
| `SingleOrder` | abstract: what a signal for one account promises | |
| `OrderFlow` | `PlaceOrder` inside the fallback of the processor | refines `SingleOrder` |
| `TFRealtime` | the odds feed | |
| `OddsWait` | orders that wait for odds | extends `TFRealtime` |
| `Sizing` | the amount of an order | |
| `Dispatch` | matching, skipping, priorities, rotation | extends `Sizing`, `Weights`, `OrderAmounts` |
| `Weights` | the weighted draw (operators) | |
| `OrderAmounts` | which amount reaches which order (operators) | |
| `ConfigStore` | configuration, file, crash and restart | extends `TimeRanges`, `TaskIds` |
| `TimeRanges` | normalising, accepting and reading time ranges (operators) | |
| `TaskIds` | `PrepareTasks` and the ids of accounts (operators) | |
| `LogStream` | log ring and streams | |
| `Balance` | rounds, pruning, daily snapshot | |
| `DailyProfits` | the summary for the panel | extends `Balance` |
| `Shutdown` | inbound connections, order goroutines, `main`'s end | |
| `OrderStoreProofs`, `UpstreamConnProofs`, `OddsWaitProofs`, `OrderFlowProofs` | theorems about the module they are named after | it |
| `SettlementProofs` | theorems about `Settlement`, `Contracts` and `LedgerPages` | `Settlement` |
| `DispatchProofs` | theorems about `Dispatch`, `Sizing`, `Weights` and `OrderAmounts` | `Dispatch` |
| `ConfigStoreProofs` | theorems about `ConfigStore`, `TimeRanges` and `TaskIds` | `ConfigStore` |
| `ServerProofs` | theorems about `Shutdown`, `LogStream`, `Balance` and `DailyProfits` | `Shutdown`, `LogStream`, `DailyProfits` |
| `MC*` | instances for TLC | |

`map` in `PROJECT.json` gives the lines that each definition stands for.

### How state and actions correspond to the code

**OrderStore.** `recs`, `seq` and `dirty` are the fields of `Store`; `file` is the
content of `orders.json`, readable or torn; `writer` and `bytes` are the flusher
and its snapshot between taking the table under the lock and finishing the write
outside it. `Begin`, `UpdateStatus` and `SetResult` are one action each, as they
hold the lock throughout. A write is a snapshot, then a rename, or, where the
file is a mount point and rename fails, a truncation and an in-place write, each
a step of its own at which the process can die. `host` fixes which of these a
machine does; `Load` and `LoadFails` are the start of a process. A torn file
loads as an empty table. `saved` is a history variable: the table of the last
write that completed.

**Settlement.** The table is the same ring. One poll is: `StartPoll` (fix the
instant), a fetch per account (`Fetch`, `FetchFails`, `Skip`), `Reconcile` per
ledger entry, `Publish`. The exchange is external: an accepted order appears in
the ledger up to `Latency` later and may be paid at any time after its contract
ends. A fetch returns the payouts made up to the start of the poll.

**UpstreamConn.** A panel request is a handler that saves the configuration,
reads it, takes the manager's mutex, and walks through `Sync`: removing
connections, then for each entry creating or reusing one, `Stop` and `Start`.
`Start` waits for the previous loop with a time limit, so it has three
outcomes (`StartLoopAtOnce`, `StartLoop`, `SkipStart`). A loop is a record with its
own program counter; `GoLive` is the publication of the socket under the lock
with its check for cancellation, `Handle` a signal in the hands of the processor.

**OrderFlow.** One signal: `BeginRecord`, `Send`, the reply
(`Answered`, `LostError`, `NoReply`), the pause, and the return to
`Fallback`, which picks the next account or gives up. Whether the exchange took
the request is decided at `Send`, independently of whether its reply arrives.
Requests that are refused before a record exists are `RefuseToSend`.

**TFRealtime / OddsWait.** A run is a goroutine started by `Start`; `runCtx` and
`conn` name the run whose context and socket the service holds. `Stop` is two
steps, since the cancellation is outside the lock. `revision` counts the pushes;
holding the channel of a revision is holding its number, and the channel is
closed when the numbers differ. An order reads the odds, fetches the channel,
reads again and blocks, as the code does, one step each.

**Dispatch.** A worker is a goroutine that handles a signal: it goes through the
groups and the accounts of each, skips or matches, then dispatches. Every
critical section of `Processor.mu` is one action. Balances may take any value at
any time.

**LedgerPages, Contracts, Weights, OrderAmounts, TimeRanges, TaskIds.** These are pure
computations of the code, so the modules have operators and no variables. Each names the
inputs that the computation treats otherwise than stated (`Misread`, `Misunderstood`,
`Missized` of `Sizing`, `Unfair`, `Mixed`, `Confused`), measured against a definition
that does not follow the code: a clockwise walk over the minutes for ranges, a count of
draws for weights, the binding of the account itself for amounts, and the length that a
period names for its readers, each of which is a table or a parser of its own.
`Settlement`, `Dispatch` and `ConfigStore`, which extend them, state that there are
none, at the point of their state machine that relies on it: while a poll is under way,
when there are orders or signals, while the service is up. The state adds nothing to
these: they are statements about the operators, checked over all their small inputs.
What the code does in a loop is written as the code has it where the order of the turns
matters (a recursive function over the places of the list), and by the result where it
does not: the n-th page is the entries whose place in the listing falls on it, a stable
sort puts a match behind those of a higher priority and those before it with the same
one. `DailyProfits` computes the rows of the summary from the variables of `Balance`, in
every state of it, since the panel may ask at any time.

**ConfigStore, LogStream, Balance, Shutdown.** As the operations in the table of
section 1; a save, a subscription, a round and the shutdown sequence are split
where the code lets something else happen between two steps.

### Order of the plan

The order store and settlement were first, as they hold what users rely on; then
the upstream client, where the concurrency is hardest; then the path of a signal
(order flow, odds wait, dispatch); then the configuration, the log, the balance
and the shutdown, which surround it. The pure computations came last: paging and
periods, weights and amounts, time ranges and ids, daily profits.

## 3. What TLC checks

All runs but two find no error.

| Run | Properties | What it shows |
|---|---|---|
| `OrderStore` | `IdsIncrease`, `CleanMeansSaved`, `SavedUntilEvicted` | writes beside updates, failed writes, crashes and evictions keep ids unique and the file complete |
| `Settlement` | `WinsArePaid`, `LossIsLate`, `ResultsOnlyImprove`, `StatsCoverWindow`, `WinsAreFound`, `FetchIsFaithful`, `OnlyBareNumbersDiffer` | repeated polls of a ledger without order ids credit the right records, in the right direction, in the end; a summary without an error counts the orders of its window, one with an error those of an earlier one; a ledger that grows while it is fetched is read whole, and a period with a unit means one contract |
| `UpstreamConn` | `OneLoopPerConn`, `OneFeedPerUpstream`, `NoZombie`, `SyncApplied`, `KeepsConnecting` | requests, loops and shutdown interleaved leave one feed, as configured, alive |
| `OrderFlow` | `EndIsRecorded`, `AllTried`, `ImplementsSingleOrder`, `SignalEnds` | at most one order per signal except where a lost reply is taken for a rejection |
| `OddsWait` | `OwnerIsAlive`, `PublishedIsOpen`, `BlockedMeansLow`, `PlacedOnce`, `WaitEnds` | restarts of the feed and pushes racing timers lose no update and duplicate no order |
| `Dispatch` | `RoundRobinEven`, `QuotaFirst`, `NearestAllowed`, `WeightsAreFair`, `OwnUnlessFlat` | signals handled at the same time share the rotation and the quotas; limits are missed by their rounding only; the draw is at most three to one, and which accounts it favours is exact; every order of a strategy has the amount of its own account, and whose the others have is exact |
| `ConfigStore` | `MemoryAndDiskAgree`, `RestartKeepsSettings`, `OverrideStaysOut`, `IdsAreKept`, `RangesAsEntered` | after rollbacks, crashes and overrides memory holds the settings last reported as saved, and so does the file unless a failed write left it torn; a restart finds them; no start writes the environment's port; ids survive edits, and ranges are read as entered |
| `LogStream` | `NoGap`, `EveryEntryShown` | replay and live entries meet without a gap; a slow panel costs the others nothing |
| `Balance` | `SnapshotIsFresh`, `SnapshotIsComplete`, `ProfitsAddUp` | a baseline is of one round and of all accounts; the profits add up whatever days are missing |
| `Shutdown` | `SubmittedOrdersSaved` | orders counted before the wait are finished and in the file at exit |
| `OrderFlowLost` | `ExhaustedMeansRejected` (violated) | see section 6 |
| `UpstreamConnRace` | `DisconnectDisconnects` (violated) | see section 6 |

No run lists a type invariant: those of all state machines are proved (section 4). Six
of these properties (the table in section 6) are about comments that the code does not
keep in every case. They state what it does keep and how far the exceptions go,
so that the code cannot do worse unnoticed. For every property there
is a mutation of the model, a plausible bug, that TLC finds to violate it (`mutants` in
`PROJECT.json`; the mutated operators stand beside the ones they replace).

### Bounds, and why they are enough

- `OrderStore`: a table of 2 and 3 ids. An eviction needs one record more than
  the capacity, a reissued id a crash after the last one was issued; both occur.
  The two hosts are the good one and the worst one.
- `Settlement`: 1 account, 2 stakes, 2 orders, 5 instants, days of 3. Accounts do
  not interact except in the walk over them. Orders span midnight, are paid
  before and after their deadline, and settle in the wrong order. The times are
  those of the code in units of the match window, scaled so that each comparison
  can go both ways. `MinGap` keeps orders of one account and one amount so far
  apart that the entry of one never lies within the match window of the other
  (`GapAssumption`); section 6 says what happens otherwise. `Place` keeps that distance
  from entries of evicted records as well, since the ledger outlives the table. Ledgers of up
  to 5 entries in every order, on 2 pages of 2: some fit, some are cut, and an entry
  can move from the first page to the second or off the last. Periods of 14
  numbers, which are all those in some list and neighbours, in 3 units or none.
- `UpstreamConn`: 1 upstream, 2 requests, 3 configuration changes, 3 connections
  and 3 loops. Upstreams share nothing but the manager's mutex. Three loops are a
  predecessor, its replacement, and one more for a removal and re-addition.
- `OrderFlow`: 4 accounts, of which one is a raw webhook, 3 tries for the 11 of
  the program, 3 fallbacks for 5: a first, a middle and a last one of each.
- `OddsWait`: 1 order, 2 runs, 2 pushes; odds below and above the minimum. Orders
  share nothing but the feed, and the theorems are for any number of each.
- `Dispatch`: 2 goroutines, 3 accounts, 3 groups (round-robin with a lower tier,
  all, one), 3 signals, a quota of 2 and a clock on which it expires. Draws among 2 and 3
  accounts of 3 platforms and a raw task, with 8 kinds of balance: none, unknown, debt,
  equal, unequal, fallen back on. Limits with hundredths that round up and down, and a
  floor that rounds to nothing. Groups of up to 3 bindings, of 3 accounts, 4 sizes and 2 priorities, some of
  the same account; 5 attempts go round more than once.
- `ConfigStore`: 3 settings, 2 ports beside the one in the file, 3 updates, and the four
  hosts: mount point or not, failing writes or not. Lists of up to 3 ids, blank, set
  by name, or set to a number that is generated as well, and every single edit of
  them. A day of 6 minutes with half hours of 2 has ranges on both sides of
  midnight and off the half hour; up to 3 ranges where 2 are allowed. `LogStream`: a ring and channels
  of 2, 4 entries, 2 panels: every ring and channel overflows. `Balance`: 2
  accounts, 3 days of 2 hours, 2 configuration changes, restarts; the panel shows 2
  rows, so that a third is cut. `Shutdown`: 2
  clients, 3 orders.

`CHECK_DEADLOCK FALSE` is set where the system really stops: a signal that has been
dealt with, a process that has exited, or a bound that has been used up.

### Fairness

- `Settlement!FairSpec`: the ticker starts polls, a poll that started gets to its
  end, and of infinitely many fetches of an account not all fail. HTTP timeouts
  justify the second; the third is an assumption on the exchange.
- `UpstreamConn!FairSpec`: handlers and loops, which nothing blocks for ever, make
  progress; a server that is dialled again and again answers now and then; the
  read of a cancelled loop ends, as `Stop` closes its socket. No fairness for
  frames, drops or panel requests.
- `OrderFlow!FairSpec`: the flow takes a step while it can; every wait in the code
  has a timer or a deadline.
- `OddsWait!FairSpec`: a waiting order takes its steps and its timer fires. Nothing
  is assumed of the feed, so an order ends even when the feed is silent.
- `LogStream!LogFairSpec`: a stream that can write does. Panels may leave at any time.

## 4. What is proved

Proofs are for every value of the constants that satisfies the named assumption.

**ConfigStoreProofs** (`ConfigAssumption`). `TypeCorrect`, `DiskAgrees`
(`MemoryAndDiskAgree`), `RestartKeeps` (`RestartKeepsSettings`) and
`OverrideIsNotSaved` (`OverrideStaysOut`), on every host, failing writes and mount
points included. None is inductive: they depend on what the file holds in the middle
of a save. `DiskInv` has three parts. `TornInv` says when the file is torn: during an
in-place write, after one that died on a mount point, or after a write error.
`ForceInv` says what a failed save falls back to: the settings last reported, with the
port of the environment in force. `FileInv` says what an untorn file holds at each
point of a save. `PortInv` carries the last theorem: before the first update only
starts write, and they write the port that they read.

**ConfigStoreProofs**, second part (`RangesAssumption`, `IdsAssumption`), for a
day of any length and lists of any length. `AcceptedRangeIsRead`: each range of
an accepted list is read back without an error and covers exactly the minutes
that lie clockwise between its ends. `InRangeIsClockwise` is the case
distinction at midnight, `CanonicalKeepsTime` that rewriting a clock keeps its
time. `AcceptedListIsRead` is the same for the list as a whole, blank entries
and the order of the entries included, and `RangesAreReadAsEntered` the
invariant (`RangesAsEntered`). Its lemma `NormalizedCollects` says what the loop
of `normalizeTimeRanges` has collected after each turn. `EditsKeepIds` is about
any number of additions, removals and moves at once, `NoIdsConfused` about the
single ones that TLC tries, and `IdsStayKept` is the invariant (`IdsAreKept`).
They rest on `FreshIsFree`, that the search for a name that is not taken ends
with one, and `PreparedIds`, that no two ids become equal unless they were set
to be.

**OrderStoreProofs** (`StoreAssumption`). `TypeCorrect`, `IdsStayIncreasing`
(`IdsIncrease`), `CleanIsSaved` (`CleanMeansSaved`), `SavedStays`
(`SavedUntilEvicted`), for a table of any capacity. `TableInv` says that memory,
snapshot, file and last saved table are each sorted by id and within capacity,
and that no running order has a record that says it ended. `CleanInv` closes the
gap in `CleanMeansSaved`: while a write is under way, a table that is not dirty
is the snapshot being written. `SavedInv` says that the saved table, the
snapshot and memory continue one another: each has the finished orders of the
one before, or is full of newer ones. The next one is never without them,
because an id is not issued twice (`UpTo`) and a finished order is not updated
(`ClosedIn`).

**SettlementProofs** (`SettlementAssumption`, `GapAssumption`). `TypeCorrect`,
`WinsWerePaid` (`WinsArePaid`), `LossesAreLate` (`LossIsLate`), `ResultsImprove`
(`ResultsOnlyImprove`), `SummaryCoversWindow` (`StatsCoverWindow`), for any accounts,
orders and polls. The ledger names no order, so `LedgerInv` carries the argument: every
order has one entry, of its account and amount and not before its record, and no entry
lies within the match window of another order's record (`Apart`). An entry therefore
matches its own record or none, also when the ring has evicted records. `LossInv` adds
that a loss has an entry whose end was over at the poll's instant. `SummaryInv` has a
part for what is published (`PublishedInv`: the window belongs to the instant of the
publication, and each summary counts the ledger of that window or, with an error, of an
earlier one) and one for what the running poll has (`BuiltInv`: the same, but for the
entries still in `todo`). A summary without an error stays complete because later
entries lie beyond its instant. `GapAssumption` is used for `Apart` only; it is a
condition on the signals, not one that the code enforces (section 6).

`OnlyBareNumbersEverDiffer` (`OnlyBareNumbersDiffer`; `NumbersAssumption`): the five
readers of a period, each with the table or the parser it has in the code, agree for
every number with a unit, not only those that TLC enumerates, and on a bare number
TurboFlow and HiBT differ by a factor of sixty. `ListsAreRight` says that every row of
every table names its length; one lemma each is for contract, end and odds.
`LedgersAreReadWell` and `FetchStaysFaithful` (`FetchIsFaithful`; `PagesAssumption`),
for any number of entries, rows and pages: an entry that was there at the start only
moves to later places while others are posted (`PlacesGrow`), so it is met on some page
that was asked for, unless it is beyond the last one (`ReachedIsIn`); after a short page
nothing is beyond (`NothingAfterLast`). A payout is listed before its order where the
newest entries come first, and is therefore met whenever the order is.

**UpstreamConnProofs** (`UpstreamAssumption`). `TypeCorrect`, `LoopsAreSingle`
(`OneLoopPerConn`), `FeedsAreSingle` (`OneFeedPerUpstream`),
`NoConnectionOutlivesStop` (`NoZombie`), `SyncIsApplied` (`SyncApplied`), for
any upstreams, concurrent requests, connections and loops. None is inductive
alone. The invariant says who holds the mutex (`Mutex`); that a loop that has
not returned is the one its connection waits for in `loopDone` (`OneLoop`), so
that there cannot be two; that one which was not cancelled belongs to the
running connection in use (`Feeds`), so that a removed connection feeds nothing;
that a running connection has such a loop (`RunsALoop`); that a live socket is
read by the loop whose context is in force (`LiveIsRead`); that `Start` is under
way only for a stopped connection (`StartsStopped`); and what `Sync` has done so
far (`Applied`).

**DispatchProofs** (`SizingAssumption`, `DispatchAssumption`). `EverySizeIsNearest`: for
every binding and balance, an amount sized from the balance is the rounding of the
allowed value that is nearest to the share (`CappedIsNearest`), and it misses a limit,
or is zero, only where that rounding does it; the statement gives the limits that are
missed and the amount that then goes out. `AmountsAllowed` (`NearestAllowed`) is the
invariant.

`QuotaIsFirst` (`QuotaFirst`): no account takes a signal before its quota has been
skipped, however many goroutines share the counters. The counter of the code is not the
number of skips, as it is reset on expiry without anything being recorded;
`SkipsCounted` says that it never exceeds that number, which is what a match needs.
`RotationIsEven` (`RoundRobinEven`): `InTurn` says that the accounts before the cursor
have had one turn more than the others. The lemmas about the operators
(`EveryRankTaken`, `SomeHighest`, `TierOfMatched`) show that a group matched as a whole
has its whole top tier as candidates, in order; `LeastNat` is the well-ordering that
takes the place of an induction. The proof showed that an account that a group lists
twice has two turns, which the configuration does not exclude: `ListedOnce` is a
condition of the property since. `TypeCorrect` is the `TypeOK` of `Dispatch`.

`DrawIsFair` and `DrawsAreFair` (`WeightsAreFair`; `WeightsAssumption`,
`FetchedAssumption`): among any number of matched accounts, with any balances, each is
drawn in proportion to its weight, the weights differ by a factor of three at most, and
the accounts with more than weight 1 are those below the mean, of whatever platform.
`FetchedAssumption` is that raw tasks have no balance, as `FetchAll` skips them; an
account whose type was changed to raw keeps the balance and the platform it had. The
draws of an account are the numbers between two partial sums of the weights, and these
never decrease. `AmountsAllOwn` and `AmountsAlwaysOwn` (`OwnUnlessFlat`;
`OrderAmountsAssumption`): for groups of any number of bindings and any number of
fallbacks. `MatchesAreBound` says that sorting yields the bindings that were kept and no
others, `AmountForIsOwn` that the amount found for a match is one of its account,
`AfterIsMatch` that a fallback goes to a match, and `GroupIsOwn` puts them together. Of
signals without a strategy, `FlatIsOwn` says whose amount each order has when the signal
has none, mode by mode and on fallbacks, with `FlatIsFirst` for the amount that the
others share, and `FlatIsSignals` is the case that the signal has one.

**OddsWaitProofs** (`RealtimeAssumption`, `WaitAssumption`). `TypeCorrect`,
`OwnerCorrect` (`OwnerIsAlive`), `PublishedCorrect` (`PublishedIsOpen`),
`NoMissedUpdate` (`BlockedMeansLow`), `PlacedOnceCorrect` (`PlacedOnce`), for
any number of orders, runs and pushes. The invariant relates the life of a run
(started, owner, or cancelled) to the context the service holds; the socket of a
run to what is published; and the channel an order holds to the odds it has seen
since. The last part is the heart: between fetching the channel and blocking on
it the odds are read again, so an open channel means that the odds read are the
current ones.

**OrderFlowProofs** (`FlowAssumption`). `TypeCorrect`, `EndCorrect`
(`EndIsRecorded`), `EveryAccountTried` (`AllTried`) and
`FlowImplementsSingleOrder`: for any number of accounts, tries and fallbacks the
flow implements `SingleOrder`. The invariant `FlowInv` says in each stage of the
flow whether an order exists: before a send there is none unless a reply was
lost, and the errors that lead to another account or another try are returned
only when the exchange refused. `RecordInv` says which records are closed,
`Turns` which accounts have been tried: the first one and those after it, as
many as there were fallbacks; `OnceAround` shows that these are all of them when
the wrap-around is complete.

**ServerProofs**. `TypeCorrect` of `Shutdown`. `OrdersSaved`
(`SubmittedOrdersSaved`): an order counted before the wait is still counted, or
done, until the wait is over, and done when the last snapshot is taken.
`StreamTypes` and `NothingFallsIntoTheGap` (`NoGap`, `LogAssumption`), for any
ring, buffer and number of panels: `Ring` says that the ring holds the newest
entries, numbered without a gap, and that an open stream is listening, so that
what is logged after its replay has gone to its channel. `SnapshotsAreFresh` and
`SnapshotsAreComplete` (`BalanceAssumption`), for any accounts and wallets:
`Passed` says that each account a round has passed was fetched, carries an
error, or has been dropped, and the snapshot is refused when there is an error.

`ProfitsAlwaysAddUp` (`ProfitsAddUp`; `ProfitsAssumption`) and `BalanceTypes`
(`BalanceTypeOK`): `HistoryInv` says that there is one snapshot a day, that none
is of a day to come, and that its total is a number; the rows of the summary are
differences of neighbours in the sorted history, and cancel out. That a total is
a number is a fact about a fold over a set of accounts, which a least
counterexample proves. So that one module can extend all of them, the initial
predicate, next-state relation and type invariant of `LogStream` and `Balance`
have names of their own (`LogSpec`, `BalanceSpec`), as those of `TFRealtime` do.

### What stays with TLC

- Liveness under fairness, and anything with `ENABLED`: `WinsAreFound`,
  `KeepsConnecting`, `SignalEnds`, `WaitEnds`, `EveryEntryShown`.
- `DisconnectDisconnects` and `ExhaustedMeansRejected` do not hold (section 6).

Every invariant and every action property of a passing run is proved, and so is
the refinement of `SingleOrder`.

The library's induction theorems take the statement as a parameter, which the
provers cannot instantiate. Where a definition is recursive, the proofs use that
numbers are well-ordered instead: `LeastNat` gives a first turn of the loop that
does what it should not, and the turn before it, which did what it should,
refutes that. This has to be written out for each definition and each statement.
No module here uses a `RECURSIVE` operator.

## 5. What is not modelled

- Parsing, templates, signatures, headers and proxies: data without control.
- Which strategy, symbol, clock and switch make an account eligible: `Dispatch` lets
  any account be ineligible at any time, and `TimeRanges` is checked beside it.
- The random delay before an order, and the cursor of signals without a strategy,
  which works as the cursor of a group does.
- Which account the odds feed connects with, and its heartbeat: a connection of
  `TFRealtime` may fail at any time.
- The rest of the normalisation of the configuration: ids of groups, dispatch
  modes, tokens, old fields. An update that is rejected changes nothing and is
  left out. The copy of a corrupt file that is moved aside at load.
- The ping goroutines, keep-alive, the length of a backoff, and counters for the panel.
- Of `OrderFlow`'s replies: a refusal of a request that the exchange took all the same.
  A reply that does not arrive has the same effect there.
- Of `Shutdown`: frames that were buffered when their connection was closed and are
  still read, and further orders of one signal, which are counted and wait as the first.
- `DailyProfits` reads the current total and the snapshots at once, `Summary` one after
  the other; `Skip` of `Settlement` gives a disabled task an empty summary, where the
  code gives it none.
- Signals that come closer than `MinGap` in `Settlement` (section 6).
- `List`, `Snapshot` and the other operations that only read, except for the summary.
- Login: a check of each request without state. The panel: browser code.

## 6. Where the code and its comments differ

Two runs show a disagreement as a counterexample.

1. `UpstreamConnRace`. `Sync` reads the configuration before it takes the
   manager's mutex (`internal/wsclient/wsclient.go:57-59`). A request that read it
   before a disconnect may apply it after the disconnect's own `Sync`: both are
   answered, the upstream is disabled, and it runs. `cmd/server/main.go:352-355`
   explains that disconnect is there to disconnect. Taking the mutex first would do.
2. `OrderFlowLost`. After one retryable rejection, a later request whose reply does
   not arrive before the deadline returns `ErrRetryExhausted`
   (`internal/order/order.go:719-721`), which `order.go:25-27` describes as a
   rejection by the exchange. The processor then falls back to another account,
   and the signal may be ordered twice. `SingleOrder` therefore excuses this
   case, and only this one.

Other comments promise more than the code keeps. A property of a passing run states what
it keeps and how far the exceptions go; as quoted, TLC refutes each.

| Comment | What the code does | Stated in |
|---|---|---|
| `config.go:194-196`: an override is never written into the user's file and cannot outlive its environment | no start writes the port forced by `WSORDER_PORT`, but the next update does, and a later start without the variable uses it | `OverrideStaysOut` |
| `config.go:241-243`: an update can never leave memory and disk disagreeing | memory is rolled back to what was last reported, but an in-place write that fails after truncating leaves `config.json` torn; the port of the file may differ from the one in force | `MemoryAndDiskAgree` |
| `service.go:70`: stats cover `[WindowStart, UpdatedAt]` | after a failed fetch the summary of an earlier poll, possibly of the day before, is published under the new window, with an error; without credentials it is empty | `StatsCoverWindow` |
| `processor.go:452`: capped at `maxAmount`, floored at `minAmount` | the limits are rounded to a tenth themselves: a cap of 10.25 lets 10.3 through | `NearestAllowed` |
| `processor.go:456-458`: emitting a zero or empty amount would submit an invalid order, so the account is skipped | limits and shares below 0.05 go out as 0.0; without a strategy an account without a safe amount is not skipped but sent the first one's, or none | `NearestAllowed`, `OwnUnlessFlat` |
| `processor.go:93-95`, `291-292`: other accounts than Binance ones keep weight 1 | `FetchAll` fetches TurboFlow and HiBT balances as well, and any account below the mean is weighted | `WeightsAreFair` |
| `processor.go:239-240`, `265-267`: the amount configured for this account, resolved per account | so in mode `all`; in the modes that pick one account every order, fallbacks included, has the amount of the first task that has one | `OwnUnlessFlat` |

One is not in a property: `order.go:29-31` speaks of another account, but with a single
matched account the fallback goes to that same one. Nor is `README.md:213`, which speaks
of half an hour without a signal: the skip counter is reset half an hour after the first
skip.

Behaviour that the models contain or that was seen while writing them, and which no comment
speaks of:

Orders and settlement:

- On a single-file mount a crash between truncation and write loses `orders.json`.
- Two orders of one account and amount placed within twice the match window: one
  payout may be credited to both.
- A bare number as a period is seconds on TurboFlow and minutes on HiBT
  (`order.go:113`, `138`), and Binance refuses it; `OnlyBareNumbersDiffer` states it.

Signals:

- A signal that was read before a disconnect is handled after it.
- After an upstream is removed and added again, the cancelled loop of the old
  connection may live on for a while beside the new one.
- An account bound in two groups uses up two skips per signal. One bound twice in a
  group uses the amount of the binding with the higher priority for both orders.
- When accounts of a rotation are eligible in turn, the rotation can favour one.
- No odds are ever found for a period that is spelt out or a bare number
  (`processor.go:648`), which the order client accepts: such an order with a minimum
  waits until its timer ends it.

Odds feed:

- The cached odds outlive the feed's connection and are used as current.
- `Stop` takes the context under the lock and cancels it outside, so that a dial that
  ends in between is published and stays open until it fails
  (`tfrealtime/service.go:172`, `284`).
- A subscription that is rejected is logged and keeps the connection, and with it
  the account (`tfrealtime/service.go:492`), so that no other account is tried until
  the connection fails.

Configuration and balance:

- When an account with a generated id is removed, a new account may be given that id, and with
  it the bindings and counters of the old one.
- A balance account whose type changes to one that is not fetched keeps its total;
  when `daily_balance.json` cannot be read, it is moved
  aside and the next write starts a new history.
- A row of the daily profits covers several days when days in between have no
  snapshot (`balance.go:187-211`).

## 7. Plan

1. The odds feed's accounts and heartbeat, with liveness: an account that works is
   found. A second account in `Settlement`.
2. An abstract specification of a durable table that `OrderStore` implements, and
   one of a single feed that `UpstreamConn` implements.

## 8. Running it

    tlc -workers 2 -config OrderStore.cfg MCOrderStore.tla
    tlapm OrderFlowProofs.tla

Each configuration is run on the module `MC<name>` where there is one
(`PROJECT.json`, `runs`). No run takes more than a few minutes on two cores.
