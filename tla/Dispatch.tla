------------------------------ MODULE Dispatch ------------------------------
(* How internal/signals/processor.go turns one signal into orders: for every *)
(* group of the strategy it matches the bound accounts in order, applying    *)
(* the skip counters, sorts them by priority and picks by the group's mode.  *)
(* Several goroutines (upstream loops, pushed connections) handle signals at *)
(* the same time; counters and cursors are shared under Processor.mu.        *)
(* Without strategies the enabled accounts are one group of equal priority.  *)
EXTENDS Sizing, Weights, OrderAmounts

CONSTANTS
    Accounts,
    Groups,          \* the groups, in order: accounts (a sequence) and mode
    Priority,        \* per account
    SkipSignals,     \* per account: signals to skip; 0 is off
    Binding,         \* per account: how its orders are sized
    ResetAfter,      \* 30 minutes
    Workers,         \* goroutines that handle signals
    MaxSignals,      \* bound: signals
    MaxTime          \* bound: clock

GroupConfig == [accounts : Seq(Accounts), mode : {"all", "round-robin", "one"}]

ASSUME DispatchAssumption ==
    /\ Priority \in [Accounts -> Int]
    /\ SkipSignals \in [Accounts -> Nat]
    /\ Binding \in [Accounts -> Bindings]
    /\ Groups \in Seq(GroupConfig)
    /\ Groups # <<>>
    /\ ResetAfter \in Nat /\ MaxSignals \in Nat /\ MaxTime \in Nat

NotStarted == -1

VARIABLES
    seenSkip,      \* Processor.seenSkip
    skipStart,     \* Processor.skipStartTime
    rrCursor,      \* Processor.rrCursor, per group
    clock,
    wk,            \* per goroutine: group, position, accounts matched so far
    signals,       \* signals so far
    skipped,       \* history: signals skipped since the counter last restarted
    picks,         \* history: per group and account, times picked
    partial        \* history: groups dispatched without their whole top tier

vars == <<seenSkip, skipStart, rrCursor, clock, wk, signals, skipped, picks, partial>>
counters == <<seenSkip, skipStart, skipped>>
turns == <<rrCursor, picks, partial>>

GroupIds == DOMAIN Groups
Positions(g) == DOMAIN Groups[g].accounts

Idle == [pc |-> "idle", group |-> 1, pos |-> 1, matched |-> <<>>, applySkip |-> FALSE]

TypeOK ==
    /\ seenSkip \in [Accounts -> Nat]
    /\ skipStart \in [Accounts -> {NotStarted} \cup 0..MaxTime]
    /\ rrCursor \in [GroupIds -> Nat]
    /\ clock \in 0..MaxTime
    /\ signals \in 0..MaxSignals
    /\ wk \in [Workers -> [pc : {"idle", "match"}, group : GroupIds, pos : Nat,
                           matched : Seq(Accounts), applySkip : BOOLEAN]]
    /\ skipped \in [Accounts -> Nat]
    /\ picks \in [GroupIds -> [Accounts -> Nat]]
    /\ partial \subseteq GroupIds

Init ==
    /\ seenSkip = [a \in Accounts |-> 0]
    /\ skipStart = [a \in Accounts |-> NotStarted]
    /\ rrCursor = [g \in GroupIds |-> 0]
    /\ clock = 0 /\ signals = 0
    /\ wk = [x \in Workers |-> Idle]
    /\ skipped = [a \in Accounts |-> 0]
    /\ picks = [g \in GroupIds |-> [a \in Accounts |-> 0]]
    /\ partial = {}

-----------------------------------------------------------------------------

\* Handling a signal waits for nothing (orders run in goroutines of their own),
\* so no minute passes while one is being matched.
Tick ==
    /\ clock < MaxTime
    /\ \A x \in Workers : wk[x].pc = "idle"
    /\ clock' = clock + 1
    /\ UNCHANGED <<counters, wk, signals, turns>>

\* Handle: a signal that names an enabled strategy (or the flat tasks).
Arrive(x, applySkip) ==
    /\ wk[x].pc = "idle" /\ signals < MaxSignals
    /\ wk' = [wk EXCEPT ![x] = [Idle EXCEPT !.pc = "match", !.applySkip = applySkip]]
    /\ signals' = signals + 1
    /\ UNCHANGED <<counters, clock, turns>>

Current(x) == Groups[wk[x].group].accounts[wk[x].pos]

AtAccount(x) ==
    /\ wk[x].pc = "match"
    /\ wk[x].pos \in Positions(wk[x].group)

\* Unknown, disabled, outside its time ranges or symbols: the counter is not touched.
Ineligible(x) ==
    /\ AtAccount(x)
    /\ wk' = [wk EXCEPT ![x].pos = @ + 1]
    /\ UNCHANGED <<counters, clock, signals, turns>>

\* checkSkip, first half: the count starts over a while after its first skip.
Expired(a) == skipStart[a] # NotStarted /\ clock - skipStart[a] > ResetAfter
SeenSkip(a) == IF Expired(a) THEN 0 ELSE seenSkip[a]
SkipStart(a) == IF Expired(a) THEN NotStarted ELSE skipStart[a]

\* Mutant of MustSkip: skips one signal too few.
SkipOneLess(x, a) == wk[x].applySkip /\ SeenSkip(a) + 1 < SkipSignals[a]

MustSkip(x, a) == wk[x].applySkip /\ SeenSkip(a) < SkipSignals[a]

\* checkSkip, second half: the signal uses up one skip.
Skip(x) ==
    LET a == Current(x) IN
    /\ AtAccount(x) /\ MustSkip(x, a)
    /\ seenSkip' = [seenSkip EXCEPT ![a] = SeenSkip(a) + 1]
    /\ skipStart' = [skipStart EXCEPT ![a] = IF SeenSkip(a) = 0 THEN clock ELSE @]
    /\ skipped' = [skipped EXCEPT ![a] = IF Expired(a) THEN 1 ELSE @ + 1]
    /\ wk' = [wk EXCEPT ![x].pos = @ + 1]
    /\ UNCHANGED <<clock, signals, turns>>

\* The account takes the signal, if an amount can be found for it.
Match(x, balance) ==
    LET a == Current(x)
        checks == wk[x].applySkip /\ SkipSignals[a] > 0
    IN  /\ AtAccount(x) /\ ~MustSkip(x, a)
        /\ seenSkip' = IF checks THEN [seenSkip EXCEPT ![a] = SeenSkip(a)] ELSE seenSkip
        /\ skipStart' = IF checks THEN [skipStart EXCEPT ![a] = SkipStart(a)] ELSE skipStart
        /\ skipped' = IF checks /\ Expired(a) THEN [skipped EXCEPT ![a] = 0] ELSE skipped
        /\ wk' = [wk EXCEPT ![x].pos = @ + 1,
                            ![x].matched = IF DynamicAmount(Binding[a], balance).ok
                                           THEN Append(@, a) ELSE @]
        /\ UNCHANGED <<clock, signals, turns>>

\* The next group of the strategy, or the end of the signal.
NextGroup(x) ==
    LET next == wk[x].group + 1 IN
    wk' = [wk EXCEPT ![x] =
              IF next > Len(Groups) THEN Idle
              ELSE [wk[x] EXCEPT !.group = next, !.pos = 1, !.matched = <<>>]]

\* pickRoundRobinGroupAccount: only the matched accounts of highest priority, in order.
Highest(matched) ==
    {i \in DOMAIN matched : \A j \in DOMAIN matched : Priority[matched[j]] <= Priority[matched[i]]}
Rank(P, i) == Cardinality({j \in P : j <= i})
TopTier(matched) ==
    LET P == Highest(matched)
    IN  [k \in 1..Cardinality(P) |-> matched[CHOOSE i \in P : Rank(P, i) = k]]

\* Mutant of RRIndex: off by one: the last account has no turn.
RRSkipsLast(g, n) == IF n <= 2 THEN 1 ELSE (rrCursor[g] % (n - 1)) + 1

\* nextRoundRobinIndex (from 1 here); a single candidate leaves the cursor alone.
RRIndex(g, n) == IF n <= 1 THEN 1 ELSE (rrCursor[g] % n) + 1
RRAdvance(g, n) == IF n <= 1 THEN rrCursor ELSE [rrCursor EXCEPT ![g] = RRIndex(g, n) % n]

PickRoundRobin(g, matched) ==
    LET tier == TopTier(matched)
    IN  /\ rrCursor' = RRAdvance(g, Len(tier))
        /\ picks' = [picks EXCEPT ![g][tier[RRIndex(g, Len(tier))]] = @ + 1]

PickAny(g, matched) ==
    /\ \E i \in DOMAIN matched : picks' = [picks EXCEPT ![g][matched[i]] = @ + 1]
    /\ UNCHANGED rrCursor

PickAll(g, matched) ==
    /\ picks' = [picks EXCEPT ![g] = [a \in Accounts |->
                    @[a] + Cardinality({i \in DOMAIN matched : matched[i] = a})]]
    /\ UNCHANGED rrCursor

\* The top tier of a group when every account matches.
FullTier(g) == TopTier(Groups[g].accounts)

\* dispatchGroup, once all accounts of the group have been looked at.
DispatchGroup(x) ==
    LET g == wk[x].group
        matched == wk[x].matched
    IN  /\ wk[x].pc = "match" /\ ~AtAccount(x)
        /\ NextGroup(x)
        /\ \/ matched = <<>> /\ UNCHANGED <<rrCursor, picks>>
           \/ matched # <<>> /\ Groups[g].mode = "round-robin" /\ PickRoundRobin(g, matched)
           \/ matched # <<>> /\ Groups[g].mode = "one" /\ PickAny(g, matched)
           \/ matched # <<>> /\ Groups[g].mode = "all" /\ PickAll(g, matched)
        /\ partial' = IF TopTier(matched) = FullTier(g) THEN partial ELSE partial \cup {g}
        /\ UNCHANGED <<counters, clock, signals>>

Next ==
    \/ Tick
    \/ \E x \in Workers :
          \/ \E applySkip \in BOOLEAN : Arrive(x, applySkip)
          \/ Ineligible(x) \/ Skip(x)
          \/ \E balance \in Balances : Match(x, balance)
          \/ DispatchGroup(x)

Spec == Init /\ [][Next]_vars

-----------------------------------------------------------------------------
(* Properties.                                                               *)

Members(s) == {s[i] : i \in DOMAIN s}

\* An account that a group lists twice has two turns.
ListedOnce(s) == \A i, j \in DOMAIN s : s[i] = s[j] => i = j

\* Signals handled at the same time share the rotation: as long as its whole
\* top tier matches, no account of a round-robin group is picked twice more
\* often than another one of the tier, and lower priorities are not picked.
RoundRobinEven ==
    \A g \in GroupIds \ partial : Groups[g].mode = "round-robin" /\ ListedOnce(FullTier(g)) =>
        /\ \A a, b \in Members(FullTier(g)) : picks[g][a] <= picks[g][b] + 1
        /\ \A a \in Accounts \ Members(FullTier(g)) : picks[g][a] = 0

\* An account takes a signal that is subject to skipping only after its whole
\* quota has been skipped since the count last started, also when two signals
\* are handled at the same time.
QuotaFirst ==
    [][ \A x \in Workers :
          (wk[x].pc = "match" /\ wk[x].applySkip /\ Len(wk'[x].matched) > Len(wk[x].matched))
             => LET a == Current(x) IN skipped[a] >= SkipSignals[a] ]_vars

\* "balance x percent%, floored at minAmount and capped at maxAmount": whatever the
\* balance, the amount is the allowed one nearest to the share, and every limit is kept
\* but for its own rounding to a tenth, against the comment on dynamicAmount
\* (processor.go:452-458): a cap of 10.25 lets 10.3 through, a floor of 0.04 lets 0.0.
NearestAllowed == signals > 0 => Missized = {}

\* Whatever is known of the balances of the matched accounts, debts and nothing among
\* it, the draw is at most three to one, in favour of the poorer account, and no
\* account is left out at either end of the range.  Against processor.go:93-95 and
\* 291-292, accounts of TurboFlow and HiBT are weighted like those of Binance.
WeightsAreFair == signals > 0 => Unfair = {}

\* However the accounts of a group are bound, no order of a strategy is sent with the
\* amount of another account, or to one without a safe amount: through the sorting by
\* priority, in every mode, and on the way from one failed account to the next.
\* Without a strategy this is so only in mode all and for accounts that have an amount;
\* which amount the others get, against processor.go:239-240 and 456-458, is exact.
OwnUnlessFlat == signals > 0 => Mixed = {}
=============================================================================
