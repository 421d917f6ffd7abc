--------------------------- MODULE DispatchProofs ---------------------------
(* Proofs about Dispatch: for any accounts, groups, bindings and balances    *)
(* and any number of goroutines; and about the weighted draw, for any        *)
(* number of matched accounts, and the amounts of orders.                    *)
EXTENDS Dispatch, FiniteSetTheorems, FunctionTheorems, SequenceTheorems,
        WellFoundedInduction, TLAPS

\* A set of natural numbers has a least element.
LEMMA LeastNat == ASSUME NEW S \in SUBSET Nat, S # {} PROVE \E n \in S : \A m \in S : n <= m
<1> DEFINE R == OpToRel(<, Nat)
<1>1. IsWellFoundedOn(R, Nat)
  BY NatLessThanWellFounded
<1>2. \A x, y \in Nat : <<y, x>> \in R <=> y < x
  BY DEF OpToRel
<1> HIDE DEF R
<1>3. PICK x \in S : \A y \in S : <<y, x>> \notin R
  BY <1>1, WFMin
<1>4. \A y \in S : ~(y < x)
  BY <1>2, <1>3
<1>5. \A y \in S : x <= y
  BY <1>4
<1> QED
  BY <1>5

-----------------------------------------------------------------------------
(* Sizing: the amount that a goroutine orders with.                          *)

\* Rounding to a tenth, for a value between a floor and a cap: either of them is missed
\* only by its own rounding.
LEMMA RoundingBound ==
    ASSUME NEW v \in Nat
    PROVE  /\ FormatAmount(v) \in Nat
           /\ FormatAmount(v) = 0 => v < 500
           /\ \A max \in Nat : (v <= max * 100 /\ FormatAmount(v) > max) =>
                 max % 10 >= 5 /\ FormatAmount(v) = max + 10 - (max % 10)
           /\ \A min \in Nat : (v >= min * 100 /\ FormatAmount(v) < min) =>
                 min % 10 \in 1..4 /\ FormatAmount(v) = min - (min % 10)
<1> DEFINE q == (v + 500) \div 1000
<1>1. q \in Nat /\ 1000 * q <= v + 500 /\ v + 500 < 1000 * q + 1000
  OBVIOUS
<1>2. FormatAmount(v) = q * 10
  BY DEF FormatAmount
<1>3. ASSUME NEW limit \in Nat
      PROVE  \E k \in Nat, r \in 0..9 : limit = 10 * k + r /\ limit % 10 = r
  <2>1. limit \div 10 \in Nat /\ limit % 10 \in 0..9
    OBVIOUS
  <2>2. limit = 10 * (limit \div 10) + (limit % 10)
    OBVIOUS
  <2> QED
    BY <2>1, <2>2
<1> HIDE DEF q
<1>4. q * 10 = 0 => v < 500
  BY <1>1
<1>5. ASSUME NEW max \in Nat, v <= max * 100, q * 10 > max
      PROVE  max % 10 >= 5 /\ q * 10 = max + 10 - (max % 10)
  <2>1. PICK k \in Nat, r \in 0..9 : max = 10 * k + r /\ max % 10 = r
    BY <1>3
  <2>2. 10 * k + r < 10 * q /\ 10 * q <= 10 * k + r + 5
    BY <1>1, <1>5, <2>1
  <2>3. q = k + 1
    BY <1>1, <2>2
  <2> QED
    BY <2>1, <2>2, <2>3
<1>6. ASSUME NEW min \in Nat, v >= min * 100, q * 10 < min
      PROVE  min % 10 \in 1..4 /\ q * 10 = min - (min % 10)
  <2>1. PICK k \in Nat, r \in 0..9 : min = 10 * k + r /\ min % 10 = r
    BY <1>3
  <2>2. 10 * k + r - 5 < 10 * q /\ 10 * q < 10 * k + r
    BY <1>1, <1>6, <2>1
  <2>3. q = k
    BY <1>1, <2>2
  <2> QED
    BY <2>1, <2>2, <2>3
<1> QED
  BY <1>1, <1>2, <1>4, <1>5, <1>6

\* Floor and cap of a share: an allowed value, and of the values concerned the
\* one nearest to the share.
LEMMA CappedIsNearest ==
    ASSUME NEW b \in Bindings, NEW s \in Nat
    PROVE  /\ Capped(b, Floored(b, s)) \in {s, b.min * 100, b.max * 100}
           /\ Capped(b, Floored(b, s)) \in Nat
           /\ Nearest(b, Capped(b, Floored(b, s)), s)
<1>1. b.min \in Nat /\ b.max \in Nat /\ (b.min > 0 /\ b.max > 0 => b.min <= b.max)
  BY SizingAssumption DEF Bindings
<1>2. CASE b.min > 0 /\ s < b.min * 100
  <2>1. Floored(b, s) = b.min * 100
    BY <1>2 DEF Floored
  <2>2. Capped(b, b.min * 100) = b.min * 100
    BY <1>1, <1>2 DEF Capped
  <2> QED
    BY <1>1, <1>2, <2>1, <2>2 DEF Nearest, Allowed, Distance
<1>3. CASE ~(b.min > 0 /\ s < b.min * 100) /\ b.max > 0 /\ s > b.max * 100
  <2>1. Floored(b, s) = s
    BY <1>3 DEF Floored
  <2>2. Capped(b, s) = b.max * 100
    BY <1>3 DEF Capped
  <2> QED
    BY <1>1, <1>3, <2>1, <2>2 DEF Nearest, Allowed, Distance
<1>4. CASE ~(b.min > 0 /\ s < b.min * 100) /\ ~(b.max > 0 /\ s > b.max * 100)
  <2>1. Capped(b, Floored(b, s)) = s
    BY <1>4 DEF Floored, Capped
  <2> QED
    BY <1>1, <1>4, <2>1 DEF Nearest, Allowed, Distance
<1> QED
  BY <1>2, <1>3, <1>4

\* Little is left only of a small cap, or of a small share with no floor to speak of.
LEMMA SmallCapped ==
    ASSUME NEW b \in Bindings, NEW s \in Nat, Capped(b, Floored(b, s)) < 500
    PROVE  (b.max > 0 /\ b.max < 5) \/ (b.min < 5 /\ s < 500)
<1>1. b.min \in Nat /\ b.max \in Nat
  BY SizingAssumption DEF Bindings
<1>2. CASE b.min > 0 /\ s < b.min * 100
  BY <1>1, <1>2 DEF Capped, Floored
<1>3. CASE ~(b.min > 0 /\ s < b.min * 100)
  <2>1. Floored(b, s) = s
    BY <1>3 DEF Floored
  <2>2. CASE b.max > 0 /\ s > b.max * 100
    BY <1>1, <1>3, <2>1, <2>2 DEF Capped
  <2>3. CASE ~(b.max > 0 /\ s > b.max * 100)
    BY <1>1, <1>3, <2>1, <2>3 DEF Capped
  <2> QED
    BY <2>2, <2>3
<1> QED
  BY <1>2, <1>3

LEMMA KnownShare ==
    ASSUME NEW b \in Bindings, NEW balance \in Balances, b.percent > 0, ~Unknown(balance)
    PROVE  Share(b, balance) \in Nat /\ DynamicAmount(b, balance) = OfBalance(b, balance)
<1>1. balance \in Nat
  BY SizingAssumption DEF Unknown, None
<1>2. b.percent \in 0..100
  BY SizingAssumption DEF Bindings
<1>3. ~(b.percent <= 0)
  BY <1>2
<1> QED
  BY <1>1, <1>2, <1>3 DEF Share, DynamicAmount

\* "balance x percent%, floored at minAmount and capped at maxAmount" (comment of
\* dynamicAmount), for every binding that the configuration accepts: the amount is the
\* rounding of the nearest allowed value, and misses a limit only by that limit's rounding.
THEOREM EverySizeIsNearest ==
    ASSUME NEW b \in Bindings, NEW balance \in Balances
    PROVE  SizedNearest(b, balance) /\ KeepsLimits(b, balance)
<1> DEFINE s == Share(b, balance)
           v == Capped(b, Floored(b, s))
           sized == DynamicAmount(b, balance)
<1>1. /\ b.min \in Nat /\ b.max \in Nat /\ (b.min > 0 /\ b.max > 0 => b.min <= b.max)
      /\ b.percent \in Int
  <2>1. b.min \in Nat /\ b.max \in Nat /\ (b.min > 0 /\ b.max > 0 => b.min <= b.max)
    BY SizingAssumption DEF Bindings
  <2>2. b.percent \in 0..100
    BY SizingAssumption DEF Bindings
  <2> QED
    BY <2>1, <2>2
<1>2. ASSUME b.percent > 0, ~Unknown(balance), sized.ok
      PROVE  /\ s \in Nat /\ v \in Nat /\ v \in {s, b.min * 100, b.max * 100} /\ Nearest(b, v, s)
             /\ sized.amount = FormatAmount(v)
  <2>1. s \in Nat /\ sized = OfBalance(b, balance)
    BY <1>2, KnownShare
  <2> HIDE DEF s
  <2>2. v \in Nat /\ v \in {s, b.min * 100, b.max * 100} /\ Nearest(b, v, s)
    BY <2>1, CappedIsNearest
  <2>3. sized = Sized(FormatAmount(v))
    BY <1>2, <2>1 DEF OfBalance, Skipped, s
  <2> QED
    BY <2>1, <2>2, <2>3 DEF Sized
<1>3. SizedNearest(b, balance)
  BY <1>2 DEF SizedNearest
<1>4. ASSUME NEW x \in Nat, sized.amount = FormatAmount(x),
             b.min > 0 => x >= b.min * 100, b.max > 0 => x <= b.max * 100,
             x < 500 => \/ b.max > 0 /\ b.max < 5
                        \/ b.min < 5 /\ (Unknown(balance) \/ s < 500)
      PROVE  KeepsLimits(b, balance)
  <2>1. FormatAmount(x) = 0 => x < 500
    BY RoundingBound
  <2>2. (b.max > 0 /\ sized.amount > b.max) =>
           b.max % 10 >= 5 /\ sized.amount = b.max + 10 - (b.max % 10)
    BY <1>1, <1>4, RoundingBound
  <2>3. (b.min > 0 /\ sized.amount < b.min) =>
           b.min % 10 \in 1..4 /\ sized.amount = b.min - (b.min % 10)
    BY <1>1, <1>4, RoundingBound
  <2>4. sized.amount = 0 => \/ b.max > 0 /\ b.max < 5
                            \/ b.min < 5 /\ (Unknown(balance) \/ s < 500)
    BY <1>4, <2>1
  <2> HIDE DEF s
  <2> QED
    BY <2>2, <2>3, <2>4 DEF KeepsLimits, s
<1>5. KeepsLimits(b, balance)
  <2>1. CASE b.percent > 0 /\ sized.ok /\ ~Unknown(balance)
    <3>1. /\ s \in Nat /\ v \in Nat /\ sized.amount = FormatAmount(v) /\ Allowed(b, v)
          /\ v < 500 => (b.max > 0 /\ b.max < 5) \/ (b.min < 5 /\ s < 500)
      BY <1>2, <2>1, SmallCapped DEF Nearest
    <3> HIDE DEF s, v, sized
    <3> QED
      BY <1>4, <3>1 DEF Allowed
  <2>2. CASE b.percent > 0 /\ sized.ok /\ Unknown(balance) /\ b.min > 0
    <3>1. sized = Sized(FormatAmount(b.min * 100))
      BY <1>1, <2>2 DEF DynamicAmount, WithoutBalance
    <3>2. sized.amount = FormatAmount(b.min * 100) /\ b.min * 100 \in Nat
      BY <1>1, <3>1 DEF Sized
    <3>3. (b.max > 0 => b.min * 100 <= b.max * 100) /\ (b.min * 100 < 500 => b.min < 5)
      BY <1>1, <2>2
    <3> HIDE DEF s, sized
    <3> QED
      BY <1>1, <1>4, <2>2, <3>2, <3>3
  <2>3. CASE ~(b.percent > 0 /\ sized.ok /\ (~Unknown(balance) \/ b.min > 0))
    BY <2>3 DEF KeepsLimits
  <2> QED
    BY <2>1, <2>2, <2>3
<1> QED
  BY <1>3, <1>5

\* ... and so for every binding and balance that dispatch may size an order with
\* (processor.go, groupMatchedAccounts and amountForTask).
THEOREM AmountsAllowed == Spec => []NearestAllowed
<1>1. NearestAllowed
  BY EverySizeIsNearest DEF NearestAllowed, Missized
<1> QED
  BY <1>1, PTL

-----------------------------------------------------------------------------
(* Choosing accounts.                                                        *)

\* A goroutine is always at some group of the strategy, and what it has matched
\* are accounts.
Worker == [pc : {"idle", "match"}, group : GroupIds, pos : Nat,
           matched : Seq(Accounts), applySkip : BOOLEAN]
WorkersOk == wk \in [Workers -> Worker]

\* A goroutine that is at an account of its group is at a configured one.
LEMMA AccountAt ==
    ASSUME WorkersOk, NEW x \in Workers, AtAccount(x)
    PROVE  Current(x) \in Accounts
<1>1. wk[x].group \in DOMAIN Groups
  BY DEF WorkersOk, Worker, GroupIds
<1>2. Groups[wk[x].group].accounts \in Seq(Accounts)
  <2>1. Groups[wk[x].group] \in GroupConfig
    BY <1>1, DispatchAssumption
  <2> QED
    BY <2>1 DEF GroupConfig
<1>3. wk[x].pos \in DOMAIN Groups[wk[x].group].accounts
  BY DEF AtAccount, Positions
<1> QED
  BY <1>2, <1>3 DEF Current

\* A goroutine between two signals is in a legal state.
LEMMA IdleIsWorker == Idle \in Worker
<1>1. 1 \in GroupIds
  BY DispatchAssumption DEF GroupIds
<1>2. <<>> \in Seq(Accounts)
  OBVIOUS
<1> QED
  BY <1>1, <1>2 DEF Idle, Worker

\* Looking at the next account leaves a goroutine in a legal state.
LEMMA WorkerMoves ==
    ASSUME NEW w \in Worker, NEW p \in Nat
    PROVE  /\ [w EXCEPT !.pos = p] \in Worker
           /\ \A m \in Seq(Accounts) :
                 /\ [w EXCEPT !.pos = p, !.matched = m] \in Worker
                 /\ \A g \in GroupIds : [w EXCEPT !.group = g, !.pos = p, !.matched = m] \in Worker
  BY DEF Worker

\* All goroutines start in a legal state.
LEMMA WorkersOkInit == Init => WorkersOk
<1> SUFFICES ASSUME Init PROVE WorkersOk
  OBVIOUS
<1> QED
  BY IdleIsWorker DEF Init, WorkersOk

\* No step of any goroutine takes one out of its legal states.
LEMMA WorkersOkStep == WorkersOk /\ [Next]_vars => WorkersOk'
<1> SUFFICES ASSUME WorkersOk, [Next]_vars PROVE WorkersOk'
  OBVIOUS
<1>1. CASE Tick
  BY <1>1 DEF Tick, WorkersOk
<1>2. ASSUME NEW x \in Workers, NEW applySkip \in BOOLEAN, Arrive(x, applySkip)
      PROVE WorkersOk'
  <2>1. [Idle EXCEPT !.pc = "match", !.applySkip = applySkip] \in Worker
    BY IdleIsWorker DEF Worker
  <2> QED
    BY <1>2, <2>1 DEF Arrive, WorkersOk
<1>3. ASSUME NEW x \in Workers, wk' = [wk EXCEPT ![x].pos = @ + 1] PROVE WorkersOk'
  <2>1. wk[x] \in Worker /\ wk[x].pos + 1 \in Nat
    BY DEF WorkersOk, Worker
  <2>2. [wk[x] EXCEPT !.pos = wk[x].pos + 1] \in Worker
    BY <2>1, WorkerMoves
  <2> QED
    BY <1>3, <2>2 DEF WorkersOk
<1>4. ASSUME NEW x \in Workers, Ineligible(x) \/ Skip(x) PROVE WorkersOk'
  BY <1>3, <1>4 DEF Ineligible, Skip
<1>5. ASSUME NEW x \in Workers, NEW balance \in Balances, Match(x, balance) PROVE WorkersOk'
  <2>1. Current(x) \in Accounts
    BY <1>5, AccountAt DEF Match
  <2>2. wk[x] \in Worker /\ wk[x].pos + 1 \in Nat
    BY DEF WorkersOk, Worker
  <2>3. ASSUME NEW m \in Seq(Accounts)
        PROVE [wk[x] EXCEPT !.pos = wk[x].pos + 1, !.matched = m] \in Worker
    BY <2>2, WorkerMoves
  <2>4. Append(wk[x].matched, Current(x)) \in Seq(Accounts) /\ wk[x].matched \in Seq(Accounts)
    BY <2>1, <2>2 DEF Worker
  <2>5. PICK m \in Seq(Accounts) :
          wk' = [wk EXCEPT ![x] = [wk[x] EXCEPT !.pos = wk[x].pos + 1, !.matched = m]]
    BY <1>5, <2>4 DEF Match
  <2> QED
    BY <2>3, <2>5 DEF WorkersOk
<1>6. ASSUME NEW x \in Workers, DispatchGroup(x) PROVE WorkersOk'
  <2>2. /\ wk[x] \in Worker
        /\ ~(wk[x].group + 1 > Len(Groups)) => wk[x].group + 1 \in GroupIds
    BY DispatchAssumption DEF Worker, WorkersOk, GroupIds
  <2>3. ~(wk[x].group + 1 > Len(Groups)) =>
          [wk[x] EXCEPT !.group = wk[x].group + 1, !.pos = 1, !.matched = <<>>] \in Worker
    <3>1. <<>> \in Seq(Accounts)
      OBVIOUS
    <3> QED
      BY <2>2, <3>1, WorkerMoves
  <2> QED
    BY <1>6, IdleIsWorker, <2>3 DEF DispatchGroup, NextGroup, WorkersOk
<1>7. CASE UNCHANGED vars
  BY <1>7 DEF vars, WorkersOk
<1> QED
  BY <1>1, <1>2, <1>3, <1>4, <1>5, <1>6, <1>7 DEF Next

-----------------------------------------------------------------------------
(* The quota.                                                                *)

\* The skip counter of an account is the number of signals it has skipped since the
\* counter last started.
SkipsCounted ==
    /\ seenSkip \in [Accounts -> Nat] /\ skipped \in [Accounts -> Nat]
    /\ \A a \in Accounts : skipped[a] = seenSkip[a]

\* The counter is right at the start.
LEMMA SkipsCountedInit == Init => SkipsCounted
BY DEF Init, SkipsCounted

\* No step makes a counter differ from what was skipped, restarts of it included.
LEMMA SkipsCountedStep == WorkersOk /\ SkipsCounted /\ [Next]_vars => SkipsCounted'
<1> SUFFICES ASSUME WorkersOk, SkipsCounted, [Next]_vars PROVE SkipsCounted'
  OBVIOUS
<1>1. ASSUME UNCHANGED <<seenSkip, skipped>> PROVE SkipsCounted'
  BY <1>1 DEF SkipsCounted
<1>2. ASSUME NEW x \in Workers, Skip(x) PROVE SkipsCounted'
  <2> DEFINE a == Current(x)
  <2>1. a \in Accounts
    BY <1>2, AccountAt DEF Skip
  <2>2. /\ seenSkip' = [seenSkip EXCEPT ![a] = SeenSkip(a) + 1]
        /\ skipped' = [skipped EXCEPT ![a] = IF Expired(a) THEN 1 ELSE skipped[a] + 1]
    BY <1>2 DEF Skip
  <2>3. SeenSkip(a) \in Nat /\ SeenSkip(a) + 1 = (IF Expired(a) THEN 1 ELSE skipped[a] + 1)
    BY <2>1 DEF SkipsCounted, SeenSkip
  <2> HIDE DEF a
  <2> QED
    BY <2>1, <2>2, <2>3 DEF SkipsCounted
<1>3. ASSUME NEW x \in Workers, NEW balance \in Balances, Match(x, balance) PROVE SkipsCounted'
  <2> DEFINE a == Current(x)
             checks == wk[x].applySkip /\ SkipSignals[a] > 0
  <2>1. a \in Accounts
    BY <1>3, AccountAt DEF Match
  <2>2. /\ seenSkip' = IF checks THEN [seenSkip EXCEPT ![a] = SeenSkip(a)] ELSE seenSkip
        /\ skipped' = IF checks /\ Expired(a) THEN [skipped EXCEPT ![a] = 0] ELSE skipped
    BY <1>3 DEF Match
  <2>3. SeenSkip(a) = IF Expired(a) THEN 0 ELSE skipped[a]
    BY <2>1 DEF SkipsCounted, SeenSkip
  <2> HIDE DEF a, checks
  <2>4. CASE checks /\ Expired(a)
    BY <2>1, <2>2, <2>3, <2>4 DEF SkipsCounted
  <2>5. CASE ~(checks /\ Expired(a))
    BY <2>1, <2>2, <2>3, <2>5 DEF SkipsCounted
  <2> QED
    BY <2>4, <2>5
<1> QED
  BY <1>1, <1>2, <1>3 DEF Next, vars, Tick, Arrive, Ineligible, DispatchGroup, counters

\* Only the goroutine that matches an account adds it, after the skips of its quota.
LEMMA MatchAfterQuota ==
    ASSUME WorkersOk, SkipsCounted, [Next]_vars, NEW x \in Workers,
           wk[x].pc = "match", wk[x].applySkip, Len(wk'[x].matched) > Len(wk[x].matched)
    PROVE  skipped[Current(x)] >= SkipSignals[Current(x)]
<1>1. ASSUME wk'[x].matched = wk[x].matched PROVE FALSE
  <2>1. Len(wk[x].matched) \in Nat
    BY DEF WorkersOk, Worker
  <2> QED
    BY <1>1, <2>1
<1>2. CASE Tick \/ UNCHANGED vars
  BY <1>1, <1>2 DEF Tick, vars
<1>3. ASSUME NEW y \in Workers, NEW applySkip \in BOOLEAN, Arrive(y, applySkip) PROVE FALSE
  BY <1>1, <1>3 DEF Arrive, WorkersOk
<1>4. ASSUME NEW y \in Workers, Ineligible(y) \/ Skip(y) PROVE FALSE
  <2>1. wk' = [wk EXCEPT ![y].pos = wk[y].pos + 1]
    BY <1>4 DEF Ineligible, Skip
  <2>2. wk[x] \in Worker /\ wk[y] \in Worker
    BY DEF WorkersOk
  <2> QED
    BY <1>1, <2>1, <2>2 DEF WorkersOk, Worker
<1>5. ASSUME NEW y \in Workers, NEW balance \in Balances, Match(y, balance)
      PROVE skipped[Current(x)] >= SkipSignals[Current(x)]
  <2>1. y = x
    BY <1>1, <1>5 DEF Match, WorkersOk
  <2>2. Current(x) \in Accounts
    BY <1>5, <2>1, AccountAt DEF Match
  <2>3. ~(SeenSkip(Current(x)) < SkipSignals[Current(x)])
    BY <1>5, <2>1 DEF Match, MustSkip
  <2> QED
    BY <2>2, <2>3, DispatchAssumption DEF SeenSkip, SkipsCounted
<1>6. ASSUME NEW y \in Workers, DispatchGroup(y) PROVE FALSE
  <2>1. y = x \/ wk'[x] = wk[x]
    BY <1>6 DEF DispatchGroup, NextGroup, WorkersOk
  <2>2. wk[x] \in Worker
    BY DEF WorkersOk
  <2>3. y = x => wk'[x].matched = <<>>
    BY <1>6, <2>2 DEF DispatchGroup, NextGroup, WorkersOk, Worker, Idle
  <2> QED
    BY <1>1, <2>1, <2>2, <2>3 DEF Worker
<1> QED
  BY <1>2, <1>3, <1>4, <1>5, <1>6 DEF Next

\* An account takes a signal only after its whole quota has been skipped (checkSkip),
\* for any number of goroutines that share the counters.
THEOREM QuotaIsFirst == Spec => QuotaFirst
<1>1. WorkersOk /\ SkipsCounted /\ [Next]_vars =>
        [ \A x \in Workers :
            (wk[x].pc = "match" /\ wk[x].applySkip /\ Len(wk'[x].matched) > Len(wk[x].matched))
               => LET a == Current(x) IN skipped[a] >= SkipSignals[a] ]_vars
  BY MatchAfterQuota
<1> QED
  BY <1>1, WorkersOkInit, WorkersOkStep, SkipsCountedInit, SkipsCountedStep, PTL DEF Spec, QuotaFirst

-----------------------------------------------------------------------------
(* The rotation.                                                             *)

\* The ranks of the members of a finite set of positions are 1, 2, ... without a gap.
LEMMA EveryRankTaken ==
    ASSUME NEW n \in Nat, NEW P \in SUBSET (1..n)
    PROVE  /\ IsFiniteSet(P) /\ Cardinality(P) \in Nat
           /\ \A k \in 1..Cardinality(P) : \E i \in P : Rank(P, i) = k
<1>1. IsFiniteSet(P) /\ Cardinality(P) \in Nat /\ \A i \in P : i \in Nat
  <2>1. IsFiniteSet(1..n)
    BY FS_Interval
  <2>2. IsFiniteSet(P)
    BY <2>1, FS_Subset
  <2>3. \A i \in P : i \in Nat
    OBVIOUS
  <2> QED
    BY <2>2, <2>3, FS_CardinalityType
<1> DEFINE rank == [i \in P |-> Rank(P, i)]
           upto(i) == {j \in P : j <= i}
<1>2. ASSUME NEW i \in P
      PROVE  /\ IsFiniteSet(upto(i)) /\ upto(i) \in SUBSET P
             /\ rank[i] = Cardinality(upto(i)) /\ rank[i] \in 1..Cardinality(P)
  <2>1. upto(i) \in SUBSET P /\ i \in upto(i) /\ rank[i] = Cardinality(upto(i))
    BY DEF Rank
  <2> HIDE DEF upto, rank
  <2>2. IsFiniteSet(upto(i)) /\ Cardinality(upto(i)) <= Cardinality(P)
    BY <1>1, <2>1, FS_Subset
  <2>3. Cardinality(upto(i)) \in Nat /\ Cardinality(upto(i)) # 0
    BY <2>1, <2>2, FS_CardinalityType, FS_EmptySet
  <2> QED
    BY <1>1, <2>1, <2>2, <2>3
<1>3. ASSUME NEW i \in P, NEW j \in P, i < j PROVE rank[i] # rank[j]
  <2>1. upto(i) \in SUBSET upto(j) /\ j \in upto(j) /\ j \notin upto(i)
    <3>1. i \in Nat /\ j \in Nat /\ \A x \in P : x \in Nat
      BY <1>1
    <3>2. \A x \in P : x <= i => x <= j
      BY <1>3, <3>1
    <3>3. i <= j /\ j <= j /\ ~(j <= i)
      BY <1>3, <3>1
    <3> QED
      BY <3>2, <3>3
  <2> HIDE DEF upto, rank
  <2>2. Cardinality(upto(i)) # Cardinality(upto(j))
    BY <1>2, <2>1, FS_Subset
  <2> QED
    BY <1>2, <2>2
<1>4. rank \in [P -> 1..Cardinality(P)]
  BY <1>2
<1>5. \A i, j \in P : rank[i] = rank[j] => i = j
  BY <1>3
<1>6. rank \in Injection(P, 1..Cardinality(P))
  <2> HIDE DEF rank
  <2> QED
    BY <1>4, <1>5, Fun_IsInj
<1>7. IsFiniteSet(1..Cardinality(P)) /\ Cardinality(1..Cardinality(P)) = Cardinality(P)
  BY <1>1, FS_Interval
<1>8. rank \in Surjection(P, 1..Cardinality(P))
  BY <1>6, <1>7, FS_Injection
<1>9. \A k \in 1..Cardinality(P) : \E i \in P : rank[i] = k
  BY <1>8 DEF Surjection
<1> QED
  BY <1>1, <1>9

\* Among finitely many matched accounts one has the highest priority.
LEMMA SomeHighest ==
    ASSUME NEW m \in Seq(Accounts), m # <<>>
    PROVE  Highest(m) # {}
<1> DEFINE pri(i) == Priority[m[i]]
           above(i) == {j \in DOMAIN m : pri(j) > pri(i)}
           sizes == {Cardinality(above(i)) : i \in DOMAIN m}
<1>1. /\ DOMAIN m = 1..Len(m) /\ Len(m) \in Nat \ {0} /\ IsFiniteSet(DOMAIN m)
  BY FS_Interval
<1>2. \A i \in DOMAIN m : pri(i) \in Int
  BY DispatchAssumption
<1>3. \A i \in DOMAIN m : IsFiniteSet(above(i)) /\ Cardinality(above(i)) \in Nat
  BY <1>1, FS_Subset, FS_CardinalityType
<1>4. PICK i \in DOMAIN m : \A j \in DOMAIN m : Cardinality(above(i)) <= Cardinality(above(j))
  <2>1. sizes \in SUBSET Nat /\ Cardinality(above(1)) \in sizes
    <3>1. 1 \in DOMAIN m
      BY <1>1
    <3> HIDE DEF above
    <3> QED
      BY <1>3, <3>1
  <2>2. PICK n \in sizes : \A k \in sizes : n <= k
    BY <2>1, LeastNat
  <2> QED
    BY <2>2
<1>5. \A j \in DOMAIN m : pri(j) <= pri(i)
  <2> SUFFICES ASSUME NEW j \in DOMAIN m, pri(j) > pri(i) PROVE FALSE
    BY <1>2
  <2>1. above(j) \in SUBSET above(i) /\ j \in above(i) /\ j \notin above(j)
    BY <1>2
  <2> HIDE DEF above, pri
  <2>2. /\ Cardinality(above(j)) <= Cardinality(above(i))
        /\ Cardinality(above(i)) # Cardinality(above(j))
    BY <1>3, <2>1, FS_Subset
  <2> QED
    BY <1>3, <1>4, <2>2
<1> QED
  BY <1>5 DEF Highest

\* The top tier of some matched accounts are some of them.
LEMMA TierOfMatched ==
    ASSUME NEW m \in Seq(Accounts)
    PROVE  /\ TopTier(m) \in Seq(Accounts)
           /\ DOMAIN TopTier(m) = 1..Len(TopTier(m)) /\ Len(TopTier(m)) \in Nat
           /\ m # <<>> => Len(TopTier(m)) # 0
<1> DEFINE P == Highest(m)
<1>1. Len(m) \in Nat /\ P \in SUBSET (1..Len(m)) /\ \A i \in P : m[i] \in Accounts
  BY DEF Highest
<1>2. m # <<>> => P # {}
  BY SomeHighest
<1> HIDE DEF P
<1>3. /\ IsFiniteSet(P) /\ Cardinality(P) \in Nat
      /\ \A k \in 1..Cardinality(P) : \E i \in P : Rank(P, i) = k
  BY <1>1, EveryRankTaken
<1>4. TopTier(m) = [k \in 1..Cardinality(P) |-> m[CHOOSE i \in P : Rank(P, i) = k]]
  BY DEF TopTier, P
<1>5. \A k \in 1..Cardinality(P) : m[CHOOSE i \in P : Rank(P, i) = k] \in Accounts
  BY <1>1, <1>3
<1>6. TopTier(m) \in [1..Cardinality(P) -> Accounts]
  BY <1>4, <1>5
<1>7. TopTier(m) \in Seq(Accounts) /\ Len(TopTier(m)) = Cardinality(P)
  BY <1>3, <1>6
<1>8. m # <<>> => Cardinality(P) # 0
  BY <1>2, <1>3, FS_EmptySet
<1> QED
  BY <1>3, <1>6, <1>7, <1>8

TurnTypes == /\ rrCursor \in [GroupIds -> Nat] /\ picks \in [GroupIds -> [Accounts -> Nat]]
             /\ partial \subseteq GroupIds

\* A rotation of which every whole top tier has been matched: the accounts up to the
\* cursor have had one turn more than the others, and nobody else has had any.
InTurn(g) ==
    LET tier == FullTier(g)
    IN  /\ rrCursor[g] < Len(tier) \/ Len(tier) = 0
        /\ \E q \in Nat : \A i \in 1..Len(tier) :
               picks[g][tier[i]] = IF i <= rrCursor[g] THEN q + 1 ELSE q
        /\ \A a \in Accounts \ Members(tier) : picks[g][a] = 0

Rotating(g) == g \notin partial /\ Groups[g].mode = "round-robin" /\ ListedOnce(FullTier(g))

RotationInv == TurnTypes /\ \A g \in GroupIds : Rotating(g) => InTurn(g)

\* What is configured for a group.
LEMMA GroupOk ==
    ASSUME NEW g \in GroupIds
    PROVE  Groups[g].accounts \in Seq(Accounts) /\ Groups[g].mode \in {"all", "round-robin", "one"}
<1>1. Groups[g] \in GroupConfig
  BY DispatchAssumption DEF GroupIds
<1> QED
  BY <1>1 DEF GroupConfig

\* No order has been sent yet.
LEMMA RotationInit == Init => RotationInv
<1> SUFFICES ASSUME Init PROVE RotationInv
  OBVIOUS
<1>1. /\ TurnTypes
      /\ \A g \in GroupIds : rrCursor[g] = 0 /\ \A a \in Accounts : picks[g][a] = 0
  BY DEF Init, TurnTypes
<1>2. ASSUME NEW g \in GroupIds PROVE InTurn(g)
  <2> DEFINE tier == FullTier(g)
  <2>1. tier \in Seq(Accounts) /\ Len(tier) \in Nat /\ DOMAIN tier = 1..Len(tier)
    BY GroupOk, TierOfMatched DEF FullTier
  <2> HIDE DEF tier
  <2>2. rrCursor[g] < Len(tier) \/ Len(tier) = 0
    BY <1>1, <2>1
  <2>3. \A i \in 1..Len(tier) : picks[g][tier[i]] = IF i <= rrCursor[g] THEN 0 + 1 ELSE 0
    BY <1>1, <2>1
  <2> QED
    BY <1>1, <2>2, <2>3 DEF InTurn, tier
<1> QED
  BY <1>1, <1>2 DEF RotationInv

\* Where a rotation of n accounts goes on.
LEMMA NextTurn ==
    ASSUME NEW g \in GroupIds, rrCursor \in [GroupIds -> Nat],
           NEW n \in Nat \ {0}, rrCursor[g] < n
    PROVE  /\ RRIndex(g, n) = rrCursor[g] + 1
           /\ RRAdvance(g, n)[g] = IF rrCursor[g] + 1 = n THEN 0 ELSE rrCursor[g] + 1
           /\ \A h \in GroupIds : h # g => RRAdvance(g, n)[h] = rrCursor[h]
<1> DEFINE c == rrCursor[g]
<1>1. c \in Nat /\ c < n /\ c % n = c /\ (c + 1 < n => (c + 1) % n = c + 1) /\ n % n = 0
  OBVIOUS
<1>2. CASE n <= 1
  BY <1>1, <1>2 DEF RRIndex, RRAdvance
<1>3. CASE n > 1
  <2>1. RRIndex(g, n) = c + 1
    BY <1>1, <1>3 DEF RRIndex
  <2>2. RRAdvance(g, n) = [rrCursor EXCEPT ![g] = (c + 1) % n]
    BY <1>3, <2>1 DEF RRAdvance
  <2>3. (c + 1) % n = IF c + 1 = n THEN 0 ELSE c + 1
    BY <1>1, <1>3
  <2> HIDE DEF c
  <2> QED
    BY <2>1, <2>2, <2>3 DEF c
<1> QED
  BY <1>2, <1>3

\* A cursor stays a number, whatever is matched.
LEMMA CursorType ==
    ASSUME NEW g \in GroupIds, rrCursor \in [GroupIds -> Nat], NEW n \in Nat \ {0}
    PROVE  RRIndex(g, n) \in 1..n /\ RRAdvance(g, n) \in [GroupIds -> Nat]
<1>1. rrCursor[g] \in Nat /\ rrCursor[g] % n \in 0..(n - 1)
  OBVIOUS
<1>2. RRIndex(g, n) \in 1..n
  BY <1>1 DEF RRIndex
<1>3. RRIndex(g, n) % n \in Nat
  BY <1>2
<1> QED
  BY <1>2, <1>3 DEF RRAdvance

\* Turns that are taken one after the other stay even.
LEMMA TurnTaken ==
    ASSUME RotationInv, NEW g \in GroupIds, Rotating(g), Len(FullTier(g)) # 0,
           NEW m, TopTier(m) = FullTier(g), PickRoundRobin(g, m)
    PROVE  InTurn(g)'
<1> DEFINE tier == FullTier(g)
           n == Len(tier)
           c == rrCursor[g]
           d == IF c + 1 = n THEN 0 ELSE c + 1
<1>1. /\ tier \in Seq(Accounts) /\ n \in Nat \ {0} /\ DOMAIN tier = 1..n
      /\ \A i \in 1..n : tier[i] \in Accounts
      /\ \A i, j \in 1..n : tier[i] = tier[j] => i = j
  BY GroupOk, TierOfMatched DEF FullTier, Rotating, ListedOnce
<1>2. /\ c \in Nat /\ c < n /\ picks \in [GroupIds -> [Accounts -> Nat]]
      /\ \A a \in Accounts \ Members(tier) : picks[g][a] = 0
  BY <1>1 DEF RotationInv, TurnTypes, InTurn
<1>3. PICK q \in Nat : \A i \in 1..n : picks[g][tier[i]] = IF i <= c THEN q + 1 ELSE q
  BY DEF RotationInv, InTurn
<1>4. /\ rrCursor' = RRAdvance(g, n)
      /\ picks' = [picks EXCEPT ![g][tier[RRIndex(g, n)]] = @ + 1]
  BY DEF PickRoundRobin, FullTier
<1>5. RRIndex(g, n) = c + 1 /\ rrCursor'[g] = d
  BY <1>1, <1>2, <1>4, NextTurn DEF RotationInv, TurnTypes
<1> HIDE DEF tier, n, c
<1>6. c + 1 \in 1..n /\ ~(c + 1 <= c) /\ d \in Nat /\ d < n
  BY <1>1, <1>2
<1>7. /\ picks'[g][tier[c + 1]] = picks[g][tier[c + 1]] + 1
      /\ \A a \in Accounts : a # tier[c + 1] => picks'[g][a] = picks[g][a]
  BY <1>1, <1>2, <1>4, <1>5, <1>6
<1>8. \A i \in 1..n : picks'[g][tier[i]] = IF i <= c + 1 THEN q + 1 ELSE q
  <2> SUFFICES ASSUME NEW i \in 1..n PROVE picks'[g][tier[i]] = IF i <= c + 1 THEN q + 1 ELSE q
    OBVIOUS
  <2>1. CASE i = c + 1
    <3>1. picks[g][tier[i]] = q
      BY <1>3, <1>6, <2>1
    <3> QED
      BY <1>2, <1>7, <2>1, <3>1
  <2>2. CASE i # c + 1
    <3>1. picks'[g][tier[i]] = picks[g][tier[i]]
      BY <1>1, <1>6, <1>7, <2>2
    <3>2. i <= c + 1 <=> i <= c
      BY <1>1, <1>2, <2>2
    <3> QED
      BY <1>3, <3>1, <3>2
  <2> QED
    BY <2>1, <2>2
<1>9. \E r \in Nat : \A i \in 1..n : picks'[g][tier[i]] = IF i <= d THEN r + 1 ELSE r
  <2>1. CASE c + 1 = n
    <3>1. \A i \in 1..n : i <= c + 1 /\ ~(i <= d)
      BY <1>1, <1>2, <2>1
    <3>2. \A i \in 1..n : picks'[g][tier[i]] = IF i <= d THEN (q + 1) + 1 ELSE q + 1
      BY <1>8, <3>1
    <3>3. q + 1 \in Nat
      OBVIOUS
    <3> QED
      BY <3>2, <3>3
  <2>2. CASE c + 1 # n
    BY <1>8, <2>2
  <2> QED
    BY <2>1, <2>2
<1>10. \A a \in Accounts \ Members(tier) : picks'[g][a] = 0
  BY <1>1, <1>2, <1>6, <1>7 DEF Members
<1>11. FullTier(g)' = FullTier(g)
  BY DEF FullTier, TopTier, Highest, Rank
<1> QED
  BY <1>5, <1>6, <1>9, <1>10, <1>11 DEF InTurn, tier, n

\* What is picked for one group leaves the turns of the others alone.
LEMMA OtherTurns ==
    ASSUME NEW g \in GroupIds, InTurn(g), rrCursor'[g] = rrCursor[g], picks'[g] = picks[g]
    PROVE  InTurn(g)'
<1>1. FullTier(g)' = FullTier(g)
  BY DEF FullTier, TopTier, Highest, Rank
<1> QED
  BY <1>1 DEF InTurn

\* Whatever is matched, one account is picked, or in mode "all" each as often as it
\* was matched.
LEMMA PickTypes ==
    ASSUME TurnTypes, NEW g \in GroupIds, NEW m \in Seq(Accounts), m # <<>>,
           \/ PickRoundRobin(g, m) \/ PickAny(g, m) \/ PickAll(g, m)
    PROVE  /\ rrCursor' \in [GroupIds -> Nat] /\ picks' \in [GroupIds -> [Accounts -> Nat]]
           /\ \A h \in GroupIds : h # g => rrCursor'[h] = rrCursor[h] /\ picks'[h] = picks[h]
<1>1. rrCursor \in [GroupIds -> Nat] /\ picks \in [GroupIds -> [Accounts -> Nat]]
  BY DEF TurnTypes
<1>2. ASSUME NEW a \in Accounts, picks' = [picks EXCEPT ![g][a] = @ + 1]
      PROVE  /\ picks' \in [GroupIds -> [Accounts -> Nat]]
             /\ \A h \in GroupIds : h # g => picks'[h] = picks[h]
  <2>1. [picks[g] EXCEPT ![a] = picks[g][a] + 1] \in [Accounts -> Nat]
    BY <1>1
  <2>2. picks' = [picks EXCEPT ![g] = [picks[g] EXCEPT ![a] = picks[g][a] + 1]]
    BY <1>1, <1>2
  <2> QED
    BY <1>1, <2>1, <2>2
<1>3. CASE PickRoundRobin(g, m)
  <2> DEFINE tier == TopTier(m)
  <2>1. tier \in Seq(Accounts) /\ Len(tier) \in Nat \ {0}
    BY TierOfMatched
  <2>2. /\ rrCursor' = RRAdvance(g, Len(tier))
        /\ picks' = [picks EXCEPT ![g][tier[RRIndex(g, Len(tier))]] = @ + 1]
    BY <1>3 DEF PickRoundRobin
  <2> HIDE DEF tier
  <2>3. /\ RRIndex(g, Len(tier)) \in 1..Len(tier)
        /\ RRAdvance(g, Len(tier)) \in [GroupIds -> Nat]
    BY <1>1, <2>1, CursorType
  <2>4. tier[RRIndex(g, Len(tier))] \in Accounts
    BY <2>1, <2>3
  <2>5. \A h \in GroupIds : h # g => RRAdvance(g, Len(tier))[h] = rrCursor[h]
    BY <1>1 DEF RRAdvance
  <2> QED
    BY <1>2, <2>2, <2>3, <2>4, <2>5
<1>4. CASE PickAny(g, m)
  BY <1>1, <1>2, <1>4 DEF PickAny
<1>5. CASE PickAll(g, m)
  <2> DEFINE times(a) == Cardinality({i \in DOMAIN m : m[i] = a})
  <2>1. \A a \in Accounts : times(a) \in Nat
    <3>1. DOMAIN m = 1..Len(m) /\ IsFiniteSet(1..Len(m))
      BY FS_Interval
    <3> QED
      BY <3>1, FS_Subset, FS_CardinalityType
  <2>2. /\ picks' = [picks EXCEPT ![g] = [a \in Accounts |-> picks[g][a] + times(a)]]
        /\ rrCursor' = rrCursor
    BY <1>1, <1>5 DEF PickAll
  <2> HIDE DEF times
  <2>3. [a \in Accounts |-> picks[g][a] + times(a)] \in [Accounts -> Nat]
    BY <1>1, <2>1
  <2> QED
    BY <1>1, <2>2, <2>3
<1> QED
  BY <1>3, <1>4, <1>5

\* The turns stay even, however the goroutines interleave.
LEMMA RotationStep == WorkersOk /\ RotationInv /\ [Next]_vars => RotationInv'
<1> SUFFICES ASSUME WorkersOk, RotationInv, [Next]_vars PROVE RotationInv'
  OBVIOUS
<1>1. ASSUME UNCHANGED turns PROVE RotationInv'
  <2>1. \A g \in GroupIds : Rotating(g)' => Rotating(g)
    BY <1>1 DEF turns, Rotating, FullTier, TopTier, Highest, Rank
  <2>2. \A g \in GroupIds : InTurn(g) => InTurn(g)'
    BY <1>1, OtherTurns DEF turns
  <2>3. TurnTypes'
    BY <1>1 DEF turns, RotationInv, TurnTypes
  <2> QED
    BY <2>1, <2>2, <2>3 DEF RotationInv
<1>2. ASSUME NEW x \in Workers, DispatchGroup(x) PROVE RotationInv'
  <2> DEFINE g == wk[x].group
             m == wk[x].matched
  <2>1. g \in GroupIds /\ m \in Seq(Accounts)
    BY DEF WorkersOk, Worker
  <2>2. /\ \/ m = <<>> /\ UNCHANGED <<rrCursor, picks>>
           \/ m # <<>> /\ Groups[g].mode = "round-robin" /\ PickRoundRobin(g, m)
           \/ m # <<>> /\ Groups[g].mode = "one" /\ PickAny(g, m)
           \/ m # <<>> /\ Groups[g].mode = "all" /\ PickAll(g, m)
        /\ partial' = IF TopTier(m) = FullTier(g) THEN partial ELSE partial \cup {g}
    BY <1>2 DEF DispatchGroup
  <2> HIDE DEF g, m
  <2>3. /\ TurnTypes'
        /\ \A h \in GroupIds : h # g => rrCursor'[h] = rrCursor[h] /\ picks'[h] = picks[h]
    <3>1. partial' \subseteq GroupIds /\ TurnTypes
      BY <2>1, <2>2 DEF RotationInv, TurnTypes
    <3>2. CASE m = <<>>
      BY <2>2, <3>1, <3>2 DEF TurnTypes
    <3>3. CASE m # <<>>
      BY <2>1, <2>2, <3>1, <3>3, PickTypes DEF TurnTypes
    <3> QED
      BY <3>2, <3>3
  <2>4. ASSUME NEW h \in GroupIds, Rotating(h)' PROVE InTurn(h)'
    <3>1. Rotating(h) /\ InTurn(h) /\ (h = g => TopTier(m) = FullTier(g))
      <4>1. h \notin partial' /\ Groups[h].mode = "round-robin" /\ ListedOnce(FullTier(h))
        BY <2>4 DEF Rotating, FullTier, TopTier, Highest, Rank
      <4>2. h \notin partial /\ (h = g => TopTier(m) = FullTier(g))
        BY <2>2, <4>1
      <4> QED
        BY <4>1, <4>2 DEF Rotating, RotationInv
    <3>2. CASE h # g
      BY <2>3, <3>1, <3>2, OtherTurns
    <3>3. CASE h = g /\ m = <<>>
      BY <2>2, <3>1, <3>3, OtherTurns
    <3>4. CASE h = g /\ m # <<>>
      <4>1. PickRoundRobin(h, m)
        BY <2>2, <3>1, <3>4 DEF Rotating
      <4>2. TopTier(m) = FullTier(h) /\ Len(FullTier(h)) # 0
        BY <2>1, <3>1, <3>4, TierOfMatched
      <4> QED
        BY <3>1, <4>1, <4>2, TurnTaken
    <3> QED
      BY <3>2, <3>3, <3>4
  <2> QED
    BY <2>3, <2>4 DEF RotationInv
<1> QED
  BY <1>1, <1>2 DEF Next, vars, Tick, Arrive, Ineligible, Skip, Match, counters, turns

\* nextRoundRobinIndex under Processor.mu: for any number of goroutines, groups and
\* accounts, the accounts of a top tier that always matches as a whole are picked
\* equally often, but for one turn, and those of lower priority never.
THEOREM RotationIsEven == Spec => []RoundRobinEven
<1>1. RotationInv => RoundRobinEven
  <2> SUFFICES ASSUME RotationInv, NEW g \in GroupIds \ partial, Groups[g].mode = "round-robin",
                      ListedOnce(FullTier(g))
               PROVE  /\ \A a, b \in Members(FullTier(g)) : picks[g][a] <= picks[g][b] + 1
                      /\ \A a \in Accounts \ Members(FullTier(g)) : picks[g][a] = 0
    BY DEF RoundRobinEven
  <2>1. InTurn(g)
    BY DEF RotationInv, Rotating
  <2>2. DOMAIN FullTier(g) = 1..Len(FullTier(g))
    BY GroupOk, TierOfMatched DEF FullTier
  <2>3. PICK q \in Nat : \A i \in 1..Len(FullTier(g)) : picks[g][FullTier(g)[i]] \in {q, q + 1}
    BY <2>1 DEF InTurn
  <2>4. \A a \in Members(FullTier(g)) : picks[g][a] \in {q, q + 1}
    BY <2>2, <2>3 DEF Members
  <2> QED
    BY <2>1, <2>4 DEF InTurn
<1> QED
  BY <1>1, WorkersOkInit, WorkersOkStep, RotationInit, RotationStep, PTL DEF Spec

-----------------------------------------------------------------------------
(* Types.                                                                    *)

Clocks == /\ skipStart \in [Accounts -> {NotStarted} \cup 0..MaxTime]
          /\ clock \in 0..MaxTime /\ signals \in 0..MaxSignals

\* The clock and the start of every count stay in range.
LEMMA ClocksStep == WorkersOk /\ Clocks /\ [Next]_vars => Clocks'
<1> SUFFICES ASSUME WorkersOk, Clocks, [Next]_vars PROVE Clocks'
  OBVIOUS
<1> USE DispatchAssumption DEF Clocks, counters, turns
<1>1. CASE Tick \/ UNCHANGED vars
  BY <1>1 DEF Tick, vars
<1>2. ASSUME NEW x \in Workers, NEW applySkip \in BOOLEAN, Arrive(x, applySkip) PROVE Clocks'
  BY <1>2 DEF Arrive
<1>3. ASSUME NEW x \in Workers, Ineligible(x) \/ DispatchGroup(x) PROVE Clocks'
  BY <1>3 DEF Ineligible, DispatchGroup
<1>4. ASSUME NEW x \in Workers, Skip(x) PROVE Clocks'
  BY <1>4 DEF Skip
<1>5. ASSUME NEW x \in Workers, NEW balance \in Balances, Match(x, balance) PROVE Clocks'
  <2>1. Current(x) \in Accounts
    BY <1>5, AccountAt DEF Match
  <2>2. SkipStart(Current(x)) \in {NotStarted} \cup 0..MaxTime
    BY <2>1 DEF SkipStart
  <2> QED
    BY <1>5, <2>2 DEF Match
<1> QED
  BY <1>1, <1>2, <1>3, <1>4, <1>5 DEF Next

\* Counters, cursors and turns keep to their ranges, and every goroutine that handles a
\* signal is at an account of one of the groups (processor.go).
THEOREM TypeCorrect == Spec => []TypeOK
<1>1. Init => Clocks
  BY DispatchAssumption DEF Init, Clocks
<1>2. WorkersOk /\ SkipsCounted /\ RotationInv /\ Clocks => TypeOK
  BY DEF WorkersOk, Worker, SkipsCounted, RotationInv, TurnTypes, Clocks, TypeOK
<1> QED
  BY <1>1, <1>2, ClocksStep, WorkersOkInit, WorkersOkStep, SkipsCountedInit, SkipsCountedStep,
     RotationInit, RotationStep, PTL DEF Spec

-----------------------------------------------------------------------------
(* The weighted draw.  SumOfKnown is a fold, that is a function on the       *)
(* subsets of the accounts defined in terms of itself; it exists, as it can  *)
(* be built up by size, and its values are numbers, as there is no smallest  *)
(* set for which it is not.                                                  *)

\* What is known of an account with something left is a positive number.
LEMMA KnownOfValid ==
    ASSUME NEW n \in Nat, NEW m \in [1..n -> Infos], NEW i \in Valid(m)
    PROVE  i \in 1..n /\ Known(m[i]) \in Nat /\ Known(m[i]) > 0
<1>1. i \in 1..n /\ m[i] \in Infos /\ Known(m[i]) # Unusable /\ Known(m[i]) > 0
  BY DEF Valid
<1>2. m[i].futures \in Int \cup {Unusable} /\ m[i].total \in Int \cup {Unusable}
  BY <1>1, WeightsAssumption
<1>3. Known(m[i]) \in Nat
  <2> DEFINE v == IF m[i].futures # Unusable /\ m[i].futures > 0 THEN m[i].futures ELSE m[i].total
  <2>1. v \in Int \cup {Unusable}
    BY <1>2
  <2>2. Known(m[i]) = IF v = Unusable THEN Unusable ELSE AtLeastZero(v)
    BY DEF Known
  <2> HIDE DEF v
  <2> QED
    BY <1>1, <2>1, <2>2 DEF AtLeastZero
<1> QED
  BY <1>1, <1>3

\* What the fold of SumOfKnown takes next, what is left then, and the equation.
Taken(s) == CHOOSE x \in s : TRUE
Rest(s) == s \ {Taken(s)}
SumStep(m, s, g) == IF s = {} THEN 0 ELSE Known(m[Taken(s)]) + g[Rest(s)]
UpToSize(S, k) == {s \in SUBSET S : Cardinality(s) <= k}
Sums(m, g, T) == g = [s \in T |-> SumStep(m, s, g)]

\* What is left is smaller by one.
LEMMA SubsetSizes ==
    ASSUME NEW S, IsFiniteSet(S), NEW s \in SUBSET S
    PROVE  /\ Cardinality(s) \in Nat /\ Cardinality(s) <= Cardinality(S)
           /\ Cardinality(s) = 0 <=> s = {}
           /\ s # {} => /\ Taken(s) \in S /\ Rest(s) \in SUBSET S
                        /\ Cardinality(Rest(s)) = Cardinality(s) - 1
<1>1. IsFiniteSet(s) /\ Cardinality(s) <= Cardinality(S)
  BY FS_Subset
<1>2. Cardinality(s) \in Nat /\ (Cardinality(s) = 0 <=> s = {})
  BY <1>1, FS_CardinalityType, FS_EmptySet
<1>3. ASSUME s # {} PROVE Taken(s) \in s
  BY <1>3 DEF Taken
<1>4. ASSUME s # {} PROVE Cardinality(Rest(s)) = Cardinality(s) - 1
  BY <1>1, <1>3, <1>4, FS_RemoveElement DEF Rest
<1> QED
  BY <1>1, <1>2, <1>3, <1>4 DEF Rest

\* For the subsets up to any size there is a function that satisfies the equation.
LEMMA SumsExist ==
    ASSUME NEW m, NEW S, IsFiniteSet(S), NEW k \in Nat
    PROVE  \E g : Sums(m, g, UpToSize(S, k))
<1> DEFINE Bad == {j \in Nat : ~\E g : Sums(m, g, UpToSize(S, j))}
<1> SUFFICES ASSUME Bad # {} PROVE FALSE
  OBVIOUS
<1>1. PICK j \in Bad : \A i \in Bad : j <= i
  BY LeastNat
<1>2. j \in Nat /\ ~\E g : Sums(m, g, UpToSize(S, j))
  BY <1>1
<1>3. ASSUME NEW i \in Nat, i < j PROVE \E g : Sums(m, g, UpToSize(S, i))
  BY <1>1, <1>3
<1> HIDE DEF Bad
<1>4. CASE j = 0
  <2> DEFINE h == [s \in UpToSize(S, 0) |-> 0]
  <2>1. \A s \in UpToSize(S, 0) : s = {}
    BY SubsetSizes DEF UpToSize
  <2>2. \A s \in UpToSize(S, 0) : SumStep(m, s, h) = 0
    BY <2>1 DEF SumStep
  <2>3. Sums(m, h, UpToSize(S, 0))
    BY <2>2 DEF Sums
  <2> QED
    BY <1>2, <1>4, <2>3
<1>5. CASE j # 0
  <2>1. j - 1 \in Nat /\ j - 1 < j
    BY <1>2, <1>5
  <2>2. PICK g : Sums(m, g, UpToSize(S, j - 1))
    BY <1>3, <2>1
  <2> DEFINE h == [s \in UpToSize(S, j) |-> SumStep(m, s, g)]
  <2>3. ASSUME NEW s \in UpToSize(S, j) PROVE SumStep(m, s, g) = SumStep(m, s, h)
    <3>1. CASE s = {}
      BY <3>1 DEF SumStep
    <3>2. CASE s # {}
      <4>1. s \in SUBSET S /\ Cardinality(s) \in Nat /\ Cardinality(s) <= j
        BY SubsetSizes DEF UpToSize
      <4>2. /\ Rest(s) \in SUBSET S
            /\ Cardinality(Rest(s)) <= j - 1 /\ Cardinality(Rest(s)) <= j
        BY <1>2, <3>2, <4>1, SubsetSizes
      <4>3. Rest(s) \in UpToSize(S, j - 1) /\ Rest(s) \in UpToSize(S, j)
        BY <4>2 DEF UpToSize
      <4>4. g[Rest(s)] = SumStep(m, Rest(s), g)
        BY <2>2, <4>3 DEF Sums
      <4>5. h[Rest(s)] = SumStep(m, Rest(s), g)
        BY <4>3
      <4> QED
        BY <3>2, <4>4, <4>5 DEF SumStep
    <3> QED
      BY <3>1, <3>2
  <2>4. Sums(m, h, UpToSize(S, j))
    BY <2>3 DEF Sums
  <2> QED
    BY <1>2, <2>4
<1> QED
  BY <1>4, <1>5

\* What is known of the accounts adds up to a number.
LEMMA SumIsNat ==
    ASSUME NEW n \in Nat, NEW m \in [1..n -> Infos]
    PROVE  SumOfKnown(m) \in Nat /\ Cardinality(Valid(m)) \in Nat
<1> DEFINE S == Valid(m)
           sums == CHOOSE g : g = [s \in SUBSET S |-> SumStep(m, s, g)]
<1>0. IsFiniteSet(S) /\ Cardinality(S) \in Nat
  <2>1. IsFiniteSet(1..n) /\ S \subseteq 1..n
    BY FS_Interval DEF Valid
  <2> QED
    BY <2>1, FS_Subset, FS_CardinalityType
<1>1. SumOfKnown(m) = sums[S]
  BY DEF SumOfKnown, MapThenSumSet, MapThenFoldSet, SumStep, Taken, Rest
<1>2. sums = [s \in SUBSET S |-> SumStep(m, s, sums)]
  <2>1. SUBSET S = UpToSize(S, Cardinality(S))
    BY <1>0, SubsetSizes DEF UpToSize
  <2>2. \E g : g = [s \in SUBSET S |-> SumStep(m, s, g)]
    <3>1. PICK g : Sums(m, g, UpToSize(S, Cardinality(S)))
      BY <1>0, SumsExist
    <3> QED
      BY <2>1, <3>1 DEF Sums
  <2> QED
    BY <2>2
<1>3. \A i \in S : Known(m[i]) \in Nat
  BY KnownOfValid
<1> HIDE DEF sums, S
<1> DEFINE Bad == {k \in Nat : \E s \in SUBSET S : Cardinality(s) = k /\ sums[s] \notin Nat}
<1>4. SUFFICES ASSUME Bad # {} PROVE FALSE
  BY <1>0, <1>1 DEF S
<1>5. PICK k \in Bad : \A j \in Bad : k <= j
  BY <1>4, LeastNat
<1>6. PICK s \in SUBSET S : Cardinality(s) = k /\ sums[s] \notin Nat
  BY <1>5
<1>7. ASSUME NEW t \in SUBSET S, Cardinality(t) \in Nat, Cardinality(t) < k PROVE sums[t] \in Nat
  BY <1>5, <1>7
<1> HIDE DEF Bad
<1>8. CASE s = {}
  BY <1>2, <1>6, <1>8 DEF SumStep
<1>9. CASE s # {}
  <2>1. /\ Taken(s) \in S /\ Rest(s) \in SUBSET S /\ Cardinality(s) \in Nat
        /\ Cardinality(Rest(s)) \in Nat /\ Cardinality(Rest(s)) = Cardinality(s) - 1
    BY <1>0, <1>9, SubsetSizes
  <2>2. sums[Rest(s)] \in Nat
    BY <1>6, <1>7, <2>1
  <2>3. sums[s] = Known(m[Taken(s)]) + sums[Rest(s)]
    BY <1>2, <1>9 DEF SumStep
  <2> QED
    BY <1>3, <1>6, <2>1, <2>2, <2>3
<1> QED
  BY <1>8, <1>9

\* An account's lack is at most the sum, and none has a weight below one or above three.
LEMMA WeightsBounded ==
    ASSUME NEW n \in Nat, NEW m \in [1..n -> Infos], NEW i \in 1..n
    PROVE  One(m) \in Nat /\ Weight(m, i) \in Nat /\ One(m) <= Weight(m, i)
           /\ Weight(m, i) <= 3 * One(m)
<1> DEFINE sum == SumOfKnown(m)
           c == Cardinality(Valid(m))
<1>1. sum \in Nat /\ c \in Nat
  BY SumIsNat
<1>2. CASE i \in Valid(m)
  <2>1. One(m) = sum
    BY <1>2 DEF One
  <2>2. Weight(m, i) = sum + 2 * AtLeastZero(sum - c * Known(m[i]))
    BY <1>2, <2>1 DEF Weight, Lack
  <2>3. c * Known(m[i]) \in Nat
    BY <1>1, <1>2, KnownOfValid
  <2> HIDE DEF sum, c
  <2>4. AtLeastZero(sum - c * Known(m[i])) \in 0..sum
    BY <1>1, <2>3 DEF AtLeastZero
  <2> QED
    BY <1>1, <2>1, <2>2, <2>4
<1>3. CASE i \notin Valid(m)
  <2>1. One(m) \in Nat
    BY <1>1 DEF One
  <2>2. Weight(m, i) = One(m)
    BY <1>3, <2>1 DEF Weight
  <2> QED
    BY <2>1, <2>2
<1> QED
  BY <1>2, <1>3

\* With less left, an account lacks more.
LEMMA PoorerLacksMore ==
    ASSUME NEW n \in Nat, NEW m \in [1..n -> Infos], NEW i \in Valid(m), NEW j \in Valid(m),
           Known(m[i]) < Known(m[j])
    PROVE  Weight(m, i) >= Weight(m, j)
<1> DEFINE sum == SumOfKnown(m)
           c == Cardinality(Valid(m))
           x == Known(m[i])
           y == Known(m[j])
<1>1. sum \in Nat /\ c \in Nat /\ x \in Nat /\ y \in Nat /\ x < y
  BY SumIsNat, KnownOfValid
<1>2. /\ Weight(m, i) = One(m) + 2 * AtLeastZero(sum - c * x)
      /\ Weight(m, j) = One(m) + 2 * AtLeastZero(sum - c * y)
      /\ One(m) \in Nat
  BY KnownOfValid, WeightsBounded DEF Weight, Lack
<1> HIDE DEF sum, c, x, y
<1>3. c * x \in Nat /\ c * y \in Nat /\ c * x <= c * y
  BY <1>1
<1>4. /\ AtLeastZero(sum - c * x) \in Nat /\ AtLeastZero(sum - c * y) \in Nat
      /\ AtLeastZero(sum - c * x) >= AtLeastZero(sum - c * y)
  BY <1>1, <1>3 DEF AtLeastZero
<1> QED
  BY <1>2, <1>4

\* An account has more than the weight 1 just when it is known to lie below the mean.
LEMMA ExactlyPoorer ==
    ASSUME NEW n \in Nat, NEW m \in [1..n -> Infos]
    PROVE  ExactlyThesePoorer(m)
<1> DEFINE sum == SumOfKnown(m)
           c == Cardinality(Valid(m))
<1> SUFFICES ASSUME NEW i \in 1..n
             PROVE  /\ m[i].platform = "raw" => Weight(m, i) = One(m)
                    /\ Weight(m, i) # One(m) <=> i \in Valid(m) /\ c * Known(m[i]) < sum
  BY DEF ExactlyThesePoorer
<1>1. sum \in Nat /\ c \in Nat /\ One(m) \in Nat
  BY SumIsNat, WeightsBounded
<1>2. m[i].platform = "raw" => i \notin Valid(m)
  BY FetchedAssumption DEF Valid, Known
<1>3. CASE i \notin Valid(m)
  <2>1. Weight(m, i) = One(m)
    BY <1>1, <1>3 DEF Weight
  <2> QED
    BY <1>3, <2>1
<1>4. CASE i \in Valid(m)
  <2>1. Weight(m, i) = One(m) + 2 * AtLeastZero(sum - c * Known(m[i])) /\ c * Known(m[i]) \in Nat
    BY <1>1, <1>4, KnownOfValid DEF Weight, Lack
  <2> HIDE DEF sum, c
  <2>2. AtLeastZero(sum - c * Known(m[i])) # 0 <=> c * Known(m[i]) < sum
    BY <1>1, <2>1 DEF AtLeastZero
  <2>3. AtLeastZero(sum - c * Known(m[i])) \in Int
    BY <1>1, <2>1 DEF AtLeastZero
  <2>4. Weight(m, i) # One(m) <=> AtLeastZero(sum - c * Known(m[i])) # 0
    BY <1>1, <2>1, <2>3
  <2> QED
    BY <1>2, <1>4, <2>2, <2>4
<1> QED
  BY <1>3, <1>4

\* One turn of the loop of weightedIndex, and all turns up to the k-th.
Turn(m, sum, j) == IF j = 0 THEN 0 ELSE sum[j - 1] + Weight(m, j)
TurnsTo(m, k, sum) == sum = [j \in 0..k |-> Turn(m, sum, j)]

\* The loop comes to an end: what its turns add up to is defined.
LEMMA LoopEnds == ASSUME NEW m, NEW k \in Nat PROVE \E sum : TurnsTo(m, k, sum)
<1> DEFINE Bad == {j \in Nat : ~\E sum : TurnsTo(m, j, sum)}
<1> SUFFICES ASSUME Bad # {} PROVE FALSE
  OBVIOUS
<1>1. PICK j \in Bad : \A i \in Bad : j <= i
  BY LeastNat
<1>2. j \in Nat /\ ~\E sum : TurnsTo(m, j, sum)
  BY <1>1
<1>3. ASSUME NEW i \in Nat, i < j PROVE \E sum : TurnsTo(m, i, sum)
  BY <1>1, <1>3
<1> HIDE DEF Bad
<1>4. CASE j = 0
  <2> DEFINE h == [i \in 0..0 |-> 0]
  <2>1. \A i \in 0..0 : Turn(m, h, i) = 0
    BY DEF Turn
  <2>2. TurnsTo(m, 0, h)
    BY <2>1 DEF TurnsTo
  <2> QED
    BY <1>2, <1>4, <2>2
<1>5. CASE j # 0
  <2>1. j - 1 \in Nat /\ j - 1 < j
    BY <1>2, <1>5
  <2>2. PICK g : TurnsTo(m, j - 1, g)
    BY <1>3, <2>1
  <2> DEFINE h == [i \in 0..j |-> Turn(m, g, i)]
  <2>3. ASSUME NEW i \in 0..j PROVE Turn(m, g, i) = Turn(m, h, i)
    <3>1. CASE i = 0
      BY <3>1 DEF Turn
    <3>2. CASE i # 0
      <4>1. i - 1 \in 0..(j - 1) /\ i - 1 \in 0..j
        BY <1>2, <3>2
      <4>2. g[i - 1] = Turn(m, g, i - 1) /\ h[i - 1] = Turn(m, g, i - 1)
        BY <2>2, <4>1 DEF TurnsTo
      <4> QED
        BY <3>2, <4>2 DEF Turn
    <3> QED
      BY <3>1, <3>2
  <2>4. TurnsTo(m, j, h)
    BY <2>3 DEF TurnsTo
  <2> QED
    BY <1>2, <2>4
<1> QED
  BY <1>4, <1>5

\* The sums of the first weights: each is the one before it and one weight.
LEMMA UpToSteps ==
    ASSUME NEW n \in Nat, NEW m \in [1..n -> Infos]
    PROVE  /\ UpTo(m, 0) = 0
           /\ \A i \in 1..n : UpTo(m, i) = UpTo(m, i - 1) + Weight(m, i)
<1> DEFINE sum == CHOOSE g : g = [j \in 0..Len(m) |-> Turn(m, g, j)]
<1>1. Len(m) = n
  OBVIOUS
<1>2. \A i : UpTo(m, i) = sum[i]
  BY DEF UpTo, Turn
<1>3. sum = [j \in 0..Len(m) |-> Turn(m, sum, j)]
  BY <1>1, LoopEnds DEF TurnsTo
<1> HIDE DEF sum
<1>4. sum[0] = 0
  BY <1>1, <1>3 DEF Turn
<1>5. \A i \in 1..n : sum[i] = sum[i - 1] + Weight(m, i)
  BY <1>1, <1>3 DEF Turn
<1> QED
  BY <1>2, <1>4, <1>5

\* They are numbers, and do not decrease.
LEMMA UpToGrows ==
    ASSUME NEW n \in Nat, NEW m \in [1..n -> Infos], NEW i \in 0..n
    PROVE  UpTo(m, i) \in Nat /\ \A j \in 0..i : UpTo(m, j) <= UpTo(m, i)
<1> DEFINE Ok(k) == UpTo(m, k) \in Nat /\ \A j \in 0..k : UpTo(m, j) <= UpTo(m, k)
           Bad == {k \in 0..n : ~Ok(k)}
<1> SUFFICES ASSUME Bad # {} PROVE FALSE
  OBVIOUS
<1>1. PICK k \in Bad : \A j \in Bad : k <= j
  <2>1. Bad \in SUBSET Nat
    OBVIOUS
  <2> HIDE DEF Bad
  <2> QED
    BY <2>1, LeastNat
<1>2. k \in 0..n /\ ~Ok(k) /\ \A j \in 0..n : j < k => Ok(j)
  BY <1>1
<1> HIDE DEF Bad
<1>3. CASE k = 0
  BY <1>2, <1>3, UpToSteps
<1>4. CASE k # 0
  <2>1. k \in 1..n /\ k - 1 \in 0..n /\ k - 1 < k
    BY <1>2, <1>4
  <2>2. Ok(k - 1)
    BY <1>2, <2>1
  <2>3. UpTo(m, k) = UpTo(m, k - 1) + Weight(m, k) /\ Weight(m, k) \in Nat
    BY <2>1, UpToSteps, WeightsBounded
  <2>4. \A j \in 0..k : j = k \/ j \in 0..(k - 1)
    BY <2>1
  <2>5. UpTo(m, k) \in Nat /\ UpTo(m, k - 1) <= UpTo(m, k)
    BY <2>2, <2>3
  <2>6. ASSUME NEW j \in 0..k PROVE UpTo(m, j) <= UpTo(m, k)
    <3>1. CASE j = k
      BY <2>5, <3>1
    <3>2. CASE j \in 0..(k - 1)
      <4>1. UpTo(m, j) <= UpTo(m, k - 1) /\ UpTo(m, j) \in Nat /\ UpTo(m, k - 1) \in Nat
        <5>1. j \in 0..n /\ j < k
          BY <2>1, <3>2
        <5> QED
          BY <1>2, <2>2, <3>2, <5>1
      <4> QED
        BY <2>5, <4>1
    <3> QED
      BY <2>4, <3>1, <3>2
  <2> QED
    BY <1>2, <2>5, <2>6
<1> QED
  BY <1>3, <1>4

\* weightedIndex picks an account for the draws between two of these sums.
LEMMA IndexOfDraw ==
    ASSUME NEW n \in Nat, NEW m \in [1..n -> Infos], NEW r \in Draws(m), NEW i \in 1..n
    PROVE  Index(m, r) = i <=> UpTo(m, i - 1) <= r /\ r < UpTo(m, i)
<1> DEFINE Found(k) == r < UpTo(m, k) /\ \A j \in 1..(k - 1) : r >= UpTo(m, j)
<1>1. Len(m) = n /\ DOMAIN m = 1..n
  OBVIOUS
<1>2. r \in Nat /\ r < UpTo(m, n) /\ UpTo(m, n) \in Nat
  <2>1. UpTo(m, n) \in Nat
    BY UpToGrows
  <2> QED
    BY <1>1, <2>1 DEF Draws
<1>3. \A k \in 0..n : UpTo(m, k) \in Nat
  BY UpToGrows
<1>4. \E k \in 1..n : Found(k)
  <2> DEFINE Above == {k \in 1..n : r < UpTo(m, k)}
  <2>1. n \in Above
    <3>1. n # 0
      BY <1>2, UpToSteps
    <3> QED
      BY <1>2, <3>1
  <2>2. PICK k \in Above : \A j \in Above : k <= j
    <3>1. Above \in SUBSET Nat /\ Above # {}
      BY <2>1
    <3> HIDE DEF Above
    <3> QED
      BY <3>1, LeastNat
  <2>3. ASSUME NEW j \in 1..(k - 1) PROVE r >= UpTo(m, j)
    <3>1. j \in 1..n /\ j \in 0..n /\ ~(k <= j)
      BY <2>2
    <3> QED
      BY <1>2, <1>3, <2>2, <3>1
  <2> QED
    BY <2>2, <2>3
<1>5. ASSUME NEW k \in 1..n, NEW j \in 1..n, Found(k), Found(j) PROVE k = j
  <2>1. ASSUME NEW p \in 1..n, NEW q \in 1..n, Found(p), Found(q), p < q PROVE FALSE
    <3>1. p \in 1..(q - 1) /\ p \in 0..n
      BY <2>1
    <3> QED
      BY <1>2, <1>3, <2>1, <3>1
  <2>2. k < j \/ j < k \/ k = j
    OBVIOUS
  <2> HIDE DEF Found
  <2> QED
    BY <1>5, <2>1, <2>2
<1>6. Index(m, r) \in 1..n /\ Found(Index(m, r))
  BY <1>1, <1>4 DEF Index
<1>7. Found(i) <=> UpTo(m, i - 1) <= r /\ r < UpTo(m, i)
  <2>1. i - 1 \in 0..n /\ (i - 1 = 0 \/ i - 1 \in 1..(i - 1)) /\ \A j \in 1..(i - 1) : j \in 0..(i - 1)
    OBVIOUS
  <2>2. \A j \in 1..(i - 1) : UpTo(m, j) <= UpTo(m, i - 1) /\ UpTo(m, j) \in Nat
    <3>1. \A j \in 1..(i - 1) : j \in 0..n
      OBVIOUS
    <3> QED
      BY <1>3, <2>1, <3>1, UpToGrows
  <2>3. UpTo(m, i - 1) \in Nat
    BY <1>3, <2>1
  <2>4. CASE i - 1 = 0
    <3>1. UpTo(m, i - 1) = 0 /\ 1..(i - 1) = {}
      BY <2>4, UpToSteps
    <3> QED
      BY <1>2, <3>1
  <2>5. CASE i - 1 \in 1..(i - 1)
    BY <1>2, <2>2, <2>3, <2>5
  <2> QED
    BY <2>1, <2>4, <2>5
<1> HIDE DEF Found
<1> QED
  BY <1>5, <1>6, <1>7

\* "The strongest/weakest weight ratio is at most 3:1" (processor.go, weightsForTasks),
\* a poorer account is no less likely, and weightedIndex gives each account its weight's
\* share of the draws: among any number of accounts, whatever is known of their balances.
THEOREM DrawIsFair == ASSUME NEW n \in Nat, NEW m \in [1..n -> Infos] PROVE Fair(m)
<1>1. Len(m) = n /\ DOMAIN m = 1..n
  OBVIOUS
<1>2. AtMostThreeToOne(m)
  <2> SUFFICES ASSUME NEW i \in 1..n, NEW j \in 1..n PROVE Weight(m, i) <= 3 * Weight(m, j)
    BY <1>1 DEF AtMostThreeToOne
  <2>1. /\ One(m) \in Nat /\ Weight(m, i) \in Nat /\ Weight(m, j) \in Nat
        /\ Weight(m, i) <= 3 * One(m) /\ One(m) <= Weight(m, j)
    BY WeightsBounded
  <2> QED
    BY <2>1
<1>3. PoorerIsLikelier(m)
  BY PoorerLacksMore DEF PoorerIsLikelier
<1>5. ExactlyThesePoorer(m)
  BY ExactlyPoorer
<1>4. DrawsFollow(m)
  <2> SUFFICES ASSUME NEW i \in 1..n
               PROVE  Cardinality({r \in Draws(m) : Index(m, r) = i}) = Weight(m, i)
    BY <1>1 DEF DrawsFollow
  <2> DEFINE a == UpTo(m, i - 1)
             b == UpTo(m, i)
             w == Weight(m, i)
  <2>1. b = a + w /\ w \in Nat
    BY UpToSteps, WeightsBounded
  <2>2. a \in Nat /\ b \in Nat /\ UpTo(m, n) \in Nat /\ b <= UpTo(m, n)
    <3>1. i - 1 \in 0..n /\ i \in 0..n /\ n \in 0..n
      OBVIOUS
    <3> QED
      BY <3>1, UpToGrows
  <2>3. Draws(m) = 0..(UpTo(m, n) - 1)
    BY <1>1 DEF Draws
  <2>4. \A r \in Draws(m) : Index(m, r) = i <=> a <= r /\ r < b
    BY IndexOfDraw
  <2> HIDE DEF a, b, w
  <2>5. {r \in Draws(m) : Index(m, r) = i} = a..(b - 1)
    <3>1. \A r \in Draws(m) : r \in a..(b - 1) <=> a <= r /\ r < b
      BY <2>2, <2>3
    <3>2. \A r \in a..(b - 1) : r \in Draws(m)
      BY <2>2, <2>3
    <3> QED
      BY <2>4, <3>1, <3>2
  <2>6. Cardinality(a..(b - 1)) = w
    <3>1. a \in Int /\ b - 1 \in Int
      BY <2>2
    <3>2. Cardinality(a..(b - 1)) = IF a > b - 1 THEN 0 ELSE b - 1 - a + 1
      BY <3>1, FS_Interval
    <3> QED
      BY <2>1, <2>2, <3>2
  <2> QED
    BY <2>5, <2>6 DEF w
<1> QED
  BY <1>2, <1>3, <1>4, <1>5 DEF Fair

\* ... among the accounts that any goroutine has matched.
THEOREM DrawsAreFair == Spec => []WeightsAreFair
<1>1. Unfair = {}
  <2> SUFFICES ASSUME NEW m \in Matches PROVE Fair(m)
    BY DEF Unfair
  <2> QED
    BY DrawIsFair DEF Matches
<1>2. WeightsAreFair
  BY <1>1 DEF WeightsAreFair
<1> QED
  BY <1>2, PTL

-----------------------------------------------------------------------------
(* The amounts of the orders.                                                *)

\* Sorted by priority (processor.go, sortByPriority), every place is taken by one of
\* the accounts that were kept.
LEMMA EveryPlaceTaken ==
    ASSUME NEW n \in Nat, NEW group \in [1..n -> BoundAccount]
    PROVE  /\ Cardinality(Kept(group)) \in Nat
           /\ \A k \in 1..Cardinality(Kept(group)) :
                \E i \in Kept(group) : Cardinality(UpToPlace(group, i)) = k
<1> DEFINE K == Kept(group)
           place == [i \in K |-> Cardinality(UpToPlace(group, i))]
<1>1. IsFiniteSet(K) /\ Cardinality(K) \in Nat
  <2>1. IsFiniteSet(1..n) /\ K \subseteq 1..n
    BY FS_Interval DEF Kept
  <2> QED
    BY <2>1, FS_Subset, FS_CardinalityType
<1>2. \A i \in K : i \in Int /\ group[i].priority \in Int
  BY DEF Kept, BoundAccount
<1>3. ASSUME NEW i \in K
      PROVE  /\ UpToPlace(group, i) \in SUBSET K /\ i \in UpToPlace(group, i)
             /\ IsFiniteSet(UpToPlace(group, i))
             /\ place[i] = Cardinality(UpToPlace(group, i)) /\ place[i] \in 1..Cardinality(K)
  <2>1. UpToPlace(group, i) \in SUBSET K /\ i \in UpToPlace(group, i)
    BY <1>2 DEF UpToPlace, NotAfter
  <2>2. place[i] = Cardinality(UpToPlace(group, i))
    OBVIOUS
  <2> HIDE DEF place, K
  <2>3. IsFiniteSet(UpToPlace(group, i)) /\ Cardinality(UpToPlace(group, i)) <= Cardinality(K)
    BY <1>1, <2>1, FS_Subset
  <2>4. Cardinality(UpToPlace(group, i)) \in Nat /\ Cardinality(UpToPlace(group, i)) # 0
    BY <2>1, <2>3, FS_CardinalityType, FS_EmptySet
  <2> QED
    BY <1>1, <2>1, <2>2, <2>3, <2>4
<1>4. ASSUME NEW i \in K, NEW j \in K, i # j, NotAfter(group, i, j) PROVE place[i] # place[j]
  <2>1. ~NotAfter(group, j, i)
    BY <1>2, <1>4 DEF NotAfter
  <2>2. ASSUME NEW x \in K, NotAfter(group, x, i) PROVE NotAfter(group, x, j)
    BY <1>2, <1>4, <2>2 DEF NotAfter
  <2>3. /\ UpToPlace(group, i) \in SUBSET UpToPlace(group, j)
        /\ j \in UpToPlace(group, j) /\ j \notin UpToPlace(group, i)
    BY <1>3, <2>1, <2>2 DEF UpToPlace
  <2> HIDE DEF place, K
  <2>4. Cardinality(UpToPlace(group, i)) # Cardinality(UpToPlace(group, j))
    BY <1>3, <2>3, FS_Subset
  <2> QED
    BY <1>3, <2>4
<1>5. place \in [K -> 1..Cardinality(K)]
  BY <1>3
<1>6. \A i, j \in K : place[i] = place[j] => i = j
  <2> SUFFICES ASSUME NEW i \in K, NEW j \in K, i # j PROVE place[i] # place[j]
    OBVIOUS
  <2>1. NotAfter(group, i, j) \/ NotAfter(group, j, i)
    BY <1>2 DEF NotAfter
  <2> QED
    BY <1>4, <2>1
<1> HIDE DEF place, K
<1>7. place \in Injection(K, 1..Cardinality(K))
  BY <1>5, <1>6, Fun_IsInj
<1>8. IsFiniteSet(1..Cardinality(K)) /\ Cardinality(1..Cardinality(K)) = Cardinality(K)
  BY <1>1, FS_Interval
<1>9. place \in Surjection(K, 1..Cardinality(K))
  BY <1>7, <1>8, FS_Injection
<1>10. \A k \in 1..Cardinality(K) : \E i \in K : place[i] = k
  BY <1>9 DEF Surjection
<1> QED
  BY <1>1, <1>3, <1>10 DEF K

\* Every match is one of the bindings, with an amount that is safe.
LEMMA MatchesAreBound ==
    ASSUME NEW n \in Nat, NEW group \in [1..n -> BoundAccount]
    PROVE  LET matched == MatchedOf(group)
           IN  /\ Len(matched) \in Nat /\ DOMAIN matched = 1..Len(matched)
               /\ \A k \in DOMAIN matched :
                     \E i \in 1..n : matched[k] = group[i] /\ group[i].size.ok
<1> DEFINE matched == MatchedOf(group)
           c == Cardinality(Kept(group))
           at(k) == CHOOSE j \in Kept(group) : Cardinality(UpToPlace(group, j)) = k
<1>1. c \in Nat /\ \A k \in 1..c : at(k) \in Kept(group)
  BY EveryPlaceTaken
<1>2. matched = [k \in 1..c |-> group[at(k)]]
  BY DEF MatchedOf
<1>3. \A k \in 1..c : matched[k] = group[at(k)] /\ at(k) \in 1..n /\ group[at(k)].size.ok
  BY <1>1, <1>2 DEF Kept
<1>4. matched \in Seq(BoundAccount) /\ DOMAIN matched = 1..c
  <2>1. \A k \in 1..c : group[at(k)] \in BoundAccount
    BY <1>3
  <2> HIDE DEF matched, c, at
  <2>2. matched \in [1..c -> BoundAccount]
    BY <1>2, <2>1
  <2> QED
    BY <1>1, <2>2
<1> HIDE DEF matched, c, at
<1> QED
  BY <1>1, <1>3, <1>4 DEF matched

\* What amountFor finds for the account of a match is of a binding of that account.
LEMMA AmountForIsOwn ==
    ASSUME NEW n \in Nat, NEW group \in [1..n -> BoundAccount],
           NEW k \in DOMAIN MatchedOf(group), NEW sigAmount
    PROVE  LET matched == MatchedOf(group)
           IN  /\ IsOwn(group, OrderOf(matched[k].account,
                                       AmountFor(matched, matched[k].account, sigAmount)), sigAmount)
               /\ FirstOf(matched, matched[k].account) \in DOMAIN matched
<1> DEFINE matched == MatchedOf(group)
           account == matched[k].account
           S == {i \in DOMAIN matched : matched[i].account = account}
           f == FirstOf(matched, account)
           order == OrderOf(account, AmountFor(matched, account, sigAmount))
<1>1. /\ Len(matched) \in Nat /\ DOMAIN matched = 1..Len(matched)
      /\ \A j \in DOMAIN matched : \E i \in 1..n : matched[j] = group[i] /\ group[i].size.ok
  BY MatchesAreBound
<1> HIDE DEF matched
<1>2. PICK i \in S : \A j \in S : i <= j
  <2>1. S \in SUBSET Nat /\ S # {}
    BY <1>1 DEF matched
  <2> HIDE DEF S
  <2> QED
    BY <2>1, LeastNat
<1>3. \A j \in 1..(i - 1) : matched[j].account # account
  <2> SUFFICES ASSUME NEW j \in 1..(i - 1), matched[j].account = account PROVE FALSE
    OBVIOUS
  <2>1. j \in DOMAIN matched /\ ~(i <= j)
    BY <1>1, <1>2
  <2> QED
    BY <1>2, <2>1
<1>4. f \in DOMAIN matched /\ matched[f].account = account
  BY <1>2, <1>3 DEF FirstOf
<1>5. PICK b \in 1..n : matched[f] = group[b] /\ group[b].size.ok
  BY <1>1, <1>4
<1>6. order.account = account /\ order.amount = OwnOr(matched[f].size.amount, sigAmount)
  BY DEF OrderOf, AmountFor
<1> HIDE DEF order, f, account
<1>7. IsOwn(group, order, sigAmount)
  BY <1>4, <1>5, <1>6 DEF IsOwn
<1> QED
  BY <1>4, <1>7 DEF order, f, account, matched

\* The next account to fall back to is one of the matches.
LEMMA AfterIsMatch ==
    ASSUME NEW n \in Nat, NEW group \in [1..n -> BoundAccount],
           NEW at \in DOMAIN MatchedOf(group), NEW attempt \in Nat
    PROVE  After(MatchedOf(group), at, attempt) \in DOMAIN MatchedOf(group)
<1> DEFINE matched == MatchedOf(group)
           f == FirstOf(matched, matched[at].account)
           len == Len(matched)
<1>1. len \in Nat /\ DOMAIN matched = 1..len
  BY MatchesAreBound
<1>2. f \in 1..len
  BY <1>1, AmountForIsOwn
<1>3. After(matched, at, attempt) = ((f + attempt - 1) % len) + 1
  BY DEF After
<1> HIDE DEF matched, f, len
<1>4. f + attempt - 1 \in Nat /\ len \in Nat \ {0}
  BY <1>1, <1>2
<1>5. (f + attempt - 1) % len \in 0..(len - 1)
  BY <1>4
<1> QED
  BY <1>1, <1>3, <1>5 DEF matched

\* ... in a group of any number of bindings.
LEMMA GroupIsOwn ==
    ASSUME NEW n \in Nat, NEW group \in [1..n -> BoundAccount], NEW sigAmount
    PROVE  OwnInGroup(group, sigAmount)
<1> DEFINE matched == MatchedOf(group)
<1>1. ASSUME NEW order \in OrdersOfAll(matched, sigAmount) PROVE IsOwn(group, order, sigAmount)
  BY AmountForIsOwn DEF OrdersOfAll
<1>2. ASSUME NEW i \in DOMAIN matched, NEW order \in OrdersOfOne(matched, i, sigAmount)
      PROVE  IsOwn(group, order, sigAmount)
  <2>1. CASE order = OrderOf(matched[i].account, AmountFor(matched, matched[i].account, sigAmount))
    BY <2>1, AmountForIsOwn
  <2>2. ASSUME NEW k \in 1..MaxAttempts,
               order = FallbackOrder(matched, i, After(matched, i, k), sigAmount)
        PROVE  IsOwn(group, order, sigAmount)
    <3>1. k \in Nat
      BY OrderAmountsAssumption
    <3>2. After(matched, i, k) \in DOMAIN matched
      BY <3>1, AfterIsMatch
    <3> QED
      BY <2>2, <3>2, AmountForIsOwn DEF FallbackOrder
  <2> QED
    BY <2>1, <2>2 DEF OrdersOfOne
<1> QED
  BY <1>1, <1>2 DEF OwnInGroup

\* Without a strategy: the amount that Handle falls back to is that of the first task
\* that has one.
LEMMA FlatIsFirst ==
    ASSUME NEW n \in Nat, NEW tasks \in [1..n -> BoundAccount]
    PROVE  IsFirst(tasks, FlatAmount(tasks, NoAmount))
<1> DEFINE sized == {i \in 1..n : AmountForTask(tasks[i]) # NoAmount}
           IsLeast(i) == \A j \in sized : i <= j
           i0 == CHOOSE i \in sized : IsLeast(i)
<1>1. FlatAmount(tasks, NoAmount) = IF sized = {} THEN NoAmount ELSE AmountForTask(tasks[i0])
  BY DEF FlatAmount
<1>2. CASE sized = {}
  BY <1>1, <1>2 DEF IsFirst
<1>3. CASE sized # {}
  <2>1. sized \in SUBSET Nat
    OBVIOUS
  <2>2. \E i \in sized : IsLeast(i)
    BY <1>3, <2>1, LeastNat
  <2>3. i0 \in sized /\ IsLeast(i0)
    BY <2>2
  <2> HIDE DEF i0
  <2>4. \A j \in 1..(i0 - 1) : AmountForTask(tasks[j]) = NoAmount
    <3> SUFFICES ASSUME NEW j \in 1..(i0 - 1), AmountForTask(tasks[j]) # NoAmount PROVE FALSE
      OBVIOUS
    <3>1. j \in sized /\ ~(i0 <= j)
      BY <2>3
    <3> QED
      BY <2>3, <3>1
  <2> QED
    BY <1>1, <1>3, <2>3, <2>4 DEF IsFirst
<1> QED
  BY <1>2, <1>3

\* An account that has an amount of its own is sent it in mode all.
LEMMA FlatIsOwn ==
    ASSUME NEW n \in Nat, NEW tasks \in [1..n -> BoundAccount], AreTasks(tasks)
    PROVE  OwnInFlat(tasks)
<1> DEFINE first == FlatAmount(tasks, NoAmount)
<1>1. IsFirst(tasks, first)
  BY FlatIsFirst
<1>2. ASSUME NEW i \in 1..n, NEW order,
             order = OrderOf(tasks[i].account, OwnOr(AmountForTask(tasks[i]), first))
      PROVE  \/ order.amount # NoAmount /\ IsOwn(tasks, order, NoAmount)
             \/ /\ IsFirst(tasks, order.amount)
                /\ \A j \in 1..n : tasks[j].account = order.account => AmountForTask(tasks[j]) = NoAmount
  <2>1. order.account = tasks[i].account /\ order.amount = OwnOr(AmountForTask(tasks[i]), first)
    BY <1>2 DEF OrderOf
  <2>2. CASE AmountForTask(tasks[i]) # NoAmount
    <3>1. tasks[i].size.ok /\ tasks[i].size.amount = AmountForTask(tasks[i])
      BY <2>2 DEF AmountForTask
    <3> QED
      BY <2>1, <2>2, <3>1 DEF IsOwn, OwnOr
  <2>3. CASE AmountForTask(tasks[i]) = NoAmount
    <3>1. order.amount = first
      BY <2>1, <2>3 DEF OwnOr
    <3>2. \A j \in 1..n : tasks[j].account = order.account => j = i
      BY <2>1 DEF AreTasks
    <3> QED
      BY <1>1, <2>3, <3>1, <3>2
  <2> QED
    BY <2>2, <2>3
<1>3. ASSUME NEW i \in 1..n, NEW order \in FlatOrdersOfOne(tasks, i, NoAmount)
      PROVE  IsFirst(tasks, order.amount)
  <2>1. order.amount = first
    BY DEF FlatOrdersOfOne, OrderOf
  <2> QED
    BY <1>1, <2>1
<1> HIDE DEF first
<1>4. \A order \in FlatOrders(tasks, NoAmount) :
         \E i \in 1..n : order = OrderOf(tasks[i].account, OwnOr(AmountForTask(tasks[i]), first))
  BY DEF FlatOrders, first
<1> QED
  BY <1>2, <1>3, <1>4 DEF OwnInFlat

LEMMA FlatIsSignals ==
    ASSUME NEW n \in Nat, NEW tasks \in [1..n -> BoundAccount], NEW sigAmount
    PROVE  SignalsInFlat(tasks, sigAmount)
  BY DEF SignalsInFlat, FlatOrders, FlatOrdersOfOne, FlatAmount, OrderOf

\* "Each account may carry its own configured amount" (processor.go, Handle; dispatchGroup
\* and tryFallbackOrder do the same for groups): in a group of any number of bindings, with
\* any number of fallbacks, every order carries it. Among any number of flat tasks it does
\* so in mode all; in the other modes all orders carry the first one's.
THEOREM AmountsAllOwn ==
    ASSUME NEW n \in Nat, NEW group \in [1..n -> BoundAccount]
    PROVE  AllOwn(group)
  BY GroupIsOwn, FlatIsOwn, FlatIsSignals DEF AllOwn

\* ... however the accounts of any group are bound.
THEOREM AmountsAlwaysOwn == Spec => []OwnUnlessFlat
<1>1. Mixed = {}
  <2> SUFFICES ASSUME NEW group \in BoundGroups PROVE AllOwn(group)
    BY DEF Mixed
  <2>1. PICK n \in 1..3 : group \in [1..n -> BoundAccount]
    BY DEF BoundGroups
  <2>2. n \in Nat
    BY <2>1
  <2> QED
    BY <2>1, <2>2, AmountsAllOwn
<1>2. OwnUnlessFlat
  BY <1>1 DEF OwnUnlessFlat
<1> QED
  BY <1>2, PTL
=============================================================================
