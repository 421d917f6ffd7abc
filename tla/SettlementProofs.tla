-------------------------- MODULE SettlementProofs --------------------------
(* Proofs about Settlement: for any accounts, stakes, periods, latencies,    *)
(* length of the day, capacity of the table and number of orders; about the  *)
(* contracts that orders are placed with; and about the pages that a ledger  *)
(* is fetched in.                                                            *)
EXTENDS Settlement, FiniteSetTheorems, FunctionTheorems, SequenceTheorems,
        WellFoundedInduction, TLAPS

-----------------------------------------------------------------------------
(* Contracts: the five readers of a period.                                  *)

\* Every row of a list says how long the unit is.
LEMMA ListsAreRight ==
    /\ \A row \in Settles : row[3] = row[1] * SecondsOf(row[2]) /\ row[2] # "none"
    /\ \A p : PeriodSeconds(p) = Listed(p, Settles)
    /\ BinanceIncrements \subseteq Settles
    /\ {<<30, "s", 30>>, <<45, "s", 45>>} \subseteq Settles
<1>1. \A row \in Settles : row[3] = row[1] * SecondsOf(row[2]) /\ row[2] # "none"
  BY DEF Settles, SecondsOf
<1>2. \A p : PeriodSeconds(p) = Listed(p, Settles)
  BY DEF PeriodSeconds, Settles
<1>3. BinanceIncrements \subseteq Settles /\ {<<30, "s", 30>>, <<45, "s", 45>>} \subseteq Settles
  BY DEF BinanceIncrements, Settles
<1> QED
  BY <1>1, <1>2, <1>3

\* A period that a list knows has a unit, and the length that it says.
LEMMA ListedLength ==
    ASSUME NEW p \in Period, NEW list, list \subseteq Settles
    PROVE  Listed(p, list) = {} \/ (Listed(p, list) = {p.n * SecondsOf(p.unit)} /\ p.unit # "none")
<1>1. ASSUME NEW x \in Listed(p, list) PROVE x = p.n * SecondsOf(p.unit) /\ p.unit # "none"
  <2>1. PICK row \in list : row[1] = p.n /\ row[2] = p.unit /\ x = row[3]
    BY DEF Listed
  <2> QED
    BY <2>1, ListsAreRight
<1> QED
  BY <1>1

\* What PlaceOrder asks each platform for is what the period says, if it has a unit.
LEMMA NamedContract == ASSUME NEW p \in Period PROVE AsNamed(p)
<1> DEFINE length == p.n * SecondsOf(p.unit)
<1>1. p.n \in Nat /\ p.unit \in {"s", "m", "h", "none"}
  BY NumbersAssumption DEF Period
<1>2. CASE p.unit = "none"
  <2>1. BinanceTimeIncrement(p) = {}
    BY <1>2, ListedLength, ListsAreRight DEF BinanceTimeIncrement
  <2>2. PeriodToSeconds(p) = {p.n}
    BY <1>2 DEF PeriodToSeconds
  <2>3. PeriodToMinutes(p) = {60 * p.n}
    BY <1>1, <1>2 DEF PeriodToMinutes
  <2> QED
    BY <1>2, <2>1, <2>2, <2>3 DEF AsNamed, Contracts
<1>3. CASE p.unit # "none"
  <2>1. BinanceTimeIncrement(p) \subseteq {length}
    BY ListedLength, ListsAreRight DEF BinanceTimeIncrement
  <2>2. PeriodToSeconds(p) = {length}
    BY <1>1, <1>3 DEF PeriodToSeconds, SecondsOf
  <2>3. PeriodToMinutes(p) \subseteq {length}
    <3>1. CASE p.unit = "s" /\ p.n % 60 # 0
      <4>1. PeriodToMinutes(p) = Listed(p, {<<30, "s", 30>>, <<45, "s", 45>>})
        BY <3>1 DEF PeriodToMinutes
      <4> QED
        BY <4>1, ListedLength, ListsAreRight
    <3>2. CASE p.unit = "s" /\ p.n % 60 = 0
      <4>1. (p.n \div 60) * 60 = p.n
        BY <1>1, <3>2
      <4> QED
        BY <1>1, <3>2, <4>1 DEF PeriodToMinutes, SecondsOf
    <3>3. CASE p.unit \in {"m", "h"}
      BY <1>1, <3>3 DEF PeriodToMinutes, SecondsOf
    <3> QED
      BY <1>1, <1>3, <3>1, <3>2, <3>3
  <2> QED
    BY <1>3, <2>1, <2>2, <2>3 DEF AsNamed, Contracts
<1> QED
  BY <1>2, <1>3

\* The settlement's list has all of Binance's contracts.
LEMMA SettledContract == ASSUME NEW p \in Period PROVE SettledAtItsEnd(p)
<1>1. Listed(p, BinanceIncrements) \subseteq Listed(p, Settles)
  BY ListsAreRight DEF Listed
<1>2. /\ Listed(p, BinanceIncrements) = {} \/ Listed(p, BinanceIncrements) = {p.n * SecondsOf(p.unit)}
      /\ Listed(p, Settles) = {} \/ Listed(p, Settles) = {p.n * SecondsOf(p.unit)}
  BY ListedLength, ListsAreRight
<1> QED
  BY <1>1, <1>2 DEF SettledAtItsEnd, BinanceTimeIncrement, PeriodDuration, SettlesWithin

\* No bare number is in the processor's list, so that its odds are those of the
\* contract that the same period asks TurboFlow for.
LEMMA OddsContract == ASSUME NEW p \in Period PROVE OddsOfTheContract(p)
<1>1. p.n \in Nat /\ p.unit \in {"s", "m", "h", "none"}
  BY NumbersAssumption DEF Period
<1>2. PeriodSeconds(p) = {} \/ (PeriodSeconds(p) = {p.n * SecondsOf(p.unit)} /\ p.unit # "none")
  BY ListedLength, ListsAreRight
<1>3. p.unit # "none" => PeriodToSeconds(p) = {p.n * SecondsOf(p.unit)}
  BY <1>1 DEF PeriodToSeconds, SecondsOf
<1> QED
  BY <1>2, <1>3 DEF OddsOfTheContract

\* For whatever numbers periods are given with, the five readers agree on the contract of
\* a period with a unit; a bare number is two contracts, in seconds and in minutes
\* (order.go, signals/processor.go, settle/service.go).
THEOREM OnlyBareNumbersEverDiffer == Spec => []OnlyBareNumbersDiffer
<1>1. ReadersDifferOnBareNumbers
  BY NamedContract, SettledContract, OddsContract DEF ReadersDifferOnBareNumbers, Misunderstood
<1>2. OnlyBareNumbersDiffer
  BY <1>1 DEF OnlyBareNumbersDiffer
<1> QED
  BY <1>2, PTL

-----------------------------------------------------------------------------
(* The table of orders.                                                      *)

Sorted(t) == \A i, j \in DOMAIN t : i < j => t[i].id < t[j].id

Table(t) == t \in Seq(Order) /\ Len(t) <= MaxRecs /\ Sorted(t)

LEMMA Constants ==
    /\ Window \in Nat /\ Latency \in Nat /\ Buffer \in Nat /\ MaxSettle \in Nat
    /\ MinGap \in Nat /\ MaxId \in Nat /\ MaxTime \in Nat
    /\ Day \in Nat \ {0} /\ Periods \subseteq Nat /\ MinGap > Window + Latency
    /\ MaxRecs \in Nat \ {0}
  BY SettlementAssumption, GapAssumption, MaxRecsAssumption

\* A record of the table can be looked up, and its fields have their types.
LEMMA TableElement ==
    ASSUME NEW t, Table(t), NEW i \in DOMAIN t
    PROVE  /\ DOMAIN t = 1..Len(t) /\ Len(t) \in Nat
           /\ t[i] \in Order /\ t[i].id \in 1..MaxId /\ t[i].id \in Nat
           /\ t[i].time \in Nat /\ t[i].period \in Nat /\ t[i].result \in Results
<1>1. DOMAIN t = 1..Len(t) /\ Len(t) \in Nat /\ t[i] \in Order
  BY LenProperties, ElementOfSeq DEF Table
<1>2. t[i].id \in 1..MaxId /\ t[i].time \in 0..MaxTime /\ t[i].period \in Periods /\ t[i].result \in Results
  BY <1>1 DEF Order
<1>3. t[i].id \in Nat /\ t[i].time \in Nat /\ t[i].period \in Nat
  BY <1>2, Constants
<1> QED
  BY <1>1, <1>2, <1>3

\* Ids are not repeated.
LEMMA OneRecord ==
    ASSUME NEW t, Table(t), NEW i \in DOMAIN t, NEW j \in DOMAIN t, t[i].id = t[j].id
    PROVE  i = j
  BY TableElement DEF Table, Sorted

LEMMA NewestIsTheOne ==
    ASSUME NEW t, Table(t), NEW i \in DOMAIN t
    PROVE  Newest(t, t[i].id) = i
<1>1. \A j \in DOMAIN t : t[j].id = t[i].id => j = i
  BY OneRecord
<1>2. i \in DOMAIN t /\ t[i].id = t[i].id /\ \A j \in DOMAIN t : t[j].id = t[i].id => j <= i
  BY <1>1, TableElement
<1> QED
  BY <1>1, <1>2 DEF Newest

\* The new record is put last; k is 1 when the oldest one made room for it.
LEMMA PushEffect ==
    ASSUME NEW t, Table(t), NEW r \in Order, \A i \in DOMAIN t : t[i].id < r.id
    PROVE  /\ Table(Push(t, r)) /\ Push(t, r) # <<>>
           /\ Push(t, r)[Len(Push(t, r))] = r
           /\ \E k \in {0, 1} : \A i \in DOMAIN Push(t, r) :
                \/ i = Len(Push(t, r))
                \/ i + k \in DOMAIN t /\ Push(t, r)[i] = t[i + k]
<1> DEFINE a == Append(t, r)
           p == Push(t, r)
           n == Len(t)
<1>1. t \in Seq(Order) /\ n \in Nat /\ DOMAIN t = 1..n /\ n <= MaxRecs /\ MaxRecs \in Nat \ {0}
  BY LenProperties, Constants DEF Table
<1>2. /\ a \in Seq(Order) /\ Len(a) = n + 1
      /\ \A i \in 1..n : a[i] = t[i]
      /\ a[n + 1] = r
  BY <1>1, AppendProperties
<1>3. \A i \in 1..(n + 1) : a[i] \in Order
  BY <1>2, ElementOfSeq
<1>4. PICK k \in {0, 1} : /\ k = 0 => n < MaxRecs /\ p = a
                          /\ k = 1 => n = MaxRecs /\ p = SubSeq(a, 2, n + 1)
  <2> HIDE DEF n
  <2>1. n < MaxRecs \/ n = MaxRecs
    BY <1>1
  <2>2. CASE n < MaxRecs
    BY <1>1, <1>2, <2>2 DEF Push, Trim
  <2>3. CASE n = MaxRecs
    BY <1>1, <1>2, <2>3 DEF Push, Trim
  <2> QED
    BY <2>1, <2>2, <2>3
<1> HIDE DEF n, a, p
<1>5. /\ p \in Seq(Order) /\ Len(p) = n + 1 - k /\ DOMAIN p = 1..(n + 1 - k)
      /\ \A i \in 1..(n + 1 - k) : p[i] = a[i + k]
  <2>1. CASE k = 0
    BY <1>1, <1>2, <1>4, <2>1, LenProperties
  <2>2. CASE k = 1
    <3>1. /\ SubSeq(a, 2, n + 1) \in Seq(Order)
          /\ Len(SubSeq(a, 2, n + 1)) = IF 2 <= n + 1 THEN n + 1 - 2 + 1 ELSE 0
          /\ \A i \in 1..(n + 1 - 2 + 1) : SubSeq(a, 2, n + 1)[i] = a[2 + i - 1]
      <4>1. \A i \in 2..(n + 1) : a[i] \in Order
        BY <1>1, <1>3
      <4> QED
        BY <1>1, <4>1, SubSeqProperties
    <3>2. n \in Nat \ {0} /\ p = SubSeq(a, 2, n + 1)
      BY <1>1, <1>4, <2>2
    <3>3. Len(p) = n /\ \A i \in 1..n : p[i] = a[i + 1]
      BY <3>1, <3>2
    <3>4. p \in Seq(Order)
      BY <3>1, <3>2
    <3> QED
      BY <1>1, <2>2, <3>3, <3>4, LenProperties
  <2> QED
    BY <2>1, <2>2
<1>6. Len(p) <= MaxRecs /\ Len(p) # 0 /\ p[Len(p)] = r /\ p # <<>>
  <2>1. Len(p) <= MaxRecs /\ Len(p) # 0 /\ p[Len(p)] = r
    BY <1>1, <1>2, <1>4, <1>5
  <2> QED
    BY <2>1, EmptySeq
<1>7. \A i \in DOMAIN p : i = Len(p) \/ (i + k \in DOMAIN t /\ p[i] = t[i + k])
  <2> SUFFICES ASSUME NEW i \in DOMAIN p, i # Len(p)
               PROVE  i + k \in DOMAIN t /\ p[i] = t[i + k]
    OBVIOUS
  <2>1. i + k \in 1..n /\ p[i] = a[i + k]
    BY <1>1, <1>5
  <2> QED
    BY <1>1, <1>2, <2>1
<1>8. Sorted(p)
  <2> SUFFICES ASSUME NEW i \in DOMAIN p, NEW j \in DOMAIN p, i < j PROVE p[i].id < p[j].id
    BY DEF Sorted
  <2>1. i + k \in DOMAIN t /\ p[i] = t[i + k] /\ k \in Nat /\ i \in Nat /\ j \in Nat
    BY <1>1, <1>5, <1>7
  <2>2. CASE j = Len(p)
    BY <1>6, <2>1, <2>2
  <2>3. CASE j # Len(p)
    BY <1>7, <2>1, <2>3 DEF Table, Sorted
  <2> QED
    BY <2>2, <2>3
<1> QED
  BY <1>5, <1>6, <1>7, <1>8 DEF Table, p

\* SetResult changes the result of the one record with the id.
LEMMA ResultEffect ==
    ASSUME NEW t, Table(t), NEW k \in DOMAIN t, NEW x \in Results
    PROVE  LET u == SetResultOf(t, t[k].id, x)
           IN  /\ Table(u) /\ DOMAIN u = DOMAIN t /\ Len(u) = Len(t)
               /\ \A i \in DOMAIN t : i # k => u[i] = t[i]
               /\ u[k] = [t[k] EXCEPT !.result = x]
<1> DEFINE r == [t[k] EXCEPT !.result = x]
           u == [t EXCEPT ![k] = r]
<1>1. SetResultOf(t, t[k].id, x) = u
  BY NewestIsTheOne DEF SetResultOf, IdsOf
<1>2. t \in Seq(Order) /\ DOMAIN t = 1..Len(t) /\ Len(t) \in Nat /\ Len(t) <= MaxRecs
  BY LenProperties DEF Table
<1>3. r \in Order /\ r.id = t[k].id
  BY TableElement DEF Order
<1>4. u \in Seq(Order) /\ Len(u) = Len(t) /\ \A i \in 1..Len(t) : u[i] = IF i = k THEN r ELSE t[i]
  BY <1>2, <1>3, ExceptSeq
<1>5. DOMAIN u = DOMAIN t
  BY <1>2, <1>4, LenProperties
<1> HIDE DEF u, r
<1>6. Sorted(u)
  BY <1>2, <1>3, <1>4, <1>5 DEF Table, Sorted
<1>7. /\ Table(u) /\ DOMAIN u = DOMAIN t /\ Len(u) = Len(t)
      /\ \A i \in DOMAIN t : i # k => u[i] = t[i]
      /\ u[k] = r
  BY <1>2, <1>4, <1>5, <1>6 DEF Table
<1> QED
  BY <1>1, <1>7 DEF r

\* Midnight is at or before the instant, and instants between the two have the same
\* midnight (service.go, windowStart).
LEMMA SameDay ==
    ASSUME NEW n \in Nat
    PROVE  /\ StartOfDay(n) \in Nat /\ StartOfDay(n) <= n
           /\ \A m \in Nat : StartOfDay(n) <= m /\ m <= n => StartOfDay(m) = StartOfDay(n)
<1> DEFINE q(m) == m \div Day
<1>1. ASSUME NEW m \in Nat PROVE q(m) \in Nat /\ q(m) * Day <= m /\ m < q(m) * Day + Day
  BY Constants
<1>2. ASSUME NEW m \in Nat, NEW a \in Nat, NEW b \in Nat,
             a * Day <= m, m < a * Day + Day, b * Day <= m, m < b * Day + Day
      PROVE  a = b
  BY <1>2, Constants
<1>3. ASSUME NEW m \in Nat PROVE StartOfDay(m) = q(m) * Day
  BY DEF StartOfDay
<1> HIDE DEF q
<1>4. q(n) * Day \in Nat /\ Day \in Nat
  BY <1>1, Constants
<1>5. ASSUME NEW m \in Nat, StartOfDay(n) <= m, m <= n PROVE StartOfDay(m) = StartOfDay(n)
  <2>1. q(n) * Day <= m /\ m < q(n) * Day + Day
    BY <1>1, <1>3, <1>4, <1>5
  <2>2. q(m) = q(n)
    BY <1>1, <1>2, <2>1
  <2> QED
    BY <1>3, <2>2
<1> QED
  BY <1>1, <1>3, <1>4, <1>5

-----------------------------------------------------------------------------
(* Which order an entry belongs to.  The ledger does not say; the distance   *)
(* in time between orders of one account and amount does.                    *)

Timely == \A i \in DOMAIN recs : recs[i].time <= clock

\* Records of one account and amount are MinGap apart.
Spaced ==
    \A i, j \in DOMAIN recs :
        (i < j /\ recs[i].task = recs[j].task /\ recs[i].amount = recs[j].amount)
            => recs[j].time - recs[i].time >= MinGap

\* An order has one entry, of its account and amount, which is not earlier than its record.
OneEntry ==
    /\ \A e \in ledger : e.time <= clock /\ e.order <= NewestId
    /\ \A e, f \in ledger : e.order = f.order => e = f
    /\ \A e \in ledger : \A i \in DOMAIN recs :
          e.order = recs[i].id =>
              e.task = recs[i].task /\ e.amount = recs[i].amount /\ recs[i].time <= e.time

\* No entry lies within the match window of another order's record.
Apart ==
    \A e \in ledger : \A i \in DOMAIN recs :
        (recs[i].task = e.task /\ recs[i].amount = e.amount /\ recs[i].id # e.order)
            => Abs(recs[i].time - e.time) > Window

LedgerInv == TypeOK /\ Sorted(recs) /\ Timely /\ Spaced /\ OneEntry /\ Apart

LEMMA LedgerTypes ==
    ASSUME LedgerInv
    PROVE  /\ Table(recs) /\ clock \in Nat
           /\ \A e \in ledger : e \in Entry /\ e.time \in Nat /\ e.order \in 1..MaxId
                                /\ e.order \in Nat
<1>1. Table(recs) /\ clock \in 0..MaxTime
  BY DEF LedgerInv, TypeOK, Table
<1>2. \A e \in ledger : e \in Entry /\ e.time \in 0..MaxTime /\ e.order \in 1..MaxId
  BY DEF LedgerInv, TypeOK, Entry
<1> QED
  BY <1>1, <1>2, Constants

\* Ids are given in increasing order.
LEMMA NewestIsLargest ==
    ASSUME LedgerInv
    PROVE  NewestId \in 0..MaxId /\ \A i \in DOMAIN recs : recs[i].id <= NewestId
<1>1. Table(recs)
  BY LedgerTypes
<1>2. CASE recs = <<>>
  BY <1>2, Constants DEF NewestId
<1>3. CASE recs # <<>>
  <2>1. DOMAIN recs = 1..Len(recs) /\ Len(recs) \in Nat \ {0} /\ Len(recs) \in DOMAIN recs
    BY <1>1, <1>3, LenProperties, EmptySeq DEF Table
  <2>2. NewestId = recs[Len(recs)].id /\ NewestId \in 1..MaxId /\ NewestId \in Nat
    BY <1>1, <1>3, <2>1, TableElement DEF NewestId
  <2>3. ASSUME NEW i \in DOMAIN recs PROVE recs[i].id <= NewestId
    <3>1. i = Len(recs) \/ i < Len(recs)
      BY <2>1
    <3>2. recs[i].id \in Nat
      BY <1>1, TableElement
    <3> QED
      BY <1>1, <2>1, <2>2, <3>1, <3>2 DEF Table, Sorted
  <2> QED
    BY <2>2, <2>3, Constants
<1> QED
  BY <1>2, <1>3

\* The nearest record of an entry's account and amount is that of its own order, or none.
LEMMA MatchIsOwn ==
    ASSUME LedgerInv, NEW e \in ledger
    PROVE  \/ Match(e) = 0
           \/ \E k \in DOMAIN recs : /\ recs[k].id = e.order /\ Match(e) = e.order
                                     /\ recs[k].result # "win"
                                     /\ PeriodOf(Match(e)) = recs[k].period
                                     /\ Match(e) # 0
<1> DEFINE hits == {i \in DOMAIN recs : Matchable(recs[i], e.task, e.amount, e.time, Window)}
           Closest(i) == \A j \in hits :
               \/ Abs(recs[i].time - e.time) < Abs(recs[j].time - e.time)
               \/ Abs(recs[i].time - e.time) = Abs(recs[j].time - e.time) /\ j <= i
<1>1. Match(e) = IF hits = {} THEN 0 ELSE recs[CHOOSE i \in hits : Closest(i)].id
  BY DEF Match, FindMatch
<1>2. Table(recs) /\ e.order \in 1..MaxId
  BY LedgerTypes
<1>3. \A i \in hits : recs[i].id = e.order
  <2> SUFFICES ASSUME NEW i \in hits, recs[i].id # e.order PROVE FALSE
    OBVIOUS
  <2>1. /\ recs[i].task = e.task /\ recs[i].amount = e.amount
        /\ Abs(recs[i].time - e.time) <= Window
    BY DEF Matchable
  <2>2. Abs(recs[i].time - e.time) > Window
    BY <2>1 DEF LedgerInv, Apart
  <2>3. recs[i].time \in Nat /\ e.time \in Nat /\ Window \in Nat
    BY <1>2, LedgerTypes, TableElement, Constants
  <2> QED
    BY <2>1, <2>2, <2>3 DEF Abs
<1>4. CASE hits = {}
  BY <1>1, <1>4
<1>5. CASE hits # {}
  <2>1. PICK k \in hits : TRUE
    BY <1>5
  <2>2. \A j \in hits : j = k
    BY <1>2, <1>3, OneRecord
  <2>3. k \in Nat /\ Closest(k)
    BY <1>2, <2>2, TableElement
  <2>4. (CHOOSE i \in hits : Closest(i)) = k
    BY <2>2, <2>3
  <2>5. Match(e) = recs[k].id
    BY <1>1, <1>5, <2>4
  <2>6. recs[k].id = e.order /\ recs[k].result # "win"
    BY <1>3 DEF Matchable
  <2>7. Newest(recs, recs[k].id) = k
    BY <1>2, NewestIsTheOne
  <2>8. PeriodOf(Match(e)) = recs[k].period
    BY <2>5, <2>7 DEF PeriodOf
  <2> QED
    BY <1>2, <2>5, <2>6, <2>8
<1> QED
  BY <1>4, <1>5

\* One reconciled entry writes its own order's record, when that is not a win yet, or none.
LEMMA ReconcileEffect ==
    ASSUME LedgerInv, NEW e \in todo, Reconcile(e)
    PROVE  /\ ResultOf(e) \in {"win", "loss", "pending"}
           /\ \/ recs' = recs
              \/ \E k \in DOMAIN recs :
                    /\ recs[k].id = e.order /\ recs[k].result # "win"
                    /\ Deadline(e) = e.time + Buffer + recs[k].period
                    /\ Table(recs') /\ DOMAIN recs' = DOMAIN recs /\ Len(recs') = Len(recs)
                    /\ \A i \in DOMAIN recs : i # k => recs'[i] = recs[i]
                    /\ recs'[k] = [recs[k] EXCEPT !.result = ResultOf(e)]
<1>1. ResultOf(e) \in {"win", "loss", "pending"}
  BY DEF ResultOf
<1>2. e \in ledger /\ Table(recs)
  BY LedgerTypes DEF LedgerInv, TypeOK
<1>3. CASE Match(e) = 0
  BY <1>1, <1>3 DEF Reconcile
<1>4. ASSUME NEW k \in DOMAIN recs, recs[k].id = e.order, Match(e) = e.order,
             recs[k].result # "win", PeriodOf(Match(e)) = recs[k].period, Match(e) # 0
      PROVE  /\ Deadline(e) = e.time + Buffer + recs[k].period
             /\ Table(recs') /\ DOMAIN recs' = DOMAIN recs /\ Len(recs') = Len(recs)
             /\ \A i \in DOMAIN recs : i # k => recs'[i] = recs[i]
             /\ recs'[k] = [recs[k] EXCEPT !.result = ResultOf(e)]
  <2>1. recs' = SetResultOf(recs, recs[k].id, ResultOf(e))
    BY <1>4 DEF Reconcile
  <2>2. ResultOf(e) \in Results
    BY <1>1 DEF Results
  <2>3. Deadline(e) = e.time + Buffer + recs[k].period
    BY <1>4 DEF Deadline
  <2> QED
    BY <1>2, <2>1, <2>2, <2>3, ResultEffect
<1> QED
  BY <1>1, <1>2, <1>3, <1>4, MatchIsOwn

\* A new record, put behind the others.
LEMMA PlaceEffect ==
    ASSUME LedgerInv, NEW a \in Accounts, NEW amount \in Amounts, NEW period \in Periods,
           Place(a, amount, period)
    PROVE  \E r \in Order, k \in {0, 1} :
              /\ r.id = NewestId + 1 /\ r.task = a /\ r.amount = amount /\ r.time = clock
              /\ r.period = period /\ r.result = "none"
              /\ Table(recs') /\ NewestId' = r.id
              /\ \A i \in DOMAIN recs' : \/ recs'[i] = r /\ i = Len(recs')
                                         \/ i + k \in DOMAIN recs /\ recs'[i] = recs[i + k]
<1> DEFINE r == [id |-> NewestId + 1, task |-> a, amount |-> amount,
                 time |-> clock, period |-> period, result |-> "none"]
<1>1. Table(recs) /\ NewestId \in 0..MaxId /\ \A i \in DOMAIN recs : recs[i].id <= NewestId
  BY LedgerTypes, NewestIsLargest
<1>2. NewestId + 1 \in 1..MaxId /\ clock \in 0..MaxTime
  BY <1>1, Constants DEF Place, LedgerInv, TypeOK
<1>3. r \in Order
  BY <1>2 DEF Order, Results
<1>4. recs' = Push(recs, r)
  BY DEF Place
<1>5. /\ r.id = NewestId + 1 /\ r.task = a /\ r.amount = amount /\ r.time = clock
      /\ r.period = period /\ r.result = "none"
  OBVIOUS
<1> HIDE DEF r
<1>6. \A i \in DOMAIN recs : recs[i].id < r.id
  <2> SUFFICES ASSUME NEW i \in DOMAIN recs PROVE recs[i].id < r.id
    OBVIOUS
  <2>1. recs[i].id \in Nat /\ recs[i].id <= NewestId /\ NewestId \in 0..MaxId
    BY <1>1, TableElement
  <2> QED
    BY <1>5, <2>1, Constants
<1>7. /\ Table(recs') /\ recs' # <<>> /\ recs'[Len(recs')] = r
      /\ \E k \in {0, 1} : \A i \in DOMAIN recs' :
            i = Len(recs') \/ (i + k \in DOMAIN recs /\ recs'[i] = recs[i + k])
  BY <1>1, <1>3, <1>4, <1>6, PushEffect
<1>8. NewestId' = r.id
  BY <1>7 DEF NewestId
<1> QED
  BY <1>3, <1>5, <1>7, <1>8

LEMMA LedgerInvInit == Init => LedgerInv
<1> SUFFICES ASSUME Init PROVE LedgerInv
  OBVIOUS
<1>1. 0 \in 0..MaxTime /\ NotPolling \in {NotPolling} \cup 0..MaxTime
  BY Constants
<1>2. recs \in Seq(Order) /\ Len(recs) = 0 /\ DOMAIN recs = {}
  BY EmptySeq DEF Init
<1>3. TypeOK
  <2>1. clock \in 0..MaxTime /\ updatedAt \in 0..MaxTime /\ windowStart \in 0..MaxTime
    BY <1>1 DEF Init
  <2>2. Len(recs) <= MaxRecs
    BY <1>2, Constants
  <2> QED
    BY <1>1, <1>2, <2>1, <2>2 DEF Init, TypeOK
<1>4. ledger = {}
  BY DEF Init
<1> QED
  BY <1>2, <1>3, <1>4 DEF LedgerInv, Sorted, Timely, Spaced, OneEntry, Apart

LEMMA TypeStep == LedgerInv /\ [Next]_vars => TypeOK'
<1> SUFFICES ASSUME LedgerInv, [Next]_vars PROVE TypeOK'
  OBVIOUS
<1>0. TypeOK
  BY DEF LedgerInv
<1> USE DEF TypeOK, published
<1>1. CASE Tick
  BY <1>0, <1>1, Constants DEF Tick
<1>2. ASSUME NEW a \in Accounts, NEW amount \in Amounts, NEW period \in Periods,
             Place(a, amount, period)
      PROVE  TypeOK'
  <2>1. Table(recs')
    BY <1>2, PlaceEffect
  <2> QED
    BY <1>0, <1>2, <2>1 DEF Place, Table
<1>3. ASSUME NEW i \in DOMAIN recs, Accept(i) PROVE TypeOK'
  <2>1. recs[i] \in Order
    BY LedgerTypes, TableElement
  <2>2. [order |-> recs[i].id, task |-> recs[i].task, amount |-> recs[i].amount,
         time |-> clock] \in Entry
    BY <1>0, <2>1 DEF Order, Entry
  <2> QED
    BY <1>0, <1>3, <2>2 DEF Accept
<1>4. ASSUME NEW e \in ledger, Payout(e) PROVE TypeOK'
  BY <1>0, <1>4, LedgerTypes DEF Payout
<1>5. CASE StartPoll
  BY <1>0, <1>5 DEF StartPoll
<1>6. ASSUME NEW a \in Accounts, Fetch(a) \/ FetchFails(a) \/ Skip(a) PROVE TypeOK'
  BY <1>0, <1>6 DEF Fetch, FetchFails, Skip, NextAccount, Fetched
<1>7. ASSUME NEW e \in todo, Reconcile(e) PROVE TypeOK'
  <2>1. recs' \in Seq(Order) /\ Len(recs') <= MaxRecs
    BY <1>0, <1>7, ReconcileEffect DEF Table
  <2>2. [entry |-> e, result |-> ResultOf(e)] \in Verdict
    BY <1>0, <1>7, ReconcileEffect DEF Verdict, Results
  <2> QED
    BY <1>0, <1>7, <2>1, <2>2 DEF Reconcile
<1>8. CASE Publish
  <2>1. pollNow \in 0..MaxTime
    BY <1>0, <1>8 DEF Publish
  <2>2. StartOfDay(pollNow) \in 0..MaxTime
    BY <2>1, SameDay, Constants
  <2> QED
    BY <1>0, <1>8, <2>2 DEF Publish
<1>9. CASE UNCHANGED vars
  BY <1>0, <1>9 DEF vars, published
<1> QED
  BY <1>1, <1>2, <1>3, <1>4, <1>5, <1>6, <1>7, <1>8, <1>9 DEF Next, Exchange

\* Orders and entries stay linked, through new orders, evictions, acceptances and polls.
LEMMA LedgerInvStep == LedgerInv /\ [Next]_vars => LedgerInv'
<1> SUFFICES ASSUME LedgerInv, [Next]_vars PROVE LedgerInv'
  OBVIOUS
<1>0. TypeOK' /\ Table(recs) /\ clock \in Nat
  BY TypeStep, LedgerTypes
<1>1. ASSUME UNCHANGED <<recs, ledger>>, clock' = clock \/ clock' = clock + 1 PROVE LedgerInv'
  <2>1. \A i \in DOMAIN recs : recs[i].time \in Nat
    BY <1>0, TableElement
  <2>2. Timely'
    BY <1>0, <1>1, <2>1 DEF LedgerInv, Timely
  <2>3. \A e \in ledger : e.time <= clock'
    BY <1>0, <1>1, LedgerTypes DEF LedgerInv, OneEntry
  <2> QED
    BY <1>0, <1>1, <2>2, <2>3 DEF LedgerInv, Sorted, Spaced, OneEntry, Apart, NewestId
<1>2. ASSUME NEW a \in Accounts, NEW amount \in Amounts, NEW period \in Periods,
             Place(a, amount, period)
      PROVE  LedgerInv'
  <2>1. PICK r \in Order, k \in {0, 1} :
              /\ r.id = NewestId + 1 /\ r.task = a /\ r.amount = amount /\ r.time = clock
              /\ r.period = period /\ r.result = "none"
              /\ Table(recs') /\ NewestId' = r.id
              /\ \A i \in DOMAIN recs' : \/ recs'[i] = r /\ i = Len(recs')
                                         \/ i + k \in DOMAIN recs /\ recs'[i] = recs[i + k]
    BY <1>2, PlaceEffect
  <2>2. /\ ledger' = ledger /\ clock' = clock
        /\ \A i \in DOMAIN recs :
              (recs[i].task = a /\ recs[i].amount = amount) => clock - recs[i].time >= MinGap
        /\ \A e \in ledger :
              (e.task = a /\ e.amount = amount) => clock - e.time >= MinGap - Latency
    BY <1>2 DEF Place
  <2>3. /\ \A i \in DOMAIN recs' : i \in Nat /\ i <= Len(recs')
        /\ \A i \in DOMAIN recs : i \in Nat /\ recs[i].time \in Nat /\ recs[i].time <= clock
        /\ \A e \in ledger : /\ e.time \in Nat /\ e.time <= clock
                             /\ e.order \in Nat /\ e.order <= NewestId
        /\ NewestId \in Nat
    BY <1>0, <2>1, TableElement, LedgerTypes, NewestIsLargest, Constants
       DEF LedgerInv, Timely, OneEntry
  <2>4. Timely'
    BY <1>0, <2>1, <2>2, <2>3 DEF Timely
  <2>5. Spaced'
    <3> SUFFICES ASSUME NEW i \in DOMAIN recs', NEW j \in DOMAIN recs', i < j,
                        recs'[i].task = recs'[j].task, recs'[i].amount = recs'[j].amount
                 PROVE  recs'[j].time - recs'[i].time >= MinGap
      BY DEF Spaced
    <3>1. i + k \in DOMAIN recs /\ recs'[i] = recs[i + k]
      BY <2>1, <2>3
    <3>2. CASE recs'[j] = r
      BY <2>1, <2>2, <3>1, <3>2
    <3>3. CASE j + k \in DOMAIN recs /\ recs'[j] = recs[j + k]
      <4>1. i + k < j + k
        BY <2>1, <2>3
      <4> QED
        BY <3>1, <3>3, <4>1 DEF LedgerInv, Spaced
    <3> QED
      BY <2>1, <3>2, <3>3
  <2>6. OneEntry'
    <3>1. \A e \in ledger : e.order <= NewestId' /\ e.order # r.id
      BY <2>1, <2>3
    <3>2. \A e \in ledger : \A i \in DOMAIN recs' :
             e.order = recs'[i].id =>
                e.task = recs'[i].task /\ e.amount = recs'[i].amount /\ recs'[i].time <= e.time
      BY <2>1, <3>1 DEF LedgerInv, OneEntry
    <3> QED
      BY <2>2, <3>1, <3>2 DEF LedgerInv, OneEntry
  <2>7. Apart'
    <3> SUFFICES ASSUME NEW e \in ledger, NEW i \in DOMAIN recs',
                        recs'[i].task = e.task, recs'[i].amount = e.amount, recs'[i].id # e.order
                 PROVE  Abs(recs'[i].time - e.time) > Window
      BY <2>2 DEF Apart
    <3>1. CASE recs'[i] = r
      <4>1. clock - e.time >= MinGap - Latency /\ recs'[i].time = clock
        BY <2>1, <2>2, <3>1
      <4> QED
        BY <1>0, <2>3, <4>1, Constants DEF Abs
    <3>2. CASE i + k \in DOMAIN recs /\ recs'[i] = recs[i + k]
      BY <3>2 DEF LedgerInv, Apart
    <3> QED
      BY <2>1, <3>1, <3>2
  <2>8. Sorted(recs)'
    BY <2>1 DEF Table, Sorted
  <2> QED
    BY <1>0, <2>4, <2>5, <2>6, <2>7, <2>8 DEF LedgerInv
<1>3. ASSUME NEW i \in DOMAIN recs, Accept(i) PROVE LedgerInv'
  <2> DEFINE new == [order |-> recs[i].id, task |-> recs[i].task, amount |-> recs[i].amount,
                     time |-> clock]
  <2>1. /\ ledger' = ledger \cup {new} /\ UNCHANGED <<clock, recs>>
        /\ \A e \in ledger : e.order # recs[i].id
        /\ clock <= recs[i].time + Latency
    BY <1>3 DEF Accept
  <2>2. /\ new.order = recs[i].id /\ new.task = recs[i].task /\ new.amount = recs[i].amount
        /\ new.time = clock
    OBVIOUS
  <2> HIDE DEF new
  <2>3. /\ recs[i].id <= NewestId
        /\ \A j \in DOMAIN recs : /\ recs[j].time \in Nat /\ recs[j].time <= clock
                                  /\ j \in Nat
                                  /\ recs[j].id = recs[i].id => j = i
    BY <1>0, NewestIsLargest, TableElement, OneRecord DEF LedgerInv, Timely
  <2>4. OneEntry'
    BY <1>0, <2>1, <2>2, <2>3 DEF LedgerInv, OneEntry, NewestId
  <2>5. ASSUME NEW j \in DOMAIN recs, recs[j].task = new.task, recs[j].amount = new.amount,
               recs[j].id # new.order
        PROVE  Abs(recs[j].time - new.time) > Window
    <3>1. j < i \/ i < j
      BY <2>2, <2>3, <2>5
    <3>2. CASE j < i
      <4>1. recs[i].time - recs[j].time >= MinGap
        BY <2>2, <2>5, <3>2 DEF LedgerInv, Spaced
      <4> QED
        BY <1>0, <2>2, <2>3, <4>1, Constants DEF Abs
    <3>3. CASE i < j
      <4>1. recs[j].time - recs[i].time >= MinGap
        BY <2>2, <2>5, <3>3 DEF LedgerInv, Spaced
      <4> QED
        BY <1>0, <2>1, <2>3, <4>1, Constants
    <3> QED
      BY <3>1, <3>2, <3>3
  <2>6. Apart'
    BY <2>1, <2>5 DEF LedgerInv, Apart
  <2> QED
    BY <1>0, <2>1, <2>4, <2>6 DEF LedgerInv, Sorted, Timely, Spaced
<1>4. ASSUME NEW e \in ledger, Payout(e) PROVE LedgerInv'
  BY <1>1, <1>4 DEF Payout
<1>5. ASSUME NEW a \in Accounts, Fetch(a) \/ FetchFails(a) \/ Skip(a) PROVE LedgerInv'
  BY <1>1, <1>5 DEF Fetch, FetchFails, Skip
<1>6. ASSUME NEW e \in todo, Reconcile(e) PROVE LedgerInv'
  <2>1. UNCHANGED <<ledger, clock>>
    BY <1>6 DEF Reconcile
  <2>2. CASE recs' = recs
    BY <1>1, <2>1, <2>2
  <2>3. CASE recs' # recs
    <3>1. PICK k \in DOMAIN recs :
             /\ Table(recs') /\ DOMAIN recs' = DOMAIN recs /\ Len(recs') = Len(recs)
             /\ \A i \in DOMAIN recs : i # k => recs'[i] = recs[i]
             /\ recs'[k] = [recs[k] EXCEPT !.result = ResultOf(e)]
      BY <1>6, <2>3, ReconcileEffect
    <3>2. ASSUME NEW i \in DOMAIN recs
          PROVE  /\ recs'[i].id = recs[i].id /\ recs'[i].task = recs[i].task
                 /\ recs'[i].amount = recs[i].amount /\ recs'[i].time = recs[i].time
      BY <1>0, <3>1, TableElement DEF Order
    <3>3. NewestId' = NewestId
      <4>1. recs # <<>> /\ recs' # <<>> /\ Len(recs) \in DOMAIN recs
        BY <1>0, <3>1, LenProperties, EmptySeq DEF Table
      <4> QED
        BY <3>1, <3>2, <4>1 DEF NewestId
    <3>4. Timely' /\ Spaced'
      BY <2>1, <3>1, <3>2 DEF LedgerInv, Timely, Spaced
    <3>5. OneEntry' /\ Apart'
      BY <2>1, <3>1, <3>2, <3>3 DEF LedgerInv, OneEntry, Apart
    <3> QED
      BY <1>0, <3>1, <3>4, <3>5 DEF LedgerInv, Table, Sorted
  <2> QED
    BY <2>2, <2>3
<1>7. CASE Tick
  BY <1>1, <1>7 DEF Tick
<1>8. CASE StartPoll
  BY <1>1, <1>8 DEF StartPoll
<1>9. CASE Publish
  BY <1>1, <1>9 DEF Publish
<1>10. CASE UNCHANGED vars
  BY <1>1, <1>10 DEF vars, published
<1> QED
  BY <1>2, <1>3, <1>4, <1>5, <1>6, <1>7, <1>8, <1>9, <1>10 DEF Next, Exchange

LEMMA LedgerCorrect == Spec => []LedgerInv
  BY LedgerInvInit, LedgerInvStep, PTL DEF Spec

\* Every variable keeps to its range.
THEOREM TypeCorrect == Spec => []TypeOK
<1>1. LedgerInv => TypeOK
  BY DEF LedgerInv
<1> QED
  BY <1>1, LedgerCorrect, PTL

-----------------------------------------------------------------------------
(* The results.                                                              *)

\* A poll sees payouts that were posted, and not those after its instant.
WinInv ==
    /\ seenPaid \subseteq paid
    /\ \A i \in DOMAIN recs : recs[i].result = "win" => recs[i].id \in paid

LEMMA WinInvStep == LedgerInv /\ WinInv /\ [Next]_vars => WinInv'
<1> SUFFICES ASSUME LedgerInv, WinInv, [Next]_vars PROVE WinInv'
  OBVIOUS
<1>1. ASSUME recs' = recs, paid \subseteq paid', seenPaid' \in {seenPaid, paid, {}} PROVE WinInv'
  BY <1>1 DEF WinInv
<1>2. ASSUME NEW a \in Accounts, NEW amount \in Amounts, NEW period \in Periods,
             Place(a, amount, period)
      PROVE  WinInv'
  <2>1. \A j \in DOMAIN recs' :
           recs'[j].result = "none" \/ \E i \in DOMAIN recs : recs'[j] = recs[i]
    BY <1>2, PlaceEffect
  <2> QED
    BY <1>2, <2>1 DEF Place, WinInv
<1>3. ASSUME NEW e \in todo, Reconcile(e) PROVE WinInv'
  <2>1. UNCHANGED <<paid, seenPaid>> /\ (ResultOf(e) = "win" => e.order \in paid)
    BY <1>3 DEF Reconcile, ResultOf, WinInv
  <2>2. CASE recs' = recs
    BY <1>1, <2>1, <2>2
  <2>3. ASSUME NEW k \in DOMAIN recs, recs[k].id = e.order, DOMAIN recs' = DOMAIN recs,
               \A i \in DOMAIN recs : i # k => recs'[i] = recs[i],
               recs'[k] = [recs[k] EXCEPT !.result = ResultOf(e)]
        PROVE  WinInv'
    <3>1. recs[k] \in Order
      BY LedgerTypes, TableElement
    <3>2. recs'[k].id = e.order /\ recs'[k].result = ResultOf(e)
      BY <2>3, <3>1 DEF Order
    <3> QED
      BY <2>1, <2>3, <3>2 DEF WinInv
  <2> QED
    BY <1>3, <2>2, <2>3, ReconcileEffect
<1>4. CASE Tick \/ Exchange \/ StartPoll \/ Publish
  <2>1. recs' = recs /\ paid \subseteq paid' /\ seenPaid' \in {seenPaid, paid, {}}
    BY <1>4 DEF Tick, Exchange, Accept, Payout, StartPoll, Publish
  <2> QED
    BY <1>1, <2>1
<1>5. ASSUME NEW a \in Accounts, Fetch(a) \/ FetchFails(a) \/ Skip(a) PROVE WinInv'
  BY <1>1, <1>5 DEF Fetch, FetchFails, Skip
<1>6. CASE UNCHANGED vars
  BY <1>1, <1>6 DEF vars, published
<1> QED
  BY <1>2, <1>3, <1>4, <1>5, <1>6 DEF Next

LEMMA WinCorrect == Spec => []WinInv
<1>1. Init => WinInv
  BY EmptySeq DEF Init, WinInv
<1> QED
  BY <1>1, WinInvStep, LedgerCorrect, PTL DEF Spec

\* A payout is credited to the order that earned it, and to no other: the nearest
\* record of the account and amount is that order's, also when the table has lost the
\* records of others (service.go, pollAccount; store.go, FindMatch).
THEOREM WinsWerePaid == Spec => []WinsArePaid
<1>1. WinInv => WinsArePaid
  BY DEF WinInv, WinsArePaid
<1> QED
  BY <1>1, WinCorrect, PTL

\* The poll's instant is not in the future, and entries are reconciled within polls.
Polling ==
    /\ pollNow <= clock
    /\ pollNow = NotPolling => todo = {}

\* The end of an order's contract, with the time for a late payout.
End(e, r) == e.time + Buffer + r.period

\* An order shown as lost has an entry, whose end was over at the last poll's instant.
LossInv ==
    /\ Polling
    /\ \A i \in DOMAIN recs : recs[i].result = "loss" =>
          \E e \in ledger : /\ e.order = recs[i].id
                            /\ clock > End(e, recs[i])
                            /\ pollNow # NotPolling => pollNow > End(e, recs[i])

LEMMA PollingStep == LedgerInv /\ Polling /\ [Next]_vars => Polling'
<1> SUFFICES ASSUME LedgerInv, Polling, [Next]_vars PROVE Polling'
  OBVIOUS
<1>1. clock \in Nat /\ (pollNow = NotPolling \/ pollNow \in Nat) /\ NotPolling = -1
  BY LedgerTypes, Constants DEF LedgerInv, TypeOK, NotPolling
<1>2. CASE Tick
  BY <1>1, <1>2 DEF Tick, Polling
<1>3. CASE StartPoll
  BY <1>1, <1>3 DEF StartPoll, Polling
<1>4. CASE Publish
  BY <1>1, <1>4 DEF Publish, Polling
<1>5. ASSUME UNCHANGED <<clock, pollNow>>, todo' \subseteq todo \/ pollNow # NotPolling
      PROVE  Polling'
  BY <1>5 DEF Polling
<1>6. ASSUME NEW a \in Accounts, Fetch(a) \/ FetchFails(a) \/ Skip(a) PROVE Polling'
  BY <1>5, <1>6 DEF Fetch, FetchFails, Skip, NextAccount
<1>7. ASSUME NEW e \in todo, Reconcile(e) PROVE Polling'
  BY <1>5, <1>7 DEF Reconcile
<1>8. ASSUME NEW a \in Accounts, NEW amount \in Amounts, NEW period \in Periods,
             Place(a, amount, period)
      PROVE  Polling'
  BY <1>5, <1>8 DEF Place
<1>9. CASE Exchange
  BY <1>5, <1>9 DEF Exchange, Accept, Payout
<1>10. CASE UNCHANGED vars
  BY <1>5, <1>10 DEF vars, published
<1> QED
  BY <1>2, <1>3, <1>4, <1>6, <1>7, <1>8, <1>9, <1>10 DEF Next

LEMMA LossInvStep == LedgerInv /\ LossInv /\ [Next]_vars => LossInv'
<1> SUFFICES ASSUME LedgerInv, LossInv, [Next]_vars PROVE LossInv'
  OBVIOUS
<1>0. Polling' /\ clock \in Nat /\ Table(recs)
  BY PollingStep, LedgerTypes DEF LossInv
<1>1. ASSUME NEW e \in ledger, NEW i \in DOMAIN recs PROVE End(e, recs[i]) \in Nat
  BY LedgerTypes, TableElement, Constants DEF End
<1>2. ASSUME recs' = recs, ledger \subseteq ledger', clock' = clock \/ clock' = clock + 1,
             pollNow' \in {pollNow, NotPolling, clock}
      PROVE  LossInv'
  <2> SUFFICES ASSUME NEW i \in DOMAIN recs, recs[i].result = "loss"
               PROVE \E e \in ledger' : /\ e.order = recs[i].id
                                        /\ clock' > End(e, recs[i])
                                        /\ pollNow' # NotPolling => pollNow' > End(e, recs[i])
    BY <1>0, <1>2 DEF LossInv
  <2>1. PICK e \in ledger : /\ e.order = recs[i].id
                            /\ clock > End(e, recs[i])
                            /\ pollNow # NotPolling => pollNow > End(e, recs[i])
    BY DEF LossInv
  <2>2. clock' > End(e, recs[i])
    BY <1>0, <1>1, <1>2, <2>1
  <2> QED
    BY <1>2, <2>1, <2>2
<1>3. ASSUME NEW a \in Accounts, NEW amount \in Amounts, NEW period \in Periods,
             Place(a, amount, period)
      PROVE  LossInv'
  <2>1. \A j \in DOMAIN recs' :
           recs'[j].result = "none" \/ \E i \in DOMAIN recs : recs'[j] = recs[i]
    BY <1>3, PlaceEffect
  <2>2. UNCHANGED <<ledger, clock, pollNow>>
    BY <1>3 DEF Place
  <2> QED
    BY <1>0, <2>1, <2>2 DEF LossInv
<1>4. ASSUME NEW e \in todo, Reconcile(e) PROVE LossInv'
  <2>1. UNCHANGED <<ledger, clock, pollNow>> /\ e \in ledger /\ pollNow # NotPolling
    BY <1>4 DEF Reconcile, LossInv, Polling, LedgerInv, TypeOK
  <2>2. CASE recs' = recs
    BY <1>2, <2>1, <2>2
  <2>3. ASSUME NEW k \in DOMAIN recs, recs[k].id = e.order, DOMAIN recs' = DOMAIN recs,
               Deadline(e) = e.time + Buffer + recs[k].period,
               \A i \in DOMAIN recs : i # k => recs'[i] = recs[i],
               recs'[k] = [recs[k] EXCEPT !.result = ResultOf(e)]
        PROVE  LossInv'
    <3>1. recs[k] \in Order /\ pollNow \in Nat /\ pollNow <= clock
      BY <2>1, LedgerTypes, TableElement, Constants DEF LedgerInv, TypeOK, LossInv, Polling
    <3>2. recs'[k].id = e.order /\ recs'[k].result = ResultOf(e) /\ recs'[k].period = recs[k].period
      BY <2>3, <3>1 DEF Order
    <3>3. ResultOf(e) = "loss" => pollNow > End(e, recs'[k])
      BY <2>3, <3>2 DEF ResultOf, End
    <3>4. ResultOf(e) = "loss" => clock > End(e, recs'[k])
      <4>1. End(e, recs'[k]) = End(e, recs[k])
        BY <3>2 DEF End
      <4> QED
        BY <1>0, <1>1, <2>1, <3>1, <3>3, <4>1
    <3>5. ASSUME NEW i \in DOMAIN recs', recs'[i].result = "loss"
          PROVE  \E f \in ledger : /\ f.order = recs'[i].id
                                   /\ clock > End(f, recs'[i])
                                   /\ pollNow # NotPolling => pollNow > End(f, recs'[i])
      <4>1. CASE i = k
        BY <2>1, <3>2, <3>3, <3>4, <3>5, <4>1
      <4>2. CASE i # k
        BY <2>3, <3>5, <4>2 DEF LossInv
      <4> QED
        BY <4>1, <4>2
    <3> QED
      BY <1>0, <2>1, <3>5 DEF LossInv
  <2> QED
    BY <1>4, <2>2, <2>3, ReconcileEffect
<1>5. CASE Tick \/ Exchange \/ StartPoll \/ Publish
  <2>1. /\ recs' = recs /\ ledger \subseteq ledger' /\ (clock' = clock \/ clock' = clock + 1)
        /\ pollNow' \in {pollNow, NotPolling, clock}
    BY <1>5 DEF Tick, Exchange, Accept, Payout, StartPoll, Publish
  <2> QED
    BY <1>2, <2>1
<1>6. ASSUME NEW a \in Accounts, Fetch(a) \/ FetchFails(a) \/ Skip(a) PROVE LossInv'
  BY <1>2, <1>6 DEF Fetch, FetchFails, Skip
<1>7. CASE UNCHANGED vars
  BY <1>2, <1>7 DEF vars, published
<1> QED
  BY <1>3, <1>4, <1>5, <1>6, <1>7 DEF Next

LEMMA LossCorrect == Spec => []LossInv
<1>1. Init => LossInv
  BY EmptySeq, Constants DEF Init, LossInv, Polling, NotPolling
<1> QED
  BY <1>1, LossInvStep, LedgerCorrect, PTL DEF Spec

\* No order is shown as lost before its own contract has run out and the buffer for a
\* late payout has passed: the deadline is that of the record the entry belongs to
\* (service.go, pollAccount).
THEOREM LossesAreLate == Spec => []LossIsLate
<1>1. LedgerInv /\ LossInv => LossIsLate
  <2> SUFFICES ASSUME LedgerInv, LossInv, NEW i \in DOMAIN recs, recs[i].result = "loss"
               PROVE  clock > recs[i].time + recs[i].period + Buffer
    BY DEF LossIsLate
  <2>1. PICK e \in ledger : e.order = recs[i].id /\ clock > End(e, recs[i])
    BY DEF LossInv
  <2>2. recs[i].time <= e.time
    BY <2>1 DEF LedgerInv, OneEntry
  <2>3. clock \in Nat /\ recs[i].time \in Nat /\ recs[i].period \in Nat /\ e.time \in Nat
    BY LedgerTypes, TableElement
  <2> QED
    BY <2>1, <2>2, <2>3, Constants DEF End
<1> QED
  BY <1>1, LossCorrect, LedgerCorrect, PTL

\* What a step may make of the result of an order.
Improves(before, after) ==
    before \in {"win", "loss"} => after = before \/ (before = "loss" /\ after = "win")

LEMMA ResultStep ==
    ASSUME LedgerInv, LossInv, [Next]_vars,
           NEW i \in DOMAIN recs, NEW j \in DOMAIN recs', recs[i].id = recs'[j].id
    PROVE  Improves(recs[i].result, recs'[j].result)
<1>0. Table(recs)
  BY LedgerTypes
<1>1. CASE recs' = recs
  <2>1. i = j
    BY <1>0, <1>1, OneRecord
  <2> QED
    BY <1>1, <2>1 DEF Improves
<1>2. ASSUME NEW a \in Accounts, NEW amount \in Amounts, NEW period \in Periods,
             Place(a, amount, period)
      PROVE  Improves(recs[i].result, recs'[j].result)
  <2>1. recs'[j].id = NewestId + 1 \/ \E m \in DOMAIN recs : recs'[j] = recs[m]
    BY <1>2, PlaceEffect
  <2>2. recs[i].id # NewestId + 1
    BY <1>0, NewestIsLargest, TableElement, Constants
  <2>3. PICK m \in DOMAIN recs : recs'[j] = recs[m]
    BY <2>1, <2>2
  <2>4. m = i
    BY <1>0, <2>3, OneRecord
  <2> QED
    BY <2>3, <2>4 DEF Improves
<1>3. ASSUME NEW e \in todo, Reconcile(e), recs' # recs
      PROVE  Improves(recs[i].result, recs'[j].result)
  <2>1. PICK k \in DOMAIN recs :
           /\ recs[k].id = e.order /\ recs[k].result # "win"
           /\ Deadline(e) = e.time + Buffer + recs[k].period
           /\ DOMAIN recs' = DOMAIN recs
           /\ \A m \in DOMAIN recs : m # k => recs'[m] = recs[m]
           /\ recs'[k] = [recs[k] EXCEPT !.result = ResultOf(e)]
    BY <1>3, ReconcileEffect
  <2>2. recs[k] \in Order /\ e \in ledger /\ pollNow # NotPolling
    BY <1>0, TableElement DEF LedgerInv, TypeOK, LossInv, Polling
  <2>3. recs'[k].id = recs[k].id /\ recs'[k].result = ResultOf(e)
    BY <2>1, <2>2 DEF Order
  <2>4. \A m \in DOMAIN recs : recs'[m].id = recs[m].id
    BY <2>1, <2>3
  <2>5. i = j
    BY <1>0, <2>1, <2>4, OneRecord
  <2>6. CASE i # k
    BY <2>1, <2>5, <2>6 DEF Improves
  <2>7. CASE i = k /\ recs[k].result = "loss"
    <3>1. PICK f \in ledger : f.order = recs[k].id /\ pollNow > End(f, recs[k])
      BY <2>2, <2>7 DEF LossInv
    <3>2. f = e
      BY <2>1, <2>2, <3>1 DEF LedgerInv, OneEntry
    <3>3. pollNow > Deadline(e)
      BY <2>1, <3>1, <3>2 DEF End
    <3>4. ResultOf(e) \in {"win", "loss"}
      BY <3>3 DEF ResultOf
    <3> QED
      BY <2>3, <2>5, <2>7, <3>4 DEF Improves
  <2>8. CASE i = k /\ recs[k].result # "loss"
    BY <2>1, <2>8 DEF Improves
  <2> QED
    BY <2>6, <2>7, <2>8
<1>4. ASSUME NEW a \in Accounts, Fetch(a) \/ FetchFails(a) \/ Skip(a) PROVE recs' = recs
  BY <1>4 DEF Fetch, FetchFails, Skip
<1>5. CASE Tick \/ Exchange \/ StartPoll \/ Publish \/ UNCHANGED vars
  <2>1. recs' = recs
    BY <1>5 DEF Tick, Exchange, Accept, Payout, StartPoll, Publish, vars
  <2> QED
    BY <1>1, <2>1
<1> QED
  BY <1>1, <1>2, <1>3, <1>4, <1>5 DEF Next

\* No poll turns a win back or reopens a loss; only a late payout turns a loss into a
\* win (service.go, pollAccount: polls repeat over the same entries for hours).
THEOREM ResultsImprove == Spec => ResultsOnlyImprove
<1>1. LedgerInv /\ LossInv /\ [Next]_vars =>
        [ \A i \in DOMAIN recs, j \in DOMAIN recs' :
          (recs[i].id = recs'[j].id /\ recs[i].result \in {"win", "loss"})
             => \/ recs'[j].result = recs[i].result
                \/ recs[i].result = "loss" /\ recs'[j].result = "win" ]_vars
  BY ResultStep DEF Improves
<1> QED
  BY <1>1, LedgerCorrect, LossCorrect, PTL DEF Spec, ResultsOnlyImprove

-----------------------------------------------------------------------------
(* The summary.                                                              *)

\* A summary of account a counts exactly the entries of ledger l in a stretch of time;
\* those in rest have still to be counted.
Counts(l, rest, summary, a, from, to) ==
    /\ \A v \in summary :
          v.entry \in l /\ v.entry.task = a /\ from <= v.entry.time /\ v.entry.time <= to
    /\ \A e \in l : (e.task = a /\ from <= e.time /\ e.time < to)
                       => e \in rest \/ \E v \in summary : v.entry = e

\* It covers the window of some poll up to the instant last.
CountsUpTo(last, l, summary, a) ==
    \E now \in 0..last : Counts(l, {}, summary, a, StartOfDay(now), now)

\* What is published, and what the running poll has so far.
PublishedInv ==
    /\ updatedAt <= clock /\ windowStart = StartOfDay(updatedAt)
    /\ \A a \in Accounts :
          IF a \in statsOk THEN Counts(ledger, {}, stats[a], a, windowStart, updatedAt)
          ELSE CountsUpTo(updatedAt, ledger, stats[a], a)

BuiltInv ==
    /\ updatedAt <= pollNow
    /\ \A e \in todo : e.time <= pollNow /\ e.task \in nextOk
    /\ \A a \in left : counted[a] = {} /\ a \notin nextOk
    /\ \A a \in Accounts :
          IF a \in nextOk THEN Counts(ledger, todo, counted[a], a, StartOfDay(pollNow), pollNow)
          ELSE CountsUpTo(updatedAt, ledger, counted[a], a)

SummaryInv == PublishedInv /\ (pollNow # NotPolling => BuiltInv)

\* An empty summary is that of the instant 0.
LEMMA EmptyCounts ==
    ASSUME NEW last \in Nat, NEW l, \A e \in l : e.time \in Nat, NEW a
    PROVE  CountsUpTo(last, l, {}, a)
<1>1. 0 \in 0..last
  OBVIOUS
<1>2. Counts(l, {}, {}, a, StartOfDay(0), 0)
  BY DEF Counts
<1> QED
  BY <1>1, <1>2 DEF CountsUpTo

\* An entry that is posted at or after the end of the stretch changes nothing.
LEMMA LaterEntry ==
    ASSUME NEW l, NEW e, NEW rest, NEW summary, NEW a, NEW from \in Nat, NEW to \in Nat,
           e.time \in Nat, to <= e.time, Counts(l, rest, summary, a, from, to)
    PROVE  Counts(l \cup {e}, rest, summary, a, from, to)
<1>1. ~(e.time < to)
  OBVIOUS
<1> QED
  BY <1>1 DEF Counts

LEMMA LaterEntryUpTo ==
    ASSUME NEW last \in Nat, NEW l, NEW e, NEW summary, NEW a,
           e.time \in Nat, last <= e.time, CountsUpTo(last, l, summary, a)
    PROVE  CountsUpTo(last, l \cup {e}, summary, a)
<1>1. PICK now \in 0..last : Counts(l, {}, summary, a, StartOfDay(now), now)
  BY DEF CountsUpTo
<1>2. now \in Nat /\ StartOfDay(now) \in Nat /\ now <= e.time
  BY SameDay
<1> QED
  BY <1>1, <1>2, LaterEntry DEF CountsUpTo

\* The exchange accepts an order at the present instant: no window is open any more.
LEMMA SummaryInvAccept ==
    ASSUME LedgerInv, Polling, SummaryInv, NEW i \in DOMAIN recs, Accept(i)
    PROVE  SummaryInv'
<1> DEFINE new == [order |-> recs[i].id, task |-> recs[i].task, amount |-> recs[i].amount,
                   time |-> clock]
<1>1. /\ ledger' = ledger \cup {new} /\ new.time = clock
      /\ UNCHANGED <<clock, left, todo, pollNow, counted, nextOk, stats, statsOk,
                     updatedAt, windowStart>>
  BY DEF Accept, published
<1>2. /\ clock \in Nat /\ updatedAt \in Nat /\ (pollNow = NotPolling \/ pollNow \in Nat)
      /\ StartOfDay(updatedAt) \in Nat /\ pollNow <= clock
      /\ pollNow # NotPolling => StartOfDay(pollNow) \in Nat
  <2>1. /\ clock \in Nat /\ updatedAt \in Nat /\ (pollNow = NotPolling \/ pollNow \in Nat)
        /\ pollNow <= clock
    BY Constants DEF LedgerInv, TypeOK, Polling
  <2> QED
    BY <2>1, SameDay
<1> HIDE DEF new
<1>3. PublishedInv'
  <2>1. updatedAt <= clock /\ windowStart = StartOfDay(updatedAt)
    BY DEF SummaryInv, PublishedInv
  <2>2. ASSUME NEW a \in Accounts, a \in statsOk
        PROVE  Counts(ledger \cup {new}, {}, stats[a], a, windowStart, updatedAt)
    BY <1>1, <1>2, <2>1, <2>2, LaterEntry DEF SummaryInv, PublishedInv
  <2>3. ASSUME NEW a \in Accounts, a \notin statsOk
        PROVE  CountsUpTo(updatedAt, ledger \cup {new}, stats[a], a)
    BY <1>1, <1>2, <2>1, <2>3, LaterEntryUpTo DEF SummaryInv, PublishedInv
  <2>4. windowStart' = StartOfDay(updatedAt)' /\ updatedAt' <= clock'
    BY <1>1, <2>1 DEF StartOfDay
  <2> QED
    BY <1>1, <2>2, <2>3, <2>4 DEF PublishedInv
<1>4. ASSUME pollNow # NotPolling PROVE BuiltInv'
  <2>1. updatedAt <= pollNow /\ pollNow \in Nat
    BY <1>2, <1>4 DEF SummaryInv, BuiltInv
  <2>2. ASSUME NEW a \in Accounts, a \in nextOk
        PROVE  Counts(ledger \cup {new}, todo, counted[a], a, StartOfDay(pollNow), pollNow)
    BY <1>1, <1>2, <1>4, <2>1, <2>2, LaterEntry DEF SummaryInv, BuiltInv
  <2>3. ASSUME NEW a \in Accounts, a \notin nextOk
        PROVE  CountsUpTo(updatedAt, ledger \cup {new}, counted[a], a)
    <3>1. updatedAt <= new.time /\ new.time \in Nat
      BY <1>1, <1>2, <2>1
    <3> QED
      BY <1>2, <1>4, <2>3, <3>1, LaterEntryUpTo DEF SummaryInv, BuiltInv
  <2>4. \A e \in todo : e.time <= pollNow /\ e.task \in nextOk
    BY <1>4 DEF SummaryInv, BuiltInv
  <2>5. \A a \in left : counted[a] = {} /\ a \notin nextOk
    BY <1>4 DEF SummaryInv, BuiltInv
  <2>6. StartOfDay(pollNow)' = StartOfDay(pollNow)
    BY <1>1 DEF StartOfDay
  <2> QED
    BY <1>1, <2>1, <2>2, <2>3, <2>4, <2>5, <2>6 DEF BuiltInv
<1> QED
  BY <1>1, <1>3, <1>4 DEF SummaryInv

\* One account's turn in a poll: its entries are fetched, or its summary is kept, or empty.
LEMMA SummaryInvTurn ==
    ASSUME LedgerInv, Polling, SummaryInv, NEW a \in Accounts, Fetch(a) \/ FetchFails(a) \/ Skip(a)
    PROVE  SummaryInv'
<1>0. /\ pollNow # NotPolling /\ todo = {} /\ a \in left /\ left' = left \ {a}
      /\ UNCHANGED <<clock, ledger, pollNow, stats, statsOk, updatedAt, windowStart>>
  BY DEF Fetch, FetchFails, Skip, NextAccount, published
<1>1. /\ counted \in [Accounts -> SUBSET Verdict] /\ pollNow \in Nat /\ updatedAt \in Nat
      /\ left \subseteq Accounts /\ StartOfDay(pollNow) \in Nat
      /\ \A e \in ledger : e.time \in Nat
      /\ MaxSettle + Buffer \in Nat
  <2>1. /\ counted \in [Accounts -> SUBSET Verdict] /\ pollNow \in Nat /\ updatedAt \in Nat
        /\ left \subseteq Accounts
    BY <1>0, Constants DEF LedgerInv, TypeOK
  <2> QED
    BY <2>1, LedgerTypes, Constants, SameDay
<1>2. BuiltInv /\ PublishedInv
  BY <1>0 DEF SummaryInv
<1>3. PublishedInv' /\ StartOfDay(pollNow)' = StartOfDay(pollNow) /\ (updatedAt <= pollNow)'
  BY <1>0, <1>2 DEF PublishedInv, BuiltInv, StartOfDay
<1>4. CASE Fetch(a)
  <2>1. todo' = Fetched(a) /\ nextOk' = nextOk \cup {a} /\ counted' = counted /\ counted[a] = {}
    BY <1>0, <1>2, <1>4 DEF Fetch, BuiltInv
  <2>2. \A e \in todo' : e.time <= pollNow' /\ e.task \in nextOk'
    BY <1>0, <2>1 DEF Fetched
  <2>3. \A b \in left' : counted'[b] = {} /\ b \notin nextOk'
    BY <1>0, <1>2, <2>1 DEF BuiltInv
  <2>4. Counts(ledger, Fetched(a), counted[a], a, StartOfDay(pollNow), pollNow)
    <3> SUFFICES ASSUME NEW e \in ledger, e.task = a, StartOfDay(pollNow) <= e.time, e.time < pollNow
                 PROVE  e \in Fetched(a)
      BY <2>1 DEF Counts
    <3>1. e.time >= StartOfDay(pollNow) - (MaxSettle + Buffer) /\ e.time <= pollNow
      BY <1>1
    <3> QED
      BY <3>1 DEF Fetched
  <2>5. ASSUME NEW b \in Accounts, b \in nextOk
        PROVE  Counts(ledger, Fetched(a), counted[b], b, StartOfDay(pollNow), pollNow)
    BY <1>0, <1>2, <2>5 DEF BuiltInv, Counts
  <2>6. ASSUME NEW b \in Accounts, b \notin nextOk
        PROVE  CountsUpTo(updatedAt, ledger, counted[b], b)
    BY <1>2, <2>6 DEF BuiltInv
  <2> QED
    BY <1>0, <1>3, <2>1, <2>2, <2>3, <2>4, <2>5, <2>6 DEF BuiltInv, SummaryInv
<1>5. CASE FetchFails(a)
  <2>1. /\ todo' = {} /\ nextOk' = nextOk /\ a \notin nextOk
        /\ \A b \in Accounts : counted'[b] = IF b = a THEN stats[a] ELSE counted[b]
    BY <1>0, <1>1, <1>2, <1>5 DEF FetchFails, BuiltInv
  <2>2. CountsUpTo(updatedAt, ledger, stats[a], a)
    <3>1. CASE a \in statsOk
      <4>1. updatedAt \in 0..updatedAt
        BY <1>1
      <4>2. Counts(ledger, {}, stats[a], a, StartOfDay(updatedAt), updatedAt)
        BY <1>2, <3>1 DEF PublishedInv
      <4> QED
        BY <4>1, <4>2 DEF CountsUpTo
    <3>2. CASE a \notin statsOk
      BY <1>2, <3>2 DEF PublishedInv
    <3> QED
      BY <3>1, <3>2
  <2>3. \A b \in left' : counted'[b] = {} /\ b \notin nextOk'
    BY <1>0, <1>1, <1>2, <2>1 DEF BuiltInv
  <2>4. \A b \in Accounts :
           IF b \in nextOk' THEN Counts(ledger, {}, counted'[b], b, StartOfDay(pollNow), pollNow)
           ELSE CountsUpTo(updatedAt, ledger, counted'[b], b)
    BY <1>0, <1>2, <2>1, <2>2 DEF BuiltInv
  <2> QED
    BY <1>0, <1>3, <2>1, <2>3, <2>4 DEF BuiltInv, SummaryInv
<1>6. CASE Skip(a)
  <2>1. UNCHANGED <<todo, counted, nextOk>>
    BY <1>0, <1>6 DEF Skip
  <2> QED
    BY <1>0, <1>2, <1>3, <2>1 DEF BuiltInv, SummaryInv
<1> QED
  BY <1>4, <1>5, <1>6

\* An entry is counted when it is of today.
LEMMA SummaryInvReconcile ==
    ASSUME LedgerInv, Polling, SummaryInv, NEW e \in todo, Reconcile(e)
    PROVE  SummaryInv'
<1> DEFINE v == [entry |-> e, result |-> ResultOf(e)]
<1>0. /\ todo' = todo \ {e}
      /\ UNCHANGED <<clock, ledger, pollNow, left, nextOk, stats, statsOk, updatedAt, windowStart>>
  BY DEF Reconcile, published
<1>1. /\ counted \in [Accounts -> SUBSET Verdict] /\ pollNow # NotPolling /\ pollNow \in Nat
      /\ left \subseteq Accounts /\ StartOfDay(pollNow) \in Nat
      /\ e \in ledger /\ e.time \in Nat /\ e.task \in Accounts /\ v.entry = e
  <2>1. /\ counted \in [Accounts -> SUBSET Verdict] /\ pollNow # NotPolling /\ pollNow \in Nat
        /\ left \subseteq Accounts /\ e \in ledger
    BY Constants DEF LedgerInv, TypeOK, Polling
  <2>2. e.time \in Nat /\ e.task \in Accounts
    BY <2>1, LedgerTypes DEF Entry
  <2> QED
    BY <2>1, <2>2, SameDay
<1>2. BuiltInv /\ PublishedInv
  BY <1>1 DEF SummaryInv
<1>3. /\ PublishedInv' /\ StartOfDay(pollNow)' = StartOfDay(pollNow) /\ (updatedAt <= pollNow)'
      /\ e.time <= pollNow /\ e.task \in nextOk /\ e.task \notin left
      /\ \A f \in todo' : f.time <= pollNow' /\ f.task \in nextOk'
  BY <1>0, <1>2 DEF PublishedInv, BuiltInv, StartOfDay
<1>4. \A b \in Accounts :
        IF b \in nextOk THEN Counts(ledger, todo, counted[b], b, StartOfDay(pollNow), pollNow)
        ELSE CountsUpTo(updatedAt, ledger, counted[b], b)
  BY <1>2 DEF BuiltInv
<1>5. \A b \in left : counted[b] = {} /\ b \notin nextOk
  BY <1>2 DEF BuiltInv
<1>6. CASE e.time < StartOfDay(pollNow)
  <2>1. counted' = counted
    BY <1>6 DEF Reconcile
  <2>2. ~(StartOfDay(pollNow) <= e.time)
    BY <1>1, <1>6
  <2>3. ASSUME NEW b \in nextOk, b \in Accounts
        PROVE  Counts(ledger, todo', counted[b], b, StartOfDay(pollNow), pollNow)
    BY <1>0, <1>4, <2>2, <2>3 DEF Counts
  <2> QED
    BY <1>0, <1>3, <1>4, <1>5, <2>1, <2>3 DEF BuiltInv, SummaryInv
<1>7. CASE ~(e.time < StartOfDay(pollNow))
  <2>1. \A b \in Accounts :
           counted'[b] = IF b = e.task THEN counted[b] \cup {v} ELSE counted[b]
    BY <1>1, <1>7 DEF Reconcile
  <2>2. StartOfDay(pollNow) <= e.time
    BY <1>1, <1>7
  <2> HIDE DEF v
  <2>3. Counts(ledger, todo', counted'[e.task], e.task, StartOfDay(pollNow), pollNow)
    <3>1. Counts(ledger, todo, counted[e.task], e.task, StartOfDay(pollNow), pollNow)
      BY <1>1, <1>3, <1>4
    <3>2. counted'[e.task] = counted[e.task] \cup {v}
      BY <1>1, <2>1
    <3>3. \A u \in counted'[e.task] : /\ u.entry \in ledger /\ u.entry.task = e.task
                                      /\ StartOfDay(pollNow) <= u.entry.time
                                      /\ u.entry.time <= pollNow
      BY <1>1, <1>3, <2>2, <3>1, <3>2 DEF Counts
    <3>4. ASSUME NEW f \in ledger, f.task = e.task, StartOfDay(pollNow) <= f.time, f.time < pollNow
          PROVE  f \in todo' \/ \E u \in counted'[e.task] : u.entry = f
      <4>1. f \in todo \/ \E u \in counted[e.task] : u.entry = f
        BY <3>1, <3>4 DEF Counts
      <4> QED
        BY <1>0, <1>1, <3>2, <4>1
    <3> QED
      BY <3>3, <3>4 DEF Counts
  <2>4. ASSUME NEW b \in Accounts, b \in nextOk, b # e.task
        PROVE  Counts(ledger, todo', counted'[b], b, StartOfDay(pollNow), pollNow)
    <3>1. Counts(ledger, todo, counted[b], b, StartOfDay(pollNow), pollNow) /\ counted'[b] = counted[b]
      BY <1>4, <2>1, <2>4
    <3> QED
      BY <1>0, <2>4, <3>1 DEF Counts
  <2>5. ASSUME NEW b \in Accounts, b \notin nextOk
        PROVE  CountsUpTo(updatedAt, ledger, counted'[b], b)
    BY <1>3, <1>4, <2>1, <2>5
  <2>6. \A b \in left : counted'[b] = {} /\ b \notin nextOk
    BY <1>1, <1>3, <1>5, <2>1
  <2> QED
    BY <1>0, <1>3, <2>3, <2>4, <2>5, <2>6 DEF BuiltInv, SummaryInv
<1> QED
  BY <1>6, <1>7

LEMMA SummaryInvPublish ==
    ASSUME LedgerInv, Polling, SummaryInv, Publish
    PROVE  SummaryInv'
<1>1. /\ pollNow # NotPolling /\ todo = {} /\ pollNow' = NotPolling /\ UNCHANGED <<clock, ledger>>
      /\ stats' = counted /\ statsOk' = nextOk
      /\ updatedAt' = pollNow /\ windowStart' = StartOfDay(pollNow)
  BY DEF Publish
<1>2. BuiltInv /\ pollNow \in Nat /\ updatedAt \in Nat /\ pollNow <= clock
  BY <1>1 DEF SummaryInv, LedgerInv, TypeOK, Polling
<1>3. ASSUME NEW a \in Accounts, a \in nextOk
      PROVE  Counts(ledger, {}, counted[a], a, StartOfDay(pollNow), pollNow)
  BY <1>1, <1>2, <1>3 DEF BuiltInv
<1>4. ASSUME NEW a \in Accounts, a \notin nextOk
      PROVE  CountsUpTo(pollNow, ledger, counted[a], a)
  <2>1. CountsUpTo(updatedAt, ledger, counted[a], a) /\ updatedAt <= pollNow
    BY <1>2, <1>4 DEF BuiltInv
  <2>2. \A now \in 0..updatedAt : now \in 0..pollNow
    BY <1>2, <2>1
  <2> QED
    BY <2>1, <2>2 DEF CountsUpTo
<1>5. StartOfDay(updatedAt)' = StartOfDay(pollNow)
  BY <1>1 DEF StartOfDay
<1> QED
  BY <1>1, <1>2, <1>3, <1>4, <1>5 DEF SummaryInv, PublishedInv

LEMMA SummaryInvStep == LedgerInv /\ Polling /\ SummaryInv /\ [Next]_vars => SummaryInv'
<1> SUFFICES ASSUME LedgerInv, Polling, SummaryInv, [Next]_vars PROVE SummaryInv'
  OBVIOUS
<1>0. /\ updatedAt \in Nat /\ clock \in Nat /\ \A e \in ledger : e.time \in Nat
  BY LedgerTypes, Constants DEF LedgerInv, TypeOK
<1>1. ASSUME UNCHANGED <<ledger, todo, pollNow, left, counted, nextOk, published>>,
             clock' = clock \/ clock' = clock + 1
      PROVE  SummaryInv'
  <2>1. (updatedAt <= clock)'
    BY <1>0, <1>1 DEF SummaryInv, PublishedInv, published
  <2> QED
    BY <1>1, <2>1 DEF SummaryInv, PublishedInv, BuiltInv, StartOfDay, published
<1>2. CASE Tick \/ UNCHANGED vars
  BY <1>1, <1>2 DEF Tick, vars
<1>3. ASSUME NEW a \in Accounts, NEW amount \in Amounts, NEW period \in Periods,
             Place(a, amount, period)
      PROVE  SummaryInv'
  BY <1>1, <1>3 DEF Place
<1>4. ASSUME NEW e \in ledger, Payout(e) PROVE SummaryInv'
  BY <1>1, <1>4 DEF Payout
<1>5. CASE StartPoll
  <2>1. /\ todo' = {} /\ nextOk' = {} /\ pollNow' = clock
        /\ UNCHANGED <<clock, ledger, stats, statsOk, updatedAt, windowStart>>
        /\ \A a \in Accounts : counted'[a] = {}
    BY <1>5 DEF StartPoll, Polling, published
  <2>2. PublishedInv' /\ (updatedAt <= pollNow)'
    BY <2>1 DEF SummaryInv, PublishedInv, StartOfDay
  <2>3. \A a \in Accounts : CountsUpTo(updatedAt, ledger, {}, a)
    BY <1>0, EmptyCounts
  <2>4. left' = Accounts
    BY <1>5 DEF StartPoll
  <2> QED
    BY <2>1, <2>2, <2>3, <2>4 DEF SummaryInv, BuiltInv
<1> QED
  BY <1>2, <1>3, <1>4, <1>5, SummaryInvAccept, SummaryInvTurn, SummaryInvReconcile,
     SummaryInvPublish DEF Next, Exchange

LEMMA SummaryInvInit == Init => SummaryInv
<1> SUFFICES ASSUME Init PROVE SummaryInv
  OBVIOUS
<1>1. StartOfDay(0) = 0
  BY SameDay
<1>2. \A a \in Accounts : CountsUpTo(0, {}, {}, a)
  BY EmptyCounts
<1> QED
  BY <1>1, <1>2 DEF Init, SummaryInv, PublishedInv

\* A summary that is published without an error counts the orders of [WindowStart,
\* UpdatedAt] (service.go:70), each of them and no other; against that comment, one with
\* an error covers the window of an earlier poll, or is empty (service.go, pollOnce and
\* pollAccount).
THEOREM SummaryCoversWindow == Spec => []StatsCoverWindow
<1>1. LossInv => Polling
  BY DEF LossInv
<1>2. SummaryInv => StatsCoverWindow
  BY DEF SummaryInv, PublishedInv, StatsCoverWindow, Covers, Counts, CountsUpTo
<1> QED
  BY <1>1, <1>2, SummaryInvInit, SummaryInvStep, LedgerCorrect, LossCorrect, PTL DEF Spec

-----------------------------------------------------------------------------
(* The pages of a ledger, for any number of entries, rows and pages.         *)

\* Numbers are well-ordered: what takes the place of an induction below.
LEMMA LeastNat == ASSUME NEW S \in SUBSET Nat, S # {} PROVE \E n \in S : \A m \in S : n <= m
<1> DEFINE R == OpToRel(<, Nat)
<1>1. IsWellFoundedOn(R, Nat)
  BY NatLessThanWellFounded
<1>2. \A x, y \in Nat : <<y, x>> \in R <=> y < x
  BY DEF OpToRel
<1> HIDE DEF R
<1>3. PICK x \in S : \A y \in S : <<y, x>> \notin R
  BY <1>1, WFMin
<1>4. \A y \in S : ~(y < x)
  BY <1>2, <1>3
<1>5. \A y \in S : x <= y
  BY <1>4
<1> QED
  BY <1>5

\* What the proofs use of a ledger with n entries: no two have the same tran, an order
\* has one payout at most, and it comes later.
LedgerOf(l, n) ==
    /\ DOMAIN l = 1..n
    /\ \A i \in 1..n : l[i].tran \in Nat
    /\ \A i, j \in 1..n : l[i].tran = l[j].tran => i = j
    /\ \A i, j \in 1..n : (l[i].pays # NoOrder /\ l[i].pays = l[j].pays) => i = j
    /\ \A i, j \in 1..n : l[j].pays = l[i].tran => i < j

LEMMA LedgersAreLedgers == ASSUME NEW n \in Nat, NEW l \in Ledgers(n) PROVE LedgerOf(l, n)
<1>0. PICK tran \in Injection(1..n, 1..n) : \E pays \in Payments(tran) :
        l = [i \in 1..n |-> [tran |-> tran[i], pays |-> pays[i]]]
  BY DEF Ledgers
<1>1. PICK pays \in Payments(tran) : l = [i \in 1..n |-> [tran |-> tran[i], pays |-> pays[i]]]
  BY <1>0
<1>2. tran \in [1..n -> 1..n] /\ \A i, j \in 1..n : tran[i] = tran[j] => i = j
  BY DEF Injection, IsInjective
<1>3. \A i \in 1..n : l[i].tran = tran[i] /\ l[i].pays = pays[i]
  BY <1>1
<1>4. \A i \in 1..n : pays[i] # NoOrder =>
        /\ \E j \in 1..(i - 1) : tran[j] = pays[i] /\ pays[j] = NoOrder
        /\ \A j \in 1..n : pays[j] = pays[i] => j = i
  BY <1>2 DEF Payments
<1>5. ASSUME NEW i \in 1..n, NEW j \in 1..n, pays[j] = tran[i] PROVE i < j
  <2>1. pays[j] # NoOrder
    BY <1>2, <1>5 DEF NoOrder
  <2>2. PICK k \in 1..(j - 1) : tran[k] = pays[j]
    BY <1>4, <2>1
  <2>3. k \in 1..n /\ k < j
    OBVIOUS
  <2> QED
    BY <1>2, <1>5, <2>2, <2>3
<1>6. ASSUME NEW i \in 1..n, NEW j \in 1..n, pays[i] # NoOrder, pays[i] = pays[j] PROVE i = j
  BY <1>4, <1>6
<1>7. DOMAIN l = 1..n /\ \A i \in 1..n : l[i].tran \in Nat
  BY <1>1, <1>2, <1>3
<1>8. \A i, j \in 1..n : l[i].tran = l[j].tran => i = j
  BY <1>2, <1>3
<1>9. \A i, j \in 1..n : (l[i].pays # NoOrder /\ l[i].pays = l[j].pays) => i = j
  BY <1>3, <1>6
<1>10. \A i, j \in 1..n : l[j].pays = l[i].tran => i < j
  BY <1>3, <1>5
<1> QED
  BY <1>7, <1>8, <1>9, <1>10 DEF LedgerOf

\* Both kinds of servers list the entries in an order.
LEMMA ListedInOrder ==
    ASSUME NEW server, NEW i \in Int, NEW j \in Int
    PROVE  /\ ListedUpTo(server, i, i)
           /\ ListedUpTo(server, i, j) \/ ListedUpTo(server, j, i)
           /\ (ListedUpTo(server, i, j) /\ ListedUpTo(server, j, i)) => i = j
           /\ \A x \in Int : (ListedUpTo(server, x, i) /\ ListedUpTo(server, i, j)) => ListedUpTo(server, x, j)
<1>1. CASE server.newestFirst
  BY <1>1 DEF ListedUpTo
<1>2. CASE ~server.newestFirst
  BY <1>2 DEF ListedUpTo
<1> QED
  BY <1>1, <1>2

\* The entries that have been posted take the places from 1 on, one each.
LEMMA EveryPlaceTaken ==
    ASSUME NEW n \in Nat, NEW l, LedgerOf(l, n), NEW server \in Servers, NEW k \in Nat
    PROVE  LET posted == Posted(l, k)
           IN  /\ posted \in SUBSET (1..n) /\ Cardinality(posted) \in Nat
               /\ \A i \in posted : PlaceOf(server, l, k, i) \in 1..Cardinality(posted)
               /\ \A p \in 1..Cardinality(posted) : \E i \in posted : PlaceOf(server, l, k, i) = p
<1> DEFINE P == Posted(l, k)
           before(i) == {j \in P : ListedUpTo(server, j, i)}
           place == [i \in P |-> Cardinality(before(i))]
<1>1. P \in SUBSET (1..n) /\ IsFiniteSet(P) /\ Cardinality(P) \in Nat
  <2>1. IsFiniteSet(1..n) /\ P \in SUBSET (1..n)
    BY FS_Interval DEF Posted, LedgerOf
  <2> QED
    BY <2>1, FS_Subset, FS_CardinalityType
<1>2. \A i \in P : place[i] = PlaceOf(server, l, k, i) /\ i \in Int
  BY <1>1 DEF PlaceOf
<1>3. ASSUME NEW i \in P
      PROVE  /\ before(i) \in SUBSET P /\ i \in before(i) /\ IsFiniteSet(before(i))
             /\ place[i] = Cardinality(before(i)) /\ place[i] \in 1..Cardinality(P)
  <2>1. before(i) \in SUBSET P /\ i \in before(i)
    BY <1>2, ListedInOrder
  <2>2. place[i] = Cardinality(before(i))
    OBVIOUS
  <2> HIDE DEF place, P, before
  <2>3. IsFiniteSet(before(i)) /\ Cardinality(before(i)) <= Cardinality(P)
    BY <1>1, <2>1, FS_Subset
  <2>4. Cardinality(before(i)) \in Nat /\ Cardinality(before(i)) # 0
    BY <2>1, <2>3, FS_CardinalityType, FS_EmptySet
  <2> QED
    BY <1>1, <2>1, <2>2, <2>3, <2>4
<1>4. ASSUME NEW i \in P, NEW j \in P, i # j, ListedUpTo(server, i, j) PROVE place[i] # place[j]
  <2>1. ~ListedUpTo(server, j, i)
    BY <1>2, <1>4, ListedInOrder
  <2>2. ASSUME NEW x \in P, ListedUpTo(server, x, i) PROVE ListedUpTo(server, x, j)
    BY <1>2, <1>4, <2>2, ListedInOrder
  <2>3. before(i) \in SUBSET before(j) /\ j \in before(j) /\ j \notin before(i)
    BY <1>3, <2>1, <2>2
  <2> HIDE DEF place, P, before
  <2>4. Cardinality(before(i)) # Cardinality(before(j))
    BY <1>3, <2>3, FS_Subset
  <2> QED
    BY <1>3, <2>4
<1>5. \A i, j \in P : place[i] = place[j] => i = j
  <2> SUFFICES ASSUME NEW i \in P, NEW j \in P, i # j PROVE place[i] # place[j]
    OBVIOUS
  <2>1. ListedUpTo(server, i, j) \/ ListedUpTo(server, j, i)
    BY <1>2, ListedInOrder
  <2> QED
    BY <1>4, <2>1
<1>6. place \in [P -> 1..Cardinality(P)]
  BY <1>3
<1> HIDE DEF place, P, before
<1>7. place \in Injection(P, 1..Cardinality(P))
  BY <1>5, <1>6, Fun_IsInj
<1>8. IsFiniteSet(1..Cardinality(P)) /\ Cardinality(1..Cardinality(P)) = Cardinality(P)
  BY <1>1, FS_Interval
<1>9. place \in Surjection(P, 1..Cardinality(P))
  BY <1>7, <1>8, FS_Injection
<1>10. \A p \in 1..Cardinality(P) : \E i \in P : place[i] = p
  BY <1>9 DEF Surjection
<1> QED
  BY <1>1, <1>2, <1>3, <1>10 DEF P

\* Entries that are posted meanwhile move the others to later places only.
LEMMA PlacesGrow ==
    ASSUME NEW n \in Nat, NEW l, LedgerOf(l, n), NEW server \in Servers,
           NEW k \in Nat, NEW later \in Nat, k <= later, NEW i \in Posted(l, k)
    PROVE  i \in Posted(l, later) /\ PlaceOf(server, l, k, i) <= PlaceOf(server, l, later, i)
<1> DEFINE A == {j \in Posted(l, k) : ListedUpTo(server, j, i)}
           B == {j \in Posted(l, later) : ListedUpTo(server, j, i)}
<1>1. \A j \in Posted(l, k) : j \in Posted(l, later)
  BY DEF Posted, LedgerOf
<1>2. IsFiniteSet(1..n) /\ B \in SUBSET (1..n) /\ A \in SUBSET B
  <2>1. Posted(l, later) \in SUBSET (1..n)
    BY DEF Posted, LedgerOf
  <2> QED
    BY <1>1, <2>1, FS_Interval
<1>3. IsFiniteSet(B)
  BY <1>2, FS_Subset
<1>4. Cardinality(A) <= Cardinality(B)
  BY <1>2, <1>3, FS_Subset
<1> QED
  BY <1>1, <1>4 DEF PlaceOf

\* After a page that is short, or that reaches the total, nothing is left
\* (service.go, fetchLedger: the break).
LEMMA NothingAfterLast ==
    ASSUME NEW n \in Nat, NEW l, LedgerOf(l, n), NEW server \in Servers, NEW k \in Nat,
           NEW page \in Nat \ {0}, IsLast(server, l, k, page), NEW i \in Posted(l, k)
    PROVE  PlaceOf(server, l, k, i) <= page * Rows
<1> DEFINE P == Posted(l, k)
           c == Cardinality(P)
           G == Page(server, l, k, page)
           first == (page - 1) * Rows + 1
           last == page * Rows
<1>1. /\ P \in SUBSET (1..n) /\ c \in Nat
      /\ \A j \in P : PlaceOf(server, l, k, j) \in 1..c
      /\ \A p \in 1..c : \E j \in P : PlaceOf(server, l, k, j) = p
  BY EveryPlaceTaken
<1>2. Rows \in Nat \ {0} /\ first \in Nat \ {0} /\ last \in Nat /\ last - first + 1 = Rows
  <2>1. Rows \in Nat \ {0}
    BY PagesAssumption
  <2>2. (page - 1) * Rows \in Nat /\ page * Rows = (page - 1) * Rows + Rows
    BY <2>1
  <2> QED
    BY <2>1, <2>2
<1>3. G = {j \in P : PlaceOf(server, l, k, j) \in first..last}
  BY DEF Page
<1>4. PlaceOf(server, l, k, i) \in 1..c
  BY <1>1
<1>5. \/ Cardinality(G) < Rows
      \/ last >= c
  BY DEF IsLast
<1> HIDE DEF P, c, G, first, last
<1>6. CASE last >= c
  BY <1>1, <1>2, <1>4, <1>6 DEF last
<1>7. CASE Cardinality(G) < Rows
  <2> SUFFICES ASSUME PlaceOf(server, l, k, i) > last PROVE FALSE
    BY <1>1, <1>2, <1>4 DEF last
  <2> DEFINE W == first..last
             place == [j \in G |-> PlaceOf(server, l, k, j)]
  <2>1. W \subseteq 1..c
    BY <1>1, <1>2, <1>4
  <2>2. place \in [G -> W] /\ \A p \in W : \E j \in G : place[j] = p
    BY <1>1, <1>3, <2>1
  <2>3. place \in Surjection(G, W)
    BY <2>2 DEF Surjection
  <2>4. IsFiniteSet(G)
    <3>1. IsFiniteSet(1..n) /\ G \in SUBSET (1..n)
      BY <1>1, <1>3, FS_Interval
    <3> QED
      BY <3>1, FS_Subset
  <2>5. Cardinality(W) <= Cardinality(G)
    <3> HIDE DEF W, place
    <3> QED
      BY <2>3, <2>4, FS_Surjection
  <2>6. Cardinality(W) = Rows
    BY <1>2, FS_Interval
  <2>7. Cardinality(G) \in Nat
    BY <2>4, FS_CardinalityType
  <2> QED
    BY <1>2, <1>7, <2>5, <2>6, <2>7
<1> QED
  BY <1>5, <1>6, <1>7

\* An entry that is in place at the start, and no further than the last page asked for
\* when that page is asked for, is among those that are put together: it was on this
\* page, or had been on an earlier one.
LEMMA ReachedIsIn ==
    ASSUME NEW n \in Nat, NEW l, LedgerOf(l, n), NEW server \in Servers, NEW posted \in Postings(n),
           NEW page \in Requests(server, l, posted), NEW i \in Posted(l, posted[1]),
           PlaceOf(server, l, posted[page], i) <= page * Rows
    PROVE  IsIn(FetchLedger(server, l, posted), i)
<1> DEFINE at(m) == PlaceOf(server, l, posted[m], i)
           Reached == {m \in 1..page : at(m) <= m * Rows}
           on(m) == Page(server, l, posted[m], m)
           Shown == {m \in 1..page : i \in on(m)}
<1>1. Rows \in Nat \ {0} /\ MaxPages \in Nat \ {0} /\ page \in 1..MaxPages
  BY PagesAssumption DEF Requests
<1>2. /\ \A m \in 1..page : posted[m] \in Nat /\ posted[1] <= posted[m]
      /\ \A m \in 2..page : posted[m - 1] \in Nat /\ posted[m - 1] <= posted[m] /\ m - 1 \in 1..page
      /\ posted[1] \in Nat
  BY <1>1 DEF Postings
<1>3. \A m \in 1..page : i \in Posted(l, posted[m]) /\ at(m) \in Nat \ {0}
  <2> TAKE m \in 1..page
  <2>1. i \in Posted(l, posted[m])
    BY <1>2, PlacesGrow
  <2> QED
    BY <1>2, <2>1, EveryPlaceTaken
<1>4. \A m \in 2..page : at(m - 1) <= at(m)
  BY <1>2, <1>3, PlacesGrow
<1>5. Shown # {}
  <2>1. page \in Reached /\ Reached \in SUBSET Nat
    BY <1>1
  <2>2. PICK m \in Reached : \A k \in Reached : m <= k
    BY <2>1, LeastNat
  <2>3. m \in 1..page /\ at(m) <= m * Rows
    BY <2>2
  <2>4. at(m) >= (m - 1) * Rows + 1
    <3>1. CASE m = 1
      BY <1>3, <2>3, <3>1, <1>1
    <3>2. CASE m # 1
      <4>1. m \in 2..page /\ m - 1 \in 1..page /\ m - 1 \in Nat
        BY <1>1, <2>3, <3>2
      <4>2. ~(at(m - 1) <= (m - 1) * Rows)
        <5>1. ~(m <= m - 1)
          BY <4>1
        <5> HIDE DEF at
        <5> QED
          BY <2>2, <4>1, <5>1
      <4>3. at(m - 1) \in Nat /\ at(m) \in Nat /\ at(m - 1) <= at(m) /\ (m - 1) * Rows \in Nat
        BY <1>1, <1>3, <1>4, <2>3, <4>1
      <4> HIDE DEF at
      <4> QED
        BY <4>2, <4>3
    <3> QED
      BY <3>1, <3>2
  <2>5. at(m) \in Nat /\ m * Rows \in Nat /\ (m - 1) * Rows + 1 \in Nat
    BY <1>1, <1>3, <2>3
  <2>6. i \in on(m)
    <3>1. at(m) \in ((m - 1) * Rows + 1)..(m * Rows)
      BY <2>3, <2>4, <2>5
    <3> QED
      BY <1>3, <2>3, <3>1 DEF Page
  <2> QED
    BY <2>3, <2>6
<1>6. PICK m \in Shown : \A k \in Shown : m <= k
  <2>1. Shown \in SUBSET Nat
    BY <1>1
  <2> QED
    BY <1>5, <2>1, LeastNat
<1>7. m \in 1..page /\ i \in on(m) /\ \A k \in 1..(m - 1) : i \notin on(k)
  <2>1. m \in 1..page /\ i \in on(m)
    BY <1>6
  <2>2. ASSUME NEW k \in 1..(m - 1), i \in on(k) PROVE FALSE
    <3>1. k \in 1..page /\ ~(m <= k)
      BY <1>1, <2>1
    <3> QED
      BY <1>6, <2>2, <3>1
  <2> QED
    BY <2>1, <2>2
<1>8. m \in Requests(server, l, posted)
  <2>1. m \in 1..MaxPages /\ \A k \in 1..(m - 1) : k \in 1..(page - 1)
    BY <1>1, <1>7
  <2> QED
    BY <2>1 DEF Requests
<1>9. l[i].tran \notin Seen(server, l, posted, m)
  <2> SUFFICES ASSUME NEW k \in 1..(m - 1), NEW j \in on(k), l[j].tran = l[i].tran PROVE FALSE
    BY DEF Seen
  <2>1. i \in 1..n /\ j \in 1..n
    BY <1>3, <1>7 DEF Posted, Page, LedgerOf
  <2>2. j = i
    BY <2>1 DEF LedgerOf
  <2> QED
    BY <1>7, <2>2
<1>10. [page |-> m, entry |-> i] \in FetchLedger(server, l, posted)
  BY <1>7, <1>8, <1>9 DEF FetchLedger, Unseen
<1> QED
  BY <1>10 DEF IsIn

\* A paid order is credited once, whatever moves between the requests (service.go,
\* fetchLedger's seen).
LEMMA NothingIsTwice ==
    ASSUME NEW n \in Nat, NEW l, LedgerOf(l, n), NEW server \in Servers, NEW posted \in Postings(n)
    PROVE  PaidAtMostOnce(l, FetchLedger(server, l, posted))
<1> DEFINE out == FetchLedger(server, l, posted)
           on(m) == Page(server, l, posted[m], m)
<1>1. ASSUME NEW e \in out
      PROVE  /\ e = [page |-> e.page, entry |-> e.entry]
             /\ e.page \in 1..MaxPages /\ e.entry \in on(e.page) /\ e.entry \in 1..n
             /\ l[e.entry].tran \notin Seen(server, l, posted, e.page)
  <2>1. PICK m \in Requests(server, l, posted) :
          \E i \in Unseen(l, Seen(server, l, posted, m), on(m)) : e = [page |-> m, entry |-> i]
    BY DEF FetchLedger
  <2>2. PICK i \in Unseen(l, Seen(server, l, posted, m), on(m)) : e = [page |-> m, entry |-> i]
    BY <2>1
  <2>3. i \in on(m) /\ l[i].tran \notin Seen(server, l, posted, m)
    BY DEF Unseen
  <2>4. i \in 1..n
    BY <2>3 DEF Page, Posted, LedgerOf
  <2> QED
    BY <2>2, <2>3, <2>4 DEF Requests
<1> HIDE DEF out
<1>2. ASSUME NEW e \in out, NEW f \in out, e.entry = f.entry, e.page < f.page PROVE FALSE
  <2>1. e.page \in 1..(f.page - 1)
    BY <1>1, <1>2, PagesAssumption
  <2>2. l[e.entry].tran \in Seen(server, l, posted, f.page)
    BY <1>1, <2>1 DEF Seen
  <2> QED
    BY <1>1, <1>2, <2>2
<1>3. ASSUME NEW e \in out, NEW f \in out,
             l[e.entry].pays # NoOrder, l[e.entry].pays = l[f.entry].pays
      PROVE  e = f
  <2>1. e.entry = f.entry
    BY <1>1, <1>3 DEF LedgerOf
  <2>2. e.page = f.page
    <3>1. e.page \in Int /\ f.page \in Int
      BY <1>1
    <3>2. ~(e.page < f.page) /\ ~(f.page < e.page)
      BY <1>2, <2>1
    <3> QED
      BY <3>1, <3>2
  <2> QED
    BY <1>1, <2>1, <2>2
<1> QED
  BY <1>3 DEF PaidAtMostOnce, out

\* A ledger that fits into the pages is fetched whole.
LEMMA NothingIsMissing ==
    ASSUME NEW n \in Nat, NEW l, LedgerOf(l, n), NEW server \in Servers, NEW posted \in Postings(n)
    PROVE  IsComplete(FetchLedger(server, l, posted), Posted(l, posted[1]), Posted(l, posted[MaxPages]))
<1> DEFINE out == FetchLedger(server, l, posted)
           last(m) == IsLast(server, l, posted[m], m)
<1> SUFFICES ASSUME Cardinality(Posted(l, posted[MaxPages])) <= Rows * MaxPages,
                    NEW i \in Posted(l, posted[1])
             PROVE  IsIn(out, i)
  BY DEF IsComplete
<1>1. Rows \in Nat \ {0} /\ MaxPages \in Nat \ {0}
  BY PagesAssumption
<1>2. ASSUME NEW m \in 1..MaxPages
      PROVE  /\ posted[m] \in Nat /\ i \in Posted(l, posted[m])
             /\ PlaceOf(server, l, posted[m], i) \in 1..Cardinality(Posted(l, posted[m]))
  <2>1. posted[m] \in Nat /\ posted[1] \in Nat /\ posted[1] <= posted[m]
    BY <1>1 DEF Postings
  <2>2. i \in Posted(l, posted[m])
    BY <2>1, PlacesGrow
  <2> QED
    BY <2>1, <2>2, EveryPlaceTaken
<1>3. CASE MaxPages \in Requests(server, l, posted)
  <2>1. PlaceOf(server, l, posted[MaxPages], i) <= MaxPages * Rows
    <3>1. MaxPages \in 1..MaxPages /\ Cardinality(Posted(l, posted[MaxPages])) \in Nat
      BY <1>1, <1>2, EveryPlaceTaken
    <3>2. Rows * MaxPages = MaxPages * Rows /\ MaxPages * Rows \in Nat
      BY <1>1
    <3>3. PlaceOf(server, l, posted[MaxPages], i) \in 1..Cardinality(Posted(l, posted[MaxPages]))
      BY <1>2, <3>1
    <3> QED
      BY <3>1, <3>2, <3>3
  <2> QED
    BY <1>3, <2>1, ReachedIsIn
<1>4. CASE MaxPages \notin Requests(server, l, posted)
  <2> DEFINE Ends == {m \in 1..MaxPages : last(m)}
  <2>1. Ends # {} /\ Ends \in SUBSET Nat
    <3>1. MaxPages \in 1..MaxPages /\ \A m \in 1..(MaxPages - 1) : m \in 1..MaxPages
      BY <1>1
    <3> QED
      BY <1>1, <1>4, <3>1 DEF Requests
  <2>2. PICK m \in Ends : \A k \in Ends : m <= k
    BY <2>1, LeastNat
  <2>3. m \in 1..MaxPages /\ last(m) /\ \A k \in 1..(m - 1) : ~last(k)
    <3>1. m \in 1..MaxPages /\ last(m)
      BY <2>2
    <3>2. ASSUME NEW k \in 1..(m - 1), last(k) PROVE FALSE
      <4>1. k \in 1..MaxPages /\ ~(m <= k)
        BY <1>1, <3>1
      <4> QED
        BY <2>2, <3>2, <4>1
    <3> QED
      BY <3>1, <3>2
  <2>4. m \in Requests(server, l, posted)
    BY <2>3 DEF Requests
  <2>5. PlaceOf(server, l, posted[m], i) <= m * Rows
    BY <1>2, <2>3, NothingAfterLast
  <2> QED
    BY <2>4, <2>5, ReachedIsIn
<1> QED
  BY <1>3, <1>4

\* A server that lists the newest entries first lists a payout before its order, so that
\* it is reached first.
LEMMA PayoutsComeAlong ==
    ASSUME NEW n \in Nat, NEW l, LedgerOf(l, n), NEW server \in Servers, NEW posted \in Postings(n)
    PROVE  ComesWithPayout(server, l, FetchLedger(server, l, posted), Posted(l, posted[1]))
<1> DEFINE out == FetchLedger(server, l, posted)
<1> SUFFICES ASSUME server.newestFirst, NEW i \in Posted(l, posted[1]), NEW j \in Posted(l, posted[1]),
                    l[j].pays = l[i].tran, IsIn(out, i)
             PROVE  IsIn(out, j)
  BY DEF ComesWithPayout
<1>1. i \in 1..n /\ j \in 1..n /\ i < j
  BY DEF Posted, LedgerOf
<1>2. PICK m \in Requests(server, l, posted) : i \in Page(server, l, posted[m], m)
  BY DEF IsIn, FetchLedger, Unseen
<1>3. /\ m \in 1..MaxPages /\ m * Rows \in Nat /\ posted[m] \in Nat
      /\ posted[1] \in Nat /\ posted[1] <= posted[m]
  BY PagesAssumption DEF Requests, Postings
<1>4. i \in Posted(l, posted[m]) /\ PlaceOf(server, l, posted[m], i) <= m * Rows
  BY <1>2, <1>3 DEF Page
<1>5. j \in Posted(l, posted[m])
  BY <1>3, PlacesGrow
<1>6. PlaceOf(server, l, posted[m], j) <= PlaceOf(server, l, posted[m], i)
  <2> DEFINE P == Posted(l, posted[m])
             A == {x \in P : ListedUpTo(server, x, j)}
             B == {x \in P : ListedUpTo(server, x, i)}
  <2>1. P \in SUBSET (1..n)
    BY DEF Posted, LedgerOf
  <2>2. A \in SUBSET B
    BY <1>1, <2>1 DEF ListedUpTo
  <2>3. IsFiniteSet(B)
    <3>1. IsFiniteSet(1..n) /\ B \in SUBSET (1..n)
      BY <2>1, FS_Interval
    <3> QED
      BY <3>1, FS_Subset
  <2>4. Cardinality(A) <= Cardinality(B)
    BY <2>2, <2>3, FS_Subset
  <2> QED
    BY <2>4 DEF PlaceOf
<1>7. PlaceOf(server, l, posted[m], j) <= m * Rows
  <2>1. PlaceOf(server, l, posted[m], j) \in Nat /\ PlaceOf(server, l, posted[m], i) \in Nat
    BY <1>3, <1>4, <1>5, EveryPlaceTaken
  <2> QED
    BY <1>3, <1>4, <1>6, <2>1
<1> QED
  BY <1>7, ReachedIsIn

\* What fetchLedger puts together is faithful to the ledger, for any number of entries,
\* rows and pages, and whatever is posted between the requests.
THEOREM LedgersAreReadWell ==
    ASSUME NEW n \in Nat, NEW l \in Ledgers(n), NEW server \in Servers, NEW posted \in Postings(n)
    PROVE  ReadWell(server, l, posted)
BY LedgersAreLedgers, NothingIsTwice, NothingIsMissing, PayoutsComeAlong DEF ReadWell

\* ... in every poll.
THEOREM FetchStaysFaithful == Spec => []FetchIsFaithful
<1>1. Misread = {}
  <2> SUFFICES ASSUME NEW n \in 1..MaxEntries, NEW l \in Ledgers(n), NEW server \in Servers,
                      NEW posted \in Postings(Cardinality(DOMAIN l))
               PROVE  ReadWell(server, l, posted)
    BY DEF Misread
  <2>1. n \in Nat /\ DOMAIN l = 1..n
    BY LedgersAreLedgers, PagesAssumption DEF LedgerOf
  <2>2. Cardinality(DOMAIN l) = n
    BY <2>1, FS_Interval
  <2> QED
    BY <2>1, <2>2, LedgersAreReadWell
<1>2. FetchIsFaithful
  BY <1>1 DEF FetchIsFaithful
<1> QED
  BY <1>2, PTL
=============================================================================
