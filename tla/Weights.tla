------------------------------- MODULE Weights -------------------------------
(* The weighted dispatch mode of internal/signals/processor.go: one of the   *)
(* matched accounts is drawn, a poorer one with a higher weight. A weight is *)
(* 1 + 2 * clamp((mean - balance) / mean) with the mean of the matched       *)
(* accounts' known balances; here every weight is times the sum of those     *)
(* balances, which makes it a whole number and changes no ratio.             *)
EXTENDS Integers, Sequences, FiniteSetsExt

CONSTANTS
    Unusable,   \* an empty or unparseable balance
    Infos       \* what the balance service may have of an account: its platform,
                \*   the futures and the total balance, negative when in debt

ASSUME WeightsAssumption ==
    /\ Unusable \notin Int
    /\ Infos \subseteq [platform : {"binance", "turboflow", "hibt", "raw"},
                       futures : Int \cup {Unusable}, total : Int \cup {Unusable}]

\* FetchAll fetches the balances of all platforms, but none of a raw task.  (One that was
\* not always raw keeps the balance it had, and is of its former platform here.)
ASSUME FetchedAssumption ==
    \A info \in Infos : info.platform = "raw" => info.futures = Unusable /\ info.total = Unusable

\* A negative balance counts as none left.
AtLeastZero(v) == IF v < 0 THEN 0 ELSE v

\* GetFuturesBalances, for one account: the futures balance, or else the total.
Known(info) ==
    LET v == IF info.futures # Unusable /\ info.futures > 0 THEN info.futures ELSE info.total
    IN  IF v = Unusable THEN Unusable ELSE AtLeastZero(v)

-----------------------------------------------------------------------------
(* The weights and the draw; m holds what is known of each matched account.  *)

\* The matched accounts that have something left.
Valid(m) == {i \in DOMAIN m : Known(m[i]) # Unusable /\ Known(m[i]) > 0}

SumOfKnown(m) == MapThenSumSet(LAMBDA i : Known(m[i]), Valid(m))

\* The weight 1 in the scale used here.
One(m) == IF Valid(m) = {} THEN 1 ELSE SumOfKnown(m)

\* How far an account lies below the mean, at least nothing.
Lack(m, i) == AtLeastZero(SumOfKnown(m) - Cardinality(Valid(m)) * Known(m[i]))

\* weightsForTasks.
Weight(m, i) == One(m) + 2 * (IF i \in Valid(m) THEN Lack(m, i) ELSE 0)

\* What the first i weights add up to.
UpTo(m, i) ==
    LET sum[j \in 0..Len(m)] == IF j = 0 THEN 0 ELSE sum[j - 1] + Weight(m, j)
    IN  sum[i]

\* Mutant of Index: what is left of the draw is compared before the weight is taken off.
IndexBefore(m, r) ==
    CHOOSE i \in DOMAIN m : (i = Len(m) \/ r < UpTo(m, i - 1)) /\ \A j \in 1..(i - 1) : r >= UpTo(m, j - 1)

\* weightedIndex, for a draw between r and r + 1: the weights are taken off the
\* draw from the first account on, until nothing is left of it.
Index(m, r) == CHOOSE i \in DOMAIN m : r < UpTo(m, i) /\ \A j \in 1..(i - 1) : r >= UpTo(m, j)

Draws(m) == 0..(UpTo(m, Len(m)) - 1)

-----------------------------------------------------------------------------
(* Properties.                                                               *)

\* Two or three matched accounts, whatever is known of them.
Matches == [1..2 -> Infos] \cup [1..3 -> Infos]

\* "The strongest/weakest weight ratio is at most 3:1".
AtMostThreeToOne(m) == \A i, j \in DOMAIN m : Weight(m, i) <= 3 * Weight(m, j)

\* Of two accounts, of whatever platforms, one with less left has no lower weight.
PoorerIsLikelier(m) ==
    \A i, j \in Valid(m) : Known(m[i]) < Known(m[j]) => Weight(m, i) >= Weight(m, j)

\* "Unknown balances keep weight 1", as does an account without one on a raw task; but
\* against "non-Binance accounts ... keep weight 1" every other account below the mean
\* has more, on TurboFlow and HiBT too.
ExactlyThesePoorer(m) ==
    \A i \in DOMAIN m :
        /\ m[i].platform = "raw" => Weight(m, i) = One(m)
        /\ Weight(m, i) # One(m) <=>
              i \in Valid(m) /\ Cardinality(Valid(m)) * Known(m[i]) < SumOfKnown(m)

\* Each account gets exactly its weight's share of the draws, the first and the last
\* one too.
DrawsFollow(m) ==
    \A i \in DOMAIN m : Cardinality({r \in Draws(m) : Index(m, r) = i}) = Weight(m, i)

Fair(m) ==
    AtMostThreeToOne(m) /\ PoorerIsLikelier(m) /\ ExactlyThesePoorer(m) /\ DrawsFollow(m)

\* The balances that make the draw unfair.
Unfair == {m \in Matches : ~Fair(m)}
=============================================================================
