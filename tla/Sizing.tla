------------------------------- MODULE Sizing -------------------------------
(* dynamicAmount and amountFor of internal/signals/processor.go: the amount  *)
(* that a group's order is placed with, from the binding of its account and  *)
(* the balance the balance service knows. Amounts are in hundredths, so that *)
(* the rounding to one decimal place shows. (Floats are taken as exact: a    *)
(* product that is not a multiple of 0.0001 does not occur.)                 *)
EXTENDS Integers

CONSTANTS
    Percents,  \* shares of the balance, 0 for none
    Limits,    \* minAmount and maxAmount, 0 for none
    Amounts,   \* static amounts; None for none
    Balances   \* known balances; None for unknown

None == -1  \* an empty string; an unknown balance

ASSUME SizingAssumption ==
    /\ Percents \subseteq 0..100
    /\ Limits \subseteq Nat
    /\ Amounts \subseteq Nat \cup {None}
    /\ Balances \subseteq Nat \cup {None}

\* config.PrepareStrategies accepts only these.
Bindings == {b \in [percent : Percents, min : Limits, max : Limits, amount : Amounts] :
                b.min > 0 /\ b.max > 0 => b.min <= b.max}

\* formatAmount: to the nearest tenth, halves up. v is in 1/10000.
FormatAmount(v) == ((v + 500) \div 1000) * 10

\* The balance's share with floor and cap, in 1/10000.
Share(b, balance) == balance * b.percent
Floored(b, v) == IF b.min > 0 /\ v < b.min * 100 THEN b.min * 100 ELSE v

\* Mutant of Capped: forgets the cap.
Uncapped(b, v) == v

Capped(b, v) == IF b.max > 0 /\ v > b.max * 100 THEN b.max * 100 ELSE v

Sized(amount) == [ok |-> TRUE, amount |-> amount]
Skipped == [ok |-> FALSE, amount |-> None]

Unknown(balance) == balance = None \/ balance <= 0

\* A share of the balance is configured, and the balance is not known.
WithoutBalance(b) ==
    IF b.min > 0 THEN Sized(FormatAmount(b.min * 100))
    ELSE IF b.amount # None THEN Sized(b.amount)
    ELSE Skipped

OfBalance(b, balance) ==
    LET v == Capped(b, Floored(b, Share(b, balance)))
    IN  IF v <= 0 THEN Skipped ELSE Sized(FormatAmount(v))

DynamicAmount(b, balance) ==
    IF b.percent <= 0 THEN Sized(b.amount)
    ELSE IF Unknown(balance) THEN WithoutBalance(b)
    ELSE OfBalance(b, balance)

-----------------------------------------------------------------------------
(* What an amount should be.                                                 *)

\* A reference: the values, in 1/10000, that the limits of a binding allow, and
\* the one of them that lies nearest to another value.
Distance(x, y) == IF x > y THEN x - y ELSE y - x
Allowed(b, v) == (b.min > 0 => v >= b.min * 100) /\ (b.max > 0 => v <= b.max * 100)
Nearest(b, v, x) ==
    /\ Allowed(b, v)
    /\ \A u \in {x, b.min * 100, b.max * 100} : Allowed(b, u) => Distance(v, x) <= Distance(u, x)

\* An amount sized from a known balance is the rounding of the allowed value that is
\* nearest to the share.
SizedNearest(b, balance) ==
    (b.percent > 0 /\ ~Unknown(balance) /\ DynamicAmount(b, balance).ok) =>
        \E v \in {Share(b, balance), b.min * 100, b.max * 100} :
            /\ Nearest(b, v, Share(b, balance))
            /\ DynamicAmount(b, balance).amount = FormatAmount(v)

\* The limits are kept, except that they are rounded themselves: against "capped at
\* maxAmount" a cap with hundredths above four is exceeded up to the next tenth, a floor
\* with fewer is undercut down to the last one, and against "emitting a zero or empty
\* amount would submit an order with an invalid size" zero goes out for less than 0.05.
KeepsLimits(b, balance) ==
    LET sized == DynamicAmount(b, balance)
    IN  (b.percent > 0 /\ sized.ok /\ (~Unknown(balance) \/ b.min > 0)) =>
            /\ (b.max > 0 /\ sized.amount > b.max) =>
                  b.max % 10 >= 5 /\ sized.amount = b.max + 10 - (b.max % 10)
            /\ (b.min > 0 /\ sized.amount < b.min) =>
                  b.min % 10 \in 1..4 /\ sized.amount = b.min - (b.min % 10)
            /\ sized.amount = 0 =>
                  \/ b.max > 0 /\ b.max < 5
                  \/ b.min < 5 /\ (Unknown(balance) \/ Share(b, balance) < 500)

\* The bindings that are sized otherwise, with some balance.
Missized ==
    {b \in Bindings : \E balance \in Balances : ~(SizedNearest(b, balance) /\ KeepsLimits(b, balance))}
=============================================================================
