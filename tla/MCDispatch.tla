----------------------------- MODULE MCDispatch -----------------------------
(* Two accounts share a rotation with a third as their fallback; a signal is *)
(* then sent to all accounts of a second group, whose account skips two, and *)
(* to one account of a third.  The goroutines are interchangeable.  Beside   *)
(* it, the weighted draw among two or three accounts, and the amounts of the *)
(* orders of up to three bindings, some of them possibly of one account.     *)
EXTENDS Dispatch, TLC

CONSTANTS upstream, pushed, bnc, tfl, hbt

ThreeAccounts == 1..3
ThreeGroups == <<[accounts |-> <<3, 1, 2>>, mode |-> "round-robin"],
                 [accounts |-> <<3>>, mode |-> "all"],
                 [accounts |-> <<2>>, mode |-> "one"]>>
FallbackThird == <<5, 5, 1>>
ThirdSkipsTwo == <<0, 0, 2>>

\* A fixed amount, a capped share of the balance, and one that is also floored.
Fixed == [percent |-> 0, min |-> 0, max |-> 0, amount |-> 500]
HalfUpTo == [percent |-> 50, min |-> 0, max |-> 1025, amount |-> None]
HundredthWithin == [percent |-> 1, min |-> 4, max |-> 25, amount |-> None]
OneOfEach == <<Fixed, HalfUpTo, HundredthWithin>>

TwoWorkers == {upstream, pushed}
Alike == Permutations(TwoWorkers)

SomePercents == {0, 1, 50, 100}
SomeLimits == {0, 4, 25, 500, 1025}
SomeAmounts == {None, 500}
SomeBalances == {None, 4, 1050, 5000}

\* Nothing known, equal and unequal balances, an empty futures account, one whose
\* futures balance is unknown, and debts, on every platform that may have them.
Info(p, f, t) == [platform |-> p, futures |-> f, total |-> t]
SomeInfos == {Info("raw", Unusable, Unusable), Info("binance", Unusable, Unusable),
              Info("binance", 1, 1), Info("turboflow", 7, 7), Info("binance", 0, 2),
              Info("turboflow", 2, 2), Info("hibt", Unusable, 3), Info("binance", -1, -1)}

ThreeBound == {bnc, tfl, hbt}
Size(ok, amount) == [ok |-> ok, amount |-> amount]
FourSizes == {Size(TRUE, 100), Size(TRUE, 250), Size(TRUE, NoAmount), Size(FALSE, NoAmount)}
WithAndWithout == {70, NoAmount}
=============================================================================
