---------------------------- MODULE OrderAmounts ----------------------------
(* The amounts that the orders of one signal are sent with, and to which     *)
(* accounts: internal/signals/processor.go resolves an amount per account    *)
(* while it matches them, sorts the matches, picks one of them or takes all, *)
(* and goes on to other accounts when an order fails. (Sizing has how an     *)
(* amount is found; a balance that moves later does not change it.)          *)
EXTENDS Integers, Sequences, FiniteSets

CONSTANTS
    Bound,          \* account ids in a group; one may be bound twice
    OwnSizes,       \* what dynamicAmount returns: a flag and an amount
    SignalAmounts,  \* amounts that signals carry
    NoAmount,       \* an empty amount
    MaxAttempts     \* maxFallbackOrderAttempts

ASSUME OrderAmountsAssumption ==
    /\ NoAmount \notin Int
    /\ OwnSizes \subseteq [ok : BOOLEAN, amount : Nat \cup {NoAmount}]
    /\ SignalAmounts \subseteq Nat \cup {NoAmount}
    /\ MaxAttempts \in Nat

\* The bindings of a group, all of whose accounts may take the signal.
BoundAccount == [account : Bound, size : OwnSizes, priority : {1, 2}]

-----------------------------------------------------------------------------
(* A signal that names a strategy.                                           *)

\* groupMatchedAccounts and sortByPriority: an account without a safe amount is
\* skipped; those of equal priority stay in their order.
Kept(group) == {i \in DOMAIN group : group[i].size.ok}

NotAfter(group, i, j) ==
    group[i].priority > group[j].priority \/ (group[i].priority = group[j].priority /\ i <= j)

UpToPlace(group, j) == {i \in Kept(group) : NotAfter(group, i, j)}

MatchedOf(group) ==
    [n \in 1..Cardinality(Kept(group)) |->
        group[CHOOSE j \in Kept(group) : Cardinality(UpToPlace(group, j)) = n]]

FirstOf(matched, account) ==
    CHOOSE i \in DOMAIN matched :
        matched[i].account = account /\ \A j \in 1..(i - 1) : matched[j].account # account

OwnOr(amount, other) == IF amount # NoAmount THEN amount ELSE other

\* dispatchGroup's amountFor.
AmountFor(matched, account, sigAmount) ==
    OwnOr(matched[FirstOf(matched, account)].size.amount, sigAmount)

OrderOf(account, amount) == [account |-> account, amount |-> amount]

\* Mutant of FallbackOrder: the amount of the request that failed.
FailedAmount(matched, at, i, sigAmount) ==
    OrderOf(matched[i].account, AmountFor(matched, matched[at].account, sigAmount))

\* tryFallbackOrder asks amountFor again.
FallbackOrder(matched, at, i, sigAmount) ==
    OrderOf(matched[i].account, AmountFor(matched, matched[i].account, sigAmount))

\* The account after the one that failed, round and round.
After(matched, at, attempt) ==
    ((FirstOf(matched, matched[at].account) + attempt - 1) % Len(matched)) + 1

\* executeTaskWithFallback with the account picked at a place, if every order fails.
OrdersOfOne(matched, at, sigAmount) ==
    {OrderOf(matched[at].account, AmountFor(matched, matched[at].account, sigAmount))}
        \cup {FallbackOrder(matched, at, After(matched, at, n), sigAmount) : n \in 1..MaxAttempts}

\* Dispatch mode all.
OrdersOfAll(matched, sigAmount) ==
    {OrderOf(matched[i].account, AmountFor(matched, matched[i].account, sigAmount)) : i \in DOMAIN matched}

-----------------------------------------------------------------------------
(* A signal without a strategy, to the flat tasks.                           *)

\* amountForTask: no amount and no safe amount look the same.
AmountForTask(e) == IF e.size.ok THEN e.size.amount ELSE NoAmount

\* Handle's amount: the signal's, or that of the first account that has one.
FlatAmount(tasks, sigAmount) ==
    LET sized == {i \in DOMAIN tasks : AmountForTask(tasks[i]) # NoAmount}
    IN  IF sigAmount # NoAmount \/ sized = {} THEN sigAmount
        ELSE AmountForTask(tasks[CHOOSE i \in sized : \A j \in sized : i <= j])

\* Dispatch mode all.
FlatOrders(tasks, sigAmount) ==
    {OrderOf(tasks[i].account,
             IF sigAmount = NoAmount THEN OwnOr(AmountForTask(tasks[i]), FlatAmount(tasks, sigAmount))
             ELSE sigAmount) : i \in DOMAIN tasks}

\* Dispatch modes random, weighted and round-robin, with the task picked at a place, if
\* every order fails: without an amountFor, fallbacks have the amount of the request.
FlatOrdersOfOne(tasks, at, sigAmount) ==
    {OrderOf(tasks[i].account, FlatAmount(tasks, sigAmount)) :
        i \in {at} \cup {After(tasks, at, n) : n \in 1..MaxAttempts}}

-----------------------------------------------------------------------------
(* Properties.                                                               *)

\* Up to three bindings: sizes, priorities and repeated accounts in any order.
BoundGroups == UNION {[1..n -> BoundAccount] : n \in 1..3}

\* A binding of the order's own account says so; the signal's amount is for those
\* that say nothing.
IsOwn(group, order, sigAmount) ==
    \E i \in DOMAIN group :
        /\ group[i].account = order.account /\ group[i].size.ok
        /\ order.amount = OwnOr(group[i].size.amount, sigAmount)

OwnInGroup(group, sigAmount) ==
    LET matched == MatchedOf(group)
    IN  /\ \A order \in OrdersOfAll(matched, sigAmount) : IsOwn(group, order, sigAmount)
        /\ \A i \in DOMAIN matched :
              \A order \in OrdersOfOne(matched, i, sigAmount) : IsOwn(group, order, sigAmount)

\* The flat tasks are the accounts themselves, each with its first binding.
AreTasks(group) == \A i, j \in DOMAIN group : group[i].account = group[j].account => i = j

\* The own amount of the first task that has one, or none.
IsFirst(tasks, amount) ==
    \/ amount = NoAmount /\ \A i \in DOMAIN tasks : AmountForTask(tasks[i]) = NoAmount
    \/ \E i \in DOMAIN tasks :
          /\ amount = AmountForTask(tasks[i]) /\ amount # NoAmount
          /\ \A j \in 1..(i - 1) : AmountForTask(tasks[j]) = NoAmount

\* Without a strategy the signal's amount, if it has one, is everyone's.
SignalsInFlat(tasks, sigAmount) ==
    sigAmount # NoAmount =>
        /\ \A order \in FlatOrders(tasks, sigAmount) : order.amount = sigAmount
        /\ \A i \in DOMAIN tasks :
              \A order \in FlatOrdersOfOne(tasks, i, sigAmount) : order.amount = sigAmount

\* If it has none, in mode all an account that has an amount gets its own ("resolve it per
\* account instead of reusing the first match for everyone"); one that has none, or none
\* that is safe, is not left out, against "the caller must then skip the account", but
\* gets that of the first.  In the other modes, against "the amount configured in the
\* binding for this account", the first one's amount is everyone's, on fallbacks too.
OwnInFlat(tasks) ==
    /\ \A order \in FlatOrders(tasks, NoAmount) :
          \/ order.amount # NoAmount /\ IsOwn(tasks, order, NoAmount)
          \/ /\ IsFirst(tasks, order.amount)
             /\ \A i \in DOMAIN tasks :
                   tasks[i].account = order.account => AmountForTask(tasks[i]) = NoAmount
    /\ \A i \in DOMAIN tasks :
          \A order \in FlatOrdersOfOne(tasks, i, NoAmount) : IsFirst(tasks, order.amount)

AllOwn(group) ==
    /\ AreTasks(group) => OwnInFlat(group)
    /\ \A sigAmount \in SignalAmounts :
          OwnInGroup(group, sigAmount) /\ (AreTasks(group) => SignalsInFlat(group, sigAmount))

\* The groups and tasks that send orders with other amounts.
Mixed == {group \in BoundGroups : ~AllOwn(group)}
=============================================================================
