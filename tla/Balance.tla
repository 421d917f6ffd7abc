------------------------------- MODULE Balance -------------------------------
(* balance.Service (internal/balance/balance.go): a round fetches the wallet *)
(* of every configured account, then prunes the accounts that have left the  *)
(* configuration, and in the first hour of a day (Beijing time) records the  *)
(* total in daily_balance.json. The panel may change the configuration and   *)
(* time may pass between any two fetches; a failed fetch keeps the last      *)
(* known value. A snapshot file is written by rename, so it is never torn.   *)
EXTENDS Integers, Sequences, FiniteSetsExt

CONSTANTS
    N,            \* number of tasks
    Values,       \* wallet totals
    Hours,        \* bound: hours of a day
    MaxDay,       \* bound: days
    MaxChanges    \* bound: changes of the configuration

\* tracked: binance, turboflow or hibt; other: any other type; off: disabled.
Kinds == {"tracked", "other", "off", "removed"}

ASSUME BalanceAssumption ==
    /\ N \in Nat
    /\ Values \subseteq Nat
    /\ Hours \in Nat \ {0} /\ MaxDay \in Nat /\ MaxChanges \in Nat

Accounts == 1..N  \* task ids, in configuration order
None == -1  \* no usable total
NoInfo == [total |-> None, error |-> FALSE, present |-> FALSE]
Info == [total : Values \cup {None}, error : BOOLEAN, present : BOOLEAN]

VARIABLES
    cfg,        \* the configuration, per account
    round,      \* FetchAll's copy of it
    at,         \* the account it is at; 0 between rounds
    balances,   \* Service.balances; present: the map has an entry
    snapshots,  \* daily_balance.json
    day, hour,  \* the clock
    polled,     \* a round ended in this hour, or the process was down
    changes,
    fetched     \* history: accounts fetched in this round

balancevars == <<cfg, round, at, balances, snapshots, day, hour, polled,
          changes, fetched>>
clock == <<day, hour, polled>>

BalanceTypeOK ==
    /\ cfg \in [Accounts -> Kinds] /\ round \in [Accounts -> Kinds]
    /\ at \in 0..(N + 2)
    /\ balances \in [Accounts -> Info]
    /\ snapshots \in Seq([date : 0..MaxDay, total : Nat])
    /\ day \in 0..MaxDay /\ hour \in 0..(Hours - 1)
    /\ polled \in BOOLEAN /\ changes \in 0..MaxChanges
    /\ fetched \subseteq Accounts

BalanceInit ==
    /\ cfg = [a \in Accounts |-> "tracked"]
    /\ round = cfg
    /\ at = 0
    /\ balances = [a \in Accounts |-> NoInfo]
    /\ snapshots = <<>>
    /\ day = 0 /\ hour = 0 /\ polled = FALSE
    /\ changes = 0
    /\ fetched = {}

-----------------------------------------------------------------------------
(* The surroundings.                                                         *)

\* Rounds are 30 seconds apart: no hour passes without one while the process is up.
Tick ==
    /\ polled
    /\ polled' = FALSE
    /\ IF hour + 1 < Hours
       THEN hour' = hour + 1 /\ day' = day
       ELSE day < MaxDay /\ hour' = 0 /\ day' = day + 1
    /\ UNCHANGED <<cfg, round, at, balances, snapshots, changes, fetched>>

\* The panel saves a configuration in which one account is another kind.
ChangeConfig(a, kind) ==
    /\ changes < MaxChanges /\ cfg[a] # kind
    /\ cfg' = [cfg EXCEPT ![a] = kind]
    /\ changes' = changes + 1
    /\ UNCHANGED <<round, at, balances, snapshots, clock, fetched>>

\* The process ends and starts, any time later: only the file stays.
Restart ==
    /\ changes < MaxChanges
    /\ changes' = changes + 1
    /\ at' = 0
    /\ balances' = [a \in Accounts |-> NoInfo]
    /\ fetched' = {}
    /\ polled' = TRUE
    /\ UNCHANGED <<cfg, round, snapshots, day, hour>>

-----------------------------------------------------------------------------
(* A round.                                                                  *)

StartRound ==
    /\ at = 0
    /\ round' = cfg
    /\ at' = 1
    /\ fetched' = {}
    /\ UNCHANGED <<cfg, balances, snapshots, clock, changes>>

FetchDone(b) ==
    /\ balances' = [balances EXCEPT ![at] = b]
    /\ at' = at + 1
    /\ UNCHANGED <<cfg, round, snapshots, clock, changes>>

\* set.
FetchOk(total) ==
    /\ at \in Accounts /\ round[at] = "tracked"
    /\ FetchDone([total |-> total, error |-> FALSE, present |-> TRUE])
    /\ fetched' = fetched \cup {at}

\* Mutant of FetchFails: a failure leaves no mark.
FetchFailsQuietly ==
    /\ at \in Accounts /\ round[at] = "tracked"
    /\ FetchDone(balances[at])
    /\ UNCHANGED fetched

\* setError: no credentials, or the request failed. The old total stays.
FetchFails ==
    /\ at \in Accounts /\ round[at] = "tracked"
    /\ FetchDone([balances[at] EXCEPT !.error = TRUE, !.present = TRUE])
    /\ UNCHANGED fetched

\* A disabled task is deleted; nothing is done for other types.
NotFetched ==
    /\ at \in Accounts /\ round[at] # "tracked"
    /\ FetchDone(IF round[at] = "off" THEN NoInfo ELSE balances[at])
    /\ UNCHANGED fetched

\* The end of FetchAll.
Prune ==
    /\ at = N + 1
    /\ balances' = [a \in Accounts |-> IF round[a] = "removed" THEN NoInfo ELSE balances[a]]
    /\ at' = at + 1
    /\ UNCHANGED <<cfg, round, snapshots, clock, changes, fetched>>

Tracked == {a \in Accounts : balances[a].present}

\* Mutant of Failed: sums up whatever there is.
FailuresIgnored == {}

Failed == {a \in Tracked : balances[a].error}
Total(S) == MapThenSumSet(LAMBDA a : balances[a].total, S)

\* loadSnapshotsLocked: a file that cannot be read counts as empty.
Loaded(readable) == IF readable THEN snapshots ELSE <<>>

Recorded(s) == \E i \in DOMAIN s : s[i].date = day

\* recordDailySnapshotIfNeeded.  A write that fails leaves the file as it is.
Record(readable, writable) ==
    LET old == Loaded(readable) IN
    /\ at = N + 2
    /\ snapshots' = IF /\ hour = 0 /\ ~Recorded(old)
                       /\ Tracked # {} /\ Failed = {} /\ writable
                    THEN Append(old, [date |-> day, total |-> Total(Tracked)])
                    ELSE snapshots
    /\ at' = 0
    /\ polled' = TRUE
    /\ UNCHANGED <<cfg, round, balances, day, hour, changes, fetched>>

BalanceNext ==
    \/ Tick
    \/ \E a \in Accounts, kind \in Kinds : ChangeConfig(a, kind)
    \/ Restart
    \/ StartRound
    \/ \E total \in Values : FetchOk(total)
    \/ FetchFails \/ NotFetched \/ Prune
    \/ \E readable, writable \in BOOLEAN : Record(readable, writable)

BalanceSpec == BalanceInit /\ [][BalanceNext]_balancevars

-----------------------------------------------------------------------------
(* Properties.                                                               *)

\* "only when all tracked accounts were fetched in this round": no total of an
\* earlier round goes into a snapshot, save that of an account whose type has
\* become one that is not fetched.
SnapshotIsFresh ==
    [][ snapshots' # snapshots => \A a \in Tracked \ fetched : round[a] = "other" ]_balancevars

\* ... and no configured account's wallet is missing from it.
SnapshotIsComplete ==
    [][ snapshots' # snapshots => \A a \in Accounts : round[a] = "tracked" => a \in fetched ]_balancevars
=============================================================================
