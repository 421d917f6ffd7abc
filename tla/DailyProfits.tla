---------------------------- MODULE DailyProfits ----------------------------
(* Summary and recentDailyProfits of internal/balance/balance.go: the total  *)
(* and the profits of the last days, worked out from daily_balance.json      *)
(* whenever a panel asks, in the middle of a round too.                      *)
EXTENDS Balance

CONSTANT MaxDays  \* maxDays: rows shown

ASSUME ProfitsAssumption == MaxDays \in Nat \ {0}

\* Summary: an account counts as long as it has a total, an old one too.
CurrentTotal == Total({a \in Accounts : balances[a].total # None})

\* The snapshots by date.
Sorting(s) ==
    CHOOSE p \in [DOMAIN s -> DOMAIN s] :
        \A i, j \in DOMAIN s : i < j => p[i] # p[j] /\ s[p[i]].date <= s[p[j]].date

ByDate(s) == [i \in DOMAIN s |-> s[Sorting(s)[i]]]

Row(date, baseline, end) == [date |-> date, baseline |-> baseline, profit |-> end - baseline]

\* Mutant of Newest: the first days.
Oldest(rows) == SubSeq(rows, 1, IF Len(rows) > MaxDays THEN MaxDays ELSE Len(rows))

Newest(rows) == SubSeq(rows, IF Len(rows) > MaxDays THEN Len(rows) - MaxDays + 1 ELSE 1, Len(rows))

\* A row runs from one snapshot to the next, the last one to the current total.
RecentDailyProfits(readable) ==
    LET s == ByDate(Loaded(readable))
        n == Len(s)
    IN  IF n = 0 THEN <<Row(day, 0, CurrentTotal)>>
        ELSE Newest([i \in 1..(n - 1) |-> Row(s[i].date, s[i].total, s[i + 1].total)]
                        \o <<Row(day, s[n].total, CurrentTotal)>>)

-----------------------------------------------------------------------------
(* Properties.                                                               *)

\* Whatever days are missing from the file, and after restarts within the recording
\* hour, no profit is lost and none is shown twice: every row starts from where the
\* one before it ended, on a later day, and the last one ends today at the current
\* total.
ProfitsAddUp ==
    \A readable \in BOOLEAN :
        LET rows == RecentDailyProfits(readable)
            n == Len(rows)
        IN  /\ \A i \in 1..(n - 1) : rows[i].baseline + rows[i].profit = rows[i + 1].baseline
            /\ \A i, j \in DOMAIN rows : i < j => rows[i].date < rows[j].date
            /\ rows[n].baseline + rows[n].profit = CurrentTotal /\ rows[n].date = day
=============================================================================
