----------------------------- MODULE TimeRanges -----------------------------
(* internal/config/time_ranges.go: the times of the day at which an account  *)
(* takes signals. They are entered in the panel or by hand in config.json,   *)
(* normalised and validated when they are loaded or saved, and consulted by  *)
(* the processor for every signal.                                           *)
EXTENDS Integers, Sequences

CONSTANTS
    Day,         \* minutes of a day
    Half,        \* ranges start and end at multiples of half an hour
    MaxRanges,   \* MaxTimeRangesPerTask
    Inputs       \* the lists of ranges that are entered

Minutes == 0..(Day - 1)

\* The text of a clock: HH:MM, H:MM ("9:00"), something else, or nothing. Spaces
\* around it are trimmed wherever it is read.
Clock == [form : {"HH:MM", "H:MM"}, minute : Minutes] \cup [form : {"other", "blank"}, minute : {0}]
TimeRange == [start : Clock, end : Clock]

ASSUME RangesAssumption ==
    /\ Day \in Nat \ {0} /\ Half \in Nat \ {0} /\ MaxRanges \in Nat
    /\ Inputs \subseteq Seq(TimeRange)

-----------------------------------------------------------------------------
(* The clock.                                                                *)

Parses(c) == c.form \in {"HH:MM", "H:MM"}

\* canonicalClock: what parses is rewritten, anything else stays for validateTask.
CanonicalClock(c) == IF Parses(c) THEN [c EXCEPT !.form = "HH:MM"] ELSE c

\* parseClockMinute fails otherwise.
OnBoundary(c) == Parses(c) /\ c.minute % Half = 0

Blank(r) == r.start.form = "blank" /\ r.end.form = "blank"

Canonical(r) == [start |-> CanonicalClock(r.start), end |-> CanonicalClock(r.end)]

\* normalizeTimeRanges.
Normalized(ranges) ==
    LET out[i \in 0..Len(ranges)] ==
            IF i = 0 THEN <<>>
            ELSE IF Blank(ranges[i]) THEN out[i - 1]
            ELSE Append(out[i - 1], Canonical(ranges[i]))
    IN  out[Len(ranges)]

\* One range of validateTask.
ValidRange(r) == OnBoundary(r.start) /\ OnBoundary(r.end) /\ r.start.minute # r.end.minute

\* validateTask.
Valid(ranges) == Len(ranges) <= MaxRanges /\ \A i \in DOMAIN ranges : ValidRange(ranges[i])

\* Mutant of MinuteInRange: midnight ends every range.
SameDayOnly(m, start, end) == start <= m /\ m <= end

\* minuteInRange: the end belongs to the range, which may run across midnight.
MinuteInRange(m, start, end) ==
    IF start < end THEN start <= m /\ m <= end ELSE start <= m \/ m <= end

\* IsTimeAllowed. The ranges are gone through in order: the first one that covers
\* the minute, or that is broken, decides.
Broken(r) == ~OnBoundary(r.start) \/ ~OnBoundary(r.end) \/ r.start.minute = r.end.minute
Covers(r, m) == MinuteInRange(m, r.start.minute, r.end.minute)
Decides(r, m) == Broken(r) \/ Covers(r, m)

IsTimeAllowed(ranges, m) ==
    LET rs == Normalized(ranges)
        deciding == {i \in DOMAIN rs : Decides(rs[i], m)}
    IN  IF rs = <<>> THEN "allowed"
        ELSE IF deciding = {} THEN "ignored"
        ELSE IF Broken(rs[CHOOSE i \in deciding : \A j \in deciding : i <= j]) THEN "error"
        ELSE "allowed"

-----------------------------------------------------------------------------
(* Properties.                                                               *)

\* Minutes from one time of the day to the next occurrence of another one.
Ahead(m, start) == IF m >= start THEN m - start ELSE m - start + Day

\* The operator's reading of what was entered: a range runs clockwise from its start
\* to its end, both included.
Means(r, m) == Ahead(m, r.start.minute) <= Ahead(r.end.minute, r.start.minute)

\* Rows that were left blank count for nothing, and none but blank rows mean the
\* whole day.
Wanted(ranges, m) ==
    LET filled == {i \in DOMAIN ranges : ~Blank(ranges[i])}
    IN  filled = {} \/ \E i \in filled : Means(ranges[i], m)

\* No range that was accepted makes the processor drop a signal with an error, and
\* a signal is taken exactly at the times that were entered.
ReadAsEntered(ranges) ==
    \A m \in Minutes :
        IsTimeAllowed(Normalized(ranges), m) = (IF Wanted(ranges, m) THEN "allowed" ELSE "ignored")

\* "the web UI rejects" other forms than HH:MM: what was loaded can be saved from
\* the panel, and is not changed by that.
PanelCanSave(ranges) ==
    LET live == Normalized(ranges)
    IN  /\ \A i \in DOMAIN live : live[i].start.form = "HH:MM" /\ live[i].end.form = "HH:MM"
        /\ Valid(live) /\ Normalized(live) = live

\* The accepted lists that are not read as they were entered: none (ConfigStore).
Misread ==
    {ranges \in Inputs : Valid(Normalized(ranges)) /\ ~(ReadAsEntered(ranges) /\ PanelCanSave(ranges))}
=============================================================================
