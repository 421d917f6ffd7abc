-------------------------- MODULE ConfigStoreProofs --------------------------
(* Proofs about ConfigStore, for any settings, ports, host and number of     *)
(* updates, and about the time ranges in its settings, for any of them.      *)
EXTENDS ConfigStore, FiniteSetTheorems, SequenceTheorems, WellFoundedInduction, TLAPS

\* Every variable keeps to its range in every behaviour of the configuration store.
THEOREM TypeCorrect == Spec => []TypeOK
<1>1. Init => TypeOK
  BY ConfigAssumption DEF Init, TypeOK, Config, Fresh
<1>2. TypeOK /\ [Next]_vars => TypeOK'
  <2> SUFFICES ASSUME TypeOK, [Next]_vars PROVE TypeOK'
    OBVIOUS
  <2>1. ASSUME NEW port \in Ports \cup {NoPort}, Load(port) PROVE TypeOK'
    BY <2>1 DEF TypeOK, Load, Torn, Config
  <2>2. ASSUME NEW settings \in Settings, Update(settings) PROVE TypeOK'
    BY <2>2, ConfigAssumption DEF TypeOK, Update, Config
  <2>3. ASSUME NEW from, Written(from) PROVE TypeOK'
    BY <2>3 DEF TypeOK, Written
  <2>4. CASE WriteRename \/ WriteInPlace
    BY <2>3, <2>4 DEF WriteRename, WriteInPlace
  <2>5. CASE FallBack
    BY <2>5 DEF TypeOK, FallBack
  <2>6. CASE Saved
    BY <2>6 DEF TypeOK, Saved, Overridden, Config
  <2>7. CASE WriteInPlaceFails
    BY <2>7 DEF TypeOK, WriteInPlaceFails, Overridden, Config
  <2>8. CASE Crash
    BY <2>8 DEF TypeOK, Crash
  <2>9. CASE UNCHANGED vars
    BY <2>9 DEF TypeOK, vars
  <2> QED
    BY <2>1, <2>2, <2>4, <2>5, <2>6, <2>7, <2>8, <2>9 DEF Next
<1> QED
  BY <1>1, <1>2, PTL DEF Spec

-----------------------------------------------------------------------------
(* Memory and disk.                                                          *)

Saving == pc \in {"save", "in-place", "saved"}

\* The file is torn while it is written in place, and stays so only on a mount point,
\* after a crash, or where writing fails.
TornInv ==
    /\ pc = "in-place" => file = Torn /\ (host.mount \/ host.writeErrors)
    /\ file = Torn => host.writeErrors \/ (host.mount /\ pc \in {"in-place", "down"})
    /\ pc = "saved" => file # Torn /\ file = mem

\* What a load or an update falls back to, and what is in force between saves: the
\* settings last reported, with the environment's port.
ForceInv ==
    /\ pc = "up" => mem.settings = acked /\ (env # NoPort => mem.port = env)
    /\ Saving /\ job = "load" => mem.settings = acked
    /\ Saving /\ job = "update" =>
          /\ prev.settings = acked /\ mem.port = prev.port
          /\ env # NoPort => prev.port = env

\* What the file holds, if it is not torn.
FileInv == file # Torn =>
    /\ pc = "up" => file.settings = acked /\ (env = NoPort => mem.port = file.port)
    /\ pc = "save" =>
          /\ file.settings = acked
          /\ job = "load" => file = mem
          /\ job = "update" /\ env = NoPort => prev.port = file.port
    /\ pc = "down" => file.settings \in {acked, mem.settings}

DiskInv == TornInv /\ ForceInv /\ FileInv

\* No configuration is mistaken for a torn file.
LEMMA ConfigNotTorn == \A c \in Config : c # Torn
  BY DEF Config, Torn

\* The override that applies, in the fields of a configuration.
LEMMA OverriddenFields ==
    ASSUME NEW c \in Config
    PROVE  /\ Overridden(c).settings = c.settings
           /\ Overridden(c).port = IF job = "load" /\ env # NoPort THEN env ELSE c.port
  BY DEF Overridden, Config

\* The user's file is intact before the first start.
LEMMA DiskInvInit == Init => DiskInv
<1> SUFFICES ASSUME Init PROVE DiskInv
  OBVIOUS
<1>1. file # Torn /\ file.settings = acked /\ pc = "down"
  BY ConfigAssumption, ConfigNotTorn DEF Init, Fresh, Config
<1> QED
  BY <1>1 DEF DiskInv, TornInv, ForceInv, FileInv, Saving

\* No load, update, write step, failed write or crash breaks the disk invariant.
LEMMA DiskInvStep == TypeOK /\ DiskInv /\ [Next]_vars => DiskInv'
<1> SUFFICES ASSUME TypeOK, DiskInv, [Next]_vars PROVE DiskInv'
  OBVIOUS
<1> USE DEF DiskInv, TornInv, ForceInv, FileInv, Saving
<1>0. mem \in Config /\ prev \in Config
  BY DEF TypeOK
<1>1. ASSUME NEW port \in Ports \cup {NoPort}, Load(port) PROVE DiskInv'
  BY <1>1 DEF Load
<1>2. ASSUME NEW settings \in Settings, Update(settings) PROVE DiskInv'
  <2>1. mem'.settings = settings /\ mem'.port = mem.port
    BY <1>0, <1>2 DEF Update, Config
  <2> QED
    BY <1>2, <2>1 DEF Update
<1>3. ASSUME NEW from \in {"save", "in-place"}, Written(from) PROVE DiskInv'
  <2>1. mem # Torn
    BY <1>0, ConfigNotTorn
  <2> QED
    BY <1>3, <2>1 DEF Written
<1>4. CASE FallBack
  BY <1>4 DEF FallBack
<1>5. CASE Saved
  <2>1. /\ mem'.settings = mem.settings
        /\ mem'.port = IF job = "load" /\ env # NoPort THEN env ELSE mem.port
    BY <1>0, <1>5, OverriddenFields DEF Saved
  <2>2. job \in {"load", "update"}
    BY DEF TypeOK
  <2> QED
    BY <1>5, <2>1, <2>2 DEF Saved
<1>6. CASE WriteInPlaceFails
  <2>1. job \in {"load", "update"}
    BY DEF TypeOK
  <2>2. CASE job = "update"
    BY <1>6, <2>2 DEF WriteInPlaceFails
  <2>3. CASE job = "load"
    <3>1. /\ mem'.settings = mem.settings
          /\ mem'.port = IF env # NoPort THEN env ELSE mem.port
      BY <1>0, <1>6, <2>3, OverriddenFields DEF WriteInPlaceFails
    <3> QED
      BY <1>6, <2>3, <3>1 DEF WriteInPlaceFails
  <2> QED
    BY <2>1, <2>2, <2>3
<1>7. CASE Crash
  <2>1. pc \in {"up", "save", "in-place", "saved"}
    BY <1>7 DEF Crash, TypeOK
  <2> QED
    BY <1>7, <2>1 DEF Crash
<1>8. CASE UNCHANGED vars
  BY <1>8 DEF vars
<1> QED
  BY <1>1, <1>2, <1>3, <1>4, <1>5, <1>6, <1>7, <1>8 DEF Next, WriteRename, WriteInPlace

\* The disk invariant holds in every behaviour.
LEMMA DiskCorrect == Spec => []DiskInv
  BY TypeCorrect, DiskInvInit, DiskInvStep, PTL DEF Spec

\* "An update can never leave memory and disk disagreeing" (config.go:241-243): on every
\* host, with failing writes and crashes, the settings in force between saves are those
\* last reported and those in the file, which is torn only by a failed write and whose
\* port is that of the process or overridden in it.
THEOREM DiskAgrees == Spec => []MemoryAndDiskAgree
<1>1. DiskInv => MemoryAndDiskAgree
  BY DEF DiskInv, TornInv, ForceInv, FileInv, MemoryAndDiskAgree
<1> QED
  BY <1>1, DiskCorrect, PTL

\* Whatever moment the process dies at, and on every host, the next start finds the
\* settings last reported or those being saved, unless an in-place write was cut off or
\* failed (config.go:267-282).
THEOREM RestartKeeps == Spec => []RestartKeepsSettings
<1>1. DiskInv => RestartKeepsSettings
  BY DEF DiskInv, TornInv, FileInv, RestartKeepsSettings
<1> QED
  BY <1>1, DiskCorrect, PTL

\* Before the first update, whatever is being written has the port of the user's file.
PortInv == updates = 0 =>
    /\ file # Torn => file.port = FilePort
    /\ Saving => job = "load" /\ mem.port = FilePort

\* No start writes the environment's port into the file (config.go:194-196).
THEOREM OverrideIsNotSaved == Spec => []OverrideStaysOut
<1>1. Init => PortInv
  BY DEF Init, Fresh, PortInv, Saving
<1>2. TypeOK /\ PortInv /\ [Next]_vars => PortInv'
  <2> SUFFICES ASSUME TypeOK, PortInv, [Next]_vars PROVE PortInv'
    OBVIOUS
  <2> USE DEF PortInv, Saving
  <2>1. ASSUME NEW port \in Ports \cup {NoPort}, Load(port) PROVE PortInv'
    BY <2>1 DEF Load
  <2>2. ASSUME NEW settings \in Settings, Update(settings) PROVE PortInv'
    <3>1. updates' # 0
      BY <2>2, ConfigAssumption DEF Update, TypeOK
    <3> QED
      BY <3>1
  <2>3. ASSUME NEW from \in {"save", "in-place"}, Written(from) PROVE PortInv'
    BY <2>3 DEF Written
  <2>4. CASE FallBack \/ Saved \/ WriteInPlaceFails \/ Crash \/ UNCHANGED vars
    BY <2>4 DEF FallBack, Saved, WriteInPlaceFails, Crash, vars
  <2> QED
    BY <2>1, <2>2, <2>3, <2>4 DEF Next, WriteRename, WriteInPlace
<1>3. TypeOK /\ PortInv => OverrideStaysOut
  BY ConfigAssumption DEF TypeOK, PortInv, OverrideStaysOut
<1> QED
  BY <1>1, <1>2, <1>3, TypeCorrect, PTL DEF Spec

-----------------------------------------------------------------------------
(* Time ranges: a rule for when a strategy trades.                           *)

\* minuteInRange is the clockwise walk from the start to the end, on both sides of
\* midnight.
LEMMA InRangeIsClockwise ==
    ASSUME NEW m \in Minutes, NEW start \in Minutes, NEW end \in Minutes, start # end
    PROVE  MinuteInRange(m, start, end) <=> Ahead(m, start) <= Ahead(end, start)
<1>1. Day \in Nat /\ m \in Int /\ start \in Int /\ end \in Int
  BY RangesAssumption DEF Minutes
<1>2. 0 <= m /\ m < Day /\ 0 <= start /\ start < Day /\ 0 <= end /\ end < Day
  BY RangesAssumption DEF Minutes
<1>3. CASE start < end
  <2>1. Ahead(end, start) = end - start
    BY <1>1, <1>3 DEF Ahead
  <2> QED
    BY <1>1, <1>2, <1>3, <2>1 DEF MinuteInRange, Ahead
<1>4. CASE end < start
  <2>1. Ahead(end, start) = end - start + Day
    BY <1>1, <1>4 DEF Ahead
  <2> QED
    BY <1>1, <1>2, <1>4, <2>1 DEF MinuteInRange, Ahead
<1> QED
  BY <1>1, <1>3, <1>4

\* Rewriting a clock does not move it.
LEMMA CanonicalKeepsTime ==
    ASSUME NEW c \in Clock
    PROVE  /\ CanonicalClock(c) \in Clock
           /\ CanonicalClock(c).minute = c.minute /\ c.minute \in Minutes
           /\ OnBoundary(CanonicalClock(c)) <=> OnBoundary(c)
<1>1. CASE Parses(c)
  <2>1. c \in [form : {"HH:MM", "H:MM"}, minute : Minutes]
    BY <1>1 DEF Parses, Clock
  <2>2. CanonicalClock(c) = [form |-> "HH:MM", minute |-> c.minute]
    BY <1>1, <2>1 DEF CanonicalClock
  <2> QED
    BY <1>1, <2>1, <2>2 DEF Parses, OnBoundary, Clock
<1>2. CASE ~Parses(c)
  <2>1. CanonicalClock(c) = c
    BY <1>2 DEF CanonicalClock
  <2>2. 0 \in Minutes
    BY RangesAssumption DEF Minutes
  <2> QED
    BY <2>1, <2>2 DEF Clock
<1> QED
  BY <1>1, <1>2

\* What normalizeTimeRanges and validateTask accept, IsTimeAllowed reads without an
\* error, and as the clockwise range that was entered.
THEOREM AcceptedRangeIsRead ==
    ASSUME NEW r \in TimeRange, ValidRange(Canonical(r)), NEW m \in Minutes
    PROVE  /\ ~Broken(Canonical(Canonical(r)))
           /\ Covers(Canonical(Canonical(r)), m) <=> Means(r, m)
<1> DEFINE once == Canonical(r)
           twice == Canonical(once)
<1>1. r.start \in Clock /\ r.end \in Clock
  BY DEF TimeRange
<1>2. once = [start |-> CanonicalClock(r.start), end |-> CanonicalClock(r.end)]
  BY DEF Canonical
<1>3. /\ once.start \in Clock /\ once.start.minute = r.start.minute
      /\ once.end \in Clock /\ once.end.minute = r.end.minute
      /\ r.start.minute \in Minutes /\ r.end.minute \in Minutes
  BY <1>1, <1>2, CanonicalKeepsTime
<1>4. twice = [start |-> CanonicalClock(once.start), end |-> CanonicalClock(once.end)]
  BY DEF Canonical
<1>5. /\ twice.start.minute = r.start.minute /\ twice.end.minute = r.end.minute
      /\ OnBoundary(twice.start) <=> OnBoundary(once.start)
      /\ OnBoundary(twice.end) <=> OnBoundary(once.end)
  BY <1>3, <1>4, CanonicalKeepsTime
<1>6. OnBoundary(once.start) /\ OnBoundary(once.end) /\ r.start.minute # r.end.minute
  BY <1>3 DEF ValidRange
<1>7. ~Broken(twice)
  BY <1>5, <1>6 DEF Broken
<1>8. Covers(twice, m) <=> MinuteInRange(m, r.start.minute, r.end.minute)
  BY <1>5 DEF Covers
<1>9. Covers(twice, m) <=> Means(r, m)
  BY <1>3, <1>6, <1>8, InRangeIsClockwise DEF Means
<1> QED
  BY <1>7, <1>9
\* Numbers are well-ordered: what takes the place of an induction below.
LEMMA LeastNat == ASSUME NEW S \in SUBSET Nat, S # {} PROVE \E n \in S : \A m \in S : n <= m
<1> DEFINE R == OpToRel(<, Nat)
<1>1. IsWellFoundedOn(R, Nat)
  BY NatLessThanWellFounded
<1>2. \A x, y \in Nat : <<y, x>> \in R <=> y < x
  BY DEF OpToRel
<1> HIDE DEF R
<1>3. PICK x \in S : \A y \in S : <<y, x>> \notin R
  BY <1>1, WFMin
<1>4. \A y \in S : ~(y < x)
  BY <1>2, <1>3
<1>5. \A y \in S : x <= y
  BY <1>4
<1> QED
  BY <1>5

\* One turn of the loop of normalizeTimeRanges, and all turns up to the n-th.
Turn(ranges, out, i) ==
    IF i = 0 THEN <<>>
    ELSE IF Blank(ranges[i]) THEN out[i - 1]
    ELSE Append(out[i - 1], Canonical(ranges[i]))

TurnsTo(ranges, n, out) == out = [i \in 0..n |-> Turn(ranges, out, i)]

\* The loop comes to an end: what its turns make of a list is defined.
LEMMA LoopEnds == ASSUME NEW ranges, NEW n \in Nat PROVE \E out : TurnsTo(ranges, n, out)
<1> DEFINE Bad == {m \in Nat : ~\E out : TurnsTo(ranges, m, out)}
<1> SUFFICES ASSUME Bad # {} PROVE FALSE
  OBVIOUS
<1>1. PICK m \in Bad : \A k \in Bad : m <= k
  BY LeastNat
<1>2. m \in Nat /\ ~\E out : TurnsTo(ranges, m, out)
  BY <1>1
<1>3. ASSUME NEW k \in Nat, k < m PROVE \E out : TurnsTo(ranges, k, out)
  BY <1>1, <1>3
<1> HIDE DEF Bad
<1>4. CASE m = 0
  <2> DEFINE h == [i \in 0..0 |-> <<>>]
  <2>1. \A i \in 0..0 : Turn(ranges, h, i) = <<>>
    BY DEF Turn
  <2>2. TurnsTo(ranges, 0, h)
    BY <2>1 DEF TurnsTo
  <2> QED
    BY <1>2, <1>4, <2>2
<1>5. CASE m # 0
  <2>1. m - 1 \in Nat /\ m - 1 < m
    BY <1>2, <1>5
  <2>2. PICK g : TurnsTo(ranges, m - 1, g)
    BY <1>3, <2>1
  <2> DEFINE h == [i \in 0..m |-> Turn(ranges, g, i)]
  <2>3. ASSUME NEW i \in 0..m PROVE Turn(ranges, g, i) = Turn(ranges, h, i)
    <3>1. CASE i = 0
      BY <3>1 DEF Turn
    <3>2. CASE i # 0
      <4>1. i - 1 \in 0..(m - 1) /\ i - 1 \in 0..m
        BY <1>2, <3>2
      <4>2. g[i - 1] = Turn(ranges, g, i - 1) /\ h[i - 1] = Turn(ranges, g, i - 1)
        BY <2>2, <4>1 DEF TurnsTo
      <4> QED
        BY <3>2, <4>2 DEF Turn
    <3> QED
      BY <3>1, <3>2
  <2>4. TurnsTo(ranges, m, h)
    BY <2>3 DEF TurnsTo
  <2> QED
    BY <1>2, <2>4
<1> QED
  BY <1>4, <1>5

\* What has been collected from the first n rows of a list: the rows that are not
\* blank, rewritten; and just these rows, if there is nothing to leave out or rewrite.
Collected(ranges, n, out) ==
    /\ out \in Seq(TimeRange)
    /\ \A k \in DOMAIN out : \E i \in 1..n : ~Blank(ranges[i]) /\ out[k] = Canonical(ranges[i])
    /\ \A i \in 1..n : ~Blank(ranges[i]) => \E k \in DOMAIN out : out[k] = Canonical(ranges[i])
    /\ (\A i \in 1..n : ~Blank(ranges[i]) /\ Canonical(ranges[i]) = ranges[i])
          => Len(out) = n /\ \A i \in 1..n : out[i] = ranges[i]

LEMMA TurnCollects ==
    ASSUME NEW ranges \in Seq(TimeRange), NEW n \in 1..Len(ranges), NEW out,
           Collected(ranges, n - 1, out[n - 1])
    PROVE  Collected(ranges, n, Turn(ranges, out, n))
<1> DEFINE before == out[n - 1]
           after == Turn(ranges, out, n)
<1>1. /\ n \in Nat /\ n # 0 /\ n \in 1..n /\ ranges[n] \in TimeRange
      /\ \A i \in 1..(n - 1) : i \in 1..n /\ i # n
      /\ \A i \in 1..n : i = n \/ i \in 1..(n - 1)
  OBVIOUS
<1>2. Canonical(ranges[n]) \in TimeRange
  BY <1>1, CanonicalKeepsTime DEF Canonical, TimeRange
<1>3. /\ before \in Seq(TimeRange) /\ Len(before) \in Nat /\ DOMAIN before = 1..Len(before)
  BY DEF Collected
<1> HIDE DEF before
<1>4. CASE Blank(ranges[n])
  <2>1. after = before
    BY <1>1, <1>4 DEF Turn, before
  <2> QED
    BY <1>1, <1>4, <2>1 DEF Collected, before
<1>5. CASE ~Blank(ranges[n])
  <2>1. after = Append(before, Canonical(ranges[n]))
    BY <1>1, <1>5 DEF Turn, before
  <2> HIDE DEF after
  <2>2. /\ after \in Seq(TimeRange) /\ Len(after) = Len(before) + 1
        /\ DOMAIN after = 1..(Len(before) + 1)
        /\ \A k \in DOMAIN before : after[k] = before[k]
        /\ after[Len(before) + 1] = Canonical(ranges[n])
    BY <1>2, <1>3, <2>1
  <2>3. /\ Len(before) + 1 \in DOMAIN after /\ \A k \in DOMAIN before : k \in DOMAIN after
        /\ \A k \in DOMAIN after : k = Len(before) + 1 \/ k \in DOMAIN before
    BY <1>3, <2>2
  <2>4. ASSUME NEW k \in DOMAIN after
        PROVE  \E i \in 1..n : ~Blank(ranges[i]) /\ after[k] = Canonical(ranges[i])
    <3>1. CASE k = Len(before) + 1
      BY <1>1, <1>5, <2>2, <3>1
    <3>2. CASE k \in DOMAIN before
      <4>1. PICK i \in 1..(n - 1) : ~Blank(ranges[i]) /\ before[k] = Canonical(ranges[i])
        BY <3>2 DEF Collected, before
      <4> QED
        BY <1>1, <2>2, <3>2, <4>1
    <3> QED
      BY <2>3, <3>1, <3>2
  <2>5. ASSUME NEW i \in 1..n, ~Blank(ranges[i])
        PROVE  \E k \in DOMAIN after : after[k] = Canonical(ranges[i])
    <3>1. CASE i = n
      BY <2>2, <2>3, <3>1
    <3>2. CASE i \in 1..(n - 1)
      <4>1. PICK k \in DOMAIN before : before[k] = Canonical(ranges[i])
        BY <2>5, <3>2 DEF Collected, before
      <4> QED
        BY <2>2, <2>3, <4>1
    <3> QED
      BY <1>1, <3>1, <3>2
  <2>6. ASSUME \A i \in 1..n : ~Blank(ranges[i]) /\ Canonical(ranges[i]) = ranges[i]
        PROVE  Len(after) = n /\ \A i \in 1..n : after[i] = ranges[i]
    <3>1. Len(before) = n - 1 /\ \A i \in 1..(n - 1) : before[i] = ranges[i]
      BY <1>1, <2>6 DEF Collected, before
    <3>2. DOMAIN before = 1..(n - 1) /\ Len(before) + 1 = n
      BY <1>1, <1>3, <3>1
    <3> QED
      BY <1>1, <2>2, <2>6, <3>1, <3>2
  <2> QED
    BY <2>2, <2>4, <2>5, <2>6 DEF Collected, after
<1> QED
  BY <1>4, <1>5

\* normalizeTimeRanges, for lists of any length.
LEMMA NormalizedCollects ==
    ASSUME NEW ranges \in Seq(TimeRange)
    PROVE  Collected(ranges, Len(ranges), Normalized(ranges))
<1> DEFINE out == CHOOSE f : f = [i \in 0..Len(ranges) |-> Turn(ranges, f, i)]
<1>1. Normalized(ranges) = out[Len(ranges)] /\ Len(ranges) \in Nat
  BY DEF Normalized, Turn
<1>2. out = [i \in 0..Len(ranges) |-> Turn(ranges, out, i)]
  BY <1>1, LoopEnds DEF TurnsTo
<1> HIDE DEF out
<1> DEFINE Bad == {n \in Nat : n <= Len(ranges) /\ ~Collected(ranges, n, out[n])}
<1>3. SUFFICES ASSUME Bad # {} PROVE FALSE
  BY <1>1
<1>4. PICK n \in Bad : \A k \in Bad : n <= k
  BY <1>3, LeastNat
<1>5. n \in Nat /\ n <= Len(ranges) /\ ~Collected(ranges, n, out[n]) /\ n \in 0..Len(ranges)
  BY <1>1, <1>4
<1>6. ASSUME NEW k \in Nat, k < n PROVE Collected(ranges, k, out[k])
  BY <1>1, <1>4, <1>5, <1>6
<1> HIDE DEF Bad
<1>7. out[n] = Turn(ranges, out, n)
  BY <1>2, <1>5
<1>8. CASE n = 0
  <2>1. out[n] = <<>>
    BY <1>7, <1>8 DEF Turn
  <2>2. Collected(ranges, 0, <<>>)
    BY DEF Collected
  <2> QED
    BY <1>5, <1>8, <2>1, <2>2
<1>9. CASE n # 0
  <2>1. n - 1 \in Nat /\ n - 1 < n /\ n \in 1..Len(ranges)
    BY <1>1, <1>5, <1>9
  <2>2. Collected(ranges, n - 1, out[n - 1])
    BY <1>6, <2>1
  <2> QED
    BY <1>5, <1>7, <2>1, <2>2, TurnCollects
<1> QED
  BY <1>8, <1>9

\* A clock that is on a boundary once it is rewritten has a form the panel takes, and
\* rewriting it again changes nothing.
LEMMA BoundaryIsCanonical ==
    ASSUME NEW c \in Clock, OnBoundary(CanonicalClock(c))
    PROVE  /\ CanonicalClock(c).form = "HH:MM"
           /\ CanonicalClock(CanonicalClock(c)) = CanonicalClock(c)
<1>1. Parses(CanonicalClock(c))
  BY DEF OnBoundary
<1>2. Parses(c)
  BY <1>1 DEF CanonicalClock
<1>3. c \in [form : {"HH:MM", "H:MM"}, minute : Minutes]
  BY <1>2 DEF Parses, Clock
<1>4. CanonicalClock(c) = [form |-> "HH:MM", minute |-> c.minute]
  BY <1>2, <1>3 DEF CanonicalClock
<1> QED
  BY <1>1, <1>4 DEF CanonicalClock

\* A list that was accepted is read without an error, at the times that were entered,
\* and the panel can save it unchanged (time_ranges.go, normalizeTimeRanges,
\* validateTask and IsTimeAllowed).
THEOREM AcceptedListIsRead ==
    ASSUME NEW ranges \in Seq(TimeRange), Valid(Normalized(ranges))
    PROVE  ReadAsEntered(ranges) /\ PanelCanSave(ranges)
<1> DEFINE live == Normalized(ranges)
           n == Len(ranges)
<1>1. Collected(ranges, n, live) /\ n \in Nat /\ DOMAIN ranges = 1..n /\ live \in Seq(TimeRange)
  BY NormalizedCollects DEF Collected
<1>2. \A k \in DOMAIN live : ValidRange(live[k])
  BY DEF Valid
<1>3. Valid(live)
  OBVIOUS
<1> HIDE DEF live
<1>4. ASSUME NEW k \in DOMAIN live
      PROVE  /\ live[k].start.form = "HH:MM" /\ live[k].end.form = "HH:MM"
             /\ Canonical(live[k]) = live[k] /\ ~Blank(live[k])
  <2>1. PICK i \in 1..n : ~Blank(ranges[i]) /\ live[k] = Canonical(ranges[i])
    BY <1>1 DEF Collected
  <2> DEFINE r == ranges[i]
  <2>2. r.start \in Clock /\ r.end \in Clock
    <3>1. r \in TimeRange
      BY <1>1, <2>1
    <3> QED
      BY <3>1 DEF TimeRange
  <2>3. live[k] = [start |-> CanonicalClock(r.start), end |-> CanonicalClock(r.end)]
    BY <2>1 DEF Canonical
  <2> HIDE DEF r
  <2>4. OnBoundary(CanonicalClock(r.start)) /\ OnBoundary(CanonicalClock(r.end))
    BY <1>2, <2>3 DEF ValidRange
  <2>5. /\ CanonicalClock(r.start).form = "HH:MM" /\ CanonicalClock(r.end).form = "HH:MM"
        /\ CanonicalClock(CanonicalClock(r.start)) = CanonicalClock(r.start)
        /\ CanonicalClock(CanonicalClock(r.end)) = CanonicalClock(r.end)
    BY <2>2, <2>4, BoundaryIsCanonical
  <2> QED
    BY <2>3, <2>5 DEF Canonical, Blank
<1>5. Normalized(live) = live
  <2>1. Collected(live, Len(live), Normalized(live)) /\ DOMAIN live = 1..Len(live)
    BY <1>1, NormalizedCollects
  <2>2. /\ Normalized(live) \in Seq(TimeRange) /\ Len(Normalized(live)) = Len(live)
        /\ \A i \in 1..Len(live) : Normalized(live)[i] = live[i]
    BY <1>4, <2>1 DEF Collected
  <2> QED
    BY <1>1, <2>2, SeqEqual
<1>6. ASSUME NEW m \in Minutes
      PROVE  IsTimeAllowed(live, m) = (IF Wanted(ranges, m) THEN "allowed" ELSE "ignored")
  <2>1. ASSUME NEW i \in 1..n, NEW k \in DOMAIN live, live[k] = Canonical(ranges[i])
        PROVE  ~Broken(live[k]) /\ (Covers(live[k], m) <=> Means(ranges[i], m))
    <3>1. ranges[i] \in TimeRange /\ ValidRange(Canonical(ranges[i]))
      BY <1>1, <1>2, <2>1
    <3>2. Canonical(Canonical(ranges[i])) = live[k]
      BY <1>4, <2>1
    <3> QED
      BY <3>1, <3>2, AcceptedRangeIsRead
  <2>2. \A k \in DOMAIN live : ~Broken(live[k])
    BY <1>1, <2>1 DEF Collected
  <2>3. Wanted(ranges, m) <=> live = <<>> \/ \E k \in DOMAIN live : Covers(live[k], m)
    <3>1. live = <<>> <=> \A i \in 1..n : Blank(ranges[i])
      <4>1. live = <<>> <=> DOMAIN live = {}
        BY <1>1
      <4> QED
        BY <1>1, <4>1 DEF Collected
    <3>2. (\E k \in DOMAIN live : Covers(live[k], m))
             <=> \E i \in 1..n : ~Blank(ranges[i]) /\ Means(ranges[i], m)
      BY <1>1, <2>1 DEF Collected
    <3> QED
      BY <1>1, <3>1, <3>2 DEF Wanted
  <2>4. \A k \in DOMAIN live : Decides(live[k], m) <=> Covers(live[k], m)
    BY <2>2 DEF Decides
  <2>5. CASE live = <<>>
    BY <1>5, <2>3, <2>5 DEF IsTimeAllowed
  <2>6. CASE live # <<>>
    <3> DEFINE deciding == {k \in DOMAIN live : Decides(live[k], m)}
    <3>1. IsTimeAllowed(live, m) =
             IF deciding = {} THEN "ignored"
             ELSE IF Broken(live[CHOOSE i \in deciding : \A j \in deciding : i <= j]) THEN "error"
             ELSE "allowed"
      BY <1>5, <2>6 DEF IsTimeAllowed
    <3>2. deciding # {} => (CHOOSE i \in deciding : \A j \in deciding : i <= j) \in deciding
      <4>1. deciding \in SUBSET Nat
        BY <1>1
      <4> HIDE DEF deciding
      <4>2. deciding # {} => \E i \in deciding : \A j \in deciding : i <= j
        BY <4>1, LeastNat
      <4> QED
        BY <4>2
    <3> QED
      BY <2>2, <2>3, <2>4, <2>6, <3>1, <3>2
  <2> QED
    BY <2>5, <2>6
<1>7. ReadAsEntered(ranges)
  BY <1>6 DEF ReadAsEntered, live
<1>8. PanelCanSave(ranges)
  BY <1>3, <1>4, <1>5 DEF PanelCanSave, live
<1> QED
  BY <1>7, <1>8

\* ... whatever lists are entered in the panel or in the file.
THEOREM RangesAreReadAsEntered == Spec => []RangesAsEntered
<1>1. Misread = {}
  BY RangesAssumption, AcceptedListIsRead DEF Misread
<1>2. RangesAsEntered
  BY <1>1 DEF RangesAsEntered
<1> QED
  BY <1>2, PTL

-----------------------------------------------------------------------------
(* PrepareTasks and the ids of accounts, for lists of any length.            *)

Account == [id : Ids \cup {BlankId}, owner : Nat]
Identified == [id : Ids, owner : Nat]

LEMMA SomeAreIdentified ==
    /\ Identified \subseteq Account
    /\ \A a \in Identified : a.id # BlankId
    /\ \A id \in MayBeSet, owner \in Nat : [id |-> id, owner |-> owner] \in Account
<1>1. MayBeSet \subseteq Ids \cup {BlankId}
  BY IdsAssumption DEF MayBeSet, Ids
<1>2. \A id \in MayBeSet, owner \in Nat : [id |-> id, owner |-> owner] \in Account
  BY <1>1 DEF Account
<1> QED
  BY <1>2, IdsAssumption DEF Account, Identified

\* The values of a function on a finite set are finitely many.
LEMMA FiniteImage ==
    ASSUME NEW S, IsFiniteSet(S), NEW f
    PROVE  IsFiniteSet({f[x] : x \in S})
<1> DEFINE T == {f[x] : x \in S}
           g == [x \in S |-> f[x]]
<1>1. g \in Surjection(S, T)
  BY DEF Surjection
<1> QED
  BY <1>1, FS_Surjection

\* The search for a name that is not taken succeeds (time_ranges.go, PrepareTasks: the
\* loop without a bound ends).
LEMMA FreshIsFree ==
    ASSUME NEW used, IsFiniteSet(used), NEW i \in Nat
    PROVE  FreshId(used, i) \in Nat /\ FreshId(used, i) \notin used
<1> DEFINE last == i + Cardinality(used)
           Free == {n \in Nat : i <= n /\ n \notin used}
<1>1. Cardinality(used) \in Nat /\ last \in Nat
  BY FS_CardinalityType
<1>2. ~(i..last \subseteq used)
  <2>1. IsFiniteSet(i..last) /\ Cardinality(i..last) = Cardinality(used) + 1
    BY <1>1, FS_Interval
  <2>2. i..last \subseteq used => Cardinality(i..last) <= Cardinality(used)
    BY FS_Subset
  <2> QED
    BY <1>1, <2>1, <2>2
<1>3. PICK m \in i..last : m \notin used
  BY <1>2
<1>4. m \in Free /\ Free \in SUBSET Nat
  BY <1>1, <1>3
<1>5. PICK n \in Free : \A k \in Free : n <= k
  BY <1>4, LeastNat
<1>6. n \in Nat /\ i <= n /\ n \notin used /\ n <= m /\ n \in i..last
  BY <1>1, <1>3, <1>4, <1>5
<1>7. i..(n - 1) \subseteq used
  <2> SUFFICES ASSUME NEW k \in i..(n - 1), k \notin used PROVE FALSE
    OBVIOUS
  <2>1. k \in Nat /\ i <= k /\ k < n
    BY <1>6
  <2>2. k \in Free
    BY <2>1
  <2> QED
    BY <1>5, <1>6, <2>1, <2>2
<1>8. FreshId(used, i) \in i..last /\ FreshId(used, i) \notin used
  BY <1>6, <1>7 DEF FreshId
<1> QED
  BY <1>1, <1>8

\* Ids have been given to the first n accounts of a list.
GivesTo(list, n, given) == given = [i \in 1..n |-> GiveId(list, given, i)]

\* What is taken depends on the ids given so far only.
LEMMA UsedSoFar ==
    ASSUME NEW list, NEW i \in Nat, NEW f, NEW g, \A j \in 1..(i - 1) : f[j] = g[j]
    PROVE  GiveId(list, f, i) = GiveId(list, g, i)
<1>1. {f[j] : j \in 1..(i - 1)} = {g[j] : j \in 1..(i - 1)}
  OBVIOUS
<1>2. Used(list, f, i) = Used(list, g, i)
  BY <1>1 DEF Used
<1> QED
  BY <1>2 DEF GiveId

\* The loop gets to the end of a list of any length.
LEMMA AllAreGiven == ASSUME NEW list, NEW n \in Nat PROVE \E given : GivesTo(list, n, given)
<1> DEFINE Bad == {m \in Nat : ~\E given : GivesTo(list, m, given)}
<1> SUFFICES ASSUME Bad # {} PROVE FALSE
  OBVIOUS
<1>1. PICK m \in Bad : \A k \in Bad : m <= k
  BY LeastNat
<1>2. m \in Nat /\ ~\E given : GivesTo(list, m, given)
  BY <1>1
<1>3. ASSUME NEW k \in Nat, k < m PROVE \E given : GivesTo(list, k, given)
  BY <1>1, <1>3
<1> HIDE DEF Bad
<1>4. \E g : \A i \in 1..(m - 1) : g[i] = GiveId(list, g, i)
  <2>1. CASE m = 0
    <3>1. \A i \in 1..(m - 1) : FALSE
      BY <2>1
    <3> QED
      BY <3>1
  <2>2. CASE m # 0
    <3>1. m - 1 \in Nat /\ m - 1 < m
      BY <1>2, <2>2
    <3> QED
      BY <1>3, <3>1 DEF GivesTo
  <2> QED
    BY <2>1, <2>2
<1>5. PICK g : \A i \in 1..(m - 1) : g[i] = GiveId(list, g, i)
  BY <1>4
<1> DEFINE h == [i \in 1..m |-> GiveId(list, g, i)]
<1>6. ASSUME NEW i \in 1..m PROVE GiveId(list, g, i) = GiveId(list, h, i)
  <2>1. i \in Nat /\ \A j \in 1..(i - 1) : j \in 1..m /\ j \in 1..(m - 1)
    BY <1>2
  <2>2. \A j \in 1..(i - 1) : g[j] = h[j]
    BY <1>5, <2>1
  <2> HIDE DEF h
  <2> QED
    BY <2>1, <2>2, UsedSoFar
<1>7. GivesTo(list, m, h)
  BY <1>6 DEF GivesTo
<1> QED
  BY <1>2, <1>7

\* What PrepareTasks makes of a list: every account stays in its place and has an id,
\* its own if it came with one; and two ids are equal only if they were set to be.
LEMMA PreparedIds ==
    ASSUME NEW list \in Seq(Account)
    PROVE  /\ Prepared(list) \in Seq(Identified) /\ Len(Prepared(list)) = Len(list)
           /\ \A i \in DOMAIN list :
                 /\ Prepared(list)[i].owner = list[i].owner
                 /\ list[i].id # BlankId => Prepared(list)[i].id = list[i].id
           /\ RefusedForAReason(list)
<1> DEFINE n == Len(list)
           given == CHOOSE f : f = [i \in 1..n |-> GiveId(list, f, i)]
<1>1. n \in Nat /\ DOMAIN list = 1..n /\ \A i \in 1..n : list[i] \in Account
  OBVIOUS
<1>2. Prepared(list) = [i \in 1..n |-> [list[i] EXCEPT !.id = given[i]]]
  BY <1>1 DEF Prepared
<1>3. given = [i \in 1..n |-> GiveId(list, given, i)]
  BY <1>1, AllAreGiven DEF GivesTo
<1> HIDE DEF n, given
<1>4. \A i \in 1..n : given[i] = GiveId(list, given, i)
  BY <1>3
<1>5. ASSUME NEW i \in 1..n, list[i].id # BlankId PROVE given[i] = list[i].id /\ given[i] \in Reserved(list)
  <2>1. given[i] = list[i].id
    BY <1>4, <1>5 DEF GiveId
  <2> QED
    BY <1>1, <1>5, <2>1 DEF Reserved
<1>6. ASSUME NEW i \in 1..n, list[i].id = BlankId
      PROVE  /\ given[i] \in Nat /\ given[i] \notin Reserved(list)
             /\ \A j \in 1..(i - 1) : given[i] # given[j]
  <2> DEFINE ids == [j \in 1..n |-> list[j].id]
  <2>1. i \in Nat /\ IsFiniteSet(1..n) /\ IsFiniteSet(1..(i - 1))
    BY <1>1, FS_Interval
  <2>2. {list[j].id : j \in DOMAIN list} = {ids[j] : j \in 1..n}
    BY <1>1
  <2> HIDE DEF ids
  <2>3. IsFiniteSet({list[j].id : j \in DOMAIN list})
    BY <2>1, <2>2, FiniteImage
  <2>4. IsFiniteSet(Reserved(list))
    BY <2>3, FS_Subset DEF Reserved
  <2>5. IsFiniteSet({given[j] : j \in 1..(i - 1)})
    BY <2>1, FiniteImage
  <2>6. IsFiniteSet(Used(list, given, i))
    BY <2>4, <2>5, FS_Union DEF Used
  <2>7. given[i] = FreshId(Used(list, given, i), i)
    BY <1>4, <1>6 DEF GiveId
  <2>8. given[i] \in Nat /\ given[i] \notin Used(list, given, i)
    BY <2>1, <2>6, <2>7, FreshIsFree
  <2> QED
    BY <2>8 DEF Used
<1>7. \A i \in 1..n : given[i] \in Ids
  <2> TAKE i \in 1..n
  <2>1. CASE list[i].id = BlankId
    BY <1>6, <2>1 DEF Ids
  <2>2. CASE list[i].id # BlankId
    BY <1>1, <1>5, <2>2 DEF Account
  <2> QED
    BY <2>1, <2>2
<1>8. ASSUME NEW i \in 1..n
      PROVE  /\ Prepared(list)[i].id = given[i] /\ Prepared(list)[i].owner = list[i].owner
             /\ Prepared(list)[i] \in Identified
  BY <1>1, <1>2, <1>7 DEF Account, Identified
<1>9. Prepared(list) \in Seq(Identified) /\ Len(Prepared(list)) = n
  <2>1. Prepared(list) \in [1..n -> Identified]
    BY <1>2, <1>8
  <2> QED
    BY <1>1, <2>1
<1>10. ASSUME NEW i \in 1..n, NEW j \in 1..n, i < j, given[i] = given[j]
       PROVE  SetTwice(list)
  <2>1. i \in 1..(j - 1) /\ i # j
    BY <1>10
  <2>2. list[j].id # BlankId
    BY <1>6, <1>10, <2>1
  <2>3. list[i].id # BlankId
    BY <1>5, <1>6, <1>10, <2>2
  <2>4. list[i].id = list[j].id
    BY <1>5, <1>10, <2>2, <2>3
  <2> QED
    BY <1>1, <2>1, <2>3, <2>4 DEF SetTwice
<1>11. RefusedForAReason(list)
  <2> SUFFICES ASSUME ~SetTwice(list), NEW i \in DOMAIN Prepared(list), NEW j \in DOMAIN Prepared(list),
                      Prepared(list)[i].id = Prepared(list)[j].id
               PROVE  i = j
    BY DEF RefusedForAReason, Accepted, Distinct
  <2>1. i \in 1..n /\ j \in 1..n
    BY <1>2
  <2>2. given[i] = given[j]
    BY <1>8, <2>1
  <2>3. i < j \/ j < i \/ i = j
    BY <1>1, <2>1
  <2> QED
    BY <1>10, <2>1, <2>2, <2>3
<1>12. ASSUME NEW i \in 1..n
       PROVE  /\ Prepared(list)[i].owner = list[i].owner
              /\ list[i].id # BlankId => Prepared(list)[i].id = list[i].id
  BY <1>5, <1>8
<1> QED
  BY <1>1, <1>9, <1>11, <1>12 DEF n

\* Whatever is made of a list in the panel or in the file, by any number of additions,
\* removals and moves: the next load or update refuses it only for ids that were set
\* twice, and gives every account that stays the id it had.
THEOREM EditsKeepIds ==
    ASSUME NEW before \in Seq(Account), NEW edited \in Seq(Account),
           \A i, j \in DOMAIN before : before[i].owner = before[j].owner => i = j,
           \A j \in DOMAIN edited :
               \/ \E i \in DOMAIN before : edited[j] = Prepared(before)[i]
               \/ \A i \in DOMAIN before : edited[j].owner # before[i].owner
    PROVE  RefusedForAReason(edited) /\ SameIds(Prepared(before), Prepared(edited))
<1>1. RefusedForAReason(edited)
  BY PreparedIds
<1>2. /\ DOMAIN Prepared(before) = DOMAIN before /\ DOMAIN Prepared(edited) = DOMAIN edited
      /\ \A i \in DOMAIN before :
            Prepared(before)[i] \in Identified /\ Prepared(before)[i].owner = before[i].owner
  <2>1. /\ Prepared(before) \in Seq(Identified) /\ Len(Prepared(before)) = Len(before)
        /\ Prepared(edited) \in Seq(Identified) /\ Len(Prepared(edited)) = Len(edited)
    BY PreparedIds
  <2>2. \A i \in DOMAIN before : Prepared(before)[i] \in Identified
    BY <2>1
  <2> QED
    BY <2>1, <2>2, PreparedIds
<1>3. SameIds(Prepared(before), Prepared(edited))
  <2> SUFFICES ASSUME NEW i \in DOMAIN before, NEW j \in DOMAIN edited,
                      Prepared(before)[i].owner = Prepared(edited)[j].owner
               PROVE  Prepared(before)[i].id = Prepared(edited)[j].id
    BY <1>2 DEF SameIds
  <2>1. edited[j].owner = before[i].owner
    BY <1>2, PreparedIds
  <2>2. PICK k \in DOMAIN before : edited[j] = Prepared(before)[k]
    BY <2>1
  <2>3. before[k].owner = before[i].owner
    BY <1>2, <2>1, <2>2
  <2>4. k = i
    BY <2>3
  <2>5. edited[j].id = Prepared(before)[i].id /\ edited[j].id # BlankId
    BY <1>2, <2>2, <2>4, SomeAreIdentified
  <2> QED
    BY <2>5, PreparedIds
<1> QED
  BY <1>1, <1>3

\* A single edit adds an account, or has no other accounts than before.
LEMMA EditsAreEdits ==
    ASSUME NEW list \in Seq(Identified), NEW edited \in Edits(list)
    PROVE  /\ edited \in Seq(Account)
           /\ \A j \in DOMAIN edited :
                 edited[j].owner = Len(list) + 1 \/ \E i \in DOMAIN list : edited[j] = list[i]
<1> DEFINE n == Len(list)
<1>1. n \in Nat /\ DOMAIN list = 1..n /\ \A i \in 1..n : list[i] \in Account
  BY SomeAreIdentified
<1>2. list \in Seq(Account)
  BY <1>1
<1>3. ASSUME NEW i \in 1..(n + 1), NEW id \in MayBeSet,
             edited = InsertAt(list, i, [id |-> id, owner |-> n + 1])
      PROVE  /\ edited \in Seq(Account)
             /\ \A j \in DOMAIN edited : edited[j].owner = n + 1 \/ \E k \in 1..n : edited[j] = list[k]
  <2> DEFINE new == [id |-> id, owner |-> n + 1]
             left == SubSeq(list, 1, i - 1)
             right == SubSeq(list, i, n)
  <2>1. new \in Account /\ new.owner = n + 1
    BY <1>1, SomeAreIdentified
  <2>2. /\ left \in Seq(Account) /\ Len(left) = i - 1 /\ \A k \in 1..(i - 1) : left[k] = list[k]
        /\ right \in Seq(Account) /\ Len(right) = n - i + 1
        /\ \A k \in 1..(n - i + 1) : right[k] = list[i + k - 1]
    BY <1>1, <1>2
  <2>3. edited = left \o <<new>> \o right
    BY <1>3 DEF InsertAt
  <2> HIDE DEF new, left, right
  <2>4. edited \in Seq(Account) /\ Len(edited) = n + 1
    <3>1. left \o <<new>> \in Seq(Account) /\ Len(left \o <<new>>) = i
      BY <1>1, <2>1, <2>2
    <3>2. edited \in Seq(Account) /\ Len(edited) = i + Len(right)
      BY <2>2, <2>3, <3>1, ConcatProperties
    <3> QED
      BY <1>1, <2>2, <3>2
  <2>5. ASSUME NEW j \in 1..(n + 1)
        PROVE  edited[j].owner = n + 1 \/ \E k \in 1..n : edited[j] = list[k]
    <3>1. CASE j < i
      <4>1. edited[j] = left[j] /\ j \in 1..(i - 1) /\ j \in 1..n
        BY <1>1, <2>1, <2>2, <2>3, <3>1
      <4> QED
        BY <2>2, <4>1
    <3>2. CASE j = i
      <4>1. edited[j] = new
        BY <1>1, <2>1, <2>2, <2>3, <3>2
      <4> QED
        BY <2>1, <4>1
    <3>3. CASE j > i
      <4>1. edited[j] = right[j - i] /\ j - i \in 1..(n - i + 1) /\ j - 1 \in 1..n
        BY <1>1, <2>1, <2>2, <2>3, <3>3
      <4>2. edited[j] = list[j - 1]
        BY <1>1, <2>2, <4>1
      <4> QED
        BY <4>1, <4>2
    <3> QED
      BY <1>1, <3>1, <3>2, <3>3
  <2> QED
    BY <2>4, <2>5
<1>4. ASSUME NEW i \in DOMAIN list, edited = RemoveAt(list, i)
      PROVE  /\ edited \in Seq(Account)
             /\ \A j \in DOMAIN edited : \E k \in 1..n : edited[j] = list[k]
  <2> DEFINE left == SubSeq(list, 1, i - 1)
             right == SubSeq(list, i + 1, n)
  <2>0. i \in 1..n
    BY <1>1
  <2>1. /\ left \in Seq(Account) /\ Len(left) = i - 1 /\ \A k \in 1..(i - 1) : left[k] = list[k]
        /\ right \in Seq(Account) /\ Len(right) = n - i
        /\ \A k \in 1..(n - i) : right[k] = list[i + k]
    <3>1. left \in Seq(Account) /\ Len(left) = i - 1 /\ \A k \in 1..(i - 1) : left[k] = list[k]
      BY <1>1, <1>2, <2>0
    <3>2. right \in Seq(Account) /\ Len(right) = n - i /\ \A k \in 1..(n - i) : right[k] = list[i + k]
      BY <1>1, <1>2, <2>0
    <3> QED
      BY <3>1, <3>2
  <2>2. edited = left \o right
    BY <1>4 DEF RemoveAt
  <2> HIDE DEF left, right
  <2>3. edited \in Seq(Account) /\ Len(edited) = n - 1
    <3>1. edited \in Seq(Account) /\ Len(edited) = Len(left) + Len(right)
      BY <2>1, <2>2, ConcatProperties
    <3> QED
      BY <1>1, <2>1, <3>1
  <2>4. ASSUME NEW j \in 1..(n - 1) PROVE \E k \in 1..n : edited[j] = list[k]
    <3>1. CASE j < i
      <4>1. edited[j] = left[j] /\ j \in 1..(i - 1) /\ j \in 1..n
        BY <1>1, <2>1, <2>2, <3>1
      <4> QED
        BY <2>1, <4>1
    <3>2. CASE j >= i
      <4>1. edited[j] = right[j - i + 1] /\ j - i + 1 \in 1..(n - i) /\ j + 1 \in 1..n
        BY <1>1, <2>1, <2>2, <3>2
      <4>2. right[j - i + 1] = list[i + (j - i + 1)] /\ i + (j - i + 1) = j + 1
        BY <1>1, <2>1, <4>1
      <4> QED
        BY <4>1, <4>2
    <3> QED
      BY <1>1, <3>1, <3>2
  <2> QED
    BY <2>3, <2>4
<1>5. ASSUME NEW i \in DOMAIN list, edited = [list EXCEPT ![1] = list[i], ![i] = list[1]]
      PROVE  /\ edited \in Seq(Account)
             /\ \A j \in DOMAIN edited : \E k \in 1..n : edited[j] = list[k]
  <2>1. 1 \in 1..n /\ i \in 1..n
    BY <1>1
  <2>2. /\ edited \in [1..n -> Account]
        /\ \A j \in 1..n : edited[j] = list[i] \/ edited[j] = list[1] \/ edited[j] = list[j]
    BY <1>1, <1>5, <2>1
  <2> QED
    BY <1>1, <2>1, <2>2
<1>6. \/ \E i \in 1..(n + 1), id \in MayBeSet : edited = InsertAt(list, i, [id |-> id, owner |-> n + 1])
      \/ \E i \in DOMAIN list : edited = RemoveAt(list, i)
      \/ \E i \in DOMAIN list : edited = [list EXCEPT ![1] = list[i], ![i] = list[1]]
  BY DEF Edits, Additions
<1> HIDE DEF n
<1> QED
  BY <1>1, <1>3, <1>4, <1>5, <1>6 DEF n

\* The account in each place gets an id, and keeps it (PrepareTasks, LoadManager), for
\* a list of any length.
THEOREM NoIdsConfused ==
    ASSUME NEW n \in Nat, NEW ids \in [1..n -> MayBeSet]
    PROVE  RefusedForAReason(Owned(ids)) /\ KeepsIds(Owned(ids))
<1> DEFINE list == Owned(ids)
<1>1. list \in Seq(Account) /\ Len(list) = n /\ \A i \in DOMAIN list : list[i].owner = i
  <2>1. list = [i \in 1..n |-> [id |-> ids[i], owner |-> i]]
    BY DEF Owned
  <2>2. \A i \in 1..n : i \in Nat /\ ids[i] \in MayBeSet
    OBVIOUS
  <2>3. \A i \in 1..n : list[i].owner = i /\ list[i] \in Account
    BY <2>1, <2>2, SomeAreIdentified
  <2>4. list \in [1..n -> Account]
    BY <2>1, <2>3
  <2> HIDE DEF list
  <2> QED
    BY <2>3, <2>4
<1> HIDE DEF list
<1>2. /\ Kept(list) \in Seq(Identified) /\ Len(Kept(list)) = n
      /\ DOMAIN Kept(list) = DOMAIN list
  BY <1>1, PreparedIds DEF Kept
<1>3. ASSUME NEW edited \in Edits(Kept(list))
      PROVE  RefusedForAReason(edited) /\ SameIds(Prepared(list), Prepared(edited))
  <2>1. edited \in Seq(Account)
    BY <1>2, EditsAreEdits
  <2>2. ASSUME NEW j \in DOMAIN edited
        PROVE  \/ \E i \in DOMAIN list : edited[j] = Prepared(list)[i]
               \/ \A i \in DOMAIN list : edited[j].owner # list[i].owner
    <3>1. edited[j].owner = Len(Kept(list)) + 1 \/ \E i \in DOMAIN Kept(list) : edited[j] = Kept(list)[i]
      BY <1>2, EditsAreEdits
    <3>2. edited[j].owner = n + 1 \/ \E i \in DOMAIN list : edited[j] = Prepared(list)[i]
      BY <1>2, <3>1 DEF Kept
    <3>3. \A i \in DOMAIN list : list[i].owner # n + 1
      BY <1>1
    <3> QED
      BY <3>2, <3>3
  <2> QED
    BY <1>1, <2>1, <2>2, EditsKeepIds
<1>4. RefusedForAReason(list)
  BY <1>1, PreparedIds
<1> QED
  BY <1>3, <1>4 DEF KeepsIds, list

\* ... whatever ids are entered.
THEOREM IdsStayKept == Spec => []IdsAreKept
<1>1. Confused = {}
  <2> SUFFICES ASSUME NEW ids \in Entered
               PROVE  RefusedForAReason(Owned(ids)) /\ KeepsIds(Owned(ids))
    BY DEF Confused
  <2>1. PICK n \in 0..MaxTasks : ids \in [1..n -> MayBeSet]
    BY DEF Entered
  <2>2. n \in Nat
    BY <2>1, IdsAssumption
  <2> QED
    BY <2>1, <2>2, NoIdsConfused
<1>2. IdsAreKept
  BY <1>1 DEF IdsAreKept
<1> QED
  BY <1>2, PTL
=============================================================================
