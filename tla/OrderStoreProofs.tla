-------------------------- MODULE OrderStoreProofs --------------------------
(* Proofs about OrderStore: for a table of any capacity, any number of ids,  *)
(* and any hosts.                                                            *)
EXTENDS OrderStore, SequenceTheorems, TLAPS

-----------------------------------------------------------------------------
(* The tables: in memory, in the snapshot, in the file.                      *)

Sorted(t) == \A i, j \in DOMAIN t : i < j => t[i].id < t[j].id

IsTable(t) == t \in Seq(Rec) /\ Len(t) <= MaxRecs /\ Sorted(t)

UpTo(t, n) == \A i \in DOMAIN t : t[i].id <= n

\* A record of a table can be looked up, and its fields have their types.
LEMMA TableElement ==
    ASSUME NEW t, IsTable(t), NEW i \in DOMAIN t
    PROVE  /\ DOMAIN t = 1..Len(t) /\ Len(t) \in Nat
           /\ t[i] \in Rec /\ t[i].id \in 1..MaxId /\ t[i].status \in Statuses
<1>1. DOMAIN t = 1..Len(t) /\ Len(t) \in Nat /\ t[i] \in Rec
  BY LenProperties, ElementOfSeq DEF IsTable
<1> QED
  BY <1>1 DEF Rec

\* A table is never longer than its capacity, so that reading it back trims nothing.
LEMMA TableIsNotTrimmed == ASSUME NEW t, IsTable(t) PROVE Trim(t) = t
  BY LenProperties, MaxRecsAssumption DEF IsTable, Trim

\* Update and SetResult address one record: ids are not repeated.
LEMMA NewestIsTheOne ==
    ASSUME NEW t, IsTable(t), NEW i \in DOMAIN t
    PROVE  Newest(t, t[i].id) = i
<1>1. \A j \in DOMAIN t : t[j].id = t[i].id => j = i
  BY TableElement DEF IsTable, Sorted
<1>2. i \in DOMAIN t /\ t[i].id = t[i].id /\ \A j \in DOMAIN t : t[j].id = t[i].id => j <= i
  BY <1>1, TableElement
<1> QED
  BY <1>1, <1>2 DEF Newest

\* A new record with a larger id is put behind the others, and the oldest one makes
\* room for it when the table is full.
LEMMA PushEffect ==
    ASSUME NEW t, IsTable(t), NEW r \in Rec, \A i \in DOMAIN t : t[i].id < r.id
    PROVE  /\ IsTable(Push(t, r))
           /\ Len(t) < MaxRecs =>
                /\ Len(Push(t, r)) = Len(t) + 1
                /\ \A i \in 1..Len(t) : Push(t, r)[i] = t[i]
                /\ Push(t, r)[Len(t) + 1] = r
           /\ Len(t) = MaxRecs =>
                /\ Len(Push(t, r)) = MaxRecs
                /\ \A i \in 1..(MaxRecs - 1) : Push(t, r)[i] = t[i + 1]
                /\ Push(t, r)[MaxRecs] = r
<1> DEFINE a == Append(t, r)
           p == Push(t, r)
<1>1. /\ t \in Seq(Rec) /\ Len(t) \in Nat /\ DOMAIN t = 1..Len(t) /\ Len(t) <= MaxRecs
      /\ MaxRecs \in Nat \ {0}
  BY LenProperties, MaxRecsAssumption DEF IsTable
<1>2. /\ a \in Seq(Rec) /\ Len(a) = Len(t) + 1
      /\ \A i \in 1..Len(t) : a[i] = t[i]
      /\ a[Len(t) + 1] = r
  BY <1>1, AppendProperties
<1>3. DOMAIN a = 1..(Len(t) + 1) /\ \A i \in 1..(Len(t) + 1) : a[i] \in Rec
  BY <1>2, LenProperties, ElementOfSeq
<1>4. \A i, j \in 1..(Len(t) + 1) : i < j => a[i].id < a[j].id
  <2> SUFFICES ASSUME NEW i \in 1..(Len(t) + 1), NEW j \in 1..(Len(t) + 1), i < j
               PROVE a[i].id < a[j].id
    OBVIOUS
  <2>1. i \in 1..Len(t) /\ a[i] = t[i]
    BY <1>1, <1>2
  <2>2. CASE j = Len(t) + 1
    BY <1>1, <1>2, <2>1, <2>2
  <2>3. CASE j \in 1..Len(t)
    BY <1>1, <1>2, <2>1, <2>3 DEF IsTable, Sorted
  <2> QED
    BY <1>1, <2>2, <2>3
<1> HIDE DEF a
<1>5. CASE Len(t) < MaxRecs
  <2>1. p = a
    BY <1>1, <1>2, <1>5 DEF Push, Trim, a
  <2>2. IsTable(p)
    BY <1>1, <1>2, <1>3, <1>4, <1>5, <2>1 DEF IsTable, Sorted
  <2>3. Len(p) = Len(t) + 1 /\ (\A i \in 1..Len(t) : p[i] = t[i]) /\ p[Len(t) + 1] = r
    BY <1>2, <2>1
  <2>4. Len(t) # MaxRecs
    BY <1>1, <1>5
  <2> HIDE DEF p
  <2>5. /\ IsTable(p)
        /\ Len(t) < MaxRecs => /\ Len(p) = Len(t) + 1
                               /\ \A i \in 1..Len(t) : p[i] = t[i]
                               /\ p[Len(t) + 1] = r
    BY <2>2, <2>3
  <2> QED
    BY <2>4, <2>5 DEF p
<1>6. CASE Len(t) = MaxRecs
  <2>1. p = SubSeq(a, 2, MaxRecs + 1)
    BY <1>1, <1>2, <1>6 DEF Push, Trim, a
  <2>2. \A i \in 2..(MaxRecs + 1) : a[i] \in Rec
    BY <1>1, <1>3, <1>6
  <2>3. /\ p \in Seq(Rec) /\ Len(p) = MaxRecs
        /\ \A i \in 1..MaxRecs : p[i] = a[i + 1]
    <3>1. /\ p \in Seq(Rec) /\ Len(p) = IF 2 <= MaxRecs + 1 THEN MaxRecs + 1 - 2 + 1 ELSE 0
          /\ \A i \in 1..(MaxRecs + 1 - 2 + 1) : p[i] = a[2 + i - 1]
      BY <1>1, <2>1, <2>2, SubSeqProperties
    <3> QED
      BY <1>1, <3>1
  <2>4. DOMAIN p = 1..MaxRecs
    BY <2>3, LenProperties
  <2>5. Sorted(p)
    BY <1>1, <1>4, <1>6, <2>3, <2>4 DEF Sorted
  <2>6. (\A i \in 1..(MaxRecs - 1) : p[i] = t[i + 1]) /\ p[MaxRecs] = r
    BY <1>1, <1>2, <1>6, <2>3
  <2> QED
    BY <1>1, <1>6, <2>3, <2>5, <2>6 DEF IsTable
<1>7. Len(t) < MaxRecs \/ Len(t) = MaxRecs
  <2> DEFINE n == Len(t)
  <2>1. n \in Nat /\ MaxRecs \in Nat /\ n <= MaxRecs
    BY <1>1
  <2> HIDE DEF n
  <2>2. n < MaxRecs \/ n = MaxRecs
    BY <2>1, SMT
  <2> QED
    BY <2>2 DEF n
<1> QED
  BY <1>5, <1>6, <1>7

\* The table u is t after an update: the same ids at the same places, and another
\* status at most where the id is one of those updated.
Amends(t, u, ids) ==
    /\ IsTable(u)
    /\ Len(u) = Len(t) /\ DOMAIN u = DOMAIN t
    /\ \A i \in DOMAIN t : u[i].id = t[i].id /\ (t[i].id \notin ids => u[i].status = t[i].status)

\* Replacing a record by one with its id keeps the table a table.
LEMMA ReplaceRecord ==
    ASSUME NEW t, IsTable(t), NEW k \in DOMAIN t, NEW r \in Rec, r.id = t[k].id
    PROVE  /\ IsTable([t EXCEPT ![k] = r])
           /\ Len([t EXCEPT ![k] = r]) = Len(t) /\ DOMAIN [t EXCEPT ![k] = r] = DOMAIN t
           /\ \A i \in DOMAIN t : [t EXCEPT ![k] = r][i] = IF i = k THEN r ELSE t[i]
<1> DEFINE u == [t EXCEPT ![k] = r]
<1>1. t \in Seq(Rec) /\ DOMAIN t = 1..Len(t) /\ Len(t) \in Nat /\ Len(t) <= MaxRecs
  BY LenProperties DEF IsTable
<1>2. u \in Seq(Rec) /\ Len(u) = Len(t) /\ \A i \in 1..Len(t) : u[i] = IF i = k THEN r ELSE t[i]
  BY <1>1, ExceptSeq
<1>3. DOMAIN u = DOMAIN t
  BY <1>1, <1>2, LenProperties
<1> HIDE DEF u
<1>4. \A i \in DOMAIN t : u[i].id = t[i].id
  BY <1>1, <1>2
<1>5. IsTable(u)
  BY <1>1, <1>2, <1>3, <1>4 DEF IsTable, Sorted
<1> QED
  BY <1>1, <1>2, <1>3, <1>5 DEF u

\* Update changes the status of the one record it is called for, or nothing.
LEMMA StatusEffect ==
    ASSUME NEW t, IsTable(t), NEW id, NEW status \in Statuses
    PROVE  /\ Amends(t, SetStatus(t, id, status), {id})
           /\ \A i \in DOMAIN t : t[i].id = id => SetStatus(t, id, status)[i].status = status
           /\ id \notin IdsOf(t) => SetStatus(t, id, status) = t
<1>1. CASE id \in IdsOf(t)
  <2>1. PICK k \in DOMAIN t : t[k].id = id
    BY <1>1 DEF IdsOf
  <2> DEFINE r == [t[k] EXCEPT !.status = status]
  <2>2. r \in Rec /\ r.id = id /\ r.status = status
    BY <2>1, TableElement DEF Rec
  <2>3. SetStatus(t, id, status) = [t EXCEPT ![k] = r]
    BY <1>1, <2>1, NewestIsTheOne DEF SetStatus
  <2>4. \A i \in DOMAIN t : t[i].id = id => i = k
    BY <2>1, NewestIsTheOne
  <2> HIDE DEF r
  <2> DEFINE u == [t EXCEPT ![k] = r]
  <2>5. /\ IsTable(u) /\ Len(u) = Len(t) /\ DOMAIN u = DOMAIN t
        /\ \A i \in DOMAIN t : u[i] = IF i = k THEN r ELSE t[i]
    BY <2>1, <2>2, ReplaceRecord
  <2> HIDE DEF u
  <2>6. Amends(t, u, {id}) /\ \A i \in DOMAIN t : t[i].id = id => u[i].status = status
    BY <2>1, <2>2, <2>4, <2>5 DEF Amends
  <2> QED
    BY <1>1, <2>3, <2>6 DEF u
<1>2. CASE id \notin IdsOf(t)
  BY <1>2 DEF SetStatus, IdsOf, Amends
<1> QED
  BY <1>1, <1>2

\* SetResult changes no status, and nothing when the record is gone.
LEMMA ResultEffect ==
    ASSUME NEW t, IsTable(t), NEW id, NEW result \in Results
    PROVE  /\ Amends(t, SetResultOf(t, id, result), {})
           /\ id \notin IdsOf(t) => SetResultOf(t, id, result) = t
<1>1. CASE id \in IdsOf(t)
  <2>1. PICK k \in DOMAIN t : t[k].id = id
    BY <1>1 DEF IdsOf
  <2> DEFINE r == [t[k] EXCEPT !.result = result]
  <2>2. r \in Rec /\ r.id = t[k].id /\ r.status = t[k].status
    BY <2>1, TableElement DEF Rec
  <2>3. SetResultOf(t, id, result) = [t EXCEPT ![k] = r]
    BY <1>1, <2>1, NewestIsTheOne DEF SetResultOf
  <2> HIDE DEF r
  <2> DEFINE u == [t EXCEPT ![k] = r]
  <2>4. /\ IsTable(u) /\ Len(u) = Len(t) /\ DOMAIN u = DOMAIN t
        /\ \A i \in DOMAIN t : u[i] = IF i = k THEN r ELSE t[i]
    BY <2>1, <2>2, ReplaceRecord
  <2> HIDE DEF u
  <2>5. Amends(t, u, {})
    BY <2>1, <2>2, <2>4 DEF Amends
  <2> QED
    BY <1>1, <2>3, <2>5 DEF u
<1>2. CASE id \notin IdsOf(t)
  BY <1>2 DEF SetResultOf, IdsOf, Amends
<1> QED
  BY <1>1, <1>2

\* load numbers the next order after the newest record: the last one of the table.
LEMMA LargestIdEffect ==
    ASSUME NEW t, IsTable(t)
    PROVE  LargestId(t) \in 0..MaxId /\ UpTo(t, LargestId(t))
<1>1. CASE t = <<>>
  BY <1>1, StoreAssumption DEF LargestId, UpTo
<1>2. CASE t # <<>>
  <2>1. DOMAIN t = 1..Len(t) /\ Len(t) \in Nat \ {0}
    BY <1>2, LenProperties, EmptySeq DEF IsTable
  <2>2. Len(t) \in DOMAIN t /\ t[Len(t)].id \in IdsOf(t)
    BY <2>1 DEF IdsOf
  <2>3. \A i \in DOMAIN t : t[i].id \in 1..MaxId /\ t[i].id <= t[Len(t)].id
    <3> SUFFICES ASSUME NEW i \in DOMAIN t
                 PROVE t[i].id \in 1..MaxId /\ t[i].id <= t[Len(t)].id
      OBVIOUS
    <3>1. t[i].id \in 1..MaxId /\ t[Len(t)].id \in 1..MaxId
      BY <2>2, TableElement
    <3>2. i < Len(t) \/ i = Len(t)
      BY <2>1
    <3> QED
      BY <2>2, <3>1, <3>2, StoreAssumption DEF IsTable, Sorted
  <2>4. \A m \in IdsOf(t) : m <= t[Len(t)].id
    BY <2>3 DEF IdsOf
  <2>5. LargestId(t) \in IdsOf(t) /\ \A m \in IdsOf(t) : m <= LargestId(t)
    BY <1>2, <2>2, <2>4 DEF LargestId
  <2> QED
    BY <2>3, <2>5, StoreAssumption DEF IdsOf, UpTo
<1> QED
  BY <1>1, <1>2

-----------------------------------------------------------------------------
(* What one table keeps of another.                                          *)

\* The orders in the set are still running: no record says that they ended.
ClosedIn(t, ids) == \A i \in DOMAIN t : t[i].status \in FinalStatuses => t[i].id \notin ids

\* A finished order of s is in t with its status, or t is full of newer orders.
Kept(s, t) ==
    \A i \in DOMAIN s : s[i].status \in FinalStatuses =>
        \/ \E j \in DOMAIN t : t[j].id = s[i].id /\ t[j].status = s[i].status
        \/ Len(t) = MaxRecs /\ \A j \in DOMAIN t : t[j].id > s[i].id

\* Which records are in the table after a Push: the new one and the old ones, but
\* not the oldest one of a full table.
LEMMA PushKeeps ==
    ASSUME NEW t, IsTable(t), NEW r \in Rec, \A i \in DOMAIN t : t[i].id < r.id
    PROVE  /\ IsTable(Push(t, r))
           /\ Len(t) = MaxRecs => Len(Push(t, r)) = MaxRecs
           /\ \A i \in DOMAIN t :
                \/ \E j \in DOMAIN Push(t, r) : Push(t, r)[j] = t[i]
                \/ Len(t) = MaxRecs /\ i = 1
           /\ \A j \in DOMAIN Push(t, r) :
                \/ Push(t, r)[j] = r
                \/ \E i \in DOMAIN t : Push(t, r)[j] = t[i] /\ (Len(t) = MaxRecs => i # 1)
<1> DEFINE p == Push(t, r)
           n == Len(t)
           m == Len(p)
<1>1. /\ IsTable(p)
      /\ n < MaxRecs => /\ m = n + 1
                        /\ \A i \in 1..n : p[i] = t[i]
                        /\ p[n + 1] = r
      /\ n = MaxRecs => /\ m = MaxRecs
                        /\ \A i \in 1..(MaxRecs - 1) : p[i] = t[i + 1]
                        /\ p[MaxRecs] = r
  BY PushEffect
<1>2. /\ DOMAIN p = 1..m /\ m \in Nat
      /\ DOMAIN t = 1..n /\ n \in Nat /\ n <= MaxRecs
      /\ MaxRecs \in Nat \ {0}
  BY <1>1, LenProperties, MaxRecsAssumption DEF IsTable
<1> HIDE DEF p, n, m
<1>3. CASE n # MaxRecs
  <2>1. n < MaxRecs
    BY <1>2, <1>3
  <2>2. \A i \in DOMAIN t : i \in DOMAIN p /\ p[i] = t[i]
    BY <1>1, <1>2, <2>1
  <2>3. \A j \in DOMAIN p : p[j] = r \/ (j \in DOMAIN t /\ p[j] = t[j])
    BY <1>1, <1>2, <2>1
  <2> QED
    BY <1>1, <1>3, <2>2, <2>3 DEF n, p
<1>4. CASE n = MaxRecs
  <2>1. \A i \in DOMAIN t : i = 1 \/ (i - 1 \in DOMAIN p /\ p[i - 1] = t[i])
    BY <1>1, <1>2, <1>4
  <2>2. \A j \in DOMAIN p : p[j] = r \/ (j + 1 \in DOMAIN t /\ j + 1 # 1 /\ p[j] = t[j + 1])
    BY <1>1, <1>2, <1>4
  <2> QED
    BY <1>1, <1>4, <2>1, <2>2 DEF n, m, p
<1> QED
  BY <1>3, <1>4

\* A new order pushes out only the oldest record of a full table.
LEMMA KeptByPush ==
    ASSUME NEW s, IsTable(s), NEW t, IsTable(t), NEW r \in Rec,
           \A i \in DOMAIN t : t[i].id < r.id, \A i \in DOMAIN s : s[i].id < r.id,
           Kept(s, t)
    PROVE  Kept(s, Push(t, r))
<1> DEFINE p == Push(t, r)
<1>1. /\ IsTable(p)
      /\ Len(t) = MaxRecs => Len(p) = MaxRecs
      /\ \A i \in DOMAIN t : \/ \E j \in DOMAIN p : p[j] = t[i]
                             \/ Len(t) = MaxRecs /\ i = 1
      /\ \A j \in DOMAIN p : \/ p[j] = r
                             \/ \E i \in DOMAIN t : p[j] = t[i] /\ (Len(t) = MaxRecs => i # 1)
  BY PushKeeps
<1> HIDE DEF p
<1>2. ASSUME NEW i \in DOMAIN s, s[i].status \in FinalStatuses
      PROVE  \/ \E j \in DOMAIN p : p[j].id = s[i].id /\ p[j].status = s[i].status
             \/ Len(p) = MaxRecs /\ \A j \in DOMAIN p : p[j].id > s[i].id
  <2>1. /\ s[i].id \in 1..MaxId /\ r.id \in 1..MaxId /\ r.id > s[i].id
        /\ \A j \in DOMAIN t : t[j].id \in 1..MaxId
        /\ MaxId \in Nat
    BY TableElement, StoreAssumption DEF Rec
  <2>2. CASE Len(t) = MaxRecs /\ \A j \in DOMAIN t \ {1} : t[j].id > s[i].id
    BY <1>1, <2>1, <2>2
  <2>3. ASSUME NEW j \in DOMAIN t, t[j].id = s[i].id, t[j].status = s[i].status,
               Len(t) = MaxRecs, j = 1
        PROVE  \A k \in DOMAIN t \ {1} : t[k].id > s[i].id
    <3> SUFFICES ASSUME NEW k \in DOMAIN t \ {1} PROVE s[i].id < t[k].id
      BY <2>1
    <3>1. DOMAIN t = 1..Len(t)
      BY LenProperties DEF IsTable
    <3>2. 1 < k
      BY <3>1
    <3> QED
      BY <2>3, <3>2 DEF IsTable, Sorted
  <2>4. CASE \E j \in DOMAIN t : t[j].id = s[i].id /\ t[j].status = s[i].status
    <3>1. PICK j \in DOMAIN t : t[j].id = s[i].id /\ t[j].status = s[i].status
      BY <2>4
    <3>2. CASE \E k \in DOMAIN p : p[k] = t[j]
      BY <3>1, <3>2
    <3>3. CASE Len(t) = MaxRecs /\ j = 1
      BY <2>2, <2>3, <3>1, <3>3
    <3> QED
      BY <1>1, <3>2, <3>3
  <2> QED
    BY <1>2, <2>2, <2>4 DEF Kept
<1> QED
  BY <1>2 DEF Kept, p

\* An update reaches only orders that are still running, never one that finished.
LEMMA KeptByAmends ==
    ASSUME NEW s, NEW t, NEW u, NEW ids, Amends(t, u, ids), Kept(s, t), ClosedIn(s, ids)
    PROVE  Kept(s, u)
<1> SUFFICES ASSUME NEW i \in DOMAIN s, s[i].status \in FinalStatuses
             PROVE \/ \E j \in DOMAIN u : u[j].id = s[i].id /\ u[j].status = s[i].status
                   \/ Len(u) = MaxRecs /\ \A j \in DOMAIN u : u[j].id > s[i].id
  BY DEF Kept
<1>1. s[i].id \notin ids
  BY DEF ClosedIn
<1>2. CASE \E j \in DOMAIN t : t[j].id = s[i].id /\ t[j].status = s[i].status
  BY <1>1, <1>2 DEF Amends
<1>3. CASE Len(t) = MaxRecs /\ \A j \in DOMAIN t : t[j].id > s[i].id
  BY <1>3 DEF Amends
<1> QED
  BY <1>2, <1>3 DEF Kept

\* A copy keeps everything.
LEMMA KeptByCopy == ASSUME NEW t PROVE Kept(t, t)
  BY DEF Kept

-----------------------------------------------------------------------------
(* The tables of the store.                                                  *)

Tables == IsTable(recs) /\ IsTable(bytes) /\ IsTable(file.recs) /\ IsTable(saved)

\* The ids of the table and of the running orders were all issued.
Issued == UpTo(recs, seq) /\ \A id \in open : id <= seq

\* A dead process leaves nothing but the file.
Down == mode = "down" =>
    recs = <<>> /\ seq = 0 /\ dirty = FALSE /\ writer = "idle" /\ open = {}

TableInv == TypeOK /\ Tables /\ Issued /\ ClosedIn(recs, open) /\ Down

LEMMA EmptyTable == IsTable(<<>>) /\ \A n, ids : UpTo(<<>>, n) /\ ClosedIn(<<>>, ids)
  BY EmptySeq, MaxRecsAssumption DEF IsTable, Sorted, UpTo, ClosedIn

LEMMA FileOf ==
    ASSUME NEW b \in BOOLEAN, NEW t \in Seq(Rec)
    PROVE  [readable |-> b, recs |-> t] \in [readable : BOOLEAN, recs : Seq(Rec)]
  OBVIOUS

\* load gives the table of the file, or an empty one.
LEMMA LoadEffect ==
    ASSUME IsTable(file.recs)
    PROVE  /\ IsTable(Loaded) /\ LargestId(Loaded) \in 0..MaxId
           /\ UpTo(Loaded, LargestId(Loaded))
           /\ file.readable => Loaded = file.recs
<1>1. IsTable(Loaded) /\ (file.readable => Loaded = file.recs)
  BY EmptyTable, TableIsNotTrimmed DEF Loaded
<1> QED
  BY <1>1, LargestIdEffect

\* The table starts empty.
LEMMA TableInvInit == Init => TableInv
<1> SUFFICES ASSUME Init PROVE TableInv
  OBVIOUS
<1>1. <<>> \in Seq(Rec) /\ Len(<<>>) <= MaxRecs
  BY EmptyTable DEF IsTable
<1>2. Tables /\ UpTo(recs, seq) /\ ClosedIn(recs, open)
  BY EmptyTable DEF Init, Tables
<1>3. TypeOK
  <2>1. /\ host \in Hosts /\ dirty \in BOOLEAN
        /\ writer \in {"idle", "temp", "inplace"} /\ open \subseteq 1..MaxId
        /\ mode \in {"up", "closing", "closed", "down"}
    BY DEF Init
  <2>4. 0 \in 0..MaxId
    BY StoreAssumption
  <2>5. seq \in 0..MaxId
    BY <2>4 DEF Init
  <2>2. recs \in Seq(Rec) /\ Len(recs) <= MaxRecs /\ bytes \in Seq(Rec) /\ saved \in Seq(Rec)
    BY <1>1 DEF Init
  <2>3. file \in [readable : BOOLEAN, recs : Seq(Rec)]
    BY <1>1, FileOf DEF Init
  <2> QED
    BY <2>1, <2>2, <2>3, <2>5 DEF TypeOK
<1> QED
  BY <1>2, <1>3 DEF TableInv, Issued, Down, Init

\* No new order, update, write, crash or restart disturbs the order of the table.
LEMMA TableInvStep == TableInv /\ [Next]_vars => TableInv'
<1> SUFFICES ASSUME TableInv, [Next]_vars PROVE TableInv'
  OBVIOUS
<1> USE DEF TableInv
<1>0. /\ MaxId \in Nat /\ Outcomes \subseteq FinalStatuses /\ SetResults \subseteq Results
      /\ FinalStatuses \subseteq Statuses /\ "retrying" \in Statuses \ FinalStatuses
  BY StoreAssumption DEF Statuses, FinalStatuses
<1>1. CASE Begin
  <2> DEFINE r == [id |-> seq + 1, status |-> "pending", result |-> "none"]
  <2>1. /\ r \in Rec /\ r.id = seq + 1 /\ r.status = "pending" /\ r.status \notin FinalStatuses
        /\ seq \in Nat /\ seq' = seq + 1 /\ seq' \in 0..MaxId
    BY <1>0, <1>1 DEF Begin, TypeOK, Rec, Statuses, FinalStatuses, Results
  <2>2. recs' = Push(recs, r)
    BY <1>1 DEF Begin
  <2> HIDE DEF r
  <2>3. \A i \in DOMAIN recs : recs[i].id \in 1..MaxId /\ recs[i].id <= seq
    BY TableElement DEF Tables, Issued, UpTo
  <2>4. \A i \in DOMAIN recs : recs[i].id < r.id
    BY <1>0, <2>1, <2>3
  <2>5. /\ IsTable(recs')
        /\ \A j \in DOMAIN recs' : recs'[j] = r \/ \E i \in DOMAIN recs : recs'[j] = recs[i]
    BY <2>1, <2>2, <2>4, PushKeeps DEF Tables
  <2>6. \A j \in DOMAIN recs' : /\ recs'[j].id <= seq'
                                /\ recs'[j].status \in FinalStatuses => recs'[j].id \notin open'
    <3> SUFFICES ASSUME NEW j \in DOMAIN recs'
                 PROVE /\ recs'[j].id <= seq'
                       /\ recs'[j].status \in FinalStatuses => recs'[j].id \notin open'
      OBVIOUS
    <3>1. CASE recs'[j] = r
      BY <2>1, <3>1
    <3>2. ASSUME NEW i \in DOMAIN recs, recs'[j] = recs[i]
          PROVE /\ recs'[j].id <= seq'
                /\ recs'[j].status \in FinalStatuses => recs'[j].id \notin open'
      <4>1. recs[i].id < seq' /\ recs[i].id \in 1..MaxId /\ open' = open \cup {seq'}
        BY <1>1, <2>1, <2>3, <2>4 DEF Begin
      <4> QED
        BY <1>0, <2>1, <3>2, <4>1 DEF ClosedIn
    <3> QED
      BY <2>5, <3>1, <3>2
  <2>7. open' \subseteq 1..MaxId /\ \A id \in open' : id <= seq'
    BY <1>0, <1>1, <2>1 DEF Begin, TypeOK, Issued
  <2> QED
    BY <1>1, <2>1, <2>5, <2>6, <2>7
    DEF Begin, TypeOK, Tables, IsTable, Issued, UpTo, ClosedIn, Down
<1>2. ASSUME NEW id, NEW status \in Statuses, UpdateStatus(id, status), id \in open,
             open' = open \/ (open' = open \ {id}),
             status \in FinalStatuses => id \notin open',
             UNCHANGED <<host, seq, file, writer, bytes, mode, saved>>
      PROVE  TableInv'
  <2>1. /\ Amends(recs, recs', {id})
        /\ \A i \in DOMAIN recs : recs[i].id = id => recs'[i].status = status
    <3>1. IsTable(recs) /\ recs' = SetStatus(recs, id, status)
      BY <1>2 DEF UpdateStatus, Tables
    <3> QED
      BY <3>1, StatusEffect
  <2>2. UpTo(recs', seq') /\ ClosedIn(recs', open')
    BY <1>2, <2>1 DEF Amends, UpTo, ClosedIn, Issued
  <2>3. dirty' \in BOOLEAN
    BY <1>2 DEF UpdateStatus, TypeOK
  <2> QED
    BY <1>2, <2>1, <2>2, <2>3 DEF Amends, TypeOK, Tables, IsTable, Issued, Down
<1>3. ASSUME NEW id, Retry(id) PROVE TableInv'
  BY <1>0, <1>2, <1>3 DEF Retry
<1>4. ASSUME NEW id, NEW status \in Outcomes, Finish(id, status) PROVE TableInv'
  BY <1>0, <1>2, <1>4 DEF Finish
<1>5. ASSUME NEW id, NEW result \in SetResults, SetResult(id, result) PROVE TableInv'
  <2>1. Amends(recs, recs', {})
    BY <1>0, <1>5, ResultEffect DEF SetResult, Tables
  <2>2. UpTo(recs', seq') /\ ClosedIn(recs', open')
    BY <1>5, <2>1 DEF Amends, UpTo, ClosedIn, Issued, SetResult
  <2>3. dirty' \in BOOLEAN
    BY <1>5 DEF SetResult, TypeOK
  <2> QED
    BY <1>5, <2>1, <2>2, <2>3 DEF SetResult, Amends, TypeOK, Tables, IsTable, Issued, Down
<1>6. ASSUME TakeSnapshot, mode # "down", mode' \in {"up", "closing", "closed"},
             UNCHANGED <<host, recs, seq, file, open, saved>>
      PROVE  TableInv'
  BY <1>6 DEF TakeSnapshot, TypeOK, Tables, Issued, Down, UpTo, ClosedIn
<1>7. CASE Flush
  BY <1>6, <1>7 DEF Flush
<1>8. CASE WriteRename \/ WriteFails \/ WriteTruncates \/ WriteInPlace \/ WriteInPlaceFails
  <2>1. /\ UNCHANGED <<host, recs, seq, mode, open>> /\ dirty' \in BOOLEAN
        /\ mode # "down" /\ writer' \in {"idle", "inplace"}
    BY <1>8 DEF WriteRename, WriteFails, WriteTruncates, WriteInPlace, WriteInPlaceFails,
                Down, TypeOK
  <2>2. IsTable(bytes') /\ IsTable(saved')
    BY <1>8, EmptyTable DEF WriteRename, WriteFails, WriteTruncates, WriteInPlace,
                            WriteInPlaceFails, Tables
  <2>3. \/ file' = file
        \/ \E b \in BOOLEAN : file' = [readable |-> b, recs |-> bytes]
        \/ \E b \in BOOLEAN : file' = [readable |-> b, recs |-> <<>>]
    BY <1>8 DEF WriteRename, WriteFails, WriteTruncates, WriteInPlace, WriteInPlaceFails
  <2>4. IsTable(file.recs')
    BY <2>3, EmptyTable DEF Tables
  <2>5. bytes' \in Seq(Rec) /\ saved' \in Seq(Rec) /\ file' \in [readable : BOOLEAN, recs : Seq(Rec)]
    <3>1. <<>> \in Seq(Rec) /\ bytes \in Seq(Rec) /\ saved' \in Seq(Rec) /\ bytes' \in Seq(Rec)
      BY <2>2, EmptyTable DEF IsTable, TypeOK
    <3> QED
      BY <2>3, <3>1, FileOf DEF TypeOK
  <2> QED
    BY <2>1, <2>2, <2>4, <2>5 DEF TypeOK, Tables, Issued, Down, UpTo, ClosedIn
<1>9. CASE Close
  BY <1>9 DEF Close, TypeOK, Tables, Issued, Down, UpTo, ClosedIn
<1>10. CASE FinalFlush
  <2>1. CASE TakeSnapshot
    BY <1>6, <1>10, <2>1 DEF FinalFlush
  <2>2. CASE ~TakeSnapshot
    BY <1>10, <2>2 DEF FinalFlush, TypeOK, Tables, Issued, Down, UpTo, ClosedIn
  <2> QED
    BY <2>1, <2>2
<1>11. CASE Crash
  <2>1. IsTable(recs') /\ IsTable(bytes') /\ UpTo(recs', seq') /\ ClosedIn(recs', open')
    BY <1>11, EmptyTable DEF Crash
  <2>2. recs' \in Seq(Rec) /\ bytes' \in Seq(Rec) /\ Len(recs') <= MaxRecs
    BY <2>1 DEF IsTable
  <2> QED
    <3>1. TypeOK'
      <4>1. 0 \in 0..MaxId
        BY <1>0
      <4>2. seq' \in 0..MaxId
        BY <1>11, <4>1 DEF Crash
      <4> QED
        BY <1>11, <2>2, <4>2 DEF Crash, TypeOK
    <3>2. Tables'
      BY <1>11, <2>1 DEF Crash, Tables
    <3>3. Issued' /\ Down'
      BY <1>11, <2>1 DEF Crash, Issued, Down
    <3> QED
      BY <2>1, <3>1, <3>2, <3>3
<1>12. CASE Load
  <2>1. IsTable(recs') /\ seq' \in 0..MaxId /\ UpTo(recs', seq')
    BY <1>12, LoadEffect DEF Load, Tables
  <2>2. open' = {} /\ ClosedIn(recs', open')
    BY <1>12 DEF Load, Down, ClosedIn
  <2> QED
    BY <1>12, <2>1, <2>2 DEF Load, TypeOK, Tables, IsTable, Issued, Down
<1>13. CASE LoadFails
  BY <1>13 DEF LoadFails, TypeOK, Tables, Issued, Down, UpTo, ClosedIn
<1>14. CASE UNCHANGED vars
  BY <1>14 DEF vars, TypeOK, Tables, Issued, Down, UpTo, ClosedIn
<1> QED
  BY <1>1, <1>3, <1>4, <1>5, <1>7, <1>8, <1>9, <1>10, <1>11, <1>12, <1>13, <1>14 DEF Next

LEMMA TableCorrect == Spec => []TableInv
  BY TableInvInit, TableInvStep, PTL DEF Spec

\* Every variable keeps to its range: the table never outgrows its capacity (store.go,
\* Begin) and the next id is never lost.
THEOREM TypeCorrect == Spec => []TypeOK
<1>1. TableInv => TypeOK
  BY DEF TableInv
<1> QED
  BY <1>1, TableCorrect, PTL

\* Ids name one record each in the order they were issued, through evictions, crashes
\* and restarts that number on from the records they find (store.go, Begin and load).
THEOREM IdsStayIncreasing == Spec => []IdsIncrease
<1>1. TableInv => IdsIncrease
  BY DEF TableInv, Tables, Issued, IsTable, Sorted, UpTo, IdsIncrease
<1> QED
  BY <1>1, TableCorrect, PTL

-----------------------------------------------------------------------------
(* The dirty flag.                                                           *)

\* With nothing left to save, memory is what the running write will put on the disk
\* or, when none runs, what a restart would load.
CleanInv == (mode # "down" /\ ~dirty /\ ~host.readErrors) =>
    recs = IF writer = "idle" THEN Loaded ELSE bytes

LEMMA CleanInvStep == TableInv /\ CleanInv /\ [Next]_vars => CleanInv'
<1> SUFFICES ASSUME TableInv, CleanInv, [Next]_vars, mode' # "down", ~(dirty'), ~(host.readErrors')
             PROVE  recs' = IF writer' = "idle" THEN Loaded' ELSE bytes'
  BY DEF CleanInv
<1> USE DEF CleanInv
<1>0. Loaded' = IF file.readable' THEN Trim(file.recs') ELSE <<>>
  BY DEF Loaded
<1>1. CASE Begin
  BY <1>1 DEF Begin
<1>2. ASSUME NEW id, NEW status, UpdateStatus(id, status), status \in Statuses,
             UNCHANGED <<host, file, writer, bytes, mode>>
      PROVE  recs' = IF writer' = "idle" THEN Loaded' ELSE bytes'
  <2>1. ~dirty /\ id \notin IdsOf(recs)
    BY <1>2 DEF UpdateStatus
  <2>2. recs' = recs
    BY <1>2, <2>1, StatusEffect DEF UpdateStatus, TableInv, Tables
  <2> QED
    BY <1>2, <2>1, <2>2 DEF Loaded
<1>3. ASSUME NEW id, Retry(id) PROVE recs' = IF writer' = "idle" THEN Loaded' ELSE bytes'
  BY <1>2, <1>3 DEF Retry, Statuses
<1>4. ASSUME NEW id, NEW status \in Outcomes, Finish(id, status)
      PROVE recs' = IF writer' = "idle" THEN Loaded' ELSE bytes'
  BY <1>2, <1>4, StoreAssumption DEF Finish, Statuses, FinalStatuses
<1>5. ASSUME NEW id, NEW result \in SetResults, SetResult(id, result)
      PROVE recs' = IF writer' = "idle" THEN Loaded' ELSE bytes'
  <2>1. ~dirty /\ id \notin IdsOf(recs)
    BY <1>5 DEF SetResult
  <2>2. recs' = recs
    BY <1>5, <2>1, ResultEffect, StoreAssumption DEF SetResult, TableInv, Tables
  <2> QED
    BY <1>5, <2>1, <2>2 DEF SetResult, Loaded
<1>6. CASE Flush
  BY <1>6 DEF Flush, TakeSnapshot
<1>7. CASE WriteRename \/ WriteInPlace
  <2>1. recs' = recs /\ recs = bytes /\ file' = [readable |-> TRUE, recs |-> bytes] /\ writer' = "idle"
    BY <1>7 DEF WriteRename, WriteInPlace, TableInv, Down
  <2>2. Trim(bytes) = bytes
    BY TableIsNotTrimmed DEF TableInv, Tables
  <2> QED
    BY <1>0, <2>1, <2>2
<1>8. CASE WriteFails \/ WriteInPlaceFails
  BY <1>8 DEF WriteFails, WriteInPlaceFails
<1>9. CASE WriteTruncates
  BY <1>9 DEF WriteTruncates, TableInv, Down
<1>10. CASE Close
  BY <1>10 DEF Close, Loaded
<1>11. CASE FinalFlush
  BY <1>11 DEF FinalFlush, TakeSnapshot, Loaded
<1>12. CASE Crash
  BY <1>12 DEF Crash
<1>13. CASE Load
  BY <1>13 DEF Load, Loaded, TableInv, Down
<1>14. CASE LoadFails
  BY <1>14 DEF LoadFails
<1>15. CASE UNCHANGED vars
  BY <1>15 DEF vars, Loaded
<1> QED
  BY <1>1, <1>3, <1>4, <1>5, <1>6, <1>7, <1>8, <1>9, <1>10, <1>11, <1>12, <1>13, <1>14, <1>15
  DEF Next

\* Nothing to save is nothing that a restart would lose: the snapshot and the flag
\* are taken together, and a failed write raises the flag again (store.go, snapshot
\* and flush).
THEOREM CleanIsSaved == Spec => []CleanMeansSaved
<1>1. Init => CleanInv
  BY EmptyTable, TableIsNotTrimmed DEF Init, CleanInv, Loaded
<1>2. CleanInv => CleanMeansSaved
  BY DEF CleanInv, CleanMeansSaved
<1> QED
  BY <1>1, <1>2, CleanInvStep, TableCorrect, PTL DEF Spec

-----------------------------------------------------------------------------
(* What was saved, on a host where renaming and reading work.                *)

\* The table t continues s: it keeps the finished orders of s, and s shows no order
\* that is still to be issued (above n) or that still runs (in ids) as finished.
Continues(s, t, n, ids) == Kept(s, t) /\ UpTo(s, n) /\ ClosedIn(s, ids)

\* The file is the last saved table; the snapshot continues it and memory continues both.
SavedInv == (~host.mount /\ ~host.readErrors) =>
    /\ writer # "inplace"
    /\ file = [readable |-> TRUE, recs |-> saved]
    /\ mode # "down" => Continues(saved, recs, seq, open)
    /\ writer = "temp" => Continues(saved, bytes, seq, open) /\ Continues(bytes, recs, seq, open)

\* An action on the table in memory keeps what the tables on their way to the disk hold.
LEMMA SavedWhileMemoryMoves ==
    ASSUME SavedInv, Tables, mode # "down",
           UNCHANGED <<host, file, writer, bytes, mode, saved>>,
           \A s : IsTable(s) /\ Continues(s, recs, seq, open) => Continues(s, recs', seq', open'),
           \A s : IsTable(s) /\ UpTo(s, seq) /\ ClosedIn(s, open) =>
                      UpTo(s, seq') /\ ClosedIn(s, open')
    PROVE  SavedInv'
<1> SUFFICES ASSUME ~host.mount, ~host.readErrors
             PROVE  /\ Continues(saved, recs', seq', open')
                    /\ writer = "temp" => /\ Continues(saved, bytes, seq', open')
                                          /\ Continues(bytes, recs', seq', open')
  BY DEF SavedInv
<1>1. /\ Continues(saved, recs, seq, open)
      /\ writer = "temp" => Continues(saved, bytes, seq, open) /\ Continues(bytes, recs, seq, open)
  BY DEF SavedInv
<1>2. Continues(saved, recs', seq', open')
  BY <1>1 DEF Tables
<1>3. writer = "temp" => Continues(bytes, recs', seq', open')
  BY <1>1 DEF Tables
<1>4. writer = "temp" => Continues(saved, bytes, seq', open')
  BY <1>1 DEF Continues, Tables
<1> QED
  BY <1>2, <1>3, <1>4

\* No new order, update, write, crash or restart loses what was saved.
LEMMA SavedInvStep == TableInv /\ SavedInv /\ [Next]_vars => SavedInv'
<1> SUFFICES ASSUME TableInv, SavedInv, [Next]_vars PROVE SavedInv'
  OBVIOUS
<1>0. /\ MaxId \in Nat /\ Outcomes \subseteq FinalStatuses /\ SetResults \subseteq Results
      /\ FinalStatuses \subseteq Statuses /\ "retrying" \in Statuses
      /\ seq \in 0..MaxId /\ open \subseteq 1..MaxId
      /\ Tables /\ UpTo(recs, seq) /\ ClosedIn(recs, open)
      /\ mode = "down" => writer = "idle" /\ open = {}
  BY StoreAssumption DEF Statuses, FinalStatuses, TableInv, TypeOK, Issued, Down
<1>1. CASE Begin
  <2> DEFINE r == [id |-> seq + 1, status |-> "pending", result |-> "none"]
  <2>1. r \in Rec /\ r.id = seq + 1 /\ seq' = seq + 1 /\ open' = open \cup {seq + 1}
    BY <1>0, <1>1 DEF Begin, Rec, Statuses, Results
  <2>2. recs' = Push(recs, r)
    BY <1>1 DEF Begin
  <2> HIDE DEF r
  <2>3. ASSUME NEW s, IsTable(s), UpTo(s, seq)
        PROVE  (\A i \in DOMAIN s : s[i].id \in 1..MaxId /\ s[i].id <= seq /\ s[i].id < seq + 1)
    BY <1>0, <2>3, TableElement DEF UpTo
  <2>4. ASSUME NEW s, IsTable(s), UpTo(s, seq), ClosedIn(s, open)
        PROVE  UpTo(s, seq') /\ ClosedIn(s, open')
    BY <1>0, <2>1, <2>3, <2>4 DEF UpTo, ClosedIn
  <2>5. ASSUME NEW s, IsTable(s), Continues(s, recs, seq, open)
        PROVE  Continues(s, recs', seq', open')
    <3>1. IsTable(recs) /\ UpTo(s, seq) /\ ClosedIn(s, open) /\ Kept(s, recs)
      BY <1>0, <2>5 DEF Continues, Tables
    <3>2. \A i \in DOMAIN recs : recs[i].id < r.id
      BY <1>0, <2>1, <2>3, <3>1
    <3>3. \A i \in DOMAIN s : s[i].id < r.id
      BY <2>1, <2>3, <2>5, <3>1
    <3>4. Kept(s, recs')
      BY <2>1, <2>2, <2>5, <3>1, <3>2, <3>3, KeptByPush
    <3> QED
      BY <2>4, <2>5, <3>1, <3>4 DEF Continues
  <2> QED
    <3>1. mode # "down" /\ UNCHANGED <<host, file, writer, bytes, mode, saved>>
      BY <1>1 DEF Begin
    <3>2. \A s : IsTable(s) /\ UpTo(s, seq) /\ ClosedIn(s, open) =>
                    UpTo(s, seq') /\ ClosedIn(s, open')
      BY <2>4
    <3> QED
      BY <1>0, <2>5, <3>1, <3>2, SavedWhileMemoryMoves
<1>2. ASSUME NEW id, NEW status \in Statuses, UpdateStatus(id, status), id \in open,
             open' \subseteq open,
             UNCHANGED <<host, seq, file, writer, bytes, mode, saved>>
      PROVE  SavedInv'
  <2>1. mode # "down" /\ Amends(recs, recs', {id})
    BY <1>0, <1>2, StatusEffect DEF UpdateStatus, Tables
  <2>2. ASSUME NEW s, UpTo(s, seq), ClosedIn(s, open)
        PROVE  UpTo(s, seq') /\ ClosedIn(s, open') /\ ClosedIn(s, {id})
    BY <1>2, <2>2 DEF ClosedIn
  <2>3. ASSUME NEW s, Continues(s, recs, seq, open) PROVE Continues(s, recs', seq', open')
    BY <2>1, <2>2, <2>3, KeptByAmends DEF Continues
  <2> QED
    BY <1>0, <1>2, <2>1, <2>2, <2>3, SavedWhileMemoryMoves
<1>3. ASSUME NEW id, Retry(id) PROVE SavedInv'
  BY <1>0, <1>2, <1>3 DEF Retry
<1>4. ASSUME NEW id, NEW status \in Outcomes, Finish(id, status) PROVE SavedInv'
  BY <1>0, <1>2, <1>4 DEF Finish
<1>5. ASSUME NEW id, NEW result \in SetResults, SetResult(id, result) PROVE SavedInv'
  <2>1. Amends(recs, recs', {}) /\ UNCHANGED <<host, seq, file, writer, bytes, mode, open, saved>>
        /\ mode # "down"
    BY <1>0, <1>5, ResultEffect DEF SetResult, Tables
  <2>2. ASSUME NEW s, Continues(s, recs, seq, open) PROVE Continues(s, recs', seq', open')
    <3>1. ClosedIn(s, {})
      BY DEF ClosedIn
    <3> QED
      BY <2>1, <2>2, <3>1, KeptByAmends DEF Continues
  <2> QED
    BY <1>0, <2>1, <2>2, SavedWhileMemoryMoves
<1>6. ASSUME TakeSnapshot, mode # "down", UNCHANGED <<host, recs, seq, file, open, saved>>
      PROVE  SavedInv'
  <2>1. Continues(recs, recs, seq, open)
    BY <1>0, KeptByCopy DEF Continues
  <2> QED
    BY <1>6, <2>1 DEF TakeSnapshot, SavedInv
<1>7. CASE Flush
  BY <1>6, <1>7 DEF Flush
<1>8. CASE WriteRename
  BY <1>0, <1>8 DEF WriteRename, SavedInv
<1>9. CASE WriteFails \/ WriteTruncates \/ WriteInPlace \/ WriteInPlaceFails
  BY <1>0, <1>9 DEF WriteFails, WriteTruncates, WriteInPlace, WriteInPlaceFails, SavedInv
<1>10. CASE Close
  BY <1>10 DEF Close, SavedInv
<1>11. CASE FinalFlush
  <2>1. CASE TakeSnapshot
    BY <1>6, <1>11, <2>1 DEF FinalFlush
  <2>2. CASE ~TakeSnapshot
    BY <1>11, <2>2 DEF FinalFlush, SavedInv
  <2> QED
    BY <2>1, <2>2
<1>12. CASE Crash
  BY <1>12 DEF Crash, SavedInv
<1>13. CASE Load
  <2> SUFFICES ASSUME ~host.mount, ~host.readErrors PROVE SavedInv'
    BY <1>13 DEF Load, SavedInv
  <2>1. file.readable /\ file.recs = saved
    BY DEF SavedInv
  <2>2. recs' = saved /\ UpTo(saved, seq') /\ open' = {} /\ ClosedIn(saved, open')
    BY <1>0, <1>13, <2>1, LoadEffect DEF Load, Tables, ClosedIn
  <2>3. Continues(saved, recs', seq', open')
    BY <2>2, KeptByCopy DEF Continues
  <2> QED
    BY <1>0, <1>13, <2>3 DEF Load, SavedInv
<1>14. CASE LoadFails
  BY <1>14 DEF LoadFails, SavedInv
<1>15. CASE UNCHANGED vars
  BY <1>15 DEF vars, SavedInv
<1> QED
  BY <1>1, <1>3, <1>4, <1>5, <1>7, <1>8, <1>9, <1>10, <1>11, <1>12, <1>13, <1>14, <1>15 DEF Next

LEMMA SavedCorrect == Spec => []SavedInv
<1>1. Init => SavedInv
  BY EmptyTable, KeptByCopy DEF Init, SavedInv, Continues
<1> QED
  BY <1>1, SavedInvStep, TableCorrect, PTL DEF Spec

\* A finished order that reached the file leaves it only when a full table of newer
\* orders has pushed it out, whatever crashes, restarts and failed writes come between
\* (store.go, flush and writeAtomic), on a host where renaming and reading work.
THEOREM SavedStays == Spec => SavedUntilEvicted
<1> DEFINE Leaves(i) ==
             (saved[i].status \in FinalStatuses /\ ~host.mount /\ ~host.readErrors) =>
                \/ \E j \in DOMAIN saved' : /\ saved'[j].id = saved[i].id
                                            /\ saved'[j].status = saved[i].status
                \/ /\ Len(saved') = MaxRecs
                   /\ \A j \in DOMAIN saved' : saved'[j].id > saved[i].id
<1>1. TableInv /\ SavedInv /\ [Next]_vars => [\A i \in DOMAIN saved : Leaves(i)]_vars
  <2> SUFFICES ASSUME TableInv, SavedInv, [Next]_vars, NEW i \in DOMAIN saved,
                      saved[i].status \in FinalStatuses, ~host.mount, ~host.readErrors
               PROVE  \/ \E j \in DOMAIN saved' : /\ saved'[j].id = saved[i].id
                                                  /\ saved'[j].status = saved[i].status
                      \/ /\ Len(saved') = MaxRecs
                         /\ \A j \in DOMAIN saved' : saved'[j].id > saved[i].id
    OBVIOUS
  <2>1. saved' = saved \/ WriteRename \/ WriteInPlace
    BY DEF Next, vars, Begin, Retry, Finish, SetResult, Flush, WriteFails, WriteTruncates,
           WriteInPlaceFails, Close, FinalFlush, Crash, Load, LoadFails
  <2>2. CASE saved' = saved
    BY <2>2
  <2>3. CASE WriteRename
    <3>1. saved' = bytes /\ Kept(saved, bytes)
      BY <2>3 DEF WriteRename, SavedInv, Continues
    <3> QED
      BY <3>1 DEF Kept
  <2>4. CASE WriteInPlace
    BY <2>4 DEF WriteInPlace, SavedInv
  <2> QED
    BY <2>1, <2>2, <2>3, <2>4
<1> QED
  BY <1>1, TableCorrect, SavedCorrect, PTL DEF Spec, SavedUntilEvicted
=============================================================================
