----------------------------- MODULE OrderStore -----------------------------
(* internal/orders/store.go: the bounded table of order attempts, its        *)
(* background flusher, its file, and the process that dies and restarts.     *)
(* Every PlaceOrder call opens a record with Begin, updates it while it      *)
(* retries and closes it with one final Update; the settlement service adds  *)
(* results.  The flusher snapshots the table under the lock and writes the   *)
(* bytes outside it, so the table moves on while a write is under way.       *)
EXTENDS OrderRing

CONSTANTS
    MaxId,        \* bound: ids issued
    Hosts,        \* the disks considered, see host
    Outcomes,     \* the final statuses orders end with
    SetResults    \* the results the settlement service writes

ASSUME StoreAssumption ==
    /\ MaxId \in Nat
    /\ Hosts \subseteq [mount : BOOLEAN, readErrors : BOOLEAN]
    /\ Outcomes \subseteq FinalStatuses
    /\ SetResults \subseteq Results

VARIABLES
    host,     \* the host's disk, which never changes: renaming onto the file
              \*   fails (a single-file mount), reading it at start may fail
    recs,     \* Store.recs
    seq,      \* Store.seq
    dirty,    \* Store.dirty
    file,     \* the file: readable or torn, and the records it holds
    writer,   \* where the flusher is: idle, in writeAtomic, or writing in place
    bytes,    \* the snapshot being written
    mode,     \* up, closing (Close waits for the flusher), closed, down
    open,     \* ids whose PlaceOrder call is still running in this process
    saved     \* history: the table of the last write that completed

vars == <<host, recs, seq, dirty, file, writer, bytes, mode, open, saved>>

Rec == [id : 1..MaxId, status : Statuses, result : Results]

TypeOK ==
    /\ host \in Hosts
    /\ recs \in Seq(Rec) /\ Len(recs) <= MaxRecs
    /\ seq \in 0..MaxId
    /\ dirty \in BOOLEAN
    /\ file \in [readable : BOOLEAN, recs : Seq(Rec)]
    /\ writer \in {"idle", "temp", "inplace"}
    /\ bytes \in Seq(Rec)
    /\ mode \in {"up", "closing", "closed", "down"}
    /\ open \subseteq 1..MaxId
    /\ saved \in Seq(Rec)

Init ==
    /\ host \in Hosts
    /\ recs = <<>> /\ seq = 0 /\ dirty = FALSE
    /\ file = [readable |-> TRUE, recs |-> <<>>]   \* no file yet: same as empty
    /\ writer = "idle" /\ bytes = <<>>
    /\ mode = "up" /\ open = {} /\ saved = <<>>

-----------------------------------------------------------------------------
(* The table.  Orders that outlive the bounded wait at shutdown still update *)
(* it after Close, so only a dead process stops these actions.               *)

Begin ==
    /\ mode # "down" /\ seq < MaxId
    /\ seq' = seq + 1
    /\ recs' = Push(recs, [id |-> seq', status |-> "pending", result |-> "none"])
    /\ open' = open \cup {seq'}
    /\ dirty' = TRUE
    /\ UNCHANGED <<host, file, writer, bytes, mode, saved>>

\* Update marks the table dirty only when the id is still in the ring.
UpdateStatus(id, status) ==
    /\ recs' = SetStatus(recs, id, status)
    /\ dirty' = (dirty \/ id \in IdsOf(recs))

Retry(id) ==
    /\ id \in open
    /\ UpdateStatus(id, "retrying")
    /\ UNCHANGED <<host, seq, file, writer, bytes, mode, open, saved>>

Finish(id, status) ==
    /\ id \in open
    /\ open' = open \ {id}
    /\ UpdateStatus(id, status)
    /\ UNCHANGED <<host, seq, file, writer, bytes, mode, saved>>

SetResult(id, result) ==
    /\ mode # "down"
    /\ recs' = SetResultOf(recs, id, result)
    /\ dirty' = (dirty \/ id \in IdsOf(recs))
    /\ UNCHANGED <<host, seq, file, writer, bytes, mode, open, saved>>

-----------------------------------------------------------------------------
(* The flusher.                                                              *)

\* snapshot: copy the table and clear the flag in one critical section.  The
\* ticker runs it until the flusher returns; Close runs it once more.
TakeSnapshot ==
    /\ writer = "idle" /\ dirty
    /\ bytes' = recs
    /\ dirty' = FALSE
    /\ writer' = "temp"

\* A tick that is due may still win over the closed stopCh.
Flush ==
    /\ mode \in {"up", "closing"}
    /\ TakeSnapshot
    /\ UNCHANGED <<host, recs, seq, file, mode, open, saved>>

\* Mutant of WriteRename: clears the flag after the write, not with the snapshot.
WriteClearsDirty ==
    /\ writer = "temp" /\ ~host.mount
    /\ file' = [readable |-> TRUE, recs |-> bytes]
    /\ saved' = bytes
    /\ writer' = "idle" /\ bytes' = <<>>
    /\ dirty' = FALSE
    /\ UNCHANGED <<host, recs, seq, mode, open>>

\* The rename puts the new bytes in place at once.
WriteRename ==
    /\ writer = "temp" /\ ~host.mount
    /\ file' = [readable |-> TRUE, recs |-> bytes]
    /\ saved' = bytes
    /\ writer' = "idle" /\ bytes' = <<>>
    /\ UNCHANGED <<host, recs, seq, dirty, mode, open>>

\* The temporary file cannot be created, written or synced.
WriteFails ==
    /\ writer = "temp"
    /\ writer' = "idle" /\ bytes' = <<>>
    /\ dirty' = TRUE
    /\ UNCHANGED <<host, recs, seq, file, mode, open, saved>>

\* The rename fails: os.WriteFile truncates the file first.
WriteTruncates ==
    /\ writer = "temp" /\ host.mount
    /\ file' = [readable |-> FALSE, recs |-> <<>>]
    /\ writer' = "inplace"
    /\ UNCHANGED <<host, recs, seq, dirty, bytes, mode, open, saved>>

WriteInPlace ==
    /\ writer = "inplace"
    /\ file' = [readable |-> TRUE, recs |-> bytes]
    /\ saved' = bytes
    /\ writer' = "idle" /\ bytes' = <<>>
    /\ UNCHANGED <<host, recs, seq, dirty, mode, open>>

WriteInPlaceFails ==
    /\ writer = "inplace"
    /\ writer' = "idle" /\ bytes' = <<>>
    /\ dirty' = TRUE
    /\ UNCHANGED <<host, recs, seq, file, mode, open, saved>>

-----------------------------------------------------------------------------
(* Close, crash, restart.                                                    *)

\* close(stopCh)
Close ==
    /\ mode = "up"
    /\ mode' = "closing"
    /\ UNCHANGED <<host, recs, seq, dirty, file, writer, bytes, open, saved>>

\* The flusher has returned (<-doneCh): the last flush starts, if needed.
FinalFlush ==
    /\ mode = "closing" /\ writer = "idle"
    /\ mode' = "closed"
    /\ \/ TakeSnapshot
       \/ ~dirty /\ UNCHANGED <<host, dirty, bytes, writer>>
    /\ UNCHANGED <<host, recs, seq, file, open, saved>>

\* The process ends: a crash at any instant, or main returning after Close.
Crash ==
    /\ mode # "down"
    /\ mode' = "down"
    /\ open' = {}
    /\ recs' = <<>> /\ seq' = 0 /\ dirty' = FALSE
    /\ writer' = "idle" /\ bytes' = <<>>
    /\ UNCHANGED <<host, file, saved>>

\* load: an unreadable file gives an empty history; ids continue after the
\* largest one found.
Loaded == IF file.readable THEN Trim(file.recs) ELSE <<>>

\* Mutant of LargestId: takes the oldest record's id.
FirstId(rs) == IF rs = <<>> THEN 0 ELSE rs[1].id

\* Mutant of LargestId: numbers from one again after a restart.
NoId(rs) == 0

LargestId(rs) == IF rs = <<>> THEN 0
                 ELSE CHOOSE n \in IdsOf(rs) : \A m \in IdsOf(rs) : m <= n

Load ==
    /\ mode = "down"
    /\ mode' = "up"
    /\ recs' = Loaded
    /\ seq' = LargestId(Loaded)
    /\ UNCHANGED <<host, dirty, file, writer, bytes, open, saved>>

\* The file is there but cannot be read: an empty history, and only a log line.
LoadFails ==
    /\ mode = "down" /\ host.readErrors
    /\ mode' = "up"
    /\ UNCHANGED <<host, recs, seq, dirty, file, writer, bytes, open, saved>>

Next ==
    \/ Begin
    \/ \E id \in 1..MaxId :
          \/ Retry(id)
          \/ \E status \in Outcomes : Finish(id, status)
          \/ \E result \in SetResults : SetResult(id, result)
    \/ Flush \/ WriteRename \/ WriteFails
    \/ WriteTruncates \/ WriteInPlace \/ WriteInPlaceFails
    \/ Close \/ FinalFlush \/ Crash \/ Load \/ LoadFails

Spec == Init /\ [][Next]_vars

-----------------------------------------------------------------------------
(* Properties.                                                               *)

Finished(table, id) ==
    \E i \in DOMAIN table : table[i].id = id /\ table[i].status \in FinalStatuses

\* Ids name one record each, also after restarts and evictions: the table is
\* ordered by id and the next id is above all of them.  (Update and SetResult
\* address records by id: a reused id would rewrite another order's row.)
IdsIncrease ==
    /\ \A i, j \in DOMAIN recs : i < j => recs[i].id < recs[j].id
    /\ \A i \in DOMAIN recs : recs[i].id <= seq

\* The table changes while a snapshot is written outside the lock: whenever
\* the store believes that it has nothing to save, a restart would load
\* exactly the table in memory.
CleanMeansSaved ==
    (mode # "down" /\ ~dirty /\ writer = "idle" /\ ~host.readErrors) => recs = Loaded

\* A finished order that reached the file leaves it only when the capacity
\* pushes it out: every record of a full table is then newer.  (Neither on a
\* single-file mount, where a crash can tear the file, nor when reading fails.)
SavedUntilEvicted ==
    [][ \A i \in DOMAIN saved :
          (saved[i].status \in FinalStatuses /\ ~host.mount /\ ~host.readErrors) =>
             \/ \E j \in DOMAIN saved' : /\ saved'[j].id = saved[i].id
                                         /\ saved'[j].status = saved[i].status
             \/ /\ Len(saved') = MaxRecs
                /\ \A j \in DOMAIN saved' : saved'[j].id > saved[i].id ]_vars
=============================================================================
