------------------------------ MODULE OrderRing ------------------------------
(* The operations of internal/orders/store.go on the ring of order records,  *)
(* as operators on a sequence of records, oldest first.  A record keeps the  *)
(* fields the rest of the system decides on; wording, HTTP codes and         *)
(* durations are left out.                                                   *)
EXTENDS Integers, Sequences

CONSTANT MaxRecs            \* Store.max: 200 in the server

ASSUME MaxRecsAssumption == MaxRecs \in Nat \ {0}

\* Status of an order attempt (type Status).
Statuses == {"pending", "retrying", "success", "failed"}
FinalStatuses == {"success", "failed"}

\* Record.Result: "none" stands for the empty string.
Results == {"none", "pending", "win", "loss"}

IdsOf(recs) == {recs[i].id : i \in DOMAIN recs}

\* Keep the newest MaxRecs records.
Trim(recs) == IF Len(recs) > MaxRecs
              THEN SubSeq(recs, Len(recs) - MaxRecs + 1, Len(recs))
              ELSE recs

\* Begin: append a record and drop the oldest ones beyond the capacity.
Push(recs, rec) == Trim(Append(recs, rec))

\* Update and SetResult look for the id from the newest record backwards and
\* stop at the first hit; an unknown or evicted id changes nothing.
Newest(recs, id) == CHOOSE i \in DOMAIN recs :
                       /\ recs[i].id = id
                       /\ \A j \in DOMAIN recs : recs[j].id = id => j <= i

SetStatus(recs, id, status) ==
    IF id \in IdsOf(recs)
    THEN [recs EXCEPT ![Newest(recs, id)].status = status]
    ELSE recs

SetResultOf(recs, id, result) ==
    IF id \in IdsOf(recs)
    THEN [recs EXCEPT ![Newest(recs, id)].result = result]
    ELSE recs

Abs(x) == IF x < 0 THEN -x ELSE x

\* Mutant of Matchable: looks only at the account and the time.
MatchableAnyAmount(rec, task, amount, at, window) ==
    /\ rec.task = task
    /\ rec.result # "win"
    /\ Abs(rec.time - at) <= window

\* FindMatch accepts every record of the task and amount that is not a win and
\* was placed within the window of the instant.
Matchable(rec, task, amount, at, window) ==
    /\ rec.task = task
    /\ rec.result # "win"
    /\ rec.amount = amount
    /\ Abs(rec.time - at) <= window

\* FindMatch: the nearest such record, the newest of equally near ones; 0 when
\* there is none.
FindMatch(recs, task, amount, at, window) ==
    LET hits == {i \in DOMAIN recs :
                    Matchable(recs[i], task, amount, at, window)}
        gap(i) == Abs(recs[i].time - at)
    IN  IF hits = {} THEN 0
        ELSE recs[CHOOSE i \in hits :
                    \A j \in hits : \/ gap(i) < gap(j)
                                    \/ gap(i) = gap(j) /\ j <= i].id
=============================================================================
