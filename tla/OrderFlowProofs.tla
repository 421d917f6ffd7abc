--------------------------- MODULE OrderFlowProofs ---------------------------
(* Proofs about OrderFlow: for any accounts, retries and fallback attempts.  *)
EXTENDS OrderFlow, TLAPS

Flags ==
    /\ sawRetryable \in BOOLEAN /\ taken \in BOOLEAN
    /\ takenInCall \in BOOLEAN /\ lostLate \in BOOLEAN

Shape ==
    /\ primary \in Accounts /\ acct \in Accounts
    /\ stage \in 0..MaxFallback
    /\ pc \in PCs
    /\ tries \in 0..MaxTries
    /\ err \in Errors
    /\ recs \in Seq(Statuses)
    /\ accepted \in Nat
    /\ tried \subseteq Accounts

\* Where the record of the current PlaceOrder is open.
Sending == {"send", "inflight", "pause"}

\* A call starts with no try, and tries again only while tries are left.
TriesInv ==
    /\ pc = "start" => tries = 0
    /\ pc \in {"send", "pause"} => tries < MaxTries
    /\ pc \in Sending => recs # <<>>

FlowInv == Shape /\ TriesInv

\* Every fallback attempt goes to one of the matched accounts.
LEMMA FallbackAccountExists ==
    ASSUME NEW p \in Accounts, NEW k \in Nat \ {0}, primary = p
    PROVE  FallbackAccount(k) \in Accounts
<1>1. FirstFallback + k - 1 \in Nat /\ N \in Nat \ {0}
  BY FlowAssumption DEF FirstFallback, Accounts
<1>2. (FirstFallback + k - 1) % N \in 0..(N - 1)
  BY <1>1
<1> QED
  BY <1>1, <1>2 DEF FallbackAccount, Accounts

\* The flags of the flow stay Boolean.
LEMMA FlagsStep == Flags /\ [Next]_vars => Flags'
  BY DEF Next, PlaceOrder, RefuseToSend, BeginRecord, NoClient, Send, Answered, RetryLater,
         RetriesExhausted, NoReply, PauseOver, PauseExpires, Fallback, End, Flags, vars

\* The deferred Update closes the open record.
LEMMA ReturnCloses ==
    ASSUME FlowInv, NEW e \in Errors, pc \in Sending, Return(e)
    PROVE  /\ pc' = "returned" /\ err' = e
           /\ recs' \in Seq(Statuses) /\ Len(recs') = Len(recs) /\ Len(recs) > 0
           /\ recs'[Len(recs)] = IF e = "none" THEN "success" ELSE "failed"
           /\ \A i \in 1..(Len(recs) - 1) : recs'[i] = recs[i]
  BY DEF FlowInv, Shape, TriesInv, Return, Statuses

\* Retries and fallbacks stay within their limits.
LEMMA FlowInvStep == FlowInv /\ [Next]_vars => FlowInv'
<1> SUFFICES ASSUME FlowInv, [Next]_vars PROVE FlowInv'
  OBVIOUS
<1> USE FlowAssumption DEF FlowInv, Shape, TriesInv, flow
<1>1. CASE RefuseToSend
  BY <1>1 DEF RefuseToSend, PCs, Errors, Sending
<1>2. CASE BeginRecord
  <2>1. recs' \in Seq(Statuses) /\ recs' # <<>>
    BY <1>2 DEF BeginRecord, Statuses
  <2> QED
    BY <1>2, <2>1 DEF BeginRecord, PCs, Sending
<1>3. ASSUME NEW e \in Errors, pc \in Sending, Return(e),
             UNCHANGED <<primary, stage, acct, tried, tries, accepted>>
      PROVE FlowInv'
  BY <1>3, ReturnCloses DEF PCs, Sending
<1>4. CASE NoClient
  BY <1>3, <1>4 DEF NoClient, Sending, Errors
<1>5. ASSUME NEW takes \in BOOLEAN, Send(takes) PROVE FlowInv'
  BY <1>5 DEF Send, PCs, Sending
<1>6. ASSUME NEW reply \in Replies, Answered(reply) PROVE FlowInv'
  <2>1. Outcome(reply) \in Errors
    BY DEF Outcome, Replies, Errors
  <2> QED
    BY <1>3, <1>6, <2>1 DEF Answered, Sending
<1>7. CASE RetryLater
  <2>1. recs' \in Seq(Statuses) /\ recs' # <<>>
    BY <1>7 DEF RetryLater, Statuses, Sending
  <2> QED
    BY <1>7, <2>1 DEF RetryLater, PCs, Sending
<1>8. CASE RetriesExhausted
  BY <1>3, <1>8 DEF RetriesExhausted, Sending, Errors
<1>9. ASSUME NEW deadline \in BOOLEAN, NoReply(deadline) PROVE FlowInv'
  BY <1>3, <1>9 DEF NoReply, LostError, Sending, Errors
<1>10. CASE PauseOver
  BY <1>10 DEF PauseOver, PCs, Sending
<1>11. CASE PauseExpires
  BY <1>3, <1>11 DEF PauseExpires, Sending, Errors
<1>12. CASE Fallback
  <2>1. stage + 1 \in 0..MaxFallback /\ FallbackAccount(stage + 1) \in Accounts
    BY <1>12, FallbackAccountExists DEF Fallback, GivesUp
  <2> QED
    BY <1>12, <2>1 DEF Fallback, PCs, Errors, Sending
<1>13. CASE End
  BY <1>13 DEF End, PCs, Sending
<1>14. CASE UNCHANGED vars
  BY <1>14 DEF vars
<1> QED
  BY <1>1, <1>2, <1>4, <1>5, <1>6, <1>7, <1>8, <1>9, <1>10, <1>11, <1>12, <1>13, <1>14
     DEF Next, PlaceOrder

\* The first PlaceOrder starts within the limits.
LEMMA FlowInvInit == Init => FlowInv
  BY FlowAssumption
     DEF Init, FlowInv, Shape, TriesInv, Accounts, PCs, Errors, Statuses, Sending

-----------------------------------------------------------------------------
(* Records and outcomes.                                                     *)

\* A request that the exchange took is counted; a call that returns no error has
\* left an order and closed its record as a success.
Outcomes ==
    /\ (pc = "inflight" /\ taken) => accepted >= 1
    /\ (pc \in {"returned", "done"} /\ err = "none") =>
          /\ acct \in RawAccounts \/ accepted >= 1
          /\ recs # <<>> /\ recs[Len(recs)] = "success"

\* Only the record of the current call may be open.
Closed == \A i \in DOMAIN recs :
             (pc \in Sending /\ i = Len(recs)) \/ recs[i] \in {"success", "failed"}

RecordInv == Outcomes /\ Closed

\* After an accepted request the flow goes on to another one only when a reply
\* was lost after a retryable rejection.
OrderPlaced ==
    \/ accepted = 0
    \/ lostLate
    \/ pc = "inflight" /\ taken
    \/ pc = "returned" /\ err \notin FallbackErrors
    \/ pc = "done"

\* At most the newest record is open, and only while its PlaceOrder runs.
LEMMA RecordInvStep == FlowInv /\ RecordInv /\ [Next]_vars => RecordInv'
<1> SUFFICES ASSUME FlowInv, RecordInv, [Next]_vars PROVE RecordInv'
  OBVIOUS
<1> USE DEF RecordInv, Outcomes, Closed, flow
<1>1. CASE RefuseToSend
  BY <1>1 DEF RefuseToSend, Sending
<1>2. CASE BeginRecord
  <2>1. /\ recs \in Seq(Statuses) /\ recs' = Append(recs, "pending") /\ pc' = "send"
        /\ pc = "start"
    BY <1>2 DEF BeginRecord, FlowInv, Shape
  <2>2. Closed'
    BY <2>1 DEF Sending, Statuses
  <2> QED
    BY <2>1, <2>2
<1>3. ASSUME NEW e \in Errors, pc \in Sending, Return(e), UNCHANGED <<acct, accepted>>,
             e = "none" => acct \in RawAccounts \/ accepted >= 1
      PROVE RecordInv'
  <2>1. /\ pc' = "returned" /\ err' = e
        /\ recs' \in Seq(Statuses) /\ Len(recs') = Len(recs) /\ Len(recs) > 0
        /\ recs'[Len(recs)] = IF e = "none" THEN "success" ELSE "failed"
        /\ \A i \in 1..(Len(recs) - 1) : recs'[i] = recs[i]
    BY <1>3, ReturnCloses
  <2>2. recs \in Seq(Statuses)
    BY DEF FlowInv, Shape
  <2>3. Closed'
    BY <2>1, <2>2 DEF Sending
  <2>4. Outcomes'
    BY <1>3, <2>1
  <2> QED
    BY <2>3, <2>4
<1>4. CASE NoClient
  BY <1>3, <1>4 DEF NoClient, Sending, Errors
<1>5. ASSUME NEW takes \in BOOLEAN, Send(takes) PROVE RecordInv'
  BY <1>5 DEF Send, Sending, FlowInv, Shape
<1>6. ASSUME NEW reply \in Replies, Answered(reply) PROVE RecordInv'
  <2>1. Outcome(reply) \in Errors
    BY DEF Outcome, Replies, Errors
  <2>2. Outcome(reply) = "none" => acct \in RawAccounts \/ taken
    BY DEF Outcome, Replies
  <2>3. pc = "inflight"
    BY <1>6 DEF Answered
  <2> QED
    BY <1>3, <1>6, <2>1, <2>2, <2>3 DEF Answered, Sending
<1>7. CASE RetryLater
  <2>1. recs \in Seq(Statuses) /\ recs' = [recs EXCEPT ![Len(recs)] = "retrying"]
        /\ pc = "inflight" /\ pc' = "pause" /\ recs # <<>>
    BY <1>7 DEF RetryLater, FlowInv, Shape, TriesInv, Sending
  <2>2. Closed'
    BY <2>1 DEF Sending
  <2> QED
    BY <2>1, <2>2
<1>8. CASE RetriesExhausted
  BY <1>3, <1>8 DEF RetriesExhausted, Sending, Errors
<1>9. ASSUME NEW deadline \in BOOLEAN, NoReply(deadline) PROVE RecordInv'
  BY <1>3, <1>9 DEF NoReply, LostError, Sending, Errors
<1>10. CASE PauseOver
  BY <1>10 DEF PauseOver, Sending
<1>11. CASE PauseExpires
  BY <1>3, <1>11 DEF PauseExpires, Sending, Errors
<1>12. CASE Fallback
  BY <1>12 DEF Fallback, Sending
<1>13. CASE End
  BY <1>13 DEF End, Sending
<1>14. CASE UNCHANGED vars
  BY <1>14 DEF vars
<1> QED
  BY <1>1, <1>2, <1>4, <1>5, <1>6, <1>7, <1>8, <1>9, <1>10, <1>11, <1>12, <1>13, <1>14
     DEF Next, PlaceOrder

\* What the flow takes for placed is in the exchange.
LEMMA OrderPlacedStep == Flags /\ FlowInv /\ OrderPlaced /\ [Next]_vars => OrderPlaced'
<1> SUFFICES ASSUME Flags, FlowInv, OrderPlaced, [Next]_vars PROVE OrderPlaced'
  OBVIOUS
<1> USE DEF OrderPlaced, flow
<1>1. CASE RefuseToSend \/ BeginRecord \/ PauseOver \/ End
  BY <1>1 DEF RefuseToSend, BeginRecord, PauseOver, End, GivesUp
<1>2. CASE NoClient \/ RetriesExhausted \/ PauseExpires
  BY <1>2 DEF NoClient, RetriesExhausted, PauseExpires, Return
<1>3. ASSUME NEW takes \in BOOLEAN, Send(takes) PROVE OrderPlaced'
  BY <1>3 DEF Send
<1>4. ASSUME NEW reply \in Replies, Answered(reply) PROVE OrderPlaced'
  <2>1. taken => Outcome(reply) \in {"none", "other"}
    BY DEF Outcome, Replies
  <2> QED
    BY <1>4, <2>1 DEF Answered, Return, FallbackErrors
<1>5. CASE RetryLater
  BY <1>5 DEF RetryLater
<1>6. ASSUME NEW deadline \in BOOLEAN, NoReply(deadline) PROVE OrderPlaced'
  BY <1>6 DEF NoReply, Return, LostError, FallbackErrors
<1>7. CASE Fallback
  BY <1>7 DEF Fallback, GivesUp
<1>8. CASE UNCHANGED vars
  BY <1>8 DEF vars
<1> QED
  BY <1>1, <1>2, <1>3, <1>4, <1>5, <1>6, <1>7, <1>8 DEF Next, PlaceOrder

-----------------------------------------------------------------------------
(* Turns.                                                                    *)

\* The accounts asked so far are those of the first PlaceOrder and of every fallback
\* attempt; the flow ends only when it gives up.
Turns ==
    /\ tried = {primary} \cup {FallbackAccount(k) : k \in 1..stage}
    /\ pc = "done" => GivesUp

\* The fallback attempts go once around: every account but the primary has its turn
\* within N - 1 of them.
LEMMA OnceAround ==
    ASSUME primary \in Accounts, NEW a \in Accounts, a # primary
    PROVE  \E k \in 1..(N - 1) : FallbackAccount(k) = a
<1>1. N \in Nat \ {0} /\ primary \in 1..N /\ a \in 1..N
  BY FlowAssumption DEF Accounts
<1>2. ASSUME NEW x \in 0..(N - 1) PROVE x % N = x /\ (x + N) % N = x
  BY <1>1
<1>3. CASE primary >= N
  <2>1. a \in 1..(N - 1) /\ FirstFallback = 0
    BY <1>1, <1>3 DEF FirstFallback
  <2>2. (a - 1) % N = a - 1 /\ FirstFallback + a - 1 = a - 1
    BY <1>1, <1>2, <2>1
  <2> QED
    BY <1>1, <2>1, <2>2 DEF FallbackAccount
<1>4. CASE primary < N /\ a > primary
  <2>1. a - primary \in 1..(N - 1) /\ FirstFallback = primary
    BY <1>1, <1>4 DEF FirstFallback
  <2>2. (a - 1) % N = a - 1 /\ FirstFallback + (a - primary) - 1 = a - 1
    BY <1>1, <1>2, <2>1
  <2>3. FallbackAccount(a - primary) = ((a - 1) % N) + 1
    BY <2>2 DEF FallbackAccount
  <2> QED
    BY <1>1, <2>1, <2>2, <2>3
<1>5. CASE primary < N /\ a < primary
  <2>1. a + N - primary \in 1..(N - 1) /\ FirstFallback = primary
    BY <1>1, <1>5 DEF FirstFallback
  <2>2. ((a - 1) + N) % N = a - 1 /\ FirstFallback + (a + N - primary) - 1 = (a - 1) + N
    BY <1>1, <1>2, <2>1
  <2>3. FallbackAccount(a + N - primary) = (((a - 1) + N) % N) + 1
    BY <2>2 DEF FallbackAccount
  <2> QED
    BY <1>1, <2>1, <2>2, <2>3
<1> QED
  BY <1>1, <1>3, <1>4, <1>5

\* The first PlaceOrder asks the primary.
LEMMA TurnsInit == Init => Turns
  BY DEF Init, Turns

\* An attempt adds its own account, and nothing else does.
LEMMA TurnsStep == FlowInv /\ Turns /\ [Next]_vars => Turns'
<1> SUFFICES ASSUME FlowInv, Turns, [Next]_vars PROVE Turns'
  OBVIOUS
<1>1. ASSUME UNCHANGED flow, pc # "done", pc' # "done" PROVE Turns'
  BY <1>1 DEF Turns, flow, FallbackAccount, FirstFallback
<1>2. CASE RefuseToSend \/ BeginRecord \/ NoClient \/ RetryLater \/ RetriesExhausted
  BY <1>1, <1>2
     DEF RefuseToSend, BeginRecord, NoClient, RetryLater, RetriesExhausted, Return
<1>3. CASE PauseOver \/ PauseExpires
  BY <1>1, <1>3 DEF PauseOver, PauseExpires, Return
<1>4. ASSUME NEW takes \in BOOLEAN, Send(takes) PROVE Turns'
  BY <1>1, <1>4 DEF Send
<1>5. ASSUME NEW reply \in Replies, Answered(reply) PROVE Turns'
  BY <1>1, <1>5 DEF Answered, Return
<1>6. ASSUME NEW deadline \in BOOLEAN, NoReply(deadline) PROVE Turns'
  BY <1>1, <1>6 DEF NoReply, Return
<1>7. CASE Fallback
  <2>1. /\ stage \in Nat /\ stage' = stage + 1 /\ primary' = primary /\ pc' = "start"
    BY <1>7, FlowAssumption DEF Fallback, FlowInv, Shape
  <2>2. \A k \in Nat : FallbackAccount(k)' = FallbackAccount(k)
    BY <2>1 DEF FallbackAccount, FirstFallback
  <2>3. 1..(stage + 1) = (1..stage) \cup {stage + 1}
    BY <2>1
  <2>4. tried' = tried \cup {FallbackAccount(stage + 1)}
    BY <1>7, <2>1, <2>2 DEF Fallback, FallbackAccount, FirstFallback
  <2>5. {FallbackAccount(k)' : k \in 1..(stage + 1)} =
            {FallbackAccount(k) : k \in 1..stage} \cup {FallbackAccount(stage + 1)}
    BY <2>1, <2>2, <2>3
  <2> QED
    BY <2>1, <2>4, <2>5 DEF Turns
<1>8. CASE End
  BY <1>8 DEF End, Turns, flow, GivesUp, FallbackAccount, FirstFallback
<1>9. CASE UNCHANGED vars
  BY <1>9 DEF vars, Turns, GivesUp, FallbackAccount, FirstFallback
<1> QED
  BY <1>2, <1>3, <1>4, <1>5, <1>6, <1>7, <1>8, <1>9 DEF Next, PlaceOrder

-----------------------------------------------------------------------------
(* The whole.                                                                *)

IInv == Flags /\ FlowInv /\ RecordInv /\ OrderPlaced /\ Turns

\* The invariant holds in every behaviour.
LEMMA IInvCorrect == Spec => []IInv
<1>1. Init => IInv
  <2>1. Init => Flags
    BY DEF Init, Flags
  <2>2. Init => RecordInv /\ OrderPlaced
    BY DEF Init, RecordInv, Outcomes, Closed, OrderPlaced
  <2> QED
    BY FlowInvInit, TurnsInit, <2>1, <2>2 DEF IInv
<1>2. IInv /\ [Next]_vars => IInv'
  BY FlagsStep, FlowInvStep, RecordInvStep, OrderPlacedStep, TurnsStep DEF IInv
<1> QED
  BY <1>1, <1>2, PTL DEF Spec

\* Every variable keeps to its range: tries and fallback attempts stay within
\* their limits and every account asked for exists.
THEOREM TypeCorrect == Spec => []TypeOK
<1>1. IInv => TypeOK
  BY DEF IInv, Flags, FlowInv, Shape, TypeOK
<1> QED
  BY <1>1, IInvCorrect, PTL

\* When a signal has been dealt with, every record it began is final, and a
\* success stands for an order in the exchange (order.go, PlaceOrder).
THEOREM EndCorrect == Spec => []EndIsRecorded
<1>1. IInv => EndIsRecorded
  BY DEF IInv, RecordInv, Outcomes, Closed, EndIsRecorded, Sending
<1> QED
  BY <1>1, IInvCorrect, PTL

\* tryFallbackOrder starts behind the failed primary and goes around: when it gives up
\* on an error of the account, every matched account has had its turn, provided that
\* the attempts (maxFallbackOrderAttempts) reach.
THEOREM EveryAccountTried == Spec => []AllTried
<1>1. IInv => AllTried
  <2> SUFFICES ASSUME IInv, pc = "done", err \in FallbackErrors, N <= MaxFallback + 1
               PROVE tried = Accounts
    BY DEF AllTried
  <2>1. stage = MaxFallback /\ MaxFallback \in Nat /\ N \in Nat
    BY FlowAssumption DEF IInv, Turns, GivesUp
  <2>2. \A k \in 1..(N - 1) : k \in 1..stage
    BY <2>1
  <2>3. tried \subseteq Accounts /\ primary \in Accounts
    BY DEF IInv, FlowInv, Shape
  <2>4. \A a \in Accounts : a = primary \/ \E k \in 1..stage : FallbackAccount(k) = a
    BY <2>2, <2>3, OnceAround
  <2> QED
    BY <2>3, <2>4 DEF IInv, Turns
<1> QED
  BY <1>1, IInvCorrect, PTL

\* The retry and fallback flow implements SingleOrder: the single-account modes
\* place at most one order per signal, lost replies aside.
THEOREM FlowImplementsSingleOrder == Spec => ImplementsSingleOrder
<1>1. Init => Promise!Init
  BY DEF Init, Promise!Init
<1>2. IInv /\ [Next]_vars => [Promise!Next]_(Promise!vars)
  <2> SUFFICES ASSUME IInv, [Next]_vars PROVE [Promise!Next]_(Promise!vars)
    OBVIOUS
  <2> USE DEF Promise!Next, Promise!Place, Promise!Excuse, Promise!Conclude, Promise!vars, flow
  <2>1. ASSUME UNCHANGED <<accepted, lostLate>>, pc # "done", pc' # "done"
        PROVE UNCHANGED Promise!vars
    BY <2>1
  <2>2. CASE RefuseToSend \/ BeginRecord \/ NoClient \/ RetryLater \/ RetriesExhausted
    BY <2>1, <2>2 DEF RefuseToSend, BeginRecord, NoClient, RetryLater, RetriesExhausted, Return
  <2>3. CASE PauseOver \/ PauseExpires \/ Fallback
    BY <2>1, <2>3 DEF PauseOver, PauseExpires, Fallback, Return
  <2>4. ASSUME NEW reply \in Replies, Answered(reply) PROVE UNCHANGED Promise!vars
    BY <2>1, <2>4 DEF Answered, Return
  <2>5. ASSUME Send(FALSE) PROVE UNCHANGED Promise!vars
    BY <2>1, <2>5 DEF Send
  <2>6. ASSUME Send(TRUE) PROVE Promise!Place
    BY <2>6 DEF Send, IInv, OrderPlaced
  <2>7. ASSUME NEW deadline \in BOOLEAN, NoReply(deadline)
        PROVE UNCHANGED Promise!vars \/ Promise!Excuse
    <3>1. pc = "inflight" /\ pc' = "returned" /\ accepted' = accepted
      BY <2>7 DEF NoReply, Return
    <3>2. CASE sawRetryable
      BY <2>7, <3>1, <3>2 DEF NoReply
    <3>3. CASE ~sawRetryable
      BY <2>1, <2>7, <3>1, <3>3 DEF NoReply
    <3> QED
      BY <3>2, <3>3
  <2>8. CASE End
    BY <2>8 DEF End
  <2>9. CASE UNCHANGED vars
    BY <2>9 DEF vars
  <2> QED
    BY <2>2, <2>3, <2>4, <2>5, <2>6, <2>7, <2>8, <2>9 DEF Next, PlaceOrder
<1> QED
  BY <1>1, <1>2, IInvCorrect, PTL DEF Spec, ImplementsSingleOrder, Promise!Spec
=============================================================================
