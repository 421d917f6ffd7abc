------------------------------ MODULE OrderFlow ------------------------------
(* One signal in a single-account dispatch mode: PlaceOrder with its retries *)
(* (internal/order/order.go) inside executeTaskWithFallback and              *)
(* tryFallbackOrder (internal/signals/processor.go).  The exchange is        *)
(* external: it takes or refuses each request, and its reply may get lost.   *)
EXTENDS Integers, Sequences

CONSTANTS
    N,             \* matched accounts, in config order: 1..N
    RawAccounts,   \* the raw webhook tasks among them
    MaxTries,      \* maxRetries: 11 in the program
    MaxFallback    \* maxFallbackOrderAttempts: 5 in the program

ASSUME FlowAssumption ==
    /\ N \in Nat \ {0}
    /\ RawAccounts \subseteq 1..N
    /\ MaxTries \in Nat \ {0}
    /\ MaxFallback \in Nat

Accounts == 1..N

VARIABLES
    primary,       \* the account dispatch selected
    stage,         \* 0: the first PlaceOrder; k: the k-th fallback attempt
    acct,          \* the account of the current PlaceOrder
    pc,
    tries,         \* attempt + 1
    sawRetryable,
    taken,         \* the exchange took the request in flight
    err,           \* what PlaceOrder returned
    recs,          \* the order records of this signal, by status
    accepted,      \* history: requests the exchange took
    takenInCall,   \* history: one of them in the current PlaceOrder
    lostLate,      \* history: a reply was lost after a retryable rejection
    tried          \* history: accounts a PlaceOrder was called for

vars == <<primary, stage, acct, pc, tries, sawRetryable, taken, err, recs,
          accepted, takenInCall, lostLate, tried>>

Errors == {"none", "limit", "exhausted", "unavailable", "other"}

\* Mutant of FallbackErrors: falls back on any error.
AllErrors == Errors \ {"none"}

FallbackErrors == {"limit", "exhausted", "unavailable"}
PCs == {"start", "send", "inflight", "pause", "returned", "done"}
Statuses == {"pending", "retrying", "success", "failed"}

TypeOK ==
    /\ primary \in Accounts /\ acct \in Accounts
    /\ stage \in 0..MaxFallback
    /\ pc \in PCs
    /\ tries \in 0..MaxTries
    /\ sawRetryable \in BOOLEAN /\ taken \in BOOLEAN
    /\ err \in Errors
    /\ recs \in Seq(Statuses)
    /\ accepted \in Nat
    /\ takenInCall \in BOOLEAN /\ lostLate \in BOOLEAN
    /\ tried \subseteq Accounts

Init ==
    /\ primary \in Accounts /\ acct = primary
    /\ stage = 0 /\ pc = "start" /\ tries = 0
    /\ sawRetryable = FALSE /\ taken = FALSE /\ err = "none"
    /\ recs = <<>> /\ accepted = 0 /\ takenInCall = FALSE /\ lostLate = FALSE
    /\ tried = {primary}

\* Mutant of Return: returns without the final Update.
ReturnSilently(e) ==
    /\ pc' = "returned"
    /\ err' = e
    /\ recs' = recs

\* The final Update that PlaceOrder defers once it has begun a record.
Return(e) ==
    /\ pc' = "returned"
    /\ err' = e
    /\ recs' = [recs EXCEPT ![Len(recs)] = IF e = "none" THEN "success" ELSE "failed"]

flow == <<primary, stage, acct, tried>>

-----------------------------------------------------------------------------
(* PlaceOrder.                                                               *)

\* Nothing is sent and no record is begun: the deadline passes in the random
\* delay (or while waiting for odds), or period, amount or body is invalid.
RefuseToSend ==
    /\ pc = "start"
    /\ pc' = "returned" /\ err' = "other"
    /\ UNCHANGED <<flow, tries, sawRetryable, taken, recs, accepted, takenInCall, lostLate>>

BeginRecord ==
    /\ pc = "start"
    /\ recs' = Append(recs, "pending")
    /\ pc' = "send"
    /\ UNCHANGED <<flow, tries, sawRetryable, taken, err, accepted, takenInCall, lostLate>>

\* httpClientForTask fails.
NoClient ==
    /\ pc = "send" /\ tries = 0
    /\ Return("other")
    /\ UNCHANGED <<flow, tries, sawRetryable, taken, accepted, takenInCall, lostLate>>

\* httpClient.Do: the exchange takes the request or does not.
Send(takes) ==
    /\ pc = "send"
    /\ pc' = "inflight"
    /\ tries' = tries + 1
    /\ taken' = takes
    /\ takenInCall' = IF takes THEN TRUE ELSE takenInCall
    /\ accepted' = IF takes THEN accepted + 1 ELSE accepted
    /\ UNCHANGED <<flow, sawRetryable, err, recs, lostLate>>

\* The outcome of a reply that ends the call.  A 2xx body that is no business
\* response ("garbage") tells nothing; only a raw webhook counts it a success.
Outcome(reply) ==
    CASE reply = "ok" -> "none"
      [] reply = "limit" -> "limit"
      [] reply = "unavailable" -> "unavailable"
      [] reply = "garbage" -> IF acct \in RawAccounts THEN "none" ELSE "other"
      [] reply = "refused" -> "other"

Replies == IF taken THEN {"ok", "garbage"}
                    ELSE {"limit", "unavailable", "refused", "garbage"}

Answered(reply) ==
    /\ pc = "inflight" /\ reply \in Replies
    /\ Return(Outcome(reply))
    /\ UNCHANGED <<flow, tries, sawRetryable, taken, accepted, takenInCall, lostLate>>

\* Too frequent, holding limit, duplicate operation: again after a second.
RetryLater ==
    /\ pc = "inflight" /\ ~taken /\ tries < MaxTries
    /\ sawRetryable' = TRUE
    /\ recs' = [recs EXCEPT ![Len(recs)] = "retrying"]
    /\ pc' = "pause"
    /\ UNCHANGED <<flow, tries, taken, err, accepted, takenInCall, lostLate>>

RetriesExhausted ==
    /\ pc = "inflight" /\ ~taken /\ tries = MaxTries
    /\ sawRetryable' = TRUE
    /\ Return("exhausted")
    /\ UNCHANGED <<flow, tries, taken, accepted, takenInCall, lostLate>>

\* A transport error.  The deadline passing after a retryable rejection counts
\* as retries exhausted, although nobody knows what became of this request.
LostError(deadline) == IF sawRetryable /\ deadline THEN "exhausted" ELSE "other"

NoReply(deadline) ==
    /\ pc = "inflight"
    /\ Return(LostError(deadline))
    /\ lostLate' = IF sawRetryable THEN TRUE ELSE lostLate
    /\ UNCHANGED <<flow, tries, sawRetryable, taken, accepted, takenInCall>>

\* Mutant of PauseOver: counts the tries from zero after every pause.
PauseForgets ==
    /\ pc = "pause"
    /\ pc' = "send" /\ tries' = 0
    /\ UNCHANGED <<flow, sawRetryable, taken, err, recs, accepted, takenInCall, lostLate>>

PauseOver ==
    /\ pc = "pause"
    /\ pc' = "send"
    /\ UNCHANGED <<flow, tries, sawRetryable, taken, err, recs, accepted, takenInCall, lostLate>>

\* The deadline passes during the pause (always after a retryable rejection).
PauseExpires ==
    /\ pc = "pause"
    /\ Return(IF sawRetryable THEN "exhausted" ELSE "other")
    /\ UNCHANGED <<flow, tries, sawRetryable, taken, accepted, takenInCall, lostLate>>

-----------------------------------------------------------------------------
(* executeTaskWithFallback and tryFallbackOrder.                             *)

\* Mutant of FirstFallback: starts from the first account.
FromTheTop == 0

\* The first fallback account is the one after the failed primary, around the end.
FirstFallback == IF primary >= N THEN 0 ELSE primary

FallbackAccount(k) == ((FirstFallback + k - 1) % N) + 1

GivesUp == err \notin FallbackErrors \/ stage = MaxFallback

Fallback ==
    /\ pc = "returned" /\ ~GivesUp
    /\ stage' = stage + 1
    /\ acct' = FallbackAccount(stage')
    /\ tried' = tried \cup {acct'}
    /\ pc' = "start" /\ tries' = 0 /\ sawRetryable' = FALSE /\ taken' = FALSE
    /\ err' = "none" /\ takenInCall' = FALSE
    /\ UNCHANGED <<primary, recs, accepted, lostLate>>

End ==
    /\ pc = "returned" /\ GivesUp
    /\ pc' = "done"
    /\ UNCHANGED <<flow, tries, sawRetryable, taken, err, recs, accepted, takenInCall, lostLate>>

PlaceOrder ==
    \/ RefuseToSend \/ BeginRecord \/ NoClient
    \/ \E takes \in BOOLEAN : Send(takes)
    \/ \E reply \in Replies : Answered(reply)
    \/ RetryLater \/ RetriesExhausted
    \/ \E deadline \in BOOLEAN : NoReply(deadline)
    \/ PauseOver \/ PauseExpires

Next == PlaceOrder \/ Fallback \/ End

Spec == Init /\ [][Next]_vars

\* Every wait in the flow has a timer or a deadline.
FairSpec == Spec /\ WF_vars(Next)

-----------------------------------------------------------------------------
(* Properties.                                                               *)

\* "the exchange rejected the order with a retryable error": a call that
\* returns ErrRetryExhausted has left no order behind.
ExhaustedMeansRejected == (pc = "returned" /\ err = "exhausted") => ~takenInCall

\* A signal ends in a success only with an order in the exchange (raw webhooks
\* aside), and every record it began has a final status by then.
EndIsRecorded ==
    pc = "done" =>
        /\ \A i \in DOMAIN recs : recs[i] \in {"success", "failed"}
        /\ (err = "none" /\ acct \notin RawAccounts) => accepted >= 1
        /\ err = "none" => recs[Len(recs)] = "success"

\* Giving up on an error of the account comes after every matched account has
\* had its turn, as far as the attempts reach.
AllTried ==
    (pc = "done" /\ err \in FallbackErrors /\ N <= MaxFallback + 1) => tried = Accounts

\* Every signal comes to an end.
SignalEnds == <>(pc = "done")

\* The flow implements the promise of SingleOrder: over all retries and
\* fallbacks at most one order, unless a reply got lost after a retryable
\* rejection, and none once the signal has been dealt with.
Promise == INSTANCE SingleOrder
           WITH placed <- accepted, over <- (pc = "done"), excused <- lostLate
ImplementsSingleOrder == Promise!Spec
=============================================================================
