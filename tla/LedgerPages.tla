----------------------------- MODULE LedgerPages -----------------------------
(* Service.fetchLedger of internal/settle/service.go: the ledger of one      *)
(* account is fetched page by page, at most MaxPages pages of Rows entries,  *)
(* while the exchange goes on posting entries, so that an entry may move to  *)
(* a later page between two requests.  Settlement takes what is returned for *)
(* the whole ledger.  The exchange's listing is external.                    *)
EXTENDS Integers, FiniteSets, Functions

CONSTANTS
    Rows,        \* rowsPerPage
    MaxPages,    \* maxPages
    MaxEntries   \* bound: ledger entries

ASSUME PagesAssumption == {Rows, MaxPages, MaxEntries} \subseteq Nat \ {0}

NoOrder == 0

\* Who pays whom, for entries posted in the order that "tran" tells, by time: an entry is
\* an order, or the payout of one, which comes later in time and in posting.
Payments(tran) ==
    {pays \in [DOMAIN tran -> {NoOrder} \cup Range(tran)] :
        \A i \in DOMAIN tran : pays[i] # NoOrder =>
            /\ pays[i] < tran[i]
            /\ \E j \in 1..(i - 1) : tran[j] = pays[i] /\ pays[j] = NoOrder
            /\ \A j \in DOMAIN tran : pays[j] = pays[i] => j = i}

\* The ledgers with n entries of the window, by time, the oldest first. The entry with
\* tran k is the k-th to be posted, which may be late: behind entries of a later time.
Ledgers(n) ==
    UNION {{[i \in 1..n |-> [tran |-> tran[i], pays |-> pays[i]]] : pays \in Payments(tran)} :
              tran \in Injection(1..n, 1..n)}

\* What of it has been posted when k entries have.
Posted(l, k) == {i \in DOMAIN l : l[i].tran <= k}

\* A server lists the newest entries first or not, and gives the total or not.
Servers == [newestFirst : BOOLEAN, total : BOOLEAN]
ListedUpTo(server, i, j) == IF server.newestFirst THEN i >= j ELSE i <= j

\* The place of an entry in the listing: how many are listed up to it.
PlaceOf(server, l, k, i) == Cardinality({j \in Posted(l, k) : ListedUpTo(server, j, i)})

-----------------------------------------------------------------------------
(* The fetch, when posted[n] entries have been posted at the n-th request.   *)

\* The answer to a request for page n.
Page(server, l, k, n) ==
    {i \in Posted(l, k) : PlaceOf(server, l, k, i) \in ((n - 1) * Rows + 1)..(n * Rows)}

\* Nothing is left: the page is short, or the total, when it is given, is reached.
IsLast(server, l, k, n) ==
    \/ Cardinality(Page(server, l, k, n)) < Rows
    \/ server.total /\ n * Rows >= Cardinality(Posted(l, k))

\* The loop goes on until a page was the last one.
Requests(server, l, posted) ==
    {n \in 1..MaxPages : \A m \in 1..(n - 1) : ~IsLast(server, l, posted[m], m)}

Seen(server, l, posted, n) ==
    UNION {{l[i].tran : i \in Page(server, l, posted[m], m)} : m \in 1..(n - 1)}

\* Mutant of Unseen: keeps the entries that were on an earlier page.
KeepSeen(l, seen, page) == page

Unseen(l, seen, page) == {i \in page : l[i].tran \notin seen}

\* fetchLedger: the entries that are put together, each with the page it was taken from.
FetchLedger(server, l, posted) ==
    UNION {{[page |-> n, entry |-> i] :
               i \in Unseen(l, Seen(server, l, posted, n), Page(server, l, posted[n], n))} :
              n \in Requests(server, l, posted)}

-----------------------------------------------------------------------------
(* Properties.                                                               *)

IsIn(out, i) == \E e \in out : e.entry = i

\* pollAccount adds up the payouts of an order: an entry that has moved to the next
\* page between two requests is not credited twice.
PaidAtMostOnce(l, out) ==
    \A e, f \in out :
        (l[e.entry].pays # NoOrder /\ l[e.entry].pays = l[f.entry].pays) => e = f

\* A ledger that fits into the pages is fetched whole, however its entries move while
\* it is being fetched.
IsComplete(out, atStart, atEnd) ==
    Cardinality(atEnd) <= Rows * MaxPages => \A i \in atStart : IsIn(out, i)

\* Also when the pages do not suffice, an order that is fetched comes with its payout,
\* so that the truncation cannot make a paid order look lost, provided that the server
\* lists the newest entries first.
ComesWithPayout(server, l, out, atStart) ==
    server.newestFirst =>
        \A i, j \in atStart : (l[j].pays = l[i].tran /\ IsIn(out, i)) => IsIn(out, j)

\* How many entries have been posted at each request.
Postings(n) ==
    {p \in [1..MaxPages -> 0..n] : \A i, j \in 1..MaxPages : i <= j => p[i] <= p[j]}

ReadWell(server, l, posted) ==
    LET out == FetchLedger(server, l, posted)
        atStart == Posted(l, posted[1])
    IN  /\ PaidAtMostOnce(l, out)
        /\ IsComplete(out, atStart, Posted(l, posted[MaxPages]))
        /\ ComesWithPayout(server, l, out, atStart)

\* The ledgers that some server's pages are put together wrongly for, when entries are
\* posted between the requests: none (Settlement).
Misread ==
    {l \in UNION {Ledgers(n) : n \in 1..MaxEntries} :
        \E server \in Servers, posted \in Postings(Cardinality(DOMAIN l)) :
            ~ReadWell(server, l, posted)}
=============================================================================
