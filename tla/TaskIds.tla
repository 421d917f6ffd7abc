------------------------------- MODULE TaskIds -------------------------------
(* PrepareTasks of internal/config/time_ranges.go: every account has an id,  *)
(* given by the operator or generated as task-<n>. Bindings of strategies,   *)
(* skip counters, balances and order records refer to accounts by their ids, *)
(* while accounts are added, removed and moved in the panel and by hand in   *)
(* config.json.                                                              *)
EXTENDS Integers, SequencesExt

CONSTANTS
    BlankId,     \* an empty id
    Names,       \* ids that are not of the form task-<n>
    Numbers,     \* task-<n> ids that an operator sets
    MaxTasks     \* bound: accounts

Ids == Nat \cup Names  \* task-<n> is n

ASSUME IdsAssumption ==
    /\ Numbers \subseteq Nat /\ Names \cap Nat = {} /\ BlankId \notin Ids
    /\ MaxTasks \in Nat

-----------------------------------------------------------------------------
(* PrepareTasks, for a list of ids and of whose account each one is.         *)

\* Mutant of Reserved: ids are taken in the order of the list.
NothingReserved(list) == {}

\* Every id set by the operator is taken before any is generated.
Reserved(list) == {list[i].id : i \in DOMAIN list} \ {BlankId}

\* The first of task-<i>, task-<i + 1>, ... that is not taken.
FreshId(used, i) ==
    CHOOSE n \in i..(i + Cardinality(used)) : n \notin used /\ (i..(n - 1)) \subseteq used

\* What is taken when the i-th account gets its id.
Used(list, given, i) == Reserved(list) \cup {given[j] : j \in 1..(i - 1)}

GiveId(list, given, i) ==
    IF list[i].id # BlankId THEN list[i].id ELSE FreshId(Used(list, given, i), i)

Prepared(list) ==
    LET given[i \in DOMAIN list] == GiveId(list, given, i)
    IN  [i \in DOMAIN list |-> [list[i] EXCEPT !.id = given[i]]]

Distinct(list) == \A i, j \in DOMAIN list : list[i].id = list[j].id => i = j

\* Whether LoadManager or handleConfig takes the list.
Accepted(list) == Distinct(Prepared(list))

\* LoadManager saves the ids that it has generated: memory and config.json hold this.
Kept(list) == Prepared(list)

-----------------------------------------------------------------------------
(* What an operator makes of a list: one more account, with or without an    *)
(* id; one less; two in another order.                                       *)

MayBeSet == Names \cup Numbers \cup {BlankId}

Entered == UNION {[1..n -> MayBeSet] : n \in 0..MaxTasks}

\* The account in the i-th place of the list is the i-th one.
Owned(ids) == [i \in DOMAIN ids |-> [id |-> ids[i], owner |-> i]]

Additions(list) ==
    {InsertAt(list, i, [id |-> id, owner |-> Len(list) + 1]) : i \in 1..(Len(list) + 1), id \in MayBeSet}

Edits(list) ==
    Additions(list)
        \cup {RemoveAt(list, i) : i \in DOMAIN list}
        \cup {[list EXCEPT ![1] = list[i], ![i] = list[1]] : i \in DOMAIN list}

-----------------------------------------------------------------------------
(* Properties.                                                               *)

SetTwice(list) == \E i, j \in DOMAIN list : i # j /\ list[i].id = list[j].id /\ list[i].id # BlankId

\* "a generated ID can never collide with one the operator set by hand": a list is
\* refused only for ids that were set twice.
RefusedForAReason(list) == Accepted(list) \/ SetTwice(list)

\* The account of a place keeps its id.
SameIds(before, after) ==
    \A i \in DOMAIN before, j \in DOMAIN after :
        before[i].owner = after[j].owner => before[i].id = after[j].id

\* Whatever is added, removed or moved next, in the panel or in the file.
KeepsIds(list) ==
    \A edited \in Edits(Kept(list)) :
        RefusedForAReason(edited) /\ (Accepted(edited) => SameIds(Prepared(list), Prepared(edited)))

\* The lists of ids that a change confuses: none (ConfigStore).
Confused ==
    {ids \in Entered :
        LET list == Owned(ids)
        IN  ~RefusedForAReason(list) \/ (Accepted(list) /\ ~KeepsIds(list))}
=============================================================================
