------------------------------- MODULE KoiosPaging -------------------------------
(***************************************************************************)
(* koiosGetAll (services/koios.ts), and collectPaginatedWithOverlap of the *)
(* governance provider, which works the same way: a list that changes is   *)
(* read page by page, by offset, with pages that are smaller while Koios   *)
(* is under pressure.  Then its end is read again, from Overlap rows       *)
(* before where the first pass ended.                                      *)
(*                                                                         *)
(* A row is its dedupe key.  That the rows of both passes are merged by    *)
(* key is why the result is the set of them.                               *)
(***************************************************************************)
EXTENDS Integers, Sequences, FiniteSets, Functions

CONSTANTS
    Row,       \* the rows there can be
    Lists,     \* the lists there can be when the first page is asked for
    Limits,    \* the page sizes, with and without pressure
    Overlap,   \* overlapRows
    MaxGone    \* bound: how many rows leave the list

ASSUME ParametersAssumption ==
    /\ Limits \subseteq Nat \ {0}
    /\ Overlap \in Nat /\ MaxGone \in Nat

Distinct(s) == \A i, j \in DOMAIN s : s[i] = s[j] => i = j

ASSUME ListsAssumption == \A s \in Lists : s \in Seq(Row) /\ Distinct(s)

VARIABLES
    rows,     \* the list, as Koios has it now
    pass,     \* the pass: 1, 2, or 3 when all is read
    offset,   \* where the next page begins
    one, two, \* passOneResults, passTwoResults, as sets
    end,      \* the length of passOneResults
    kept,     \* ghost: rows that are in the list since pass one began
    tail,     \* ghost: those of its last rows that pass two is to read
    gone      \* ghost: how many rows left the list in each pass

remote == <<rows, kept, tail, gone>>
local == <<pass, offset, one, two, end>>
pagingVars == <<remote, local>>

PagingInit ==
    /\ rows \in Lists
    /\ pass = 1 /\ offset = 0
    /\ one = {} /\ two = {} /\ end = 0
    /\ kept = Range(rows) /\ tail = {}
    /\ gone = [p \in 1..2 |-> 0]

-------------------------------------------------------------------------------
(* The list changes *)

With(s, i, r) ==
    [j \in 1 .. Len(s) + 1 |-> IF j < i THEN s[j] ELSE IF j = i THEN r ELSE s[j - 1]]
Without(s, i) == [j \in 1 .. Len(s) - 1 |-> IF j < i THEN s[j] ELSE s[j + 1]]

Insert(r, i) ==
    /\ pass # 3 /\ r \notin Range(rows)
    /\ rows' = With(rows, i, r)
    /\ UNCHANGED <<kept, tail, gone, local>>

Remove(i) ==
    /\ pass # 3 /\ gone[1] + gone[2] < MaxGone
    /\ rows' = Without(rows, i)
    /\ kept' = kept \ {rows[i]} /\ tail' = tail \ {rows[i]}
    /\ gone' = [gone EXCEPT ![pass] = @ + 1]
    /\ UNCHANGED local

-------------------------------------------------------------------------------
(* Paging *)

Smaller(m, n) == IF m <= n THEN m ELSE n
PageEnd(limit) == Smaller(offset + limit, Len(rows))
Page(limit) == {rows[i] : i \in offset + 1 .. PageEnd(limit)}
PageLen(limit) == IF PageEnd(limit) <= offset THEN 0 ELSE PageEnd(limit) - offset

(* Mutants: the next page is a row late; the second pass begins where the  *)
(* first one ended.                                                        *)
NextPageLate(limit) ==
    /\ pass # 3 /\ PageLen(limit) = limit
    /\ offset' = offset + limit + 1
    /\ IF pass = 1 THEN one' = one \cup Page(limit) /\ end' = end + limit /\ UNCHANGED two
                   ELSE two' = two \cup Page(limit) /\ UNCHANGED <<one, end>>
    /\ UNCHANGED <<pass, remote>>
SecondPassAtEnd(n) == n

(* A full page, after which the next one is asked for.                     *)
NextPage(limit) ==
    /\ pass # 3 /\ PageLen(limit) = limit
    /\ offset' = offset + limit
    /\ IF pass = 1 THEN one' = one \cup Page(limit) /\ end' = end + limit /\ UNCHANGED two
                   ELSE two' = two \cup Page(limit) /\ UNCHANGED <<one, end>>
    /\ UNCHANGED <<pass, remote>>

(* Where pass two begins. *)
SecondPass(n) == IF n <= Overlap THEN 0 ELSE n - Overlap

(* A page that is not full is the last one of pass one.                    *)
EndPassOne(limit) ==
    /\ pass = 1 /\ PageLen(limit) < limit
    /\ one' = one \cup Page(limit)
    /\ end' = end + PageLen(limit)
    /\ IF Overlap = 0 \/ end' = 0 THEN pass' = 3 /\ UNCHANGED offset
       ELSE pass' = 2 /\ offset' = SecondPass(end')
    /\ tail' = {rows[i] : i \in {j \in DOMAIN rows : j > end' - Overlap}}
    /\ UNCHANGED <<two, rows, kept, gone>>

EndPassTwo(limit) ==
    /\ pass = 2 /\ PageLen(limit) < limit
    /\ two' = two \cup Page(limit)
    /\ pass' = 3
    /\ UNCHANGED <<offset, one, end, remote>>

PagingNext ==
    \/ \E r \in Row, i \in 1 .. Len(rows) + 1 : Insert(r, i)
    \/ \E i \in DOMAIN rows : Remove(i)
    \/ \E limit \in Limits : NextPage(limit) \/ EndPassOne(limit) \/ EndPassTwo(limit)

PagingSpec == PagingInit /\ [][PagingNext]_pagingVars

-------------------------------------------------------------------------------
(* Properties *)

PagingTypeOK ==
    /\ rows \in Seq(Row)
    /\ Distinct(rows)
    /\ pass \in 1..3 /\ offset \in Nat /\ end \in Nat
    /\ one \subseteq Row /\ two \subseteq Row
    /\ kept \subseteq Range(rows) /\ tail \subseteq Range(rows)
    /\ gone \in [1..2 -> Nat]
    /\ pass = 1 => offset = end

Result == one \cup two

(* If no row leaves the list while it is read, the result has all rows that *)
(* were in it from the beginning, wherever others come in.                 *)
AllRows == pass = 3 /\ gone[1] = 0 => kept \subseteq Result

(* Each row that leaves can hide one other, and no more.                   *)
LossBound == pass = 3 => Cardinality(kept \ Result) <= gone[1]

(* The last Overlap rows, and what follows them, are read once more, so    *)
(* that rows hidden there in pass one are found.                           *)
TailBound == pass = 3 => Cardinality(tail \ Result) <= gone[2]
===============================================================================
