------------------------------- MODULE Query -------------------------------
(***************************************************************************)
(* What the three back ends of prime's registries (memory, SQLite and      *)
(* ClickHouse) have in common when they answer list and count: optional    *)
(* filters, sorting and pagination (ersha-prime/src/registry/filter.rs).   *)
(*                                                                         *)
(* An Option<T> is a set with at most one element, a Vec in a filter the   *)
(* set of its elements.  Timestamps are counted in ticks; the SQL back     *)
(* ends keep whole seconds.                                                *)
(***************************************************************************)
EXTENDS Integers, Sequences, SequencesExt

CONSTANT TicksPerSecond    \* resolution of a timestamp

ASSUME TicksAssumption == TicksPerSecond \in Nat \ {0}

Backends == {"memory", "sqlite", "clickhouse"}

\* Timestamp::as_second.
Second(t) == t \div TicksPerSecond

\* A timestamp after it has been stored and read back.
Kept(backend, t) == IF backend = "memory" THEN t ELSE Second(t) * TicksPerSecond

\* A list in a filter of the memory back end: an empty list admits nothing.
Admits(list, v) == \A l \in list : v \in l

\* A list in a filter of the SQL back ends: an empty list is left out of the query.
SqlIn(list, v) == \A l \in list : l = {} \/ v \in l

\* RangeInclusive::contains and BETWEEN.
InRange(range, n) == \A r \in range : r[1] <= n /\ n <= r[2]

\* The bounds of a window, with the precision of memory and with that of SQL.
InWindow(after, before, t) ==
    /\ \A a \in after : t >= a
    /\ \A b \in before : t <= b

SqlInWindow(after, before, t) ==
    /\ \A a \in after : Second(t) >= Second(a)
    /\ \A b \in before : Second(t) <= Second(b)

\* Every order in which ORDER BY, or a sort of a HashMap's values, may return the rows
\* whose sort keys are given: rows with the same key come in any order.
Sorted(key, order) ==
    {s \in SetToSeqs(DOMAIN key) :
        \A i \in 1 .. Len(s) - 1 : IF order = "asc" THEN key[s[i]] <= key[s[i + 1]]
                                                   ELSE key[s[i + 1]] <= key[s[i]]}

Upto(s, from, limit) == SubSeq(s, from, IF Len(s) < from + limit - 1 THEN Len(s) ELSE from + limit - 1)

\* Offset { offset, limit }.
OffsetPage(s, offset, limit) == Upto(s, offset + 1, limit)

\* Mutant: the element under the cursor is returned again.
CursorPage_Inclusive(s, after, limit) ==
    IF after \in {{s[i]} : i \in DOMAIN s}
    THEN Upto(s, CHOOSE i \in DOMAIN s : {s[i]} = after, limit)
    ELSE <<>>

\* Cursor { after, limit } of the memory back end: what follows the element, and
\* nothing at all when there is no cursor or its element is not in the result.
CursorPage(s, after, limit) ==
    IF after \in {{s[i]} : i \in DOMAIN s}
    THEN Upto(s, 1 + CHOOSE i \in DOMAIN s : {s[i]} = after, limit)
    ELSE <<>>

\* Cursor { after, limit } of the SQL back ends: the cursor is not looked at.
SqlCursorPage(s, limit) == Upto(s, 1, limit)

=============================================================================
