----------------------------- MODULE KeysetReads -----------------------------
(***************************************************************************)
(* Paged reads of a table that changes meanwhile                           *)
(* (packages/remote-drizzle/src: index.ts, cursor.ts, pagination.ts).      *)
(*                                                                         *)
(* A query pages one list; a relation is paged for several parents in one  *)
(* statement, then, from a cursor, for one, and is counted by a computed   *)
(* field.  A cursor is the id of a row: its order columns are read again,  *)
(* in a statement of their own, before each page, and there is no          *)
(* transaction around them.  A row is [rank, parent, gone, mine]; rank may *)
(* be Null, which sorts as the largest value (Postgres).  `gone` is what   *)
(* the binding's `where` excludes, `mine` what the principal's policy      *)
(* allows.                                                                 *)
(***************************************************************************)
EXTENDS Integers, Sequences, SequencesExt, FiniteSets

CONSTANTS Ids, Parents,
          Tables,       \* the tables to start from: id -> row or Absent
          Edits,        \* [id, row] of what others write
          Orders,       \* orders to page in: sequences of [column, direction]
          Sizes,        \* page sizes
          Null, Absent,
          MaxEdits      \* bound: what others write during a traversal

VARIABLES table, reading

keysetVars == <<table, reading>>

Row  == [rank : Int \cup {Null}, parent : Parents, gone : BOOLEAN, mine : BOOLEAN]
Term == [column : {"id", "rank"}, direction : {"asc", "desc"}]

Value(id, column) == IF column = "id" THEN id ELSE table[id].rank

Directed(direction, traversal) == (direction = "asc") = (traversal = "forward")

\* Mutant: a Null is compared like any other value, and so never selected.
CursorCompareBare(x, direction, at, traversal) ==
    x # Null /\ at # Null /\ IF Directed(direction, traversal) THEN x > at ELSE x < at

(* Whether x is beyond a cursor's value; comparing with Null is not true.  *)
CursorCompare(x, direction, at, traversal) ==
    IF at = Null THEN ~Directed(direction, traversal) /\ x # Null
    ELSE IF Directed(direction, traversal) THEN x = Null \/ x > at
    ELSE x # Null /\ x < at

KeysetWhere(terms, id, values, traversal) ==
    \E n \in DOMAIN terms :
        /\ \A m \in 1..n - 1 : Value(id, terms[m].column) = values[m]
        /\ CursorCompare(Value(id, terms[n].column), terms[n].direction, values[n], traversal)

\* The database's ORDER BY.
Sorts(x, y, ascending) ==
    IF ascending THEN x # Null /\ (y = Null \/ x < y) ELSE y # Null /\ (x = Null \/ y < x)

Precedes(terms, i, j, traversal) ==
    \E n \in DOMAIN terms :
        /\ \A m \in 1..n - 1 : Value(i, terms[m].column) = Value(j, terms[m].column)
        /\ Sorts(Value(i, terms[n].column), Value(j, terms[n].column), Directed(terms[n].direction, traversal))

OrderBy(terms, ids, traversal) ==
    [k \in 1..Cardinality(ids) |->
        CHOOSE i \in ids : Cardinality({j \in ids : Precedes(terms, j, i, traversal)}) = k - 1]

HasTieBreaker(order) == \E n \in DOMAIN order : order[n].column = "id"

(* A relation breaks ties by the target's id; a query is asked for an order *)
(* that has a tie-breaker.                                                 *)
TermsOf(kind, order) ==
    IF kind = "query" \/ HasTieBreaker(order) THEN order
    ELSE Append(order, [column |-> "id", direction |-> "asc"])

Selected(id) == table[id] # Absent /\ ~table[id].gone /\ table[id].mine

\* What a computed field with the relation's own `where` counts.
Counted(id) == table[id] # Absent /\ ~table[id].gone /\ table[id].mine

\* A query is read as one list, a relation as one per parent.
Of(kind, id) == IF kind = "query" THEN "all" ELSE table[id].parent
Members(r, q) == {id \in Ids : Selected(id) /\ Of(r.kind, id) = q}
Listed(r, q) == OrderBy(TermsOf(r.kind, r.order), Members(r, q), "forward")

(* The rows of q beyond the cursor, nearest first.                         *)
Beyond(r, q) ==
    LET terms == TermsOf(r.kind, r.order)
    IN  OrderBy(terms, {id \in Members(r, q) : r.cursor = Absent \/ KeysetWhere(terms, id, r.values, r.traversal)},
                r.traversal)

(***************************************************************************)
(* The reads                                                               *)
(***************************************************************************)

Reading(kind, order, traversal, size, asked) ==
    [kind |-> kind, order |-> order, traversal |-> traversal, size |-> size, asked |-> asked,
     cursor |-> Absent, values |-> <<>>, phase |-> "page",
     seen |-> [q \in asked |-> <<>>], more |-> [q \in asked |-> TRUE], counts |-> [q \in asked |-> 0],
     touched |-> {}, drifted |-> FALSE, edits |-> 0]

KeysetInit ==
    /\ table \in Tables
    /\ \E order \in Orders, traversal \in {"forward", "backward"}, size \in Sizes :
           \/ HasTieBreaker(order) /\ reading = Reading("query", order, traversal, size, {"all"})
           \/ reading = Reading("relation", order, traversal, size, Parents)

(* One row more than the page has says that there is another page.         *)
ReadPage ==
    LET page(q) == LET rows == Beyond(reading, q)
                       most == IF Len(rows) > reading.size THEN reading.size ELSE Len(rows)
                   IN  [refs |-> SubSeq(rows, 1, most), more |-> Len(rows) > reading.size]
        joined(q) == IF reading.traversal = "forward" THEN reading.seen[q] \o page(q).refs
                     ELSE Reverse(page(q).refs) \o reading.seen[q]
    IN  /\ reading.phase = "page"
        /\ reading' = [reading EXCEPT !.phase = IF reading.kind = "relation" THEN "count" ELSE "idle",
                                      !.seen = [q \in DOMAIN @ |-> IF q \in reading.asked THEN joined(q) ELSE @[q]],
                                      !.more = [q \in DOMAIN @ |-> IF q \in reading.asked THEN page(q).more ELSE @[q]]]
        /\ UNCHANGED table

ReadCounts ==
    /\ reading.phase = "count"
    /\ reading' = [reading EXCEPT !.phase = "idle",
          !.counts = [q \in DOMAIN @ |->
              IF q \in reading.asked THEN Cardinality({id \in Ids : Counted(id) /\ table[id].parent = q}) ELSE @[q]]]
    /\ UNCHANGED table

(* The client pages on from the last row it has, in one list.              *)
AskOn(q) ==
    /\ reading.phase = "idle" /\ reading.more[q] /\ reading.seen[q] # <<>>
    /\ reading' = [reading EXCEPT !.phase = "cursor", !.asked = {q},
          !.cursor = IF reading.traversal = "forward" THEN Last(reading.seen[q]) ELSE Head(reading.seen[q])]
    /\ UNCHANGED table

(* A cursor that no longer resolves fails the read: the row is gone, or,   *)
(* for a query, no longer one of those it selects.                         *)
ReadCursor ==
    LET c == reading.cursor
        terms == TermsOf(reading.kind, reading.order)
    IN  /\ reading.phase = "cursor"
        /\ reading' = IF table[c] = Absent \/ (reading.kind = "query" /\ ~Selected(c))
                      THEN [reading EXCEPT !.phase = "failed"]
                      ELSE [reading EXCEPT !.phase = "page", !.drifted = @ \/ c \in reading.touched,
                                           !.values = [n \in DOMAIN terms |-> Value(c, terms[n].column)]]
        /\ UNCHANGED table

\* Somebody inserts, moves, hides or deletes a row.
Edit(edit) ==
    /\ reading.edits < MaxEdits /\ table[edit.id] # edit.row
    /\ table' = [table EXCEPT ![edit.id] = edit.row]
    /\ reading' = [reading EXCEPT !.touched = @ \cup {edit.id}, !.edits = @ + 1]

KeysetNext ==
    \/ ReadPage \/ ReadCounts \/ ReadCursor
    \/ \E q \in DOMAIN reading.seen : AskOn(q)
    \/ \E edit \in Edits : Edit(edit)

KeysetSpec == KeysetInit /\ [][KeysetNext]_keysetVars

(***************************************************************************)
(* Properties                                                              *)
(***************************************************************************)

(* A table nobody writes is read whole: paged to the end in any order and  *)
(* direction, with ties and Nulls, alone or beside other parents, a list   *)
(* is what one unpaged read returns, and until then an end of it           *)
(* (keysetWhere, orderByTerms, buildPage and the ranked statement agree).  *)
QuietReadIsTheList ==
    reading.touched = {} =>
        \A q \in DOMAIN reading.seen :
            LET all == Listed(reading, q)
            IN  /\ IF reading.traversal = "forward" THEN IsPrefix(reading.seen[q], all) ELSE IsSuffix(reading.seen[q], all)
                /\ ~reading.more[q] => reading.seen[q] = all
                /\ reading.seen[q] = all /\ all # <<>> => ~reading.more[q]

(* Whatever others insert, move, hide or delete, a row they left alone is  *)
(* seen once by whoever pages to the end, and in order, provided that no   *)
(* row was touched before it was read again as a cursor: a cursor names a  *)
(* row, and moves with it (query, source).                                 *)
UnmovedAreSeenOnce ==
    \A q \in DOMAIN reading.seen : ~reading.drifted /\ ~reading.more[q] =>
        LET seen == reading.seen[q]
            all  == Listed(reading, q)
            left(rows) == {i \in DOMAIN rows : rows[i] \notin reading.touched}
        IN  /\ {seen[i] : i \in left(seen)} = {all[i] : i \in left(all)}
            /\ \A i, j \in left(seen) : i < j => \E k, l \in left(all) : k < l /\ seen[i] = all[k] /\ seen[j] = all[l]

(* The number a computed field gives is the length of the relation it is   *)
(* of, as the same principal reads it (source: the list, its pages and the *)
(* grouped count are three statements).                                    *)
CountIsTheLength ==
    reading.kind = "relation" /\ reading.touched = {} /\ reading.phase = "idle" =>
        \A q \in DOMAIN reading.seen :
            /\ reading.counts[q] >= Len(reading.seen[q])
            /\ reading.counts[q] = Len(reading.seen[q]) <=> ~reading.more[q]
=============================================================================
