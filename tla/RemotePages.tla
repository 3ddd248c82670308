----------------------------- MODULE RemotePages -----------------------------
(***************************************************************************)
(* A keyset-paginated list: the query source that serves one page of it   *)
(* (packages/remote-drizzle/src/index.ts, window.ts, page.ts) and the      *)
(* client's connection, which puts the pages together in whatever order    *)
(* they arrive (Connections).                                              *)
(*                                                                         *)
(* The table is the sequence Rows, in the query's order, and stays as it   *)
(* is: what is checked is that the pages of a list at rest are put         *)
(* together to that list.  A row stands for its edge, its key and its      *)
(* cursor, which the source makes of the row's id.                         *)
(***************************************************************************)
EXTENDS Connections

CONSTANTS Rows,          \* the rows the query selects, in its order
          Sizes,         \* the page sizes asked for
          MaxPageSize,   \* the most rows one page has (window.ts:27)
          Traversals,    \* the directions this client pages in
          Links,         \* cursors the application has from elsewhere, a route say
          MaxAsked,      \* bound: how many windows are asked for
          None           \* no cursor: the window starts at the list's own end

VARIABLES connection,    \* the segments of the connection, in order
          asked,         \* the windows the client has asked for
          sent           \* the pages on their way, in any order

pagesVars == <<connection, asked, sent>>


Segment == [edges : Seq(ToSet(Rows)), start : {Terminal, Unknown} \cup {Cursor(r) : r \in ToSet(Rows)},
            end : {Terminal, Unknown} \cup {Cursor(r) : r \in ToSet(Rows)}]

Window == [traversal : Traversals, cursor : ToSet(Rows) \cup {None}, size : Sizes]

(***************************************************************************)
(* The source                                                              *)
(***************************************************************************)

(* The rows strictly after the cursor (forward) or strictly before it: the *)
(* lexicographic predicate of cursor.ts on the row's own order columns.    *)
KeysetWhere(cursor, traversal) ==
    SelectSeq(Rows, LAMBDA r : \/ cursor = None
                               \/ traversal = "forward" /\ IndexFirstSubSeq(<<r>>, Rows) > IndexFirstSubSeq(<<cursor>>, Rows)
                               \/ traversal = "backward" /\ IndexFirstSubSeq(<<r>>, Rows) < IndexFirstSubSeq(<<cursor>>, Rows))

(* One page: the executor reads one row more than the page has, which says *)
(* whether there are more, and drops it.                                   *)
BuildPage(window) ==
    LET size     == IF window.size > MaxPageSize THEN MaxPageSize ELSE window.size
        rows     == KeysetWhere(window.cursor, window.traversal)
        hasMore  == Len(rows) > size
        limited  == IF ~hasMore THEN rows
                    ELSE IF window.traversal = "forward" THEN SubSeq(rows, 1, size)
                    ELSE SubSeq(rows, Len(rows) - size + 1, Len(rows))
        askedAt == IF window.cursor = None THEN Terminal ELSE Cursor(window.cursor)
        more(at) == IF hasMore /\ limited # <<>> THEN Cursor(at) ELSE Terminal
    IN  IF window.traversal = "forward"
        THEN [edges |-> limited, start |-> askedAt, end |-> more(Last(limited))]
        ELSE [edges |-> limited, start |-> more(Head(limited)), end |-> askedAt]

(***************************************************************************)
(* The system                                                              *)
(***************************************************************************)

Init ==
    /\ connection = <<>>
    /\ asked = {}
    /\ sent = {}

(* The application asks for a window: from an end of the list, from the    *)
(* cursor of a row it shows, which a query names by its id, or from one it *)
(* was handed.                                                             *)
Ask(window) ==
    /\ window \notin asked
    /\ Cardinality(asked) < MaxAsked
    /\ \/ window.cursor = None
       \/ window.cursor \in ToSet(Items(connection)) \cup Links
    /\ asked' = asked \cup {window}
    /\ sent' = sent \cup {BuildPage(window)}
    /\ UNCHANGED connection

(* `ConnectionMerged` (model.ts:297-308): the page is reduced when it      *)
(* comes, which need not be the order it was asked for.                    *)
Deliver(page) ==
    /\ page \in sent
    /\ connection' = Merge(connection, page)
    /\ sent' = sent \ {page}
    /\ UNCHANGED asked

AskSome == \E window \in Window : Ask(window)
DeliverSome == \E page \in sent : Deliver(page)
Next == AskSome \/ DeliverSome

(***************************************************************************)
(* Properties                                                              *)
(***************************************************************************)

PagesTypeOK ==
    /\ \A k \in DOMAIN connection : connection[k] \in Segment /\ connection[k].edges # <<>>
    /\ asked \subseteq Window
    /\ sent \subseteq Segment

(* Two rows that are adjacent in one segment are adjacent in the list:     *)
(* whatever the order the pages arrive in, no row between them is skipped  *)
(* without a gap (README of packages/remote, 327).                         *)
NoRowIsSkipped ==
    \A k \in DOMAIN connection : \E i \in 0..Len(Rows) - Len(connection[k].edges) :
        connection[k].edges = SubSeq(Rows, i + 1, i + Len(connection[k].edges))

(* The boundaries are true of the list: a connection that says there is    *)
(* nothing before (after) what it shows begins (ends) where the list does, *)
(* and no row is shown in two of its pieces.                               *)
BoundariesAreTrue ==
    /\ connection # <<>> /\ ~HasPrevious(connection) => Head(Items(connection)) = Head(Rows)
    /\ connection # <<>> /\ ~HasNext(connection) => Last(Items(connection)) = Last(Rows)
    /\ \A p, q \in DOMAIN connection : p # q =>
          ToSet(connection[p].edges) \cap ToSet(connection[q].edges) = {}

(* Paging on from what a page ended with loses nothing to the order the    *)
(* answers come in: once every answer is there, the rows of the pages      *)
(* asked for are exactly the ones shown, each once.                        *)
NothingAskedIsLost ==
    sent = {} => /\ ToSet(Items(connection)) = UNION {ToSet(BuildPage(w).edges) : w \in asked}
                 /\ Len(Items(connection)) = Cardinality(ToSet(Items(connection)))

(* When the rows shown are all the list has, they are in the list's order, *)
(* and if they were paged in one direction there is no gap left: what is   *)
(* shown does not depend on the order the pages arrived in.                *)
AllPagesAreTheList ==
    ToSet(Items(connection)) = ToSet(Rows) =>
        /\ Items(connection) = Rows
        /\ (\E t \in Traversals : \A w \in asked : w.traversal = t) => ~IsGapped(connection)
=============================================================================
