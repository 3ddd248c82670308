---------------------------- MODULE Connections ----------------------------
(***************************************************************************)
(* The client's connection over a paginated list, as pure operators        *)
(* (packages/remote/src/connection.ts): segments of edges with the         *)
(* boundaries they are known to have, `merge`, and what is read off them;  *)
(* and the overlays that pending requests and live events put around it    *)
(* (packages/remote/src/optimistic.ts).  An edge stands for its key.       *)
(***************************************************************************)
EXTENDS Naturals, Sequences, SequencesExt, FiniteSetsExt

Terminal == [tag |-> "Terminal"]
Unknown == [tag |-> "Unknown"]
Cursor(row) == [tag |-> "Cursor", cursor |-> row]

(* The edges of both, each once, where it is first. *)
DedupeEdges(edges) ==
    FoldLeft(LAMBDA out, e : IF e \in ToSet(out) THEN out ELSE Append(out, e), <<>>, edges)

(* A suffix of a that is a prefix of b. *)
Overlaps(a, b) ==
    \E n \in 1..Min({Len(a), Len(b)}) : SubSeq(a, Len(a) - n + 1, Len(a)) = SubSeq(b, 1, n)

\* Mutant: any two cursors meet.
CursorJoinableAny(a, b) == a.end.tag = "Cursor" /\ b.start.tag = "Cursor"

CursorJoinable(a, b) == a.end.tag = "Cursor" /\ a.end = b.start

(* a comes immediately before b: their boundaries name one cursor, or a's  *)
(* last edges are b's first ones.                                          *)
Joinable(a, b) == CursorJoinable(a, b) \/ Overlaps(a.edges, b.edges)

Join(a, b) == [edges |-> DedupeEdges(a.edges \o b.edges), start |-> a.start, end |-> b.end]

(* The join loop: the first pair, by place, that can be joined, until none *)
(* can.  A join leaves one segment fewer.                                  *)
JoinOnce(segments) ==
    LET pairs == {<<i, j>> \in (DOMAIN segments) \X (DOMAIN segments) :
                     i # j /\ Joinable(segments[i], segments[j])}
        first == CHOOSE p \in pairs : \A q \in pairs : p[1] < q[1] \/ (p[1] = q[1] /\ p[2] <= q[2])
    IN  IF pairs = {} THEN segments
        ELSE RemoveAt([segments EXCEPT ![first[1]] = Join(segments[first[1]], segments[first[2]])], first[2])

JoinAll(segments) == FoldLeft(LAMBDA s, i : JoinOnce(s), segments, [i \in 1..Len(segments) |-> i])

(* The runs of a segment's edges that no earlier segment has; a hole       *)
(* between two of them is an Unknown boundary, not an adjacency.           *)
Runs(seg, seen) ==
    LET kept == {i \in DOMAIN seg.edges : seg.edges[i] \notin seen}
        starts == SetToSortSeq({i \in kept : i - 1 \notin kept}, <)
        endOf(i) == Min({j \in kept : j >= i /\ j + 1 \notin kept})
    IN  [k \in DOMAIN starts |->
            [edges |-> SubSeq(seg.edges, starts[k], endOf(starts[k])),
             start |-> IF k = 1 THEN seg.start ELSE Unknown,
             end   |-> IF k = Len(starts) THEN seg.end ELSE Unknown]]

DedupeConnection(segments) ==
    FoldLeft(LAMBDA out, seg : out \o Runs(seg, UNION {ToSet(out[k].edges) : k \in DOMAIN out}),
             <<>>, segments)

(* A segment that starts at the list's start is first and one that ends at *)
(* its end is last; the others stay as they were.                          *)
OrderSegments(segments) ==
    LET isFirst(s) == s.start = Terminal
        isLast(s)  == s.end = Terminal /\ ~isFirst(s)
        isMiddle(s) == ~isFirst(s) /\ ~isLast(s)
    IN  SelectSeq(segments, isFirst) \o SelectSeq(segments, isMiddle) \o SelectSeq(segments, isLast)

(* `merge`: a page with no edges is no evidence and is ignored. *)
Merge(current, page) ==
    IF page.edges = <<>> THEN current
    ELSE OrderSegments(DedupeConnection(JoinAll(Append(current, page))))

Items(segments) == FlattenSeq([k \in DOMAIN segments |-> segments[k].edges])
HasPrevious(segments) == segments # <<>> /\ Head(segments).start # Terminal
HasNext(segments) == segments # <<>> /\ Last(segments).end # Terminal
IsGapped(segments) == Len(segments) > 1

(***************************************************************************)
(* Overlays: [id, position, edges], in the order they were made            *)
(***************************************************************************)

(* Overlays are ordered evidence: the last word on an edge says whether it *)
(* is hidden.                                                              *)
HiddenBy(overlays, e) ==
    LET words == {k \in DOMAIN overlays : e \in overlays[k].edges}
    IN  words # {} /\ overlays[Max(words)].position = "remove"

(* The edges the overlays of one position add to those already seen. *)
Taken(overlays, position, seen) ==
    LET placed == SelectSeq(overlays, LAMBDA o : o.position = position)
        inTurn == IF position = "prepend" THEN Reverse(placed) ELSE placed
        edges  == FlattenSeq([k \in DOMAIN inTurn |-> SetToSeq(inTurn[k].edges)])
    IN  SelectSeq(DedupeEdges(edges), LAMBDA e : e \notin seen /\ ~HiddenBy(overlays, e))

(* `visibleItems`: the known region without what is hidden, the prepended  *)
(* edges before it, the latest first, and the appended ones after it.      *)
VisibleItems(segments, overlays) ==
    LET known   == SelectSeq(Items(segments), LAMBDA e : ~HiddenBy(overlays, e))
        before  == Taken(overlays, "prepend", ToSet(known))
        after   == Taken(overlays, "append", ToSet(known) \cup ToSet(before))
    IN  before \o known \o after
=============================================================================
