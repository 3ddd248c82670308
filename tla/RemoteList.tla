------------------------------ MODULE RemoteList ------------------------------
(***************************************************************************)
(* One list of a Remote cache, as four kinds of evidence about it meet in  *)
(* the reducer `updateRemote` (packages/remote/src/model.ts): pages of the *)
(* query, mutations the client makes and shows before they are answered    *)
(* (optimistic.ts, mutation.ts), their answers, and the live events of the *)
(* list (live.ts).                                                         *)
(*                                                                         *)
(* The server's list is a sequence of edges.  Every change of it is one    *)
(* live event, whose cursor is its place in `changes`; the channel         *)
(* delivers an event again after a reconnect, or skips one.  Answers and   *)
(* pages take their own way, so they overtake the events and one another.  *)
(***************************************************************************)
EXTENDS Connections

CONSTANTS Edges,         \* the edges the list may hold
          Requests,      \* the request ids of the client's mutations
          Policies,      \* the live policies of the connection to be tried
          MaxChanges,    \* bound: changes the server makes
          MaxPages,      \* bound: pages the client asks for
          MaxBegun,      \* bound: mutations begun, retries counted
          None

VARIABLES list,          \* the server's list
          changes,       \* every change of it, in order: the live stream
          request,       \* request -> what the client asked for and how far it got
          begun,         \* mutations begun
          answered,      \* requests whose answer has left the server
          pages,         \* pages on their way: [edges, asOf]
          fetched,       \* pages asked for
          segments,      \* the client's connection
          overlays,      \* its overlays, in order
          pending,       \* the mutations that are not settled (mutation.ts)
          applied,       \* those whose answer was applied
          cursor,        \* the last live event applied
          gap,           \* the stream is recorded in `gaps`
          stale,         \* the stream's stale mark of the connection
          boundary,      \* edges counted before and after what is loaded
          policy,        \* what a live insertion does
          late           \* edges whose last word came out of order: a page older than an
                         \* applied event, or before an answer that is older (history)

listVars == <<list, changes, request, begun, answered, pages, fetched, segments, overlays,
              pending, applied, cursor, gap, stale, boundary, policy, late>>
serverVars == <<list, changes, answered, pages>>
liveVars == <<cursor, gap, stale, boundary>>

Positions == {"prepend", "append"}
Change == [kind : {"insert"}, edge : Edges, position : Positions]
             \cup [kind : {"remove"}, edge : Edges, position : {"remove"}]

Visible == ToSet(VisibleItems(segments, overlays))

(***************************************************************************)
(* The server                                                              *)
(***************************************************************************)

Changed(change) ==
    IF change.kind = "remove" THEN SelectSeq(list, LAMBDA e : e # change.edge)
    ELSE IF change.position = "prepend" THEN <<change.edge>> \o list
    ELSE Append(list, change.edge)

(* A change that is one: an edge is inserted that is not there, or one     *)
(* that is there removed.                                                  *)
IsChange(change) == (change.kind = "insert") = (change.edge \notin ToSet(list))

Commit(change) ==
    /\ Len(changes) < MaxChanges
    /\ list' = Changed(change)
    /\ changes' = Append(changes, change)

(* Another client's mutation. *)
ServerChanges(change) ==
    /\ IsChange(change)
    /\ Commit(change)
    /\ UNCHANGED <<request, begun, answered, pages, fetched, segments, overlays, pending,
                   applied, policy, late, liveVars>>

(* This client's mutation runs, though the client may have given it up;    *)
(* its answer names the connection change.                                 *)
Execute(r) ==
    /\ request[r].at \in {"sent", "failed"} /\ r \notin answered
    /\ answered' = answered \cup {r}
    /\ IF IsChange(request[r].change) THEN Commit(request[r].change)
       ELSE UNCHANGED <<list, changes>>
    /\ request' = [request EXCEPT ![r].ran = Len(changes')]
    /\ UNCHANGED <<begun, pages, fetched, segments, overlays, pending, applied,
                   policy, late, liveVars>>

(***************************************************************************)
(* Mutations                                                               *)
(***************************************************************************)

Overlay(id, change) == [id |-> id, edges |-> {change.edge}, position |-> change.position]
Without(id) == SelectSeq(overlays, LAMBDA o : o.id # id)

(* `MutationStarted`: the request's optimistic change shows as an overlay. *)
(* A failed request may be started again under its id.                     *)
Begin(r, change) ==
    /\ begun < MaxBegun
    /\ request[r].at \in {"idle", "failed"}
    /\ request[r].at = "failed" => change = request[r].change
    /\ begun' = begun + 1
    /\ request' = [request EXCEPT ![r] = [at |-> "sent", change |-> change, ran |-> None]]
    /\ answered' = answered \ {r}
    /\ pending' = pending \cup {r}
    /\ overlays' = Append(overlays, Overlay(r, change))
    /\ UNCHANGED <<list, changes, pages, fetched, segments, applied, policy, late, liveVars>>

(* The request's overlay gives way to the confirmed one, in its place; it  *)
(* was given to no other, whatever was made before or after it since.      *)
Confirmed(r, change) ==
    LET mine == {k \in DOMAIN overlays : overlays[k].id = r}
        conf == Overlay(<<"confirmed", r>>, change)
    IN  IF mine = {} THEN Append(Without(r), conf)
        ELSE InsertAt(Without(r), Min(mine), conf)

(* `MutationSucceeded`, the first time or a transport's second: applied    *)
(* once, released always (settleSuccess, optimistic.ts:200-230).           *)
Succeed(r) ==
    /\ r \in answered
    /\ request[r].at \in {"sent", "settled"}
    /\ request' = [request EXCEPT ![r].at = "settled"]
    /\ overlays' = IF r \in applied THEN Without(r) ELSE Confirmed(r, request[r].change)
    /\ applied' = applied \cup {r}
    /\ pending' = pending \ {r}
    /\ UNCHANGED <<serverVars, begun, fetched, segments, policy, late, liveVars>>

(* `MutationFailed`: the request was refused, or its answer never came,    *)
(* which says nothing of what the server did or will do.                   *)
Fail(r) ==
    /\ request[r].at = "sent"
    /\ request' = [request EXCEPT ![r].at = "failed"]
    /\ overlays' = Without(r)
    /\ pending' = pending \ {r}
    /\ UNCHANGED <<serverVars, begun, fetched, segments, applied, policy, late, liveVars>>

(***************************************************************************)
(* The live stream                                                         *)
(***************************************************************************)

Outcome(k) ==
    IF k <= cursor THEN "duplicate" ELSE IF cursor = 0 \/ k = cursor + 1 THEN "applied" ELSE "gap"

\* Mutant: a removal hides nothing.
AfterEventStrips(k, event) ==
    CASE event.kind = "remove" -> [i \in DOMAIN overlays |-> [overlays[i] EXCEPT !.edges = @ \ {event.edge}]]
      [] event.kind = "insert" /\ policy = "visible" -> Append(overlays, Overlay(<<"live", k>>, event))
      [] OTHER -> overlays

(* What an applied event does to the overlays: an insertion is shown only  *)
(* if the policy says so; a removal strips the edge from the overlays that *)
(* insert it, pending ones too, and hides it wherever else it is.          *)
AfterEvent(k, event) ==
    LET strip(o) == IF o.position = "remove" THEN o ELSE [o EXCEPT !.edges = @ \ {event.edge}]
        stripped == [i \in DOMAIN overlays |-> strip(overlays[i])]
    IN  CASE event.kind = "remove" -> Append(stripped, Overlay(<<"live", k>>, event))
          [] event.kind = "insert" /\ policy = "visible" -> Append(overlays, Overlay(<<"live", k>>, event))
          [] OTHER -> overlays

(* `recordBoundary`: the edge is beyond what is loaded. *)
Counted(event) == event.kind = "insert" /\ policy = "boundary"

(* `LiveReceived` of the k-th change: the next one, one that came before,  *)
(* or one ahead of an event the stream lost.  The first event a stream     *)
(* delivers is its baseline; this one is subscribed to from the start.     *)
Receive(k) ==
    LET event == changes[k]
        pos   == event.position
    IN  /\ k \in DOMAIN changes
        /\ cursor = 0 => k = 1
        /\ CASE Outcome(k) = "applied" ->
                  /\ cursor' = k
                  /\ gap' = FALSE
                  /\ late' = late \ {event.edge}
                  /\ overlays' = AfterEvent(k, event)
                  /\ stale' = (stale \/ (event.kind = "insert" /\ policy = "invalidate"))
                  /\ boundary' = IF Counted(event) THEN [boundary EXCEPT ![pos] = @ + 1] ELSE boundary
             [] Outcome(k) = "duplicate" ->
                  gap' = FALSE /\ UNCHANGED <<cursor, overlays, stale, boundary, late>>
             [] Outcome(k) = "gap" ->
                  gap' = TRUE /\ UNCHANGED <<cursor, overlays, stale, boundary, late>>
        /\ UNCHANGED <<serverVars, request, begun, fetched, segments, pending, applied, policy>>

(***************************************************************************)
(* Pages                                                                   *)
(***************************************************************************)

(* The server answers a query: the whole list, as it is now. *)
Fetch ==
    /\ fetched < MaxPages
    /\ fetched' = fetched + 1
    /\ pages' = pages \cup {[edges |-> list, asOf |-> Len(changes)]}
    /\ UNCHANGED <<list, changes, answered, request, begun, segments, overlays, pending, applied,
                   policy, late, liveVars>>

(* A page is taken as newer than every settled overlay it covers. *)
Pruned(covered) ==
    LET cut(o) == IF o.id \in pending THEN o ELSE [o EXCEPT !.edges = @ \ covered]
    IN  SelectSeq([i \in DOMAIN overlays |-> cut(overlays[i])],
                  LAMBDA o : o.id \in pending \/ o.edges # {})

(* History only: a request's answer is still on its way that speaks of the *)
(* edge and is older than the page.                                        *)
OlderAnswer(r, e, page) ==
    request[r].at = "sent" /\ request[r].change.edge = e /\ request[r].ran < page.asOf

(* `ConnectionMerged`: the page is joined to the connection, whose edges   *)
(* it can only add to.  `ConnectionRefreshed` follows it.                  *)
MergePage(page) ==
    /\ page \in pages
    /\ segments' = Merge(segments, [edges |-> page.edges, start |-> Terminal, end |-> Terminal])
    /\ overlays' = Pruned(ToSet(page.edges))
    /\ late' = late \cup {e \in ToSet(page.edges) :
                             \/ \E k \in page.asOf + 1..cursor : changes[k].edge = e
                             \/ \E r \in answered : OlderAnswer(r, e, page)}
    /\ pages' = pages \ {page}
    /\ UNCHANGED <<list, changes, answered, request, begun, fetched, pending, applied, policy, liveVars>>

Init ==
    /\ \E edges \in SUBSET Edges :
          /\ list \in SetToSeqs(edges)
          /\ segments = IF list = <<>> THEN <<>>
                        ELSE <<[edges |-> list, start |-> Terminal, end |-> Terminal]>>
    /\ changes = <<>>
    /\ request = [r \in Requests |-> [at |-> "idle", change |-> None, ran |-> None]]
    /\ begun = 0 /\ fetched = 0 /\ cursor = 0
    /\ answered = {} /\ pages = {} /\ pending = {} /\ applied = {} /\ late = {}
    /\ overlays = <<>>
    /\ gap = FALSE /\ stale = FALSE
    /\ boundary = [p \in Positions |-> 0]
    /\ policy \in Policies

ServerStep == \E c \in Change : ServerChanges(c)
ExecuteSome == \E r \in Requests : Execute(r)
BeginSome == \E r \in Requests, c \in Change : Begin(r, c)
SucceedSome == \E r \in Requests : Succeed(r)
FailSome == \E r \in Requests : Fail(r)
ReceiveSome == \E k \in 1..MaxChanges : Receive(k)
MergeSome == \E page \in pages : MergePage(page)

Next == ServerStep \/ ExecuteSome \/ BeginSome \/ SucceedSome \/ FailSome \/ ReceiveSome
           \/ Fetch \/ MergeSome

(***************************************************************************)
(* Properties                                                              *)
(***************************************************************************)

ListTypeOK ==
    /\ ToSet(list) \subseteq Edges
    /\ pending \subseteq Requests /\ applied \subseteq Requests
    /\ cursor \in 0..Len(changes)
    /\ \A k \in DOMAIN overlays : overlays[k].position \in Positions \cup {"remove"}

(* Everything the client has heard: every event, and every answer. *)
Quiet == cursor = Len(changes) /\ pending = {} /\ pages = {}

(* However pages, answers, failures and events of the list came past one   *)
(* another, a client that has heard everything shows what the server has,  *)
(* except an edge whose last word was a page or an answer that something   *)
(* newer had overtaken: neither carries the cursor it is as of.            *)
ListConverges ==
    Quiet /\ policy = "visible" =>
        \A e \in Edges \ late : e \in Visible <=> e \in ToSet(list)

(* What a policy keeps out of sight is told: an edge the server has and    *)
(* the client does not show is counted outside the boundary or has marked  *)
(* the connection stale (liveHasNext, isStale), and no removed edge shows. *)
UnseenIsTold ==
    Quiet /\ policy \in {"boundary", "invalidate"} =>
        /\ \A e \in ToSet(list) \ (Visible \cup late) : stale \/ \E p \in Positions : boundary[p] > 0
        /\ Visible \subseteq ToSet(list) \cup late

(* No edge is shown twice, whichever of its page, its optimistic insert,   *)
(* its confirmation and its live event have come.                          *)
NoEdgeIsShownTwice == Len(VisibleItems(segments, overlays)) = Cardinality(Visible)

(* A request that failed leaves nothing behind: what is hidden or inserted *)
(* is what a pending request, a confirmed one or a live event says.        *)
FailedLeavesNothing ==
    \A k \in DOMAIN overlays :
        \/ overlays[k].id \in pending
        \/ overlays[k].id \in {<<"confirmed", r>> : r \in applied}
        \/ overlays[k].id \in {<<"live", i>> : i \in 1..cursor}

(* A page never brings an edge back while a request that removes it waits  *)
(* for its answer: only the server's word after it does.                   *)
PendingRemovalStep ==
    \A r \in Requests : \A page \in pages :
        /\ MergePage(page) /\ r \in pending /\ request[r].change.kind = "remove"
        /\ request[r].change.edge \notin Visible
        => request[r].change.edge \notin Visible'

PendingRemovalHides == [][PendingRemovalStep]_listVars
=============================================================================
