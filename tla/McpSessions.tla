---------------------------- MODULE McpSessions ----------------------------
(***************************************************************************)
(* Sessions of the MCP adapter over Streamable HTTP                        *)
(* (packages/agent-mcp/src: http.ts, httpApp.ts, handler.ts): server-sent  *)
(* events on resumable streams, subscription after the GET was answered,   *)
(* termination by DELETE, expiry or close, tools/list against the change   *)
(* announcements, and calls in flight.                                     *)
(*                                                                         *)
(* A tool list is the number of the Model state it was read from; reads of *)
(* one handler resume in the order they began (microtasks are a queue).    *)
(***************************************************************************)
EXTENDS Integers, Sequences, FiniteSets, SequencesExt, FiniteSetsExt

CONSTANTS Session,      \* ids newSessionId may issue
          Conn,         \* GET requests, each with its own transport
          Request,      \* tools/call requests
          ReplayBuffer, \* events kept per stream, and histories per session
          Ttl,          \* sessionTtlMs in ticks of the clock
          MaxClock,     \* bound: ticks
          MaxChanges,   \* bound: changes of the Model's tools
          MaxLists,     \* bound: tools/list requests
          Nothing       \* undefined

VARIABLES sessions,  \* session -> its record, or Nothing when unknown or dropped
          conns,     \* GET -> its response and transport, or Nothing
          calls,     \* call -> [session, signal, running], or Nothing
          dropped,   \* sessions that were terminated
          clock, toolset, lists  \* the time, the Model's tool list, tools/list requests made

vars == <<sessions, conns, calls, dropped, clock, toolset, lists>>

Stream   == [id : Nat, log : Seq(Nat), subscriber : Conn \cup {Nothing}]
Read     == [kind : {"list", "announce"}, tools : Nat]
Recorded == [streams : Seq(Stream), next : Nat, opened : Nat, seen : Nat, advertised : {0, 1, Nothing},
             reads : Seq(Read), listed : {0, 1, Nothing}, notice : Nat, unread : BOOLEAN]
Response == [session : Session, state : {"answered", "attached", "displaced", "orphan", "ended", "left"},
             got : Seq(Nat), backlog : Seq(Nat), stream : Nat, from : Nat, asked : Nat, joined : Nat]
\* History: notice is the event that announced a change since tools/list was
\* answered (0 if none did), unread that the last read of the tools failed; from
\* is the cursor a GET resumed from, asked and joined the session's next event
\* when the GET was answered and when its transport attached.

Live == {s \in Session : sessions[s] # Nothing}

Fresh == [streams |-> <<>>, next |-> 1, opened |-> 0, seen |-> clock,
          advertised |-> Nothing, reads |-> <<>>, listed |-> Nothing, notice |-> 0, unread |-> FALSE]

(***************************************************************************)
(* Streams of a session r.                                                 *)
(***************************************************************************)

\* The entries of s at those places, in their order (Array.filter).
Filtered(s, places) ==
  [k \in 1 .. Cardinality(places) |-> s[CHOOSE i \in places : Cardinality({j \in places : j <= i}) = k]]

Disconnected(streams) == {i \in DOMAIN streams : streams[i].subscriber = Nothing}

\* forget: the oldest disconnected histories beyond the bound go.
Forget(streams) ==
  LET idle  == Disconnected(streams)
      spent == {i \in idle : Cardinality({j \in idle : j <= i}) <= Len(streams) - ReplayBuffer}
  IN  Filtered(streams, DOMAIN streams \ spent)

OpenStream(r) ==
  [r EXCEPT !.streams = Append(Forget(@), [id |-> r.opened, log |-> <<>>, subscriber |-> Nothing]),
            !.opened = @ + 1]

\* Mutant: the newest stream takes the event, connected or not.
TargetNewest(streams) == Len(streams)

\* emit's target: the newest connected stream, else the newest.
TargetOf(streams) ==
  LET connected == DOMAIN streams \ Disconnected(streams)
  IN  IF connected # {} THEN Max(connected) ELSE Len(streams)

Logged(log, event) ==
  LET longer == Append(log, event)
  IN  IF Len(longer) > ReplayBuffer THEN Tail(longer) ELSE longer

\* emit: the target's history keeps the event.
Emitted(r) ==
  LET base == IF r.streams = <<>> THEN OpenStream(r) ELSE r
  IN  [base EXCEPT !.streams[TargetOf(base.streams)].log = Logged(@, r.next), !.next = @ + 1]

\* The transport the event goes to at once.
Carrier(r) == IF r.streams = <<>> THEN Nothing ELSE r.streams[TargetOf(r.streams)].subscriber

\* The stream a GET with that Last-Event-ID resumes, or 0.
Resumed(streams, last) ==
  LET claims == {i \in DOMAIN streams : last \in ToSet(streams[i].log)}
  IN  IF last = Nothing THEN 0 ELSE IF claims # {} THEN Min(claims)
      ELSE IF Len(streams) = 1 THEN 1 ELSE 0

\* What that GET is answered with of the stream it resumes.
Replay(streams, last) ==
  LET at  == Resumed(streams, last)
      log == streams[at].log
  IN  IF at = 0 THEN <<>> ELSE Filtered(log, {k \in DOMAIN log : log[k] > last})

(***************************************************************************)
(* Termination: a dropped session leaves the map, its handler closes and   *)
(* every attached transport is ended.                                      *)
(***************************************************************************)

Attached(gone) ==
  {c \in Conn : \E s \in gone : \E i \in DOMAIN sessions[s].streams : sessions[s].streams[i].subscriber = c}

EndConns(gone) ==
  [c \in DOMAIN conns |-> IF c \in Attached(gone) THEN [conns[c] EXCEPT !.state = "ended"] ELSE conns[c]]

AbortCalls(gone) ==
  [k \in DOMAIN calls |-> IF calls[k] # Nothing /\ calls[k].running /\ calls[k].session \in gone
                     THEN [calls[k] EXCEPT !.aborted = TRUE] ELSE calls[k]]

Without(gone) == [s \in DOMAIN sessions |-> IF s \in gone THEN Nothing ELSE sessions[s]]

\* expire, at the start of every lookup.
Idle == {s \in Live : sessions[s].seen < clock - Ttl}

\* A request that reaches s: idle sessions go, s becomes r and is touched.
Touched(s, r) == [Without(Idle) EXCEPT ![s] = [r EXCEPT !.seen = clock]]

Reaches(s) == s \in Live \ Idle

(***************************************************************************)
(* Requests.                                                               *)
(***************************************************************************)

\* POST initialize without a session id.
Initialize(s) ==
  /\ s \notin Live \cup dropped
  /\ sessions' = [Without(Idle) EXCEPT ![s] = Fresh]
  /\ conns' = EndConns(Idle) /\ calls' = AbortCalls(Idle) /\ dropped' = dropped \cup Idle
  /\ UNCHANGED <<clock, toolset, lists>>

\* DELETE by the owner; close drops all.
Drop(gone) ==
  /\ gone # {}
  /\ sessions' = Without(gone) /\ conns' = EndConns(gone)
  /\ calls' = AbortCalls(gone) /\ dropped' = dropped \cup gone
  /\ UNCHANGED <<clock, toolset, lists>>

Delete(s) == Reaches(s) /\ Drop(Idle \cup {s})
Close == Drop(Live)

\* A request with an unknown id, or with a session of somebody else's: 404.
Unknown == Drop(Idle)

\* What the client of s may send as Last-Event-ID: the last event one of its
\* transports got, or a cursor from before any event.
Cursors(s) == {Nothing, 0} \cup {Last(conns[c].got) : c \in {c \in Conn :
                 conns[c] # Nothing /\ conns[c].session = s /\ conns[c].got # <<>>}}

\* GET: the answer carries the backlog; nothing is attached yet.
Get(c, s) ==
  /\ conns[c] = Nothing /\ Reaches(s)
  /\ \E last \in Cursors(s) :
       LET r  == sessions[s]
           at == Resumed(r.streams, last)
       IN  /\ sessions' = Touched(s, IF at = 0 THEN OpenStream(r) ELSE r)
           /\ conns' = [EndConns(Idle) EXCEPT ![c] =
                [session |-> s, state |-> "answered", got |-> <<>>, backlog |-> Replay(r.streams, last),
                 stream |-> IF at = 0 THEN r.opened ELSE r.streams[at].id,
                 from |-> IF last = Nothing THEN 0 ELSE last, asked |-> r.next, joined |-> 0]]
  /\ calls' = AbortCalls(Idle) /\ dropped' = dropped \cup Idle
  /\ UNCHANGED <<clock, toolset, lists>>

\* The response body is read: the backlog goes out, then the transport attaches
\* to its stream.  The stream may carry another transport, which then hears
\* nothing more, or have been forgotten.
Attach(c) ==
  /\ conns[c] # Nothing /\ conns[c].state = "answered"
  /\ LET s       == conns[c].session
         got     == [conns EXCEPT ![c].got = @ \o conns[c].backlog]
         at(i)   == sessions[s].streams[i].id = conns[c].stream
         before  == {sessions[s].streams[i].subscriber : i \in {i \in DOMAIN sessions[s].streams : at(i)}}
     IN  IF s \in dropped
         THEN conns' = [got EXCEPT ![c].state = "ended"] /\ UNCHANGED sessions
         ELSE /\ conns' = [d \in DOMAIN conns |->
                   IF d = c THEN [got[c] EXCEPT !.state = IF before = {} THEN "orphan" ELSE "attached",
                                                !.joined = sessions[s].next]
                   ELSE IF d \in before THEN [conns[d] EXCEPT !.state = "displaced"] ELSE conns[d]]
              /\ sessions' = [sessions EXCEPT ![s].streams = [i \in DOMAIN @ |->
                   IF at(i) THEN [@[i] EXCEPT !.subscriber = c] ELSE @[i]]]
  /\ UNCHANGED <<calls, dropped, clock, toolset, lists>>

\* The client disconnects: only the current subscriber detaches.
Leave(c) ==
  /\ conns[c] # Nothing /\ conns[c].state \in {"attached", "displaced", "orphan"}
  /\ conns' = [conns EXCEPT ![c].state = "left"]
  /\ sessions' = [s \in DOMAIN sessions |-> IF s \notin Live THEN Nothing ELSE
                   [sessions[s] EXCEPT !.streams = [i \in DOMAIN @ |->
                      IF @[i].subscriber = c THEN [@[i] EXCEPT !.subscriber = Nothing] ELSE @[i]]]]
  /\ UNCHANGED <<calls, dropped, clock, toolset, lists>>

(***************************************************************************)
(* The protocol handler.                                                   *)
(***************************************************************************)

\* tools/list starts its read of the available tools.
List(s) ==
  /\ Reaches(s) /\ lists < MaxLists /\ lists' = lists + 1
  /\ sessions' = Touched(s, [sessions[s] EXCEPT !.reads = Append(@, [kind |-> "list", tools |-> toolset])])
  /\ conns' = EndConns(Idle) /\ calls' = AbortCalls(Idle) /\ dropped' = dropped \cup Idle
  /\ UNCHANGED <<clock, toolset>>

\* The Model changes: every handler's subscription starts a read.  (Tools may
\* change back, so a later toolset can equal an earlier one.)
ToolsChange ==
  /\ toolset + 1 <= MaxChanges /\ toolset' = toolset + 1
  /\ sessions' = [s \in DOMAIN sessions |-> IF s \notin Live THEN Nothing ELSE
                   [sessions[s] EXCEPT !.reads = Append(@, [kind |-> "announce", tools |-> toolset'])]]
  /\ UNCHANGED <<conns, calls, dropped, clock, lists>>

\* Odd and even tool lists alternate.
Digest(tools) == tools % 2

Answered(r, tools) ==
  [r EXCEPT !.advertised = Digest(tools), !.listed = Digest(tools), !.notice = 0, !.unread = FALSE]

\* announceIfChanged after its read.
Announces(r, tools) == r.advertised # Nothing /\ Digest(tools) # r.advertised

Announced(r, tools) ==
  [(IF Announces(r, tools) THEN Emitted(r) ELSE r)
   EXCEPT !.advertised = Digest(tools), !.notice = IF Announces(r, tools) THEN r.next ELSE @, !.unread = FALSE]

\* The oldest read of s resumes.
Resume(s) ==
  /\ s \in Live /\ sessions[s].reads # <<>>
  /\ LET read == Head(sessions[s].reads)
         r    == [sessions[s] EXCEPT !.reads = Tail(@)]
         to   == IF read.kind = "announce" /\ Announces(r, read.tools) THEN Carrier(r) ELSE Nothing
     IN  /\ sessions' = [sessions EXCEPT ![s] = IF read.kind = "list" THEN Answered(r, read.tools)
                                                ELSE Announced(r, read.tools)]
         /\ conns' = IF to = Nothing THEN conns ELSE [conns EXCEPT ![to].got = Append(@, r.next)]
  /\ UNCHANGED <<calls, dropped, clock, toolset, lists>>

\* The oldest read of s rejects, an availability getter having thrown: nothing
\* is announced (104-108), or the request is answered with an error (301-307).
Fail(s) ==
  /\ s \in Live /\ sessions[s].reads # <<>>
  /\ sessions' = [sessions EXCEPT ![s].reads = Tail(@), ![s].unread = TRUE]
  /\ UNCHANGED <<conns, calls, dropped, clock, toolset, lists>>

\* tools/call, its end, and notifications/cancelled.
CallTool(k, s) ==
  /\ calls[k] = Nothing /\ Reaches(s)
  /\ calls' = [AbortCalls(Idle) EXCEPT ![k] = [session |-> s, running |-> TRUE, aborted |-> FALSE]]
  /\ sessions' = Touched(s, sessions[s])
  /\ conns' = EndConns(Idle) /\ dropped' = dropped \cup Idle
  /\ UNCHANGED <<clock, toolset, lists>>

CallEnds(k) ==
  /\ calls[k] # Nothing /\ calls[k].running
  /\ calls' = [calls EXCEPT ![k].running = FALSE]
  /\ UNCHANGED <<sessions, conns, dropped, clock, toolset, lists>>

Cancelled(k) ==
  /\ calls[k] # Nothing /\ calls[k].running /\ Reaches(calls[k].session)
  /\ calls' = [AbortCalls(Idle) EXCEPT ![k].aborted = TRUE]
  /\ sessions' = Touched(calls[k].session, sessions[calls[k].session])
  /\ conns' = EndConns(Idle) /\ dropped' = dropped \cup Idle
  /\ UNCHANGED <<clock, toolset, lists>>

Tick == clock < MaxClock /\ clock' = clock + 1 /\ UNCHANGED <<sessions, conns, calls, dropped, toolset, lists>>

Init ==
  /\ sessions = [s \in Session |-> Nothing] /\ conns = [c \in Conn |-> Nothing]
  /\ calls = [k \in Request |-> Nothing] /\ dropped = {}
  /\ clock = 0 /\ toolset = 0 /\ lists = 0

Next ==
  \/ Close \/ Unknown \/ ToolsChange \/ Tick
  \/ \E s \in Session : \/ Initialize(s) \/ Delete(s) \/ List(s) \/ Resume(s) \/ Fail(s)
                        \/ \E c \in Conn : Get(c, s)
                        \/ \E k \in Request : CallTool(k, s)
  \/ \E c \in Conn : Attach(c) \/ Leave(c)
  \/ \E k \in Request : CallEnds(k) \/ Cancelled(k)

Spec == Init /\ [][Next]_vars

(***************************************************************************)
(* Properties.                                                             *)
(***************************************************************************)

\* An event is in the history of one stream only, in the order of its id, so a
\* resumed stream never replays what another one delivered; histories are bounded.
OneStreamPerEvent ==
  \A s \in Live :
    LET streams == sessions[s].streams
    IN  /\ \A i, j \in DOMAIN streams : i # j => ToSet(streams[i].log) \cap ToSet(streams[j].log) = {}
        /\ \A i \in DOMAIN streams : \A k \in DOMAIN streams[i].log :
             /\ streams[i].log[k] < sessions[s].next /\ k <= ReplayBuffer
             /\ k > 1 => streams[i].log[k - 1] < streams[i].log[k]

\* No transport gets an event twice, out of order, or that its client had seen.
DeliveredInOrder ==
  \A c \in Conn : conns[c] # Nothing =>
    /\ \A i, j \in DOMAIN conns[c].got : i < j => conns[c].got[i] < conns[c].got[j]
    /\ \A i \in DOMAIN conns[c].got : conns[c].from < conns[c].got[i]

\* An open transport is the one its stream's events reach, unless another GET
\* took its stream or the stream was forgotten: no late unsubscribe detaches
\* another transport, and termination leaves no subscriber behind.  (A transport
\* that lost its stream is not ended by termination.)
OpenIsCarried ==
  \A c \in Conn : conns[c] # Nothing =>
    LET s == conns[c].session
    IN  /\ conns[c].state = "attached" =>
             /\ s \in Live
             /\ \E i \in DOMAIN sessions[s].streams :
                  sessions[s].streams[i].id = conns[c].stream /\ sessions[s].streams[i].subscriber = c
        /\ conns[c].state = "displaced" =>
             \E d \in Conn \ {c} : /\ conns[d] # Nothing /\ conns[d].state # "answered"
                                  /\ conns[d].session = s /\ conns[d].stream = conns[c].stream
        /\ conns[c].state = "orphan" /\ s \in Live =>
             \A i \in DOMAIN sessions[s].streams : sessions[s].streams[i].id # conns[c].stream

Got(c) == ToSet(conns[c].got)

\* Every event since c attached, while it stays so, was received by a transport
\* of the session: emit never leaves an event to a stream that nobody carries
\* while another stream has a client.
WhileAttachedIsHeard ==
  \A c \in Conn : conns[c] # Nothing /\ conns[c].state = "attached" =>
    LET s == conns[c].session
    IN  \A e \in conns[c].joined .. sessions[s].next - 1 :
          \E d \in Conn : conns[d] # Nothing /\ conns[d].session = s /\ e \in Got(d)

\* e came after c's GET was answered and before its transport attached: neither
\* the answer's backlog nor the subscription has it.
InWindow(c, e) == conns[c].asked <= e /\ (conns[c].state = "answered" \/ e < conns[c].joined)

\* The Last-Event-ID of a client whose last transport was c.
Cursor(c) == IF conns[c].got = <<>> THEN conns[c].from ELSE Last(conns[c].got)

\* e waits for the client of c: it is in the answer under way or, c being gone,
\* its reconnect is replayed e (unless the cursor aged out and names no stream).
Waits(c, e, streams, i) ==
  /\ conns[c].state # "attached" /\ Cursor(c) < e
  /\ conns[c].state = "answered" => e \in ToSet(conns[c].backlog)
  /\ Cursor(c) \in ToSet(streams[i].log) \/ Len(streams) = 1 => e \in ToSet(Replay(streams, Cursor(c)))

\* An event in a stream's history was received on that stream, or waits for each
\* of the stream's clients, or fell between a GET's answer and its subscription.
DeliveredOrReplayed ==
  \A s \in Live : LET streams == sessions[s].streams IN
    \A i \in DOMAIN streams : \A e \in ToSet(streams[i].log) :
      LET on == {c \in Conn : conns[c] # Nothing /\ conns[c].session = s /\ conns[c].stream = streams[i].id}
      IN  (\E c \in on : e \in Got(c) \/ InWindow(c, e)) \/ (\A c \in on : Waits(c, e, streams, i))

\* Termination aborts every dispatch the session still runs.
TerminatedIsAborted ==
  \A k \in Request : calls[k] # Nothing /\ calls[k].running /\ calls[k].session \in dropped => calls[k].aborted

\* A client that listed the tools, with no read pending or failed, has the
\* current list or a change was announced since; and if a transport was attached
\* when it was, one of the session's received it.
ListIsCurrent ==
  \A s \in Live :
    LET r == sessions[s]
    IN  r.reads = <<>> /\ r.listed # Nothing /\ ~r.unread =>
          \/ r.listed = Digest(toolset)
          \/ /\ 0 < r.notice /\ r.notice < r.next
             /\ (\E c \in Conn : /\ conns[c] # Nothing /\ conns[c].session = s
                                 /\ conns[c].state = "attached" /\ conns[c].joined <= r.notice) =>
                  \E c \in Conn : conns[c] # Nothing /\ conns[c].session = s /\ r.notice \in Got(c)
=============================================================================
