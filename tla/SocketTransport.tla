-------------------------- MODULE SocketTransport --------------------------
(***************************************************************************)
(* The WebSocket client transport (packages/sync/src/transport.ts,         *)
(* layerSocket): exchanges are numbered frames, queued while no connection *)
(* is ready, sent again with their number on the next connection, and      *)
(* failed once no fiber is left to serve them.                             *)
(***************************************************************************)
EXTENDS Naturals, Sequences, SequencesExt

CONSTANTS MaxFrames,   \* bound: exchanges called
          MaxQueue,    \* options.maxQueue
          MaxRetries   \* options.maxRetries

VARIABLES outcome,   \* frame -> "none", "waiting", or how its exchange ended
          queued,    \* frames waiting for a connection, in order
          inFlight,  \* frames sent and unanswered, in order of sending
          link,      \* the connection: backoff, connecting, ready, closed, gone
          retries,   \* attempts the retry schedule has spent
          terminal,  \* terminalError is set
          disposed,
          wire,      \* frames of this connection the server has not answered
          replies,   \* replies on their way back on this connection
          sent       \* history: the frames this connection carried, in order

socketVars == <<outcome, queued, inFlight, link, retries, terminal, disposed, wire, replies, sent>>

Frame == 1 .. MaxFrames

Waiting == {f \in Frame : outcome[f] = "waiting"}

\* The frames go out on the connection.
Flush(frames) ==
  /\ inFlight' = inFlight \o frames
  /\ wire' = wire \o frames
  /\ sent' = sent \o frames

\* What was sent goes out again before what is queued.
Requeue == queued' = inFlight \o queued /\ inFlight' = <<>>

\* failAll: whoever waits is failed.
FailAll ==
  /\ outcome' = [f \in Frame |-> IF f \in ToSet(queued \o inFlight) THEN "failed" ELSE outcome[f]]
  /\ queued' = <<>> /\ inFlight' = <<>>

\* splice of the frame's one entry, where there is one.
Removed(next, frames, f) ==
  IF f \in ToSet(frames) THEN \E i \in DOMAIN frames : frames[i] = f /\ next = RemoveAt(frames, i)
  ELSE next = frames

\* exchange: refused without a connection to come or a free slot, else sent or queued.
Exchange(f) ==
  /\ outcome[f] = "none" /\ \A g \in Frame : g < f => outcome[g] # "none"
  /\ IF disposed \/ terminal \/ Len(queued) + Len(inFlight) >= MaxQueue
     THEN outcome' = [outcome EXCEPT ![f] = "refused"] /\ UNCHANGED <<queued, inFlight, wire, sent>>
     ELSE /\ outcome' = [outcome EXCEPT ![f] = "waiting"]
          /\ IF link = "ready" THEN Flush(<<f>>) /\ UNCHANGED queued
             ELSE queued' = Append(queued, f) /\ UNCHANGED <<inFlight, wire, sent>>
  /\ UNCHANGED <<link, retries, terminal, disposed, replies>>

\* The caller is interrupted: its slot is free, whatever the server answers.
Interrupt(f) ==
  /\ outcome[f] = "waiting"
  /\ outcome' = [outcome EXCEPT ![f] = "interrupted"]
  /\ Removed(queued', queued, f) /\ Removed(inFlight', inFlight, f)
  /\ UNCHANGED <<link, retries, terminal, disposed, wire, replies, sent>>

\* The connect fiber makes a socket.
Connect ==
  /\ link = "backoff"
  /\ link' = "connecting"
  /\ sent' = <<>>
  /\ UNCHANGED <<outcome, queued, inFlight, retries, terminal, disposed, wire, replies>>

\* Mutant: opening sends nothing.
OpenSilently ==
  /\ link = "connecting" /\ link' = "ready"
  /\ UNCHANGED <<outcome, queued, inFlight, wire, sent, retries, terminal, disposed, replies>>

\* Mutant: the queue is taken from its end.
OpenBackwards ==
  /\ link = "connecting"
  /\ link' = "ready"
  /\ Flush(Reverse(queued)) /\ queued' = <<>>
  /\ UNCHANGED <<outcome, retries, terminal, disposed, replies>>

\* onOpen: the queue is flushed.
Open ==
  /\ link = "connecting"
  /\ link' = "ready"
  /\ Flush(queued) /\ queued' = <<>>
  /\ UNCHANGED <<outcome, retries, terminal, disposed, replies>>

\* onClose: every unanswered frame is kept for the next connection.
CloseSocket ==
  /\ link \in {"connecting", "ready"}
  /\ link' = "closed"
  /\ Requeue
  /\ wire' = <<>> /\ replies' = {}
  /\ UNCHANGED <<outcome, retries, terminal, disposed, sent>>

\* The rejected connect is retried, or the schedule is exhausted.
Retry ==
  /\ link = "closed"
  /\ IF retries < MaxRetries
     THEN /\ link' = "backoff" /\ retries' = retries + 1
          /\ UNCHANGED <<outcome, queued, inFlight, terminal>>
     ELSE link' = "gone" /\ terminal' = TRUE /\ FailAll /\ UNCHANGED retries
  /\ UNCHANGED <<disposed, wire, replies, sent>>

\* The server answers one of the frames it received, in any order.
Serve ==
  \E f \in ToSet(wire), how \in {"answered", "answered with an error"} :
    /\ wire' = Remove(wire, f)
    /\ replies' = replies \cup {<<f, how>>}
    /\ UNCHANGED <<outcome, queued, inFlight, link, retries, terminal, disposed, sent>>

\* onMessage: a reply to a frame nobody waits for is ignored.
Reply ==
  \E r \in replies :
    /\ replies' = replies \ {r}
    /\ IF r[1] \in ToSet(inFlight)
       THEN outcome' = [outcome EXCEPT ![r[1]] = r[2]] /\ Removed(inFlight', inFlight, r[1])
       ELSE UNCHANGED <<outcome, inFlight>>
    /\ UNCHANGED <<queued, link, retries, terminal, disposed, wire, sent>>

\* The layer's scope ends: the fiber is interrupted, the finalizer runs.
Dispose ==
  /\ ~disposed
  /\ disposed' = TRUE /\ link' = "gone"
  /\ FailAll
  /\ wire' = <<>> /\ replies' = {}
  /\ UNCHANGED <<retries, terminal, sent>>

Init ==
  /\ outcome = [f \in Frame |-> "none"]
  /\ queued = <<>> /\ inFlight = <<>>
  /\ link = "backoff" /\ retries = 0
  /\ terminal = FALSE /\ disposed = FALSE
  /\ wire = <<>> /\ replies = {} /\ sent = <<>>

Next ==
  \/ \E f \in Frame : Exchange(f) \/ Interrupt(f)
  \/ Connect \/ Open \/ CloseSocket \/ Retry \/ Serve \/ Reply \/ Dispose

Spec == Init /\ [][Next]_socketVars

\* The connect fiber goes on, a connection attempt opens or closes, and the
\* server answers what it receives; callers and faults are free.
Progress == Connect \/ Open \/ Retry \/ Serve \/ Reply

Fairness == WF_socketVars(Progress)

FairSpec == Spec /\ Fairness

(***************************************************************************)
(* Properties.                                                             *)
(***************************************************************************)

\* Whoever waits holds exactly one slot of the queue and every slot has somebody
\* who waits: nothing is lost by a reconnect, and abandoned exchanges do not
\* exhaust maxQueue.
SlotsAreWaiting ==
  LET held == queued \o inFlight
  IN  ToSet(held) = Waiting /\ Len(held) <= MaxQueue /\ \A i, j \in DOMAIN held : held[i] = held[j] => i = j

\* A connection carries the exchanges in the order they were called, those it
\* sends again included.
WireInOrder == \A i, j \in DOMAIN sent : i < j => sent[i] < sent[j]

\* Nobody waits once no fiber is left to serve the queue.
NobodyWaitsForNothing == link = "gone" => Waiting = {}

\* Every exchange ends, if the server answers what reaches it (each is made
\* once).
EveryExchangeEnds == (Waiting # {}) ~> (Waiting = {})
=============================================================================
