------------------------------ MODULE Presence ------------------------------
(***************************************************************************)
(* Ephemeral presence (packages/sync/src/presence.ts): each peer sets its  *)
(* value, the server stamps and fans it out, and every peer drops what was *)
(* not refreshed for a ttl.  Age stands for the time since an update.      *)
(***************************************************************************)
EXTENDS Naturals, Sequences, FiniteSets

CONSTANTS Peer,
          Watching,    \* peers whose application runs the changes stream, and closes its presence (bound)
          Ttl,         \* options.ttl, in ticks of the Clock
          MaxUpdates,  \* bound: values each peer sets
          Nothing

VARIABLES peers,    \* peer -> [other peer -> [value, age] or Nothing]
          bus,      \* peer -> frames on their way to it, in order
          joined,   \* connections the hub holds
          closed,   \* peers whose presence was closed
          updates,  \* peer -> values it has set
          silent,   \* peers that crashed
          signal,   \* peers whose set changed since their stream emitted
          shown,    \* peer -> what its changes stream emitted last
          reading   \* peer -> its changes stream: none, first, subscribed, current

presenceVars == <<peers, bus, joined, closed, updates, silent, signal, shown, reading>>

\* A value names who set it and the how-manieth it was.
Value == [by : Peer, nth : Nat]
Entry == [value : Value, age : Nat]

Up(p) == p \notin closed \cup silent

Fresh(entry) == entry # Nothing /\ entry.age <= Ttl

\* peers: what is listed of an entry, stale ones excluded.
Listed(p) == {q \in Peer : Fresh(peers[p][q])}

Values(p) == [q \in Listed(p) |-> peers[p][q].value]

\* notify: the signal reaches a stream that has subscribed, and slides.
Notify(p) == signal' = IF reading[p] \in {"subscribed", "current"} THEN signal \cup {p} ELSE signal

(***************************************************************************)
(* The hub and the sockets.                                                *)
(***************************************************************************)

\* servePresence: the connection owns the identity; every joined peer gets the frame.
Fan(p, value) ==
  bus' = [q \in Peer |-> IF q \in joined THEN Append(bus[q], [id |-> p, from |-> p, value |-> value]) ELSE bus[q]]

Publish(p, value) == IF p \in joined THEN Fan(p, value) ELSE UNCHANGED bus

\* A connection is cut for good: what is on its way is lost, nobody is told.
Disconnect(p) ==
  /\ p \in joined
  /\ joined' = joined \ {p} /\ bus' = [bus EXCEPT ![p] = <<>>]
  /\ UNCHANGED <<peers, closed, updates, silent, signal, shown, reading>>

(***************************************************************************)
(* createPresence.                                                         *)
(***************************************************************************)

Put(p, id, value) == peers' = [peers EXCEPT ![p][id] = [value |-> value, age |-> 0]]

\* set: this peer's own entry, the broadcast, the signal.
SetValue(p) ==
  /\ Up(p) /\ updates[p] < MaxUpdates
  /\ updates' = [updates EXCEPT ![p] = @ + 1]
  /\ LET value == [by |-> p, nth |-> updates'[p]] IN Put(p, p, value) /\ Publish(p, value)
  /\ Notify(p)
  /\ UNCHANGED <<joined, closed, silent, shown, reading>>

\* leave: the entry goes, the departure is broadcast.
LeavePeers(p) ==
  /\ Up(p) /\ peers[p][p] # Nothing
  /\ peers' = [peers EXCEPT ![p][p] = Nothing]
  /\ Publish(p, Nothing) /\ Notify(p)
  /\ UNCHANGED <<joined, closed, updates, silent, shown, reading>>

\* Mutant: a departure of a peer is not told.
ReceiveSilently(p) ==
  /\ Up(p) /\ bus[p] # <<>>
  /\ bus' = [bus EXCEPT ![p] = Tail(@)]
  /\ LET frame == Head(bus[p])
     IN  IF frame.id = p THEN UNCHANGED <<peers, signal>>
         ELSE IF frame.value = Nothing THEN peers' = [peers EXCEPT ![p][frame.id] = Nothing] /\ UNCHANGED signal
         ELSE Put(p, frame.id, frame.value) /\ Notify(p)
  /\ UNCHANGED <<joined, closed, updates, silent, shown, reading>>

\* receive: an echo is ignored, a departure removes, a value is stored with the time.
Receive(p) ==
  /\ Up(p) /\ bus[p] # <<>>
  /\ bus' = [bus EXCEPT ![p] = Tail(@)]
  /\ LET frame == Head(bus[p])
     IN  \/ frame.id = p /\ UNCHANGED <<peers, signal>>
         \/ /\ frame.id # p /\ frame.value = Nothing
            /\ peers' = [peers EXCEPT ![p][frame.id] = Nothing]
            /\ IF peers[p][frame.id] # Nothing THEN Notify(p) ELSE UNCHANGED signal
         \/ frame.id # p /\ frame.value # Nothing /\ Put(p, frame.id, frame.value) /\ Notify(p)
  /\ UNCHANGED <<joined, closed, updates, silent, shown, reading>>

\* prune: expired entries go, and are told.
Prune(p) ==
  /\ Up(p) /\ \E q \in Peer : peers[p][q] # Nothing /\ ~Fresh(peers[p][q])
  /\ peers' = [peers EXCEPT ![p] = [q \in Peer |-> IF Fresh(@[q]) THEN @[q] ELSE Nothing]]
  /\ Notify(p)
  /\ UNCHANGED <<bus, joined, closed, updates, silent, shown, reading>>

\* close: the channel is no longer consumed, the stream ends.
ClosePresence(p) ==
  /\ p \in Watching /\ p \notin closed
  /\ closed' = closed \cup {p} /\ signal' = signal \ {p}
  /\ UNCHANGED <<peers, bus, joined, updates, silent, shown, reading>>

\* The process dies, and its connection with it.
Fall(p) ==
  /\ p \notin silent
  /\ silent' = silent \cup {p} /\ joined' = joined \ {p} /\ bus' = [bus EXCEPT ![p] = <<>>]
  /\ UNCHANGED <<peers, closed, updates, signal, shown, reading>>

\* changes: the current peers, once; the signals are subscribed to after that.
EmitFirst(p) ==
  /\ Up(p) /\ p \in Watching /\ reading[p] = "none"
  /\ reading' = [reading EXCEPT ![p] = "first"] /\ shown' = [shown EXCEPT ![p] = Values(p)]
  /\ UNCHANGED <<peers, bus, joined, closed, updates, silent, signal>>

Subscribe(p) ==
  /\ Up(p) /\ reading[p] = "first"
  /\ reading' = [reading EXCEPT ![p] = "subscribed"]
  /\ UNCHANGED <<peers, bus, joined, closed, updates, silent, signal, shown>>

\* The current peers again for a signal.
Emit(p) ==
  /\ Up(p) /\ p \in signal
  /\ reading' = [reading EXCEPT ![p] = "current"] /\ signal' = signal \ {p}
  /\ shown' = [shown EXCEPT ![p] = Values(p)]
  /\ UNCHANGED <<peers, bus, joined, closed, updates, silent>>

\* Time passes.
Tick ==
  /\ peers' = [p \in Peer |-> [q \in Peer |-> IF peers[p][q] = Nothing THEN Nothing
                                              ELSE [peers[p][q] EXCEPT !.age = IF @ <= Ttl THEN @ + 1 ELSE @]]]
  /\ UNCHANGED <<bus, joined, closed, updates, silent, signal, shown, reading>>

Init ==
  /\ peers = [p \in Peer |-> [q \in Peer |-> Nothing]]
  /\ bus = [p \in Peer |-> <<>>] /\ joined = Peer
  /\ closed = {} /\ silent = {} /\ signal = {} /\ reading = [p \in Peer |-> "none"]
  /\ updates = [p \in Peer |-> 0]
  /\ shown = [p \in Peer |-> [q \in {} |-> 0]]

Next ==
  \/ \E p \in DOMAIN bus :
       SetValue(p) \/ LeavePeers(p) \/ Receive(p) \/ Prune(p) \/ EmitFirst(p) \/ Subscribe(p) \/ Emit(p)
         \/ ClosePresence(p) \/ Fall(p) \/ Disconnect(p)
  \/ Tick

Spec == Init /\ [][Next]_presenceVars

\* Time passes and every peer consumes its channel.
Receives == \E p \in DOMAIN bus : Receive(p)

Fairness == WF_presenceVars(Tick) /\ WF_presenceVars(Receives)

(***************************************************************************)
(* Properties.                                                             *)
(***************************************************************************)

\* A peer cannot put a value under another's name: whatever is stored under an
\* id was set by that peer.
NobodyIsImpersonated ==
  \A p, q \in DOMAIN bus : peers[p][q] # Nothing => peers[p][q].value.by = q

\* Once the changes stream has answered a signal and has none left, what it
\* emitted last is what is stored, but for what expired since.
ChangesAreShown ==
  \A p \in DOMAIN bus : Up(p) /\ reading[p] = "current" /\ p \notin signal =>
    \A q \in DOMAIN bus : /\ Fresh(peers[p][q]) => q \in DOMAIN shown[p] /\ shown[p][q] = peers[p][q].value
                          /\ peers[p][q] = Nothing => q \notin DOMAIN shown[p]

\* A peer that crashed is not listed for ever.
SilentAreDropped == \A q \in Peer : q \in silent ~> \A p \in Peer \ {q} : Up(p) => q \notin Listed(p)
=============================================================================
