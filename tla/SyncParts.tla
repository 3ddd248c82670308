----------------------------- MODULE SyncParts -----------------------------
(***************************************************************************)
(* The parts of packages/sync around the replica, side by side: the clock  *)
(* of last-writer-wins fields (extended), the socket transport, the mount, *)
(* presence and authoring as instances.  Each has variables of its own.    *)
(* The properties of the parts are stated and explained in their modules;  *)
(* here they are put together for the runs and the theorems.               *)
(***************************************************************************)
EXTENDS LwwClock, Sequences

CONSTANTS MaxFrames, MaxQueue, MaxRetries,
          Edit, Remote,
          Peer, Watching, Ttl, MaxUpdates,
          Update, Fragment, Owner

VARIABLES outcome, queued, inFlight, link, retries, terminal, disposed, wire, replies, sent,
          slice, inbox, stage, persisting, committed, outbox, rejected, signal, seen, mount, awaited, asked,
          peers, bus, joined, gone, updates, silent, signals, shown, reading,
          update, fragments, defined, model, replica, steps

Socket    == INSTANCE SocketTransport
Mount     == INSTANCE SharedMount WITH inFlight <- persisting
Peers     == INSTANCE Presence WITH closed <- gone, signal <- signals
Authoring == INSTANCE SyncAuthoring

ASSUME SocketAssumption == MaxFrames \in Nat /\ MaxQueue \in Nat

\* undefined is no status, no presence entry and no value.
ASSUME PartsAssumption ==
  Nothing \notin [cursor : Nat, rejected : Nat] \cup Peers!Entry \cup Peers!Value

\* An update function maps a Model to a Model and its Commands.
ASSUME AuthoringAssumption ==
  /\ Update \subseteq [Authoring!Model -> [model : Authoring!Model, commands : Nat]]
  /\ Nothing \notin [shared : Authoring!Bit, half : Authoring!Bit]

\* SocketTransport: every slot of the queue has one exchange that waits, a
\* connection carries exchanges in the order of their calls, and nobody waits
\* for a transport that is gone.
SocketCarries == Socket!SlotsAreWaiting /\ Socket!WireInOrder /\ Socket!NobodyWaitsForNothing

\* SharedMount: with nothing pending the Model shows what was committed, and
\* dispose interrupts no persist that was running.
MountAgrees == Mount!CommittedIsShown /\ Mount!DisposeWaits

\* SharedMount: the Model shows what the replica holds (violated).
SettledIsShown == Mount!SettledIsShown

\* Presence: no peer speaks for another, and changes show what is stored.
PresenceIsTrue == Peers!NobodyIsImpersonated /\ Peers!ChangesAreShown

\* SyncAuthoring: a recorded Message belongs to one fragment and did nothing
\* that its replay would lose.
AuthoringIsSound == Authoring!TagsHaveOneFragment /\ Authoring!ReplayLosesNothing
=============================================================================
