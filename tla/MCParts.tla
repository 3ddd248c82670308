------------------------------ MODULE MCParts ------------------------------
(***************************************************************************)
(* Small instances of the parts of packages/sync around the replica for    *)
(* TLC, side by side: the part that runs is chosen initially, the others   *)
(* rest in their initial state.                                            *)
(***************************************************************************)
EXTENDS SyncParts, TLC

CONSTANTS k1, k2, k3

VARIABLE part

\* Two clocks over the storage of one replica, one over that of another.
Homes == k1 :> 1 @@ k2 :> 1 @@ k3 :> 2

\* Update functions: what each part of the Model becomes, and whether a Command is returned.
Bit == {0, 1}
Change == {"keep", "set", "local", "half"}
Value(change, old, m) ==
  CASE change = "keep" -> old [] change = "set" -> 1 [] change = "local" -> m.local [] change = "half" -> m.half
Updates == {[m \in [shared : Bit, half : Bit, rest : Bit, local : Bit] |->
               [model |-> [shared |-> Value(how.shared, m.shared, m), half |-> m.half,
                           rest |-> Value(how.rest, m.rest, m), local |-> Value(how.local, m.local, m)],
                commands |-> how.commands]] :
            how \in [shared : Change, rest : Change, local : {"keep", "set"}, commands : Bit]}
Identity == [m \in [shared : Bit, half : Bit, rest : Bit, local : Bit] |-> [model |-> m, commands |-> 0]]
Fragments == [fields : {{[name |-> "f", codec |-> 1]}, {[name |-> "f", codec |-> 2]}, {[name |-> "g", codec |-> 1]}},
              tags : {{"a"}, {"b"}, {"a", "b"}}, owner : {"app", "other"}]
Whole == [fields |-> {[name |-> "f", codec |-> 1]}, tags |-> {"a"}, owner |-> "app"]

socketVars == <<outcome, queued, inFlight, link, retries, terminal, disposed, wire, replies, sent>>
mountVars == <<slice, inbox, stage, persisting, committed, outbox, rejected, signal, seen, mount, awaited, asked>>
presenceVars == <<peers, bus, joined, gone, updates, silent, signals, shown, reading>>
authoringVars == <<update, fragments, defined, model, replica, steps>>

PartsInit(parts) ==
  /\ part \in parts
  /\ Socket!Init /\ Init /\ Mount!Init /\ Peers!Init
  /\ IF part = "authoring" THEN Authoring!Init /\ (update = Identity \/ fragments = <<Whole>>)
     ELSE update = Identity /\ fragments = <<Whole>> /\ defined = Nothing /\ model = [shared |-> 0, half |-> 0, rest |-> 0, local |-> 0]
          /\ replica = [shared |-> 0, half |-> 0] /\ steps = [count |-> 0, from |-> model, taken |-> "none"]

SocketSteps    == part = "socket" /\ Socket!Next /\ UNCHANGED <<part, clockVars, mountVars, presenceVars, authoringVars>>
\* Two clocks over one storage, without registers; one clock over each of two.
ClockSteps     == /\ Next
                  /\ \/ part = "clock" /\ UNCHANGED <<clock[k3], held, merged>>
                     \/ part = "merges" /\ UNCHANGED clock[k2]
                  /\ UNCHANGED <<part, socketVars, mountVars, presenceVars, authoringVars>>
MountSteps     == part = "mount" /\ Mount!Next /\ UNCHANGED <<part, socketVars, clockVars, presenceVars, authoringVars>>
PresenceSteps  == part = "presence" /\ Peers!Next /\ UNCHANGED <<part, socketVars, clockVars, mountVars, authoringVars>>
AuthoringSteps == part = "authoring" /\ Authoring!Next /\ UNCHANGED <<part, socketVars, clockVars, mountVars, presenceVars>>

PartsNext == SocketSteps \/ ClockSteps \/ MountSteps \/ PresenceSteps \/ AuthoringSteps

partsVars == <<part, socketVars, clockVars, mountVars, presenceVars, authoringVars>>

\* Only the part that runs can be asked for progress.
PartsSpec ==
  /\ PartsInit({"socket", "clock", "merges", "mount", "presence", "authoring"}) /\ [][PartsNext]_partsVars
  /\ WF_socketVars(part = "socket" /\ Socket!Progress)
  /\ WF_mountVars(part = "mount" /\ Mount!Progress)
  /\ WF_presenceVars(part = "presence" /\ Peers!Tick) /\ WF_presenceVars(part = "presence" /\ Peers!Receives)

MountSpec == PartsInit({"mount"}) /\ [][PartsNext]_partsVars

\* Every exchange ends, every dispatched edit settles, and a peer that crashed
\* is dropped.
EveryoneIsAnswered == Socket!EveryExchangeEnds /\ Mount!EveryEditSettles /\ Peers!SilentAreDropped
=============================================================================
