---------------------------- MODULE SharedMount ----------------------------
(***************************************************************************)
(* Sync.mount (packages/sync/src/mount.ts): an application whose durable   *)
(* Messages apply at once and are persisted by a Command, while exchanges  *)
(* of the replica change what it holds.                                    *)
(*                                                                         *)
(* A shared value is the sequence of the edits applied to it.  Foldkit's   *)
(* runtime is external: it processes one Message at a time and runs each   *)
(* Command in a fiber of its own.                                          *)
(***************************************************************************)
EXTENDS Naturals, Sequences, FiniteSets, SequencesExt

CONSTANTS Edit,       \* durable Messages of this application
          Remote,     \* edits other replicas commit
          Nothing

VARIABLES slice,      \* the shared slice of the Model
          inbox,      \* Messages the runtime has not processed, in order
          stage,      \* edit -> where it stands
          inFlight,   \* edits whose persist is tracked
          committed,  \* the replica's committed value
          outbox,     \* the replica's pending edits
          rejected,   \* status.rejected, how many
          signal,     \* the replica published a status nobody took
          seen,       \* the last status of statusChanges, or Nothing
          mount,      \* the mount: up, disposing, disposed
          awaited,    \* edits dispose waits for
          asked       \* history: edits whose persist ran when dispose was called

mountVars == <<slice, inbox, stage, inFlight, committed, outbox, rejected, signal, seen, mount, awaited, asked>>

\* replica.shared: the optimistic projection.
Shared == committed \o outbox

Status == [cursor |-> Len(committed), rejected |-> rejected]

\* Mutant: only the cursor is compared.
SharedChangedCursor(previous, next) == previous = Nothing \/ previous.cursor # next.cursor

SharedChanged(previous, next) ==
  previous = Nothing \/ previous.cursor # next.cursor \/ previous.rejected # next.rejected

\* The replica is idle but for what the mount asks of it.
ReplicaRests == UNCHANGED <<committed, outbox, rejected, signal>>

\* dispatch: the Message enters the runtime's queue.
Dispatch(e) ==
  /\ stage[e] = "none" /\ mount # "disposed"
  /\ stage' = [stage EXCEPT ![e] = "dispatched"]
  /\ inbox' = Append(inbox, [tag |-> "edit", edit |-> e])
  /\ UNCHANGED <<slice, inFlight, seen, mount, awaited, asked>> /\ ReplicaRests

\* The slice after update: the application's reducer, or the replica's value again.
Updated(message) ==
  CASE message.tag = "edit" -> Append(slice, message.edit)
    [] message.tag \in {"refresh", "failed"} -> Shared
    [] message.tag = "persisted" -> slice

\* The runtime processes one Message; an edit's persist Command is due.
Process ==
  /\ inbox # <<>> /\ mount # "disposed"
  /\ inbox' = Tail(inbox)
  /\ slice' = Updated(Head(inbox))
  /\ stage' = IF Head(inbox).tag = "edit" THEN [stage EXCEPT ![Head(inbox).edit] = "due"] ELSE stage
  /\ UNCHANGED <<inFlight, seen, mount, awaited, asked>> /\ ReplicaRests

\* The Command's fiber starts: the persist is tracked and waits for the replica's lock.
Start(e) ==
  /\ stage[e] = "due" /\ mount # "disposed"
  /\ stage' = [stage EXCEPT ![e] = "submitting"]
  /\ inFlight' = Append(inFlight, e)
  /\ UNCHANGED <<slice, inbox, seen, mount, awaited, asked>> /\ ReplicaRests

\* replica.submit settles, in the order of the lock: persisted, or refused.
Persist ==
  /\ inFlight # <<>> /\ mount # "disposed"
  /\ LET e == Head(inFlight)
     IN  /\ inFlight' = Tail(inFlight)
         /\ \/ /\ stage' = [stage EXCEPT ![e] = "pending"]
               /\ outbox' = Append(outbox, e) /\ signal' = TRUE
               /\ inbox' = Append(inbox, [tag |-> "persisted", edit |-> e])
            \/ /\ stage' = [stage EXCEPT ![e] = "refused"]
               /\ inbox' = Append(inbox, [tag |-> "failed", edit |-> e])
               /\ UNCHANGED <<outbox, signal>>
  /\ UNCHANGED <<slice, committed, rejected, seen, mount, awaited, asked>>

\* The rest keeps the order of the entries.
InOrderOf(rest, entries) ==
  \A i, j \in DOMAIN rest, k, l \in DOMAIN entries :
    rest[i] = entries[k] /\ rest[j] = entries[l] /\ k < l => i < j

\* An exchange of the replica: the server committed edits of others and some of
\* the outbox, and rejected others.
Exchange ==
  \E n \in 0 .. Len(outbox), theirs \in {<<>>} \cup {<<x>> : x \in Remote \ ToSet(committed)} :
    LET answered == SubSeq(outbox, 1, n)
    IN  \E drop \in SUBSET ToSet(answered) : \E kept \in SetToSeqs(ToSet(answered) \ drop) :
          /\ n > 0 \/ theirs # <<>>
          /\ InOrderOf(kept, answered)
          /\ committed' = committed \o theirs \o kept
          /\ outbox' = SubSeq(outbox, n + 1, Len(outbox))
          /\ rejected' = rejected + Cardinality(drop)
          /\ stage' = [e \in Edit |-> IF e \in drop THEN "rejected"
                                      ELSE IF e \in ToSet(answered) THEN "committed" ELSE stage[e]]
          /\ signal' = TRUE
          /\ UNCHANGED <<slice, inbox, inFlight, seen, mount, awaited, asked>>

\* The refresh Subscription takes a status: the first, and each signalled one.
TakeStatus ==
  /\ signal \/ seen = Nothing
  /\ mount # "disposed"
  /\ seen' = Status
  /\ signal' = FALSE
  /\ inbox' = IF SharedChanged(seen, Status) THEN Append(inbox, [tag |-> "refresh", edit |-> Nothing]) ELSE inbox
  /\ UNCHANGED <<slice, stage, inFlight, committed, outbox, rejected, mount, awaited, asked>>

\* dispose: the persists in flight now are waited for.
Dispose ==
  /\ mount = "up"
  /\ mount' = "disposing" /\ awaited' = ToSet(inFlight) /\ asked' = ToSet(inFlight)
  /\ UNCHANGED <<slice, inbox, stage, inFlight, seen>> /\ ReplicaRests

\* handle.dispose: every fiber of the runtime is interrupted.
Disposed ==
  /\ mount = "disposing" /\ awaited \cap ToSet(inFlight) = {}
  /\ mount' = "disposed" /\ inbox' = <<>> /\ inFlight' = <<>>
  /\ stage' = [e \in Edit |-> IF stage[e] \in {"dispatched", "due"} THEN "dropped"
                              ELSE IF stage[e] = "submitting" THEN "interrupted" ELSE stage[e]]
  /\ UNCHANGED <<slice, seen, awaited, asked>> /\ ReplicaRests

Init ==
  /\ committed = <<>> /\ outbox = <<>> /\ rejected = 0 /\ signal = FALSE
  /\ slice = Shared
  /\ inbox = <<>> /\ stage = [e \in Edit |-> "none"] /\ inFlight = <<>>
  /\ seen = Nothing /\ mount = "up" /\ awaited = {} /\ asked = {}

Next ==
  \/ \E e \in DOMAIN stage : Dispatch(e) \/ Start(e)
  \/ Process \/ Persist \/ Exchange \/ TakeStatus \/ Dispose \/ Disposed

Spec == Init /\ [][Next]_mountVars

\* The runtime, the Commands' fibers and the Subscription run.
Progress == Process \/ Persist \/ TakeStatus \/ Disposed \/ \E e \in DOMAIN stage : Start(e)

Fairness == WF_mountVars(Progress)

(***************************************************************************)
(* Properties.                                                             *)
(***************************************************************************)

Quiet == mount = "up" /\ inbox = <<>> /\ inFlight = <<>> /\ ~signal /\ \A e \in DOMAIN stage : stage[e] # "due"

\* Once the replica has nothing pending and the runtime nothing to do, the Model
\* shows what was committed: refused and rejected edits are taken back, others'
\* edits are there.
CommittedIsShown == Quiet /\ outbox = <<>> /\ seen # Nothing => slice = committed

\* docs/sync-runtime-binding.md: the slice is reconciled when the replica's state
\* differs from the local one; whenever the runtime has nothing to do, the Model
\* shows what the replica holds.
SettledIsShown == Quiet /\ seen # Nothing => slice = Shared

\* Disposal interrupts no persist that was running when it was asked for.
DisposeWaits == mount = "disposed" => \A e \in asked : stage[e] # "interrupted"

Unsettled == {e \in Edit : stage[e] \in {"dispatched", "due", "submitting"}}

\* An edit that was dispatched is persisted, refused, or taken down with the
\* mount (each edit is dispatched once).
EveryEditSettles == (Unsettled # {}) ~> (Unsettled = {})
=============================================================================
