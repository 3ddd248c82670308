----------------------------- MODULE SyncSystem -----------------------------
(***************************************************************************)
(* One document replicated by foldkit-sync: replicas with a persisted      *)
(* outbox (packages/sync/src/sync.ts, indexedDb.ts), opened by one or more *)
(* handles (tabs), exchanging over a transport that may fail, delay or     *)
(* repeat a frame with a document server that appends every operation to   *)
(* its durable journal (examples/sync/src/journal.ts).                     *)
(***************************************************************************)
EXTENDS JournalTables, FiniteSets

CONSTANTS Replica,       \* replica identities: one storage and one actor each
          Reader,        \* those whose principal has canWrite = false
          Handle,        \* opened replicas: a tab each
          Home,          \* the replica whose storage a handle opened
          Fiber,         \* fibers that call a handle's `synchronize`
          Tab,           \* the handle a fiber belongs to
          Slot,          \* exchange requests the server handles concurrently
          Producer,      \* the producer label of appendAsServer
          Nothing,       \* undefined
          Window,        \* COMMITTED_ID_WINDOW (1024)
          MaxLocal,      \* bound: operations one replica submits
          MaxServer,     \* bound: operations the server writes itself
          Faulty,        \* may exchanges fail, jobs vanish, saves be interrupted?
          Evictable      \* may the browser evict a closed replica's storage?

\* Bound: no more operations than these are committed.
MaxCursor == MaxServer + MaxLocal * Cardinality(Replica)

ASSUME SyncAssumption ==
  /\ Actor = Replica \cup {Producer} /\ Producer \notin Replica
  /\ OpId = (Replica \X (1..MaxLocal)) \cup ({Producer} \X (1..MaxCursor))
  /\ Reader \subseteq Replica
  /\ Home \in [Handle -> Replica] /\ Tab \in [Fiber -> Handle]
  /\ Window \in Nat \ {0} /\ Faulty \in BOOLEAN /\ Evictable \in BOOLEAN
  /\ IsFiniteSet(Replica) /\ MaxLocal \in Nat /\ MaxServer \in Nat

\* What a replica persists, what an exchange sends, and a save under the lock
\* with the fiber it is for, if it is not submit's.
ReplicaState ==
  [next : 1..(MaxLocal + 1), cursor : Nat, committed : Seq(Operation),
   ids : Seq(OpId), pending : Seq(Operation)]
Exchange == [cursor : Nat, pending : Seq(Operation)]
SaveState == [state : ReplicaState, by : Fiber \cup {Nothing}, latest : BOOLEAN]

ASSUME NothingAssumption == Nothing \notin Fiber \cup ReplicaState \cup Exchange \cup SaveState

VARIABLES tables,    \* the server's journal tables
          disk,      \* replica -> its persisted state, or Nothing
          mem,       \* handle -> stateRef, or Nothing while the handle is closed
          current,   \* handle -> its revision is the one on disk
          saving,    \* handle -> the save in progress under the lock, or Nothing
          sent,      \* fiber -> the cursor and outbox its exchange sent, or Nothing
          wake,      \* handle -> the wake queue holds a token
          job,       \* slot -> the exchange request the server is handling
          issued,    \* history: operations persisted by submit
          refused,   \* history: ids dropped from an outbox as rejected
          evicted    \* history: replicas whose storage was evicted

client == <<disk, mem, current, saving, sent, wake>>
past == <<issued, refused, evicted>>
vars == <<tables, disk, mem, current, saving, sent, wake, job, issued, refused, evicted>>

Ids(ops) == {ops[i].id : i \in DOMAIN ops}

\* The operations with none of these ids, in their order.
Without(ops, ids) ==
  LET kept == {i \in DOMAIN ops : ops[i].id \notin ids}
      Rank(i) == Cardinality(kept \cap 1..i)
  IN  [n \in 1..Cardinality(kept) |-> ops[CHOOSE i \in kept : Rank(i) = n]]

\* definition.replay refuses what the journal's reduce refuses: journalContract
\* hands the same function to both.
Replays(model, op, r) == Accept(model, op, r) # "invalid"

Initial == [next |-> 1, cursor |-> 0, committed |-> <<>>, ids |-> <<>>, pending |-> <<>>]

\* The projection: committed state with the outbox replayed on top.
Optimistic(s) == s.committed \o s.pending

\* The whole outbox replays; `optimistic` throws otherwise.
Projects(s, r) ==
  \A i \in DOMAIN s.pending :
    Replays(s.committed \o SubSeq(s.pending, 1, i - 1), s.pending[i], r)

Free == [to |-> Nothing, phase |-> "free"]

Init ==
  /\ tables = Empty
  /\ disk = [r \in Replica |-> Nothing]
  /\ mem = [h \in Handle |-> Nothing]
  /\ current = [h \in Handle |-> FALSE]
  /\ saving = [h \in Handle |-> Nothing]
  /\ sent = [f \in Fiber |-> Nothing]
  /\ wake = [h \in Handle |-> FALSE]
  /\ job = [k \in Slot |-> Free]
  /\ issued = {}
  /\ refused = {}
  /\ evicted = {}

(***************************************************************************)
(* Opening, closing and losing a handle.                                   *)
(***************************************************************************)

\* openReplica, then `start`, whose first exchange waits for no submit.
Open(h) ==
  LET r == Home[h]
      s == IF disk[r] = Nothing THEN Initial ELSE disk[r]
  IN  /\ mem[h] = Nothing
      /\ disk' = [disk EXCEPT ![r] = s]
      /\ mem' = [mem EXCEPT ![h] = s]
      /\ current' = [current EXCEPT ![h] = TRUE]
      /\ wake' = [wake EXCEPT ![h] = TRUE]
      /\ UNCHANGED <<tables, saving, sent, job, past>>

\* The server answers a request that nobody waits for any more.
Orphaned(fibers) ==
  [k \in Slot |-> IF job[k].to \in fibers THEN [job[k] EXCEPT !.to = Nothing] ELSE job[k]]

\* close, a reload, or the death of the tab: memory goes, the disk stays.
Stop(h) ==
  LET fibers == {f \in Fiber : Tab[f] = h}
  IN  /\ mem[h] # Nothing
      /\ mem' = [mem EXCEPT ![h] = Nothing]
      /\ current' = [current EXCEPT ![h] = FALSE]
      /\ saving' = [saving EXCEPT ![h] = Nothing]
      /\ sent' = [f \in Fiber |-> IF f \in fibers THEN Nothing ELSE sent[f]]
      /\ wake' = [wake EXCEPT ![h] = FALSE]
      /\ job' = Orphaned(fibers)
      /\ UNCHANGED <<tables, disk, past>>

\* The browser drops the storage; the application keeps its replicaId.
Evict(r) ==
  /\ Evictable /\ r \notin evicted      \* bound: once
  /\ disk[r] # Nothing
  /\ \A h \in Handle : Home[h] = r => mem[h] = Nothing
  /\ disk' = [disk EXCEPT ![r] = Nothing]
  /\ evicted' = evicted \cup {r}
  /\ UNCHANGED <<tables, mem, current, saving, sent, wake, job, issued, refused>>

(***************************************************************************)
(* Storage.save: compare-and-swap on the revision, then the reference is   *)
(* installed.  `current` is the comparison: a save makes the revision of   *)
(* every other handle of the replica stale, and the saver's own too until  *)
(* it installs the state.                                                  *)
(***************************************************************************)

Unlocked(h) == mem[h] # Nothing /\ saving[h] = Nothing

\* Mutant: no comparison of the revision.
SaveUnchecked(h, next, by) ==
  LET r == Home[h]
  IN  /\ disk' = [disk EXCEPT ![r] = next]
      /\ current' = [g \in Handle |-> current[g] /\ Home[g] # r]
      /\ saving' = [saving EXCEPT ![h] = [state |-> next, by |-> by, latest |-> TRUE]]

Save(h, next, by) ==
  LET r == Home[h]
  IN  /\ current[h]
      /\ disk' = [disk EXCEPT ![r] = next]
      /\ current' = [g \in Handle |-> current[g] /\ Home[g] # r]
      /\ saving' = [g \in Handle |->
           IF g = h THEN [state |-> next, by |-> by, latest |-> TRUE]
           ELSE IF Home[g] = r /\ saving[g] # Nothing THEN [saving[g] EXCEPT !.latest = FALSE]
           ELSE saving[g]]

\* Mutant: submit does not offer the wake token.
InstallSilent(h) ==
  /\ mem[h] # Nothing /\ saving[h] # Nothing
  /\ mem' = [mem EXCEPT ![h] = saving[h].state]
  /\ current' = [current EXCEPT ![h] = saving[h].latest]
  /\ saving' = [saving EXCEPT ![h] = Nothing]
  /\ sent' = [f \in Fiber |-> IF f = saving[h].by THEN Nothing ELSE sent[f]]
  /\ UNCHANGED <<tables, disk, wake, job, past>>

\* The rest of submit or synchronize after its save.
Install(h) ==
  /\ mem[h] # Nothing /\ saving[h] # Nothing
  /\ mem' = [mem EXCEPT ![h] = saving[h].state]
  /\ current' = [current EXCEPT ![h] = saving[h].latest]
  /\ saving' = [saving EXCEPT ![h] = Nothing]
  /\ IF saving[h].by = Nothing
       THEN wake' = [wake EXCEPT ![h] = TRUE] /\ sent' = sent
       ELSE wake' = wake /\ sent' = [sent EXCEPT ![saving[h].by] = Nothing]
  /\ UNCHANGED <<tables, disk, job, past>>

\* The fiber is interrupted after the storage transaction completed: the lock
\* is released and the reference keeps the old state.
InterruptSave(h) ==
  /\ Faulty
  /\ mem[h] # Nothing /\ saving[h] # Nothing
  /\ saving' = [saving EXCEPT ![h] = Nothing]
  /\ sent' = [f \in Fiber |-> IF f = saving[h].by THEN Nothing ELSE sent[f]]
  /\ UNCHANGED <<tables, disk, mem, current, wake, job, past>>

(***************************************************************************)
(* submit                                                                  *)
(***************************************************************************)

Submit(h) ==
  LET s == mem[h]
      r == Home[h]
  IN  /\ Unlocked(h)
      /\ s.next <= MaxLocal
      /\ \E d \in Data :
           LET op == [id |-> <<r, s.next>>, data |-> d]
           IN  /\ Projects(s, r) /\ Replays(Optimistic(s), op, r)
               /\ Save(h, [s EXCEPT !.next = @ + 1, !.pending = Append(@, op)], Nothing)
               /\ issued' = issued \cup {op}
      /\ UNCHANGED <<tables, mem, sent, wake, job, refused, evicted>>

(***************************************************************************)
(* synchronize, the request: the state is read outside the lock.           *)
(***************************************************************************)

Request(f) ==
  LET s == mem[Tab[f]]
  IN  /\ s # Nothing /\ sent[f] = Nothing
      /\ sent' = [sent EXCEPT ![f] = [cursor |-> s.cursor, pending |-> s.pending]]

\* The loop of `start` takes the wake token first.
LoopExchange(f) ==
  /\ Request(f)
  /\ wake[Tab[f]]
  /\ wake' = [wake EXCEPT ![Tab[f]] = FALSE]
  /\ UNCHANGED <<tables, disk, mem, current, saving, job, past>>

\* The application calls `synchronize` on its own, for instance when the
\* server announces a change.
AppExchange(f) ==
  /\ Request(f)
  /\ UNCHANGED <<tables, disk, mem, current, saving, wake, job, past>>

\* The fiber still waits: no response has been taken yet.
Waiting(f) ==
  sent[f] # Nothing /\ \A h \in Handle : saving[h] # Nothing => saving[h].by # f

\* The transport gives up; the server may go on with the request.
ExchangeFails(f) ==
  /\ Faulty
  /\ Waiting(f)
  /\ sent' = [sent EXCEPT ![f] = Nothing]
  /\ job' = Orphaned({f})
  /\ UNCHANGED <<tables, disk, mem, current, saving, wake, past>>

(***************************************************************************)
(* The server's exchange handler.  Operations are appended one by one with *)
(* an await between them; the read and the checkpoint are one synchronous  *)
(* run at the end.                                                         *)
(***************************************************************************)

\* A request arrives; a transport that reconnects sends it again.
Receive(k, f) ==
  /\ job[k] = Free
  /\ Waiting(f)
  /\ job' = [job EXCEPT ![k] =
       [to |-> f, phase |-> "append", actor |-> Home[Tab[f]], after |-> sent[f].cursor,
        todo |-> sent[f].pending, acknowledged |-> {}, rejected |-> {}]]
  /\ UNCHANGED <<tables, client, past>>

\* A reader's operation is rejected unseen, one that authorization refuses is
\* rejected, a committed one acknowledged; any other failure fails the exchange.
AppendNext(k) ==
  LET j  == job[k]
      op == Head(j.todo)
      o  == Outcome(tables, op, j.actor)
      rest == [j EXCEPT !.todo = Tail(@)]
  IN  /\ j.phase = "append" /\ j.todo # <<>>
      /\ IF j.actor \in Reader \/ o.tag = "OperationRejected"
           THEN /\ job' = [job EXCEPT ![k] = [rest EXCEPT !.rejected = @ \cup {op.id}]]
                /\ tables' = tables
         ELSE IF Successful(o)
           THEN /\ job' = [job EXCEPT ![k] = [rest EXCEPT !.acknowledged = @ \cup {op.id}]]
                /\ tables' = AfterCommit(tables, op, j.actor)
         ELSE /\ job' = [job EXCEPT ![k] = [to |-> j.to, phase |-> "error"]]
              /\ tables' = tables
      /\ UNCHANGED <<client, past>>

\* The committed operations after a cursor, in order; above the floor every
\* payload is there, so `input IS NOT NULL` leaves no gap.
CommittedAfter(t, after) ==
  [i \in 1..(t.cursor - after) |->
     LET r == CHOOSE r \in t.ops : r.seq = after + i
     IN  [id |-> r.id, data |-> r.input]]

\* A read above the cursor fails, a read below the floor becomes a checkpoint.
Respond(k) ==
  LET j == job[k]
  IN  /\ j.phase = "append" /\ j.todo = <<>>
      /\ job' = [job EXCEPT ![k] =
           IF j.after > tables.cursor THEN [to |-> j.to, phase |-> "error"]
           ELSE [to |-> j.to, phase |-> "reply", acknowledged |-> j.acknowledged,
                 rejected |-> j.rejected,
                 checkpoint |-> j.after < tables.floor,
                 from  |-> IF j.after < tables.floor THEN tables.cursor ELSE j.after,
                 model |-> IF j.after < tables.floor THEN tables.snapshot ELSE <<>>,
                 operations |-> IF j.after < tables.floor THEN <<>>
                                ELSE CommittedAfter(tables, j.after)]]
      /\ UNCHANGED <<tables, client, past>>

\* The connection or the server process goes away under the request, or its
\* reply has nobody to go to.
Drop(k) ==
  /\ job[k] # Free
  /\ Faulty \/ job[k].to = Nothing
  /\ job' = [job EXCEPT ![k] = Free]
  /\ UNCHANGED <<tables, client, past>>

\* An error reply fails the exchange.
DeliverError(k) ==
  LET f == job[k].to
  IN  /\ job[k].phase = "error" /\ f # Nothing
      /\ sent' = [sent EXCEPT ![f] = Nothing]
      /\ job' = [Orphaned({f}) EXCEPT ![k] = Free]
      /\ UNCHANGED <<tables, disk, mem, current, saving, wake, past>>

(***************************************************************************)
(* synchronize, the response.                                              *)
(***************************************************************************)

\* The suffix of a response the replica does not have yet: operations at or
\* below the cursor are skipped.
Fresh(s, reply) ==
  LET known == s.cursor - reply.from
  IN  IF known <= 0 THEN reply.operations
      ELSE SubSeq(reply.operations, known + 1, Len(reply.operations))

\* Mutant: the outbox is cleared, with what was submitted meanwhile.
AdoptedClears(s, reply) ==
  LET new == Fresh(s, reply)
  IN  IF reply.checkpoint
        THEN [s EXCEPT !.committed = reply.model, !.cursor = reply.from, !.ids = <<>>, !.pending = <<>>]
        ELSE [s EXCEPT !.committed = @ \o new, !.cursor = @ + Len(new), !.pending = <<>>,
                       !.ids = <<>>]

\* Mutant: committed operations stay in the outbox.
AdoptedKeeps(s, reply) ==
  LET base == IF reply.checkpoint
                THEN [s EXCEPT !.committed = reply.model, !.cursor = reply.from, !.ids = <<>>]
                ELSE s
      new == Fresh(base, reply)
  IN  [base EXCEPT !.committed = @ \o new, !.cursor = @ + Len(new),
                   !.ids = [i \in DOMAIN new |-> new[i].id],
                   !.pending = Without(@, reply.rejected)]

\* Mutant: a checkpoint moves the cursor and keeps the old model.
AdoptedHalf(s, reply) ==
  LET new == Fresh(s, reply)
  IN  [s EXCEPT !.committed = @ \o new,
                !.cursor    = IF reply.checkpoint THEN reply.from ELSE @ + Len(new),
                !.ids       = <<>>,
                !.pending   = Without(@, reply.acknowledged \cup reply.rejected \cup Ids(new))]

\* Mutant: what the server acknowledged is put behind what it sent.
AdoptedPromotes(s, reply) ==
  LET new  == Fresh(s, reply)
      done == SelectSeq(s.pending, LAMBDA op : op.id \in reply.acknowledged \ Ids(new))
  IN  [s EXCEPT !.committed = (IF reply.checkpoint THEN reply.model ELSE @ \o new) \o done,
                !.cursor    = IF reply.checkpoint THEN reply.from ELSE @ + Len(new),
                !.ids       = <<>>,
                !.pending   = Without(@, reply.acknowledged \cup reply.rejected \cup Ids(new))]

\* The state after the response, with a checkpoint adopted first.
Adopted(s, reply) ==
  LET base == IF reply.checkpoint
                THEN [s EXCEPT !.committed = reply.model, !.cursor = reply.from, !.ids = <<>>]
                ELSE s
      new == Fresh(base, reply)
      all == base.ids \o [i \in DOMAIN new |-> new[i].id]
      drop == {all[i] : i \in DOMAIN all} \cup reply.acknowledged \cup reply.rejected
  IN  [base EXCEPT !.committed = @ \o new,
                   !.cursor    = @ + Len(new),
                   !.ids       = SubSeq(all, IF Len(all) > Window THEN Len(all) - Window + 1 ELSE 1,
                                        Len(all)),
                   !.pending   = Without(@, drop)]

\* The checks that fail the exchange with a typed error.
Adoptable(s, reply, outbox) ==
  /\ reply.checkpoint => reply.from >= s.cursor
  /\ reply.acknowledged \cup reply.rejected \subseteq Ids(outbox)
  /\ reply.acknowledged \cap reply.rejected = {}
  /\ ~reply.checkpoint =>
       /\ Fresh(s, reply) # <<>> => s.cursor >= reply.from
       /\ \A i \in DOMAIN Fresh(s, reply) : \A n \in DOMAIN s.ids :
            Fresh(s, reply)[i].id # s.ids[n]

\* A response reaches the fiber that waits for it and is saved under the lock.
\* A late copy of the response finds nobody waiting.
Deliver(k) ==
  LET reply == job[k]
      f == reply.to
      h == Tab[f]
      s == mem[h]
      freed == [Orphaned({f}) EXCEPT ![k] = Free]
  IN  /\ reply.phase = "reply" /\ f # Nothing
      /\ Unlocked(h)
      /\ job' = freed
      /\ IF Adoptable(s, reply, sent[f].pending) /\ current[h]
           THEN /\ Save(h, Adopted(s, reply), f)
                /\ refused' = refused \cup (reply.rejected \cap Ids(s.pending))
                /\ sent' = sent
           ELSE /\ sent' = [sent EXCEPT ![f] = Nothing]
                /\ UNCHANGED <<disk, current, saving, refused>>
      /\ UNCHANGED <<tables, mem, wake, issued, evicted>>

(***************************************************************************)
(* The server's own writes and its compaction.                             *)
(***************************************************************************)

\* appendAsServer sequences the operation from the authoritative cursor.
AppendAsServer ==
  /\ Cardinality({r \in tables.ops : r.id[1] = Producer}) < MaxServer
  /\ tables.cursor < MaxCursor
  /\ \E d \in Data :
       LET op == [id |-> <<Producer, tables.cursor + 1>>, data |-> d]
       IN  /\ Outcome(tables, op, Producer).tag = "Appended"
           /\ tables' = AfterCommit(tables, op, Producer)
  /\ UNCHANGED <<client, job, past>>

\* compact, run to completion; its bounds are the check of journal.ts:747.
Compact ==
  /\ \E through \in tables.floor..tables.cursor : tables' = Compacted(tables, through)
  /\ UNCHANGED <<client, job, past>>

ServerStep == \/ \E k \in Slot : \/ \E f \in Fiber : Receive(k, f)
                                 \/ AppendNext(k) \/ Respond(k) \/ Drop(k)
              \/ AppendAsServer \/ Compact

ClientStep == \/ \E h \in Handle : Open(h) \/ Stop(h) \/ Submit(h) \/ Install(h) \/ InterruptSave(h)
              \/ \E r \in Replica : Evict(r)
              \/ \E f \in Fiber : LoopExchange(f) \/ AppExchange(f) \/ ExchangeFails(f)
              \/ \E k \in Slot : Deliver(k) \/ DeliverError(k)

Next == ServerStep \/ ClientStep

Spec == Init /\ [][Next]_vars

\* The fiber of `start` keeps running, a save completes, the server works on
\* what it received and forgets what nobody waits for, and a frame is
\* eventually received when the server has room (layerSocket sends an
\* unanswered frame again on every reconnect).
Fairness ==
  /\ \A h \in Handle : WF_vars(Install(h))
  /\ \A f \in Fiber : WF_vars(LoopExchange(f)) /\ SF_vars(\E k \in Slot : Receive(k, f))
  /\ \A k \in Slot : /\ WF_vars(AppendNext(k) \/ Respond(k) \/ (job[k].to = Nothing /\ Drop(k)))
                     /\ SF_vars(Deliver(k) \/ DeliverError(k))

FairSpec == Spec /\ Fairness
=============================================================================
