--------------------------- MODULE SyncProperties ---------------------------
(***************************************************************************)
(* What SyncSystem has to keep: the safety of replicas, outboxes and the   *)
(* log, the progress of an outbox, and the abstract document that the      *)
(* whole implements.                                                       *)
(***************************************************************************)
EXTENDS SyncSystem

JobOK(j) ==
  /\ j.to \in Fiber \cup {Nothing}
  /\ CASE j.phase = "free"   -> j = Free
       [] j.phase = "append" -> /\ j.actor \in Replica /\ j.after \in Nat
                                /\ j.todo \in Seq(Operation)
                                /\ {j.acknowledged, j.rejected} \subseteq SUBSET OpId
       [] j.phase = "reply"  -> /\ {j.acknowledged, j.rejected} \subseteq SUBSET OpId
                                /\ j.checkpoint \in BOOLEAN /\ j.from \in Nat
                                /\ j.model \in Seq(Operation) /\ j.operations \in Seq(Operation)
       [] j.phase = "error"  -> TRUE
       [] OTHER -> FALSE

\* Types, and who works for whom: only an open handle saves or exchanges, and
\* only a waiting fiber is replied to.
TypeOK ==
  /\ tables \in Tables
  /\ \A r \in Replica : disk[r] = Nothing \/ disk[r] \in ReplicaState
  /\ \A h \in Handle :
       /\ mem[h] = Nothing \/ mem[h] \in ReplicaState
       /\ {current[h], wake[h]} \subseteq BOOLEAN
       /\ saving[h] # Nothing =>
            mem[h] # Nothing /\ saving[h].state \in ReplicaState /\ saving[h].latest \in BOOLEAN
  /\ \A f \in Fiber : sent[f] # Nothing =>
       mem[Tab[f]] # Nothing /\ sent[f].pending \in Seq(Operation) /\ sent[f].cursor \in Nat
  /\ \A k \in Slot : JobOK(job[k]) /\ (job[k].to # Nothing => Waiting(job[k].to))
  /\ issued \subseteq Operation /\ refused \subseteq OpId /\ evicted \subseteq Replica

StatesOf(replicas) ==
  ({disk[r] : r \in replicas} \cup {mem[h] : h \in {g \in Handle : Home[g] \in replicas}}) \ {Nothing}

\* The replicas whose storage has never been evicted.
Intact == Replica \ evicted

\* What a replica calls committed, on disk or in memory, is the server's
\* snapshot at its cursor: responses in any order, repeated, or answered by a
\* checkpoint never make it diverge (sync.ts:543-617).
CommittedIsServerPrefix ==
  \A s \in StatesOf(Replica) :
    /\ s.cursor <= tables.cursor
    /\ s.committed = SubSeq(tables.snapshot, 1, s.cursor)

\* Unless its storage is evicted, the projection of a replica applies no
\* operation twice: what is committed has left the
\* outbox in the same save (sync.ts:602-616).
AppliedOnce ==
  \A s \in StatesOf(Intact) : \A i, j \in DOMAIN Optimistic(s) :
    Optimistic(s)[i].id = Optimistic(s)[j].id => i = j

\* The persisted state passes the checks of openReplica (sync.ts:355-374)
\* whatever was interrupted, so a replica can always be opened again.
StoredStateReopens ==
  \A r \in Intact : disk[r] # Nothing =>
    LET s == disk[r]
    IN  /\ \A m, n \in DOMAIN s.ids : s.ids[m] = s.ids[n] => m = n
        /\ \A i \in DOMAIN s.pending :
             /\ s.pending[i].id[1] = r /\ s.pending[i].id[2] < s.next
             /\ \A n \in DOMAIN s.ids : s.ids[n] # s.pending[i].id
             /\ \A j \in DOMAIN s.pending : s.pending[i].id = s.pending[j].id => i = j

\* An operation that submit persisted is never lost: it is committed, or in
\* the persisted outbox, or was reported rejected.
NothingLost ==
  \A op \in issued : op.id[1] \in Intact =>
    \/ op \in {tables.snapshot[i] : i \in DOMAIN tables.snapshot}
    \/ disk[op.id[1]] # Nothing /\ \E i \in DOMAIN disk[op.id[1]].pending :
                                     disk[op.id[1]].pending[i] = op
    \/ op.id \in refused

\* An operation reported rejected is not in the log, although a repeated
\* request is decided twice.
RejectedIsNotCommitted ==
  \A id \in refused \cap Ids(tables.snapshot) : id[1] \in evicted

\* opId is "the stable identity of one operation within a document"
\* (ids.ts:11): two operations never share one as long as the storage that
\* keeps the counter stays, whatever stale tabs and interrupted saves there are.
StoredIdentityIsStable ==
  \A a, b \in issued : a.id = b.id => a = b \/ a.id[1] \in evicted

\* The log holds only what replicas submitted or the server wrote, once each,
\* however often a request is repeated.
LogIsGenuine ==
  /\ TablesConsistent(tables)
  /\ \A i \in DOMAIN tables.snapshot :
       tables.snapshot[i].id[1] # Producer => tables.snapshot[i] \in issued

\* What a replica calls committed is the server's snapshot at its cursor,
\* applied once; the log holds what was submitted, once each, and nothing that
\* was reported rejected (sync.ts:534-624, examples/sync/src/journal.ts:206-263).
CommittedIsTheLog ==
  TypeOK /\ CommittedIsServerPrefix /\ AppliedOnce /\ RejectedIsNotCommitted /\ LogIsGenuine

\* What is on the disk can be opened again, and holds every operation that
\* submit persisted and nobody has decided (sync.ts:441-503).
OutboxIsKept == StoredStateReopens /\ NothingLost

\* "the outbox never holds a Message no replica could apply"
\* (docs/replication.md:196-197): every pending operation replays on what
\* precedes it.
OutboxReplays ==
  \A h \in Handle : mem[h] # Nothing => Projects(mem[h], Home[h])

\* No save takes a replica back: neither its cursor nor its counter, also when
\* a stale handle of the same storage writes (indexedDb.ts:67-95).
StorageAdvances ==
  \A r \in Replica : disk[r] # Nothing /\ disk'[r] # Nothing =>
    disk[r].cursor <= disk'[r].cursor /\ disk[r].next <= disk'[r].next

StorageOnlyAdvances == [][StorageAdvances]_disk

Undecided(h, id) == mem[h] # Nothing /\ id \in Ids(mem[h].pending)

\* Every operation in the outbox of an open replica leaves it, by commit or
\* rejection, if the replica stays open.
OutboxDrains ==
  \A h \in Handle : \A n \in 1..MaxLocal :
    Undecided(h, <<Home[h], n>>) ~> ~Undecided(h, <<Home[h], n>>)

(***************************************************************************)
(* The abstract document this implements.                                  *)
(***************************************************************************)

\* What a replica has applied.
View == [r \in Replica |-> IF disk[r] = Nothing THEN <<>> ELSE disk[r].committed]

Document == INSTANCE SharedDocument WITH log <- tables.snapshot, view <- View

\* A step of the system is a step of the document or leaves it alone.
DocumentStep == [Document!Next]_<<tables.snapshot, View>>

\* Storage aside, the system is one totally ordered document with lagging views.
ImplementsDocument == Document!Spec
=============================================================================
