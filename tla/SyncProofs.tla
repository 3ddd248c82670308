----------------------------- MODULE SyncProofs -----------------------------
(***************************************************************************)
(* What holds of SyncSystem for every set of replicas, tabs, fibers and    *)
(* server slots, under every fault and eviction: types, the server's log,  *)
(* the committed prefix of every replica, the abstract document, and the   *)
(* outbox of every replica.                                                *)
(***************************************************************************)
EXTENDS SyncProperties, JournalTablesProofs, FiniteSetTheorems, SequenceTheorems, TLAPS

(***************************************************************************)
(* Operators.                                                              *)
(***************************************************************************)

\* Dropping ids from an outbox keeps exactly the operations with another id,
\* each once (sync.ts:607-612).
LEMMA WithoutFacts ==
  ASSUME NEW ops \in Seq(Operation), NEW ids
  PROVE  LET w == Without(ops, ids)
         IN  /\ w \in Seq(Operation)
             /\ \A n \in 1..Len(w) : \E i \in 1..Len(ops) : w[n] = ops[i] /\ ops[i].id \notin ids
             /\ \A i \in 1..Len(ops) : ops[i].id \notin ids => \E n \in 1..Len(w) : w[n] = ops[i]
             /\ (\A i, j \in 1..Len(ops) : ops[i].id = ops[j].id => i = j)
                  => \A m, n \in 1..Len(w) : w[m].id = w[n].id => m = n
<1> DEFINE kept == {i \in DOMAIN ops : ops[i].id \notin ids}
           Rank(i) == Cardinality(kept \cap 1..i)
           size == Cardinality(kept)
           At(n) == CHOOSE i \in kept : Rank(i) = n
           rank == [i \in kept |-> Rank(i)]
           w == [n \in 1..size |-> ops[At(n)]]
<1>1. /\ DOMAIN ops = 1..Len(ops) /\ Len(ops) \in Nat
      /\ \A i \in 1..Len(ops) : ops[i] \in Operation
  OBVIOUS
<1>2. kept \in SUBSET (1..Len(ops)) /\ IsFiniteSet(kept) /\ size \in Nat
  <2>1. kept \in SUBSET (1..Len(ops))
    BY <1>1
  <2>2. IsFiniteSet(1..Len(ops))
    BY <1>1, FS_Interval
  <2> HIDE DEF kept
  <2> QED
    BY <2>1, <2>2, FS_Subset, FS_CardinalityType
<1>3. ASSUME NEW i \in kept
      PROVE  Rank(i) \in 1..size
  <2> DEFINE S == kept \cap 1..i
  <2>1. IsFiniteSet(S) /\ Cardinality(S) <= size /\ Cardinality(S) \in Nat
    BY <1>2, FS_Subset, FS_CardinalityType
  <2>2. i \in S
    BY <1>2
  <2>3. Cardinality(S) # 0
    BY <2>1, <2>2, FS_EmptySet
  <2> QED
    BY <2>1, <2>3, <1>2
<1>4. ASSUME NEW i \in kept, NEW j \in kept, i < j
      PROVE  Rank(i) < Rank(j)
  <2> DEFINE S == kept \cap 1..i
             T == kept \cap 1..j
  <2>1. IsFiniteSet(T) /\ Cardinality(T) \in Nat
    BY <1>2, FS_Subset, FS_CardinalityType
  <2>2. S \in SUBSET T /\ j \in T /\ j \notin S
    BY <1>2, <1>4
  <2>3. Cardinality(S) <= Cardinality(T) /\ Cardinality(S) # Cardinality(T)
    BY <2>1, <2>2, FS_Subset
  <2>4. Cardinality(S) \in Nat
    BY <2>1, <2>2, FS_Subset, FS_CardinalityType
  <2> QED
    BY <2>1, <2>3, <2>4
<1> HIDE DEF Rank, size, kept
<1>5. ASSUME NEW i \in kept, NEW j \in kept, Rank(i) = Rank(j)
      PROVE  i = j
  <2>1. i \in Nat /\ j \in Nat /\ Rank(i) \in Nat
    BY <1>2, <1>3
  <2> QED
    BY <2>1, <1>4, <1>5
<1>6. rank \in [kept -> 1..size]
  BY <1>3
<1>7. rank \in Injection(kept, 1..size)
  BY <1>5, <1>6 DEF Injection, IsInjective
<1>8. IsFiniteSet(1..size) /\ Cardinality(1..size) = size
  BY <1>2, FS_Interval
<1>9. rank \in Surjection(kept, 1..size)
  BY <1>7, <1>8, FS_Injection DEF size
<1>10. ASSUME NEW n \in 1..size
       PROVE  At(n) \in kept /\ Rank(At(n)) = n
  <2>1. \E i \in kept : Rank(i) = n
    BY <1>9 DEF Surjection
  <2> QED
    BY <2>1
<1>11. w = Without(ops, ids)
  BY DEF Without, kept, Rank, size
<1> HIDE DEF At, rank
<1>12. ASSUME NEW n \in 1..size
       PROVE  At(n) \in 1..Len(ops) /\ w[n] = ops[At(n)] /\ ops[At(n)].id \notin ids
  BY <1>1, <1>2, <1>10 DEF kept
<1>13. w \in Seq(Operation) /\ Len(w) = size /\ DOMAIN w = 1..size
  BY <1>1, <1>2, <1>12
<1>14. ASSUME NEW i \in 1..Len(ops), ops[i].id \notin ids
       PROVE  \E n \in 1..size : w[n] = ops[i]
  <2>1. i \in kept
    BY <1>14, <1>1 DEF kept
  <2>2. Rank(i) \in 1..size
    BY <2>1, <1>3
  <2>3. At(Rank(i)) = i
    BY <2>1, <2>2, <1>5, <1>10
  <2> QED
    BY <2>2, <2>3, <1>12
<1>15. ASSUME \A i, j \in 1..Len(ops) : ops[i].id = ops[j].id => i = j,
              NEW m \in 1..size, NEW n \in 1..size, w[m].id = w[n].id
       PROVE  m = n
  <2>1. At(m) = At(n)
    BY <1>12, <1>15
  <2> QED
    BY <2>1, <1>10
<1> HIDE DEF w
<1> QED
  BY <1>11, <1>12, <1>13, <1>14, <1>15

\* The ids of operations, as a sequence and as a set.
LEMMA IdsFacts ==
  ASSUME NEW ops \in Seq(Operation)
  PROVE  LET ids == [i \in DOMAIN ops |-> ops[i].id]
         IN  /\ ids \in Seq(OpId) /\ Len(ids) = Len(ops)
             /\ Ids(ops) = {ids[i] : i \in DOMAIN ids} /\ Ids(ops) \subseteq OpId
<1>1. DOMAIN ops = 1..Len(ops) /\ Len(ops) \in Nat
  OBVIOUS
<1>2. ASSUME NEW i \in 1..Len(ops) PROVE ops[i].id \in OpId
  <2>1. ops[i] \in Operation
    BY <1>1
  <2> QED
    BY <2>1 DEF Operation
<1> QED
  BY <1>1, <1>2 DEF Ids

AppendJob == [to : Fiber \cup {Nothing}, phase : {"append"}, actor : Replica, after : Nat,
              todo : Seq(Operation), acknowledged : SUBSET OpId, rejected : SUBSET OpId]
ReplyJob == [to : Fiber \cup {Nothing}, phase : {"reply"}, acknowledged : SUBSET OpId,
             rejected : SUBSET OpId, checkpoint : BOOLEAN, from : Nat,
             model : Seq(Operation), operations : Seq(Operation)]
ErrorJob == [to : Fiber \cup {Nothing}, phase : {"error"}]
Job == {Free} \cup AppendJob \cup ReplyJob \cup ErrorJob

\* What a response makes leave the outbox.
Dropped(s, reply) ==
  reply.acknowledged \cup reply.rejected \cup
    IF reply.checkpoint THEN {} ELSE {s.ids[i] : i \in DOMAIN s.ids} \cup Ids(Fresh(s, reply))

\* The operations a replica lacks are the end of the response, from its own
\* cursor on (sync.ts:581-598).
LEMMA FreshFacts ==
  ASSUME NEW s \in ReplicaState, NEW reply \in ReplyJob
  PROVE  LET new == Fresh(s, reply)
             known == IF s.cursor <= reply.from THEN 0 ELSE s.cursor - reply.from
         IN  /\ new \in Seq(Operation)
             /\ Len(new) = IF known > Len(reply.operations) THEN 0 ELSE Len(reply.operations) - known
             /\ \A i \in 1..Len(new) : new[i] = reply.operations[known + i]
<1> DEFINE ops == reply.operations
           d == s.cursor - reply.from
<1>1. /\ s.cursor \in Nat /\ reply.from \in Nat /\ ops \in Seq(Operation)
      /\ Len(ops) \in Nat /\ d \in Int
  BY DEF ReplicaState, ReplyJob
<1>2. CASE d <= 0
  BY <1>1, <1>2 DEF Fresh
<1>3. CASE d > 0
  <2>1. Fresh(s, reply) = SubSeq(ops, d + 1, Len(ops))
    BY <1>1, <1>3 DEF Fresh
  <2>2. SubSeq(ops, d + 1, Len(ops)) \in Seq(Operation)
    BY <1>1, <1>3
  <2>3. Len(SubSeq(ops, d + 1, Len(ops))) = IF d > Len(ops) THEN 0 ELSE Len(ops) - d
    BY <1>1, <1>3
  <2>4. ASSUME NEW i \in 1..Len(SubSeq(ops, d + 1, Len(ops)))
        PROVE  SubSeq(ops, d + 1, Len(ops))[i] = ops[d + i]
    <3> DEFINE m == d + 1
               n == Len(ops)
    <3>1. /\ m \in Int /\ n \in Int /\ i \in 1..(n - m + 1) /\ m + i - 1 = d + i
          /\ \A j \in m..n : ops[j] \in Operation
      BY <1>1, <1>3, <2>3
    <3> HIDE DEF m, n
    <3>2. \A j \in 1..(n - m + 1) : SubSeq(ops, m, n)[j] = ops[m + j - 1]
      BY <3>1, SubSeqProperties
    <3> QED
      BY <3>1, <3>2 DEF m, n
  <2>5. ~(s.cursor <= reply.from)
    BY <1>1, <1>3
  <2> QED
    BY <2>1, <2>2, <2>3, <2>4, <2>5
<1> QED
  BY <1>1, <1>2, <1>3

\* A checkpoint replaces the model, the cursor and the known ids, and leaves
\* the outbox what the response decided about (sync.ts:543-570).
LEMMA AdoptedCheckpoint ==
  ASSUME NEW s \in ReplicaState, NEW reply \in ReplyJob,
         reply.checkpoint, reply.operations = <<>>
  PROVE  Adopted(s, reply) =
           [next |-> s.next, cursor |-> reply.from, committed |-> reply.model, ids |-> <<>>,
            pending |-> Without(s.pending, Dropped(s, reply))]
<1> DEFINE base == IF reply.checkpoint
                     THEN [s EXCEPT !.committed = reply.model, !.cursor = reply.from, !.ids = <<>>]
                     ELSE s
           new == Fresh(base, reply)
           all == base.ids \o [i \in DOMAIN new |-> new[i].id]
           drop == {all[i] : i \in DOMAIN all} \cup reply.acknowledged \cup reply.rejected
           u == Adopted(s, reply)
<1>1. /\ base = [next |-> s.next, cursor |-> reply.from, committed |-> reply.model,
                 ids |-> <<>>, pending |-> s.pending]
      /\ reply.from \in Nat /\ reply.model \in Seq(Operation)
  BY DEF ReplicaState, ReplyJob
<1> HIDE DEF base
<1>2. new = <<>>
  BY <1>1 DEF Fresh
<1>3. [i \in DOMAIN new |-> new[i].id] = <<>>
  BY <1>2
<1> HIDE DEF new
<1>4. all = <<>>
  BY <1>1, <1>3
<1> HIDE DEF all
<1>5. drop = Dropped(s, reply)
  BY <1>4 DEF Dropped
<1>6. u = [base EXCEPT !.committed = @ \o new, !.cursor = @ + Len(new),
             !.ids = SubSeq(all, IF Len(all) > Window THEN Len(all) - Window + 1 ELSE 1, Len(all)),
             !.pending = Without(@, drop)]
  BY DEF Adopted, base, new, all
<1> HIDE DEF drop, u
<1>7. /\ base.committed \o new = reply.model /\ base.cursor + Len(new) = reply.from
  BY <1>1, <1>2
<1>8. SubSeq(all, IF Len(all) > Window THEN Len(all) - Window + 1 ELSE 1, Len(all)) = <<>>
  BY <1>4, SyncAssumption
<1>9. u = [base EXCEPT !.committed = reply.model, !.cursor = reply.from, !.ids = <<>>,
             !.pending = Without(@, Dropped(s, reply))]
  BY <1>5, <1>6, <1>7, <1>8, <1>1
<1> QED
  BY <1>1, <1>9 DEF u

\* Any other response appends what the replica lacks, moves the cursor by as
\* much and keeps the last ids (sync.ts:581-613).
LEMMA AdoptedOperations ==
  ASSUME NEW s \in ReplicaState, NEW reply \in ReplyJob, ~reply.checkpoint
  PROVE  LET new == Fresh(s, reply)
             all == s.ids \o [i \in DOMAIN new |-> new[i].id]
         IN  Adopted(s, reply) =
               [next |-> s.next, cursor |-> s.cursor + Len(new), committed |-> s.committed \o new,
                ids |-> SubSeq(all, IF Len(all) > Window THEN Len(all) - Window + 1 ELSE 1, Len(all)),
                pending |-> Without(s.pending, Dropped(s, reply))]
<1> DEFINE base == IF reply.checkpoint
                     THEN [s EXCEPT !.committed = reply.model, !.cursor = reply.from, !.ids = <<>>]
                     ELSE s
           new == Fresh(base, reply)
           newIds == [i \in DOMAIN new |-> new[i].id]
           all == base.ids \o newIds
           drop == {all[i] : i \in DOMAIN all} \cup reply.acknowledged \cup reply.rejected
<1>1. Adopted(s, reply) =
        [base EXCEPT !.committed = @ \o new, !.cursor = @ + Len(new),
             !.ids = SubSeq(all, IF Len(all) > Window THEN Len(all) - Window + 1 ELSE 1, Len(all)),
             !.pending = Without(@, drop)]
  BY DEF Adopted
<1>0. base = s
  OBVIOUS
<1> HIDE DEF base
<1>2. new \in Seq(Operation) /\ s.ids \in Seq(OpId)
  BY <1>0, FreshFacts DEF ReplicaState
<1>3. newIds \in Seq(OpId) /\ Len(newIds) = Len(new) /\ Ids(new) = {newIds[i] : i \in DOMAIN newIds}
  <2> HIDE DEF new
  <2> QED
    BY <1>2, IdsFacts
<1> HIDE DEF newIds
<1>4. {all[i] : i \in DOMAIN all} = {base.ids[i] : i \in DOMAIN base.ids} \cup {newIds[i] : i \in DOMAIN newIds}
  <2>1. /\ all \in Seq(OpId) /\ Len(all) = Len(base.ids) + Len(newIds)
        /\ \A i \in 1..Len(base.ids) : all[i] = base.ids[i]
        /\ \A i \in 1..Len(newIds) : all[Len(base.ids) + i] = newIds[i]
    <3> DEFINE old == base.ids
    <3>1. old \in Seq(OpId) /\ newIds \in Seq(OpId) /\ all = old \o newIds
      BY <1>0, <1>2, <1>3
    <3> HIDE DEF old, all
    <3>2. /\ old \o newIds \in Seq(OpId) /\ Len(old \o newIds) = Len(old) + Len(newIds)
          /\ \A i \in 1..(Len(old) + Len(newIds)) :
               (old \o newIds)[i] = IF i <= Len(old) THEN old[i] ELSE newIds[i - Len(old)]
      BY <3>1, ConcatProperties
    <3>3. Len(old) \in Nat /\ Len(newIds) \in Nat
      BY <3>1
    <3>4. \A i \in 1..Len(old) : all[i] = old[i]
      BY <3>1, <3>2, <3>3
    <3>5. ASSUME NEW i \in 1..Len(newIds) PROVE all[Len(old) + i] = newIds[i]
      <4>1. /\ Len(old) + i \in 1..(Len(old) + Len(newIds)) /\ ~(Len(old) + i <= Len(old))
            /\ (Len(old) + i) - Len(old) = i
        BY <3>3
      <4> QED
        BY <3>1, <3>2, <4>1
    <3>6. /\ all \in Seq(OpId) /\ Len(all) = Len(old) + Len(newIds)
          /\ \A i \in 1..Len(old) : all[i] = old[i]
          /\ \A i \in 1..Len(newIds) : all[Len(old) + i] = newIds[i]
      BY <3>1, <3>2, <3>4, <3>5
    <3> QED
      BY <3>6 DEF old
  <2> HIDE DEF all
  <2>2. /\ Len(base.ids) \in Nat /\ Len(newIds) \in Nat /\ DOMAIN base.ids = 1..Len(base.ids)
        /\ DOMAIN newIds = 1..Len(newIds) /\ DOMAIN all = 1..Len(all)
    BY <1>0, <1>2, <1>3, <2>1
  <2>3. ASSUME NEW i \in 1..Len(all)
        PROVE  all[i] \in {base.ids[j] : j \in DOMAIN base.ids} \cup {newIds[j] : j \in DOMAIN newIds}
    <3>1. CASE i \in 1..Len(base.ids)
      BY <2>1, <2>2, <3>1
    <3>2. CASE i - Len(base.ids) \in 1..Len(newIds)
      BY <2>1, <2>2, <3>2
    <3> QED
      BY <2>1, <2>2, <3>1, <3>2
  <2>4. ASSUME NEW i \in 1..Len(base.ids) PROVE base.ids[i] \in {all[j] : j \in DOMAIN all}
    BY <2>1, <2>2
  <2>5. ASSUME NEW i \in 1..Len(newIds) PROVE newIds[i] \in {all[j] : j \in DOMAIN all}
    <3>1. Len(base.ids) + i \in DOMAIN all
      BY <2>1, <2>2
    <3> QED
      BY <2>1, <3>1
  <2> QED
    BY <2>2, <2>3, <2>4, <2>5
<1>5. drop = Dropped(s, reply)
  BY <1>0, <1>3, <1>4 DEF Dropped
<1> HIDE DEF drop, all, new
<1>6. s = [next |-> s.next, cursor |-> s.cursor, committed |-> s.committed, ids |-> s.ids,
           pending |-> s.pending]
  BY DEF ReplicaState
<1>7. Adopted(s, reply) =
        [next |-> s.next, cursor |-> s.cursor + Len(new), committed |-> s.committed \o new,
         ids |-> SubSeq(all, IF Len(all) > Window THEN Len(all) - Window + 1 ELSE 1, Len(all)),
         pending |-> Without(s.pending, Dropped(s, reply))]
  BY <1>0, <1>1, <1>5, <1>6
<1> QED
  BY <1>0, <1>7 DEF all, new, newIds

\* The state after a response is a replica's state.
LEMMA AdoptedType ==
  ASSUME NEW s \in ReplicaState, NEW reply \in ReplyJob,
         reply.checkpoint => reply.operations = <<>>
  PROVE  Adopted(s, reply) \in ReplicaState
<1>1. Without(s.pending, Dropped(s, reply)) \in Seq(Operation)
  BY WithoutFacts DEF ReplicaState
<1>2. s.next \in 1..(MaxLocal + 1)
  BY DEF ReplicaState
<1>3. CASE reply.checkpoint
  <2>1. /\ reply.from \in Nat /\ reply.model \in Seq(Operation) /\ <<>> \in Seq(OpId)
    BY DEF ReplyJob
  <2>2. Adopted(s, reply) =
          [next |-> s.next, cursor |-> reply.from, committed |-> reply.model, ids |-> <<>>,
           pending |-> Without(s.pending, Dropped(s, reply))]
    BY <1>3, AdoptedCheckpoint
  <2> QED
    BY <1>1, <1>2, <2>1, <2>2 DEF ReplicaState
<1>4. CASE ~reply.checkpoint
  <2> DEFINE new == Fresh(s, reply)
             newIds == [i \in DOMAIN new |-> new[i].id]
             all == s.ids \o newIds
             lo == IF Len(all) > Window THEN Len(all) - Window + 1 ELSE 1
  <2>1. /\ new \in Seq(Operation) /\ s.ids \in Seq(OpId) /\ s.committed \in Seq(Operation)
        /\ s.cursor \in Nat
    BY FreshFacts DEF ReplicaState
  <2> HIDE DEF new
  <2>2. newIds \in Seq(OpId)
    BY <2>1, IdsFacts
  <2> HIDE DEF newIds
  <2>3. all \in Seq(OpId) /\ Len(all) \in Nat
    BY <2>1, <2>2
  <2>4. lo \in Nat \ {0}
    BY <2>3, SyncAssumption
  <2>5. SubSeq(all, lo, Len(all)) \in Seq(OpId)
    <3> HIDE DEF all, lo
    <3> QED
      BY <2>3, <2>4
  <2>6. s.committed \o new \in Seq(Operation) /\ s.cursor + Len(new) \in Nat
    BY <2>1
  <2>7. Adopted(s, reply) =
          [next |-> s.next, cursor |-> s.cursor + Len(new), committed |-> s.committed \o new,
           ids |-> SubSeq(all, lo, Len(all)),
           pending |-> Without(s.pending, Dropped(s, reply))]
    BY <1>4, AdoptedOperations DEF new, newIds
  <2> HIDE DEF all, lo
  <2> QED
    BY <1>1, <1>2, <2>5, <2>6, <2>7 DEF ReplicaState
<1> QED
  BY <1>3, <1>4

(***************************************************************************)
(* The inductive invariant.  That a replica's committed state is a prefix  *)
(* of the server's snapshot is not inductive: a save writes the disk under *)
(* the lock and installs the state later, a stale tab keeps an old state,  *)
(* and a reply waits in its slot while the log grows.  So the states being *)
(* saved and the replies must agree with the snapshot too, and `current`   *)
(* and `latest` must mean what the revision comparison means.              *)
(***************************************************************************)

ClientTyped ==
  /\ disk \in [Replica -> ReplicaState \cup {Nothing}]
  /\ mem \in [Handle -> ReplicaState \cup {Nothing}]
  /\ current \in [Handle -> BOOLEAN] /\ wake \in [Handle -> BOOLEAN]
  /\ saving \in [Handle -> SaveState \cup {Nothing}]
  /\ sent \in [Fiber -> Exchange \cup {Nothing}]

Typed ==
  /\ ClientTyped
  /\ tables \in Tables
  /\ job \in [Slot -> Job]
  /\ issued \subseteq Operation /\ refused \subseteq OpId /\ evicted \subseteq Replica

\* Only an open handle holds the lock, for a fiber of its own or for submit.
Locked ==
  \A h \in Handle : saving[h] # Nothing =>
    mem[h] # Nothing /\ ~current[h] /\ (saving[h].by # Nothing => Tab[saving[h].by] = h)

\* The storage of an open handle is there, and what its revision says is so.
Revisions ==
  \A h \in Handle :
    /\ mem[h] # Nothing => disk[Home[h]] # Nothing
    /\ current[h] => mem[h] # Nothing /\ disk[Home[h]] = mem[h]
    /\ saving[h] # Nothing /\ saving[h].latest => disk[Home[h]] = saving[h].state

\* Only a fiber of an open handle exchanges, and only a waiting one is
\* replied to.
Exchanging == \A f \in Fiber : sent[f] # Nothing => mem[Tab[f]] # Nothing
Replied == \A k \in Slot : job[k].to # Nothing => Waiting(job[k].to)

Client == ClientTyped /\ Locked /\ Revisions /\ Exchanging

\* The states of a replica: on disk, in a handle's memory, or being saved.
Held(r) ==
  ({disk[r]} \cup {mem[h] : h \in {g \in Handle : Home[g] = r}}
   \cup {saving[h].state : h \in {g \in Handle : Home[g] = r /\ saving[g] # Nothing}}) \ {Nothing}

\* s is a prefix of the log of t, and the ids it remembers are its last.
Lags(s, t) ==
  /\ s.cursor <= t.cursor /\ Len(s.committed) = s.cursor
  /\ \A i \in 1..s.cursor : s.committed[i] = t.snapshot[i]
  /\ Len(s.ids) <= s.cursor
  /\ \A m \in 1..Len(s.ids) : s.ids[m] = t.snapshot[s.cursor - Len(s.ids) + m].id

AllLag == \A r \in Replica : \A s \in Held(r) : Lags(s, tables)

\* A reply is a segment of the log, or its beginning.
Quotes(j, t) ==
  IF j.checkpoint
    THEN /\ j.operations = <<>> /\ j.from <= t.cursor /\ Len(j.model) = j.from
         /\ \A i \in 1..j.from : j.model[i] = t.snapshot[i]
    ELSE /\ j.from + Len(j.operations) <= t.cursor
         /\ \A i \in 1..Len(j.operations) : j.operations[i] = t.snapshot[j.from + i]

Replies == \A k \in Slot : job[k].phase = "reply" => Quotes(job[k], tables)

LogHolds == TablesConsistent(tables) /\ FloorIsExact(tables)

IInv == Typed /\ Locked /\ Revisions /\ Exchanging /\ Replied /\ LogHolds /\ AllLag /\ Replies

(***************************************************************************)
(* The handles and their storage.                                          *)
(***************************************************************************)

\* A save writes the disk and marks every other save of the replica outdated.
LEMMA SaveFacts ==
  ASSUME ClientTyped, NEW h \in Handle, NEW s \in ReplicaState, NEW by \in Fiber \cup {Nothing},
         Save(h, s, by)
  PROVE  /\ Home[h] \in Replica /\ s # Nothing
         /\ disk' \in [Replica -> ReplicaState \cup {Nothing}] /\ disk'[Home[h]] = s
         /\ \A q \in Replica : q # Home[h] => disk'[q] = disk[q]
         /\ current' \in [Handle -> BOOLEAN]
         /\ \A g \in Handle : current'[g] <=> current[g] /\ Home[g] # Home[h]
         /\ saving' \in [Handle -> SaveState \cup {Nothing}]
         /\ saving'[h] # Nothing /\ saving'[h].state = s /\ saving'[h].by = by
         /\ \A g \in Handle \ {h} :
              /\ saving'[g] # Nothing <=> saving[g] # Nothing
              /\ saving[g] # Nothing =>
                   /\ saving'[g].state = saving[g].state /\ saving'[g].by = saving[g].by
                   /\ saving'[g].latest => saving[g].latest /\ Home[g] # Home[h]
<1> DEFINE r == Home[h]
           v == [state |-> s, by |-> by, latest |-> TRUE]
<1>1. r \in Replica /\ s # Nothing /\ v \in SaveState /\ v # Nothing
  <2>1. v \in SaveState
    BY DEF SaveState
  <2>2. r \in Replica
    BY SyncAssumption
  <2> QED
    BY <2>1, <2>2, NothingAssumption
<1>2. /\ disk' \in [Replica -> ReplicaState \cup {Nothing}] /\ disk'[r] = s
      /\ \A q \in Replica : q # r => disk'[q] = disk[q]
  BY <1>1 DEF Save, ClientTyped
<1>3. /\ current' \in [Handle -> BOOLEAN]
      /\ \A g \in Handle : current'[g] <=> current[g] /\ Home[g] # r
  BY DEF Save, ClientTyped
<1>4. /\ DOMAIN saving' = Handle /\ saving'[h] = v
      /\ \A g \in Handle \ {h} : saving'[g] =
           IF Home[g] = r /\ saving[g] # Nothing THEN [saving[g] EXCEPT !.latest = FALSE] ELSE saving[g]
      /\ saving' = [g \in Handle |-> saving'[g]]
  BY DEF Save
<1>5. ASSUME NEW g \in Handle \ {h}, saving[g] # Nothing
      PROVE  /\ saving'[g] \in SaveState /\ saving'[g] # Nothing
             /\ saving'[g].state = saving[g].state /\ saving'[g].by = saving[g].by
             /\ saving'[g].latest => saving[g].latest /\ Home[g] # r
  <2>1. saving[g] \in SaveState
    BY <1>5 DEF ClientTyped
  <2>2. [saving[g] EXCEPT !.latest = FALSE] \in SaveState
    BY <2>1 DEF SaveState
  <2> QED
    BY <1>4, <1>5, <2>1, <2>2, NothingAssumption DEF SaveState
<1>6. ASSUME NEW g \in Handle \ {h}, saving[g] = Nothing PROVE saving'[g] = Nothing
  BY <1>4, <1>6
<1>7. saving' \in [Handle -> SaveState \cup {Nothing}]
  <2>1. ASSUME NEW g \in Handle PROVE saving'[g] \in SaveState \cup {Nothing}
    <3>1. CASE g = h
      BY <1>1, <1>4, <3>1
    <3>2. CASE g # h
      BY <1>5, <1>6, <3>2
    <3> QED
      BY <3>1, <3>2
  <2> QED
    BY <1>4, <2>1
<1>8. saving'[h] # Nothing /\ saving'[h].state = s /\ saving'[h].by = by
  BY <1>1, <1>4
<1> QED
  BY <1>1, <1>2, <1>3, <1>5, <1>6, <1>7, <1>8

\* A save whose revision was compared makes every other revision stale.
LEMMA SaveClient ==
  ASSUME Client, NEW h \in Handle, NEW s \in ReplicaState, NEW by \in Fiber \cup {Nothing},
         by # Nothing => Tab[by] = h, Unlocked(h), Save(h, s, by), UNCHANGED <<mem, sent, wake>>
  PROVE  Client'
<1> DEFINE r == Home[h]
<1>1. /\ r \in Replica /\ s # Nothing
      /\ disk' \in [Replica -> ReplicaState \cup {Nothing}] /\ disk'[r] = s
      /\ \A q \in Replica : q # r => disk'[q] = disk[q]
      /\ current' \in [Handle -> BOOLEAN]
      /\ \A g \in Handle : current'[g] <=> current[g] /\ Home[g] # r
      /\ saving' \in [Handle -> SaveState \cup {Nothing}]
      /\ saving'[h] # Nothing /\ saving'[h].state = s /\ saving'[h].by = by
      /\ \A g \in Handle \ {h} :
           /\ saving'[g] # Nothing <=> saving[g] # Nothing
           /\ saving[g] # Nothing =>
                /\ saving'[g].state = saving[g].state /\ saving'[g].by = saving[g].by
                /\ saving'[g].latest => saving[g].latest /\ Home[g] # r
  BY SaveFacts DEF Client
<1>7. ClientTyped'
  BY <1>1 DEF Client, ClientTyped
<1>8. Locked'
  BY <1>1 DEF Client, Locked, Unlocked
<1>9. Revisions'
  <2>1. ASSUME NEW g \in Handle, mem[g] # Nothing PROVE disk'[Home[g]] # Nothing
    BY <1>1, <2>1, SyncAssumption DEF Client, Revisions
  <2>2. ASSUME NEW g \in Handle, current'[g] PROVE mem[g] # Nothing /\ disk'[Home[g]] = mem[g]
    BY <1>1, <2>2, SyncAssumption DEF Client, Revisions
  <2>3. ASSUME NEW g \in Handle, saving'[g] # Nothing, saving'[g].latest
        PROVE  disk'[Home[g]] = saving'[g].state
    BY <1>1, <2>3, SyncAssumption DEF Client, Revisions
  <2> QED
    BY <2>1, <2>2, <2>3 DEF Revisions
<1>10. Exchanging'
  BY DEF Client, Exchanging
<1> QED
  BY <1>7, <1>8, <1>9, <1>10 DEF Client

\* Opening reads the disk, or writes the first state of a replica no handle
\* has open.
LEMMA OpenClient ==
  ASSUME Client, NEW h \in Handle, Open(h)
  PROVE  Client'
<1> DEFINE r == Home[h]
           s == IF disk[r] = Nothing THEN Initial ELSE disk[r]
<1>1. Initial \in ReplicaState
  BY SyncAssumption DEF Initial, ReplicaState
<1>2. r \in Replica /\ s \in ReplicaState /\ s # Nothing
  BY <1>1, SyncAssumption, NothingAssumption DEF Client, ClientTyped
<1>3. /\ disk' = [disk EXCEPT ![r] = s] /\ mem' = [mem EXCEPT ![h] = s]
      /\ current' = [current EXCEPT ![h] = TRUE] /\ wake' = [wake EXCEPT ![h] = TRUE]
      /\ saving' = saving /\ sent' = sent /\ mem[h] = Nothing
  BY DEF Open
<1>4. /\ disk'[r] = s /\ mem'[h] = s /\ current'[h]
      /\ \A q \in Replica \ {r} : disk'[q] = disk[q]
      /\ \A g \in Handle \ {h} : mem'[g] = mem[g] /\ current'[g] = current[g]
      /\ disk[r] # Nothing => disk'[r] = disk[r]
  BY <1>2, <1>3 DEF Client, ClientTyped
<1> HIDE DEF s
<1>5. ClientTyped'
  BY <1>2, <1>3 DEF Client, ClientTyped
<1>6. \A g \in Handle : Home[g] \in Replica
  BY SyncAssumption
<1>7. saving[h] = Nothing
  BY <1>3 DEF Client, Locked
<1>8. Locked'
  BY <1>3, <1>4, <1>7 DEF Client, Locked
<1>9. Revisions'
  <2>1. \A g \in Handle \ {h} : mem[g] # Nothing => disk'[Home[g]] = disk[Home[g]]
    BY <1>4, <1>6 DEF Client, Revisions
  <2>2. \A g \in Handle \ {h} : saving[g] # Nothing => mem[g] # Nothing
    BY DEF Client, Locked
  <2> QED
    BY <1>2, <1>3, <1>4, <1>7, <2>1, <2>2 DEF Client, Revisions
<1>10. Exchanging'
  BY <1>2, <1>3, <1>4, SyncAssumption DEF Client, Exchanging
<1> QED
  BY <1>5, <1>8, <1>9, <1>10 DEF Client

\* A handle that stops takes its lock and its exchanges with it.
LEMMA StopClient ==
  ASSUME Client, NEW h \in Handle, Stop(h)
  PROVE  Client'
<1>1. /\ mem' = [mem EXCEPT ![h] = Nothing] /\ current' = [current EXCEPT ![h] = FALSE]
      /\ saving' = [saving EXCEPT ![h] = Nothing] /\ wake' = [wake EXCEPT ![h] = FALSE]
      /\ sent' = [f \in Fiber |-> IF f \in {e \in Fiber : Tab[e] = h} THEN Nothing ELSE sent[f]]
      /\ disk' = disk
  BY DEF Stop
<1>2. ClientTyped'
  BY <1>1 DEF Client, ClientTyped
<1>3. Locked' /\ Revisions'
  BY <1>1 DEF Client, ClientTyped, Locked, Revisions
<1>4. Exchanging'
  BY <1>1, SyncAssumption DEF Client, ClientTyped, Exchanging
<1> QED
  BY <1>2, <1>3, <1>4 DEF Client

\* Only the storage of a closed replica is evicted.
LEMMA EvictClient ==
  ASSUME Client, NEW r \in Replica, Evict(r)
  PROVE  Client'
<1>1. /\ disk' = [disk EXCEPT ![r] = Nothing] /\ UNCHANGED <<mem, current, saving, sent, wake>>
      /\ \A h \in Handle : Home[h] = r => mem[h] = Nothing
  BY DEF Evict
<1>2. ClientTyped'
  BY <1>1 DEF Client, ClientTyped
<1>3. \A h \in Handle : mem[h] # Nothing => disk'[Home[h]] = disk[Home[h]]
  BY <1>1, SyncAssumption DEF Client, ClientTyped
<1>4. Locked' /\ Exchanging'
  BY <1>1 DEF Client, Locked, Exchanging
<1>5. Revisions'
  BY <1>1, <1>3 DEF Client, Revisions, Locked
<1> QED
  BY <1>2, <1>4, <1>5 DEF Client

\* The rest of submit or synchronize installs what was saved.
LEMMA InstallClient ==
  ASSUME Client, NEW h \in Handle, Install(h)
  PROVE  Client'
<1> DEFINE v == saving[h]
<1>1. v \in SaveState /\ v # Nothing /\ (v.by # Nothing => v.by \in Fiber)
  BY DEF Install, Client, ClientTyped, SaveState
<1>2. v.state \in ReplicaState /\ v.state # Nothing /\ v.latest \in BOOLEAN
  BY <1>1, NothingAssumption DEF SaveState
<1>3. /\ mem' = [mem EXCEPT ![h] = v.state] /\ current' = [current EXCEPT ![h] = v.latest]
      /\ saving' = [saving EXCEPT ![h] = Nothing] /\ disk' = disk
      /\ wake' \in [Handle -> BOOLEAN] /\ sent' \in [Fiber -> Exchange \cup {Nothing}]
      /\ \A f \in Fiber : sent'[f] \in {Nothing, sent[f]}
  BY <1>1 DEF Install, Client, ClientTyped
<1> HIDE DEF v
<1>4. ClientTyped'
  BY <1>2, <1>3 DEF Client, ClientTyped
<1>5. Locked'
  BY <1>2, <1>3 DEF Client, ClientTyped, Locked
<1>6. Revisions'
  <2>1. v.latest => disk[Home[h]] = v.state
    BY <1>1 DEF Client, Revisions, v
  <2>2. disk[Home[h]] # Nothing
    BY DEF Client, Revisions, Install
  <2> QED
    BY <1>2, <1>3, <2>1, <2>2 DEF Client, ClientTyped, Revisions
<1>7. Exchanging'
  BY <1>2, <1>3, SyncAssumption DEF Client, ClientTyped, Exchanging
<1> QED
  BY <1>4, <1>5, <1>6, <1>7 DEF Client

\* An interrupted fiber lets go of the lock; the state stays the old one.
LEMMA InterruptClient ==
  ASSUME Client, NEW h \in Handle, InterruptSave(h)
  PROVE  Client'
<1>1. /\ saving' = [saving EXCEPT ![h] = Nothing]
      /\ sent' = [f \in Fiber |-> IF f = saving[h].by THEN Nothing ELSE sent[f]]
      /\ UNCHANGED <<disk, mem, current, wake>>
  BY DEF InterruptSave
<1>2. ClientTyped'
  BY <1>1 DEF Client, ClientTyped
<1>3. Locked' /\ Revisions' /\ Exchanging'
  BY <1>1 DEF Client, ClientTyped, Locked, Revisions, Exchanging
<1> QED
  BY <1>2, <1>3 DEF Client

\* A job is what its phase says.
LEMMA JobKinds ==
  ASSUME NEW j \in Job
  PROVE  /\ j.to \in Fiber \cup {Nothing}
         /\ j.phase \in {"free", "append", "reply", "error"}
         /\ j.phase = "free" => j = Free
         /\ j.phase = "append" => j \in AppendJob
         /\ j.phase = "reply" => j \in ReplyJob
         /\ j.phase = "error" => j \in ErrorJob
  BY DEF Job, Free, AppendJob, ReplyJob, ErrorJob

\* The state submit saves.
Submitted(s, op) ==
  [next |-> s.next + 1, cursor |-> s.cursor, committed |-> s.committed, ids |-> s.ids,
   pending |-> Append(s.pending, op)]

\* Only the counter and the outbox differ from the state submit started from.
LEMMA SubmittedState ==
  ASSUME NEW s \in ReplicaState, NEW n \in 1..(MaxLocal + 1), NEW p \in Seq(Operation)
  PROVE  [s EXCEPT !.next = n, !.pending = p] =
           [next |-> n, cursor |-> s.cursor, committed |-> s.committed, ids |-> s.ids, pending |-> p]
<1> DEFINE u == [s EXCEPT !.next = n, !.pending = p]
<1>1. u \in ReplicaState
  BY DEF ReplicaState
<1>2. /\ u.next = n /\ u.cursor = s.cursor /\ u.committed = s.committed /\ u.ids = s.ids
      /\ u.pending = p
  BY DEF ReplicaState
<1> HIDE DEF u
<1>3. u = [next |-> n, cursor |-> s.cursor, committed |-> s.committed, ids |-> s.ids, pending |-> p]
  BY <1>1, <1>2 DEF ReplicaState
<1> QED
  BY <1>3 DEF u

\* submit saves the next operation of the replica behind its outbox
\* (sync.ts:441-503).
LEMMA SubmitFacts ==
  ASSUME Client, NEW h \in Handle, Submit(h)
  PROVE  /\ mem[h] \in ReplicaState /\ Home[h] \in Replica /\ mem[h].next \in 1..MaxLocal
         /\ current[h]
         /\ UNCHANGED <<tables, mem, sent, wake, job, refused, evicted>>
         /\ \E op \in Operation :
              /\ op.id = <<Home[h], mem[h].next>> /\ issued' = issued \cup {op}
              /\ Submitted(mem[h], op) \in ReplicaState
              /\ Save(h, Submitted(mem[h], op), Nothing)
<1> DEFINE s == mem[h]
           r == Home[h]
<1>1. s \in ReplicaState /\ r \in Replica /\ s.next \in 1..MaxLocal
  BY SyncAssumption DEF Submit, Unlocked, Client, ClientTyped, ReplicaState
<1>2. /\ s.next + 1 \in 1..(MaxLocal + 1) /\ s.pending \in Seq(Operation)
  BY <1>1, SyncAssumption DEF ReplicaState
<1>3. PICK d \in Data :
        LET op == [id |-> <<r, s.next>>, data |-> d]
        IN  /\ Save(h, [s EXCEPT !.next = @ + 1, !.pending = Append(@, op)], Nothing)
            /\ issued' = issued \cup {op}
  BY DEF Submit
<1> DEFINE op == [id |-> <<r, s.next>>, data |-> d]
<1>4. op \in Operation
  BY <1>1, SyncAssumption DEF Operation
<1>5. [s EXCEPT !.next = @ + 1, !.pending = Append(@, op)] = Submitted(s, op)
  <2> DEFINE p == Append(s.pending, op)
             n == s.next + 1
  <2> HIDE DEF op, p, n, s
  <2>0. n \in 1..(MaxLocal + 1) /\ p \in Seq(Operation)
    BY <1>2, <1>4 DEF n, p
  <2>1. [s EXCEPT !.next = n, !.pending = p] =
          [next |-> n, cursor |-> s.cursor, committed |-> s.committed, ids |-> s.ids, pending |-> p]
    BY <1>1, <2>0, SubmittedState
  <2> QED
    BY <2>1 DEF Submitted, p, n
<1>6. Submitted(s, op) \in ReplicaState
  <2> HIDE DEF op
  <2>1. Append(s.pending, op) \in Seq(Operation)
    BY <1>2, <1>4
  <2> QED
    BY <1>1, <1>2, <2>1 DEF Submitted, ReplicaState
<1>7. op.id = <<r, s.next>> /\ current[h]
  BY <1>3 DEF Save
<1>8. UNCHANGED <<tables, mem, sent, wake, job, refused, evicted>>
  BY DEF Submit
<1> QED
  BY <1>1, <1>3, <1>4, <1>5, <1>6, <1>7, <1>8

\* submit keeps the handles and their storage in order.
LEMMA SubmitClient ==
  ASSUME Client, NEW h \in Handle, Submit(h)
  PROVE  Client'
<1>1. PICK op \in Operation : /\ Submitted(mem[h], op) \in ReplicaState
                              /\ Save(h, Submitted(mem[h], op), Nothing)
  BY SubmitFacts
<1>2. UNCHANGED <<mem, sent, wake>> /\ Unlocked(h)
  BY SubmitFacts DEF Submit
<1> QED
  BY <1>1, <1>2, SaveClient

\* An exchange sends what memory holds.
LEMMA RequestClient ==
  ASSUME Client, NEW f \in Fiber, Request(f), UNCHANGED <<disk, mem, current, saving>>,
         wake' \in [Handle -> BOOLEAN]
  PROVE  /\ Client'
         /\ sent'[f] = [cursor |-> mem[Tab[f]].cursor, pending |-> mem[Tab[f]].pending]
         /\ \A e \in Fiber \ {f} : sent'[e] = sent[e]
<1> DEFINE s == mem[Tab[f]]
           x == [cursor |-> s.cursor, pending |-> s.pending]
<1>1. s \in ReplicaState /\ Tab[f] \in Handle
  BY SyncAssumption DEF Request, Client, ClientTyped
<1>2. x \in Exchange
  BY <1>1 DEF ReplicaState, Exchange
<1>3. sent' = [sent EXCEPT ![f] = x]
  BY DEF Request
<1>4. s # Nothing
  BY DEF Request
<1> HIDE DEF x, s
<1>5. ClientTyped' /\ sent'[f] = x /\ \A e \in Fiber \ {f} : sent'[e] = sent[e]
  BY <1>2, <1>3 DEF Client, ClientTyped
<1>6. Exchanging'
  BY <1>4, <1>5 DEF Client, Exchanging, s
<1>7. Locked' /\ Revisions'
  BY DEF Client, Locked, Revisions
<1> QED
  BY <1>5, <1>6, <1>7 DEF Client, x, s

\* A fiber whose exchange failed waits no longer.
LEMMA GiveUpClient ==
  ASSUME Client, NEW f \in Fiber, sent' = [sent EXCEPT ![f] = Nothing],
         UNCHANGED <<disk, mem, current, saving, wake>>
  PROVE  Client'
<1>1. ClientTyped' /\ Exchanging'
  BY DEF Client, ClientTyped, Exchanging
<1>2. Locked' /\ Revisions'
  BY DEF Client, Locked, Revisions
<1> QED
  BY <1>1, <1>2 DEF Client

\* A response is saved, or its exchange fails and changes nothing.
LEMMA DeliverFacts ==
  ASSUME IInv, NEW k \in Slot, Deliver(k)
  PROVE  LET reply == job[k]
             f == reply.to
             h == Tab[f]
             s == mem[h]
         IN  /\ reply \in ReplyJob /\ Quotes(reply, tables) /\ f \in Fiber /\ h \in Handle
             /\ Unlocked(h) /\ s \in ReplicaState /\ sent[f] \in Exchange
             /\ job' = [Orphaned({f}) EXCEPT ![k] = Free]
             /\ UNCHANGED <<tables, mem, wake, issued, evicted>>
             /\ \/ /\ Adoptable(s, reply, sent[f].pending) /\ current[h]
                   /\ Adopted(s, reply) \in ReplicaState /\ Save(h, Adopted(s, reply), f)
                   /\ refused' = refused \cup (reply.rejected \cap Ids(s.pending))
                   /\ sent' = sent
                \/ /\ sent' = [sent EXCEPT ![f] = Nothing]
                   /\ UNCHANGED <<disk, current, saving, refused>>
<1> DEFINE reply == job[k]
           f == reply.to
           h == Tab[f]
           s == mem[h]
<1>1. reply \in Job /\ reply.phase = "reply" /\ f # Nothing /\ Unlocked(h)
  BY DEF Deliver, IInv, Typed
<1>2. reply \in ReplyJob /\ Quotes(reply, tables) /\ f \in Fiber
  <2>1. reply \in ReplyJob /\ f \in Fiber
    BY <1>1, JobKinds
  <2> QED
    BY <1>1, <2>1 DEF IInv, Replies
<1>3. h \in Handle
  BY <1>2, SyncAssumption
<1>4. s \in ReplicaState
  BY <1>1, <1>3 DEF Unlocked, IInv, Typed, ClientTyped
<1>5. sent[f] \in Exchange
  BY <1>1, <1>2 DEF IInv, Typed, ClientTyped, Replied, Waiting
<1>6. Adopted(s, reply) \in ReplicaState
  BY <1>2, <1>4, AdoptedType DEF Quotes
<1>7. /\ job' = [Orphaned({f}) EXCEPT ![k] = Free]
      /\ UNCHANGED <<tables, mem, wake, issued, evicted>>
      /\ \/ /\ Adoptable(s, reply, sent[f].pending) /\ current[h]
            /\ Save(h, Adopted(s, reply), f)
            /\ refused' = refused \cup (reply.rejected \cap Ids(s.pending))
            /\ sent' = sent
         \/ /\ sent' = [sent EXCEPT ![f] = Nothing]
            /\ UNCHANGED <<disk, current, saving, refused>>
  BY DEF Deliver
<1> QED
  BY <1>1, <1>2, <1>3, <1>4, <1>5, <1>6, <1>7

\* So does the response of synchronize.
LEMMA DeliverClient ==
  ASSUME IInv, NEW k \in Slot, Deliver(k)
  PROVE  Client'
<1> DEFINE f == job[k].to
           h == Tab[f]
           u == Adopted(mem[h], job[k])
<1>1. /\ f \in Fiber /\ h \in Handle /\ Unlocked(h) /\ UNCHANGED <<mem, wake>>
      /\ \/ u \in ReplicaState /\ Save(h, u, f) /\ sent' = sent
         \/ sent' = [sent EXCEPT ![f] = Nothing] /\ UNCHANGED <<disk, current, saving>>
  BY DeliverFacts
<1>2. Client
  BY DEF IInv, Typed, Client
<1> HIDE DEF f, h, u
<1>3. CASE u \in ReplicaState /\ Save(h, u, f) /\ sent' = sent
  BY <1>1, <1>2, <1>3, SaveClient DEF h
<1>4. CASE sent' = [sent EXCEPT ![f] = Nothing] /\ UNCHANGED <<disk, current, saving>>
  BY <1>1, <1>2, <1>4, GiveUpClient
<1> QED
  BY <1>1, <1>3, <1>4

\* Every step keeps the handles and their storage in order.
LEMMA ClientInvariant ==
  ASSUME IInv, Next
  PROVE  Client'
<1>1. Client
  BY DEF IInv, Typed, Client
<1>2. CASE ServerStep
  <2>1. UNCHANGED client
    BY <1>2 DEF ServerStep, Receive, AppendNext, Respond, Drop, AppendAsServer, Compact, client
  <2> QED
    BY <1>1, <2>1 DEF client, Client, ClientTyped, Locked, Revisions, Exchanging
<1>3. ASSUME NEW h \in Handle, Open(h) \/ Stop(h) \/ Submit(h) \/ Install(h) \/ InterruptSave(h)
      PROVE  Client'
  BY <1>1, <1>3, OpenClient, StopClient, SubmitClient, InstallClient, InterruptClient
<1>4. ASSUME NEW r \in Replica, Evict(r) PROVE Client'
  BY <1>1, <1>4, EvictClient
<1>5. ASSUME NEW f \in Fiber, LoopExchange(f) PROVE Client'
  <2>1. Request(f) /\ UNCHANGED <<disk, mem, current, saving>> /\ wake' \in [Handle -> BOOLEAN]
    BY <1>1, <1>5 DEF LoopExchange, Client, ClientTyped
  <2> QED
    BY <1>1, <2>1, RequestClient
<1>6. ASSUME NEW f \in Fiber, AppExchange(f) PROVE Client'
  <2>1. Request(f) /\ UNCHANGED <<disk, mem, current, saving>> /\ wake' \in [Handle -> BOOLEAN]
    BY <1>1, <1>6 DEF AppExchange, Client, ClientTyped
  <2> QED
    BY <1>1, <2>1, RequestClient
<1>7. ASSUME NEW f \in Fiber, ExchangeFails(f) PROVE Client'
  <2>1. sent' = [sent EXCEPT ![f] = Nothing] /\ UNCHANGED <<disk, mem, current, saving, wake>>
    BY <1>7 DEF ExchangeFails
  <2> QED
    BY <1>1, <2>1, GiveUpClient
<1>8. ASSUME NEW k \in Slot, DeliverError(k) PROVE Client'
  <2>1. job[k] \in Job
    BY DEF IInv, Typed
  <2>2. job[k].to \in Fiber
    BY <1>8, <2>1, JobKinds DEF DeliverError
  <2>3. /\ sent' = [sent EXCEPT ![job[k].to] = Nothing]
        /\ UNCHANGED <<disk, mem, current, saving, wake>>
    BY <1>8 DEF DeliverError
  <2> QED
    BY <1>1, <2>2, <2>3, GiveUpClient
<1> QED
  BY <1>2, <1>3, <1>4, <1>5, <1>6, <1>7, <1>8, DeliverClient DEF Next, ClientStep

(***************************************************************************)
(* The log.                                                                *)
(***************************************************************************)

\* One operation of a request is rejected, committed or already there, or
\* fails the exchange.
LEMMA AppendNextFacts ==
  ASSUME IInv, NEW k \in Slot, AppendNext(k)
  PROVE  LET j  == job[k]
             op == Head(j.todo)
             o  == Outcome(tables, op, j.actor)
             n  == job'[k]
         IN  /\ j \in AppendJob /\ j.todo # <<>> /\ op \in Operation /\ j.actor \in Replica
             /\ \A l \in Slot \ {k} : job'[l] = job[l]
             /\ DOMAIN job' = Slot
             /\ UNCHANGED <<client, past>>
             /\ \/ /\ j.actor \in Reader \/ o.tag = "OperationRejected"
                   /\ tables' = tables
                   /\ n \in AppendJob /\ n.to = j.to /\ n.actor = j.actor /\ n.after = j.after
                   /\ n.todo = Tail(j.todo) /\ n.acknowledged = j.acknowledged
                   /\ n.rejected = j.rejected \cup {op.id}
                \/ /\ j.actor \notin Reader /\ Successful(o)
                   /\ tables' = AfterCommit(tables, op, j.actor)
                   /\ n \in AppendJob /\ n.to = j.to /\ n.actor = j.actor /\ n.after = j.after
                   /\ n.todo = Tail(j.todo) /\ n.acknowledged = j.acknowledged \cup {op.id}
                   /\ n.rejected = j.rejected
                \/ /\ tables' = tables
                   /\ n = [to |-> j.to, phase |-> "error"]
<1> DEFINE j  == job[k]
           op == Head(j.todo)
           o  == Outcome(tables, op, j.actor)
           rest == [j EXCEPT !.todo = Tail(@)]
<1>1. j \in Job /\ j.phase = "append" /\ j.todo # <<>> /\ job \in [Slot -> Job]
  BY DEF AppendNext, IInv, Typed
<1>2. j \in AppendJob
  BY <1>1, JobKinds
<1>3. /\ j.todo \in Seq(Operation) /\ j.actor \in Replica
      /\ op \in Operation /\ Tail(j.todo) \in Seq(Operation)
  <2>1. j.todo \in Seq(Operation) /\ j.actor \in Replica
    BY <1>2 DEF AppendJob
  <2> QED
    BY <1>1, <2>1
<1>4. op.id \in OpId
  BY <1>3 DEF Operation
<1>5. /\ UNCHANGED <<client, past>>
      /\ \/ /\ j.actor \in Reader \/ o.tag = "OperationRejected"
            /\ tables' = tables
            /\ job' = [job EXCEPT ![k] = [rest EXCEPT !.rejected = @ \cup {op.id}]]
         \/ /\ j.actor \notin Reader /\ Successful(o)
            /\ tables' = AfterCommit(tables, op, j.actor)
            /\ job' = [job EXCEPT ![k] = [rest EXCEPT !.acknowledged = @ \cup {op.id}]]
         \/ /\ tables' = tables
            /\ job' = [job EXCEPT ![k] = [to |-> j.to, phase |-> "error"]]
  BY DEF AppendNext
<1> HIDE DEF j, op, o
<1>6. /\ rest \in AppendJob /\ rest.to = j.to /\ rest.actor = j.actor /\ rest.after = j.after
      /\ rest.todo = Tail(j.todo) /\ rest.acknowledged = j.acknowledged
      /\ rest.rejected = j.rejected
  BY <1>2, <1>3 DEF AppendJob
<1> HIDE DEF rest
<1>7. LET n == [rest EXCEPT !.rejected = @ \cup {op.id}]
      IN  /\ n \in AppendJob /\ n.to = j.to /\ n.actor = j.actor /\ n.after = j.after
          /\ n.todo = Tail(j.todo) /\ n.acknowledged = j.acknowledged
          /\ n.rejected = j.rejected \cup {op.id}
  BY <1>4, <1>6 DEF AppendJob
<1>8. LET n == [rest EXCEPT !.acknowledged = @ \cup {op.id}]
      IN  /\ n \in AppendJob /\ n.to = j.to /\ n.actor = j.actor /\ n.after = j.after
          /\ n.todo = Tail(j.todo) /\ n.acknowledged = j.acknowledged \cup {op.id}
          /\ n.rejected = j.rejected
  BY <1>4, <1>6 DEF AppendJob
<1>9. \A n : job' = [job EXCEPT ![k] = n] =>
        job'[k] = n /\ DOMAIN job' = Slot /\ \A l \in Slot \ {k} : job'[l] = job[l]
  BY <1>1
<1>10. CASE /\ j.actor \in Reader \/ o.tag = "OperationRejected"
            /\ tables' = tables
            /\ job' = [job EXCEPT ![k] = [rest EXCEPT !.rejected = @ \cup {op.id}]]
  <2>1. /\ job'[k] = [rest EXCEPT !.rejected = @ \cup {op.id}] /\ DOMAIN job' = Slot
        /\ \A l \in Slot \ {k} : job'[l] = job[l]
    BY <1>9, <1>10
  <2> QED
    BY <1>1, <1>2, <1>3, <1>5, <1>7, <1>10, <2>1 DEF j, op, o
<1>11. CASE /\ j.actor \notin Reader /\ Successful(o)
            /\ tables' = AfterCommit(tables, op, j.actor)
            /\ job' = [job EXCEPT ![k] = [rest EXCEPT !.acknowledged = @ \cup {op.id}]]
  <2>1. /\ job'[k] = [rest EXCEPT !.acknowledged = @ \cup {op.id}] /\ DOMAIN job' = Slot
        /\ \A l \in Slot \ {k} : job'[l] = job[l]
    BY <1>9, <1>11
  <2> QED
    BY <1>1, <1>2, <1>3, <1>5, <1>8, <1>11, <2>1 DEF j, op, o
<1>12. CASE /\ tables' = tables
            /\ job' = [job EXCEPT ![k] = [to |-> j.to, phase |-> "error"]]
  <2>1. /\ job'[k] = [to |-> j.to, phase |-> "error"] /\ DOMAIN job' = Slot
        /\ \A l \in Slot \ {k} : job'[l] = job[l]
    BY <1>9, <1>12
  <2> QED
    BY <1>1, <1>2, <1>3, <1>5, <1>12, <2>1 DEF j, op, o
<1> QED
  BY <1>5, <1>10, <1>11, <1>12

\* The request commits this operation now.
CommitsNext(k, op) ==
  /\ AppendNext(k) /\ job[k] \in AppendJob /\ job[k].todo # <<>> /\ op = Head(job[k].todo)
  /\ job[k].actor \notin Reader

\* A step leaves the tables alone, commits one new operation or compacts.
LEMMA TablesStep ==
  ASSUME IInv, Next
  PROVE  \/ tables' = tables
         \/ \E op \in Operation, a \in Actor :
              /\ Prior(tables, op.id) = {} /\ Accept(tables.snapshot, op, a) = "reduce"
              /\ tables' = Insert(tables, op, a)
              /\ \/ \E k \in Slot : CommitsNext(k, op) /\ a = job[k].actor
                 \/ op.id[1] = Producer /\ a = Producer /\ UNCHANGED <<client, job, past>>
         \/ \E n \in tables.floor..tables.cursor : tables' = Compacted(tables, n)
<1>0. \A op, a : Outcome(tables, op, a).tag = "Appended" =>
         Prior(tables, op.id) = {} /\ Accept(tables.snapshot, op, a) = "reduce"
  BY DEF Outcome
<1>1. ASSUME NEW k \in Slot, AppendNext(k) PROVE
         \/ tables' = tables
         \/ \E op \in Operation, a \in Actor :
              /\ Prior(tables, op.id) = {} /\ Accept(tables.snapshot, op, a) = "reduce"
              /\ tables' = Insert(tables, op, a)
              /\ CommitsNext(k, op) /\ a = job[k].actor
  <2> DEFINE j == job[k]
             op == Head(j.todo)
  <2>1. /\ j \in AppendJob /\ j.todo # <<>> /\ op \in Operation /\ j.actor \in Replica
        /\ \/ tables' = tables
           \/ j.actor \notin Reader /\ tables' = AfterCommit(tables, op, j.actor)
    BY <1>1, AppendNextFacts
  <2>2. j.actor \in Actor
    BY <2>1, SyncAssumption
  <2> HIDE DEF j, op
  <2>3. CASE tables' # tables
    <3>1. /\ j.actor \notin Reader /\ tables' = Insert(tables, op, j.actor)
          /\ Outcome(tables, op, j.actor).tag = "Appended"
      BY <2>1, <2>3 DEF AfterCommit
    <3> QED
      BY <1>0, <1>1, <2>1, <2>2, <3>1 DEF CommitsNext, j, op
  <2> QED
    BY <2>3
<1>2. CASE AppendAsServer
  <2>1. PICK d \in Data :
          LET op == [id |-> <<Producer, tables.cursor + 1>>, data |-> d]
          IN  /\ Outcome(tables, op, Producer).tag = "Appended"
              /\ tables' = AfterCommit(tables, op, Producer)
    BY <1>2 DEF AppendAsServer
  <2> DEFINE op == [id |-> <<Producer, tables.cursor + 1>>, data |-> d]
  <2>2. MaxCursor \in Nat
    <3>1. Cardinality(Replica) \in Nat
      BY SyncAssumption, FS_CardinalityType
    <3> QED
      BY <3>1, SyncAssumption DEF MaxCursor
  <2>3. tables.cursor + 1 \in 1..MaxCursor
    BY <1>2, <2>2 DEF AppendAsServer, IInv, Typed, Tables
  <2>4. op \in Operation /\ Producer \in Actor /\ op.id[1] = Producer
    BY <2>3, SyncAssumption DEF Operation
  <2>5. tables' = Insert(tables, op, Producer) /\ Outcome(tables, op, Producer).tag = "Appended"
    BY <2>1 DEF AfterCommit
  <2>6. UNCHANGED <<client, job, past>>
    BY <1>2 DEF AppendAsServer
  <2> HIDE DEF op
  <2> QED
    BY <1>0, <2>4, <2>5, <2>6
<1>3. CASE Compact
  BY <1>3 DEF Compact
<1>4. ASSUME NEW k \in Slot, (\E f \in Fiber : Receive(k, f)) \/ Respond(k) \/ Drop(k)
      PROVE  tables' = tables
  BY <1>4 DEF Receive, Respond, Drop
<1>5. CASE ClientStep
  BY <1>5 DEF ClientStep, Open, Stop, Submit, Install, InterruptSave, Evict, LoopExchange,
              AppExchange, ExchangeFails, Deliver, DeliverError
<1> QED
  BY <1>1, <1>2, <1>3, <1>4, <1>5 DEF Next, ServerStep

\* What the log goes through keeps it consistent and only extends it.
LEMMA LogStep ==
  ASSUME IInv, Next
  PROVE  tables' \in Tables /\ LogHolds' /\ Extends(tables, tables')
<1>1. tables \in Tables /\ TablesConsistent(tables) /\ FloorIsExact(tables)
  BY DEF IInv, Typed, LogHolds
<1>2. CASE tables' = tables
  BY <1>1, <1>2, ExtendsItself DEF LogHolds
<1>3. ASSUME NEW op \in Operation, NEW a \in Actor, Prior(tables, op.id) = {},
             tables' = Insert(tables, op, a)
      PROVE  tables' \in Tables /\ LogHolds' /\ Extends(tables, tables')
  BY <1>1, <1>3, InsertType, InsertConsistent, InsertFloor, InsertExtends DEF LogHolds
<1>4. ASSUME NEW n \in tables.floor..tables.cursor, tables' = Compacted(tables, n)
      PROVE  tables' \in Tables /\ LogHolds' /\ Extends(tables, tables')
  <2>1. n \in Nat
    BY <1>1 DEF Tables
  <2> QED
    BY <1>1, <1>4, <2>1, CompactedType, CompactedConsistent, CompactedFloor, CompactedExtends
       DEF LogHolds
<1> QED
  BY <1>2, <1>3, <1>4, TablesStep

(***************************************************************************)
(* The jobs.                                                               *)
(***************************************************************************)

\* What a read from the floor on returns is the log after its cursor.
LEMMA CommittedAfterFacts ==
  ASSUME IInv, NEW after \in Nat, tables.floor <= after, after <= tables.cursor
  PROVE  LET c == CommittedAfter(tables, after)
         IN  /\ c \in Seq(Operation) /\ Len(c) = tables.cursor - after
             /\ \A i \in 1..Len(c) : c[i] = tables.snapshot[after + i]
<1> DEFINE c == CommittedAfter(tables, after)
           n == tables.cursor - after
           At(i) == CHOOSE r \in tables.ops : r.seq = after + i
<1>1. /\ tables.ops \in SUBSET Row /\ tables.cursor \in Nat /\ tables.snapshot \in Seq(Operation)
      /\ n \in Nat /\ Len(tables.snapshot) = tables.cursor /\ tables.floor \in Nat
  BY DEF IInv, Typed, Tables, LogHolds, TablesConsistent, SnapshotIsReduction
<1>2. c = [i \in 1..n |-> [id |-> At(i).id, data |-> At(i).input]]
  BY DEF CommittedAfter
<1>3. ASSUME NEW i \in 1..n
      PROVE  [id |-> At(i).id, data |-> At(i).input] = tables.snapshot[after + i]
  <2>1. after + i \in 1..tables.cursor /\ ~(after + i <= tables.floor)
    BY <1>1
  <2>2. \E r \in tables.ops : r.seq = after + i
    BY <2>1 DEF IInv, LogHolds, TablesConsistent, GapFree
  <2>3. At(i) \in tables.ops /\ At(i).seq = after + i
    BY <2>2
  <2> DEFINE r == At(i)
  <2> HIDE DEF r
  <2>4. r \in tables.ops /\ r.seq = after + i
    BY <2>3 DEF r
  <2>5. /\ tables.snapshot[r.seq] = [id |-> r.id, data |-> r.hash] /\ r.input \in {Null, r.hash}
    BY <2>4 DEF IInv, LogHolds, TablesConsistent, SnapshotIsReduction
  <2>6. r.input # Null
    BY <2>1, <2>4 DEF IInv, LogHolds, FloorIsExact
  <2>7. [id |-> r.id, data |-> r.input] = tables.snapshot[after + i]
    BY <2>4, <2>5, <2>6
  <2> QED
    BY <2>7 DEF r
<1> HIDE DEF c, At
<1>4. c = [i \in 1..n |-> tables.snapshot[after + i]]
  BY <1>2, <1>3
<1>5. \A i \in 1..n : tables.snapshot[after + i] \in Operation
  BY <1>1
<1>6. c \in Seq(Operation) /\ Len(c) = n /\ \A i \in 1..n : c[i] = tables.snapshot[after + i]
  <2> HIDE DEF n
  <2>1. c \in [1..n -> Operation] /\ \A i \in 1..n : c[i] = tables.snapshot[after + i]
    BY <1>4, <1>5
  <2>2. c \in Seq(Operation)
    BY <1>1, <2>1, SeqDef
  <2>3. Len(c) = n
    BY <1>1, <2>1, <2>2, LenProperties
  <2> QED
    BY <2>1, <2>2, <2>3
<1> QED
  BY <1>6 DEF c

\* A response is an error or quotes the log.
LEMMA RespondFacts ==
  ASSUME IInv, NEW k \in Slot, Respond(k)
  PROVE  LET j == job[k]
             n == job'[k]
         IN  /\ j \in AppendJob /\ j.todo = <<>>
             /\ DOMAIN job' = Slot /\ \A l \in Slot \ {k} : job'[l] = job[l]
             /\ UNCHANGED <<tables, client, past>>
             /\ \/ n = [to |-> j.to, phase |-> "error"]
                \/ /\ n \in ReplyJob /\ Quotes(n, tables) /\ n.to = j.to
                   /\ n.acknowledged = j.acknowledged /\ n.rejected = j.rejected
                   /\ n.from <= tables.cursor /\ (n.checkpoint => n.from = tables.cursor)
<1> DEFINE j == job[k]
           n == job'[k]
           reply == [to |-> j.to, phase |-> "reply", acknowledged |-> j.acknowledged,
                 rejected |-> j.rejected,
                 checkpoint |-> j.after < tables.floor,
                 from  |-> IF j.after < tables.floor THEN tables.cursor ELSE j.after,
                 model |-> IF j.after < tables.floor THEN tables.snapshot ELSE <<>>,
                 operations |-> IF j.after < tables.floor THEN <<>>
                                ELSE CommittedAfter(tables, j.after)]
<1>1. /\ j \in Job /\ j.phase = "append" /\ j.todo = <<>> /\ job \in [Slot -> Job]
      /\ UNCHANGED <<tables, client, past>>
      /\ job' = [job EXCEPT ![k] = IF j.after > tables.cursor THEN [to |-> j.to, phase |-> "error"]
                                  ELSE reply]
  BY DEF Respond, IInv, Typed
<1>2. j \in AppendJob
  BY <1>1, JobKinds
<1>3. /\ j.to \in Fiber \cup {Nothing} /\ j.after \in Nat
      /\ j.acknowledged \in SUBSET OpId /\ j.rejected \in SUBSET OpId
  BY <1>2 DEF AppendJob
<1>4. /\ tables.cursor \in Nat /\ tables.floor \in Nat /\ tables.snapshot \in Seq(Operation)
      /\ Len(tables.snapshot) = tables.cursor
  BY DEF IInv, Typed, Tables, LogHolds, TablesConsistent, SnapshotIsReduction
<1>5. /\ DOMAIN job' = Slot /\ \A l \in Slot \ {k} : job'[l] = job[l]
      /\ job'[k] = IF j.after > tables.cursor THEN [to |-> j.to, phase |-> "error"] ELSE reply
  <2> HIDE DEF j, reply
  <2> QED
    BY <1>1
<1> HIDE DEF j
<1>6. CASE j.after > tables.cursor
  BY <1>1, <1>2, <1>5, <1>6 DEF j
<1>7. CASE j.after <= tables.cursor /\ j.after < tables.floor
  <2>1. /\ reply.to = j.to /\ reply.acknowledged = j.acknowledged /\ reply.rejected = j.rejected
        /\ reply.checkpoint /\ reply.from = tables.cursor /\ reply.model = tables.snapshot
        /\ reply.operations = <<>>
    BY <1>7
  <2>2. reply = [to |-> j.to, phase |-> "reply", acknowledged |-> j.acknowledged,
                 rejected |-> j.rejected, checkpoint |-> TRUE, from |-> tables.cursor,
                 model |-> tables.snapshot, operations |-> <<>>]
    BY <1>7
  <2>3. reply \in ReplyJob
    BY <1>3, <1>4, <2>2 DEF ReplyJob
  <2> HIDE DEF reply
  <2>4. Quotes(reply, tables)
    BY <1>4, <2>1 DEF Quotes
  <2>5. n = reply
    BY <1>3, <1>4, <1>5, <1>7
  <2>6. reply.from <= tables.cursor
    BY <1>4, <2>1
  <2> QED
    BY <1>1, <1>2, <1>5, <2>1, <2>3, <2>4, <2>5, <2>6 DEF j
<1>8. CASE j.after <= tables.cursor /\ ~(j.after < tables.floor)
  <2> DEFINE c == CommittedAfter(tables, j.after)
  <2>0. j.after \in Nat /\ tables.floor <= j.after /\ j.after <= tables.cursor
        /\ (j.after < tables.floor) = FALSE
    BY <1>3, <1>4, <1>8
  <2>1. /\ c \in Seq(Operation) /\ Len(c) = tables.cursor - j.after
        /\ \A i \in 1..Len(c) : c[i] = tables.snapshot[j.after + i]
    BY <2>0, CommittedAfterFacts
  <2> HIDE DEF c
  <2>2. reply = [to |-> j.to, phase |-> "reply", acknowledged |-> j.acknowledged,
                 rejected |-> j.rejected, checkpoint |-> FALSE, from |-> j.after,
                 model |-> <<>>, operations |-> c]
    BY <2>0 DEF c
  <2> HIDE DEF reply
  <2>3. reply \in ReplyJob
    BY <1>3, <2>1, <2>2 DEF ReplyJob
  <2>4. /\ reply.to = j.to /\ reply.acknowledged = j.acknowledged /\ reply.rejected = j.rejected
        /\ ~reply.checkpoint /\ reply.from = j.after /\ reply.operations = c
    BY <2>2
  <2>5. Quotes(reply, tables)
    BY <1>3, <1>4, <2>1, <2>4 DEF Quotes
  <2>6. n = reply
    BY <1>3, <1>4, <1>5, <1>8
  <2> QED
    BY <1>1, <1>2, <1>5, <1>8, <2>3, <2>4, <2>5, <2>6 DEF j
<1> QED
  BY <1>3, <1>4, <1>6, <1>7, <1>8

\* A job nobody waits for is the same request.
LEMMA ForgottenJob ==
  ASSUME NEW j \in Job
  PROVE  LET n == [j EXCEPT !.to = Nothing]
         IN  /\ n \in Job /\ n.to = Nothing /\ n.phase = j.phase
             /\ j.phase = "append" => /\ n.actor = j.actor /\ n.after = j.after /\ n.todo = j.todo
                                      /\ n.acknowledged = j.acknowledged /\ n.rejected = j.rejected
             /\ j.phase = "reply" => /\ n.acknowledged = j.acknowledged /\ n.rejected = j.rejected
                                     /\ n.checkpoint = j.checkpoint /\ n.from = j.from
                                     /\ n.model = j.model /\ n.operations = j.operations
<1>1. CASE j = Free
  BY <1>1 DEF Free, Job
<1>2. CASE j \in AppendJob
  BY <1>2 DEF AppendJob, Job
<1>3. CASE j \in ReplyJob
  BY <1>3 DEF ReplyJob, Job
<1>4. CASE j \in ErrorJob
  BY <1>4 DEF ErrorJob, Job
<1> QED
  BY <1>1, <1>2, <1>3, <1>4 DEF Job

\* A request takes the cursor and the outbox that were sent.
LEMMA ReceiveFacts ==
  ASSUME IInv, NEW k \in Slot, NEW f \in Fiber, Receive(k, f)
  PROVE  /\ Waiting(f) /\ sent[f] \in Exchange /\ job'[k] \in AppendJob
         /\ job'[k] = [to |-> f, phase |-> "append", actor |-> Home[Tab[f]], after |-> sent[f].cursor,
                       todo |-> sent[f].pending, acknowledged |-> {}, rejected |-> {}]
         /\ DOMAIN job' = Slot /\ \A l \in Slot \ {k} : job'[l] = job[l]
         /\ UNCHANGED <<tables, client, past>>
<1> DEFINE n == [to |-> f, phase |-> "append", actor |-> Home[Tab[f]], after |-> sent[f].cursor,
                 todo |-> sent[f].pending, acknowledged |-> {}, rejected |-> {}]
<1>1. /\ Waiting(f) /\ job' = [job EXCEPT ![k] = n] /\ UNCHANGED <<tables, client, past>>
      /\ job \in [Slot -> Job] /\ Home[Tab[f]] \in Replica
  BY SyncAssumption DEF Receive, IInv, Typed
<1>2. sent[f] \in Exchange
  BY <1>1 DEF Waiting, IInv, Typed, ClientTyped
<1>3. n \in AppendJob
  BY <1>1, <1>2 DEF AppendJob, Exchange
<1> HIDE DEF n
<1>4. job'[k] = n /\ DOMAIN job' = Slot /\ \A l \in Slot \ {k} : job'[l] = job[l]
  BY <1>1
<1> QED
  BY <1>1, <1>2, <1>3, <1>4 DEF n

\* A step leaves a job alone, orphans or frees it, or works on it.
LEMMA JobStep ==
  ASSUME IInv, Next, NEW k \in Slot
  PROVE  /\ DOMAIN job' = Slot
         /\ \/ job'[k] = job[k]
            \/ job'[k] = [job[k] EXCEPT !.to = Nothing]
            \/ job'[k] = Free
            \/ (\E f \in Fiber : Receive(k, f)) \/ AppendNext(k) \/ Respond(k)
<1>1. job \in [Slot -> Job]
  BY DEF IInv, Typed
<1>2. ASSUME NEW fibers
      PROVE  /\ DOMAIN Orphaned(fibers) = Slot
             /\ Orphaned(fibers)[k] = job[k] \/ Orphaned(fibers)[k] = [job[k] EXCEPT !.to = Nothing]
  BY DEF Orphaned
<1>3. ASSUME NEW l \in Slot, (\E f \in Fiber : Receive(l, f)) \/ AppendNext(l) \/ Respond(l)
      PROVE  DOMAIN job' = Slot /\ (k # l => job'[k] = job[k])
  BY <1>3, ReceiveFacts, AppendNextFacts, RespondFacts
<1>4. ASSUME NEW l \in Slot, Drop(l)
      PROVE  DOMAIN job' = Slot /\ (job'[k] = job[k] \/ job'[k] = Free)
  BY <1>1, <1>4 DEF Drop
<1>5. ASSUME NEW l \in Slot, Deliver(l) \/ DeliverError(l)
      PROVE  /\ DOMAIN job' = Slot
             /\ \/ job'[k] = job[k] \/ job'[k] = [job[k] EXCEPT !.to = Nothing] \/ job'[k] = Free
  <2>1. job' = [Orphaned({job[l].to}) EXCEPT ![l] = Free]
    BY <1>5 DEF Deliver, DeliverError
  <2>2. /\ DOMAIN Orphaned({job[l].to}) = Slot
        /\ \/ Orphaned({job[l].to})[k] = job[k]
           \/ Orphaned({job[l].to})[k] = [job[k] EXCEPT !.to = Nothing]
    BY <1>2
  <2> QED
    BY <2>1, <2>2
<1>6. ASSUME NEW h \in Handle, Stop(h)
      PROVE  DOMAIN job' = Slot /\ (job'[k] = job[k] \/ job'[k] = [job[k] EXCEPT !.to = Nothing])
  <2>1. job' = Orphaned({f \in Fiber : Tab[f] = h})
    BY <1>6 DEF Stop
  <2> QED
    BY <1>2, <2>1
<1>7. ASSUME NEW f \in Fiber, ExchangeFails(f)
      PROVE  DOMAIN job' = Slot /\ (job'[k] = job[k] \/ job'[k] = [job[k] EXCEPT !.to = Nothing])
  <2>1. job' = Orphaned({f})
    BY <1>7 DEF ExchangeFails
  <2> QED
    BY <1>2, <2>1
<1>8. CASE AppendAsServer \/ Compact
  BY <1>1, <1>8 DEF AppendAsServer, Compact
<1>9. ASSUME NEW h \in Handle, Open(h) \/ Submit(h) \/ Install(h) \/ InterruptSave(h)
      PROVE  job' = job
  BY <1>9 DEF Open, Submit, Install, InterruptSave
<1>10. ASSUME NEW f \in Fiber, LoopExchange(f) \/ AppExchange(f) PROVE job' = job
  BY <1>10 DEF LoopExchange, AppExchange
<1>11. ASSUME NEW r \in Replica, Evict(r) PROVE job' = job
  BY <1>11 DEF Evict
<1>12. CASE ServerStep
  BY <1>3, <1>4, <1>8, <1>12 DEF ServerStep
<1>13. CASE ClientStep
  BY <1>1, <1>5, <1>6, <1>7, <1>9, <1>10, <1>11, <1>13 DEF ClientStep
<1> QED
  BY <1>12, <1>13 DEF Next

\* The jobs keep their types, and replies go on quoting the log as it grows.
LEMMA JobsInvariant ==
  ASSUME IInv, Next
  PROVE  job' \in [Slot -> Job] /\ Replies'
<1>1. job \in [Slot -> Job] /\ Replies /\ Extends(tables, tables') /\ tables \in Tables
  BY LogStep DEF IInv, Typed
<1>2. ASSUME NEW j \in ReplyJob, Quotes(j, tables)
      PROVE  Quotes(j, tables')
  <2>1. /\ j.from \in Nat /\ Len(j.operations) \in Nat /\ tables.cursor \in Nat
        /\ tables'.cursor \in Nat /\ tables.cursor <= tables'.cursor
        /\ \A i \in 1..tables.cursor : tables'.snapshot[i] = tables.snapshot[i]
    BY <1>1, LogStep DEF ReplyJob, Tables, Extends
  <2>2. CASE j.checkpoint
    BY <1>2, <2>1, <2>2 DEF Quotes
  <2>3. CASE ~j.checkpoint
    <3>1. /\ j.from + Len(j.operations) <= tables.cursor
          /\ \A i \in 1..Len(j.operations) : j.operations[i] = tables.snapshot[j.from + i]
      BY <1>2, <2>3 DEF Quotes
    <3>2. \A i \in 1..Len(j.operations) : j.from + i \in 1..tables.cursor
      BY <2>1, <3>1
    <3> QED
      BY <2>1, <2>3, <3>1, <3>2 DEF Quotes
  <2> QED
    BY <2>2, <2>3
<1>3. ASSUME NEW k \in Slot
      PROVE  job'[k] \in Job /\ (job'[k].phase = "reply" => Quotes(job'[k], tables'))
  <2> DEFINE j == job[k]
             n == job'[k]
  <2>1. j \in Job /\ (j.phase = "reply" => j \in ReplyJob /\ Quotes(j, tables'))
    BY <1>1, <1>2, JobKinds DEF Replies
  <2>2. CASE n = j
    BY <2>1, <2>2
  <2>3. CASE n = [j EXCEPT !.to = Nothing]
    <3> HIDE DEF j
    <3>1. /\ n \in Job /\ n.phase = j.phase
          /\ j.phase = "reply" => /\ n.checkpoint = j.checkpoint /\ n.from = j.from
                                  /\ n.model = j.model /\ n.operations = j.operations
      BY <2>1, <2>3, ForgottenJob
    <3> QED
      BY <2>1, <3>1 DEF Quotes
  <2>4. CASE n = Free
    BY <2>4 DEF Free, Job
  <2>5. ASSUME NEW f \in Fiber, Receive(k, f) PROVE n \in AppendJob
    BY <2>5, ReceiveFacts
  <2>6. CASE AppendNext(k)
    <3>1. n \in AppendJob \/ n = [to |-> j.to, phase |-> "error"]
      BY <2>6, AppendNextFacts
    <3>2. j.to \in Fiber \cup {Nothing}
      BY <2>1, JobKinds
    <3> QED
      BY <3>1, <3>2 DEF Job, AppendJob, ErrorJob
  <2>7. CASE Respond(k)
    <3>1. /\ tables' = tables
          /\ n = [to |-> j.to, phase |-> "error"] \/ (n \in ReplyJob /\ Quotes(n, tables))
      BY <2>7, RespondFacts
    <3>2. j.to \in Fiber \cup {Nothing}
      BY <2>1, JobKinds
    <3> QED
      BY <3>1, <3>2 DEF Job, ErrorJob
  <2>8. n \in AppendJob => n \in Job /\ n.phase # "reply"
    BY DEF Job, AppendJob
  <2> QED
    BY <2>2, <2>3, <2>4, <2>5, <2>6, <2>7, <2>8, JobStep
<1>4. DOMAIN job' = Slot /\ job' = [k \in Slot |-> job'[k]]
  <2>1. CASE ServerStep
    BY <1>1, <2>1 DEF ServerStep, Receive, AppendNext, Respond, Drop, AppendAsServer, Compact
  <2>2. CASE ClientStep
    BY <1>1, <2>2 DEF ClientStep, Orphaned, Open, Stop, Submit, Install, InterruptSave, Evict,
       LoopExchange, AppExchange, ExchangeFails, Deliver, DeliverError
  <2> QED
    BY <2>1, <2>2 DEF Next
<1> QED
  BY <1>3, <1>4 DEF Replies

\* A fiber whose exchange nobody answered or gave up still waits.
LEMMA WaitingKept ==
  ASSUME NEW f \in Fiber, Waiting(f), sent'[f] = sent[f],
         \A h \in Handle : saving'[h] # Nothing => saving'[h].by # f
  PROVE  Waiting(f)'
  BY DEF Waiting

\* Only a waiting fiber is replied to.
LEMMA RepliedInvariant ==
  ASSUME IInv, Next
  PROVE  Replied'
<1>0. /\ job \in [Slot -> Job] /\ ClientTyped /\ Client
      /\ \A k \in Slot : job[k].to \in Fiber \cup {Nothing}
      /\ \A k \in Slot : job[k].to # Nothing => Waiting(job[k].to)
  BY JobKinds DEF IInv, Typed, Client, Replied
<1> DEFINE Same(f) == sent'[f] = sent[f] /\ \A h \in Handle : saving'[h] # Nothing => saving'[h].by # f
           Old(k) == job'[k].to = job[k].to
<1>1. ASSUME NEW k \in Slot, job'[k].to = Nothing \/ (Old(k) /\ Same(job[k].to))
      PROVE  job'[k].to # Nothing => Waiting(job[k].to)'
  <2>1. SUFFICES ASSUME job'[k].to # Nothing PROVE Waiting(job[k].to)'
    OBVIOUS
  <2>2. PICK f \in Fiber : f = job[k].to
    BY <1>0, <1>1, <2>1
  <2>3. Waiting(f) /\ Same(f) /\ job'[k].to = f
    BY <1>0, <1>1, <2>1, <2>2
  <2>4. Waiting(f)'
    BY <2>3, WaitingKept
  <2> QED
    BY <2>3, <2>4 DEF Waiting
<1>2. ASSUME NEW fibers, NEW k \in Slot
      PROVE  /\ Orphaned(fibers)[k].to = Nothing \/ Orphaned(fibers)[k].to = job[k].to
             /\ job[k].to \in fibers => Orphaned(fibers)[k].to = Nothing
  <2>1. Orphaned(fibers)[k] = IF job[k].to \in fibers THEN [job[k] EXCEPT !.to = Nothing] ELSE job[k]
    BY DEF Orphaned
  <2>2. job[k] \in Job
    BY <1>0
  <2> QED
    BY <2>1, <2>2, ForgottenJob
<1>3. Free.to = Nothing
  BY DEF Free
<1>4. ASSUME UNCHANGED <<sent, saving>> PROVE \A k \in Slot : job[k].to # Nothing => Same(job[k].to)
  BY <1>0, <1>4 DEF Waiting
<1>5. CASE ServerStep
  <2>1. UNCHANGED <<sent, saving>>
    BY <1>5 DEF ServerStep, Receive, AppendNext, Respond, Drop, AppendAsServer, Compact, client
  <2>2. ASSUME NEW k \in Slot PROVE job'[k].to # Nothing => Waiting(job[k].to)'
    <3>1. ASSUME NEW f \in Fiber, Receive(k, f) PROVE Waiting(job[k].to)'
      <4>0. job'[k] = [to |-> f, phase |-> "append", actor |-> Home[Tab[f]], after |-> sent[f].cursor,
                       todo |-> sent[f].pending, acknowledged |-> {}, rejected |-> {}]
        BY <3>1, ReceiveFacts
      <4>1. Waiting(f) /\ job'[k].to = f
        BY <3>1, <4>0, ReceiveFacts
      <4> QED
        BY <2>1, <4>1 DEF Waiting
    <3>2. CASE AppendNext(k)
      <4>0. job'[k].to = job[k].to \/ job'[k] = [to |-> job[k].to, phase |-> "error"]
        BY <3>2, AppendNextFacts
      <4>1. job'[k].to = job[k].to
        BY <4>0
      <4> QED
        BY <1>1, <1>4, <2>1, <4>1
    <3>3. CASE Respond(k)
      <4>0. job'[k].to = job[k].to \/ job'[k] = [to |-> job[k].to, phase |-> "error"]
        BY <3>3, RespondFacts
      <4>1. job'[k].to = job[k].to
        BY <4>0
      <4> QED
        BY <1>1, <1>4, <2>1, <4>1
    <3>4. CASE job'[k] = Free
      BY <1>3, <3>4
    <3>5. CASE job'[k] = job[k]
      BY <1>1, <1>4, <2>1, <3>5
    <3>6. CASE job'[k] = [job[k] EXCEPT !.to = Nothing]
      BY <1>0, <3>6, ForgottenJob
    <3> QED
      BY <3>1, <3>2, <3>3, <3>4, <3>5, <3>6, JobStep
  <2> QED
    BY <2>2 DEF Replied
<1>6. ASSUME NEW h \in Handle, Stop(h) PROVE Replied'
  <2> DEFINE fibers == {f \in Fiber : Tab[f] = h}
  <2>1. /\ job' = Orphaned(fibers) /\ saving' = [saving EXCEPT ![h] = Nothing]
        /\ sent' = [f \in Fiber |-> IF f \in fibers THEN Nothing ELSE sent[f]]
    BY <1>6 DEF Stop
  <2>2. ASSUME NEW k \in Slot, job'[k].to # Nothing PROVE Old(k) /\ Same(job[k].to)
    <3>1. Old(k) /\ job[k].to \notin fibers /\ job[k].to \in Fiber /\ Waiting(job[k].to)
      BY <1>0, <1>2, <2>1, <2>2
    <3> QED
      BY <1>0, <2>1, <3>1 DEF Waiting, ClientTyped
  <2> QED
    BY <1>1, <2>2 DEF Replied
<1>7. ASSUME NEW f \in Fiber, job' = Orphaned({f}) \/ \E k \in Slot : job' = [Orphaned({f}) EXCEPT ![k] = Free],
             \A e \in Fiber \ {f} : sent'[e] = sent[e],
             \A h \in Handle : saving'[h] # Nothing =>
               saving'[h].by = f \/ (saving[h] # Nothing /\ saving'[h].by = saving[h].by)
      PROVE  Replied'
  <2>1. ASSUME NEW k \in Slot, job'[k].to # Nothing PROVE Old(k) /\ Same(job[k].to)
    <3>1. DOMAIN Orphaned({f}) = Slot
      BY DEF Orphaned
    <3>2. job'[k] = Orphaned({f})[k]
      BY <1>3, <1>7, <2>1, <3>1
    <3>3. Old(k) /\ job[k].to # f /\ job[k].to \in Fiber /\ Waiting(job[k].to)
      BY <1>0, <1>2, <2>1, <3>2
    <3> QED
      BY <1>7, <3>3 DEF Waiting
  <2> QED
    BY <1>1, <2>1 DEF Replied
<1>8. ASSUME NEW f \in Fiber, ExchangeFails(f) PROVE Replied'
  <2>1. job' = Orphaned({f}) /\ sent' = [sent EXCEPT ![f] = Nothing] /\ saving' = saving
    BY <1>8 DEF ExchangeFails
  <2>2. \A e \in Fiber \ {f} : sent'[e] = sent[e]
    BY <1>0, <2>1 DEF ClientTyped
  <2> QED
    BY <1>7, <2>1, <2>2
<1>9. ASSUME NEW k \in Slot, DeliverError(k) PROVE Replied'
  <2> DEFINE f == job[k].to
  <2>1. /\ f \in Fiber /\ job' = [Orphaned({f}) EXCEPT ![k] = Free] /\ saving' = saving
        /\ sent' = [sent EXCEPT ![f] = Nothing]
    BY <1>0, <1>9 DEF DeliverError
  <2> HIDE DEF f
  <2>2. \A e \in Fiber \ {f} : sent'[e] = sent[e]
    BY <1>0, <2>1 DEF ClientTyped
  <2> QED
    BY <1>7, <2>1, <2>2
<1>10. ASSUME NEW k \in Slot, Deliver(k) PROVE Replied'
  <2> DEFINE f == job[k].to
             h == Tab[f]
             u == Adopted(mem[h], job[k])
  <2>1. /\ f \in Fiber /\ h \in Handle /\ job' = [Orphaned({f}) EXCEPT ![k] = Free]
        /\ \/ u \in ReplicaState /\ Save(h, u, f) /\ sent' = sent
           \/ sent' = [sent EXCEPT ![f] = Nothing] /\ UNCHANGED saving
    BY <1>10, DeliverFacts
  <2> HIDE DEF f, h, u
  <2>2. \A e \in Fiber \ {f} : sent'[e] = sent[e]
    BY <1>0, <2>1 DEF ClientTyped
  <2>3. \A g \in Handle : saving'[g] # Nothing =>
          saving'[g].by = f \/ (saving[g] # Nothing /\ saving'[g].by = saving[g].by)
    <3>1. CASE u \in ReplicaState /\ Save(h, u, f)
      BY <1>0, <2>1, <3>1, SaveFacts
    <3> QED
      BY <2>1, <3>1
  <2> QED
    BY <1>7, <2>1, <2>2, <2>3
<1>11. ASSUME NEW h \in Handle, Submit(h) PROVE Replied'
  <2>1. PICK op \in Operation : /\ Submitted(mem[h], op) \in ReplicaState
                                /\ Save(h, Submitted(mem[h], op), Nothing)
    BY <1>0, <1>11, SubmitFacts
  <2>2. sent' = sent /\ job' = job
    BY <1>11 DEF Submit
  <2>3. \A g \in Handle : saving'[g] # Nothing =>
          saving'[g].by = Nothing \/ (saving[g] # Nothing /\ saving'[g].by = saving[g].by)
    BY <1>0, <2>1, SaveFacts
  <2>4. ASSUME NEW k \in Slot, job'[k].to # Nothing PROVE Old(k) /\ Same(job[k].to)
    BY <1>0, <2>2, <2>3, <2>4, NothingAssumption DEF Waiting
  <2> QED
    BY <1>1, <2>4 DEF Replied
<1>12. ASSUME NEW h \in Handle, Install(h) \/ InterruptSave(h) PROVE Replied'
  <2>1. /\ job' = job /\ saving' = [saving EXCEPT ![h] = Nothing] /\ saving[h] # Nothing
        /\ \A f \in Fiber : f # saving[h].by => sent'[f] = sent[f]
    BY <1>0, <1>12 DEF Install, InterruptSave, ClientTyped
  <2>2. ASSUME NEW k \in Slot, job'[k].to # Nothing PROVE Old(k) /\ Same(job[k].to)
    BY <1>0, <2>1, <2>2 DEF Waiting, ClientTyped
  <2> QED
    BY <1>1, <2>2 DEF Replied
<1>13. ASSUME NEW f \in Fiber, LoopExchange(f) \/ AppExchange(f) PROVE Replied'
  <2>1. /\ job' = job /\ saving' = saving /\ sent[f] = Nothing
        /\ \A e \in Fiber \ {f} : sent'[e] = sent[e]
    BY <1>0, <1>13 DEF LoopExchange, AppExchange, Request, ClientTyped
  <2>2. ASSUME NEW k \in Slot, job'[k].to # Nothing PROVE Old(k) /\ Same(job[k].to)
    BY <1>0, <2>1, <2>2 DEF Waiting
  <2> QED
    BY <1>1, <2>2 DEF Replied
<1>14. ASSUME job' = job, UNCHANGED <<sent, saving>> PROVE Replied'
  BY <1>1, <1>4, <1>14 DEF Replied
<1>15. ASSUME NEW h \in Handle, Open(h) PROVE Replied'
  BY <1>14, <1>15 DEF Open
<1>16. ASSUME NEW r \in Replica, Evict(r) PROVE Replied'
  BY <1>14, <1>16 DEF Evict
<1> QED
  BY <1>5, <1>6, <1>8, <1>9, <1>10, <1>11, <1>12, <1>13, <1>15, <1>16 DEF Next, ClientStep

(***************************************************************************)
(* The states of a replica.                                                *)
(***************************************************************************)

\* A save adds one state to those of its replica.
LEMMA SaveHeld ==
  ASSUME ClientTyped, NEW h \in Handle, NEW u \in ReplicaState, NEW by \in Fiber \cup {Nothing},
         Save(h, u, by), mem' = mem, NEW r \in Replica, NEW s \in Held(r)'
  PROVE  s \in Held(r) \/ (r = Home[h] /\ s = u)
<1>1. /\ disk'[Home[h]] = u /\ \A q \in Replica : q # Home[h] => disk'[q] = disk[q]
      /\ saving'[h].state = u
      /\ \A g \in Handle \ {h} : saving'[g] # Nothing =>
           saving[g] # Nothing /\ saving'[g].state = saving[g].state
  BY SaveFacts
<1>2. CASE s = disk'[r]
  BY <1>1, <1>2 DEF Held
<1>3. ASSUME NEW g \in Handle, Home[g] = r, s = mem[g] PROVE s \in Held(r)
  BY <1>3 DEF Held
<1>4. ASSUME NEW g \in Handle, Home[g] = r, saving'[g] # Nothing, s = saving'[g].state
      PROVE  s \in Held(r) \/ (r = Home[h] /\ s = u)
  BY <1>1, <1>4 DEF Held
<1> QED
  BY <1>2, <1>3, <1>4 DEF Held

\* What neither opens nor saves moves states around.
LEMMA QuietHeld ==
  ASSUME NEW r \in Replica, disk'[r] \in {disk[r], Nothing},
         \A h \in Handle : mem'[h] \in {mem[h], Nothing}
                            \/ (saving[h] # Nothing /\ mem'[h] = saving[h].state),
         \A h \in Handle : saving'[h] \in {saving[h], Nothing}
  PROVE  Held(r)' \subseteq Held(r)
  BY DEF Held

\* A state of a replica was one before, or is its first, or what submit or
\* synchronize saves.
LEMMA HeldStep ==
  ASSUME IInv, Next, NEW r \in Replica, NEW s \in Held(r)'
  PROVE  \/ s \in Held(r)
         \/ disk[r] = Nothing /\ s = Initial
         \/ \E h \in Handle, op \in Operation :
              /\ Home[h] = r /\ Submit(h) /\ op.id = <<r, mem[h].next>>
              /\ issued' = issued \cup {op} /\ s = Submitted(mem[h], op)
         \/ \E k \in Slot :
              LET h == Tab[job[k].to]
              IN  /\ Deliver(k) /\ Home[h] = r /\ current[h]
                  /\ Adoptable(mem[h], job[k], sent[job[k].to].pending)
                  /\ refused' = refused \cup (job[k].rejected \cap Ids(mem[h].pending))
                  /\ s = Adopted(mem[h], job[k])
<1>0. Client /\ ClientTyped
  BY DEF IInv, Typed, Client
<1>1. ASSUME UNCHANGED <<disk, mem, saving>> PROVE s \in Held(r)
  BY <1>1 DEF Held
<1>2. CASE ServerStep
  BY <1>1, <1>2 DEF ServerStep, Receive, AppendNext, Respond, Drop, AppendAsServer, Compact, client
<1>3. ASSUME NEW h \in Handle, Open(h) PROVE s \in Held(r) \/ (disk[r] = Nothing /\ s = Initial)
  <2> DEFINE x == IF disk[Home[h]] = Nothing THEN Initial ELSE disk[Home[h]]
  <2>1. /\ disk' = [disk EXCEPT ![Home[h]] = x] /\ mem' = [mem EXCEPT ![h] = x] /\ saving' = saving
    BY <1>3 DEF Open
  <2>2. /\ disk'[r] = IF r = Home[h] THEN x ELSE disk[r]
        /\ \A g \in Handle : mem'[g] = IF g = h THEN x ELSE mem[g]
    BY <1>0, <2>1 DEF ClientTyped
  <2>3. s \in Held(r) \/ (r = Home[h] /\ s = x)
    BY <2>1, <2>2 DEF Held
  <2>4. s # Nothing
    BY DEF Held
  <2> QED
    BY <2>3, <2>4 DEF Held
<1>4. ASSUME NEW h \in Handle, Stop(h) PROVE s \in Held(r)
  <2>1. /\ disk'[r] \in {disk[r], Nothing}
        /\ \A g \in Handle : mem'[g] \in {mem[g], Nothing} /\ saving'[g] \in {saving[g], Nothing}
    BY <1>0, <1>4 DEF Stop, ClientTyped
  <2> QED
    BY <2>1, QuietHeld
<1>5. ASSUME NEW h \in Handle, Install(h) \/ InterruptSave(h) PROVE s \in Held(r)
  <2>1. /\ disk'[r] \in {disk[r], Nothing}
        /\ \A g \in Handle : mem'[g] = mem[g] \/ (saving[g] # Nothing /\ mem'[g] = saving[g].state)
        /\ \A g \in Handle : saving'[g] \in {saving[g], Nothing}
    BY <1>0, <1>5 DEF Install, InterruptSave, ClientTyped
  <2> QED
    BY <2>1, QuietHeld
<1>6. ASSUME NEW q \in Replica, Evict(q) PROVE s \in Held(r)
  <2>1. /\ disk'[r] \in {disk[r], Nothing} /\ mem' = mem /\ saving' = saving
    BY <1>0, <1>6 DEF Evict, ClientTyped
  <2> QED
    BY <2>1, QuietHeld
<1>7. ASSUME NEW h \in Handle, Submit(h)
      PROVE  \/ s \in Held(r)
             \/ \E op \in Operation :
                  /\ Home[h] = r /\ op.id = <<r, mem[h].next>>
                  /\ issued' = issued \cup {op} /\ s = Submitted(mem[h], op)
  <2>1. PICK op \in Operation :
          /\ op.id = <<Home[h], mem[h].next>> /\ issued' = issued \cup {op}
          /\ Submitted(mem[h], op) \in ReplicaState
          /\ Save(h, Submitted(mem[h], op), Nothing)
    BY <1>0, <1>7, SubmitFacts
  <2>2. mem' = mem
    BY <1>7 DEF Submit
  <2>3. s \in Held(r) \/ (r = Home[h] /\ s = Submitted(mem[h], op))
    BY <1>0, <2>1, <2>2, SaveHeld
  <2> QED
    BY <2>1, <2>3
<1>8. ASSUME NEW k \in Slot, Deliver(k)
      PROVE  \/ s \in Held(r)
             \/ LET h == Tab[job[k].to]
                IN  /\ Home[h] = r /\ current[h]
                    /\ Adoptable(mem[h], job[k], sent[job[k].to].pending)
                    /\ refused' = refused \cup (job[k].rejected \cap Ids(mem[h].pending))
                    /\ s = Adopted(mem[h], job[k])
  <2> DEFINE f == job[k].to
             h == Tab[f]
             u == Adopted(mem[h], job[k])
  <2>1. /\ f \in Fiber /\ h \in Handle /\ mem' = mem
        /\ \/ /\ Adoptable(mem[h], job[k], sent[f].pending) /\ current[h]
              /\ u \in ReplicaState /\ Save(h, u, f)
              /\ refused' = refused \cup (job[k].rejected \cap Ids(mem[h].pending))
           \/ UNCHANGED <<disk, saving>>
    BY <1>8, DeliverFacts
  <2>2. CASE UNCHANGED <<disk, saving>>
    BY <1>1, <2>1, <2>2
  <2>3. CASE /\ Adoptable(mem[h], job[k], sent[f].pending) /\ current[h]
             /\ u \in ReplicaState /\ Save(h, u, f)
             /\ refused' = refused \cup (job[k].rejected \cap Ids(mem[h].pending))
    <3>1. s \in Held(r) \/ (r = Home[h] /\ s = u)
      <4> HIDE DEF f, h, u
      <4> QED
        BY <1>0, <2>1, <2>3, SaveHeld
    <3> QED
      BY <2>3, <3>1
  <2> QED
    BY <2>1, <2>2, <2>3
<1>9. ASSUME NEW f \in Fiber, LoopExchange(f) \/ AppExchange(f) \/ ExchangeFails(f) PROVE s \in Held(r)
  BY <1>1, <1>9 DEF LoopExchange, AppExchange, ExchangeFails
<1>10. ASSUME NEW k \in Slot, DeliverError(k) PROVE s \in Held(r)
  BY <1>1, <1>10 DEF DeliverError
<1> QED
  BY <1>2, <1>3, <1>4, <1>5, <1>6, <1>7, <1>8, <1>9, <1>10 DEF Next, ClientStep

\* The states of a replica are typed, and those a handle may save are among
\* them.
LEMMA HeldFacts ==
  ASSUME ClientTyped, NEW r \in Replica
  PROVE  /\ \A s \in Held(r) : s \in ReplicaState
         /\ disk[r] # Nothing => disk[r] \in Held(r)
         /\ \A h \in Handle : Home[h] = r /\ mem[h] # Nothing => mem[h] \in Held(r)
<1>1. ASSUME NEW s \in Held(r) PROVE s \in ReplicaState
  BY DEF Held, ClientTyped, SaveState
<1> QED
  BY <1>1 DEF Held

\* A response is adopted where the replica's prefix of the log ends.
LEMMA AdoptedLags ==
  ASSUME NEW t \in Tables, NEW s \in ReplicaState, NEW reply \in ReplyJob, NEW outbox,
         Lags(s, t), Quotes(reply, t), Adoptable(s, reply, outbox)
  PROVE  /\ Lags(Adopted(s, reply), t)
         /\ Adopted(s, reply).cursor >= s.cursor /\ Adopted(s, reply).next = s.next
<1> DEFINE u == Adopted(s, reply)
<1>0. /\ t.cursor \in Nat /\ t.snapshot \in Seq(Operation) /\ s.cursor \in Nat /\ s.ids \in Seq(OpId)
      /\ s.committed \in Seq(Operation) /\ reply.from \in Nat /\ reply.operations \in Seq(Operation)
  BY DEF Tables, ReplicaState, ReplyJob
<1>1. CASE reply.checkpoint
  <2>1. /\ u.cursor = reply.from /\ u.committed = reply.model /\ u.ids = <<>> /\ u.next = s.next
    BY <1>1, AdoptedCheckpoint DEF Quotes
  <2>2. reply.from >= s.cursor
    BY <1>1 DEF Adoptable
  <2> HIDE DEF u
  <2> QED
    BY <1>0, <1>1, <2>1, <2>2 DEF Quotes, Lags, u
<1>2. CASE ~reply.checkpoint
  <2> DEFINE new == Fresh(s, reply)
             newIds == [i \in DOMAIN new |-> new[i].id]
             all == s.ids \o newIds
             lo == IF Len(all) > Window THEN Len(all) - Window + 1 ELSE 1
             c == s.cursor + Len(new)
  <2>1. /\ u.cursor = c /\ u.committed = s.committed \o new /\ u.next = s.next
        /\ u.ids = SubSeq(all, lo, Len(all))
    <3> DEFINE w == [next |-> s.next, cursor |-> c, committed |-> s.committed \o new,
                     ids |-> SubSeq(all, lo, Len(all)),
                     pending |-> Without(s.pending, Dropped(s, reply))]
    <3>1. u = w
      BY <1>2, AdoptedOperations
    <3> HIDE DEF u, all, new, c, lo
    <3>2. w.cursor = c /\ w.committed = s.committed \o new /\ w.next = s.next /\ w.ids = SubSeq(all, lo, Len(all))
      OBVIOUS
    <3> HIDE DEF w
    <3> QED
      BY <3>1, <3>2
  <2>2. /\ new \in Seq(Operation) /\ Len(new) \in Nat
        /\ (new # <<>> => s.cursor >= reply.from)
        /\ (new = <<>> <=> Len(new) = 0)
    <3>1. new \in Seq(Operation) /\ (new # <<>> => s.cursor >= reply.from)
      BY <1>2, FreshFacts DEF Adoptable
    <3> HIDE DEF new
    <3> QED
      BY <3>1
  <2>3. /\ s.cursor <= t.cursor /\ Len(s.committed) = s.cursor
        /\ \A i \in 1..s.cursor : s.committed[i] = t.snapshot[i]
        /\ Len(s.ids) <= s.cursor
        /\ \A m \in 1..Len(s.ids) : s.ids[m] = t.snapshot[s.cursor - Len(s.ids) + m].id
    BY DEF Lags
  <2> DEFINE d == IF s.cursor <= reply.from THEN 0 ELSE s.cursor - reply.from
             n == Len(reply.operations)
             size == Len(new)
  <2>4. c <= t.cursor /\ \A i \in 1..Len(new) : new[i] = t.snapshot[s.cursor + i]
    <3>1. CASE new = <<>>
      BY <1>0, <2>3, <3>1
    <3>2. CASE new # <<>>
      <4>1. /\ size = IF d > n THEN 0 ELSE n - d
            /\ \A i \in 1..size : new[i] = reply.operations[d + i]
        BY FreshFacts
      <4>2. /\ reply.from + n <= t.cursor
            /\ \A i \in 1..n : reply.operations[i] = t.snapshot[reply.from + i]
        BY <1>2 DEF Quotes
      <4>3. size \in Nat /\ size # 0 /\ n \in Nat
        BY <1>0, <2>2, <3>2
      <4>4. s.cursor >= reply.from
        BY <2>2, <3>2
      <4> HIDE DEF new, n, size
      <4>5. d \in Nat /\ reply.from + d = s.cursor
        BY <1>0, <4>4
      <4> HIDE DEF d
      <4>6. size = n - d
        BY <4>1, <4>3, <4>5
      <4>7. s.cursor + size = reply.from + n
        BY <1>0, <4>3, <4>5, <4>6
      <4>8. ASSUME NEW i \in 1..size PROVE new[i] = t.snapshot[s.cursor + i]
        <5>1. d + i \in 1..n /\ reply.from + (d + i) = s.cursor + i
          BY <1>0, <4>3, <4>5, <4>6
        <5> QED
          BY <4>1, <4>2, <5>1
      <4> QED
        BY <4>2, <4>7, <4>8 DEF size
    <3> QED
      BY <3>1, <3>2
  <2>5. newIds \in Seq(OpId) /\ Len(newIds) = Len(new) /\ \A i \in 1..Len(new) : newIds[i] = new[i].id
    <3> HIDE DEF new
    <3>1. newIds \in Seq(OpId) /\ Len(newIds) = Len(new)
      BY <2>2, IdsFacts
    <3>2. DOMAIN new = 1..Len(new)
      BY <2>2
    <3> QED
      BY <3>1, <3>2
  <2> HIDE DEF newIds, new
  <2>6. /\ all \in Seq(OpId) /\ Len(all) = Len(s.ids) + Len(new)
        /\ \A m \in 1..Len(all) : all[m] = IF m <= Len(s.ids) THEN s.ids[m] ELSE newIds[m - Len(s.ids)]
    <3>1. /\ all \in Seq(OpId) /\ Len(all) = Len(s.ids) + Len(newIds)
          /\ \A m \in 1..(Len(s.ids) + Len(newIds)) :
               all[m] = IF m <= Len(s.ids) THEN s.ids[m] ELSE newIds[m - Len(s.ids)]
      <4> DEFINE old == s.ids
      <4>1. old \in Seq(OpId) /\ newIds \in Seq(OpId) /\ all = old \o newIds
        BY <1>0, <2>5
      <4> HIDE DEF old, all
      <4>2. /\ old \o newIds \in Seq(OpId) /\ Len(old \o newIds) = Len(old) + Len(newIds)
            /\ \A m \in 1..(Len(old) + Len(newIds)) :
                 (old \o newIds)[m] = IF m <= Len(old) THEN old[m] ELSE newIds[m - Len(old)]
        BY <4>1, ConcatProperties
      <4> QED
        BY <4>1, <4>2 DEF old
    <3> HIDE DEF all
    <3> QED
      BY <2>5, <3>1
  <2>7. /\ Len(u.committed) = c
        /\ \A i \in 1..c : u.committed[i] = IF i <= s.cursor THEN s.committed[i] ELSE new[i - s.cursor]
    <3>1. /\ Len(s.committed \o new) = Len(s.committed) + Len(new)
          /\ \A i \in 1..Len(s.committed) + Len(new) : (s.committed \o new)[i] =
                IF i <= Len(s.committed) THEN s.committed[i] ELSE new[i - Len(s.committed)]
      BY <1>0, <2>2, ConcatProperties
    <3> HIDE DEF u
    <3> QED
      BY <2>1, <2>3, <3>1
  <2> HIDE DEF all
  <2>8. ASSUME NEW m \in 1..Len(all) PROVE all[m] = t.snapshot[c - Len(all) + m].id
    <3>1. CASE m <= Len(s.ids)
      <4> DEFINE p == Len(s.ids)
                 q == Len(all)
                 size2 == Len(new)
      <4>0. p \in Nat /\ q = p + size2 /\ size2 \in Nat /\ c = s.cursor + size2
        BY <1>0, <2>2, <2>6
      <4> HIDE DEF p, q, size2, c
      <4>1. c - q + m = s.cursor - p + m /\ m \in 1..p
        <5> USE DEF p
        <5>1. m <= p
          BY <3>1
        <5> HIDE DEF p
        <5> QED
          BY <1>0, <4>0, <5>1
      <4> USE DEF p, q
      <4> QED
        BY <2>3, <2>6, <3>1, <4>1
    <3>2. CASE ~(m <= Len(s.ids))
      <4> DEFINE i == m - Len(s.ids)
      <4>1. i \in 1..Len(new) /\ s.cursor + i = c - Len(all) + m
        BY <1>0, <2>2, <2>6, <3>2
      <4>2. all[m] = newIds[i]
        BY <2>6, <3>2
      <4> HIDE DEF i
      <4>3. newIds[i] = new[i].id /\ new[i] = t.snapshot[s.cursor + i]
        BY <2>4, <2>5, <4>1
      <4> QED
        BY <4>1, <4>2, <4>3
    <3> QED
      BY <3>1, <3>2
  <2>9. /\ lo \in 1..(Len(all) + 1) /\ Len(all) \in Nat
    BY <1>0, <2>2, <2>6, SyncAssumption
  <2> HIDE DEF lo
  <2>10. /\ Len(u.ids) = Len(all) - lo + 1
         /\ \A m \in 1..Len(u.ids) : u.ids[m] = all[lo + m - 1]
    <3>1. \A i \in lo..Len(all) : all[i] \in OpId
      BY <2>6, <2>9
    <3>2. /\ Len(SubSeq(all, lo, Len(all))) = IF lo <= Len(all) THEN Len(all) - lo + 1 ELSE 0
          /\ \A i \in 1..(Len(all) - lo + 1) : SubSeq(all, lo, Len(all))[i] = all[lo + i - 1]
      BY <2>9, <3>1, SubSeqProperties
    <3> HIDE DEF u
    <3> QED
      BY <2>1, <2>9, <3>2
  <2> HIDE DEF u
  <2>11. Len(u.ids) <= c
    BY <1>0, <2>2, <2>3, <2>6, <2>9, <2>10
  <2>12. ASSUME NEW m \in 1..Len(u.ids) PROVE u.ids[m] = t.snapshot[c - Len(u.ids) + m].id
    <3> DEFINE p == Len(u.ids)
               q == Len(all)
    <3>0. p = q - lo + 1 /\ q \in Nat /\ lo \in 1..(q + 1) /\ m \in 1..p /\ c \in Nat
      BY <1>0, <2>2, <2>9, <2>10
    <3> HIDE DEF p, q, c
    <3>1. lo + m - 1 \in 1..q /\ c - q + (lo + m - 1) = c - p + m
      BY <3>0
    <3> USE DEF p, q
    <3> QED
      BY <2>8, <2>10, <3>1
  <2>13. \A i \in 1..c : u.committed[i] = t.snapshot[i]
    <3>1. ASSUME NEW i \in 1..c PROVE u.committed[i] = t.snapshot[i]
      <4>1. CASE i <= s.cursor
        <5>1. i \in 1..s.cursor
          BY <1>0, <4>1
        <5>2. s.committed[i] = t.snapshot[i]
          BY <2>3, <5>1
        <5>3. u.committed[i] = s.committed[i]
          <6> HIDE DEF u, new, c
          <6> QED
            BY <2>7, <4>1
        <5> QED
          BY <5>2, <5>3
      <4>2. CASE ~(i <= s.cursor)
        <5>1. i - s.cursor \in 1..Len(new) /\ s.cursor + (i - s.cursor) = i
          BY <1>0, <2>2, <4>2
        <5> QED
          BY <2>4, <2>7, <4>2, <5>1
      <4> QED
        BY <4>1, <4>2
    <3> QED
      BY <3>1
  <2>14. c >= s.cursor
    BY <1>0, <2>2
  <2> HIDE DEF c
  <2>15. Lags(u, t)
    <3>1. u.cursor <= t.cursor /\ Len(u.committed) = u.cursor /\ Len(u.ids) <= u.cursor
      BY <2>1, <2>4, <2>7, <2>11
    <3>2. \A i \in 1..u.cursor : u.committed[i] = t.snapshot[i]
      BY <2>1, <2>13
    <3>3. \A m \in 1..Len(u.ids) : u.ids[m] = t.snapshot[u.cursor - Len(u.ids) + m].id
      BY <2>1, <2>12
    <3> QED
      BY <3>1, <3>2, <3>3 DEF Lags
  <2> QED
    BY <2>1, <2>14, <2>15 DEF u
<1> QED
  BY <1>1, <1>2

\* A prefix of the log stays one as the log grows.
LEMMA LagsOn ==
  ASSUME NEW t \in Tables, NEW t2 \in Tables, Extends(t, t2), NEW s \in ReplicaState, Lags(s, t)
  PROVE  Lags(s, t2)
<1>1. /\ s.cursor \in Nat /\ t.cursor \in Nat /\ t2.cursor \in Nat /\ t.cursor <= t2.cursor
      /\ \A i \in 1..t.cursor : t2.snapshot[i] = t.snapshot[i]
      /\ s.cursor <= t.cursor /\ Len(s.ids) \in Nat /\ Len(s.ids) <= s.cursor
  BY DEF ReplicaState, Tables, Extends, Lags
<1>2. \A m \in 1..Len(s.ids) : s.cursor - Len(s.ids) + m \in 1..t.cursor
  BY <1>1
<1>3. \A i \in 1..s.cursor : i \in 1..t.cursor
  BY <1>1
<1>4. /\ Len(s.committed) = s.cursor /\ \A i \in 1..s.cursor : s.committed[i] = t.snapshot[i]
      /\ \A m \in 1..Len(s.ids) : s.ids[m] = t.snapshot[s.cursor - Len(s.ids) + m].id
  BY DEF Lags
<1>5. \A i \in 1..s.cursor : s.committed[i] = t2.snapshot[i]
  BY <1>1, <1>3, <1>4
<1>6. \A m \in 1..Len(s.ids) : s.ids[m] = t2.snapshot[s.cursor - Len(s.ids) + m].id
  BY <1>1, <1>2, <1>4
<1>7. s.cursor <= t2.cursor
  BY <1>1
<1> QED
  BY <1>1, <1>4, <1>5, <1>6, <1>7 DEF Lags

\* Every state of every replica stays a prefix of the log.
LEMMA AllLagInvariant ==
  ASSUME IInv, Next
  PROVE  AllLag'
<1>0. /\ tables \in Tables /\ tables' \in Tables /\ Extends(tables, tables') /\ ClientTyped
      /\ \A r \in Replica : \A s \in Held(r) : Lags(s, tables)
  BY LogStep DEF IInv, Typed, AllLag
<1>1. ASSUME NEW r \in Replica, NEW s \in Held(r)'
      PROVE  Lags(s, tables')
  <2>1. CASE s \in Held(r)
    BY <1>0, <2>1, HeldFacts, LagsOn
  <2>2. CASE s = Initial
    BY <1>0, <2>2 DEF Initial, Lags, Tables
  <2>3. ASSUME NEW h \in Handle, NEW op \in Operation, Home[h] = r, Submit(h), s = Submitted(mem[h], op)
        PROVE  Lags(s, tables')
    <3>1. mem[h] \in Held(r) /\ tables' = tables
      BY <1>0, <2>3, HeldFacts DEF Submit, Unlocked
    <3>2. Lags(mem[h], tables)
      BY <1>0, <3>1
    <3> QED
      BY <2>3, <3>1, <3>2 DEF Submitted, Lags
  <2>4. ASSUME NEW k \in Slot, Deliver(k), Home[Tab[job[k].to]] = r,
               Adoptable(mem[Tab[job[k].to]], job[k], sent[job[k].to].pending),
               s = Adopted(mem[Tab[job[k].to]], job[k])
        PROVE  Lags(s, tables')
    <3> DEFINE h == Tab[job[k].to]
    <3>1. /\ job[k] \in ReplyJob /\ Quotes(job[k], tables) /\ h \in Handle /\ Unlocked(h)
          /\ mem[h] \in ReplicaState /\ tables' = tables
      BY <2>4, DeliverFacts
    <3>2. Lags(mem[h], tables)
      BY <1>0, <2>4, <3>1, HeldFacts DEF Unlocked
    <3> QED
      BY <1>0, <2>4, <3>1, <3>2, AdoptedLags
  <2> QED
    BY <2>1, <2>2, <2>3, <2>4, HeldStep
<1> QED
  BY <1>1 DEF AllLag

(***************************************************************************)
(* The theorems.                                                           *)
(***************************************************************************)

\* Initially nobody holds anything and the log is empty.
LEMMA InitIInv == Init => IInv
<1> SUFFICES ASSUME Init PROVE IInv
  OBVIOUS
<1>1. Typed
  BY EmptyTables DEF Init, Typed, ClientTyped, Job
<1>2. Locked /\ Revisions /\ Exchanging /\ Replied /\ AllLag /\ Replies
  BY SyncAssumption DEF Init, Locked, Revisions, Exchanging, Replied, AllLag, Replies, Held, Free
<1>3. LogHolds
  BY EmptyTables DEF Init, LogHolds, FloorIsExact, Empty
<1> QED
  BY <1>1, <1>2, <1>3 DEF IInv

\* Every step keeps the invariant.
LEMMA StepIInv == IInv /\ [Next]_vars => IInv'
<1> SUFFICES ASSUME IInv, [Next]_vars PROVE IInv'
  OBVIOUS
<1>1. CASE Next
  <2>1. Client' /\ tables' \in Tables /\ LogHolds' /\ job' \in [Slot -> Job] /\ Replies' /\ Replied' /\ AllLag'
    BY <1>1, ClientInvariant, LogStep, JobsInvariant, RepliedInvariant, AllLagInvariant
  <2>2. issued' \subseteq Operation /\ refused' \subseteq OpId /\ evicted' \subseteq Replica
    <3>1. issued \subseteq Operation /\ refused \subseteq OpId /\ evicted \subseteq Replica /\ Client
      BY DEF IInv, Typed, Client
    <3>2. CASE ServerStep
      BY <3>1, <3>2 DEF ServerStep, Receive, AppendNext, Respond, Drop, AppendAsServer, Compact, past
    <3>3. ASSUME NEW h \in Handle, Submit(h)
          PROVE  issued' \subseteq Operation /\ refused' \subseteq OpId /\ evicted' \subseteq Replica
      BY <3>1, <3>3, SubmitFacts
    <3>4. ASSUME NEW k \in Slot, Deliver(k)
          PROVE  issued' \subseteq Operation /\ refused' \subseteq OpId /\ evicted' \subseteq Replica
      <4>1. /\ job[k] \in ReplyJob /\ UNCHANGED <<issued, evicted>>
            /\ refused' = refused \/ refused' = refused \cup (job[k].rejected \cap Ids(mem[Tab[job[k].to]].pending))
        BY <3>4, DeliverFacts
      <4> QED
        BY <3>1, <4>1 DEF ReplyJob
    <3>5. ASSUME NEW r \in Replica, Evict(r)
          PROVE  issued' \subseteq Operation /\ refused' \subseteq OpId /\ evicted' \subseteq Replica
      BY <3>1, <3>5 DEF Evict
    <3>6. ASSUME UNCHANGED past
          PROVE  issued' \subseteq Operation /\ refused' \subseteq OpId /\ evicted' \subseteq Replica
      BY <3>1, <3>6 DEF past
    <3>7. ASSUME NEW h \in Handle, Open(h) \/ Stop(h) \/ Install(h) \/ InterruptSave(h)
          PROVE  UNCHANGED past
      BY <3>7 DEF Open, Stop, Install, InterruptSave
    <3>8. ASSUME NEW f \in Fiber, LoopExchange(f) \/ AppExchange(f) \/ ExchangeFails(f)
          PROVE  UNCHANGED past
      BY <3>8 DEF LoopExchange, AppExchange, ExchangeFails
    <3>9. ASSUME NEW k \in Slot, DeliverError(k) PROVE UNCHANGED past
      BY <3>9 DEF DeliverError
    <3> QED
      BY <1>1, <3>2, <3>3, <3>4, <3>5, <3>6, <3>7, <3>8, <3>9 DEF Next, ClientStep
  <2> QED
    BY <2>1, <2>2 DEF IInv, Typed, Client
<1>2. CASE UNCHANGED vars
  BY <1>2 DEF vars, IInv, Typed, ClientTyped, Locked, Revisions, Exchanging, Replied, Waiting,
              LogHolds, AllLag, Held, Replies
<1> QED
  BY <1>1, <1>2

\* The invariant is inductive.
THEOREM Invariance == Spec => []IInv
<1> QED
  BY InitIInv, StepIInv, PTL DEF Spec

\* A job of the invariant's types is well formed.
LEMMA JobType ==
  ASSUME NEW j \in Job
  PROVE  JobOK(j)
<1>1. /\ j.to \in Fiber \cup {Nothing}
      /\ j.phase \in {"free", "append", "reply", "error"}
  BY JobKinds
<1>2. CASE j.phase = "free"
  BY <1>1, <1>2, JobKinds DEF JobOK
<1>3. CASE j.phase = "append"
  <2>1. j \in AppendJob
    BY <1>3, JobKinds
  <2>2. /\ j.actor \in Replica /\ j.after \in Nat /\ j.todo \in Seq(Operation)
        /\ j.acknowledged \in SUBSET OpId /\ j.rejected \in SUBSET OpId
    BY <2>1 DEF AppendJob
  <2> QED
    BY <1>1, <1>3, <2>2 DEF JobOK
<1>4. CASE j.phase = "reply"
  <2>1. j \in ReplyJob
    BY <1>4, JobKinds
  <2>2. /\ j.acknowledged \in SUBSET OpId /\ j.rejected \in SUBSET OpId
        /\ j.checkpoint \in BOOLEAN /\ j.from \in Nat
        /\ j.model \in Seq(Operation) /\ j.operations \in Seq(Operation)
    BY <2>1 DEF ReplyJob
  <2> QED
    BY <1>1, <1>4, <2>2 DEF JobOK
<1>5. CASE j.phase = "error"
  BY <1>1, <1>5 DEF JobOK
<1> QED
  BY <1>1, <1>2, <1>3, <1>4, <1>5

\* Types and ownership: only an open handle saves or exchanges, and only a
\* waiting fiber is replied to (sync.ts:441-640).
THEOREM SyncTypeCorrect == Spec => []TypeOK
<1>1. IInv => TypeOK
  <2> SUFFICES ASSUME IInv PROVE TypeOK
    OBVIOUS
  <2>1. ASSUME NEW h \in Handle
        PROVE  /\ mem[h] = Nothing \/ mem[h] \in ReplicaState
               /\ {current[h], wake[h]} \subseteq BOOLEAN
               /\ saving[h] # Nothing =>
                    mem[h] # Nothing /\ saving[h].state \in ReplicaState /\ saving[h].latest \in BOOLEAN
    BY DEF IInv, Typed, ClientTyped, Locked, SaveState
  <2>2. ASSUME NEW f \in Fiber, sent[f] # Nothing
        PROVE  mem[Tab[f]] # Nothing /\ sent[f].pending \in Seq(Operation) /\ sent[f].cursor \in Nat
    <3>1. sent[f] \in Exchange
      BY <2>2 DEF IInv, Typed, ClientTyped
    <3> QED
      BY <2>2, <3>1 DEF IInv, Exchanging, Exchange
  <2>3. ASSUME NEW k \in Slot PROVE JobOK(job[k]) /\ (job[k].to # Nothing => Waiting(job[k].to))
    <3>1. job[k] \in Job
      BY DEF IInv, Typed
    <3> QED
      BY <3>1, JobType DEF IInv, Replied
  <2>4. /\ tables \in Tables
        /\ \A r \in Replica : disk[r] = Nothing \/ disk[r] \in ReplicaState
        /\ issued \subseteq Operation /\ refused \subseteq OpId /\ evicted \subseteq Replica
    BY DEF IInv, Typed, ClientTyped
  <2> QED
    BY <2>1, <2>2, <2>3, <2>4 DEF TypeOK
<1> QED
  BY <1>1, Invariance, PTL

\* A state that lags is the beginning of the snapshot.
LEMMA PrefixFacts ==
  ASSUME NEW t \in Tables, Len(t.snapshot) = t.cursor, NEW s \in ReplicaState, Lags(s, t)
  PROVE  s.committed = SubSeq(t.snapshot, 1, s.cursor)
<1> DEFINE c == s.cursor
           log == t.snapshot
           w == SubSeq(log, 1, c)
<1>1. /\ c \in Nat /\ t.cursor \in Nat /\ c <= t.cursor /\ Len(log) = t.cursor
      /\ log \in Seq(Operation) /\ s.committed \in Seq(Operation) /\ Len(s.committed) = c
      /\ \A i \in 1..c : s.committed[i] = log[i]
  BY DEF Tables, ReplicaState, Lags
<1>2. \A i \in 1..c : log[i] \in Operation
  BY <1>1
<1> HIDE DEF c, log
<1>3. /\ w \in Seq(Operation) /\ Len(w) = IF 1 <= c THEN c - 1 + 1 ELSE 0
      /\ \A i \in 1..(c - 1 + 1) : w[i] = log[1 + i - 1]
  BY <1>1, <1>2, SubSeqProperties
<1> HIDE DEF w
<1>4. Len(w) = c /\ \A i \in 1..c : w[i] = log[i]
  BY <1>1, <1>3
<1>5. s.committed = w
  <2> DEFINE p == s.committed
  <2>1. p \in Seq(Operation) /\ Len(p) = Len(w) /\ \A i \in 1..Len(p) : p[i] = w[i]
    BY <1>1, <1>4
  <2> HIDE DEF p
  <2>2. p = w
    BY <1>3, <2>1, SeqEqual
  <2> QED
    BY <2>2 DEF p
<1> QED
  BY <1>5 DEF w, log, c

\* What a replica calls committed, on disk or in memory, is the server's
\* snapshot at its cursor, under every fault, tab and eviction
\* (sync.ts:543-617).
THEOREM CommittedAlwaysServerPrefix == Spec => []CommittedIsServerPrefix
<1>1. IInv => CommittedIsServerPrefix
  <2> SUFFICES ASSUME IInv, NEW s \in StatesOf(Replica)
               PROVE  s.cursor <= tables.cursor /\ s.committed = SubSeq(tables.snapshot, 1, s.cursor)
    BY DEF CommittedIsServerPrefix
  <2>1. \E r \in Replica : s \in Held(r)
    BY SyncAssumption DEF StatesOf, Held
  <2>2. Lags(s, tables) /\ s \in ReplicaState
    BY <2>1, HeldFacts DEF IInv, Typed, AllLag
  <2>3. tables \in Tables /\ Len(tables.snapshot) = tables.cursor
    BY DEF IInv, Typed, LogHolds, TablesConsistent, SnapshotIsReduction
  <2> QED
    BY <2>2, <2>3, PrefixFacts DEF Lags
<1> QED
  BY <1>1, Invariance, PTL

\* How synchronize saves over the state it found on the disk.
SavesResponse(r, k) ==
  /\ Home[Tab[job[k].to]] = r /\ disk[r] \in ReplicaState /\ mem[Tab[job[k].to]] = disk[r]
  /\ Deliver(k) /\ job[k] \in ReplyJob /\ Quotes(job[k], tables) /\ job[k].to \in Fiber
  /\ sent[job[k].to] \in Exchange
  /\ Adoptable(disk[r], job[k], sent[job[k].to].pending)
  /\ disk'[r] = Adopted(disk[r], job[k])
  /\ refused' = refused \cup (job[k].rejected \cap Ids(disk[r].pending))
  /\ UNCHANGED <<tables, issued, evicted>>

\* A step writes the storage of one replica at most: the first state, nothing
\* any more, or what submit or synchronize makes of the very state on disk,
\* because the revision was compared (indexedDb.ts:67-95).
LEMMA DiskStep ==
  ASSUME IInv, Next
  PROVE  \/ disk' = disk
         \/ \E r \in Replica :
              /\ disk' = [disk EXCEPT ![r] = disk'[r]] /\ tables' = tables
              /\ \/ disk[r] = Nothing /\ disk'[r] = Initial /\ UNCHANGED past
                 \/ Evict(r)
                 \/ \E op \in Operation :
                      /\ disk[r] \in ReplicaState /\ Submitted(disk[r], op) \in ReplicaState
                      /\ op.id = <<r, disk[r].next>> /\ disk'[r] = Submitted(disk[r], op)
                      /\ issued' = issued \cup {op} /\ UNCHANGED <<refused, evicted>>
                 \/ \E k \in Slot : SavesResponse(r, k)
<1>0. Client /\ disk \in [Replica -> ReplicaState \cup {Nothing}]
  BY DEF IInv, Typed, Client, ClientTyped
<1>1. CASE ServerStep
  BY <1>1 DEF ServerStep, Receive, AppendNext, Respond, Drop, AppendAsServer, Compact, client
<1>2. ASSUME NEW h \in Handle, Stop(h) \/ Install(h) \/ InterruptSave(h) PROVE disk' = disk
  BY <1>2 DEF Stop, Install, InterruptSave
<1>3. ASSUME NEW f \in Fiber, LoopExchange(f) \/ AppExchange(f) \/ ExchangeFails(f) PROVE disk' = disk
  BY <1>3 DEF LoopExchange, AppExchange, ExchangeFails
<1>4. ASSUME NEW k \in Slot, DeliverError(k) PROVE disk' = disk
  BY <1>4 DEF DeliverError
<1>5. ASSUME NEW h \in Handle, Open(h)
      PROVE  \/ disk' = disk
             \/ \E r \in Replica :
                  /\ disk' = [disk EXCEPT ![r] = disk'[r]] /\ tables' = tables
                  /\ disk[r] = Nothing /\ disk'[r] = Initial /\ UNCHANGED past
  <2> DEFINE r == Home[h]
  <2>1. /\ r \in Replica /\ tables' = tables /\ UNCHANGED past
        /\ disk' = [disk EXCEPT ![r] = IF disk[r] = Nothing THEN Initial ELSE disk[r]]
    BY <1>5, SyncAssumption DEF Open
  <2> HIDE DEF r
  <2>2. CASE disk[r] = Nothing
    <3>1. disk' = [disk EXCEPT ![r] = Initial]
      BY <2>1, <2>2
    <3>2. disk'[r] = Initial
      BY <1>0, <2>1, <3>1
    <3> QED
      BY <2>1, <2>2, <3>1, <3>2
  <2>3. CASE disk[r] # Nothing
    BY <1>0, <2>1, <2>3
  <2> QED
    BY <2>2, <2>3
<1>6. ASSUME NEW r \in Replica, Evict(r)
      PROVE  disk' = [disk EXCEPT ![r] = disk'[r]] /\ tables' = tables
  BY <1>0, <1>6 DEF Evict
<1>7. ASSUME NEW h \in Handle, NEW s, NEW by, Save(h, s, by)
      PROVE  /\ Home[h] \in Replica /\ mem[h] = disk[Home[h]] /\ mem[h] # Nothing
             /\ disk' = [disk EXCEPT ![Home[h]] = disk'[Home[h]]] /\ disk'[Home[h]] = s
  BY <1>0, <1>7, SyncAssumption DEF Save, Client, Revisions
<1>8. ASSUME NEW h \in Handle, Submit(h)
      PROVE  \E r \in Replica, op \in Operation :
               /\ disk' = [disk EXCEPT ![r] = disk'[r]] /\ tables' = tables
               /\ disk[r] \in ReplicaState /\ Submitted(disk[r], op) \in ReplicaState
               /\ op.id = <<r, disk[r].next>> /\ disk'[r] = Submitted(disk[r], op)
               /\ issued' = issued \cup {op} /\ UNCHANGED <<refused, evicted>>
  BY <1>0, <1>7, <1>8, SubmitFacts
<1>9. ASSUME NEW k \in Slot, Deliver(k)
      PROVE  \/ disk' = disk
             \/ \E r \in Replica :
                  /\ disk' = [disk EXCEPT ![r] = disk'[r]] /\ tables' = tables /\ SavesResponse(r, k)
  <2> DEFINE f == job[k].to
             h == Tab[f]
             u == Adopted(mem[h], job[k])
             r == Home[h]
  <2>1. /\ job[k] \in ReplyJob /\ Quotes(job[k], tables) /\ f \in Fiber /\ h \in Handle
        /\ mem[h] \in ReplicaState /\ sent[f] \in Exchange
        /\ UNCHANGED <<tables, issued, evicted>>
        /\ \/ /\ Adoptable(mem[h], job[k], sent[f].pending) /\ Save(h, u, f)
              /\ refused' = refused \cup (job[k].rejected \cap Ids(mem[h].pending))
           \/ disk' = disk
    BY <1>9, DeliverFacts
  <2>2. CASE /\ Adoptable(mem[h], job[k], sent[f].pending) /\ Save(h, u, f)
             /\ refused' = refused \cup (job[k].rejected \cap Ids(mem[h].pending))
    <3>1. /\ r \in Replica /\ mem[h] = disk[r]
          /\ disk' = [disk EXCEPT ![r] = disk'[r]] /\ disk'[r] = u
      <4> HIDE DEF h, u
      <4> QED
        BY <1>7, <2>1, <2>2
    <3> QED
      BY <1>9, <2>1, <2>2, <3>1 DEF SavesResponse
  <2> QED
    BY <2>1, <2>2
<1> QED
  BY <1>1, <1>2, <1>3, <1>4, <1>5, <1>6, <1>8, <1>9 DEF Next, ClientStep

\* No save takes a replica back: whatever stale tab or late response writes,
\* its cursor and its counter only grow (indexedDb.ts:67-95).
THEOREM StorageNeverGoesBack == Spec => StorageOnlyAdvances
<1>1. IInv /\ [Next]_vars => [StorageAdvances]_disk
  <2> SUFFICES ASSUME IInv, Next PROVE StorageAdvances \/ disk' = disk
    BY DEF vars
  <2>1. SUFFICES ASSUME NEW r \in Replica, NEW q \in Replica, disk[q] # Nothing, disk'[q] # Nothing,
                        disk' = [disk EXCEPT ![r] = disk'[r]],
                        \/ disk[r] = Nothing /\ disk'[r] = Initial
                        \/ Evict(r)
                        \/ \E op \in Operation : disk[r] \in ReplicaState /\ disk'[r] = Submitted(disk[r], op)
                        \/ \E k \in Slot : SavesResponse(r, k)
                 PROVE  disk[q].cursor <= disk'[q].cursor /\ disk[q].next <= disk'[q].next
    BY DiskStep DEF StorageAdvances
  <2>2. /\ disk \in [Replica -> ReplicaState \cup {Nothing}] /\ MaxLocal \in Nat
        /\ \A s \in ReplicaState : s.cursor \in Nat /\ s.next \in Nat
    BY SyncAssumption DEF IInv, Typed, ClientTyped, ReplicaState
  <2>3. CASE q # r
    BY <2>1, <2>2, <2>3
  <2>4. CASE q = r /\ (disk[r] = Nothing \/ Evict(r))
    BY <2>1, <2>2, <2>4 DEF Evict
  <2>5. ASSUME q = r, NEW op \in Operation, disk[r] \in ReplicaState, disk'[r] = Submitted(disk[r], op)
        PROVE  disk[q].cursor <= disk'[q].cursor /\ disk[q].next <= disk'[q].next
    BY <2>2, <2>5 DEF Submitted
  <2>6. ASSUME q = r, NEW k \in Slot, SavesResponse(r, k)
        PROVE  disk[q].cursor <= disk'[q].cursor /\ disk[q].next <= disk'[q].next
    <3>1. /\ disk[r] \in ReplicaState /\ job[k] \in ReplyJob /\ Quotes(job[k], tables)
          /\ Adoptable(disk[r], job[k], sent[job[k].to].pending) /\ disk'[r] = Adopted(disk[r], job[k])
      BY <2>6 DEF SavesResponse
    <3>2. disk[r] \in Held(r) /\ tables \in Tables
      BY <2>2, <3>1, HeldFacts, NothingAssumption DEF IInv, Typed
    <3>3. Lags(disk[r], tables)
      BY <3>2 DEF IInv, AllLag
    <3>4. disk'[r].cursor >= disk[r].cursor /\ disk'[r].next = disk[r].next
      BY <3>1, <3>2, <3>3, AdoptedLags
    <3> QED
      BY <2>2, <2>6, <3>1, <3>4
  <2> QED
    BY <2>1, <2>3, <2>4, <2>5, <2>6
<1> QED
  BY <1>1, Invariance, PTL DEF Spec, StorageOnlyAdvances

(***************************************************************************)
(* The document.                                                           *)
(***************************************************************************)

\* Every replica's view is a prefix of the log.
LEMMA ViewFacts ==
  ASSUME IInv, NEW r \in Replica
  PROVE  /\ tables.snapshot \in Seq(Operation) /\ Len(tables.snapshot) = tables.cursor
         /\ View[r] = IF disk[r] = Nothing THEN <<>> ELSE disk[r].committed
         /\ Len(View[r]) \in Nat
         /\ disk[r] # Nothing =>
              disk[r] \in ReplicaState /\ Lags(disk[r], tables) /\ Len(View[r]) = disk[r].cursor
<1>1. /\ tables \in Tables /\ Len(tables.snapshot) = tables.cursor
      /\ View[r] = IF disk[r] = Nothing THEN <<>> ELSE disk[r].committed
  BY DEF IInv, Typed, LogHolds, TablesConsistent, SnapshotIsReduction, View
<1>2. ASSUME disk[r] # Nothing
      PROVE  disk[r] \in ReplicaState /\ Lags(disk[r], tables)
  BY <1>2, HeldFacts DEF IInv, Typed, ClientTyped, AllLag
<1> QED
  BY <1>1, <1>2 DEF Tables, Lags, ReplicaState

\* A step of the server commits one operation of a new identity, or nothing:
\* what compaction forgets is not in the document (journal.ts:495-560).
LEMMA CommitStep ==
  ASSUME IInv, NEW op \in Operation, NEW a \in Actor, Prior(tables, op.id) = {},
         tables' = Insert(tables, op, a), disk' = disk
  PROVE  Document!Commit
<1>1. /\ tables \in Tables /\ GapFree(tables) /\ Len(tables.snapshot) = tables.cursor
      /\ \A r \in tables.ops : tables.snapshot[r.seq] = [id |-> r.id, data |-> r.hash]
  BY DEF IInv, Typed, LogHolds, TablesConsistent, SnapshotIsReduction
<1>2. ASSUME NEW i \in DOMAIN tables.snapshot PROVE tables.snapshot[i].id # op.id
  <2>1. i \in 1..tables.cursor
    BY <1>1 DEF Tables
  <2>2. PICK r \in tables.ops : r.seq = i
    BY <1>1, <2>1 DEF GapFree
  <2>3. tables.snapshot[i].id = r.id
    <3>1. tables.snapshot[i] = [id |-> r.id, data |-> r.hash]
      BY <1>1, <2>2
    <3> QED
      BY <3>1
  <2>4. r.id # op.id
    BY DEF Prior
  <2> QED
    BY <2>3, <2>4
<1>3. tables'.snapshot = Append(tables.snapshot, op)
  BY DEF Insert
<1>4. op \in Document!Op
  BY DEF Document!Op, Operation
<1>5. View' = View
  BY DEF View
<1> QED
  BY <1>2, <1>3, <1>4, <1>5 DEF Document!Commit

\* Synchronize takes its replica forward along the log, by operations or by a
\* checkpoint (sync.ts:543-617).
LEMMA CatchUpStep ==
  ASSUME IInv, NEW r \in Replica, NEW k \in Slot, SavesResponse(r, k),
         disk' = [disk EXCEPT ![r] = disk'[r]]
  PROVE  Document!CatchUp(r)
<1> DEFINE u == Adopted(disk[r], job[k])
           n == u.cursor
<1>1. /\ disk[r] \in ReplicaState /\ job[k] \in ReplyJob /\ Quotes(job[k], tables)
      /\ Adoptable(disk[r], job[k], sent[job[k].to].pending) /\ disk'[r] = u /\ tables' = tables
  BY DEF SavesResponse
<1>2. /\ tables \in Tables /\ disk[r] # Nothing /\ disk \in [Replica -> ReplicaState \cup {Nothing}]
      /\ Len(tables.snapshot) = tables.cursor
  BY <1>1, NothingAssumption
     DEF IInv, Typed, ClientTyped, LogHolds, TablesConsistent, SnapshotIsReduction
<1>3. Lags(disk[r], tables) /\ Len(View[r]) = disk[r].cursor
  BY <1>2, ViewFacts
<1>4. Lags(u, tables) /\ u.cursor >= disk[r].cursor
  BY <1>1, <1>2, <1>3, AdoptedLags
<1>5. u \in ReplicaState
  BY <1>1, AdoptedType DEF Quotes
<1> HIDE DEF u
<1>6. u.committed = SubSeq(tables.snapshot, 1, n)
  BY <1>2, <1>4, <1>5, PrefixFacts
<1>7. n \in Len(View[r])..Len(tables.snapshot)
  BY <1>1, <1>2, <1>3, <1>4, <1>5 DEF Lags, ReplicaState, Tables
<1>8. View' = [View EXCEPT ![r] = SubSeq(tables.snapshot, 1, n)]
  <2>1. disk'[r] # Nothing /\ \A q \in Replica \ {r} : disk'[q] = disk[q]
    BY <1>1, <1>2, <1>5, NothingAssumption
  <2>2. View' = [q \in Replica |-> IF q = r THEN u.committed ELSE View[q]]
    BY <1>1, <2>1 DEF View
  <2> QED
    BY <1>6, <2>2 DEF View
<1> QED
  BY <1>1, <1>7, <1>8 DEF Document!CatchUp

\* The whole system is one totally ordered document with lagging views: every
\* step of it commits a new operation, takes one replica forward along the
\* log, makes an evicted one start over, or changes neither (journal.ts,
\* sync.ts:355-640, indexedDb.ts).
THEOREM SystemImplementsDocument == Spec => ImplementsDocument
<1>1. Init => Document!Init
  BY DEF Init, Document!Init, Empty, View
<1>2. IInv /\ [Next]_vars => [Document!Next]_<<tables.snapshot, View>>
  <2> SUFFICES ASSUME IInv, Next
               PROVE  Document!Next \/ UNCHANGED <<tables.snapshot, View>>
    <3>1. UNCHANGED vars => UNCHANGED <<tables.snapshot, View>>
      BY DEF vars, View
    <3> QED
      BY <3>1
  <2>1. CASE disk' = disk /\ tables' = tables
    BY <2>1 DEF View
  <2>2. ASSUME disk' = disk, NEW n \in tables.floor..tables.cursor, tables' = Compacted(tables, n)
        PROVE  UNCHANGED <<tables.snapshot, View>>
    BY <2>2 DEF View, Compacted
  <2>3. ASSUME disk' = disk, NEW op \in Operation, NEW a \in Actor, Prior(tables, op.id) = {},
               tables' = Insert(tables, op, a)
        PROVE  Document!Next
    BY <2>3, CommitStep DEF Document!Next
  <2>4. ASSUME NEW r \in Replica, disk' = [disk EXCEPT ![r] = disk'[r]], tables' = tables,
               disk[r] = Nothing, disk'[r] = Initial
        PROVE  UNCHANGED <<tables.snapshot, View>>
    <3>1. \A q \in Replica : disk'[q] = IF q = r THEN Initial ELSE disk[q]
      BY <2>4 DEF IInv, Typed, ClientTyped
    <3>2. Initial.committed = <<>>
      BY DEF Initial
    <3> QED
      BY <2>4, <3>1, <3>2 DEF View
  <2>5. ASSUME NEW r \in Replica, Evict(r)
        PROVE  Document!Next
    <3>1. disk' = [disk EXCEPT ![r] = Nothing] /\ tables' = tables
      BY <2>5 DEF Evict
    <3>2. \A q \in Replica : disk'[q] = IF q = r THEN Nothing ELSE disk[q]
      BY <3>1 DEF IInv, Typed, ClientTyped
    <3>3. View' = [View EXCEPT ![r] = <<>>]
      BY <3>2 DEF View
    <3> QED
      BY <3>1, <3>3 DEF Document!Next, Document!Forget
  <2>6. ASSUME NEW r \in Replica, NEW op \in Operation, disk' = [disk EXCEPT ![r] = disk'[r]],
               tables' = tables, disk[r] \in ReplicaState, disk'[r] \in ReplicaState,
               disk'[r] = Submitted(disk[r], op)
        PROVE  UNCHANGED <<tables.snapshot, View>>
    <3>1. \A q \in Replica \ {r} : disk'[q] = disk[q]
      BY <2>6 DEF IInv, Typed, ClientTyped
    <3>2. disk[r] # Nothing /\ disk'[r] # Nothing
      BY <2>6, NothingAssumption
    <3>3. disk'[r].committed = disk[r].committed
      BY <2>6 DEF Submitted
    <3> QED
      BY <2>6, <3>1, <3>2, <3>3 DEF View
  <2>7. ASSUME NEW r \in Replica, NEW k \in Slot, SavesResponse(r, k),
               disk' = [disk EXCEPT ![r] = disk'[r]]
        PROVE  Document!Next
    BY <2>7, CatchUpStep DEF Document!Next
  <2>8. CASE disk' = disk
    BY <2>1, <2>2, <2>3, <2>8, TablesStep
  <2>9. CASE disk' # disk
    BY <2>4, <2>5, <2>6, <2>7, <2>9, DiskStep
  <2> QED
    BY <2>8, <2>9
<1> QED
  BY <1>1, <1>2, Invariance, PTL DEF Spec, ImplementsDocument, Document!Spec

\* So replicas never diverge: of the views of any two, one is a prefix of the
\* other (sync.ts:543-617).
THEOREM ReplicasNeverDiverge == Spec => []Document!ViewsAgree
<1>1. IInv => Document!ViewsAgree
  <2> SUFFICES ASSUME IInv, NEW q \in Replica, NEW r \in Replica,
                      NEW i \in DOMAIN View[q] \cap DOMAIN View[r]
               PROVE  View[q][i] = View[r][i]
    BY DEF Document!ViewsAgree
  <2>1. ASSUME NEW p \in Replica, i \in DOMAIN View[p]
        PROVE  View[p][i] = tables.snapshot[i]
    <3>1. disk[p] # Nothing
      BY <2>1 DEF View
    <3>2. disk[p] \in ReplicaState /\ Lags(disk[p], tables) /\ View[p] = disk[p].committed
      BY <3>1, ViewFacts
    <3>3. i \in 1..disk[p].cursor
      BY <2>1, <3>2 DEF Lags, ReplicaState
    <3> QED
      BY <3>2, <3>3 DEF Lags
  <2> QED
    BY <2>1
<1> QED
  BY <1>1, Invariance, PTL

(***************************************************************************)
(* What becomes of an operation that submit persisted: who holds it, that  *)
(* it is not lost, not renamed, not applied twice, and not committed once  *)
(* it was reported rejected.                                               *)
(***************************************************************************)

Ops(q) == {q[i] : i \in DOMAIN q}
Apart(q) == \A i, j \in DOMAIN q : q[i].id = q[j].id => i = j

(***************************************************************************)
(* The invariant.  None of the properties is inductive alone: an operation *)
(* travels from the outbox through a request to a job and to the log, so   *)
(* each of these must be known to hold only what was submitted, under the  *)
(* identity of its replica, with a counter that the disk has passed.       *)
(***************************************************************************)

\* An outbox holds operations its replica submitted, each once; while the
\* storage is intact none of them is among the ids it knows as committed.
Outboxes ==
  \A r \in Replica : \A s \in Held(r) :
    /\ Apart(s.pending)
    /\ \A op \in Ops(s.pending) : op \in issued /\ op.id[1] = r /\ op.id[2] < s.next
    /\ r \notin evicted => \A m \in DOMAIN s.ids : s.ids[m] \notin Ids(s.pending)

\* A request carries operations of its replica.
Requests ==
  /\ \A f \in Fiber : sent[f] # Nothing =>
       \A op \in Ops(sent[f].pending) : op \in issued /\ op.id[1] = Home[Tab[f]]
  /\ \A k \in Slot : job[k].phase = "append" =>
       \A op \in Ops(job[k].todo) : op \in issued /\ op.id[1] = job[k].actor

Answered(k) == job[k].phase \in {"append", "reply"}

\* The log holds what was submitted or the server wrote, and what a job
\* acknowledges is in it.
Logged ==
  /\ \A op \in Ops(tables.snapshot) : op.id[1] # Producer => op \in issued
  /\ \A k \in Slot : Answered(k) => job[k].acknowledged \subseteq Ids(tables.snapshot)

\* The counter of intact storage has passed every identity it gave.
Counted ==
  \A op \in issued :
    /\ op.id[1] \in Replica
    /\ op.id[1] \notin evicted => disk[op.id[1]] # Nothing /\ op.id[2] < disk[op.id[1]].next

OutboxInv ==
  IInv /\ Outboxes /\ Requests /\ Logged /\ Counted /\ StoredIdentityIsStable /\ NothingLost

(***************************************************************************)
(* A decision is final if authorization refuses an operation whatever the  *)
(* state it is asked in, or does not.                                      *)
(***************************************************************************)

Refusable(op, a) == \E s \in Seq(Operation) : Accept(s, op, a) = "refused"

RefusalIsStable ==
  \A op \in Operation, a \in Actor, s \in Seq(Operation) :
    Refusable(op, a) => Accept(s, op, a) # "reduce"

Doomed(id) ==
  \/ id[1] \in Reader
  \/ \E op \in issued : op.id = id /\ Refusable(op, id[1])

\* What was rejected, by a job or in an outbox, is doomed and not in the log.
Reported == refused \cup UNION {job[k].rejected : k \in {l \in Slot : Answered(l)}}

Rejections ==
  /\ \A id \in Ids(tables.snapshot) : id[1] \notin Reader
  /\ \A id \in Reported : id[1] \in evicted \/ (Doomed(id) /\ id \notin Ids(tables.snapshot))

(***************************************************************************)
(* One tab with one synchronizing fiber per replica.                       *)
(***************************************************************************)

OneTabEach ==
  /\ \A g, h \in Handle : Home[g] = Home[h] => g = h
  /\ \A e, f \in Fiber : Tab[e] = Tab[f] => e = f

\* The identities some job may still commit, or the log holds.
InFlight ==
  Ids(tables.snapshot) \cup UNION {Ids(job[k].todo) : k \in {l \in Slot : job[l].phase = "append"}}

\* A save is the tab's own last word on the disk, and submit's only adds.
SaverIsLatest ==
  \A h \in Handle : saving[h] # Nothing =>
    /\ saving[h].latest
    /\ saving[h].by = Nothing => Ids(mem[h].pending) \subseteq Ids(saving[h].state.pending)

\* What the exchange sent is still in the outbox.
SentIsRemembered ==
  \A f \in Fiber : sent[f] # Nothing => Ids(sent[f].pending) \subseteq Ids(mem[Tab[f]].pending)

\* What the server has seen of an outbox on disk, the tab remembers.
SeenIsRemembered ==
  \A h \in Handle : mem[h] # Nothing /\ Home[h] \notin evicted =>
    \A s \in Held(Home[h]) : Ids(s.pending) \cap InFlight \subseteq Ids(mem[h].pending)

\* What the server has seen of it, the exchange in progress sent.
SeenIsSent ==
  \A f \in Fiber : sent[f] # Nothing /\ Home[Tab[f]] \notin evicted =>
    \A s \in Held(Home[Tab[f]]) : Ids(s.pending) \cap InFlight \subseteq Ids(sent[f].pending)

\* All that was sent is decided, or still to be.
SentIsDecided ==
  \A k \in Slot : job[k].to # Nothing =>
    /\ job[k].phase = "append" =>
         Ids(sent[job[k].to].pending) \subseteq job[k].acknowledged \cup job[k].rejected \cup Ids(job[k].todo)
    /\ job[k].phase = "reply" =>
         Ids(sent[job[k].to].pending) \subseteq job[k].acknowledged \cup job[k].rejected

\* Nothing committed is in the outbox.
AppliedApart ==
  \A r \in Replica \ evicted : \A s \in Held(r) : Ids(s.pending) \cap Ids(s.committed) = {}

SoleTab ==
  /\ SaverIsLatest /\ SentIsRemembered /\ SeenIsRemembered /\ SeenIsSent
  /\ SentIsDecided /\ AppliedApart

(***************************************************************************)
(* Operators.                                                              *)
(***************************************************************************)

\* The operations of a sequence and their identities.
LEMMA OpsFacts ==
  ASSUME NEW q \in Seq(Operation)
  PROVE  /\ Ids(q) = {op.id : op \in Ops(q)} /\ Ops(q) \subseteq Operation
         /\ DOMAIN q = 1..Len(q) /\ Len(q) \in Nat
         /\ \A i \in 1..Len(q) : q[i] \in Ops(q)
         /\ \A op \in Ops(q) : op.id \in Ids(q)
         /\ \A id \in Ids(q) : \E op \in Ops(q) : op.id = id
  BY DEF Ids, Ops

\* What submit appends.
LEMMA AppendOps ==
  ASSUME NEW q \in Seq(Operation), NEW op \in Operation
  PROVE  /\ Ops(Append(q, op)) = Ops(q) \cup {op}
         /\ Apart(q) /\ op.id \notin Ids(q) => Apart(Append(q, op))
<1> DEFINE n == Len(q)
           w == Append(q, op)
<1>1. /\ n \in Nat /\ DOMAIN q = 1..n /\ DOMAIN w = 1..(n + 1)
      /\ w[n + 1] = op /\ \A i \in 1..n : w[i] = q[i]
  OBVIOUS
<1> HIDE DEF n, w
<1>2. Ops(w) = Ops(q) \cup {op}
  <2>1. ASSUME NEW i \in 1..(n + 1) PROVE w[i] \in Ops(q) \cup {op}
    <3>1. i = n + 1 \/ i \in 1..n
      BY <1>1
    <3> QED
      BY <1>1, <3>1 DEF Ops
  <2>2. ASSUME NEW i \in 1..n PROVE q[i] \in Ops(w)
    <3>1. i \in 1..(n + 1)
      BY <1>1
    <3> QED
      BY <1>1, <3>1 DEF Ops
  <2>3. op \in Ops(w)
    <3>1. n + 1 \in 1..(n + 1)
      BY <1>1
    <3> QED
      BY <1>1, <3>1 DEF Ops
  <2> QED
    BY <1>1, <2>1, <2>2, <2>3 DEF Ops
<1>3. ASSUME Apart(q), op.id \notin Ids(q), NEW i \in 1..(n + 1), NEW j \in 1..(n + 1), w[i].id = w[j].id
      PROVE  i = j
  <2>1. i = n + 1 \/ i \in 1..n
    BY <1>1
  <2>2. j = n + 1 \/ j \in 1..n
    BY <1>1
  <2>3. \A m \in 1..n : w[m].id \in Ids(q)
    BY <1>1 DEF Ids
  <2> QED
    BY <1>1, <1>3, <2>1, <2>2, <2>3 DEF Apart
<1> QED
  BY <1>1, <1>2, <1>3 DEF Apart, w

\* What a job decides next, and what is left.
LEMMA HeadTailOps ==
  ASSUME NEW q \in Seq(Operation), q # <<>>
  PROVE  Head(q) \in Ops(q) /\ Ops(q) = {Head(q)} \cup Ops(Tail(q)) /\ Tail(q) \in Seq(Operation)
<1> DEFINE n == Len(q)
           w == Tail(q)
<1>1. /\ n \in Nat /\ n # 0 /\ DOMAIN q = 1..n /\ DOMAIN w = 1..(n - 1) /\ w \in Seq(Operation)
      /\ Head(q) = q[1] /\ \A i \in 1..(n - 1) : w[i] = q[i + 1]
  OBVIOUS
<1> HIDE DEF n, w
<1>2. ASSUME NEW i \in 1..n PROVE q[i] \in {q[1]} \cup Ops(w)
  <2>1. i = 1 \/ (i - 1 \in 1..(n - 1) /\ i = (i - 1) + 1)
    BY <1>1
  <2>2. ASSUME i - 1 \in 1..(n - 1), i = (i - 1) + 1 PROVE q[i] \in Ops(w)
    <3>1. w[i - 1] = q[i]
      BY <1>1, <2>2
    <3> QED
      BY <1>1, <2>2, <3>1 DEF Ops
  <2> QED
    BY <2>1, <2>2
<1>3. ASSUME NEW i \in 1..(n - 1) PROVE w[i] \in Ops(q)
  <2>1. i + 1 \in 1..n
    BY <1>1
  <2> QED
    BY <1>1, <2>1 DEF Ops
<1>4. q[1] \in Ops(q)
  <2>1. 1 \in 1..n
    BY <1>1
  <2> QED
    BY <1>1, <2>1 DEF Ops
<1> QED
  BY <1>1, <1>2, <1>3, <1>4 DEF Ops, w

\* What is left of an outbox.
LEMMA WithoutOps ==
  ASSUME NEW q \in Seq(Operation), NEW ids
  PROVE  /\ Without(q, ids) \in Seq(Operation)
         /\ Ops(Without(q, ids)) = {op \in Ops(q) : op.id \notin ids}
         /\ Ids(Without(q, ids)) = Ids(q) \ ids
         /\ Apart(q) => Apart(Without(q, ids))
<1> DEFINE w == Without(q, ids)
<1>1. /\ w \in Seq(Operation)
      /\ \A n \in 1..Len(w) : \E i \in 1..Len(q) : w[n] = q[i] /\ q[i].id \notin ids
      /\ \A i \in 1..Len(q) : q[i].id \notin ids => \E n \in 1..Len(w) : w[n] = q[i]
      /\ (\A i, j \in 1..Len(q) : q[i].id = q[j].id => i = j)
           => \A m, n \in 1..Len(w) : w[m].id = w[n].id => m = n
  BY WithoutFacts
<1> HIDE DEF w
<1>2. DOMAIN w = 1..Len(w) /\ DOMAIN q = 1..Len(q)
  BY <1>1
<1>3. Ops(w) = {op \in Ops(q) : op.id \notin ids}
  <2>1. ASSUME NEW n \in 1..Len(w) PROVE w[n] \in {op \in Ops(q) : op.id \notin ids}
    <3>1. PICK i \in 1..Len(q) : w[n] = q[i] /\ q[i].id \notin ids
      BY <1>1
    <3> QED
      BY <1>2, <3>1 DEF Ops
  <2>2. ASSUME NEW i \in 1..Len(q), q[i].id \notin ids PROVE q[i] \in Ops(w)
    <3>1. PICK n \in 1..Len(w) : w[n] = q[i]
      BY <1>1, <2>2
    <3> QED
      BY <1>2, <3>1 DEF Ops
  <2> QED
    BY <1>2, <2>1, <2>2 DEF Ops
<1>4. Ids(w) = Ids(q) \ ids
  <2>1. Ids(w) = {op.id : op \in Ops(w)} /\ Ids(q) = {op.id : op \in Ops(q)}
    BY <1>1, OpsFacts
  <2> QED
    BY <1>3, <2>1
<1> QED
  BY <1>1, <1>2, <1>3, <1>4 DEF Apart, w

\* The log has each identity once, and a row of its own for it.
LEMMA LogFacts ==
  ASSUME IInv
  PROVE  /\ tables \in Tables /\ tables.snapshot \in Seq(Operation)
         /\ DOMAIN tables.snapshot = 1..tables.cursor /\ tables.cursor \in Nat
         /\ \A i, j \in 1..tables.cursor : tables.snapshot[i].id = tables.snapshot[j].id => i = j
         /\ \A id : Prior(tables, id) = {} <=> id \notin Ids(tables.snapshot)
<1>1. /\ tables \in Tables /\ TablesConsistent(tables)
  BY DEF IInv, Typed, LogHolds
<1>2. /\ tables.snapshot \in Seq(Operation) /\ tables.cursor \in Nat
      /\ DOMAIN tables.snapshot = 1..tables.cursor
  BY <1>1 DEF Tables, TablesConsistent, SnapshotIsReduction
<1>3. /\ \A r \in tables.ops : r.seq \in 1..tables.cursor
      /\ \A n \in 1..tables.cursor : \E r \in tables.ops : r.seq = n
      /\ \A r, s \in tables.ops : r.id = s.id => r = s
  BY <1>1 DEF TablesConsistent, GapFree, CommittedOnce
<1>4. ASSUME NEW r \in tables.ops PROVE tables.snapshot[r.seq].id = r.id
  <2>1. tables.snapshot[r.seq] = [id |-> r.id, data |-> r.hash]
    BY <1>1 DEF TablesConsistent, SnapshotIsReduction
  <2> QED
    BY <2>1
<1>5. ASSUME NEW i \in 1..tables.cursor, NEW j \in 1..tables.cursor,
             tables.snapshot[i].id = tables.snapshot[j].id
      PROVE  i = j
  <2>1. PICK r \in tables.ops : r.seq = i
    BY <1>3
  <2>2. PICK s \in tables.ops : s.seq = j
    BY <1>3
  <2> QED
    BY <1>3, <1>4, <1>5, <2>1, <2>2
<1>6. ASSUME NEW id
      PROVE  Prior(tables, id) = {} <=> id \notin Ids(tables.snapshot)
  <2>1. ASSUME NEW r \in tables.ops, r.id = id PROVE id \in Ids(tables.snapshot)
    BY <1>2, <1>3, <1>4, <2>1 DEF Ids
  <2>2. ASSUME id \in Ids(tables.snapshot) PROVE \E r \in tables.ops : r.id = id
    <3>1. PICK i \in 1..tables.cursor : tables.snapshot[i].id = id
      BY <1>2, <2>2 DEF Ids
    <3>2. PICK r \in tables.ops : r.seq = i
      BY <1>3
    <3> QED
      BY <1>4, <3>1, <3>2
  <2> QED
    BY <2>1, <2>2 DEF Prior
<1> QED
  BY <1>1, <1>2, <1>5, <1>6

\* A step leaves the operations of the log alone or appends one of a new
\* identity, from a request or the server's own.
LEMMA LogChange ==
  ASSUME IInv, Next
  PROVE  \/ tables'.snapshot = tables.snapshot
         \/ \E op \in Operation, a \in Actor :
              /\ Ops(tables'.snapshot) = Ops(tables.snapshot) \cup {op}
              /\ Ids(tables'.snapshot) = Ids(tables.snapshot) \cup {op.id}
              /\ op.id \notin Ids(tables.snapshot) /\ Accept(tables.snapshot, op, a) = "reduce"
              /\ \/ \E k \in Slot : CommitsNext(k, op) /\ a = job[k].actor
                 \/ op.id[1] = Producer /\ UNCHANGED <<client, job, past>>
<1>1. CASE tables' = tables
  BY <1>1
<1>2. ASSUME NEW n \in tables.floor..tables.cursor, tables' = Compacted(tables, n)
      PROVE  tables'.snapshot = tables.snapshot
  BY <1>2 DEF Compacted
<1>3. ASSUME NEW op \in Operation, NEW a \in Actor, Prior(tables, op.id) = {},
             tables' = Insert(tables, op, a)
      PROVE  /\ Ops(tables'.snapshot) = Ops(tables.snapshot) \cup {op}
             /\ Ids(tables'.snapshot) = Ids(tables.snapshot) \cup {op.id}
             /\ op.id \notin Ids(tables.snapshot)
  <2>1. tables'.snapshot = Append(tables.snapshot, op)
    BY <1>3 DEF Insert
  <2>2. tables.snapshot \in Seq(Operation) /\ op.id \notin Ids(tables.snapshot)
    BY <1>3, LogFacts
  <2>3. tables'.snapshot \in Seq(Operation) /\ Ops(tables'.snapshot) = Ops(tables.snapshot) \cup {op}
    BY <2>1, <2>2, AppendOps
  <2>4. /\ Ids(tables'.snapshot) = {o.id : o \in Ops(tables'.snapshot)}
        /\ Ids(tables.snapshot) = {o.id : o \in Ops(tables.snapshot)}
    BY <2>2, <2>3, OpsFacts
  <2> QED
    BY <2>2, <2>3, <2>4
<1> QED
  BY <1>1, <1>2, <1>3, TablesStep

\* What leaves the outbox with a response was decided: acknowledged, rejected,
\* or in the log.
LEMMA DroppedFacts ==
  ASSUME NEW t \in Tables, Len(t.snapshot) = t.cursor, NEW s \in ReplicaState, NEW reply \in ReplyJob,
         Lags(s, t), Quotes(reply, t), NEW id \in Dropped(s, reply)
  PROVE  id \in reply.acknowledged \cup reply.rejected \cup Ids(t.snapshot)
<1>1. /\ t.cursor \in Nat /\ t.snapshot \in Seq(Operation) /\ DOMAIN t.snapshot = 1..t.cursor
      /\ s.cursor \in Nat /\ s.ids \in Seq(OpId) /\ reply.from \in Nat
      /\ reply.operations \in Seq(Operation) /\ Len(reply.operations) \in Nat
  BY DEF Tables, ReplicaState, ReplyJob
<1>2. ASSUME NEW m \in DOMAIN s.ids PROVE s.ids[m] \in Ids(t.snapshot)
  <2>1. m \in 1..Len(s.ids) /\ Len(s.ids) \in Nat
    BY <1>1
  <2>2. /\ s.cursor <= t.cursor /\ Len(s.ids) <= s.cursor
        /\ s.ids[m] = t.snapshot[s.cursor - Len(s.ids) + m].id
    BY <2>1 DEF Lags
  <2>3. s.cursor - Len(s.ids) + m \in 1..t.cursor
    BY <1>1, <2>1, <2>2
  <2> QED
    BY <1>1, <2>2, <2>3 DEF Ids
<1>3. ASSUME ~reply.checkpoint, NEW i \in DOMAIN Fresh(s, reply)
      PROVE  Fresh(s, reply)[i].id \in Ids(t.snapshot)
  <2> DEFINE new == Fresh(s, reply)
             known == IF s.cursor <= reply.from THEN 0 ELSE s.cursor - reply.from
             n == Len(reply.operations)
  <2>1. /\ new \in Seq(Operation) /\ Len(new) = IF known > n THEN 0 ELSE n - known
        /\ \A j \in 1..Len(new) : new[j] = reply.operations[known + j]
    BY FreshFacts
  <2>2. known \in Nat
    BY <1>1
  <2> HIDE DEF new, known
  <2>3. i \in 1..Len(new)
    BY <1>3, <2>1 DEF new
  <2>4. known + i \in 1..n
    BY <1>1, <2>1, <2>2, <2>3
  <2>5. /\ reply.from + n <= t.cursor
        /\ reply.operations[known + i] = t.snapshot[reply.from + (known + i)]
    BY <1>3, <2>4 DEF Quotes
  <2>6. reply.from + (known + i) \in 1..t.cursor
    BY <1>1, <2>2, <2>4, <2>5
  <2> QED
    BY <1>1, <2>1, <2>3, <2>5, <2>6 DEF Ids, new
<1> QED
  BY <1>2, <1>3 DEF Dropped, Ids

\* What a response leaves of a replica: the outbox without what was decided,
\* and none of the ids it now knows as committed is in it.
LEMMA AdoptedOutbox ==
  ASSUME NEW s \in ReplicaState, NEW reply \in ReplyJob, reply.checkpoint => reply.operations = <<>>
  PROVE  LET u == Adopted(s, reply)
         IN  /\ u \in ReplicaState /\ u.next = s.next
             /\ u.pending = Without(s.pending, Dropped(s, reply))
             /\ \A m \in DOMAIN u.ids : u.ids[m] \in Dropped(s, reply)
             /\ u.committed = IF reply.checkpoint THEN reply.model ELSE s.committed \o Fresh(s, reply)
<1> DEFINE u == Adopted(s, reply)
           new == Fresh(s, reply)
           newIds == [i \in DOMAIN new |-> new[i].id]
           all == s.ids \o newIds
           lo == IF Len(all) > Window THEN Len(all) - Window + 1 ELSE 1
           left == Without(s.pending, Dropped(s, reply))
<1>1. u \in ReplicaState
  BY AdoptedType
<1>2. CASE reply.checkpoint
  <2>1. u = [next |-> s.next, cursor |-> reply.from, committed |-> reply.model, ids |-> <<>>,
             pending |-> left]
    BY <1>2, AdoptedCheckpoint
  <2> HIDE DEF u, left
  <2>2. u.next = s.next /\ u.committed = reply.model /\ u.ids = <<>> /\ u.pending = left
    BY <2>1
  <2> QED
    BY <1>1, <1>2, <2>2 DEF u, left
<1>3. CASE ~reply.checkpoint
  <2>1. u = [next |-> s.next, cursor |-> s.cursor + Len(new), committed |-> s.committed \o new,
             ids |-> SubSeq(all, lo, Len(all)), pending |-> left]
    BY <1>3, AdoptedOperations
  <2>2. new \in Seq(Operation) /\ s.ids \in Seq(OpId)
    BY FreshFacts DEF ReplicaState
  <2>3. newIds \in Seq(OpId) /\ Ids(new) = {newIds[i] : i \in DOMAIN newIds}
    <3> HIDE DEF new
    <3> QED
      BY <2>2, IdsFacts
  <2>4. Ids(new) \subseteq Dropped(s, reply) /\ \A i \in DOMAIN s.ids : s.ids[i] \in Dropped(s, reply)
    BY <1>3 DEF Dropped
  <2> HIDE DEF u, left, new, newIds
  <2>5. /\ all \in Seq(OpId) /\ Len(all) \in Nat
        /\ \A i \in 1..Len(all) : all[i] \in Dropped(s, reply)
    <3>1. /\ all \in Seq(OpId) /\ Len(all) = Len(s.ids) + Len(newIds)
          /\ \A i \in 1..(Len(s.ids) + Len(newIds)) :
               all[i] = IF i <= Len(s.ids) THEN s.ids[i] ELSE newIds[i - Len(s.ids)]
      <4> DEFINE old == s.ids
      <4>1. old \in Seq(OpId) /\ newIds \in Seq(OpId) /\ all = old \o newIds
        BY <2>2, <2>3
      <4> HIDE DEF old, all
      <4>2. /\ old \o newIds \in Seq(OpId) /\ Len(old \o newIds) = Len(old) + Len(newIds)
            /\ \A m \in 1..(Len(old) + Len(newIds)) :
                 (old \o newIds)[m] = IF m <= Len(old) THEN old[m] ELSE newIds[m - Len(old)]
        BY <4>1, ConcatProperties
      <4> QED
        BY <4>1, <4>2 DEF old
    <3> HIDE DEF all
    <3>2. /\ DOMAIN s.ids = 1..Len(s.ids) /\ DOMAIN newIds = 1..Len(newIds)
          /\ Len(s.ids) \in Nat /\ Len(newIds) \in Nat
      BY <2>2, <2>3
    <3>3. ASSUME NEW i \in 1..Len(all) PROVE all[i] \in Dropped(s, reply)
      <4>1. CASE i <= Len(s.ids)
        <5>1. i \in DOMAIN s.ids
          BY <3>2, <4>1
        <5> QED
          BY <2>4, <3>1, <4>1, <5>1
      <4>2. CASE ~(i <= Len(s.ids))
        <5>1. i - Len(s.ids) \in DOMAIN newIds
          BY <3>1, <3>2, <4>2
        <5> QED
          BY <2>3, <2>4, <3>1, <4>2, <5>1
      <4> QED
        BY <4>1, <4>2
    <3> QED
      BY <3>1, <3>2, <3>3
  <2> HIDE DEF all
  <2>6. lo \in 1..(Len(all) + 1)
    BY <2>5, SyncAssumption
  <2> HIDE DEF lo
  <2>7. /\ u.next = s.next /\ u.committed = s.committed \o new /\ u.pending = left
        /\ u.ids = SubSeq(all, lo, Len(all))
    BY <2>1
  <2>8. ASSUME NEW m \in DOMAIN u.ids PROVE u.ids[m] \in Dropped(s, reply)
    <3> DEFINE q == Len(all)
    <3>1. q \in Nat /\ lo \in Int /\ \A i \in lo..q : all[i] \in OpId
      BY <2>5, <2>6
    <3> HIDE DEF q
    <3>2. /\ SubSeq(all, lo, q) \in Seq(OpId)
          /\ Len(SubSeq(all, lo, q)) = IF lo <= q THEN q - lo + 1 ELSE 0
          /\ \A i \in 1..(q - lo + 1) : SubSeq(all, lo, q)[i] = all[lo + i - 1]
      BY <3>1, SubSeqProperties
    <3>3. u.ids = SubSeq(all, lo, q)
      BY <2>7 DEF q
    <3>4. m \in 1..(q - lo + 1)
      BY <3>1, <3>2, <3>3
    <3>5. lo + m - 1 \in 1..q
      BY <2>6, <3>1, <3>4 DEF q
    <3> QED
      BY <2>5, <3>2, <3>3, <3>4, <3>5 DEF q
  <2> QED
    BY <1>1, <1>3, <2>7, <2>8 DEF u, left, new
<1> QED
  BY <1>2, <1>3

(***************************************************************************)
(* The steps.                                                              *)
(***************************************************************************)

\* The histories only grow.
LEMMA PastStep ==
  ASSUME IInv, Next
  PROVE  /\ issued \subseteq issued' /\ refused \subseteq refused' /\ evicted \subseteq evicted'
         /\ \/ issued' = issued
            \/ \E h \in Handle : Submit(h)
         /\ \/ refused' = refused
            \/ \E k \in Slot : /\ Deliver(k) /\ job[k] \in ReplyJob
                               /\ refused' = refused \cup (job[k].rejected \cap Ids(mem[Tab[job[k].to]].pending))
<1>0. Client
  BY DEF IInv, Typed, Client
<1>1. CASE ServerStep
  BY <1>1 DEF ServerStep, Receive, AppendNext, Respond, Drop, AppendAsServer, Compact, past
<1>2. ASSUME NEW h \in Handle, Open(h) \/ Stop(h) \/ Install(h) \/ InterruptSave(h)
      PROVE  UNCHANGED past
  BY <1>2 DEF Open, Stop, Install, InterruptSave
<1>3. ASSUME NEW f \in Fiber, LoopExchange(f) \/ AppExchange(f) \/ ExchangeFails(f)
      PROVE  UNCHANGED past
  BY <1>3 DEF LoopExchange, AppExchange, ExchangeFails
<1>4. ASSUME NEW k \in Slot, DeliverError(k) PROVE UNCHANGED past
  BY <1>4 DEF DeliverError
<1>5. ASSUME NEW r \in Replica, Evict(r)
      PROVE  issued' = issued /\ refused' = refused /\ evicted \subseteq evicted'
  BY <1>5 DEF Evict
<1>6. ASSUME NEW h \in Handle, Submit(h)
      PROVE  issued \subseteq issued' /\ refused' = refused /\ evicted' = evicted
  BY <1>0, <1>6, SubmitFacts
<1>7. ASSUME NEW k \in Slot, Deliver(k)
      PROVE  /\ issued' = issued /\ evicted' = evicted
             /\ \/ refused' = refused
                \/ /\ job[k] \in ReplyJob
                   /\ refused' = refused \cup (job[k].rejected \cap Ids(mem[Tab[job[k].to]].pending))
  BY <1>7, DeliverFacts
<1>8. CASE ClientStep
  BY <1>2, <1>3, <1>4, <1>5, <1>6, <1>7, <1>8 DEF ClientStep, past
<1> QED
  BY <1>1, <1>8 DEF Next, past

\* submit gives its operation the counter that is on the disk, and moves it.
LEMMA SubmitStep ==
  ASSUME IInv, NEW h \in Handle, Submit(h)
  PROVE  \E op \in Operation :
           /\ Home[h] \in Replica /\ disk[Home[h]] \in ReplicaState /\ mem[h] = disk[Home[h]]
           /\ op.id = <<Home[h], disk[Home[h]].next>> /\ issued' = issued \cup {op}
           /\ disk'[Home[h]] = Submitted(disk[Home[h]], op)
           /\ \A q \in Replica \ {Home[h]} : disk'[q] = disk[q]
           /\ UNCHANGED <<tables, mem, sent, job, refused, evicted>>
           /\ Save(h, Submitted(mem[h], op), Nothing) /\ Submitted(mem[h], op) \in ReplicaState
<1>1. Client /\ ClientTyped
  BY DEF IInv, Typed, Client
<1>2. PICK op \in Operation :
        /\ op.id = <<Home[h], mem[h].next>> /\ issued' = issued \cup {op}
        /\ Submitted(mem[h], op) \in ReplicaState
        /\ Save(h, Submitted(mem[h], op), Nothing)
  BY <1>1, SubmitFacts
<1>3. /\ mem[h] \in ReplicaState /\ Home[h] \in Replica /\ current[h]
      /\ UNCHANGED <<tables, mem, sent, wake, job, refused, evicted>>
  BY <1>1, SubmitFacts
<1>4. mem[h] = disk[Home[h]]
  BY <1>3 DEF IInv, Revisions
<1>5. /\ disk'[Home[h]] = Submitted(mem[h], op)
      /\ \A q \in Replica \ {Home[h]} : disk'[q] = disk[q]
  BY <1>1, <1>2, SaveFacts
<1> QED
  BY <1>2, <1>3, <1>4, <1>5

\* Storage that is there stays, unless evicted, and its counter never falls.
LEMMA DiskKept ==
  ASSUME IInv, Next, NEW r \in Replica, disk[r] # Nothing, r \notin evicted'
  PROVE  disk'[r] # Nothing /\ disk'[r].next >= disk[r].next
<1>1. /\ disk \in [Replica -> ReplicaState \cup {Nothing}]
      /\ \A s \in ReplicaState : s.next \in Nat /\ s # Nothing
  <2>1. \A s \in ReplicaState : s # Nothing
    BY NothingAssumption
  <2>2. \A s \in ReplicaState : s.next \in Nat
    BY SyncAssumption DEF ReplicaState
  <2> QED
    BY <2>1, <2>2 DEF IInv, Typed, ClientTyped
<1>2. CASE disk' = disk
  BY <1>1, <1>2
<1>3. ASSUME NEW q \in Replica, q # r, disk' = [disk EXCEPT ![q] = disk'[q]]
      PROVE  disk'[r] = disk[r]
  BY <1>1, <1>3
<1>4. ~Evict(r)
  BY DEF Evict
<1>5. ASSUME NEW op \in Operation, disk[r] \in ReplicaState, Submitted(disk[r], op) \in ReplicaState,
             disk'[r] = Submitted(disk[r], op)
      PROVE  disk'[r] # Nothing /\ disk'[r].next >= disk[r].next
  <2>1. disk'[r] # Nothing
    BY <1>1, <1>5
  <2>2. disk'[r].next = disk[r].next + 1
    BY <1>5 DEF Submitted
  <2> QED
    BY <1>1, <1>5, <2>1, <2>2
<1>6. ASSUME NEW k \in Slot, SavesResponse(r, k)
      PROVE  disk'[r] # Nothing /\ disk'[r].next >= disk[r].next
  <2>1. /\ disk[r] \in ReplicaState /\ job[k] \in ReplyJob /\ Quotes(job[k], tables)
        /\ disk'[r] = Adopted(disk[r], job[k])
    BY <1>6 DEF SavesResponse
  <2>2. disk'[r] \in ReplicaState /\ disk'[r].next = disk[r].next
    BY <2>1, AdoptedOutbox DEF Quotes
  <2> QED
    BY <1>1, <2>1, <2>2
<1> QED
  BY <1>1, <1>2, <1>3, <1>4, <1>5, <1>6, DiskStep

\* The disk stays ahead of every identity.
LEMMA CountedStep ==
  ASSUME OutboxInv, Next
  PROVE  Counted' /\ StoredIdentityIsStable'
<1>0. IInv /\ Counted /\ StoredIdentityIsStable /\ evicted \subseteq evicted' /\ issued \subseteq Operation
  BY PastStep DEF OutboxInv, IInv, Typed
<1>1. /\ \A r \in Replica : disk[r] # Nothing => disk[r] \in ReplicaState
      /\ \A s \in ReplicaState : s.next \in Nat /\ s # Nothing
      /\ \A id \in OpId : id[2] \in Nat
  BY <1>0, SyncAssumption, NothingAssumption, FS_CardinalityType
     DEF IInv, Typed, ClientTyped, ReplicaState, MaxCursor
<1>2. ASSUME NEW op \in issued
      PROVE  /\ op.id[1] \in Replica
             /\ op.id[1] \notin evicted' => disk'[op.id[1]] # Nothing /\ op.id[2] < disk'[op.id[1]].next
  <2> DEFINE r == op.id[1]
  <2>1. r \in Replica /\ (r \notin evicted => disk[r] # Nothing /\ op.id[2] < disk[r].next)
    BY <1>0 DEF Counted
  <2>2. op.id \in OpId
    BY <1>0 DEF Operation
  <2>3. op.id[2] \in Nat
    BY <1>1, <2>2
  <2> HIDE DEF r
  <2>4. ASSUME r \notin evicted' PROVE disk'[r] # Nothing /\ op.id[2] < disk'[r].next
    <3>1. r \notin evicted /\ disk[r] \in ReplicaState
      BY <1>0, <1>1, <2>1, <2>4
    <3>2. disk'[r] # Nothing /\ disk'[r].next >= disk[r].next
      BY <1>0, <2>1, <2>4, <3>1, DiskKept
    <3>3. disk'[r] \in ReplicaState
      BY <1>0, <2>1, <3>2, ClientInvariant DEF Client, ClientTyped
    <3> QED
      BY <1>1, <2>1, <2>3, <3>1, <3>2, <3>3
  <2> QED
    BY <2>1, <2>4 DEF r
<1>3. CASE issued' = issued
  <2>1. Counted'
    BY <1>2, <1>3 DEF Counted
  <2>2. StoredIdentityIsStable'
    BY <1>0, <1>3 DEF StoredIdentityIsStable
  <2> QED
    BY <2>1, <2>2
<1>4. ASSUME NEW h \in Handle, Submit(h)
      PROVE  Counted' /\ StoredIdentityIsStable'
  <2> DEFINE r == Home[h]
  <2>1. PICK op \in Operation :
          /\ r \in Replica /\ disk[r] \in ReplicaState /\ op.id = <<r, disk[r].next>>
          /\ issued' = issued \cup {op} /\ disk'[r] = Submitted(disk[r], op)
          /\ Submitted(mem[h], op) \in ReplicaState /\ mem[h] = disk[r] /\ evicted' = evicted
    BY <1>0, <1>4, SubmitStep
  <2> HIDE DEF r
  <2>2. disk'[r] # Nothing /\ disk'[r].next = disk[r].next + 1
    <3>1. disk'[r] \in ReplicaState
      BY <2>1
    <3>2. disk'[r].next = disk[r].next + 1
      BY <2>1 DEF Submitted
    <3> QED
      BY <1>1, <3>1, <3>2
  <2>3. op.id[1] = r /\ op.id[2] = disk[r].next /\ disk[r].next \in Nat
    BY <1>1, <2>1
  <2>4. Counted'
    <3>1. ASSUME NEW o \in issued'
          PROVE  /\ o.id[1] \in Replica
                 /\ o.id[1] \notin evicted' => disk'[o.id[1]] # Nothing /\ o.id[2] < disk'[o.id[1]].next
      <4>1. CASE o \in issued
        BY <1>2, <4>1
      <4>2. CASE o = op
        BY <2>1, <2>2, <2>3, <4>2
      <4> QED
        BY <2>1, <4>1, <4>2
    <3> QED
      BY <3>1 DEF Counted
  <2>5. ASSUME NEW o \in issued, o.id = op.id PROVE o.id[1] \in evicted'
    <3>1. o.id[1] = r /\ o.id[2] = disk[r].next
      BY <2>3, <2>5
    <3>2. r \notin evicted => o.id[2] < disk[r].next
      BY <1>0, <3>1 DEF Counted
    <3> QED
      BY <2>1, <2>3, <3>1, <3>2
  <2>6. StoredIdentityIsStable'
    <3>1. ASSUME NEW a \in issued', NEW b \in issued', a.id = b.id PROVE a = b \/ a.id[1] \in evicted'
      BY <1>0, <2>1, <2>5, <3>1 DEF StoredIdentityIsStable
    <3> QED
      BY <3>1 DEF StoredIdentityIsStable
  <2> QED
    BY <2>4, <2>6
<1> QED
  BY <1>0, <1>3, <1>4, PastStep

\* The identities of intact storage that are in the log are behind its counter.
LEMMA CommittedIdentity ==
  ASSUME OutboxInv, NEW id \in Ids(tables.snapshot), id[1] \in Replica
  PROVE  \E op \in issued :
           /\ op \in Ops(tables.snapshot) /\ op.id = id
           /\ id[1] \notin evicted => disk[id[1]] # Nothing /\ id[2] < disk[id[1]].next
<1>1. tables.snapshot \in Seq(Operation)
  BY LogFacts DEF OutboxInv
<1>2. PICK op \in Ops(tables.snapshot) : op.id = id
  BY <1>1, OpsFacts
<1>3. op \in issued
  BY <1>2, SyncAssumption DEF OutboxInv, Logged
<1> QED
  BY <1>2, <1>3 DEF OutboxInv, Counted

\* Outboxes stay what submit made them, less what was decided.
LEMMA OutboxesStep ==
  ASSUME OutboxInv, Next
  PROVE  Outboxes'
<1>0. /\ IInv /\ ClientTyped /\ evicted \subseteq evicted' /\ issued \subseteq issued'
      /\ tables \in Tables /\ Len(tables.snapshot) = tables.cursor
  BY PastStep DEF OutboxInv, IInv, Typed, LogHolds, TablesConsistent, SnapshotIsReduction
<1>1. ASSUME NEW r \in Replica, NEW s \in Held(r)
      PROVE  /\ s \in ReplicaState /\ Lags(s, tables) /\ Apart(s.pending)
             /\ \A op \in Ops(s.pending) : op \in issued /\ op.id[1] = r /\ op.id[2] < s.next
             /\ r \notin evicted => \A m \in DOMAIN s.ids : s.ids[m] \notin Ids(s.pending)
  BY <1>0, HeldFacts DEF OutboxInv, Outboxes, IInv, AllLag
<1>2. ASSUME NEW r \in Replica, NEW s \in Held(r)'
      PROVE  /\ Apart(s.pending)
             /\ \A op \in Ops(s.pending) : op \in issued' /\ op.id[1] = r /\ op.id[2] < s.next
             /\ r \notin evicted' => \A m \in DOMAIN s.ids : s.ids[m] \notin Ids(s.pending)
  <2>1. CASE s \in Held(r)
    BY <1>0, <1>1, <2>1
  <2>2. CASE s = Initial
    BY <2>2 DEF Initial, Apart, Ops
  <2>3. ASSUME NEW h \in Handle, NEW op \in Operation, Home[h] = r, Submit(h),
               op.id = <<r, mem[h].next>>, issued' = issued \cup {op}, s = Submitted(mem[h], op)
        PROVE  /\ Apart(s.pending)
               /\ \A o \in Ops(s.pending) : o \in issued' /\ o.id[1] = r /\ o.id[2] < s.next
               /\ r \notin evicted' => \A m \in DOMAIN s.ids : s.ids[m] \notin Ids(s.pending)
    <3> DEFINE old == mem[h]
               p == old.pending
               w == Append(p, op)
    <3>1. old = disk[r] /\ old \in ReplicaState
      BY <1>0, <2>3, SubmitStep
    <3>2. old \in Held(r) /\ old # Nothing
      BY <1>0, <2>3, <3>1, HeldFacts, NothingAssumption
    <3>3. /\ Apart(p) /\ p \in Seq(Operation) /\ old.next \in Nat /\ old.ids \in Seq(OpId)
          /\ \A o \in Ops(p) : o \in issued /\ o.id[1] = r /\ o.id[2] < old.next
          /\ r \notin evicted => \A m \in DOMAIN old.ids : old.ids[m] \notin Ids(p)
      BY <1>1, <3>1, <3>2, SyncAssumption DEF ReplicaState
    <3>4. s.pending = w /\ s.next = old.next + 1 /\ s.ids = old.ids
      BY <2>3 DEF Submitted
    <3> HIDE DEF old, p
    <3>5. op.id[1] = r /\ op.id[2] = old.next
      BY <2>3 DEF old
    <3>6. op.id \notin Ids(p)
      BY <3>3, <3>5, OpsFacts
    <3>7. Ops(w) = Ops(p) \cup {op} /\ Apart(w) /\ w \in Seq(Operation)
      BY <3>3, <3>6, AppendOps
    <3>8. Ids(w) = Ids(p) \cup {op.id}
      <4>1. Ids(w) = {o.id : o \in Ops(w)} /\ Ids(p) = {o.id : o \in Ops(p)}
        BY <3>3, <3>7, OpsFacts
      <4> QED
        BY <3>7, <4>1
    <3>9. ASSUME r \notin evicted, NEW m \in DOMAIN old.ids PROVE old.ids[m] # op.id
      <4>1. Lags(old, tables)
        BY <1>1, <3>2
      <4>2. m \in 1..Len(old.ids) /\ Len(old.ids) \in Nat
        BY <3>3, <3>9
      <4>3. old.ids[m] \in Ids(tables.snapshot)
        <5>1. /\ old.cursor <= tables.cursor /\ Len(old.ids) <= old.cursor /\ old.cursor \in Nat
              /\ old.ids[m] = tables.snapshot[old.cursor - Len(old.ids) + m].id
          BY <3>1, <4>1, <4>2 DEF Lags, ReplicaState
        <5>2. old.cursor - Len(old.ids) + m \in DOMAIN tables.snapshot
          BY <1>0, <4>2, <5>1, LogFacts
        <5> QED
          BY <5>1, <5>2 DEF Ids
      <4>4. op.id \in Ids(tables.snapshot) => r \in evicted \/ op.id[2] < disk[r].next
        BY <3>5, CommittedIdentity
      <4> QED
        BY <3>1, <3>3, <3>5, <3>9, <4>3, <4>4
    <3>10. ASSUME NEW o \in Ops(w) PROVE o \in issued' /\ o.id[1] = r /\ o.id[2] < old.next + 1
      <4>1. CASE o = op
        BY <2>3, <3>3, <3>5, <4>1
      <4>2. CASE o \in Ops(p)
        <5>1. o.id[2] \in Int
          <6>1. o.id \in OpId
            BY <3>3, <4>2, OpsFacts DEF Operation
          <6> QED
            BY <6>1, SyncAssumption, FS_CardinalityType DEF MaxCursor
        <5> QED
          BY <1>0, <3>3, <4>2, <5>1
      <4> QED
        BY <3>7, <4>1, <4>2
    <3> QED
      BY <1>0, <3>3, <3>4, <3>7, <3>8, <3>9, <3>10
  <2>4. ASSUME NEW k \in Slot, Deliver(k), Home[Tab[job[k].to]] = r,
               s = Adopted(mem[Tab[job[k].to]], job[k])
        PROVE  /\ Apart(s.pending)
               /\ \A o \in Ops(s.pending) : o \in issued' /\ o.id[1] = r /\ o.id[2] < s.next
               /\ r \notin evicted' => \A m \in DOMAIN s.ids : s.ids[m] \notin Ids(s.pending)
    <3> DEFINE h == Tab[job[k].to]
               old == mem[h]
               ids == Dropped(old, job[k])
    <3>1. /\ job[k] \in ReplyJob /\ Quotes(job[k], tables) /\ h \in Handle /\ Unlocked(h)
          /\ old \in ReplicaState
      BY <1>0, <2>4, DeliverFacts
    <3>2. old \in Held(r)
      BY <1>0, <2>4, <3>1, HeldFacts DEF Unlocked
    <3>3. /\ s.next = old.next /\ s.pending = Without(old.pending, ids)
          /\ \A m \in DOMAIN s.ids : s.ids[m] \in ids
      BY <2>4, <3>1, AdoptedOutbox DEF Quotes
    <3>4. old.pending \in Seq(Operation)
      BY <3>1 DEF ReplicaState
    <3> HIDE DEF old, ids, h
    <3>5. /\ Apart(old.pending)
          /\ \A o \in Ops(old.pending) : o \in issued /\ o.id[1] = r /\ o.id[2] < old.next
      BY <1>1, <3>2
    <3>6. /\ Ops(s.pending) = {o \in Ops(old.pending) : o.id \notin ids}
          /\ Ids(s.pending) = Ids(old.pending) \ ids /\ Apart(s.pending)
      BY <3>3, <3>4, <3>5, WithoutOps
    <3> QED
      BY <1>0, <3>3, <3>5, <3>6
  <2> QED
    BY <1>0, <2>1, <2>2, <2>3, <2>4, HeldStep
<1> QED
  BY <1>2 DEF Outboxes

\* An exchange starts with what memory holds, and otherwise stays or ends.
LEMMA SentStep ==
  ASSUME IInv, Next, NEW f \in Fiber
  PROVE  \/ sent'[f] = sent[f]
         \/ sent'[f] = Nothing
         \/ /\ sent[f] = Nothing /\ mem[Tab[f]] \in ReplicaState /\ sent'[f] \in Exchange
            /\ sent'[f] = [cursor |-> mem[Tab[f]].cursor, pending |-> mem[Tab[f]].pending]
            /\ UNCHANGED <<tables, disk, mem, current, saving, job, past>>
            /\ \A e \in Fiber \ {f} : sent'[e] = sent[e]
<1>0. Client /\ sent \in [Fiber -> Exchange \cup {Nothing}]
  BY DEF IInv, Typed, Client, ClientTyped
<1>1. CASE ServerStep
  BY <1>1 DEF ServerStep, Receive, AppendNext, Respond, Drop, AppendAsServer, Compact, client
<1>2. ASSUME NEW h \in Handle, Open(h) \/ Stop(h) \/ Submit(h) \/ Install(h) \/ InterruptSave(h)
      PROVE  sent'[f] = sent[f] \/ sent'[f] = Nothing
  BY <1>0, <1>2 DEF Open, Stop, Submit, Install, InterruptSave
<1>3. ASSUME NEW r \in Replica, Evict(r) PROVE sent' = sent
  BY <1>3 DEF Evict
<1>4. ASSUME NEW e \in Fiber, ExchangeFails(e) PROVE sent'[f] = sent[f] \/ sent'[f] = Nothing
  BY <1>0, <1>4 DEF ExchangeFails
<1>5. ASSUME NEW k \in Slot, Deliver(k) \/ DeliverError(k)
      PROVE  sent'[f] = sent[f] \/ sent'[f] = Nothing
  BY <1>0, <1>5 DEF Deliver, DeliverError
<1>6. ASSUME NEW e \in Fiber, LoopExchange(e) \/ AppExchange(e)
      PROVE  \/ sent'[f] = sent[f]
             \/ /\ sent[f] = Nothing /\ mem[Tab[f]] \in ReplicaState /\ sent'[f] \in Exchange
                /\ sent'[f] = [cursor |-> mem[Tab[f]].cursor, pending |-> mem[Tab[f]].pending]
                /\ UNCHANGED <<tables, disk, mem, current, saving, job, past>>
                /\ \A d \in Fiber \ {f} : sent'[d] = sent[d]
  <2>1. /\ Request(e) /\ UNCHANGED <<tables, disk, mem, current, saving, job, past>>
        /\ wake' \in [Handle -> BOOLEAN]
    BY <1>0, <1>6 DEF LoopExchange, AppExchange, Client, ClientTyped
  <2>2. /\ Client' /\ sent'[e] = [cursor |-> mem[Tab[e]].cursor, pending |-> mem[Tab[e]].pending]
        /\ \A d \in Fiber \ {e} : sent'[d] = sent[d]
    BY <1>0, <2>1, RequestClient
  <2>3. mem[Tab[e]] \in ReplicaState
    BY <1>0, <2>1, SyncAssumption DEF Request, Client, ClientTyped
  <2>5. sent[e] = Nothing
    BY <2>1 DEF Request
  <2>4. sent'[e] \in Exchange
    <3>1. mem[Tab[e]].cursor \in Nat /\ mem[Tab[e]].pending \in Seq(Operation)
      BY <2>3 DEF ReplicaState
    <3> QED
      BY <2>2, <3>1 DEF Exchange
  <2> QED
    BY <2>1, <2>2, <2>3, <2>4, <2>5
<1> QED
  BY <1>1, <1>2, <1>3, <1>4, <1>5, <1>6 DEF Next, ClientStep

\* Requests carry what the outboxes held.
LEMMA RequestsStep ==
  ASSUME OutboxInv, Next
  PROVE  Requests'
<1>0. /\ IInv /\ Requests /\ issued \subseteq issued' /\ job \in [Slot -> Job]
      /\ ClientTyped /\ Outboxes
  BY PastStep DEF OutboxInv, IInv, Typed
<1>1. ASSUME NEW f \in Fiber, sent'[f] # Nothing
      PROVE  \A op \in Ops(sent'[f].pending) : op \in issued' /\ op.id[1] = Home[Tab[f]]
  <2>1. CASE sent'[f] = sent[f]
    BY <1>0, <1>1, <2>1 DEF Requests
  <2>2. CASE /\ mem[Tab[f]] \in ReplicaState
             /\ sent'[f] = [cursor |-> mem[Tab[f]].cursor, pending |-> mem[Tab[f]].pending]
    <3>1. /\ sent'[f].pending = mem[Tab[f]].pending /\ Home[Tab[f]] \in Replica
          /\ mem[Tab[f]] \in Held(Home[Tab[f]])
      BY <1>0, <2>2, HeldFacts, SyncAssumption, NothingAssumption
    <3> QED
      BY <1>0, <3>1 DEF Outboxes
  <2> QED
    BY <1>0, <1>1, <2>1, <2>2, SentStep
<1>2. ASSUME NEW k \in Slot, job'[k].phase = "append"
      PROVE  \A op \in Ops(job'[k].todo) : op \in issued' /\ op.id[1] = job'[k].actor
  <2> DEFINE j == job[k]
             n == job'[k]
  <2>1. j \in Job /\ (j.phase = "append" =>
                        \A op \in Ops(j.todo) : op \in issued /\ op.id[1] = j.actor)
    BY <1>0 DEF Requests
  <2>2. CASE n = j
    BY <1>0, <1>2, <2>1, <2>2
  <2>3. CASE n = [j EXCEPT !.to = Nothing]
    <3>1. n.phase = j.phase /\ (j.phase = "append" => n.todo = j.todo /\ n.actor = j.actor)
      <4> HIDE DEF j
      <4> QED
        BY <2>1, <2>3, ForgottenJob
    <3> QED
      BY <1>0, <1>2, <2>1, <3>1
  <2>4. CASE n = Free
    BY <1>2, <2>4 DEF Free
  <2>5. ASSUME NEW f \in Fiber, Receive(k, f)
        PROVE  \A op \in Ops(n.todo) : op \in issued' /\ op.id[1] = n.actor
    <3>1. /\ Waiting(f)
          /\ n = [to |-> f, phase |-> "append", actor |-> Home[Tab[f]], after |-> sent[f].cursor,
                  todo |-> sent[f].pending, acknowledged |-> {}, rejected |-> {}]
      BY <1>0, <2>5, ReceiveFacts
    <3> HIDE DEF n
    <3>2. n.todo = sent[f].pending /\ n.actor = Home[Tab[f]] /\ sent[f] # Nothing
      BY <3>1 DEF Waiting
    <3> QED
      BY <1>0, <3>2 DEF Requests
  <2>6. CASE AppendNext(k)
    <3>1. /\ j \in AppendJob /\ j.todo # <<>>
          /\ \/ n.todo = Tail(j.todo) /\ n.actor = j.actor
             \/ n = [to |-> j.to, phase |-> "error"]
      BY <1>0, <2>6, AppendNextFacts
    <3>2. n.todo = Tail(j.todo) /\ n.actor = j.actor
      BY <1>2, <3>1
    <3>3. j.todo \in Seq(Operation) /\ j.phase = "append"
      BY <3>1 DEF AppendJob
    <3>4. Ops(n.todo) \subseteq Ops(j.todo)
      BY <3>1, <3>2, <3>3, HeadTailOps
    <3> QED
      BY <1>0, <2>1, <3>2, <3>3, <3>4
  <2>7. ~Respond(k)
    <3>1. Respond(k) => n = [to |-> j.to, phase |-> "error"] \/ n \in ReplyJob
      BY <1>0, RespondFacts
    <3> QED
      BY <1>2, <3>1 DEF ReplyJob
  <2> QED
    BY <1>0, <2>2, <2>3, <2>4, <2>5, <2>6, <2>7, JobStep
<1> QED
  BY <1>1, <1>2 DEF Requests

\* The log takes operations from requests, and acknowledges what it has.
LEMMA LoggedStep ==
  ASSUME OutboxInv, Next
  PROVE  /\ Logged' /\ Ops(tables.snapshot) \subseteq Ops(tables'.snapshot)
         /\ Ids(tables.snapshot) \subseteq Ids(tables'.snapshot)
<1>0. /\ IInv /\ Requests /\ Logged /\ issued \subseteq issued' /\ job \in [Slot -> Job]
  BY PastStep DEF OutboxInv, IInv, Typed
<1>1. /\ Ops(tables.snapshot) \subseteq Ops(tables'.snapshot)
      /\ Ids(tables.snapshot) \subseteq Ids(tables'.snapshot)
      /\ \A op \in Ops(tables'.snapshot) : op.id[1] # Producer => op \in issued'
  <2>1. CASE tables'.snapshot = tables.snapshot
    BY <1>0, <2>1 DEF Logged
  <2>2. ASSUME NEW op \in Operation, NEW k \in Slot, CommitsNext(k, op) PROVE op \in issued
    <3>1. /\ job[k].phase = "append" /\ job[k].todo # <<>> /\ op = Head(job[k].todo)
          /\ job[k].todo \in Seq(Operation)
      BY <2>2 DEF CommitsNext, AppendJob
    <3>2. op \in Ops(job[k].todo)
      BY <3>1, HeadTailOps
    <3> QED
      BY <1>0, <3>1, <3>2 DEF Requests
  <2>3. ASSUME NEW op \in Operation, Ops(tables'.snapshot) = Ops(tables.snapshot) \cup {op},
               Ids(tables'.snapshot) = Ids(tables.snapshot) \cup {op.id},
               op \in issued \/ op.id[1] = Producer
        PROVE  /\ Ops(tables.snapshot) \subseteq Ops(tables'.snapshot)
               /\ Ids(tables.snapshot) \subseteq Ids(tables'.snapshot)
               /\ \A o \in Ops(tables'.snapshot) : o.id[1] # Producer => o \in issued'
    BY <1>0, <2>3 DEF Logged
  <2> QED
    BY <1>0, <2>1, <2>2, <2>3, LogChange
<1>2. ASSUME NEW k \in Slot, Answered(k)'
      PROVE  job'[k].acknowledged \subseteq Ids(tables'.snapshot)
  <2> DEFINE j == job[k]
             n == job'[k]
  <2>1. /\ j \in Job /\ n.phase \in {"append", "reply"}
        /\ j.phase \in {"append", "reply"} => j.acknowledged \subseteq Ids(tables.snapshot)
    BY <1>0, <1>2 DEF Logged, Answered
  <2>2. CASE n = j
    BY <1>1, <2>1, <2>2
  <2>3. CASE n = [j EXCEPT !.to = Nothing]
    <3>1. n.phase = j.phase /\ (j.phase \in {"append", "reply"} => n.acknowledged = j.acknowledged)
      <4> HIDE DEF j
      <4> QED
        BY <2>1, <2>3, ForgottenJob
    <3> QED
      BY <1>1, <2>1, <3>1
  <2>4. CASE n = Free
    BY <2>1, <2>4 DEF Free
  <2>5. ASSUME NEW f \in Fiber, Receive(k, f)
        PROVE  n.acknowledged = {}
    <3>1. n = [to |-> f, phase |-> "append", actor |-> Home[Tab[f]], after |-> sent[f].cursor,
               todo |-> sent[f].pending, acknowledged |-> {}, rejected |-> {}]
      BY <1>0, <2>5, ReceiveFacts
    <3> QED
      BY <3>1
  <2>6. CASE AppendNext(k)
    <3> DEFINE op == Head(j.todo)
               o == Outcome(tables, op, j.actor)
    <3>1. /\ j \in AppendJob /\ op \in Operation
          /\ \/ n.acknowledged = j.acknowledged
             \/ /\ Successful(o) /\ tables' = AfterCommit(tables, op, j.actor)
                /\ n.acknowledged = j.acknowledged \cup {op.id}
             \/ n = [to |-> j.to, phase |-> "error"]
      BY <1>0, <2>6, AppendNextFacts
    <3>2. j.phase = "append"
      BY <3>1 DEF AppendJob
    <3>3. CASE n.acknowledged = j.acknowledged
      BY <1>1, <2>1, <3>2, <3>3
    <3>4. CASE /\ Successful(o) /\ tables' = AfterCommit(tables, op, j.actor)
               /\ n.acknowledged = j.acknowledged \cup {op.id}
      <4> HIDE DEF j, op, n
      <4>1. CASE Prior(tables, op.id) # {}
        <5>1. op.id \in Ids(tables.snapshot)
          BY <1>0, <4>1, LogFacts
        <5> QED
          BY <1>1, <2>1, <3>2, <3>4, <5>1 DEF j, n
      <4>2. CASE Prior(tables, op.id) = {}
        <5>1. o.tag = "Appended"
          BY <3>4, <4>2 DEF Outcome, Successful
        <5>2. tables'.snapshot = Append(tables.snapshot, op)
          BY <3>4, <5>1 DEF AfterCommit, Insert
        <5>3. tables.snapshot \in Seq(Operation)
          BY <1>0, LogFacts
        <5>4. op \in Ops(tables'.snapshot) /\ tables'.snapshot \in Seq(Operation)
          BY <3>1, <5>2, <5>3, AppendOps
        <5>5. op.id \in Ids(tables'.snapshot)
          BY <5>4, OpsFacts
        <5> QED
          BY <1>1, <2>1, <3>2, <3>4, <5>5 DEF j, n
      <4> QED
        BY <4>1, <4>2
    <3> QED
      BY <2>1, <3>1, <3>3, <3>4
  <2>7. CASE Respond(k)
    <3>1. /\ j \in AppendJob
          /\ \/ n = [to |-> j.to, phase |-> "error"]
             \/ n.acknowledged = j.acknowledged
      BY <1>0, <2>7, RespondFacts
    <3> QED
      BY <1>1, <2>1, <3>1 DEF AppendJob
  <2> QED
    BY <1>0, <2>2, <2>3, <2>4, <2>5, <2>6, <2>7, JobStep
<1> QED
  BY <1>1, <1>2 DEF Logged

\* What leaves an outbox is in the log or reported rejected.
LEMMA NothingLostStep ==
  ASSUME OutboxInv, Next
  PROVE  NothingLost'
<1>0. /\ IInv /\ Counted /\ StoredIdentityIsStable /\ NothingLost /\ Logged /\ Outboxes
      /\ issued \subseteq issued' /\ refused \subseteq refused' /\ evicted \subseteq evicted'
      /\ Ops(tables.snapshot) \subseteq Ops(tables'.snapshot)
      /\ disk \in [Replica -> ReplicaState \cup {Nothing}]
  BY PastStep, LoggedStep DEF OutboxInv, IInv, Typed, ClientTyped
<1>1. \A op \in issued : op.id[1] \in Replica /\ op.id[1] \notin evicted =>
        \/ op \in Ops(tables.snapshot)
        \/ disk[op.id[1]] # Nothing /\ op \in Ops(disk[op.id[1]].pending)
        \/ op.id \in refused
  BY <1>0 DEF NothingLost, Intact, Ops
<1>2. SUFFICES ASSUME NEW op \in issued', op.id[1] \in Replica, op.id[1] \notin evicted'
               PROVE  \/ op \in Ops(tables'.snapshot)
                      \/ disk'[op.id[1]] # Nothing /\ op \in Ops(disk'[op.id[1]].pending)
                      \/ op.id \in refused'
  BY DEF NothingLost, Intact, Ops
<1> DEFINE r == op.id[1]
<1>3. CASE op \notin issued
  <2>1. PICK h \in Handle : Submit(h)
    BY <1>0, <1>3, PastStep
  <2>2. PICK o \in Operation :
          /\ disk[Home[h]] \in ReplicaState /\ o.id = <<Home[h], disk[Home[h]].next>>
          /\ issued' = issued \cup {o} /\ disk'[Home[h]] = Submitted(disk[Home[h]], o)
          /\ Submitted(mem[h], o) \in ReplicaState /\ mem[h] = disk[Home[h]]
    BY <1>0, <2>1, SubmitStep
  <2>3. o = op /\ Home[h] = r
    BY <1>3, <2>2
  <2>4. disk'[r] \in ReplicaState /\ disk'[r] # Nothing
    BY <2>2, <2>3, NothingAssumption
  <2>5. disk'[r].pending = Append(disk[r].pending, op) /\ disk[r].pending \in Seq(Operation)
    BY <2>2, <2>3 DEF Submitted, ReplicaState
  <2>6. op \in Ops(disk'[r].pending)
    BY <2>2, <2>3, <2>5, AppendOps
  <2> QED
    BY <2>4, <2>6
<1>4. CASE op \in issued /\ (op \in Ops(tables.snapshot) \/ op.id \in refused)
  BY <1>0, <1>4
<1>5. CASE op \in issued /\ disk[r] # Nothing /\ op \in Ops(disk[r].pending)
  <2>0. r \in Replica /\ r \notin evicted /\ disk[r] \in ReplicaState /\ disk[r].pending \in Seq(Operation)
    BY <1>0, <1>2, <1>5 DEF ReplicaState
  <2>1. disk'[r] # Nothing
    BY <1>0, <1>2, <1>5, DiskKept
  <2>2. CASE disk'[r] = disk[r]
    BY <1>5, <2>1, <2>2
  <2>3. ASSUME NEW o \in Operation, disk'[r] = Submitted(disk[r], o)
        PROVE  op \in Ops(disk'[r].pending)
    <3>1. disk'[r].pending = Append(disk[r].pending, o)
      BY <2>3 DEF Submitted
    <3> QED
      BY <1>5, <2>0, <2>3, <3>1, AppendOps
  <2>4. ASSUME NEW k \in Slot, SavesResponse(r, k), op \notin Ops(disk'[r].pending)
        PROVE  op \in Ops(tables'.snapshot) \/ op.id \in refused'
    <3> DEFINE s == disk[r]
               reply == job[k]
    <3>1. /\ reply \in ReplyJob /\ Quotes(reply, tables) /\ disk'[r] = Adopted(s, reply)
          /\ refused' = refused \cup (reply.rejected \cap Ids(s.pending))
      BY <2>4 DEF SavesResponse
    <3>2. disk'[r].pending = Without(s.pending, Dropped(s, reply))
      BY <2>0, <3>1, AdoptedOutbox DEF Quotes
    <3>3. op.id \in Dropped(s, reply)
      BY <1>5, <2>0, <2>4, <3>2, WithoutOps
    <3>4. /\ tables \in Tables /\ Len(tables.snapshot) = tables.cursor /\ Lags(s, tables)
      BY <1>0, <1>5, <2>0, HeldFacts
         DEF IInv, Typed, LogHolds, TablesConsistent, SnapshotIsReduction, AllLag
    <3>5. op.id \in reply.acknowledged \cup reply.rejected \cup Ids(tables.snapshot)
      BY <2>0, <3>1, <3>3, <3>4, DroppedFacts
    <3>6. op.id \in Ids(s.pending)
      BY <1>5, <2>0, OpsFacts
    <3>7. reply.acknowledged \subseteq Ids(tables.snapshot)
      BY <1>0, <3>1 DEF Logged, Answered, ReplyJob
    <3>8. CASE op.id \in reply.rejected
      BY <3>1, <3>6, <3>8
    <3>9. CASE op.id \in Ids(tables.snapshot)
      <4>1. PICK o \in issued : o \in Ops(tables.snapshot) /\ o.id = op.id
        BY <2>0, <3>9, CommittedIdentity
      <4>2. o = op
        BY <1>0, <1>5, <2>0, <4>1 DEF StoredIdentityIsStable
      <4> QED
        BY <1>0, <4>1, <4>2
    <3> QED
      BY <3>5, <3>7, <3>8, <3>9
  <2>5. \A q \in Replica \ {r} : disk' = [disk EXCEPT ![q] = disk'[q]] => disk'[r] = disk[r]
    BY <1>0, <2>0
  <2>6. ~Evict(r) /\ disk[r] # Nothing
    BY <1>2, <1>5 DEF Evict
  <2>7. \/ disk'[r] = disk[r]
        \/ \E o \in Operation : disk'[r] = Submitted(disk[r], o)
        \/ \E k \in Slot : SavesResponse(r, k)
    BY <1>0, <2>0, <2>5, <2>6, DiskStep
  <2> QED
    BY <2>1, <2>2, <2>3, <2>4, <2>7
<1> QED
  BY <1>0, <1>1, <1>2, <1>3, <1>4, <1>5

(***************************************************************************)
(* The theorems.                                                           *)
(***************************************************************************)

\* The outbox invariant is inductive.
THEOREM OutboxInvariance == Spec => []OutboxInv
<1>1. Init => OutboxInv
  <2> SUFFICES ASSUME Init PROVE OutboxInv
    OBVIOUS
  <2>1. Outboxes /\ Requests /\ Counted /\ StoredIdentityIsStable /\ NothingLost
    BY SyncAssumption DEF Init, Outboxes, Requests, Counted, StoredIdentityIsStable, NothingLost, Held, Free
  <2>2. Logged
    BY DEF Init, Logged, Answered, Free, Empty, Ops
  <2> QED
    BY <2>1, <2>2, InitIInv DEF OutboxInv
<1>2. OutboxInv /\ [Next]_vars => OutboxInv'
  <2>1. CASE Next
    <3> SUFFICES ASSUME OutboxInv, Next PROVE OutboxInv'
      BY <2>1
    <3>1. IInv'
      BY StepIInv DEF OutboxInv
    <3> QED
      BY <3>1, OutboxesStep, RequestsStep, LoggedStep, CountedStep, NothingLostStep DEF OutboxInv
  <2>2. CASE UNCHANGED vars
    <3> SUFFICES ASSUME OutboxInv, UNCHANGED vars PROVE OutboxInv'
      BY <2>2
    <3>1. IInv'
      BY StepIInv DEF OutboxInv
    <3> QED
      BY <3>1 DEF OutboxInv, vars, Outboxes, Held, Requests, Logged, Answered, Counted,
                  StoredIdentityIsStable, NothingLost, Intact
  <2> QED
    BY <2>1, <2>2
<1> QED
  BY <1>1, <1>2, PTL DEF Spec

\* The log holds only what replicas submitted or the server wrote, once each,
\* however often, late or concurrently a request is repeated (journal.ts:495-560,
\* examples/sync/src/journal.ts).
THEOREM LogAlwaysGenuine == Spec => []LogIsGenuine
<1>1. OutboxInv => LogIsGenuine
  BY DEF OutboxInv, IInv, LogHolds, Logged, LogIsGenuine, Ops
<1> QED
  BY <1>1, OutboxInvariance, PTL

\* Two operations never share an identity while the storage that counts them
\* stays, whatever stale tabs and interrupted saves there are (ids.ts:11).
THEOREM IdentityAlwaysStable == Spec => []StoredIdentityIsStable
<1> QED
  BY OutboxInvariance, PTL DEF OutboxInv

\* An operation that submit persisted is committed, or still in the persisted
\* outbox, or was reported rejected (sync.ts:441-640).
THEOREM NothingIsEverLost == Spec => []NothingLost
<1> QED
  BY OutboxInvariance, PTL DEF OutboxInv

\* Whatever was interrupted, the persisted state passes the checks of
\* openReplica (sync.ts:355-374).
THEOREM StoredStateAlwaysReopens == Spec => []StoredStateReopens
<1>1. OutboxInv => StoredStateReopens
  <2> SUFFICES ASSUME OutboxInv, NEW r \in Intact, disk[r] # Nothing
               PROVE  LET s == disk[r]
                      IN  /\ \A m, n \in DOMAIN s.ids : s.ids[m] = s.ids[n] => m = n
                          /\ \A i \in DOMAIN s.pending :
                               /\ s.pending[i].id[1] = r /\ s.pending[i].id[2] < s.next
                               /\ \A n \in DOMAIN s.ids : s.ids[n] # s.pending[i].id
                               /\ \A j \in DOMAIN s.pending : s.pending[i].id = s.pending[j].id => i = j
    BY DEF StoredStateReopens
  <2> DEFINE s == disk[r]
  <2>1. /\ IInv /\ r \in Replica /\ r \notin evicted /\ s \in Held(r) /\ s \in ReplicaState
        /\ Lags(s, tables)
    BY HeldFacts DEF OutboxInv, IInv, Typed, ClientTyped, Intact, AllLag
  <2>2. /\ Apart(s.pending)
        /\ \A op \in Ops(s.pending) : op.id[1] = r /\ op.id[2] < s.next
        /\ \A m \in DOMAIN s.ids : s.ids[m] \notin Ids(s.pending)
    BY <2>1 DEF OutboxInv, Outboxes
  <2>3. /\ s.cursor \in Nat /\ s.ids \in Seq(OpId) /\ DOMAIN s.ids = 1..Len(s.ids) /\ Len(s.ids) \in Nat
        /\ s.cursor <= tables.cursor /\ Len(s.ids) <= s.cursor
        /\ \A m \in 1..Len(s.ids) : s.ids[m] = tables.snapshot[s.cursor - Len(s.ids) + m].id
    BY <2>1 DEF ReplicaState, Lags
  <2> HIDE DEF s
  <2>4. ASSUME NEW m \in DOMAIN s.ids, NEW n \in DOMAIN s.ids, s.ids[m] = s.ids[n]
        PROVE  m = n
    <3> DEFINE a == s.cursor - Len(s.ids) + m
               b == s.cursor - Len(s.ids) + n
    <3>1. a \in 1..tables.cursor /\ b \in 1..tables.cursor
      BY <2>1, <2>3, LogFacts
    <3>2. a = b
      <4> HIDE DEF a, b
      <4>1. tables.snapshot[a].id = tables.snapshot[b].id
        BY <2>3, <2>4 DEF a, b
      <4> QED
        BY <2>1, <3>1, <4>1, LogFacts
    <3> QED
      BY <2>3, <3>2
  <2> QED
    BY <2>2, <2>4 DEF s, Apart, Ops, Ids
<1> QED
  BY <1>1, OutboxInvariance, PTL

\* The storage can be opened again and holds what nobody has decided, under
\* every fault and with any number of tabs (sync.ts:441-503, indexedDb.ts:67-95).
THEOREM OutboxAlwaysKept == Spec => []OutboxIsKept
<1>1. StoredStateReopens /\ NothingLost => OutboxIsKept
  BY DEF OutboxIsKept
<1> QED
  BY <1>1, StoredStateAlwaysReopens, NothingIsEverLost, PTL

(***************************************************************************)
(* Rejections.                                                             *)
(***************************************************************************)

\* A job decides the operations of the actor whose replica submitted them.
LEMMA NextOperation ==
  ASSUME OutboxInv, NEW k \in Slot, job[k] \in AppendJob, job[k].todo # <<>>
  PROVE  LET op == Head(job[k].todo)
         IN  op \in issued /\ op \in Operation /\ op.id[1] = job[k].actor /\ job[k].actor \in Replica
<1>1. /\ job[k].todo \in Seq(Operation) /\ job[k].phase = "append" /\ job[k].actor \in Replica
  BY DEF AppendJob
<1>2. Head(job[k].todo) \in Ops(job[k].todo)
  BY <1>1, HeadTailOps
<1> QED
  BY <1>1, <1>2 DEF OutboxInv, Requests, IInv, Typed

\* A rejection was reported before, or a job makes it now.
LEMMA ReportedStep ==
  ASSUME IInv, Next, NEW id \in Reported'
  PROVE  \/ id \in Reported
         \/ \E k \in Slot :
              LET op == Head(job[k].todo)
                  a  == job[k].actor
              IN  /\ job[k] \in AppendJob /\ job[k].todo # <<>> /\ tables' = tables /\ id = op.id
                  /\ a \in Reader \/ Outcome(tables, op, a).tag = "OperationRejected"
<1>1. ASSUME id \in refused' PROVE id \in Reported
  BY <1>1, PastStep DEF Reported, Answered, ReplyJob
<1>2. ASSUME NEW k \in Slot, Answered(k)', id \in job'[k].rejected, id \notin Reported
      PROVE  LET op == Head(job[k].todo)
                 a  == job[k].actor
             IN  /\ job[k] \in AppendJob /\ job[k].todo # <<>> /\ tables' = tables /\ id = op.id
                 /\ a \in Reader \/ Outcome(tables, op, a).tag = "OperationRejected"
  <2> DEFINE j == job[k]
             n == job'[k]
  <2>1. /\ j \in Job /\ n.phase \in {"append", "reply"}
        /\ j.phase \in {"append", "reply"} => id \notin j.rejected
    BY <1>2 DEF IInv, Typed, Reported, Answered
  <2>2. CASE n = j
    BY <1>2, <2>1, <2>2
  <2>3. CASE n = [j EXCEPT !.to = Nothing]
    <3>1. n.phase = j.phase /\ (j.phase \in {"append", "reply"} => n.rejected = j.rejected)
      <4> HIDE DEF j
      <4> QED
        BY <2>1, <2>3, ForgottenJob
    <3> QED
      BY <1>2, <2>1, <3>1
  <2>4. CASE n = Free
    BY <2>1, <2>4 DEF Free
  <2>5. ASSUME NEW f \in Fiber, Receive(k, f) PROVE n.rejected = {}
    <3>1. n = [to |-> f, phase |-> "append", actor |-> Home[Tab[f]], after |-> sent[f].cursor,
               todo |-> sent[f].pending, acknowledged |-> {}, rejected |-> {}]
      BY <2>5, ReceiveFacts
    <3> QED
      BY <3>1
  <2>6. CASE AppendNext(k)
    <3> DEFINE op == Head(j.todo)
               o == Outcome(tables, op, j.actor)
    <3>1. /\ j \in AppendJob /\ j.todo # <<>>
          /\ \/ /\ j.actor \in Reader \/ o.tag = "OperationRejected"
                /\ tables' = tables /\ n.rejected = j.rejected \cup {op.id}
             \/ n.rejected = j.rejected
             \/ n = [to |-> j.to, phase |-> "error"]
      BY <2>6, AppendNextFacts
    <3>2. j.phase = "append"
      BY <3>1 DEF AppendJob
    <3> HIDE DEF op, o
    <3>3. CASE /\ j.actor \in Reader \/ o.tag = "OperationRejected"
               /\ tables' = tables /\ n.rejected = j.rejected \cup {op.id}
      BY <1>2, <2>1, <3>1, <3>2, <3>3 DEF op, o
    <3> QED
      BY <1>2, <2>1, <3>1, <3>2, <3>3
  <2>7. CASE Respond(k)
    <3>1. /\ j \in AppendJob
          /\ n = [to |-> j.to, phase |-> "error"] \/ n.rejected = j.rejected
      BY <2>7, RespondFacts
    <3> QED
      BY <1>2, <2>1, <3>1 DEF AppendJob
  <2> QED
    BY <1>2, <2>2, <2>3, <2>4, <2>5, <2>6, <2>7, JobStep
<1> QED
  BY <1>1, <1>2 DEF Reported

\* What is doomed is never committed.
LEMMA RejectionsStep ==
  ASSUME RefusalIsStable, OutboxInv, Rejections, Next
  PROVE  Rejections'
<1>0. /\ IInv /\ issued \subseteq issued' /\ evicted \subseteq evicted' /\ issued \subseteq Operation
      /\ tables.snapshot \in Seq(Operation) /\ StoredIdentityIsStable /\ Counted
  BY PastStep, LogFacts DEF OutboxInv, IInv, Typed
<1>1. ASSUME NEW op \in Operation, NEW k \in Slot, CommitsNext(k, op)
      PROVE  op \in issued /\ op.id[1] = job[k].actor /\ job[k].actor \notin Reader
  BY <1>1, NextOperation DEF CommitsNext
<1>2. ASSUME NEW id \in Ids(tables'.snapshot) PROVE id[1] \notin Reader
  <2>1. CASE id \in Ids(tables.snapshot)
    BY <2>1 DEF Rejections
  <2>2. ASSUME NEW op \in Operation, NEW k \in Slot, CommitsNext(k, op), id = op.id
        PROVE  id[1] \notin Reader
    BY <1>1, <2>2
  <2>3. ASSUME NEW op \in Operation, op.id[1] = Producer, id = op.id PROVE id[1] \notin Reader
    BY <2>3, SyncAssumption
  <2>4. \/ Ids(tables'.snapshot) = Ids(tables.snapshot)
        \/ \E op \in Operation :
             /\ Ids(tables'.snapshot) = Ids(tables.snapshot) \cup {op.id}
             /\ (\E k \in Slot : CommitsNext(k, op)) \/ op.id[1] = Producer
    <3>1. CASE tables'.snapshot = tables.snapshot
      BY <3>1
    <3> QED
      BY <1>0, <3>1, LogChange
  <2> QED
    BY <2>1, <2>2, <2>3, <2>4
<1>3. ASSUME NEW id, Doomed(id)
      PROVE  Doomed(id)' /\ id[1] \in Replica
  <2>1. Doomed(id)'
    BY <1>0, <1>3 DEF Doomed
  <2>2. id[1] \in Replica
    BY <1>0, <1>3, SyncAssumption DEF Doomed, Counted
  <2> QED
    BY <2>1, <2>2
<1>4. ASSUME NEW id, Doomed(id), id[1] \notin evicted, id \notin Ids(tables.snapshot)
      PROVE  id \notin Ids(tables'.snapshot)
  <2> SUFFICES ASSUME NEW op \in Operation, NEW a \in Actor, op.id = id,
                      Accept(tables.snapshot, op, a) = "reduce",
                      \/ \E k \in Slot : CommitsNext(k, op) /\ a = job[k].actor
                      \/ op.id[1] = Producer
               PROVE  FALSE
    <3>1. CASE tables'.snapshot = tables.snapshot
      BY <1>4, <3>1
    <3>2. ASSUME NEW op \in Operation, Ids(tables'.snapshot) = Ids(tables.snapshot) \cup {op.id}, op.id # id
          PROVE  id \notin Ids(tables'.snapshot)
      BY <1>4, <3>2
    <3> QED
      BY <1>0, <3>1, <3>2, LogChange
  <2>1. id[1] \in Replica /\ op.id[1] # Producer
    BY <1>3, <1>4, SyncAssumption
  <2>2. PICK k \in Slot : CommitsNext(k, op) /\ a = job[k].actor
    BY <2>1
  <2>3. op \in issued /\ id[1] = a /\ a \notin Reader
    BY <1>1, <2>2
  <2>4. PICK o \in issued : o.id = id /\ Refusable(o, a)
    BY <1>4, <2>3 DEF Doomed
  <2>5. o = op
    BY <1>0, <1>4, <2>3, <2>4 DEF StoredIdentityIsStable
  <2> QED
    BY <1>0, <2>4, <2>5 DEF RefusalIsStable
<1>5. ASSUME NEW id \in Reported' PROVE id[1] \in evicted' \/ (Doomed(id)' /\ id \notin Ids(tables'.snapshot))
  <2>1. CASE id \in Reported
    BY <1>0, <1>3, <1>4, <2>1 DEF Rejections
  <2>2. ASSUME NEW k \in Slot, job[k] \in AppendJob, job[k].todo # <<>>, tables' = tables,
               id = Head(job[k].todo).id,
               \/ job[k].actor \in Reader
               \/ Outcome(tables, Head(job[k].todo), job[k].actor).tag = "OperationRejected"
        PROVE  Doomed(id)' /\ id \notin Ids(tables'.snapshot)
    <3> DEFINE op == Head(job[k].todo)
               a == job[k].actor
    <3>1. op \in issued /\ op \in Operation /\ op.id[1] = a
      BY <2>2, NextOperation
    <3> HIDE DEF op, a
    <3>2. CASE a \in Reader
      <4>1. Doomed(id)
        BY <2>2, <3>1, <3>2 DEF Doomed, op
      <4>2. id \notin Ids(tables.snapshot)
        BY <2>2, <3>1, <3>2 DEF Rejections, op
      <4> QED
        BY <1>3, <2>2, <4>1, <4>2
    <3>3. CASE Outcome(tables, op, a).tag = "OperationRejected"
      <4>1. Prior(tables, op.id) = {} /\ Accept(tables.snapshot, op, a) = "refused"
        BY <3>3 DEF Outcome
      <4>2. Refusable(op, a)
        BY <1>0, <4>1 DEF Refusable
      <4>3. Doomed(id)
        BY <2>2, <3>1, <4>2 DEF Doomed, op
      <4>4. id \notin Ids(tables.snapshot)
        BY <1>0, <2>2, <4>1, LogFacts DEF op
      <4> QED
        BY <1>3, <2>2, <4>3, <4>4
    <3> QED
      BY <2>2, <3>2, <3>3 DEF op, a
  <2> QED
    BY <1>0, <2>1, <2>2, ReportedStep
<1> QED
  BY <1>2, <1>5 DEF Rejections

\* When authorization refuses an operation whatever the state, or not at all,
\* an operation reported rejected is never in the log, although a repeated
\* request is decided again (sync.ts:602-616, examples/sync/src/journal.ts).
THEOREM RejectedNeverCommitted ==
  ASSUME RefusalIsStable
  PROVE  Spec => []RejectedIsNotCommitted
<1>1. Init => Rejections
  BY DEF Init, Rejections, Reported, Answered, Free, Empty, Ids
<1>2. OutboxInv /\ Rejections /\ [Next]_vars => Rejections'
  <2>1. ASSUME Rejections, UNCHANGED vars PROVE Rejections'
    BY <2>1 DEF vars, Rejections, Reported, Answered, Doomed
  <2> QED
    BY <2>1, RejectionsStep
<1>3. Rejections => RejectedIsNotCommitted
  BY DEF Rejections, Reported, RejectedIsNotCommitted
<1> QED
  BY <1>1, <1>2, <1>3, OutboxInvariance, PTL DEF Spec

(***************************************************************************)
(* One tab each.                                                           *)
(***************************************************************************)

\* The memory of a handle changes when it opens, stops or installs.
LEMMA MemStep ==
  ASSUME IInv, Next, NEW h \in Handle
  PROVE  mem'[h] = mem[h] \/ mem'[h] = Nothing \/ Open(h) \/ Install(h)
<1>0. mem \in [Handle -> ReplicaState \cup {Nothing}]
  BY DEF IInv, Typed, ClientTyped
<1>1. CASE ServerStep
  BY <1>1 DEF ServerStep, Receive, AppendNext, Respond, Drop, AppendAsServer, Compact, client
<1>2. ASSUME NEW g \in Handle, Open(g) \/ Stop(g) \/ Submit(g) \/ Install(g) \/ InterruptSave(g)
      PROVE  mem'[h] = mem[h] \/ mem'[h] = Nothing \/ Open(h) \/ Install(h)
  BY <1>0, <1>2 DEF Open, Stop, Submit, Install, InterruptSave
<1>3. ASSUME NEW f \in Fiber, LoopExchange(f) \/ AppExchange(f) \/ ExchangeFails(f) PROVE mem' = mem
  BY <1>3 DEF LoopExchange, AppExchange, ExchangeFails
<1>4. ASSUME NEW k \in Slot, Deliver(k) \/ DeliverError(k) PROVE mem' = mem
  BY <1>4 DEF Deliver, DeliverError
<1>5. ASSUME NEW r \in Replica, Evict(r) PROVE mem' = mem
  BY <1>5 DEF Evict
<1> QED
  BY <1>1, <1>2, <1>3, <1>4, <1>5 DEF Next, ClientStep

\* A save under way ends, or goes on as it is, unless another tab saves.
LEMMA SavingStep ==
  ASSUME IInv, Next, OneTabEach, NEW h \in Handle
  PROVE  \/ saving'[h] = saving[h]
         \/ saving'[h] = Nothing
         \/ /\ saving'[h].latest /\ saving'[h].by # Nothing /\ mem' = mem
         \/ \E op \in Operation :
              /\ saving'[h].latest /\ saving'[h].state = Submitted(mem[h], op) /\ mem' = mem
              /\ mem[h] \in ReplicaState
<1>0. saving \in [Handle -> SaveState \cup {Nothing}] /\ Client
  BY DEF IInv, Typed, ClientTyped, Client
<1>1. CASE ServerStep
  BY <1>1 DEF ServerStep, Receive, AppendNext, Respond, Drop, AppendAsServer, Compact, client
<1>2. ASSUME NEW g \in Handle, Open(g) \/ Stop(g) \/ Install(g) \/ InterruptSave(g)
      PROVE  saving'[h] = saving[h] \/ saving'[h] = Nothing
  BY <1>0, <1>2 DEF Open, Stop, Install, InterruptSave
<1>3. ASSUME NEW f \in Fiber, LoopExchange(f) \/ AppExchange(f) \/ ExchangeFails(f)
      PROVE  saving' = saving
  BY <1>3 DEF LoopExchange, AppExchange, ExchangeFails
<1>4. ASSUME NEW k \in Slot, DeliverError(k) PROVE saving' = saving
  BY <1>4 DEF DeliverError
<1>5. ASSUME NEW r \in Replica, Evict(r) PROVE saving' = saving
  BY <1>5 DEF Evict
<1>6. ASSUME NEW g \in Handle, NEW s, NEW by, Save(g, s, by)
      PROVE  \/ saving'[h] = saving[h]
             \/ h = g /\ saving'[h] = [state |-> s, by |-> by, latest |-> TRUE]
  BY <1>6 DEF Save, OneTabEach
<1>7. ASSUME NEW g \in Handle, Submit(g)
      PROVE  \/ saving'[h] = saving[h]
             \/ \E op \in Operation :
                  /\ saving'[h].latest /\ saving'[h].state = Submitted(mem[h], op) /\ mem' = mem
                  /\ mem[h] \in ReplicaState
  <2>1. PICK op \in Operation : Save(g, Submitted(mem[g], op), Nothing)
    BY <1>0, <1>7, SubmitFacts
  <2>2. mem' = mem /\ mem[g] \in ReplicaState
    BY <1>0, <1>7, SubmitFacts
  <2>3. CASE h = g /\ saving'[h] = [state |-> Submitted(mem[g], op), by |-> Nothing, latest |-> TRUE]
    BY <2>2, <2>3
  <2> QED
    BY <1>6, <2>1, <2>3
<1>8. ASSUME NEW k \in Slot, Deliver(k)
      PROVE  \/ saving'[h] = saving[h]
             \/ saving'[h].latest /\ saving'[h].by # Nothing /\ mem' = mem
  <2> DEFINE f == job[k].to
             u == Adopted(mem[Tab[f]], job[k])
  <2>1. /\ mem' = mem /\ f \in Fiber /\ Tab[f] \in Handle
        /\ saving' = saving \/ Save(Tab[f], u, f)
    BY <1>8, DeliverFacts
  <2>2. f # Nothing
    BY <1>8 DEF Deliver
  <2> HIDE DEF f, u
  <2>3. CASE saving'[h] = [state |-> u, by |-> f, latest |-> TRUE]
    BY <2>1, <2>2, <2>3
  <2> QED
    BY <1>6, <2>1, <2>3
<1> QED
  BY <1>1, <1>2, <1>3, <1>4, <1>5, <1>7, <1>8 DEF Next, ClientStep

\* Only a request that is received brings new identities under way, the
\* server's own aside.
LEMMA InFlightStep ==
  ASSUME IInv, Next, NEW id \in InFlight'
  PROVE  \/ id \in InFlight
         \/ id[1] = Producer
         \/ \E k \in Slot, f \in Fiber : Receive(k, f) /\ sent[f] # Nothing /\ id \in Ids(sent[f].pending)
<1>1. ASSUME NEW k \in Slot, job[k] \in AppendJob, job[k].todo # <<>>
      PROVE  /\ Head(job[k].todo).id \in InFlight /\ Ids(Tail(job[k].todo)) \subseteq InFlight
  <2> DEFINE q == job[k].todo
  <2>1. q \in Seq(Operation) /\ job[k].phase = "append"
    BY <1>1 DEF AppendJob
  <2>2. Ids(q) \subseteq InFlight
    BY <2>1 DEF InFlight
  <2>3. q # <<>>
    BY <1>1
  <2> HIDE DEF q
  <2>4. Tail(q) \in Seq(Operation) /\ Head(q) \in Ops(q) /\ Ops(Tail(q)) \subseteq Ops(q)
    BY <2>1, <2>3, HeadTailOps
  <2>5. Head(q).id \in Ids(q) /\ Ids(Tail(q)) \subseteq Ids(q)
    <3>1. Ids(q) = {o.id : o \in Ops(q)} /\ Ids(Tail(q)) = {o.id : o \in Ops(Tail(q))}
      BY <2>1, <2>4, OpsFacts
    <3> QED
      BY <2>4, <3>1
  <2> QED
    BY <2>2, <2>5 DEF q
<1>2. ASSUME id \in Ids(tables'.snapshot) PROVE id \in InFlight \/ id[1] = Producer
  <2>1. CASE tables'.snapshot = tables.snapshot
    BY <1>2, <2>1 DEF InFlight
  <2>2. ASSUME NEW op \in Operation, Ids(tables'.snapshot) = Ids(tables.snapshot) \cup {op.id},
               (\E k \in Slot : CommitsNext(k, op)) \/ op.id[1] = Producer
        PROVE  id \in InFlight \/ id[1] = Producer
    <3>1. ASSUME NEW k \in Slot, CommitsNext(k, op) PROVE op.id \in InFlight
      BY <1>1, <3>1 DEF CommitsNext
    <3>2. id \in Ids(tables.snapshot) => id \in InFlight
      BY DEF InFlight
    <3> QED
      BY <1>2, <2>2, <3>1, <3>2
  <2> QED
    BY <2>1, <2>2, LogChange
<1>3. ASSUME NEW k \in Slot, job'[k].phase = "append", id \in Ids(job'[k].todo)
      PROVE  \/ id \in InFlight
             \/ \E f \in Fiber : Receive(k, f) /\ sent[f] # Nothing /\ id \in Ids(sent[f].pending)
  <2> DEFINE j == job[k]
             n == job'[k]
  <2>1. j \in Job /\ (j.phase = "append" => Ids(j.todo) \subseteq InFlight)
    BY DEF IInv, Typed, InFlight
  <2>2. CASE n = j
    BY <1>3, <2>1, <2>2
  <2>3. CASE n = [j EXCEPT !.to = Nothing]
    <3>1. n.phase = j.phase /\ (j.phase = "append" => n.todo = j.todo)
      <4> HIDE DEF j
      <4> QED
        BY <2>1, <2>3, ForgottenJob
    <3> QED
      BY <1>3, <2>1, <3>1
  <2>4. CASE n = Free
    BY <1>3, <2>4 DEF Free
  <2>5. ASSUME NEW f \in Fiber, Receive(k, f)
        PROVE  sent[f] # Nothing /\ id \in Ids(sent[f].pending)
    <3>1. /\ Waiting(f)
          /\ n = [to |-> f, phase |-> "append", actor |-> Home[Tab[f]], after |-> sent[f].cursor,
                  todo |-> sent[f].pending, acknowledged |-> {}, rejected |-> {}]
      BY <2>5, ReceiveFacts
    <3>2. n.todo = sent[f].pending
      BY <3>1
    <3> QED
      BY <1>3, <3>1, <3>2 DEF Waiting
  <2>6. CASE AppendNext(k)
    <3>1. /\ j \in AppendJob /\ j.todo # <<>>
          /\ \/ n.todo = Tail(j.todo)
             \/ n = [to |-> j.to, phase |-> "error"]
      BY <2>6, AppendNextFacts
    <3> QED
      BY <1>1, <1>3, <3>1
  <2>7. ~Respond(k)
    <3>1. Respond(k) => n = [to |-> j.to, phase |-> "error"] \/ n \in ReplyJob
      BY RespondFacts
    <3> QED
      BY <1>3, <3>1 DEF ReplyJob
  <2> QED
    BY <2>2, <2>3, <2>4, <2>5, <2>6, <2>7, JobStep
<1> QED
  BY <1>2, <1>3 DEF InFlight

\* What intact storage has in flight is behind its counter.
LEMMA InFlightCounted ==
  ASSUME OutboxInv, NEW id \in InFlight, id[1] \in Replica, id[1] \notin evicted
  PROVE  disk[id[1]] # Nothing /\ id[2] < disk[id[1]].next
<1>1. CASE id \in Ids(tables.snapshot)
  BY <1>1, CommittedIdentity
<1>2. ASSUME NEW k \in Slot, job[k].phase = "append", id \in Ids(job[k].todo)
      PROVE  disk[id[1]] # Nothing /\ id[2] < disk[id[1]].next
  <2>1. job[k] \in Job
    BY DEF OutboxInv, IInv, Typed
  <2>2. job[k].todo \in Seq(Operation)
    BY <1>2, <2>1, JobKinds DEF AppendJob
  <2>3. PICK op \in Ops(job[k].todo) : op.id = id
    BY <1>2, <2>2, OpsFacts
  <2>4. op \in issued
    BY <1>2, <2>3 DEF OutboxInv, Requests
  <2> QED
    BY <2>3, <2>4 DEF OutboxInv, Counted
<1> QED
  BY <1>1, <1>2 DEF InFlight

\* The operation submit saves is not in flight: it is the first of its name.
LEMMA SubmittedIsNew ==
  ASSUME OutboxInv, NEW h \in Handle, Submit(h), Home[h] \notin evicted,
         NEW op \in Operation, op.id = <<Home[h], mem[h].next>>
  PROVE  op.id \notin InFlight
<1>1. Home[h] \in Replica /\ disk[Home[h]] \in ReplicaState /\ mem[h] = disk[Home[h]]
  BY SubmitStep DEF OutboxInv
<1>2. op.id[1] = Home[h] /\ op.id[2] = disk[Home[h]].next /\ disk[Home[h]].next \in Nat
  BY <1>1, SyncAssumption DEF ReplicaState
<1> QED
  BY <1>1, <1>2, InFlightCounted

\* What a state holds that is in flight, a state of the replica held before.
LEMMA HeldIds ==
  ASSUME OutboxInv, Next, NEW r \in Replica, r \notin evicted', NEW s \in Held(r)',
         NEW id \in Ids(s.pending), id \in InFlight'
  PROVE  id[1] = r /\ \E s0 \in Held(r) : id \in Ids(s0.pending)
<1>0. IInv /\ ClientTyped /\ ClientTyped' /\ Outboxes' /\ r \notin evicted
  BY OutboxesStep, ClientInvariant, PastStep DEF OutboxInv, IInv, Typed, Client
<1>1. id[1] = r
  <2>1. s \in ReplicaState
    BY <1>0 DEF Held, ClientTyped, SaveState
  <2>2. s.pending \in Seq(Operation)
    BY <2>1 DEF ReplicaState
  <2>3. PICK op \in Ops(s.pending) : op.id = id
    BY <2>2, OpsFacts
  <2> QED
    BY <1>0, <2>3 DEF Outboxes
<1>2. CASE s \in Held(r)
  BY <1>1, <1>2
<1>3. CASE s = Initial
  BY <1>3 DEF Initial, Ids
<1>4. ASSUME NEW h \in Handle, NEW op \in Operation, Home[h] = r, Submit(h),
             op.id = <<r, mem[h].next>>, s = Submitted(mem[h], op)
      PROVE  \E s0 \in Held(r) : id \in Ids(s0.pending)
  <2>1. mem[h] \in ReplicaState /\ UNCHANGED <<tables, job>>
    BY <1>0, <1>4, SubmitFacts DEF Client, IInv, Typed
  <2>2. mem[h] \in Held(r) /\ mem[h].pending \in Seq(Operation)
    BY <1>0, <1>4, <2>1, HeldFacts, NothingAssumption DEF ReplicaState
  <2>3. s.pending = Append(mem[h].pending, op)
    BY <1>4 DEF Submitted
  <2>4. Ops(s.pending) = Ops(mem[h].pending) \cup {op} /\ s.pending \in Seq(Operation)
    BY <2>2, <2>3, AppendOps
  <2>5. Ids(s.pending) = Ids(mem[h].pending) \cup {op.id}
    <3>1. /\ Ids(s.pending) = {o.id : o \in Ops(s.pending)}
          /\ Ids(mem[h].pending) = {o.id : o \in Ops(mem[h].pending)}
      BY <2>2, <2>4, OpsFacts
    <3> QED
      BY <2>4, <3>1
  <2>6. id # op.id
    <3>1. InFlight' = InFlight
      BY <2>1 DEF InFlight
    <3> QED
      BY <1>0, <1>4, <3>1, SubmittedIsNew
  <2> QED
    BY <2>2, <2>5, <2>6
<1>5. ASSUME NEW k \in Slot, Deliver(k), Home[Tab[job[k].to]] = r, s = Adopted(mem[Tab[job[k].to]], job[k])
      PROVE  \E s0 \in Held(r) : id \in Ids(s0.pending)
  <2> DEFINE h == Tab[job[k].to]
             old == mem[h]
  <2>1. /\ job[k] \in ReplyJob /\ Quotes(job[k], tables) /\ h \in Handle /\ old \in ReplicaState
    BY <1>0, <1>5, DeliverFacts
  <2>2. old \in Held(r) /\ old.pending \in Seq(Operation)
    BY <1>0, <1>5, <2>1, HeldFacts, NothingAssumption DEF ReplicaState
  <2>3. s.pending = Without(old.pending, Dropped(old, job[k]))
    BY <1>5, <2>1, AdoptedOutbox DEF Quotes
  <2> HIDE DEF old
  <2>4. Ids(s.pending) \subseteq Ids(old.pending)
    BY <2>2, <2>3, WithoutOps
  <2> QED
    BY <2>2, <2>4
<1> QED
  BY <1>0, <1>1, <1>2, <1>3, <1>4, <1>5, HeldStep

\* Who sent what is newly in flight.
LEMMA NewInFlight ==
  ASSUME OutboxInv, Next, NEW r \in Replica, NEW id \in InFlight', id[1] = r
  PROVE  \/ id \in InFlight
         \/ \E f \in Fiber : sent[f] # Nothing /\ Home[Tab[f]] = r /\ id \in Ids(sent[f].pending)
<1>1. id[1] # Producer
  BY SyncAssumption
<1>2. ASSUME NEW f \in Fiber, sent[f] # Nothing, id \in Ids(sent[f].pending)
      PROVE  Home[Tab[f]] = r
  <2>1. sent[f] \in Exchange
    BY <1>2 DEF OutboxInv, IInv, Typed, ClientTyped
  <2>2. sent[f].pending \in Seq(Operation)
    BY <2>1 DEF Exchange
  <2>3. PICK op \in Ops(sent[f].pending) : op.id = id
    BY <1>2, <2>2, OpsFacts
  <2> QED
    BY <1>2, <2>3 DEF OutboxInv, Requests
<1> QED
  BY <1>1, <1>2, InFlightStep DEF OutboxInv

\* A tab that opens, or installs what it saved, holds all there is.
LEMMA HeldAlone ==
  ASSUME IInv, OneTabEach, SaverIsLatest, NEW h \in Handle, Open(h) \/ Install(h),
         NEW s \in Held(Home[h])'
  PROVE  s = mem'[h]
<1>0. /\ Locked /\ Revisions /\ ClientTyped /\ Home[h] \in Replica
      /\ \A g \in Handle : Home[g] = Home[h] => g = h
  BY SyncAssumption DEF IInv, Typed, OneTabEach
<1>1. CASE Open(h)
  <2>1. saving'[h] = Nothing
    BY <1>0, <1>1 DEF Open, Locked
  <2>2. disk'[Home[h]] = mem'[h]
    BY <1>0, <1>1 DEF Open, ClientTyped
  <2> QED
    BY <1>0, <2>1, <2>2 DEF Held
<1>2. CASE Install(h)
  <2>1. saving'[h] = Nothing /\ mem'[h] = saving[h].state /\ saving[h] # Nothing /\ disk' = disk
    BY <1>0, <1>2 DEF Install, ClientTyped
  <2>2. disk'[Home[h]] = mem'[h]
    BY <1>0, <2>1 DEF Revisions, SaverIsLatest
  <2> QED
    BY <1>0, <2>1, <2>2 DEF Held
<1> QED
  BY <1>1, <1>2

\* Saves, requests and decisions of a lone tab.
LEMMA SaverIsLatestStep ==
  ASSUME IInv, OneTabEach, SaverIsLatest, Next
  PROVE  SaverIsLatest'
<1>0. Client /\ Client' /\ mem \in [Handle -> ReplicaState \cup {Nothing}]
  BY ClientInvariant DEF IInv, Typed, Client, ClientTyped
<1>1. ASSUME NEW h \in Handle, saving'[h] # Nothing
      PROVE  /\ saving'[h].latest
             /\ saving'[h].by = Nothing => Ids(mem'[h].pending) \subseteq Ids(saving'[h].state.pending)
  <2>1. CASE saving'[h] = saving[h]
    <3>1. mem'[h] # Nothing /\ mem[h] # Nothing
      BY <1>0, <1>1, <2>1 DEF Client, Locked
    <3>2. ~Open(h)
      BY <3>1 DEF Open
    <3>3. ~Install(h)
      BY <1>0, <1>1 DEF Install, Client, ClientTyped
    <3>4. mem'[h] = mem[h]
      BY <3>1, <3>2, <3>3, MemStep
    <3> QED
      BY <1>1, <2>1, <3>4 DEF SaverIsLatest
  <2>2. CASE saving'[h].latest /\ saving'[h].by # Nothing
    BY <2>2
  <2>3. ASSUME NEW op \in Operation, saving'[h].latest, saving'[h].state = Submitted(mem[h], op),
               mem' = mem, mem[h] \in ReplicaState
        PROVE  saving'[h].latest /\ Ids(mem'[h].pending) \subseteq Ids(saving'[h].state.pending)
    <3> DEFINE q == mem[h].pending
               w == Append(q, op)
    <3>1. saving'[h].state.pending = w /\ q \in Seq(Operation)
      BY <2>3 DEF Submitted, ReplicaState
    <3>2. mem'[h].pending = q
      BY <2>3
    <3> HIDE DEF q
    <3>3. Ops(w) = Ops(q) \cup {op} /\ w \in Seq(Operation)
      BY <3>1, AppendOps
    <3> HIDE DEF w
    <3>4. Ids(w) = {o.id : o \in Ops(w)} /\ Ids(q) = {o.id : o \in Ops(q)}
      BY <3>1, <3>3, OpsFacts
    <3> QED
      BY <2>3, <3>1, <3>2, <3>3, <3>4
  <2> QED
    BY <1>1, <2>1, <2>2, <2>3, SavingStep
<1> QED
  BY <1>1 DEF SaverIsLatest

\* What an exchange sent is not forgotten before it ends.
LEMMA SentIsRememberedStep ==
  ASSUME IInv, OneTabEach, SaverIsLatest, SentIsRemembered, Next
  PROVE  SentIsRemembered'
<1>0. /\ Client /\ Client' /\ sent \in [Fiber -> Exchange \cup {Nothing}]
      /\ mem \in [Handle -> ReplicaState \cup {Nothing}]
  BY ClientInvariant DEF IInv, Typed, Client, ClientTyped
<1>1. ASSUME NEW f \in Fiber, sent'[f] # Nothing
      PROVE  Ids(sent'[f].pending) \subseteq Ids(mem'[Tab[f]].pending)
  <2> DEFINE h == Tab[f]
  <2>0. h \in Handle
    BY SyncAssumption
  <2>1. CASE sent'[f] = sent[f]
    <3>1. mem[h] # Nothing /\ mem'[h] # Nothing
      BY <1>0, <1>1, <2>1 DEF Client, Exchanging
    <3>2. Ids(sent[f].pending) \subseteq Ids(mem[h].pending)
      BY <1>1, <2>1 DEF SentIsRemembered
    <3>3. ~Open(h)
      BY <3>1 DEF Open
    <3>4. ASSUME Install(h) PROVE Ids(mem[h].pending) \subseteq Ids(mem'[h].pending)
      <4>1. /\ saving[h] # Nothing /\ mem'[h] = saving[h].state
            /\ saving[h].by = Nothing \/ sent' = [sent EXCEPT ![saving[h].by] = Nothing]
        BY <1>0, <2>0, <3>4 DEF Install
      <4>2. CASE saving[h].by = Nothing
        BY <2>0, <4>1, <4>2 DEF SaverIsLatest
      <4>3. CASE saving[h].by # Nothing
        <5> DEFINE e == saving[h].by
        <5>1. Tab[e] = h
          BY <1>0, <2>0, <4>1, <4>3 DEF Client, Locked
        <5>2. e \in Fiber
          <6>1. saving[h] \in SaveState
            BY <1>0, <2>0, <4>1 DEF Client, ClientTyped
          <6> QED
            BY <4>3, <6>1 DEF SaveState
        <5>3. e = f
          BY <5>1, <5>2 DEF OneTabEach
        <5>4. sent'[f] = Nothing
          BY <1>0, <4>1, <4>3, <5>3
        <5> QED
          BY <1>1, <5>4
      <4> QED
        BY <4>2, <4>3
    <3>5. CASE mem'[h] = mem[h]
      BY <2>1, <3>2, <3>5
    <3> HIDE DEF h
    <3>6. mem'[h] = mem[h] \/ Install(h)
      BY <2>0, <3>1, <3>3, MemStep
    <3> QED
      BY <2>1, <3>2, <3>4, <3>5, <3>6 DEF h
  <2>2. CASE /\ sent'[f] = [cursor |-> mem[Tab[f]].cursor, pending |-> mem[Tab[f]].pending]
             /\ mem' = mem
    BY <2>2
  <2> QED
    BY <1>1, <2>1, <2>2, SentStep
<1> QED
  BY <1>1 DEF SentIsRemembered

\* What the server has seen of it, the tab and its exchange keep in mind.
LEMMA SeenStep ==
  ASSUME OutboxInv, OneTabEach, SoleTab, Next
  PROVE  SeenIsRemembered' /\ SeenIsSent'
<1>0. IInv /\ SaverIsLatest /\ SentIsRemembered /\ SeenIsRemembered /\ SeenIsSent /\ evicted \subseteq evicted'
  BY PastStep DEF OutboxInv, SoleTab
<1>1. ASSUME NEW h \in Handle, mem'[h] # Nothing, Home[h] \notin evicted',
             NEW s \in Held(Home[h])', NEW id \in Ids(s.pending), id \in InFlight'
      PROVE  id \in Ids(mem'[h].pending)
  <2> DEFINE r == Home[h]
  <2>0. r \in Replica /\ r \notin evicted
    BY <1>0, <1>1, SyncAssumption
  <2>1. CASE mem'[h] = mem[h]
    <3>1. id[1] = r /\ \E s0 \in Held(r) : id \in Ids(s0.pending)
      BY <1>1, <2>0, HeldIds
    <3>2. CASE id \in InFlight
      BY <1>0, <1>1, <2>0, <2>1, <3>1, <3>2 DEF SeenIsRemembered
    <3>3. ASSUME NEW f \in Fiber, sent[f] # Nothing, Home[Tab[f]] = r, id \in Ids(sent[f].pending)
          PROVE  id \in Ids(mem'[h].pending)
      <4>1. Tab[f] = h
        BY <3>3, SyncAssumption DEF OneTabEach
      <4> QED
        BY <1>0, <2>1, <3>3, <4>1 DEF SentIsRemembered
    <3> HIDE DEF r
    <3> QED
      BY <1>1, <2>0, <3>1, <3>2, <3>3, NewInFlight
  <2>2. CASE Open(h) \/ Install(h)
    BY <1>0, <1>1, <2>2, HeldAlone
  <2> QED
    BY <1>0, <1>1, <2>1, <2>2, MemStep
<1>2. ASSUME NEW f \in Fiber, sent'[f] # Nothing, Home[Tab[f]] \notin evicted',
             NEW s \in Held(Home[Tab[f]])', NEW id \in Ids(s.pending), id \in InFlight'
      PROVE  id \in Ids(sent'[f].pending)
  <2> DEFINE r == Home[Tab[f]]
  <2>0. r \in Replica /\ r \notin evicted /\ Tab[f] \in Handle
    BY <1>0, <1>2, SyncAssumption
  <2>1. CASE sent'[f] = sent[f]
    <3>1. id[1] = r /\ \E s0 \in Held(r) : id \in Ids(s0.pending)
      BY <1>2, <2>0, HeldIds
    <3>2. CASE id \in InFlight
      BY <1>0, <1>2, <2>0, <2>1, <3>1, <3>2 DEF SeenIsSent
    <3>3. ASSUME NEW e \in Fiber, sent[e] # Nothing, Home[Tab[e]] = r, id \in Ids(sent[e].pending)
          PROVE  id \in Ids(sent'[f].pending)
      <4>1. e = f
        BY <3>3, SyncAssumption DEF OneTabEach
      <4> QED
        BY <2>1, <3>3, <4>1
    <3> HIDE DEF r
    <3> QED
      BY <1>2, <2>0, <3>1, <3>2, <3>3, NewInFlight
  <2>2. CASE /\ mem[Tab[f]] \in ReplicaState
             /\ sent'[f] = [cursor |-> mem[Tab[f]].cursor, pending |-> mem[Tab[f]].pending]
             /\ UNCHANGED <<tables, disk, mem, current, saving, job, past>>
    <3>1. Held(r)' = Held(r) /\ InFlight' = InFlight /\ sent'[f].pending = mem[Tab[f]].pending
      BY <2>2 DEF Held, InFlight
    <3>2. mem[Tab[f]] # Nothing
      BY <2>2, NothingAssumption
    <3> QED
      BY <1>0, <1>2, <2>0, <3>1, <3>2 DEF SeenIsRemembered
  <2> QED
    BY <1>0, <1>2, <2>1, <2>2, SentStep
<1> QED
  BY <1>1, <1>2 DEF SeenIsRemembered, SeenIsSent

\* The job that answers an exchange decides all it sent.
LEMMA SentIsDecidedStep ==
  ASSUME IInv, SentIsDecided, Next
  PROVE  SentIsDecided'
<1>0. /\ job \in [Slot -> Job] /\ Replied' /\ Replied
      /\ sent \in [Fiber -> Exchange \cup {Nothing}]
  BY RepliedInvariant DEF IInv, Typed, ClientTyped
<1>1. ASSUME NEW k \in Slot, job'[k].to # Nothing
      PROVE  /\ job'[k].phase = "append" =>
                  Ids(sent'[job'[k].to].pending) \subseteq
                    job'[k].acknowledged \cup job'[k].rejected \cup Ids(job'[k].todo)
             /\ job'[k].phase = "reply" =>
                  Ids(sent'[job'[k].to].pending) \subseteq job'[k].acknowledged \cup job'[k].rejected
  <2> DEFINE j == job[k]
             n == job'[k]
             Decided(i, q) ==
               /\ i.phase = "append" => Ids(q) \subseteq i.acknowledged \cup i.rejected \cup Ids(i.todo)
               /\ i.phase = "reply" => Ids(q) \subseteq i.acknowledged \cup i.rejected
  <2>1. j \in Job /\ (j.to # Nothing => Decided(j, sent[j.to].pending))
    BY <1>0 DEF SentIsDecided
  <2>2. CASE n = j
    <3>1. sent[j.to] # Nothing /\ sent'[j.to] # Nothing /\ j.to \in Fiber
      BY <1>0, <1>1, <2>1, <2>2, JobKinds DEF Replied, Waiting
    <3>2. sent'[j.to] = sent[j.to]
      BY <3>1, SentStep
    <3> QED
      BY <1>1, <2>1, <2>2, <3>2
  <2>3. CASE n = [j EXCEPT !.to = Nothing]
    <3>1. n.to = Nothing
      <4> HIDE DEF j
      <4> QED
        BY <2>1, <2>3, ForgottenJob
    <3> QED
      BY <1>1, <3>1
  <2>4. CASE n = Free
    BY <1>1, <2>4 DEF Free
  <2>5. ASSUME NEW f \in Fiber, Receive(k, f) PROVE Decided(n, sent'[n.to].pending)
    <3>1. /\ sent' = sent
          /\ n = [to |-> f, phase |-> "append", actor |-> Home[Tab[f]], after |-> sent[f].cursor,
                  todo |-> sent[f].pending, acknowledged |-> {}, rejected |-> {}]
      BY <2>5, ReceiveFacts DEF client
    <3>2. n.to = f /\ n.phase = "append" /\ n.todo = sent[f].pending
      BY <3>1
    <3> QED
      BY <3>1, <3>2
  <2>6. CASE AppendNext(k)
    <3> DEFINE op == Head(j.todo)
    <3>1. /\ j \in AppendJob /\ j.todo # <<>> /\ sent' = sent
          /\ \/ /\ n \in AppendJob /\ n.to = j.to /\ n.todo = Tail(j.todo)
                /\ n.acknowledged \cup n.rejected = j.acknowledged \cup j.rejected \cup {op.id}
             \/ n = [to |-> j.to, phase |-> "error"]
      BY <2>6, AppendNextFacts DEF client
    <3>2. j.todo \in Seq(Operation) /\ j.phase = "append"
      BY <3>1 DEF AppendJob
    <3>3. Ids(j.todo) = {op.id} \cup Ids(Tail(j.todo))
      <4>1. /\ Ops(j.todo) = {op} \cup Ops(Tail(j.todo)) /\ Tail(j.todo) \in Seq(Operation)
        BY <3>1, <3>2, HeadTailOps
      <4>2. /\ Ids(j.todo) = {o.id : o \in Ops(j.todo)}
            /\ Ids(Tail(j.todo)) = {o.id : o \in Ops(Tail(j.todo))}
        BY <3>2, <4>1, OpsFacts
      <4> QED
        BY <4>1, <4>2
    <3> HIDE DEF op
    <3>4. ASSUME n \in AppendJob, n.to = j.to, n.todo = Tail(j.todo),
                 n.acknowledged \cup n.rejected = j.acknowledged \cup j.rejected \cup {op.id}
          PROVE  Decided(n, sent'[n.to].pending)
      <4>1. n.phase = "append" /\ j.to # Nothing
        BY <1>1, <3>4 DEF AppendJob
      <4> QED
        BY <2>1, <3>1, <3>2, <3>3, <3>4, <4>1
    <3> QED
      BY <3>1, <3>4
  <2>7. CASE Respond(k)
    <3>1. /\ j \in AppendJob /\ j.todo = <<>> /\ sent' = sent
          /\ \/ n = [to |-> j.to, phase |-> "error"]
             \/ /\ n \in ReplyJob /\ n.to = j.to
                /\ n.acknowledged = j.acknowledged /\ n.rejected = j.rejected
      BY <2>7, RespondFacts DEF client
    <3>2. j.phase = "append" /\ Ids(j.todo) = {}
      BY <3>1 DEF AppendJob, Ids
    <3>3. ASSUME n \in ReplyJob, n.to = j.to, n.acknowledged = j.acknowledged, n.rejected = j.rejected
          PROVE  Decided(n, sent'[n.to].pending)
      <4>1. n.phase = "reply" /\ j.to # Nothing
        BY <1>1, <3>3 DEF ReplyJob
      <4> QED
        BY <2>1, <3>1, <3>2, <3>3, <4>1
    <3> QED
      BY <3>1, <3>3
  <2> QED
    BY <1>1, <2>2, <2>3, <2>4, <2>5, <2>6, <2>7, JobStep
<1> QED
  BY <1>1 DEF SentIsDecided

\* The committed operations of a replica are in the log.
LEMMA CommittedIds ==
  ASSUME NEW t \in Tables, Len(t.snapshot) = t.cursor, NEW s \in ReplicaState, Lags(s, t)
  PROVE  Ids(s.committed) \subseteq Ids(t.snapshot)
<1>1. /\ s.committed \in Seq(Operation) /\ s.cursor \in Nat /\ t.snapshot \in Seq(Operation) /\ t.cursor \in Nat
  BY DEF ReplicaState, Tables
<1>2. DOMAIN s.committed = 1..s.cursor /\ DOMAIN t.snapshot = 1..t.cursor
  BY <1>1 DEF Lags
<1>3. ASSUME NEW i \in 1..s.cursor
      PROVE  i \in 1..t.cursor /\ s.committed[i] = t.snapshot[i]
  BY <1>1 DEF Lags
<1> QED
  BY <1>2, <1>3 DEF Ids

\* The identities of two sequences in a row.
LEMMA ConcatIds ==
  ASSUME NEW p \in Seq(Operation), NEW q \in Seq(Operation)
  PROVE  /\ Ids(p \o q) = Ids(p) \cup Ids(q)
         /\ Apart(p) /\ Apart(q) /\ Ids(p) \cap Ids(q) = {} => Apart(p \o q)
<1> DEFINE w == p \o q
           m == Len(p)
           n == Len(q)
<1>1. /\ m \in Nat /\ n \in Nat /\ DOMAIN p = 1..m /\ DOMAIN q = 1..n /\ DOMAIN w = 1..(m + n)
      /\ \A i \in 1..m : w[i] = p[i]
      /\ \A i \in 1..n : w[m + i] = q[i]
  BY ConcatProperties
<1> HIDE DEF w, m, n
<1>2. ASSUME NEW i \in 1..(m + n)
      PROVE  i \in 1..m \/ (i - m \in 1..n /\ w[i] = q[i - m])
  <2>1. i \in 1..m \/ (i - m \in 1..n /\ m + (i - m) = i)
    BY <1>1
  <2> QED
    BY <1>1, <2>1
<1>3. ASSUME NEW i \in 1..n PROVE m + i \in 1..(m + n)
  BY <1>1
<1>4. ASSUME NEW i \in 1..m PROVE i \in 1..(m + n)
  BY <1>1
<1>5. Ids(w) \subseteq Ids(p) \cup Ids(q)
  BY <1>1, <1>2 DEF Ids
<1>6. Ids(p) \cup Ids(q) \subseteq Ids(w)
  <2>1. ASSUME NEW i \in 1..m PROVE p[i].id \in Ids(w)
    BY <1>1, <1>4 DEF Ids
  <2>2. ASSUME NEW i \in 1..n PROVE q[i].id \in Ids(w)
    <3>1. w[m + i].id \in Ids(w)
      BY <1>1, <1>3 DEF Ids
    <3> QED
      BY <1>1, <3>1
  <2> QED
    BY <1>1, <2>1, <2>2 DEF Ids
<1>7. ASSUME Apart(p), Apart(q), Ids(p) \cap Ids(q) = {},
             NEW i \in 1..(m + n), NEW l \in 1..(m + n), w[i].id = w[l].id
      PROVE  i = l
  <2>1. \A x \in 1..m : w[x].id \in Ids(p)
    BY <1>1 DEF Ids
  <2>2. \A x \in 1..n : q[x].id \in Ids(q)
    BY <1>1 DEF Ids
  <2>3. CASE i \in 1..m /\ l \in 1..m
    BY <1>1, <1>7, <2>3 DEF Apart
  <2>4. CASE i \in 1..m /\ l \notin 1..m
    BY <1>2, <1>7, <2>1, <2>2, <2>4
  <2>5. CASE i \notin 1..m /\ l \in 1..m
    BY <1>2, <1>7, <2>1, <2>2, <2>5
  <2>6. CASE i \notin 1..m /\ l \notin 1..m
    <3>1. i - m = l - m
      BY <1>1, <1>2, <1>7, <2>6 DEF Apart
    <3> QED
      BY <1>1, <3>1
  <2> QED
    BY <2>3, <2>4, <2>5, <2>6
<1> QED
  BY <1>1, <1>5, <1>6, <1>7 DEF Apart, w

\* What is committed leaves the outbox with the save that says so.
LEMMA AppliedApartStep ==
  ASSUME OutboxInv, SoleTab, Next
  PROVE  AppliedApart'
<1>0. /\ IInv /\ ClientTyped /\ AppliedApart /\ SeenIsSent /\ SentIsDecided /\ evicted \subseteq evicted'
      /\ tables \in Tables /\ Len(tables.snapshot) = tables.cursor
  BY PastStep DEF OutboxInv, SoleTab, IInv, Typed, LogHolds, TablesConsistent, SnapshotIsReduction
<1>1. ASSUME NEW r \in Replica, r \notin evicted', NEW s \in Held(r)'
      PROVE  Ids(s.pending) \cap Ids(s.committed) = {}
  <2>0. r \notin evicted
    BY <1>0, <1>1
  <2>1. CASE s \in Held(r)
    BY <1>0, <2>0, <2>1 DEF AppliedApart
  <2>2. CASE s = Initial
    BY <2>2 DEF Initial, Ids
  <2>3. ASSUME NEW h \in Handle, NEW op \in Operation, Home[h] = r, Submit(h),
               op.id = <<r, mem[h].next>>, s = Submitted(mem[h], op)
        PROVE  Ids(s.pending) \cap Ids(s.committed) = {}
    <3> DEFINE old == mem[h]
    <3>1. old \in ReplicaState
      BY <1>0, <2>3, SubmitFacts DEF Client, IInv
    <3>2. old \in Held(r)
      BY <1>0, <2>3, <3>1, HeldFacts, NothingAssumption
    <3>3. Ids(old.pending) \cap Ids(old.committed) = {} /\ Lags(old, tables) /\ old.pending \in Seq(Operation)
      BY <1>0, <2>0, <3>1, <3>2 DEF AppliedApart, IInv, AllLag, ReplicaState
    <3>4. op.id \notin InFlight
      BY <2>0, <2>3, SubmittedIsNew
    <3>5. op.id \notin Ids(old.committed)
      BY <1>0, <3>1, <3>3, <3>4, CommittedIds DEF InFlight
    <3>6. s.pending = Append(old.pending, op) /\ s.committed = old.committed
      BY <2>3 DEF Submitted
    <3> HIDE DEF old
    <3>7. Ops(s.pending) = Ops(old.pending) \cup {op} /\ s.pending \in Seq(Operation)
      BY <3>3, <3>6, AppendOps
    <3>8. /\ Ids(s.pending) = {o.id : o \in Ops(s.pending)}
          /\ Ids(old.pending) = {o.id : o \in Ops(old.pending)}
      BY <3>3, <3>7, OpsFacts
    <3> QED
      BY <3>3, <3>5, <3>6, <3>7, <3>8
  <2>4. ASSUME NEW k \in Slot, Deliver(k), Home[Tab[job[k].to]] = r,
               s = Adopted(mem[Tab[job[k].to]], job[k])
        PROVE  Ids(s.pending) \cap Ids(s.committed) = {}
    <3> DEFINE f == job[k].to
               h == Tab[f]
               old == mem[h]
               gone == Dropped(old, job[k])
    <3>1. /\ job[k] \in ReplyJob /\ Quotes(job[k], tables) /\ h \in Handle /\ f \in Fiber
          /\ old \in ReplicaState /\ sent[f] \in Exchange
      BY <1>0, <2>4, DeliverFacts
    <3>2. f # Nothing
      BY <2>4 DEF Deliver
    <3>3. old \in Held(r) /\ sent[f] # Nothing
      BY <1>0, <2>4, <3>1, HeldFacts, NothingAssumption
    <3>4. /\ s.pending = Without(old.pending, gone)
          /\ s.committed = IF job[k].checkpoint THEN job[k].model ELSE old.committed \o Fresh(old, job[k])
      BY <2>4, <3>1, AdoptedOutbox DEF Quotes
    <3>5. /\ old.pending \in Seq(Operation) /\ old.committed \in Seq(Operation)
          /\ job[k].model \in Seq(Operation) /\ job[k].from \in Nat /\ job[k].phase = "reply"
          /\ Fresh(old, job[k]) \in Seq(Operation)
      BY <3>1, FreshFacts DEF ReplicaState, ReplyJob
    <3>6. Ids(s.pending) = Ids(old.pending) \ gone
      <4> HIDE DEF gone, old
      <4> QED
        BY <3>4, <3>5, WithoutOps
    <3>7. CASE ~job[k].checkpoint
      <4>1. Ids(Fresh(old, job[k])) \subseteq gone
        BY <3>7 DEF Dropped
      <4>2. Ids(s.committed) = Ids(old.committed) \cup Ids(Fresh(old, job[k]))
        BY <3>4, <3>5, <3>7, ConcatIds
      <4>3. Ids(old.pending) \cap Ids(old.committed) = {}
        BY <1>0, <2>0, <3>3 DEF AppliedApart
      <4> QED
        BY <3>6, <4>1, <4>2, <4>3
    <3>8. CASE job[k].checkpoint
      <4> DEFINE model == job[k].model
      <4>1. Ids(model) \subseteq InFlight
        <5>1. /\ Len(model) = job[k].from /\ job[k].from <= tables.cursor
              /\ \A i \in 1..job[k].from : model[i] = tables.snapshot[i]
          BY <3>1, <3>8 DEF Quotes
        <5>2. DOMAIN model = 1..job[k].from /\ DOMAIN tables.snapshot = 1..tables.cursor /\ tables.cursor \in Nat
          BY <1>0, <3>5, <5>1, LogFacts
        <5>3. ASSUME NEW i \in 1..job[k].from PROVE i \in 1..tables.cursor
          BY <3>5, <5>1, <5>2
        <5> QED
          BY <5>1, <5>2, <5>3 DEF Ids, InFlight
      <4>2. Ids(sent[f].pending) \subseteq job[k].acknowledged \cup job[k].rejected
        BY <1>0, <3>2, <3>5 DEF SentIsDecided
      <4>3. job[k].acknowledged \cup job[k].rejected \subseteq gone
        BY DEF Dropped
      <4>4. Ids(old.pending) \cap InFlight \subseteq Ids(sent[f].pending)
        BY <1>0, <2>0, <2>4, <3>1, <3>3 DEF SeenIsSent
      <4>5. s.committed = model
        BY <3>4, <3>8
      <4> HIDE DEF model, old, gone, f
      <4> QED
        BY <3>6, <4>1, <4>2, <4>3, <4>4, <4>5
    <3> QED
      BY <3>7, <3>8
  <2>5. \/ s \in Held(r) \/ s = Initial
        \/ \E h \in Handle, op \in Operation :
             Home[h] = r /\ Submit(h) /\ op.id = <<r, mem[h].next>> /\ s = Submitted(mem[h], op)
        \/ \E k \in Slot : /\ Deliver(k) /\ Home[Tab[job[k].to]] = r
                           /\ s = Adopted(mem[Tab[job[k].to]], job[k])
    BY <1>0, <1>1, HeldStep
  <2> QED
    BY <2>1, <2>2, <2>3, <2>4, <2>5
<1> QED
  BY <1>1 DEF AppliedApart

\* A lone tab applies no operation twice: what a checkpoint of the server may
\* hold of its outbox, the exchange that asked for it sent, so the answer
\* decides it (sync.ts:543-616).
THEOREM AppliedOnceAlways ==
  ASSUME OneTabEach
  PROVE  Spec => []AppliedOnce
<1>1. Init => SoleTab
  <2> SUFFICES ASSUME Init PROVE SoleTab
    OBVIOUS
  <2>1. \A r \in Replica : Held(r) = {}
    BY DEF Init, Held
  <2> QED
    BY <2>1 DEF Init, SoleTab, SaverIsLatest, SentIsRemembered, SeenIsRemembered, SeenIsSent,
                SentIsDecided, AppliedApart, Free
<1>2. OutboxInv /\ SoleTab /\ [Next]_vars => SoleTab'
  <2>1. ASSUME SoleTab, UNCHANGED vars PROVE SoleTab'
    <3>1. UNCHANGED <<tables, disk, mem, saving, sent, job, evicted>>
      BY <2>1 DEF vars
    <3>2. InFlight' = InFlight /\ \A r \in Replica : Held(r)' = Held(r)
      BY <3>1 DEF InFlight, Held
    <3>3. SaverIsLatest' /\ SentIsRemembered' /\ SentIsDecided'
      BY <2>1, <3>1 DEF SoleTab, SaverIsLatest, SentIsRemembered, SentIsDecided
    <3>4. SeenIsRemembered' /\ SeenIsSent' /\ AppliedApart'
      BY <2>1, <3>1, <3>2, SyncAssumption DEF SoleTab, SeenIsRemembered, SeenIsSent, AppliedApart
    <3> QED
      BY <3>3, <3>4 DEF SoleTab
  <2>2. ASSUME OutboxInv, SoleTab, Next PROVE SoleTab'
    <3>1. IInv /\ SaverIsLatest /\ SentIsRemembered /\ SentIsDecided
      BY <2>2 DEF OutboxInv, SoleTab
    <3> QED
      BY <2>2, <3>1, SaverIsLatestStep, SentIsRememberedStep, SeenStep, SentIsDecidedStep,
         AppliedApartStep DEF SoleTab
  <2> QED
    BY <2>1, <2>2
<1>3. OutboxInv /\ SoleTab => AppliedOnce
  <2> SUFFICES ASSUME OutboxInv, SoleTab
               PROVE  AppliedOnce
    OBVIOUS
  <2>1. /\ IInv /\ ClientTyped /\ tables \in Tables /\ Len(tables.snapshot) = tables.cursor
    BY DEF OutboxInv, IInv, Typed, LogHolds, TablesConsistent, SnapshotIsReduction
  <2>2. ASSUME NEW r \in Replica \ evicted, NEW s \in Held(r)
        PROVE  Apart(Optimistic(s))
    <3>1. s \in ReplicaState /\ Lags(s, tables)
      BY <2>1, HeldFacts DEF IInv, AllLag
    <3>2. s.committed \in Seq(Operation) /\ s.pending \in Seq(Operation) /\ s.cursor \in Nat
      BY <3>1 DEF ReplicaState
    <3>3. Apart(s.pending) /\ Ids(s.pending) \cap Ids(s.committed) = {}
      BY DEF OutboxInv, Outboxes, SoleTab, AppliedApart
    <3>4. Apart(s.committed)
      <4>1. tables.cursor \in Nat
        BY <2>1 DEF Tables
      <4>2. /\ s.cursor <= tables.cursor /\ DOMAIN s.committed = 1..s.cursor
            /\ \A i \in 1..s.cursor : s.committed[i] = tables.snapshot[i]
        BY <3>1, <3>2 DEF Lags
      <4>3. \A i \in 1..s.cursor : i \in 1..tables.cursor
        BY <3>2, <4>1, <4>2
      <4>4. \A i, j \in 1..tables.cursor : tables.snapshot[i].id = tables.snapshot[j].id => i = j
        BY <2>1, LogFacts
      <4> QED
        BY <4>2, <4>3, <4>4 DEF Apart
    <3> QED
      BY <3>2, <3>3, <3>4, ConcatIds DEF Optimistic
  <2>3. ASSUME NEW s \in StatesOf(Intact)
        PROVE  \E r \in Replica \ evicted : s \in Held(r)
    BY DEF StatesOf, Intact, Held
  <2> QED
    BY <2>2, <2>3 DEF AppliedOnce, Apart
<1> QED
  BY <1>1, <1>2, <1>3, OutboxInvariance, PTL DEF Spec

\* Committed state is the server's log: its prefix in every replica, genuine,
\* nothing twice, nothing that was reported rejected.  The two hypotheses are
\* about the deployment: authorization decides by operation and actor, and a
\* storage is opened by one tab with one synchronizing fiber (without the
\* second, two tabs overlap and the projection of one may show an operation of
\* the other twice until its next exchange).
THEOREM CommittedAlwaysTheLog ==
  ASSUME RefusalIsStable, OneTabEach
  PROVE  Spec => []CommittedIsTheLog
<1>1. TypeOK /\ CommittedIsServerPrefix /\ AppliedOnce /\ RejectedIsNotCommitted /\ LogIsGenuine
        => CommittedIsTheLog
  BY DEF CommittedIsTheLog
<1>2. Spec => []RejectedIsNotCommitted
  BY RejectedNeverCommitted
<1>3. Spec => []AppliedOnce
  BY AppliedOnceAlways
<1> QED
  BY <1>1, <1>2, <1>3, SyncTypeCorrect, CommittedAlwaysServerPrefix, LogAlwaysGenuine, PTL

=============================================================================
