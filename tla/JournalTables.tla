--------------------------- MODULE JournalTables ---------------------------
(***************************************************************************)
(* The two SQLite tables one document of the durable journal keeps         *)
(* (packages/durable/src/journal.ts) and what its SQL does to them: the    *)
(* `documents` row (cursor, snapshot, compaction floor) and the            *)
(* `operations` rows.  Pure operators: Journal interleaves the fibers that *)
(* apply them, SyncSystem applies them in the document server's handler.   *)
(***************************************************************************)
EXTENDS Integers, Sequences

CONSTANTS OpId,             \* operation identities
          Data,             \* canonical payloads; the hash of one is the payload itself
          Actor,            \* authenticated actors
          Null,             \* SQL NULL
          Accept(_, _, _)   \* the application's verdict on (snapshot, operation, actor):
                            \* "reduce"; "refused" when authorize says no; anything else
                            \* when validate or reduce throws

ASSUME NullAssumption == Null \notin Data

Operation == [id : OpId, data : Data]

Row == [id    : OpId,
        seq   : Nat,
        actor : Actor,
        input : Data \cup {Null},   \* the payload, NULL once compacted
        hash  : Data]               \* payload_hash, kept for ever

\* `snapshot` is the free reduction: the operations reduced, in order.
Tables == [ops      : SUBSET Row,
           cursor   : Nat,
           snapshot : Seq(Operation),
           floor    : Nat]          \* compact_before

Empty == [ops |-> {}, cursor |-> 0, snapshot |-> <<>>, floor |-> 0]

\* A documents row exists once the first append has upserted it.
HasDocument(t) == t.cursor > 0

Prior(t, id) == {r \in t.ops : r.id = id}

(***************************************************************************)
(* commitPrepared: what one operation does to the tables.                  *)
(***************************************************************************)

\* Mutant: a compacted row is trusted without its hash.
SameIdentityUnhashed(r, op, a) ==
  r.actor = a /\ (r.input # Null => r.input = op.data)

\* A retained row compares the payload, a compacted one its hash.
SameIdentity(r, op, a) ==
  /\ r.actor = a
  /\ IF r.input # Null THEN r.input = op.data ELSE r.hash = op.data

\* The outcome of one operation: a tag and the sequence it answers with.
Outcome(t, op, a) ==
  LET verdict == Accept(t.snapshot, op, a)
  IN  IF Prior(t, op.id) # {}
        THEN LET r == CHOOSE r \in Prior(t, op.id) : TRUE
             IN  IF ~SameIdentity(r, op, a)
                   THEN [tag |-> "IdentityConflict", seq |-> 0]
                   ELSE IF r.input # Null
                     THEN [tag |-> "Committed", seq |-> r.seq]
                     ELSE [tag |-> "AlreadyCommitted", seq |-> r.seq]
      ELSE IF verdict = "reduce"  THEN [tag |-> "Appended", seq |-> t.cursor + 1]
      ELSE IF verdict = "refused" THEN [tag |-> "OperationRejected", seq |-> 0]
      ELSE [tag |-> "InvalidOperation", seq |-> 0]

Successful(o) == o.tag \in {"Appended", "Committed", "AlreadyCommitted"}

\* INSERT INTO operations, then upsert documents (the floor is not in the
\* SET list, so it survives).  The PRIMARY KEY and UNIQUE constraints cannot
\* fire: TablesConsistent below is an invariant.
Insert(t, op, a) ==
  [ops      |-> t.ops \cup {[id |-> op.id, seq |-> t.cursor + 1, actor |-> a,
                             input |-> op.data, hash |-> op.data]},
   cursor   |-> t.cursor + 1,
   snapshot |-> Append(t.snapshot, op),
   floor    |-> t.floor]

\* Mutant: a repeated operation is inserted again.
AfterCommitRepeats(t, op, a) == IF Successful(Outcome(t, op, a)) THEN Insert(t, op, a) ELSE t

\* Only a new, accepted operation changes the tables ("changed" in the code).
AfterCommit(t, op, a) ==
  IF Outcome(t, op, a).tag = "Appended" THEN Insert(t, op, a) ELSE t

(***************************************************************************)
(* read, compact                                                           *)
(***************************************************************************)

RowsAfter(t, after) == {r \in t.ops : r.seq > after /\ r.input # Null}

CompactRows(t, through) ==
  {IF r.seq <= through THEN [r EXCEPT !.input = Null] ELSE r : r \in t.ops}

\* Mutant: compaction deletes the rows, identities and all.
CompactedDeletes(t, through) ==
  [t EXCEPT !.ops = {r \in t.ops : r.seq > through}, !.floor = through]

\* The UPDATE of documents touches no row when the document is gone.
Compacted(t, through) ==
  [ops      |-> CompactRows(t, through),
   cursor   |-> t.cursor,
   snapshot |-> t.snapshot,
   floor    |-> IF HasDocument(t) THEN through ELSE t.floor]

(***************************************************************************)
(* What the tables of one document must satisfy.                           *)
(***************************************************************************)

\* One row per sequence, no gap, no sequence above the cursor.
GapFree(t) ==
  /\ \A r \in t.ops : r.seq \in 1..t.cursor
  /\ \A n \in 1..t.cursor : \E r \in t.ops : r.seq = n
  /\ \A r, s \in t.ops : r.seq = s.seq => r = s

\* An operation is committed under one sequence only.
CommittedOnce(t) ==
  \A r, s \in t.ops : r.id = s.id => r = s

\* The snapshot is the reduction of exactly the committed operations, with
\* the payload whose hash the row keeps, in sequence order.
SnapshotIsReduction(t) ==
  /\ Len(t.snapshot) = t.cursor
  /\ \A r \in t.ops : t.snapshot[r.seq] = [id |-> r.id, data |-> r.hash]
  /\ \A r \in t.ops : r.input \in {Null, r.hash}

TablesConsistent(t) == GapFree(t) /\ CommittedOnce(t) /\ SnapshotIsReduction(t)

\* The floor is where the retained payloads start.
FloorIsExact(t) ==
  /\ t.floor <= t.cursor
  /\ \A r \in t.ops : r.input = Null <=> r.seq <= t.floor

\* A row that commits operation op of actor a under sequence n.
Commits(r, op, a, n) ==
  r.id = op.id /\ r.hash = op.data /\ r.actor = a /\ r.seq = n

\* t has t0's committed operations, unchanged, and possibly more.
Extends(t0, t) ==
  /\ t0.cursor <= t.cursor
  /\ \A n \in 1..t0.cursor : t.snapshot[n] = t0.snapshot[n]
  /\ \A r \in t0.ops : \E s \in t.ops :
       s.id = r.id /\ s.seq = r.seq /\ s.actor = r.actor /\ s.hash = r.hash

\* The successful outcomes.
Outcomes == [tag : {"Appended", "Committed", "AlreadyCommitted"}, seq : Nat]
=============================================================================
