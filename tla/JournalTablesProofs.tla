------------------------ MODULE JournalTablesProofs ------------------------
(***************************************************************************)
(* What the journal's SQL does to its tables, for every payload, actor and *)
(* verdict: the lemmas JournalProofs and SyncProofs rest on.               *)
(***************************************************************************)
EXTENDS JournalTables, TLAPS

(***************************************************************************)
(* The tables.                                                             *)
(***************************************************************************)

\* The tables of an unknown document are well-typed and consistent.
LEMMA EmptyTables == Empty \in Tables /\ TablesConsistent(Empty)
  BY DEF Empty, Tables, TablesConsistent, GapFree, CommittedOnce, SnapshotIsReduction

\* INSERT and upsert of an accepted operation keep the columns' types.
LEMMA InsertType ==
  ASSUME NEW t \in Tables, NEW op \in Operation, NEW a \in Actor
  PROVE  Insert(t, op, a) \in Tables
<1> DEFINE row == [id |-> op.id, seq |-> t.cursor + 1, actor |-> a,
                   input |-> op.data, hash |-> op.data]
<1>1. /\ t.ops \in SUBSET Row /\ t.cursor \in Nat /\ t.floor \in Nat
      /\ t.snapshot \in Seq(Operation) /\ row \in Row
  BY DEF Tables, Row, Operation
<1>2. /\ t.ops \cup {row} \in SUBSET Row /\ t.cursor + 1 \in Nat
      /\ Append(t.snapshot, op) \in Seq(Operation)
  BY <1>1
<1> QED
  BY <1>1, <1>2 DEF Insert, Tables

\* Nulling payloads and raising the floor keeps the columns' types.
LEMMA CompactedType ==
  ASSUME NEW t \in Tables, NEW n \in Nat
  PROVE  Compacted(t, n) \in Tables
<1>1. CompactRows(t, n) \in SUBSET Row
  BY DEF CompactRows, Tables, Row
<1> QED
  BY <1>1 DEF Compacted, Tables

\* A new identity at cursor + 1 leaves the log gap-free, committed once, and
\* the snapshot its reduction (commitPrepared).
LEMMA InsertConsistent ==
  ASSUME NEW t \in Tables, NEW op \in Operation, NEW a \in Actor,
         TablesConsistent(t), Prior(t, op.id) = {}
  PROVE  TablesConsistent(Insert(t, op, a))
<1> DEFINE row == [id |-> op.id, seq |-> t.cursor + 1, actor |-> a,
                   input |-> op.data, hash |-> op.data]
           u == Insert(t, op, a)
<1>1. /\ u.ops = t.ops \cup {row} /\ u.cursor = t.cursor + 1
      /\ u.snapshot = Append(t.snapshot, op)
  BY DEF Insert, Tables
<1>2. /\ t.ops \in SUBSET Row /\ t.cursor \in Nat /\ t.snapshot \in Seq(Operation)
      /\ row \in Row
  BY DEF Tables, Row, Operation
<1> HIDE DEF u
<1>3. GapFree(u)
  <2>1. \A r \in u.ops : r.seq \in 1..u.cursor
    BY <1>1, <1>2 DEF TablesConsistent, GapFree, Row
  <2>2. ASSUME NEW n \in 1..u.cursor PROVE \E r \in u.ops : r.seq = n
    <3>1. CASE n = u.cursor
      <4>1. row \in u.ops /\ row.seq = n
        BY <3>1, <1>1
      <4> QED
        BY <4>1
    <3>2. CASE n \in 1..t.cursor
      BY <3>2, <1>1 DEF TablesConsistent, GapFree
    <3> QED
      BY <3>1, <3>2, <1>1, <1>2
  <2>3. \A r, s \in u.ops : r.seq = s.seq => r = s
    BY <1>1, <1>2 DEF TablesConsistent, GapFree, Row
  <2> QED
    BY <2>1, <2>2, <2>3 DEF GapFree
<1>4. CommittedOnce(u)
  BY <1>1, <1>2 DEF TablesConsistent, CommittedOnce, Prior
<1>5. SnapshotIsReduction(u)
  <2>1. Len(u.snapshot) = u.cursor
    BY <1>1, <1>2 DEF TablesConsistent, SnapshotIsReduction
  <2>2. ASSUME NEW r \in u.ops PROVE u.snapshot[r.seq] = [id |-> r.id, data |-> r.hash]
    <3>1. CASE r = row
      BY <3>1, <1>1, <1>2 DEF TablesConsistent, SnapshotIsReduction, Operation
    <3>2. CASE r \in t.ops
      <4>1. r.seq \in 1..t.cursor /\ Len(t.snapshot) = t.cursor
        BY <3>2 DEF TablesConsistent, GapFree, SnapshotIsReduction
      <4>2. u.snapshot[r.seq] = t.snapshot[r.seq]
        BY <4>1, <1>1, <1>2
      <4> QED
        BY <3>2, <4>2 DEF TablesConsistent, SnapshotIsReduction
    <3> QED
      BY <3>1, <3>2, <1>1
  <2>3. \A r \in u.ops : r.input \in {Null, r.hash}
    BY <1>1 DEF TablesConsistent, SnapshotIsReduction
  <2> QED
    BY <2>1, <2>2, <2>3 DEF SnapshotIsReduction
<1> QED
  BY <1>3, <1>4, <1>5 DEF TablesConsistent, u

\* Compaction drops payloads and nothing else.
LEMMA CompactRowsFacts ==
  ASSUME NEW t \in Tables, NEW n \in Nat
  PROVE  /\ \A u \in CompactRows(t, n) : \E r \in t.ops :
              /\ u.id = r.id /\ u.seq = r.seq /\ u.actor = r.actor /\ u.hash = r.hash
              /\ u = IF r.seq <= n THEN [r EXCEPT !.input = Null] ELSE r
         /\ \A r \in t.ops : \E u \in CompactRows(t, n) :
              u.id = r.id /\ u.seq = r.seq /\ u.actor = r.actor /\ u.hash = r.hash
<1>1. t.ops \in SUBSET Row
  BY DEF Tables
<1>2. ASSUME NEW r \in t.ops
      PROVE LET u == IF r.seq <= n THEN [r EXCEPT !.input = Null] ELSE r
            IN  u.id = r.id /\ u.seq = r.seq /\ u.actor = r.actor /\ u.hash = r.hash
  BY <1>1 DEF Row
<1>3. \A u \in CompactRows(t, n) : \E r \in t.ops :
        u = IF r.seq <= n THEN [r EXCEPT !.input = Null] ELSE r
  BY DEF CompactRows
<1>4. \A r \in t.ops :
        (IF r.seq <= n THEN [r EXCEPT !.input = Null] ELSE r) \in CompactRows(t, n)
  BY DEF CompactRows
<1> QED
  BY <1>2, <1>3, <1>4

\* Compaction keeps the log gap-free, committed once and reduced.
LEMMA CompactedConsistent ==
  ASSUME NEW t \in Tables, NEW n \in Nat, TablesConsistent(t)
  PROVE  TablesConsistent(Compacted(t, n))
<1> DEFINE u == Compacted(t, n)
<1>1. /\ u.ops = CompactRows(t, n) /\ u.cursor = t.cursor /\ u.snapshot = t.snapshot
      /\ t.ops \in SUBSET Row
  BY DEF Compacted, Tables
<1> HIDE DEF u
<1>2. GapFree(u)
  <2>1. \A r \in u.ops : r.seq \in 1..u.cursor
    BY <1>1, CompactRowsFacts DEF TablesConsistent, GapFree
  <2>2. \A m \in 1..u.cursor : \E r \in u.ops : r.seq = m
    BY <1>1, CompactRowsFacts DEF TablesConsistent, GapFree
  <2>3. \A r, s \in u.ops : r.seq = s.seq => r = s
    BY <1>1, CompactRowsFacts DEF TablesConsistent, GapFree
  <2> QED
    BY <2>1, <2>2, <2>3 DEF GapFree
<1>3. CommittedOnce(u)
  BY <1>1, CompactRowsFacts DEF TablesConsistent, CommittedOnce
<1>4. SnapshotIsReduction(u)
  <2>1. ASSUME NEW s \in u.ops PROVE s.input \in {Null, s.hash}
    <3>1. PICK r \in t.ops : s = IF r.seq <= n THEN [r EXCEPT !.input = Null] ELSE r
      BY <1>1, CompactRowsFacts
    <3>2. r.input \in {Null, r.hash}
      BY DEF TablesConsistent, SnapshotIsReduction
    <3> QED
      BY <3>1, <3>2, <1>1 DEF Row
  <2>2. ASSUME NEW s \in u.ops
        PROVE  u.snapshot[s.seq] = [id |-> s.id, data |-> s.hash]
    <3>1. PICK r \in t.ops : s.id = r.id /\ s.seq = r.seq /\ s.hash = r.hash
      BY <1>1, CompactRowsFacts
    <3>2. t.snapshot[r.seq] = [id |-> r.id, data |-> r.hash]
      BY DEF TablesConsistent, SnapshotIsReduction
    <3> QED
      BY <3>1, <3>2, <1>1
  <2> QED
    BY <2>1, <2>2, <1>1 DEF TablesConsistent, SnapshotIsReduction
<1> QED
  BY <1>2, <1>3, <1>4 DEF TablesConsistent, u

(***************************************************************************)
(* Extension of the committed history.                                     *)
(***************************************************************************)

\* A transaction starts from the committed history itself.
LEMMA ExtendsItself ==
  ASSUME NEW t \in Tables
  PROVE  Extends(t, t)
  BY DEF Extends, Tables

\* Extensions compose.
LEMMA ExtendsTransitive ==
  ASSUME NEW t \in Tables, NEW u \in Tables, NEW v \in Tables,
         Extends(t, u), Extends(u, v)
  PROVE  Extends(t, v)
<1>1. t.cursor \in Nat /\ u.cursor \in Nat /\ v.cursor \in Nat
  BY DEF Tables
<1>2. ASSUME NEW n \in 1..t.cursor PROVE v.snapshot[n] = t.snapshot[n]
  <2>1. n \in 1..u.cursor
    BY <1>1 DEF Extends
  <2> QED
    BY <2>1 DEF Extends
<1>3. ASSUME NEW r \in t.ops
      PROVE  \E s \in v.ops : s.id = r.id /\ s.seq = r.seq /\ s.actor = r.actor /\ s.hash = r.hash
  <2>1. PICK s \in u.ops : s.id = r.id /\ s.seq = r.seq /\ s.actor = r.actor /\ s.hash = r.hash
    BY DEF Extends
  <2> QED
    BY <2>1 DEF Extends
<1> QED
  BY <1>1, <1>2, <1>3 DEF Extends

\* Committing one operation extends the history.
LEMMA InsertExtends ==
  ASSUME NEW t \in Tables, NEW op \in Operation, NEW a \in Actor, TablesConsistent(t)
  PROVE  Extends(t, Insert(t, op, a))
<1>1. /\ t.cursor \in Nat /\ t.snapshot \in Seq(Operation) /\ Len(t.snapshot) = t.cursor
  BY DEF Tables, TablesConsistent, SnapshotIsReduction
<1>2. \A n \in 1..t.cursor : Append(t.snapshot, op)[n] = t.snapshot[n]
  BY <1>1
<1> QED
  BY <1>1, <1>2 DEF Extends, Insert

\* Compaction extends (and in fact preserves) the history.
LEMMA CompactedExtends ==
  ASSUME NEW t \in Tables, NEW n \in Nat
  PROVE  Extends(t, Compacted(t, n))
  BY CompactRowsFacts DEF Extends, Compacted, Tables

\* A row that commits an operation still does in every extension.
LEMMA ExtendsKeepsCommits ==
  ASSUME NEW t, NEW u, Extends(t, u), NEW op, NEW a, NEW n,
         \E r \in t.ops : Commits(r, op, a, n)
  PROVE  \E r \in u.ops : Commits(r, op, a, n)
  BY DEF Extends, Commits

(***************************************************************************)
(* commitPrepared.                                                         *)
(***************************************************************************)

\* The verdict is one of the code's results, and a success carries a sequence.
LEMMA OutcomeType ==
  ASSUME NEW t \in Tables, NEW op \in Operation, NEW a \in Actor,
         Successful(Outcome(t, op, a))
  PROVE  Outcome(t, op, a) \in Outcomes
<1> DEFINE r == CHOOSE r \in Prior(t, op.id) : TRUE
<1>1. t.cursor + 1 \in Nat
  BY DEF Tables
<1>2. CASE Prior(t, op.id) # {}
  <2>1. r \in t.ops
    BY <1>2 DEF Prior
  <2>2. r.seq \in Nat
    BY <2>1 DEF Tables, Row
  <2> QED
    BY <1>2, <2>2 DEF Outcome, Outcomes, Successful
<1>3. CASE Prior(t, op.id) = {}
  BY <1>1, <1>3 DEF Outcome, Outcomes, Successful
<1> QED
  BY <1>2, <1>3

\* After a success the tables are well-typed, consistent, extend what they
\* were, and hold a row that commits exactly the operation that was asked for,
\* whether it was appended now, retained, or compacted away.
LEMMA CommitFacts ==
  ASSUME NEW t \in Tables, NEW op \in Operation, NEW a \in Actor,
         TablesConsistent(t), Successful(Outcome(t, op, a))
  PROVE  LET u == AfterCommit(t, op, a)
         IN  /\ u \in Tables
             /\ TablesConsistent(u)
             /\ Extends(t, u)
             /\ \E r \in u.ops : Commits(r, op, a, Outcome(t, op, a).seq)
<1> DEFINE u == AfterCommit(t, op, a)
           o == Outcome(t, op, a)
<1>1. CASE Prior(t, op.id) # {}
  <2> DEFINE r == CHOOSE r \in Prior(t, op.id) : TRUE
  <2>1. r \in t.ops /\ r.id = op.id
    BY <1>1 DEF Prior
  <2>2. SameIdentity(r, op, a) /\ o.seq = r.seq /\ o.tag # "Appended"
    BY <1>1 DEF Outcome, Successful
  <2>3. u = t
    BY <2>2 DEF AfterCommit
  <2>4. r.input \in {Null, r.hash}
    BY <2>1 DEF TablesConsistent, SnapshotIsReduction
  <2>5. Commits(r, op, a, o.seq)
    BY <2>1, <2>2, <2>4 DEF Commits, SameIdentity
  <2> QED
    BY <2>1, <2>3, <2>5, ExtendsItself
<1>2. CASE Prior(t, op.id) = {}
  <2>1. o = [tag |-> "Appended", seq |-> t.cursor + 1]
    BY <1>2 DEF Outcome, Successful
  <2>2. u = Insert(t, op, a)
    BY <2>1 DEF AfterCommit
  <2> DEFINE row == [id |-> op.id, seq |-> t.cursor + 1, actor |-> a,
                     input |-> op.data, hash |-> op.data]
  <2>3. row \in u.ops
    BY <2>2 DEF Insert
  <2>4. Commits(row, op, a, o.seq)
    BY <2>1 DEF Commits
  <2> HIDE DEF row, o
  <2>5. \E r \in u.ops : Commits(r, op, a, o.seq)
    BY <2>3, <2>4
  <2> QED
    BY <1>2, <2>2, <2>5, InsertType, InsertConsistent, InsertExtends DEF o
<1> QED
  BY <1>1, <1>2

(***************************************************************************)
(* The compaction floor.                                                   *)
(***************************************************************************)

\* A committed operation keeps the floor exact.
LEMMA InsertFloor ==
  ASSUME NEW t \in Tables, NEW op \in Operation, NEW a \in Actor, FloorIsExact(t)
  PROVE  FloorIsExact(Insert(t, op, a))
<1> DEFINE row == [id |-> op.id, seq |-> t.cursor + 1, actor |-> a,
                   input |-> op.data, hash |-> op.data]
           u == Insert(t, op, a)
<1>1. u.ops = t.ops \cup {row} /\ u.cursor = t.cursor + 1 /\ u.floor = t.floor
  BY DEF Insert
<1>2. t.cursor \in Nat /\ t.floor \in Nat /\ t.floor <= t.cursor
  BY DEF Tables, FloorIsExact
<1>3. row.input # Null /\ row.seq = t.cursor + 1
  BY NullAssumption DEF Operation
<1> HIDE DEF row, u
<1> QED
  BY <1>1, <1>2, <1>3 DEF FloorIsExact, u

\* Compaction from the floor on moves the floor and nothing below it.
LEMMA CompactedFloor ==
  ASSUME NEW t \in Tables, NEW n \in t.floor..t.cursor, FloorIsExact(t)
  PROVE  FloorIsExact(Compacted(t, n))
<1> DEFINE u == Compacted(t, n)
<1>1. /\ u.ops = CompactRows(t, n) /\ u.cursor = t.cursor
      /\ u.floor = IF t.cursor > 0 THEN n ELSE t.floor
      /\ t.ops \in SUBSET Row /\ t.cursor \in Nat /\ t.floor \in Nat /\ t.floor <= t.cursor
  BY DEF Compacted, HasDocument, Tables, FloorIsExact
<1>2. u.floor = n
  BY <1>1
<1>3. ASSUME NEW s \in u.ops PROVE s.input = Null <=> s.seq <= n
  <2>1. n \in Nat
    BY <1>1
  <2>2. PICK r \in t.ops : s = IF r.seq <= n THEN [r EXCEPT !.input = Null] ELSE r
    BY <1>1, <2>1, CompactRowsFacts
  <2>3. r.seq \in Nat /\ (r.input = Null <=> r.seq <= t.floor)
    BY <1>1 DEF Row, FloorIsExact
  <2>4. CASE r.seq <= n
    <3>1. s.input = Null /\ s.seq = r.seq
      BY <1>1, <2>2, <2>4 DEF Row
    <3> QED
      BY <2>4, <3>1
  <2>5. CASE ~(r.seq <= n)
    BY <1>1, <2>2, <2>3, <2>5
  <2> QED
    BY <2>4, <2>5
<1> HIDE DEF u
<1> QED
  BY <1>1, <1>2, <1>3 DEF FloorIsExact, u

\* A read from the floor on returns every later sequence.
LEMMA RowsAfterFloor ==
  ASSUME NEW t \in Tables, NEW after \in t.floor..t.cursor, FloorIsExact(t), GapFree(t)
  PROVE  {r.seq : r \in RowsAfter(t, after)} = (after + 1)..t.cursor
<1>1. t.cursor \in Nat /\ t.floor \in Nat
  BY DEF Tables
<1>2. ASSUME NEW r \in RowsAfter(t, after) PROVE r.seq \in (after + 1)..t.cursor
  BY <1>1 DEF RowsAfter, GapFree
<1>3. ASSUME NEW n \in (after + 1)..t.cursor PROVE \E r \in RowsAfter(t, after) : r.seq = n
  <2>1. n \in 1..t.cursor /\ n > after /\ ~(n <= t.floor)
    BY <1>1
  <2>2. PICK r \in t.ops : r.seq = n
    BY <2>1 DEF GapFree
  <2> QED
    BY <2>1, <2>2 DEF RowsAfter, FloorIsExact
<1> QED
  BY <1>2, <1>3
=============================================================================
