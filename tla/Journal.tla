------------------------------ MODULE Journal ------------------------------
(***************************************************************************)
(* One document of the durable journal under concurrent callers            *)
(* (packages/durable/src/journal.ts).  A caller is a fiber inside one of   *)
(* the journal's operations.  All share one SQLite connection: a           *)
(* transaction holds it, every other statement waits.  Between two         *)
(* statements of one operation another fiber may run (Preemptive), unless  *)
(* the callers are run to completion synchronously, as the examples do     *)
(* with Effect.runSync.                                                    *)
(***************************************************************************)
EXTENDS JournalTables, FiniteSets

CONSTANTS Caller,          \* fibers that call the journal
          Batch,           \* the appends they may make: [actor, ops : Seq(Operation)]
          Nobody,          \* no caller holds the connection
          Preemptive,      \* may fibers interleave between statements?
          Interruptible,   \* may a fiber be interrupted, the process killed?
          Resettable,      \* is the document ever reset?
          QueueSize        \* capacity of the sliding PubSub (1024)

ASSUME CallerAssumption == Nobody \notin Caller
ASSUME ModeAssumption   == {Preemptive, Interruptible, Resettable} \subseteq BOOLEAN
ASSUME QueueAssumption  == QueueSize \in Nat \ {0}
ASSUME BatchAssumption  ==
  \A b \in Batch : b.actor \in Actor /\ b.ops \in Seq(Operation) /\ b.ops # <<>>

VARIABLES db,       \* the committed tables
          holder,   \* the caller whose transaction holds the connection
          staged,   \* the tables as that transaction sees them
          pc,       \* where each caller is
          call,     \* what each caller is doing: arguments and partial results
          answers,  \* history: the successful answers given since the last reset
          wake,     \* keys queued in `changes` for the subscriber
          seen      \* the cursor the subscriber has reconciled to

vars == <<db, holder, staged, pc, call, answers, wake, seen>>

Idle == [kind |-> "idle"]

\* No statement runs while another caller's transaction holds the connection.
Connected == holder = Nobody

\* A synchronous caller is never preempted by another one.
MayRun(c) == Preemptive \/ \A d \in Caller \ {c} : pc[d] = "idle"

Init ==
  /\ db = Empty
  /\ holder = Nobody
  /\ staged = Empty
  /\ pc = [c \in Caller |-> "idle"]
  /\ call = [c \in Caller |-> Idle]
  /\ answers = {}
  /\ wake = 0
  /\ seen = 0

Goto(c, label, record) ==
  /\ pc' = [pc EXCEPT ![c] = label]
  /\ call' = [call EXCEPT ![c] = record]

(***************************************************************************)
(* append and appendAll: one transaction over a batch, then the            *)
(* announcements.  append is the batch of one.                             *)
(***************************************************************************)

\* BEGIN.
AppendBegin(c) ==
  /\ pc[c] = "idle" /\ MayRun(c) /\ Connected
  /\ \E b \in Batch :
       Goto(c, "tx", [kind |-> "append", batch |-> b, outcomes |-> <<>>])
  /\ holder' = c
  /\ staged' = db
  /\ UNCHANGED <<db, answers, wake, seen>>

\* Mutant: the connection is not given back.
RollbackLeaks(c) == holder' = holder /\ staged' = db /\ Goto(c, "idle", Idle)

\* Mutant: the batch's earlier operations stay applied.
RollbackPartly(c) == holder' = Nobody /\ staged' = staged /\ Goto(c, "idle", Idle)

Rollback(c) ==
  /\ holder' = Nobody
  /\ staged' = db
  /\ Goto(c, "idle", Idle)

\* commitPrepared on the next operation of the batch; any failure rolls the
\* whole transaction back.
CommitPrepared(c) ==
  LET b == call[c].batch
      i == Len(call[c].outcomes) + 1
      o == Outcome(staged, b.ops[i], b.actor)
  IN  /\ pc[c] = "tx" /\ MayRun(c)
      /\ i <= Len(b.ops)
      /\ IF Successful(o)
           THEN /\ staged' = AfterCommit(staged, b.ops[i], b.actor)
                /\ call' = [call EXCEPT ![c].outcomes = Append(@, o)]
                /\ UNCHANGED <<holder, pc>>
           ELSE Rollback(c)
      /\ UNCHANGED <<db, answers, wake, seen>>

\* COMMIT.  From here on the outcomes are what the caller is answered.
AppendCommit(c) ==
  LET b == call[c].batch
      o == call[c].outcomes
  IN  /\ pc[c] = "tx" /\ MayRun(c)
      /\ Len(o) = Len(b.ops)
      /\ db' = staged
      /\ holder' = Nobody
      /\ answers' = answers \cup
           {[id |-> b.ops[i].id, data |-> b.ops[i].data, actor |-> b.actor,
             seq |-> o[i].seq] : i \in DOMAIN o}
      /\ Goto(c, "announce", call[c])
      /\ UNCHANGED <<staged, wake, seen>>

Least(m, n) == IF m <= n THEN m ELSE n

\* announce, then the results are returned: one key per changed outcome goes
\* to the sliding queue.
Announce(c) ==
  LET o == call[c].outcomes
      changed == {i \in DOMAIN o : o[i].tag = "Appended"}
  IN  /\ pc[c] = "announce" /\ MayRun(c)
      /\ wake' = Least(wake + Cardinality(changed), QueueSize)
      /\ Goto(c, "idle", Idle)
      /\ UNCHANGED <<db, holder, staged, answers, seen>>

(***************************************************************************)
(* read: the bounds in one statement, the rows in a second one.            *)
(***************************************************************************)

\* Mutant: no test against the compaction floor.
ReadBoundsUnfloored(c) ==
  /\ pc[c] = "idle" /\ MayRun(c) /\ Connected
  /\ \E after \in 0..db.cursor :
       Goto(c, "rows", [kind |-> "read", after |-> after, cursor |-> db.cursor, rows |-> {}])
  /\ UNCHANGED <<db, holder, staged, answers, wake, seen>>

\* An InvalidCursorError or CompactedCursorError returns at once.
ReadBounds(c) ==
  /\ pc[c] = "idle" /\ MayRun(c) /\ Connected
  /\ \E after \in db.floor..db.cursor :
       Goto(c, "rows", [kind |-> "read", after |-> after, cursor |-> db.cursor,
                        rows |-> {}])
  /\ UNCHANGED <<db, holder, staged, answers, wake, seen>>

ReadRows(c) ==
  /\ pc[c] = "rows" /\ MayRun(c) /\ Connected
  /\ Goto(c, "return", [call[c] EXCEPT !.rows = RowsAfter(db, call[c].after)])
  /\ UNCHANGED <<db, holder, staged, answers, wake, seen>>

ReadReturn(c) ==
  /\ pc[c] = "return" /\ MayRun(c)
  /\ Goto(c, "idle", Idle)
  /\ UNCHANGED <<db, holder, staged, answers, wake, seen>>

(***************************************************************************)
(* compact: the bounds are checked before the transaction that writes.     *)
(***************************************************************************)

CompactCheck(c) ==
  /\ pc[c] = "idle" /\ MayRun(c) /\ Connected
  /\ \E through \in db.floor..db.cursor :
       Goto(c, "compact", [kind |-> "compact", through |-> through])
  /\ UNCHANGED <<db, holder, staged, answers, wake, seen>>

CompactWrite(c) ==
  /\ pc[c] = "compact" /\ MayRun(c) /\ Connected
  /\ db' = Compacted(db, call[c].through)
  /\ staged' = db'
  /\ Goto(c, "idle", Idle)
  /\ UNCHANGED <<holder, answers, wake, seen>>

\* reset deletes both tables' rows in one transaction and announces nothing.
Reset(c) ==
  /\ Resettable
  /\ pc[c] = "idle" /\ MayRun(c) /\ Connected
  /\ db' = Empty
  /\ staged' = Empty
  /\ answers' = {}
  /\ UNCHANGED <<holder, pc, call, wake, seen>>

(***************************************************************************)
(* The subscriber takes a key and reconciles by loading the document.      *)
(***************************************************************************)

\* Mutant: one key is taken for one operation.
ObserveOne ==
  /\ wake > 0 /\ Connected
  /\ Preemptive \/ \A c \in Caller : pc[c] = "idle"
  /\ wake' = wake - 1
  /\ seen' = Least(seen + 1, db.cursor)
  /\ UNCHANGED <<db, holder, staged, pc, call, answers>>

Observe ==
  /\ wake > 0 /\ Connected
  /\ Preemptive \/ \A c \in Caller : pc[c] = "idle"
  /\ wake' = wake - 1
  /\ seen' = db.cursor
  /\ UNCHANGED <<db, holder, staged, pc, call, answers>>

(***************************************************************************)
(* Interruption of a fiber and death of the process.                       *)
(***************************************************************************)

\* An open transaction is rolled back; a committed one stays, announced or not.
\* A synchronous caller cannot be interrupted, only killed.
Interrupt(c) ==
  /\ Interruptible /\ Preemptive
  /\ pc[c] # "idle"
  /\ IF holder = c
       THEN Rollback(c)
       ELSE Goto(c, "idle", Idle) /\ UNCHANGED <<holder, staged>>
  /\ UNCHANGED <<db, answers, wake, seen>>

\* SQLite drops the open transaction; the restarted subscriber loads first.
Crash ==
  /\ Interruptible
  /\ holder' = Nobody
  /\ staged' = db
  /\ pc' = [c \in Caller |-> "idle"]
  /\ call' = [c \in Caller |-> Idle]
  /\ wake' = 0
  /\ seen' = db.cursor
  /\ UNCHANGED <<db, answers>>

Step(c) == \/ AppendBegin(c) \/ CommitPrepared(c) \/ AppendCommit(c) \/ Announce(c)
           \/ ReadBounds(c) \/ ReadRows(c) \/ ReadReturn(c)
           \/ CompactCheck(c) \/ CompactWrite(c)
           \/ Reset(c)
           \/ Interrupt(c)

Next == (\E c \in Caller : Step(c)) \/ Observe \/ Crash

Spec == Init /\ [][Next]_vars

\* Every started call runs on, and the subscriber's fiber waits in the FIFO
\* queue of the connection's semaphore, so it is not passed over for ever.
Fairness ==
  /\ \A c \in Caller :
       /\ WF_vars(CommitPrepared(c) \/ AppendCommit(c) \/ Announce(c) \/ ReadReturn(c))
       /\ SF_vars(ReadRows(c) \/ CompactWrite(c))
  /\ SF_vars(Observe)

FairSpec == Spec /\ Fairness

(***************************************************************************)
(* Properties                                                              *)
(***************************************************************************)

CallOK(c) ==
  CASE pc[c] = "idle"     -> call[c] = Idle
    [] pc[c] \in {"tx", "announce"} ->
         /\ call[c] \in [kind : {"append"}, batch : Batch, outcomes : Seq(Outcomes)]
         /\ Len(call[c].outcomes) <= Len(call[c].batch.ops)
    [] pc[c] \in {"rows", "return"} ->
         call[c] \in [kind : {"read"}, after : Nat, cursor : Nat, rows : SUBSET Row]
    [] pc[c] = "compact"  -> call[c] \in [kind : {"compact"}, through : Nat]
    [] OTHER -> FALSE

Answer == [id : OpId, data : Data, actor : Actor, seq : Nat]

\* Types of all variables, and who is where: exactly the holder of the
\* connection is inside a transaction.
TypeOK ==
  /\ db \in Tables /\ staged \in Tables
  /\ holder \in Caller \cup {Nobody}
  /\ pc \in [Caller -> {"idle", "tx", "announce", "rows", "return", "compact"}]
  /\ DOMAIN call = Caller
  /\ \A c \in Caller : CallOK(c) /\ (pc[c] = "tx" <=> holder = c)
  /\ answers \in SUBSET Answer
  /\ wake \in 0..QueueSize
  /\ seen \in Nat

\* Committed order is gap-free, an identity is committed once, and the
\* snapshot is the reduction of exactly the committed operations, whatever
\* interleaving, interruption, rollback or compaction came before
\* (commitPrepared and its transaction, journal.ts:596-733).
Consistent == TablesConsistent(db)

\* An answer given to a caller stays true: the operation it names is committed
\* under that sequence with that payload and actor, after crashes, later
\* batches, retries and compaction.  An identity reused with other content is
\* never answered as a success.
AnswersHold ==
  \A a \in answers : \E r \in db.ops : Commits(r, a, a.actor, a.seq)

\* The open transaction sees the committed tables and its own operations on
\* top of them, consistent at every statement, and every outcome it has
\* reached so far names a row it would commit.
TransactionOK ==
  /\ holder = Nobody => staged = db
  /\ TablesConsistent(staged)
  /\ Extends(db, staged)
  /\ \A c \in Caller : pc[c] = "tx" =>
       \A i \in DOMAIN call[c].outcomes : \E r \in staged.ops :
         Commits(r, call[c].batch.ops[i], call[c].batch.actor, call[c].outcomes[i].seq)

\* The compaction floor is "the highest sequence whose payload has been
\* compacted away" (journal.ts:165): payloads are missing up to it and
\* present above it.
FloorIsHighestCompacted == FloorIsExact(db)

\* The tail read returns starts right after the given cursor, has no gap and
\* reaches the cursor the call checked against: "Fail closed rather than
\* returning a tail that silently starts late" (journal.ts:525-526).
ReadIsContiguous ==
  \A c \in Caller : pc[c] = "return" =>
    LET tail == {r.seq : r \in call[c].rows}
        last == call[c].after + Cardinality(tail)
    IN  tail = (call[c].after + 1)..last /\ last >= call[c].cursor

\* A subscriber behind the log has a wake-up queued, or an appender is about
\* to queue one (announce runs after COMMIT and the queue slides).
WakePending ==
  seen < db.cursor =>
    \/ wake > 0
    \/ \E c \in Caller : /\ pc[c] = "announce"
                         /\ \E i \in DOMAIN call[c].outcomes :
                              call[c].outcomes[i].tag = "Appended"

\* Readers are served whole: payloads are missing exactly up to the floor, a
\* tail has no gap, and a subscriber behind the log will be woken.
ReadersAreServed == FloorIsHighestCompacted /\ ReadIsContiguous /\ WakePending

\* Nothing but reset takes a committed operation back: the old snapshot stays
\* a prefix of the new one and every row keeps its identity, sequence, actor
\* and hash.
HistoryIsStable ==
  [][db' = Empty \/ Extends(db, db')]_db

\* The subscriber reaches every committed cursor (unless the document is
\* reset under it), although the queue drops keys.
CommittedIsSeen ==
  \A n \in 1..Cardinality(OpId) :
    db.cursor >= n ~> (seen >= n \/ db.cursor < n)
=============================================================================
