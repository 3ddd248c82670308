--------------------------- MODULE JournalProofs ---------------------------
(***************************************************************************)
(* What holds of Journal for every set of callers, operations, payloads,   *)
(* batches and verdicts, in every scheduling mode: types, consistency of   *)
(* the committed tables, truth of the answers and stability of history.    *)
(***************************************************************************)
EXTENDS Journal, JournalTablesProofs, FiniteSetTheorems, TLAPS

(***************************************************************************)
(* The inductive invariant.  Consistency of the committed tables alone is  *)
(* not inductive: COMMIT installs `staged`, so what the open transaction   *)
(* sees must be consistent too, extend the committed tables, and hold the  *)
(* rows its outcomes promise, which COMMIT turns into answers.             *)
(***************************************************************************)

IInv == TypeOK /\ Consistent /\ AnswersHold /\ TransactionOK

\* What every step does to the committed history.
HistoryStep == db' = Empty \/ Extends(db, db')

\* Initially nothing is committed, staged or answered.
LEMMA InitIInv == Init => IInv
<1> SUFFICES ASSUME Init PROVE IInv
  OBVIOUS
<1>1. TypeOK
  <2>1. ASSUME NEW c \in Caller PROVE CallOK(c) /\ (pc[c] = "tx" <=> holder = c)
    BY CallerAssumption DEF Init, CallOK
  <2> QED
    BY <2>1, EmptyTables, QueueAssumption DEF Init, TypeOK
<1>2. Consistent /\ AnswersHold
  BY EmptyTables DEF Init, Consistent, AnswersHold
<1>3. TransactionOK
  BY EmptyTables, ExtendsItself DEF Init, TransactionOK
<1> QED
  BY <1>1, <1>2, <1>3 DEF IInv

\* A caller that moves, into or out of anything but a transaction, with a
\* well-formed record, leaves every other caller as it was.
LEMMA GotoCallers ==
  ASSUME IInv, NEW c \in Caller, NEW l \in {"idle", "announce", "rows", "return", "compact"},
         NEW r, Goto(c, l, r), CallOK(c)', pc[c] = "tx" => holder' = Nobody,
         pc[c] # "tx" => holder' = holder
  PROVE  /\ pc' \in [Caller -> {"idle", "tx", "announce", "rows", "return", "compact"}]
         /\ DOMAIN call' = Caller
         /\ \A d \in Caller : CallOK(d)' /\ (pc'[d] = "tx" <=> holder' = d)
         /\ \A d \in Caller : pc'[d] = "tx" => pc[d] = "tx" /\ call'[d] = call[d]
<1>1. /\ pc \in [Caller -> {"idle", "tx", "announce", "rows", "return", "compact"}]
      /\ DOMAIN call = Caller
      /\ \A d \in Caller : CallOK(d) /\ (pc[d] = "tx" <=> holder = d)
  BY DEF IInv, TypeOK
<1>2. /\ pc' = [pc EXCEPT ![c] = l]
      /\ call' = [call EXCEPT ![c] = r]
  BY DEF Goto
<1>3. ASSUME NEW d \in Caller \ {c} PROVE CallOK(d)' /\ pc'[d] = pc[d] /\ call'[d] = call[d]
  BY <1>1, <1>2 DEF CallOK
<1>4. pc'[c] = l
  BY <1>1, <1>2
<1>5. ASSUME NEW d \in Caller PROVE pc'[d] = "tx" <=> holder' = d
  BY <1>1, <1>3, <1>4, CallerAssumption
<1> QED
  BY <1>1, <1>2, <1>3, <1>4, <1>5

\* A step outside transactions that leaves the tables and the connection alone.
LEMMA QuietStep ==
  ASSUME IInv, NEW c \in Caller, NEW l \in {"idle", "announce", "rows", "return", "compact"},
         NEW r, Goto(c, l, r), CallOK(c)', pc[c] # "tx",
         UNCHANGED <<db, holder, staged, answers, seen>>, wake' \in 0..QueueSize
  PROVE  IInv' /\ HistoryStep
<1>1. TypeOK'
  BY GotoCallers DEF IInv, TypeOK
<1>2. Consistent' /\ AnswersHold'
  BY DEF IInv, Consistent, AnswersHold
<1>3. TransactionOK'
  <2>1. \A d \in Caller : pc'[d] = "tx" => pc[d] = "tx" /\ call'[d] = call[d]
    BY GotoCallers
  <2> QED
    BY <2>1 DEF IInv, TransactionOK
<1>4. HistoryStep
  BY ExtendsItself DEF HistoryStep, IInv, TypeOK
<1> QED
  BY <1>1, <1>2, <1>3, <1>4 DEF IInv

\* ROLLBACK: the transaction never happened.
LEMMA RollbackStep ==
  ASSUME IInv, NEW c \in Caller, holder = c, Rollback(c),
         UNCHANGED <<db, answers, wake, seen>>
  PROVE  IInv' /\ HistoryStep
<1>1. pc[c] = "tx"
  BY DEF IInv, TypeOK
<1>2. Goto(c, "idle", Idle) /\ holder' = Nobody /\ staged' = db
  BY DEF Rollback
<1>3. CallOK(c)'
  BY <1>2 DEF Goto, CallOK, IInv, TypeOK
<1>4. /\ pc' \in [Caller -> {"idle", "tx", "announce", "rows", "return", "compact"}]
      /\ DOMAIN call' = Caller
      /\ \A d \in Caller : CallOK(d)' /\ (pc'[d] = "tx" <=> holder' = d)
  BY <1>1, <1>2, <1>3, GotoCallers
<1>5. TypeOK'
  BY <1>2, <1>4 DEF IInv, TypeOK
<1>6. Consistent' /\ AnswersHold'
  BY DEF IInv, Consistent, AnswersHold
<1>7. \A d \in Caller : pc'[d] # "tx"
  BY <1>2, <1>4, CallerAssumption
<1>8. TransactionOK'
  BY <1>2, <1>7, ExtendsItself DEF IInv, TypeOK, Consistent, TransactionOK
<1>9. HistoryStep
  BY ExtendsItself DEF HistoryStep, IInv, TypeOK
<1> QED
  BY <1>5, <1>6, <1>8, <1>9 DEF IInv

(***************************************************************************)
(* append, appendAll.                                                      *)
(***************************************************************************)

\* BEGIN stages the committed tables, with no outcome yet.
LEMMA AppendBeginStep ==
  ASSUME IInv, NEW c \in Caller, AppendBegin(c)
  PROVE  IInv' /\ HistoryStep
<1>1. /\ holder = Nobody /\ holder' = c /\ staged' = db
      /\ UNCHANGED <<db, answers, wake, seen>>
  BY DEF AppendBegin, Connected
<1>2. PICK b \in Batch :
        Goto(c, "tx", [kind |-> "append", batch |-> b, outcomes |-> <<>>])
  BY DEF AppendBegin
<1>3. /\ pc \in [Caller -> {"idle", "tx", "announce", "rows", "return", "compact"}]
      /\ DOMAIN call = Caller
      /\ \A d \in Caller : CallOK(d) /\ (pc[d] = "tx" <=> holder = d)
  BY DEF IInv, TypeOK
<1>4. \A d \in Caller : pc[d] # "tx"
  BY <1>1, <1>3, CallerAssumption
<1>5. pc'[c] = "tx" /\ call'[c] = [kind |-> "append", batch |-> b, outcomes |-> <<>>]
  BY <1>2, <1>3 DEF Goto
<1>6. \A d \in Caller \ {c} : pc'[d] = pc[d] /\ call'[d] = call[d]
  BY <1>2, <1>3 DEF Goto
<1>7. TypeOK'
  <2>1. CallOK(c)'
    BY <1>5, BatchAssumption DEF CallOK
  <2>2. \A d \in Caller \ {c} : CallOK(d)'
    BY <1>3, <1>6 DEF CallOK
  <2>3. \A d \in Caller : pc'[d] = "tx" <=> holder' = d
    BY <1>1, <1>4, <1>5, <1>6
  <2>4. /\ pc' \in [Caller -> {"idle", "tx", "announce", "rows", "return", "compact"}]
        /\ DOMAIN call' = Caller
    BY <1>2, <1>3 DEF Goto
  <2> QED
    BY <1>1, <2>1, <2>2, <2>3, <2>4 DEF IInv, TypeOK
<1>8. Consistent' /\ AnswersHold'
  BY <1>1 DEF IInv, Consistent, AnswersHold
<1>9. TransactionOK'
  <2>1. \A d \in Caller : pc'[d] = "tx" => call'[d].outcomes = <<>>
    BY <1>4, <1>5, <1>6
  <2> QED
    BY <1>1, <2>1, ExtendsItself, CallerAssumption
    DEF IInv, TypeOK, Consistent, TransactionOK
<1>10. HistoryStep
  BY <1>1, ExtendsItself DEF HistoryStep, IInv, TypeOK
<1> QED
  BY <1>7, <1>8, <1>9, <1>10 DEF IInv

\* One more operation of the open batch, or the rollback of all of it.
LEMMA CommitPreparedStep ==
  ASSUME IInv, NEW c \in Caller, CommitPrepared(c)
  PROVE  IInv' /\ HistoryStep
<1> DEFINE b == call[c].batch
           os == call[c].outcomes
           i == Len(os) + 1
           op == b.ops[i]
           o == Outcome(staged, op, b.actor)
<1>1. pc[c] = "tx" /\ i <= Len(b.ops) /\ UNCHANGED <<db, answers, wake, seen>>
  BY DEF CommitPrepared
<1>2. /\ pc \in [Caller -> {"idle", "tx", "announce", "rows", "return", "compact"}]
      /\ DOMAIN call = Caller
      /\ \A d \in Caller : CallOK(d) /\ (pc[d] = "tx" <=> holder = d)
      /\ staged \in Tables /\ db \in Tables
  BY DEF IInv, TypeOK
<1>3. /\ call[c] \in [kind : {"append"}, batch : Batch, outcomes : Seq(Outcomes)]
      /\ holder = c
  BY <1>1, <1>2 DEF CallOK
<1>4. op \in Operation /\ b.actor \in Actor /\ os \in Seq(Outcomes) /\ b \in Batch
  BY <1>1, <1>3, BatchAssumption
<1>5. CASE ~Successful(o)
  <2>1. Rollback(c)
    BY <1>5 DEF CommitPrepared
  <2> QED
    BY <1>1, <1>3, <2>1, RollbackStep
<1>6. CASE Successful(o)
  <2>1. /\ staged' = AfterCommit(staged, op, b.actor)
        /\ call' = [call EXCEPT ![c].outcomes = Append(@, o)]
        /\ holder' = holder /\ pc' = pc
    BY <1>6 DEF CommitPrepared
  <2>2. TablesConsistent(staged) /\ Extends(db, staged)
    BY DEF IInv, TransactionOK
  <2>3. /\ staged' \in Tables /\ TablesConsistent(staged') /\ Extends(staged, staged')
        /\ \E r \in staged'.ops : Commits(r, op, b.actor, o.seq)
    BY <1>2, <1>4, <1>6, <2>1, <2>2, CommitFacts
  <2>4. o \in Outcomes
    BY <1>2, <1>4, <1>6, OutcomeType
  <2>5. /\ call'[c] = [kind |-> "append", batch |-> b, outcomes |-> Append(os, o)]
        /\ DOMAIN call' = Caller
        /\ \A d \in Caller \ {c} : call'[d] = call[d]
    BY <1>2, <1>3, <2>1
  <2>6. TypeOK'
    <3>1. CallOK(c)'
      <4>1. Append(os, o) \in Seq(Outcomes) /\ Len(Append(os, o)) = i
        BY <1>4, <2>4
      <4>2. /\ call'[c].outcomes = Append(os, o) /\ call'[c].batch = b
            /\ call'[c] \in [kind : {"append"}, batch : Batch, outcomes : Seq(Outcomes)]
        BY <1>4, <2>5, <4>1
      <4> HIDE DEF o, op, i
      <4>3. pc'[c] = "tx" /\ i <= Len(b.ops)
        BY <1>1, <2>1
      <4> QED
        BY <4>1, <4>2, <4>3 DEF CallOK
    <3>2. \A d \in Caller \ {c} : CallOK(d)'
      BY <1>2, <2>1, <2>5 DEF CallOK
    <3> QED
      BY <1>1, <1>2, <2>1, <2>3, <2>5, <3>1, <3>2 DEF IInv, TypeOK
  <2>7. Consistent' /\ AnswersHold'
    BY <1>1 DEF IInv, Consistent, AnswersHold
  <2>8. Extends(db, staged')
    BY <1>2, <2>2, <2>3, ExtendsTransitive
  <2>9. ASSUME NEW j \in DOMAIN call'[c].outcomes
        PROVE  \E r \in staged'.ops :
                 Commits(r, call'[c].batch.ops[j], call'[c].batch.actor,
                         call'[c].outcomes[j].seq)
    <3>1. CASE j = i
      <4>1. call'[c].outcomes[j] = o /\ call'[c].batch = b
        BY <1>4, <2>4, <2>5, <3>1
      <4> QED
        BY <2>3, <3>1, <4>1
    <3>2. CASE j \in DOMAIN os
      <4>1. call'[c].outcomes[j] = os[j] /\ call'[c].batch = b
        BY <1>4, <2>4, <2>5, <3>2
      <4>2. \E r \in staged.ops : Commits(r, b.ops[j], b.actor, os[j].seq)
        BY <1>1, <3>2 DEF IInv, TransactionOK
      <4> QED
        BY <2>3, <4>1, <4>2, ExtendsKeepsCommits
    <3>3. j = i \/ j \in DOMAIN os
      <4>1. call'[c].outcomes = Append(os, o)
        BY <2>5
      <4>2. DOMAIN Append(os, o) = DOMAIN os \cup {i}
        BY <1>4, <2>4
      <4> QED
        BY <4>1, <4>2
    <3> QED
      BY <3>1, <3>2, <3>3
  <2>10. \A d \in Caller : pc'[d] = "tx" => d = c
    BY <1>2, <1>3, <2>1
  <2>11. TransactionOK'
    BY <1>1, <1>3, <2>1, <2>3, <2>8, <2>9, <2>10, CallerAssumption DEF TransactionOK
  <2>12. HistoryStep
    BY <1>1, <1>2, ExtendsItself DEF HistoryStep
  <2> QED
    BY <2>6, <2>7, <2>11, <2>12 DEF IInv
<1> QED
  BY <1>5, <1>6

\* COMMIT: what the outcomes promised is now what the answers claim.
LEMMA AppendCommitStep ==
  ASSUME IInv, NEW c \in Caller, AppendCommit(c)
  PROVE  IInv' /\ HistoryStep
<1> DEFINE b == call[c].batch
           os == call[c].outcomes
           new == {[id |-> b.ops[i].id, data |-> b.ops[i].data, actor |-> b.actor,
                    seq |-> os[i].seq] : i \in DOMAIN os}
<1>1. /\ pc[c] = "tx" /\ Len(os) = Len(b.ops) /\ db' = staged /\ holder' = Nobody
      /\ answers' = answers \cup new /\ Goto(c, "announce", call[c])
      /\ UNCHANGED <<staged, wake, seen>>
  BY DEF AppendCommit
<1>2. /\ pc \in [Caller -> {"idle", "tx", "announce", "rows", "return", "compact"}]
      /\ DOMAIN call = Caller
      /\ \A d \in Caller : CallOK(d) /\ (pc[d] = "tx" <=> holder = d)
      /\ staged \in Tables /\ db \in Tables /\ answers \in SUBSET Answer
  BY DEF IInv, TypeOK
<1>3. /\ call[c] \in [kind : {"append"}, batch : Batch, outcomes : Seq(Outcomes)]
      /\ holder = c
  BY <1>1, <1>2 DEF CallOK
<1>4. CallOK(c)'
  BY <1>1, <1>2, <1>3 DEF Goto, CallOK
<1>5. /\ pc' \in [Caller -> {"idle", "tx", "announce", "rows", "return", "compact"}]
      /\ DOMAIN call' = Caller
      /\ \A d \in Caller : CallOK(d)' /\ (pc'[d] = "tx" <=> holder' = d)
  BY <1>1, <1>4, GotoCallers
<1>6. new \in SUBSET Answer
  <2>1. ASSUME NEW i \in DOMAIN os
        PROVE  b.ops[i] \in Operation /\ b.actor \in Actor /\ os[i] \in Outcomes
    <3>1. os \in Seq(Outcomes) /\ b \in Batch
      BY <1>3
    <3>2. b.ops \in Seq(Operation) /\ b.actor \in Actor
      BY <3>1, BatchAssumption
    <3> QED
      BY <1>1, <3>1, <3>2
  <2> QED
    BY <2>1 DEF Answer, Operation, Outcomes
<1>7. TypeOK'
  BY <1>1, <1>2, <1>5, <1>6 DEF IInv, TypeOK
<1>8. Consistent'
  BY <1>1 DEF IInv, TransactionOK, Consistent
<1>9. Extends(db, staged)
  BY DEF IInv, TransactionOK
<1>10. AnswersHold'
  <2>1. ASSUME NEW a \in answers PROVE \E r \in db'.ops : Commits(r, a, a.actor, a.seq)
    BY <1>1, <1>9, ExtendsKeepsCommits DEF IInv, AnswersHold
  <2>2. ASSUME NEW a \in new PROVE \E r \in db'.ops : Commits(r, a, a.actor, a.seq)
    <3>1. PICK i \in DOMAIN os :
            a = [id |-> b.ops[i].id, data |-> b.ops[i].data, actor |-> b.actor,
                 seq |-> os[i].seq]
      OBVIOUS
    <3>2. \E r \in staged.ops : Commits(r, b.ops[i], b.actor, os[i].seq)
      BY <1>1 DEF IInv, TransactionOK
    <3> QED
      BY <1>1, <3>1, <3>2 DEF Commits
  <2> QED
    BY <1>1, <2>1, <2>2 DEF AnswersHold
<1>11. \A d \in Caller : pc'[d] # "tx"
  BY <1>1, <1>5, CallerAssumption
<1>12. TransactionOK'
  BY <1>1, <1>2, <1>8, <1>11, ExtendsItself DEF TransactionOK, Consistent
<1>13. HistoryStep
  BY <1>1, <1>9 DEF HistoryStep
<1> QED
  BY <1>7, <1>8, <1>10, <1>12, <1>13 DEF IInv

(***************************************************************************)
(* compact, reset, the subscriber and the crash.                           *)
(***************************************************************************)

\* A step between transactions that replaces the committed tables by
\* consistent ones.
LEMMA ReplaceTables ==
  ASSUME IInv, holder' = Nobody, staged' = db', db' \in Tables, TablesConsistent(db'),
         \A d \in Caller : CallOK(d)' /\ pc'[d] # "tx",
         pc' \in [Caller -> {"idle", "tx", "announce", "rows", "return", "compact"}],
         DOMAIN call' = Caller, answers' \in SUBSET Answer, wake' \in 0..QueueSize,
         seen' \in Nat, AnswersHold'
  PROVE  IInv'
<1>1. TypeOK'
  BY CallerAssumption DEF TypeOK
<1>2. TransactionOK'
  BY ExtendsItself DEF TransactionOK
<1> QED
  BY <1>1, <1>2 DEF IInv, Consistent

\* The check may be stale, but compaction takes nothing back.
LEMMA CompactWriteStep ==
  ASSUME IInv, NEW c \in Caller, CompactWrite(c)
  PROVE  IInv' /\ HistoryStep
<1> DEFINE n == call[c].through
<1>1. /\ pc[c] = "compact" /\ holder = Nobody /\ db' = Compacted(db, n)
      /\ staged' = db' /\ Goto(c, "idle", Idle) /\ UNCHANGED <<holder, answers, wake, seen>>
  BY DEF CompactWrite, Connected
<1>2. db \in Tables /\ TablesConsistent(db) /\ n \in Nat
  BY <1>1 DEF IInv, TypeOK, CallOK, Consistent
<1>3. db' \in Tables /\ TablesConsistent(db') /\ Extends(db, db')
  BY <1>1, <1>2, CompactedType, CompactedConsistent, CompactedExtends
<1>4. CallOK(c)'
  BY <1>1 DEF Goto, CallOK, IInv, TypeOK
<1>5. /\ pc' \in [Caller -> {"idle", "tx", "announce", "rows", "return", "compact"}]
      /\ DOMAIN call' = Caller
      /\ \A d \in Caller : CallOK(d)' /\ (pc'[d] = "tx" <=> holder' = d)
  BY <1>1, <1>4, GotoCallers
<1>6. \A d \in Caller : pc'[d] # "tx"
  BY <1>1, <1>5, CallerAssumption
<1>7. AnswersHold'
  BY <1>1, <1>3, ExtendsKeepsCommits DEF IInv, AnswersHold
<1>8. answers' \in SUBSET Answer /\ wake' \in 0..QueueSize /\ seen' \in Nat
  BY <1>1 DEF IInv, TypeOK
<1> QED
  BY <1>1, <1>3, <1>5, <1>6, <1>7, <1>8, ReplaceTables DEF HistoryStep

\* reset forgets the document and every answer about it.
LEMMA ResetStep ==
  ASSUME IInv, NEW c \in Caller, Reset(c)
  PROVE  IInv' /\ HistoryStep
<1>1. /\ holder = Nobody /\ db' = Empty /\ staged' = Empty /\ answers' = {}
      /\ UNCHANGED <<holder, pc, call, wake, seen>>
  BY DEF Reset, Connected
<1>2. /\ pc \in [Caller -> {"idle", "tx", "announce", "rows", "return", "compact"}]
      /\ DOMAIN call = Caller /\ wake \in 0..QueueSize /\ seen \in Nat
      /\ \A d \in Caller : CallOK(d) /\ (pc[d] = "tx" <=> holder = d)
  BY DEF IInv, TypeOK
<1>3. \A d \in Caller : CallOK(d)' /\ pc'[d] # "tx"
  BY <1>1, <1>2, CallerAssumption DEF CallOK
<1>4. AnswersHold'
  BY <1>1 DEF AnswersHold
<1>5. IInv'
  BY <1>1, <1>2, <1>3, <1>4, EmptyTables, ReplaceTables
<1> QED
  BY <1>1, <1>5 DEF HistoryStep

\* The death of the process rolls the open transaction back.
LEMMA CrashStep ==
  ASSUME IInv, Crash
  PROVE  IInv' /\ HistoryStep
<1>1. /\ holder' = Nobody /\ staged' = db /\ pc' = [c \in Caller |-> "idle"]
      /\ call' = [c \in Caller |-> Idle] /\ wake' = 0 /\ seen' = db.cursor
      /\ UNCHANGED <<db, answers>>
  BY DEF Crash
<1>2. /\ db \in Tables /\ TablesConsistent(db) /\ answers \in SUBSET Answer
      /\ db.cursor \in Nat
  BY DEF IInv, TypeOK, Consistent, Tables
<1>3. \A d \in Caller : CallOK(d)' /\ pc'[d] # "tx"
  BY <1>1 DEF CallOK
<1>4. AnswersHold'
  BY <1>1 DEF IInv, AnswersHold
<1>5. wake' \in 0..QueueSize
  BY <1>1, QueueAssumption
<1>6. IInv'
  BY <1>1, <1>2, <1>3, <1>4, <1>5, ReplaceTables
<1> QED
  BY <1>1, <1>2, <1>6, ExtendsItself DEF HistoryStep

\* The subscriber only reads.
LEMMA ObserveStep ==
  ASSUME IInv, Observe
  PROVE  IInv' /\ HistoryStep
<1>1. /\ wake > 0 /\ wake' = wake - 1 /\ seen' = db.cursor
      /\ UNCHANGED <<db, holder, staged, pc, call, answers>>
  BY DEF Observe
<1>2. wake' \in 0..QueueSize /\ seen' \in Nat
  BY <1>1, QueueAssumption DEF IInv, TypeOK, Tables
<1>3. TypeOK'
  BY <1>1, <1>2 DEF IInv, TypeOK, CallOK
<1>4. Consistent' /\ AnswersHold' /\ TransactionOK'
  BY <1>1 DEF IInv, Consistent, AnswersHold, TransactionOK
<1>5. HistoryStep
  BY <1>1, ExtendsItself DEF HistoryStep, IInv, TypeOK
<1> QED
  BY <1>3, <1>4, <1>5 DEF IInv

(***************************************************************************)
(* The theorems.                                                           *)
(***************************************************************************)

\* Every action keeps the invariant and the committed history.
LEMMA NextStep ==
  ASSUME IInv, Next
  PROVE  IInv' /\ HistoryStep
<1> DEFINE labels == {"idle", "announce", "rows", "return", "compact"}
<1>1. ASSUME NEW c \in Caller, Step(c) PROVE IInv' /\ HistoryStep
  <2>1. CASE AppendBegin(c)
    BY <2>1, AppendBeginStep
  <2>2. CASE CommitPrepared(c)
    BY <2>2, CommitPreparedStep
  <2>3. CASE AppendCommit(c)
    BY <2>3, AppendCommitStep
  <2>4. CASE Announce(c)
    <3>1. /\ Goto(c, "idle", Idle) /\ pc[c] # "tx"
          /\ UNCHANGED <<db, holder, staged, answers, seen>>
      BY <2>4 DEF Announce
    <3>2. wake' \in 0..QueueSize
      <4> DEFINE k == Cardinality({i \in DOMAIN call[c].outcomes :
                                     call[c].outcomes[i].tag = "Appended"})
      <4>1. wake' = Least(wake + k, QueueSize)
        BY <2>4 DEF Announce
      <4>2. call[c].outcomes \in Seq(Outcomes)
        BY <2>4 DEF Announce, IInv, TypeOK, CallOK
      <4>3. k \in Nat
        <5>1. DOMAIN call[c].outcomes = 1..Len(call[c].outcomes) /\ Len(call[c].outcomes) \in Nat
          BY <4>2
        <5>2. IsFiniteSet(1..Len(call[c].outcomes))
          BY <5>1, FS_Interval
        <5> QED
          BY <5>1, <5>2, FS_Subset, FS_CardinalityType
      <4> HIDE DEF k
      <4> QED
        BY <4>1, <4>3, QueueAssumption DEF Least, IInv, TypeOK
    <3>3. CallOK(c)'
      BY <3>1 DEF Goto, CallOK, IInv, TypeOK
    <3> QED
      BY <3>1, <3>2, <3>3, QuietStep
  <2>5. CASE ReadBounds(c)
    <3>1. PICK after \in db.floor..db.cursor :
            Goto(c, "rows", [kind |-> "read", after |-> after, cursor |-> db.cursor,
                             rows |-> {}])
      BY <2>5 DEF ReadBounds
    <3>2. pc[c] # "tx" /\ UNCHANGED <<db, holder, staged, answers, wake, seen>>
      BY <2>5 DEF ReadBounds
    <3>3. CallOK(c)'
      BY <3>1 DEF Goto, CallOK, IInv, TypeOK, Tables
    <3> QED
      BY <3>1, <3>2, <3>3, QuietStep DEF IInv, TypeOK
  <2>6. CASE ReadRows(c)
    <3> DEFINE r == [call[c] EXCEPT !.rows = RowsAfter(db, call[c].after)]
    <3>1. /\ Goto(c, "return", r) /\ pc[c] = "rows"
          /\ UNCHANGED <<db, holder, staged, answers, wake, seen>>
      BY <2>6 DEF ReadRows
    <3>2. call[c] \in [kind : {"read"}, after : Nat, cursor : Nat, rows : SUBSET Row]
      BY <3>1 DEF CallOK, IInv, TypeOK
    <3>3. RowsAfter(db, call[c].after) \in SUBSET Row
      BY DEF RowsAfter, IInv, TypeOK, Tables
    <3>4. r \in [kind : {"read"}, after : Nat, cursor : Nat, rows : SUBSET Row]
      BY <3>2, <3>3
    <3>5. CallOK(c)'
      BY <3>1, <3>4 DEF Goto, CallOK, IInv, TypeOK
    <3> QED
      BY <3>1, <3>5, QuietStep DEF IInv, TypeOK
  <2>7. CASE ReadReturn(c)
    <3>1. /\ Goto(c, "idle", Idle) /\ pc[c] # "tx"
          /\ UNCHANGED <<db, holder, staged, answers, wake, seen>>
      BY <2>7 DEF ReadReturn
    <3>2. CallOK(c)'
      BY <3>1 DEF Goto, CallOK, IInv, TypeOK
    <3> QED
      BY <3>1, <3>2, QuietStep DEF IInv, TypeOK
  <2>8. CASE CompactCheck(c)
    <3>1. PICK through \in db.floor..db.cursor :
            Goto(c, "compact", [kind |-> "compact", through |-> through])
      BY <2>8 DEF CompactCheck
    <3>2. pc[c] # "tx" /\ UNCHANGED <<db, holder, staged, answers, wake, seen>>
      BY <2>8 DEF CompactCheck
    <3>3. CallOK(c)'
      BY <3>1 DEF Goto, CallOK, IInv, TypeOK, Tables
    <3> QED
      BY <3>1, <3>2, <3>3, QuietStep DEF IInv, TypeOK
  <2>9. CASE CompactWrite(c)
    BY <2>9, CompactWriteStep
  <2>10. CASE Reset(c)
    BY <2>10, ResetStep
  <2>11. CASE Interrupt(c)
    <3>1. UNCHANGED <<db, answers, wake, seen>>
      BY <2>11 DEF Interrupt
    <3>2. CASE holder = c
      BY <2>11, <3>1, <3>2, RollbackStep DEF Interrupt
    <3>3. CASE holder # c
      <4>1. Goto(c, "idle", Idle) /\ UNCHANGED <<holder, staged>>
        BY <2>11, <3>3 DEF Interrupt
      <4>2. pc[c] # "tx" /\ CallOK(c)'
        BY <3>3, <4>1 DEF Goto, CallOK, IInv, TypeOK
      <4> QED
        BY <3>1, <4>1, <4>2, QuietStep DEF IInv, TypeOK
    <3> QED
      BY <3>2, <3>3
  <2> QED
    BY <1>1, <2>1, <2>2, <2>3, <2>4, <2>5, <2>6, <2>7, <2>8, <2>9, <2>10, <2>11 DEF Step
<1> QED
  BY <1>1, ObserveStep, CrashStep DEF Next

\* A stuttering step keeps the invariant.
LEMMA Stutter ==
  ASSUME IInv, UNCHANGED vars
  PROVE  IInv'
  BY DEF IInv, TypeOK, CallOK, Consistent, AnswersHold, TransactionOK, vars

\* The invariant holds in every reachable state.
THEOREM Invariance == Spec => []IInv
<1>1. IInv /\ [Next]_vars => IInv'
  BY NextStep, Stutter
<1> QED
  BY InitIInv, <1>1, PTL DEF Spec

\* Types, and mutual exclusion: only the holder of the connection is inside a
\* transaction.
THEOREM TypeCorrect == Spec => []TypeOK
<1>1. IInv => TypeOK
  BY DEF IInv
<1> QED
  BY Invariance, <1>1, PTL

\* The committed log is gap-free, commits an identity once and reduces to the
\* snapshot, in every scheduling mode and after any crash.
THEOREM ConsistentAlways == Spec => []Consistent
<1>1. IInv => Consistent
  BY DEF IInv
<1> QED
  BY Invariance, <1>1, PTL

\* No answer to a caller is ever contradicted.
THEOREM AnswersAlwaysHold == Spec => []AnswersHold
<1>1. IInv => AnswersHold
  BY DEF IInv
<1> QED
  BY Invariance, <1>1, PTL

\* The open transaction sees consistent tables that extend the committed ones.
THEOREM TransactionAlwaysOK == Spec => []TransactionOK
<1>1. IInv => TransactionOK
  BY DEF IInv
<1> QED
  BY Invariance, <1>1, PTL

\* Only reset takes a committed operation back.
THEOREM HistoryAlwaysStable == Spec => HistoryIsStable
<1>1. IInv /\ [Next]_vars => [db' = Empty \/ Extends(db, db')]_db
  BY NextStep DEF HistoryStep, vars
<1> QED
  BY Invariance, <1>1, PTL DEF Spec, HistoryIsStable

(***************************************************************************)
(* Readers under synchronous callers.  The examples run every call of the  *)
(* journal to completion (Effect.runSync), so a call that has begun sees   *)
(* the tables it checked its arguments against; that is what makes the     *)
(* compaction floor exact, a tail gap-free and every append announced.     *)
(***************************************************************************)

\* One call is in progress at a time.
Alone == \A c, d \in Caller : c # d => pc[c] = "idle" \/ pc[d] = "idle"

\* What a call checked is still so, and a tail read is whole.
CallIsCurrent(c) ==
  /\ pc[c] = "compact" => call[c].through \in db.floor..db.cursor
  /\ pc[c] = "rows" => call[c].after \in db.floor..db.cursor /\ call[c].cursor = db.cursor
  /\ pc[c] = "return" => /\ call[c].after <= call[c].cursor
                         /\ {r.seq : r \in call[c].rows} = (call[c].after + 1)..call[c].cursor

\* Some outcome of the call has an operation to announce.
HasAppended(c) == \E i \in DOMAIN call[c].outcomes : call[c].outcomes[i].tag = "Appended"

\* A transaction that moved the cursor has an operation to announce.
AppendIsNoted(c) == pc[c] = "tx" /\ staged.cursor > db.cursor => HasAppended(c)

\* Payloads are missing up to the floor, in the open transaction as well.
FloorsAreExact == FloorIsExact(db) /\ FloorIsExact(staged)

RInv == /\ Alone /\ FloorsAreExact /\ WakePending
        /\ \A c \in Caller : CallIsCurrent(c) /\ AppendIsNoted(c)

\* A caller may run when every other one is idle.
LEMMA AloneRuns ==
  ASSUME ~Preemptive, NEW c \in Caller, MayRun(c)
  PROVE  \A d \in Caller \ {c} : pc[d] = "idle"
  BY DEF MayRun

\* A step of the only call in progress.
LEMMA AloneStep ==
  ASSUME NEW c \in Caller, \A d \in Caller \ {c} : pc[d] = "idle" /\ pc'[d] = "idle",
         CallIsCurrent(c)', AppendIsNoted(c)', FloorsAreExact', WakePending'
  PROVE  RInv'
<1>1. Alone'
  BY DEF Alone
<1>2. \A d \in Caller \ {c} : CallIsCurrent(d)' /\ AppendIsNoted(d)'
  BY DEF CallIsCurrent, AppendIsNoted
<1> QED
  BY <1>1, <1>2 DEF RInv

\* A call that begins, goes on or ends beside the tables: they, the
\* transaction and the subscriber are left alone.
LEMMA ReaderMoves ==
  ASSUME ~Preemptive, IInv, RInv, NEW c \in Caller, NEW l, NEW r, MayRun(c), Goto(c, l, r),
         l # "tx", CallIsCurrent(c)', UNCHANGED <<db, staged, wake, seen>>,
         pc[c] # "announce"
  PROVE  RInv'
<1>1. \A d \in Caller \ {c} : pc[d] = "idle" /\ pc'[d] = "idle"
  BY AloneRuns DEF Goto, IInv, TypeOK
<1>2. AppendIsNoted(c)'
  BY DEF AppendIsNoted, Goto, IInv, TypeOK
<1>3. WakePending'
  BY <1>1 DEF RInv, WakePending
<1> QED
  BY <1>1, <1>2, <1>3, AloneStep DEF RInv, FloorsAreExact

LEMMA CommitPreparedReaders ==
  ASSUME ~Preemptive, IInv, RInv, NEW c \in Caller, CommitPrepared(c)
  PROVE  RInv'
<1> DEFINE b == call[c].batch
           os == call[c].outcomes
           i == Len(os) + 1
           op == b.ops[i]
           o == Outcome(staged, op, b.actor)
<1>1. pc[c] = "tx" /\ i <= Len(b.ops) /\ MayRun(c) /\ UNCHANGED <<db, answers, wake, seen>>
  BY DEF CommitPrepared
<1>2. /\ pc \in [Caller -> {"idle", "tx", "announce", "rows", "return", "compact"}]
      /\ DOMAIN call = Caller /\ staged \in Tables /\ holder = c
      /\ call[c] \in [kind : {"append"}, batch : Batch, outcomes : Seq(Outcomes)]
  BY <1>1 DEF IInv, TypeOK, CallOK
<1>3. op \in Operation /\ b.actor \in Actor /\ os \in Seq(Outcomes)
  BY <1>1, <1>2, BatchAssumption
<1>4. \A d \in Caller \ {c} : pc[d] = "idle"
  BY <1>1, AloneRuns
<1>5. ~(seen < db.cursor) \/ wake > 0
  BY <1>1, <1>4 DEF RInv, WakePending
<1>6. WakePending'
  BY <1>1, <1>5 DEF WakePending
<1>7. CASE ~Successful(o)
  <2>1. staged' = db /\ Goto(c, "idle", Idle)
    BY <1>7 DEF CommitPrepared, Rollback
  <2>2. FloorsAreExact' /\ pc'[c] = "idle" /\ \A d \in Caller \ {c} : pc'[d] = "idle"
    BY <1>1, <1>2, <1>4, <2>1 DEF RInv, FloorsAreExact, Goto
  <2>3. CallIsCurrent(c)' /\ AppendIsNoted(c)'
    BY <2>2 DEF CallIsCurrent, AppendIsNoted
  <2> QED
    BY <1>4, <1>6, <2>2, <2>3, AloneStep
<1>8. CASE Successful(o)
  <2>1. /\ staged' = AfterCommit(staged, op, b.actor)
        /\ call' = [call EXCEPT ![c].outcomes = Append(@, o)] /\ pc' = pc
    BY <1>8 DEF CommitPrepared
  <2>2. FloorsAreExact'
    <3>1. FloorIsExact(staged')
      BY <1>2, <1>3, <2>1, InsertFloor DEF RInv, FloorsAreExact, AfterCommit
    <3> QED
      BY <1>1, <3>1 DEF RInv, FloorsAreExact
  <2>3. call'[c].outcomes = Append(os, o) /\ o \in Outcomes
    BY <1>2, <1>3, <1>8, <2>1, OutcomeType
  <2>4. AppendIsNoted(c)'
    <3>1. CASE o.tag = "Appended"
      <4>1. i \in DOMAIN call'[c].outcomes /\ call'[c].outcomes[i] = o
        BY <1>3, <2>3
      <4> QED
        BY <3>1, <4>1 DEF AppendIsNoted, HasAppended
    <3>2. CASE o.tag # "Appended"
      <4>1. staged' = staged
        BY <2>1, <3>2 DEF AfterCommit
      <4>2. \A j \in DOMAIN os : j \in DOMAIN call'[c].outcomes /\ call'[c].outcomes[j] = os[j]
        BY <1>3, <2>3
      <4>3. staged.cursor > db.cursor => \E j \in DOMAIN os : os[j].tag = "Appended"
        BY <1>1 DEF RInv, AppendIsNoted, HasAppended
      <4>4. staged'.cursor > db'.cursor => \E j \in DOMAIN call'[c].outcomes : call'[c].outcomes[j].tag = "Appended"
        BY <1>1, <4>1, <4>2, <4>3
      <4> QED
        BY <4>4 DEF AppendIsNoted, HasAppended
    <3> QED
      BY <3>1, <3>2
  <2>5. CallIsCurrent(c)'
    BY <1>1, <2>1 DEF CallIsCurrent
  <2> QED
    BY <1>4, <1>6, <2>1, <2>2, <2>4, <2>5, AloneStep
<1> QED
  BY <1>7, <1>8

\* A commit that leaves the subscriber behind has an operation to announce.
LEMMA AppendCommitReaders ==
  ASSUME ~Preemptive, IInv, RInv, NEW c \in Caller, AppendCommit(c)
  PROVE  RInv'
<1>1. /\ pc[c] = "tx" /\ MayRun(c) /\ db' = staged /\ staged' = staged
      /\ Goto(c, "announce", call[c]) /\ UNCHANGED <<wake, seen>>
  BY DEF AppendCommit
<1>2. /\ \A d \in Caller \ {c} : pc[d] = "idle" /\ pc'[d] = "idle"
      /\ pc'[c] = "announce" /\ call'[c] = call[c]
      /\ db.cursor \in Nat /\ staged.cursor \in Nat /\ seen \in Nat
  BY <1>1, AloneRuns DEF Goto, IInv, TypeOK, Tables
<1>3. FloorsAreExact' /\ CallIsCurrent(c)' /\ AppendIsNoted(c)'
  BY <1>1, <1>2 DEF RInv, FloorsAreExact, CallIsCurrent, AppendIsNoted
<1>4. WakePending'
  <2>1. seen < db.cursor => wake > 0
    BY <1>1, <1>2 DEF RInv, WakePending
  <2>2. staged.cursor > db.cursor => HasAppended(c)
    BY <1>1 DEF RInv, AppendIsNoted
  <2>3. HasAppended(c) => \E i \in DOMAIN call'[c].outcomes : call'[c].outcomes[i].tag = "Appended"
    BY <1>2 DEF HasAppended
  <2>4. seen < staged.cursor => (wake > 0 \/ HasAppended(c))
    BY <1>2, <2>1, <2>2
  <2> QED
    BY <1>1, <1>2, <2>3, <2>4 DEF WakePending
<1> QED
  BY <1>2, <1>3, <1>4, AloneStep

\* An announcement with something to announce leaves a key in the queue.
LEMMA AnnounceReaders ==
  ASSUME ~Preemptive, IInv, RInv, NEW c \in Caller, Announce(c)
  PROVE  RInv'
<1> DEFINE S == {i \in DOMAIN call[c].outcomes : call[c].outcomes[i].tag = "Appended"}
           n == Cardinality(S)
<1>1. /\ pc[c] = "announce" /\ MayRun(c) /\ wake' = Least(wake + n, QueueSize)
      /\ Goto(c, "idle", Idle) /\ UNCHANGED <<db, staged, seen>>
  BY DEF Announce
<1>2. /\ \A d \in Caller \ {c} : pc[d] = "idle" /\ pc'[d] = "idle"
      /\ pc'[c] = "idle" /\ wake \in 0..QueueSize
  BY <1>1, AloneRuns DEF Goto, IInv, TypeOK
<1>3. n \in Nat /\ (S # {} => n > 0)
  <2>1. call[c].outcomes \in Seq(Outcomes)
    BY <1>1 DEF IInv, TypeOK, CallOK
  <2>2. DOMAIN call[c].outcomes = 1..Len(call[c].outcomes) /\ Len(call[c].outcomes) \in Nat
    BY <2>1
  <2>3. IsFiniteSet(S)
    <3>1. IsFiniteSet(1..Len(call[c].outcomes))
      BY <2>2, FS_Interval
    <3>2. S \subseteq 1..Len(call[c].outcomes)
      BY <2>2
    <3> QED
      BY <3>1, <3>2, FS_Subset
  <2> HIDE DEF S
  <2> QED
    BY <2>3, FS_CardinalityType, FS_EmptySet
<1>4. seen < db.cursor => wake > 0 \/ S # {}
  BY <1>1, <1>2 DEF RInv, WakePending
<1> HIDE DEF n, S
<1>5. WakePending'
  BY <1>1, <1>2, <1>3, <1>4, QueueAssumption DEF WakePending, Least
<1>6. FloorsAreExact' /\ CallIsCurrent(c)' /\ AppendIsNoted(c)'
  BY <1>1, <1>2 DEF RInv, FloorsAreExact, CallIsCurrent, AppendIsNoted
<1> QED
  BY <1>2, <1>5, <1>6, AloneStep

LEMMA ReadReaders ==
  ASSUME ~Preemptive, IInv, RInv, NEW c \in Caller, ReadBounds(c) \/ ReadRows(c) \/ ReadReturn(c)
  PROVE  RInv'
<1>1. /\ pc \in [Caller -> {"idle", "tx", "announce", "rows", "return", "compact"}]
      /\ DOMAIN call = Caller /\ db \in Tables
  BY DEF IInv, TypeOK
<1>2. CASE ReadBounds(c)
  <2>1. PICK after \in db.floor..db.cursor :
          Goto(c, "rows", [kind |-> "read", after |-> after, cursor |-> db.cursor, rows |-> {}])
    BY <1>2 DEF ReadBounds
  <2>2. pc[c] = "idle" /\ MayRun(c) /\ UNCHANGED <<db, staged, wake, seen>>
    BY <1>2 DEF ReadBounds
  <2>3. CallIsCurrent(c)'
    BY <1>1, <2>1, <2>2 DEF CallIsCurrent, Goto
  <2> QED
    BY <2>1, <2>2, <2>3, ReaderMoves
<1>3. CASE ReadRows(c)
  <2> DEFINE rows == RowsAfter(db, call[c].after)
             r == [call[c] EXCEPT !.rows = rows]
  <2>1. pc[c] = "rows" /\ MayRun(c) /\ Goto(c, "return", r) /\ UNCHANGED <<db, staged, wake, seen>>
    BY <1>3 DEF ReadRows
  <2>2. call[c].after \in db.floor..db.cursor /\ call[c].cursor = db.cursor
    BY <2>1 DEF RInv, CallIsCurrent
  <2>3. call[c] \in [kind : {"read"}, after : Nat, cursor : Nat, rows : SUBSET Row]
    BY <2>1 DEF IInv, TypeOK, CallOK
  <2>4. {s.seq : s \in rows} = (call[c].after + 1)..db.cursor
    BY <1>1, <2>2, RowsAfterFloor DEF RInv, FloorsAreExact, IInv, Consistent, TablesConsistent
  <2> HIDE DEF rows
  <2>5. call'[c].after = call[c].after /\ call'[c].cursor = call[c].cursor /\ call'[c].rows = rows
    BY <1>1, <2>1, <2>3 DEF Goto
  <2>6. CallIsCurrent(c)'
    BY <1>1, <2>1, <2>2, <2>4, <2>5 DEF CallIsCurrent, Goto, Tables
  <2> QED
    BY <2>1, <2>6, ReaderMoves
<1>4. CASE ReadReturn(c)
  <2>1. pc[c] = "return" /\ MayRun(c) /\ Goto(c, "idle", Idle) /\ UNCHANGED <<db, staged, wake, seen>>
    BY <1>4 DEF ReadReturn
  <2>2. CallIsCurrent(c)'
    BY <1>1, <2>1 DEF CallIsCurrent, Goto
  <2> QED
    BY <2>1, <2>2, ReaderMoves
<1> QED
  BY <1>2, <1>3, <1>4

LEMMA CompactReaders ==
  ASSUME ~Preemptive, IInv, RInv, NEW c \in Caller, CompactCheck(c) \/ CompactWrite(c)
  PROVE  RInv'
<1>1. /\ pc \in [Caller -> {"idle", "tx", "announce", "rows", "return", "compact"}]
      /\ DOMAIN call = Caller /\ db \in Tables /\ MayRun(c)
  BY DEF IInv, TypeOK, CompactCheck, CompactWrite
<1>2. CASE CompactCheck(c)
  <2>1. PICK through \in db.floor..db.cursor :
          Goto(c, "compact", [kind |-> "compact", through |-> through])
    BY <1>2 DEF CompactCheck
  <2>2. pc[c] = "idle" /\ UNCHANGED <<db, staged, wake, seen>>
    BY <1>2 DEF CompactCheck
  <2>3. CallIsCurrent(c)'
    BY <1>1, <2>1, <2>2 DEF CallIsCurrent, Goto
  <2> QED
    BY <1>1, <2>1, <2>2, <2>3, ReaderMoves
<1>3. CASE CompactWrite(c)
  <2>1. /\ pc[c] = "compact" /\ db' = Compacted(db, call[c].through) /\ staged' = db'
        /\ Goto(c, "idle", Idle) /\ UNCHANGED <<wake, seen>>
    BY <1>3 DEF CompactWrite
  <2>2. FloorIsExact(db') /\ db'.cursor = db.cursor
    BY <1>1, <2>1, CompactedFloor DEF RInv, CallIsCurrent, FloorsAreExact, Compacted
  <2>3. /\ \A d \in Caller \ {c} : pc[d] = "idle" /\ pc'[d] = "idle"
        /\ pc'[c] = "idle"
    BY <1>1, <2>1, AloneRuns DEF Goto
  <2>4. FloorsAreExact' /\ CallIsCurrent(c)' /\ AppendIsNoted(c)'
    BY <2>1, <2>2, <2>3 DEF FloorsAreExact, CallIsCurrent, AppendIsNoted
  <2>5. WakePending'
    BY <2>1, <2>2, <2>3 DEF RInv, WakePending
  <2> QED
    BY <2>3, <2>4, <2>5, AloneStep
<1> QED
  BY <1>2, <1>3

LEMMA ReadersStep ==
  ASSUME ~Preemptive, IInv, RInv, Next
  PROVE  RInv'
<1>0. /\ pc \in [Caller -> {"idle", "tx", "announce", "rows", "return", "compact"}]
      /\ DOMAIN call = Caller /\ db \in Tables
  BY DEF IInv, TypeOK
<1>1. ASSUME NEW c \in Caller, Step(c) PROVE RInv'
  <2>1. CASE AppendBegin(c)
    <3>1. PICK b \in Batch : Goto(c, "tx", [kind |-> "append", batch |-> b, outcomes |-> <<>>])
      BY <2>1 DEF AppendBegin
    <3>2. pc[c] = "idle" /\ MayRun(c) /\ staged' = db /\ UNCHANGED <<db, wake, seen>>
      BY <2>1 DEF AppendBegin
    <3>3. /\ \A d \in Caller \ {c} : pc[d] = "idle" /\ pc'[d] = "idle"
          /\ pc'[c] = "tx" /\ db.cursor \in Nat
      BY <1>0, <3>1, <3>2, AloneRuns DEF Goto, Tables
    <3>4. FloorsAreExact' /\ CallIsCurrent(c)' /\ AppendIsNoted(c)'
      BY <3>2, <3>3 DEF RInv, FloorsAreExact, CallIsCurrent, AppendIsNoted
    <3>5. WakePending'
      BY <3>2, <3>3 DEF RInv, WakePending
    <3> QED
      BY <3>3, <3>4, <3>5, AloneStep
  <2>2. CASE Reset(c)
    <3>1. pc[c] = "idle" /\ MayRun(c) /\ db' = Empty /\ staged' = Empty /\ UNCHANGED <<pc, wake, seen>>
      BY <2>2 DEF Reset
    <3>2. \A d \in Caller : pc[d] = "idle" /\ pc'[d] = "idle"
      BY <3>1, AloneRuns
    <3>3. FloorsAreExact' /\ CallIsCurrent(c)' /\ AppendIsNoted(c)'
      BY <3>1, <3>2 DEF Empty, FloorsAreExact, FloorIsExact, CallIsCurrent, AppendIsNoted
    <3>4. WakePending'
      BY <3>1 DEF Empty, WakePending, IInv, TypeOK
    <3> QED
      BY <3>2, <3>3, <3>4, AloneStep
  <2>3. ~Interrupt(c)
    BY DEF Interrupt
  <2> QED
    BY <1>1, <2>1, <2>2, <2>3, CommitPreparedReaders, AppendCommitReaders, AnnounceReaders,
       ReadReaders, CompactReaders DEF Step
<1>2. CASE Observe
  <2>1. /\ seen' = db.cursor /\ UNCHANGED <<db, staged, pc, call>>
    BY <1>2 DEF Observe
  <2>2. WakePending'
    BY <1>0, <2>1 DEF WakePending, Tables
  <2> QED
    BY <2>1, <2>2 DEF RInv, Alone, FloorsAreExact, CallIsCurrent, AppendIsNoted, HasAppended
<1>3. CASE Crash
  <2>1. /\ staged' = db /\ db' = db /\ pc' = [d \in Caller |-> "idle"] /\ seen' = db.cursor
    BY <1>3 DEF Crash
  <2>2. WakePending'
    BY <1>0, <2>1 DEF WakePending, Tables
  <2> QED
    BY <2>1, <2>2 DEF RInv, Alone, FloorsAreExact, CallIsCurrent, AppendIsNoted
<1> QED
  BY <1>1, <1>2, <1>3 DEF Next

\* Under synchronous callers, whatever is killed, compacted or reset between
\* two calls: payloads are missing exactly up to the floor (journal.ts:735-765),
\* a tail read has no gap and reaches the cursor it checked (journal.ts:508-551),
\* and a subscriber behind the log has a wake-up coming (journal.ts:687-714).
THEOREM ReadersAlwaysServed ==
  ASSUME ~Preemptive
  PROVE  Spec => []ReadersAreServed
<1>1. Init => RInv
  BY CallerAssumption DEF Init, Empty, RInv, Alone, FloorsAreExact, FloorIsExact, CallIsCurrent,
     AppendIsNoted, WakePending
<1>2. IInv /\ RInv /\ [Next]_vars => RInv'
  <2>1. IInv /\ RInv /\ UNCHANGED vars => RInv'
    BY DEF vars, RInv, Alone, FloorsAreExact, CallIsCurrent, AppendIsNoted, HasAppended, WakePending
  <2> QED
    BY <2>1, ReadersStep
<1>3. IInv /\ RInv => ReadersAreServed
  <2> SUFFICES ASSUME IInv, RInv PROVE ReadIsContiguous
    BY DEF RInv, FloorsAreExact, FloorIsHighestCompacted, ReadersAreServed
  <2> SUFFICES ASSUME NEW c \in Caller, pc[c] = "return"
               PROVE  LET tail == {r.seq : r \in call[c].rows}
                          last == call[c].after + Cardinality(tail)
                      IN  tail = (call[c].after + 1)..last /\ last >= call[c].cursor
    BY DEF ReadIsContiguous
  <2> DEFINE after == call[c].after
             cursor == call[c].cursor
             tail == {r.seq : r \in call[c].rows}
  <2>1. after \in Nat /\ cursor \in Nat /\ after <= cursor /\ tail = (after + 1)..cursor
    BY DEF IInv, TypeOK, CallOK, RInv, CallIsCurrent
  <2>2. Cardinality(tail) = cursor - after
    <3> HIDE DEF tail, after, cursor
    <3>1. Cardinality((after + 1)..cursor) = IF after + 1 > cursor THEN 0 ELSE cursor - (after + 1) + 1
      BY <2>1, FS_Interval
    <3> QED
      BY <2>1, <3>1
  <2> HIDE DEF tail, after, cursor
  <2>3. after + Cardinality(tail) = cursor
    BY <2>1, <2>2
  <2>4. tail = (after + 1)..(after + Cardinality(tail)) /\ after + Cardinality(tail) >= cursor
    BY <2>1, <2>3
  <2> QED
    BY <2>4 DEF tail, after, cursor
<1> QED
  BY <1>1, <1>2, <1>3, Invariance, PTL DEF Spec

=============================================================================
