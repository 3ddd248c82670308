------------------------- MODULE EffectLedgerProofs -------------------------
(***************************************************************************)
(* What holds of EffectLedger for every set of fibers and every number of  *)
(* operations, under crashes, interruptions and clearings: reservations,   *)
(* the accounting of executions, the truth of answers, and that nothing is *)
(* acknowledged or passed by recover before it is settled.                 *)
(***************************************************************************)
EXTENDS EffectLedger, FiniteSetTheorems, TLAPS

Labels == Running \cup {"idle", "scan", "await", "answered"}
Exits  == {"none", "ok", "failed", "interrupted"}
Calls  == [kind : {"none", "exchange", "recover", "once"}, key : 0..(MaxOp + 1),
           retry : BOOLEAN, last : 0..MaxOp, answer : Exits]

(***************************************************************************)
(* The inductive invariant.                                                *)
(***************************************************************************)

\* The types of TypeOK, and those of the fibers.
Typed ==
  /\ row \in [Op -> {"none", "pending", "succeeded", "failed"}]
  /\ owner \in [Op -> Caller \cup {Nobody}]
  /\ exit \in [Op -> Exits]
  /\ pc \in [Caller -> Labels]
  /\ call \in [Caller -> Calls]
  /\ cursor \in 0..MaxOp /\ floor \in 0..cursor /\ saved \in 0..MaxOp
  /\ acked \in SUBSET Op
  /\ ran \in [Op -> Nat] /\ lost \in [Op -> Nat] /\ cleared \in SUBSET Op

\* A fiber works on an effect exactly while inFlight gives it that effect.
Reserved ==
  \A c \in Caller : \A k \in Op : owner[k] = c <=> pc[c] \in Running /\ Key(c) = k

\* What the call of a fiber looks like in each of its phases.
Phased ==
  \A c \in Caller :
    /\ pc[c] = "idle" => call[c] = NoCall
    /\ pc[c] = "scan" => call[c].kind = "recover" /\ call[c].answer = "none"
    /\ pc[c] \notin {"idle", "scan"} => call[c].kind # "none" /\ Key(c) \in Op
    /\ call[c].kind = "recover" =>
         /\ Key(c) \in 1..(call[c].last + 1)
         /\ pc[c] # "scan" => Key(c) <= call[c].last

\* A fiber has an answer once it has finished or was told, and not before.
Answered ==
  \A c \in Caller :
    /\ pc[c] \in {"lookup", "mark", "run", "ran", "errored", "await"} => call[c].answer = "none"
    /\ pc[c] \in {"settle", "release", "answered"} => call[c].answer # "none"

\* The deferred of an effect in flight is complete only while its owner leaves,
\* and then with the owner's answer.
Deferred ==
  \A k \in Op : owner[k] # Nobody =>
    exit[k] = IF pc[owner[k]] = "release" THEN call[owner[k]].answer ELSE "none"

\* Past the lookup the owner's effect has no recorded success.
Unrecorded ==
  \A c \in Caller : pc[c] \in {"mark", "run", "ran", "errored"} => row[Key(c)] # "succeeded"

\* Every execution but one is accounted for by a lost record; the one by the
\* recorded success, or by the owner about to record it.
Accounted ==
  \A k \in Op :
    ran[k] <= lost[k] + IF \/ row[k] = "succeeded"
                           \/ \E c \in Caller : pc[c] = "ran" /\ Key(c) = k
                          THEN 1 ELSE 0

\* A fiber about to record a success did execute the action.
Executed == \A c \in Caller : pc[c] = "ran" => ran[Key(c)] > 0

\* What a recovery scan has passed is settled.
ScannedIsSettled ==
  \A c \in Caller : call[c].kind = "recover" => \A k \in 1..(Key(c) - 1) : Settled(k)

\* Compaction stays behind the recovery cursor, unless it is free.
FloorIsSettled == Compaction # "free" => \A k \in 1..floor : Settled(k)

IInv ==
  /\ Typed /\ Reserved /\ Phased /\ Answered /\ Deferred /\ NoJoinerStranded
  /\ Unrecorded /\ Accounted /\ Executed /\ SuccessIsReal
  /\ AnswerIsRecorded /\ RecoveredIsSettled /\ ScannedIsSettled /\ FloorIsSettled
  /\ Compaction # "free" => AcknowledgedIsSettled

(***************************************************************************)
(* Moves of one fiber.                                                     *)
(***************************************************************************)

\* Fiber c is now at l with answer a; no other fiber, and no other part of its
\* call, has changed.
Moved(c, l, a) ==
  /\ pc' \in [Caller -> Labels] /\ call' \in [Caller -> Calls]
  /\ pc'[c] = l /\ call'[c].answer = a
  /\ \A d \in Caller : /\ call'[d].kind = call[d].kind
                       /\ call'[d].key = call[d].key
                       /\ call'[d].last = call[d].last
  /\ \A d \in Caller \ {c} : pc'[d] = pc[d] /\ call'[d] = call[d]

\* Setting the answer of a call changes nothing else of it.
LEMMA AnswerSet ==
  ASSUME NEW c \in Caller, NEW a \in Exits, call \in [Caller -> Calls],
         call' = [call EXCEPT ![c].answer = a]
  PROVE  /\ call' \in [Caller -> Calls] /\ call'[c].answer = a
         /\ \A d \in Caller : /\ call'[d].kind = call[d].kind
                              /\ call'[d].key = call[d].key
                              /\ call'[d].last = call[d].last
         /\ \A d \in Caller \ {c} : call'[d] = call[d]
<1>1. call[c] \in Calls
  OBVIOUS
<1>2. [call[c] EXCEPT !.answer = a] \in Calls
  BY <1>1 DEF Calls
<1>3. call' = [call EXCEPT ![c] = [call[c] EXCEPT !.answer = a]]
  OBVIOUS
<1>4. call' \in [Caller -> Calls]
  BY <1>2, <1>3
<1>5. /\ call'[c].answer = a /\ call'[c].kind = call[c].kind
      /\ call'[c].key = call[c].key /\ call'[c].last = call[c].last
  BY <1>1, <1>3 DEF Calls
<1>6. \A d \in Caller \ {c} : call'[d] = call[d]
  BY <1>3
<1> QED
  BY <1>4, <1>5, <1>6

\* A fiber that goes on inside runEffect.
LEMMA GotoMoves ==
  ASSUME Typed, NEW c \in Caller, NEW l \in Labels, Goto(c, l)
  PROVE  Moved(c, l, call[c].answer)
  BY DEF Typed, Goto, Moved

\* A fiber that leaves the body of runEffect with an exit.
LEMMA FinishMoves ==
  ASSUME Typed, NEW c \in Caller, NEW a \in Exits, Finish(c, a)
  PROVE  Moved(c, "settle", a)
<1>1. pc' \in [Caller -> Labels] /\ pc'[c] = "settle" /\ \A d \in Caller \ {c} : pc'[d] = pc[d]
  BY DEF Typed, Finish, Labels, Running
<1> QED
  BY <1>1, AnswerSet DEF Typed, Finish, Moved

\* The owner of an effect goes on, or leaves the body with an exit: the
\* reservation stands and everyone who joined still waits for it.
LEMMA OwnerMoves ==
  ASSUME IInv, NEW c \in Caller, NEW l \in Running \ {"release"}, NEW a \in Exits,
         Moved(c, l, a), pc[c] \in Running \ {"release"}, a # "none" <=> l = "settle",
         UNCHANGED <<owner, exit, cursor>>
  PROVE  Reserved' /\ Phased' /\ Answered' /\ Deferred' /\ NoJoinerStranded'
<1> USE DEF Running, Key
<1>1. Reserved'
  BY DEF IInv, Reserved, Moved
<1>2. Phased'
  <2>1. ASSUME NEW d \in Caller \ {c} PROVE pc'[d] = pc[d] /\ call'[d] = call[d]
    BY DEF Moved
  <2> QED
    BY <2>1 DEF IInv, Phased, Moved
<1>3. Answered'
  BY DEF IInv, Answered, Moved
<1>4. Deferred'
  <2> SUFFICES ASSUME NEW k \in Op, owner[k] # Nobody
               PROVE  exit[k] = IF pc'[owner[k]] = "release" THEN call'[owner[k]].answer ELSE "none"
    BY DEF Deferred
  <2>1. owner[k] \in Caller
    BY DEF IInv, Typed
  <2>2. CASE owner[k] = c
    BY <2>2 DEF IInv, Deferred, Moved
  <2>3. CASE owner[k] # c
    BY <2>1, <2>3 DEF IInv, Deferred, Moved
  <2> QED
    BY <2>2, <2>3
<1>5. NoJoinerStranded'
  BY DEF IInv, NoJoinerStranded, At, Moved
<1> QED
  BY <1>1, <1>2, <1>3, <1>4, <1>5

\* As long as no settled effect becomes unsettled, and no fiber, cursor or
\* acknowledgement moves on, what lies behind them stays settled.
LEMMA SettledKept ==
  ASSUME IInv, \A k \in Op : Settled(k) => Settled(k)', UNCHANGED <<floor, saved, acked>>,
         \A d \in Caller : call'[d].kind = "recover" =>
           call[d].kind = "recover" /\ call'[d].key = call[d].key
  PROVE  /\ RecoveredIsSettled' /\ ScannedIsSettled' /\ FloorIsSettled'
         /\ Compaction # "free" => AcknowledgedIsSettled'
<1>0. /\ 1..saved \subseteq Op /\ 1..floor \subseteq Op /\ acked \subseteq Op
      /\ \A d \in Caller : call[d].kind = "recover" => 1..(call[d].key - 1) \subseteq Op
      /\ \A d \in Caller : call[d].key \in Int
  BY LedgerAssumption DEF IInv, Typed, Op, Calls
<1>1. RecoveredIsSettled'
  BY <1>0 DEF IInv, RecoveredIsSettled
<1>2. ScannedIsSettled'
  <2> SUFFICES ASSUME NEW d \in Caller, call'[d].kind = "recover", NEW k \in 1..(call'[d].key - 1)
               PROVE  Settled(k)'
    BY DEF ScannedIsSettled, Key
  <2>1. Settled(k)
    BY <1>0 DEF IInv, ScannedIsSettled, Key
  <2> QED
    BY <2>1, <1>0
<1>3. FloorIsSettled'
  BY <1>0 DEF IInv, FloorIsSettled
<1>4. Compaction # "free" => AcknowledgedIsSettled'
  BY <1>0 DEF IInv, AcknowledgedIsSettled
<1> QED
  BY <1>1, <1>2, <1>3, <1>4

(***************************************************************************)
(* runEffect.                                                              *)
(***************************************************************************)

\* The lookup reads the row and changes nothing but where the fiber is.
LEMMA LookupStep ==
  ASSUME IInv, NEW c \in Caller, Lookup(c)
  PROVE  IInv'
<1> DEFINE l == pc'[c]  a == call'[c].answer
<1>1. pc[c] = "lookup" /\ UNCHANGED <<row, owner, exit, doc, history>>
  BY DEF Lookup, At
<1>2. call[c].answer = "none"
  BY <1>1 DEF IInv, Answered
<1>3. /\ Moved(c, l, a)
      /\ \/ l = "mark" /\ a = "none" /\ row[Key(c)] # "succeeded"
         \/ l = "settle" /\ a = "ok" /\ row[Key(c)] = "succeeded"
         \/ l = "settle" /\ a = "failed"
  <2> USE <1>2 DEF IInv
  <2>1. CASE row[Key(c)] = "succeeded"
    <3>1. Finish(c, "ok")
      BY <2>1 DEF Lookup
    <3>2. Moved(c, "settle", "ok")
      BY <3>1, FinishMoves DEF Exits
    <3> QED
      BY <2>1, <3>2 DEF Moved
  <2>2. CASE row[Key(c)] = "failed" /\ ~call[c].retry
    <3>1. Finish(c, "failed")
      BY <2>2 DEF Lookup
    <3>2. Moved(c, "settle", "failed")
      BY <3>1, FinishMoves DEF Exits
    <3> QED
      BY <3>2 DEF Moved
  <2>3. CASE row[Key(c)] # "succeeded" /\ ~(row[Key(c)] = "failed" /\ ~call[c].retry)
    <3>1. Goto(c, "mark")
      BY <2>3 DEF Lookup
    <3>2. Moved(c, "mark", call[c].answer)
      BY <3>1, GotoMoves DEF Labels, Running
    <3> QED
      BY <2>3, <3>2 DEF Moved
  <2> QED
    BY <2>1, <2>2, <2>3
<1> HIDE DEF l, a
<1>4. Reserved' /\ Phased' /\ Answered' /\ Deferred' /\ NoJoinerStranded'
  BY <1>1, <1>3, OwnerMoves DEF Running, Exits, doc
<1>5. RecoveredIsSettled' /\ ScannedIsSettled' /\ FloorIsSettled' /\ (Compaction # "free" => AcknowledgedIsSettled')
  BY <1>1, <1>3, SettledKept DEF Moved, Settled, doc, history
<1>6. Typed'
  BY <1>1, <1>3 DEF IInv, Typed, Moved, doc, history
<1>7. Unrecorded' /\ Executed'
  BY <1>1, <1>3 DEF IInv, Unrecorded, Executed, Moved, Key, doc, history
<1>8. Accounted' /\ SuccessIsReal'
  <2>1. \A k \in Op : (\E d \in Caller : pc[d] = "ran" /\ Key(d) = k) =>
                      (\E d \in Caller : pc'[d] = "ran" /\ Key(d)' = k)
    BY <1>1, <1>3 DEF Moved, Key
  <2> QED
    BY <1>1, <2>1 DEF IInv, Accounted, SuccessIsReal, Typed, history
<1>9. AnswerIsRecorded'
  BY <1>1, <1>3 DEF IInv, AnswerIsRecorded, Moved, Settled, Key, doc, history
<1> QED
  BY <1>4, <1>5, <1>6, <1>7, <1>8, <1>9 DEF IInv

\* The owner overwrites a row that records no success.
LEMMA MarkPendingStep ==
  ASSUME IInv, NEW c \in Caller, MarkPending(c)
  PROVE  IInv'
<1>1. /\ pc[c] = "mark" /\ UNCHANGED <<owner, exit, doc>> /\ Key(c) \in Op
      /\ owner[Key(c)] = c /\ call[c].answer = "none"
  BY DEF MarkPending, At, IInv, Phased, Reserved, Answered, Running, Key, history
<1>2. Moved(c, "run", "none")
  BY <1>1, GotoMoves DEF MarkPending, IInv, Answered, Labels, Running
<1>3. Typed'
  BY <1>1, <1>2 DEF MarkPending, IInv, Typed, Moved, doc, history
<1>4. Reserved' /\ Phased' /\ Answered' /\ Deferred' /\ NoJoinerStranded'
  BY <1>1, <1>2, OwnerMoves DEF Running, Exits, doc
<1>5. \A d \in Caller \ {c} : pc[d] \in Running => Key(d) # Key(c)
  BY <1>1 DEF IInv, Phased, Reserved, Running, Key
<1>6. Unrecorded' /\ Executed' /\ SuccessIsReal'
  BY <1>1, <1>2, <1>5 DEF MarkPending, IInv, Unrecorded, Executed, SuccessIsReal, Typed, Phased,
                    Moved, Key, Running, history
<1>7. Accounted'
  BY <1>1, <1>2, <1>5 DEF MarkPending, IInv, Accounted, Unrecorded, Typed, Phased, Moved, Key, Running, history
<1>8. \A k \in Op : Settled(k) => Settled(k)'
  BY <1>1 DEF MarkPending, IInv, Unrecorded, Settled, Typed, Key, history
<1>9. RecoveredIsSettled' /\ ScannedIsSettled' /\ FloorIsSettled' /\ (Compaction # "free" => AcknowledgedIsSettled')
  BY <1>1, <1>2, <1>8, SettledKept DEF Moved, doc
<1>10. AnswerIsRecorded'
  <2>1. \A d \in Caller : call[d].answer # "none" => Key(d) \in Op
    BY DEF IInv, Phased, Key, NoCall
  <2> QED
    BY <1>1, <1>2, <1>8, <2>1 DEF MarkPending, IInv, AnswerIsRecorded, Moved, Key
<1> QED
  BY <1>3, <1>4, <1>6, <1>7, <1>9, <1>10 DEF IInv

\* One execution more, and the owner about to record it accounts for it.
LEMMA RunSucceedsStep ==
  ASSUME IInv, NEW c \in Caller, RunSucceeds(c)
  PROVE  IInv'
<1>1. /\ pc[c] = "run" /\ UNCHANGED <<owner, exit, doc>> /\ Key(c) \in Op
      /\ owner[Key(c)] = c /\ call[c].answer = "none"
  BY DEF RunSucceeds, At, IInv, Phased, Reserved, Answered, Running, Key, history
<1>2. Moved(c, "ran", "none")
  BY <1>1, GotoMoves DEF RunSucceeds, IInv, Answered, Labels, Running
<1>3. Typed'
  BY <1>1, <1>2 DEF RunSucceeds, IInv, Typed, Moved, doc, history
<1>4. Reserved' /\ Phased' /\ Answered' /\ Deferred' /\ NoJoinerStranded'
  BY <1>1, <1>2, OwnerMoves DEF Running, Exits, doc
<1>5. \A d \in Caller \ {c} : pc[d] \in Running => Key(d) # Key(c)
  BY <1>1 DEF IInv, Phased, Reserved, Running, Key
<1>6. Unrecorded' /\ Executed' /\ SuccessIsReal'
  BY <1>1, <1>2, <1>5 DEF RunSucceeds, IInv, Unrecorded, Executed, SuccessIsReal, Typed, Phased,
                    Moved, Key, Running, history
<1>7. Accounted'
  BY <1>1, <1>2, <1>5 DEF RunSucceeds, IInv, Accounted, Unrecorded, Typed, Phased, Moved, Key, Running, history
<1>8. \A k \in Op : Settled(k) => Settled(k)'
  BY <1>1 DEF RunSucceeds, IInv, Unrecorded, Settled, Typed, Key, history
<1>9. RecoveredIsSettled' /\ ScannedIsSettled' /\ FloorIsSettled' /\ (Compaction # "free" => AcknowledgedIsSettled')
  BY <1>1, <1>2, <1>8, SettledKept DEF Moved, doc
<1>10. AnswerIsRecorded'
  <2>1. \A d \in Caller : call[d].answer # "none" => Key(d) \in Op
    BY DEF IInv, Phased, Key, NoCall
  <2> QED
    BY <1>1, <1>2, <1>8, <2>1 DEF RunSucceeds, IInv, AnswerIsRecorded, Moved, Key
<1> QED
  BY <1>3, <1>4, <1>6, <1>7, <1>9, <1>10 DEF IInv

\* A failed execution is about to be recorded.
LEMMA RunFailsStep ==
  ASSUME IInv, NEW c \in Caller, RunFails(c)
  PROVE  IInv'
<1>1. /\ pc[c] = "run" /\ UNCHANGED <<owner, exit, doc>> /\ Key(c) \in Op
      /\ owner[Key(c)] = c /\ call[c].answer = "none"
  BY DEF RunFails, At, IInv, Phased, Reserved, Answered, Running, Key, history
<1>2. Moved(c, "errored", "none")
  BY <1>1, GotoMoves DEF RunFails, IInv, Answered, Labels, Running
<1>3. Typed'
  BY <1>1, <1>2 DEF RunFails, IInv, Typed, Moved, doc, history
<1>4. Reserved' /\ Phased' /\ Answered' /\ Deferred' /\ NoJoinerStranded'
  BY <1>1, <1>2, OwnerMoves DEF Running, Exits, doc
<1>5. \A d \in Caller \ {c} : pc[d] \in Running => Key(d) # Key(c)
  BY <1>1 DEF IInv, Phased, Reserved, Running, Key
<1>6. Unrecorded' /\ Executed' /\ SuccessIsReal'
  BY <1>1, <1>2, <1>5 DEF RunFails, IInv, Unrecorded, Executed, SuccessIsReal, Typed, Phased,
                    Moved, Key, Running, history
<1>7. Accounted'
  BY <1>1, <1>2, <1>5 DEF RunFails, IInv, Accounted, Unrecorded, Typed, Phased, Moved, Key, Running, history
<1>8. \A k \in Op : Settled(k) => Settled(k)'
  BY <1>1 DEF RunFails, IInv, Unrecorded, Settled, Typed, Key, history
<1>9. RecoveredIsSettled' /\ ScannedIsSettled' /\ FloorIsSettled' /\ (Compaction # "free" => AcknowledgedIsSettled')
  BY <1>1, <1>2, <1>8, SettledKept DEF Moved, doc
<1>10. AnswerIsRecorded'
  <2>1. \A d \in Caller : call[d].answer # "none" => Key(d) \in Op
    BY DEF IInv, Phased, Key, NoCall
  <2> QED
    BY <1>1, <1>2, <1>8, <2>1 DEF RunFails, IInv, AnswerIsRecorded, Moved, Key
<1> QED
  BY <1>3, <1>4, <1>6, <1>7, <1>9, <1>10 DEF IInv

\* The recorded success takes over the accounting from the owner.
LEMMA RecordSuccessStep ==
  ASSUME IInv, NEW c \in Caller, RecordSuccess(c)
  PROVE  IInv'
<1>1. /\ pc[c] = "ran" /\ UNCHANGED <<owner, exit, doc>> /\ Key(c) \in Op
      /\ owner[Key(c)] = c /\ call[c].answer = "none"
  BY DEF RecordSuccess, At, IInv, Phased, Reserved, Answered, Running, Key, history
<1>2. Moved(c, "settle", "ok")
  BY FinishMoves DEF RecordSuccess, IInv, Exits
<1>3. Typed'
  BY <1>1, <1>2 DEF RecordSuccess, IInv, Typed, Moved, doc, history
<1>4. Reserved' /\ Phased' /\ Answered' /\ Deferred' /\ NoJoinerStranded'
  BY <1>1, <1>2, OwnerMoves DEF Running, Exits, doc
<1>5. \A d \in Caller \ {c} : pc[d] \in Running => Key(d) # Key(c)
  BY <1>1 DEF IInv, Phased, Reserved, Running, Key
<1>6. Unrecorded' /\ Executed' /\ SuccessIsReal'
  BY <1>1, <1>2, <1>5 DEF RecordSuccess, IInv, Unrecorded, Executed, SuccessIsReal, Typed, Phased,
                    Moved, Key, Running, history
<1>7. Accounted'
  BY <1>1, <1>2, <1>5 DEF RecordSuccess, IInv, Accounted, Unrecorded, Typed, Phased, Moved, Key, Running, history
<1>8. \A k \in Op : Settled(k) => Settled(k)'
  BY <1>1 DEF RecordSuccess, IInv, Unrecorded, Settled, Typed, Key, history
<1>9. RecoveredIsSettled' /\ ScannedIsSettled' /\ FloorIsSettled' /\ (Compaction # "free" => AcknowledgedIsSettled')
  BY <1>1, <1>2, <1>8, SettledKept DEF Moved, doc
<1>10. AnswerIsRecorded'
  <2>1. \A d \in Caller : call[d].answer # "none" => Key(d) \in Op
    BY DEF IInv, Phased, Key, NoCall
  <2> QED
    BY <1>1, <1>2, <1>8, <2>1 DEF RecordSuccess, IInv, AnswerIsRecorded, Moved, Key, Settled, Typed
<1> QED
  BY <1>3, <1>4, <1>6, <1>7, <1>9, <1>10 DEF IInv

\* The success that could not be recorded is counted as lost.
LEMMA RecordSuccessFailsStep ==
  ASSUME IInv, NEW c \in Caller, RecordSuccessFails(c)
  PROVE  IInv'
<1>1. /\ pc[c] = "ran" /\ UNCHANGED <<owner, exit, doc>> /\ Key(c) \in Op
      /\ owner[Key(c)] = c /\ call[c].answer = "none"
  BY DEF RecordSuccessFails, At, IInv, Phased, Reserved, Answered, Running, Key, history
<1>2. Moved(c, "errored", "none")
  BY <1>1, GotoMoves DEF RecordSuccessFails, IInv, Answered, Labels, Running
<1>3. Typed'
  BY <1>1, <1>2 DEF RecordSuccessFails, IInv, Typed, Moved, doc, history
<1>4. Reserved' /\ Phased' /\ Answered' /\ Deferred' /\ NoJoinerStranded'
  BY <1>1, <1>2, OwnerMoves DEF Running, Exits, doc
<1>5. \A d \in Caller \ {c} : pc[d] \in Running => Key(d) # Key(c)
  BY <1>1 DEF IInv, Phased, Reserved, Running, Key
<1>6. Unrecorded' /\ Executed' /\ SuccessIsReal'
  BY <1>1, <1>2, <1>5 DEF RecordSuccessFails, IInv, Unrecorded, Executed, SuccessIsReal, Typed, Phased,
                    Moved, Key, Running, history
<1>7. Accounted'
  BY <1>1, <1>2, <1>5 DEF RecordSuccessFails, IInv, Accounted, Unrecorded, Typed, Phased, Moved, Key, Running, history
<1>8. \A k \in Op : Settled(k) => Settled(k)'
  BY <1>1 DEF RecordSuccessFails, IInv, Unrecorded, Settled, Typed, Key, history
<1>9. RecoveredIsSettled' /\ ScannedIsSettled' /\ FloorIsSettled' /\ (Compaction # "free" => AcknowledgedIsSettled')
  BY <1>1, <1>2, <1>8, SettledKept DEF Moved, doc
<1>10. AnswerIsRecorded'
  <2>1. \A d \in Caller : call[d].answer # "none" => Key(d) \in Op
    BY DEF IInv, Phased, Key, NoCall
  <2> QED
    BY <1>1, <1>2, <1>8, <2>1 DEF RecordSuccessFails, IInv, AnswerIsRecorded, Moved, Key
<1> QED
  BY <1>3, <1>4, <1>6, <1>7, <1>9, <1>10 DEF IInv

\* The owner's failure replaces no recorded success.
LEMMA RecordFailureStep ==
  ASSUME IInv, NEW c \in Caller, RecordFailure(c)
  PROVE  IInv'
<1>1. /\ pc[c] = "errored" /\ UNCHANGED <<owner, exit, doc>> /\ Key(c) \in Op
      /\ owner[Key(c)] = c /\ call[c].answer = "none"
  BY DEF RecordFailure, At, IInv, Phased, Reserved, Answered, Running, Key, history
<1>2. Moved(c, "settle", "failed")
  BY FinishMoves DEF RecordFailure, IInv, Exits
<1>3. Typed'
  BY <1>1, <1>2 DEF RecordFailure, IInv, Typed, Moved, doc, history
<1>4. Reserved' /\ Phased' /\ Answered' /\ Deferred' /\ NoJoinerStranded'
  BY <1>1, <1>2, OwnerMoves DEF Running, Exits, doc
<1>5. \A d \in Caller \ {c} : pc[d] \in Running => Key(d) # Key(c)
  BY <1>1 DEF IInv, Phased, Reserved, Running, Key
<1>6. Unrecorded' /\ Executed' /\ SuccessIsReal'
  BY <1>1, <1>2, <1>5 DEF RecordFailure, IInv, Unrecorded, Executed, SuccessIsReal, Typed, Phased,
                    Moved, Key, Running, history
<1>7. Accounted'
  <2>1. \A j \in Op : row[j] = "succeeded" => row'[j] = "succeeded"
    BY <1>1 DEF RecordFailure, IInv, Unrecorded, Typed
  <2>2. \A j \in Op : (\E d \in Caller : pc[d] = "ran" /\ Key(d) = j) =>
                      (\E d \in Caller : pc'[d] = "ran" /\ Key(d)' = j)
    BY <1>1, <1>2 DEF Moved, Key
  <2>3. UNCHANGED <<ran, lost>>
    BY DEF RecordFailure, history
  <2> QED
    BY <2>1, <2>2, <2>3 DEF IInv, Accounted, Typed
<1>8. \A k \in Op : Settled(k) => Settled(k)'
  BY <1>1 DEF RecordFailure, IInv, Unrecorded, Settled, Typed, Key, history
<1>9. RecoveredIsSettled' /\ ScannedIsSettled' /\ FloorIsSettled' /\ (Compaction # "free" => AcknowledgedIsSettled')
  BY <1>1, <1>2, <1>8, SettledKept DEF Moved, doc
<1>10. AnswerIsRecorded'
  <2>1. \A d \in Caller : call[d].answer # "none" => Key(d) \in Op
    BY DEF IInv, Phased, Key, NoCall
  <2> QED
    BY <1>1, <1>2, <1>8, <2>1 DEF RecordFailure, IInv, AnswerIsRecorded, Moved, Key
<1> QED
  BY <1>3, <1>4, <1>6, <1>7, <1>9, <1>10 DEF IInv

\* An interrupted owner leaves with the interruption, its execution counted as
\* lost; an interrupted joiner just leaves.
LEMMA InterruptStep ==
  ASSUME IInv, NEW c \in Caller, Interrupt(c)
  PROVE  IInv'
<1>1. UNCHANGED <<row, owner, exit, doc, ran, cleared>>
  BY DEF Interrupt
<1>2. CASE /\ pc[c] \in {"lookup", "mark", "run", "ran", "errored"}
           /\ lost' = (IF pc[c] = "ran" THEN [lost EXCEPT ![Key(c)] = @ + 1] ELSE lost)
           /\ Finish(c, "interrupted")
  <2>1. Moved(c, "settle", "interrupted")
    BY <1>2, FinishMoves DEF IInv, Exits
  <2>2. /\ Key(c) \in Op /\ owner[Key(c)] = c
        /\ \A d \in Caller \ {c} : pc[d] \in Running => Key(d) # Key(c)
    BY <1>2 DEF IInv, Phased, Reserved, Running, Key
  <2>3. lost' \in [Op -> Nat] /\ \A k \in Op : lost'[k] = IF pc[c] = "ran" /\ k = Key(c) THEN lost[k] + 1 ELSE lost[k]
    BY <1>2, <2>2 DEF IInv, Typed
  <2>4. Typed'
    BY <1>1, <2>1, <2>3 DEF IInv, Typed, Moved, doc
  <2>5. Reserved' /\ Phased' /\ Answered' /\ Deferred' /\ NoJoinerStranded'
    BY <1>1, <1>2, <2>1, OwnerMoves DEF Running, Exits, doc
  <2>6. Unrecorded' /\ Executed' /\ SuccessIsReal'
    BY <1>1, <2>1 DEF IInv, Unrecorded, Executed, SuccessIsReal, Moved, Key
  <2>7. Accounted'
    BY <1>1, <2>1, <2>2, <2>3 DEF IInv, Accounted, Typed, Moved, Key, Running
  <2>8. RecoveredIsSettled' /\ ScannedIsSettled' /\ FloorIsSettled' /\ (Compaction # "free" => AcknowledgedIsSettled')
    BY <1>1, <2>1, SettledKept DEF Moved, Settled, doc
  <2>9. AnswerIsRecorded'
    BY <1>1, <2>1 DEF IInv, AnswerIsRecorded, Moved, Settled, Key
  <2> QED
    BY <2>4, <2>5, <2>6, <2>7, <2>8, <2>9 DEF IInv
<1>3. CASE /\ At(c, "await") /\ lost' = lost
           /\ pc' = [pc EXCEPT ![c] = "answered"]
           /\ call' = [call EXCEPT ![c].answer = "interrupted"]
  <2>1. Moved(c, "answered", "interrupted")
    <3>1. pc' \in [Caller -> Labels] /\ pc'[c] = "answered" /\ \A d \in Caller \ {c} : pc'[d] = pc[d]
      BY <1>3 DEF IInv, Typed, Labels
    <3> QED
      BY <1>3, <3>1, AnswerSet DEF IInv, Typed, Moved, Exits
  <2>2. pc[c] = "await"
    BY <1>3 DEF At
  <2>3. Typed'
    BY <1>1, <1>3, <2>1 DEF IInv, Typed, Moved, doc
  <2>4. Reserved'
    BY <1>1, <2>1, <2>2 DEF IInv, Reserved, Moved, Key, Running
  <2>5. Phased'
    BY <1>1, <2>1, <2>2 DEF IInv, Phased, Moved, Key, doc
  <2>6. Answered'
    BY <1>1, <2>1, <2>2 DEF IInv, Answered, Moved
  <2>7. Deferred'
    <3>1. \A k \in Op : owner[k] # c
      BY <2>2 DEF IInv, Reserved, Running
    <3> QED
      BY <1>1, <2>1, <3>1 DEF IInv, Typed, Deferred, Moved
  <2>8. NoJoinerStranded'
    BY <1>1, <2>1 DEF IInv, NoJoinerStranded, At, Key, Moved
  <2>9. Unrecorded' /\ Executed' /\ SuccessIsReal'
    BY <1>1, <2>1 DEF IInv, Unrecorded, Executed, SuccessIsReal, Moved, Key
  <2>10. Accounted'
    BY <1>1, <1>3, <2>1, <2>2 DEF IInv, Accounted, Typed, Moved, Key
  <2>11. RecoveredIsSettled' /\ ScannedIsSettled' /\ FloorIsSettled' /\ (Compaction # "free" => AcknowledgedIsSettled')
    BY <1>1, <2>1, SettledKept DEF Moved, Settled, doc
  <2>12. AnswerIsRecorded'
    BY <1>1, <2>1 DEF IInv, AnswerIsRecorded, Moved, Settled, Key
  <2> QED
    BY <2>3, <2>4, <2>5, <2>6, <2>7, <2>8, <2>9, <2>10, <2>11, <2>12 DEF IInv
<1> QED
  BY <1>2, <1>3 DEF Interrupt

\* Completing the deferred answers everyone who joined, with the owner's answer.
LEMMA SettleStep ==
  ASSUME IInv, NEW c \in Caller, Settle(c)
  PROVE  IInv'
<1> DEFINE k == Key(c)  a == call[c].answer
           Joined(d) == pc[d] = "await" /\ Key(d) = k
<1>1. /\ pc[c] = "settle" /\ UNCHANGED <<row, owner, doc, history>>
      /\ k \in Op /\ owner[k] = c /\ a \in Exits \ {"none"}
  BY DEF Settle, At, IInv, Typed, Calls, Phased, Reserved, Answered, Running, Key
<1>2. exit' = [exit EXCEPT ![k] = a]
  BY DEF Settle
<1>3. /\ pc' \in [Caller -> Labels] /\ pc'[c] = "release"
      /\ \A d \in Caller \ {c} : pc'[d] = IF Joined(d) THEN "answered" ELSE pc[d]
  BY DEF Settle, At, IInv, Typed, Labels, Running
<1>4. /\ call' \in [Caller -> Calls]
      /\ \A d \in Caller : /\ call'[d].kind = call[d].kind /\ call'[d].key = call[d].key
                           /\ call'[d].last = call[d].last
                           /\ call'[d].answer = IF Joined(d) THEN a ELSE call[d].answer
                           /\ ~Joined(d) => call'[d] = call[d]
  <2>1. ASSUME NEW d \in Caller
        PROVE  LET r == IF Joined(d) THEN [call[d] EXCEPT !.answer = a] ELSE call[d]
               IN  /\ call'[d] = r /\ r \in Calls
                   /\ r.kind = call[d].kind /\ r.key = call[d].key /\ r.last = call[d].last
                   /\ r.answer = IF Joined(d) THEN a ELSE call[d].answer
    <3>1. call[d] \in Calls
      BY DEF IInv, Typed
    <3>2. call'[d] = IF Joined(d) THEN [call[d] EXCEPT !.answer = a] ELSE call[d]
      BY DEF Settle, At
    <3> QED
      BY <1>1, <3>1, <3>2 DEF Calls
  <2>2. call' = [d \in Caller |-> call'[d]]
    BY DEF Settle
  <2> QED
    BY <2>1, <2>2
<1>5. ~Joined(c) /\ exit[k] = "none"
  BY <1>1, LedgerAssumption DEF IInv, Deferred
<1> HIDE DEF k, a
<1>6. Typed'
  BY <1>1, <1>2, <1>3, <1>4 DEF IInv, Typed, doc, history
<1>7. Reserved'
  BY <1>1, <1>3, <1>4 DEF IInv, Reserved, Key, Running
<1>8. Phased'
  BY <1>1, <1>3, <1>4, <1>5 DEF IInv, Phased, Key, doc
<1>9. Answered'
  BY <1>1, <1>3, <1>4, <1>5 DEF IInv, Answered, a
<1>10. Deferred'
  <2> SUFFICES ASSUME NEW j \in Op, owner[j] # Nobody
               PROVE  exit'[j] = IF pc'[owner[j]] = "release" THEN call'[owner[j]].answer ELSE "none"
    BY <1>1 DEF Deferred
  <2>1. owner[j] \in Caller /\ pc[owner[j]] \in Running /\ Key(owner[j]) = j
    BY DEF IInv, Typed, Reserved
  <2>2. CASE j = k
    BY <1>1, <1>2, <1>3, <1>4, <1>5, <2>2 DEF IInv, Typed, a
  <2>3. CASE j # k
    <3>1. owner[j] # c /\ ~Joined(owner[j])
      BY <1>1, <2>1, <2>3 DEF k, Running
    <3> QED
      BY <1>2, <1>3, <1>4, <2>1, <2>3, <3>1 DEF IInv, Typed, Deferred
  <2> QED
    BY <2>2, <2>3
<1>11. NoJoinerStranded'
  BY <1>1, <1>2, <1>3, <1>4 DEF IInv, Typed, NoJoinerStranded, At, Key
<1>12. Unrecorded' /\ Executed' /\ SuccessIsReal'
  BY <1>1, <1>3, <1>4 DEF IInv, Unrecorded, Executed, SuccessIsReal, Key, history
<1>13. Accounted'
  <2>1. \A j \in Op : (\E d \in Caller : pc[d] = "ran" /\ Key(d) = j) =>
                      (\E d \in Caller : pc'[d] = "ran" /\ Key(d)' = j)
    BY <1>1, <1>3, <1>4 DEF Key
  <2> QED
    BY <1>1, <2>1 DEF IInv, Accounted, Typed, history
<1>14. RecoveredIsSettled' /\ ScannedIsSettled' /\ FloorIsSettled' /\ (Compaction # "free" => AcknowledgedIsSettled')
  BY <1>1, <1>4, SettledKept DEF Settled, doc, history
<1>15. AnswerIsRecorded'
  BY <1>1, <1>4 DEF IInv, AnswerIsRecorded, Settled, Key, k, a, history
<1> QED
  BY <1>6, <1>7, <1>8, <1>9, <1>10, <1>11, <1>12, <1>13, <1>14, <1>15 DEF IInv

\* The key leaves inFlight when its deferred is complete: no one waits for it.
LEMMA ReleaseStep ==
  ASSUME IInv, NEW c \in Caller, Release(c)
  PROVE  IInv'
<1>1. /\ pc[c] = "release" /\ UNCHANGED <<row, doc, history>>
      /\ Key(c) \in Op /\ owner[Key(c)] = c /\ exit[Key(c)] # "none"
      /\ owner' = [owner EXCEPT ![Key(c)] = Nobody]
      /\ exit' = [exit EXCEPT ![Key(c)] = "none"]
  BY LedgerAssumption DEF Release, Goto, At, IInv, Phased, Reserved, Answered, Deferred, Running, Key
<1>2. Moved(c, "answered", call[c].answer)
  BY GotoMoves DEF Release, IInv, Labels
<1>3. Nobody \notin Caller
  BY LedgerAssumption
<1>4. Typed'
  <2>1. exit' \in [Op -> Exits] /\ owner' \in [Op -> Caller \cup {Nobody}]
    BY <1>1 DEF IInv, Typed, Exits
  <2> QED
    BY <1>1, <1>2, <2>1 DEF IInv, Typed, Moved, doc, history
<1>5. Reserved'
  BY <1>1, <1>2, <1>3 DEF IInv, Typed, Reserved, Moved, Key, Running
<1>6. Phased' /\ Answered'
  BY <1>1, <1>2 DEF IInv, Phased, Answered, Moved, Key, doc
<1>7. Deferred'
  <2> SUFFICES ASSUME NEW j \in Op, owner'[j] # Nobody
               PROVE  exit'[j] = IF pc'[owner'[j]] = "release" THEN call'[owner'[j]].answer ELSE "none"
    BY <1>1 DEF Deferred
  <2>1. owner'[j] = owner[j] /\ owner[j] \in Caller /\ Key(owner[j]) = j /\ j # Key(c)
    BY <1>1 DEF IInv, Typed, Reserved
  <2> QED
    BY <1>1, <1>2, <2>1 DEF IInv, Typed, Deferred, Moved
<1>8. NoJoinerStranded'
  BY <1>1, <1>2 DEF IInv, Typed, NoJoinerStranded, At, Moved, Key
<1>9. Unrecorded' /\ Executed' /\ SuccessIsReal'
  BY <1>1, <1>2 DEF IInv, Unrecorded, Executed, SuccessIsReal, Moved, Key, history
<1>10. Accounted'
  <2>1. \A j \in Op : (\E d \in Caller : pc[d] = "ran" /\ Key(d) = j) =>
                      (\E d \in Caller : pc'[d] = "ran" /\ Key(d)' = j)
    BY <1>1, <1>2 DEF Moved, Key
  <2> QED
    BY <1>1, <2>1 DEF IInv, Accounted, Typed, history
<1>11. RecoveredIsSettled' /\ ScannedIsSettled' /\ FloorIsSettled' /\ (Compaction # "free" => AcknowledgedIsSettled')
  BY <1>1, <1>2, SettledKept DEF Moved, Settled, doc, history
<1>12. AnswerIsRecorded'
  BY <1>1, <1>2 DEF IInv, AnswerIsRecorded, Moved, Settled, Key, history
<1> QED
  BY <1>4, <1>5, <1>6, <1>7, <1>8, <1>9, <1>10, <1>11, <1>12 DEF IInv

(***************************************************************************)
(* Entering and leaving runEffect.                                         *)
(***************************************************************************)

\* Whatever of the invariant a fiber's entry or return concerns.
FiberOK == /\ owner \in [Op -> Caller \cup {Nobody}] /\ exit \in [Op -> Exits]
           /\ pc \in [Caller -> Labels] /\ call \in [Caller -> Calls]
           /\ Reserved /\ Phased /\ Answered /\ Deferred /\ NoJoinerStranded
           /\ Unrecorded /\ Accounted /\ Executed
           /\ AnswerIsRecorded /\ ScannedIsSettled

\* Check-and-reserve: the fiber owns the effect, waits for its owner, or has
\* that owner's answer.
LEMMA EnterStep ==
  ASSUME IInv, NEW c \in Caller, NEW record \in Calls, Enter(c, record),
         pc[c] \in {"idle", "scan"}, record.key \in Op, record.kind # "none", record.answer = "none",
         record.kind = "recover" => /\ record.key <= record.last
                                    /\ \A k \in 1..(record.key - 1) : Settled(k),
         UNCHANGED <<row, history>>
  PROVE  FiberOK'
<1> DEFINE k == record.key
           free == owner[k] = Nobody
<1>0. k \in Op /\ Nobody \notin Caller /\ \A d \in Caller : pc[d] \in Running => d # c
  BY LedgerAssumption DEF Running
<1>1. /\ owner' = IF free THEN [owner EXCEPT ![k] = c] ELSE owner
      /\ exit' = IF free THEN [exit EXCEPT ![k] = "none"] ELSE exit
      /\ owner' \in [Op -> Caller \cup {Nobody}] /\ exit' \in [Op -> Exits]
  BY <1>0 DEF Enter, IInv, Typed, Exits
<1>2. /\ pc' \in [Caller -> Labels] /\ \A d \in Caller \ {c} : pc'[d] = pc[d]
      /\ pc'[c] = IF free THEN "lookup" ELSE IF exit[k] = "none" THEN "await" ELSE "answered"
  BY DEF Enter, IInv, Typed, Labels, Running
<1>3. /\ call' \in [Caller -> Calls] /\ \A d \in Caller \ {c} : call'[d] = call[d]
      /\ call'[c].kind = record.kind /\ call'[c].key = k /\ call'[c].last = record.last
      /\ call'[c].answer = IF free THEN "none" ELSE exit[k]
  <2>1. CASE free
    BY <2>1 DEF Enter, IInv, Typed
  <2>2. CASE ~free
    <3> DEFINE r == [record EXCEPT !.answer = exit[k]]
    <3>1. r \in Calls
      BY <1>0 DEF IInv, Typed, Calls
    <3>2. r.kind = record.kind /\ r.key = k /\ r.last = record.last /\ r.answer = exit[k]
      BY DEF Calls
    <3>3. call' = [call EXCEPT ![c] = r]
      BY <2>2 DEF Enter
    <3> HIDE DEF r
    <3> QED
      BY <2>2, <3>1, <3>2, <3>3 DEF IInv, Typed
  <2> QED
    BY <2>1, <2>2
<1>4. ~free => /\ owner[k] \in Caller /\ owner[k] # c /\ pc[owner[k]] \in Running /\ Key(owner[k]) = k
               /\ exit[k] = "ok" => Settled(k)
  BY <1>0 DEF IInv, Typed, Reserved, Deferred, AnswerIsRecorded, Key
<1> HIDE DEF k, free
<1>5. Reserved'
  BY <1>0, <1>1, <1>2, <1>3, <1>4 DEF IInv, Typed, Reserved, Key, Running, free
<1>6. Phased'
  <2>1. ASSUME NEW d \in Caller \ {c} PROVE call[d] \in Calls
    BY DEF IInv, Typed
  <2> QED
    BY <1>0, <1>2, <1>3, <2>1 DEF IInv, Phased, Key, Calls, k, Op
<1>7. Answered'
  BY <1>2, <1>3 DEF IInv, Answered
<1>8. Deferred'
  <2> SUFFICES ASSUME NEW j \in Op, owner'[j] # Nobody
               PROVE  exit'[j] = IF pc'[owner'[j]] = "release" THEN call'[owner'[j]].answer ELSE "none"
    BY DEF Deferred
  <2>1. CASE free /\ j = k
    BY <1>1, <1>2, <2>1 DEF IInv, Typed
  <2>2. CASE ~(free /\ j = k)
    <3>1. owner'[j] = owner[j] /\ exit'[j] = exit[j]
      BY <1>1, <2>2 DEF IInv, Typed
    <3>2. owner[j] \in Caller /\ owner[j] # c
      BY <1>0, <3>1 DEF IInv, Typed, Reserved
    <3> QED
      BY <1>2, <1>3, <3>1, <3>2 DEF IInv, Deferred
  <2> QED
    BY <2>1, <2>2
<1>9. NoJoinerStranded'
  BY <1>0, <1>1, <1>2, <1>3 DEF IInv, Typed, NoJoinerStranded, At, Key, free
<1>10. Unrecorded' /\ Executed'
  BY <1>2, <1>3 DEF IInv, Unrecorded, Executed, Key, history
<1>11. Accounted'
  <2>1. \A j \in Op : (\E d \in Caller : pc[d] = "ran" /\ Key(d) = j) =>
                      (\E d \in Caller : pc'[d] = "ran" /\ Key(d)' = j)
    BY <1>2, <1>3 DEF Key
  <2> QED
    BY <2>1 DEF IInv, Accounted, Typed, history
<1>12. AnswerIsRecorded'
  BY <1>3, <1>4 DEF IInv, AnswerIsRecorded, Settled, Key, history
<1>13. ScannedIsSettled'
  BY <1>3 DEF IInv, ScannedIsSettled, Settled, Key, history, k
<1> QED
  BY <1>1, <1>2, <1>3, <1>5, <1>6, <1>7, <1>8, <1>9, <1>10, <1>11, <1>12, <1>13 DEF FiberOK

\* A fiber that is in no run returns to its caller.
Left(c) == pc' = [pc EXCEPT ![c] = "idle"] /\ call' = [call EXCEPT ![c] = NoCall]

LEMMA LeftStep ==
  ASSUME IInv, NEW c \in Caller, Left(c), pc[c] \in {"answered", "scan"},
         UNCHANGED <<row, owner, exit, history>>
  PROVE  FiberOK'
<1>1. NoCall \in Calls
  BY LedgerAssumption DEF NoCall, Calls, Exits
<1>2. /\ pc' \in [Caller -> Labels] /\ pc'[c] = "idle" /\ \A d \in Caller \ {c} : pc'[d] = pc[d]
      /\ call' \in [Caller -> Calls] /\ call'[c] = NoCall /\ \A d \in Caller \ {c} : call'[d] = call[d]
  BY <1>1 DEF Left, IInv, Typed, Labels
<1>3. \A k \in Op : owner[k] # c
  BY DEF IInv, Reserved, Running
<1>4. NoCall.kind = "none" /\ NoCall.answer = "none"
  BY DEF NoCall
<1>5. Reserved' /\ Answered'
  BY <1>2, <1>3, <1>4 DEF IInv, Reserved, Answered, Key, Running
<1>6. Phased'
  BY <1>2, <1>4 DEF IInv, Phased, Key
<1>7. Deferred'
  BY <1>2, <1>3 DEF IInv, Typed, Deferred
<1>8. NoJoinerStranded' /\ Unrecorded' /\ Executed'
  BY <1>2 DEF IInv, NoJoinerStranded, Unrecorded, Executed, At, Key, history
<1>9. Accounted'
  <2>1. \A j \in Op : (\E d \in Caller : pc[d] = "ran" /\ Key(d) = j) =>
                      (\E d \in Caller : pc'[d] = "ran" /\ Key(d)' = j)
    BY <1>2 DEF Key
  <2> QED
    BY <2>1 DEF IInv, Accounted, Typed, history
<1>10. AnswerIsRecorded' /\ ScannedIsSettled'
  BY <1>2, <1>4 DEF IInv, AnswerIsRecorded, ScannedIsSettled, Settled, Key, history
<1> QED
  BY <1>2, <1>5, <1>6, <1>7, <1>8, <1>9, <1>10 DEF IInv, Typed, FiberOK

(***************************************************************************)
(* The exchange handler and direct calls.                                  *)
(***************************************************************************)

LEMMA ExchangeStep ==
  ASSUME IInv, NEW c \in Caller, NEW n \in Op, Exchange(c, n)
  PROVE  IInv'
<1>1. /\ pc[c] = "idle" /\ n <= cursor + 1 /\ UNCHANGED <<row, floor, saved, history>>
      /\ cursor' = IF n > cursor THEN n ELSE cursor
  BY DEF Exchange, At
<1>2. cursor \in 0..MaxOp /\ n \in 1..MaxOp /\ MaxOp \in Nat
  BY LedgerAssumption DEF IInv, Typed, Op
<1>3. cursor' \in 0..MaxOp
  BY <1>1, <1>2
<1>4. floor' \in 0..cursor' /\ saved' \in 0..MaxOp /\ acked \in SUBSET Op
  BY <1>1, <1>2, <1>3 DEF IInv, Typed
<1>5. SuccessIsReal' /\ RecoveredIsSettled' /\ FloorIsSettled'
  BY <1>1 DEF IInv, SuccessIsReal, RecoveredIsSettled, FloorIsSettled, Settled, history
<1>6. CASE n <= floor
  <2>1. acked' = acked \cup {n} /\ UNCHANGED <<owner, exit, pc, call>>
    BY <1>6 DEF Exchange
  <2>2. Typed'
    BY <1>1, <1>2, <1>3, <1>4, <2>1 DEF IInv, Typed, history
  <2>3. Reserved' /\ Answered' /\ Deferred' /\ NoJoinerStranded' /\ Unrecorded' /\ Executed'
    BY <1>1, <2>1 DEF IInv, Reserved, Answered, Deferred, NoJoinerStranded, Unrecorded, Executed,
                      At, Key, history
  <2>4. Accounted' /\ AnswerIsRecorded' /\ ScannedIsSettled'
    BY <1>1, <2>1 DEF IInv, Accounted, AnswerIsRecorded, ScannedIsSettled, Settled, Key, history
  <2>5. Phased'
    BY <2>1 DEF IInv, Phased, Key
  <2>6. Compaction # "free" => AcknowledgedIsSettled'
    <3>1. Compaction # "free" => Settled(n)
      BY <1>2, <1>6 DEF IInv, FloorIsSettled, Typed
    <3> QED
      BY <1>1, <2>1, <3>1 DEF IInv, AcknowledgedIsSettled, Settled, history
  <2> QED
    BY <1>5, <2>2, <2>3, <2>4, <2>5, <2>6 DEF IInv
<1>7. CASE ~(n <= floor)
  <2> DEFINE record == [kind |-> "exchange", key |-> n, retry |-> TRUE, last |-> n, answer |-> "none"]
  <2>1. Enter(c, record) /\ acked' = acked
    BY <1>7 DEF Exchange
  <2>2. /\ record \in Calls /\ record.key \in Op
        /\ record.kind = "exchange" /\ record.answer = "none"
    BY <1>2, <1>3 DEF Calls, Exits
  <2> HIDE DEF record
  <2>3. FiberOK'
    BY <1>1, <1>3, <2>1, <2>2, EnterStep
  <2>4. Typed'
    BY <1>1, <1>3, <1>4, <2>1, <2>3 DEF IInv, Typed, FiberOK, history
  <2>5. Compaction # "free" => AcknowledgedIsSettled'
    BY <1>1, <2>1 DEF IInv, AcknowledgedIsSettled, Settled, history
  <2> QED
    BY <1>5, <2>3, <2>4, <2>5 DEF IInv, FiberOK
<1> QED
  BY <1>6, <1>7

\* An operation is acknowledged on the answer "ok", which is a recorded success.
LEMMA AcknowledgeStep ==
  ASSUME IInv, NEW c \in Caller, Acknowledge(c)
  PROVE  IInv'
<1>1. /\ pc[c] = "answered" /\ UNCHANGED <<row, owner, exit, cursor, floor, saved, history>>
      /\ acked' = IF call[c].answer = "ok" THEN acked \cup {Key(c)} ELSE acked
      /\ Left(c)
  BY DEF Acknowledge, At, Left
<1>2. Key(c) \in Op
  BY <1>1 DEF IInv, Phased
<1>3. FiberOK'
  BY <1>1, LeftStep
<1>4. Typed'
  BY <1>1, <1>2, <1>3 DEF IInv, Typed, FiberOK, history
<1>5. SuccessIsReal' /\ RecoveredIsSettled' /\ FloorIsSettled'
  BY <1>1 DEF IInv, SuccessIsReal, RecoveredIsSettled, FloorIsSettled, Settled, history
<1>6. Compaction # "free" => AcknowledgedIsSettled'
  BY <1>1 DEF IInv, AcknowledgedIsSettled, AnswerIsRecorded, Settled, history
<1> QED
  BY <1>3, <1>4, <1>5, <1>6 DEF IInv, FiberOK

\* A fiber entering or leaving runEffect with the document as it is.
LEMMA DocumentKept ==
  ASSUME IInv, FiberOK', UNCHANGED <<row, doc, history>>
  PROVE  IInv'
<1>1. Typed'
  BY DEF IInv, Typed, FiberOK, doc, history
<1>2. SuccessIsReal' /\ RecoveredIsSettled' /\ FloorIsSettled' /\ (Compaction # "free" => AcknowledgedIsSettled')
  BY DEF IInv, SuccessIsReal, RecoveredIsSettled, FloorIsSettled, AcknowledgedIsSettled, Settled,
         doc, history
<1> QED
  BY <1>1, <1>2 DEF IInv, FiberOK

LEMMA CallOnceStep ==
  ASSUME IInv, NEW c \in Caller, NEW k \in Op, CallOnce(c, k)
  PROVE  IInv'
<1> DEFINE record == [kind |-> "once", key |-> k, retry |-> FALSE, last |-> k, answer |-> "none"]
<1>1. pc[c] = "idle" /\ Enter(c, record) /\ UNCHANGED <<row, doc, history>>
  BY DEF CallOnce, At
<1>2. /\ record \in Calls /\ record.key = k /\ record.kind = "once" /\ record.answer = "none"
  BY LedgerAssumption DEF Calls, Exits, Op
<1> HIDE DEF record
<1>3. FiberOK'
  BY <1>1, <1>2, EnterStep
<1> QED
  BY <1>1, <1>3, DocumentKept

LEMMA ReturnOnceStep ==
  ASSUME IInv, NEW c \in Caller, ReturnOnce(c)
  PROVE  IInv'
<1>1. pc[c] = "answered" /\ Left(c) /\ UNCHANGED <<row, owner, exit, doc, history>>
  BY DEF ReturnOnce, At, Left
<1>2. FiberOK'
  BY <1>1, LeftStep DEF doc
<1> QED
  BY <1>1, <1>2, DocumentKept

(***************************************************************************)
(* recover.                                                                *)
(***************************************************************************)

\* A fiber outside runEffect stands before the next operation of its scan.
LEMMA ScanStep ==
  ASSUME IInv, NEW c \in Caller, NEW record \in Calls,
         pc[c] \in {"idle", "scan", "answered"},
         pc' = [pc EXCEPT ![c] = "scan"], call' = [call EXCEPT ![c] = record],
         record.kind = "recover", record.answer = "none",
         record.key \in 1..(record.last + 1),
         \A k \in 1..(record.key - 1) : Settled(k),
         UNCHANGED <<row, owner, exit, doc, history>>
  PROVE  IInv'
<1>1. /\ pc' \in [Caller -> Labels] /\ pc'[c] = "scan" /\ \A d \in Caller \ {c} : pc'[d] = pc[d]
      /\ call' \in [Caller -> Calls] /\ call'[c] = record /\ \A d \in Caller \ {c} : call'[d] = call[d]
  BY DEF IInv, Typed, Labels
<1>2. \A k \in Op : owner[k] # c
  BY DEF IInv, Reserved, Running
<1>3. Reserved' /\ Answered'
  BY <1>1, <1>2 DEF IInv, Reserved, Answered, Key, Running
<1>4. Phased'
  BY <1>1 DEF IInv, Phased, Key, doc
<1>5. Deferred'
  BY <1>1, <1>2 DEF IInv, Typed, Deferred
<1>6. NoJoinerStranded' /\ Unrecorded' /\ Executed'
  BY <1>1 DEF IInv, NoJoinerStranded, Unrecorded, Executed, At, Key, history
<1>7. Accounted'
  <2>1. \A j \in Op : (\E d \in Caller : pc[d] = "ran" /\ Key(d) = j) =>
                      (\E d \in Caller : pc'[d] = "ran" /\ Key(d)' = j)
    BY <1>1 DEF Key
  <2> QED
    BY <2>1 DEF IInv, Accounted, Typed, history
<1>8. AnswerIsRecorded' /\ ScannedIsSettled'
  BY <1>1 DEF IInv, AnswerIsRecorded, ScannedIsSettled, Settled, Key, history
<1>9. FiberOK'
  BY <1>1, <1>3, <1>4, <1>5, <1>6, <1>7, <1>8 DEF IInv, Typed, FiberOK
<1> QED
  BY <1>9, DocumentKept

\* The scan starts behind the saved cursor, whose effects are settled.
LEMMA RecoverStartStep ==
  ASSUME IInv, NEW c \in Caller, RecoverStart(c)
  PROVE  IInv'
<1> DEFINE record == [kind |-> "recover", key |-> saved + 1, retry |-> TRUE, last |-> cursor,
                      answer |-> "none"]
<1>1. /\ pc[c] = "idle" /\ saved < cursor /\ UNCHANGED <<row, owner, exit, doc, history>>
      /\ pc' = [pc EXCEPT ![c] = "scan"] /\ call' = [call EXCEPT ![c] = record]
  BY DEF RecoverStart, At
<1>2. saved \in Nat /\ cursor \in Nat /\ cursor <= MaxOp /\ MaxOp \in Nat
  BY LedgerAssumption DEF IInv, Typed
<1>3. /\ record \in Calls /\ record.kind = "recover" /\ record.answer = "none"
      /\ record.key = saved + 1 /\ record.last = cursor
  BY <1>1, <1>2 DEF Calls, Exits
<1> HIDE DEF record
<1>4. /\ record.key \in 1..(record.last + 1)
      /\ \A k \in 1..(record.key - 1) : Settled(k)
  BY <1>1, <1>2, <1>3 DEF IInv, RecoveredIsSettled
<1> QED
  BY <1>1, <1>3, <1>4, ScanStep

\* recover returns the cursor before which every effect settled.
LEMMA RecoverReturnStep ==
  ASSUME IInv, NEW c \in Caller, RecoverReturn(c), pc[c] \in {"scan", "answered"},
         call[c].kind = "recover"
  PROVE  IInv'
<1>1. /\ saved' = Key(c) - 1 /\ Left(c) /\ UNCHANGED <<row, owner, exit, cursor, floor, acked, history>>
  BY DEF RecoverReturn, Left
<1>2. FiberOK'
  BY <1>1, LeftStep
<1>3. saved' \in 0..MaxOp
  BY <1>1, LedgerAssumption DEF IInv, Typed, Calls, Phased, Key
<1>4. Typed'
  BY <1>1, <1>2, <1>3 DEF IInv, Typed, FiberOK, history
<1>5. RecoveredIsSettled'
  BY <1>1 DEF IInv, ScannedIsSettled, RecoveredIsSettled, Settled, history
<1>6. SuccessIsReal' /\ FloorIsSettled' /\ (Compaction # "free" => AcknowledgedIsSettled')
  BY <1>1 DEF IInv, SuccessIsReal, FloorIsSettled, AcknowledgedIsSettled, Settled, history
<1> QED
  BY <1>2, <1>4, <1>5, <1>6 DEF IInv, FiberOK

\* The scan passes a recorded success, or one its own run has just recorded.
LEMMA ScanPasses ==
  ASSUME IInv, NEW c \in Caller, pc[c] \in {"scan", "answered"}, call[c].kind = "recover",
         Key(c) <= call[c].last, Settled(Key(c)),
         pc' = [pc EXCEPT ![c] = "scan"],
         call' = [call EXCEPT ![c] = [call[c] EXCEPT !.key = @ + 1, !.answer = "none"]],
         UNCHANGED <<row, owner, exit, doc, history>>
  PROVE  IInv'
<1> DEFINE record == [call[c] EXCEPT !.key = @ + 1, !.answer = "none"]
<1>1. call[c] \in Calls /\ Key(c) \in 1..(call[c].last + 1)
  BY DEF IInv, Typed, Phased
<1>2. call[c].last \in 0..MaxOp /\ MaxOp \in Nat
  BY <1>1, LedgerAssumption DEF Calls
<1>3. /\ record \in Calls /\ record.kind = "recover" /\ record.answer = "none"
      /\ record.key = Key(c) + 1 /\ record.last = call[c].last
  <2>1. call[c].key \in 0..MaxOp /\ call[c].key + 1 \in 0..(MaxOp + 1)
    BY <1>1, <1>2 DEF Key, Calls
  <2>2. /\ record.kind = call[c].kind /\ record.key = call[c].key + 1 /\ record.answer = "none"
        /\ record.last = call[c].last
    BY <1>1 DEF Calls
  <2>3. record \in Calls
    BY <1>1, <2>1 DEF Calls, Exits
  <2> QED
    BY <2>2, <2>3 DEF Key
<1>4. call' = [call EXCEPT ![c] = record]
  OBVIOUS
<1> HIDE DEF record
<1>5. \A k \in 1..(record.key - 1) : Settled(k)
  <2> SUFFICES ASSUME NEW k \in 1..Key(c) PROVE Settled(k)
    BY <1>1, <1>3
  <2>1. k = Key(c) \/ k \in 1..(Key(c) - 1)
    BY <1>1
  <2> QED
    BY <2>1 DEF IInv, ScannedIsSettled
<1>6. record.key \in 1..(record.last + 1)
  BY <1>1, <1>2, <1>3
<1> QED
  BY <1>3, <1>4, <1>5, <1>6, ScanStep

LEMMA RecoverNextStep ==
  ASSUME IInv, NEW c \in Caller, RecoverNext(c)
  PROVE  IInv'
<1>1. pc[c] = "scan" /\ call[c].kind = "recover" /\ call[c].answer = "none"
  BY DEF RecoverNext, At, IInv, Phased
<1>2. CASE RecoverReturn(c)
  BY <1>1, <1>2, RecoverReturnStep
<1>3. CASE /\ Key(c) <= call[c].last /\ row[Key(c)] = "succeeded"
           /\ call' = [call EXCEPT ![c].key = @ + 1]
           /\ UNCHANGED <<row, owner, exit, pc, doc, history>>
  <2>1. call[c] \in Calls /\ pc \in [Caller -> Labels] /\ call \in [Caller -> Calls]
    BY DEF IInv, Typed
  <2>2. [call[c] EXCEPT !.key = @ + 1] = [call[c] EXCEPT !.key = @ + 1, !.answer = "none"]
    BY <1>1, <2>1 DEF Calls
  <2>3. /\ pc' = [pc EXCEPT ![c] = "scan"]
        /\ call' = [call EXCEPT ![c] = [call[c] EXCEPT !.key = @ + 1, !.answer = "none"]]
    BY <1>1, <1>3, <2>1, <2>2
  <2>4. Settled(Key(c))
    BY <1>3 DEF Settled
  <2> QED
    BY <1>1, <1>3, <2>3, <2>4, ScanPasses
<1>4. CASE /\ Key(c) <= call[c].last /\ Enter(c, call[c]) /\ UNCHANGED <<row, doc, history>>
  <2>1. call[c] \in Calls /\ Key(c) \in 1..(call[c].last + 1)
    BY <1>1 DEF IInv, Typed, Phased
  <2>2. call[c].last \in 0..MaxOp /\ MaxOp \in Nat
    BY <2>1, LedgerAssumption DEF Calls
  <2>3. Key(c) \in Op
    BY <1>4, <2>1, <2>2 DEF Op
  <2>4. \A k \in 1..(Key(c) - 1) : Settled(k)
    BY <1>1 DEF IInv, ScannedIsSettled
  <2>5. FiberOK'
    BY <1>1, <1>4, <2>1, <2>2, <2>3, <2>4, EnterStep DEF Key
  <2> QED
    BY <1>4, <2>5, DocumentKept
<1> QED
  BY <1>2, <1>3, <1>4 DEF RecoverNext

LEMMA RecoverContinueStep ==
  ASSUME IInv, NEW c \in Caller, RecoverContinue(c)
  PROVE  IInv'
<1>1. pc[c] = "answered" /\ call[c].kind = "recover"
  BY DEF RecoverContinue, At
<1>2. CASE call[c].answer = "ok"
  <2>1. /\ pc' = [pc EXCEPT ![c] = "scan"]
        /\ call' = [call EXCEPT ![c].key = @ + 1, ![c].answer = "none"]
        /\ UNCHANGED <<row, owner, exit, doc, history>>
    BY <1>2 DEF RecoverContinue
  <2>2. call' = [call EXCEPT ![c] = [call[c] EXCEPT !.key = @ + 1, !.answer = "none"]]
    BY <2>1 DEF IInv, Typed, Calls
  <2>3. Key(c) <= call[c].last /\ Settled(Key(c))
    BY <1>1, <1>2 DEF IInv, Phased, AnswerIsRecorded
  <2> QED
    BY <1>1, <2>1, <2>2, <2>3, ScanPasses
<1>3. CASE call[c].answer = "failed"
  <2>1. RecoverReturn(c)
    BY <1>3 DEF RecoverContinue
  <2> QED
    BY <1>1, <2>1, RecoverReturnStep
<1>4. CASE call[c].answer \notin {"ok", "failed"}
  <2>1. Left(c) /\ UNCHANGED <<row, owner, exit, doc, history>>
    BY <1>4 DEF RecoverContinue, Left
  <2>2. FiberOK'
    BY <1>1, <2>1, LeftStep DEF doc
  <2> QED
    BY <2>1, <2>2, DocumentKept
<1> QED
  BY <1>2, <1>3, <1>4

(***************************************************************************)
(* clearEffect, compact, reset, and the death of the process.              *)
(***************************************************************************)

\* A cleared success is counted as lost and stays settled until it is recorded anew.
LEMMA ClearEffectStep ==
  ASSUME IInv, NEW k \in Op, ClearEffect(k)
  PROVE  IInv'
<1>1. /\ UNCHANGED <<owner, exit, pc, call, doc, ran>>
      /\ row' = [row EXCEPT ![k] = "none"] /\ cleared' = cleared \cup {k}
      /\ lost' = IF row[k] = "succeeded" THEN [lost EXCEPT ![k] = @ + 1] ELSE lost
  BY DEF ClearEffect
<1>2. Typed'
  BY <1>1 DEF IInv, Typed, doc
<1>3. Reserved' /\ Phased' /\ Answered' /\ Deferred' /\ NoJoinerStranded' /\ Executed'
  BY <1>1 DEF IInv, Reserved, Phased, Answered, Deferred, NoJoinerStranded, Executed, At, Key, doc
<1>4. Unrecorded' /\ SuccessIsReal'
  BY <1>1 DEF IInv, Typed, Unrecorded, SuccessIsReal, Key
<1>5. Accounted'
  <2> SUFFICES ASSUME NEW j \in Op
               PROVE  ran[j] <= lost'[j] + IF \/ row'[j] = "succeeded"
                                              \/ \E c \in Caller : pc[c] = "ran" /\ Key(c) = j
                                             THEN 1 ELSE 0
    BY <1>1 DEF Accounted, Key
  <2>1. CASE j = k
    <3>1. row[j] = "succeeded" => ~\E c \in Caller : pc[c] = "ran" /\ Key(c) = j
      BY DEF IInv, Unrecorded
    <3> QED
      BY <1>1, <2>1, <3>1 DEF IInv, Typed, Accounted
  <2>2. CASE j # k
    BY <1>1, <2>2 DEF IInv, Typed, Accounted
  <2> QED
    BY <2>1, <2>2
<1>6. \A j \in Op : Settled(j) => Settled(j)'
  BY <1>1 DEF IInv, Typed, Settled
<1>7. RecoveredIsSettled' /\ ScannedIsSettled' /\ FloorIsSettled' /\ (Compaction # "free" => AcknowledgedIsSettled')
  BY <1>1, <1>6, SettledKept DEF doc
<1>8. AnswerIsRecorded'
  <2>1. \A d \in Caller : call[d].answer # "none" => Key(d) \in Op
    BY DEF IInv, Phased, Key, NoCall
  <2> QED
    BY <1>1, <1>6, <2>1 DEF IInv, AnswerIsRecorded, Key
<1> QED
  BY <1>2, <1>3, <1>4, <1>5, <1>7, <1>8 DEF IInv

\* Compaction up to the recovery cursor drops only what is settled.
LEMMA CompactStep ==
  ASSUME IInv, Compact
  PROVE  IInv'
<1>1. /\ UNCHANGED <<row, owner, exit, pc, call, cursor, saved, acked, history>>
      /\ floor' \in (floor + 1)..cursor /\ (Compaction = "settled" => floor' <= saved)
      /\ Compaction \in {"settled", "free"}
  BY LedgerAssumption DEF Compact
<1>2. Typed'
  BY <1>1 DEF IInv, Typed, history
<1>3. Reserved' /\ Phased' /\ Answered' /\ Deferred' /\ NoJoinerStranded' /\ Executed' /\ Unrecorded'
  BY <1>1 DEF IInv, Reserved, Phased, Answered, Deferred, NoJoinerStranded, Executed, Unrecorded,
              At, Key, history
<1>4. Accounted' /\ SuccessIsReal' /\ AnswerIsRecorded'
  BY <1>1 DEF IInv, Accounted, SuccessIsReal, AnswerIsRecorded, Settled, Key, history
<1>5. RecoveredIsSettled' /\ ScannedIsSettled' /\ (Compaction # "free" => AcknowledgedIsSettled')
  BY <1>1 DEF IInv, RecoveredIsSettled, ScannedIsSettled, AcknowledgedIsSettled, Settled, Key, history
<1>6. FloorIsSettled'
  BY <1>1 DEF IInv, Typed, RecoveredIsSettled, FloorIsSettled, Settled, history
<1> QED
  BY <1>2, <1>3, <1>4, <1>5, <1>6 DEF IInv

\* Reset starts the document anew; what the effect rows record stays true.
LEMMA ResetStep ==
  ASSUME IInv, Reset
  PROVE  IInv'
<1>1. /\ UNCHANGED <<row, owner, exit, pc, call, history>>
      /\ cursor' = 0 /\ floor' = 0 /\ saved' = 0 /\ acked' = {}
  BY DEF Reset
<1>2. Typed'
  BY <1>1, LedgerAssumption DEF IInv, Typed, history
<1>3. Reserved' /\ Answered' /\ Deferred' /\ NoJoinerStranded' /\ Executed' /\ Unrecorded'
  BY <1>1 DEF IInv, Reserved, Answered, Deferred, NoJoinerStranded, Executed, Unrecorded,
              At, Key, history
<1>4. Phased'
  BY <1>1 DEF IInv, Phased, Key
<1>5. Accounted' /\ SuccessIsReal' /\ AnswerIsRecorded' /\ ScannedIsSettled'
  BY <1>1 DEF IInv, Accounted, SuccessIsReal, AnswerIsRecorded, ScannedIsSettled, Settled, Key, history
<1>6. RecoveredIsSettled' /\ FloorIsSettled' /\ AcknowledgedIsSettled'
  BY <1>1 DEF RecoveredIsSettled, FloorIsSettled, AcknowledgedIsSettled
<1> QED
  BY <1>2, <1>3, <1>4, <1>5, <1>6 DEF IInv

\* An effect has at most one fiber that has executed it and not yet recorded so.
LEMMA AboutToRecord ==
  ASSUME IInv, NEW k \in Op
  PROVE  LET S == {c \in Caller : At(c, "ran") /\ Key(c) = k}
         IN  Cardinality(S) \in Nat /\ (S # {} => Cardinality(S) >= 1)
<1> DEFINE S == {c \in Caller : At(c, "ran") /\ Key(c) = k}
<1>1. S \subseteq {owner[k]}
  BY DEF IInv, Reserved, At, Running
<1>2. IsFiniteSet(S)
  BY <1>1, FS_Singleton, FS_Subset
<1>3. Cardinality(S) \in Nat /\ (Cardinality(S) = 0 <=> S = {})
  BY <1>2, FS_CardinalityType, FS_EmptySet
<1> QED
  BY <1>3

\* The death of the process loses the record of every execution not yet
\* recorded, and every reservation; the rows survive.
LEMMA CrashStep ==
  ASSUME IInv, Crash
  PROVE  IInv'
<1>1. /\ owner' = [k \in Op |-> Nobody] /\ exit' = [k \in Op |-> "none"]
      /\ pc' = [c \in Caller |-> "idle"] /\ call' = [c \in Caller |-> NoCall]
      /\ UNCHANGED <<row, doc, ran, cleared>>
      /\ lost' = [k \in Op |-> lost[k] + Cardinality({c \in Caller : At(c, "ran") /\ Key(c) = k})]
  BY DEF Crash
<1>2. \A k \in Op : /\ lost'[k] \in Nat /\ lost'[k] >= lost[k]
                    /\ (\E c \in Caller : pc[c] = "ran" /\ Key(c) = k) => lost'[k] >= lost[k] + 1
  <2> SUFFICES ASSUME NEW k \in Op
               PROVE  /\ lost'[k] \in Nat /\ lost'[k] >= lost[k]
                      /\ (\E c \in Caller : pc[c] = "ran" /\ Key(c) = k) => lost'[k] >= lost[k] + 1
    OBVIOUS
  <2> DEFINE S == {c \in Caller : At(c, "ran") /\ Key(c) = k}
  <2>1. Cardinality(S) \in Nat /\ (S # {} => Cardinality(S) >= 1)
    BY AboutToRecord
  <2>2. (\E c \in Caller : pc[c] = "ran" /\ Key(c) = k) => S # {}
    BY DEF At
  <2>3. lost'[k] = lost[k] + Cardinality(S) /\ lost[k] \in Nat
    BY <1>1 DEF IInv, Typed
  <2> HIDE DEF S
  <2> QED
    BY <2>1, <2>2, <2>3
<1>3. NoCall \in Calls /\ NoCall.kind = "none" /\ NoCall.answer = "none"
  BY LedgerAssumption DEF NoCall, Calls, Exits
<1>4. Typed'
  BY <1>1, <1>2, <1>3 DEF IInv, Typed, Labels, Exits, doc
<1>5. Reserved' /\ Phased' /\ Answered' /\ Deferred' /\ NoJoinerStranded' /\ Executed' /\ Unrecorded'
  BY <1>1, <1>3, LedgerAssumption DEF Reserved, Phased, Answered, Deferred, NoJoinerStranded,
                                     Executed, Unrecorded, Running, At, Key
<1>6. Accounted'
  BY <1>1, <1>2 DEF IInv, Accounted, Typed
<1>7. SuccessIsReal' /\ AnswerIsRecorded'
  BY <1>1, <1>3 DEF IInv, SuccessIsReal, AnswerIsRecorded
<1>8. RecoveredIsSettled' /\ ScannedIsSettled' /\ FloorIsSettled' /\ (Compaction # "free" => AcknowledgedIsSettled')
  BY <1>1, <1>3, SettledKept DEF Settled, doc
<1> QED
  BY <1>4, <1>5, <1>6, <1>7, <1>8 DEF IInv

(***************************************************************************)
(* The invariant, and what it says.                                        *)
(***************************************************************************)

LEMMA InitIInv == Init => IInv
<1> SUFFICES ASSUME Init PROVE IInv
  OBVIOUS
<1>1. NoCall \in Calls /\ NoCall.kind = "none" /\ NoCall.answer = "none"
  BY LedgerAssumption DEF NoCall, Calls, Exits
<1>2. Typed
  BY <1>1, LedgerAssumption DEF Init, Typed, Labels, Exits
<1>3. Reserved /\ Phased /\ Answered /\ Deferred /\ NoJoinerStranded /\ Executed /\ Unrecorded
  BY <1>1, LedgerAssumption DEF Init, Reserved, Phased, Answered, Deferred, NoJoinerStranded,
                               Executed, Unrecorded, Running, At, Key
<1>4. Accounted /\ SuccessIsReal /\ AnswerIsRecorded /\ ScannedIsSettled
  BY <1>1 DEF Init, Accounted, SuccessIsReal, AnswerIsRecorded, ScannedIsSettled
<1>5. RecoveredIsSettled /\ FloorIsSettled /\ AcknowledgedIsSettled
  BY DEF Init, RecoveredIsSettled, FloorIsSettled, AcknowledgedIsSettled
<1> QED
  BY <1>2, <1>3, <1>4, <1>5 DEF IInv

LEMMA NextIInv == IInv /\ [Next]_vars => IInv'
<1> SUFFICES ASSUME IInv, [Next]_vars PROVE IInv'
  OBVIOUS
<1>1. ASSUME NEW c \in Caller, RunEffect(c) PROVE IInv'
  BY <1>1, LookupStep, MarkPendingStep, RunSucceedsStep, RunFailsStep, RecordSuccessStep,
     RecordSuccessFailsStep, RecordFailureStep, SettleStep, ReleaseStep DEF RunEffect
<1>2. ASSUME NEW c \in Caller, Interrupt(c) PROVE IInv'
  BY <1>2, InterruptStep
<1>3. ASSUME NEW c \in Caller, NEW n \in Op, Exchange(c, n) \/ CallOnce(c, n) PROVE IInv'
  BY <1>3, ExchangeStep, CallOnceStep
<1>4. ASSUME NEW c \in Caller, Acknowledge(c) \/ ReturnOnce(c) PROVE IInv'
  BY <1>4, AcknowledgeStep, ReturnOnceStep
<1>5. ASSUME NEW c \in Caller, RecoverStart(c) \/ RecoverNext(c) \/ RecoverContinue(c) PROVE IInv'
  BY <1>5, RecoverStartStep, RecoverNextStep, RecoverContinueStep
<1>6. ASSUME NEW k \in Op, ClearEffect(k) PROVE IInv'
  BY <1>6, ClearEffectStep
<1>7. CASE Compact \/ Reset \/ Crash
  BY <1>7, CompactStep, ResetStep, CrashStep
<1>8. CASE UNCHANGED vars
  <2>1. UNCHANGED <<row, owner, exit, pc, call, doc, history>>
    BY <1>8 DEF vars, doc, history
  <2>2. Typed' /\ Reserved' /\ Phased' /\ Answered' /\ Deferred' /\ NoJoinerStranded'
    BY <2>1 DEF IInv, Typed, Reserved, Phased, Answered, Deferred, NoJoinerStranded, At, Key, doc, history
  <2>3. Unrecorded' /\ Accounted' /\ Executed' /\ AnswerIsRecorded' /\ ScannedIsSettled'
    BY <2>1 DEF IInv, Unrecorded, Accounted, Executed, AnswerIsRecorded, ScannedIsSettled, Settled,
                Key, history
  <2> QED
    BY <2>1, <2>2, <2>3, DocumentKept DEF FiberOK, Typed
<1> QED
  BY <1>1, <1>2, <1>3, <1>4, <1>5, <1>6, <1>7, <1>8 DEF Next

\* The invariant holds in every reachable state, whatever crashes, is
\* interrupted or is cleared.
THEOREM LedgerInvariant == Spec => []IInv
<1> QED
  BY InitIInv, NextIInv, PTL DEF Spec

\* A fiber works on an effect exactly while inFlight gives it that effect, and
\* a fiber that joined has an owner that has not answered yet: no two fibers
\* execute one effect at a time and no joiner is stranded (journal.ts:860-918).
THEOREM ReservationsAlwaysHold == Spec => []ReservationsHold
<1>1. IInv => ReservationsHold
  BY LedgerAssumption DEF IInv, Typed, Reserved, ReservationsHold, TypeOK, Exits, Labels, Op
<1> QED
  BY <1>1, LedgerInvariant, PTL

\* However often the process dies or a fiber is interrupted, the provider
\* executes an effect once more than records of it were lost, at most
\* (journal.ts:880-905).
THEOREM OneSuccessPerRecordAlways == Spec => []OneSuccessPerRecord
<1>1. IInv => OneSuccessPerRecord
  BY DEF IInv, Typed, Accounted, OneSuccessPerRecord
<1> QED
  BY <1>1, LedgerInvariant, PTL

\* A recorded success was executed, and a fiber is told "ok" only of a recorded
\* success, its own or that of the run it joined (journal.ts:876-918).
THEOREM AnswersAlwaysRecorded == Spec => []AnswersAreRecorded
<1>1. IInv => AnswersAreRecorded
  BY DEF IInv, AnswersAreRecorded
<1> QED
  BY <1>1, LedgerInvariant, PTL

\* The saved cursor of recover has only settled effects behind it, with any
\* number of recoveries and exchanges at once (journal.ts:922-955).
THEOREM RecoveredAlwaysSettled == Spec => []RecoveredIsSettled
<1>1. IInv => RecoveredIsSettled
  BY DEF IInv
<1> QED
  BY <1>1, LedgerInvariant, PTL

\* While compaction stays behind the recovery cursor, no operation is
\* acknowledged, and none passed by recover, before its effect is recorded
\* (examples/sync/src/journal.ts:229-260).
THEOREM SettledBeforeEveryAck ==
  ASSUME Compaction # "free"
  PROVE  Spec => []SettledBeforeTheAck
<1>1. IInv => SettledBeforeTheAck
  BY DEF IInv, SettledBeforeTheAck
<1> QED
  BY <1>1, LedgerInvariant, PTL

=============================================================================
