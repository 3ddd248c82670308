---------------------------- MODULE EffectLedger ----------------------------
(***************************************************************************)
(* The durable effect ledger: runEffect, clearEffect and recover of        *)
(* packages/durable/src/journal.ts, with the two callers the repository    *)
(* gives them: the exchange handler that settles an operation before it    *)
(* acknowledges it (examples/sync/src/journal.ts) and the recovery scan.   *)
(* Operation n of the document declares one effect, keyed n.               *)
(***************************************************************************)
EXTENDS Integers, FiniteSetsExt

CONSTANTS Caller,       \* fibers of the process that owns the journal
          MaxOp,        \* bound: operations 1..MaxOp of the document
          MaxRuns,      \* bound: successful external executions
          Nobody,       \* no fiber has the effect in flight
          Crashes,      \* may the process die?
          Interrupts,   \* may a fiber be interrupted, a record fail to be written?
          Compaction    \* "none", "settled" (up to the recovery cursor) or "free"

ASSUME LedgerAssumption ==
  /\ MaxOp \in Nat \ {0} /\ MaxRuns \in Nat \ {0} /\ Nobody \notin Caller
  /\ {Crashes, Interrupts} \subseteq BOOLEAN
  /\ Compaction \in {"none", "settled", "free"}

Op == 1..MaxOp

VARIABLES row,       \* effect -> the status its row records
          owner,     \* effect -> the fiber inFlight gives it to
          exit,      \* effect -> how that fiber's deferred was completed
          pc,        \* fiber -> where it is
          call,      \* fiber -> kind, effect, retryFailed, end of scan, answer
          cursor,    \* committed operations
          floor,     \* operations whose payload is compacted away
          saved,     \* the recovery cursor the application persisted
          acked,     \* operations acknowledged to their client
          ran,       \* history: successful executions at the provider
          lost,      \* history: successes whose record was lost
          cleared    \* history: effects whose success record was cleared

doc  == <<cursor, floor, saved, acked>>
history == <<ran, lost, cleared>>
vars == <<row, owner, exit, pc, call, cursor, floor, saved, acked, ran, lost, cleared>>

NoCall == [kind |-> "none", key |-> 0, retry |-> TRUE, last |-> 0, answer |-> "none"]

Init ==
  /\ row = [k \in Op |-> "none"]
  /\ owner = [k \in Op |-> Nobody]
  /\ exit = [k \in Op |-> "none"]
  /\ pc = [c \in Caller |-> "idle"]
  /\ call = [c \in Caller |-> NoCall]
  /\ cursor = 0 /\ floor = 0 /\ saved = 0 /\ acked = {}
  /\ ran = [k \in Op |-> 0]
  /\ lost = [k \in Op |-> 0]
  /\ cleared = {}

(***************************************************************************)
(* runEffect                                                               *)
(***************************************************************************)

\* Check-and-reserve is one atomic step: own the effect or join the fiber that
\* does.  A deferred that is already complete answers at once.
Enter(c, record) ==
  LET k == record.key
  IN  IF owner[k] = Nobody
        THEN /\ owner' = [owner EXCEPT ![k] = c]
             /\ exit' = [exit EXCEPT ![k] = "none"]
             /\ pc' = [pc EXCEPT ![c] = "lookup"]
             /\ call' = [call EXCEPT ![c] = record]
        ELSE /\ UNCHANGED <<owner, exit>>
             /\ pc' = [pc EXCEPT ![c] = IF exit[k] = "none" THEN "await" ELSE "answered"]
             /\ call' = [call EXCEPT ![c] = [record EXCEPT !.answer = exit[k]]]

Key(c) == call[c].key
At(c, label) == pc[c] = label
Goto(c, label) == pc' = [pc EXCEPT ![c] = label] /\ call' = call

\* The fiber leaves runEffect's body with an exit.
Finish(c, answer) ==
  /\ pc' = [pc EXCEPT ![c] = "settle"]
  /\ call' = [call EXCEPT ![c].answer = answer]

\* Mutant: the record is not consulted.
LookupForgets(c) ==
  At(c, "lookup") /\ Goto(c, "mark") /\ UNCHANGED <<row, owner, exit, doc, history>>

\* A recorded success is reused; a recorded failure is final on request.
Lookup(c) ==
  /\ At(c, "lookup")
  /\ CASE row[Key(c)] = "succeeded"                   -> Finish(c, "ok")
       [] row[Key(c)] = "failed" /\ ~call[c].retry    -> Finish(c, "failed")
       [] OTHER                                       -> Goto(c, "mark")
  /\ UNCHANGED <<row, owner, exit, doc, history>>

\* record(key, 'pending').
MarkPending(c) ==
  /\ At(c, "mark")
  /\ row' = [row EXCEPT ![Key(c)] = "pending"]
  /\ Goto(c, "run")
  /\ UNCHANGED <<owner, exit, doc, history>>

\* Bound: the successful executions of all effects together.
RunsLeft == MapThenSumSet(LAMBDA k : ran[k], Op) < MaxRuns

\* The external action.  It may have happened although it reports a failure.
RunSucceeds(c) ==
  /\ At(c, "run") /\ RunsLeft
  /\ ran' = [ran EXCEPT ![Key(c)] = @ + 1]
  /\ Goto(c, "ran")
  /\ UNCHANGED <<row, owner, exit, doc, lost, cleared>>

RunFails(c) ==
  /\ At(c, "run")
  /\ Goto(c, "errored")
  /\ UNCHANGED <<row, owner, exit, doc, history>>

\* Mutant: the answer is given without the record.
RecordNothing(c) ==
  /\ At(c, "ran")
  /\ Finish(c, "ok")
  /\ UNCHANGED <<row, owner, exit, doc, history>>

RecordSuccess(c) ==
  /\ At(c, "ran")
  /\ row' = [row EXCEPT ![Key(c)] = "succeeded"]
  /\ Finish(c, "ok")
  /\ cleared' = cleared \ {Key(c)}
  /\ UNCHANGED <<owner, exit, doc, ran, lost>>

\* The success cannot be recorded (the result does not encode): the error of
\* the tap reaches tapError, which records a failure.
RecordSuccessFails(c) ==
  /\ Interrupts
  /\ At(c, "ran")
  /\ lost' = [lost EXCEPT ![Key(c)] = @ + 1]
  /\ Goto(c, "errored")
  /\ UNCHANGED <<row, owner, exit, doc, ran, cleared>>

RecordFailure(c) ==
  /\ At(c, "errored")
  /\ row' = [row EXCEPT ![Key(c)] = "failed"]
  /\ Finish(c, "failed")
  /\ UNCHANGED <<owner, exit, doc, history>>

\* Mutant: an interrupted owner completes nothing.
SettleSuccess(c) ==
  LET joined == {d \in Caller : At(d, "await") /\ Key(d) = Key(c) /\ call[c].answer # "interrupted"}
      answer == call[c].answer
  IN  /\ At(c, "settle")
      /\ exit' = [exit EXCEPT ![Key(c)] = answer]
      /\ pc' = [d \in Caller |-> IF d = c THEN "release" ELSE IF d \in joined THEN "answered" ELSE pc[d]]
      /\ call' = [d \in Caller |-> IF d \in joined THEN [call[d] EXCEPT !.answer = answer] ELSE call[d]]
      /\ UNCHANGED <<row, owner, doc, history>>

\* onExit completes the deferred: everyone who joined has their answer.
Settle(c) ==
  LET joined == {d \in Caller : At(d, "await") /\ Key(d) = Key(c)}
      answer == call[c].answer
  IN  /\ At(c, "settle")
      /\ exit' = [exit EXCEPT ![Key(c)] = answer]
      /\ pc' = [d \in Caller |-> IF d = c THEN "release" ELSE IF d \in joined THEN "answered" ELSE pc[d]]
      /\ call' = [d \in Caller |-> IF d \in joined THEN [call[d] EXCEPT !.answer = answer] ELSE call[d]]
      /\ UNCHANGED <<row, owner, doc, history>>

\* ensuring takes the key, and with it the deferred, out of inFlight.
Release(c) ==
  /\ At(c, "release")
  /\ owner' = [owner EXCEPT ![Key(c)] = Nobody]
  /\ exit' = [exit EXCEPT ![Key(c)] = "none"]
  /\ Goto(c, "answered")
  /\ UNCHANGED <<row, doc, history>>

\* Interruption of an owner completes the deferred with the interruption; a
\* joiner that is interrupted just leaves.
Interrupt(c) ==
  /\ Interrupts
  /\ \/ /\ pc[c] \in {"lookup", "mark", "run", "ran", "errored"}
        /\ lost' = IF pc[c] = "ran" THEN [lost EXCEPT ![Key(c)] = @ + 1] ELSE lost
        /\ Finish(c, "interrupted")
     \/ /\ At(c, "await")
        /\ lost' = lost
        /\ pc' = [pc EXCEPT ![c] = "answered"]
        /\ call' = [call EXCEPT ![c].answer = "interrupted"]
  /\ UNCHANGED <<row, owner, exit, doc, ran, cleared>>

RunEffect(c) == \/ Lookup(c) \/ MarkPending(c) \/ RunSucceeds(c) \/ RunFails(c)
                \/ RecordSuccess(c) \/ RecordSuccessFails(c) \/ RecordFailure(c)
                \/ Settle(c) \/ Release(c)

(***************************************************************************)
(* The exchange handler: append, settle, acknowledge.                      *)
(***************************************************************************)

\* A new or retained operation is settled before the acknowledgement; one whose
\* payload is gone (AlreadyCommitted) is acknowledged as it is.
Exchange(c, n) ==
  /\ At(c, "idle")
  /\ n <= cursor + 1
  /\ cursor' = IF n > cursor THEN n ELSE cursor
  /\ IF n <= floor
       THEN acked' = acked \cup {n} /\ UNCHANGED <<owner, exit, pc, call>>
       ELSE /\ Enter(c, [kind |-> "exchange", key |-> n, retry |-> TRUE, last |-> n,
                         answer |-> "none"])
            /\ acked' = acked
  /\ UNCHANGED <<row, floor, saved, history>>

Acknowledge(c) ==
  /\ At(c, "answered") /\ call[c].kind = "exchange"
  /\ acked' = IF call[c].answer = "ok" THEN acked \cup {Key(c)} ELSE acked
  /\ pc' = [pc EXCEPT ![c] = "idle"] /\ call' = [call EXCEPT ![c] = NoCall]
  /\ UNCHANGED <<row, owner, exit, cursor, floor, saved, history>>

(***************************************************************************)
(* recover, resumed from the persisted cursor.  `scan` is the state between *)
(* two operations.                                                         *)
(***************************************************************************)

\* Rows below the floor cannot be read: CompactedCursorError.
RecoverStart(c) ==
  /\ At(c, "idle") /\ saved >= floor /\ saved < cursor
  /\ pc' = [pc EXCEPT ![c] = "scan"]
  /\ call' = [call EXCEPT ![c] = [kind |-> "recover", key |-> saved + 1, retry |-> TRUE,
                                  last |-> cursor, answer |-> "none"]]
  /\ UNCHANGED <<row, owner, exit, doc, history>>

\* Everything before Key(c) settled: that is what recover returns and the
\* application saves.
RecoverReturn(c) ==
  /\ saved' = Key(c) - 1
  /\ pc' = [pc EXCEPT ![c] = "idle"] /\ call' = [call EXCEPT ![c] = NoCall]
  /\ UNCHANGED <<row, owner, exit, cursor, floor, acked, history>>

RecoverNext(c) ==
  /\ At(c, "scan")
  /\ \/ Key(c) > call[c].last /\ RecoverReturn(c)
     \/ /\ Key(c) <= call[c].last
        /\ row[Key(c)] = "succeeded"
        /\ call' = [call EXCEPT ![c].key = @ + 1]
        /\ UNCHANGED <<row, owner, exit, pc, doc, history>>
     \/ /\ Key(c) <= call[c].last                 \* onUnresolved: retry
        /\ row[Key(c)] # "succeeded"
        /\ Enter(c, call[c])
        /\ UNCHANGED <<row, doc, history>>
     \/ /\ Key(c) <= call[c].last                 \* onUnresolved: skip
        /\ row[Key(c)] # "succeeded"
        /\ RecoverReturn(c)

\* Mutant: a failure does not freeze the scan.
RecoverOn(c) ==
  /\ At(c, "answered") /\ call[c].kind = "recover"
  /\ pc' = [pc EXCEPT ![c] = "scan"]
  /\ call' = [call EXCEPT ![c].key = @ + 1, ![c].answer = "none"]
  /\ UNCHANGED <<row, owner, exit, doc, history>>

\* A failure freezes the scan; an interruption ends it without a result.
RecoverContinue(c) ==
  /\ At(c, "answered") /\ call[c].kind = "recover"
  /\ CASE call[c].answer = "ok" ->
            /\ pc' = [pc EXCEPT ![c] = "scan"]
            /\ call' = [call EXCEPT ![c].key = @ + 1, ![c].answer = "none"]
            /\ UNCHANGED <<row, owner, exit, doc, history>>
       [] call[c].answer = "failed" -> RecoverReturn(c)
       [] OTHER ->
            /\ pc' = [pc EXCEPT ![c] = "idle"] /\ call' = [call EXCEPT ![c] = NoCall]
            /\ UNCHANGED <<row, owner, exit, doc, history>>

(***************************************************************************)
(* A direct call with { retryFailed: false }.                              *)
(***************************************************************************)

CallOnce(c, k) ==
  /\ At(c, "idle") /\ k <= cursor
  /\ Enter(c, [kind |-> "once", key |-> k, retry |-> FALSE, last |-> k, answer |-> "none"])
  /\ UNCHANGED <<row, doc, history>>

ReturnOnce(c) ==
  /\ At(c, "answered") /\ call[c].kind = "once"
  /\ pc' = [pc EXCEPT ![c] = "idle"] /\ call' = [call EXCEPT ![c] = NoCall]
  /\ UNCHANGED <<row, owner, exit, doc, history>>

(***************************************************************************)
(* clearEffect, compact, reset, and the death of the process.              *)
(***************************************************************************)

ClearEffect(k) ==
  /\ row[k] # "none"
  /\ k \notin cleared                    \* bound: not twice in a row
  /\ row' = [row EXCEPT ![k] = "none"]
  /\ lost' = IF row[k] = "succeeded" THEN [lost EXCEPT ![k] = @ + 1] ELSE lost
  /\ cleared' = cleared \cup {k}
  /\ UNCHANGED <<owner, exit, pc, call, doc, ran>>

Compact ==
  /\ Compaction # "none"
  /\ \E through \in (floor + 1)..cursor :
       /\ Compaction = "settled" => through <= saved
       /\ floor' = through
  /\ UNCHANGED <<row, owner, exit, pc, call, cursor, saved, acked, history>>

\* reset drops the document; the effect rows stay, and so do the exchanges and
\* scans under way, which acknowledge and return what they read before it.
Reset ==
  /\ cursor' = 0 /\ floor' = 0 /\ saved' = 0 /\ acked' = {}
  /\ UNCHANGED <<row, owner, exit, pc, call, history>>

Crash ==
  /\ Crashes
  /\ lost' = [k \in Op |-> lost[k] + Cardinality({c \in Caller : At(c, "ran") /\ Key(c) = k})]
  /\ owner' = [k \in Op |-> Nobody]
  /\ exit' = [k \in Op |-> "none"]
  /\ pc' = [c \in Caller |-> "idle"]
  /\ call' = [c \in Caller |-> NoCall]
  /\ UNCHANGED <<row, doc, ran, cleared>>

Next ==
  \/ \E c \in Caller :
       \/ RunEffect(c) \/ Interrupt(c)
       \/ \E n \in Op : Exchange(c, n) \/ CallOnce(c, n)
       \/ Acknowledge(c) \/ RecoverStart(c) \/ RecoverNext(c) \/ RecoverContinue(c) \/ ReturnOnce(c)
  \/ \E k \in Op : ClearEffect(k)
  \/ Compact \/ Reset \/ Crash

Spec == Init /\ [][Next]_vars

(***************************************************************************)
(* Properties                                                              *)
(***************************************************************************)

Running == {"lookup", "mark", "run", "ran", "errored", "settle", "release"}

\* Types, and reservations: a fiber works on an effect exactly while inFlight
\* gives it that effect, so no two fibers ever execute one effect at a time
\* (journal.ts:860-918).
TypeOK ==
  /\ row \in [Op -> {"none", "pending", "succeeded", "failed"}]
  /\ owner \in [Op -> Caller \cup {Nobody}]
  /\ exit \in [Op -> {"none", "ok", "failed", "interrupted"}]
  /\ 0 <= floor /\ floor <= cursor /\ cursor <= MaxOp /\ saved \in 0..MaxOp
  /\ acked \subseteq Op
  /\ ran \in [Op -> Nat] /\ lost \in [Op -> Nat] /\ cleared \subseteq Op
  /\ \A c \in Caller :
       /\ pc[c] \in Running \cup {"idle", "scan", "await", "answered"}
       /\ \A k \in Op : owner[k] = c <=> pc[c] \in Running /\ Key(c) = k

\* A fiber that joined a run waits for a fiber that still works on it and has
\* not given its answer yet: no interruption strands a joiner
\* (journal.ts:876-879, 906-918).
NoJoinerStranded ==
  \A c \in Caller : At(c, "await") => owner[Key(c)] # Nobody /\ exit[Key(c)] = "none"

\* One fiber works on an effect at a time, and whoever joined it is answered.
ReservationsHold == TypeOK /\ NoJoinerStranded

\* An effect is executed again only after a success whose record was lost: to
\* a crash or interruption before it was written, a record that could not be
\* written, or clearEffect.  "A successful effect record is reused across
\* restarts" (packages/durable/README.md:116).
OneSuccessPerRecord == \A k \in Op : ran[k] <= 1 + lost[k]

\* A recorded success is true: the provider did execute the action.
SuccessIsReal == \A k \in Op : row[k] = "succeeded" => ran[k] > 0

\* What was settled and not cleared since.
Settled(k) == row[k] = "succeeded" \/ k \in cleared

\* A fiber that was answered "ok", by its own run or by the one it joined, was
\* answered by a recorded success.
AnswerIsRecorded == \A c \in Caller : call[c].answer = "ok" => Settled(Key(c))

\* What a fiber is told succeeded was executed and is recorded as executed.
AnswersAreRecorded == SuccessIsReal /\ AnswerIsRecorded

\* recover "returns the cursor up to which every intent settled"
\* (journal.ts:219-224): behind the saved cursor every effect is recorded,
\* also when an exchange settles the same effects during the scan.
RecoveredIsSettled == \A k \in 1..saved : Settled(k)

\* "Settled before the ack, so the client's retry cannot repeat it"
\* (examples/sync/src/journal.ts:229-235): an acknowledged operation's effect
\* is recorded.
AcknowledgedIsSettled == \A n \in acked : Settled(n)

\* Whatever crashes, is interrupted, compacted or cleared, no intent is passed
\* by recover or acknowledged to a client before its effect is recorded.
SettledBeforeTheAck == RecoveredIsSettled /\ AcknowledgedIsSettled

=============================================================================
