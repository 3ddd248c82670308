------------------------------ MODULE LwwClock ------------------------------
(***************************************************************************)
(* The durable clock of last-writer-wins fields and their merge            *)
(* (packages/sync/src/lww.ts).  Several clocks, of tabs or of processes    *)
(* that follow a crash, may be open over the storage of one replica; the   *)
(* saved counter is the storage's compare-and-swap revision.               *)
(***************************************************************************)
EXTENDS Naturals, FiniteSets

CONSTANTS Replica,    \* replica ids, numbers: their order breaks ties
          Clock,      \* handles openLwwClock returns
          HomeOf,     \* clock -> the replica whose storage it opens
          Request,    \* calls of next
          MaxCounter, \* MAX_SAFE_INTEGER, bound
          Nothing

\* A register's state.
Write == [counter : Nat, replica : Replica, value : Request]

ASSUME ClockAssumption ==
  /\ Replica \subseteq Nat /\ HomeOf \in [Clock -> Replica] /\ MaxCounter \in Nat
  /\ Nothing \notin Nat \cup Clock \cup Write

VARIABLES stored,    \* replica -> the saved counter, or Nothing
          clock,     \* clock -> [stage, revision]
          closed,    \* clocks whose closed flag is set
          request,   \* call -> [stage, clock, observed, target, floor]
          held,      \* replica -> the register it holds, or Nothing
          merged     \* history: replica -> the writes it merged

clockVars == <<stored, clock, closed, request, held, merged>>

Stages == {"idle", "queued", "saving", "saved", "stamped", "failed"}

\* No handle is open; the next one starts with flags of its own.
Down == [stage |-> "down", revision |-> 0]

Stamped == {r \in Request : request[r].stage = "stamped"}

\* The stamp a call returned; the call stands for the value written with it.
WriteOf(r) == [counter |-> request[r].target, replica |-> HomeOf[request[r].clock], value |-> r]

Issued(p) == {request[r].target : r \in {q \in Stamped : HomeOf[request[q].clock] = p}}

\* Nobody else of the clock holds the SynchronizedRef.
Unlocked(c) == \A r \in Request : request[r].clock = c => request[r].stage \notin {"saving", "saved"}

(***************************************************************************)
(* openLwwClock.                                                           *)
(***************************************************************************)

\* load, then the initial save when nothing is stored.
OpenClock(c) ==
  /\ clock[c].stage = "down"
  /\ \A r \in Request : request[r].clock # c \/ request[r].stage \in {"stamped", "failed"}
  /\ clock' = [clock EXCEPT ![c] = IF stored[HomeOf[c]] = Nothing THEN [stage |-> "creating", revision |-> 0]
                                   ELSE [stage |-> "open", revision |-> stored[HomeOf[c]]]]
  /\ closed' = closed \ {c}
  /\ UNCHANGED <<stored, request, held, merged>>

\* save(state, null): somebody else's initial save fails the open.
Created(c) ==
  /\ clock[c].stage = "creating"
  /\ IF stored[HomeOf[c]] = Nothing
     THEN stored' = [stored EXCEPT ![HomeOf[c]] = 0] /\ clock' = [clock EXCEPT ![c].stage = "open"]
     ELSE clock' = [clock EXCEPT ![c] = Down] /\ UNCHANGED stored
  /\ UNCHANGED <<closed, request, held, merged>>

(***************************************************************************)
(* next and close.                                                         *)
(***************************************************************************)

\* next(observed): a closed clock refuses, the call waits for the lock.
Call(r, c, observed) ==
  /\ request[r].stage = "idle" /\ clock[c].stage = "open"
  /\ request' = [request EXCEPT ![r] =
       [stage |-> IF c \in closed THEN "failed" ELSE "queued", clock |-> c, observed |-> observed, target |-> 0,
        floor |-> Issued(HomeOf[c])]]
  /\ UNCHANGED <<stored, clock, closed, held, merged>>

Target(revision, observed) == (IF observed > revision THEN observed ELSE revision) + 1

\* Under the lock: closed and the range of the counter are checked, the save begins.
Allocate(r) ==
  LET c == request[r].clock
      t == Target(clock[c].revision, request[r].observed)
  IN  /\ request[r].stage = "queued" /\ Unlocked(c)
      /\ request' = [request EXCEPT ![r].stage = IF c \in closed \/ t > MaxCounter THEN "failed" ELSE "saving",
                                    ![r].target = t]
      /\ UNCHANGED <<stored, clock, closed, held, merged>>

\* Mutant: the save does not compare.
SaveBlindly(r) ==
  /\ request[r].stage = "saving"
  /\ stored' = [stored EXCEPT ![HomeOf[request[r].clock]] = request[r].target]
  /\ request' = [request EXCEPT ![r].stage = "saved"]
  /\ UNCHANGED <<clock, closed, held, merged>>

\* storage.save(allocated, revision): a compare-and-swap, or a storage error.
Save(r) ==
  LET c == request[r].clock
      p == HomeOf[c]
  IN  /\ request[r].stage = "saving"
      /\ \/ /\ stored[p] = clock[c].revision
            /\ stored' = [stored EXCEPT ![p] = request[r].target]
            /\ request' = [request EXCEPT ![r].stage = "saved"]
         \/ request' = [request EXCEPT ![r].stage = "failed"] /\ UNCHANGED stored
      /\ UNCHANGED <<clock, closed, held, merged>>

\* The save's answer: the clock advances and the stamp is returned.
Stamp(r) ==
  /\ request[r].stage = "saved"
  /\ request' = [request EXCEPT ![r].stage = "stamped"]
  /\ clock' = [clock EXCEPT ![request[r].clock].revision = request[r].target]
  /\ UNCHANGED <<stored, closed, held, merged>>

\* The caller is interrupted while it waits or saves; what was saved stays.
Interrupt(r) ==
  /\ request[r].stage \in {"queued", "saving", "saved"}
  /\ request' = [request EXCEPT ![r].stage = "failed"]
  /\ UNCHANGED <<stored, clock, closed, held, merged>>

\* close: the flag first, then the storage once the lock is free.
CloseClock(c) ==
  /\ clock[c].stage = "open"
  /\ \/ c \notin closed /\ closed' = closed \cup {c} /\ UNCHANGED clock
     \/ /\ c \in closed /\ Unlocked(c)
        /\ clock' = [clock EXCEPT ![c] = Down] /\ UNCHANGED closed
  /\ UNCHANGED <<stored, request, held, merged>>

\* The process dies with every call it had.
Crash(c) ==
  /\ clock[c].stage # "down"
  /\ clock' = [clock EXCEPT ![c] = Down] /\ closed' = closed \ {c}
  /\ request' = [r \in Request |-> IF request[r].clock = c /\ request[r].stage \in {"queued", "saving", "saved"}
                                   THEN [request[r] EXCEPT !.stage = "failed"] ELSE request[r]]
  /\ UNCHANGED <<stored, held, merged>>

(***************************************************************************)
(* merge.                                                                  *)
(***************************************************************************)

\* The greater stamp wins, by counter and then by replica; equal stamps are one write.
Merge(left, right) ==
  IF left = Nothing THEN right
  ELSE IF left.counter # right.counter THEN (IF left.counter > right.counter THEN left ELSE right)
  ELSE IF left.replica # right.replica THEN (IF left.replica > right.replica THEN left ELSE right)
  ELSE left

\* A write reaches a replica, in any order and any number of times.
Deliver(p, r) ==
  /\ r \in Stamped
  /\ held' = [held EXCEPT ![p] = Merge(held[p], WriteOf(r))]
  /\ merged' = [merged EXCEPT ![p] = @ \cup {r}]
  /\ UNCHANGED <<stored, clock, closed, request>>

Init ==
  /\ stored = [p \in Replica |-> Nothing]
  /\ clock = [c \in Clock |-> Down]
  /\ closed = {}
  /\ request = [r \in Request |-> [stage |-> "idle", clock |-> Nothing, observed |-> 0, target |-> 0, floor |-> {}]]
  /\ held = [p \in Replica |-> Nothing]
  /\ merged = [p \in Replica |-> {}]

Next ==
  \/ \E c \in Clock : OpenClock(c) \/ Created(c) \/ CloseClock(c) \/ Crash(c)
  \/ \E r \in Request :
       \/ \E c \in Clock, observed \in {0, 1} : Call(r, c, observed)
       \/ Allocate(r) \/ Save(r) \/ Stamp(r) \/ Interrupt(r)
       \/ \E p \in Replica : Deliver(p, r)

Spec == Init /\ [][Next]_clockVars

(***************************************************************************)
(* Properties.                                                             *)
(***************************************************************************)

\* A crash or an interruption may skip a stamp; no stamp is returned twice by a
\* replica, whatever clocks are open over its storage.
StampsAreUnique ==
  \A r, q \in Request :
    request[r].stage = "stamped" /\ request[q].stage = "stamped"
      /\ HomeOf[request[r].clock] = HomeOf[request[q].clock] /\ request[r].target = request[q].target => r = q

\* A stamp is later than what its call observed and than every stamp the replica
\* had returned when the call was made.
StampsAreLater ==
  \A r \in Request :
    request[r].stage = "stamped" => request[r].target > request[r].observed /\ \A n \in request[r].floor : request[r].target > n

\* No allocation saves through a connection its clock has released.
NoSaveAfterClose == \A r \in Request : request[r].stage \in {"saving", "saved"} => clock[request[r].clock].stage = "open"

\* Replicas that merged the same writes hold the same register, whatever the
\* order and the repetitions.
MergedIsAgreed == \A p, q \in Replica : merged[p] = merged[q] => held[p] = held[q]

\* Stamps are unique and later than all their caller knew of, a released storage
\* is not written, and merging does not depend on the order.
StampsMerge == StampsAreUnique /\ StampsAreLater /\ NoSaveAfterClose /\ MergedIsAgreed
=============================================================================
