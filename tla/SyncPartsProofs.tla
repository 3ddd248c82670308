-------------------------- MODULE SyncPartsProofs --------------------------
(***************************************************************************)
(* Theorems about the parts of packages/sync around the replica, each for  *)
(* every value of its constants: LwwClock, SocketTransport, SharedMount,   *)
(* Presence, SyncAuthoring.                                                *)
(***************************************************************************)
EXTENDS SyncParts, SequenceTheorems, FiniteSetTheorems, TLAPS

(***************************************************************************)
(* LwwClock: the inductive invariant.                                      *)
(***************************************************************************)

TypeOK ==
  /\ stored \in [Replica -> Nat \cup {Nothing}]
  /\ clock \in [Clock -> [stage : {"down", "creating", "open"}, revision : Nat]]
  /\ closed \subseteq Clock
  /\ request \in [Request -> [stage : Stages, clock : Clock \cup {Nothing}, observed : Nat, target : Nat, floor : SUBSET Nat]]
  /\ held \in [Replica -> Write \cup {Nothing}]
  /\ merged \in [Replica -> SUBSET Request]

\* Calls that hold the lock of their clock; calls whose stamp is saved.
Working == {"saving", "saved"}
Safe == {"saved", "stamped"}

Home(r) == HomeOf[request[r].clock]

\* Where a call stands: its clock is open while it works and, unless closed,
\* while it waits; what it is about to save is beyond the revision its clock
\* knows, what it saved is not beyond the storage, and beyond its floor.
Standing(r) ==
  /\ request[r].stage # "idle" => request[r].clock \in Clock
  /\ request[r].stage \in Working => clock[request[r].clock].stage = "open"
  /\ request[r].stage = "queued" => clock[request[r].clock].stage = "open" \/ request[r].clock \in closed
  /\ request[r].stage = "saving" => /\ request[r].target > clock[request[r].clock].revision
                                    /\ request[r].target > request[r].observed
  /\ request[r].stage \in Safe => /\ request[r].target > request[r].observed
                                  /\ stored[Home(r)] # Nothing /\ request[r].target <= stored[Home(r)]
  /\ request[r].stage # "idle" => \A n \in request[r].floor :
       /\ stored[Home(r)] # Nothing /\ n <= stored[Home(r)]
       /\ request[r].stage \in Safe => n < request[r].target

\* One call holds a clock's lock; no two saved the same stamp.
Apart(r, q) ==
  /\ request[r].stage \in Working /\ request[q].stage \in Working /\ request[r].clock = request[q].clock => r = q
  /\ request[r].stage \in Safe /\ request[q].stage \in Safe /\ Home(r) = Home(q)
       /\ request[r].target = request[q].target => r = q

\* A clock that is being created has no call under way.
Resting(c) ==
  clock[c].stage = "creating" => \A r \in Request : request[r].clock = c => request[r].stage \in {"stamped", "failed"}

\* The order of writes: by counter, then by replica.
Later(left, right) ==
  left.counter > right.counter \/ (left.counter = right.counter /\ left.replica > right.replica)

\* A replica holds the last of the writes it merged.
HoldsLast(p) ==
  /\ merged[p] \subseteq Stamped
  /\ held[p] = Nothing => merged[p] = {}
  /\ held[p] # Nothing => /\ \E r \in merged[p] : held[p] = WriteOf(r)
                          /\ \A q \in merged[p] : ~Later(WriteOf(q), held[p])

Allocations == (\A r \in Request : Standing(r)) /\ (\A r, q \in Request : Apart(r, q)) /\ (\A c \in Clock : Resting(c))

IInv == TypeOK /\ Allocations /\ \A p \in Replica : HoldsLast(p)

(***************************************************************************)
(* Allocations.  The actions on a clock.                                   *)
(***************************************************************************)

LEMMA HomeType ==
  ASSUME NEW c \in Clock
  PROVE  HomeOf[c] \in Replica
BY ClockAssumption

LEMMA OpenClockAllocates ==
  ASSUME IInv, NEW c \in Clock, OpenClock(c)
  PROVE  TypeOK' /\ Allocations'
<1>0. TypeOK /\ Allocations /\ HomeOf[c] \in Replica
  BY HomeType DEF IInv
<1>1. /\ clock[c].stage = "down" /\ closed' = closed \ {c} /\ UNCHANGED <<stored, request, held, merged>>
      /\ \A r \in Request : request[r].clock = c => request[r].stage \in {"stamped", "failed"}
  BY DEF OpenClock
<1> PICK opened \in [stage : {"down", "creating", "open"}, revision : Nat] : clock' = [clock EXCEPT ![c] = opened]
  <2>1. CASE stored[HomeOf[c]] = Nothing
    <3>1. clock' = [clock EXCEPT ![c] = [stage |-> "creating", revision |-> 0]]
      BY <2>1 DEF OpenClock
    <3> QED BY <3>1
  <2>2. CASE stored[HomeOf[c]] # Nothing
    <3>1. clock' = [clock EXCEPT ![c] = [stage |-> "open", revision |-> stored[HomeOf[c]]]]
      BY <2>2 DEF OpenClock
    <3>2. stored[HomeOf[c]] \in Nat
      BY <1>0, <2>2 DEF TypeOK
    <3> QED BY <3>1, <3>2
  <2> QED BY <2>1, <2>2
<1>2. clock'[c] = opened /\ \A d \in Clock \ {c} : clock'[d] = clock[d]
  BY <1>0 DEF TypeOK
<1>3. TypeOK'
  BY <1>0, <1>1 DEF TypeOK
<1>4. ASSUME NEW r \in Request PROVE Standing(r)'
  <2>1. Standing(r)
    BY <1>0 DEF Allocations
  <2>2. CASE request[r].clock = c
    <3>1. request[r].stage \in {"stamped", "failed"}
      BY <1>1, <2>2
    <3> QED BY <1>1, <2>1, <3>1 DEF Standing, Working, Safe, Home
  <2>3. CASE request[r].clock # c
    BY <1>1, <1>2, <2>1, <2>3 DEF Standing, Working, Safe, Home
  <2> QED BY <2>2, <2>3
<1>5. ASSUME NEW r \in Request, NEW q \in Request PROVE Apart(r, q)'
  <2>1. Apart(r, q)
    BY <1>0 DEF Allocations
  <2> QED BY <1>1, <2>1 DEF Apart, Home
<1>6. ASSUME NEW d \in Clock PROVE Resting(d)'
  <2>1. Resting(d)
    BY <1>0 DEF Allocations
  <2> QED BY <1>1, <1>2, <2>1 DEF Resting
<1> QED BY <1>3, <1>4, <1>5, <1>6 DEF Allocations

LEMMA CreatedAllocates ==
  ASSUME IInv, NEW c \in Clock, Created(c)
  PROVE  TypeOK' /\ Allocations'
<1>0. TypeOK /\ Allocations /\ HomeOf[c] \in Replica
  BY HomeType DEF IInv
<1>1. clock[c].stage = "creating" /\ UNCHANGED <<closed, request, held, merged>>
  BY DEF Created
<1>2. \A r \in Request : request[r].clock = c => request[r].stage \in {"stamped", "failed"}
  BY <1>0, <1>1 DEF Allocations, Resting
<1>3. \/ stored[HomeOf[c]] = Nothing /\ stored' = [stored EXCEPT ![HomeOf[c]] = 0]
      \/ stored' = stored
  BY DEF Created
<1> PICK opened \in [stage : {"down", "open"}, revision : Nat] : clock' = [clock EXCEPT ![c] = opened]
  <2>1. CASE stored[HomeOf[c]] = Nothing
    <3>1. clock' = [clock EXCEPT ![c].stage = "open"]
      BY <2>1 DEF Created
    <3>2. [clock[c] EXCEPT !.stage = "open"] \in [stage : {"down", "open"}, revision : Nat]
      BY <1>0 DEF TypeOK
    <3> QED BY <3>1, <3>2
  <2>2. CASE stored[HomeOf[c]] # Nothing
    <3>1. clock' = [clock EXCEPT ![c] = Down]
      BY <2>2 DEF Created
    <3> QED BY <3>1 DEF Down
  <2> QED BY <2>1, <2>2
<1>4. clock'[c] = opened /\ \A d \in Clock \ {c} : clock'[d] = clock[d]
  BY <1>0 DEF TypeOK
<1>5. TypeOK'
  <2>1. stored' \in [Replica -> Nat \cup {Nothing}] /\ clock' \in [Clock -> [stage : {"down", "creating", "open"}, revision : Nat]]
    BY <1>0, <1>3 DEF TypeOK
  <2> QED BY <1>0, <1>1, <2>1 DEF TypeOK
<1>6. \A p \in Replica : stored[p] # Nothing => stored'[p] = stored[p]
  BY <1>0, <1>3 DEF TypeOK
<1>7. ASSUME NEW r \in Request PROVE Standing(r)'
  <2>1. Standing(r) /\ (request[r].stage # "idle" => Home(r) \in Replica)
    BY <1>0, HomeType DEF Allocations, Standing, Home
  <2>2. CASE request[r].clock = c
    <3>1. request[r].stage \in {"stamped", "failed"}
      BY <1>2, <2>2
    <3> QED BY <1>1, <1>6, <2>1, <3>1 DEF Standing, Working, Safe, Home
  <2>3. CASE request[r].clock # c
    <3>1. request[r].clock \in Clock => clock'[request[r].clock] = clock[request[r].clock]
      BY <1>4, <2>3
    <3> QED BY <1>1, <1>6, <2>1, <3>1 DEF Standing, Working, Safe, Home
  <2> QED BY <2>2, <2>3
<1>8. ASSUME NEW r \in Request, NEW q \in Request PROVE Apart(r, q)'
  <2>1. Apart(r, q)
    BY <1>0 DEF Allocations
  <2> QED BY <1>1, <2>1 DEF Apart, Home
<1>9. ASSUME NEW d \in Clock PROVE Resting(d)'
  <2>1. Resting(d)
    BY <1>0 DEF Allocations
  <2> QED BY <1>1, <1>4, <2>1 DEF Resting
<1> QED BY <1>5, <1>7, <1>8, <1>9 DEF Allocations

LEMMA CloseClockAllocates ==
  ASSUME IInv, NEW c \in Clock, CloseClock(c)
  PROVE  TypeOK' /\ Allocations'
<1>0. TypeOK /\ Allocations /\ clock[c].stage = "open" /\ UNCHANGED <<stored, request, held, merged>>
  BY DEF IInv, CloseClock
<1>1. CASE closed' = closed \cup {c} /\ UNCHANGED clock
  <2>1. TypeOK'
    BY <1>0, <1>1 DEF TypeOK
  <2>2. ASSUME NEW r \in Request PROVE Standing(r)'
    <3>1. Standing(r)
      BY <1>0 DEF Allocations
    <3> QED BY <1>0, <1>1, <3>1 DEF Standing, Home
  <2>3. (\A r, q \in Request : Apart(r, q)') /\ \A d \in Clock : Resting(d)'
    BY <1>0, <1>1 DEF Allocations, Apart, Home, Resting
  <2> QED BY <2>1, <2>2, <2>3 DEF Allocations
<1>2. CASE c \in closed /\ Unlocked(c) /\ clock' = [clock EXCEPT ![c] = Down] /\ UNCHANGED closed
  <2>1. clock'[c] = Down /\ \A d \in Clock \ {c} : clock'[d] = clock[d]
    BY <1>0, <1>2 DEF TypeOK
  <2>2. TypeOK'
    <3>1. Down \in [stage : {"down", "creating", "open"}, revision : Nat]
      BY DEF Down
    <3> QED BY <1>0, <1>2, <3>1 DEF TypeOK
  <2>3. ASSUME NEW r \in Request PROVE Standing(r)'
    <3>1. Standing(r) /\ (request[r].clock = c => request[r].stage \notin Working)
      BY <1>0, <1>2 DEF Allocations, Unlocked, Working
    <3>2. CASE request[r].clock = c
      BY <1>0, <1>2, <3>1, <3>2 DEF Standing, Home, Working
    <3>3. CASE request[r].clock # c
      <4>1. request[r].clock \in Clock => clock'[request[r].clock] = clock[request[r].clock]
        BY <2>1, <3>3
      <4> QED BY <1>0, <1>2, <3>1, <4>1 DEF Standing, Home, Working, Safe
    <3> QED BY <3>2, <3>3
  <2>4. \A r, q \in Request : Apart(r, q)'
    BY <1>0 DEF Allocations, Apart, Home
  <2>5. ASSUME NEW d \in Clock PROVE Resting(d)'
    <3>1. Resting(d) /\ Down.stage = "down"
      BY <1>0 DEF Allocations, Down
    <3> QED BY <1>0, <2>1, <3>1 DEF Resting
  <2> QED BY <2>2, <2>3, <2>4, <2>5 DEF Allocations
<1> QED BY <1>1, <1>2 DEF CloseClock

\* The process dies: its calls fail, its clock is down.
LEMMA CrashAllocates ==
  ASSUME IInv, NEW c \in Clock, Crash(c)
  PROVE  TypeOK' /\ Allocations'
<1>0. /\ TypeOK /\ Allocations /\ UNCHANGED <<stored, held, merged>>
      /\ clock' = [clock EXCEPT ![c] = Down] /\ closed' = closed \ {c}
  BY DEF IInv, Crash
<1> DEFINE Dies(r) == request[r].clock = c /\ request[r].stage \in {"queued", "saving", "saved"}
<1>1. request' = [r \in Request |-> IF Dies(r) THEN [request[r] EXCEPT !.stage = "failed"] ELSE request[r]]
  BY DEF Crash
<1>2. ASSUME NEW r \in Request
      PROVE  /\ request'[r] \in [stage : Stages, clock : Clock \cup {Nothing}, observed : Nat, target : Nat, floor : SUBSET Nat]
             /\ request'[r].clock = request[r].clock /\ request'[r].observed = request[r].observed
             /\ request'[r].target = request[r].target /\ request'[r].floor = request[r].floor
             /\ request'[r].stage = request[r].stage \/ (request'[r].stage = "failed" /\ Dies(r))
             /\ Dies(r) => request'[r].stage = "failed"
  <2>1. request[r] \in [stage : Stages, clock : Clock \cup {Nothing}, observed : Nat, target : Nat, floor : SUBSET Nat]
    BY <1>0 DEF TypeOK
  <2>2. CASE Dies(r)
    <3>1. request'[r] = [request[r] EXCEPT !.stage = "failed"]
      BY <1>1, <2>2, Zenon
    <3> QED BY <2>1, <2>2, <3>1 DEF Stages
  <2>3. CASE ~Dies(r)
    <3>1. request'[r] = request[r]
      BY <1>1, <2>3, Zenon
    <3> QED BY <2>1, <2>3, <3>1
  <2> QED BY <2>2, <2>3
<1>3. clock'[c].stage = "down" /\ \A d \in Clock \ {c} : clock'[d] = clock[d]
  BY <1>0 DEF TypeOK, Down
<1>4. TypeOK'
  <2>1. clock' \in [Clock -> [stage : {"down", "creating", "open"}, revision : Nat]]
    BY <1>0 DEF TypeOK, Down
  <2>2. request' \in [Request -> [stage : Stages, clock : Clock \cup {Nothing}, observed : Nat, target : Nat, floor : SUBSET Nat]]
    <3>1. DOMAIN request' = Request /\ request' = [r \in DOMAIN request' |-> request'[r]]
      BY <1>1
    <3> QED BY <1>2, <3>1
  <2> QED BY <1>0, <2>1, <2>2 DEF TypeOK
<1>5. ASSUME NEW r \in Request PROVE Standing(r)'
  <2>1. Standing(r)
    BY <1>0 DEF Allocations
  <2>2. CASE request'[r].stage = "failed"
    BY <1>0, <1>2, <2>1, <2>2 DEF Standing, Home, Working, Safe
  <2>3. CASE request'[r].stage = request[r].stage /\ ~Dies(r)
    <3>1. CASE request[r].clock = c
      BY <1>0, <1>2, <2>1, <2>3, <3>1 DEF Standing, Home, Working, Safe
    <3>2. CASE request[r].clock # c
      <4>1. request[r].clock \in Clock => clock'[request[r].clock] = clock[request[r].clock]
        BY <1>3, <3>2
      <4> QED BY <1>0, <1>2, <2>1, <2>3, <3>2, <4>1 DEF Standing, Home, Working, Safe
    <3> QED BY <3>1, <3>2
  <2> QED BY <1>2, <2>2, <2>3
<1>6. ASSUME NEW r \in Request, NEW q \in Request PROVE Apart(r, q)'
  <2>1. Apart(r, q)
    BY <1>0 DEF Allocations
  <2> QED BY <1>2, <2>1 DEF Apart, Home, Working, Safe
<1>7. ASSUME NEW d \in Clock PROVE Resting(d)'
  <2>1. Resting(d)
    BY <1>0 DEF Allocations
  <2> QED BY <1>2, <1>3, <2>1 DEF Resting
<1> QED BY <1>4, <1>5, <1>6, <1>7 DEF Allocations

(***************************************************************************)
(* The steps of a call.                                                    *)
(***************************************************************************)

CallRecord == [stage : Stages, clock : Clock \cup {Nothing}, observed : Nat, target : Nat, floor : SUBSET Nat]

LEMMA CallAllocates ==
  ASSUME IInv, NEW r \in Request, NEW c \in Clock, NEW observed \in {0, 1}, Call(r, c, observed)
  PROVE  TypeOK' /\ Allocations'
<1>0. /\ TypeOK /\ Allocations /\ HomeOf[c] \in Replica
      /\ request[r].stage = "idle" /\ clock[c].stage = "open" /\ UNCHANGED <<stored, clock, closed, held, merged>>
  BY HomeType DEF IInv, Call
<1> DEFINE made == [stage |-> IF c \in closed THEN "failed" ELSE "queued", clock |-> c, observed |-> observed, target |-> 0,
                    floor |-> Issued(HomeOf[c])]
<1>1. request' = [request EXCEPT ![r] = made]
  BY DEF Call
<1>2. \A n \in Issued(HomeOf[c]) : n \in Nat /\ stored[HomeOf[c]] # Nothing /\ n <= stored[HomeOf[c]]
  <2> SUFFICES ASSUME NEW q \in Stamped, HomeOf[request[q].clock] = HomeOf[c]
               PROVE  request[q].target \in Nat /\ stored[HomeOf[c]] # Nothing /\ request[q].target <= stored[HomeOf[c]]
    BY DEF Issued
  <2>1. q \in Request /\ request[q].stage = "stamped" /\ Standing(q)
    BY <1>0 DEF Stamped, Allocations
  <2> QED BY <2>1, <1>0 DEF Standing, Safe, Home, TypeOK
<1>3. made \in CallRecord /\ made.stage \in {"failed", "queued"} /\ made.clock = c /\ made.floor = Issued(HomeOf[c])
      /\ (made.stage = "queued" => c \notin closed)
  BY <1>2 DEF CallRecord, Stages
<1> HIDE DEF made
<1>4. request'[r] = made /\ \A q \in Request \ {r} : request'[q] = request[q]
  BY <1>0, <1>1 DEF TypeOK
<1>5. TypeOK'
  <2>1. request' \in [Request -> CallRecord]
    BY <1>0, <1>1, <1>3 DEF TypeOK, CallRecord
  <2> QED BY <1>0, <2>1 DEF TypeOK, CallRecord
<1>6. ASSUME NEW q \in Request PROVE Standing(q)'
  <2>1. CASE q = r
    BY <1>0, <1>2, <1>3, <1>4, <2>1 DEF Standing, Working, Safe, Home
  <2>2. CASE q # r
    <3>1. Standing(q) /\ request'[q] = request[q]
      BY <1>0, <1>4, <2>2 DEF Allocations
    <3> QED BY <1>0, <3>1 DEF Standing, Home
  <2> QED BY <2>1, <2>2
<1>7. ASSUME NEW q \in Request, NEW s \in Request PROVE Apart(q, s)'
  <2>1. Apart(q, s)
    BY <1>0 DEF Allocations
  <2> QED BY <1>3, <1>4, <2>1 DEF Apart, Home, Working, Safe
<1>8. ASSUME NEW d \in Clock PROVE Resting(d)'
  <2>1. Resting(d)
    BY <1>0 DEF Allocations
  <2> QED BY <1>0, <1>3, <1>4, <2>1 DEF Resting
<1> QED BY <1>5, <1>6, <1>7, <1>8 DEF Allocations

\* A call that fails holds nothing.
LEMMA FailingAllocates ==
  ASSUME IInv, NEW r \in Request, NEW failed \in CallRecord, request[r].stage # "idle",
         failed.stage = "failed", failed.clock = request[r].clock, failed.floor = request[r].floor,
         request' = [request EXCEPT ![r] = failed], UNCHANGED <<stored, clock, closed, held, merged>>
  PROVE  TypeOK' /\ Allocations'
<1>0. TypeOK /\ Allocations /\ UNCHANGED <<stored, clock, closed, held, merged>>
  BY DEF IInv
<1>1. failed \in CallRecord /\ failed.stage = "failed" /\ failed.clock = request[r].clock /\ failed.floor = request[r].floor
  OBVIOUS
<1>2. request' = [request EXCEPT ![r] = failed]
  OBVIOUS
<1>3. request'[r] = failed /\ \A q \in Request \ {r} : request'[q] = request[q]
  BY <1>0, <1>2 DEF TypeOK
<1>4. TypeOK'
  <2>1. request' \in [Request -> CallRecord]
    BY <1>0, <1>2, <1>1 DEF TypeOK, CallRecord
  <2> QED BY <1>0, <2>1 DEF TypeOK, CallRecord
<1>5. ASSUME NEW q \in Request PROVE Standing(q)'
  <2>0. Standing(q)
    BY <1>0 DEF Allocations
  <2>1. CASE q = r
    BY <2>0, <1>0, <1>1, <1>3, <2>1 DEF Standing, Working, Safe, Home
  <2>2. CASE q # r
    <3>1. request'[q] = request[q]
      BY <1>3, <2>2
    <3> QED BY <1>0, <2>0, <3>1 DEF Standing, Home
  <2> QED BY <2>1, <2>2
<1>6. ASSUME NEW q \in Request, NEW s \in Request PROVE Apart(q, s)'
  <2>1. Apart(q, s)
    BY <1>0 DEF Allocations
  <2> QED BY <1>1, <1>3, <2>1 DEF Apart, Home, Working, Safe
<1>7. ASSUME NEW d \in Clock PROVE Resting(d)'
  <2>1. Resting(d)
    BY <1>0 DEF Allocations
  <2> QED BY <1>1, <1>3, <2>1 DEF Resting
<1> QED BY <1>4, <1>5, <1>6, <1>7 DEF Allocations

LEMMA AllocateAllocates ==
  ASSUME IInv, NEW r \in Request, Allocate(r)
  PROVE  TypeOK' /\ Allocations'
<1> DEFINE c == request[r].clock
           t == Target(clock[c].revision, request[r].observed)
<1>0. /\ TypeOK /\ Allocations /\ Standing(r) /\ request[r] \in CallRecord
      /\ request[r].stage = "queued" /\ Unlocked(c) /\ UNCHANGED <<stored, clock, closed, held, merged>>
  BY DEF IInv, Allocations, TypeOK, CallRecord, Allocate
<1>u. stored' = stored /\ clock' = clock /\ closed' = closed
  BY <1>0
<1>1. c \in Clock /\ (clock[c].stage = "open" \/ c \in closed)
  BY <1>0 DEF Standing
<1>2. t \in Nat /\ t > clock[c].revision /\ t > request[r].observed
  <2>1. clock[c].revision \in Nat /\ request[r].observed \in Nat
    BY <1>0, <1>1 DEF TypeOK, CallRecord
  <2> QED BY <2>1 DEF Target
<1>p. PICK s \in {"failed", "saving"} : /\ s = IF c \in closed \/ t > MaxCounter THEN "failed" ELSE "saving"
                                     /\ request' = [request EXCEPT ![r].stage = s, ![r].target = t]
  BY DEF Allocate
<1>3. s = "saving" => c \notin closed
  BY <1>p
<1> DEFINE taken == [request[r] EXCEPT !.stage = s, !.target = t]
<1>4. request' = [request EXCEPT ![r] = taken]
  BY <1>p
<1>5. taken \in CallRecord /\ taken.stage = s /\ taken.clock = c /\ taken.observed = request[r].observed
      /\ taken.floor = request[r].floor /\ taken.target = t
  BY <1>0, <1>2 DEF CallRecord, Stages
<1> HIDE DEF taken, t
<1>6. CASE s = "failed"
  <2> PICK failed \in CallRecord : failed = taken
    BY <1>5
  <2>1. failed.stage = "failed" /\ failed.clock = request[r].clock /\ failed.floor = request[r].floor /\ request[r].stage # "idle"
        /\ request' = [request EXCEPT ![r] = failed]
    BY <1>0, <1>4, <1>5, <1>6
  <2> QED BY <2>1, <1>0, FailingAllocates
<1>7. CASE s = "saving"
  <2>1. request'[r] = taken /\ \A q \in Request \ {r} : request'[q] = request[q]
    BY <1>0, <1>4 DEF TypeOK
  <2>2. TypeOK'
    <3>1. request' \in [Request -> CallRecord]
      BY <1>0, <1>4, <1>5 DEF TypeOK, CallRecord
    <3> QED BY <1>0, <3>1 DEF TypeOK, CallRecord
  <2>3. clock[c].stage = "open" /\ \A q \in Request : request[q].clock = c => request[q].stage \notin Working
    BY <1>0, <1>1, <1>3, <1>7 DEF Unlocked, Working
  <2>4. ASSUME NEW q \in Request PROVE Standing(q)'
    <3>0. Standing(q)
      BY <1>0 DEF Allocations
    <3>1. CASE q = r
      BY <3>0, <3>1, <1>0, <1>1, <1>2, <1>5, <1>7, <2>1, <2>3 DEF Standing, Working, Safe, Home
    <3>2. CASE q # r
      <4>1. request'[q] = request[q]
        BY <2>1, <3>2
      <4> QED BY <1>u, <3>0, <4>1 DEF Standing, Home
    <3> QED BY <3>1, <3>2
  <2>5. ASSUME NEW q \in Request, NEW p \in Request PROVE Apart(q, p)'
    <3>1. Apart(q, p)
      BY <1>0 DEF Allocations
    <3>2. request'[q].clock = request[q].clock /\ request'[p].clock = request[p].clock
      BY <1>5, <2>1
    <3>3. /\ request'[q].stage \in Safe => request'[q] = request[q] /\ request[q].stage \in Safe
          /\ request'[p].stage \in Safe => request'[p] = request[p] /\ request[p].stage \in Safe
      BY <1>5, <1>7, <2>1 DEF Safe
    <3>4. /\ request'[q].stage \in Working => q = r \/ request[q].stage \in Working
          /\ request'[p].stage \in Working => p = r \/ request[p].stage \in Working
      BY <2>1
    <3>5. request'[q].stage \in Working /\ request'[p].stage \in Working /\ request'[q].clock = request'[p].clock => q = p
      BY <2>3, <3>1, <3>2, <3>4 DEF Apart
    <3> HIDE DEF c
    <3> QED BY <3>1, <3>3, <3>5 DEF Apart, Home
  <2>6. ASSUME NEW d \in Clock PROVE Resting(d)'
    <3>1. Resting(d)
      BY <1>0 DEF Allocations
    <3>2. \A q \in Request : request'[q].clock = request[q].clock /\ (q # r => request'[q].stage = request[q].stage)
      BY <1>5, <2>1
    <3>3. clock[d].stage = "creating" => d # c
      BY <2>3
    <3> QED BY <1>u, <3>1, <3>2, <3>3 DEF Resting
  <2> QED BY <2>2, <2>4, <2>5, <2>6 DEF Allocations
<1> QED BY <1>6, <1>7

LEMMA InterruptAllocates ==
  ASSUME IInv, NEW r \in Request, Interrupt(r)
  PROVE  TypeOK' /\ Allocations'
<1>0. request[r] \in CallRecord /\ request[r].stage # "idle" /\ UNCHANGED <<stored, clock, closed, held, merged>>
  BY DEF IInv, TypeOK, CallRecord, Interrupt
<1> DEFINE f == [request[r] EXCEPT !.stage = "failed"]
<1>1. request' = [request EXCEPT ![r] = f]
  BY DEF Interrupt
<1>2. f \in CallRecord /\ f.stage = "failed" /\ f.clock = request[r].clock /\ f.floor = request[r].floor
  BY <1>0 DEF CallRecord, Stages
<1> HIDE DEF f
<1> PICK failed \in CallRecord : failed = f
  BY <1>2
<1>3. failed.stage = "failed" /\ failed.clock = request[r].clock /\ failed.floor = request[r].floor
      /\ request' = [request EXCEPT ![r] = failed]
  BY <1>1, <1>2
<1> QED BY <1>0, <1>3, FailingAllocates

\* The compare-and-swap: what it stores is later than all that was stored.
LEMMA SaveAllocates ==
  ASSUME IInv, NEW r \in Request, Save(r)
  PROVE  TypeOK' /\ Allocations'
<1> DEFINE c == request[r].clock
           p == HomeOf[c]
<1>0. /\ TypeOK /\ Allocations /\ Standing(r) /\ request[r] \in CallRecord /\ request[r].stage = "saving"
      /\ UNCHANGED <<clock, closed, held, merged>>
  BY DEF IInv, Allocations, TypeOK, CallRecord, Save
<1>1. c \in Clock /\ p \in Replica /\ clock[c].stage = "open" /\ clock[c].revision \in Nat
      /\ request[r].target > clock[c].revision /\ request[r].target > request[r].observed /\ request[r].target \in Nat
  BY <1>0, HomeType DEF Standing, Working, TypeOK, CallRecord
<1>2. CASE request' = [request EXCEPT ![r].stage = "failed"] /\ UNCHANGED stored
  <2> DEFINE f == [request[r] EXCEPT !.stage = "failed"]
  <2>1. request' = [request EXCEPT ![r] = f]
    BY <1>2
  <2>2. f \in CallRecord /\ f.stage = "failed" /\ f.clock = request[r].clock /\ f.floor = request[r].floor
    BY <1>0 DEF CallRecord, Stages
  <2> HIDE DEF f
  <2> PICK failed \in CallRecord : failed = f
    BY <2>2
  <2>3. failed.stage = "failed" /\ failed.clock = request[r].clock /\ failed.floor = request[r].floor
        /\ request' = [request EXCEPT ![r] = failed] /\ request[r].stage # "idle"
        /\ UNCHANGED <<stored, clock, closed, held, merged>>
    BY <1>0, <1>2, <2>1, <2>2
  <2> QED BY <2>3, FailingAllocates
<1>3. CASE /\ stored[p] = clock[c].revision /\ stored' = [stored EXCEPT ![p] = request[r].target]
           /\ request' = [request EXCEPT ![r].stage = "saved"]
  <2> DEFINE saved == [request[r] EXCEPT !.stage = "saved"]
  <2>1. request' = [request EXCEPT ![r] = saved]
    BY <1>3
  <2>2. saved \in CallRecord /\ saved.stage = "saved" /\ saved.clock = c /\ saved.observed = request[r].observed
        /\ saved.floor = request[r].floor /\ saved.target = request[r].target
    BY <1>0 DEF CallRecord, Stages
  <2> HIDE DEF saved
  <2>3. request'[r] = saved /\ \A q \in Request \ {r} : request'[q] = request[q]
    BY <1>0, <2>1 DEF TypeOK
  <2>4. stored'[p] = request[r].target /\ stored[p] \in Nat /\ stored[p] < request[r].target
        /\ \A o \in Replica \ {p} : stored'[o] = stored[o]
    BY <1>0, <1>1, <1>3 DEF TypeOK
  <2>4a. stored'[p] # Nothing /\ stored[p] # Nothing
    BY <1>1, <2>4, ClockAssumption
  <2>5. TypeOK'
    <3>1. request' \in [Request -> CallRecord]
      BY <1>0, <2>1, <2>2 DEF TypeOK, CallRecord
    <3>2. stored' \in [Replica -> Nat \cup {Nothing}]
      BY <1>0, <1>1, <1>3 DEF TypeOK
    <3> QED BY <1>0, <3>1, <3>2 DEF TypeOK, CallRecord
  <2>6. ASSUME NEW q \in Request PROVE Standing(q)'
    <3>0. Standing(q) /\ request[q] \in CallRecord /\ (request[q].stage # "idle" => Home(q) \in Replica)
      BY <1>0, HomeType DEF Allocations, Standing, Home, TypeOK, CallRecord
    <3>1. CASE q = r
      <4>1. \A n \in request[r].floor : n \in Nat /\ n <= stored[p]
        BY <1>0, <3>0, <3>1 DEF Standing, Home, CallRecord
      <4>2. \A n \in request[r].floor : n <= request[r].target /\ n < request[r].target
        BY <1>1, <2>4, <4>1
      <4> QED BY <3>1, <4>2, <1>0, <1>1, <2>2, <2>3, <2>4, <2>4a DEF Standing, Working, Safe, Home
    <3>2. CASE q # r
      <4>1. request'[q] = request[q] /\ Home(q)' = Home(q)
        BY <2>3, <3>2 DEF Home
      <4>2. CASE request[q].stage # "idle" /\ Home(q) = p
        <5>1. \A n \in request[q].floor : n <= stored'[p]
          <6> TAKE n \in request[q].floor
          <6>1. n \in Nat /\ n <= stored[p]
            BY <3>0, <4>2 DEF Standing, CallRecord
          <6> QED BY <6>1, <2>4, <1>1
        <5>2. request[q].stage \in Safe => request[q].target <= stored'[p]
          <6>1. request[q].target \in Nat /\ (request[q].stage \in Safe => request[q].target <= stored[p])
            BY <3>0, <4>2 DEF Standing, CallRecord
          <6> QED BY <6>1, <2>4, <1>1
        <5> QED BY <3>0, <4>1, <4>2, <5>1, <5>2, <1>0, <2>4a DEF Standing
      <4>3. CASE request[q].stage # "idle" /\ Home(q) # p
        <5>1. stored'[Home(q)] = stored[Home(q)]
          BY <3>0, <4>3, <2>4
        <5> QED BY <3>0, <4>1, <4>3, <5>1, <1>0 DEF Standing
      <4>4. CASE request[q].stage = "idle"
        BY <4>1, <4>4 DEF Standing, Working, Safe
      <4> QED BY <4>2, <4>3, <4>4
    <3> QED BY <3>1, <3>2
  <2>7. ASSUME NEW q \in Request, request[q].stage \in Safe, Home(q) = p PROVE request[q].target # request[r].target
    <3>1. Standing(q) /\ request[q].target \in Nat
      BY <1>0 DEF Allocations, TypeOK
    <3>2. request[q].target <= stored[p]
      BY <3>1, <2>7 DEF Standing
    <3> QED BY <3>1, <3>2, <2>4, <1>1
  <2>8. ASSUME NEW q \in Request, NEW s \in Request PROVE Apart(q, s)'
    <3>1. Apart(q, s)
      BY <1>0 DEF Allocations
    <3>2. CASE q # r /\ s # r
      <4>1. request'[q] = request[q] /\ request'[s] = request[s]
        BY <2>3, <3>2
      <4> QED BY <3>1, <4>1 DEF Apart, Home
    <3>3. CASE q = r /\ s # r
      <4>1. request'[q] = saved /\ request'[s] = request[s]
        BY <2>3, <3>3
      <4>2. ~(request[s].stage \in Working /\ request[s].clock = c)
        BY <1>0, <3>1, <3>3 DEF Apart, Working
      <4>3. ~(request[s].stage \in Safe /\ Home(s) = p /\ request[s].target = request[r].target)
        BY <2>7
      <4> QED BY <4>1, <4>2, <4>3, <2>2, <3>3 DEF Apart, Home
    <3>4. CASE s = r /\ q # r
      <4>1. request'[s] = saved /\ request'[q] = request[q]
        BY <2>3, <3>4
      <4>2. ~(request[q].stage \in Working /\ request[q].clock = c)
        BY <1>0, <3>1, <3>4 DEF Apart, Working
      <4>3. ~(request[q].stage \in Safe /\ Home(q) = p /\ request[q].target = request[r].target)
        BY <2>7
      <4> QED BY <4>1, <4>2, <4>3, <2>2, <3>4 DEF Apart, Home
    <3>5. CASE q = s
      BY <3>5 DEF Apart
    <3> QED BY <3>2, <3>3, <3>4, <3>5
  <2>9. ASSUME NEW d \in Clock PROVE Resting(d)'
    <3>1. Resting(d)
      BY <1>0 DEF Allocations
    <3> QED BY <1>0, <1>1, <2>2, <2>3, <3>1 DEF Resting
  <2> QED BY <2>5, <2>6, <2>8, <2>9 DEF Allocations
<1> QED BY <1>2, <1>3 DEF Save

\* The answer of the save: the clock, whose lock the call still holds, advances.
LEMMA StampAllocates ==
  ASSUME IInv, NEW r \in Request, Stamp(r)
  PROVE  TypeOK' /\ Allocations'
<1> DEFINE c == request[r].clock
           stampd == [request[r] EXCEPT !.stage = "stamped"]
<1>0. /\ TypeOK /\ Allocations /\ Standing(r) /\ request[r] \in CallRecord /\ request[r].stage = "saved"
      /\ request' = [request EXCEPT ![r].stage = "stamped"]
      /\ clock' = [clock EXCEPT ![c].revision = request[r].target]
      /\ UNCHANGED <<stored, closed, held, merged>>
  BY DEF IInv, Allocations, TypeOK, CallRecord, Stamp
<1>u. stored' = stored /\ closed' = closed
  BY <1>0
<1>1. c \in Clock /\ clock[c].stage = "open" /\ request[r].target \in Nat
  BY <1>0 DEF Standing, Working, CallRecord
<1>2. request' = [request EXCEPT ![r] = stampd]
  BY <1>0
<1>3. stampd \in CallRecord /\ stampd.stage = "stamped" /\ stampd.clock = c /\ stampd.observed = request[r].observed
      /\ stampd.floor = request[r].floor /\ stampd.target = request[r].target
  BY <1>0 DEF CallRecord, Stages
<1> HIDE DEF stampd
<1>4. request'[r] = stampd /\ \A q \in Request \ {r} : request'[q] = request[q]
  BY <1>0, <1>2 DEF TypeOK
<1>5. (\A d \in Clock : clock'[d].stage = clock[d].stage) /\ \A d \in Clock \ {c} : clock'[d] = clock[d]
  BY <1>0 DEF TypeOK
<1>6. TypeOK'
  <2>1. request' \in [Request -> CallRecord]
    BY <1>0, <1>2, <1>3 DEF TypeOK, CallRecord
  <2>2. clock' \in [Clock -> [stage : {"down", "creating", "open"}, revision : Nat]]
    BY <1>0, <1>1 DEF TypeOK
  <2> QED BY <1>0, <2>1, <2>2 DEF TypeOK, CallRecord
<1>7. ASSUME NEW q \in Request PROVE Standing(q)'
  <2>0. Standing(q) /\ Apart(q, r)
    BY <1>0 DEF Allocations
  <2>1. CASE q = r
    BY <2>0, <2>1, <1>0, <1>1, <1>3, <1>4, <1>5 DEF Standing, Working, Safe, Home
  <2>2. CASE q # r /\ request[q].clock # c
    <3>1. request'[q] = request[q] /\ (request[q].clock \in Clock => clock'[request[q].clock] = clock[request[q].clock])
      BY <1>4, <1>5, <2>2
    <3> QED BY <2>0, <3>1, <1>u DEF Standing, Home, Working, Safe
  <2>3. CASE q # r /\ request[q].clock = c
    <3>1. request'[q] = request[q] /\ request[q].stage # "saving"
      BY <1>0, <1>4, <2>0, <2>3 DEF Apart, Working
    <3> QED BY <2>0, <2>3, <3>1, <1>0, <1>1, <1>5 DEF Standing, Working, Safe, Home
  <2> QED BY <2>1, <2>2, <2>3
<1>8. ASSUME NEW q \in Request, NEW s \in Request PROVE Apart(q, s)'
  <2>1. Apart(q, s)
    BY <1>0 DEF Allocations
  <2> QED BY <1>0, <1>3, <1>4, <2>1 DEF Apart, Home, Working, Safe
<1>9. ASSUME NEW d \in Clock PROVE Resting(d)'
  <2>1. Resting(d)
    BY <1>0 DEF Allocations
  <2> QED BY <1>3, <1>4, <1>5, <2>1 DEF Resting
<1> QED BY <1>6, <1>7, <1>8, <1>9 DEF Allocations

(***************************************************************************)
(* Registers.                                                              *)
(***************************************************************************)

\* Stamped calls keep their stamps, and what was merged stays merged.
LEMMA RegistersStay ==
  ASSUME IInv, UNCHANGED <<held, merged>>, \A r \in Stamped : r \in Stamped' /\ WriteOf(r)' = WriteOf(r),
         NEW p \in Replica
  PROVE  HoldsLast(p)'
<1>0. HoldsLast(p) /\ held' = held /\ merged' = merged /\ merged[p] \subseteq Stamped
  BY DEF IInv, HoldsLast
<1>1. \A r \in merged[p] : r \in Stamped' /\ WriteOf(r)' = WriteOf(r)
  BY <1>0
<1>2. merged'[p] \subseteq Stamped' /\ (held'[p] = Nothing => merged'[p] = {})
  BY <1>0, <1>1 DEF HoldsLast
<1>3. held'[p] # Nothing => /\ \E r \in merged'[p] : held'[p] = WriteOf(r)'
                            /\ \A q \in merged'[p] : ~Later(WriteOf(q)', held'[p])
  BY <1>0, <1>1 DEF HoldsLast
<1> QED BY <1>2, <1>3 DEF HoldsLast, Later

\* A step that leaves the stamped calls alone.
LEMMA StampedStays ==
  ASSUME IInv, NEW r \in Stamped, request'[r] = request[r]
  PROVE  r \in Stamped' /\ WriteOf(r)' = WriteOf(r)
BY DEF Stamped, WriteOf

LEMMA WriteType ==
  ASSUME IInv, NEW r \in Stamped
  PROVE  WriteOf(r) \in Write /\ WriteOf(r) # Nothing /\ WriteOf(r).replica = Home(r) /\ WriteOf(r).counter = request[r].target
<1>1. r \in Request /\ request[r] \in CallRecord /\ request[r].stage = "stamped" /\ Standing(r)
  BY DEF Stamped, IInv, TypeOK, CallRecord, Allocations
<1>2. request[r].clock \in Clock /\ request[r].target \in Nat
  BY <1>1 DEF Standing, CallRecord
<1>3. WriteOf(r) \in Write
  BY <1>1, <1>2, HomeType DEF WriteOf, Write
<1> QED BY <1>3, ClockAssumption DEF WriteOf, Home

\* Of two writes Merge keeps one than which the other is not later.
LEMMA MergeKeepsLast ==
  ASSUME NEW left \in Write, NEW right \in Write
  PROVE  /\ Merge(left, right) \in {left, right}
         /\ ~Later(left, Merge(left, right)) /\ ~Later(right, Merge(left, right))
<1>1. left.counter \in Nat /\ right.counter \in Nat /\ left.replica \in Nat /\ right.replica \in Nat /\ left # Nothing
  BY ClockAssumption DEF Write
<1> QED BY <1>1 DEF Merge, Later

\* Not to be later is transitive.
LEMMA NotLaterTransitive ==
  ASSUME NEW a \in Write, NEW b \in Write, NEW c \in Write, ~Later(a, b), ~Later(b, c)
  PROVE  ~Later(a, c)
<1>1. \A w \in {a, b, c} : w.counter \in Nat /\ w.replica \in Nat
  BY ClockAssumption DEF Write
<1> QED BY <1>1 DEF Later

LEMMA DeliverRegisters ==
  ASSUME IInv, NEW p \in Replica, NEW r \in Request, Deliver(p, r)
  PROVE  TypeOK' /\ Allocations' /\ \A o \in Replica : HoldsLast(o)'
<1>0. /\ TypeOK /\ Allocations /\ r \in Stamped
      /\ held' = [held EXCEPT ![p] = Merge(held[p], WriteOf(r))] /\ merged' = [merged EXCEPT ![p] = @ \cup {r}]
      /\ stored' = stored /\ clock' = clock /\ closed' = closed /\ request' = request
  BY DEF IInv, Deliver
<1>1. WriteOf(r) \in Write /\ WriteOf(r) # Nothing
  BY <1>0, WriteType
<1> DEFINE now == Merge(held[p], WriteOf(r))
<1>2. now \in Write /\ now # Nothing /\ (held[p] = Nothing => now = WriteOf(r))
      /\ (held[p] # Nothing => /\ held[p] \in Write /\ now \in {held[p], WriteOf(r)}
                               /\ ~Later(held[p], now))
      /\ ~Later(WriteOf(r), now)
  <2>1. CASE held[p] = Nothing
    <3>1. now = WriteOf(r)
      BY <2>1 DEF Merge
    <3>2. ~Later(WriteOf(r), WriteOf(r))
      <4> PICK w \in Write : w = WriteOf(r)
        BY <1>1
      <4>1. w.counter \in Nat /\ w.replica \in Nat
        BY ClockAssumption DEF Write
      <4>2. ~Later(w, w)
        BY <4>1 DEF Later
      <4> QED BY <4>2
    <3> QED BY <1>1, <2>1, <3>1, <3>2
  <2>2. CASE held[p] # Nothing
    <3>1. held[p] \in Write
      BY <1>0, <2>2 DEF TypeOK
    <3> PICK left \in Write, right \in Write : left = held[p] /\ right = WriteOf(r)
      BY <1>1, <3>1
    <3>2. Merge(left, right) \in {left, right} /\ ~Later(left, Merge(left, right)) /\ ~Later(right, Merge(left, right))
      BY MergeKeepsLast
    <3>3. now = Merge(left, right)
      OBVIOUS
    <3> HIDE DEF now
    <3> QED BY <1>1, <2>2, <3>1, <3>2, <3>3
  <2> QED BY <2>1, <2>2
<1> HIDE DEF now
<1>3. held'[p] = now /\ merged'[p] = merged[p] \cup {r} /\ r \in Request
      /\ \A o \in Replica \ {p} : held'[o] = held[o] /\ merged'[o] = merged[o]
  BY <1>0 DEF TypeOK, now, Stamped
<1>4. TypeOK'
  <2>1. held' \in [Replica -> Write \cup {Nothing}]
    BY <1>0, <1>2 DEF TypeOK, now
  <2>2. merged' \in [Replica -> SUBSET Request]
    BY <1>0, <1>3 DEF TypeOK
  <2> QED BY <1>0, <2>1, <2>2 DEF TypeOK
<1>5. Allocations'
  <2>1. \A q \in Request : Standing(q)'
    BY <1>0 DEF Allocations, Standing, Home
  <2>2. \A q, s \in Request : Apart(q, s)'
    BY <1>0 DEF Allocations, Apart, Home
  <2>3. \A d \in Clock : Resting(d)'
    BY <1>0 DEF Allocations, Resting
  <2> QED BY <2>1, <2>2, <2>3 DEF Allocations
<1>6. Stamped' = Stamped /\ \A q : WriteOf(q)' = WriteOf(q)
  BY <1>0 DEF Stamped, WriteOf
<1>7. ASSUME NEW o \in Replica PROVE HoldsLast(o)'
  <2>0. HoldsLast(o)
    BY DEF IInv
  <2>1. CASE o # p
    <3>1. held'[o] = held[o] /\ merged'[o] = merged[o]
      BY <1>3, <2>1
    <3> QED BY <1>6, <2>0, <3>1 DEF HoldsLast, Later
  <2>2. CASE o = p
    <3>1. merged'[p] \subseteq Stamped'
      BY <1>0, <1>3, <1>6, <2>0, <2>2 DEF HoldsLast
    <3>2. \E q \in merged'[p] : now = WriteOf(q)
      <4>1. CASE now = WriteOf(r)
        BY <4>1, <1>3
      <4>2. CASE now # WriteOf(r)
        <5>1. held[p] # Nothing /\ now = held[p]
          BY <1>2, <4>2
        <5>2. PICK q \in merged[p] : held[p] = WriteOf(q)
          BY <5>1, <2>0, <2>2 DEF HoldsLast
        <5> QED BY <5>1, <5>2, <1>3
      <4> QED BY <4>1, <4>2
    <3>3. ASSUME NEW q \in merged'[p] PROVE ~Later(WriteOf(q), now)
      <4>1. CASE q = r
        BY <4>1, <1>2
      <4>2. CASE q # r
        <5>1. q \in merged[p] /\ held[p] # Nothing /\ q \in Stamped
          BY <4>2, <1>3, <2>0, <2>2 DEF HoldsLast
        <5>2. ~Later(WriteOf(q), held[p]) /\ ~Later(held[p], now) /\ held[p] \in Write
          BY <5>1, <1>2, <2>0, <2>2 DEF HoldsLast
        <5>3. WriteOf(q) \in Write
          BY <5>1, WriteType
        <5> PICK a \in Write, b \in Write, c \in Write : a = WriteOf(q) /\ b = held[p] /\ c = now
          BY <5>2, <5>3, <1>2
        <5> QED BY <5>2, NotLaterTransitive
      <4> QED BY <4>1, <4>2
    <3>4. held'[p] = now /\ now # Nothing
      BY <1>2, <1>3
    <3>5. held'[p] # Nothing => /\ \E q \in merged'[p] : held'[p] = WriteOf(q)'
                                /\ \A q \in merged'[p] : ~Later(WriteOf(q)', held'[p])
      BY <3>2, <3>3, <3>4, <1>6
    <3> QED BY <2>2, <3>1, <3>4, <3>5 DEF HoldsLast, Later
  <2> QED BY <2>1, <2>2
<1> QED BY <1>4, <1>5, <1>7

(***************************************************************************)
(* The invariant and the theorems.                                         *)
(***************************************************************************)

LEMMA InitIInv == Init => IInv
<1> SUFFICES ASSUME Init PROVE IInv
  OBVIOUS
<1>1. TypeOK
  BY DEF Init, TypeOK, Down, Stages
<1>2. \A r \in Request : request[r].stage = "idle"
  BY DEF Init
<1>3. (\A r \in Request : Standing(r)) /\ \A r, q \in Request : Apart(r, q)
  BY <1>2 DEF Standing, Apart, Working, Safe
<1>4. \A c \in Clock : Resting(c)
  BY DEF Init, Resting, Down
<1>5. \A p \in Replica : HoldsLast(p)
  BY DEF Init, HoldsLast
<1> QED BY <1>1, <1>3, <1>4, <1>5 DEF IInv, Allocations

LEMMA InvariantStep == IInv /\ [Next]_clockVars => IInv'
<1> SUFFICES ASSUME IInv, [Next]_clockVars PROVE IInv'
  OBVIOUS
<1>0. TypeOK /\ DOMAIN request = Request
  BY DEF IInv, TypeOK
<1>s. ASSUME TypeOK', Allocations', UNCHANGED <<held, merged>>,
             \A r \in Stamped : request'[r] = request[r]
      PROVE  IInv'
  <2>1. \A r \in Stamped : r \in Stamped' /\ WriteOf(r)' = WriteOf(r)
    BY <1>s, StampedStays
  <2>2. \A p \in Replica : HoldsLast(p)'
    BY <1>s, <2>1, RegistersStay
  <2> QED BY <1>s, <2>2 DEF IInv
<1>1. ASSUME NEW c \in Clock, OpenClock(c) \/ Created(c) \/ CloseClock(c) PROVE IInv'
  <2>1. TypeOK' /\ Allocations'
    BY <1>1, OpenClockAllocates, CreatedAllocates, CloseClockAllocates
  <2>2. request' = request /\ UNCHANGED <<held, merged>>
    BY <1>1 DEF OpenClock, Created, CloseClock
  <2> QED BY <1>s, <2>1, <2>2
<1>2. ASSUME NEW c \in Clock, Crash(c) PROVE IInv'
  <2>1. TypeOK' /\ Allocations'
    BY <1>2, CrashAllocates
  <2>2. \A r \in Stamped : request'[r] = request[r]
    BY <1>2 DEF Crash, Stamped
  <2>3. UNCHANGED <<held, merged>>
    BY <1>2 DEF Crash
  <2> QED BY <1>s, <2>1, <2>2, <2>3
<1>3. ASSUME NEW r \in Request, NEW c \in Clock, NEW observed \in {0, 1}, Call(r, c, observed) PROVE IInv'
  <2>1. TypeOK' /\ Allocations'
    BY <1>3, CallAllocates
  <2>2. request[r].stage = "idle" /\ (\A q \in Request \ {r} : request'[q] = request[q]) /\ UNCHANGED <<held, merged>>
    BY <1>0, <1>3 DEF Call
  <2>3. \A q \in Stamped : request'[q] = request[q]
    BY <2>2 DEF Stamped
  <2> QED BY <1>s, <2>1, <2>2, <2>3
<1>4. ASSUME NEW r \in Request, Allocate(r) \/ Save(r) \/ Stamp(r) \/ Interrupt(r) PROVE IInv'
  <2>1. TypeOK' /\ Allocations'
    BY <1>4, AllocateAllocates, SaveAllocates, StampAllocates, InterruptAllocates
  <2>2. request[r].stage \in {"queued", "saving", "saved"} /\ UNCHANGED <<held, merged>>
    BY <1>4 DEF Allocate, Save, Stamp, Interrupt
  <2>3. \A q \in Request \ {r} : request'[q] = request[q]
    BY <1>0, <1>4 DEF Allocate, Save, Stamp, Interrupt
  <2>4. \A q \in Stamped : request'[q] = request[q]
    BY <2>2, <2>3 DEF Stamped
  <2> QED BY <1>s, <2>1, <2>2, <2>4
<1>5. ASSUME NEW r \in Request, NEW p \in Replica, Deliver(p, r) PROVE IInv'
  BY <1>5, DeliverRegisters DEF IInv
<1>6. CASE UNCHANGED clockVars
  <2>1. stored' = stored /\ clock' = clock /\ closed' = closed /\ request' = request /\ UNCHANGED <<held, merged>>
    BY <1>6 DEF clockVars
  <2>2. TypeOK'
    BY <2>1 DEF IInv, TypeOK
  <2>3. Allocations'
    BY <2>1 DEF IInv, Allocations, Standing, Apart, Resting, Home
  <2> QED BY <1>s, <2>1, <2>2, <2>3
<1> QED BY <1>1, <1>2, <1>3, <1>4, <1>5, <1>6 DEF Next

\* Types, who holds a clock's lock and what was saved, and which write a
\* replica holds.
THEOREM ClockInvariant == Spec => []IInv
<1>1. Init => IInv
  BY InitIInv
<1>2. IInv /\ [Next]_clockVars => IInv'
  BY InvariantStep
<1> QED BY <1>1, <1>2, PTL DEF Spec

LEMMA StampsAreSound ==
  ASSUME IInv
  PROVE  StampsAreUnique /\ StampsAreLater /\ NoSaveAfterClose
<1>0. \A r, q \in Request : Standing(r) /\ Apart(r, q)
  BY DEF IInv, Allocations
<1>1. StampsAreUnique
  BY <1>0 DEF StampsAreUnique, Apart, Safe, Home
<1>2. StampsAreLater
  <2> SUFFICES ASSUME NEW r \in Request, request[r].stage = "stamped"
               PROVE  request[r].target > request[r].observed /\ \A n \in request[r].floor : request[r].target > n
    BY DEF StampsAreLater
  <2>1. Standing(r) /\ request[r].target \in Nat /\ request[r].floor \subseteq Nat
    BY <1>0 DEF IInv, TypeOK
  <2>2. request[r].target > request[r].observed /\ \A n \in request[r].floor : n < request[r].target
    BY <2>1 DEF Standing, Safe
  <2> QED BY <2>1, <2>2
<1>3. NoSaveAfterClose
  BY <1>0 DEF NoSaveAfterClose, Standing, Working
<1> QED BY <1>1, <1>2, <1>3

\* The last of some writes is one: stamps of different calls differ, and a call
\* stands for one value.
LEMMA LastIsUnique ==
  ASSUME IInv, NEW p \in Replica, NEW q \in Replica, merged[p] = merged[q]
  PROVE  held[p] = held[q]
<1>0. HoldsLast(p) /\ HoldsLast(q)
  BY DEF IInv
<1>1. CASE merged[p] = {}
  BY <1>0, <1>1 DEF HoldsLast
<1>2. CASE merged[p] # {}
  <2>1. PICK r \in merged[p] : held[p] = WriteOf(r) /\ \A s \in merged[p] : ~Later(WriteOf(s), held[p])
    BY <1>0, <1>2 DEF HoldsLast
  <2>2. PICK s \in merged[p] : held[q] = WriteOf(s) /\ \A o \in merged[p] : ~Later(WriteOf(o), held[q])
    BY <1>0, <1>2 DEF HoldsLast
  <2>3. r \in Stamped /\ s \in Stamped /\ ~Later(WriteOf(s), WriteOf(r)) /\ ~Later(WriteOf(r), WriteOf(s))
    BY <1>0, <2>1, <2>2 DEF HoldsLast
  <2>4. WriteOf(r).counter = WriteOf(s).counter /\ WriteOf(r).replica = WriteOf(s).replica
    <3> PICK a \in Write, b \in Write : a = WriteOf(r) /\ b = WriteOf(s)
      BY <2>3, WriteType
    <3>1. a.counter \in Nat /\ b.counter \in Nat /\ a.replica \in Nat /\ b.replica \in Nat
      BY ClockAssumption DEF Write
    <3>2. a.counter = b.counter /\ a.replica = b.replica
      BY <2>3, <3>1 DEF Later
    <3> QED BY <3>2
  <2>5. r = s
    <3>1. Home(r) = Home(s) /\ request[r].target = request[s].target
      BY <2>3, <2>4, WriteType
    <3>2. r \in Request /\ s \in Request /\ request[r].stage \in Safe /\ request[s].stage \in Safe
      BY <2>3 DEF Stamped, Safe
    <3>3. Apart(r, s)
      BY <3>2 DEF IInv, Allocations
    <3> QED BY <3>1, <3>2, <3>3 DEF Apart
  <2> QED BY <2>1, <2>2, <2>5
<1> QED BY <1>1, <1>2

\* However many clocks are open over a storage, closed, interrupted or dead, a
\* replica returns no stamp twice and none that its caller had overtaken; and
\* the order in which writes are merged does not matter.
THEOREM StampsAlwaysMerge == Spec => []StampsMerge
<1>1. IInv => StampsMerge
  <2> SUFFICES ASSUME IInv PROVE StampsMerge
    OBVIOUS
  <2>1. StampsAreUnique /\ StampsAreLater /\ NoSaveAfterClose
    BY StampsAreSound
  <2>2. MergedIsAgreed
    BY LastIsUnique DEF MergedIsAgreed
  <2> QED BY <2>1, <2>2 DEF StampsMerge
<1> QED BY <1>1, ClockInvariant, PTL

(***************************************************************************)
(* SocketTransport.  At any time one of the two queues is empty; what      *)
(* waits is in order of the calls, and what was called later is later.     *)
(***************************************************************************)

Increasing(s) == \A i, j \in DOMAIN s : i < j => s[i] < s[j]

Answers == {"answered", "answered with an error"}
Outcomes == {"none", "waiting", "refused", "failed", "interrupted"} \cup Answers

\* In order, and nothing before its call.
Frames(s) == s \in Seq(Socket!Frame) /\ Increasing(s) /\ \A i \in DOMAIN s : outcome[s[i]] # "none"

SocketInv ==
  /\ outcome \in [Socket!Frame -> Outcomes]
  /\ Frames(queued) /\ Frames(inFlight) /\ Frames(sent)
  /\ \A f \in Socket!Frame : outcome[f] = "waiting" <=> f \in Range(queued) \cup Range(inFlight)
  /\ \A f, g \in Socket!Frame : outcome[f] = "none" /\ f < g => outcome[g] = "none"
  /\ Len(queued) + Len(inFlight) <= MaxQueue
  /\ link = "ready" => queued = <<>>
  /\ link # "ready" => inFlight = <<>>
  /\ link = "connecting" => sent = <<>>
  /\ link = "gone" => queued = <<>> /\ (disposed \/ terminal)
  /\ \A r \in replies : r[2] \in Answers

\* Taking a frame out leaves the others as they were.
LEMMA Taking ==
  ASSUME NEW s \in Seq(Socket!Frame), Increasing(s), NEW f \in Socket!Frame,
         NEW next, Socket!Removed(next, s, f)
  PROVE  /\ next \in Seq(Socket!Frame) /\ Increasing(next) /\ Len(next) <= Len(s)
         /\ Range(next) = Range(s) \ {f}
         /\ s = <<>> => next = <<>>
<1>0. Len(s) \in Nat /\ DOMAIN s = 1 .. Len(s) /\ Socket!Frame \subseteq Nat
  BY SocketAssumption DEF Socket!Frame
<1>1. CASE f \notin Range(s)
  BY <1>0, <1>1 DEF Socket!Removed, Socket!ToSet, Range
<1>2. CASE f \in Range(s)
  <2>1. PICK i \in DOMAIN s : s[i] = f /\ next = Socket!RemoveAt(s, i)
    BY <1>2 DEF Socket!Removed, Socket!ToSet, Range
  <2>2. next = SubSeq(s, 1, i - 1) \o SubSeq(s, i + 1, Len(s))
    BY <2>1 DEF Socket!RemoveAt
  <2>3. next \in Seq(Socket!Frame) /\ Len(next) = Len(s) - 1 /\ DOMAIN next = 1 .. (Len(s) - 1)
        /\ \A j \in 1 .. (Len(s) - 1) : next[j] = IF j < i THEN s[j] ELSE s[j + 1]
    <3> DEFINE l == SubSeq(s, 1, i - 1)
               r == SubSeq(s, i + 1, Len(s))
    <3>1. /\ l \in Seq(Socket!Frame) /\ Len(l) = i - 1 /\ \A j \in 1 .. (i - 1) : l[j] = s[j]
          /\ r \in Seq(Socket!Frame) /\ Len(r) = Len(s) - i /\ \A j \in 1 .. (Len(s) - i) : r[j] = s[i + j]
      <4>1. 1 \in Nat /\ i \in Nat /\ i >= 1 /\ i <= Len(s) /\ 1 - 1 = 0
        BY <1>0, <2>1
      <4>2. l \in Seq(Socket!Frame) /\ Len(l) = i - 1 /\ \A j \in 1 .. (i - 1) : l[j] = s[j]
        BY <1>0, <4>1, SubSeqProperties
      <4>3. r \in Seq(Socket!Frame) /\ Len(r) = Len(s) - i /\ \A j \in 1 .. (Len(s) - i) : r[j] = s[i + j]
        BY <1>0, <4>1, SubSeqProperties
      <4> QED BY <4>2, <4>3
    <3> HIDE DEF l, r
    <3>2. next = l \o r
      BY <2>2 DEF l, r
    <3>3. next \in Seq(Socket!Frame) /\ Len(next) = Len(s) - 1 /\ DOMAIN next = 1 .. (Len(s) - 1)
      <4>1. Len(l) + Len(r) = Len(s) - 1
        BY <1>0, <2>1, <3>1
      <4>2. next \in Seq(Socket!Frame) /\ Len(next) = Len(s) - 1
        BY <3>1, <3>2, <4>1, ConcatProperties
      <4> QED BY <1>0, <4>2, LenProperties
    <3>4. \A j \in 1 .. (Len(s) - 1) : next[j] = IF j <= Len(l) THEN l[j] ELSE r[j - Len(l)]
      <4> TAKE j \in 1 .. (Len(s) - 1)
      <4>1. j \in 1 .. (Len(l) + Len(r)) /\ Len(l) \in Nat /\ Len(r) \in Nat
        BY <1>0, <2>1, <3>1
      <4> QED BY <3>1, <3>2, <4>1, ConcatProperties
    <3>5. ASSUME NEW j \in 1 .. (Len(s) - 1) PROVE next[j] = IF j < i THEN s[j] ELSE s[j + 1]
      <4>1. i \in Nat /\ j \in Nat /\ Len(l) = i - 1
        BY <1>0, <2>1, <3>1
      <4>2. CASE j < i
        <5>1. j <= Len(l) /\ j \in 1 .. (i - 1)
          BY <4>1, <4>2
        <5> QED BY <3>1, <3>4, <4>2, <5>1
      <4>3. CASE ~(j < i)
        <5>1. ~(j <= Len(l)) /\ j - Len(l) \in 1 .. (Len(s) - i) /\ i + (j - Len(l)) = j + 1
          BY <1>0, <4>1, <4>3
        <5> QED BY <3>1, <3>4, <4>3, <5>1
      <4> QED BY <4>2, <4>3
    <3> QED BY <3>3, <3>5
  <2>4. Increasing(next)
    <3> SUFFICES ASSUME NEW a \in DOMAIN next, NEW b \in DOMAIN next, a < b PROVE next[a] < next[b]
      BY DEF Increasing
    <3>1. a \in 1 .. (Len(s) - 1) /\ b \in 1 .. (Len(s) - 1) /\ i \in Nat
      BY <1>0, <2>1, <2>3
    <3> DEFINE u == IF a < i THEN a ELSE a + 1
               v == IF b < i THEN b ELSE b + 1
    <3>2. u \in DOMAIN s /\ v \in DOMAIN s /\ u < v /\ next[a] = s[u] /\ next[b] = s[v]
      BY <1>0, <2>1, <2>3, <3>1
    <3> HIDE DEF u, v
    <3> QED BY <3>2 DEF Increasing
  <2>5. \A j \in DOMAIN s : j # i => s[j] # f
    BY <1>0, <2>1 DEF Increasing
  <2>6. \A j \in DOMAIN s : j # i => \E k \in DOMAIN next : next[k] = s[j]
    <3> TAKE j \in DOMAIN s
    <3> HAVE j # i
    <3>1. CASE j < i
      BY <1>0, <2>1, <2>3, <3>1
    <3>2. CASE j > i
      <4>1. j - 1 \in DOMAIN next /\ next[j - 1] = s[j]
        BY <1>0, <2>1, <2>3, <3>2
      <4> QED BY <4>1
    <3> QED BY <1>0, <3>1, <3>2
  <2>7. \A k \in DOMAIN next : \E j \in DOMAIN s : j # i /\ next[k] = s[j]
    <3> TAKE k \in DOMAIN next
    <3>1. CASE k < i
      BY <1>0, <2>1, <2>3, <3>1
    <3>2. CASE k >= i
      <4>1. k + 1 \in DOMAIN s /\ k + 1 # i /\ next[k] = s[k + 1]
        BY <1>0, <2>1, <2>3, <3>2
      <4> QED BY <4>1
    <3> QED BY <1>0, <2>1, <2>3, <3>1, <3>2
  <2>8. Range(next) = Range(s) \ {f}
    BY <2>1, <2>5, <2>6, <2>7 DEF Range
  <2> QED BY <1>0, <2>1, <2>3, <2>4, <2>8
<1> QED BY <1>1, <1>2

LEMMA SocketInitially == Socket!Init => SocketInv
BY SocketAssumption DEF Socket!Init, SocketInv, Frames, Increasing, Outcomes, Range

LEMMA SocketStep == ASSUME SocketInv, [Socket!Next]_(Socket!socketVars) PROVE SocketInv'
<1> USE DEF SocketInv
<1>0. Socket!Frame \subseteq Nat
  BY SocketAssumption DEF Socket!Frame
<1>1. ASSUME NEW f \in Socket!Frame, Socket!Exchange(f) PROVE SocketInv'
  <2>0. /\ outcome[f] = "none" /\ \A g \in Socket!Frame : g < f => outcome[g] # "none"
        /\ UNCHANGED <<link, retries, terminal, disposed, replies>>
    BY <1>1 DEF Socket!Exchange
  <2>1. CASE disposed \/ terminal \/ Len(queued) + Len(inFlight) >= MaxQueue
    <3>1. outcome' = [outcome EXCEPT ![f] = "refused"] /\ UNCHANGED <<queued, inFlight, wire, sent>>
      BY <1>1, <2>1 DEF Socket!Exchange
    <3> QED BY <1>0, <2>0, <3>1 DEF Frames, Outcomes
  <2>2. CASE ~(disposed \/ terminal \/ Len(queued) + Len(inFlight) >= MaxQueue)
    <3>1. outcome' = [outcome EXCEPT ![f] = "waiting"]
      BY <1>1, <2>2 DEF Socket!Exchange
    <3>2. ASSUME NEW s, Frames(s)
          PROVE  /\ Append(s, f) \in Seq(Socket!Frame) /\ Increasing(Append(s, f))
                 /\ \A i \in DOMAIN Append(s, f) : outcome'[Append(s, f)[i]] # "none"
                 /\ Range(Append(s, f)) = Range(s) \cup {f} /\ Len(Append(s, f)) = Len(s) + 1
                 /\ Append(s, f) = s \o <<f>>
      <4> DEFINE t == Append(s, f)
      <4>1. /\ s \in Seq(Socket!Frame) /\ Len(s) \in Nat /\ DOMAIN s = 1 .. Len(s) /\ t \in Seq(Socket!Frame)
            /\ DOMAIN t = 1 .. (Len(s) + 1) /\ Len(t) = Len(s) + 1
            /\ \A i \in DOMAIN s : t[i] = s[i] /\ s[i] \in Socket!Frame
            /\ t[Len(s) + 1] = f /\ t = s \o <<f>>
        BY <3>2 DEF Frames
      <4> HIDE DEF t
      <4>2. \A i \in DOMAIN s : s[i] < f
        <5> SUFFICES ASSUME NEW i \in DOMAIN s PROVE s[i] < f
          OBVIOUS
        <5>1. s[i] \in Socket!Frame /\ outcome[s[i]] # "none"
          BY <3>2, <4>1 DEF Frames
        <5>2. ~(f < s[i]) /\ s[i] # f
          BY <2>0, <5>1
        <5>3. s[i] \in Nat /\ f \in Nat
          BY <1>0, <5>1
        <5> QED BY <5>2, <5>3
      <4>3. Increasing(t)
        BY <3>2, <4>1, <4>2 DEF Frames, Increasing
      <4>4. Range(t) = Range(s) \cup {f}
        BY <4>1 DEF Range
      <4>5. \A i \in DOMAIN t : outcome'[t[i]] # "none"
        BY <3>1, <3>2, <4>1 DEF Frames
      <4> QED BY <4>1, <4>3, <4>4, <4>5 DEF t
    <3>3. \A g \in Socket!Frame : outcome'[g] = IF g = f THEN "waiting" ELSE outcome[g]
      BY <3>1
    <3>7. Frames(sent) => \A i \in DOMAIN sent : sent[i] \in Socket!Frame
      BY DEF Frames
    <3>4. CASE link = "ready"
      <4>1. inFlight' = Append(inFlight, f) /\ sent' = Append(sent, f) /\ UNCHANGED queued
        BY <1>1, <2>2, <3>2, <3>4 DEF Socket!Exchange, Socket!Flush
      <4>2. Frames(queued)' /\ Frames(inFlight)' /\ Frames(sent)'
        BY <3>2, <3>3, <3>4, <4>1 DEF Frames
      <4> QED BY <1>0, <2>0, <2>2, <3>1, <3>2, <3>3, <3>4, <4>1, <4>2, SocketAssumption DEF Outcomes, Frames
    <3>5. CASE link # "ready"
      <4>1. queued' = Append(queued, f) /\ UNCHANGED <<inFlight, sent>>
        BY <1>1, <2>2, <3>5 DEF Socket!Exchange
      <4>2. Frames(queued)' /\ Frames(inFlight)' /\ Frames(sent)'
        BY <3>2, <3>3, <3>5, <3>7, <4>1 DEF Frames
      <4> QED BY <1>0, <2>0, <2>2, <3>1, <3>2, <3>3, <3>5, <4>1, <4>2, SocketAssumption DEF Outcomes, Frames
    <3> QED BY <3>4, <3>5
  <2> QED BY <2>1, <2>2
<1>2. ASSUME NEW f \in Socket!Frame, Socket!Interrupt(f) PROVE SocketInv'
  <2>1. outcome' = [outcome EXCEPT ![f] = "interrupted"] /\ outcome[f] = "waiting"
        /\ UNCHANGED <<link, retries, terminal, disposed, wire, replies, sent>>
        /\ Socket!Removed(queued', queued, f) /\ Socket!Removed(inFlight', inFlight, f)
    BY <1>2 DEF Socket!Interrupt
  <2>2. /\ queued' \in Seq(Socket!Frame) /\ Increasing(queued') /\ Len(queued') <= Len(queued)
        /\ Range(queued') = Range(queued) \ {f} /\ (queued = <<>> => queued' = <<>>)
    BY <2>1, Taking DEF Frames
  <2>3. /\ inFlight' \in Seq(Socket!Frame) /\ Increasing(inFlight') /\ Len(inFlight') <= Len(inFlight)
        /\ Range(inFlight') = Range(inFlight) \ {f} /\ (inFlight = <<>> => inFlight' = <<>>)
    BY <2>1, Taking DEF Frames
  <2>4. \A g \in Socket!Frame : outcome'[g] = IF g = f THEN "interrupted" ELSE outcome[g]
    BY <2>1
  <2>5. Frames(queued)' /\ Frames(inFlight)' /\ Frames(sent)'
    <3>1. \A i \in DOMAIN queued' : queued'[i] \in Range(queued)
      BY <2>2 DEF Range
    <3>2. \A i \in DOMAIN inFlight' : inFlight'[i] \in Range(inFlight)
      BY <2>3 DEF Range
    <3> QED BY <2>1, <2>2, <2>3, <2>4, <3>1, <3>2 DEF Frames, Range
  <2>6. (Len(queued) + Len(inFlight) <= MaxQueue)'
    BY <2>2, <2>3, SocketAssumption DEF Frames
  <2> QED BY <1>0, <2>1, <2>2, <2>3, <2>4, <2>5, <2>6 DEF Outcomes
<1>3. CASE Socket!Connect
  BY <1>3 DEF Socket!Connect, Frames, Increasing
<1>4. CASE Socket!Open
  <2>1. inFlight = <<>> /\ sent = <<>> /\ inFlight \o queued = queued /\ sent \o queued = queued
    BY <1>4 DEF Socket!Open, Frames
  <2> QED BY <1>4, <2>1 DEF Socket!Open, Socket!Flush, Frames, Increasing, Range
<1>5. CASE Socket!CloseSocket
  <2>1. inFlight \o queued = IF link = "ready" THEN inFlight ELSE queued
    BY DEF Frames
  <2>2. link' = "closed" /\ inFlight' = <<>> /\ replies' = {} /\ queued' = (IF link = "ready" THEN inFlight ELSE queued)
        /\ UNCHANGED <<outcome, retries, terminal, disposed, sent>>
    BY <1>5, <2>1 DEF Socket!CloseSocket, Socket!Requeue
  <2>3. Frames(queued)' /\ Frames(inFlight)' /\ Frames(sent)'
    BY <2>2 DEF Frames, Increasing
  <2>4. Range(queued') \cup Range(inFlight') = Range(queued) \cup Range(inFlight)
    BY <2>2 DEF Range
  <2> QED BY <2>2, <2>3, <2>4
<1>12. ASSUME Socket!FailAll, UNCHANGED sent
       PROVE  /\ outcome' \in [Socket!Frame -> Outcomes] /\ queued' = <<>> /\ inFlight' = <<>>
              /\ \A f \in Socket!Frame : outcome'[f] # "waiting" /\ (outcome'[f] = "none" <=> outcome[f] = "none")
              /\ (Frames(queued) /\ Frames(inFlight) /\ Frames(sent))'
              /\ Range(queued') \cup Range(inFlight') = {} /\ (Len(queued) + Len(inFlight) <= MaxQueue)'
  <2>0. queued \o inFlight = IF link = "ready" THEN inFlight ELSE queued
    BY DEF Frames
  <2>1. \A f \in Socket!Frame : f \in Socket!ToSet(queued \o inFlight) <=> outcome[f] = "waiting"
    BY <2>0 DEF Socket!ToSet, Range, Frames
  <2>2. outcome' = [f \in Socket!Frame |-> IF outcome[f] = "waiting" THEN "failed" ELSE outcome[f]]
        /\ queued' = <<>> /\ inFlight' = <<>>
    BY <1>12, <2>1 DEF Socket!FailAll
  <2> QED BY <1>12, <2>2, SocketAssumption DEF Outcomes, Frames, Increasing, Range
<1>6. CASE Socket!Retry
  <2>1. CASE retries < MaxRetries
    BY <1>6, <2>1 DEF Socket!Retry, Frames, Increasing
  <2>2. CASE ~(retries < MaxRetries)
    <3>1. link' = "gone" /\ terminal' /\ Socket!FailAll /\ UNCHANGED <<disposed, wire, replies, sent>>
      BY <1>6, <2>2 DEF Socket!Retry
    <3> QED BY <1>12, <3>1
  <2> QED BY <2>1, <2>2
<1>7. CASE Socket!Serve
  <2>1. UNCHANGED <<outcome, queued, inFlight, link, retries, terminal, disposed, sent>>
    BY <1>7 DEF Socket!Serve
  <2>2. \A r \in replies' : r[2] \in Answers
    <3>1. PICK f \in Socket!ToSet(wire), how \in Answers : replies' = replies \cup {<<f, how>>}
      BY <1>7 DEF Socket!Serve, Answers
    <3>2. <<f, how>>[2] \in Answers
      OBVIOUS
    <3> QED BY <3>1, <3>2
  <2> QED BY <2>1, <2>2 DEF Frames, Increasing
<1>8. CASE Socket!Reply
  <2>1. PICK r \in replies : /\ replies' = replies \ {r}
                             /\ IF r[1] \in Socket!ToSet(inFlight)
                                THEN outcome' = [outcome EXCEPT ![r[1]] = r[2]] /\ Socket!Removed(inFlight', inFlight, r[1])
                                ELSE UNCHANGED <<outcome, inFlight>>
                             /\ UNCHANGED <<queued, link, retries, terminal, disposed, wire, sent>>
    BY <1>8 DEF Socket!Reply
  <2>2. CASE r[1] \notin Socket!ToSet(inFlight)
    BY <2>1, <2>2 DEF Frames, Increasing
  <2>3. CASE r[1] \in Socket!ToSet(inFlight)
    <3> DEFINE f == r[1]
    <3>1. f \in Socket!Frame /\ f \in Range(inFlight) /\ r[2] \in Answers
      BY <2>3 DEF Socket!ToSet, Range, Frames
    <3>2. /\ inFlight' \in Seq(Socket!Frame) /\ Increasing(inFlight') /\ Len(inFlight') <= Len(inFlight)
          /\ Range(inFlight') = Range(inFlight) \ {f} /\ (inFlight = <<>> => inFlight' = <<>>)
      BY <2>1, <2>3, <3>1, Taking DEF Frames
    <3>3. link = "ready" /\ queued = <<>>
      BY <3>1 DEF Range
    <3>4. \A g \in Socket!Frame : outcome'[g] = IF g = f THEN r[2] ELSE outcome[g]
      BY <2>1, <2>3
    <3> HIDE DEF f
    <3>5. Frames(queued)' /\ Frames(inFlight)' /\ Frames(sent)'
      <4>1. \A i \in DOMAIN inFlight' : inFlight'[i] \in Range(inFlight)
        BY <3>2 DEF Range
      <4>2. \A g \in Socket!Frame : outcome[g] # "none" => outcome'[g] # "none"
        BY <3>1, <3>4 DEF Answers
      <4>3. \A i \in DOMAIN inFlight' : outcome'[inFlight'[i]] # "none"
        BY <3>2, <4>1, <4>2 DEF Frames, Range
      <4>4. Frames(queued)' /\ Frames(sent)'
        BY <2>1, <4>2 DEF Frames
      <4> QED BY <3>2, <4>3, <4>4 DEF Frames
    <3>6. (Len(queued) + Len(inFlight) <= MaxQueue)'
      BY <2>1, <3>2, SocketAssumption DEF Frames
    <3>7. outcome' \in [Socket!Frame -> Outcomes]
      BY <2>1, <2>3, <3>1 DEF Outcomes
    <3>8. Range(queued) = {}
      BY <3>3 DEF Range
    <3> QED BY <2>1, <3>1, <3>2, <3>3, <3>4, <3>5, <3>6, <3>7, <3>8 DEF Answers
  <2> QED BY <2>2, <2>3
<1>9. CASE Socket!Dispose
  <2>1. link' = "gone" /\ disposed' /\ Socket!FailAll /\ replies' = {} /\ UNCHANGED <<retries, terminal, sent>>
    BY <1>9 DEF Socket!Dispose
  <2> QED BY <1>12, <2>1
<1>10. CASE UNCHANGED Socket!socketVars
  BY <1>10 DEF Socket!socketVars, Frames, Increasing
<1> QED BY <1>1, <1>2, <1>3, <1>4, <1>5, <1>6, <1>7, <1>8, <1>9, <1>10 DEF Socket!Next

\* For any exchanges, queue and schedule of retries (transport.ts layerSocket):
\* a slot of the queue is held by exactly the exchanges that wait, a connection
\* carries them in the order of their calls, and none waits for a transport
\* that is gone.
THEOREM SocketAlwaysCarries == Socket!Spec => []SocketCarries
<1>1. Socket!Init => SocketInv
  BY SocketInitially
<1>2. SocketInv /\ [Socket!Next]_(Socket!socketVars) => SocketInv'
  BY SocketStep
<1>3. ASSUME SocketInv PROVE SocketCarries
  <2> DEFINE slots == queued \o inFlight
  <2> USE <1>3 DEF SocketInv
  <2>0. slots = IF link = "ready" THEN inFlight ELSE queued
    BY DEF Frames
  <2>4. Socket!Frame \subseteq Nat
    BY SocketAssumption DEF Socket!Frame
  <2>5. slots \in Seq(Socket!Frame) /\ Increasing(slots) /\ Len(slots) <= MaxQueue
    BY <2>0, SocketAssumption DEF Frames
  <2>6. Range(slots) = Socket!Waiting
    <3>1. \A f \in Socket!Frame : outcome[f] = "waiting" <=> f \in Range(slots)
      BY <2>0 DEF Range
    <3>2. Range(slots) \subseteq Socket!Frame
      BY <2>5 DEF Range
    <3> QED BY <3>1, <3>2 DEF Socket!Waiting
  <2> HIDE DEF slots
  <2>7. \A i, j \in DOMAIN slots : slots[i] = slots[j] => i = j
    <3> TAKE i, j \in DOMAIN slots
    <3>1. i \in Nat /\ j \in Nat
      BY <2>5
    <3>2. slots[i] \in Socket!Frame /\ slots[j] \in Socket!Frame
      BY <2>5
    <3>3. slots[i] \in Nat /\ slots[j] \in Nat
      BY <2>4, <3>2
    <3> QED BY <2>5, <3>1, <3>3 DEF Increasing
  <2>1. Socket!SlotsAreWaiting
    BY <2>5, <2>6, <2>7 DEF Socket!SlotsAreWaiting, Socket!ToSet, Range, slots
  <2>2. Socket!WireInOrder
    BY DEF Socket!WireInOrder, Frames, Increasing
  <2>3. Socket!NobodyWaitsForNothing
    BY DEF Socket!NobodyWaitsForNothing, Socket!Waiting, Range
  <2> QED BY <2>1, <2>2, <2>3 DEF SocketCarries
<1> QED BY <1>1, <1>2, <1>3, PTL DEF Socket!Spec

(***************************************************************************)
(* SharedMount.  The invariant: while the last status taken is the present *)
(* one and nothing under way would install the replica's value, the Model  *)
(* already shows it; and a persist dispose waits for is tracked.           *)
(***************************************************************************)

StatusType == [cursor : Nat, rejected : Nat]

Values == Edit \cup Remote

MountStages == {"none", "dispatched", "due", "submitting", "pending", "refused", "rejected", "committed",
                "dropped", "interrupted"}

Message == [tag : {"edit", "refresh", "failed", "persisted"}, edit : Edit \cup {Nothing}]

Inboxes == {s \in Seq(Message) : \A i \in DOMAIN s : s[i].tag = "edit" => s[i].edit \in Edit}

MountTypeOK ==
  /\ committed \in Seq(Values) /\ outbox \in Seq(Edit) /\ persisting \in Seq(Edit)
  /\ inbox \in Inboxes /\ asked \in SUBSET Edit
  /\ rejected \in Nat /\ seen \in StatusType \cup {Nothing}
  /\ stage \in [Edit -> MountStages] /\ mount \in {"up", "disposing", "disposed"}

\* Nothing under way changes what the Model shows but a message that was persisted.
Restful == /\ outbox = <<>> /\ persisting = <<>> /\ \A e \in Edit : stage[e] # "due"
           /\ \A i \in DOMAIN inbox : inbox[i].tag = "persisted"

MountInv ==
  /\ MountTypeOK
  /\ seen # Nothing => seen.cursor <= Len(committed) /\ seen.rejected <= rejected
  /\ seen # Nothing /\ ~signal => seen = Mount!Status
  /\ mount # "disposed" /\ seen = Mount!Status /\ Restful => slice = committed
  /\ mount # "disposed" => \A e \in Edit : /\ stage[e] # "interrupted"
                                           /\ stage[e] = "submitting" => e \in Range(persisting)
  /\ mount = "disposing" => asked = awaited
  /\ Mount!DisposeWaits

\* A Message enters at the end.
LEMMA Posting ==
  ASSUME NEW s \in Inboxes, NEW message \in Message, message.tag = "edit" => message.edit \in Edit
  PROVE  /\ Append(s, message) \in Inboxes
         /\ message.tag # "persisted" => \E i \in DOMAIN Append(s, message) : Append(s, message)[i].tag # "persisted"
<1>1. s \in Seq(Message)
  BY DEF Inboxes
<1>2. /\ Append(s, message) \in Seq(Message) /\ Len(s) \in Nat /\ DOMAIN s = 1 .. Len(s)
      /\ DOMAIN Append(s, message) = 1 .. (Len(s) + 1) /\ Append(s, message)[Len(s) + 1] = message
      /\ \A i \in 1 .. Len(s) : Append(s, message)[i] = s[i]
  BY <1>1
<1>3. \A i \in 1 .. (Len(s) + 1) : i \in 1 .. Len(s) \/ i = Len(s) + 1
  BY <1>2
<1>4. \A i \in 1 .. Len(s) : s[i].tag = "edit" => s[i].edit \in Edit
  BY <1>2 DEF Inboxes
<1> HIDE DEF Message
<1>5. \A i \in DOMAIN Append(s, message) : Append(s, message)[i].tag = "edit" => Append(s, message)[i].edit \in Edit
  BY <1>2, <1>3, <1>4
<1>6. Len(s) + 1 \in DOMAIN Append(s, message)
  BY <1>2
<1> QED BY <1>2, <1>5, <1>6 DEF Inboxes

\* The first one leaves.
LEMMA Taken ==
  ASSUME NEW s \in Inboxes, s # <<>>
  PROVE  /\ Head(s) = s[1] /\ 1 \in DOMAIN s /\ Head(s) \in Message /\ Tail(s) \in Inboxes
         /\ \A i \in DOMAIN s : i # 1 => i - 1 \in DOMAIN Tail(s) /\ Tail(s)[i - 1] = s[i]
<1>1. s \in Seq(Message) /\ Len(s) \in Nat /\ DOMAIN s = 1 .. Len(s) /\ Len(s) > 0
  BY DEF Inboxes
<1>2. /\ Tail(s) \in Seq(Message) /\ DOMAIN Tail(s) = 1 .. (Len(s) - 1)
      /\ \A i \in 1 .. (Len(s) - 1) : Tail(s)[i] = s[i + 1] /\ i + 1 \in DOMAIN s
  BY <1>1
<1>3. Head(s) = s[1] /\ 1 \in DOMAIN s /\ Head(s) \in Message
  BY <1>1
<1>4. \A i \in DOMAIN s : i # 1 => i - 1 \in DOMAIN Tail(s) /\ Tail(s)[i - 1] = s[i]
  BY <1>1, <1>2
<1>5. Tail(s) \in Inboxes
  BY <1>2 DEF Inboxes
<1> QED BY <1>3, <1>4, <1>5

LEMMA FunctionIsSeq == ASSUME NEW n \in Nat, NEW S, NEW f \in [1 .. n -> S] PROVE f \in Seq(S) /\ Len(f) = n
OBVIOUS

LEMMA MountInitially == Mount!Init => MountInv
<1> SUFFICES ASSUME Mount!Init PROVE MountInv
  OBVIOUS
<1>1. MountTypeOK
  BY DEF Mount!Init, MountTypeOK, MountStages, Inboxes
<1>2. Mount!Status \in StatusType /\ seen = Nothing
  BY DEF Mount!Init, Mount!Status, StatusType
<1>3. seen # Mount!Status
  BY <1>2, PartsAssumption DEF StatusType
<1> QED BY <1>1, <1>3 DEF Mount!Init, MountInv, Mount!DisposeWaits

\* An exchange changes the status: something was committed or rejected.
LEMMA ExchangeIsSeen ==
  ASSUME MountTypeOK, Mount!Exchange
  PROVE  /\ committed' \in Seq(Values) /\ outbox' \in Seq(Edit) /\ rejected' \in Nat
         /\ Len(committed') >= Len(committed) /\ rejected' >= rejected
         /\ Len(committed') > Len(committed) \/ rejected' > rejected
         /\ stage' \in [Edit -> MountStages]
         /\ \A e \in Edit : stage'[e] \in {stage[e], "rejected", "committed"}
<1> DEFINE answered(n) == SubSeq(outbox, 1, n)
           front(n) == Mount!ToSet(answered(n))
           effect(n, theirs, drop, kept) ==
             /\ n > 0 \/ theirs # <<>>
             /\ Mount!InOrderOf(kept, answered(n))
             /\ committed' = committed \o theirs \o kept
             /\ outbox' = SubSeq(outbox, n + 1, Len(outbox))
             /\ rejected' = rejected + Mount!Cardinality(drop)
             /\ stage' = [e \in Edit |-> IF e \in drop THEN "rejected"
                                         ELSE IF e \in front(n) THEN "committed" ELSE stage[e]]
             /\ signal' = TRUE
             /\ UNCHANGED <<slice, inbox, persisting, seen, mount, awaited, asked>>
<1>1. PICK n \in 0 .. Len(outbox), theirs \in {<<>>} \cup {<<x>> : x \in Remote \ Mount!ToSet(committed)} :
        \E drop \in SUBSET front(n) : \E kept \in Mount!SetToSeqs(front(n) \ drop) : effect(n, theirs, drop, kept)
  BY Zenon DEF Mount!Exchange
<1>2. PICK drop \in SUBSET front(n) : \E kept \in Mount!SetToSeqs(front(n) \ drop) : effect(n, theirs, drop, kept)
  BY <1>1
<1>3. PICK kept \in Mount!SetToSeqs(front(n) \ drop) : effect(n, theirs, drop, kept)
  BY <1>2
<1>4. n \in Nat /\ n <= Len(outbox) /\ outbox \in Seq(Edit) /\ Len(outbox) \in Nat
  BY DEF MountTypeOK
<1>5. answered(n) \in Seq(Edit) /\ Len(answered(n)) = n /\ outbox' \in Seq(Edit)
  <2>1. \A i \in 1 .. n : outbox[i] \in Edit
    BY <1>4
  <2>2. answered(n) \in Seq(Edit) /\ Len(answered(n)) = IF 1 <= n THEN n - 1 + 1 ELSE 0
    BY <1>4, <2>1, SubSeqProperties
  <2>3. \A i \in (n + 1) .. Len(outbox) : outbox[i] \in Edit
    BY <1>4
  <2>4. n + 1 \in Int /\ Len(outbox) \in Int
    BY <1>4
  <2>5. outbox' \in Seq(Edit)
    BY <1>3, <2>3, <2>4, SubSeqProperties
  <2> QED BY <1>4, <2>2, <2>5
<1> HIDE DEF answered
<1>6. front(n) \in SUBSET Edit /\ IsFiniteSet(front(n)) /\ (n > 0 => front(n) # {})
  <2>1. DOMAIN answered(n) = 1 .. n
    BY <1>5
  <2>2. front(n) = {answered(n)[i] : i \in 1 .. n}
    BY <2>1 DEF Mount!ToSet
  <2>3. answered(n) \in Seq(front(n)) /\ Len(answered(n)) = n
    BY <1>5, <2>1, <2>2
  <2>4. IsFiniteSet(front(n))
    BY <2>2, <2>3 DEF IsFiniteSet
  <2>5. n > 0 => 1 \in 1 .. n
    BY <1>4
  <2> QED BY <1>5, <2>1, <2>2, <2>4, <2>5
<1> HIDE DEF front
<1>7. /\ Cardinality(drop) \in Nat /\ (Cardinality(drop) = 0 => drop = {})
      /\ Cardinality(front(n) \ drop) \in Nat /\ (Cardinality(front(n) \ drop) = 0 => front(n) \ drop = {})
  <2>1. IsFiniteSet(drop) /\ IsFiniteSet(front(n) \ drop)
    BY <1>6, FS_Subset
  <2> QED BY <2>1, FS_CardinalityType, FS_EmptySet
<1>8. Mount!Cardinality(drop) = Cardinality(drop) /\ Mount!Cardinality(front(n) \ drop) = Cardinality(front(n) \ drop)
  BY DEF Mount!Cardinality, Cardinality
<1>9. kept \in Seq(Values) /\ Len(kept) = Cardinality(front(n) \ drop)
  <2>1. kept \in [1 .. Cardinality(front(n) \ drop) -> front(n) \ drop]
    BY <1>3, <1>8 DEF Mount!SetToSeqs
  <2>2. front(n) \ drop \subseteq Values
    BY <1>6 DEF Values
  <2>3. kept \in [1 .. Cardinality(front(n) \ drop) -> Values]
    BY <2>1, <2>2
  <2> QED BY <1>7, <2>3, FunctionIsSeq
<1>10. theirs \in Seq(Values) /\ (theirs # <<>> => Len(theirs) = 1) /\ Len(theirs) \in Nat
  <2>1. CASE theirs = <<>>
    BY <2>1
  <2>2. CASE theirs # <<>>
    <3>1. PICK x \in Remote : theirs = <<x>>
      BY <2>2
    <3>2. x \in Values
      BY DEF Values
    <3> QED BY <3>1, <3>2
  <2> QED BY <2>1, <2>2
<1>11. committed \in Seq(Values) /\ rejected \in Nat /\ Len(committed) \in Nat
  BY DEF MountTypeOK
<1>12. committed' \in Seq(Values) /\ Len(committed') = Len(committed) + Len(theirs) + Len(kept)
  <2>1. committed \o theirs \in Seq(Values) /\ Len(committed \o theirs) = Len(committed) + Len(theirs)
    BY <1>10, <1>11, ConcatProperties
  <2>2. /\ (committed \o theirs) \o kept \in Seq(Values)
        /\ Len((committed \o theirs) \o kept) = Len(committed \o theirs) + Len(kept)
    BY <1>9, <2>1, ConcatProperties
  <2> QED BY <1>3, <2>1, <2>2
<1>13. stage' \in [Edit -> MountStages] /\ \A e \in Edit : stage'[e] \in {stage[e], "rejected", "committed"}
  BY <1>3 DEF MountTypeOK, MountStages
<1>14. Len(theirs) > 0 \/ Len(kept) > 0 \/ Cardinality(drop) > 0
  BY <1>3, <1>4, <1>6, <1>7, <1>9, <1>10
<1>15. Len(committed') >= Len(committed) /\ (Len(committed') = Len(committed) => Len(theirs) = 0 /\ Len(kept) = 0)
  BY <1>7, <1>9, <1>10, <1>11, <1>12
<1>16. rejected' \in Nat /\ rejected' >= rejected /\ (rejected' = rejected => Cardinality(drop) = 0)
  BY <1>3, <1>7, <1>8, <1>11
<1>17. Len(committed') \in Nat
  BY <1>12
<1> QED BY <1>5, <1>7, <1>9, <1>10, <1>11, <1>12, <1>13, <1>14, <1>15, <1>16, <1>17

LEMMA MountStep == ASSUME MountInv, [Mount!Next]_(Mount!mountVars) PROVE MountInv'
<1> USE DEF MountInv
<1>0. DOMAIN stage = Edit
  BY DEF MountTypeOK
<1>1. ASSUME NEW e \in Edit, Mount!Dispatch(e) PROVE MountInv'
  <2>1. /\ stage' = [stage EXCEPT ![e] = "dispatched"] /\ inbox' = Append(inbox, [tag |-> "edit", edit |-> e])
        /\ UNCHANGED <<slice, persisting, seen, mount, awaited, asked, committed, outbox, rejected, signal>>
        /\ mount # "disposed"
    BY <1>1 DEF Mount!Dispatch, Mount!ReplicaRests
  <2>0. [tag |-> "edit", edit |-> e] \in Message
    BY DEF Message
  <2>2. ~Restful'
    BY <2>0, <2>1, Posting DEF Restful, MountTypeOK
  <2>3. MountTypeOK'
    BY <2>0, <2>1, Posting DEF MountTypeOK, MountStages
  <2>4. Mount!Status' = Mount!Status
    BY <2>1 DEF Mount!Status
  <2> QED BY <2>1, <2>2, <2>3, <2>4 DEF Mount!DisposeWaits, MountTypeOK
<1>2. ASSUME NEW e \in Edit, Mount!Start(e) PROVE MountInv'
  <2>1. /\ stage[e] = "due" /\ mount # "disposed"
        /\ stage' = [stage EXCEPT ![e] = "submitting"] /\ persisting' = Append(persisting, e)
        /\ UNCHANGED <<slice, inbox, seen, mount, awaited, asked, committed, outbox, rejected, signal>>
    BY <1>2 DEF Mount!Start, Mount!ReplicaRests
  <2>2. ~Restful'
    <3>1. Append(persisting, e) # <<>>
      BY DEF MountTypeOK
    <3> QED BY <2>1, <3>1 DEF Restful
  <2>3. MountTypeOK'
    BY <2>1 DEF MountTypeOK, MountStages
  <2>4. Mount!Status' = Mount!Status
    BY <2>1 DEF Mount!Status
  <2>5. Range(persisting) \cup {e} \subseteq Range(persisting')
    <3>1. /\ persisting \in Seq(Edit) /\ Len(persisting) \in Nat /\ DOMAIN persisting = 1 .. Len(persisting)
          /\ DOMAIN persisting' = 1 .. (Len(persisting) + 1) /\ persisting'[Len(persisting) + 1] = e
          /\ \A i \in 1 .. Len(persisting) : persisting'[i] = persisting[i] /\ i \in 1 .. (Len(persisting) + 1)
      BY <2>1 DEF MountTypeOK
    <3> QED BY <3>1 DEF Range
  <2> QED BY <2>1, <2>2, <2>3, <2>4, <2>5 DEF Mount!DisposeWaits, MountTypeOK
<1>3. CASE Mount!Process
  <2> DEFINE head == Head(inbox)
  <2>1. /\ inbox # <<>> /\ mount # "disposed" /\ inbox' = Tail(inbox) /\ slice' = Mount!Updated(head)
        /\ stage' = IF head.tag = "edit" THEN [stage EXCEPT ![head.edit] = "due"] ELSE stage
        /\ UNCHANGED <<persisting, seen, mount, awaited, asked, committed, outbox, rejected, signal>>
    BY <1>3 DEF Mount!Process, Mount!ReplicaRests
  <2>2. /\ head = inbox[1] /\ 1 \in DOMAIN inbox /\ head \in Message /\ Tail(inbox) \in Inboxes
        /\ \A i \in DOMAIN inbox : i # 1 => i - 1 \in DOMAIN Tail(inbox) /\ Tail(inbox)[i - 1] = inbox[i]
    BY <2>1, Taken DEF MountTypeOK
  <2>7. head.tag = "edit" => head.edit \in Edit
    BY <2>2 DEF MountTypeOK, Inboxes
  <2> HIDE DEF head
  <2>3. MountTypeOK'
    BY <2>1, <2>2, <2>7 DEF MountTypeOK, MountStages
  <2>4. Mount!Status' = Mount!Status
    BY <2>1 DEF Mount!Status
  <2>5. ASSUME seen = Mount!Status, Restful' PROVE slice' = committed
    <3>1. head.tag # "edit"
      BY <2>1, <2>5, <2>7 DEF Restful, MountTypeOK
    <3>2. CASE head.tag \in {"refresh", "failed"}
      <4>1. slice' = committed \o outbox /\ outbox = <<>>
        BY <2>1, <2>5, <3>2 DEF Mount!Updated, Mount!Shared, Restful
      <4> QED BY <4>1 DEF MountTypeOK
    <3>3. CASE head.tag = "persisted"
      <4>1. slice' = slice
        BY <2>1, <3>3 DEF Mount!Updated
      <4>3. Restful
        BY <2>1, <2>2, <2>5, <3>3 DEF Restful
      <4> QED BY <2>1, <2>5, <4>1, <4>3
    <3>4. head.tag \in {"edit", "refresh", "failed", "persisted"}
      BY <2>2 DEF Message
    <3> QED BY <3>1, <3>2, <3>3, <3>4
  <2>6. \A e \in Edit : stage'[e] \in {stage[e], "due"}
    BY <2>1, <2>7 DEF MountTypeOK
  <2> QED BY <2>1, <2>3, <2>4, <2>5, <2>6 DEF Mount!DisposeWaits, MountTypeOK
<1>4. CASE Mount!Persist
  <2> DEFINE e == Head(persisting)
  <2>1. /\ persisting # <<>> /\ mount # "disposed" /\ persisting' = Tail(persisting)
        /\ UNCHANGED <<slice, committed, rejected, seen, mount, awaited, asked>>
        /\ \/ /\ stage' = [stage EXCEPT ![e] = "pending"]
              /\ outbox' = Append(outbox, e) /\ signal' = TRUE
              /\ inbox' = Append(inbox, [tag |-> "persisted", edit |-> e])
           \/ /\ stage' = [stage EXCEPT ![e] = "refused"]
              /\ inbox' = Append(inbox, [tag |-> "failed", edit |-> e])
              /\ UNCHANGED <<outbox, signal>>
    BY <1>4 DEF Mount!Persist
  <2>2. e \in Edit /\ persisting' \in Seq(Edit)
    BY <2>1 DEF MountTypeOK
  <2>3. \A f \in Range(persisting) : f # e => f \in Range(persisting')
    <3>1. \A i \in DOMAIN persisting : i # 1 => i - 1 \in DOMAIN Tail(persisting) /\ Tail(persisting)[i - 1] = persisting[i]
      BY <2>1 DEF MountTypeOK
    <3>2. e = persisting[1]
      BY <2>1 DEF MountTypeOK
    <3> HIDE DEF e
    <3>3. ASSUME NEW i \in DOMAIN persisting, persisting[i] # e PROVE persisting[i] \in Range(persisting')
      BY <2>1, <3>1, <3>2, <3>3 DEF Range
    <3> QED BY <3>3 DEF Range
  <2> HIDE DEF e
  <2>8. [tag |-> "failed", edit |-> e] \in Message /\ [tag |-> "persisted", edit |-> e] \in Message
    BY <2>2 DEF Message
  <2>4. ~Restful'
    <3>3. outbox \in Seq(Edit)
      BY DEF MountTypeOK
    <3>1. Append(outbox, e) # <<>>
      BY <2>2, <3>3
    <3>2. \E i \in DOMAIN Append(inbox, [tag |-> "failed", edit |-> e]) :
            Append(inbox, [tag |-> "failed", edit |-> e])[i].tag # "persisted"
      BY <2>8, Posting DEF MountTypeOK
    <3> QED BY <2>1, <3>1, <3>2 DEF Restful
  <2>9. inbox' \in Inboxes
    BY <2>1, <2>8, Posting DEF MountTypeOK
  <2>10. outbox' \in Seq(Edit)
    <3>1. outbox \in Seq(Edit)
      BY DEF MountTypeOK
    <3>2. outbox' \in {outbox, Append(outbox, e)}
      BY <2>1
    <3> QED BY <2>2, <3>1, <3>2
  <2>11. stage' \in [Edit -> MountStages]
    BY <2>1, <2>2 DEF MountTypeOK, MountStages
  <2>5. MountTypeOK'
    BY <2>1, <2>2, <2>9, <2>10, <2>11 DEF MountTypeOK
  <2>6. Mount!Status' = Mount!Status
    BY <2>1 DEF Mount!Status
  <2>7. \A f \in Edit : stage'[f] \in IF f = e THEN {"pending", "refused"} ELSE {stage[f]}
    BY <2>1, <2>2 DEF MountTypeOK
  <2> QED BY <2>1, <2>2, <2>3, <2>4, <2>5, <2>6, <2>7 DEF Mount!DisposeWaits, MountTypeOK
<1>5. CASE Mount!Exchange
  <2>1. /\ committed' \in Seq(Values) /\ outbox' \in Seq(Edit) /\ rejected' \in Nat
        /\ Len(committed') >= Len(committed) /\ rejected' >= rejected
        /\ Len(committed') > Len(committed) \/ rejected' > rejected
        /\ stage' \in [Edit -> MountStages]
        /\ \A e \in Edit : stage'[e] \in {stage[e], "rejected", "committed"}
    BY <1>5, ExchangeIsSeen
  <2>2. signal' = TRUE /\ UNCHANGED <<slice, inbox, persisting, seen, mount, awaited, asked>>
    BY <1>5 DEF Mount!Exchange
  <2>3. MountTypeOK'
    BY <2>1, <2>2 DEF MountTypeOK
  <2>4. seen # Nothing => seen.cursor <= Len(committed') /\ seen.rejected <= rejected' /\ seen # Mount!Status'
    <3>1. seen # Nothing => seen.cursor \in Nat /\ seen.rejected \in Nat
      BY DEF MountTypeOK, StatusType
    <3> QED BY <2>1, <3>1 DEF Mount!Status, MountTypeOK
  <2>5. Mount!Status' # Nothing
    BY <2>1, PartsAssumption DEF Mount!Status
  <2>6. (mount # "disposed" =>
           \A e \in Edit : stage[e] # "interrupted" /\ (stage[e] = "submitting" => e \in Range(persisting)))'
    BY <2>1, <2>2
  <2>7. Mount!DisposeWaits'
    BY <2>1, <2>2 DEF Mount!DisposeWaits, MountTypeOK
  <2>8. (seen # Nothing => seen.cursor <= Len(committed) /\ seen.rejected <= rejected)'
    BY <2>2, <2>4
  <2>9. (seen # Nothing /\ ~signal => seen = Mount!Status)'
    BY <2>2
  <2>10. (mount # "disposed" /\ seen = Mount!Status /\ Restful => slice = committed)'
    BY <2>2, <2>4, <2>5
  <2>11. (mount = "disposing" => asked = awaited)'
    BY <2>2
  <2> QED BY <2>2, <2>3, <2>6, <2>7, <2>8, <2>9, <2>10
<1>6. CASE Mount!TakeStatus
  <2>1. /\ mount # "disposed" /\ seen' = Mount!Status /\ signal' = FALSE
        /\ inbox' = IF Mount!SharedChanged(seen, Mount!Status) THEN Append(inbox, [tag |-> "refresh", edit |-> Nothing]) ELSE inbox
        /\ UNCHANGED <<slice, stage, persisting, committed, outbox, rejected, mount, awaited, asked>>
    BY <1>6 DEF Mount!TakeStatus
  <2>2. Mount!Status' = Mount!Status /\ Mount!Status \in StatusType /\ Mount!Status.cursor = Len(committed)
        /\ Mount!Status.rejected = rejected
    BY <2>1 DEF Mount!Status, StatusType, MountTypeOK
  <2>6. [tag |-> "refresh", edit |-> Nothing] \in Message
    BY DEF Message
  <2>3. MountTypeOK'
    BY <2>1, <2>2, <2>6, Posting DEF MountTypeOK
  <2>4. Restful' => slice' = committed
    <3>1. CASE Mount!SharedChanged(seen, Mount!Status)
      <4>1. \E i \in DOMAIN inbox' : inbox'[i].tag # "persisted"
        BY <2>1, <2>6, <3>1, Posting DEF MountTypeOK
      <4> QED BY <4>1 DEF Restful
    <3>2. CASE ~Mount!SharedChanged(seen, Mount!Status)
      <4>1. seen \in StatusType /\ seen.cursor = Mount!Status.cursor /\ seen.rejected = Mount!Status.rejected
        BY <3>2 DEF Mount!SharedChanged, MountTypeOK
      <4>2. seen = Mount!Status
        BY <2>2, <4>1 DEF StatusType
      <4> QED BY <2>1, <3>2, <4>2 DEF Restful
    <3> QED BY <3>1, <3>2
  <2> QED BY <2>1, <2>2, <2>3, <2>4 DEF Mount!DisposeWaits, MountTypeOK
<1>7. CASE Mount!Dispose
  <2>1. mount = "up" /\ mount' = "disposing" /\ awaited' = asked'
        /\ UNCHANGED <<slice, inbox, stage, persisting, seen, committed, outbox, rejected, signal>>
    BY <1>7 DEF Mount!Dispose, Mount!ReplicaRests
  <2>2. Mount!Status' = Mount!Status
    BY <2>1 DEF Mount!Status
  <2>4. asked' \in SUBSET Edit
    BY <1>7 DEF Mount!Dispose, Mount!ToSet, MountTypeOK
  <2>3. MountTypeOK'
    BY <2>1, <2>4 DEF MountTypeOK
  <2> QED BY <2>1, <2>2, <2>3 DEF Mount!DisposeWaits, Restful
<1>8. CASE Mount!Disposed
  <2>1. /\ mount = "disposing" /\ awaited \cap Mount!ToSet(persisting) = {}
        /\ mount' = "disposed" /\ inbox' = <<>> /\ persisting' = <<>>
        /\ stage' = [e \in Edit |-> IF stage[e] \in {"dispatched", "due"} THEN "dropped"
                                    ELSE IF stage[e] = "submitting" THEN "interrupted" ELSE stage[e]]
        /\ UNCHANGED <<slice, seen, awaited, asked, committed, outbox, rejected, signal>>
    BY <1>8 DEF Mount!Disposed, Mount!ReplicaRests
  <2>2. Mount!Status' = Mount!Status
    BY <2>1 DEF Mount!Status
  <2>3. MountTypeOK'
    <3>1. <<>> \in Inboxes
      BY DEF Inboxes
    <3> QED BY <2>1, <3>1 DEF MountTypeOK, MountStages
  <2>4. \A e \in asked : stage'[e] # "interrupted"
    BY <2>1 DEF Mount!ToSet, Range, MountTypeOK
  <2> QED BY <2>1, <2>2, <2>3, <2>4 DEF Mount!DisposeWaits
<1>9. CASE UNCHANGED Mount!mountVars
  <2>1. Mount!Status' = Mount!Status
    BY <1>9 DEF Mount!mountVars, Mount!Status
  <2> QED BY <1>9, <2>1 DEF Mount!mountVars, MountTypeOK, Restful, Mount!DisposeWaits
<1> QED BY <1>0, <1>1, <1>2, <1>3, <1>4, <1>5, <1>6, <1>7, <1>8, <1>9 DEF Mount!Next

\* For any edits, exchanges and moment of disposal (mount.ts): with nothing
\* pending and nothing to do, the Model shows what was committed, whatever was
\* refused, rejected or overtaken before; and dispose interrupts no persist
\* that was running when it was called.
THEOREM MountAlwaysAgrees == Mount!Spec => []MountAgrees
<1>1. Mount!Init => MountInv
  BY MountInitially
<1>2. MountInv /\ [Mount!Next]_(Mount!mountVars) => MountInv'
  BY MountStep
<1>3. ASSUME MountInv PROVE MountAgrees
  <2> USE <1>3 DEF MountInv
  <2>1. DOMAIN stage = Edit
    BY DEF MountTypeOK
  <2>2. Mount!Quiet /\ outbox = <<>> => Restful /\ mount # "disposed" /\ ~signal
    BY <2>1 DEF Mount!Quiet, Restful
  <2> QED BY <2>2 DEF MountAgrees, Mount!CommittedIsShown
<1> QED BY <1>1, <1>2, <1>3, PTL DEF Mount!Spec

(***************************************************************************)
(* Presence.                                                               *)
(***************************************************************************)

Frame == [id : Peer, from : Peer, value : Peers!Value \cup {Nothing}]

\* A frame carries a value of the peer it names.
Named(s) == s \in Seq(Frame) /\ \A i \in DOMAIN s : s[i].value # Nothing => s[i].value.by = s[i].id

PresenceInv ==
  /\ peers \in [Peer -> [Peer -> Peers!Entry \cup {Nothing}]]
  /\ bus \in [Peer -> Seq(Frame)] /\ \A p \in Peer : Named(bus[p])
  /\ updates \in [Peer -> Nat]
  /\ reading \in [Peer -> {"none", "first", "subscribed", "current"}]
  /\ DOMAIN shown = Peer
  /\ PresenceIsTrue

LEMMA PresenceInitially == Peers!Init => PresenceInv
<1> SUFFICES ASSUME Peers!Init PROVE PresenceInv
  OBVIOUS
<1> USE DEF Peers!Init
<1>1. \A p \in Peer : Named(bus[p])
  BY DEF Named
<1> QED BY <1>1 DEF PresenceInv, PresenceIsTrue, Peers!NobodyIsImpersonated, Peers!ChangesAreShown

\* A published value reaches the joined peers under the publisher's name.
LEMMA Publishing ==
  ASSUME PresenceInv, NEW p \in Peer, NEW value \in Peers!Value \cup {Nothing},
         value # Nothing => value.by = p, Peers!Publish(p, value)
  PROVE  bus' \in [Peer -> Seq(Frame)] /\ \A q \in Peer : Named(bus'[q])
<1> DEFINE frame == [id |-> p, from |-> p, value |-> value]
<1>1. frame \in Frame /\ frame.id = p /\ frame.value = value
  BY DEF Frame
<1> HIDE DEF frame
<1>2. ASSUME NEW s, Named(s) PROVE Named(Append(s, frame))
  <2>1. /\ s \in Seq(Frame) /\ Append(s, frame) \in Seq(Frame) /\ Len(s) \in Nat /\ DOMAIN s = 1 .. Len(s)
        /\ DOMAIN Append(s, frame) = 1 .. (Len(s) + 1) /\ Append(s, frame)[Len(s) + 1] = frame
        /\ \A i \in 1 .. Len(s) : Append(s, frame)[i] = s[i]
    BY <1>1, <1>2 DEF Named
  <2>2. \A i \in 1 .. (Len(s) + 1) : i \in 1 .. Len(s) \/ i = Len(s) + 1
    BY <2>1
  <2> QED BY <1>1, <1>2, <2>1, <2>2 DEF Named
<1>3. CASE p \in joined
  <2>1. bus' = [q \in Peer |-> IF q \in joined THEN Append(bus[q], frame) ELSE bus[q]]
    BY <1>3 DEF Peers!Publish, Peers!Fan, frame
  <2>2. \A q \in Peer : Named(bus'[q])
    BY <1>2, <2>1 DEF PresenceInv
  <2> QED BY <2>1, <2>2 DEF Named
<1>4. CASE p \notin joined
  BY <1>4 DEF Peers!Publish, PresenceInv
<1> QED BY <1>3, <1>4

\* What a peer that is not to emit has shown stays true while its set stays.
Shows(p) ==
  Peers!Up(p) /\ reading[p] = "current" /\ p \notin signals =>
    \A q \in Peer : /\ Peers!Fresh(peers[p][q]) => q \in DOMAIN shown[p] /\ shown[p][q] = peers[p][q].value
                    /\ peers[p][q] = Nothing => q \notin DOMAIN shown[p]

LEMMA PresenceStep == ASSUME PresenceInv, [Peers!Next]_(Peers!presenceVars) PROVE PresenceInv'
<1> DEFINE Typed == /\ peers \in [Peer -> [Peer -> Peers!Entry \cup {Nothing}]]
                    /\ bus \in [Peer -> Seq(Frame)] /\ \A p \in Peer : Named(bus[p])
                    /\ updates \in [Peer -> Nat]
                    /\ reading \in [Peer -> {"none", "first", "subscribed", "current"}]
                    /\ DOMAIN shown = Peer
           Own == \A p, q \in Peer : peers[p][q] # Nothing => peers[p][q].value.by = q
<1>a. Typed /\ Own /\ \A p \in Peer : Shows(p)
  BY DEF PresenceInv, PresenceIsTrue, Peers!NobodyIsImpersonated, Peers!ChangesAreShown, Shows
<1>b. ASSUME Typed', Own', \A p \in Peer : Shows(p)' PROVE PresenceInv'
  BY <1>b DEF PresenceInv, PresenceIsTrue, Peers!NobodyIsImpersonated, Peers!ChangesAreShown, Shows
<1>c. ASSUME NEW value \in Peers!Value PROVE [value |-> value, age |-> 0] \in Peers!Entry
  BY DEF Peers!Entry
<1>d. Nothing \notin Peers!Entry /\ Nothing \notin Peers!Value
  BY PartsAssumption
\* A change of one peer's set, told to a stream that listens.
<1>e. ASSUME NEW p \in Peer, Peers!Notify(p), \A q \in Peer \ {p} : peers'[q] = peers[q], UNCHANGED <<reading, gone, silent, shown>>
      PROVE  \A q \in Peer : Shows(q)'
  <2>1. \A q \in Peer \ {p} : q \in signals' <=> q \in signals
    BY <1>e DEF Peers!Notify
  <2>2. \A q \in Peer \ {p} : Shows(q)'
    BY <1>a, <1>e, <2>1 DEF Shows, Peers!Up, Peers!Fresh
  <2>3. Shows(p)'
    BY <1>e DEF Shows, Peers!Notify
  <2> QED BY <2>2, <2>3
\* Nothing happens to the sets.
<1>f. ASSUME UNCHANGED <<peers, signals, reading, gone, shown>>, silent \subseteq silent' PROVE \A q \in Peer : Shows(q)'
  BY <1>a, <1>f DEF Shows, Peers!Up, Peers!Fresh
<1>g. \A p, q \in Peer : peers[p][q] \in Peers!Entry \cup {Nothing}
  BY <1>a
<1> SUFFICES ASSUME Peers!Next PROVE Typed' /\ Own' /\ \A p \in Peer : Shows(p)'
  <2>1. CASE UNCHANGED Peers!presenceVars
    BY <2>1, <1>a, <1>b DEF Peers!presenceVars, Shows, Named, Peers!Up, Peers!Fresh
  <2> QED BY <1>b, <2>1
<1>1. ASSUME NEW p \in Peer, Peers!SetValue(p) PROVE Typed' /\ Own' /\ \A q \in Peer : Shows(q)'
  <2> DEFINE value == [by |-> p, nth |-> updates'[p]]
  <2>1. /\ updates' = [updates EXCEPT ![p] = @ + 1] /\ Peers!Put(p, p, value) /\ Peers!Publish(p, value)
        /\ Peers!Notify(p) /\ UNCHANGED <<joined, gone, silent, shown, reading>>
    BY <1>1 DEF Peers!SetValue
  <2>2. updates' \in [Peer -> Nat] /\ value \in Peers!Value /\ value.by = p
    BY <1>a, <2>1 DEF Peers!Value
  <2> HIDE DEF value
  <2>3. bus' \in [Peer -> Seq(Frame)] /\ \A q \in Peer : Named(bus'[q])
    BY <2>1, <2>2, Publishing
  <2> DEFINE entry == [value |-> value, age |-> 0]
  <2>4. entry \in Peers!Entry /\ entry.value = value
    BY <1>c, <2>2
  <2>5. peers' = [peers EXCEPT ![p][p] = entry]
    BY <2>1 DEF Peers!Put
  <2> HIDE DEF entry
  <2>6. peers' \in [Peer -> [Peer -> Peers!Entry \cup {Nothing}]] /\ Own'
    BY <1>a, <2>2, <2>4, <2>5
  <2>7. \A q \in Peer : Shows(q)'
    BY <1>a, <1>e, <2>1, <2>5
  <2> QED BY <1>a, <2>1, <2>2, <2>3, <2>6, <2>7
<1>2. ASSUME NEW p \in Peer, Peers!LeavePeers(p) PROVE Typed' /\ Own' /\ \A q \in Peer : Shows(q)'
  <2>1. /\ peers' = [peers EXCEPT ![p][p] = Nothing] /\ Peers!Publish(p, Nothing) /\ Peers!Notify(p)
        /\ UNCHANGED <<joined, gone, updates, silent, shown, reading>>
    BY <1>2 DEF Peers!LeavePeers
  <2>3. bus' \in [Peer -> Seq(Frame)] /\ \A q \in Peer : Named(bus'[q])
    BY <2>1, Publishing
  <2>6. peers' \in [Peer -> [Peer -> Peers!Entry \cup {Nothing}]] /\ Own'
    BY <1>a, <2>1
  <2>7. \A q \in Peer : Shows(q)'
    BY <1>a, <1>e, <2>1
  <2> QED BY <1>a, <2>1, <2>3, <2>6, <2>7
<1>3. ASSUME NEW p \in Peer, Peers!Receive(p) PROVE Typed' /\ Own' /\ \A q \in Peer : Shows(q)'
  <2> DEFINE frame == Head(bus[p])
  <2>1. /\ bus[p] # <<>> /\ bus' = [bus EXCEPT ![p] = Tail(bus[p])]
        /\ UNCHANGED <<joined, gone, updates, silent, shown, reading>>
        /\ \/ frame.id = p /\ UNCHANGED <<peers, signals>>
           \/ /\ frame.id # p /\ frame.value = Nothing
              /\ peers' = [peers EXCEPT ![p][frame.id] = Nothing]
              /\ IF peers[p][frame.id] # Nothing THEN Peers!Notify(p) ELSE UNCHANGED signals
           \/ frame.id # p /\ frame.value # Nothing /\ Peers!Put(p, frame.id, frame.value) /\ Peers!Notify(p)
    BY <1>3 DEF Peers!Receive
  <2>2. bus[p] \in Seq(Frame) /\ Named(bus[p])
    BY <1>a
  <2>3. frame \in Frame /\ frame = bus[p][1] /\ 1 \in DOMAIN bus[p] /\ Named(Tail(bus[p]))
    <3>1. /\ Len(bus[p]) \in Nat /\ DOMAIN bus[p] = 1 .. Len(bus[p]) /\ Len(bus[p]) > 0
          /\ frame = bus[p][1] /\ Tail(bus[p]) \in Seq(Frame) /\ DOMAIN Tail(bus[p]) = 1 .. (Len(bus[p]) - 1)
          /\ \A i \in 1 .. (Len(bus[p]) - 1) : Tail(bus[p])[i] = bus[p][i + 1] /\ i + 1 \in DOMAIN bus[p]
      BY <2>1, <2>2
    <3> QED BY <2>2, <3>1 DEF Named
  <2>4. frame.id \in Peer /\ frame.value \in Peers!Value \cup {Nothing} /\ (frame.value # Nothing => frame.value.by = frame.id)
    BY <2>2, <2>3 DEF Frame, Named
  <2> HIDE DEF frame
  <2>5. bus' \in [Peer -> Seq(Frame)] /\ \A q \in Peer : Named(bus'[q])
    BY <1>a, <2>1, <2>3 DEF Named
  <2>6. CASE UNCHANGED <<peers, signals>>
    <3>1. Own' /\ peers' \in [Peer -> [Peer -> Peers!Entry \cup {Nothing}]]
      BY <1>a, <2>6
    <3> QED BY <1>a, <1>f, <2>1, <2>5, <2>6, <3>1
  <2>7. CASE peers' = [peers EXCEPT ![p][frame.id] = Nothing] /\ Peers!Notify(p)
    <3>1. Own' /\ peers' \in [Peer -> [Peer -> Peers!Entry \cup {Nothing}]]
      BY <1>a, <2>4, <2>7
    <3>2. \A q \in Peer : Shows(q)'
      BY <1>a, <1>e, <2>1, <2>7
    <3> QED BY <1>a, <2>1, <2>5, <3>1, <3>2
  <2>8. CASE peers' = [peers EXCEPT ![p][frame.id] = Nothing] /\ peers[p][frame.id] = Nothing /\ UNCHANGED signals
    <3>1. peers' = peers
      BY <1>a, <2>4, <2>8
    <3> QED BY <2>6, <2>8, <3>1
  <2>9. CASE frame.value # Nothing /\ Peers!Put(p, frame.id, frame.value) /\ Peers!Notify(p)
    <3> DEFINE entry == [value |-> frame.value, age |-> 0]
    <3>1. entry \in Peers!Entry /\ entry.value = frame.value /\ peers' = [peers EXCEPT ![p][frame.id] = entry]
      BY <1>c, <2>4, <2>9 DEF Peers!Put
    <3> HIDE DEF entry
    <3>2. Own' /\ peers' \in [Peer -> [Peer -> Peers!Entry \cup {Nothing}]]
      BY <1>a, <2>4, <2>9, <3>1
    <3>3. \A q \in Peer : Shows(q)'
      BY <1>a, <1>e, <2>1, <2>9, <3>1
    <3> QED BY <1>a, <2>1, <2>5, <3>2, <3>3
  <2> QED BY <2>1, <2>6, <2>7, <2>8, <2>9
<1>4. ASSUME NEW p \in Peer, Peers!Prune(p) PROVE Typed' /\ Own' /\ \A q \in Peer : Shows(q)'
  <2>1. /\ peers' = [peers EXCEPT ![p] = [q \in Peer |-> IF Peers!Fresh(peers[p][q]) THEN peers[p][q] ELSE Nothing]]
        /\ Peers!Notify(p) /\ UNCHANGED <<bus, joined, gone, updates, silent, shown, reading>>
    BY <1>4 DEF Peers!Prune
  <2>2. Own' /\ peers' \in [Peer -> [Peer -> Peers!Entry \cup {Nothing}]]
    BY <1>a, <2>1
  <2>3. \A q \in Peer : Shows(q)'
    BY <1>a, <1>e, <2>1
  <2> QED BY <1>a, <2>1, <2>2, <2>3
<1>5. ASSUME NEW p \in Peer, Peers!EmitFirst(p) PROVE Typed' /\ Own' /\ \A q \in Peer : Shows(q)'
  <2>1. /\ reading' = [reading EXCEPT ![p] = "first"] /\ shown' = [shown EXCEPT ![p] = Peers!Values(p)]
        /\ UNCHANGED <<peers, bus, joined, gone, updates, silent, signals>>
    BY <1>5 DEF Peers!EmitFirst
  <2>2. \A q \in Peer \ {p} : Shows(q)'
    BY <1>a, <2>1 DEF Shows, Peers!Up, Peers!Fresh
  <2>3. Shows(p)'
    BY <1>a, <2>1 DEF Shows
  <2>4. Typed' /\ Own'
    BY <1>a, <2>1
  <2> QED BY <2>2, <2>3, <2>4
<1>6. ASSUME NEW p \in Peer, Peers!Subscribe(p) PROVE Typed' /\ Own' /\ \A q \in Peer : Shows(q)'
  <2>1. /\ reading' = [reading EXCEPT ![p] = "subscribed"]
        /\ UNCHANGED <<peers, bus, joined, gone, updates, silent, signals, shown>>
    BY <1>6 DEF Peers!Subscribe
  <2>2. \A q \in Peer \ {p} : Shows(q)'
    BY <1>a, <2>1 DEF Shows, Peers!Up, Peers!Fresh
  <2>3. Shows(p)'
    BY <1>a, <2>1 DEF Shows
  <2>4. Typed' /\ Own'
    BY <1>a, <2>1
  <2> QED BY <2>2, <2>3, <2>4
<1>7. ASSUME NEW p \in Peer, Peers!Emit(p) PROVE Typed' /\ Own' /\ \A q \in Peer : Shows(q)'
  <2>1. /\ reading' = [reading EXCEPT ![p] = "current"] /\ signals' = signals \ {p}
        /\ shown' = [shown EXCEPT ![p] = Peers!Values(p)]
        /\ UNCHANGED <<peers, bus, joined, gone, updates, silent>>
    BY <1>7 DEF Peers!Emit
  <2>2. \A q \in Peer \ {p} : Shows(q)'
    BY <1>a, <2>1 DEF Shows, Peers!Up, Peers!Fresh
  <2>3. shown'[p] = [q \in Peers!Listed(p) |-> peers[p][q].value]
    BY <1>a, <2>1 DEF Peers!Values
  <2>5. \A q \in Peer : q \in Peers!Listed(p) <=> Peers!Fresh(peers[p][q])
    BY DEF Peers!Listed
  <2>6. \A q \in Peer : peers[p][q] = Nothing => ~Peers!Fresh(peers[p][q])
    BY DEF Peers!Fresh
  <2>7. Shows(p)'
    BY <2>1, <2>3, <2>5, <2>6 DEF Shows, Peers!Fresh
  <2>4. Typed' /\ Own'
    BY <1>a, <2>1
  <2> QED BY <2>2, <2>7, <2>4
<1>8. ASSUME NEW p \in Peer, Peers!ClosePresence(p) PROVE Typed' /\ Own' /\ \A q \in Peer : Shows(q)'
  <2>1. /\ gone' = gone \cup {p} /\ signals' = signals \ {p}
        /\ UNCHANGED <<peers, bus, joined, updates, silent, shown, reading>>
    BY <1>8 DEF Peers!ClosePresence
  <2>2. \A q \in Peer : Shows(q)'
    BY <1>a, <2>1 DEF Shows, Peers!Up, Peers!Fresh
  <2>4. Typed' /\ Own'
    BY <1>a, <2>1
  <2> QED BY <2>2, <2>4
<1>9. ASSUME NEW p \in Peer, Peers!Fall(p) \/ Peers!Disconnect(p) PROVE Typed' /\ Own' /\ \A q \in Peer : Shows(q)'
  <2>1. /\ silent \subseteq silent' /\ bus' = [bus EXCEPT ![p] = <<>>]
        /\ UNCHANGED <<peers, gone, updates, signals, shown, reading>>
    BY <1>9 DEF Peers!Fall, Peers!Disconnect
  <2>2. Named(<<>>) /\ <<>> \in Seq(Frame)
    BY DEF Named
  <2>4. Typed' /\ Own'
    BY <1>a, <2>1, <2>2
  <2> QED BY <1>f, <2>1, <2>4
<1>10. CASE Peers!Tick
  <2>1. UNCHANGED <<bus, joined, gone, updates, silent, signals, shown, reading>>
    BY <1>10 DEF Peers!Tick
  <2>2. ASSUME NEW p \in Peer, NEW q \in Peer
        PROVE  /\ peers'[p][q] \in Peers!Entry \cup {Nothing} /\ (peers'[p][q] = Nothing <=> peers[p][q] = Nothing)
               /\ peers[p][q] # Nothing => peers'[p][q].value = peers[p][q].value
               /\ Peers!Fresh(peers'[p][q]) => Peers!Fresh(peers[p][q])
    <3>1. peers'[p][q] = IF peers[p][q] = Nothing THEN Nothing
                         ELSE [peers[p][q] EXCEPT !.age = IF @ <= Ttl THEN @ + 1 ELSE @]
      BY <1>10 DEF Peers!Tick
    <3>2. CASE peers[p][q] = Nothing
      BY <3>1, <3>2
    <3>3. CASE peers[p][q] # Nothing
      <4>1. peers[p][q] \in Peers!Entry
        BY <1>g, <3>3
      <4> DEFINE age == IF peers[p][q].age <= Ttl THEN peers[p][q].age + 1 ELSE peers[p][q].age
      <4>2. peers'[p][q] = [value |-> peers[p][q].value, age |-> age] /\ age \in Nat
        BY <3>1, <3>3, <4>1 DEF Peers!Entry
      <4>3. peers'[p][q] \in Peers!Entry /\ peers'[p][q].value = peers[p][q].value /\ peers'[p][q].age = age
        BY <4>1, <4>2 DEF Peers!Entry
      <4>4. age <= Ttl => peers[p][q].age <= Ttl
        OBVIOUS
      <4> QED BY <1>d, <3>3, <4>3, <4>4 DEF Peers!Fresh
    <3> QED BY <3>2, <3>3
  <2>3. peers' \in [Peer -> [Peer -> Peers!Entry \cup {Nothing}]]
    <3>1. peers' = [p \in Peer |-> [q \in Peer |-> peers'[p][q]]]
      BY <1>10 DEF Peers!Tick
    <3> QED BY <2>2, <3>1
  <2>4. Own'
    <3> SUFFICES ASSUME NEW p \in Peer, NEW q \in Peer, peers'[p][q] # Nothing PROVE peers'[p][q].value.by = q
      OBVIOUS
    <3>1. peers[p][q] # Nothing /\ peers'[p][q].value = peers[p][q].value
      BY <2>2
    <3>2. peers[p][q].value.by = q
      BY <1>a, <3>1
    <3> QED BY <3>1, <3>2
  <2>5. Typed'
    BY <1>a, <2>1, <2>3
  <2>6. \A q \in Peer : Shows(q)'
    BY <1>a, <1>d, <2>1, <2>2 DEF Shows, Peers!Up, Peers!Fresh
  <2> QED BY <2>4, <2>5, <2>6
<1>11. DOMAIN bus = Peer
  BY <1>a
<1> HIDE DEF Typed, Own
<1> QED BY <1>1, <1>2, <1>3, <1>4, <1>5, <1>6, <1>7, <1>8, <1>9, <1>10, <1>11 DEF Peers!Next

\* For any peers, ttl and updates (presence.ts): what is stored under an id was
\* set by that peer, and a changes stream that answered every signal shows what
\* is stored, whoever was cut off, crashed, left or expired.
THEOREM PresenceAlwaysTrue == Peers!Spec => []PresenceIsTrue
<1>1. Peers!Init => PresenceInv
  BY PresenceInitially
<1>2. PresenceInv /\ [Peers!Next]_(Peers!presenceVars) => PresenceInv'
  BY PresenceStep
<1>3. PresenceInv => PresenceIsTrue
  BY DEF PresenceInv
<1> QED BY <1>1, <1>2, <1>3, PTL DEF Peers!Spec

(***************************************************************************)
(* SyncAuthoring.                                                          *)
(***************************************************************************)

\* Until the second durable Message the replica holds what the Model shows.
AuthoringInv ==
  /\ update \in Update /\ model \in Authoring!Model
  /\ steps \in [count : Nat, from : Authoring!Model, taken : {"none", "recorded", "refused"}]
  /\ steps.count = 0 => model = Authoring!Initial
  /\ steps.count <= 1 => replica = Authoring!Get(model)
  /\ AuthoringIsSound

\* Over the initial local state the replay computes what the update did.
LEMMA ReplayIsUpdate ==
  ASSUME NEW u \in Update, update = u, NEW m \in Authoring!Model, Authoring!LocalHalf(m) = Authoring!LocalHalf(Authoring!Initial),
         Authoring!Replay(Authoring!Get(m)) # Nothing
  PROVE  /\ u[m].commands = 0 /\ u[m].model \in Authoring!Model
         /\ Authoring!Replay(Authoring!Get(m)) = Authoring!Get(u[m].model)
         /\ u[m].model = Authoring!Set(m, Authoring!Get(u[m].model))
<1> USE DEF Authoring!Model, Authoring!Initial, Authoring!Get, Authoring!Set, Authoring!LocalHalf
<1>1. m = [shared |-> m.shared, half |-> m.half, rest |-> 0, local |-> 0]
  OBVIOUS
<1>2. Authoring!Set(Authoring!Initial, Authoring!Get(m)) = m
  BY <1>1
<1>3. u[m].model \in Authoring!Model /\ u[m].commands \in Nat
  BY AuthoringAssumption
<1> DEFINE after == u[m].model
           written == Authoring!Set(Authoring!Initial, Authoring!Get(after))
<1>4. u[m].commands = 0 /\ Authoring!LocalHalf(after) = Authoring!LocalHalf(written)
      /\ Authoring!Replay(Authoring!Get(m)) = Authoring!Get(after)
  BY <1>2, <1>3 DEF Authoring!Replay
<1>5. written.rest = 0 /\ written.local = 0
  OBVIOUS
<1>6. after.rest = 0 /\ after.local = 0
  BY <1>4, <1>5
<1> HIDE DEF after, written
<1>7. after = Authoring!Set(m, Authoring!Get(after))
  BY <1>1, <1>3, <1>6 DEF after
<1> QED BY <1>3, <1>4, <1>7 DEF after

LEMMA AuthoringStep == ASSUME AuthoringInv, [Authoring!Next]_(Authoring!authoringVars) PROVE AuthoringInv'
<1> USE DEF AuthoringInv, AuthoringIsSound
<1>1. CASE Authoring!Make
  <2>1. UNCHANGED <<update, model, replica, steps>>
    BY <1>1 DEF Authoring!Make
  <2>2. Authoring!TagsHaveOneFragment'
    <3>1. CASE Authoring!Composable(fragments, "app")
      <4>1. defined'.messages = UNION {{[of |-> i, tag |-> t] : t \in fragments[i].tags} : i \in DOMAIN fragments}
        BY <1>1, <3>1 DEF Authoring!Make
      <4>2. \A m \in defined'.messages : m.of \in DOMAIN fragments /\ m.tag \in fragments[m.of].tags
        BY <4>1
      <4>3. \A i, j \in DOMAIN fragments : i # j => fragments[i].tags \cap fragments[j].tags = {}
        BY <3>1 DEF Authoring!Composable, Authoring!DistinctTags
      <4> QED BY <4>2, <4>3 DEF Authoring!TagsHaveOneFragment
    <3>2. CASE ~Authoring!Composable(fragments, "app")
      <4>1. defined'.messages = {}
        BY <1>1, <3>2 DEF Authoring!Make
      <4> QED BY <4>1 DEF Authoring!TagsHaveOneFragment
    <3> QED BY <3>1, <3>2
  <2> QED BY <2>1, <2>2 DEF Authoring!ReplayLosesNothing
<1>2. CASE Authoring!Apply
  <2> DEFINE result == update[model]
             replayed == Authoring!Replay(replica)
  <2>1. /\ steps.count < 2
        /\ replica' = IF replayed = Nothing THEN replica ELSE replayed
        /\ model' = IF replayed = Nothing THEN Authoring!Set(result.model, replica) ELSE result.model
        /\ steps' = [count |-> steps.count + 1, from |-> model, taken |-> IF replayed = Nothing THEN "refused" ELSE "recorded"]
        /\ UNCHANGED <<update, fragments, defined>>
    BY <1>2 DEF Authoring!Apply
  <2>2. result.model \in Authoring!Model /\ replica = Authoring!Get(model)
    BY <2>1, AuthoringAssumption
  <2>3. model' \in Authoring!Model
    BY <2>1, <2>2 DEF Authoring!Model, Authoring!Set, Authoring!Get
  <2>4. steps' \in [count : Nat, from : Authoring!Model, taken : {"none", "recorded", "refused"}] /\ steps'.count # 0
        /\ steps'.from = model
        /\ (steps'.taken = "recorded" <=> replayed # Nothing)
    BY <2>1
  <2>5. replayed # Nothing /\ Authoring!LocalHalf(model) = Authoring!LocalHalf(Authoring!Initial) =>
          /\ result.commands = 0 /\ replica' = Authoring!Get(result.model)
          /\ model' = Authoring!Set(model, Authoring!Get(result.model)) /\ model' = result.model
    BY <2>1, <2>2, ReplayIsUpdate
  <2>6. (steps.count <= 1 => replica = Authoring!Get(model))'
    <3>1. CASE replayed = Nothing
      <4>1. model' = Authoring!Set(result.model, replica) /\ replica' = replica
        BY <2>1, <3>1
      <4> QED BY <2>2, <4>1 DEF Authoring!Set, Authoring!Get, Authoring!Model
    <3>2. CASE replayed # Nothing /\ steps'.count <= 1
      <4>1. model = Authoring!Initial
        BY <2>1, <3>2
      <4> QED BY <2>1, <2>5, <3>2, <4>1
    <3> QED BY <3>1, <3>2
  <2>7. Authoring!ReplayLosesNothing'
    BY <2>1, <2>4, <2>5 DEF Authoring!ReplayLosesNothing, Authoring!LocalHalf
  <2>8. Authoring!TagsHaveOneFragment'
    BY <2>1 DEF Authoring!TagsHaveOneFragment
  <2> QED BY <2>1, <2>3, <2>4, <2>6, <2>7, <2>8
<1>3. CASE Authoring!TypeLocally
  <2>1. PICK r \in Authoring!Bit, l \in Authoring!Bit : model' = [model EXCEPT !.rest = r, !.local = l]
    BY <1>3 DEF Authoring!TypeLocally
  <2>2. steps.count = 1 /\ steps' = [steps EXCEPT !.taken = "none"] /\ UNCHANGED <<update, fragments, defined, replica>>
    BY <1>3 DEF Authoring!TypeLocally
  <2>3. steps' = [count |-> steps.count, from |-> steps.from, taken |-> "none"]
    BY <2>2
  <2>4. model' \in Authoring!Model /\ Authoring!Get(model') = Authoring!Get(model)
    BY <2>1 DEF Authoring!Model, Authoring!Get
  <2> QED BY <2>2, <2>3, <2>4 DEF Authoring!ReplayLosesNothing, Authoring!TagsHaveOneFragment, Authoring!Get
<1>4. CASE UNCHANGED Authoring!authoringVars
  BY <1>4 DEF Authoring!authoringVars, Authoring!ReplayLosesNothing, Authoring!TagsHaveOneFragment, Authoring!Get
<1> QED BY <1>1, <1>2, <1>3, <1>4 DEF Authoring!Next

\* For any fragments and any update function (make.ts): a tag of a composed
\* document belongs to one fragment, and a Message recorded over the initial
\* local state did nothing that replaying it would lose.
THEOREM AuthoringAlwaysSound == Authoring!Spec => []AuthoringIsSound
<1>1. Authoring!Init => AuthoringInv
  <2> SUFFICES ASSUME Authoring!Init PROVE AuthoringInv
    OBVIOUS
  <2>1. Authoring!Initial \in Authoring!Model
    BY DEF Authoring!Initial, Authoring!Model, Authoring!Bit
  <2> QED BY <2>1 DEF Authoring!Init, AuthoringInv, AuthoringIsSound, Authoring!ReplayLosesNothing, Authoring!TagsHaveOneFragment
<1>2. AuthoringInv /\ [Authoring!Next]_(Authoring!authoringVars) => AuthoringInv'
  BY AuthoringStep
<1>3. AuthoringInv => AuthoringIsSound
  BY DEF AuthoringInv
<1> QED BY <1>1, <1>2, <1>3, PTL DEF Authoring!Spec
============================================================================
