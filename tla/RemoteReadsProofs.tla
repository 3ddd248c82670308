------------------------- MODULE RemoteReadsProofs -------------------------
(***************************************************************************)
(* Proofs about RemoteReads, for any Surfaces, requirements, runs and       *)
(* bounds: no read is left without a reader, no idle Surface without what  *)
(* it needs, and no fact between two applied ones is skipped.              *)
(***************************************************************************)
EXTENDS RemoteReads, NaturalsInduction, WellFoundedInduction, TLAPS

(***************************************************************************)
(* The shape of the state.                                                 *)
(***************************************************************************)

Values   == UNION {[D -> 0..MaxFacts] : D \in SUBSET Field}
Entries  == [values : Values, stale : SUBSET Field, tombstone : BOOLEAN]
Answers  == UNION {[D -> Values] : D \in SUBSET Entity}
Waits    == [run : Run, outcome : {"none", "done", "failed"}, answer : Answers]
Observes == [plan : SUBSET Requirement, waits : UNION {[D -> Waits] : D \in SUBSET Entity},
             failed : BOOLEAN, stage : {"idle", "refresh", "collect", "wait"}]
Calls    == [phase : {"free", "read", "served"}, owns : SUBSET Requirement, answer : Answers]

\* An entry of the store: only a known field is stale, a tombstone knows none.
Sound(entry) ==
  /\ entry \in Entries
  /\ entry.stale \subseteq DOMAIN entry.values
  /\ entry.tombstone => entry.values = <<>>

StoreOK(st) == st = [e \in Entity |-> st[e]] /\ \A e \in Entity : Sound(st[e])

FactsOK == facts \in Seq(Entity \X (Field \cup {Deleted})) /\ Len(facts) <= MaxFacts

\* The live stream.  A log numbers its facts by their place; a hub never sends
\* what was applied before.
StreamOK ==
  /\ live \in {"starting", "on", "broken"}
  /\ sub # Nothing => sub \in [from : Nat, taken : Nat] /\ sub.from + sub.taken <= Len(facts)
  /\ sub # Nothing <=> live = "on"
  /\ gap \in BOOLEAN /\ cursor \in Nat /\ known \in Nat
  /\ cursor <= known /\ known <= Len(facts)
  /\ Source = "log" => cursor = known
  /\ Source = "hub" /\ sub # Nothing => known <= sub.from

\* An answer holds a requirement, or the server has no such entity.
Covers(answer, q) ==
  ~Gone(q.entity) => q.entity \in DOMAIN answer /\ q.fields \subseteq DOMAIN answer[q.entity]

\* The runs and the index of what they read.
RunsOK ==
  /\ run \in [Run -> Calls]
  /\ inFlight \in UNION {[D -> Run] : D \in SUBSET Requirement}
  /\ \A r \in Run : run[r].phase # "free" =>
       \A q \in run[r].owns : q \in DOMAIN inFlight /\ inFlight[q] = r
  /\ \A q \in DOMAIN inFlight : run[inFlight[q]].phase # "free" /\ q \in run[inFlight[q]].owns
  /\ \A r \in Run : run[r].phase = "served" => \A q \in run[r].owns : Covers(run[r].answer, q)

\* What a waiting Surface waits for: a run that reads it, or the answer it got.
Answered(w, q) ==
  /\ w.outcome = "none" => w.answer = <<>> /\ q \in run[w.run].owns
  /\ w.outcome = "done" => Covers(w.answer, q)

Fits(s) ==
  /\ DOMAIN obs[s].waits = {q.entity : q \in obs[s].plan}
  /\ \A q \in obs[s].plan : Answered(obs[s].waits[q.entity], q)

\* The plan of an entry is what the store lacks now; an idle entry lacks only
\* what the server does not have.
ObserveOK(s) ==
  Shown(s) =>
    /\ obs[s] \in Observes /\ obs[s].plan = Plan(s, store)
    /\ obs[s].stage = "wait" => Fits(s)
    /\ obs[s].stage = "idle" /\ ~obs[s].failed /\ s \notin Refreshing =>
         \A q \in obs[s].plan : Gone(q.entity)

IInv ==
  /\ FactsOK /\ StoreOK(store) /\ StreamOK /\ RunsOK
  /\ obs = [s \in Surface |-> obs[s]] /\ \A s \in Surface : ObserveOK(s)

(***************************************************************************)
(* Functions, stores and plans.                                            *)
(***************************************************************************)

LEMMA EmptyMap == ASSUME NEW X PROVE <<>> \in [{} -> X] /\ DOMAIN <<>> = {}
  OBVIOUS

LEMMA EmptyAnswer == <<>> \in Values /\ <<>> \in Answers
<1>1. <<>> \in [{} -> 0..MaxFacts] /\ {} \in SUBSET Field
  BY EmptyMap
<1>2. <<>> \in [{} -> Values] /\ {} \in SUBSET Entity
  BY EmptyMap
<1> QED
  BY <1>1, <1>2 DEF Values, Answers

LEMMA EmptySound == Sound(EmptyEntry) /\ Sound(Tombstone)
<1>1. <<>> \in Values /\ DOMAIN <<>> = {}
  BY EmptyAnswer, EmptyMap
<1> QED
  BY <1>1 DEF Sound, Entries, EmptyEntry, Tombstone

\* What written keeps and adds (store.ts:50-75).
LEMMA WrittenSound ==
  ASSUME NEW entry, Sound(entry), NEW values \in Values
  PROVE  /\ Sound(Written(entry, values))
         /\ DOMAIN Written(entry, values).values = DOMAIN entry.values \cup DOMAIN values
         /\ Written(entry, values).stale = entry.stale \ DOMAIN values
         /\ ~Written(entry, values).tombstone
<1> DEFINE w == [f \in DOMAIN entry.values \cup DOMAIN values |->
                   IF f \in DOMAIN values THEN values[f] ELSE entry.values[f]]
<1>1. PICK D \in SUBSET Field : entry.values \in [D -> 0..MaxFacts]
  BY DEF Sound, Entries, Values
<1>2. PICK E \in SUBSET Field : values \in [E -> 0..MaxFacts]
  BY DEF Values
<1>3. w \in [D \cup E -> 0..MaxFacts] /\ D \cup E \in SUBSET Field
  BY <1>1, <1>2
<1>4. w \in Values /\ DOMAIN w = D \cup E
  BY <1>3 DEF Values
<1>5. Written(entry, values) = [values |-> w, stale |-> entry.stale \ DOMAIN values, tombstone |-> FALSE]
  BY DEF Written
<1>6. entry.stale \subseteq D /\ entry.stale \subseteq Field
  BY <1>1 DEF Sound, Entries
<1> HIDE DEF w
<1> QED
  BY <1>1, <1>2, <1>4, <1>5, <1>6 DEF Sound, Entries

LEMMA MarkedSound ==
  ASSUME NEW entry, Sound(entry), NEW S, S \subseteq entry.stale \/ S \subseteq DOMAIN entry.values
  PROVE  Sound([entry EXCEPT !.stale = S])
<1> DEFINE n == [entry EXCEPT !.stale = S]
<1>1. entry \in Entries /\ entry.stale \subseteq DOMAIN entry.values
  BY DEF Sound
<1>2. n = [values |-> entry.values, stale |-> S, tombstone |-> entry.tombstone]
  BY <1>1 DEF Entries
<1>3. DOMAIN entry.values \subseteq Field
  BY <1>1 DEF Entries, Values
<1> QED
  BY <1>1, <1>2, <1>3 DEF Sound, Entries

LEMMA SetStaleOK ==
  ASSUME NEW st, StoreOK(st), NEW requirements, NEW b \in BOOLEAN
  PROVE  StoreOK(SetStale(st, requirements, b))
<1> DEFINE S(e) == IF b THEN st[e].stale \cup (FieldsOf(requirements, e) \cap DOMAIN st[e].values)
                   ELSE st[e].stale \ FieldsOf(requirements, e)
<1>1. SetStale(st, requirements, b) = [e \in Entity |-> [st[e] EXCEPT !.stale = S(e)]]
  BY DEF SetStale
<1>2. ASSUME NEW e \in Entity PROVE Sound([st[e] EXCEPT !.stale = S(e)])
  <2>1. Sound(st[e])
    BY DEF StoreOK
  <2>2. S(e) \subseteq st[e].stale \/ S(e) \subseteq DOMAIN st[e].values
    BY <2>1 DEF Sound
  <2> HIDE DEF S
  <2> QED
    BY <2>1, <2>2, MarkedSound
<1> HIDE DEF S
<1> QED
  BY <1>1, <1>2 DEF StoreOK

\* A plan asks for what is missing, once for each entity (plan.ts).
LEMMA PlanOK ==
  ASSUME RemoteAssumption, NEW st, StoreOK(st), NEW s \in Surface
  PROVE  /\ Plan(s, st) \subseteq Requirement
         /\ \A q \in Plan(s, st) : q.fields # {}
         /\ \A q, r \in Plan(s, st) : q.entity = r.entity => q = r
         /\ s \notin Refreshing =>
              \A q \in Plan(s, st) : q.fields = Missing(st[q.entity], Needs[s][q.entity])
<1> DEFINE wanted(e) == IF s \in Refreshing THEN Needs[s][e] ELSE Missing(st[e], Needs[s][e])
<1>1. Plan(s, st) = {[entity |-> e, fields |-> wanted(e)] : e \in {e \in Entity : wanted(e) # {}}}
  BY DEF Plan
<1>2. ASSUME NEW e \in Entity PROVE wanted(e) \subseteq Field
  <2>1. Needs[s][e] \subseteq Field
    BY DEF RemoteAssumption
  <2> QED
    BY <2>1 DEF Missing
<1>3. s \notin Refreshing => \A e \in Entity : wanted(e) = Missing(st[e], Needs[s][e])
  OBVIOUS
<1> HIDE DEF wanted
<1> QED
  BY <1>1, <1>2, <1>3 DEF Requirement

LEMMA StartedOK ==
  ASSUME NEW s \in Surface, NEW plan \in SUBSET Requirement
  PROVE  /\ Started(s, plan) \in Observes /\ Started(s, plan).plan = plan
         /\ Started(s, plan).stage # "wait" /\ (Started(s, plan).stage = "idle" => plan = {})
<1>1. <<>> \in [{} -> Waits] /\ {} \in SUBSET Entity
  BY EmptyMap
<1>2. <<>> \in UNION {[D -> Waits] : D \in SUBSET Entity}
  BY <1>1
<1> QED
  BY <1>2 DEF Started, Observes

(***************************************************************************)
(* The last of a bounded set of numbers.                                   *)
(***************************************************************************)

LEMMA FirstExists ==
  ASSUME NEW T \in SUBSET Nat, T # {}
  PROVE  \E i \in T : \A j \in T : i <= j
<1>1. IsWellFoundedOn(OpToRel(<, Nat), Nat)
  BY NatLessThanWellFounded
<1>2. PICK x \in T : \A y \in T : ~(<<y, x>> \in OpToRel(<, Nat))
  BY <1>1, WFMin
<1>3. ASSUME NEW j \in T PROVE x <= j
  <2>1. j \in Nat /\ x \in Nat
    OBVIOUS
  <2>2. ~(j < x)
    BY <1>2, <2>1 DEF OpToRel
  <2> QED
    BY ONLY <2>1, <2>2
<1> QED
  BY <1>3

LEMMA LastExists ==
  ASSUME NEW N \in Nat, NEW S \in SUBSET (0..N), S # {}
  PROVE  \E i \in S : \A j \in S : j <= i
<1> DEFINE T == {N - i : i \in S}
<1>1. \A i \in S : i \in 0..N /\ N - i \in Nat
  OBVIOUS
<1>2. T \in SUBSET Nat /\ T # {}
  BY <1>1
<1>3. PICK x \in T : \A y \in T : x <= y
  BY <1>2, FirstExists
<1>4. PICK i \in S : x = N - i
  BY <1>3
<1>5. ASSUME NEW j \in S PROVE j <= i
  <2>1. N - j \in T
    OBVIOUS
  <2>2. N - i <= N - j
    BY <1>3, <1>4, <2>1
  <2> QED
    BY <1>1, <2>2
<1> QED
  BY <1>5

(***************************************************************************)
(* What the server answers, and what a Surface's answers make of the store. *)
(***************************************************************************)

LEMMA ValueOK ==
  ASSUME RemoteAssumption, FactsOK, NEW e, NEW f
  PROVE  Value(e, f) \in 0..MaxFacts
<1> DEFINE changes == {i \in DOMAIN facts : facts[i] = <<e, f>>}
<1>1. Len(facts) \in Nat /\ Len(facts) <= MaxFacts /\ MaxFacts \in Nat /\ DOMAIN facts = 1..Len(facts)
  BY DEF FactsOK, RemoteAssumption
<1>2. changes \in SUBSET (0..MaxFacts)
  BY <1>1
<1>3. CASE changes = {}
  BY <1>1, <1>3 DEF Value
<1>4. CASE changes # {}
  <2>1. \E i \in changes : \A j \in changes : j <= i
    BY <1>1, <1>2, <1>4, LastExists
  <2>2. Value(e, f) = CHOOSE i \in changes : \A j \in changes : j <= i
    BY <1>4 DEF Value
  <2> HIDE DEF changes
  <2>3. (CHOOSE i \in changes : \A j \in changes : j <= i) \in changes
    BY <2>1
  <2> QED
    BY <1>2, <2>2, <2>3
<1> QED
  BY <1>3, <1>4

LEMMA FirstAtOK ==
  ASSUME RemoteAssumption, NEW s \in Surface, obs[s] \in Observes, NEW w \in Results(s)
  PROVE  FirstAt(s, w) \in 0..Len(Order)
<1> DEFINE at == {i \in DOMAIN Order : Order[i] \in DOMAIN obs[s].waits /\ obs[s].waits[Order[i]] = w}
<1>1. PICK e \in DOMAIN obs[s].waits : obs[s].waits[e] = w
  BY DEF Results
<1>2. e \in Entity
  BY DEF Observes
<1>3. PICK i \in DOMAIN Order : Order[i] = e
  BY <1>2 DEF RemoteAssumption
<1>4. DOMAIN Order = 1..Len(Order) /\ Len(Order) \in Nat
  BY DEF RemoteAssumption
<1>5. at \in SUBSET Nat /\ at \subseteq 0..Len(Order) /\ i \in at
  BY <1>1, <1>3, <1>4
<1>6. FirstAt(s, w) = CHOOSE k \in at : \A j \in at : k <= j
  BY DEF FirstAt
<1> HIDE DEF at
<1>7. \E k \in at : \A j \in at : k <= j
  BY <1>5, FirstExists
<1>8. (CHOOSE k \in at : \A j \in at : k <= j) \in at
  BY <1>7
<1> QED
  BY <1>5, <1>6, <1>8

\* The value that stays is one that was read.
LEMMA LastToldOK ==
  ASSUME RemoteAssumption, NEW s \in Surface, obs[s] \in Observes,
         NEW e, NEW f, TellingOf(s, e, f) # {}
  PROVE  LastTold(s, e, f) \in 0..MaxFacts
<1> DEFINE told == TellingOf(s, e, f)
           R == {FirstAt(s, v) : v \in told}
           Last(w) == \A v \in told : FirstAt(s, v) <= FirstAt(s, w)
<1>1. \A v \in told : v \in Results(s) /\ v \in Waits /\ e \in DOMAIN v.answer /\ f \in DOMAIN v.answer[e]
  BY DEF TellingOf, Telling, Results, Observes
<1>2. \A v \in told : FirstAt(s, v) \in 0..Len(Order)
  BY <1>1, FirstAtOK
<1>3. R \in SUBSET (0..Len(Order)) /\ R # {} /\ Len(Order) \in Nat
  BY <1>2 DEF RemoteAssumption
<1>4. PICK i \in R : \A j \in R : j <= i
  BY <1>3, LastExists
<1>5. PICK w \in told : FirstAt(s, w) = i
  BY <1>4
<1>6. Last(w)
  BY <1>4, <1>5
<1>7. (CHOOSE x \in told : Last(x)) \in told
  BY <1>6
<1>8. LastTold(s, e, f) = (CHOOSE x \in told : Last(x)).answer[e][f]
  BY DEF LastTold
<1>9. ASSUME NEW v \in told PROVE v.answer[e][f] \in 0..MaxFacts
  <2>1. v.answer \in Answers /\ e \in DOMAIN v.answer /\ f \in DOMAIN v.answer[e]
    BY <1>1 DEF Waits
  <2>2. v.answer[e] \in Values
    BY <2>1 DEF Answers
  <2> QED
    BY <2>1, <2>2 DEF Values
<1> HIDE DEF told, Last
<1> QED
  BY <1>7, <1>8, <1>9

\* Every answer lands: what it holds of an entity is known and fresh.
LEMMA LandedOK ==
  ASSUME RemoteAssumption, NEW s \in Surface, obs[s] \in Observes, StoreOK(store)
  PROVE  /\ StoreOK(Landed(s))
         /\ \A e \in Entity : \A w \in Telling(s, e) :
              /\ ~Landed(s)[e].tombstone
              /\ DOMAIN w.answer[e] \subseteq DOMAIN Landed(s)[e].values
              /\ Landed(s)[e].stale \cap DOMAIN w.answer[e] = {}
<1> DEFINE D(e) == UNION {DOMAIN w.answer[e] : w \in Telling(s, e)}
           values(e) == [f \in D(e) |-> LastTold(s, e, f)]
<1>1. Landed(s) = [e \in Entity |-> IF Telling(s, e) = {} THEN store[e] ELSE Written(store[e], values(e))]
  BY DEF Landed
<1>2. ASSUME NEW e \in Entity PROVE values(e) \in Values /\ DOMAIN values(e) = D(e)
  <2>1. \A w \in Telling(s, e) : w \in Waits /\ e \in DOMAIN w.answer
    BY DEF Telling, Results, Observes
  <2>2. ASSUME NEW w \in Telling(s, e) PROVE DOMAIN w.answer[e] \subseteq Field
    <3>1. w.answer \in Answers
      BY <2>1 DEF Waits
    <3>2. w.answer[e] \in Values
      BY <2>1, <3>1 DEF Answers
    <3> QED
      BY <3>2 DEF Values
  <2>3. D(e) \in SUBSET Field
    BY <2>2
  <2>4. ASSUME NEW f \in D(e) PROVE LastTold(s, e, f) \in 0..MaxFacts
    <3>1. TellingOf(s, e, f) # {}
      BY DEF TellingOf
    <3> QED
      BY <3>1, LastToldOK
  <2> HIDE DEF D
  <2>5. values(e) \in [D(e) -> 0..MaxFacts]
    BY <2>4
  <2> QED
    BY <2>3, <2>5 DEF Values
<1>3. \A e \in Entity : Sound(store[e])
  BY DEF StoreOK
<1>4. \A e \in Entity : \A w \in Telling(s, e) : DOMAIN w.answer[e] \subseteq D(e)
  OBVIOUS
<1> HIDE DEF values, D
<1>5. ASSUME NEW e \in Entity
      PROVE  /\ Sound(Landed(s)[e])
             /\ Telling(s, e) # {} => /\ ~Landed(s)[e].tombstone
                                      /\ D(e) \subseteq DOMAIN Landed(s)[e].values
                                      /\ Landed(s)[e].stale \cap D(e) = {}
  <2>1. CASE Telling(s, e) = {}
    BY <1>1, <1>3, <2>1
  <2>2. CASE Telling(s, e) # {}
    <3>1. Landed(s)[e] = Written(store[e], values(e))
      BY <1>1, <2>2
    <3> QED
      BY <1>2, <1>3, <3>1, WrittenSound
  <2> QED
    BY <2>1, <2>2
<1>6. StoreOK(Landed(s))
  BY <1>1, <1>5 DEF StoreOK
<1> QED
  BY <1>4, <1>5, <1>6

(***************************************************************************)
(* What a step leaves alone.                                               *)
(***************************************************************************)

\* A deleted entity stays deleted.
GoneStays == \A e \in Entity : Gone(e) => Gone(e)'

LEMMA CoversStays ==
  ASSUME GoneStays, NEW q \in Requirement, NEW answer, Covers(answer, q)
  PROVE  Covers(answer, q)'
  BY DEF GoneStays, Covers, Requirement

LEMMA SameFacts == ASSUME facts' = facts PROVE GoneStays /\ (FactsOK => FactsOK')
  BY DEF GoneStays, Gone, FactsOK

LEMMA RunsKept ==
  ASSUME RunsOK, GoneStays, UNCHANGED <<run, inFlight>>
  PROVE  RunsOK'
<1>1. ASSUME NEW r \in Run, run[r].phase = "served", NEW q \in run[r].owns, ~Gone(q.entity)'
      PROVE  q.entity \in DOMAIN run[r].answer /\ q.fields \subseteq DOMAIN run[r].answer[q.entity]
  <2>1. q \in Requirement /\ Covers(run[r].answer, q)
    BY <1>1 DEF RunsOK, Calls
  <2>2. ~Gone(q.entity)
    BY <1>1, <2>1 DEF GoneStays, Requirement
  <2> QED
    BY <2>1, <2>2 DEF Covers
<1> QED
  BY <1>1 DEF RunsOK, Covers

LEMMA StreamKept ==
  ASSUME StreamOK, FactsOK, facts' = facts, UNCHANGED streaming
  PROVE  StreamOK'
  BY DEF StreamOK, streaming

\* An entry nobody touched, while its plan stays what it was and its runs read
\* on.
LEMMA ObserveKept ==
  ASSUME NEW s \in Surface, ObserveOK(s), GoneStays, obs'[s] = obs[s],
         Shown(s) => Plan(s, store') = obs[s].plan,
         Shown(s) /\ obs[s].stage = "wait" => \A r \in Run : run[r].owns \subseteq run'[r].owns
  PROVE  ObserveOK(s)'
<1> SUFFICES ASSUME Shown(s)' PROVE ObserveOK(s)'
  BY DEF ObserveOK
<1>1. /\ Shown(s) /\ obs[s] \in Observes /\ obs[s].plan = Plan(s, store)
      /\ obs[s].plan \subseteq Requirement
  BY DEF ObserveOK, Shown, Observes
<1>2. ASSUME obs[s].stage = "wait" PROVE Fits(s)'
  <2>1. Fits(s)
    BY <1>1, <1>2 DEF ObserveOK
  <2>2. ASSUME NEW q \in obs[s].plan PROVE Answered(obs[s].waits[q.entity], q)'
    <3>0. PICK w : w = obs[s].waits[q.entity]
      OBVIOUS
    <3>1. Answered(w, q) /\ q.entity \in DOMAIN obs[s].waits /\ q \in Requirement
      BY <1>1, <2>1, <3>0 DEF Fits
    <3>2. w \in Waits
      BY <1>1, <3>0, <3>1 DEF Observes
    <3>3. w.outcome = "none" => w.answer = <<>> /\ q \in run'[w.run].owns
      BY <1>1, <1>2, <3>1, <3>2 DEF Answered, Waits
    <3>4. w.outcome = "done" => Covers(w.answer, q)'
      BY <3>1, CoversStays DEF Answered
    <3>5. obs'[s].waits[q.entity] = w
      BY <3>0
    <3> QED
      BY <3>3, <3>4, <3>5 DEF Answered, Covers
  <2> QED
    BY <2>1, <2>2 DEF Fits, Answered, Covers
<1>3. ASSUME obs[s].stage = "idle", ~obs[s].failed, s \notin Refreshing, NEW q \in obs[s].plan
      PROVE  Gone(q.entity)'
  <2>1. Gone(q.entity) /\ q.entity \in Entity
    BY <1>1, <1>3 DEF ObserveOK, Requirement
  <2> QED
    BY <2>1 DEF GoneStays
<1> QED
  BY <1>1, <1>2, <1>3 DEF ObserveOK, Gone

\* An entry that was just started: nothing is waited for, and it is idle only
\* if nothing is missing.
LEMMA ObserveStarted ==
  ASSUME RemoteAssumption, NEW s \in Surface, StoreOK(store'), obs'[s] = Started(s, Plan(s, store'))
  PROVE  ObserveOK(s)'
<1> DEFINE p == Plan(s, store')
<1>1. p \in SUBSET Requirement
  BY PlanOK
<1> HIDE DEF p
<1>2. /\ Started(s, p) \in Observes /\ Started(s, p).plan = p
      /\ Started(s, p).stage # "wait" /\ (Started(s, p).stage = "idle" => p = {})
  BY <1>1, StartedOK
<1> USE DEF p
<1> QED
  BY <1>2 DEF ObserveOK

\* The Model's new store restarts the entries whose plan it changes, and keeps
\* the others.
LEMMA Reduced ==
  ASSUME RemoteAssumption, IInv, NEW st, StoreOK(st), NEW entries, Reduce(st, entries),
         UNCHANGED <<facts, run>>,
         \A s \in Surface :
           \/ entries[s] = obs[s]
           \/ /\ Shown(s) /\ entries[s] \in Observes /\ entries[s].plan = obs[s].plan
              /\ entries[s].stage # "wait"
              /\ entries[s].stage = "idle" /\ ~entries[s].failed /\ s \notin Refreshing /\ Plan(s, st) = obs[s].plan
                   => \A q \in obs[s].plan : Gone(q.entity)
  PROVE  StoreOK(store)' /\ obs' = [s \in Surface |-> obs'[s]] /\ \A s \in Surface : ObserveOK(s)'
<1>1. store' = st /\ obs' = Replanned(entries, st)
  BY DEF Reduce
<1>2. obs' = [s \in Surface |-> IF entries[s] = Nothing \/ entries[s].plan = Plan(s, st) THEN entries[s]
                                ELSE Started(s, Plan(s, st))]
  BY <1>1 DEF Replanned
<1>3. ASSUME NEW s \in Surface PROVE ObserveOK(s)'
  <2>0. ObserveOK(s) /\ GoneStays
    BY SameFacts DEF IInv
  <2>1. CASE ~(entries[s] = Nothing \/ entries[s].plan = Plan(s, st))
    <3>1. obs'[s] = Started(s, Plan(s, store'))
      BY <1>1, <1>2, <2>1
    <3> QED
      BY <1>1, <3>1, ObserveStarted
  <2>2. CASE entries[s] = Nothing
    BY <1>2, <2>2 DEF ObserveOK, Shown
  <2>3. CASE entries[s] # Nothing /\ entries[s].plan = Plan(s, st)
    <3>1. obs'[s] = entries[s]
      BY <1>2, <2>3
    <3>2. CASE entries[s] = obs[s]
      BY <1>1, <2>0, <2>3, <3>1, <3>2, ObserveKept
    <3>3. CASE entries[s] # obs[s]
      <4>1. /\ entries[s] \in Observes /\ entries[s].stage # "wait"
            /\ entries[s].stage = "idle" /\ ~entries[s].failed /\ s \notin Refreshing
                 => \A q \in entries[s].plan : Gone(q.entity)
        BY <2>3, <3>3
      <4>2. \A q : Gone(q.entity)' <=> Gone(q.entity)
        BY DEF Gone
      <4> QED
        BY <1>1, <2>3, <3>1, <4>1, <4>2 DEF ObserveOK
    <3> QED
      BY <3>2, <3>3
  <2> QED
    BY <2>1, <2>2, <2>3
<1> QED
  BY <1>1, <1>2, <1>3

\* What remains of the invariant when a step reduces the store.
LEMMA ReducedRest ==
  ASSUME RemoteAssumption, IInv, facts' = facts, UNCHANGED <<run, inFlight>>
  PROVE  FactsOK' /\ RunsOK'
  BY SameFacts, RunsKept DEF IInv

(***************************************************************************)
(* Each action preserves the invariant.                                    *)
(***************************************************************************)

LEMMA ShowStep ==
  ASSUME RemoteAssumption, IInv, NEW s \in Surface, Show(s)
  PROVE  IInv'
<1>0. /\ obs' = [obs EXCEPT ![s] = Started(s, Plan(s, store))]
      /\ UNCHANGED <<facts, store, run, inFlight, streaming>>
  BY DEF Show, server
<1>1. FactsOK' /\ StoreOK(store)' /\ StreamOK' /\ RunsOK' /\ GoneStays
  BY <1>0, SameFacts, StreamKept, RunsKept DEF IInv
<1>2. obs' = [t \in Surface |-> obs'[t]] /\ obs'[s] = Started(s, Plan(s, store')) /\ \A t \in Surface \ {s} : obs'[t] = obs[t]
  BY <1>0 DEF IInv
<1>3. ObserveOK(s)'
  BY <1>1, <1>2, ObserveStarted
<1>4. ASSUME NEW t \in Surface \ {s} PROVE ObserveOK(t)'
  <2>1. ObserveOK(t) /\ (Shown(t) => Plan(t, store') = obs[t].plan)
    BY <1>0 DEF IInv, ObserveOK
  <2> QED
    BY <1>0, <1>1, <1>2, <2>1, ObserveKept
<1> QED
  BY <1>1, <1>2, <1>3, <1>4 DEF IInv

LEMMA HideStep ==
  ASSUME RemoteAssumption, IInv, NEW s \in Surface, Hide(s)
  PROVE  IInv'
<1>0. /\ obs' = [obs EXCEPT ![s] = Nothing]
      /\ UNCHANGED <<facts, store, run, inFlight, streaming>>
  BY DEF Hide, server, reading
<1>1. FactsOK' /\ StoreOK(store)' /\ StreamOK' /\ RunsOK' /\ GoneStays
  BY <1>0, SameFacts, StreamKept, RunsKept DEF IInv
<1>2. obs' = [t \in Surface |-> obs'[t]] /\ obs'[s] = Nothing /\ \A t \in Surface \ {s} : obs'[t] = obs[t]
  BY <1>0 DEF IInv
<1>3. ObserveOK(s)'
  BY <1>2 DEF ObserveOK, Shown
<1>4. ASSUME NEW t \in Surface \ {s} PROVE ObserveOK(t)'
  <2>1. ObserveOK(t) /\ (Shown(t) => Plan(t, store') = obs[t].plan)
    BY <1>0 DEF IInv, ObserveOK
  <2> QED
    BY <1>0, <1>1, <1>2, <2>1, ObserveKept
<1> QED
  BY <1>1, <1>2, <1>3, <1>4 DEF IInv

LEMMA RefreshStartedStep ==
  ASSUME RemoteAssumption, IInv, NEW s \in Surface, RefreshStarted(s)
  PROVE  IInv'
<1> DEFINE entries == [obs EXCEPT ![s].stage = "collect"]
           st == SetStale(store, obs[s].plan, TRUE)
<1>0. /\ Shown(s) /\ obs[s] \in Observes /\ Reduce(st, entries)
      /\ UNCHANGED <<facts, run, inFlight, streaming>>
  BY DEF RefreshStarted, In, server, reading, IInv, ObserveOK
<1>1. FactsOK' /\ StreamOK' /\ RunsOK'
  BY <1>0, ReducedRest, StreamKept DEF IInv
<1>2. StoreOK(st)
  BY SetStaleOK DEF IInv
<1>3. \A t \in Surface \ {s} : entries[t] = obs[t]
  BY DEF IInv
<1>4. entries[s] = [plan |-> obs[s].plan, waits |-> obs[s].waits, failed |-> obs[s].failed, stage |-> "collect"]
  <2>1. entries[s] = [obs[s] EXCEPT !.stage = "collect"]
    BY DEF IInv
  <2> QED
    BY <1>0, <2>1 DEF Observes
<1>5. /\ entries[s] \in Observes /\ entries[s].plan = obs[s].plan
      /\ entries[s].stage # "wait" /\ entries[s].stage # "idle"
  BY <1>0, <1>4 DEF Observes
<1> HIDE DEF entries, st
<1>6. StoreOK(store)' /\ obs' = [t \in Surface |-> obs'[t]] /\ \A t \in Surface : ObserveOK(t)'
  BY <1>0, <1>2, <1>3, <1>5, Reduced
<1> QED
  BY <1>1, <1>6 DEF IInv

LEMMA EmptiedEntry ==
  ASSUME NEW p \in SUBSET Requirement, NEW b \in BOOLEAN
  PROVE  [plan |-> p, waits |-> <<>>, failed |-> b, stage |-> "idle"] \in Observes
<1>1. <<>> \in [{} -> Waits] /\ {} \in SUBSET Entity
  BY EmptyMap
<1>2. <<>> \in UNION {[D -> Waits] : D \in SUBSET Entity}
  BY <1>1
<1> QED
  BY <1>2 DEF Observes

\* What Idle makes of the entry of a Surface, and of the others.
LEMMA IdleEntry ==
  ASSUME IInv, NEW s \in Surface, Shown(s)
  PROVE  /\ \A t \in Surface \ {s} : Idle(s)[t] = obs[t]
         /\ Idle(s)[s] = [plan |-> obs[s].plan, waits |-> <<>>, failed |-> obs[s].failed, stage |-> "idle"]
         /\ Idle(s) = [t \in Surface |-> Idle(s)[t]]
         /\ obs[s].plan \in SUBSET Requirement /\ obs[s].failed \in BOOLEAN
<1>1. obs[s] \in Observes /\ obs = [t \in Surface |-> obs[t]]
  BY DEF IInv, ObserveOK
<1>2. Idle(s)[s] = [[obs[s] EXCEPT !.stage = "idle"] EXCEPT !.waits = <<>>]
  BY <1>1 DEF Idle
<1>3. Idle(s)[s] = [plan |-> obs[s].plan, waits |-> <<>>, failed |-> obs[s].failed, stage |-> "idle"]
  BY <1>1, <1>2 DEF Observes
<1>4. Idle(s) = [t \in Surface |-> Idle(s)[t]] /\ \A t \in Surface \ {s} : Idle(s)[t] = obs[t]
  BY <1>1 DEF Idle
<1>5. obs[s].plan \in SUBSET Requirement /\ obs[s].failed \in BOOLEAN
  BY <1>1 DEF Observes
<1> QED
  BY <1>3, <1>4, <1>5

\* A Surface whose answers have landed lacks only what the server does not
\* have, or its plan has changed.
LEMMA LandedIsComplete ==
  ASSUME RemoteAssumption, IInv, NEW s \in Surface \ Refreshing, In(s, "wait"), Outcomes(s) = {"done"},
         Plan(s, Landed(s)) = obs[s].plan, NEW q \in obs[s].plan
  PROVE  Gone(q.entity)
<1> SUFFICES ASSUME ~Gone(q.entity) PROVE FALSE
  OBVIOUS
<1> DEFINE e == q.entity
           st == Landed(s)
<1>1. ObserveOK(s) /\ StoreOK(store) /\ Shown(s) /\ obs[s].stage = "wait"
  BY DEF IInv, In
<1>2. obs[s] \in Observes /\ Fits(s)
  BY <1>1 DEF ObserveOK
<1>3. q \in Requirement /\ e \in Entity
  BY <1>2 DEF Observes, Requirement
<1>4. PICK w : w = obs[s].waits[e]
  OBVIOUS
<1>5. e \in DOMAIN obs[s].waits /\ Answered(w, q) /\ w.outcome = "done"
  <2>1. e \in DOMAIN obs[s].waits /\ Answered(w, q)
    BY <1>2, <1>4 DEF Fits
  <2>2. w.outcome \in Outcomes(s)
    BY <1>4, <2>1 DEF Outcomes
  <2> QED
    BY <2>1, <2>2
<1>6. e \in DOMAIN w.answer /\ q.fields \subseteq DOMAIN w.answer[e]
  BY <1>5 DEF Answered, Covers
<1>7. w \in Telling(s, e)
  BY <1>4, <1>5, <1>6 DEF Telling, Results
<1> HIDE DEF e, st
<1>8. /\ StoreOK(st) /\ ~st[e].tombstone /\ q.fields \subseteq DOMAIN st[e].values
      /\ st[e].stale \cap q.fields = {}
  <2>1. /\ StoreOK(st) /\ ~st[e].tombstone /\ DOMAIN w.answer[e] \subseteq DOMAIN st[e].values
        /\ st[e].stale \cap DOMAIN w.answer[e] = {}
    BY <1>1, <1>2, <1>3, <1>7, LandedOK DEF st
  <2> QED
    BY <1>6, <2>1
<1>9. q.fields # {} /\ q.fields = Missing(st[e], Needs[s][e])
  <2>1. q \in Plan(s, st) /\ s \in Surface /\ s \notin Refreshing
    BY DEF st
  <2> QED
    BY <1>8, <2>1, PlanOK DEF e
<1> QED
  BY <1>8, <1>9 DEF Missing

LEMMA ReadReceivedStep ==
  ASSUME RemoteAssumption, IInv, NEW s \in Surface, ReadReceived(s)
  PROVE  IInv'
<1>0. /\ Shown(s) /\ In(s, "wait") /\ Outcomes(s) = {"done"} /\ Reduce(Landed(s), Idle(s))
      /\ UNCHANGED <<facts, run, inFlight, streaming>>
  BY DEF ReadReceived, In, server, reading
<1>1. FactsOK' /\ StreamOK' /\ RunsOK'
  BY <1>0, ReducedRest, StreamKept DEF IInv
<1>2. StoreOK(Landed(s))
  BY <1>0, LandedOK DEF IInv, ObserveOK
<1>3. /\ \A t \in Surface \ {s} : Idle(s)[t] = obs[t]
      /\ Idle(s)[s] \in Observes /\ Idle(s)[s].plan = obs[s].plan /\ Idle(s)[s].stage # "wait"
  <2>1. /\ Idle(s)[s] = [plan |-> obs[s].plan, waits |-> <<>>, failed |-> obs[s].failed, stage |-> "idle"]
        /\ obs[s].plan \in SUBSET Requirement /\ obs[s].failed \in BOOLEAN
        /\ \A t \in Surface \ {s} : Idle(s)[t] = obs[t]
    BY <1>0, IdleEntry
  <2>2. Idle(s)[s] \in Observes
    BY <2>1, EmptiedEntry
  <2>3. Idle(s)[s].plan = obs[s].plan /\ Idle(s)[s].stage = "idle"
    BY <2>1
  <2> QED
    BY <2>1, <2>2, <2>3
<1>4. s \notin Refreshing /\ Plan(s, Landed(s)) = obs[s].plan => \A q \in obs[s].plan : Gone(q.entity)
  BY <1>0, LandedIsComplete
<1>5. StoreOK(store)' /\ obs' = [t \in Surface |-> obs'[t]] /\ \A t \in Surface : ObserveOK(t)'
  BY <1>0, <1>2, <1>3, <1>4, Reduced
<1> QED
  BY <1>1, <1>5 DEF IInv

LEMMA ReadFailedStep ==
  ASSUME RemoteAssumption, IInv, NEW s \in Surface, ReadFailed(s)
  PROVE  IInv'
<1> DEFINE entries == [Idle(s) EXCEPT ![s].failed = TRUE]
           st == SetStale(store, obs[s].plan, FALSE)
<1>0. Shown(s) /\ Reduce(st, entries) /\ UNCHANGED <<facts, run, inFlight, streaming>>
  BY DEF ReadFailed, In, server, reading
<1>1. FactsOK' /\ StreamOK' /\ RunsOK'
  BY <1>0, ReducedRest, StreamKept DEF IInv
<1>2. StoreOK(st)
  BY SetStaleOK DEF IInv
<1>3. \A t \in Surface \ {s} : entries[t] = obs[t]
  BY <1>0, IdleEntry
<1>4. entries[s] = [plan |-> obs[s].plan, waits |-> <<>>, failed |-> TRUE, stage |-> "idle"]
  <2>1. /\ Idle(s) = [t \in Surface |-> Idle(s)[t]]
        /\ Idle(s)[s] = [plan |-> obs[s].plan, waits |-> <<>>, failed |-> obs[s].failed, stage |-> "idle"]
    BY <1>0, IdleEntry
  <2>2. entries[s] = [Idle(s)[s] EXCEPT !.failed = TRUE]
    BY <2>1
  <2>3. obs[s].plan \in SUBSET Requirement /\ obs[s].failed \in BOOLEAN
    BY <1>0, IdleEntry
  <2>4. Idle(s)[s] \in Observes
    BY <2>1, <2>3, EmptiedEntry
  <2>5. /\ Idle(s)[s].plan = obs[s].plan /\ Idle(s)[s].waits = <<>> /\ Idle(s)[s].stage = "idle"
    BY <2>1
  <2> HIDE DEF entries
  <2> QED
    BY <2>2, <2>4, <2>5 DEF Observes
<1>5. entries[s] \in Observes /\ entries[s].plan = obs[s].plan /\ entries[s].stage # "wait" /\ entries[s].failed
  <2> HIDE DEF entries
  <2>1. obs[s].plan \in SUBSET Requirement
    BY <1>0, IdleEntry
  <2>2. entries[s] \in Observes
    BY <1>4, <2>1, EmptiedEntry
  <2> QED
    BY <1>4, <2>2
<1> HIDE DEF entries, st
<1>6. StoreOK(store)' /\ obs' = [t \in Surface |-> obs'[t]] /\ \A t \in Surface : ObserveOK(t)'
  BY <1>0, <1>2, <1>3, <1>5, Reduced
<1> QED
  BY <1>1, <1>6 DEF IInv

LEMMA ChangeStep ==
  ASSUME RemoteAssumption, IInv, NEW e \in Entity, NEW f \in Field \cup {Deleted}, Change(e, f)
  PROVE  IInv'
<1>0. /\ Len(facts) < MaxFacts /\ facts' = Append(facts, <<e, f>>)
      /\ UNCHANGED <<store, obs, run, inFlight, streaming>>
  BY DEF Change, reading
<1>1. facts \in Seq(Entity \X (Field \cup {Deleted})) /\ <<e, f>> \in Entity \X (Field \cup {Deleted})
  BY DEF IInv, FactsOK
<1>2. /\ facts' \in Seq(Entity \X (Field \cup {Deleted})) /\ Len(facts') = Len(facts) + 1
      /\ Len(facts) \in Nat /\ MaxFacts \in Nat
      /\ DOMAIN facts \subseteq DOMAIN facts' /\ \A i \in DOMAIN facts : facts'[i] = facts[i]
  BY <1>0, <1>1 DEF RemoteAssumption
<1>3. FactsOK' /\ GoneStays
  <2>1. FactsOK'
    BY <1>0, <1>2 DEF FactsOK
  <2>2. ASSUME NEW x \in Entity, Gone(x) PROVE Gone(x)'
    <3>1. PICK i \in DOMAIN facts : facts[i] = <<x, Deleted>>
      BY <2>2 DEF Gone
    <3>2. i \in DOMAIN facts' /\ facts'[i] = <<x, Deleted>>
      BY <1>2, <3>1
    <3> QED
      BY <3>2 DEF Gone
  <2> QED
    BY <2>1, <2>2 DEF GoneStays
<1>4. StreamOK'
  BY <1>0, <1>2 DEF IInv, StreamOK, streaming
<1>5. RunsOK' /\ StoreOK(store)'
  BY <1>0, <1>3, RunsKept DEF IInv
<1>6. ASSUME NEW t \in Surface PROVE ObserveOK(t)'
  <2>1. ObserveOK(t) /\ (Shown(t) => Plan(t, store') = obs[t].plan) /\ obs'[t] = obs[t]
    BY <1>0 DEF IInv, ObserveOK
  <2> QED
    BY <1>0, <1>3, <2>1, ObserveKept
<1>7. obs' = [t \in Surface |-> obs'[t]]
  BY <1>0 DEF IInv
<1> QED
  BY <1>3, <1>4, <1>5, <1>6, <1>7 DEF IInv

\* A run that owns these requirements reads them; the other runs and what they
\* read stay as they are.
LEMMA RunAllStep ==
  ASSUME RemoteAssumption, IInv, NEW r \in Run, RunAll(r)
  PROVE  IInv'
<1> DEFINE batch == {s \in Surface : In(s, "collect")}
           asked == UNION {obs[s].plan : s \in batch}
           own == Owned(asked)
           reader(q) == IF q \in own THEN r ELSE inFlight[q]
           waits(s) == [e \in {q.entity : q \in obs[s].plan} |->
                          Awaiting(reader(CHOOSE q \in obs[s].plan : q.entity = e))]
<1>0. /\ run[r] = Free
      /\ obs' = [s \in Surface |-> IF s \notin batch THEN obs[s]
                                   ELSE [obs[s] EXCEPT !.stage = "wait", !.waits = waits(s)]]
      /\ IF own = {} THEN UNCHANGED <<run, inFlight>>
         ELSE /\ run' = [run EXCEPT ![r] = [phase |-> "read", owns |-> own, answer |-> <<>>]]
              /\ inFlight' = [q \in DOMAIN inFlight \cup own |-> reader(q)]
      /\ UNCHANGED <<facts, store, streaming>>
  BY DEF RunAll, server
<1>1. FactsOK' /\ StoreOK(store)' /\ StreamOK' /\ GoneStays
  BY <1>0, SameFacts, StreamKept DEF IInv
<1>2. PICK D \in SUBSET Requirement : inFlight \in [D -> Run]
  BY DEF IInv, RunsOK
<1>3. \A s \in batch : Shown(s) /\ obs[s] \in Observes /\ obs[s].plan = Plan(s, store) /\ obs[s].plan \subseteq Requirement
  BY DEF IInv, ObserveOK, In, Observes
<1>4. asked \subseteq Requirement /\ own = asked \ DOMAIN inFlight
  BY <1>3 DEF Owned
<1>5. ASSUME NEW q \in asked PROVE reader(q) \in Run
  BY <1>2, <1>4, <1>5
<1>6. run \in [Run -> Calls] /\ run[r].phase = "free" /\ run[r].owns = {}
  <2>1. run \in [Run -> Calls]
    BY DEF IInv, RunsOK
  <2>2. Free.phase = "free" /\ Free.owns = {}
    BY DEF Free
  <2> QED
    BY <1>0, <2>1, <2>2
<1>7. \A q \in DOMAIN inFlight : inFlight[q] \in Run \ {r} /\ q \in run[inFlight[q]].owns
  BY <1>2, <1>6 DEF IInv, RunsOK
<1>8. \A x \in Run \ {r} : run'[x] = run[x]
  BY <1>0, <1>6
<1>9. own # {} => run'[r] = [phase |-> "read", owns |-> own, answer |-> <<>>]
  BY <1>0, <1>6
<1>10. ASSUME NEW q \in asked PROVE q \in run'[reader(q)].owns
  <2>1. CASE q \in own
    <3>1. own # {} /\ reader(q) = r
      BY <2>1
    <3> HIDE DEF own, reader
    <3>2. run'[r].owns = own
      BY <1>9, <3>1
    <3> QED
      BY <2>1, <3>1, <3>2
  <2>2. CASE q \notin own
    BY <1>4, <1>7, <1>8, <2>2
  <2> QED
    BY <2>1, <2>2
<1>11. RunsOK'
  <2>1. CASE own = {}
    BY <1>0, <1>1, <2>1, RunsKept DEF IInv
  <2>2. CASE own # {}
    <3>1. run' \in [Run -> Calls]
      <4>1. [phase |-> "read", owns |-> own, answer |-> <<>>] \in Calls
        BY <1>4, EmptyAnswer DEF Calls
      <4> QED
        BY <1>0, <1>6, <2>2, <4>1
    <3>2. inFlight' \in [D \cup own -> Run] /\ D \cup own \in SUBSET Requirement
      <4>1. DOMAIN inFlight = D
        BY <1>2
      <4>2. \A q \in D \cup own : reader(q) \in Run
        BY <1>2
      <4>3. inFlight' = [q \in D \cup own |-> reader(q)]
        BY <1>0, <2>2, <4>1
      <4> HIDE DEF reader
      <4> QED
        BY <1>4, <4>2, <4>3
    <3>3. /\ DOMAIN inFlight' = DOMAIN inFlight \cup own
          /\ \A q \in own : inFlight'[q] = r
          /\ \A q \in DOMAIN inFlight : inFlight'[q] = inFlight[q]
      <4>1. \A q \in DOMAIN inFlight : q \notin own
        BY <1>4
      <4> QED
        BY <1>0, <2>2, <4>1
    <3> HIDE DEF own, reader
    <3>4. ASSUME NEW x \in Run, run'[x].phase # "free", NEW q \in run'[x].owns
          PROVE  q \in DOMAIN inFlight' /\ inFlight'[q] = x
      <4>1. CASE x = r
        BY <1>9, <2>2, <3>3, <3>4, <4>1
      <4>2. CASE x # r
        <5>1. q \in DOMAIN inFlight /\ inFlight[q] = x
          BY <1>8, <3>4, <4>2 DEF IInv, RunsOK
        <5> QED
          BY <3>3, <5>1
      <4> QED
        BY <4>1, <4>2
    <3>5. ASSUME NEW q \in DOMAIN inFlight'
          PROVE  run'[inFlight'[q]].phase # "free" /\ q \in run'[inFlight'[q]].owns
      <4>1. CASE q \in own
        BY <1>9, <2>2, <3>3, <4>1
      <4>2. CASE q \in DOMAIN inFlight
        <5>1. run[inFlight[q]].phase # "free"
          BY <4>2 DEF IInv, RunsOK
        <5> QED
          BY <1>7, <1>8, <3>3, <4>2, <5>1
      <4> QED
        BY <3>3, <4>1, <4>2
    <3>6. ASSUME NEW x \in Run, run'[x].phase = "served", NEW q \in run'[x].owns, ~Gone(q.entity)'
          PROVE  q.entity \in DOMAIN run'[x].answer /\ q.fields \subseteq DOMAIN run'[x].answer[q.entity]
      <4>1. x # r
        BY <1>9, <2>2, <3>6
      <4>2. run[x].phase = "served" /\ q \in run[x].owns /\ q \in Requirement
        BY <1>6, <1>8, <3>6, <4>1 DEF Calls
      <4>3. Covers(run[x].answer, q) /\ ~Gone(q.entity)
        BY <1>1, <3>6, <4>2 DEF IInv, RunsOK, GoneStays, Requirement
      <4> QED
        BY <1>8, <4>1, <4>3 DEF Covers
    <3>7. inFlight' \in UNION {[E -> Run] : E \in SUBSET Requirement}
      BY <3>2
    <3>8. \A x \in Run : run'[x].phase = "served" => \A q \in run'[x].owns : Covers(run[x].answer, q)'
      BY <3>6 DEF Covers
    <3> QED
      BY <3>1, <3>4, <3>5, <3>7, <3>8 DEF RunsOK
  <2> QED
    BY <2>1, <2>2
<1>12. ASSUME NEW s \in Surface \ batch PROVE ObserveOK(s)'
  <2>1. obs'[s] = obs[s] /\ ObserveOK(s) /\ (Shown(s) => Plan(s, store') = obs[s].plan)
    BY <1>0 DEF IInv, ObserveOK
  <2>2. \A x \in Run : run[x].owns \subseteq run'[x].owns
    BY <1>6, <1>8
  <2> QED
    BY <1>1, <2>1, <2>2, ObserveKept
<1>13. ASSUME NEW s \in batch PROVE ObserveOK(s)'
  <2> DEFINE plan == obs[s].plan
  <2>1. s \in Surface /\ obs[s] \in Observes /\ plan = Plan(s, store) /\ plan \subseteq Requirement /\ plan \subseteq asked
    BY <1>3
  <2>2. \A p, q \in plan : p.entity = q.entity => p = q
    <3>1. StoreOK(store)
      BY DEF IInv
    <3> QED
      BY <2>1, <3>1, PlanOK
  <2>3. ASSUME NEW q \in plan PROVE waits(s)[q.entity] = Awaiting(reader(q))
    <3>1. (CHOOSE p \in plan : p.entity = q.entity) = q
      BY <2>2, <2>3
    <3> QED
      BY <3>1
  <2>4. waits(s) \in [{q.entity : q \in plan} -> Waits] /\ {q.entity : q \in plan} \in SUBSET Entity
    <3>1. ASSUME NEW q \in plan PROVE Awaiting(reader(q)) \in Waits
      <4>1. reader(q) \in Run
        BY <1>5, <2>1
      <4> HIDE DEF reader
      <4> QED
        BY <4>1, EmptyAnswer DEF Awaiting, Waits
    <3>2. \A e \in {q.entity : q \in plan} : waits(s)[e] \in Waits
      BY <2>3, <3>1
    <3>3. waits(s) = [e \in {q.entity : q \in plan} |-> waits(s)[e]]
      OBVIOUS
    <3>4. {q.entity : q \in plan} \in SUBSET Entity
      BY <2>1 DEF Requirement
    <3> HIDE DEF waits
    <3> QED
      BY <3>2, <3>3, <3>4
  <2>5. obs'[s] = [[obs[s] EXCEPT !.stage = "wait"] EXCEPT !.waits = waits(s)]
    BY <1>0, <2>1
  <2>6. DOMAIN waits(s) = {q.entity : q \in plan}
    OBVIOUS
  <2> HIDE DEF waits
  <2>7. obs'[s] = [plan |-> plan, waits |-> waits(s), failed |-> obs[s].failed, stage |-> "wait"]
    BY <2>1, <2>5 DEF Observes
  <2>8. obs'[s] \in Observes
    <3>1. waits(s) \in UNION {[E -> Waits] : E \in SUBSET Entity}
      BY <2>4
    <3>2. obs[s].failed \in BOOLEAN
      BY <2>1 DEF Observes
    <3> QED
      BY <2>1, <2>7, <3>1, <3>2 DEF Observes
  <2>9. ASSUME NEW q \in plan
        PROVE  LET w == waits(s)[q.entity]
               IN  w.outcome = "none" /\ w.answer = <<>> /\ q \in run'[w.run].owns
    <3>1. q \in run'[reader(q)].owns
      BY <1>10, <2>1
    <3> HIDE DEF reader
    <3>2. \A x : Awaiting(x).run = x /\ Awaiting(x).outcome = "none" /\ Awaiting(x).answer = <<>>
      BY DEF Awaiting
    <3> QED
      BY <2>3, <3>1, <3>2
  <2>10. Fits(s)'
    <3>1. obs'[s].plan = plan /\ obs'[s].waits = waits(s)
      BY <2>7
    <3>2. DOMAIN obs'[s].waits = {q.entity : q \in obs'[s].plan}
      BY <2>6, <3>1
    <3>3. ASSUME NEW q \in plan PROVE Answered(obs[s].waits[q.entity], q)'
      <4>1. PICK w : w = waits(s)[q.entity]
        OBVIOUS
      <4>2. w.outcome = "none" /\ w.answer = <<>> /\ q \in run'[w.run].owns
        BY <2>9, <4>1
      <4>3. obs'[s].waits[q.entity] = w
        BY <3>1, <4>1
      <4> QED
        BY <4>2, <4>3 DEF Answered
    <3> QED
      BY <3>1, <3>2, <3>3 DEF Fits
  <2>11. obs'[s].plan = Plan(s, store') /\ obs'[s].stage = "wait"
    BY <1>0, <2>1, <2>7
  <2> QED
    BY <2>8, <2>10, <2>11 DEF ObserveOK
<1>14. obs' = [s \in Surface |-> obs'[s]]
  BY <1>0
<1> QED
  BY <1>1, <1>11, <1>12, <1>13, <1>14 DEF IInv

LEMMA ServeStep ==
  ASSUME RemoteAssumption, IInv, NEW r \in Run, Serve(r)
  PROVE  IInv'
<1> DEFINE owns == run[r].owns
           held == {q.entity : q \in {p \in owns : ~Gone(p.entity)}}
           fields == UNION {q.fields : q \in owns}
           answer == [e \in held |-> [f \in fields |-> Value(e, f)]]
<1>0. /\ run[r].phase = "read"
      /\ run' = [run EXCEPT ![r].phase = "served", ![r].answer = answer]
      /\ UNCHANGED <<facts, store, obs, inFlight, streaming>>
  BY DEF Serve, server
<1>1. FactsOK' /\ StoreOK(store)' /\ StreamOK' /\ GoneStays
  BY <1>0, SameFacts, StreamKept DEF IInv
<1>2. run \in [Run -> Calls] /\ run[r] \in Calls /\ owns \in SUBSET Requirement
  BY DEF IInv, RunsOK, Calls
<1>3. held \in SUBSET Entity /\ fields \in SUBSET Field
  BY <1>2 DEF Requirement
<1>4. answer \in Answers
  <2>1. ASSUME NEW e \in held PROVE [f \in fields |-> Value(e, f)] \in Values
    <3>1. \A f \in fields : Value(e, f) \in 0..MaxFacts
      BY ValueOK DEF IInv
    <3>2. [f \in fields |-> Value(e, f)] \in [fields -> 0..MaxFacts]
      BY <3>1
    <3> QED
      BY <1>3, <3>2 DEF Values
  <2> HIDE DEF held, fields
  <2>2. answer \in [held -> Values]
    BY <2>1
  <2> QED
    BY <1>3, <2>2 DEF Answers
<1>5. \A q \in owns : ~Gone(q.entity) => q.entity \in DOMAIN answer /\ q.fields \subseteq DOMAIN answer[q.entity]
  OBVIOUS
<1> HIDE DEF answer
<1>6. run'[r] = [phase |-> "served", owns |-> owns, answer |-> answer]
  <2>1. run'[r] = [[run[r] EXCEPT !.phase = "served"] EXCEPT !.answer = answer]
    BY <1>0, <1>2
  <2> QED
    BY <1>2, <2>1 DEF Calls
<1>7. run' \in [Run -> Calls] /\ \A x \in Run \ {r} : run'[x] = run[x]
  <2>1. run'[r] \in Calls
    BY <1>2, <1>4, <1>6 DEF Calls
  <2>2. run' = [x \in Run |-> run'[x]] /\ \A x \in Run \ {r} : run'[x] = run[x]
    BY <1>0, <1>2
  <2> QED
    BY <1>2, <2>1, <2>2
<1>8. /\ \A x \in Run : run'[x].owns = run[x].owns
      /\ \A x \in Run : run'[x].phase # "free" <=> run[x].phase # "free"
  BY <1>0, <1>6, <1>7
<1>9. ASSUME NEW x \in Run, run'[x].phase = "served", NEW q \in run'[x].owns, ~Gone(q.entity)'
      PROVE  q.entity \in DOMAIN run'[x].answer /\ q.fields \subseteq DOMAIN run'[x].answer[q.entity]
  <2>0. q \in run[x].owns /\ q \in Requirement
    BY <1>2, <1>8, <1>9 DEF Calls
  <2>1. ~Gone(q.entity)
    BY <1>1, <1>9, <2>0 DEF GoneStays, Requirement
  <2>2. CASE x = r
    BY <1>5, <1>6, <2>0, <2>1, <2>2
  <2>3. CASE x # r
    BY <1>7, <1>9, <2>0, <2>1, <2>3 DEF IInv, RunsOK, Covers
  <2> QED
    BY <2>2, <2>3
<1>10. RunsOK'
  <2>1. DOMAIN inFlight \subseteq Requirement /\ \A q \in DOMAIN inFlight : inFlight[q] \in Run
    BY DEF IInv, RunsOK
  <2> QED
    BY <1>0, <1>7, <1>8, <1>9, <2>1 DEF IInv, RunsOK, Covers
<1>11. ASSUME NEW s \in Surface PROVE ObserveOK(s)'
  <2>1. obs'[s] = obs[s] /\ ObserveOK(s) /\ (Shown(s) => Plan(s, store') = obs[s].plan)
    BY <1>0 DEF IInv, ObserveOK
  <2> QED
    BY <1>1, <1>8, <2>1, ObserveKept
<1>12. obs' = [s \in Surface |-> obs'[s]]
  BY <1>0 DEF IInv
<1> QED
  BY <1>1, <1>10, <1>11, <1>12 DEF IInv

\* The requirements of a run are answered and released, and only its own.
LEMMA SettleStep ==
  ASSUME RemoteAssumption, IInv, NEW r \in Run, NEW outcome \in {"done", "failed"}, Settle(r, outcome),
         run[r].phase # "free", outcome = "done" => run[r].phase = "served"
  PROVE  IInv'
<1> DEFINE owns == run[r].owns
           given == [run |-> r, outcome |-> outcome, answer |-> run[r].answer]
           after(s) == [e \in DOMAIN obs[s].waits |->
                          IF obs[s].waits[e] = Awaiting(r) THEN given ELSE obs[s].waits[e]]
<1>0. /\ run' = [run EXCEPT ![r] = Free]
      /\ inFlight' = [q \in DOMAIN inFlight \ owns |-> inFlight[q]]
      /\ obs' = [s \in Surface |-> IF ~In(s, "wait") THEN obs[s] ELSE [obs[s] EXCEPT !.waits = after(s)]]
      /\ UNCHANGED <<facts, store, streaming>>
  BY DEF Settle, server
<1>1. FactsOK' /\ StoreOK(store)' /\ StreamOK' /\ GoneStays
  BY <1>0, SameFacts, StreamKept DEF IInv
<1>2. run \in [Run -> Calls] /\ run[r] \in Calls /\ owns \in SUBSET Requirement /\ run[r].answer \in Answers
  BY DEF IInv, RunsOK, Calls
<1>3. run' \in [Run -> Calls] /\ run'[r] = Free /\ \A x \in Run \ {r} : run'[x] = run[x]
  <2>1. Free \in Calls
    BY EmptyAnswer DEF Free, Calls
  <2> QED
    BY <1>0, <1>2, <2>1
<1>4. Free.phase = "free"
  BY DEF Free
<1>5. PICK D \in SUBSET Requirement : inFlight \in [D -> Run]
  BY DEF IInv, RunsOK
<1>6. \A q \in D : q \in owns <=> inFlight[q] = r
  <2>1. \A q \in owns : inFlight[q] = r
    BY DEF IInv, RunsOK
  <2>2. \A q \in D : inFlight[q] = r => q \in owns
    BY <1>5 DEF IInv, RunsOK
  <2> QED
    BY <2>1, <2>2
<1>7. inFlight' \in [D \ owns -> Run] /\ \A q \in D \ owns : inFlight'[q] = inFlight[q]
  <2> HIDE DEF owns
  <2> QED
    BY <1>0, <1>5
<1>8. RunsOK'
  <2>1. inFlight' \in UNION {[E -> Run] : E \in SUBSET Requirement}
    BY <1>7
  <2>2. ASSUME NEW x \in Run, run'[x].phase # "free", NEW q \in run'[x].owns
        PROVE  q \in DOMAIN inFlight' /\ inFlight'[q] = x
    <3>1. x # r /\ run'[x] = run[x]
      BY <1>3, <1>4, <2>2
    <3>2. q \in D /\ inFlight[q] = x
      BY <1>5, <2>2, <3>1 DEF IInv, RunsOK
    <3> QED
      BY <1>6, <1>7, <3>1, <3>2
  <2>3. ASSUME NEW q \in DOMAIN inFlight'
        PROVE  run'[inFlight'[q]].phase # "free" /\ q \in run'[inFlight'[q]].owns
    <3>1. q \in D /\ inFlight[q] # r /\ inFlight[q] \in Run /\ inFlight'[q] = inFlight[q]
      BY <1>5, <1>6, <1>7
    <3>2. run[inFlight[q]].phase # "free" /\ q \in run[inFlight[q]].owns
      BY <1>5, <3>1 DEF IInv, RunsOK
    <3> QED
      BY <1>3, <3>1, <3>2
  <2>4. ASSUME NEW x \in Run, run'[x].phase = "served", NEW q \in run'[x].owns, ~Gone(q.entity)'
        PROVE  q.entity \in DOMAIN run'[x].answer /\ q.fields \subseteq DOMAIN run'[x].answer[q.entity]
    <3>1. x # r /\ run'[x] = run[x]
      BY <1>3, <1>4, <2>4
    <3>2. q \in Requirement /\ run[x].phase = "served" /\ q \in run[x].owns
      BY <1>2, <2>4, <3>1 DEF Calls
    <3>3. Covers(run[x].answer, q) /\ ~Gone(q.entity)
      BY <1>1, <2>4, <3>2 DEF IInv, RunsOK, GoneStays, Requirement
    <3> QED
      BY <3>1, <3>3 DEF Covers
  <2>5. \A x \in Run : run'[x].phase = "served" => \A q \in run'[x].owns : Covers(run[x].answer, q)'
    BY <2>4 DEF Covers
  <2> QED
    BY <1>3, <2>1, <2>2, <2>3, <2>5 DEF RunsOK
<1>9. ASSUME NEW s \in Surface, ~In(s, "wait") PROVE ObserveOK(s)'
  <2>1. obs'[s] = obs[s] /\ ObserveOK(s) /\ (Shown(s) => Plan(s, store') = obs[s].plan)
    BY <1>0, <1>9 DEF IInv, ObserveOK
  <2> QED
    BY <1>1, <1>9, <2>1, ObserveKept DEF In
<1>10. ASSUME NEW s \in Surface, In(s, "wait") PROVE ObserveOK(s)'
  <2>1. /\ Shown(s) /\ obs[s].stage = "wait" /\ obs[s] \in Observes /\ obs[s].plan = Plan(s, store) /\ Fits(s)
        /\ obs[s].plan \in SUBSET Requirement /\ obs[s].failed \in BOOLEAN
    BY <1>10 DEF IInv, ObserveOK, In, Observes
  <2>2. PICK E \in SUBSET Entity : obs[s].waits \in [E -> Waits]
    BY <2>1 DEF Observes
  <2>3. given \in Waits
    BY <1>2 DEF Waits
  <2>4. after(s) \in [E -> Waits] /\ DOMAIN after(s) = DOMAIN obs[s].waits
    <3> HIDE DEF given
    <3> QED
      BY <2>2, <2>3
  <2>5. obs'[s] = [obs[s] EXCEPT !.waits = after(s)]
    BY <1>0, <1>10
  <2>6. \A e \in E : after(s)[e] = IF obs[s].waits[e] = Awaiting(r) THEN given ELSE obs[s].waits[e]
    BY <2>2
  <2> HIDE DEF after
  <2>7. obs'[s] = [plan |-> obs[s].plan, waits |-> after(s), failed |-> obs[s].failed, stage |-> "wait"]
    BY <2>1, <2>5 DEF Observes
  <2>8. obs'[s] \in Observes
    <3>1. after(s) \in UNION {[F -> Waits] : F \in SUBSET Entity}
      BY <2>4
    <3> QED
      BY <2>1, <2>7, <3>1 DEF Observes
  <2>9. ASSUME NEW q \in obs[s].plan PROVE Answered(obs[s].waits[q.entity], q)'
    <3>1. q.entity \in E /\ Answered(obs[s].waits[q.entity], q) /\ q \in Requirement
      BY <2>1, <2>2 DEF Fits
    <3>2. PICK w : w = obs[s].waits[q.entity]
      OBVIOUS
    <3>3. w \in Waits /\ obs'[s].waits[q.entity] = IF w = Awaiting(r) THEN given ELSE w
      BY <2>2, <2>6, <2>7, <3>1, <3>2
    <3>4. /\ w.outcome = "none" => w.answer = <<>> /\ q \in run[w.run].owns
          /\ w.outcome = "done" => Covers(w.answer, q)
      BY <3>1, <3>2 DEF Answered
    <3>5. CASE w = Awaiting(r)
      <4>1. w.outcome = "none" /\ w.run = r
        BY <3>5 DEF Awaiting
      <4>2. q \in owns
        BY <3>4, <4>1
      <4>3. outcome = "done" => Covers(run[r].answer, q)
        BY <4>2 DEF IInv, RunsOK
      <4>4. PICK a : a = run[r].answer
        OBVIOUS
      <4>5. outcome = "done" => Covers(a, q)'
        BY <1>1, <3>1, <4>3, <4>4, CoversStays
      <4>6. obs'[s].waits[q.entity] = [run |-> r, outcome |-> outcome, answer |-> a]
        BY <3>3, <3>5, <4>4
      <4> HIDE DEF given
      <4>7. /\ obs'[s].waits[q.entity].outcome = outcome /\ obs'[s].waits[q.entity].answer = a
        BY <4>6
      <4> QED
        BY <4>5, <4>7 DEF Answered, Covers
    <3>6. CASE w # Awaiting(r)
      <4>1. w.outcome = "none" => w.run # r
        BY <3>3, <3>4, <3>6 DEF Awaiting, Waits
      <4>2. w.outcome = "none" => w.answer = <<>> /\ q \in run'[w.run].owns
        BY <1>3, <3>3, <3>4, <4>1 DEF Waits
      <4>3. w.outcome = "done" => Covers(w.answer, q)'
        BY <1>1, <3>1, <3>4, CoversStays
      <4>4. obs'[s].waits[q.entity] = w
        BY <3>3, <3>6
      <4> QED
        BY <4>2, <4>3, <4>4 DEF Answered, Covers
    <3> QED
      BY <3>5, <3>6
  <2>10. Fits(s)'
    <3>1. obs'[s].plan = obs[s].plan /\ obs'[s].waits = after(s)
      BY <2>7
    <3>2. DOMAIN obs'[s].waits = {q.entity : q \in obs'[s].plan}
      BY <2>1, <2>4, <3>1 DEF Fits
    <3> QED
      BY <2>9, <3>1, <3>2 DEF Fits
  <2>11. obs'[s].plan = Plan(s, store') /\ obs'[s].stage = "wait"
    BY <1>0, <2>1, <2>7
  <2> QED
    BY <2>8, <2>10, <2>11 DEF ObserveOK
<1>11. obs' = [s \in Surface |-> obs'[s]]
  BY <1>0
<1> QED
  BY <1>1, <1>8, <1>9, <1>10, <1>11 DEF IInv

(***************************************************************************)
(* The live stream.                                                        *)
(***************************************************************************)

\* What the steps of the stream that leave the store alone keep.
LEMMA StreamStep ==
  ASSUME RemoteAssumption, IInv, UNCHANGED <<facts, store, obs, run, inFlight>>
  PROVE  FactsOK' /\ RunsOK' /\ StoreOK(store)' /\ obs' = [s \in Surface |-> obs'[s]]
         /\ \A s \in Surface : ObserveOK(s)'
<1>1. FactsOK' /\ StoreOK(store)' /\ GoneStays /\ obs' = [s \in Surface |-> obs'[s]]
  BY SameFacts DEF IInv
<1>2. RunsOK'
  BY <1>1, RunsKept DEF IInv
<1>3. ASSUME NEW s \in Surface PROVE ObserveOK(s)'
  <2>1. obs'[s] = obs[s] /\ ObserveOK(s) /\ (Shown(s) => Plan(s, store') = obs[s].plan)
    BY DEF IInv, ObserveOK
  <2> QED
    BY <1>1, <2>1, ObserveKept
<1> QED
  BY <1>1, <1>2, <1>3

\* What a fact makes of the store.
LEMMA PatchedOK ==
  ASSUME RemoteAssumption, FactsOK, StoreOK(store), NEW i \in 1..Len(facts)
  PROVE  StoreOK(Patched(i))
<1>1. PICK e \in Entity, f \in Field \cup {Deleted} : facts[i] = <<e, f>>
  BY DEF FactsOK
<1>2. i \in 0..MaxFacts
  BY DEF FactsOK, RemoteAssumption
<1>3. \A x \in Entity : Sound(store[x])
  BY DEF StoreOK
<1> DEFINE new == IF f = Deleted THEN Tombstone ELSE Written(store[e], [g \in {f} |-> i])
<1>4. Patched(i) = [store EXCEPT ![e] = new]
  BY <1>1 DEF Patched
<1>5. Sound(new)
  <2>1. CASE f = Deleted
    BY <2>1, EmptySound
  <2>2. CASE f # Deleted
    <3>1. [g \in {f} |-> i] \in [{f} -> 0..MaxFacts] /\ {f} \in SUBSET Field
      BY <1>2, <2>2
    <3>2. [g \in {f} |-> i] \in Values
      BY <3>1 DEF Values
    <3> QED
      BY <1>3, <2>2, <3>2, WrittenSound
  <2> QED
    BY <2>1, <2>2
<1> HIDE DEF new
<1> QED
  BY <1>3, <1>4, <1>5 DEF StoreOK

LEMMA SubscribeStep ==
  ASSUME RemoteAssumption, IInv, Subscribe
  PROVE  IInv'
<1>1. PICK from \in 0..Len(facts) :
        /\ Source = "hub" => from = Len(facts)
        /\ sub' = [from |-> from, taken |-> 0]
  BY DEF Subscribe
<1>2. live' = "on" /\ UNCHANGED <<facts, store, obs, run, inFlight, cursor, gap, known>>
  BY DEF Subscribe, server, reading
<1>3. sub' \in [from : Nat, taken : Nat] /\ sub'.from = from /\ sub'.taken = 0 /\ Len(facts) \in Nat
  BY <1>1 DEF IInv, FactsOK
<1>4. sub' # Nothing
  BY <1>3 DEF RemoteAssumption
<1>5. StreamOK'
  BY <1>1, <1>2, <1>3, <1>4 DEF IInv, StreamOK
<1> QED
  BY <1>2, <1>5, StreamStep DEF IInv

\* The fact a subscriber hears next, as the step sees it.
Received == sub.from + sub.taken + 1

\* An applied fact moves the cursor and the history with it.
LEMMA AppliedStep ==
  ASSUME RemoteAssumption, IInv, LiveReceived, ClassifyLive(Numbered(Received)) = "applied"
  PROVE  /\ Received \in 1..Len(facts) /\ Numbered(Received) \in Nat
         /\ cursor = 0 \/ Numbered(Received) = cursor + 1
         /\ Numbered(Received) <= Received
         /\ Source = "log" => Numbered(Received) = Received
         /\ Reduce(Patched(Received), obs)
         /\ cursor' = Numbered(Received) /\ gap' = FALSE /\ known' = Received
         /\ live' = "starting" /\ sub' = Nothing
         /\ UNCHANGED <<facts, run, inFlight>>
<1> DEFINE i == Received
           n == Numbered(i)
<1>1. /\ live = "on" /\ i <= Len(facts) /\ Reduce(Patched(i), obs)
      /\ cursor' = n /\ gap' = FALSE /\ known' = i /\ live' = "starting" /\ sub' = Nothing
      /\ UNCHANGED <<facts, run, inFlight>>
  BY DEF LiveReceived, server, reading, Received
<1>2. /\ sub \in [from : Nat, taken : Nat] /\ cursor \in Nat /\ known \in Nat /\ cursor <= known
      /\ Source = "hub" => known <= sub.from
      /\ Len(facts) \in Nat /\ Source \in {"hub", "log"}
  BY <1>1 DEF IInv, StreamOK, FactsOK, RemoteAssumption
<1>3. i \in 1..Len(facts) /\ i = sub.from + sub.taken + 1 /\ sub.from \in Nat /\ sub.taken \in Nat
  BY <1>1, <1>2 DEF Received
<1>4. n = IF Source = "log" THEN i ELSE cursor + (i - sub.from)
  BY DEF Numbered
<1> HIDE DEF i, n
<1>5. ~(n <= cursor) /\ (cursor = 0 \/ n = cursor + 1)
  BY DEF ClassifyLive, i, n
<1>6. n \in Nat /\ n <= i /\ (Source = "log" => n = i)
  BY <1>2, <1>3, <1>4, <1>5
<1> USE DEF i, n
<1> QED
  BY <1>1, <1>3, <1>5, <1>6

LEMMA LiveReceivedStep ==
  ASSUME RemoteAssumption, IInv, LiveReceived
  PROVE  IInv'
<1>1. CASE ClassifyLive(Numbered(Received)) = "applied"
  <2>1. /\ Received \in 1..Len(facts) /\ Numbered(Received) \in Nat /\ Numbered(Received) <= Received
        /\ Source = "log" => Numbered(Received) = Received
        /\ Reduce(Patched(Received), obs)
        /\ cursor' = Numbered(Received) /\ gap' = FALSE /\ known' = Received
        /\ live' = "starting" /\ sub' = Nothing
        /\ UNCHANGED <<facts, run, inFlight>>
    BY <1>1, AppliedStep
  <2>2. StoreOK(Patched(Received))
    BY <2>1, PatchedOK DEF IInv
  <2>3. StoreOK(store)' /\ obs' = [s \in Surface |-> obs'[s]] /\ \A s \in Surface : ObserveOK(s)'
    BY <2>1, <2>2, Reduced
  <2>4. FactsOK' /\ RunsOK'
    BY <2>1, ReducedRest
  <2>5. StreamOK'
    <3>1. Len(facts) \in Nat /\ facts' = facts
      BY <2>1 DEF IInv, FactsOK
    <3>2. cursor' \in Nat /\ known' \in Nat /\ cursor' <= known' /\ known' <= Len(facts')
      BY <2>1, <3>1
    <3>3. sub' = Nothing /\ live' = "starting" /\ gap' \in BOOLEAN /\ (Source = "log" => cursor' = known')
      BY <2>1
    <3> QED
      BY <3>2, <3>3 DEF StreamOK
  <2> QED
    BY <2>3, <2>4, <2>5 DEF IInv
<1>2. CASE ClassifyLive(Numbered(Received)) # "applied"
  <2>1. /\ live = "on" /\ Received <= Len(facts) /\ gap' \in BOOLEAN
        /\ sub' = [sub EXCEPT !.taken = @ + 1]
        /\ UNCHANGED <<facts, store, obs, run, inFlight, live, cursor, known>>
    BY <1>2 DEF LiveReceived, server, reading, Received
  <2>2. sub \in [from : Nat, taken : Nat]
    BY <2>1 DEF IInv, StreamOK
  <2>3. sub' \in [from : Nat, taken : Nat] /\ sub'.from = sub.from /\ sub'.taken = sub.taken + 1
    BY <2>1, <2>2
  <2>4. sub' # Nothing /\ sub'.from + sub'.taken <= Len(facts)
    <3>1. sub.from + (sub.taken + 1) = Received
      BY <2>2 DEF Received
    <3> QED
      BY <2>1, <2>3, <3>1 DEF RemoteAssumption
  <2>5. StreamOK'
    BY <2>1, <2>3, <2>4 DEF IInv, StreamOK
  <2> QED
    BY <2>1, <2>5, StreamStep DEF IInv
<1> QED
  BY <1>1, <1>2

LEMMA LiveBreaksStep ==
  ASSUME RemoteAssumption, IInv, LiveBreaks
  PROVE  IInv'
<1> DEFINE all == {[entity |-> e, fields |-> Field] : e \in Entity}
           st == SetStale(store, all, FALSE)
<1>1. /\ live' = "broken" /\ sub' = Nothing /\ Reduce(st, obs)
      /\ UNCHANGED <<facts, run, inFlight, cursor, gap, known>>
  BY DEF LiveBreaks, server, reading
<1>2. StoreOK(st)
  BY SetStaleOK DEF IInv
<1> HIDE DEF st
<1>3. StoreOK(store)' /\ obs' = [s \in Surface |-> obs'[s]] /\ \A s \in Surface : ObserveOK(s)'
  BY <1>1, <1>2, Reduced
<1>4. FactsOK' /\ RunsOK'
  BY <1>1, ReducedRest
<1>5. StreamOK'
  BY <1>1 DEF IInv, StreamOK
<1> QED
  BY <1>3, <1>4, <1>5 DEF IInv

LEMMA LiveReopenedStep ==
  ASSUME RemoteAssumption, IInv, LiveReopened
  PROVE  IInv'
<1>1. /\ live = "broken" /\ live' = "starting"
      /\ UNCHANGED <<facts, store, obs, run, inFlight, sub, cursor, gap, known>>
  BY DEF LiveReopened, server, reading
<1>2. StreamOK'
  BY <1>1 DEF IInv, StreamOK
<1> QED
  BY <1>1, <1>2, StreamStep DEF IInv

LEMMA GapClearedStep ==
  ASSUME RemoteAssumption, IInv, GapCleared
  PROVE  IInv'
<1>1. gap' = FALSE /\ UNCHANGED <<facts, store, obs, run, inFlight, sub, live, cursor, known>>
  BY DEF GapCleared, server, reading
<1>2. StreamOK'
  BY <1>1 DEF IInv, StreamOK
<1> QED
  BY <1>1, <1>2, StreamStep DEF IInv

(***************************************************************************)
(* The invariant.                                                          *)
(***************************************************************************)

LEMMA InitOK == ASSUME RemoteAssumption, Init PROVE IInv
<1>1. FactsOK
  BY DEF Init, FactsOK, RemoteAssumption
<1>2. StoreOK(store)
  BY EmptySound DEF Init, StoreOK
<1>3. StreamOK
  <2>1. Len(facts) = 0 /\ cursor = 0 /\ known = 0 /\ gap \in BOOLEAN
    BY DEF Init
  <2>2. sub = Nothing /\ live = "starting"
    BY DEF Init
  <2> QED
    BY <2>1, <2>2 DEF StreamOK
<1>4. RunsOK
  <2>1. Free \in Calls /\ Free.phase = "free"
    BY EmptyAnswer DEF Free, Calls
  <2>2. <<>> \in [{} -> Run] /\ DOMAIN <<>> = {} /\ {} \in SUBSET Requirement
    BY EmptyMap
  <2>3. inFlight \in UNION {[D -> Run] : D \in SUBSET Requirement} /\ DOMAIN inFlight = {}
    BY <2>2 DEF Init
  <2>4. run \in [Run -> Calls] /\ \A r \in Run : run[r].phase = "free"
    BY <2>1 DEF Init
  <2> QED
    BY <2>3, <2>4 DEF RunsOK
<1>5. obs = [s \in Surface |-> obs[s]] /\ \A s \in Surface : ObserveOK(s)
  BY DEF Init, ObserveOK, Shown
<1> QED
  BY <1>1, <1>2, <1>3, <1>4, <1>5 DEF IInv

LEMMA NextOK == ASSUME RemoteAssumption, IInv, [Next]_vars PROVE IInv'
<1>1. CASE UNCHANGED vars
  <2>1. UNCHANGED <<facts, store, obs, run, inFlight>> /\ UNCHANGED streaming
    BY <1>1 DEF vars, streaming
  <2>2. StreamOK'
    BY <2>1, StreamKept DEF IInv
  <2> QED
    BY <2>1, <2>2, StreamStep DEF IInv
<1>2. CASE Next
  <2>1. CASE ReadStep
    BY <2>1, RefreshStartedStep, ReadReceivedStep, ReadFailedStep DEF ReadStep
  <2>2. CASE RunStep
    <3>1. ASSUME NEW r \in Run, ReadSettles(r) PROVE IInv'
      <4>1. run[r].phase = "served" /\ Settle(r, "done")
        BY <3>1 DEF ReadSettles
      <4> QED
        BY <4>1, SettleStep
    <3>2. ASSUME NEW r \in Run, ReadFails(r) PROVE IInv'
      <4>1. run[r].phase = "read" /\ Settle(r, "failed")
        BY <3>2 DEF ReadFails
      <4> QED
        BY <4>1, SettleStep
    <3> QED
      BY <2>2, <3>1, <3>2, RunAllStep, ServeStep DEF RunStep
  <2>3. CASE LiveStep
    BY <2>3, SubscribeStep, LiveReceivedStep, LiveBreaksStep, LiveReopenedStep, GapClearedStep DEF LiveStep
  <2>4. CASE \E s \in Surface : Show(s) \/ Hide(s)
    BY <2>4, ShowStep, HideStep
  <2>5. CASE \E e \in Entity, f \in Field \cup {Deleted} : Change(e, f)
    BY <2>5, ChangeStep
  <2> QED
    BY <1>2, <2>1, <2>2, <2>3, <2>4, <2>5 DEF Next
<1> QED
  BY <1>1, <1>2

\* The entries, the runs, the index of what they read and the stream fit
\* together in every reachable state (coalesce.ts:86-156, index.ts:540-559).
THEOREM RemoteInvariant == Spec => []IInv
<1>1. Init => IInv
  BY RemoteAssumption, InitOK
<1>2. IInv /\ [Next]_vars => IInv'
  BY RemoteAssumption, NextOK
<1> QED
  BY <1>1, <1>2, PTL DEF Spec

LEMMA OwnedOfInvariant == ASSUME RemoteAssumption, IInv PROVE ReadsAreOwned
<1>1. TypeOK
  <2>1. FactsOK /\ StreamOK /\ Len(facts) \in Nat /\ MaxFacts \in Nat
    BY DEF IInv, FactsOK, RemoteAssumption
  <2>2. ASSUME NEW e \in Entity PROVE EntryOK(store[e])
    <3>1. Sound(store[e])
      BY DEF IInv, StoreOK
    <3>2. PICK D \in SUBSET Field : store[e].values \in [D -> 0..MaxFacts]
      BY <3>1 DEF Sound, Entries, Values
    <3> QED
      BY <3>1, <3>2 DEF Sound, EntryOK
  <2>3. \A s \in Surface : Shown(s) => obs[s] \in Observes
    BY DEF IInv, ObserveOK
  <2>4. DOMAIN inFlight \subseteq Requirement /\ \A r \in Run : run[r].phase \in {"free", "read", "served"}
    BY DEF IInv, RunsOK, Calls
  <2>5. cursor \in 0..MaxFacts /\ known \in 0..MaxFacts
    BY <2>1 DEF StreamOK, FactsOK
  <2> QED
    BY <2>1, <2>2, <2>3, <2>4, <2>5 DEF TypeOK, FactsOK, StreamOK, Observes
<1>2. ASSUME NEW s \in Surface, In(s, "wait"), NEW q \in obs[s].plan, obs[s].waits[q.entity].outcome = "none"
      PROVE  q \in run[obs[s].waits[q.entity].run].owns
  BY <1>2 DEF IInv, ObserveOK, In, Fits, Answered
<1>3. WaitersHaveReaders
  <2>1. RunsOK
    BY DEF IInv
  <2>2. \A q \in DOMAIN inFlight : inFlight[q] \in Run
    BY <2>1 DEF RunsOK
  <2>3. \A r \in Run : run[r].phase \in {"free", "read", "served"}
    BY <2>1 DEF RunsOK, Calls
  <2> QED
    BY <1>2, <2>1, <2>2, <2>3 DEF WaitersHaveReaders, RunsOK
<1> QED
  BY <1>1, <1>3 DEF ReadsAreOwned

\* A requirement in flight is read by one run that will settle it, and no
\* joining, interruption or route change leaves a waiting Surface without a
\* reader (coalesce.ts:86-130).
THEOREM ReadsAlwaysOwned == Spec => []ReadsAreOwned
<1>1. IInv => ReadsAreOwned
  BY RemoteAssumption, OwnedOfInvariant
<1> QED
  BY <1>1, RemoteInvariant, PTL

\* A cache-first Surface at rest has everything the server could give it,
\* unless its last read failed (index.ts:540-559, coalesce.ts:131-156).
THEOREM IdleAlwaysComplete == Spec => []IdleIsComplete
<1>1. IInv => IdleIsComplete
  BY DEF IInv, ObserveOK, IdleIsComplete, In
<1> QED
  BY <1>1, RemoteInvariant, PTL

\* From a source with a log of its own, no fact between two applied ones is
\* skipped (live.ts; a hub does skip them, which a run shows).
THEOREM NoLoggedFactSkipped ==
  ASSUME Source = "log"
  PROVE  Spec => NoFactSkipped
<1>1. IInv /\ [Next]_vars => [known' # known => known = 0 \/ known' = known + 1]_known
  <2> SUFFICES ASSUME IInv, [Next]_vars, known' # known PROVE known = 0 \/ known' = known + 1
    OBVIOUS
  <2>1. LiveReceived /\ ClassifyLive(Numbered(Received)) = "applied"
    <3>1. ~(UNCHANGED known)
      OBVIOUS
    <3>2. Next
      BY <3>1 DEF vars
    <3>3. ASSUME UNCHANGED streaming PROVE FALSE
      BY <3>1, <3>3 DEF streaming
    <3>4. LiveStep
      BY <3>2, <3>3 DEF Next, ReadStep, RunStep, RefreshStarted, ReadReceived, ReadFailed, RunAll, Serve,
         ReadSettles, ReadFails, Settle, Show, Hide, Change
    <3>5. LiveReceived
      BY <3>1, <3>4 DEF LiveStep, Subscribe, LiveBreaks, LiveReopened, GapCleared
    <3>6. ClassifyLive(Numbered(Received)) = "applied"
      BY <3>1, <3>5 DEF LiveReceived, Received
    <3> QED
      BY <3>5, <3>6
  <2>2. known' = Received /\ (cursor = 0 \/ Numbered(Received) = cursor + 1) /\ Numbered(Received) = Received
    BY <2>1, RemoteAssumption, AppliedStep
  <2>3. cursor = known
    BY DEF IInv, StreamOK
  <2> QED
    BY <2>2, <2>3
<1> QED
  BY <1>1, RemoteInvariant, PTL DEF Spec, NoFactSkipped

=============================================================================
