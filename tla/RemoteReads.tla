---------------------------- MODULE RemoteReads ----------------------------
(***************************************************************************)
(* The client cache of foldkit-remote between the reads that fill it and   *)
(* the live facts that change it (packages/remote/src): Surfaces observe   *)
(* entities and plan what the cache lacks, a coalescer batches and shares  *)
(* their reads, one live subscription patches the same cache, and the      *)
(* server changes meanwhile.                                               *)
(*                                                                         *)
(* The server's history is a sequence of facts; fact i sets a field to the *)
(* value i, or deletes an entity.                                          *)
(***************************************************************************)
EXTENDS Integers, Sequences, FiniteSets

CONSTANTS Entity, Field,
          Surface,       \* observe entries the application may show
          Needs,         \* the requirements of a Surface: entity -> fields
          Refreshing,    \* the Surfaces under the NetworkOnly policy
          Order,         \* the entities in the order of their keys
          Run,           \* calls of runAll that may be under way at once
          Source,        \* the live source: a "hub" or a "log" of its own
          Deleted,       \* in the place of a field: the fact deletes the entity
          Nothing,       \* undefined
          MaxFacts,      \* bound: changes on the server
          MaxShows,      \* bound: how often one Surface is shown
          Faulty,        \* may reads fail and live streams break?
          Deletes        \* may entities be deleted?

\* The order names every entity, and undefined is not a subscriber.
ASSUME RemoteAssumption ==
  /\ Needs \in [Surface -> [Entity -> SUBSET Field]] /\ Refreshing \subseteq Surface
  /\ Order \in Seq(Entity) /\ \A e \in Entity : \E i \in DOMAIN Order : Order[i] = e
  /\ Source \in {"hub", "log"} /\ Deleted \notin Field
  /\ {MaxFacts, MaxShows} \subseteq Nat /\ {Faulty, Deletes} \subseteq BOOLEAN
  /\ Nothing \notin [from : Nat, taken : Nat]

VARIABLES facts,     \* the server's history of changes
          store,     \* the client's entity store
          obs,       \* Surface -> its observe entry, or Nothing while not shown
          shows,     \* Surface -> how often it was shown
          run,       \* calls of runAll
          inFlight,  \* requirement -> the run that reads it
          sub,       \* the server's live subscriber, or Nothing
          live,      \* "starting" | "on" | "broken": the client's live entry
          cursor,    \* the client's LiveState.cursor, 0 for no baseline
          gap,       \* the stream is in RemoteModel.gaps
          known      \* history: the last live fact applied

server == <<facts>>
reading == <<shows, run, inFlight>>
streaming == <<sub, live, cursor, gap, known>>
vars == <<facts, store, obs, shows, run, inFlight, sub, live, cursor, gap, known>>

(***************************************************************************)
(* The entity store.  An unknown entity is the empty entry.                *)
(***************************************************************************)

EmptyEntry == [values |-> <<>>, stale |-> {}, tombstone |-> FALSE]

Tombstone == [values |-> <<>>, stale |-> {}, tombstone |-> TRUE]

Written(entry, values) ==
  [values    |-> [f \in DOMAIN entry.values \cup DOMAIN values |->
                    IF f \in DOMAIN values THEN values[f] ELSE entry.values[f]],
   stale     |-> entry.stale \ DOMAIN values,
   tombstone |-> FALSE]

\* The fields a set of requirements names of an entity.
FieldsOf(requirements, e) == UNION {q.fields : q \in {r \in requirements : r.entity = e}}

\* setStale: only a present field becomes stale.
SetStale(st, requirements, stale) ==
  [e \in Entity |->
     [st[e] EXCEPT !.stale = IF stale THEN @ \cup (FieldsOf(requirements, e) \cap DOMAIN st[e].values)
                             ELSE @ \ FieldsOf(requirements, e)]]

Missing(entry, fields) ==
  IF entry.tombstone THEN {} ELSE (fields \ DOMAIN entry.values) \cup (fields \cap entry.stale)

\* The requirements a Surface's policy fetches.
Plan(s, st) ==
  LET wanted(e) == IF s \in Refreshing THEN Needs[s][e] ELSE Missing(st[e], Needs[s][e])
  IN  {[entity |-> e, fields |-> wanted(e)] : e \in {e \in Entity : wanted(e) # {}}}

\* A call slot without a call, and a waiter's place for a run's answer.
Free == [phase |-> "free", owns |-> {}, answer |-> <<>>]
Awaiting(r) == [run |-> r, outcome |-> "none", answer |-> <<>>]

(***************************************************************************)
(* Observe entries.  Their dependencies are the plan: whenever a Message   *)
(* changes it, Foldkit interrupts the entry's stream and starts a new one. *)
(***************************************************************************)

Started(s, plan) ==
  [plan |-> plan, waits |-> <<>>, failed |-> FALSE,
   stage |-> IF plan = {} THEN "idle" ELSE IF s \in Refreshing THEN "refresh" ELSE "collect"]

Replanned(entries, st) ==
  [s \in Surface |->
     IF entries[s] = Nothing \/ entries[s].plan = Plan(s, st) THEN entries[s]
     ELSE Started(s, Plan(s, st))]

\* The Model's new store, and what its dependents make of it.
Reduce(st, entries) == store' = st /\ obs' = Replanned(entries, st)

Idle(s) == [obs EXCEPT ![s].stage = "idle", ![s].waits = <<>>]

Init ==
  /\ facts = <<>>
  /\ store = [e \in Entity |-> EmptyEntry]
  /\ obs = [s \in Surface |-> Nothing]
  /\ shows = [s \in Surface |-> 0]
  /\ run = [r \in Run |-> Free]
  /\ inFlight = <<>>
  /\ sub = Nothing
  /\ live = "starting"
  /\ cursor = 0
  /\ gap = FALSE
  /\ known = 0

Shown(s) == obs[s] # Nothing
In(s, stage) == Shown(s) /\ obs[s].stage = stage

Show(s) ==
  /\ ~Shown(s) /\ shows[s] < MaxShows
  /\ obs' = [obs EXCEPT ![s] = Started(s, Plan(s, store))]
  /\ shows' = [shows EXCEPT ![s] = @ + 1]
  /\ UNCHANGED <<server, store, run, inFlight, streaming>>

\* The route changes: the entry's fiber is interrupted wherever it is.
Hide(s) ==
  /\ Shown(s)
  /\ obs' = [obs EXCEPT ![s] = Nothing]
  /\ UNCHANGED <<server, store, reading, streaming>>

\* A refreshing policy marks what it refetches first.
RefreshStarted(s) ==
  /\ In(s, "refresh")
  /\ Reduce(SetStale(store, obs[s].plan, TRUE), [obs EXCEPT ![s].stage = "collect"])
  /\ UNCHANGED <<server, reading, streaming>>

(***************************************************************************)
(* The coalescer: coalesceReads.                                           *)
(***************************************************************************)

\* Mutant: a requirement in flight is read again.
OwnedAll(entries) == entries

\* The requirements among these that no earlier run has in flight.
Owned(entries) == entries \ DOMAIN inFlight

\* The requests collected since the last call of runAll: each joins the run
\* its requirement is in flight with, or is owned by this one.  (runAll answers
\* its requests in their order once its own reads are done; here an answer is
\* there as soon as its reader has it, so every order of the code is included.)
RunAll(r) ==
  LET batch == {s \in Surface : In(s, "collect")}
      own == Owned(UNION {obs[s].plan : s \in batch})
      reader(q) == IF q \in own THEN r ELSE inFlight[q]
  IN  /\ batch # {} /\ run[r] = Free
      /\ obs' = [s \in Surface |->
           IF s \notin batch THEN obs[s]
           ELSE [obs[s] EXCEPT !.stage = "wait",
                   !.waits = [e \in {q.entity : q \in obs[s].plan} |->
                                Awaiting(reader(CHOOSE q \in obs[s].plan : q.entity = e))]]]
      /\ IF own = {} THEN UNCHANGED <<run, inFlight>>
         ELSE /\ run' = [run EXCEPT ![r] = [phase |-> "read", owns |-> own, answer |-> <<>>]]
              /\ inFlight' = [q \in DOMAIN inFlight \cup own |-> reader(q)]
      /\ UNCHANGED <<server, store, shows, streaming>>

Value(e, f) ==
  LET changes == {i \in DOMAIN facts : facts[i] = <<e, f>>}
  IN  IF changes = {} THEN 0 ELSE CHOOSE i \in changes : \A j \in changes : j <= i

Gone(e) == \E i \in DOMAIN facts : facts[i] = <<e, Deleted>>

\* The server reads the union of the fields the run owns for each entity it
\* owns one of (they are of one type); an entity it does not have is not in the
\* answer.
Serve(r) ==
  /\ run[r].phase = "read"
  /\ run' = [run EXCEPT ![r].phase = "served",
       ![r].answer = [e \in {q.entity : q \in {p \in run[r].owns : ~Gone(p.entity)}} |->
                        [f \in UNION {q.fields : q \in run[r].owns} |-> Value(e, f)]]]
  /\ UNCHANGED <<server, store, obs, shows, inFlight, streaming>>

\* The deferreds of everything the run owns are done and released, whoever
\* still waits for them.
Settle(r, outcome) ==
  /\ run' = [run EXCEPT ![r] = Free]
  /\ inFlight' = [q \in DOMAIN inFlight \ run[r].owns |-> inFlight[q]]
  /\ obs' = [s \in Surface |->
       IF ~In(s, "wait") THEN obs[s]
       ELSE [obs[s] EXCEPT !.waits = [e \in DOMAIN @ |->
               IF @[e] = Awaiting(r) THEN [run |-> r, outcome |-> outcome, answer |-> run[r].answer]
               ELSE @[e]]]]
  /\ UNCHANGED <<server, store, shows, streaming>>

\* A batch runs to completion even when every requester was interrupted.
ReadSettles(r) == run[r].phase = "served" /\ Settle(r, "done")

ReadFails(r) == Faulty /\ run[r].phase = "read" /\ Settle(r, "failed")

\* What a waiting Surface has been answered so far.
Outcomes(s) == {obs[s].waits[e].outcome : e \in DOMAIN obs[s].waits}

\* The distinct results of a Surface's requirements: those shared by several
\* are one.
Results(s) == {obs[s].waits[e] : e \in DOMAIN obs[s].waits}

\* Where a result comes in the order of the requirements.
FirstAt(s, w) ==
  LET at == {i \in DOMAIN Order : Order[i] \in DOMAIN obs[s].waits /\ obs[s].waits[Order[i]] = w}
  IN  CHOOSE i \in at : \A j \in at : i <= j

\* The results that hold an entity, and among them those that hold a field.
Telling(s, e) == {w \in Results(s) : e \in DOMAIN w.answer}
TellingOf(s, e, f) == {w \in Telling(s, e) : f \in DOMAIN w.answer[e]}

\* The results are written one over the other, so the last of them stays.
LastTold(s, e, f) ==
  (CHOOSE w \in TellingOf(s, e, f) :
     \A v \in TellingOf(s, e, f) : FirstAt(s, v) <= FirstAt(s, w)).answer[e][f]

\* writeEntities with the results of a Surface's read.
Landed(s) ==
  [e \in Entity |->
     IF Telling(s, e) = {} THEN store[e]
     ELSE Written(store[e], [f \in UNION {DOMAIN w.answer[e] : w \in Telling(s, e)} |-> LastTold(s, e, f)])]

\* Mutant: a read's result is thrown away.
ReadReceivedDropped(s) ==
  /\ In(s, "wait")
  /\ Outcomes(s) = {"done"}
  /\ Reduce(store, Idle(s))
  /\ UNCHANGED <<server, reading, streaming>>

\* Every requirement answered: the whole result of every run is written, what
\* other requests asked of the same run included.
ReadReceived(s) ==
  /\ In(s, "wait")
  /\ Outcomes(s) = {"done"}
  /\ Reduce(Landed(s), Idle(s))
  /\ UNCHANGED <<server, reading, streaming>>

\* One failure is enough; the refresh is over.
ReadFailed(s) ==
  /\ In(s, "wait")
  /\ "failed" \in Outcomes(s)
  /\ Reduce(SetStale(store, obs[s].plan, FALSE), [Idle(s) EXCEPT ![s].failed = TRUE])
  /\ UNCHANGED <<server, reading, streaming>>

(***************************************************************************)
(* The server's changes and the live subscription.  The entry's            *)
(* dependencies hold the resume cursor, so every event that advances it    *)
(* restarts the subscription.                                              *)
(***************************************************************************)

Change(e, f) ==
  /\ Len(facts) < MaxFacts /\ ~Gone(e)
  /\ f = Deleted => Deletes
  /\ facts' = Append(facts, <<e, f>>)
  /\ UNCHANGED <<store, obs, reading, streaming>>

\* A hub hears of what happens from now on; a log resumes after the cursor, or
\* repeats from before it, or has lost what was there.
Subscribe ==
  /\ live = "starting"
  /\ \E from \in 0..Len(facts) :
       /\ Source = "hub" => from = Len(facts)
       /\ sub' = [from |-> from, taken |-> 0]
  /\ live' = "on"
  /\ UNCHANGED <<server, store, obs, reading, cursor, gap, known>>

\* The number an event carries: a log's own, or the hub's, counted on from the
\* cursor the subscriber resumed at.
Numbered(i) == IF Source = "log" THEN i ELSE cursor + (i - sub.from)

\* Mutant: an event ahead of the cursor is applied.
ClassifyAhead(n) == IF n <= cursor THEN "duplicate" ELSE "applied"

ClassifyLive(n) ==
  IF n <= cursor THEN "duplicate"
  ELSE IF cursor = 0 \/ n = cursor + 1 THEN "applied"
  ELSE "gap"

\* What a fact makes of the store.
Patched(i) ==
  LET e == facts[i][1]
      f == facts[i][2]
  IN  [store EXCEPT ![e] = IF f = Deleted THEN Tombstone ELSE Written(@, [g \in {f} |-> i])]

LiveReceived ==
  LET i == sub.from + sub.taken + 1
      n == Numbered(i)
  IN  /\ live = "on" /\ i <= Len(facts)
      /\ CASE ClassifyLive(n) = "applied" ->
                /\ Reduce(Patched(i), obs)
                /\ cursor' = n /\ gap' = FALSE /\ known' = i
                /\ live' = "starting" /\ sub' = Nothing
           [] ClassifyLive(n) = "duplicate" ->
                /\ gap' = FALSE
                /\ sub' = [sub EXCEPT !.taken = @ + 1]
                /\ UNCHANGED <<store, obs, live, cursor, known>>
           [] OTHER ->
                /\ gap' = TRUE
                /\ sub' = [sub EXCEPT !.taken = @ + 1]
                /\ UNCHANGED <<store, obs, live, cursor, known>>
      /\ UNCHANGED <<server, reading>>

\* The stream breaks: one ReadFailed for everything it covers, and no more
\* until the application shows it again.
LiveBreaks ==
  /\ Faulty /\ live = "on"
  /\ live' = "broken" /\ sub' = Nothing
  /\ Reduce(SetStale(store, {[entity |-> e, fields |-> Field] : e \in Entity}, FALSE), obs)
  /\ UNCHANGED <<server, reading, cursor, gap, known>>

LiveReopened ==
  /\ live = "broken"
  /\ live' = "starting"
  /\ UNCHANGED <<server, store, obs, reading, sub, cursor, gap, known>>

\* The application refetched and says so.
GapCleared ==
  /\ gap
  /\ gap' = FALSE
  /\ UNCHANGED <<server, store, obs, reading, sub, live, cursor, known>>

ReadStep == \E s \in Surface : RefreshStarted(s) \/ ReadReceived(s) \/ ReadFailed(s)
RunStep  == \E r \in Run : RunAll(r) \/ Serve(r) \/ ReadSettles(r) \/ ReadFails(r)
LiveStep == Subscribe \/ LiveReceived \/ LiveBreaks \/ LiveReopened \/ GapCleared

Next ==
  \/ ReadStep \/ RunStep \/ LiveStep
  \/ \E s \in Surface : Show(s) \/ Hide(s)
  \/ \E e \in Entity, f \in Field \cup {Deleted} : Change(e, f)

Spec == Init /\ [][Next]_vars

(***************************************************************************)
(* Properties                                                              *)
(***************************************************************************)

Requirement == [entity : Entity, fields : SUBSET Field]

EntryOK(entry) ==
  /\ DOMAIN entry.values \subseteq Field /\ \A f \in DOMAIN entry.values : entry.values[f] \in 0..MaxFacts
  /\ entry.stale \subseteq DOMAIN entry.values
  /\ entry.tombstone => entry.values = <<>>

\* Types; a tombstone knows no field and only a known field is stale.
TypeOK ==
  /\ facts \in Seq(Entity \X (Field \cup {Deleted})) /\ Len(facts) <= MaxFacts
  /\ \A e \in Entity : EntryOK(store[e])
  /\ \A s \in Surface : Shown(s) =>
       /\ obs[s].plan \subseteq Requirement
       /\ obs[s].stage \in {"idle", "refresh", "collect", "wait"}
       /\ obs[s].failed \in BOOLEAN
  /\ DOMAIN inFlight \subseteq Requirement
  /\ \A r \in Run : run[r].phase \in {"free", "read", "served"}
  /\ live \in {"starting", "on", "broken"} /\ (sub # Nothing <=> live = "on")
  /\ cursor \in 0..MaxFacts /\ gap \in BOOLEAN /\ known \in 0..MaxFacts

\* A requirement in flight is read by exactly one run, which will settle it,
\* and every waiting Surface waits for runs that read what it planned: joining
\* and interruption leave no waiter without a reader (coalesce.ts:86-130).
WaitersHaveReaders ==
  /\ \A r \in Run : run[r].phase \in {"read", "served"} =>
       \A q \in run[r].owns : q \in DOMAIN inFlight /\ inFlight[q] = r
  /\ \A q \in DOMAIN inFlight :
       run[inFlight[q]].phase \in {"read", "served"} /\ q \in run[inFlight[q]].owns
  /\ \A s \in Surface : In(s, "wait") =>
       \A q \in obs[s].plan : LET w == obs[s].waits[q.entity]
                              IN  w.outcome = "none" => q \in run[w.run].owns

\* Every read under way has one owner, and every waiting Surface a reader.
ReadsAreOwned == TypeOK /\ WaitersHaveReaders

\* A Surface under cache-first that has nothing under way shows everything it
\* needs, unless its last read failed or the server has no such entity: no
\* shared, joined or interrupted read leaves a hole that nobody is filling.
IdleIsComplete ==
  \A s \in Surface \ Refreshing : In(s, "idle") /\ ~obs[s].failed =>
    \A q \in obs[s].plan : Gone(q.entity)

\* Live facts are applied one after the other; what lies between two applied
\* facts is never skipped: an event "ahead of the cursor is a gap, so the host
\* can resync rather than silently miss facts" (docs/remote.md:170-172).
NoFactSkipped ==
  [][known' # known => known = 0 \/ known' = known + 1]_known
=============================================================================
