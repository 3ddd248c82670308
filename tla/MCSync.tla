------------------------------- MODULE MCSync -------------------------------
(***************************************************************************)
(* Small instances of SyncSystem for TLC: one replica under every fault    *)
(* (the constants of the .cfg), and beside it, over variables of their     *)
(* own, two tabs of one replica, or two replicas.  The part that runs is   *)
(* chosen initially, the others rest.                                      *)
(***************************************************************************)
EXTENDS SyncProperties, TLC

CONSTANTS r1, r2, h1, h2, f1, f2, k1, k2, x, y

VARIABLES part,
          log, store, open, latest, writing, asked, awake, request, submitted, dropped, lost

\* Two replicas, a tab each.
TwoHomes == h1 :> r1 @@ h2 :> r2
\* Two tabs of one replica.
OneHome  == h1 :> r1 @@ h2 :> r1
\* One tab.
Alone    == h1 :> r1

TwoTabs   == f1 :> h1 @@ f2 :> h2
OneFiber  == f1 :> h1

MCActor == Replica \cup {Producer}
MCOpId  == (Replica \X (1..MaxLocal)) \cup ({Producer} \X (1..MaxCursor))

\* The server refuses r1's second operation, always.
Stable(snapshot, op, actor) ==
  IF op.id = <<r1, 2>> THEN "refused" ELSE "reduce"

\* A payload y replays only on an empty document (say, "create the list").
OnlyFirst(snapshot, op, actor) ==
  IF op.data = y /\ snapshot # <<>> THEN "invalid" ELSE "reduce"

\* Two tabs, an operation each of either payload, storage that may be evicted.
Tabs == INSTANCE SyncProperties WITH Replica <- {r1}, Reader <- {}, Handle <- {h1, h2}, Home <- OneHome,
          Fiber <- {f1, f2}, Tab <- TwoTabs, Slot <- {k1}, Data <- {x, y}, MaxLocal <- 1, MaxServer <- 0,
          Actor <- {r1, Producer}, OpId <- {<<r1, 1>>, <<Producer, 1>>}, Window <- 1,
          Faulty <- FALSE, Evictable <- TRUE,
          tables <- log, disk <- store, mem <- open, current <- latest, saving <- writing, sent <- asked,
          wake <- awake, job <- request, issued <- submitted, refused <- dropped, evicted <- lost

\* Two replicas, one without the right to write.
Two == INSTANCE SyncProperties WITH Replica <- {r1, r2}, Reader <- {r2}, Handle <- {h1, h2}, Home <- TwoHomes,
          Fiber <- {f1, f2}, Tab <- TwoTabs, Slot <- {k1}, Data <- {x}, MaxLocal <- 1, MaxServer <- 0,
          Actor <- {r1, r2, Producer}, OpId <- {<<r1, 1>>, <<r2, 1>>, <<Producer, 1>>, <<Producer, 2>>}, Window <- 1,
          Faulty <- FALSE, Evictable <- FALSE,
          tables <- log, disk <- store, mem <- open, current <- latest, saving <- writing, sent <- asked,
          wake <- awake, job <- request, issued <- submitted, refused <- dropped, evicted <- lost

others == <<log, store, open, latest, writing, asked, awake, request, submitted, dropped, lost>>
partVars == <<part, vars, others>>

PartsInit(parts) ==
  /\ part \in parts
  /\ Init
  /\ IF part = "two" THEN Two!Init ELSE Tabs!Init

PartsNext == \/ part = "one" /\ Next /\ UNCHANGED <<part, others>>
             \/ part = "tabs" /\ Tabs!Next /\ UNCHANGED <<part, vars>>
             \/ part = "two" /\ Two!Next /\ UNCHANGED <<part, vars>>

PartsSpec == PartsInit({"one", "tabs", "two"}) /\ [][PartsNext]_partVars

\* One tab, for a run of its own.
RebaseSpec == PartsInit({"one"}) /\ [][PartsNext]_partVars

\* However two tabs of one storage interleave, their operations never share an
\* identity, nothing is lost and no save takes the replica back.
TabsHold ==
  /\ [](part = "tabs" => /\ Tabs!CommittedIsServerPrefix /\ Tabs!LogIsGenuine /\ Tabs!OutboxIsKept
                         /\ Tabs!StoredIdentityIsStable)
  /\ [][part = "tabs" => Tabs!StorageAdvances]_store

\* Two replicas are lagging views of one ordered document, whatever the order
\* in which they commit.
ReplicasHold ==
  /\ [](part = "two" => /\ Two!CommittedIsServerPrefix /\ Two!AppliedOnce
                        /\ Two!RejectedIsNotCommitted /\ Two!LogIsGenuine /\ Two!OutboxIsKept)
  /\ part = "two" => Two!Document!Init
  /\ [][part = "two" => Two!DocumentStep]_<<log, store>>

\* What one replica under faults keeps, several tabs and replicas keep as far
\* as it is promised to them (indexedDb.ts:67-95, sync.ts:534-624).
TabsAndReplicasHold == TabsHold /\ ReplicasHold
=============================================================================
