----------------------------- MODULE MCProgress -----------------------------
(***************************************************************************)
(* Small instances, for TLC, of what has to go on: the journal under       *)
(* synchronous callers and its subscriber (Journal, the constants of the   *)
(* .cfg), or two replicas without faults (SyncSystem).                     *)
(* The part that runs is chosen initially, the other rests; nothing of a   *)
(* part at rest is enabled, so each Fairness only drives its own part.     *)
(***************************************************************************)
EXTENDS MCJournal, TLC

CONSTANTS r1, r2, h1, h2, f1, f2, k1, Producer, Nothing

VARIABLES part,
          tables, disk, mem, current, saving, sent, awake, job, issued, refused, evicted

TwoHomes == h1 :> r1 @@ h2 :> r2
TwoTabs  == f1 :> h1 @@ f2 :> h2
Willing(snapshot, op, actor) == "reduce"

\* r2 has no right to write: its operations are rejected.
Replicas == INSTANCE SyncProperties WITH Replica <- {r1, r2}, Reader <- {r2}, Handle <- {h1, h2}, Home <- TwoHomes,
          Fiber <- {f1, f2}, Tab <- TwoTabs, Slot <- {k1}, Data <- {x}, MaxLocal <- 1, MaxServer <- 0,
          Actor <- {r1, r2, Producer}, OpId <- {<<r1, 1>>, <<r2, 1>>, <<Producer, 1>>, <<Producer, 2>>}, Window <- 1,
          Faulty <- FALSE, Evictable <- FALSE, Accept <- Willing, wake <- awake

syncVars == <<tables, disk, mem, current, saving, sent, awake, job, issued, refused, evicted>>

ProgressInit == part \in {"journal", "replicas"} /\ Init /\ Replicas!Init

ProgressNext == \/ part = "journal" /\ Next /\ UNCHANGED <<part, syncVars>>
                \/ part = "replicas" /\ Replicas!Next /\ UNCHANGED <<part, vars>>

ProgressSpec == /\ ProgressInit /\ [][ProgressNext]_<<part, vars, syncVars>>
                /\ Fairness /\ Replicas!Fairness

\* SyncProperties: every operation leaves the outbox of a replica that stays open.
OutboxDrains == Replicas!OutboxDrains
=============================================================================
