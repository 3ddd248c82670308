------------------------- MODULE WebMcpRegistration -------------------------
(***************************************************************************)
(* Tools registered with document.modelContext                             *)
(* (packages/agent-webmcp/src/register.ts): serialized reconciles that     *)
(* follow the Model's availability, against unregister landing at any      *)
(* await, and a browser that may refuse a registration.                    *)
(***************************************************************************)
EXTENDS Naturals, Sequences, FiniteSets

CONSTANTS Tool,        \* capability names
          Priority,    \* the order of the contract's variants: Tool -> Nat
          MaxChanges,  \* bound: changes of the Model and calls of refresh
          MaxRefusals, \* bound: reads that reject and registrations the browser refuses
          Nothing      \* undefined

VARIABLES current,      \* the tools available in the Model
          controllers,  \* tools recorded as registered
          browser,      \* tool -> registrations the browser holds
          disposed,     \* unregister was called
          queued,       \* reconciles that wait for their turn
          job,          \* the reconcile that runs, or Nothing
          changes, refusals, \* counters for the bounds
          failed,       \* history: tools the last finished reconcile was refused
          unread        \* history: the last reconcile's read rejected

vars == <<current, controllers, browser, disposed, queued, job, changes, refusals, failed, unread>>

\* A reconcile that waits for the tools it wants: what it still has to look at,
\* the tool whose registration it awaits, and the tools it was refused.
Started(wanted) == [wanted |-> wanted, todo |-> {}, awaits |-> Nothing, refused |-> {}, phase |-> "read"]

Job == [wanted : SUBSET Tool, todo : SUBSET Tool, awaits : Tool \cup {Nothing}, refused : SUBSET Tool,
        phase : {"read", "registering"}]

\* reconcile: the call waits for all before it.
Enqueue == queued' = queued + 1

Begin ==
  /\ job = Nothing /\ queued > 0
  /\ queued' = queued - 1
  /\ job' = IF disposed THEN Nothing ELSE Started(current)
  /\ failed' = {} /\ unread' = FALSE
  /\ UNCHANGED <<current, controllers, browser, disposed, changes, refusals>>

\* The read rejects (an availability getter threw): nothing changes, and who
\* waits for the reconcile, or onError, is told.
ReadRejected ==
  /\ job # Nothing /\ job.phase = "read" /\ refusals < MaxRefusals
  /\ refusals' = refusals + 1
  /\ job' = Nothing /\ unread' = TRUE
  /\ UNCHANGED <<current, controllers, browser, disposed, queued, changes, failed>>

\* Aborting a controller takes one registration back.
Aborted(tools) == [t \in Tool |-> IF t \in tools THEN browser[t] - 1 ELSE browser[t]]

\* The read resumes: tools no longer wanted go.
Withdraw ==
  /\ job # Nothing /\ job.phase = "read"
  /\ LET gone == controllers \ job.wanted
     IN  controllers' = controllers \ gone /\ browser' = Aborted(gone)
  /\ job' = [job EXCEPT !.phase = "registering", !.todo = job.wanted]
  /\ UNCHANGED <<current, disposed, queued, changes, refusals, failed, unread>>

\* The next tool of the loop: the first wanted one not registered yet.
First(t, tools) == t \in tools /\ \A u \in tools : Priority[t] <= Priority[u]

Finished == job' = Nothing /\ failed' = job.refused

\* registerTool is called for the next tool, or the loop ends.
Register ==
  /\ job # Nothing /\ job.phase = "registering" /\ job.awaits = Nothing
  /\ LET left == job.todo \ controllers
     IN  IF disposed \/ left = {} THEN Finished /\ UNCHANGED browser
         ELSE \E t \in Tool : /\ First(t, left)
                              /\ job' = [job EXCEPT !.awaits = t, !.todo = left \ {t}]
                              /\ browser' = [browser EXCEPT ![t] = @ + 1]
                              /\ UNCHANGED failed
  /\ UNCHANGED <<current, controllers, disposed, queued, changes, refusals, unread>>

\* The browser accepted: recorded, or taken back when unregister came between.
Accepted ==
  /\ job # Nothing /\ job.awaits # Nothing
  /\ IF disposed
     THEN browser' = [browser EXCEPT ![job.awaits] = @ - 1] /\ Finished /\ UNCHANGED controllers
     ELSE /\ controllers' = controllers \cup {job.awaits}
          /\ job' = [job EXCEPT !.awaits = Nothing]
          /\ UNCHANGED <<browser, failed>>
  /\ UNCHANGED <<current, disposed, queued, changes, refusals, unread>>

\* The browser refused: nothing is recorded, the loop goes on.
Refused ==
  /\ job # Nothing /\ job.awaits # Nothing /\ refusals < MaxRefusals
  /\ refusals' = refusals + 1
  /\ browser' = [browser EXCEPT ![job.awaits] = @ - 1]
  /\ job' = [job EXCEPT !.awaits = Nothing, !.refused = @ \cup {job.awaits}]
  /\ UNCHANGED <<current, controllers, disposed, queued, changes, failed, unread>>

\* Mutant: a change during a reconcile is not followed.
ChangeSkipped ==
  /\ changes < MaxChanges /\ changes' = changes + 1
  /\ \E t \in Tool : current' = (current \ {t}) \cup ({t} \ current)
  /\ IF disposed \/ job # Nothing THEN UNCHANGED queued ELSE Enqueue
  /\ UNCHANGED <<controllers, browser, disposed, job, refusals, failed, unread>>

\* The Model's availability changes; a live subscription reconciles.
Change ==
  /\ changes < MaxChanges /\ changes' = changes + 1
  /\ \E t \in Tool : current' = (current \ {t}) \cup ({t} \ current)
  /\ IF disposed THEN UNCHANGED queued ELSE Enqueue
  /\ UNCHANGED <<controllers, browser, disposed, job, refusals, failed, unread>>

\* refresh, by a caller, at any time.
Refresh ==
  /\ changes < MaxChanges /\ changes' = changes + 1
  /\ Enqueue
  /\ UNCHANGED <<current, controllers, browser, disposed, job, refusals, failed, unread>>

Unregister ==
  /\ ~disposed /\ disposed' = TRUE
  /\ browser' = Aborted(controllers) /\ controllers' = {}
  /\ UNCHANGED <<current, queued, job, changes, refusals, failed, unread>>

Init ==
  /\ current \in SUBSET Tool /\ controllers = {} /\ browser = [t \in Tool |-> 0]
  /\ disposed = FALSE /\ queued = 1 /\ job = Nothing
  /\ changes = 0 /\ refusals = 0 /\ failed = {} /\ unread = FALSE

Next ==
  \/ Begin \/ ReadRejected \/ Withdraw \/ Register \/ Accepted \/ Refused
  \/ Change \/ Refresh \/ Unregister

Spec == Init /\ [][Next]_vars

\* Promises resume, and the browser answers registerTool.
Progress == Begin \/ ReadRejected \/ Withdraw \/ Register
BrowserAnswers == Accepted \/ Refused

Fairness == WF_vars(Progress) /\ WF_vars(BrowserAnswers)

(***************************************************************************)
(* Properties.                                                             *)
(***************************************************************************)

Quiet == job = Nothing /\ queued = 0

\* The browser never holds two registrations of one tool, and every one it
\* holds is recorded or awaited: overlapping reconciles would break both.
RegisteredOnce ==
  \A t \in Tool : browser[t] = (IF t \in controllers THEN 1 ELSE 0)
                               + (IF job # Nothing /\ job.awaits = t THEN 1 ELSE 0)

\* Once everything settled, the browser offers what the Model offers, but for
\* the tools it refused in the last reconcile and unless that one could not read
\* what the Model offers; after unregister nothing.
SettledIsCurrent ==
  Quiet => IF disposed THEN \A t \in Tool : browser[t] = 0
           ELSE unread \/ \A t \in Tool : (browser[t] = 1) <=> (t \in current \ failed)

\* Reconciles drain, and nothing survives unregister.
UnregisterTakesAllBack == disposed ~> \A t \in Tool : browser[t] = 0
=============================================================================
