------------------------------ MODULE A2aTasks ------------------------------
(***************************************************************************)
(* The A2A adapter's tasks (packages/agent-a2a/src/handler.ts): a bounded  *)
(* table in insertion order, message/send dispatching one task each, and   *)
(* tasks/get, tasks/cancel and close while a dispatch is under way or      *)
(* unwinding.  A dispatch is external here: it ends with any outcome.      *)
(***************************************************************************)
EXTENDS Naturals, Sequences, FiniteSets, SequencesExt

CONSTANTS Task,       \* one message/send each, with the id newId gives it
          Capacity,   \* tasks kept for tasks/get
          Nothing     \* undefined

VARIABLES tasks,     \* the Map: a sequence of [id, state] in insertion order
          running,   \* ids with an AbortController
          sends,     \* task -> "idle" | "running" | "answered"
          signalled, \* tasks whose controller was aborted
          told       \* history: the last state a response reported of a task

vars == <<tasks, running, sends, signalled, told>>

Terminal == {"completed", "failed", "rejected", "canceled"}
State == {"working"} \cup Terminal

Held(table) == {table[i].id : i \in DOMAIN table}
StateOf(table, t) == (CHOOSE r \in ToSet(table) : r.id = t).state

\* tasks.set keeps the place of a key it knows; a new key beyond the capacity
\* pushes the oldest out.
Remember(table, t, state) ==
  IF t \in Held(table)
  THEN [i \in DOMAIN table |-> IF table[i].id = t THEN [table[i] EXCEPT !.state = state] ELSE table[i]]
  ELSE LET longer == Append(table, [id |-> t, state |-> state])
       IN  IF Len(longer) > Capacity THEN Tail(longer) ELSE longer

\* Mutant: the settling write wins.
SettledOver(table, t, state) == Remember(table, t, state)

\* settle: a terminal state that stands is kept.
Settled(table, t, state) ==
  IF t \in Held(table) /\ StateOf(table, t) \in Terminal THEN table ELSE Remember(table, t, state)

Send(t) ==
  /\ sends[t] = "idle"
  /\ sends' = [sends EXCEPT ![t] = "running"]
  /\ running' = running \cup {t}
  /\ tasks' = Remember(tasks, t, "working")
  /\ UNCHANGED <<signalled, told>>

\* Mutant: an interrupted dispatch is never settled.
OutcomesUnsignalled(t) == IF t \in signalled THEN {} ELSE {"completed", "failed", "rejected"}

\* How the dispatch of t can end: interrupted by the signal it reads as
\* failed, or as canceled where the runtime noticed the abort first; an
\* outcome reached just before the abort stands.
Outcomes(t) == {"completed", "failed", "rejected"} \cup (IF t \in signalled THEN {"canceled"} ELSE {})

Answer(t, outcome) ==
  LET next == Settled(tasks, t, outcome)
  IN  /\ sends[t] = "running" /\ outcome \in Outcomes(t)
      /\ tasks' = next
      /\ sends' = [sends EXCEPT ![t] = "answered"]
      /\ running' = running \ {t}
      /\ told' = [told EXCEPT ![t] = StateOf(next, t)]
      /\ UNCHANGED signalled

\* tasks/get of a task the table holds; otherwise the answer is an error.
Get(t) ==
  /\ t \in Held(tasks)
  /\ told' = [told EXCEPT ![t] = StateOf(tasks, t)]
  /\ UNCHANGED <<tasks, running, sends, signalled>>

\* tasks/cancel records the state, then aborts; of a terminal task it is an error.
Cancel(t) ==
  /\ t \in Held(tasks) /\ StateOf(tasks, t) \notin Terminal
  /\ tasks' = Remember(tasks, t, "canceled")
  /\ signalled' = signalled \cup ({t} \cap running)
  /\ told' = [told EXCEPT ![t] = "canceled"]
  /\ UNCHANGED <<running, sends>>

\* close may be called again, and requests may follow it.
Close ==
  /\ signalled' = signalled \cup running /\ running' = {}
  /\ tasks' = <<>>
  /\ UNCHANGED <<sends, told>>

Init ==
  /\ tasks = <<>> /\ running = {} /\ signalled = {}
  /\ sends = [t \in Task |-> "idle"] /\ told = [t \in Task |-> Nothing]

Next ==
  \/ Close
  \/ \E t \in Task : \/ Send(t) \/ Get(t) \/ Cancel(t)
                     \/ \E outcome \in Terminal : Answer(t, outcome)

Spec == Init /\ [][Next]_vars

\* A dispatch ends (AgentDispatch.EveryDispatchEnds).
Fairness == \A t \in Task : WF_vars(\E outcome \in Terminal : Answer(t, outcome))

(***************************************************************************)
(* Properties.                                                             *)
(***************************************************************************)

\* The table never holds a task twice nor more than the capacity.  A task it
\* shows as working has a dispatch under way and the controller with which
\* tasks/cancel aborts it; any other send under way was pushed out of the full
\* table, and can no longer be cancelled, or was aborted.
TasksAreReachable ==
  /\ Len(tasks) <= Capacity /\ Cardinality(Held(tasks)) = Len(tasks)
  /\ running \subseteq {t \in Task : sends[t] = "running"}
  /\ \A t \in Held(tasks) : StateOf(tasks, t) = "working" => t \in running
  /\ \A t \in Task : sends[t] = "running" => t \in running \cup signalled
  /\ \A t \in running \ Held(tasks) : Len(tasks) = Capacity

\* An outcome a client was told is final, whoever told it first: the pending
\* message/send, tasks/get and tasks/cancel agree while a dispatch unwinds.  The
\* one answer that may differ is that of a send whose task left the table (pushed
\* out, or cleared by close) after it was cancelled: it settles the task anew.
ToldIsFinal ==
  [][\A t \in Task : told[t] \in Terminal =>
       \/ told'[t] = told[t]
       \/ sends[t] = "running" /\ t \in signalled \ Held(tasks)]_vars

\* Every message/send is answered, cancelled and closed ones included.
EverySendIsAnswered == (\E t \in Task : sends[t] = "running") ~> (\A t \in Task : sends[t] # "running")
=============================================================================
