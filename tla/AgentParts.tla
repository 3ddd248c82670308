----------------------------- MODULE AgentParts -----------------------------
(***************************************************************************)
(* The agent packages side by side: dispatch with its answers (extended),  *)
(* the contract, and the A2A, WebMCP and MCP adapters as instances.  Each  *)
(* has variables of its own: an adapter meets a dispatch only in how it    *)
(* ends.  The properties of the parts are stated and explained in their    *)
(* modules; here they are put together for the runs and the theorems.      *)
(***************************************************************************)
EXTENDS AgentAnswers

CONSTANTS Task, TaskCapacity,
          Tool, Priority, MaxToolChanges, MaxRefusals,
          Session, Conn, Request, ReplayBuffer, Ttl, MaxClock, MaxChanges, MaxLists,
          Declaration, ResourceName, Lower, Valid, Shape

VARIABLES tasks, running, sends, signalled, told,
          current, controllers, browser, disposed, queued, job, changes, refusals, failed, unread,
          sessions, conns, calls, dropped, clock, toolset, lists,
          declared, resourceNames, projecting, observing, contract

Tasks     == INSTANCE A2aTasks WITH Capacity <- TaskCapacity
Tools     == INSTANCE WebMcpRegistration WITH MaxChanges <- MaxToolChanges
Sessions  == INSTANCE McpSessions
Contracts == INSTANCE AgentContract

\* The handler keeps at least one task (Math.max); undefined is no task state.
ASSUME TasksAssumption == TaskCapacity \in Nat \ {0} /\ Nothing \notin Tasks!State

\* undefined is neither a tool nor a reconcile.
ASSUME ToolsAssumption == Nothing \notin Tool \cup Tools!Job

\* undefined is neither a transport, an event's id nor a record.
ASSUME SessionsAssumption ==
  /\ ReplayBuffer \in Nat /\ Nothing \notin Conn \cup Nat
  /\ Nothing \notin Sessions!Recorded /\ Nothing \notin Sessions!Response

\* An object with the fields of a declaration is an input someone can send.
ASSUME ContractAssumption == \A d \in Declaration : d.fields \in Shape

\* A2aTasks: the table stays bounded; a task it shows as working can be
\* cancelled, and a dispatch under way that cannot was pushed out or aborted; an
\* outcome a client was told is final, but for the answer of a send whose
\* cancelled task left the table.
TasksStayTrue == []Tasks!TasksAreReachable /\ Tasks!ToldIsFinal

\* WebMcpRegistration: no tool is registered twice or without a record, and
\* settled registrations are the tools of the Model, but for what the browser
\* refused, unless the last reconcile could not read them.
ToolsAreCurrent == Tools!RegisteredOnce /\ Tools!SettledIsCurrent

\* McpSessions: no transport gets an event of another stream, twice or out of
\* order; an event is received or replayed, or fell between a GET's answer and
\* its subscription; it is received at once while a transport is attached; who
\* hears nothing was displaced or lost its stream; termination aborts what runs;
\* a tool list is current, or a transport that was attached was told of a change.
SessionsDeliver ==
  /\ Sessions!OneStreamPerEvent /\ Sessions!DeliveredInOrder /\ Sessions!OpenIsCarried
  /\ Sessions!WhileAttachedIsHeard /\ Sessions!DeliveredOrReplayed
  /\ Sessions!TerminatedIsAborted /\ Sessions!ListIsCurrent

\* AgentContract: a name names one capability, a completion can be decided,
\* schemas accept what they advertise, and listed resources can be read.
ContractIsTrue == /\ Contracts!NamesAreUnambiguous /\ Contracts!CompletionsAreDecidable
                  /\ Contracts!AdvertisedIsAccepted /\ Contracts!ListedIsReadable
=============================================================================
