---------------------------- MODULE AgentAnswers ----------------------------
(***************************************************************************)
(* What the adapters answer for the end of a dispatch: summarize of        *)
(* packages/agent, tools/call of agent-mcp, message/send of agent-a2a, the *)
(* execute callback of agent-webmcp and run of agent-native.               *)
(***************************************************************************)
EXTENDS AgentDispatch

\* Effect.result captures these; defects and interruption make runPromise throw.
Failures == {"unknown capability", "unavailable", "invalid", "denied", "cancelled", "cancelled waiting", "timeout"}

\* summarize(result).ok, for a dispatch that succeeded.
SummaryOk(how) == how \in {"dispatched", "completed"}

\* tools/call: an error of the protocol, a tool error, or a result.
McpAnswer(how) ==
  CASE how \in {"unknown capability", "invalid"} -> "protocol error"
    [] SummaryOk(how) -> "result"
    [] OTHER -> "tool error"

\* message/send: stateFor of a failure, the summary of a success, failed in the
\* catch clause.
A2aState(how) ==
  CASE how \in {"cancelled", "cancelled waiting"} -> "canceled"
    [] how \in {"timeout", "failed", "defect", "interrupted"} -> "failed"
    [] how \in Failures \ {"cancelled", "cancelled waiting", "timeout"} -> "rejected"
    [] OTHER -> "completed"

\* isError of a WebMCP tool result.
WebMcpError(how) == how \in Failures \cup {"defect", "interrupted"} \/ ~SummaryOk(how)

\* ok of an Agent Native action result.
NativeOk(how) == how \notin Failures \cup {"defect", "interrupted"} /\ SummaryOk(how)

(***************************************************************************)
(* Properties.                                                             *)
(***************************************************************************)

\* All adapters call the same ends a success, and only those where the host
\* accepted the Message and no declared failure was observed.
SuccessIsAgreed ==
  \A i \in DOMAIN ended :
    LET how == ended[i].outcome
        ok  == McpAnswer(how) = "result"
    IN  /\ ok = (A2aState(how) = "completed") /\ ok = ~WebMcpError(how) /\ ok = NativeOk(how)
        /\ ok => ended[i].decision = "dispatched" /\ host[ended[i].call] = "accepted" /\ how # "failed"

\* An answer a client may retry, rejected over A2A or a protocol error over MCP,
\* is never given once the Message was handed to the host; and a cancellation
\* says rightly whether it was.
RejectedWasNotSent ==
  \A i \in DOMAIN ended :
    LET how  == ended[i].outcome
        sent == host[ended[i].call] # "none"
    IN  /\ A2aState(how) = "rejected" \/ McpAnswer(how) = "protocol error" => ~sent
        /\ how = "cancelled" => ~sent
        /\ how = "cancelled waiting" => sent

\* The audit and every answer, of the MCP, A2A, WebMCP and Agent Native
\* adapters, agree with what the host was sent and what it did, however
\* authorization, completion, timeout and cancellation interleave; and nothing
\* is sent after it was cancelled.
DispatchIsAccountable ==
  /\ [](/\ TypeOK /\ AuditIsTrue /\ AuditKeepsNewest /\ NoCompletionMissed /\ OutcomeHappened
        /\ SuccessIsAgreed /\ RejectedWasNotSent)
  /\ CancelledIsNotSent
=============================================================================
