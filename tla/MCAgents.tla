------------------------------ MODULE MCAgents ------------------------------
(***************************************************************************)
(* Small instances of the agent packages for TLC: the part that runs is    *)
(* chosen initially, the others rest in their initial state.               *)
(***************************************************************************)
EXTENDS AgentParts, TLC

CONSTANTS u1, u2, u3, s2, c1, c2, c3

VARIABLE part

Priorities == u1 :> 1 @@ u2 :> 2 @@ u3 :> 3

\* Tags with one default name, an acronym, one that needs a name of its own.
Declared == [tag : {<<"A", "b">>, <<"a", "b">>, <<"b", "A">>, <<"b", "_", "a">>, <<"b", " ">>}, name : {Nothing, <<"a", "b">>},
             known : {TRUE}, external : {FALSE}, toMessage : {FALSE}, fields : {{"x"}}, completes : {FALSE}, success : {{}}, failure : {{}}]
\* Inputs and completions of a second variant.
Detailed == [tag : {<<"c">>}, name : {Nothing}, known : BOOLEAN, external : BOOLEAN, toMessage : BOOLEAN, fields : {{}, {"x"}},
             completes : {TRUE}, success : {{}, {"m"}}, failure : {{}, {"m"}}]
            \cup [tag : {<<"c">>}, name : {Nothing}, known : BOOLEAN, external : BOOLEAN, toMessage : BOOLEAN, fields : {{}, {"x"}},
             completes : {FALSE}, success : {{}}, failure : {{}}]
Declarations == Declared \cup Detailed
Lowered == [c \in {"a", "b", "c", "A", "_", " "} |-> IF c = "A" THEN "a" ELSE c]
Shapes == {{}, {"x"}, {"x", "y"}, {"array"}, {"string"}}

taskVars == <<tasks, running, sends, signalled, told>>
toolVars == <<current, controllers, browser, disposed, queued, job, changes, refusals, failed, unread>>
mcpVars  == <<sessions, conns, calls, dropped, clock, toolset, lists>>
contractVars == <<declared, resourceNames, projecting, observing, contract>>

AgentsInit ==
  /\ part \in {"contract", "dispatch", "tasks", "tools", "streams", "requests"}
  /\ Init /\ Tasks!Init /\ Tools!Init /\ (part # "tools" => current = {}) /\ Sessions!Init
  /\ IF part = "contract" THEN Contracts!Init /\ (<<"c">> \in {declared[1].tag, declared[2].tag} => resourceNames = <<>>) ELSE declared = <<>> /\ resourceNames = <<>> /\ projecting = FALSE /\ observing = FALSE
     /\ contract = [outcome |-> "none", variants |-> <<>>]

Dispatches == part = "dispatch" /\ Next /\ UNCHANGED <<part, taskVars, toolVars, mcpVars, contractVars>>
A2aSteps   == part = "tasks" /\ Tasks!Next /\ UNCHANGED <<part, vars, toolVars, mcpVars, contractVars>>
ToolSteps  == part = "tools" /\ Tools!Next /\ UNCHANGED <<part, vars, taskVars, mcpVars, contractVars>>
\* GETs are alike: they come in this order.
GetsInOrder == \A pair \in {<<c1, c2>>, <<c2, c3>>} : conns[pair[1]] = Nothing => conns'[pair[2]] = Nothing

\* One session's streams, whose tools are listed once and may fail to be read;
\* two sessions with their requests.
McpSteps   == /\ Sessions!Next
              /\ \/ part = "streams" /\ lists' < MaxLists /\ GetsInOrder /\ UNCHANGED <<sessions[s2], calls, clock>>
                 \/ part = "requests" /\ UNCHANGED conns /\ \A s \in Session : sessions'[s] # Nothing => ~sessions'[s].unread
              /\ UNCHANGED <<part, vars, taskVars, toolVars, contractVars>>

Builds     == part = "contract" /\ Contracts!Next /\ UNCHANGED <<part, vars, taskVars, toolVars, mcpVars>>

AgentsNext == Builds \/ Dispatches \/ A2aSteps \/ ToolSteps \/ McpSteps

\* Only the part that runs can be asked for progress.
AgentsSpec ==
  /\ AgentsInit /\ [][AgentsNext]_<<part, vars, taskVars, toolVars, mcpVars, contractVars>>
  /\ Fairness /\ Tasks!Fairness
  /\ WF_toolVars(part = "tools" /\ Tools!Progress) /\ WF_toolVars(part = "tools" /\ Tools!BrowserAnswers)

\* Every dispatch ends, every message/send is answered, and unregister takes
\* every tool back.
EveryRequestEnds == EveryDispatchEnds /\ Tasks!EverySendIsAnswered /\ Tools!UnregisterTakesAllBack
=============================================================================
