--------------------------- MODULE AgentDispatch ---------------------------
(***************************************************************************)
(* Invocations of exposed capabilities on a bound agent runtime            *)
(* (packages/agent/src: runtime.ts, completion.ts, audit.ts): the checks   *)
(* before a Message is sent, the completion waiter around the send, and    *)
(* the audit record of every end.                                          *)
(*                                                                         *)
(* The host's Runtime is external: it accepts a Message or raises, and may *)
(* process the Message, and the one that finishes its operation, from the  *)
(* moment it was called.                                                   *)
(***************************************************************************)
EXTENDS Naturals, Sequences, FiniteSets

CONSTANTS Call,        \* invocations
          Capability,  \* the contract's variants
          Completes,   \* capabilities that declare a completion
          Correlated,  \* ... whose completion has a correlate predicate
          Suspends,    \* capabilities whose authorize hook returns an Effect
          Gated,       \* capabilities that declare available(model)
          Capacity,    \* entries the audit log keeps
          Nothing      \* undefined

Status == {"completed", "failed"}

ASSUME DispatchAssumption ==
  /\ Correlated \subseteq Completes /\ Completes \subseteq Capability /\ Gated \subseteq Capability
  /\ Nothing \notin Capability \cup Status
  /\ Capacity \in Nat \ {0}

VARIABLES offered,    \* the capabilities available(model) holds for
          target,     \* call -> the capability it names, or Nothing
          stage,      \* call -> where its dispatch stands
          aborted,    \* calls whose AbortSignal fired
          delivery,   \* call -> DispatchProgress.delivery
          host,       \* call -> what became of host.dispatch
          listening,  \* calls whose waiter is subscribed and not released
          settled,    \* call -> the waiter's outcome, or Nothing
          woken,      \* call -> what ended the wait, or Nothing
          finished,   \* call -> the status its operation finished with, or Nothing
          audit,      \* the entries of the audit log
          ended       \* history: the record of every dispatch that ended

vars == <<offered, target, stage, aborted, delivery, host, listening, settled, woken, finished, audit, ended>>

Endings == Status \cup {"dispatched", "timeout", "cancelled", "cancelled waiting", "interrupted", "unknown capability",
                        "unavailable", "invalid", "denied", "defect"}

(***************************************************************************)
(* The audit record.                                                       *)
(***************************************************************************)

DecisionOf(progress) ==
  CASE progress = "sent" -> "dispatched" [] progress = "attempted" -> "unknown" [] OTHER -> "refused"

Kept(entries) == IF Len(entries) > Capacity THEN Tail(entries) ELSE entries

\* The dispatch of c exits: finalizers run, the exit is recorded.
Exit(c, progress, how) ==
  LET entry == [call |-> c, decision |-> DecisionOf(progress), outcome |-> how]
  IN  /\ stage' = [stage EXCEPT ![c] = "done"]
      /\ delivery' = [delivery EXCEPT ![c] = progress]
      /\ listening' = listening \ {c}
      /\ audit' = Kept(Append(audit, entry))
      /\ ended' = Append(ended, entry)

(***************************************************************************)
(* dispatchResolved.                                                       *)
(***************************************************************************)

\* Mutant: the waiter subscribes after the send.
HandUnheard(c, k) ==
  /\ stage' = [stage EXCEPT ![c] = "sending"]
  /\ delivery' = [delivery EXCEPT ![c] = "attempted"]
  /\ host' = [host EXCEPT ![c] = "holds"]
  /\ UNCHANGED <<listening, audit, ended>>

\* The waiter subscribes, delivery is marked and host.dispatch is called.
Hand(c, k) ==
  /\ stage' = [stage EXCEPT ![c] = "sending"]
  /\ delivery' = [delivery EXCEPT ![c] = "attempted"]
  /\ host' = [host EXCEPT ![c] = "holds"]
  /\ listening' = listening \cup (IF k \in Completes THEN {c} ELSE {})
  /\ UNCHANGED <<audit, ended>>

\* A refusal: nothing was sent.
Refuse(c, why) == Exit(c, "none", why) /\ UNCHANGED host

\* From the resolution of k to the send, or to the authorize hook's suspension.
Dispatch(c, k) ==
  /\ stage[c] = "idle"
  /\ target' = [target EXCEPT ![c] = k]
  /\ IF k = Nothing THEN Refuse(c, "unknown capability")
     ELSE IF c \in aborted THEN Refuse(c, "cancelled")
     ELSE IF k \notin offered THEN Refuse(c, "unavailable")
     ELSE \/ \E why \in {"invalid", "denied", "defect"} : Refuse(c, why)
          \/ /\ k \in Suspends
             /\ stage' = [stage EXCEPT ![c] = "authorizing"]
             /\ UNCHANGED <<delivery, host, listening, audit, ended>>
          \/ k \notin Suspends /\ Hand(c, k)
  /\ UNCHANGED <<offered, aborted, settled, woken, finished>>

\* The authorize hook's Effect answers.
Authorized(c) ==
  /\ stage[c] = "authorizing"
  /\ \/ \E why \in {"denied", "defect"} : Refuse(c, why)
     \/ c \in aborted /\ Refuse(c, "cancelled")
     \/ c \notin aborted /\ Hand(c, target[c])
  /\ UNCHANGED <<offered, target, aborted, settled, woken, finished>>

\* The host accepted the Message: the dispatch ends, or its wait begins.
HostAccepts(c) ==
  /\ host[c] = "holds"
  /\ host' = [host EXCEPT ![c] = "accepted"]
  /\ IF stage[c] # "sending"
     THEN UNCHANGED <<stage, delivery, listening, audit, ended, woken>>
     ELSE IF target[c] \in Completes
     THEN /\ stage' = [stage EXCEPT ![c] = "waiting"]
          /\ delivery' = [delivery EXCEPT ![c] = "sent"]
          /\ woken' = [woken EXCEPT ![c] = IF settled[c] # Nothing THEN settled[c]
                                           ELSE IF c \in aborted THEN "cancelled waiting" ELSE Nothing]
          /\ UNCHANGED <<listening, audit, ended>>
     ELSE Exit(c, "sent", "dispatched") /\ UNCHANGED woken
  /\ UNCHANGED <<offered, target, aborted, settled, finished>>

\* The host threw, or its Promise or Effect failed.
HostRaises(c) ==
  /\ host[c] = "holds"
  /\ host' = [host EXCEPT ![c] = "raised"]
  /\ IF stage[c] = "sending" THEN Exit(c, delivery[c], "defect")
     ELSE UNCHANGED <<stage, delivery, listening, audit, ended>>
  /\ UNCHANGED <<offered, target, aborted, settled, woken, finished>>

(***************************************************************************)
(* awaitCompletion.                                                        *)
(***************************************************************************)

\* Whether the waiter of d takes the Message that finishes c's operation.
Owns(d, c) == target[d] = target[c] /\ (target[c] \in Correlated => d = c)

\* The Runtime processes the Message that finishes c's operation; every
\* subscribed waiter sees it.
Finishes(c, status) ==
  LET taken == {d \in listening : settled[d] = Nothing /\ Owns(d, c)}
  IN  /\ host[c] # "none" /\ target[c] \in Completes /\ finished[c] = Nothing
      /\ finished' = [finished EXCEPT ![c] = status]
      /\ settled' = [d \in Call |-> IF d \in taken THEN status ELSE settled[d]]
      /\ woken' = [d \in Call |-> IF d \in taken /\ stage[d] = "waiting" /\ woken[d] = Nothing
                                  THEN status ELSE woken[d]]
      /\ UNCHANGED <<offered, target, stage, aborted, delivery, host, listening, audit, ended>>

\* The deadline, which runs from the start of the wait.
Timeout(c) ==
  /\ stage[c] = "waiting" /\ woken[c] = Nothing
  /\ woken' = [woken EXCEPT ![c] = "timeout"]
  /\ UNCHANGED <<offered, target, stage, aborted, delivery, host, listening, settled, finished, audit, ended>>

\* The caller's signal fires.
Abort(c) ==
  /\ c \notin aborted /\ stage[c] # "done"
  /\ aborted' = aborted \cup {c}
  /\ woken' = IF stage[c] = "waiting" /\ woken[c] = Nothing
              THEN [woken EXCEPT ![c] = "cancelled waiting"] ELSE woken
  /\ UNCHANGED <<offered, target, stage, delivery, host, listening, settled, finished, audit, ended>>

\* The wait is over and the dispatch returns.
Return(c) ==
  /\ stage[c] = "waiting" /\ woken[c] # Nothing
  /\ Exit(c, "sent", woken[c])
  /\ UNCHANGED <<offered, target, aborted, host, settled, woken, finished>>

\* The caller interrupts the fiber that runs the dispatch.
Interrupt(c) ==
  /\ stage[c] \in {"authorizing", "sending", "waiting"}
  /\ Exit(c, delivery[c], "interrupted")
  /\ UNCHANGED <<offered, target, aborted, host, settled, woken, finished>>

\* The Model changes what it offers.
Offer(k) ==
  /\ offered' = (offered \ {k}) \cup ({k} \ offered)
  /\ UNCHANGED <<target, stage, aborted, delivery, host, listening, settled, woken, finished, audit, ended>>

Init ==
  /\ offered = Capability /\ target = [c \in Call |-> Nothing] /\ aborted = {} /\ listening = {} /\ audit = <<>> /\ ended = <<>>
  /\ stage = [c \in Call |-> "idle"] /\ delivery = [c \in Call |-> "none"]
  /\ host = [c \in Call |-> "none"] /\ settled = [c \in Call |-> Nothing]
  /\ woken = [c \in Call |-> Nothing] /\ finished = [c \in Call |-> Nothing]

Next ==
  \/ \E c \in Call :
       \/ (\E k \in Capability \cup {Nothing} : Dispatch(c, k)) \/ Authorized(c) \/ HostAccepts(c) \/ HostRaises(c)
       \/ Timeout(c) \/ Abort(c) \/ Return(c) \/ Interrupt(c)
       \/ \E status \in Status : Finishes(c, status)
  \/ \E k \in Gated : Offer(k)

Spec == Init /\ [][Next]_vars

\* An authorize hook and the host answer, the clock runs, fibers resume.
Fairness ==
  \A c \in Call :
    WF_vars(Authorized(c) \/ HostAccepts(c) \/ HostRaises(c) \/ Timeout(c) \/ Return(c))

FairSpec == Spec /\ Fairness

(***************************************************************************)
(* Properties.                                                             *)
(***************************************************************************)

Entry == [call : Call, decision : {"dispatched", "refused", "unknown"}, outcome : Endings]

\* Types of all variables; a subscription belongs to a dispatch that has sent
\* its Message and not ended (the waiter's finalizer covers every exit).
TypeOK ==
  /\ offered \subseteq Capability /\ target \in [Call -> Capability \cup {Nothing}] /\ aborted \subseteq Call
  /\ stage \in [Call -> {"idle", "authorizing", "sending", "waiting", "done"}]
  /\ delivery \in [Call -> {"none", "attempted", "sent"}]
  /\ host \in [Call -> {"none", "holds", "accepted", "raised"}]
  /\ listening \subseteq {c \in Call : stage[c] \in {"sending", "waiting"}}
  /\ settled \in [Call -> Status \cup {Nothing}]
  /\ woken \in [Call -> Status \cup {"timeout", "cancelled waiting", Nothing}]
  /\ finished \in [Call -> Status \cup {Nothing}]
  /\ audit \in Seq(Entry) /\ ended \in Seq(Entry)

\* What the audit record says of delivery is true whatever raised, timed out or
\* was interrupted: refused means the host was never called, dispatched means
\* it accepted, and an outcome of the wait is never recorded as a refusal.
AuditIsTrue ==
  \A i \in DOMAIN ended :
    LET c == ended[i].call
    IN  /\ ended[i].decision = "refused" => host[c] = "none"
        /\ ended[i].decision = "dispatched" => host[c] = "accepted"
        /\ ended[i].decision = "unknown" => host[c] # "none"

\* The log keeps the newest records in the order the dispatches ended.
AuditKeepsNewest ==
  audit = SubSeq(ended, IF Len(ended) > Capacity THEN Len(ended) - Capacity + 1 ELSE 1, Len(ended))

\* A dispatch still waiting without a reason to stop has not missed the Message
\* that finished its operation, even one processed inside host.dispatch.
NoCompletionMissed ==
  \A c \in Call : stage[c] = "waiting" /\ woken[c] = Nothing => finished[c] = Nothing

\* A status answered was really reached: by the caller's own operation where
\* the completion correlates, else by one of the same capability.
OutcomeHappened ==
  \A i \in DOMAIN ended : ended[i].outcome \in Status =>
    LET c == ended[i].call
    IN  IF target[c] \in Correlated THEN finished[c] = ended[i].outcome
        ELSE \E d \in Call : target[d] = target[c] /\ finished[d] = ended[i].outcome

\* A call cancelled before its Message was sent never sends it, wherever its
\* authorization was suspended when the signal fired.
CancelledIsNotSent ==
  [][\A c \in Call : c \in aborted /\ host[c] = "none" => host'[c] = "none"]_vars

\* Every dispatch ends, provided the authorize hook and the host answer: the
\* wait itself always has a deadline (each call is made once).
EveryDispatchEnds ==
  (\E c \in Call : stage[c] \notin {"idle", "done"}) ~> (\A c \in Call : stage[c] \in {"idle", "done"})
=============================================================================
